------------------------- MODULE LicenseRuntimeProofs -------------------------
(***************************************************************************)
(* The safety properties of LicenseRuntime hold for every number of        *)
(* handlers, tokens and bindings, every limit, every bound and every set   *)
(* of faults.  The argument: three lemmas say what a step may do to Redis, *)
(* to a handler and to the license row; from them each part of IInv is     *)
(* preserved; and IInv implies the properties.                             *)
(***************************************************************************)
EXTENDS LicenseRuntime, RedisSessionsProofs

-----------------------------------------------------------------------------
(* Types                                                                   *)

LEMMA IdleType == Idle \in RequestState /\ Idle.pc = "idle" /\ Idle.revision = 0
BY BindingAssumption DEF Idle, RequestState, AnyBinding

(* Writing one handler's state keeps the type of all of them.              *)
LEMMA GotoType ==
    ASSUME TypeOK, NEW r \in Request, NEW state \in RequestState, Goto(r, state),
           state.pc \in WithToken => state.token \in Token
    PROVE  /\ request' \in [Request -> RequestState]
           /\ \A q \in Request : request'[q].pc \in WithToken => request'[q].token \in Token
BY DEF TypeOK, Goto

LEMMA FinishType ==
    ASSUME TypeOK, NEW r \in Request, Finish(r)
    PROVE  /\ request' \in [Request -> RequestState]
           /\ \A q \in Request : request'[q].pc \in WithToken => request'[q].token \in Token
<1>1. Idle.pc \notin WithToken
  BY IdleType DEF WithToken
<1> QED BY <1>1, IdleType, GotoType DEF Finish

(* The steps of a request keep the types.                                  *)
LEMMA ActivateType ==
    ASSUME TypeOK, NEW r \in Request,
           ActivateStep(r) \/ TransactionLost(r) \/ Crash(r)
    PROVE  TypeOK'
<1> USE DEF access
<1>0. /\ request[r] \in RequestState /\ redis \in Store
      /\ request[r].revision \in Nat /\ request[r].binding \in Binding
      /\ request[r].maxSessions \in Nat
  BY DEF TypeOK, RequestState
<1>1. ASSUME NEW t \in Token
      PROVE  Register(redis, t, request[r].revision, request[r].binding,
                      request[r].maxSessions) \in Store
  BY <1>0, RegisterLemma
<1>2. Purge(redis, request[r].revision) \in Store
  BY <1>0, PurgeLemma
<1>3. ASSUME request[r].pc \in WithToken
      PROVE  Remove(redis, request[r].token, request[r].binding) \in Store
  BY <1>0, <1>3, RemoveLemma DEF TypeOK
<1>a. CASE AdmitBegin(r)
  <2>1. [Local(r, "admitting") EXCEPT !.maxSessions = license.limits.maxSessions]
            \in RequestState
    BY <1>0 DEF TypeOK, License, Local, RequestState, ActivatePc
  <2>2. [Local(r, "admitting") EXCEPT !.maxSessions = license.limits.maxSessions].pc
            = "admitting"
    BY <1>0 DEF Local, RequestState
  <2> QED BY <1>a, <2>1, <2>2, GotoType DEF AdmitBegin, TypeOK, WithToken
<1>b. CASE AdmitReject(r)
  BY <1>b, FinishType DEF AdmitReject, TypeOK
<1>c. CASE RegisterSession(r)
  <2>1. PICK t \in Token \ minted :
          /\ minted' = minted \cup {t}
          /\ redis' = Register(redis, t, request[r].revision, request[r].binding,
                               request[r].maxSessions)
          /\ Goto(r, [Local(r, "registered") EXCEPT !.token = t])
    BY <1>c DEF RegisterSession
  <2>2. [Local(r, "registered") EXCEPT !.token = t] \in RequestState
    BY <1>0 DEF Local, RequestState, ActivatePc
  <2>3. [Local(r, "registered") EXCEPT !.token = t].token = t
    BY <1>0 DEF Local, RequestState
  <2> QED BY <1>c, <1>1, <2>1, <2>2, <2>3, GotoType DEF RegisterSession, TypeOK
<1>d. CASE RegisterLimit(r)
  BY <1>d, <1>2, FinishType DEF RegisterLimit, Unlock, TypeOK
<1>e. CASE RegisterFault(r)
  BY <1>e, <1>1, FinishType DEF RegisterFault, Unlock, TypeOK
<1>f. CASE AdmitCommit(r)
  <2>1. license' \in License
    BY <1>f DEF AdmitCommit, Recorded, TypeOK, License
  <2>2. request[r].token \in Token
    BY <1>f DEF AdmitCommit, TypeOK, WithToken
  <2> QED BY <1>0, <1>f, <2>1, <2>2, FinishType DEF AdmitCommit, Recorded, Unlock, TypeOK
<1>g. CASE AdmitAbort(r)
  <2>1. Local(r, "abandoned") \in RequestState /\ Local(r, "abandoned").token \in Token
    BY <1>0, <1>g DEF AdmitAbort, Local, RequestState, ActivatePc, TypeOK, WithToken
  <2>2. license' \in License
    BY <1>g DEF AdmitAbort, Recorded, TypeOK, License
  <2>3. registered' \in SUBSET Binding
    BY <1>0, <1>g DEF AdmitAbort, Recorded, TypeOK
  <2> QED BY <1>g, <2>1, <2>2, <2>3, GotoType DEF AdmitAbort, Unlock, TypeOK
<1>h. CASE AdmitCleanup(r)
  BY <1>h, <1>3, FinishType DEF AdmitCleanup, TypeOK, WithToken
<1>i. CASE TransactionLost(r)
  BY <1>i DEF TransactionLost, TypeOK
<1>j. CASE Crash(r)
  BY <1>j, FinishType DEF Crash, Unlock, TypeOK
<1> QED
  BY <1>a, <1>b, <1>c, <1>d, <1>e, <1>f, <1>g, <1>h, <1>i, <1>j DEF ActivateStep

LEMMA HeartbeatType ==
    ASSUME TypeOK, NEW r \in Request, HeartbeatStep(r)
    PROVE  TypeOK'
<1> USE DEF access
<1>0. request[r] \in RequestState /\ redis \in Store
  BY DEF TypeOK
<1>1. ASSUME request[r].pc \in WithToken, NEW pc \in HeartbeatPc, NEW active \in BOOLEAN
      PROVE  /\ [Local(r, pc) EXCEPT !.active = active] \in RequestState
             /\ Local(r, pc) \in RequestState
             /\ [Local(r, pc) EXCEPT !.active = active].token \in Token
             /\ Local(r, pc).token \in Token
  BY <1>0, <1>1 DEF TypeOK, Local, RequestState
<1>2. ASSUME request[r].pc \in WithToken
      PROVE  Remove(redis, request[r].token, request[r].binding) \in Store
  BY <1>0, <1>2, RemoveLemma DEF TypeOK
<1>a. CASE HeartbeatLoad(r)
  <2>1. request[r].pc \in WithToken
    BY <1>a DEF HeartbeatLoad, WithToken
  <2>2. (Status = "active") \in BOOLEAN
    OBVIOUS
  <2> QED BY <1>a, <1>1, <2>1, <2>2, GotoType DEF HeartbeatLoad, HeartbeatPc, TypeOK
<1>b. CASE HeartbeatDecide(r)
  <2>1. request[r].pc \in WithToken
    BY <1>b DEF HeartbeatDecide, WithToken
  <2> QED BY <1>b, <1>1, <2>1, GotoType, FinishType DEF HeartbeatDecide, HeartbeatPc, TypeOK
<1>c. CASE HeartbeatReject(r)
  BY <1>c, <1>2, FinishType DEF HeartbeatReject, TypeOK, WithToken
<1> QED BY <1>a, <1>b, <1>c DEF HeartbeatStep

LEMMA ClientType ==
    ASSUME TypeOK, ClientStep
    PROVE  TypeOK'
<1> USE DEF access
<1>a. ASSUME NEW r \in Request, NEW b \in Binding, ActivateLookup(r, b) PROVE TypeOK'
  <2> DEFINE state == [Idle EXCEPT !.pc = "lookedUp", !.key = license.key,
                                   !.revision = license.revision, !.binding = b]
  <2>1. state \in RequestState /\ state.pc = "lookedUp"
    BY IdleType DEF TypeOK, License, RequestState, ActivatePc
  <2> QED BY <1>a, <2>1, GotoType DEF ActivateLookup, TypeOK, WithToken
<1>b. ASSUME NEW r \in Request, NEW t \in issued, NEW b \in Binding, HeartbeatRefresh(r, t, b)
      PROVE TypeOK'
  <2> DEFINE state == [Idle EXCEPT !.pc = "resolved", !.token = t, !.binding = b,
                                   !.revision = redis.session[t].revision]
  <2>1. t \in Live(redis) /\ t \in Token
    BY <1>b DEF HeartbeatRefresh, Bound, TypeOK
  <2>2. redis.session[t].revision \in Nat
    BY <2>1, LiveValue DEF TypeOK, Session
  <2>3. state \in RequestState /\ state.token \in Token
    BY <2>1, <2>2, IdleType DEF RequestState, HeartbeatPc
  <2>4. redis' \in Store
    BY <1>b, <2>1, RefreshLemma DEF HeartbeatRefresh, TypeOK
  <2> QED BY <1>b, <2>3, <2>4, GotoType DEF HeartbeatRefresh, TypeOK
<1>c. ASSUME NEW t \in issued, NEW b \in Binding, Deactivate(t, b) PROVE TypeOK'
  BY <1>c, RemoveLemma DEF Deactivate, TypeOK
<1> QED BY <1>a, <1>b, <1>c DEF ClientStep

(* A row write that moves the revision on keeps the types.                 *)
LEMMA InvalidateType ==
    ASSUME TypeOK, NEW o \in Operator, NEW row \in License,
           NEW pc \in {"reload", "cleanup"}, Invalidate(o, row, pc)
    PROVE  /\ license' \in License
           /\ condemned' \subseteq Token
           /\ operator' \in [Operator -> OperatorState]
BY DEF TypeOK, Invalidate, OperatorGoto, OperatorState, License

LEMMA OperatorType ==
    ASSUME TypeOK, NEW o \in Operator, OperatorStep(o)
    PROVE  TypeOK'
<1> USE DEF access
<1>0. license \in License /\ redis \in Store /\ Ready \in OperatorState
  BY DEF TypeOK, Ready, OperatorState
<1>a. CASE Revoke(o)
  <2>1. [license EXCEPT !.revoked = TRUE] \in License
    BY <1>0 DEF License
  <2> QED BY <1>a, <2>1, InvalidateType DEF Revoke, TypeOK
<1>b. CASE TerminateSessions(o)
  BY <1>0, <1>b, InvalidateType DEF TerminateSessions, TypeOK
<1>c. CASE RotateKey(o)
  <2>1. [license EXCEPT !.key = @ + 1] \in License
    BY <1>0 DEF License
  <2> QED BY <1>c, <2>1, InvalidateType DEF RotateKey, TypeOK
<1>d. ASSUME NEW gone, RemoveRegistered(o, gone) PROVE TypeOK'
  BY <1>0, <1>d, InvalidateType DEF RemoveRegistered, TypeOK
<1>e. CASE ResetRegisteredDevices(o)
  BY <1>0, <1>e, InvalidateType DEF ResetRegisteredDevices, TypeOK
<1>f. CASE Restore(o)
  BY <1>f DEF Restore, TypeOK, License
<1>g. CASE DeleteLicense(o)
  BY <1>g DEF DeleteLicense, TypeOK, License, OperatorGoto, OperatorState
<1>h. ASSUME NEW type \in LicenseType, NEW limits \in Limits, UpdateLicense(o, type, limits)
      PROVE  TypeOK'
  <2>1. PICK time \in UpdatedTime(type) :
          license' = [license EXCEPT
                       !.type = type, !.limits = limits, !.timeLeft = time,
                       !.trialStarted = IF type = license.type THEN @ ELSE type = "trial",
                       !.billing = @ /\ type = "subscription"]
    BY <1>h DEF UpdateLicense
  <2>2. type \in LicenseTypes /\ limits \in [maxIps : Nat, maxDevices : Nat, maxSessions : Nat]
    BY LicenseTypeAssumption, LimitsAssumption
  <2>3. time \in Nat
    BY <1>0, <2>1, <2>2, HorizonAssumption DEF UpdatedTime, License, LicenseTypes
  <2>4. /\ (IF type = license.type THEN license.trialStarted ELSE type = "trial") \in BOOLEAN
        /\ (license.billing /\ type = "subscription") \in BOOLEAN
    BY <1>0 DEF License
  <2>5. license' \in License
    BY <1>0, <2>1, <2>2, <2>3, <2>4 DEF License
  <2> QED BY <1>h, <2>5 DEF UpdateLicense, TypeOK
<1>i. CASE EditAllowlist(o)
  BY <1>i DEF EditAllowlist, TypeOK
<1>j. CASE OperatorReload(o)
  BY <1>0, <1>j DEF OperatorReload, OperatorGoto, OperatorState, TypeOK, License
<1>k. CASE OperatorCleanup(o)
  <2>1. operator[o].minimum \in Int
    BY DEF TypeOK, OperatorState, NoMinimum
  <2>2. RemoveAll(redis, operator[o].minimum) \in Store
    BY <1>0, <2>1, RemoveAllLemma
  <2> QED BY <1>0, <1>k, <2>2 DEF OperatorCleanup, TypeOK
<1>l. CASE OperatorCrash(o)
  BY <1>0, <1>l DEF OperatorCrash, TypeOK
<1> QED
  BY <1>a, <1>b, <1>c, <1>d, <1>e, <1>f, <1>g, <1>h, <1>i, <1>j, <1>k, <1>l
  DEF OperatorStep, RemoveRegisteredIp, RemoveRegisteredDevice

LEMMA EnvironmentType ==
    ASSUME TypeOK, Reconcile \/ Tick
    PROVE  TypeOK'
<1> USE DEF access
<1>a. CASE Reconcile
  <2>1. PICK blocked \in BOOLEAN, paidThrough \in 0 .. Horizon :
          license' = [license EXCEPT !.billing = blocked, !.timeLeft = paidThrough]
    BY <1>a DEF Reconcile
  <2>2. paidThrough \in Nat
    BY HorizonAssumption
  <2>3. license' \in License
    BY <2>1, <2>2 DEF TypeOK, License
  <2> QED BY <1>a, <2>3 DEF Reconcile, TypeOK
<1>b. CASE Tick
  <2>1. redis' \in Store
    BY <1>b, ElapsedLemma DEF Tick, TypeOK
  <2>2. (IF Running /\ license.timeLeft > 0 THEN license.timeLeft - 1 ELSE license.timeLeft) \in Nat
    BY DEF TypeOK, License
  <2>3. license' \in License
    BY <1>b, <2>2 DEF Tick, TypeOK, License
  <2> QED BY <1>b, <2>1, <2>3 DEF Tick, TypeOK
<1> QED BY <1>a, <1>b

LEMMA TypeInit == Init => TypeOK
<1> SUFFICES ASSUME Init PROVE TypeOK
  OBVIOUS
<1>1. PICK type \in LicenseType, limits \in Limits : \E time \in TimeOf(type) :
          license = [exists |-> TRUE, key |-> 0, revision |-> 0, type |-> type,
                     timeLeft |-> time, trialStarted |-> FALSE,
                     revoked |-> FALSE, billing |-> FALSE, limits |-> limits]
  BY DEF Init
<1>2. \A time \in TimeOf(type) : time \in Nat
  BY HorizonAssumption DEF TimeOf
<1>3. license \in License
  BY <1>1, <1>2, LicenseTypeAssumption, LimitsAssumption DEF License
<1>4. request \in [Request -> RequestState] /\ operator \in [Operator -> OperatorState]
  BY IdleType DEF Init, Ready, OperatorState
<1>5. \A r \in Request : request[r].pc \notin WithToken
  BY IdleType DEF Init, WithToken
<1> QED BY <1>3, <1>4, <1>5, EmptyStoreLemma DEF Init, TypeOK

LEMMA TypeNext == TypeOK /\ [Next]_vars => TypeOK'
<1> SUFFICES ASSUME TypeOK, [Next]_vars PROVE TypeOK'
  OBVIOUS
<1>1. CASE UNCHANGED vars
  BY <1>1 DEF vars, TypeOK
<1>2. CASE Next
  BY <1>2, ClientType, ActivateType, HeartbeatType, OperatorType, EnvironmentType DEF Next
<1> QED BY <1>1, <1>2

(* Type correctness: every reachable state of the runtime is well typed,   *)
(* for every value of the constants.                                       *)
THEOREM TypeCorrect == Spec => []TypeOK
BY TypeInit, TypeNext, PTL DEF Spec

-----------------------------------------------------------------------------
(* What a step may do                                                      *)

(* The session of a token goes on with its revision and binding.           *)
Kept(t) ==
    /\ t \in Live(redis)
    /\ redis'.session[t].revision = redis.session[t].revision
    /\ redis'.session[t].binding = redis.session[t].binding

(* An admission has stored the session of a new token.                     *)
Stored(t) ==
    /\ t \in minted' \ minted
    /\ UNCHANGED <<license, registered, issued, condemned>>
    /\ \E r \in Request : /\ redis'.session[t].revision = request[r].revision
                          /\ redis'.session[t].binding = request[r].binding

(* Redis: the set goes on covering, and a live session was live or is new. *)
RedisFrame ==
    /\ SetCoversSessions => SetCoversSessions'
    /\ minted \subseteq minted'
    /\ \A t \in Live(redis') : Kept(t) \/ Stored(t)

LEMMA SetIsCovered == /\ SetCoversSessions <=> Covered(redis)
                      /\ SetCoversSessions' <=> Covered(redis')
BY DEF SetCoversSessions, Covered

LEMMA ShrinksFrame ==
    ASSUME Shrinks(redis, redis'), Covered(redis) => Covered(redis'), UNCHANGED minted
    PROVE  RedisFrame
BY SetIsCovered DEF RedisFrame, Shrinks, Kept

LEMMA SameRedisFrame ==
    ASSUME UNCHANGED <<redis, minted>>
    PROVE  RedisFrame
<1>1. Shrinks(redis, redis')
  BY DEF Shrinks
<1> QED BY <1>1, ShrinksFrame

LEMMA RegisterFrame ==
    ASSUME TypeOK, NEW r \in Request, NEW t \in Token \ minted,
           minted' = minted \cup {t},
           redis' = Register(redis, t, request[r].revision, request[r].binding,
                             request[r].maxSessions),
           UNCHANGED <<license, registered, issued, condemned>>
    PROVE  RedisFrame
<1>1. /\ redis \in Store /\ request[r].revision \in Nat /\ request[r].binding \in Binding
      /\ request[r].maxSessions \in Nat
  BY DEF TypeOK, RequestState
<1>2. /\ Covered(redis) => Covered(redis')
      /\ \A u \in Live(redis') :
            \/ /\ u = t
               /\ redis'.session[u].revision = request[r].revision
               /\ redis'.session[u].binding = request[r].binding
            \/ Kept(u)
  BY <1>1, RegisterLemma DEF Kept
<1>3. \A u \in Live(redis') : Kept(u) \/ Stored(u)
  BY <1>2 DEF Stored
<1> QED BY <1>2, <1>3, SetIsCovered DEF RedisFrame

LEMMA RedisStep == TypeOK /\ [Next]_vars => RedisFrame
<1> SUFFICES ASSUME TypeOK, [Next]_vars PROVE RedisFrame
  OBVIOUS
<1>0. redis \in Store
  BY DEF TypeOK
<1>1. CASE UNCHANGED vars
  BY <1>1, SameRedisFrame DEF vars
<1>2. CASE ClientStep
  <2>1. ASSUME NEW r \in Request, NEW b \in Binding, ActivateLookup(r, b) PROVE RedisFrame
    BY <2>1, SameRedisFrame DEF ActivateLookup
  <2>2. ASSUME NEW r \in Request, NEW t \in issued, NEW b \in Binding, HeartbeatRefresh(r, t, b)
        PROVE  RedisFrame
    BY <1>0, <2>2, RefreshLemma, ShrinksFrame DEF HeartbeatRefresh, Bound
  <2>3. ASSUME NEW t \in issued, NEW b \in Binding, Deactivate(t, b) PROVE RedisFrame
    BY <1>0, <2>3, RemoveLemma, ShrinksFrame DEF Deactivate, TypeOK
  <2> QED BY <1>2, <2>1, <2>2, <2>3 DEF ClientStep
<1>3. ASSUME NEW r \in Request, ActivateStep(r) PROVE RedisFrame
  <2>0. request[r].pc \in WithToken => request[r].token \in Token
    BY DEF TypeOK
  <2>1. CASE AdmitBegin(r) \/ AdmitReject(r) \/ AdmitCommit(r) \/ AdmitAbort(r)
    BY <2>1, SameRedisFrame DEF AdmitBegin, AdmitReject, AdmitCommit, AdmitAbort
  <2>2. CASE RegisterSession(r)
    BY <2>2, RegisterFrame DEF RegisterSession
  <2>3. CASE RegisterLimit(r)
    <3>1. request[r].revision \in Nat
      BY DEF TypeOK, RequestState
    <3> QED BY <1>0, <2>3, <3>1, PurgeLemma, ShrinksFrame DEF RegisterLimit
  <2>4. CASE RegisterFault(r)
    BY <2>4, RegisterFrame, SameRedisFrame DEF RegisterFault
  <2>5. CASE AdmitCleanup(r)
    BY <1>0, <2>0, <2>5, RemoveLemma, ShrinksFrame, SameRedisFrame DEF AdmitCleanup, WithToken
  <2> QED BY <1>3, <2>1, <2>2, <2>3, <2>4, <2>5 DEF ActivateStep
<1>4. ASSUME NEW r \in Request, HeartbeatStep(r) PROVE RedisFrame
  <2>0. request[r].pc \in WithToken => request[r].token \in Token
    BY DEF TypeOK
  <2>1. CASE HeartbeatLoad(r) \/ HeartbeatDecide(r)
    BY <2>1, SameRedisFrame DEF HeartbeatLoad, HeartbeatDecide
  <2>2. CASE HeartbeatReject(r)
    BY <1>0, <2>0, <2>2, RemoveLemma, ShrinksFrame, SameRedisFrame DEF HeartbeatReject, WithToken
  <2> QED BY <1>4, <2>1, <2>2 DEF HeartbeatStep
<1>5. ASSUME NEW r \in Request, TransactionLost(r) \/ Crash(r) PROVE RedisFrame
  BY <1>5, SameRedisFrame DEF TransactionLost, Crash
<1>6. ASSUME NEW o \in Operator, OperatorStep(o) PROVE RedisFrame
  <2>1. CASE OperatorCleanup(o)
    <3>1. operator[o].minimum \in Int
      BY DEF TypeOK, OperatorState, NoMinimum
    <3> QED BY <1>0, <2>1, <3>1, RemoveAllLemma, ShrinksFrame, SameRedisFrame
            DEF OperatorCleanup
  <2>2. CASE ~OperatorCleanup(o)
    BY <1>6, <2>2, SameRedisFrame
    DEF OperatorStep, Revoke, TerminateSessions, RotateKey, RemoveRegisteredIp,
        RemoveRegisteredDevice, RemoveRegistered, ResetRegisteredDevices, Restore,
        DeleteLicense, UpdateLicense, EditAllowlist, OperatorReload, OperatorCrash
  <2> QED BY <2>1, <2>2
<1>7. CASE Reconcile
  BY <1>7, SameRedisFrame DEF Reconcile
<1>8. CASE Tick
  BY <1>0, <1>8, ElapsedLemma, ShrinksFrame DEF Tick
<1> QED BY <1>1, <1>2, <1>3, <1>4, <1>5, <1>6, <1>7, <1>8 DEF Next

(* The license row: it keeps revision and secret, or its revision moves on *)
(* and everything drawn so far is terminated, or it is deleted.            *)
RowKept ==
    /\ license'.exists = license.exists /\ license'.revision = license.revision
    /\ license'.key = license.key
    /\ registered \subseteq registered'
    /\ UNCHANGED condemned

RowInvalidated ==
    /\ license'.exists /\ license'.revision = license.revision + 1
    /\ condemned' = minted
    /\ lock = Nobody
    /\ UNCHANGED <<redis, request, minted, issued, lock>>

RowDeleted ==
    /\ ~license'.exists /\ license'.revision = license.revision
    /\ license'.key = license.key
    /\ condemned' = minted
    /\ lock = Nobody
    /\ UNCHANGED <<redis, request, minted, issued, lock>>

LEMMA RowStep == TypeOK /\ [Next]_vars => RowKept \/ RowInvalidated \/ RowDeleted
<1> SUFFICES ASSUME TypeOK, [Next]_vars PROVE RowKept \/ RowInvalidated \/ RowDeleted
  OBVIOUS
<1>0. license \in License
  BY DEF TypeOK
<1>1. CASE UNCHANGED vars
  BY <1>1 DEF vars, RowKept
<1>2. CASE ClientStep
  BY <1>2 DEF ClientStep, ActivateLookup, HeartbeatRefresh, Deactivate, RowKept
<1>3. ASSUME NEW r \in Request, ActivateStep(r) PROVE RowKept
  BY <1>0, <1>3 DEF ActivateStep, AdmitBegin, AdmitReject, RegisterSession, RegisterLimit,
     RegisterFault, AdmitCommit, AdmitAbort, Recorded, AdmitCleanup, RowKept, License
<1>4. ASSUME NEW r \in Request, HeartbeatStep(r) \/ TransactionLost(r) \/ Crash(r)
      PROVE  RowKept
  BY <1>4 DEF HeartbeatStep, HeartbeatLoad, HeartbeatDecide, HeartbeatReject,
     TransactionLost, Crash, RowKept
<1>5. ASSUME NEW o \in Operator, OperatorStep(o)
      PROVE  RowKept \/ RowInvalidated \/ RowDeleted
  <2>1. CASE Revoke(o) \/ TerminateSessions(o) \/ RotateKey(o) \/ ResetRegisteredDevices(o)
             \/ \E gone \in SUBSET registered : RemoveRegistered(o, gone)
    BY <1>0, <2>1 DEF Revoke, TerminateSessions, RotateKey, ResetRegisteredDevices,
       RemoveRegistered, WriteRow, Invalidate, RowInvalidated, License
  <2>2. CASE DeleteLicense(o)
    BY <1>0, <2>2 DEF DeleteLicense, WriteRow, RowDeleted, License
  <2>3. CASE \/ Restore(o)
             \/ \E type \in LicenseType, limits \in Limits : UpdateLicense(o, type, limits)
    BY <1>0, <2>3 DEF Restore, UpdateLicense, RowKept, License
  <2>4. CASE EditAllowlist(o) \/ OperatorReload(o) \/ OperatorCleanup(o) \/ OperatorCrash(o)
    BY <2>4 DEF EditAllowlist, OperatorReload, OperatorCleanup, OperatorCrash, RowKept
  <2> QED BY <1>5, <2>1, <2>2, <2>3, <2>4
          DEF OperatorStep, RemoveRegisteredIp, RemoveRegisteredDevice
<1>6. CASE Reconcile
  BY <1>0, <1>6 DEF Reconcile, RowKept, License
<1>7. CASE Tick
  BY <1>0, <1>7 DEF Tick, RowKept, License
<1> QED BY <1>1, <1>2, <1>3, <1>4, <1>5, <1>6, <1>7 DEF Next

(* A handler: it rests, ends, or takes one of these steps.                 *)
HandlerMoves(q) ==
    \/ request'[q] = request[q]
    \/ request'[q] = Idle
    \/ \E b \in Binding : ActivateLookup(q, b)
    \/ AdmitBegin(q)
    \/ RegisterSession(q)
    \/ AdmitAbort(q)
    \/ \E t \in issued, b \in Binding :
          HeartbeatRefresh(q, t, b) /\ request'[q] # request[q]
    \/ HeartbeatLoad(q)
    \/ HeartbeatDecide(q)

LEMMA RequestStep ==
    ASSUME TypeOK, [Next]_vars, NEW q \in Request
    PROVE  HandlerMoves(q)
<1>0. ASSUME NEW r \in Request, NEW state, Goto(r, state)
      PROVE  request'[q] = IF q = r THEN state ELSE request[q]
  BY <1>0 DEF Goto, TypeOK
<1>1. CASE UNCHANGED vars
  BY <1>1 DEF vars, HandlerMoves
<1>2. CASE ClientStep
  <2>1. ASSUME NEW r \in Request, NEW b \in Binding, ActivateLookup(r, b)
        PROVE  HandlerMoves(q)
    <3>1. CASE q = r
      BY <2>1, <3>1 DEF HandlerMoves
    <3>2. CASE q # r
      BY <1>0, <2>1, <3>2 DEF ActivateLookup, HandlerMoves
    <3> QED BY <3>1, <3>2
  <2>2. ASSUME NEW r \in Request, NEW t \in issued, NEW b \in Binding, HeartbeatRefresh(r, t, b)
        PROVE  HandlerMoves(q)
    <3>1. CASE UNCHANGED request
      BY <3>1 DEF HandlerMoves
    <3>2. CASE q # r
      BY <1>0, <2>2, <3>1, <3>2 DEF HeartbeatRefresh, HandlerMoves
    <3> QED BY <2>2, <3>1, <3>2 DEF HandlerMoves
  <2>3. ASSUME NEW t \in issued, NEW b \in Binding, Deactivate(t, b) PROVE HandlerMoves(q)
    BY <2>3 DEF Deactivate, HandlerMoves
  <2> QED BY <1>2, <2>1, <2>2, <2>3 DEF ClientStep
<1>3. ASSUME NEW r \in Request, ActivateStep(r) PROVE HandlerMoves(q)
  <2>1. CASE AdmitReject(r) \/ RegisterLimit(r) \/ RegisterFault(r) \/ AdmitCommit(r)
             \/ AdmitCleanup(r)
    BY <1>0, <2>1 DEF AdmitReject, RegisterLimit, RegisterFault, AdmitCommit, AdmitCleanup,
       Finish, HandlerMoves
  <2>2. CASE AdmitBegin(r)
    BY <1>0, <2>2 DEF AdmitBegin, HandlerMoves
  <2>3. CASE RegisterSession(r)
    BY <1>0, <2>3 DEF RegisterSession, HandlerMoves
  <2>4. CASE AdmitAbort(r)
    BY <1>0, <2>4 DEF AdmitAbort, HandlerMoves
  <2> QED BY <1>3, <2>1, <2>2, <2>3, <2>4 DEF ActivateStep
<1>4. ASSUME NEW r \in Request, HeartbeatStep(r) PROVE HandlerMoves(q)
  <2>1. CASE HeartbeatReject(r)
    BY <1>0, <2>1 DEF HeartbeatReject, Finish, HandlerMoves
  <2>2. CASE HeartbeatLoad(r)
    BY <1>0, <2>2 DEF HeartbeatLoad, HandlerMoves
  <2>3. CASE HeartbeatDecide(r)
    BY <1>0, <2>3 DEF HeartbeatDecide, Finish, HandlerMoves
  <2> QED BY <1>4, <2>1, <2>2, <2>3 DEF HeartbeatStep
<1>5. ASSUME NEW r \in Request, TransactionLost(r) \/ Crash(r) PROVE HandlerMoves(q)
  BY <1>0, <1>5 DEF TransactionLost, Crash, Finish, HandlerMoves
<1>6. ASSUME NEW o \in Operator, OperatorStep(o) PROVE HandlerMoves(q)
  BY <1>6
  DEF HandlerMoves, OperatorStep, Revoke, TerminateSessions, RotateKey, RemoveRegisteredIp,
      RemoveRegisteredDevice, RemoveRegistered, ResetRegisteredDevices, Restore,
      DeleteLicense, UpdateLicense, EditAllowlist, OperatorReload, OperatorCleanup,
      OperatorCrash
<1>7. CASE Reconcile \/ Tick
  BY <1>7 DEF Reconcile, Tick, HandlerMoves
<1> QED BY <1>1, <1>2, <1>3, <1>4, <1>5, <1>6, <1>7 DEF Next

(* While a handler keeps the locks, nobody writes the row but the clock,   *)
(* nobody registers a binding, nobody is admitted, and the handler itself  *)
(* only stores its session.                                                *)
LockKept ==
    /\ lock' = lock
    /\ \/ request'[lock] = request[lock]
       \/ RegisterSession(lock)
    /\ UNCHANGED <<registered, issued>>
    /\ license'.exists = license.exists /\ license'.revision = license.revision
    /\ license'.revoked = license.revoked /\ license'.billing = license.billing
    /\ license'.limits = license.limits

LEMMA LockStep ==
    ASSUME TypeOK, LockHeld, [Next]_vars, lock' # Nobody
    PROVE  LockKept \/ AdmitBegin(lock')
<1>0. /\ license \in License /\ lock \in Request \cup {Nobody}
      /\ Nobody \notin Request
  BY RequestAssumption DEF TypeOK
<1>1. ASSUME NEW r \in Request, NEW state, Goto(r, state), r # lock, lock \in Request
      PROVE  request'[lock] = request[lock]
  BY <1>1 DEF Goto, TypeOK
<1>2. ASSUME NEW r \in Request, r = lock
      PROVE  request[r].pc \in {"admitting", "registered"}
  BY <1>0, <1>2 DEF LockHeld
<1>a. CASE UNCHANGED vars
  BY <1>a DEF vars, LockKept
<1>b. CASE ClientStep
  BY <1>0, <1>1, <1>2, <1>b
  DEF ClientStep, ActivateLookup, HeartbeatRefresh, Deactivate, LockKept
<1>c. ASSUME NEW r \in Request, ActivateStep(r) PROVE LockKept \/ AdmitBegin(lock')
  <2>1. CASE AdmitBegin(r)
    BY <2>1 DEF AdmitBegin
  <2>2. CASE AdmitReject(r) \/ RegisterLimit(r) \/ RegisterFault(r) \/ AdmitCommit(r)
             \/ AdmitAbort(r) \/ AdmitCleanup(r)
    BY <1>0, <1>1, <1>2, <2>2
    DEF AdmitReject, RegisterLimit, RegisterFault, AdmitCommit, AdmitAbort, AdmitCleanup,
        Finish, Unlock, LockKept
  <2>3. CASE RegisterSession(r)
    <3>1. CASE r = lock
      BY <2>3, <3>1 DEF RegisterSession, LockKept
    <3>2. CASE r # lock
      BY <1>0, <1>1, <2>3, <3>2 DEF RegisterSession, LockKept
    <3> QED BY <3>1, <3>2
  <2> QED BY <1>c, <2>1, <2>2, <2>3 DEF ActivateStep
<1>d. ASSUME NEW r \in Request, HeartbeatStep(r) PROVE LockKept
  BY <1>0, <1>1, <1>2, <1>d
  DEF HeartbeatStep, HeartbeatLoad, HeartbeatDecide, HeartbeatReject, Finish, LockKept
<1>e. ASSUME NEW r \in Request, TransactionLost(r) \/ Crash(r) PROVE LockKept
  BY <1>0, <1>1, <1>e DEF TransactionLost, Crash, Finish, Unlock, LockKept
<1>f. ASSUME NEW o \in Operator, OperatorStep(o) PROVE LockKept
  BY <1>f
  DEF LockKept, OperatorStep, WriteRow, Revoke, TerminateSessions, RotateKey,
      RemoveRegisteredIp, RemoveRegisteredDevice, RemoveRegistered, ResetRegisteredDevices,
      Restore, DeleteLicense, UpdateLicense, EditAllowlist, OperatorReload,
      OperatorCleanup, OperatorCrash
<1>g. CASE Reconcile \/ Tick
  BY <1>0, <1>g DEF Reconcile, Tick, LockKept, License
<1> QED BY <1>a, <1>b, <1>c, <1>d, <1>e, <1>f, <1>g DEF Next

(* A token is returned only by the commit of its admission.                *)
LEMMA IssuedStep ==
    ASSUME [Next]_vars, issued' # issued
    PROVE  \E r \in Request : AdmitCommit(r)
BY DEF Next, vars, ClientStep, ActivateLookup, HeartbeatRefresh, Deactivate, ActivateStep,
   AdmitBegin, AdmitReject, RegisterSession, RegisterLimit, RegisterFault, AdmitAbort,
   AdmitCleanup, HeartbeatStep, HeartbeatLoad, HeartbeatDecide, HeartbeatReject,
   TransactionLost, Crash, OperatorStep, Revoke, TerminateSessions, RotateKey,
   RemoveRegisteredIp, RemoveRegisteredDevice, RemoveRegistered, ResetRegisteredDevices,
   Restore, DeleteLicense, UpdateLicense, EditAllowlist, OperatorReload, OperatorCleanup,
   OperatorCrash, Reconcile, Tick
=============================================================================
