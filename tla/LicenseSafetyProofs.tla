-------------------------- MODULE LicenseSafetyProofs --------------------------
(***************************************************************************)
(* The inductive invariant of LicenseRuntime and the safety theorems that  *)
(* follow from it.  The step lemmas of LicenseRuntimeProofs say what any   *)
(* step does to Redis, to the row, to a handler and to the locks; each     *)
(* part of the invariant is preserved because of one or two of them.       *)
(***************************************************************************)
EXTENDS LicenseRuntimeProofs

(* The token a handler holds is one it held before, one it has just drawn, *)
(* or one that a client presented and Redis knows.                         *)
TokenFrame(q) ==
    request'[q].pc \in WithToken =>
        \/ /\ request[q].pc \in WithToken
           /\ request'[q].token = request[q].token
           /\ request'[q].revision = request[q].revision
        \/ /\ request'[q].token \in minted' \ minted
           /\ request'[q].revision = request[q].revision
           /\ UNCHANGED <<license, condemned>>
        \/ /\ request'[q].token \in issued \cap Live(redis)
           /\ request'[q].revision = redis.session[request'[q].token].revision
           /\ UNCHANGED <<license, condemned>>

(* The revision a handler works with was read from the row or from Redis.  *)
RevisionFrame(q) ==
    \/ request'[q].revision \in {0, request[q].revision, license.revision}
    \/ \E t \in Live(redis) : request'[q].revision = redis.session[t].revision

Secret == {"lookedUp", "admitting", "registered"}

(* The secret a handler works with was read together with the revision.    *)
SecretFrame(q) ==
    request'[q].pc \in Secret =>
        \/ /\ request[q].pc \in Secret
           /\ request'[q].key = request[q].key
           /\ request'[q].revision = request[q].revision
        \/ /\ request'[q].key = license.key
           /\ request'[q].revision = license.revision
           /\ UNCHANGED license

LEMMA HandlerStep ==
    ASSUME TypeOK, [Next]_vars, NEW q \in Request
    PROVE  TokenFrame(q) /\ RevisionFrame(q) /\ SecretFrame(q)
<1> USE DEF TokenFrame, RevisionFrame, SecretFrame, Secret, WithToken
<1>0. request[q] \in RequestState /\ Idle \in RequestState
  BY IdleType DEF TypeOK
<1>g. ASSUME NEW state, Goto(q, state) PROVE request'[q] = state
  BY <1>g DEF Goto, TypeOK
<1>1. CASE request'[q] = request[q]
  BY <1>1
<1>2. CASE request'[q] = Idle
  BY <1>2 DEF Idle
<1>3. ASSUME NEW b \in Binding, ActivateLookup(q, b)
      PROVE  TokenFrame(q) /\ RevisionFrame(q) /\ SecretFrame(q)
  <2>1. /\ request'[q].pc = "lookedUp" /\ request'[q].key = license.key
        /\ request'[q].revision = license.revision
    <3>1. request'[q] = [Idle EXCEPT !.pc = "lookedUp", !.key = license.key,
                                     !.revision = license.revision, !.binding = b]
      BY <1>g, <1>3 DEF ActivateLookup
    <3> QED BY <3>1 DEF Idle
  <2> QED BY <1>3, <2>1 DEF ActivateLookup
<1>4. CASE AdmitBegin(q)
  <2>1. /\ request'[q].pc = "admitting" /\ request'[q].key = request[q].key
        /\ request'[q].revision = request[q].revision
    BY <1>0, <1>g, <1>4 DEF AdmitBegin, Local, RequestState
  <2> QED BY <1>4, <2>1 DEF AdmitBegin
<1>5. CASE RegisterSession(q)
  <2>1. PICK t \in Token \ minted :
           /\ minted' = minted \cup {t}
           /\ Goto(q, [Local(q, "registered") EXCEPT !.token = t])
    BY <1>5 DEF RegisterSession
  <2>2. /\ request'[q].pc = "registered" /\ request'[q].key = request[q].key
        /\ request'[q].revision = request[q].revision /\ request'[q].token = t
    BY <1>0, <1>g, <2>1 DEF Local, RequestState
  <2> QED BY <1>5, <2>1, <2>2 DEF RegisterSession
<1>6. CASE AdmitAbort(q)
  <2>1. /\ request'[q].pc = "abandoned" /\ request'[q].token = request[q].token
        /\ request'[q].revision = request[q].revision
    BY <1>0, <1>g, <1>6 DEF AdmitAbort, Local, RequestState
  <2> QED BY <1>6, <2>1 DEF AdmitAbort
<1>7. ASSUME NEW t \in issued, NEW b \in Binding, HeartbeatRefresh(q, t, b),
             request'[q] # request[q]
      PROVE  TokenFrame(q) /\ RevisionFrame(q) /\ SecretFrame(q)
  <2>1. /\ request'[q].pc = "resolved" /\ request'[q].token = t
        /\ request'[q].revision = redis.session[t].revision
    <3>1. request'[q] = [Idle EXCEPT !.pc = "resolved", !.token = t, !.binding = b,
                                     !.revision = redis.session[t].revision]
      BY <1>g, <1>7 DEF HeartbeatRefresh
    <3> QED BY <3>1 DEF Idle
  <2> QED BY <1>7, <2>1 DEF HeartbeatRefresh, Bound
<1>8. CASE HeartbeatLoad(q)
  <2>1. /\ request'[q].pc \in {"loaded", "rejected"}
        /\ request'[q].token = request[q].token
        /\ request'[q].revision = request[q].revision
    BY <1>0, <1>g, <1>8 DEF HeartbeatLoad, Local, RequestState
  <2> QED BY <1>8, <2>1 DEF HeartbeatLoad
<1>9. CASE HeartbeatDecide(q)
  <2>1. CASE request'[q] = Idle
    BY <2>1, <1>2
  <2>2. CASE Goto(q, Local(q, "rejected"))
    <3>1. /\ request'[q].pc = "rejected" /\ request'[q].token = request[q].token
          /\ request'[q].revision = request[q].revision
      BY <1>0, <1>g, <2>2 DEF Local, RequestState
    <3> QED BY <1>9, <3>1 DEF HeartbeatDecide
  <2> QED BY <1>g, <1>9, <2>1, <2>2 DEF HeartbeatDecide, Finish
<1> QED BY <1>1, <1>2, <1>3, <1>4, <1>5, <1>6, <1>7, <1>8, <1>9, RequestStep
        DEF HandlerMoves

LEMMA FreshNext == IInv /\ [Next]_vars => Fresh'
<1> SUFFICES ASSUME IInv, [Next]_vars PROVE Fresh'
  OBVIOUS
<1>0. TypeOK /\ Fresh
  BY DEF IInv
<1>1. minted \subseteq minted' /\ Live(redis') \subseteq minted'
  BY <1>0, RedisStep DEF RedisFrame, Kept, Stored, Fresh
<1>2. issued' \subseteq minted'
  <2>1. CASE issued' = issued
    BY <1>0, <1>1, <2>1 DEF Fresh
  <2>2. CASE issued' # issued
    <3>1. PICK r \in Request : AdmitCommit(r)
      BY <2>2, IssuedStep
    <3> QED BY <1>0, <1>1, <3>1 DEF AdmitCommit, Fresh, WithToken
  <2> QED BY <2>1, <2>2
<1>3. condemned' \subseteq minted'
  BY <1>0, <1>1, RowStep DEF RowKept, RowInvalidated, RowDeleted, Fresh
<1>4. ASSUME NEW q \in Request, request'[q].pc \in WithToken
      PROVE  request'[q].token \in minted'
  BY <1>0, <1>1, <1>4, HandlerStep DEF TokenFrame, Fresh
<1> QED BY <1>1, <1>2, <1>3, <1>4 DEF Fresh

LEMMA NotAheadNext == IInv /\ [Next]_vars => NotAhead'
<1> SUFFICES ASSUME IInv, [Next]_vars PROVE NotAhead'
  OBVIOUS
<1>0. TypeOK /\ NotAhead
  BY DEF IInv
<1>1. license.revision \in Nat /\ license'.revision \in Nat
      /\ license'.revision >= license.revision
  BY <1>0, RowStep DEF RowKept, RowInvalidated, RowDeleted, TypeOK, License
<1>2. ASSUME NEW t \in Live(redis)
      PROVE  redis.session[t].revision \in Nat /\ redis.session[t].revision <= license.revision
  <2>1. redis \in Store /\ t \in Token
    BY <1>0 DEF TypeOK, Live
  <2>2. redis.session[t] \in Session
    BY <2>1, LiveValue
  <2> QED BY <1>0, <2>2 DEF NotAhead, Session
<1>3. ASSUME NEW q \in Request
      PROVE  request[q].revision \in Nat /\ request[q].revision <= license.revision
  BY <1>0 DEF NotAhead, TypeOK, RequestState
<1>4. ASSUME NEW t \in Live(redis') PROVE redis'.session[t].revision <= license'.revision
  <2>1. CASE Kept(t)
    BY <1>1, <1>2, <2>1 DEF Kept
  <2>2. CASE Stored(t)
    BY <1>1, <1>3, <2>2 DEF Stored
  <2> QED BY <1>0, <2>1, <2>2, RedisStep DEF RedisFrame
<1>5. ASSUME NEW q \in Request PROVE request'[q].revision <= license'.revision
  <2>1. RevisionFrame(q)
    BY <1>0, HandlerStep
  <2> QED BY <1>1, <1>2, <1>3, <2>1 DEF RevisionFrame
<1> QED BY <1>4, <1>5 DEF NotAhead

(* Revisions are numbers: those of live sessions and those of handlers.    *)
LEMMA RevisionTypes ==
    ASSUME TypeOK
    PROVE  /\ license.revision \in Nat
           /\ \A t \in Live(redis) : redis.session[t].revision \in Nat
           /\ \A q \in Request : request[q].revision \in Nat
<1>1. ASSUME NEW t \in Live(redis) PROVE redis.session[t].revision \in Nat
  <2>1. redis \in Store /\ t \in Token
    BY DEF TypeOK, Live
  <2>2. redis.session[t] \in Session
    BY <2>1, LiveValue
  <2> QED BY <2>2 DEF Session
<1> QED BY <1>1 DEF TypeOK, License, RequestState

LEMMA TerminatedNext == IInv /\ [Next]_vars => Terminated'
<1> SUFFICES ASSUME IInv, [Next]_vars, license'.exists PROVE Terminated'
  BY DEF Terminated
<1>0. TypeOK /\ Fresh /\ NotAhead /\ Terminated
  BY DEF IInv
<1>1. CASE RowInvalidated
  <2>1. Live(redis') = Live(redis)
    BY <1>1 DEF RowInvalidated
  <2> QED BY <1>0, <1>1, <2>1, RevisionTypes DEF RowInvalidated, NotAhead, Terminated
<1>2. CASE RowDeleted
  BY <1>2 DEF RowDeleted
<1>3. CASE RowKept
  <2>0. license.exists /\ license'.revision = license.revision /\ condemned' = condemned
    BY <1>3 DEF RowKept
  <2>1. ASSUME NEW t \in condemned \cap Live(redis')
        PROVE  redis'.session[t].revision < license.revision
    <3>1. Kept(t) \/ Stored(t)
      BY <1>0, RedisStep DEF RedisFrame
    <3> QED BY <1>0, <2>0, <3>1 DEF Kept, Stored, Terminated, Fresh
  <2>2. ASSUME NEW q \in Request, request'[q].pc \in WithToken, request'[q].token \in condemned
        PROVE  request'[q].revision < license.revision
    BY <1>0, <2>0, <2>2, HandlerStep DEF TokenFrame, Terminated, Fresh
  <2> QED BY <2>0, <2>1, <2>2 DEF Terminated
<1> QED BY <1>0, <1>1, <1>2, <1>3, RowStep

LEMMA KeyOfRevisionNext == IInv /\ [Next]_vars => KeyOfRevision'
<1> SUFFICES ASSUME IInv, [Next]_vars PROVE KeyOfRevision'
  OBVIOUS
<1>0. TypeOK /\ NotAhead /\ KeyOfRevision
  BY DEF IInv
<1>1. CASE RowInvalidated
  BY <1>0, <1>1, RevisionTypes DEF RowInvalidated, NotAhead, KeyOfRevision
<1>2. CASE RowDeleted
  BY <1>0, <1>2 DEF RowDeleted, KeyOfRevision
<1>3. CASE RowKept
  <2>1. ASSUME NEW q \in Request, request'[q].pc \in Secret,
               request'[q].revision = license'.revision
        PROVE  request'[q].key = license'.key
    BY <1>0, <1>3, <2>1, HandlerStep DEF SecretFrame, RowKept, KeyOfRevision, Secret
  <2> QED BY <2>1 DEF KeyOfRevision, Secret
<1> QED BY <1>0, <1>1, <1>2, <1>3, RowStep

(* What RegisterSession leaves in the handler.                             *)
LEMMA RegisterSessionStep ==
    ASSUME TypeOK, NEW q \in Request, RegisterSession(q)
    PROVE  \E t \in Token \ minted :
              /\ redis' = Register(redis, t, request[q].revision, request[q].binding,
                                   request[q].maxSessions)
              /\ request'[q] = [Local(q, "registered") EXCEPT !.token = t]
              /\ request'[q].pc = "registered"
              /\ request'[q].token = t
              /\ request'[q].revision = request[q].revision
              /\ request'[q].binding = request[q].binding
              /\ request'[q].maxSessions = request[q].maxSessions
<1>1. PICK t \in Token \ minted :
         /\ redis' = Register(redis, t, request[q].revision, request[q].binding,
                              request[q].maxSessions)
         /\ Goto(q, [Local(q, "registered") EXCEPT !.token = t])
  BY DEF RegisterSession
<1>2. request'[q] = [Local(q, "registered") EXCEPT !.token = t]
  BY <1>1 DEF Goto, TypeOK
<1>3. request[q] \in RequestState
  BY DEF TypeOK
<1> QED BY <1>1, <1>2, <1>3 DEF Local, RequestState

LEMMA LockHeldNext == IInv /\ [Next]_vars => LockHeld'
<1> SUFFICES ASSUME IInv, [Next]_vars, lock' # Nobody PROVE LockHeld'
  BY DEF LockHeld
<1>0. TypeOK /\ LockHeld
  BY DEF IInv
<1>1. CASE LockKept
  <2>0. lock \in Request /\ lock' = lock /\ LockHeld
    BY <1>0, <1>1 DEF LockKept, TypeOK
  <2>1. /\ request'[lock].pc \in {"admitting", "registered"}
        /\ request'[lock].revision = request[lock].revision
        /\ request'[lock].maxSessions = request[lock].maxSessions
        /\ request'[lock].binding = request[lock].binding
    BY <1>0, <1>1, <2>0, RegisterSessionStep DEF LockKept, LockHeld
  <2>2. SlotFree(request[lock].binding)'
    BY <1>1, <2>0, <2>1 DEF LockKept, LockHeld, SlotFree, Ips, Devices
  <2> QED BY <1>1, <2>0, <2>1, <2>2 DEF LockKept, LockHeld
<1>2. CASE AdmitBegin(lock')
  <2>q. PICK q \in Request : q = lock' /\ AdmitBegin(q)
    BY <1>0, <1>2, TypeNext DEF TypeOK
  <2>0. request[q] \in RequestState
    BY <1>0 DEF TypeOK
  <2>1. request'[q] = [Local(q, "admitting") EXCEPT !.maxSessions = license.limits.maxSessions]
    BY <1>0, <2>q DEF AdmitBegin, Goto, TypeOK
  <2>2. /\ request'[q].pc = "admitting"
        /\ request'[q].revision = request[q].revision
        /\ request'[q].maxSessions = license.limits.maxSessions
        /\ request'[q].binding = request[q].binding
    BY <2>0, <2>1 DEF Local, RequestState
  <2>3. /\ license.exists /\ license.revision = request[q].revision
        /\ ~license.revoked /\ ~license.billing /\ SlotFree(request[q].binding)
    BY <2>q DEF AdmitBegin, Admissible, Status
  <2>4. license' = license /\ registered' = registered
    BY <2>q DEF AdmitBegin
  <2>5. SlotFree(request[q].binding)'
    BY <2>2, <2>3, <2>4 DEF SlotFree, Ips, Devices
  <2> QED BY <2>q, <2>2, <2>3, <2>4, <2>5 DEF LockHeld
<1> QED BY <1>0, <1>1, <1>2, LockStep

LEMMA OwnSessionNext == IInv /\ [Next]_vars => OwnSession'
<1> SUFFICES ASSUME IInv, [Next]_vars, NEW q \in Request,
                    request'[q].pc = "registered", request'[q].token \in Live(redis')
             PROVE  redis'.session[request'[q].token].binding = request'[q].binding
  BY DEF OwnSession
<1>0. TypeOK /\ Fresh /\ OwnSession
  BY DEF IInv
<1>1. CASE request'[q] = request[q]
  <2>1. Kept(request[q].token) \/ Stored(request[q].token)
    BY <1>0, <1>1, RedisStep DEF RedisFrame
  <2>2. request[q].token \in minted
    BY <1>0, <1>1 DEF Fresh, WithToken
  <2> QED BY <1>0, <1>1, <2>1, <2>2 DEF Kept, Stored, OwnSession
<1>2. CASE RegisterSession(q)
  <2>1. PICK t \in Token \ minted :
           /\ redis' = Register(redis, t, request[q].revision, request[q].binding,
                                request[q].maxSessions)
           /\ request'[q].token = t /\ request'[q].binding = request[q].binding
    BY <1>0, <1>2, RegisterSessionStep
  <2>2. /\ redis \in Store /\ request[q].revision \in Nat
        /\ request[q].binding \in Binding /\ request[q].maxSessions \in Nat
    BY <1>0 DEF TypeOK, RequestState
  <2>3. t \notin Live(redis)
    BY <1>0, <2>1 DEF Fresh
  <2> QED BY <2>1, <2>2, <2>3, RegisterLemma
<1>3. request'[q] = request[q] \/ RegisterSession(q)
  <2>1. ASSUME NEW state, Goto(q, state) PROVE request'[q] = state
    BY <1>0, <2>1 DEF Goto, TypeOK
  <2>2. ASSUME NEW pc, Goto(q, Local(q, pc)) PROVE request'[q].pc = pc
    BY <1>0, <2>1, <2>2 DEF Local, TypeOK, RequestState
  <2>3. request'[q] # Idle
    BY DEF Idle
  <2>4. ASSUME NEW b \in Binding PROVE ~ActivateLookup(q, b)
    <3>1. [Idle EXCEPT !.pc = "lookedUp", !.key = license.key,
                       !.revision = license.revision, !.binding = b].pc = "lookedUp"
      BY DEF Idle
    <3> QED BY <2>1, <3>1 DEF ActivateLookup
  <2>5. ASSUME NEW t \in issued, NEW b \in Binding, HeartbeatRefresh(q, t, b)
        PROVE  request'[q] = request[q]
    <3>1. [Idle EXCEPT !.pc = "resolved", !.token = t, !.binding = b,
                       !.revision = redis.session[t].revision].pc = "resolved"
      BY DEF Idle
    <3> QED BY <2>1, <2>5, <3>1 DEF HeartbeatRefresh
  <2>6. ~AdmitBegin(q)
    <3>1. [Local(q, "admitting") EXCEPT !.maxSessions = license.limits.maxSessions].pc
              = "admitting"
      BY <1>0 DEF Local, TypeOK, RequestState
    <3> QED BY <2>1, <3>1 DEF AdmitBegin
  <2>7. ~AdmitAbort(q)
    BY <2>2 DEF AdmitAbort
  <2>8. ~HeartbeatLoad(q)
    <3>1. [Local(q, "loaded") EXCEPT !.active = Status = "active"].pc = "loaded"
      BY <1>0 DEF Local, TypeOK, RequestState
    <3> QED BY <2>1, <2>2, <3>1 DEF HeartbeatLoad
  <2>9. ~HeartbeatDecide(q)
    BY <2>1, <2>2, <2>3 DEF HeartbeatDecide, Finish
  <2> QED BY <1>0, <2>3, <2>4, <2>5, <2>6, <2>7, <2>8, <2>9, RequestStep DEF HandlerMoves
<1> QED BY <1>1, <1>2, <1>3

LEMMA SessionsHoldSlotsNext == IInv /\ [Next]_vars => SessionsHoldSlots'
<1> SUFFICES ASSUME IInv, [Next]_vars, NEW t \in issued' \cap Live(redis'),
                    license'.exists, redis'.session[t].revision = license'.revision
             PROVE  redis'.session[t].binding \in registered'
  BY DEF SessionsHoldSlots
<1>0. TypeOK /\ Fresh /\ NotAhead /\ OwnSession /\ SessionsHoldSlots
  BY DEF IInv
<1>1. CASE RowInvalidated
  <2>1. t \in Live(redis) /\ redis' = redis
    BY <1>1 DEF RowInvalidated
  <2> QED BY <1>0, <1>1, <2>1, RevisionTypes DEF RowInvalidated, NotAhead
<1>2. CASE RowDeleted
  BY <1>2 DEF RowDeleted
<1>3. CASE RowKept
  <2>1. CASE Stored(t)
    BY <1>0, <2>1 DEF Stored, Fresh
  <2>2. CASE Kept(t) /\ t \in issued
    BY <1>0, <1>3, <2>2 DEF Kept, RowKept, SessionsHoldSlots
  <2>3. CASE Kept(t) /\ t \notin issued
    <3>1. PICK r \in Request : AdmitCommit(r)
      BY <2>3, IssuedStep
    <3>2. t = request[r].token /\ request[r].pc = "registered"
          /\ request[r].binding \in registered'
      BY <2>3, <3>1 DEF AdmitCommit, Recorded
    <3> QED BY <1>0, <2>3, <3>2 DEF Kept, OwnSession
  <2> QED BY <1>0, <2>1, <2>2, <2>3, RedisStep DEF RedisFrame
<1> QED BY <1>0, <1>1, <1>2, <1>3, RowStep

(* Adding one element to a finite set adds at most one to its cardinality. *)
LEMMA AddAtMostOne ==
    ASSUME NEW S, IsFiniteSet(S), NEW x, NEW T, T \subseteq S \cup {x}
    PROVE  /\ IsFiniteSet(T) /\ Cardinality(T) \in Nat /\ Cardinality(S) \in Nat
           /\ Cardinality(T) <= Cardinality(S) + 1
<1>1. /\ IsFiniteSet(S \cup {x}) /\ Cardinality(S) \in Nat
      /\ Cardinality(S \cup {x}) = Cardinality(S) \/ Cardinality(S \cup {x}) = Cardinality(S) + 1
  BY FS_AddElement, FS_CardinalityType
<1>2. /\ IsFiniteSet(T) /\ Cardinality(T) <= Cardinality(S \cup {x})
  BY <1>1, FS_Subset
<1>3. Cardinality(T) \in Nat
  BY <1>2, FS_CardinalityType
<1> QED BY <1>1, <1>2, <1>3

LEMMA RoomHeldNext == IInv /\ [Next]_vars => RoomHeld'
<1> SUFFICES ASSUME IInv, [Next]_vars, lock' # Nobody,
                    request'[lock'].pc = "registered", request'[lock'].maxSessions > 0
             PROVE  Cardinality((issued' \cup {request'[lock'].token})
                                   \cap LiveAt(redis', request'[lock'].revision))
                       <= request'[lock'].maxSessions
  BY DEF RoomHeld
<1>0. TypeOK /\ SetCoversSessions /\ Fresh /\ LockHeld /\ RoomHeld
  BY DEF IInv
<1>1. PICK q \in Request : q = lock'
  BY <1>0, TypeNext DEF TypeOK
<1>2. ~AdmitBegin(q)
  <2>1. [Local(q, "admitting") EXCEPT !.maxSessions = license.limits.maxSessions].pc
            = "admitting"
    BY <1>0 DEF Local, TypeOK, RequestState
  <2> QED BY <1>0, <1>1, <2>1 DEF AdmitBegin, Goto, TypeOK
<1>3. lock = q /\ issued' = issued /\ (request'[q] = request[q] \/ RegisterSession(q))
  BY <1>0, <1>1, <1>2, LockStep DEF LockKept
<1> DEFINE held == (issued' \cup {request'[q].token}) \cap LiveAt(redis', request'[q].revision)
<1>4. CASE request'[q] = request[q]
  <2> DEFINE before == (issued \cup {request[q].token}) \cap LiveAt(redis, request[q].revision)
  <2>1. request[q].token \in minted /\ issued \subseteq minted
    BY <1>0, <1>1, <1>4 DEF Fresh, WithToken
  <2>2. held \subseteq before
    <3> SUFFICES ASSUME NEW t \in held PROVE t \in before
      OBVIOUS
    <3>1. t \in Live(redis') /\ redis'.session[t].revision = request[q].revision
          /\ t \in issued \cup {request[q].token}
      BY <1>3, <1>4 DEF LiveAt
    <3>2. Kept(t)
      BY <1>0, <2>1, <3>1, RedisStep DEF RedisFrame, Stored
    <3> QED BY <3>1, <3>2 DEF Kept, LiveAt
  <2>3. IsFiniteSet(before)
    BY TokenAssumption, FS_Subset DEF LiveAt, Live
  <2>4. Cardinality(held) <= Cardinality(before) /\ Cardinality(held) \in Nat
        /\ Cardinality(before) \in Nat
    BY <2>2, <2>3, FS_Subset, FS_CardinalityType
  <2>5. request[q].maxSessions \in Nat
    BY <1>0 DEF TypeOK, RequestState
  <2>6. Cardinality(before) <= request[q].maxSessions
    BY <1>0, <1>1, <1>3, <1>4 DEF RoomHeld
  <2>7. Cardinality(held) <= request'[q].maxSessions
    BY <1>4, <2>4, <2>5, <2>6
  <2> QED BY <1>1, <2>7
<1>5. CASE RegisterSession(q)
  <2>1. PICK t \in Token \ minted :
           /\ redis' = Register(redis, t, request[q].revision, request[q].binding,
                                request[q].maxSessions)
           /\ request'[q].token = t
           /\ request'[q].revision = request[q].revision
           /\ request'[q].maxSessions = request[q].maxSessions
    BY <1>0, <1>5, RegisterSessionStep
  <2>2. /\ redis \in Store /\ request[q].revision \in Nat
        /\ request[q].binding \in Binding /\ request[q].maxSessions \in Nat
    BY <1>0 DEF TypeOK, RequestState
  <2> DEFINE others == Purge(redis, request[q].revision).members
  <2>3. others = redis.members \cap LiveAt(redis, request[q].revision)
    BY <2>2, PurgeLemma
  <2>4. Cardinality(others) < request[q].maxSessions
    <3>1. IsFiniteSet(others)
      BY <2>3, TokenAssumption, FS_Subset DEF LiveAt, Live
    <3>2. Cardinality(others) \in Nat
      BY <3>1, FS_CardinalityType
    <3> QED BY <1>1, <1>5, <2>1, <2>2, <3>2 DEF RegisterSession, LimitReached
  <2>5. held \subseteq others \cup {t}
    <3> SUFFICES ASSUME NEW u \in held, u # t PROVE u \in others
      OBVIOUS
    <3>1. u \in Live(redis') /\ redis'.session[u].revision = request[q].revision
      BY <2>1 DEF LiveAt
    <3>2. u \in Live(redis) /\ redis.session[u].revision = request[q].revision
      BY <2>1, <2>2, <3>1, RegisterLemma
    <3> QED BY <1>0, <2>3, <3>2 DEF SetCoversSessions, LiveAt
  <2>6. IsFiniteSet(others)
    BY <2>3, TokenAssumption, FS_Subset DEF LiveAt, Live
  <2>7. Cardinality(held) <= Cardinality(others) + 1 /\ Cardinality(held) \in Nat
        /\ Cardinality(others) \in Nat
    <3> HIDE DEF held, others
    <3> QED BY <2>5, <2>6, AddAtMostOne
  <2>8. Cardinality(held) <= request'[q].maxSessions
    BY <2>1, <2>2, <2>4, <2>7
  <2> QED BY <1>1, <2>8
<1> QED BY <1>3, <1>4, <1>5

LEMMA CleanupBehindNext == IInv /\ [Next]_vars => CleanupBehind'
<1> SUFFICES ASSUME IInv, [Next]_vars, license'.exists, NEW p \in Operator,
                    operator'[p].pc = "cleanup"
             PROVE  operator'[p].minimum \in 0 .. license'.revision
  BY DEF CleanupBehind
<1>0. /\ CleanupBehind /\ license \in License
      /\ operator \in [Operator -> OperatorState]
      /\ license.revision \in Nat
  BY DEF IInv, TypeOK, License
<1>1. ASSUME UNCHANGED operator, license.exists, license'.revision = license.revision
      PROVE  operator'[p].minimum \in 0 .. license'.revision
  BY <1>0, <1>1 DEF CleanupBehind
<1>2. CASE UNCHANGED vars
  BY <1>1, <1>2 DEF vars
<1>3. CASE \/ ClientStep \/ Reconcile \/ Tick
           \/ \E r \in Request :
                 ActivateStep(r) \/ HeartbeatStep(r) \/ TransactionLost(r) \/ Crash(r)
  <2>1. UNCHANGED operator
    BY <1>3 DEF ClientStep, ActivateLookup, HeartbeatRefresh, Deactivate, ActivateStep,
       AdmitBegin, AdmitReject, RegisterSession, RegisterLimit, RegisterFault, AdmitCommit,
       AdmitAbort, AdmitCleanup, HeartbeatStep, HeartbeatLoad, HeartbeatDecide,
       HeartbeatReject, TransactionLost, Crash, Reconcile, Tick
  <2>2. UNCHANGED <<license.exists, license.revision>>
    BY <1>0, <1>3 DEF ClientStep, ActivateLookup, HeartbeatRefresh, Deactivate,
       ActivateStep, AdmitBegin, AdmitReject, RegisterSession, RegisterLimit, RegisterFault,
       AdmitCommit, AdmitAbort, Recorded, AdmitCleanup, HeartbeatStep, HeartbeatLoad,
       HeartbeatDecide, HeartbeatReject, TransactionLost, Crash, Reconcile, Tick, License
  <2> QED BY <1>1, <2>1, <2>2
<1>4. ASSUME NEW o \in Operator, OperatorStep(o)
      PROVE  operator'[p].minimum \in 0 .. license'.revision
  <2>0. ASSUME NEW state, operator' = [operator EXCEPT ![o] = state],
               p = o /\ state.pc = "cleanup" => state.minimum \in 0 .. license'.revision,
               license.exists, license'.revision \in Nat,
               license.revision <= license'.revision
        PROVE  operator'[p].minimum \in 0 .. license'.revision
    <3>1. CASE p = o
      BY <1>0, <2>0, <3>1
    <3>2. CASE p # o
      BY <1>0, <2>0, <3>2 DEF CleanupBehind
    <3> QED BY <3>1, <3>2
  <2>1. CASE Revoke(o) \/ TerminateSessions(o) \/ RotateKey(o) \/ ResetRegisteredDevices(o)
             \/ \E gone \in SUBSET registered : RemoveRegistered(o, gone)
    <3>1. /\ license.exists /\ license'.revision = license.revision + 1
          /\ \E pc : operator' = [operator EXCEPT ![o] =
                         [pc |-> pc, minimum |-> license.revision + 1]]
      BY <1>0, <2>1 DEF Revoke, TerminateSessions, RotateKey, ResetRegisteredDevices,
         RemoveRegistered, WriteRow, Invalidate, OperatorGoto, License
    <3>2. PICK pc : operator' = [operator EXCEPT ![o] =
                       [pc |-> pc, minimum |-> license.revision + 1]]
      BY <3>1
    <3>3. [pc |-> pc, minimum |-> license.revision + 1].minimum \in 0 .. license'.revision
      BY <1>0, <3>1
    <3>4. license'.revision \in Nat /\ license.revision <= license'.revision
      BY <1>0, <3>1
    <3> QED BY <2>0, <3>1, <3>2, <3>3, <3>4
  <2>2. CASE DeleteLicense(o)
    BY <1>0, <2>2 DEF DeleteLicense, License
  <2>3. CASE \/ Restore(o)
             \/ \E type \in LicenseType, limits \in Limits : UpdateLicense(o, type, limits)
    BY <1>0, <1>1, <2>3 DEF Restore, UpdateLicense, WriteRow, License
  <2>4. CASE EditAllowlist(o)
    BY <1>1, <2>4 DEF EditAllowlist
  <2>5. CASE OperatorReload(o)
    BY <1>0, <2>0, <2>5 DEF OperatorReload, OperatorGoto
  <2>6. CASE OperatorCleanup(o) \/ OperatorCrash(o)
    BY <1>0, <2>0, <2>6 DEF OperatorCleanup, OperatorCrash, Ready
  <2> QED BY <1>4, <2>1, <2>2, <2>3, <2>4, <2>5, <2>6
          DEF OperatorStep, RemoveRegisteredIp, RemoveRegisteredDevice
<1> QED BY <1>2, <1>3, <1>4 DEF Next

(* A token goes to one admission and from there to one client.             *)
LEMMA TokensOwnNext == IInv /\ [Next]_vars => TokensOwn'
<1> SUFFICES ASSUME IInv, [Next]_vars, NEW r \in Request, request'[r].pc = "registered"
             PROVE  /\ request'[r].token \notin issued'
                    /\ \A q \in Request \ {r} :
                          request'[q].pc = "registered" => request'[q].token # request'[r].token
  BY DEF TokensOwn
<1>0. TypeOK /\ Fresh /\ TokensOwn
  BY DEF IInv
<1> DEFINE Stays(q) == request[q].pc = "registered" /\ request'[q] = request[q]
           Draws(q) == RegisterSession(q) /\ request'[q].token \in minted' \ minted
<1>1. ASSUME NEW q \in Request, request'[q].pc = "registered"
      PROVE  Stays(q) \/ Draws(q)
  <2>0. request[q] \in RequestState /\ Idle.pc = "idle"
    BY <1>0, IdleType DEF TypeOK
  <2>g. ASSUME NEW state, Goto(q, state) PROVE request'[q] = state
    BY <1>0, <2>g DEF Goto, TypeOK
  <2>1. request'[q] # Idle
    BY <1>1, <2>0
  <2>2. \A b \in Binding : ~ActivateLookup(q, b)
    <3> SUFFICES ASSUME NEW b \in Binding, ActivateLookup(q, b) PROVE FALSE
      OBVIOUS
    <3>1. request'[q] = [Idle EXCEPT !.pc = "lookedUp", !.key = license.key,
                                     !.revision = license.revision, !.binding = b]
      BY <2>g DEF ActivateLookup
    <3> QED BY <1>1, <3>1 DEF Idle
  <2>3. ~AdmitBegin(q)
    <3> SUFFICES ASSUME AdmitBegin(q) PROVE FALSE
      OBVIOUS
    <3>1. request'[q] = [Local(q, "admitting") EXCEPT !.maxSessions = license.limits.maxSessions]
      BY <2>g DEF AdmitBegin
    <3> QED BY <1>1, <2>0, <3>1 DEF Local, RequestState
  <2>4. ASSUME RegisterSession(q) PROVE Draws(q)
    <3>1. PICK t \in Token \ minted : /\ minted' = minted \cup {t}
                                      /\ Goto(q, [Local(q, "registered") EXCEPT !.token = t])
      BY <2>4 DEF RegisterSession
    <3>2. request'[q].token = t
      BY <2>0, <2>g, <3>1 DEF Local, RequestState
    <3> QED BY <2>4, <3>1, <3>2
  <2>5. ~AdmitAbort(q)
    <3> SUFFICES ASSUME AdmitAbort(q) PROVE FALSE
      OBVIOUS
    <3>1. request'[q] = Local(q, "abandoned")
      BY <2>g DEF AdmitAbort
    <3> QED BY <1>1, <2>0, <3>1 DEF Local, RequestState
  <2>6. ASSUME NEW t \in issued, NEW b \in Binding, HeartbeatRefresh(q, t, b),
               request'[q] # request[q]
        PROVE  FALSE
    <3>1. request'[q] = [Idle EXCEPT !.pc = "resolved", !.token = t, !.binding = b,
                                     !.revision = redis.session[t].revision]
      BY <2>g, <2>6 DEF HeartbeatRefresh
    <3> QED BY <1>1, <3>1 DEF Idle
  <2>7. ~HeartbeatLoad(q) /\ ~HeartbeatDecide(q)
    <3> SUFFICES ASSUME HeartbeatLoad(q) \/ HeartbeatDecide(q) PROVE FALSE
      OBVIOUS
    <3>1. request'[q] \in {Idle, Local(q, "rejected"),
                           [Local(q, "loaded") EXCEPT !.active = Status = "active"]}
      BY <2>g DEF HeartbeatLoad, HeartbeatDecide, Finish
    <3> QED BY <1>1, <2>0, <3>1 DEF Local, RequestState
  <2>8. CASE request'[q] = request[q]
    BY <1>1, <2>8
  <2> QED BY <1>0, <2>1, <2>2, <2>3, <2>4, <2>5, <2>6, <2>7, <2>8, RequestStep DEF HandlerMoves
<1>2. ASSUME NEW q \in Request, Stays(q)
      PROVE  /\ request[q].pc = "registered" /\ request'[q].token = request[q].token
             /\ request[q].token \in minted /\ request[q].token \notin issued
             /\ request'[q] = request[q]
  BY <1>0, <1>2 DEF TokensOwn, Fresh, WithToken
<1>3. request'[r].token \notin issued'
  <2>1. CASE issued' = issued
    BY <1>0, <1>1, <1>2, <2>1 DEF Fresh
  <2>2. CASE issued' # issued
    <3>1. PICK p \in Request : AdmitCommit(p)
      BY <2>2, IssuedStep
    <3>2. /\ issued' = issued \cup {request[p].token} /\ request[p].pc = "registered"
          /\ minted' = minted /\ request' = [request EXCEPT ![p] = Idle]
      BY <3>1 DEF AdmitCommit, Finish, Goto
    <3>3. Stays(r)
      BY <1>1, <3>2
    <3>4. r # p
      BY <1>0, <1>2, <3>2, <3>3, IdleType DEF TypeOK
    <3>5. request[p].token # request[r].token
      BY <1>0, <1>2, <3>2, <3>3, <3>4 DEF TokensOwn
    <3> QED BY <1>2, <3>2, <3>3, <3>5
  <2> QED BY <2>1, <2>2
<1>4. ASSUME NEW q \in Request \ {r}, request'[q].pc = "registered"
      PROVE  request'[q].token # request'[r].token
  <2>1. q \in Request /\ q # r
    BY <1>4
  <2>2. CASE Stays(q) /\ Stays(r)
    BY <1>0, <1>2, <2>1, <2>2 DEF TokensOwn
  <2>3. CASE Stays(q) /\ Draws(r)
    BY <1>2, <2>1, <2>3
  <2>4. CASE Draws(q) /\ Stays(r)
    BY <1>2, <2>1, <2>4
  <2>5. CASE Draws(q) /\ Draws(r)
    <3>1. request'[q] = request[q] /\ request[q].pc = "admitting"
      BY <1>0, <2>1, <2>5 DEF RegisterSession, Goto, TypeOK
    <3> QED BY <1>4, <3>1
  <2> QED BY <1>1, <1>4, <2>1, <2>2, <2>3, <2>4, <2>5
<1> QED BY <1>3, <1>4

LEMMA InvariantInit == Init => IInv
<1> SUFFICES ASSUME Init PROVE IInv
  OBVIOUS
<1>1. TypeOK
  BY TypeInit
<1>2. /\ Live(redis) = {} /\ issued = {} /\ condemned = {} /\ lock = Nobody
      /\ request = [r \in Request |-> Idle]
  BY EmptyStoreLemma DEF Init
<1>3. \A r \in Request : request[r].pc = "idle" /\ request[r].revision = 0
  BY <1>2 DEF Idle
<1>4. license.revision = 0
  BY DEF Init
<1>5. Fresh /\ SetCoversSessions /\ SessionsHoldSlots /\ Terminated
  BY <1>2, <1>3 DEF Fresh, SetCoversSessions, SessionsHoldSlots, Terminated, WithToken
<1>6. NotAhead /\ KeyOfRevision /\ LockHeld /\ OwnSession /\ RoomHeld
  BY <1>2, <1>3, <1>4 DEF NotAhead, KeyOfRevision, LockHeld, OwnSession, RoomHeld
<1>7. CleanupBehind
  BY DEF Init, CleanupBehind, Ready
<1>8. TokensOwn
  BY <1>3 DEF TokensOwn
<1> QED BY <1>1, <1>5, <1>6, <1>7, <1>8 DEF IInv

LEMMA InvariantNext == IInv /\ [Next]_vars => IInv'
<1> SUFFICES ASSUME IInv, [Next]_vars PROVE IInv'
  OBVIOUS
<1>1. TypeOK' /\ SetCoversSessions'
  BY TypeNext, RedisStep DEF IInv, RedisFrame
<1> QED BY <1>1, FreshNext, NotAheadNext, TerminatedNext, KeyOfRevisionNext, LockHeldNext,
           OwnSessionNext, SessionsHoldSlotsNext, RoomHeldNext, CleanupBehindNext,
           TokensOwnNext DEF IInv

(* The inductive invariant holds in every state of the license runtime.    *)
THEOREM Invariance == Spec => []IInv
BY InvariantInit, InvariantNext, PTL DEF Spec

(* Every live session is in the license's set and expires no later than    *)
(* the set: REGISTER_SESSION_SCRIPT counts, and REMOVE_ALL_SESSIONS_SCRIPT *)
(* reaches, all of them.                                                   *)
THEOREM CoversSessions == Spec => []SetCoversSessions
BY Invariance, PTL DEF IInv

(* A current session that was returned to a client belongs to a binding    *)
(* with a registration slot, for any number of activations racing          *)
(* removeRegisteredIp, removeRegisteredDevice and resetRegisteredDevices.  *)
THEOREM HoldSlots == Spec => []SessionsHoldSlots
BY Invariance, PTL DEF IInv

(* requireActiveSessionLicense accepts no session that revokeLicense,      *)
(* rotateLicenseKey, terminateLicenseSessions, a removal of registrations  *)
(* or deleteLicense has terminated.                                        *)
THEOREM NeverAccepted == Spec => TerminatedNeverAccepted
<1> DEFINE Accepts(r) == request[r].pc = "resolved" /\ request'[r].pc = "loaded"
           Safe == \A r \in Request : Accepts(r) => request[r].token \notin condemned
<1>1. IInv /\ [Next]_vars => Safe
  <2> SUFFICES ASSUME IInv, [Next]_vars, NEW r \in Request, Accepts(r)
               PROVE  request[r].token \notin condemned
    OBVIOUS
  <2>0. TypeOK /\ Terminated
    BY DEF IInv
  <2>1. HeartbeatLoad(r)
    <3>1. HandlerMoves(r)
      BY <2>0, RequestStep
    <3> QED BY <3>1 DEF HandlerMoves, Idle, ActivateLookup, AdmitBegin, RegisterSession,
            AdmitAbort, HeartbeatRefresh, HeartbeatDecide
  <2>2. license.exists /\ license.revision = request[r].revision
    <3>1. Local(r, "rejected").pc = "rejected"
      BY <2>0 DEF Local, TypeOK, RequestState
    <3> QED BY <2>0, <2>1, <3>1 DEF HeartbeatLoad, Goto, TypeOK
  <2>3. ~(request[r].revision < license.revision)
    BY <2>0, <2>2, RevisionTypes
  <2> QED BY <2>0, <2>2, <2>3 DEF Terminated, WithToken
<1>2. Safe => [Safe]_vars
  OBVIOUS
<1> QED BY <1>1, <1>2, Invariance, PTL DEF Spec, TerminatedNeverAccepted

(* admitActivation returns a token only for the current secret of a        *)
(* license that exists and is not revoked, and never a terminated token.   *)
THEOREM AdmissionCurrent == Spec => AdmissionIsCurrent
<1> DEFINE Returns(r) ==
              request[r].pc = "registered" /\ issued' # issued /\ request'[r] # request[r]
           Current(r) == /\ license.exists
                         /\ request[r].key = license.key
                         /\ request[r].revision = license.revision
                         /\ ~license.revoked /\ ~license.billing
                         /\ request[r].token \notin condemned
           Safe == \A r \in Request : Returns(r) => Current(r)
<1>1. IInv /\ [Next]_vars => Safe
  <2> SUFFICES ASSUME IInv, [Next]_vars, NEW r \in Request, Returns(r) PROVE Current(r)
    OBVIOUS
  <2>0. TypeOK /\ Terminated /\ KeyOfRevision /\ LockHeld
    BY DEF IInv
  <2>1. PICK q \in Request : AdmitCommit(q)
    BY IssuedStep
  <2>2. q = r
    BY <2>0, <2>1 DEF AdmitCommit, Finish, Goto, TypeOK
  <2>3. lock = r /\ lock # Nobody
    BY <2>1, <2>2, RequestAssumption DEF AdmitCommit
  <2>4. /\ license.exists /\ ~license.revoked /\ ~license.billing
        /\ request[r].revision = license.revision
    BY <2>0, <2>3 DEF LockHeld
  <2>5. ~(request[r].revision < license.revision)
    BY <2>0, <2>4, RevisionTypes
  <2> QED BY <2>0, <2>4, <2>5 DEF KeyOfRevision, Terminated, WithToken
<1>2. Safe => [Safe]_vars
  OBVIOUS
<1> QED BY <1>1, <1>2, Invariance, PTL DEF Spec, AdmissionIsCurrent

(* An activation that returns a token leaves at most maxSessions current   *)
(* sessions with the clients, whatever else runs.                          *)
THEOREM SessionsLimited == Spec => SessionLimit
<1> DEFINE Safe == issued' # issued /\ license.limits.maxSessions > 0
                      => Cardinality(issued' \cap LiveAt(redis, license.revision))
                            <= license.limits.maxSessions
<1>1. IInv /\ [Next]_vars => Safe
  <2> SUFFICES ASSUME IInv, [Next]_vars, issued' # issued, license.limits.maxSessions > 0
               PROVE  Cardinality(issued' \cap LiveAt(redis, license.revision))
                            <= license.limits.maxSessions
    OBVIOUS
  <2>1. PICK r \in Request : AdmitCommit(r)
    BY IssuedStep
  <2>2. /\ lock = r /\ lock # Nobody /\ request[r].pc = "registered"
        /\ issued' = issued \cup {request[r].token}
    BY <2>1, RequestAssumption DEF AdmitCommit
  <2>3. /\ request[r].revision = license.revision
        /\ request[r].maxSessions = license.limits.maxSessions
    BY <2>2 DEF IInv, LockHeld
  <2> QED BY <2>2, <2>3 DEF IInv, RoomHeld
<1>2. Safe => [Safe]_vars
  OBVIOUS
<1> QED BY <1>1, <1>2, Invariance, PTL DEF Spec, SessionLimit

(* CONCURRENT_SESSION_LIMIT is answered only while that many sessions of   *)
(* the admission's revision are alive, whatever Redis still holds besides. *)
THEOREM StaleUncounted == Spec => StaleNeverCounts
<1> DEFINE Full(r) == Cardinality(LiveAt(redis, request[r].revision)) >= request[r].maxSessions
           Safe == \A r \in Request : RegisterLimit(r) => Full(r)
<1>1. IInv => Safe
  <2> SUFFICES ASSUME IInv, NEW r \in Request, RegisterLimit(r) PROVE Full(r)
    OBVIOUS
  <2>0. redis \in Store /\ request[r].revision \in Nat /\ request[r].maxSessions \in Nat
    BY DEF IInv, TypeOK, RequestState
  <2> DEFINE counted == Purge(redis, request[r].revision).members
             alive == LiveAt(redis, request[r].revision)
  <2>1. counted \subseteq alive
    BY <2>0, PurgeLemma
  <2>2. IsFiniteSet(alive)
    BY TokenAssumption, FS_Subset DEF LiveAt, Live
  <2>3. /\ Cardinality(counted) <= Cardinality(alive)
        /\ Cardinality(counted) \in Nat /\ Cardinality(alive) \in Nat
    BY <2>1, <2>2, FS_Subset, FS_CardinalityType
  <2>4. Cardinality(counted) >= request[r].maxSessions
    BY DEF RegisterLimit, LimitReached
  <2> QED BY <2>0, <2>3, <2>4
<1>2. Safe => [Safe]_vars
  OBVIOUS
<1> QED BY <1>1, <1>2, Invariance, PTL DEF Spec, StaleNeverCounts

(* The projections of the registrations stay finite, and a registration    *)
(* adds at most one address and one device.                                *)
LEMMA SlotCount ==
    ASSUME NEW S \in SUBSET Binding, NEW b \in Binding
    PROVE  /\ Cardinality(Ips(S)) \in Nat /\ Cardinality(Devices(S)) \in Nat
           /\ Cardinality(Ips(S \cup {b})) \in Nat
           /\ Cardinality(Devices(S \cup {b})) \in Nat
           /\ Cardinality(Ips(S \cup {b})) <= Cardinality(Ips(S)) + 1
           /\ Cardinality(Devices(S \cup {b})) <= Cardinality(Devices(S)) + 1
<1>1. Ips(S) \in SUBSET Ip /\ Devices(S) \in SUBSET DeviceId
  BY DEF Ips, Devices, Binding
<1>2. IsFiniteSet(Ips(S)) /\ IsFiniteSet(Devices(S))
  BY <1>1, BindingAssumption, FS_Subset
<1>3. /\ Ips(S \cup {b}) \subseteq Ips(S) \cup {b.ip}
      /\ Devices(S \cup {b}) \subseteq Devices(S) \cup {b.deviceId}
  BY DEF Ips, Devices
<1> QED BY <1>2, <1>3, AddAtMostOne

(* A binding is registered only by the commit of an admission, whether its *)
(* handler learns of it or not.                                            *)
LEMMA RegisteredStep ==
    ASSUME [Next]_vars, NEW b \in registered' \ registered
    PROVE  \E r \in Request : request[r].pc = "registered" /\ lock = r /\ Recorded(r)
BY DEF Next, vars, ClientStep, ActivateLookup, HeartbeatRefresh, Deactivate, ActivateStep,
   AdmitBegin, AdmitReject, RegisterSession, RegisterLimit, RegisterFault, AdmitCommit,
   AdmitAbort, AdmitCleanup, HeartbeatStep, HeartbeatLoad, HeartbeatDecide, HeartbeatReject,
   TransactionLost, Crash, OperatorStep, Revoke, TerminateSessions, RotateKey,
   RemoveRegisteredIp, RemoveRegisteredDevice, RemoveRegistered, ResetRegisteredDevices,
   Restore, DeleteLicense, UpdateLicense, EditAllowlist, OperatorReload, OperatorCleanup,
   OperatorCrash, Reconcile, Tick

(* No activation takes an address or device slot beyond the limits in      *)
(* force at its commit: admitActivation checks and registerDevice inserts  *)
(* under the same locks.                                                   *)
THEOREM RegistrationsLimited == Spec => RegistrationLimits
<1> DEFINE Safe == \A b \in registered' \ registered : WithinLimits(b)
<1>1. IInv /\ [Next]_vars => Safe
  <2> SUFFICES ASSUME IInv, [Next]_vars, NEW b \in registered' \ registered
               PROVE  WithinLimits(b)
    OBVIOUS
  <2>0. /\ registered \in SUBSET Binding /\ LockHeld
        /\ license.limits.maxIps \in Nat /\ license.limits.maxDevices \in Nat
    BY DEF IInv, TypeOK, License
  <2>1. PICK r \in Request : request[r].pc = "registered" /\ lock = r /\ Recorded(r)
    BY RegisteredStep
  <2>2. /\ lock = r /\ lock # Nobody
        /\ registered' = registered \cup {request[r].binding} /\ b = request[r].binding
    BY <2>1, RequestAssumption DEF Recorded
  <2>3. SlotFree(b) /\ b \in Binding
    BY <2>2 DEF IInv, LockHeld, TypeOK, RequestState
  <2> QED BY <2>0, <2>2, <2>3, SlotCount DEF SlotFree, WithinLimits
<1>2. Safe => [Safe]_vars
  OBVIOUS
<1> QED BY <1>1, <1>2, Invariance, PTL DEF Spec, RegistrationLimits

(* removeSessionsBestEffort, however late it reaches Redis, ends no        *)
(* session of the revision the license has by then.                        *)
THEOREM CleanupSpares == Spec => CleanupSparesCurrent
<1> DEFINE Cleans(o) ==
              operator[o].pc = "cleanup" /\ operator'[o].pc = "idle" /\ license.exists
           Spares == LiveAt(redis, license.revision) \subseteq Live(redis')
           Safe == \A o \in Operator : Cleans(o) => Spares
<1>1. IInv /\ [Next]_vars => Safe
  <2> SUFFICES ASSUME IInv, [Next]_vars, NEW o \in Operator, Cleans(o) PROVE Spares
    OBVIOUS
  <2>0. /\ redis \in Store /\ operator[o].minimum \in 0 .. license.revision
        /\ license.revision \in Nat /\ operator \in [Operator -> OperatorState]
    BY DEF IInv, TypeOK, License, CleanupBehind
  <2>1. operator' # operator
    OBVIOUS
  <2>2. PICK p \in Operator : OperatorStep(p)
    BY <2>1 DEF Next, vars, ClientStep, ActivateLookup, HeartbeatRefresh, Deactivate,
       ActivateStep, AdmitBegin, AdmitReject, RegisterSession, RegisterLimit, RegisterFault,
       AdmitCommit, AdmitAbort, AdmitCleanup, HeartbeatStep, HeartbeatLoad,
       HeartbeatDecide, HeartbeatReject, TransactionLost, Crash, Reconcile, Tick
  <2>3. CASE OperatorCleanup(p)
    <3>1. p = o
      BY <2>0, <2>3 DEF OperatorCleanup
    <3>2. CASE redis' = redis
      BY <3>2 DEF LiveAt
    <3>3. CASE redis' = RemoveAll(redis, operator[o].minimum)
      <4>1. operator[o].minimum \in Int /\ operator[o].minimum # NoMinimum
        BY <2>0 DEF NoMinimum
      <4>2. \A t \in Live(redis) : redis.session[t].revision >= operator[o].minimum
                                       => t \in Live(redis')
        BY <2>0, <3>3, <4>1, RemoveAllLemma
      <4> QED BY <2>0, <4>2 DEF LiveAt
    <3> QED BY <2>3, <3>1, <3>2, <3>3 DEF OperatorCleanup
  <2>4. CASE ~OperatorCleanup(p)
    <3>1. redis' = redis
      BY <2>2, <2>4
      DEF OperatorStep, Revoke, TerminateSessions, RotateKey, RemoveRegisteredIp,
          RemoveRegisteredDevice, RemoveRegistered, ResetRegisteredDevices, Restore,
          DeleteLicense, UpdateLicense, EditAllowlist, OperatorReload, OperatorCrash
    <3> QED BY <3>1 DEF LiveAt
  <2> QED BY <2>3, <2>4
<1>2. Safe => [Safe]_vars
  OBVIOUS
<1> QED BY <1>1, <1>2, Invariance, PTL DEF Spec, CleanupSparesCurrent


-----------------------------------------------------------------------------
(* As long as the database drops no connection                             *)

(* Between taking the locks and its end an admission has them, and none is *)
(* abandoned.                                                              *)
TransactionsHold ==
    \A r \in Request :
        /\ request[r].pc \in {"admitting", "registered"} => lock = r
        /\ request[r].pc # "abandoned"

LEMMA TransactionsHoldInit == Init => TransactionsHold
<1> SUFFICES ASSUME Init, NEW r \in Request
             PROVE  /\ request[r].pc \in {"admitting", "registered"} => lock = r
                    /\ request[r].pc # "abandoned"
  BY DEF TransactionsHold
<1>1. request[r].pc = "idle"
  BY IdleType DEF Init
<1> QED BY <1>1

LEMMA TransactionsHoldNext ==
    ASSUME "database" \notin Faults, TypeOK, TransactionsHold, [Next]_vars
    PROVE  TransactionsHold'
<1> SUFFICES ASSUME NEW q \in Request
             PROVE  /\ request'[q].pc \in {"admitting", "registered"} => lock' = q
                    /\ request'[q].pc # "abandoned"
  BY DEF TransactionsHold
<1>0. request[q] \in RequestState /\ Idle.pc = "idle" /\ Nobody \notin Request
  BY IdleType, RequestAssumption DEF TypeOK
<1>g. ASSUME NEW r \in Request, NEW state, Goto(r, state)
      PROVE  request'[q] = IF q = r THEN state ELSE request[q]
  BY <1>g DEF Goto, TypeOK
<1>h. /\ request[q].pc \in {"admitting", "registered"} => lock = q
      /\ request[q].pc # "abandoned"
  BY DEF TransactionsHold
<1>1. CASE UNCHANGED <<request, lock>>
  BY <1>h, <1>1
<1>2. ASSUME NEW r \in Request, NEW state, Goto(r, state), UNCHANGED lock,
             state.pc \notin {"admitting", "registered", "abandoned"}
      PROVE  /\ request'[q].pc \in {"admitting", "registered"} => lock' = q
             /\ request'[q].pc # "abandoned"
  BY <1>g, <1>h, <1>2
<1>3. ASSUME NEW r \in Request, Finish(r), Unlock(r)
      PROVE  /\ request'[q].pc \in {"admitting", "registered"} => lock' = q
             /\ request'[q].pc # "abandoned"
  BY <1>0, <1>g, <1>h, <1>3 DEF Finish, Unlock
<1>4. CASE ClientStep
  <2>1. ASSUME NEW r \in Request, NEW b \in Binding, ActivateLookup(r, b)
        PROVE  /\ request'[q].pc \in {"admitting", "registered"} => lock' = q
               /\ request'[q].pc # "abandoned"
    <3>1. [Idle EXCEPT !.pc = "lookedUp", !.key = license.key,
                       !.revision = license.revision, !.binding = b].pc = "lookedUp"
      BY DEF Idle
    <3> QED BY <1>2, <2>1, <3>1 DEF ActivateLookup
  <2>2. ASSUME NEW r \in Request, NEW t \in issued, NEW b \in Binding, HeartbeatRefresh(r, t, b)
        PROVE  /\ request'[q].pc \in {"admitting", "registered"} => lock' = q
               /\ request'[q].pc # "abandoned"
    <3>1. [Idle EXCEPT !.pc = "resolved", !.token = t, !.binding = b,
                       !.revision = redis.session[t].revision].pc = "resolved"
      BY DEF Idle
    <3> QED BY <1>1, <1>2, <2>2, <3>1 DEF HeartbeatRefresh
  <2>3. ASSUME NEW t \in issued, NEW b \in Binding, Deactivate(t, b)
        PROVE  UNCHANGED <<request, lock>>
    BY <2>3 DEF Deactivate
  <2> QED BY <1>1, <1>4, <2>1, <2>2, <2>3 DEF ClientStep
<1>5. ASSUME NEW r \in Request, ActivateStep(r)
      PROVE  /\ request'[q].pc \in {"admitting", "registered"} => lock' = q
             /\ request'[q].pc # "abandoned"
  <2>0. request[r] \in RequestState
    BY DEF TypeOK
  <2>1. CASE AdmitBegin(r)
    <3>1. [Local(r, "admitting") EXCEPT !.maxSessions = license.limits.maxSessions].pc
             = "admitting"
      BY <2>0 DEF Local, RequestState
    <3> QED BY <1>0, <1>g, <1>h, <2>1, <3>1 DEF AdmitBegin
  <2>2. CASE AdmitReject(r)
    BY <1>0, <1>2, <2>2 DEF AdmitReject, Finish
  <2>3. CASE RegisterSession(r)
    <3>1. lock = r
      BY <2>3 DEF RegisterSession, TransactionsHold
    <3>2. PICK t \in Token \ minted : Goto(r, [Local(r, "registered") EXCEPT !.token = t])
      BY <2>3 DEF RegisterSession
    <3>3. [Local(r, "registered") EXCEPT !.token = t].pc = "registered"
      BY <2>0 DEF Local, RequestState
    <3>4. lock' = lock
      BY <2>3 DEF RegisterSession
    <3> QED BY <1>g, <1>h, <3>1, <3>2, <3>3, <3>4
  <2>4. CASE RegisterLimit(r) \/ RegisterFault(r) \/ AdmitCommit(r)
    BY <1>3, <2>4 DEF RegisterLimit, RegisterFault, AdmitCommit
  <2>5. ~AdmitAbort(r) /\ ~AdmitCleanup(r)
    BY DEF AdmitAbort, AdmitCleanup, TransactionsHold
  <2> QED BY <1>5, <2>1, <2>2, <2>3, <2>4, <2>5 DEF ActivateStep
<1>6. ASSUME NEW r \in Request, HeartbeatStep(r)
      PROVE  /\ request'[q].pc \in {"admitting", "registered"} => lock' = q
             /\ request'[q].pc # "abandoned"
  <2>0. request[r] \in RequestState
    BY DEF TypeOK
  <2>1. /\ Local(r, "rejected").pc = "rejected"
        /\ [Local(r, "loaded") EXCEPT !.active = Status = "active"].pc = "loaded"
    BY <2>0 DEF Local, RequestState
  <2>2. CASE HeartbeatLoad(r)
    BY <1>2, <2>1, <2>2 DEF HeartbeatLoad
  <2>3. CASE HeartbeatDecide(r)
    BY <1>0, <1>2, <2>1, <2>3 DEF HeartbeatDecide, Finish
  <2>4. CASE HeartbeatReject(r)
    BY <1>0, <1>2, <2>4 DEF HeartbeatReject, Finish
  <2> QED BY <1>6, <2>2, <2>3, <2>4 DEF HeartbeatStep
<1>7. ASSUME NEW r \in Request, TransactionLost(r) \/ Crash(r)
      PROVE  /\ request'[q].pc \in {"admitting", "registered"} => lock' = q
             /\ request'[q].pc # "abandoned"
  BY <1>3, <1>7 DEF TransactionLost, Crash
<1>8. ASSUME NEW o \in Operator, OperatorStep(o) PROVE UNCHANGED <<request, lock>>
  BY <1>8
  DEF OperatorStep, Revoke, TerminateSessions, RotateKey, RemoveRegisteredIp,
      RemoveRegisteredDevice, RemoveRegistered, ResetRegisteredDevices, Restore,
      DeleteLicense, UpdateLicense, EditAllowlist, OperatorReload, OperatorCleanup,
      OperatorCrash
<1>9. CASE Reconcile \/ Tick \/ UNCHANGED vars
  <2>1. UNCHANGED <<request, lock>>
    BY <1>9 DEF Reconcile, Tick, vars
  <2> QED BY <1>1, <2>1
<1> QED BY <1>1, <1>4, <1>5, <1>6, <1>7, <1>8, <1>9 DEF Next

(* The script of a new session keeps those of its own revision.            *)
LEMMA RegisterKeeps ==
    ASSUME NEW store \in Store, NEW token \in Token, NEW revision \in Nat,
           NEW binding \in Binding, NEW maximum
    PROVE  /\ LiveAt(store, revision) \subseteq Live(Purge(store, revision))
           /\ LiveAt(store, revision)
                 \subseteq Live(Register(store, token, revision, binding, maximum))
<1> DEFINE stale == store.members \ LiveAt(store, revision)
<1>1. stale \in SUBSET Token
  BY DEF Store
<1>2. Live(Purge(store, revision)) = Live(store) \ stale
  BY <1>1, ForgetLemma DEF Purge
<1>3. LiveAt(store, revision) \subseteq Live(Purge(store, revision))
  BY <1>2 DEF LiveAt
<1>4. Purge(store, revision) \in Store
  BY PurgeLemma
<1>5. Live(Put(Purge(store, revision), token, revision, binding))
        = Live(Purge(store, revision)) \cup {token}
  BY <1>4, PutLemma
<1> QED BY <1>3, <1>5 DEF Register

LEMMA ElapsedKeeps ==
    ASSUME NEW store \in Store, NEW t \in Live(store), store.session[t].ttl # 1
    PROVE  t \in Live(Elapsed(store))
<1>1. t \in Token /\ store.session[t].live
  BY DEF Live
<1>2. store.session[t] \in Session
  BY <1>1, LiveValue
<1>3. Elapsed(store).session[t] = [store.session[t] EXCEPT !.ttl = @ - 1]
  BY <1>1 DEF Elapsed
<1>4. Elapsed(store).session[t].live
  BY <1>1, <1>2, <1>3 DEF Session
<1> QED BY <1>1, <1>4 DEF Live

(* A session given to a client and not terminated ends by time, by its     *)
(* holder or by a heartbeat the policy rejects, as long as the database    *)
(* keeps the transaction of admitActivation: no other activation, cleanup, *)
(* update, restoration or edit ends it.                                    *)
THEOREM ValidStay ==
    ASSUME "database" \notin Faults
    PROVE  Spec => ValidSessionsStay
<1> DEFINE Ends(t) ==
              \/ ~license.exists
              \/ t \in Live(redis')
              \/ redis.session[t].ttl = 1 /\ Tick
              \/ \E b \in Binding : Deactivate(t, b)
              \/ \E r \in Request : request[r].token = t /\ HeartbeatReject(r)
           Safe == \A t \in issued \cap LiveAt(redis, license.revision) : Ends(t)
<1>1. IInv /\ TransactionsHold /\ [Next]_vars => Safe
  <2> SUFFICES ASSUME IInv, TransactionsHold, [Next]_vars, license.exists,
                      NEW t \in issued, t \in LiveAt(redis, license.revision),
                      t \notin Live(redis')
               PROVE  Ends(t)
    OBVIOUS
  <2> HIDE DEF Ends, Safe
  <2>0. /\ TypeOK /\ LockHeld /\ CleanupBehind /\ redis \in Store /\ t \in Token
        /\ license.revision \in Nat /\ t \in Live(redis)
        /\ redis.session[t].revision = license.revision
    BY DEF IInv, TypeOK, License, LiveAt, Live
  <2>1. ~(UNCHANGED redis)
    BY <2>0
  <2>2. CASE ClientStep
    <3>1. ASSUME NEW r \in Request, NEW u \in issued, NEW b \in Binding,
                 HeartbeatRefresh(r, u, b)
          PROVE  FALSE
      BY <2>0, <3>1, RefreshLemma DEF HeartbeatRefresh, Bound
    <3>2. ASSUME NEW u \in issued, NEW b \in Binding, Deactivate(u, b) PROVE Ends(t)
      <4>1. CASE u = t
        BY <3>2, <4>1 DEF Ends
      <4>2. CASE u # t
        <5>1. u \in Token
          BY <2>0 DEF TypeOK
        <5> QED BY <2>0, <3>2, <4>2, <5>1, RemoveLemma DEF Deactivate
      <4> QED BY <4>1, <4>2
    <3> QED BY <2>1, <2>2, <3>1, <3>2 DEF ClientStep, ActivateLookup
  <2>3. ASSUME NEW r \in Request, ActivateStep(r) PROVE FALSE
    <3>1. /\ request[r].revision \in Nat /\ request[r].binding \in Binding
      BY <2>0 DEF TypeOK, RequestState
    <3>2. ASSUME request[r].pc = "admitting"
          PROVE  request[r].revision = license.revision
      <4>1. lock = r /\ lock # Nobody
        BY <3>2, RequestAssumption DEF TransactionsHold
      <4> QED BY <2>0, <4>1 DEF LockHeld
    <3>3. CASE RegisterSession(r) \/ RegisterLimit(r) \/ RegisterFault(r)
      <4>1. request[r].revision = license.revision
        BY <3>2, <3>3 DEF RegisterSession, RegisterLimit, RegisterFault
      <4>2. \/ redis' = Purge(redis, license.revision)
            \/ \E u \in Token : redis' = Register(redis, u, license.revision, request[r].binding,
                                                  request[r].maxSessions)
        BY <2>1, <3>3, <4>1 DEF RegisterSession, RegisterLimit, RegisterFault
      <4> QED BY <2>0, <3>1, <4>2, RegisterKeeps
    <3>4. ~AdmitCleanup(r)
      BY DEF AdmitCleanup, TransactionsHold
    <3> QED BY <2>1, <2>3, <3>3, <3>4
            DEF ActivateStep, AdmitBegin, AdmitReject, AdmitCommit, AdmitAbort
  <2>4. ASSUME NEW r \in Request, HeartbeatStep(r) PROVE Ends(t)
    <3>1. HeartbeatReject(r) /\ redis' = Remove(redis, request[r].token, request[r].binding)
      BY <2>1, <2>4 DEF HeartbeatStep, HeartbeatLoad, HeartbeatDecide, HeartbeatReject
    <3>2. request[r].token \in Token
      BY <2>0, <3>1 DEF HeartbeatReject, TypeOK, WithToken
    <3>3. request[r].token = t
      BY <2>0, <3>1, <3>2, RemoveLemma
    <3> QED BY <3>1, <3>3 DEF Ends
  <2>5. ASSUME NEW r \in Request, TransactionLost(r) \/ Crash(r) PROVE FALSE
    BY <2>1, <2>5 DEF TransactionLost, Crash
  <2>6. ASSUME NEW o \in Operator, OperatorStep(o) PROVE FALSE
    <3>1. operator[o].pc = "cleanup" /\ redis' = RemoveAll(redis, operator[o].minimum)
      BY <2>1, <2>6
      DEF OperatorStep, Revoke, TerminateSessions, RotateKey, RemoveRegisteredIp,
          RemoveRegisteredDevice, RemoveRegistered, ResetRegisteredDevices, Restore,
          DeleteLicense, UpdateLicense, EditAllowlist, OperatorReload, OperatorCleanup,
          OperatorCrash
    <3>2. operator[o].minimum \in 0 .. license.revision
      BY <2>0, <3>1 DEF CleanupBehind
    <3>3. /\ operator[o].minimum \in Int /\ operator[o].minimum # NoMinimum
          /\ redis.session[t].revision >= operator[o].minimum
      BY <2>0, <3>2 DEF NoMinimum
    <3> QED BY <2>0, <3>1, <3>3, RemoveAllLemma
  <2>7. ~Reconcile /\ ~UNCHANGED vars
    BY <2>1 DEF Reconcile, vars
  <2>8. CASE Tick
    <3>1. redis.session[t].ttl = 1
      BY <2>0, <2>8, ElapsedKeeps DEF Tick
    <3> QED BY <2>8, <3>1 DEF Ends
  <2> QED BY <2>2, <2>3, <2>4, <2>5, <2>6, <2>7, <2>8 DEF Next
<1>2. Safe => [Safe]_vars
  OBVIOUS
<1>3. IInv => TypeOK
  BY DEF IInv
<1>4. TypeOK /\ TransactionsHold /\ [Next]_vars => TransactionsHold'
  BY TransactionsHoldNext
<1> QED BY <1>1, <1>2, <1>3, <1>4, TransactionsHoldInit, Invariance, PTL
        DEF Spec, ValidSessionsStay

-----------------------------------------------------------------------------
(* The sessions of the abstract license                                    *)

(* The row as the abstract license sees it: nothing of it changes, or it   *)
(* is updated, or every session is terminated, or it is deleted.           *)
RowSame ==
    /\ license'.exists = license.exists /\ license'.revision = license.revision
    /\ license'.key = license.key /\ license'.limits = license.limits
    /\ license'.revoked = license.revoked /\ license'.billing = license.billing

RowUpdated ==
    /\ license.exists /\ license'.exists /\ license'.revision = license.revision
    /\ license'.key = license.key
    /\ license'.revoked => license.revoked
    /\ UNCHANGED <<redis, issued>>

RowTerminated ==
    /\ license.exists /\ license'.exists /\ license'.revision = license.revision + 1
    /\ license'.key \in {license.key, license.key + 1}
    /\ license'.limits = license.limits
    /\ license'.revoked \in {license.revoked, TRUE} /\ license'.billing = license.billing
    /\ UNCHANGED <<redis, issued>>

RowGone ==
    /\ license.exists /\ ~license'.exists
    /\ license'.key = license.key /\ license'.limits = license.limits
    /\ UNCHANGED <<redis, issued>>

LEMMA StandingStep ==
    ASSUME TypeOK, [Next]_vars
    PROVE  RowSame \/ RowUpdated \/ RowTerminated \/ RowGone
<1>0. license \in License
  BY DEF TypeOK
<1>1. CASE UNCHANGED vars
  BY <1>1 DEF vars, RowSame
<1>2. CASE ClientStep
  BY <1>2 DEF ClientStep, ActivateLookup, HeartbeatRefresh, Deactivate, RowSame
<1>3. ASSUME NEW r \in Request, ActivateStep(r) PROVE RowSame
  BY <1>0, <1>3 DEF ActivateStep, AdmitBegin, AdmitReject, RegisterSession, RegisterLimit,
     RegisterFault, AdmitCommit, AdmitAbort, Recorded, AdmitCleanup, RowSame, License
<1>4. ASSUME NEW r \in Request, HeartbeatStep(r) \/ TransactionLost(r) \/ Crash(r)
      PROVE  RowSame
  BY <1>4 DEF HeartbeatStep, HeartbeatLoad, HeartbeatDecide, HeartbeatReject,
     TransactionLost, Crash, RowSame
<1>5. ASSUME NEW o \in Operator, OperatorStep(o)
      PROVE  RowSame \/ RowUpdated \/ RowTerminated \/ RowGone
  <2>1. CASE Revoke(o) \/ TerminateSessions(o) \/ RotateKey(o) \/ ResetRegisteredDevices(o)
             \/ \E gone \in SUBSET registered : RemoveRegistered(o, gone)
    BY <1>0, <2>1 DEF Revoke, TerminateSessions, RotateKey, ResetRegisteredDevices,
       RemoveRegistered, WriteRow, Invalidate, RowTerminated, License
  <2>2. CASE DeleteLicense(o)
    BY <1>0, <2>2 DEF DeleteLicense, WriteRow, RowGone, License
  <2>3. CASE Restore(o)
    BY <1>0, <2>3 DEF Restore, WriteRow, RowUpdated, License
  <2>4. ASSUME NEW type \in LicenseType, NEW limits \in Limits, UpdateLicense(o, type, limits)
        PROVE  RowUpdated
    BY <1>0, <2>4 DEF UpdateLicense, WriteRow, RowUpdated, License
  <2>5. CASE EditAllowlist(o) \/ OperatorReload(o) \/ OperatorCleanup(o) \/ OperatorCrash(o)
    BY <2>5 DEF EditAllowlist, OperatorReload, OperatorCleanup, OperatorCrash, RowSame
  <2> QED BY <1>5, <2>1, <2>2, <2>3, <2>4, <2>5
          DEF OperatorStep, RemoveRegisteredIp, RemoveRegisteredDevice
<1>6. CASE Reconcile
  BY <1>0, <1>6 DEF Reconcile, RowUpdated, License
<1>7. CASE Tick
  BY <1>0, <1>7 DEF Tick, RowSame, License
<1> QED BY <1>1, <1>2, <1>3, <1>4, <1>5, <1>6, <1>7 DEF Next

(* No session of a token that was handed out becomes valid: a stored one   *)
(* is new, and one that goes on keeps its revision.                        *)
LEMMA NothingRevived ==
    ASSUME IInv, [Next]_vars, RowSame, issued' = issued
    PROVE  Valid' \subseteq Valid
<1>1. SUFFICES ASSUME license.exists, NEW t \in issued, t \in LiveAt(redis', license.revision)
               PROVE  t \in LiveAt(redis, license.revision)
  BY DEF RowSame, Valid
<1>2. t \in Live(redis') /\ redis'.session[t].revision = license.revision
  BY <1>1 DEF LiveAt
<1>3. Kept(t) \/ Stored(t)
  BY <1>2, RedisStep DEF IInv, RedisFrame
<1>4. ~Stored(t)
  BY <1>1 DEF Stored, IInv, Fresh
<1> QED
  BY <1>2, <1>3, <1>4 DEF Kept, LiveAt

(* An admission that commits hands out a token nobody had.                 *)
LEMMA CommitRefines ==
    ASSUME IInv, NEW r \in Request, AdmitCommit(r)
    PROVE  Abstract!SessionsNext
<1> DEFINE token == request[r].token
<1>1. /\ request[r].pc = "registered" /\ lock = r /\ lock # Nobody
      /\ issued' = issued \cup {token} /\ redis' = redis
      /\ license' = [license EXCEPT !.trialStarted = @ \/ license.type = "trial"]
  BY RequestAssumption DEF AdmitCommit, Recorded
<1>2. token \in Token /\ license \in License
  BY <1>1 DEF IInv, TypeOK, WithToken
<1>3. /\ license.exists /\ ~license.revoked /\ ~license.billing
      /\ request[r].revision = license.revision
      /\ request[r].maxSessions = license.limits.maxSessions
  BY <1>1 DEF IInv, LockHeld
<1>4. RowSame
  BY <1>1, <1>2 DEF RowSame, License
<1>5. /\ Standing = "open" /\ Standing' = Standing
      /\ license'.key = license.key
      /\ license'.limits.maxSessions = license.limits.maxSessions
  BY <1>3, <1>4 DEF Standing, RowSame
<1>6. token \notin issued /\ Valid \subseteq issued
  BY <1>1 DEF IInv, TokensOwn, Valid
<1>7. Valid' = issued' \cap LiveAt(redis, license.revision)
  BY <1>1, <1>3, <1>4 DEF Valid, RowSame
<1>8. Valid = issued \cap LiveAt(redis, license.revision)
  BY <1>3 DEF Valid
<1>9. /\ Cardinality(Valid') = Abstract!Cardinality(Valid')
      /\ Cardinality(Valid) = Abstract!Cardinality(Valid)
  BY DEF Abstract!Cardinality, Cardinality
<1>10. license.limits.maxSessions > 0 => Cardinality(Valid') <= license.limits.maxSessions
  BY <1>1, <1>3, <1>7 DEF IInv, RoomHeld
<1>11. CASE token \in LiveAt(redis, license.revision)
  <2>1. Valid' = Valid \cup {token} /\ issued' \ Valid' = issued \ Valid
    BY <1>1, <1>6, <1>7, <1>8, <1>11
  <2>2. Abstract!Admit(token)
    BY <1>5, <1>6, <1>9, <1>10, <2>1 DEF Abstract!Admit
  <2> QED
    BY <1>2, <2>2 DEF Abstract!SessionsNext
<1>12. CASE token \notin LiveAt(redis, license.revision)
  <2>1. Valid' = Valid /\ issued' \ Valid' = (issued \ Valid) \cup {token}
    BY <1>1, <1>6, <1>7, <1>8, <1>12
  <2>2. Abstract!AdmitEnded(token)
    BY <1>5, <1>6, <1>9, <1>10, <2>1 DEF Abstract!AdmitEnded
  <2> QED
    BY <1>2, <2>2 DEF Abstract!SessionsNext
<1> QED
  BY <1>11, <1>12

(* Every step is one of the abstract license: it admits a token, ends some *)
(* or all sessions, or changes the license and leaves the sessions alone.  *)
LEMMA SessionsRefine == IInv /\ [Next]_vars => Abstract!SessionsNext
<1>1. SUFFICES ASSUME IInv, [Next]_vars PROVE Abstract!SessionsNext
  OBVIOUS
<1>2. CASE issued' # issued
  BY <1>1, <1>2, IssuedStep, CommitRefines
<1>3. ASSUME issued' = issued PROVE Abstract!SessionsNext
  <2>0. /\ license \in License /\ license' \in License /\ Valid \subseteq issued
        /\ license.limits.maxSessions \in Nat /\ license'.limits.maxSessions \in Nat
    BY <1>1, TypeNext DEF IInv, TypeOK, Valid, License
  <2>1. CASE RowSame
    <3> DEFINE tokens == Valid \ Valid'
    <3>1. Valid' \subseteq Valid
      BY <1>1, <1>3, <2>1, NothingRevived
    <3>2. Valid' = Valid \ tokens /\ issued' \ Valid' = (issued \ Valid) \cup tokens
      BY <1>3, <2>0, <3>1
    <3>3. Standing' = Standing
      BY <2>1 DEF RowSame, Standing
    <3>4. Abstract!End(tokens)
      BY <2>1, <3>2, <3>3 DEF RowSame, Abstract!End
    <3> QED
      BY <3>4 DEF Abstract!SessionsNext
  <2>2. CASE RowUpdated
    <3>1. Valid' = Valid
      BY <2>2 DEF RowUpdated, Valid
    <3>2. /\ Standing # "gone" /\ Standing' \in {"open", "blocked", "revoked"}
          /\ Standing' = "revoked" => Standing = "revoked"
      BY <2>2 DEF RowUpdated, Standing
    <3>3. Abstract!Update
      BY <1>3, <2>0, <2>2, <3>1, <3>2 DEF RowUpdated, Abstract!Update
    <3> QED
      BY <3>3 DEF Abstract!SessionsNext
  <2>3. CASE RowTerminated
    <3>1. LiveAt(redis, license.revision + 1) = {}
      BY <1>1, <2>0, RevisionTypes DEF IInv, NotAhead, LiveAt
    <3>2. Valid' = {}
      BY <2>3, <3>1 DEF RowTerminated, Valid
    <3>3. issued' \ Valid' = (issued \ Valid) \cup Valid
      BY <1>3, <2>0, <3>2
    <3>4. Standing # "gone" /\ Standing' \in {Standing, "revoked"}
      BY <2>0, <2>3 DEF RowTerminated, Standing, License
    <3>5. Abstract!Terminate
      BY <2>3, <3>2, <3>3, <3>4 DEF RowTerminated, Abstract!Terminate, Abstract!EndAll
    <3> QED
      BY <3>5 DEF Abstract!SessionsNext
  <2>4. CASE RowGone
    <3>1. Valid' = {} /\ issued' \ Valid' = (issued \ Valid) \cup Valid
      BY <1>3, <2>0, <2>4 DEF RowGone, Valid
    <3>2. Standing # "gone" /\ Standing' = "gone"
      BY <2>4 DEF RowGone, Standing
    <3>3. Abstract!Delete
      BY <2>4, <3>1, <3>2 DEF RowGone, Abstract!Delete, Abstract!EndAll
    <3> QED
      BY <3>3 DEF Abstract!SessionsNext
  <2> QED
    BY <1>1, <2>1, <2>2, <2>3, <2>4, StandingStep DEF IInv
<1> QED
  BY <1>2, <1>3

(* Activation, heartbeat, deactivation and the operator actions, in any    *)
(* interleaving and with any failures, implement LicenseSessions: a token  *)
(* is handed out once and within the limit, an ended session never comes   *)
(* back, and a rotation, revocation, termination or deletion ends all of   *)
(* them at the commit of its row.                                          *)
THEOREM SessionsRefinement == Spec => ImplementsSessions
<1>1. Init => Abstract!SessionsInit
  <2> SUFFICES ASSUME Init PROVE Abstract!SessionsInit
    OBVIOUS
  <2>1. license \in License
    BY TypeInit DEF TypeOK
  <2>2. /\ license.exists /\ ~license.revoked /\ ~license.billing /\ license.key = 0
        /\ issued = {}
    BY DEF Init
  <2> QED
    BY <2>1, <2>2 DEF Abstract!SessionsInit, Standing, Valid, License
<1>2. IInv /\ [Next]_vars => [Abstract!SessionsNext]_(Abstract!sessionVars)
  BY SessionsRefine
<1> QED
  BY <1>1, <1>2, Invariance, PTL DEF Spec, ImplementsSessions, Abstract!SessionsSpec

(* A session that has ended is never valid again: no refresh that comes    *)
(* late, no restoration and no other activation revives a token.           *)
THEOREM EndedStay == Spec => [][\A t \in issued \ Valid : t \notin Valid']_vars
<1> DEFINE Safe == \A t \in issued \ Valid : t \notin Valid'
<1>1. Abstract!SessionsNext => Safe
  <2>1. SUFFICES ASSUME Abstract!SessionsNext, NEW t \in issued \ Valid PROVE t \notin Valid'
    OBVIOUS
  <2>2. ASSUME NEW token \in Token, Abstract!Admit(token) \/ Abstract!AdmitEnded(token)
        PROVE  t \notin Valid'
    BY <2>1, <2>2 DEF Abstract!Admit, Abstract!AdmitEnded
  <2>3. ASSUME NEW tokens \in SUBSET Valid, Abstract!End(tokens)
        PROVE  t \notin Valid'
    BY <2>1, <2>3 DEF Abstract!End
  <2>4. CASE Abstract!Terminate \/ Abstract!Delete
    BY <2>4 DEF Abstract!Terminate, Abstract!Delete, Abstract!EndAll
  <2>5. CASE Abstract!Update
    BY <2>1, <2>5 DEF Abstract!Update
  <2> QED
    BY <2>1, <2>2, <2>3, <2>4, <2>5 DEF Abstract!SessionsNext
<1>2. IInv /\ [Next]_vars => Safe
  BY <1>1, SessionsRefine
<1>3. Safe => [Safe]_vars
  OBVIOUS
<1> QED
  BY <1>2, <1>3, Invariance, PTL DEF Spec
=============================================================================
