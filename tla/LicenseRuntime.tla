---------------------------- MODULE LicenseRuntime ----------------------------
(***************************************************************************)
(* The runtime of one license: LicenseService.ts (activate, heartbeat,     *)
(* deactivate) racing the operator actions of AdminService.ts.             *)
(*                                                                         *)
(* Everything the server keeps is keyed by the license id (the row, the    *)
(* allowlists, the registrations, the advisory lock, the Redis set), so    *)
(* one license is modelled.  API handlers are the processes Request,       *)
(* operator handlers the processes Operator; a step is a database          *)
(* transaction, a Redis script, or the part of a handler between two of    *)
(* them.  A transaction that only takes locks and writes rows is one step: *)
(* no other transaction sees it before it commits.  The admission          *)
(* transaction is several steps, because it calls Redis while it holds its *)
(* locks.                                                                  *)
(***************************************************************************)
EXTENDS RedisSessions

CONSTANTS
    Request,        \* API request handlers, in any number of server processes
    Operator,       \* operator request handlers (REST or CLI)
    Nobody,         \* no process
    LicenseType,    \* the types an operator uses, a subset of LicenseTypes
    Limits,         \* the [maxIps, maxDevices, maxSessions] an operator uses
    Horizon,        \* bound: the longest subscription or trial, in units of time
    MaxRevision,    \* bound: how often sessions are invalidated
    EditAllowlists, \* bound: whether the operators edit the allowlists
    StripeLinked,   \* whether Stripe may block billing of this license
    Faults          \* which failures may happen, a subset of FaultKinds

LicenseTypes == {"lifetime", "subscription", "trial", "metered"}
FaultKinds == {"redis", "database", "crash"}

ASSUME RequestAssumption == Nobody \notin Request \cup Token
ASSUME LicenseTypeAssumption == LicenseType \subseteq LicenseTypes
ASSUME LimitsAssumption == Limits \subseteq [maxIps : Nat, maxDevices : Nat, maxSessions : Nat]
ASSUME HorizonAssumption == Horizon \in Nat
ASSUME MaxRevisionAssumption == MaxRevision \in Nat
ASSUME FlagAssumption == EditAllowlists \in BOOLEAN /\ StripeLinked \in BOOLEAN
ASSUME FaultsAssumption == Faults \subseteq FaultKinds
ASSUME BindingAssumption == IsFiniteSet(Ip) /\ IsFiniteSet(DeviceId) /\ Binding # {}

VARIABLES
    license,        \* the row of the table licenses, and billingRevokedAt of its link
    allowedIps,     \* license_ip_allowlist_entries
    allowedDevices, \* license_device_allowlist_entries
    registered,     \* registered_devices, as the bindings registered
    redis,          \* the sessions of the license
    lock,           \* holder of the advisory lock and of the row lock
    request,        \* local state of every API handler
    operator,       \* local state of every operator handler
    minted,         \* tokens handed to Redis so far: a UUID is never drawn twice
    issued,         \* history: tokens returned to a client
    condemned       \* history: tokens some completed operator action terminated

vars == <<license, allowedIps, allowedDevices, registered, redis, lock,
          request, operator, minted, issued, condemned>>

access == <<allowedIps, allowedDevices>>

-----------------------------------------------------------------------------
(* Types                                                                   *)

License == [exists : BOOLEAN,
            key : Nat,              \* which secret keyHash is the hash of
            revision : Nat,         \* sessionRevision
            type : LicenseTypes,
            timeLeft : Nat,         \* until expiresAt, or of a trial
            trialStarted : BOOLEAN, \* trialStartedAt is set
            revoked : BOOLEAN,      \* manualRevokedAt is set
            billing : BOOLEAN,      \* billingRevokedAt of the Stripe link is set
            limits : [maxIps : Nat, maxDevices : Nat, maxSessions : Nat]]

AnyBinding == CHOOSE b \in Binding : TRUE

ActivatePc == {"lookedUp", "admitting", "registered", "abandoned"}
HeartbeatPc == {"resolved", "loaded", "rejected"}

WithToken == {"registered", "abandoned", "resolved", "loaded", "rejected"}

RequestState == [pc : {"idle"} \cup ActivatePc \cup HeartbeatPc,
                 key : Nat,           \* the secret the client sent
                 revision : Nat,      \* sessionRevision read, or resolved from the token
                 binding : Binding,
                 maxSessions : Nat,   \* current.maxSessions, read under the lock
                 token : Token \cup {Nobody},
                 active : BOOLEAN]    \* the status derived from the loaded row

Idle == [pc |-> "idle", key |-> 0, revision |-> 0, binding |-> AnyBinding,
         maxSessions |-> 0, token |-> Nobody, active |-> FALSE]

OperatorState == [pc : {"idle", "reload", "cleanup"}, minimum : Nat \cup {NoMinimum}]

Ready == [pc |-> "idle", minimum |-> 0]

(* A type invariant: every variable keeps the shape declared above.        *)
TypeOK ==
    /\ license \in License
    /\ allowedIps \subseteq Ip
    /\ allowedDevices \subseteq DeviceId
    /\ registered \subseteq Binding
    /\ redis \in Store
    /\ lock \in Request \cup {Nobody}
    /\ request \in [Request -> RequestState]
    /\ \A r \in Request : request[r].pc \in WithToken => request[r].token \in Token
    /\ operator \in [Operator -> OperatorState]
    /\ minted \subseteq Token
    /\ issued \subseteq Token
    /\ condemned \subseteq Token

-----------------------------------------------------------------------------
(* createTypeConfig: a subscription has a future expiresAt, a trial a      *)
(* positive duration that starts at the first activation.                  *)
TimeOf(type) == IF type \in {"subscription", "trial"} THEN 1 .. Horizon ELSE {0}

Init ==
    /\ \E type \in LicenseType, limits \in Limits : \E time \in TimeOf(type) :
          license = [exists |-> TRUE, key |-> 0, revision |-> 0, type |-> type,
                     timeLeft |-> time, trialStarted |-> FALSE,
                     revoked |-> FALSE, billing |-> FALSE, limits |-> limits]
    /\ allowedIps = {} /\ allowedDevices = {} /\ registered = {}
    /\ redis = EmptyStore
    /\ lock = Nobody
    /\ request = [r \in Request |-> Idle]
    /\ operator = [o \in Operator |-> Ready]
    /\ minted = {} /\ issued = {} /\ condemned = {}

-----------------------------------------------------------------------------
(* Policy                                                                  *)

(* A subscription, and a trial once started, runs out.                     *)
Running == \/ license.type = "subscription"
           \/ license.type = "trial" /\ license.trialStarted

(* deriveLicenseStatus                                                     *)
Status ==
    IF license.revoked \/ license.billing THEN "revoked"
    ELSE IF Running /\ license.timeLeft = 0 THEN "expired"
    ELSE "active"

(* assertAllowed: an empty allowlist restricts nothing.                    *)
Allowed(binding) ==
    /\ allowedIps # {} => binding.ip \in allowedIps
    /\ allowedDevices # {} => binding.deviceId \in allowedDevices

Ips(bindings) == {b.ip : b \in bindings}
Devices(bindings) == {b.deviceId : b \in bindings}

(* Deliberate fault: the limit is compared with > instead of >=.           *)
SlotFreeLate(binding) ==
    \/ license.limits.maxIps = 0
    \/ Cardinality(Ips(registered)) <= license.limits.maxIps

(* The registration limits of admitActivation; 0 is no limit.              *)
SlotFree(binding) ==
    \/ binding \in registered
    \/ /\ \/ license.limits.maxIps = 0
          \/ binding.ip \in Ips(registered)
          \/ Cardinality(Ips(registered)) < license.limits.maxIps
       /\ \/ license.limits.maxDevices = 0
          \/ binding.deviceId \in Devices(registered)
          \/ Cardinality(Devices(registered)) < license.limits.maxDevices

(* Deliberate fault: the revision is not compared again under the lock.    *)
AdmissibleUnchecked(r) ==
    /\ license.exists
    /\ Status = "active"
    /\ Allowed(request[r].binding)
    /\ SlotFree(request[r].binding)

(* What findLicenseAdmissionPolicy and the checks after it let through.    *)
Admissible(r) ==
    /\ license.exists
    /\ license.revision = request[r].revision
    /\ Status = "active"
    /\ Allowed(request[r].binding)
    /\ SlotFree(request[r].binding)

-----------------------------------------------------------------------------
(* Activation                                                              *)

Goto(r, state) == request' = [request EXCEPT ![r] = state]

Finish(r) == Goto(r, Idle)

Local(r, pc) == [request[r] EXCEPT !.pc = pc]

(* Bound: an activation starts while a token is left for it.               *)
TokenToSpare ==
    Cardinality({r \in Request : request[r].pc \in {"lookedUp", "admitting"}})
        < Cardinality(Token \ minted)

(* activate: findByLicenseKeyWithAllowlists reads the license without a    *)
(* lock.  A secret that is not the current one finds no row and changes    *)
(* nothing.                                                                *)
ActivateLookup(r, binding) ==
    /\ request[r].pc = "idle"
    /\ TokenToSpare
    /\ license.exists
    /\ Goto(r, [Idle EXCEPT !.pc = "lookedUp", !.key = license.key,
                            !.revision = license.revision, !.binding = binding])
    /\ UNCHANGED <<license, access, registered, redis, lock, operator, minted,
                   issued, condemned>>

(* withLicenseRegistrationLock and findLicenseAdmissionPolicy: the         *)
(* transaction takes the advisory lock and SELECT ... FOR UPDATE of the    *)
(* row, and the policy lets the activation through.                        *)
AdmitBegin(r) ==
    /\ request[r].pc = "lookedUp"
    /\ lock = Nobody
    /\ Admissible(r)
    /\ lock' = r
    /\ Goto(r, [Local(r, "admitting") EXCEPT !.maxSessions = license.limits.maxSessions])
    /\ UNCHANGED <<license, access, registered, redis, operator, minted,
                   issued, condemned>>

(* The same transaction rolled back by one of the policy errors.           *)
AdmitReject(r) ==
    /\ request[r].pc = "lookedUp"
    /\ lock = Nobody
    /\ ~Admissible(r)
    /\ Finish(r)
    /\ UNCHANGED <<license, access, registered, redis, lock, operator, minted,
                   issued, condemned>>

Unlock(r) == lock' = IF lock = r THEN Nobody ELSE lock

(* registerSession inside the transaction: the session is stored.          *)
RegisterSession(r) ==
    /\ request[r].pc = "admitting"
    /\ ~LimitReached(redis, request[r].revision, request[r].maxSessions)
    /\ \E t \in Token \ minted :
          /\ minted' = minted \cup {t}
          /\ redis' = Register(redis, t, request[r].revision, request[r].binding,
                               request[r].maxSessions)
          /\ Goto(r, [Local(r, "registered") EXCEPT !.token = t])
    /\ UNCHANGED <<license, access, registered, lock, operator, issued, condemned>>

(* Deliberate fault: the rejected admission keeps its transaction open.    *)
RegisterLimitKeepsLock(r) ==
    /\ request[r].pc = "admitting"
    /\ LimitReached(redis, request[r].revision, request[r].maxSessions)
    /\ redis' = Purge(redis, request[r].revision)
    /\ Finish(r)
    /\ UNCHANGED <<license, access, registered, lock, operator, minted, issued, condemned>>

(* registerSession answers limit-reached: CONCURRENT_SESSION_LIMIT rolls   *)
(* the transaction back.  The script has purged stale members.             *)
RegisterLimit(r) ==
    /\ request[r].pc = "admitting"
    /\ LimitReached(redis, request[r].revision, request[r].maxSessions)
    /\ redis' = Purge(redis, request[r].revision)
    /\ Finish(r) /\ Unlock(r)
    /\ UNCHANGED <<license, access, registered, operator, minted, issued, condemned>>

(* registerSession throws: the script did not run, or ran and its reply    *)
(* was lost.  No token is known, so nothing is cleaned up.  A script that  *)
(* runs only after its handler gave up finds the locks free, as if         *)
(* TransactionLost had come first, and counts as a "database" fault.       *)
RegisterFault(r) ==
    /\ "redis" \in Faults
    /\ request[r].pc = "admitting"
    /\ \/ UNCHANGED <<redis, minted>>
       \/ \E t \in Token \ minted :
             /\ minted' = minted \cup {t}
             /\ redis' = Register(redis, t, request[r].revision, request[r].binding,
                                  request[r].maxSessions)
    /\ Finish(r) /\ Unlock(r)
    /\ UNCHANGED <<license, access, registered, operator, issued, condemned>>

(* What the transaction of an admission changes: startTrialIfUnset and     *)
(* registerDevice.                                                         *)
Recorded(r) ==
    /\ license' = [license EXCEPT !.trialStarted = @ \/ license.type = "trial"]
    /\ registered' = registered \cup {request[r].binding}

(* COMMIT.  The token counts as returned from here on, although the answer *)
(* leaves a little later, after touchDevice and a capture.                 *)
AdmitCommit(r) ==
    /\ request[r].pc = "registered"
    /\ lock = r
    /\ Recorded(r)
    /\ issued' = issued \cup {request[r].token}
    /\ Finish(r) /\ Unlock(r)
    /\ UNCHANGED <<access, redis, operator, minted, condemned>>

(* One of the statements after registerSession, or COMMIT, fails: always   *)
(* when the database has already dropped the transaction.  A COMMIT whose  *)
(* acknowledgement is lost has taken effect all the same.                  *)
AdmitAbort(r) ==
    /\ request[r].pc = "registered"
    /\ lock # r \/ "database" \in Faults
    /\ \/ UNCHANGED <<license, registered>>
       \/ lock = r /\ Recorded(r)
    /\ Goto(r, Local(r, "abandoned")) /\ Unlock(r)
    /\ UNCHANGED <<access, redis, operator, minted, issued, condemned>>

(* The catch block of admitActivation removes the unreturned session, and  *)
(* ignores a Redis failure.                                                *)
AdmitCleanup(r) ==
    /\ request[r].pc = "abandoned"
    /\ \/ redis' = Remove(redis, request[r].token, request[r].binding)
       \/ "redis" \in Faults /\ UNCHANGED redis
    /\ Finish(r)
    /\ UNCHANGED <<license, access, registered, lock, operator, minted,
                   issued, condemned>>

(* The database loses the connection of an open admission: the transaction *)
(* rolls back and its locks are free while the handler is still waiting    *)
(* for Redis.                                                              *)
TransactionLost(r) ==
    /\ "database" \in Faults
    /\ lock = r
    /\ lock' = Nobody
    /\ UNCHANGED <<license, access, registered, redis, request, operator, minted,
                   issued, condemned>>

(* The server process dies: its handlers vanish, the database rolls back.  *)
Crash(r) ==
    /\ "crash" \in Faults
    /\ request[r].pc # "idle"
    /\ Finish(r) /\ Unlock(r)
    /\ UNCHANGED <<license, access, registered, redis, operator, minted,
                   issued, condemned>>

-----------------------------------------------------------------------------
(* Heartbeat; consume runs the same checks before it debits a meter        *)

(* refreshSession: the script finds the token bound to the caller.  Any    *)
(* other answer is SESSION_INVALID_OR_EXPIRED and changes nothing.         *)
HeartbeatRefresh(r, token, binding) ==
    /\ request[r].pc = "idle"
    /\ Bound(redis, token, binding)
    /\ redis' = Refresh(redis, token)
    /\ \/ Goto(r, [Idle EXCEPT !.pc = "resolved", !.token = token, !.binding = binding,
                               !.revision = redis.session[token].revision])
       \/ "redis" \in Faults /\ UNCHANGED request      \* the reply is lost
    /\ UNCHANGED <<license, access, registered, lock, operator, minted,
                   issued, condemned>>

(* Deliberate fault: the revision of the session is not compared.          *)
HeartbeatLoadAnyRevision(r) ==
    /\ request[r].pc = "resolved"
    /\ license.exists
    /\ Goto(r, [Local(r, "loaded") EXCEPT !.active = Status = "active"])
    /\ UNCHANGED <<license, access, registered, redis, lock, operator, minted,
                   issued, condemned>>

(* requireActiveSessionLicense reads the row; a missing license or another *)
(* revision rejects the session.                                           *)
HeartbeatLoad(r) ==
    /\ request[r].pc = "resolved"
    /\ IF license.exists /\ license.revision = request[r].revision
       THEN Goto(r, [Local(r, "loaded") EXCEPT !.active = Status = "active"])
       ELSE Goto(r, Local(r, "rejected"))
    /\ UNCHANGED <<license, access, registered, redis, lock, operator, minted,
                   issued, condemned>>

(* The allowlists are read in later statements; then assertActive and      *)
(* assertAllowed decide.  An accepted heartbeat touches lastSeenAt only.   *)
HeartbeatDecide(r) ==
    /\ request[r].pc = "loaded"
    /\ IF request[r].active /\ Allowed(request[r].binding)
       THEN Finish(r)
       ELSE Goto(r, Local(r, "rejected"))
    /\ UNCHANGED <<license, access, registered, redis, lock, operator, minted,
                   issued, condemned>>

(* removeSessionBestEffort, then the error is returned.                    *)
HeartbeatReject(r) ==
    /\ request[r].pc = "rejected"
    /\ \/ redis' = Remove(redis, request[r].token, request[r].binding)
       \/ "redis" \in Faults /\ UNCHANGED redis
    /\ Finish(r)
    /\ UNCHANGED <<license, access, registered, lock, operator, minted,
                   issued, condemned>>

(* deactivate is one script.                                               *)
Deactivate(token, binding) ==
    /\ Bound(redis, token, binding)
    /\ redis' = Remove(redis, token, binding)
    /\ UNCHANGED <<license, access, registered, lock, request, operator, minted,
                   issued, condemned>>

-----------------------------------------------------------------------------
(* Operator actions                                                        *)

(* A statement that writes the license row waits for the row lock.         *)
WriteRow(o) ==
    /\ operator[o].pc = "idle"
    /\ license.exists
    /\ lock = Nobody

OperatorGoto(o, pc, minimum) ==
    operator' = [operator EXCEPT ![o] = [pc |-> pc, minimum |-> minimum]]

(* Deliberate fault: the revision stays.                                   *)
InvalidateKeepsRevision(o, row, pc) ==
    /\ license' = row
    /\ condemned' = minted
    /\ OperatorGoto(o, pc, license.revision)

(* The row is written with sessionRevision + 1: every token drawn so far   *)
(* is terminated.  The handler goes on to remove the sessions in Redis.    *)
Invalidate(o, row, pc) ==
    /\ license.revision < MaxRevision
    /\ license' = [row EXCEPT !.revision = license.revision + 1]
    /\ condemned' = minted
    /\ OperatorGoto(o, pc, license.revision + 1)

(* revokeLicense: updateWithSessionInvalidation, then findById.            *)
Revoke(o) ==
    /\ WriteRow(o)
    /\ Invalidate(o, [license EXCEPT !.revoked = TRUE], "reload")
    /\ UNCHANGED <<access, registered, redis, lock, request, minted, issued>>

(* terminateLicenseSessions: incrementSessionRevision, then findById.      *)
TerminateSessions(o) ==
    /\ WriteRow(o)
    /\ Invalidate(o, license, "reload")
    /\ UNCHANGED <<access, registered, redis, lock, request, minted, issued>>

(* rotateLicenseKey; a concurrent writer makes it fail and change nothing. *)
RotateKey(o) ==
    /\ WriteRow(o)
    /\ Invalidate(o, [license EXCEPT !.key = @ + 1], "cleanup")
    /\ UNCHANGED <<access, registered, redis, lock, request, minted, issued>>

(* Deliberate fault: the revision stays when registrations are removed.    *)
RemoveRegisteredKeepsRevision(o, gone) ==
    /\ WriteRow(o)
    /\ registered' = registered \ gone
    /\ UNCHANGED <<license, access, redis, lock, request, operator, minted, issued, condemned>>

(* removeRegisteredIp and removeRegisteredDevice: in one transaction under *)
(* the advisory lock, the registrations go and the revision moves on.      *)
(* With no such registration nothing changes.                              *)
RemoveRegistered(o, gone) ==
    /\ WriteRow(o)
    /\ gone # {}
    /\ registered' = registered \ gone
    /\ Invalidate(o, license, "cleanup")
    /\ UNCHANGED <<access, redis, lock, request, minted, issued>>

RemoveRegisteredIp(o, ip) ==
    RemoveRegistered(o, {b \in registered : b.ip = ip})

RemoveRegisteredDevice(o, deviceId) ==
    RemoveRegistered(o, {b \in registered : b.deviceId = deviceId})

(* resetRegisteredDevices moves the revision on even with none registered. *)
ResetRegisteredDevices(o) ==
    /\ WriteRow(o)
    /\ registered' = {}
    /\ Invalidate(o, license, "cleanup")
    /\ UNCHANGED <<access, redis, lock, request, minted, issued>>

(* findById after the write: the revision may have moved on again, and a   *)
(* license deleted meanwhile ends the handler with an error.               *)
OperatorReload(o) ==
    /\ operator[o].pc = "reload"
    /\ IF license.exists
       THEN OperatorGoto(o, "cleanup", license.revision)
       ELSE operator' = [operator EXCEPT ![o] = Ready]
    /\ UNCHANGED <<license, access, registered, redis, lock, request, minted,
                   issued, condemned>>

(* removeSessionsBestEffort with preserveFromRevision; Redis may fail.     *)
OperatorCleanup(o) ==
    /\ operator[o].pc = "cleanup"
    /\ \/ redis' = RemoveAll(redis, operator[o].minimum)
       \/ "redis" \in Faults /\ UNCHANGED redis
    /\ operator' = [operator EXCEPT ![o] = Ready]
    /\ UNCHANGED <<license, access, registered, lock, request, minted,
                   issued, condemned>>

(* The process dies after its write: the sessions stay in Redis.           *)
OperatorCrash(o) ==
    /\ "crash" \in Faults
    /\ operator[o].pc # "idle"
    /\ operator' = [operator EXCEPT ![o] = Ready]
    /\ UNCHANGED <<license, access, registered, redis, lock, request, minted,
                   issued, condemned>>

(* restoreLicense keeps the revision.                                      *)
Restore(o) ==
    /\ WriteRow(o)
    /\ license.revoked
    /\ license' = [license EXCEPT !.revoked = FALSE]
    /\ UNCHANGED <<access, registered, redis, lock, request, operator, minted,
                   issued, condemned>>

(* deleteLicense and the cascade to allowlists and registrations, then     *)
(* removeAllSessions without a minimum.                                    *)
DeleteLicense(o) ==
    /\ WriteRow(o)
    /\ license' = [license EXCEPT !.exists = FALSE]
    /\ allowedIps' = {} /\ allowedDevices' = {} /\ registered' = {}
    /\ condemned' = minted
    /\ OperatorGoto(o, "cleanup", NoMinimum)
    /\ UNCHANGED <<redis, lock, request, minted, issued>>

(* updateTypeConfig: the time an update leaves.  A new expiresAt lies in   *)
(* the future, and a change to trial starts a full one; a subscription may *)
(* keep its expiry, and a trial that has started may be shortened.         *)
UpdatedTime(type) ==
    CASE type \in {"lifetime", "metered"} -> {0}
      [] type = "subscription" ->
            (1 .. Horizon) \cup (IF license.type = type THEN {license.timeLeft} ELSE {})
      [] type = "trial" ->
            IF license.type = type /\ license.trialStarted THEN 0 .. Horizon ELSE 1 .. Horizon

(* Deliberate fault: an update ends every session of the license.          *)
UpdateLicenseEjecting(o, type, limits) ==
    /\ WriteRow(o)
    /\ license' = [license EXCEPT !.limits = limits]
    /\ OperatorGoto(o, "cleanup", NoMinimum)
    /\ UNCHANGED <<access, registered, redis, lock, request, minted, issued, condemned>>

(* updateLicense (renewSubscription too): the write fails unless the row   *)
(* is the one the handler read, so reading and writing are one step.  A    *)
(* blocked license is linked to Stripe: its expiry is not the operator's,  *)
(* and another type unlinks it.                                            *)
UpdateLicense(o, type, limits) ==
    /\ WriteRow(o)
    /\ \E time \in UpdatedTime(type) :
          /\ license.billing /\ type = "subscription" => time = license.timeLeft
          /\ license' = [license EXCEPT
                           !.type = type, !.limits = limits, !.timeLeft = time,
                           !.trialStarted = IF type = license.type THEN @ ELSE type = "trial",
                           !.billing = @ /\ type = "subscription"]
    /\ UNCHANGED <<access, registered, redis, lock, request, operator, minted,
                   issued, condemned>>

(* addAllowedIp, removeAllowedIp, addAllowedDevice, removeAllowedDevice:   *)
(* single statements that take no lock on the license row.                 *)
EditAllowlist(o) ==
    /\ EditAllowlists
    /\ operator[o].pc = "idle"
    /\ license.exists
    /\ \/ /\ \E ip \in Ip : allowedIps' \in {allowedIps \cup {ip}, allowedIps \ {ip}}
          /\ UNCHANGED allowedDevices
       \/ /\ \E d \in DeviceId :
                 allowedDevices' \in {allowedDevices \cup {d}, allowedDevices \ {d}}
          /\ UNCHANGED allowedIps
    /\ UNCHANGED <<license, registered, redis, lock, request, operator, minted,
                   issued, condemned>>

-----------------------------------------------------------------------------
(* Environment                                                             *)

(* reconcileForSubscriptionLicense: Stripe's current state sets the expiry *)
(* and blocks or unblocks the license; sessions are left alone.            *)
Reconcile ==
    /\ StripeLinked
    /\ license.exists /\ license.type = "subscription"
    /\ lock = Nobody
    /\ \E blocked \in BOOLEAN, paidThrough \in 0 .. Horizon :
          license' = [license EXCEPT !.billing = blocked, !.timeLeft = paidThrough]
    /\ UNCHANGED <<access, registered, redis, lock, request, operator, minted,
                   issued, condemned>>

(* Time passes for Redis and for the license.                              *)
Tick ==
    /\ redis.setTtl > 0 \/ Live(redis) # {} \/ (Running /\ license.timeLeft > 0)
    /\ redis' = Elapsed(redis)
    /\ license' = [license EXCEPT !.timeLeft = IF Running /\ @ > 0 THEN @ - 1 ELSE @]
    /\ UNCHANGED <<access, registered, lock, request, operator, minted, issued, condemned>>

-----------------------------------------------------------------------------
ActivateStep(r) ==
    \/ AdmitBegin(r)
    \/ AdmitReject(r)
    \/ RegisterSession(r)
    \/ RegisterLimit(r)
    \/ RegisterFault(r)
    \/ AdmitCommit(r)
    \/ AdmitAbort(r)
    \/ AdmitCleanup(r)

HeartbeatStep(r) ==
    \/ HeartbeatLoad(r)
    \/ HeartbeatDecide(r)
    \/ HeartbeatReject(r)

ClientStep ==
    \/ \E r \in Request, b \in Binding : ActivateLookup(r, b)
    \/ \E r \in Request, t \in issued, b \in Binding : HeartbeatRefresh(r, t, b)
    \/ \E t \in issued, b \in Binding : Deactivate(t, b)

OperatorStep(o) ==
    \/ Revoke(o)
    \/ TerminateSessions(o)
    \/ RotateKey(o)
    \/ \E ip \in Ip : RemoveRegisteredIp(o, ip)
    \/ \E d \in DeviceId : RemoveRegisteredDevice(o, d)
    \/ ResetRegisteredDevices(o)
    \/ Restore(o)
    \/ DeleteLicense(o)
    \/ \E type \in LicenseType, limits \in Limits : UpdateLicense(o, type, limits)
    \/ EditAllowlist(o)
    \/ OperatorReload(o)
    \/ OperatorCleanup(o)
    \/ OperatorCrash(o)

Next ==
    \/ ClientStep
    \/ \E r \in Request :
          ActivateStep(r) \/ HeartbeatStep(r) \/ TransactionLost(r) \/ Crash(r)
    \/ \E o \in Operator : OperatorStep(o)
    \/ Reconcile
    \/ Tick

Spec == Init /\ [][Next]_vars

(* Fairness.  A handler that can take a step takes it: the event loop runs *)
(* every ready promise.  Waiting transactions are served in order by the   *)
(* lock queue of PostgreSQL, hence strong fairness for the step that takes *)
(* the lock; and time passes.                                              *)
Fairness ==
    /\ \A r \in Request :
          /\ WF_vars(ActivateStep(r) \/ HeartbeatStep(r))
          /\ SF_vars(AdmitBegin(r) \/ AdmitReject(r))
    /\ WF_vars(Tick)

FairSpec == Spec /\ Fairness

-----------------------------------------------------------------------------
(* Correctness                                                             *)

(* Every live session is a member of the license's set, and the set        *)
(* outlives it: a set that expired before one of its members would make    *)
(* REGISTER_SESSION_SCRIPT undercount, and REMOVE_ALL miss the session.    *)
SetCoversSessions ==
    \A t \in Live(redis) :
        t \in redis.members /\ redis.session[t].ttl <= redis.setTtl

(* A session returned to a client and still current belongs to a binding   *)
(* that holds a registration slot: removing a registration, alone or with  *)
(* all the others, ends the sessions that rely on it, whether or not Redis *)
(* could be cleaned up.                                                    *)
SessionsHoldSlots ==
    \A t \in issued \cap Live(redis) :
        license.exists /\ redis.session[t].revision = license.revision
            => redis.session[t].binding \in registered

(* A heartbeat that reads the license after a revocation, rotation,        *)
(* termination, reset or deletion completed rejects every session from     *)
(* before it: although Redis kept the session, although the license was    *)
(* restored since, and although the session was resolved before.           *)
TerminatedNeverAccepted ==
    [][\A r \in Request :
          request[r].pc = "resolved" /\ request'[r].pc = "loaded"
              => request[r].token \notin condemned]_vars

(* An admission commits only if the secret its token was asked for with is *)
(* still the license's secret, the license is neither deleted nor revoked, *)
(* by an operator or by Stripe, and nothing terminated the token in        *)
(* between.  (An operator may still act between the commit and the answer, *)
(* and the client receives a token that is terminated already.)            *)
AdmissionIsCurrent ==
    [][\A r \in Request :
          request[r].pc = "registered" /\ issued' # issued /\ request'[r] # request[r]
              => /\ license.exists
                 /\ request[r].key = license.key
                 /\ request[r].revision = license.revision
                 /\ ~license.revoked /\ ~license.billing
                 /\ request[r].token \notin condemned]_vars

(* Concurrency limit: when a token is returned, the clients hold at most   *)
(* maxSessions live sessions of the current revision, that one included.   *)
(* A consequence of ImplementsSessions, which the run checks.              *)
SessionLimit ==
    [][issued' # issued /\ license.limits.maxSessions > 0
          => Cardinality(issued' \cap LiveAt(redis, license.revision))
                <= license.limits.maxSessions]_vars

(* CONCURRENT_SESSION_LIMIT is answered only while that many sessions of   *)
(* the same revision are alive: expired sessions, and terminated ones that *)
(* Redis still holds, take nobody's place.                                 *)
StaleNeverCounts ==
    [][\A r \in Request :
          RegisterLimit(r)
              => Cardinality(LiveAt(redis, request[r].revision)) >= request[r].maxSessions]_vars

(* The address and the device of a new registration had a slot, or the     *)
(* limit is still kept with them.                                          *)
WithinLimits(b) ==
    /\ \/ license.limits.maxIps = 0
       \/ b.ip \in Ips(registered)
       \/ Cardinality(Ips(registered')) <= license.limits.maxIps
    /\ \/ license.limits.maxDevices = 0
       \/ b.deviceId \in Devices(registered)
       \/ Cardinality(Devices(registered')) <= license.limits.maxDevices

(* Registration limits gate new registrations: no activation takes a slot  *)
(* beyond the maxIps and maxDevices in force when it commits, although     *)
(* several activations and an operator who lowers the limits race.         *)
RegistrationLimits ==
    [][\A b \in registered' \ registered : WithinLimits(b)]_vars

(* The cleanup an operator action sends to Redis, however late it arrives, *)
(* ends no session admitted since: only sessions of older revisions go.    *)
CleanupSparesCurrent ==
    [][\A o \in Operator :
          operator[o].pc = "cleanup" /\ operator'[o].pc = "idle" /\ license.exists
              => LiveAt(redis, license.revision) \subseteq Live(redis')]_vars

(* A valid session is not ejected silently: while the license and its      *)
(* revision stay, a session returned to a client ends only when its time   *)
(* runs out, when its holder releases it, or when a heartbeat found it     *)
(* against the policy.  Limits lowered by an operator, a restoration, an   *)
(* edit, another activation never end it.  (Holds as long as the database  *)
(* keeps the transaction of an admission; see the README.)                 *)
ValidSessionsStay ==
    [][\A t \in issued \cap LiveAt(redis, license.revision) :
          \/ ~license.exists
          \/ t \in Live(redis')
          \/ redis.session[t].ttl = 1 /\ Tick
          \/ \E b \in Binding : Deactivate(t, b)
          \/ \E r \in Request : request[r].token = t /\ HeartbeatReject(r)]_vars

(* Every activation and heartbeat ends: no handler waits for ever for the  *)
(* locks of an admission.                                                  *)
RequestsEnd == \A r \in Request : (request[r].pc # "idle") ~> (request[r].pc = "idle")

(* A session whose token was never returned (the reply of Redis was lost,  *)
(* the transaction failed, the server died) leaves Redis by itself and     *)
(* does not count against the limit for ever.                              *)
OrphansExpire ==
    \A t \in Token : (t \in Live(redis) \ issued) ~> (t \notin Live(redis) \ issued)

-----------------------------------------------------------------------------
(* The inductive invariant behind the safety properties.                   *)

(* Tokens in use were drawn before: a new one meets no old session.        *)
Fresh ==
    /\ Live(redis) \subseteq minted
    /\ issued \subseteq minted
    /\ condemned \subseteq minted
    /\ \A r \in Request : request[r].pc \in WithToken => request[r].token \in minted

(* No session and no handler is ahead of the license: an increment of the  *)
(* revision leaves all of them behind.                                     *)
NotAhead ==
    /\ \A t \in Live(redis) : redis.session[t].revision <= license.revision
    /\ \A r \in Request : request[r].revision <= license.revision

(* What was terminated stays behind the license.                           *)
Terminated ==
    license.exists =>
        /\ \A t \in condemned \cap Live(redis) :
              redis.session[t].revision < license.revision
        /\ \A r \in Request :
              request[r].pc \in WithToken /\ request[r].token \in condemned
                  => request[r].revision < license.revision

(* A revision determines the secret.                                       *)
KeyOfRevision ==
    \A r \in Request :
        /\ request[r].pc \in {"lookedUp", "admitting", "registered"}
        /\ request[r].revision = license.revision
        => request[r].key = license.key

(* What the holder of the locks has checked stays true until it commits.   *)
LockHeld ==
    lock # Nobody =>
        /\ request[lock].pc \in {"admitting", "registered"}
        /\ license.exists /\ ~license.revoked /\ ~license.billing
        /\ request[lock].revision = license.revision
        /\ request[lock].maxSessions = license.limits.maxSessions
        /\ SlotFree(request[lock].binding)

(* The session an admission stored is the one it will return.              *)
OwnSession ==
    \A r \in Request :
        request[r].pc = "registered" /\ request[r].token \in Live(redis)
            => redis.session[request[r].token].binding = request[r].binding

(* The admission that stored its session has left room for it.             *)
RoomHeld ==
    lock # Nobody /\ request[lock].pc = "registered" /\ request[lock].maxSessions > 0
        => Cardinality((issued \cup {request[lock].token})
                          \cap LiveAt(redis, request[lock].revision))
              <= request[lock].maxSessions

(* A cleanup on its way asks for revisions before one the license reached. *)
CleanupBehind ==
    license.exists =>
        \A o \in Operator :
            operator[o].pc = "cleanup" => operator[o].minimum \in 0 .. license.revision

(* An admission on its way holds a token nobody has, neither a client nor  *)
(* another admission.                                                      *)
TokensOwn ==
    \A r \in Request :
        request[r].pc = "registered" =>
            /\ request[r].token \notin issued
            /\ \A q \in Request \ {r} :
                  request[q].pc = "registered" => request[q].token # request[r].token

IInv == /\ TypeOK /\ SetCoversSessions /\ Fresh /\ NotAhead /\ Terminated
        /\ KeyOfRevision /\ LockHeld /\ OwnSession /\ SessionsHoldSlots /\ RoomHeld
        /\ CleanupBehind /\ TokensOwn

-----------------------------------------------------------------------------
(* What the clients and the operators see of it                            *)

(* The tokens a heartbeat accepts, but for status and allowlists.          *)
Valid == IF license.exists THEN issued \cap LiveAt(redis, license.revision) ELSE {}

Standing ==
    IF ~license.exists THEN "gone"
    ELSE IF license.revoked THEN "revoked"
    ELSE IF license.billing THEN "blocked"
    ELSE "open"

Abstract == INSTANCE LicenseSessions
    WITH status <- Standing, secret <- license.key,
         limit <- license.limits.maxSessions, valid <- Valid, ended <- issued \ Valid

(* Redis, the database and the handlers implement LicenseSessions: a token *)
(* is handed out once and within the limit, one that has ended is never    *)
(* valid again, whatever refreshes, restores or replies come late, and a   *)
(* new secret, a revocation or a deletion ends all of them at once.        *)
ImplementsSessions == Abstract!SessionsSpec

=============================================================================
