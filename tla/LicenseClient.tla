---------------------------- MODULE LicenseClient ----------------------------
(***************************************************************************)
(* The SDK's client of one license (LicenseClient.ts, NetworkClient.ts):   *)
(* activation, the heartbeat loop with its retries, usage calls, and       *)
(* deactivation, asked for by the application or by a fatal error.         *)
(*                                                                         *)
(* The client is one JavaScript thread: a step is what runs between two    *)
(* awaits.  Time is in ticks, and Date.now(), timers and deadlines are the *)
(* ticks left or gone.  A timer fires, and a request times out, in the     *)
(* tick it is due.  The server is external: it answers a request, or does  *)
(* not, and an answer may be lost after the server has acted on it.        *)
(***************************************************************************)
EXTENDS Integers

CONSTANTS
    Call,                           \* concurrent calls of consume()
    RequestTimeout,                 \* requestTimeoutMs
    RequestedHeartbeatInterval,     \* requestedHeartbeatIntervalMs
    MaxRetries,                     \* maxRetries
    Second,                         \* the 1_000 of the code, in ticks
    MaxTimer,                       \* MAX_TIMER_MS
    Ttl,                            \* sessionTtlSeconds: a server has one of these
    RetryAfter,                     \* values of a retry-after header
    Code,                           \* codes of a rejection that occur
    Trouble,                        \* bound: what else a server answers that is in trouble
    MaxSessions                     \* bound: sessions the server issues

(* assertConfig: the three durations are positive, and fit a timer.        *)
AssertConfig ==
    \A n \in {RequestTimeout, RequestedHeartbeatInterval, MaxRetries} : n \in 1 .. MaxTimer

(* DEVICE_NOT_ALLOWED stands for LICENSE_INVALID and IP_NOT_ALLOWED, too,  *)
(* which the client treats alike, and OTHER for every code it does not     *)
(* know, or none.                                                          *)
Codes == {"LICENSE_EXPIRED", "LICENSE_REVOKED", "SESSION_INVALID_OR_EXPIRED",
          "DEVICE_NOT_ALLOWED", "OTHER"}

(* ok: 2xx and valid; malformed: 2xx and not what the client accepts.      *)
Kinds == {"ok", "malformed", "throttled", "rejected", "unavailable"}

Channels == {"activate", "heartbeat", "deactivate"}

ASSUME ConfigAssumption == MaxTimer \in Nat /\ AssertConfig
ASSUME TimeAssumption ==
    /\ Second \in Nat \ {0} /\ MaxSessions \in Nat
    /\ Ttl \subseteq Nat \ {0} /\ RetryAfter \subseteq Nat
ASSUME AnswerAssumption ==
    Code \subseteq Codes /\ Trouble \subseteq {"malformed", "throttled", "unavailable"}
ASSUME CallAssumption == Call \cap Channels = {}

VARIABLES
    state, activation, release, token, fatal, cleanup,
    expiresIn, interval, timer, strikes, throttles, protected,
    event,
    net,
    lifetime, sessions, issued, held

lifecycle == <<state, activation, release>>
session == <<token, expiresIn, interval>>
counters == <<strikes, throttles, protected>>
fatality == <<fatal, cleanup>>
server == <<lifetime, sessions, issued>>
vars == <<lifecycle, session, timer, counters, fatality, event, net, server, held>>

-----------------------------------------------------------------------------
(* Types                                                                   *)

ClientState == {"idle", "activating", "active", "deactivating", "deactivated"}

LicenseEvent ==
    {"ready", "heartbeat:success", "heartbeat:failed", "heartbeat:throttled", "license:revoked",
     "license:expired", "session:expired", "license:rejected", "network:offline"}

NoToken == 0
Token == 1 .. MaxSessions
NoTimer == -1
NoHeader == -1

Request == Channels \cup Call

(* What a response says.  code: "none" without one.                        *)
Response == [kind : Kinds \cup {"none"}, code : Codes \cup {"none"}, token : Token \cup {NoToken},
             ttl : Ttl \cup {0}, after : RetryAfter \cup {NoHeader}]

NoResponse == [kind |-> "none", code |-> "none", token |-> NoToken, ttl |-> 0, after |-> NoHeader]

(* A request: when it was sent, with which token, and its response.        *)
Exchange == [stage : {"settled", "sent", "answered"}, age : 0 .. RequestTimeout,
             token : Token \cup {NoToken}, response : Response]

Settled == [stage |-> "settled", age |-> 0, token |-> NoToken, response |-> NoResponse]

TypeOK ==
    /\ state \in ClientState
    /\ activation \in {"none", "pending", "settled"}
    /\ release \in {"none", "activation", "heartbeat", "usage", "sent", "released", "failed"}
    /\ token \in Token \cup {NoToken}
    /\ fatal \in BOOLEAN /\ cleanup \in BOOLEAN
    /\ expiresIn \in Nat
    /\ interval \in Nat \ {0}
    /\ timer \in Nat \cup {NoTimer}
    /\ strikes \in 0 .. MaxRetries /\ throttles \in 0 .. MaxRetries + 1 /\ protected \in BOOLEAN
    /\ event \subseteq LicenseEvent
    /\ net \in [Request -> Exchange]
    /\ lifetime \in Ttl
    /\ sessions \in [Token -> Nat]
    /\ issued \in 0 .. MaxSessions
    /\ held \subseteq Token

-----------------------------------------------------------------------------
(* Durations                                                               *)

Smaller(a, b) == IF a <= b THEN a ELSE b
Larger(a, b) == IF a >= b THEN a ELSE b

RenewalSafety(ttl) == Smaller(Second, Larger(1, ttl \div 10))

FullRetryBudget(ttl) == RequestTimeout * 2 + RenewalSafety(ttl)

ClampToTwoThirds(ttl) == Smaller(RequestedHeartbeatInterval, Larger(1, (ttl * 2) \div 3))

(* Deliberate fault: a short lifetime may leave an interval of 0.          *)
ClampWithoutMinimum(ttl) ==
    Smaller(ClampToTwoThirds(ttl),
            IF ttl > FullRetryBudget(ttl) THEN ttl - FullRetryBudget(ttl) ELSE ttl \div 3)

ClampHeartbeatInterval(ttl) ==
    LET retryAware == Larger(1, IF ttl > FullRetryBudget(ttl) THEN ttl - FullRetryBudget(ttl)
                                                              ELSE ttl \div 3)
    IN  Smaller(ClampToTwoThirds(ttl), retryAware)

(* retryAfterMs.                                                           *)
RetryAfterDelay(after) ==
    IF after = NoHeader THEN Larger(Second, interval)
    ELSE Smaller(MaxTimer, Larger(Second, after))

ClampRetryBeforeSessionExpiry(delay) ==
    LET requestSafety == Smaller(Larger(0, expiresIn - 1), RequestTimeout + Second)
    IN  Smaller(delay, Larger(1, expiresIn - requestSafety))

-----------------------------------------------------------------------------
(* Requests and events                                                     *)

IsSettled(r) == net[r].stage = "settled"

(* NetworkClient.post: fetch with an AbortSignal.                          *)
Send(r, t) ==
    net' = [net EXCEPT ![r] = [stage |-> "sent", age |-> 0, token |-> t, response |-> NoResponse]]

(* How a request may end: with its response or, after a network error or   *)
(* a timeout, without.                                                     *)
Outcome(r) == {NoResponse, net[r].response}

(* The request is over.  Microtasks that are queued come first.            *)
Settle(r) ==
    /\ ~IsSettled(r) /\ ~cleanup
    /\ net' = [net EXCEPT ![r] = Settled]

(* Deliberate fault: the lifetime counts from the answer.                  *)
LifetimeFromAnswer(r, response) == response.ttl

(* The time the session has left: its lifetime counts from the request.    *)
LifetimeLeft(r, response) == Larger(0, response.ttl - net[r].age)

Rejected(response) == response.kind \in {"throttled", "rejected", "unavailable"}

EmitLicenseRejection(response) ==
    CASE response.code = "LICENSE_EXPIRED" -> "license:expired"
      [] response.code = "LICENSE_REVOKED" -> "license:revoked"
      [] response.code = "SESSION_INVALID_OR_EXPIRED" -> "session:expired"
      [] OTHER -> "license:rejected"

(* The event of an answer that is not 2xx; other failures have none.       *)
RejectionEvent(response) ==
    IF Rejected(response) THEN {EmitLicenseRejection(response)} ELSE {}

IsFatalSessionRejection(response) ==
    response.code \in {"LICENSE_REVOKED", "LICENSE_EXPIRED", "DEVICE_NOT_ALLOWED",
                       "SESSION_INVALID_OR_EXPIRED"}

(* Deliberate fault: the cleanup is not queued.                            *)
HandleFatalErrorNoCleanup == fatal' = TRUE /\ UNCHANGED cleanup

HandleFatalError ==
    /\ fatal' = TRUE
    /\ cleanup' = (cleanup \/ ~fatal)

-----------------------------------------------------------------------------
(* activate()                                                              *)

(* Other calls share the activation, return its result or are refused.     *)
Activate ==
    /\ state = "idle" /\ activation = "none"
    /\ state' = "activating" /\ activation' = "pending"
    /\ Send("activate", NoToken)
    /\ event' = {}
    /\ UNCHANGED <<release, session, timer, counters, fatality, server, held>>

(* Deliberate fault: activateOnce gives up before it keeps the session.    *)
ActivationSucceedsDropped(response) ==
    /\ response.kind = "ok"
    /\ held' = held \cup {response.token}
    /\ activation' = "settled"
    /\ IF state = "activating"
       THEN /\ token' = response.token /\ expiresIn' = LifetimeLeft("activate", response)
            /\ interval' = ClampHeartbeatInterval(response.ttl)
            /\ state' = "active" /\ event' = {"ready"} /\ timer' = interval'
       ELSE event' = {} /\ UNCHANGED <<state, timer, session>>

(* The answer gives a session, which is kept even when deactivate() came   *)
(* in between; only an activating client becomes active.                   *)
ActivationSucceeds(response) ==
    /\ response.kind = "ok"
    /\ token' = response.token /\ held' = held \cup {response.token}
    /\ expiresIn' = LifetimeLeft("activate", response)
    /\ interval' = ClampHeartbeatInterval(response.ttl)
    /\ activation' = "settled"
    /\ IF state = "activating"
       THEN state' = "active" /\ event' = {"ready"} /\ timer' = interval'
       ELSE event' = {} /\ UNCHANGED <<state, timer>>

ActivationFails(response) ==
    /\ response.kind # "ok"
    /\ event' = RejectionEvent(response)
    /\ IF state = "activating" THEN state' = "idle" /\ activation' = "none"
                               ELSE activation' = "settled" /\ UNCHANGED state
    /\ UNCHANGED <<session, timer, held>>

ActivateOnce ==
    \E response \in Outcome("activate") :
        /\ Settle("activate")
        /\ ActivationSucceeds(response) \/ ActivationFails(response)
        /\ UNCHANGED <<release, counters, fatality, server>>

-----------------------------------------------------------------------------
(* The heartbeat loop                                                      *)

(* scheduleHeartbeat as the last step of runHeartbeat.                     *)
ScheduleHeartbeat(delay) ==
    timer' = IF state = "active" /\ ~fatal' THEN delay ELSE timer

(* The timer fires.                                                        *)
StartHeartbeat ==
    /\ timer = 0 /\ ~cleanup
    /\ timer' = NoTimer
    /\ IF state = "active" /\ token # NoToken THEN Send("heartbeat", token) ELSE UNCHANGED net
    /\ event' = {}
    /\ UNCHANGED <<lifecycle, session, counters, fatality, server, held>>

(* Deliberate fault: throttled retries are not limited.                    *)
HeartbeatThrottledForever(response) ==
    /\ response.kind = "throttled"
    /\ event' = {"heartbeat:throttled"}
    /\ timer' = IF state = "active" /\ ~fatal
                THEN ClampRetryBeforeSessionExpiry(RetryAfterDelay(response.after)) ELSE timer
    /\ UNCHANGED <<session, counters, fatality, held>>

HeartbeatThrottled(response) ==
    LET requested == RetryAfterDelay(response.after)
        delay == ClampRetryBeforeSessionExpiry(requested)
        expiryProtection == delay < requested
    IN  /\ response.kind = "throttled"
        /\ throttles' = throttles + 1
        /\ IF throttles' > MaxRetries \/ (expiryProtection /\ protected)
           THEN HandleFatalError /\ event' = {"network:offline"} /\ UNCHANGED protected
           ELSE /\ protected' = (protected \/ expiryProtection)
                /\ event' = {"heartbeat:throttled"}
                /\ UNCHANGED fatality
        /\ ScheduleHeartbeat(delay)
        /\ UNCHANGED <<session, strikes, held>>

HeartbeatRejected(response) ==
    /\ response.kind = "rejected"
    /\ HandleFatalError
    /\ event' = {EmitLicenseRejection(response)}
    /\ ScheduleHeartbeat(interval)
    /\ UNCHANGED <<session, counters, held>>

RecordHeartbeatFailure ==
    IF state = "active"
    THEN /\ strikes' = strikes + 1
         /\ IF strikes' >= MaxRetries
            THEN HandleFatalError /\ event' = {"heartbeat:failed", "network:offline"}
            ELSE event' = {"heartbeat:failed"} /\ UNCHANGED fatality
    ELSE event' = {} /\ UNCHANGED <<strikes, fatality>>

(* Deliberate fault: a failed heartbeat does not schedule the next one.    *)
HeartbeatFailsUnscheduled(response) ==
    /\ response.kind \in {"none", "malformed", "unavailable"}
    /\ RecordHeartbeatFailure
    /\ UNCHANGED <<session, throttles, protected, held, timer>>

HeartbeatFails(response) ==
    /\ response.kind \in {"none", "malformed", "unavailable"}
    /\ RecordHeartbeatFailure
    /\ ScheduleHeartbeat(ClampRetryBeforeSessionExpiry(interval))
    /\ UNCHANGED <<session, throttles, protected, held>>

HeartbeatSucceeds(response) ==
    /\ response.kind = "ok"
    /\ token' = response.token /\ held' = held \cup {response.token}
    /\ expiresIn' = LifetimeLeft("heartbeat", response)
    /\ interval' = ClampHeartbeatInterval(response.ttl)
    /\ strikes' = 0 /\ throttles' = 0 /\ protected' = FALSE
    /\ event' = IF state = "active" THEN {"heartbeat:success"} ELSE {}
    /\ UNCHANGED fatality
    /\ ScheduleHeartbeat(interval')

RunHeartbeat ==
    \E response \in Outcome("heartbeat") :
        /\ Settle("heartbeat")
        /\ \/ HeartbeatThrottled(response)
           \/ HeartbeatRejected(response)
           \/ HeartbeatFails(response)
           \/ HeartbeatSucceeds(response)
        /\ UNCHANGED <<lifecycle, server>>

-----------------------------------------------------------------------------
(* consume()                                                               *)

Consume(c) ==
    /\ state = "active" /\ token # NoToken
    /\ IsSettled(c)
    /\ Send(c, token)
    /\ event' = {}
    /\ UNCHANGED <<lifecycle, session, timer, counters, fatality, server, held>>

ConsumeOnce(c) ==
    \E response \in Outcome(c) :
        /\ Settle(c)
        /\ event' = RejectionEvent(response)
        /\ IF Rejected(response) /\ IsFatalSessionRejection(response)
           THEN HandleFatalError ELSE UNCHANGED fatality
        /\ UNCHANGED <<lifecycle, session, timer, counters, server, held>>

-----------------------------------------------------------------------------
(* deactivate()                                                            *)

BeginDeactivation ==
    /\ release = "none"
    /\ state' = "deactivating" /\ release' = "activation" /\ timer' = NoTimer

(* The application calls deactivate(); later calls share the promise.      *)
Deactivate ==
    /\ BeginDeactivation
    /\ event' = {}
    /\ UNCHANGED <<activation, session, counters, fatality, net, server, held>>

(* The microtask of handleFatalError.                                      *)
FatalCleanup ==
    /\ cleanup /\ cleanup' = FALSE
    /\ BeginDeactivation \/ (release # "none" /\ UNCHANGED <<state, release, timer>>)
    /\ event' = {}
    /\ UNCHANGED <<activation, session, counters, fatal, net, server, held>>

FinishDeactivation(outcome) ==
    /\ release' = outcome
    /\ token' = NoToken /\ expiresIn' = 0
    /\ state' = "deactivated"

AwaitActivation ==
    /\ release = "activation" /\ activation # "pending"
    /\ release' = "heartbeat"

(* Deliberate fault: the heartbeat is not awaited.                         *)
AwaitHeartbeatNot == release = "heartbeat" /\ release' = "usage"

AwaitHeartbeat ==
    /\ release = "heartbeat" /\ IsSettled("heartbeat")
    /\ release' = "usage"

(* await Promise.allSettled, then the request, if there is a session.      *)
AwaitUsage ==
    /\ release = "usage" /\ \A c \in Call : IsSettled(c)
    /\ IF token # NoToken
       THEN release' = "sent" /\ Send("deactivate", token) /\ UNCHANGED <<state, session>>
       ELSE FinishDeactivation("released") /\ UNCHANGED <<interval, net>>

DeactivateOnce ==
    /\ \/ AwaitActivation /\ UNCHANGED <<state, session, net>>
       \/ AwaitHeartbeat /\ UNCHANGED <<state, session, net>>
       \/ AwaitUsage
       \/ \E response \in Outcome("deactivate") :
            /\ Settle("deactivate")
            /\ FinishDeactivation(IF response.kind = "ok" THEN "released" ELSE "failed")
            /\ UNCHANGED interval
    /\ event' = {}
    /\ UNCHANGED <<activation, timer, counters, fatality, server, held>>

-----------------------------------------------------------------------------
(* The server and time (external)                                          *)

Reply(r, response) == net' = [net EXCEPT ![r].stage = "answered", ![r].response = response]

Grant(r, t) ==
    /\ Reply(r, [NoResponse EXCEPT !.kind = "ok", !.token = t, !.ttl = lifetime])
    /\ sessions' = [sessions EXCEPT ![t] = lifetime]
    /\ UNCHANGED lifetime

Live(t) == t \in Token /\ sessions[t] > 0

(* The server performs a request.                                          *)
ServerAccepts(r) ==
    \/ /\ r = "activate" /\ issued < MaxSessions
       /\ issued' = issued + 1
       /\ Grant(r, issued')
    \/ /\ r = "heartbeat" /\ Live(net[r].token)
       /\ Grant(r, net[r].token)
       /\ UNCHANGED issued
    \/ /\ r \in Call /\ Live(net[r].token)
       /\ Reply(r, [NoResponse EXCEPT !.kind = "ok"])
       /\ UNCHANGED server
    \/ /\ r = "deactivate"
       /\ Reply(r, [NoResponse EXCEPT !.kind = "ok"])
       /\ sessions' = [sessions EXCEPT ![net[r].token] = 0]
       /\ UNCHANGED <<lifetime, issued>>

(* It refuses the request, or fails; a dead session is refused as such.    *)
(* Left out: operators, who may end a session before its time, and a       *)
(* binding that changed, with which deactivate is answered and removes     *)
(* nothing.                                                                *)
ServerRefuses(r) ==
    /\ \/ \E code \in Code :
            /\ code = "SESSION_INVALID_OR_EXPIRED" => r # "activate" /\ ~Live(net[r].token)
            /\ Reply(r, [NoResponse EXCEPT !.kind = "rejected", !.code = code])
       \/ \E after \in RetryAfter \cup {NoHeader} :
            /\ "throttled" \in Trouble
            /\ Reply(r, [NoResponse EXCEPT !.kind = "throttled", !.after = after])
       \/ \E kind \in Trouble \ {"throttled"} :
            Reply(r, [NoResponse EXCEPT !.kind = kind])
    /\ UNCHANGED server

Server ==
    /\ \E r \in Request : net[r].stage = "sent" /\ (ServerAccepts(r) \/ ServerRefuses(r))
    /\ event' = {}
    /\ UNCHANGED <<lifecycle, session, timer, counters, fatality, held>>

(* Nothing is due in this tick.                                            *)
Tick ==
    /\ ~cleanup /\ timer # 0
    /\ \A r \in Request : IsSettled(r) \/ net[r].age < RequestTimeout
    /\ net' = [r \in Request |-> IF IsSettled(r) THEN net[r] ELSE [net[r] EXCEPT !.age = @ + 1]]
    /\ timer' = IF timer = NoTimer THEN timer ELSE timer - 1
    /\ expiresIn' = Larger(0, expiresIn - 1)
    /\ sessions' = [t \in Token |-> Larger(0, sessions[t] - 1)]
    /\ event' = {}
    /\ UNCHANGED <<lifecycle, token, interval, counters, fatality, lifetime, issued, held>>

-----------------------------------------------------------------------------
(* The specification                                                       *)

Init ==
    /\ state = "idle" /\ activation = "none" /\ release = "none"
    /\ token = NoToken /\ expiresIn = 0 /\ interval = RequestedHeartbeatInterval
    /\ timer = NoTimer
    /\ strikes = 0 /\ throttles = 0 /\ protected = FALSE
    /\ fatal = FALSE /\ cleanup = FALSE
    /\ event = {}
    /\ net = [r \in Request |-> Settled]
    /\ lifetime \in Ttl /\ sessions = [t \in Token |-> 0] /\ issued = 0 /\ held = {}

Next ==
    \/ Activate \/ ActivateOnce
    \/ StartHeartbeat \/ RunHeartbeat
    \/ \E c \in Call : Consume(c) \/ ConsumeOnce(c)
    \/ Deactivate \/ FatalCleanup \/ DeactivateOnce
    \/ Server \/ Tick

Spec == Init /\ [][Next]_vars

(* The event loop runs what is due, and time passes.  Nothing is asked of  *)
(* the server, of the network or of the application.                       *)
Fairness ==
    /\ WF_vars(ActivateOnce) /\ WF_vars(StartHeartbeat) /\ WF_vars(RunHeartbeat)
    /\ \A c \in Call : WF_vars(ConsumeOnce(c))
    /\ WF_vars(FatalCleanup) /\ WF_vars(DeactivateOnce) /\ WF_vars(Tick)

FairSpec == Spec /\ Fairness

-----------------------------------------------------------------------------
(* Properties                                                              *)

(* The heartbeat loop neither dies nor doubles: an active client has its   *)
(* timer armed, a heartbeat under way or its cleanup queued, never a timer *)
(* and a heartbeat, and a client that is not active has no timer.          *)
HeartbeatLoopRuns ==
    /\ state = "active" => timer # NoTimer \/ ~IsSettled("heartbeat") \/ cleanup
    /\ timer # NoTimer => state = "active" /\ IsSettled("heartbeat")

(* deactivate() asks for the release of the session after every other      *)
(* request has come to an end, and nothing is sent once the client is      *)
(* deactivated.                                                            *)
ReleaseIsLast ==
    /\ ~IsSettled("deactivate") => \A r \in Request \ {"deactivate"} : IsSettled(r)
    /\ state = "deactivated" => \A r \in Request : IsSettled(r)

(* A client that has released its session leaves none it was given on the  *)
(* server, whenever deactivate() came: during the activation, during a     *)
(* heartbeat, or after a fatal error.                                      *)
NoSessionLeft ==
    release = "released" => \A t \in held : sessions[t] = 0

(* An active client never believes its session to last longer than the     *)
(* server keeps it unless somebody ends it, which is what its retries are  *)
(* planned by.                                                             *)
ExpiryNotOverrated ==
    state = "active" => expiresIn <= sessions[token]

(* A lifetime with room for two timed out requests and a margin.           *)
HasRoomForRetry(ttl) == ttl > FullRetryBudget(ttl) /\ RenewalSafety(ttl) > 1

(* Where the session's lifetime has room for two timed out requests, a     *)
(* heartbeat, and the retry of one that failed, leave before the session   *)
(* expires (clampHeartbeatInterval, clampRetryBeforeSessionExpiry).        *)
OneFailureIsSurvived ==
    [][ /\ IsSettled("heartbeat") /\ ~IsSettled("heartbeat")'
        /\ strikes + throttles <= 1
        /\ HasRoomForRetry(lifetime)
        => expiresIn > 0 ]_vars

(* A client that is being deactivated, or has met a fatal error, becomes   *)
(* deactivated: "Fatal license/session events and network:offline trigger  *)
(* automatic deactivation", whatever the server and the network do.        *)
DeactivationEnds == (state = "deactivating" \/ fatal) ~> (state = "deactivated")

(* An active client is refreshed or comes to an end: failures, throttling  *)
(* and mixtures of them are tolerated a bounded number of times.           *)
RefreshedOrEnded ==
    (state = "active") ~> ("heartbeat:success" \in event \/ state = "deactivated")

(* network:offline says that consecutive heartbeat failures have used up   *)
(* maxRetries.                                                             *)
OfflineMeansFailures ==
    [][ "network:offline" \in event' => strikes' >= MaxRetries ]_vars
=============================================================================
