------------------------------- MODULE HttpGate -------------------------------
(***************************************************************************)
(* The limiters a request passes before its handler runs (index.ts,        *)
(* plugins/ratelimit.ts, controllers/license.ts and admin.ts), in several  *)
(* server processes that share one Redis.                                  *)
(*                                                                         *)
(* A limiter reads the clock of its process (Date.now) and then sends the  *)
(* script, which runs later: stamping and running are separate steps.      *)
(* Clocks of processes differ.  A request that fails the validation of its *)
(* body, /health and /ready end before the first limiter and change        *)
(* nothing; what the handlers do is the matter of the other modules.       *)
(***************************************************************************)
EXTENDS SlidingWindow, ClientAddress

CONSTANTS
    Process,        \* server processes
    Request,        \* the requests being handled at a time
    ProcessOf,      \* the process a request handler belongs to
    Offset,         \* how far the clock of a process is ahead
    MaxOffset,      \* the largest difference of two clocks
    Followed,       \* the addresses whose requests are followed
    Principal,      \* hashPrincipal: a key and device, or a session token
    Scope,          \* the runtime routes used, a subset of Scopes
    Limit,          \* requests per window: per IP, per IP on /admin, per principal
    MaxDelay,       \* how long a script takes to reach Redis
    MaxTime,        \* bound: the time modelled
    MaxRequests,    \* bound: the requests modelled
    MaxFaults       \* bound: failures of Redis or of a process

Scopes == {"activate", "heartbeat", "usage", "deactivate"}

ASSUME ProcessAssumption ==
    /\ ProcessOf \in [Request -> Process]
    /\ MaxOffset \in Nat /\ Offset \in [Process -> 0 .. MaxOffset]
ASSUME LimitAssumption == Limit \in [{"ip", "admin", "license"} -> Nat \ {0}]
ASSUME ScopeAssumption == Scope \subseteq Scopes /\ Followed \subseteq Address
ASSUME BoundAssumption ==
    /\ MaxDelay \in Nat /\ MaxTime \in Nat
    /\ MaxRequests \in Nat /\ MaxFaults \in Nat

VARIABLES
    charges,    \* what requests may be charged to in this deployment
    now,        \* the time of Redis
    window,     \* the sorted set of every key
    request,    \* local state of every handler
    started,    \* bound: requests so far
    faults,     \* bound: failures so far
    admitted,   \* history: when requests of a key were admitted
    promised    \* history: from which stamp on Retry-After promises success

vars == <<charges, now, window, request, started, faults, admitted, promised>>

-----------------------------------------------------------------------------
(* Types                                                                   *)

(* The keys ratelimit:ip:, ratelimit:admin: and ratelimit:license:.        *)
Key == ({"ip", "admin"} \X Address) \cup (Scope \X Principal)

LimitOf(key) == IF key[1] \in {"ip", "admin"} THEN Limit[key[1]] ELSE Limit["license"]

Route == Scope \cup {"admin", "webhook"}

Limiters == {"ip", "admin", "principal"}

RequestState == [pc : Limiters,
                 route : Route,
                 address : Address,
                 principal : Principal \cup {Absent},
                 stamp : Nat]           \* Date.now() of the limiter at hand

Idle == [pc |-> "idle"]

(* A type invariant.  The window of a key never holds more members than    *)
(* its limit allows.                                                       *)
TypeOK ==
    /\ charges \in SUBSET [source : Client, address : Address]
    /\ now \in 0 .. MaxTime
    /\ window \in [Key -> SortedSet]
    /\ \A key \in Key : /\ IsFiniteSet(window[key].members)
                         /\ Cardinality(window[key].members) <= LimitOf(key)
    /\ request \in [Request -> RequestState \cup {Idle}]
    /\ started \in 0 .. MaxRequests
    /\ faults \in 0 .. MaxFaults
    /\ admitted \in [Key -> Seq(Nat)]
    /\ promised \in [Key -> Nat]

Init ==
    /\ \E deployment \in Deployments : charges = Charges(deployment)
    /\ now = 0
    /\ window = [key \in Key |-> EmptyWindow]
    /\ request = [r \in Request |-> Idle]
    /\ started = 0
    /\ faults = 0
    /\ admitted = [key \in Key |-> <<>>]
    /\ promised = [key \in Key |-> 0]

-----------------------------------------------------------------------------
(* A request                                                               *)

Clock(p) == now + Offset[p]

Goto(r, state) == request' = [request EXCEPT ![r] = state]

(* rateLimiter resolves the address and reads the clock.                   *)
Accept(r) ==
    /\ request[r] = Idle
    /\ started < MaxRequests
    /\ started' = started + 1
    /\ \E route \in Route, charge \in charges :
          /\ charge.address \in Followed
          /\ \E principal \in IF route \in Scope THEN Principal ELSE {Absent} :
                Goto(r, [pc |-> "ip", route |-> route,
                         address |-> charge.address, principal |-> principal,
                         stamp |-> Clock(ProcessOf[r])])
    /\ UNCHANGED <<charges, now, window, faults, admitted, promised>>

(* Deliberate fault: one budget for all routes of a principal.             *)
KeyOfShared(r) ==
    LET q == request[r]
    IN  IF q.pc = "principal" THEN <<CHOOSE s \in Scope : TRUE, q.principal>>
        ELSE <<q.pc, q.address>>

(* The key of the limiter at hand: rateLimiter, the limiter of adminPlugin *)
(* or limitPrincipal.                                                      *)
KeyOf(r) ==
    LET q == request[r]
    IN  IF q.pc = "principal" THEN <<q.route, q.principal>> ELSE <<q.pc, q.address>>

(* RATE_LIMIT_SCRIPT runs for the limiter at hand.  Ids are the numbers of  *)
(* the admissions, so none is used twice.                                  *)
RunScript(r) ==
    LET key == KeyOf(r)
        stamp == request[r].stamp
        id == Len(admitted[key]) + 1
        refused == Exhausted(window[key], stamp, LimitOf(key))
    IN  /\ window' = [window EXCEPT ![key] = Consumed(@, stamp, id, LimitOf(key), now)]
        /\ admitted' = IF refused THEN admitted
                       ELSE [admitted EXCEPT ![key] = Append(@, now)]
        /\ promised' = [promised EXCEPT ![key] =
                          IF refused THEN stamp + Second * RetryAfter(window[key], stamp)
                          ELSE 0]

(* Where an admitted request goes: on to the second limiter of its route,  *)
(* which reads the clock again (here in the same step), or to the check of *)
(* the admin key and its handler.                                          *)
Onward(r) ==
    LET q == request[r]
        second == IF q.route = "admin" THEN "admin" ELSE "principal"
    IN  IF q.pc = "ip" /\ q.route # "webhook"
        THEN [q EXCEPT !.pc = second, !.stamp = Clock(ProcessOf[r])]
        ELSE Idle

(* enforceRateLimit lets the request pass.                                 *)
Admit(r) ==
    /\ request[r].pc \in Limiters
    /\ ~Exhausted(window[KeyOf(r)], request[r].stamp, LimitOf(KeyOf(r)))
    /\ RunScript(r)
    /\ Goto(r, Onward(r))
    /\ UNCHANGED <<charges, now, started, faults>>

(* enforceRateLimit answers 429 with Retry-After.                          *)
Refuse(r) ==
    /\ request[r].pc \in Limiters
    /\ Exhausted(window[KeyOf(r)], request[r].stamp, LimitOf(KeyOf(r)))
    /\ RunScript(r)
    /\ Goto(r, Idle)
    /\ UNCHANGED <<charges, now, started, faults>>

(* consume throws, or the process dies, before or after the script ran:    *)
(* the handler does not run, whatever the limiter would have answered.     *)
Fail(r) ==
    /\ request[r].pc \in Limiters
    /\ faults < MaxFaults
    /\ faults' = faults + 1
    /\ \/ RunScript(r)
       \/ UNCHANGED <<window, admitted, promised>>
    /\ Goto(r, Idle)
    /\ UNCHANGED <<charges, now, started>>

(* Time passes; no script is under way for longer than MaxDelay.           *)
Tick ==
    /\ now < MaxTime
    /\ \A r \in Request : request[r].pc \in Limiters =>
                             Clock(ProcessOf[r]) - request[r].stamp < MaxDelay
    /\ now' = now + 1
    /\ window' = [key \in Key |-> Aged(window[key], now + 1)]
    /\ UNCHANGED <<charges, request, started, faults, admitted, promised>>

-----------------------------------------------------------------------------
Next ==
    \/ \E r \in Request : Accept(r) \/ Admit(r) \/ Refuse(r) \/ Fail(r)
    \/ Tick

Spec == Init /\ [][Next]_vars

-----------------------------------------------------------------------------
(* Properties                                                              *)

(* How much of a window the delay and the difference of the clocks may     *)
(* cost.                                                                   *)
Slack == MaxDelay + MaxOffset

(* Never more than the limit: limit + 1 admissions of one key are at least *)
(* a window apart, less the delay of the script and the difference of the  *)
(* clocks, also when replies are lost, a process restarts, or scripts      *)
(* arrive in another order than they were stamped.                         *)
BudgetHeld ==
    \A key \in Key : \A i \in DOMAIN admitted[key] :
        LET j == i + LimitOf(key)
        IN  j \in DOMAIN admitted[key] =>
               admitted[key][j] - admitted[key][i] >= Window - Slack

(* A 429 is earned: the key it was refused for was admitted limit times    *)
(* within a window, plus the same slack.  Refused requests and requests to *)
(* another endpoint, of another principal or from another address do not   *)
(* count ("usage traffic cannot consume heartbeat or deactivation          *)
(* capacity").                                                             *)
RefusalsEarned ==
    [][\A r \in Request : Refuse(r) =>
          LET own == IF request[r].pc = "principal"
                     THEN <<request[r].route, request[r].principal>>
                     ELSE <<request[r].pc, request[r].address>>
              recent == {i \in DOMAIN admitted[own] :
                            now - admitted[own][i] < Window + Slack}
          IN  Cardinality(recent) >= LimitOf(own)]_vars

(* Retry-After is honest: a request stamped at or after the promised time  *)
(* is not refused, unless another request for the key was admitted first.  *)
RetryAfterSuffices ==
    [][\A r \in Request : Refuse(r) =>
          \/ promised[KeyOf(r)] = 0
          \/ request[r].stamp < promised[KeyOf(r)]]_vars

(* Nobody spends the budget of someone else's address, whatever headers he *)
(* sends and however the proxies in front are configured: the budget of a  *)
(* client's address is spent by that client alone ("so clients cannot      *)
(* spoof IP-based limits").                                                *)
BudgetNotStolen ==
    \A charge \in charges : charge.address \in Client => charge.address = charge.source
=============================================================================
