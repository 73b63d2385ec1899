------------------------- MODULE LicenseClientProofs -------------------------
(***************************************************************************)
(* The safety properties of LicenseClient hold for every configuration of  *)
(* the client, every lifetime of sessions, every number of usage calls and *)
(* whatever the server answers.  The invariant IInv says which stages of   *)
(* activation, release and requests go together, that the client has one   *)
(* session at most, what an answer that is on its way is worth, and how    *)
(* much of the session is left when a heartbeat is due.                    *)
(***************************************************************************)
EXTENDS LicenseClient, TLAPS

-----------------------------------------------------------------------------
(* Durations                                                               *)

LEMMA Config ==
    /\ RequestTimeout \in Nat \ {0} /\ RequestedHeartbeatInterval \in Nat \ {0}
    /\ MaxRetries \in Nat \ {0} /\ MaxTimer \in Nat /\ Second \in Nat \ {0}
    /\ MaxSessions \in Nat /\ Ttl \subseteq Nat \ {0} /\ RetryAfter \subseteq Nat
<1>1. MaxTimer \in Nat /\ \A n \in {RequestTimeout, RequestedHeartbeatInterval, MaxRetries} :
                              n \in 1 .. MaxTimer
  BY ConfigAssumption DEF AssertConfig
<1>2. /\ RequestTimeout \in 1 .. MaxTimer /\ RequestedHeartbeatInterval \in 1 .. MaxTimer
      /\ MaxRetries \in 1 .. MaxTimer
  BY <1>1
<1> QED BY <1>1, <1>2, TimeAssumption

(* renewalSafetyMs is positive, and the client keeps a second at most.     *)
LEMMA RenewalSafetyRange ==
    ASSUME NEW ttl \in Nat \ {0}
    PROVE  RenewalSafety(ttl) \in 1 .. Second
BY Config DEF RenewalSafety, Smaller, Larger

(* clampHeartbeatInterval never yields 0, and leaves the budget for two    *)
(* timed out requests wherever the lifetime has it.                        *)
LEMMA ClampHeartbeatIntervalRange ==
    ASSUME NEW ttl \in Nat \ {0}
    PROVE  /\ ClampHeartbeatInterval(ttl) \in Nat \ {0}
           /\ ttl > FullRetryBudget(ttl)
                => ClampHeartbeatInterval(ttl) + FullRetryBudget(ttl) <= ttl
<1>1. RenewalSafety(ttl) \in Nat
  BY Config, RenewalSafetyRange
<1>2. FullRetryBudget(ttl) \in Nat
  BY <1>1, Config DEF FullRetryBudget
<1>3. ClampToTwoThirds(ttl) \in Nat \ {0}
  BY Config DEF ClampToTwoThirds, Smaller, Larger
<1> QED BY <1>2, <1>3 DEF ClampHeartbeatInterval, Smaller, Larger

(* clampRetryBeforeSessionExpiry: a retry comes in time, if there is time. *)
LEMMA ClampRetryRange ==
    ASSUME expiresIn \in Nat, NEW delay \in Nat
    PROVE  /\ ClampRetryBeforeSessionExpiry(delay) \in Nat
           /\ expiresIn > 1 => ClampRetryBeforeSessionExpiry(delay) < expiresIn
BY Config DEF ClampRetryBeforeSessionExpiry, Smaller, Larger

LEMMA RetryAfterDelayType ==
    ASSUME interval \in Nat, NEW after \in RetryAfter \cup {NoHeader}
    PROVE  RetryAfterDelay(after) \in Nat
BY Config DEF RetryAfterDelay, Smaller, Larger, NoHeader

-----------------------------------------------------------------------------
(* Types                                                                   *)

LEMMA NoResponseType ==
    /\ NoResponse \in Response /\ NoResponse.kind = "none" /\ NoResponse.after = NoHeader
    /\ NoResponse.token = NoToken /\ NoResponse.ttl = 0 /\ NoResponse.code = "none"
BY DEF NoResponse, Response

LEMMA SettledType ==
    /\ Settled \in Exchange /\ Settled.stage = "settled" /\ Settled.response = NoResponse
    /\ Settled.age = 0
BY NoResponseType, Config DEF Settled, Exchange

LEMMA SendType ==
    ASSUME TypeOK, NEW r \in Request, NEW t \in Token \cup {NoToken}, Send(r, t)
    PROVE  /\ net' \in [Request -> Exchange]
           /\ net'[r].stage = "sent" /\ net'[r].age = 0
           /\ net'[r].token = t /\ net'[r].response = NoResponse
           /\ \A q \in Request \ {r} : net'[q] = net[q]
<1> DEFINE x == [stage |-> "sent", age |-> 0, token |-> t, response |-> NoResponse]
<1>1. x \in Exchange
  BY NoResponseType, Config DEF Exchange
<1>2. net' = [net EXCEPT ![r] = x]
  BY DEF Send
<1> QED BY <1>1, <1>2 DEF TypeOK

LEMMA SettleType ==
    ASSUME TypeOK, NEW r \in Request, Settle(r)
    PROVE  /\ net' \in [Request -> Exchange]
           /\ net'[r] = Settled
           /\ \A q \in Request \ {r} : net'[q] = net[q]
           /\ net[r].stage \in {"sent", "answered"} /\ ~cleanup
<1>1. net[r] \in Exchange
  BY DEF TypeOK
<1> QED BY <1>1, SettledType DEF TypeOK, Settle, IsSettled, Exchange

LEMMA ReplyType ==
    ASSUME TypeOK, NEW r \in Request, NEW response \in Response, Reply(r, response)
    PROVE  /\ net' \in [Request -> Exchange]
           /\ net'[r].stage = "answered" /\ net'[r].response = response
           /\ net'[r].age = net[r].age /\ net'[r].token = net[r].token
           /\ \A q \in Request \ {r} : net'[q] = net[q]
<1>1. net[r] \in Exchange
  BY DEF TypeOK
<1> QED BY <1>1 DEF TypeOK, Reply, Exchange

LEMMA OutcomeType ==
    ASSUME TypeOK, NEW r \in Request, NEW response \in Outcome(r)
    PROVE  /\ response \in Response
           /\ response.kind \in Kinds \cup {"none"} /\ response.after \in RetryAfter \cup {NoHeader}
<1>1. net[r].response \in Response
  BY DEF TypeOK, Exchange
<1> QED BY <1>1, NoResponseType DEF Outcome, Response

-----------------------------------------------------------------------------
(* The inductive invariant                                                 *)

(* Which stages of the client, of its activation and of its release go     *)
(* together.                                                               *)
Lifecycle ==
    /\ state = "idle" => activation = "none"
    /\ state = "activating" => activation = "pending"
    /\ state = "active" => activation = "settled" /\ token # NoToken
    /\ release = "none" <=> state \in {"idle", "activating", "active"}
    /\ release \in {"released", "failed"} <=> state = "deactivated"
    /\ activation = "pending" <=> ~IsSettled("activate")
    /\ activation = "pending" => release \in {"none", "activation"}

(* How far a release has got while other requests are under way.           *)
Overlap ==
    /\ ~IsSettled("heartbeat") =>
          activation = "settled" /\ release \in {"none", "activation", "heartbeat"}
    /\ \A c \in Call : ~IsSettled(c) =>
          activation = "settled" /\ release \in {"none", "activation", "heartbeat", "usage"}
    /\ release = "sent" <=> ~IsSettled("deactivate")

(* A fatal error has its cleanup queued or was cleaned up, and a counter   *)
(* at its limit is a fatal error.                                          *)
Fatality ==
    /\ cleanup => fatal
    /\ fatal => cleanup \/ release # "none"
    /\ strikes >= MaxRetries => fatal
    /\ throttles > MaxRetries => fatal /\ IsSettled("heartbeat")

(* The client is given one session at most, and all requests are about it. *)
OneSession ==
    /\ state # "deactivated" => held \subseteq {token}
    /\ activation # "settled" => token = NoToken
    /\ \A t \in held : t <= issued
    /\ token <= issued
    /\ ~IsSettled("heartbeat") => net["heartbeat"].token = token
    /\ ~IsSettled("deactivate") => net["deactivate"].token = token /\ token # NoToken

(* What an answer on its way is worth.                                     *)
Granted(r) ==
    net[r].response.kind = "ok" =>
        /\ net[r].response.token \in Token
        /\ net[r].response.token <= issued
        /\ net[r].response.ttl = lifetime
        /\ lifetime <= sessions[net[r].response.token] + net[r].age

Answers ==
    /\ \A r \in Request : net[r].stage # "answered" => net[r].response = NoResponse
    /\ Granted("activate")
    /\ Granted("heartbeat")
    /\ net["heartbeat"].response.kind = "ok" =>
          net["heartbeat"].response.token = net["heartbeat"].token
    /\ net["deactivate"].response.kind = "ok" => sessions[net["deactivate"].token] = 0
    /\ \A t \in Token : sessions[t] <= lifetime

Reserve == RequestTimeout + RenewalSafety(lifetime)

(* How much of the session is left: after no failure a heartbeat and its   *)
(* retry may both time out, after one failure the retry leaves in time.    *)
Room ==
    state = "active" /\ HasRoomForRetry(lifetime) =>
        /\ strikes + throttles = 0 =>
             /\ timer # NoTimer => timer + Reserve <= expiresIn
             /\ ~IsSettled("heartbeat") => Reserve <= expiresIn + net["heartbeat"].age
        /\ strikes + throttles = 1 /\ timer # NoTimer => timer < expiresIn

IInv ==
    /\ TypeOK /\ Lifecycle /\ Overlap /\ Fatality /\ OneSession /\ Answers /\ Room
    /\ HeartbeatLoopRuns /\ NoSessionLeft /\ ExpiryNotOverrated

(* The channels are requests, and no call of consume() is one of them.     *)
LEMMA RequestNames ==
    /\ "activate" \in Request /\ "heartbeat" \in Request /\ "deactivate" \in Request
    /\ \A c \in Call : /\ c \in Request /\ c # "activate"
                       /\ c # "heartbeat" /\ c # "deactivate"
    /\ \A r \in Request : r \in Call \/ r = "activate" \/ r = "heartbeat" \/ r = "deactivate"
BY CallAssumption DEF Request, Channels

LEMMA InitIInv == Init => IInv
<1> SUFFICES ASSUME Init PROVE IInv
  OBVIOUS
<1>1. \A r \in Request : net[r] = Settled
  BY DEF Init
<1>2. TypeOK
  <2>1. net \in [Request -> Exchange]
    BY SettledType DEF Init
  <2>2. fatal \in BOOLEAN /\ cleanup \in BOOLEAN /\ protected \in BOOLEAN
    BY DEF Init
  <2>3. /\ interval \in Nat \ {0} /\ strikes \in 0 .. MaxRetries
        /\ throttles \in 0 .. MaxRetries + 1 /\ issued \in 0 .. MaxSessions
        /\ sessions \in [Token -> Nat]
    BY Config DEF Init
  <2> QED BY <2>1, <2>2, <2>3 DEF Init, TypeOK, ClientState, NoToken, NoTimer
<1>3. Answers
  BY <1>1, RequestNames, SettledType, NoResponseType, Config DEF Init, Answers, Granted
<1> QED
  BY <1>1, <1>2, <1>3, Config, RequestNames, SettledType
  DEF Init, IInv, Lifecycle, Overlap, Fatality, OneSession, Room, HeartbeatLoopRuns,
      NoSessionLeft, ExpiryNotOverrated, IsSettled, NoToken, NoTimer

LEMMA ActivateKeeps == ASSUME IInv, Activate PROVE IInv'
<1> USE DEF lifecycle, session, counters, fatality, server
<1>1. /\ net' \in [Request -> Exchange]
      /\ net'["activate"].stage = "sent" /\ net'["activate"].response = NoResponse
      /\ \A q \in Request \ {"activate"} : net'[q] = net[q]
  BY SendType, RequestNames DEF Activate, IInv, NoToken
<1>2. TypeOK'
  BY <1>1 DEF IInv, Activate, TypeOK, ClientState
<1>3. Lifecycle' /\ Overlap' /\ HeartbeatLoopRuns' /\ Fatality'
  BY <1>1, RequestNames
  DEF IInv, Activate, Lifecycle, Overlap, HeartbeatLoopRuns, Fatality, IsSettled
<1>4. OneSession' /\ Room' /\ NoSessionLeft' /\ ExpiryNotOverrated'
  BY <1>1, RequestNames
  DEF IInv, Activate, OneSession, Room, NoSessionLeft, ExpiryNotOverrated, IsSettled, Lifecycle
<1>5. Answers'
  BY <1>1, RequestNames, NoResponseType DEF IInv, Activate, Answers, Granted
<1> QED BY <1>2, <1>3, <1>4, <1>5 DEF IInv

(* What an answer brings, once it arrives.                                 *)
LEMMA OutcomeGranted ==
    ASSUME IInv, NEW r \in {"activate", "heartbeat"}, NEW response \in Outcome(r),
           response.kind = "ok"
    PROVE  /\ response = net[r].response /\ net[r].stage = "answered"
           /\ response.token \in Token /\ response.token <= issued /\ response.ttl = lifetime
           /\ LifetimeLeft(r, response) \in Nat
           /\ LifetimeLeft(r, response) <= sessions[response.token]
           /\ lifetime <= LifetimeLeft(r, response) + net[r].age
<1>1. r \in Request /\ net[r] \in Exchange
  BY RequestNames DEF IInv, TypeOK
<1>2. response = net[r].response
  BY NoResponseType DEF Outcome
<1>3. net[r].stage = "answered"
  BY <1>1, <1>2, NoResponseType DEF IInv, Answers, Exchange
<1>4. Granted(r)
  BY DEF IInv, Answers
<1>5. /\ response.token \in Token /\ response.token <= issued /\ response.ttl = lifetime
      /\ lifetime <= sessions[response.token] + net[r].age
  BY <1>2, <1>4 DEF Granted
<1>6. lifetime \in Nat /\ net[r].age \in Nat /\ sessions[response.token] \in Nat
  BY <1>1, <1>5, Config DEF IInv, TypeOK, Exchange
<1> QED BY <1>2, <1>3, <1>5, <1>6 DEF LifetimeLeft, Larger

LEMMA ActivateOnceKeeps == ASSUME IInv, ActivateOnce PROVE IInv'
<1> USE DEF lifecycle, session, counters, fatality, server
<1>1. PICK response \in Outcome("activate") :
        /\ Settle("activate")
        /\ ActivationSucceeds(response) \/ ActivationFails(response)
        /\ UNCHANGED <<release, counters, fatality, server>>
  BY DEF ActivateOnce
<1>2. /\ net' \in [Request -> Exchange] /\ net'["activate"] = Settled
      /\ \A q \in Request \ {"activate"} : net'[q] = net[q]
      /\ ~IsSettled("activate") /\ ~cleanup
  BY <1>1, SettleType, RequestNames DEF IInv, Settle
<1>3. activation = "pending" /\ release \in {"none", "activation"} /\ token = NoToken
  BY <1>2 DEF IInv, Lifecycle, OneSession
<1>4. /\ state \in {"activating", "deactivating"} /\ held = {} /\ timer = NoTimer
      /\ IsSettled("heartbeat") /\ \A c \in Call : IsSettled(c)
      /\ IsSettled("deactivate")
  BY <1>3 DEF IInv, Lifecycle, OneSession, TypeOK, NoToken, Token, ClientState,
              HeartbeatLoopRuns, Overlap
<1>a. CASE ActivationSucceeds(response)
  <2>1. /\ response.token \in Token /\ response.token <= issued /\ response.ttl = lifetime
        /\ LifetimeLeft("activate", response) \in Nat
        /\ LifetimeLeft("activate", response) <= sessions[response.token]
        /\ lifetime <= LifetimeLeft("activate", response) + net["activate"].age
    BY <1>1, <1>a, OutcomeGranted DEF ActivationSucceeds
  <2>2. lifetime \in Nat \ {0} /\ net["activate"].age \in 0 .. RequestTimeout
    BY Config, RequestNames DEF IInv, TypeOK, Exchange
  <2>3. /\ interval' \in Nat \ {0}
        /\ lifetime > FullRetryBudget(lifetime)
             => interval' + FullRetryBudget(lifetime) <= lifetime
    BY <1>a, <2>1, <2>2, ClampHeartbeatIntervalRange DEF ActivationSucceeds
  <2>4. TypeOK'
    BY <1>1, <1>2, <1>4, <1>a, <2>1, <2>3
    DEF ActivationSucceeds, IInv, TypeOK, ClientState, LicenseEvent
  <2>5. Lifecycle' /\ Overlap' /\ HeartbeatLoopRuns' /\ Fatality'
    BY <1>1, <1>2, <1>3, <1>4, <1>a, <2>1, <2>3, RequestNames, SettledType
    DEF ActivationSucceeds, IInv, Lifecycle, Overlap, HeartbeatLoopRuns, Fatality,
        IsSettled, NoToken, Token, NoTimer
  <2>6. OneSession' /\ NoSessionLeft' /\ ExpiryNotOverrated'
    BY <1>1, <1>2, <1>3, <1>4, <1>a, <2>1, RequestNames
    DEF ActivationSucceeds, IInv, OneSession, NoSessionLeft, ExpiryNotOverrated, IsSettled
  <2>7. Answers'
    BY <1>1, <1>2, RequestNames, SettledType, NoResponseType DEF IInv, Answers, Granted
  <2>8. Room'
    BY <1>1, <1>2, <1>4, <1>a, <2>1, <2>2, <2>3, RequestNames, RenewalSafetyRange, Config
    DEF ActivationSucceeds, Room, Reserve, HasRoomForRetry, FullRetryBudget, IsSettled
  <2> QED BY <2>4, <2>5, <2>6, <2>7, <2>8 DEF IInv
<1>b. CASE ActivationFails(response)
  <2>1. TypeOK'
    BY <1>1, <1>2, <1>b
    DEF ActivationFails, IInv, TypeOK, ClientState, LicenseEvent, RejectionEvent,
        EmitLicenseRejection
  <2>2. Lifecycle' /\ Overlap' /\ HeartbeatLoopRuns' /\ Fatality'
    BY <1>1, <1>2, <1>3, <1>4, <1>b, RequestNames, SettledType
    DEF ActivationFails, IInv, Lifecycle, Overlap, HeartbeatLoopRuns, Fatality, IsSettled
  <2>3. OneSession' /\ Room' /\ NoSessionLeft' /\ ExpiryNotOverrated'
    BY <1>1, <1>2, <1>3, <1>4, <1>b, RequestNames
    DEF ActivationFails, IInv, OneSession, Room, NoSessionLeft, ExpiryNotOverrated, IsSettled
  <2>4. Answers'
    BY <1>1, <1>2, RequestNames, SettledType, NoResponseType DEF IInv, Answers, Granted
  <2> QED BY <2>1, <2>2, <2>3, <2>4 DEF IInv
<1> QED BY <1>1, <1>a, <1>b

LEMMA StartHeartbeatKeeps == ASSUME IInv, StartHeartbeat PROVE IInv'
<1> USE DEF lifecycle, session, counters, fatality, server
<1>1. /\ timer = 0 /\ state = "active" /\ token \in Token /\ IsSettled("heartbeat") /\ ~cleanup
      /\ release = "none" /\ activation = "settled" /\ ~fatal
  BY DEF StartHeartbeat, IInv, HeartbeatLoopRuns, Lifecycle, TypeOK, NoToken, NoTimer, Fatality
<1>2. /\ net' \in [Request -> Exchange]
      /\ net'["heartbeat"].stage = "sent" /\ net'["heartbeat"].response = NoResponse
      /\ net'["heartbeat"].token = token /\ net'["heartbeat"].age = 0
      /\ \A q \in Request \ {"heartbeat"} : net'[q] = net[q]
  BY <1>1, SendType, RequestNames DEF StartHeartbeat, IInv, NoToken, Token
<1>3. TypeOK'
  BY <1>2 DEF IInv, StartHeartbeat, TypeOK
<1>4. Lifecycle' /\ Overlap' /\ HeartbeatLoopRuns' /\ Fatality'
  BY <1>1, <1>2, RequestNames
  DEF IInv, StartHeartbeat, Lifecycle, Overlap, HeartbeatLoopRuns, Fatality, IsSettled
<1>5. OneSession' /\ NoSessionLeft' /\ ExpiryNotOverrated'
  BY <1>1, <1>2, RequestNames
  DEF IInv, StartHeartbeat, OneSession, NoSessionLeft, ExpiryNotOverrated, IsSettled
<1>6. Room'
  BY <1>1, <1>2, RequestNames, RenewalSafetyRange, Config
  DEF IInv, StartHeartbeat, Room, Reserve, HasRoomForRetry, TypeOK, NoTimer
<1>7. Answers'
  BY <1>1, <1>2, RequestNames, NoResponseType DEF IInv, StartHeartbeat, Answers, Granted
<1> QED BY <1>3, <1>4, <1>5, <1>6, <1>7 DEF IInv

(* What every end of a heartbeat keeps.                                    *)
LEMMA HandleFatalErrorKeeps ==
    ASSUME IInv, HandleFatalError, release' = release, strikes' \in 0 .. MaxRetries,
           throttles' > MaxRetries => (IsSettled("heartbeat"))'
    PROVE  Fatality' /\ fatal' \in BOOLEAN /\ cleanup' \in BOOLEAN
BY DEF IInv, TypeOK, Fatality, HandleFatalError

(* What is known when the answer to a heartbeat is dealt with.             *)
LEMMA HeartbeatSettles ==
    ASSUME IInv, Settle("heartbeat")
    PROVE  /\ net' \in [Request -> Exchange] /\ net'["heartbeat"] = Settled
           /\ \A q \in Request \ {"heartbeat"} : net'[q] = net[q]
           /\ (IsSettled("heartbeat"))'
           /\ ~cleanup /\ ~IsSettled("heartbeat") /\ IsSettled("activate")
           /\ IsSettled("deactivate") /\ timer = NoTimer /\ activation = "settled"
           /\ release \in {"none", "activation", "heartbeat"}
           /\ net["heartbeat"].token = token
           /\ throttles \in 0 .. MaxRetries
           /\ state = "active" => release = "none" /\ ~fatal /\ strikes < MaxRetries
           /\ state \in {"active", "deactivating"}
<1>1. /\ net' \in [Request -> Exchange] /\ net'["heartbeat"] = Settled
      /\ \A q \in Request \ {"heartbeat"} : net'[q] = net[q]
      /\ ~IsSettled("heartbeat") /\ ~cleanup
  BY SettleType, RequestNames DEF IInv, Settle
<1>2. activation = "settled" /\ release \in {"none", "activation", "heartbeat"}
  BY <1>1 DEF IInv, Overlap
<1>3. state \in {"active", "deactivating"} /\ IsSettled("activate") /\ IsSettled("deactivate")
  BY <1>2 DEF IInv, Lifecycle, Overlap, TypeOK, ClientState
<1>4. state = "active" => release = "none" /\ ~fatal
  BY <1>1 DEF IInv, Lifecycle, Fatality
<1>5. throttles \in 0 .. MaxRetries /\ (state = "active" => strikes < MaxRetries)
  BY <1>1, <1>4, Config DEF IInv, TypeOK, Fatality
<1>6. timer = NoTimer /\ net["heartbeat"].token = token
  BY <1>1 DEF IInv, HeartbeatLoopRuns, OneSession
<1> QED BY <1>1, <1>2, <1>3, <1>4, <1>5, <1>6, SettledType DEF IsSettled

(* The parts of IInv that depend on requests, and not on the answer.       *)
LEMMA HeartbeatFrame ==
    ASSUME IInv, Settle("heartbeat"), UNCHANGED <<lifecycle, server>>,
           timer' = NoTimer \/ (timer' \in Nat /\ state = "active"),
           state = "active" => timer' # NoTimer \/ cleanup',
           token' = token, held' \subseteq held \cup {token}
    PROVE  Lifecycle' /\ Overlap' /\ HeartbeatLoopRuns' /\ Answers' /\ NoSessionLeft'
           /\ OneSession'
<1> USE DEF lifecycle, server
<1>1. Lifecycle' /\ Overlap' /\ HeartbeatLoopRuns'
  BY HeartbeatSettles, RequestNames, SettledType
  DEF IInv, Lifecycle, Overlap, HeartbeatLoopRuns, IsSettled, NoTimer
<1>2. Answers'
  BY HeartbeatSettles, RequestNames, SettledType, NoResponseType DEF IInv, Answers, Granted
<1>3. NoSessionLeft' /\ OneSession'
  BY HeartbeatSettles, RequestNames DEF IInv, NoSessionLeft, OneSession, IsSettled
<1> QED BY <1>1, <1>2, <1>3

(* runHeartbeat ends by scheduling the next heartbeat, unless the error    *)
(* was fatal, whose cleanup is then queued.                                *)
LEMMA ScheduleHeartbeatArms ==
    ASSUME IInv, Settle("heartbeat"), NEW delay \in Nat, ScheduleHeartbeat(delay),
           HandleFatalError \/ UNCHANGED fatality
    PROVE  /\ timer' = NoTimer \/ (timer' = delay /\ state = "active")
           /\ state = "active" => timer' # NoTimer \/ cleanup'
<1>1. timer = NoTimer /\ (state = "active" => ~fatal)
  BY HeartbeatSettles
<1>2. CASE HandleFatalError
  <2>1. fatal' /\ (~fatal => cleanup')
    BY <1>2 DEF HandleFatalError
  <2> QED BY <1>1, <2>1 DEF ScheduleHeartbeat
<1>3. CASE UNCHANGED fatality
  <2>1. state = "active" => ~fatal'
    BY <1>1, <1>3 DEF fatality
  <2> QED BY <1>1, <2>1 DEF ScheduleHeartbeat, NoTimer
<1> QED BY <1>2, <1>3

(* While the heartbeat under way is the first since a success, there is    *)
(* time for a retry.                                                       *)
LEMMA RoomForRetry ==
    ASSUME IInv, Settle("heartbeat"), state = "active", HasRoomForRetry(lifetime),
           strikes + throttles = 0
    PROVE  expiresIn > 1
<1>1. net["heartbeat"].age \in 0 .. RequestTimeout /\ lifetime \in Nat \ {0}
  BY RequestNames, Config DEF IInv, TypeOK, Exchange
<1> QED BY <1>1, HeartbeatSettles, Config, RenewalSafetyRange
        DEF IInv, Room, Reserve, HasRoomForRetry, TypeOK

LEMMA HeartbeatThrottledKeeps ==
    ASSUME IInv, Settle("heartbeat"), UNCHANGED <<lifecycle, server>>,
           NEW response \in Outcome("heartbeat"), HeartbeatThrottled(response)
    PROVE  IInv'
<1> USE DEF lifecycle, session, counters, fatality, server
<1> DEFINE requested == RetryAfterDelay(response.after)
           delay == ClampRetryBeforeSessionExpiry(requested)
<1>1. delay \in Nat /\ (expiresIn > 1 => delay < expiresIn)
  BY OutcomeType, RequestNames, RetryAfterDelayType, ClampRetryRange DEF IInv, TypeOK
<1>2. /\ throttles' = throttles + 1
      /\ timer' = IF state = "active" /\ ~fatal' THEN delay ELSE timer
      /\ UNCHANGED <<session, strikes, held>>
  BY DEF HeartbeatThrottled, ScheduleHeartbeat
<1>3. /\ throttles' > MaxRetries => HandleFatalError
      /\ \/ HandleFatalError /\ UNCHANGED protected
         \/ UNCHANGED fatality /\ protected' \in BOOLEAN
      /\ event' \subseteq LicenseEvent
  BY DEF HeartbeatThrottled, LicenseEvent
<1>4. Fatality' /\ fatal' \in BOOLEAN /\ cleanup' \in BOOLEAN
  <2>1. strikes' \in 0 .. MaxRetries /\ (IsSettled("heartbeat"))'
    BY <1>2, HeartbeatSettles DEF IInv, TypeOK
  <2>2. CASE HandleFatalError
    BY <2>1, <2>2, HandleFatalErrorKeeps
  <2>3. CASE UNCHANGED fatality
    BY <1>2, <1>3, <2>1, <2>2, <2>3 DEF IInv, Fatality, TypeOK
  <2> QED BY <1>3, <2>2, <2>3
<1>5. protected' \in BOOLEAN
  BY <1>3 DEF IInv, TypeOK
<1>6. timer' = NoTimer \/ (timer' = delay /\ state = "active")
  BY <1>1, <1>3, ScheduleHeartbeatArms DEF HeartbeatThrottled
<1>7. state = "active" => timer' # NoTimer \/ cleanup'
  BY <1>1, <1>3, ScheduleHeartbeatArms DEF HeartbeatThrottled
<1>8. TypeOK'
  BY <1>1, <1>2, <1>3, <1>4, <1>5, <1>6, HeartbeatSettles, Config DEF IInv, TypeOK
<1>9. Lifecycle' /\ Overlap' /\ HeartbeatLoopRuns' /\ Answers' /\ NoSessionLeft' /\ OneSession'
  BY <1>1, <1>2, <1>6, <1>7, HeartbeatFrame
<1>10. ExpiryNotOverrated'
  BY <1>2 DEF IInv, ExpiryNotOverrated
<1>11. Room'
  <2>1. SUFFICES ASSUME state = "active", HasRoomForRetry(lifetime),
                        strikes + throttles = 0, timer' # NoTimer
                 PROVE  timer' < expiresIn'
    BY <1>2, HeartbeatSettles DEF Room, HasRoomForRetry, RenewalSafety, FullRetryBudget,
       Reserve, IInv, TypeOK
  <2> QED BY <1>1, <1>6, <2>1, RoomForRetry, <1>2
<1> QED BY <1>4, <1>8, <1>9, <1>10, <1>11 DEF IInv

LEMMA HeartbeatRejectedKeeps ==
    ASSUME IInv, Settle("heartbeat"), UNCHANGED <<lifecycle, server>>,
           NEW response \in Outcome("heartbeat"), HeartbeatRejected(response)
    PROVE  IInv'
<1> USE DEF lifecycle, session, counters, fatality, server
<1>1. /\ HandleFatalError /\ ScheduleHeartbeat(interval) /\ interval \in Nat
      /\ UNCHANGED <<session, counters, held>>
  BY DEF HeartbeatRejected, IInv, TypeOK
<1>2. /\ timer' = NoTimer \/ (timer' = interval /\ state = "active")
      /\ state = "active" => timer' # NoTimer \/ cleanup'
  BY <1>1, ScheduleHeartbeatArms
<1>3. Fatality' /\ fatal' \in BOOLEAN /\ cleanup' \in BOOLEAN
  BY <1>1, HeartbeatSettles, HandleFatalErrorKeeps DEF IInv, TypeOK
<1>4. event' \subseteq LicenseEvent
  BY DEF HeartbeatRejected, EmitLicenseRejection, LicenseEvent
<1>5. TypeOK'
  BY <1>1, <1>2, <1>3, <1>4, HeartbeatSettles DEF IInv, TypeOK
<1>6. Lifecycle' /\ Overlap' /\ HeartbeatLoopRuns' /\ Answers' /\ NoSessionLeft' /\ OneSession'
  BY <1>1, <1>2, HeartbeatFrame
<1>7. ExpiryNotOverrated'
  BY <1>1 DEF IInv, ExpiryNotOverrated
<1>8. Room'
  <2>1. state = "active" => timer' = NoTimer
    BY <1>1, HeartbeatSettles DEF HandleFatalError, ScheduleHeartbeat
  <2> QED BY <2>1, HeartbeatSettles DEF Room
<1> QED BY <1>3, <1>5, <1>6, <1>7, <1>8 DEF IInv

LEMMA HeartbeatFailsKeeps ==
    ASSUME IInv, Settle("heartbeat"), UNCHANGED <<lifecycle, server>>,
           NEW response \in Outcome("heartbeat"), HeartbeatFails(response)
    PROVE  IInv'
<1> USE DEF lifecycle, session, counters, fatality, server
<1> DEFINE delay == ClampRetryBeforeSessionExpiry(interval)
<1>1. delay \in Nat /\ (expiresIn > 1 => delay < expiresIn)
  BY ClampRetryRange DEF IInv, TypeOK
<1>2. RecordHeartbeatFailure /\ ScheduleHeartbeat(delay)
      /\ UNCHANGED <<session, throttles, protected, held>>
  BY DEF HeartbeatFails
<1>3. /\ strikes' = IF state = "active" THEN strikes + 1 ELSE strikes
      /\ state = "active" /\ strikes' >= MaxRetries => HandleFatalError
      /\ HandleFatalError \/ UNCHANGED fatality
      /\ event' \subseteq LicenseEvent
  BY <1>2 DEF RecordHeartbeatFailure, LicenseEvent
<1>4. strikes' \in 0 .. MaxRetries
  BY <1>3, HeartbeatSettles, Config DEF IInv, TypeOK
<1>5. Fatality' /\ fatal' \in BOOLEAN /\ cleanup' \in BOOLEAN
  <2>1. CASE HandleFatalError
    BY <1>4, <2>1, HeartbeatSettles, HandleFatalErrorKeeps
  <2>2. CASE UNCHANGED fatality
    <3>1. fatal' \in BOOLEAN /\ cleanup' \in BOOLEAN
      BY <2>2 DEF IInv, TypeOK
    <3>2. strikes' >= MaxRetries => fatal'
      BY <1>3, <2>1, <2>2 DEF IInv, Fatality
    <3> QED BY <1>2, <2>2, <3>1, <3>2, HeartbeatSettles DEF IInv, Fatality
  <2> QED BY <1>3, <2>1, <2>2
<1>6. /\ timer' = NoTimer \/ (timer' = delay /\ state = "active")
      /\ state = "active" => timer' # NoTimer \/ cleanup'
  BY <1>1, <1>2, <1>3, ScheduleHeartbeatArms
<1>7. TypeOK'
  BY <1>1, <1>2, <1>3, <1>4, <1>5, <1>6, HeartbeatSettles DEF IInv, TypeOK
<1>8. Lifecycle' /\ Overlap' /\ HeartbeatLoopRuns' /\ Answers' /\ NoSessionLeft' /\ OneSession'
  BY <1>1, <1>2, <1>6, HeartbeatFrame
<1>9. ExpiryNotOverrated'
  BY <1>2 DEF IInv, ExpiryNotOverrated
<1>10. Room'
  <2>1. SUFFICES ASSUME state = "active", HasRoomForRetry(lifetime),
                        strikes + throttles = 0, timer' # NoTimer
                 PROVE  timer' < expiresIn'
    BY <1>2, <1>3, HeartbeatSettles DEF Room, HasRoomForRetry, RenewalSafety, FullRetryBudget,
       Reserve, IInv, TypeOK
  <2> QED BY <1>1, <1>2, <1>6, <2>1, RoomForRetry
<1> QED BY <1>5, <1>7, <1>8, <1>9, <1>10 DEF IInv

LEMMA HeartbeatSucceedsKeeps ==
    ASSUME IInv, Settle("heartbeat"), UNCHANGED <<lifecycle, server>>,
           NEW response \in Outcome("heartbeat"), HeartbeatSucceeds(response)
    PROVE  IInv'
<1> USE DEF lifecycle, session, counters, fatality, server
<1> DEFINE left == LifetimeLeft("heartbeat", response)
<1>1. /\ response.token \in Token /\ response.ttl = lifetime /\ left \in Nat
      /\ response = net["heartbeat"].response
      /\ left <= sessions[response.token]
      /\ lifetime <= left + net["heartbeat"].age
  BY OutcomeGranted DEF HeartbeatSucceeds
<1>2. lifetime \in Nat \ {0} /\ net["heartbeat"].age \in 0 .. RequestTimeout
  BY Config, RequestNames DEF IInv, TypeOK, Exchange
<1>3. response.token = token
  BY <1>1, HeartbeatSettles DEF IInv, Answers, HeartbeatSucceeds
<1>4. /\ token' = token /\ held' = held \cup {token} /\ expiresIn' = left
      /\ strikes' = 0 /\ throttles' = 0 /\ protected' = FALSE
      /\ UNCHANGED fatality /\ ScheduleHeartbeat(interval')
      /\ event' \subseteq LicenseEvent
  BY <1>1, <1>3 DEF HeartbeatSucceeds, LicenseEvent
<1>5. /\ interval' \in Nat \ {0}
      /\ lifetime > FullRetryBudget(lifetime)
           => interval' + FullRetryBudget(lifetime) <= lifetime
  BY <1>1, <1>2, ClampHeartbeatIntervalRange DEF HeartbeatSucceeds
<1>6. /\ timer' = NoTimer \/ (timer' = interval' /\ state = "active")
      /\ state = "active" => timer' # NoTimer \/ cleanup'
  BY <1>4, <1>5, ScheduleHeartbeatArms
<1>7. fatal' \in BOOLEAN /\ cleanup' \in BOOLEAN /\ protected' \in BOOLEAN
  BY <1>4 DEF IInv, TypeOK
<1>8. Fatality'
  BY <1>4, Config DEF IInv, Fatality
<1>9. TypeOK'
  BY <1>1, <1>3, <1>4, <1>5, <1>6, <1>7, HeartbeatSettles, Config DEF IInv, TypeOK
<1>10. Lifecycle' /\ Overlap' /\ HeartbeatLoopRuns' /\ Answers' /\ NoSessionLeft' /\ OneSession'
  BY <1>4, <1>5, <1>6, HeartbeatFrame
<1>11. ExpiryNotOverrated'
  BY <1>1, <1>3, <1>4 DEF IInv, ExpiryNotOverrated
<1>12. Room'
  BY <1>1, <1>2, <1>4, <1>5, <1>6, HeartbeatSettles, RenewalSafetyRange, Config
  DEF Room, Reserve, HasRoomForRetry, FullRetryBudget
<1> QED BY <1>8, <1>9, <1>10, <1>11, <1>12 DEF IInv

LEMMA RunHeartbeatKeeps == ASSUME IInv, RunHeartbeat PROVE IInv'
BY HeartbeatThrottledKeeps, HeartbeatRejectedKeeps, HeartbeatFailsKeeps, HeartbeatSucceedsKeeps
DEF RunHeartbeat

LEMMA ConsumeKeeps == ASSUME IInv, NEW c \in Call, Consume(c) PROVE IInv'
<1> USE DEF lifecycle, session, counters, fatality, server
<1>1. /\ state = "active" /\ activation = "settled" /\ release = "none"
      /\ IsSettled("activate") /\ IsSettled("deactivate")
  BY DEF Consume, IInv, Lifecycle, Overlap
<1>2. /\ net' \in [Request -> Exchange]
      /\ net'[c].stage = "sent" /\ net'[c].response = NoResponse
      /\ \A q \in Request \ {c} : net'[q] = net[q]
  BY SendType, RequestNames DEF Consume, IInv, TypeOK
<1>3. \A q \in {"activate", "heartbeat", "deactivate"} : q \in Request /\ net'[q] = net[q]
  BY <1>2, RequestNames
<1>4. TypeOK'
  BY <1>2 DEF IInv, Consume, TypeOK
<1>5. Lifecycle' /\ Overlap' /\ HeartbeatLoopRuns' /\ Fatality'
  BY <1>1, <1>2, <1>3, RequestNames
  DEF IInv, Consume, Lifecycle, Overlap, HeartbeatLoopRuns, Fatality, IsSettled
<1>6. OneSession' /\ NoSessionLeft' /\ ExpiryNotOverrated' /\ Room'
  BY <1>1, <1>3
  DEF IInv, Consume, OneSession, NoSessionLeft, ExpiryNotOverrated, Room, Reserve, IsSettled,
      HasRoomForRetry, FullRetryBudget, RenewalSafety
<1>7. Answers'
  BY <1>1, <1>2, <1>3, NoResponseType DEF IInv, Consume, Answers, Granted
<1> QED BY <1>4, <1>5, <1>6, <1>7 DEF IInv

LEMMA ConsumeOnceKeeps == ASSUME IInv, NEW c \in Call, ConsumeOnce(c) PROVE IInv'
<1> USE DEF lifecycle, session, counters, fatality, server
<1>1. PICK response \in Outcome(c) :
        /\ Settle(c)
        /\ event' = RejectionEvent(response)
        /\ HandleFatalError \/ UNCHANGED fatality
        /\ UNCHANGED <<lifecycle, session, timer, counters, server, held>>
  BY DEF ConsumeOnce
<1>2. /\ net' \in [Request -> Exchange] /\ net'[c] = Settled /\ ~cleanup
      /\ \A q \in Request \ {c} : net'[q] = net[q]
  BY <1>1, SettleType, RequestNames DEF IInv
<1>3. \A q \in {"activate", "heartbeat", "deactivate"} : q \in Request /\ net'[q] = net[q]
  BY <1>2, RequestNames
<1>4. \A q \in Call : IsSettled(q) => (IsSettled(q))'
  BY <1>2, SettledType, RequestNames DEF IsSettled
<1>5. Fatality' /\ fatal' \in BOOLEAN /\ cleanup' \in BOOLEAN
  <2>1. CASE HandleFatalError
    BY <1>1, <1>3, <2>1, HandleFatalErrorKeeps, Config DEF IInv, TypeOK, Fatality, IsSettled
  <2>2. CASE UNCHANGED fatality
    <3>1. fatal' \in BOOLEAN /\ cleanup' \in BOOLEAN
      BY <2>2 DEF IInv, TypeOK
    <3> QED BY <1>1, <1>3, <2>2, <3>1 DEF IInv, Fatality, IsSettled
  <2> QED BY <1>1, <2>1, <2>2
<1>6. event' \subseteq LicenseEvent
  BY <1>1 DEF RejectionEvent, EmitLicenseRejection, LicenseEvent
<1>7. TypeOK'
  BY <1>1, <1>2, <1>5, <1>6 DEF IInv, TypeOK
<1>8. Lifecycle' /\ Overlap'
  BY <1>1, <1>3, <1>4 DEF IInv, Lifecycle, Overlap, IsSettled
<1>9. HeartbeatLoopRuns'
  <2>1. cleanup => cleanup'
    BY <1>2
  <2> QED BY <1>1, <1>3, <2>1 DEF IInv, HeartbeatLoopRuns, IsSettled
<1>10. OneSession' /\ NoSessionLeft' /\ ExpiryNotOverrated' /\ Room'
  BY <1>1, <1>3
  DEF IInv, OneSession, NoSessionLeft, ExpiryNotOverrated, Room, Reserve, IsSettled,
      HasRoomForRetry, FullRetryBudget, RenewalSafety
<1>11. Answers'
  BY <1>1, <1>2, <1>3, SettledType DEF IInv, Answers, Granted
<1> QED BY <1>5, <1>7, <1>8, <1>9, <1>10, <1>11 DEF IInv

(* deactivate() starts to wait, which no request under way notices.        *)
LEMMA BeginDeactivationKeeps ==
    ASSUME IInv, BeginDeactivation, cleanup' \in BOOLEAN, cleanup' => fatal,
           UNCHANGED <<activation, session, counters, fatal, net, server, held>>, event' = {}
    PROVE  IInv'
<1> USE DEF lifecycle, session, counters, server
<1>1. /\ state \in {"idle", "activating", "active"} /\ state' = "deactivating"
      /\ release = "none" /\ release' = "activation" /\ timer' = NoTimer
  BY DEF BeginDeactivation, IInv, Lifecycle
<1>2. TypeOK'
  BY <1>1 DEF IInv, TypeOK, ClientState
<1>3. Lifecycle' /\ Overlap' /\ HeartbeatLoopRuns'
  BY <1>1 DEF IInv, Lifecycle, Overlap, HeartbeatLoopRuns, IsSettled
<1>4. Fatality'
  BY <1>1 DEF IInv, Fatality, IsSettled
<1>5. OneSession' /\ NoSessionLeft' /\ ExpiryNotOverrated' /\ Room'
  BY <1>1 DEF IInv, OneSession, NoSessionLeft, ExpiryNotOverrated, Room, IsSettled
<1>6. Answers'
  BY DEF IInv, Answers, Granted
<1> QED BY <1>2, <1>3, <1>4, <1>5, <1>6 DEF IInv

LEMMA DeactivateKeeps == ASSUME IInv, Deactivate PROVE IInv'
<1>1. cleanup' \in BOOLEAN /\ (cleanup' => fatal)
  BY DEF Deactivate, fatality, IInv, TypeOK, Fatality
<1> QED BY <1>1, BeginDeactivationKeeps DEF Deactivate, fatality

LEMMA FatalCleanupKeeps == ASSUME IInv, FatalCleanup PROVE IInv'
<1> USE DEF lifecycle, session, counters, server
<1>1. CASE BeginDeactivation
  <2>1. cleanup' = FALSE
    BY DEF FatalCleanup
  <2> QED BY <1>1, <2>1, BeginDeactivationKeeps DEF FatalCleanup
<1>2. CASE release # "none" /\ UNCHANGED <<state, release, timer>>
  <2>1. /\ UNCHANGED <<lifecycle, session, counters, fatal, net, timer, server, held>>
        /\ event' = {} /\ cleanup' = FALSE /\ state # "active"
    BY <1>2 DEF FatalCleanup, IInv, Lifecycle
  <2>2. cleanup' \in BOOLEAN
    BY <2>1
  <2>3. TypeOK'
    BY <2>1, <2>2 DEF IInv, TypeOK
  <2>4. Lifecycle' /\ Overlap' /\ HeartbeatLoopRuns'
    BY <2>1 DEF IInv, Lifecycle, Overlap, HeartbeatLoopRuns, IsSettled
  <2>5. Fatality'
    BY <1>2, <2>1 DEF IInv, Fatality, IsSettled
  <2>6. OneSession' /\ NoSessionLeft' /\ ExpiryNotOverrated' /\ Room' /\ Answers'
    BY <2>1 DEF IInv, OneSession, NoSessionLeft, ExpiryNotOverrated, Room, IsSettled,
                Answers, Granted
  <2> QED BY <2>3, <2>4, <2>5, <2>6 DEF IInv
<1> QED BY <1>1, <1>2 DEF FatalCleanup

LEMMA DeactivateOnceKeeps == ASSUME IInv, DeactivateOnce PROVE IInv'
<1> USE DEF lifecycle, session, counters, fatality, server
<1>1. event' = {} /\ UNCHANGED <<activation, timer, counters, fatality, server, held>>
  BY DEF DeactivateOnce
<1>2. ASSUME release \in {"activation", "heartbeat"}, release' \in {"heartbeat", "usage"},
             release = "activation" => activation # "pending" /\ release' = "heartbeat",
             release = "heartbeat" => IsSettled("heartbeat"),
             UNCHANGED <<state, session, net>>
      PROVE  IInv'
  <2>1. state = "deactivating"
    BY <1>2 DEF IInv, Lifecycle, TypeOK, ClientState
  <2>2. TypeOK' /\ Lifecycle'
    BY <1>1, <1>2, <2>1 DEF IInv, TypeOK, Lifecycle, IsSettled
  <2>3. Overlap' /\ HeartbeatLoopRuns'
    BY <1>1, <1>2, <2>1 DEF IInv, Overlap, HeartbeatLoopRuns, IsSettled
  <2>4. Fatality' /\ OneSession' /\ NoSessionLeft' /\ ExpiryNotOverrated' /\ Room'
    BY <1>1, <1>2, <2>1
    DEF IInv, Fatality, OneSession, NoSessionLeft, ExpiryNotOverrated, Room, IsSettled
  <2>5. Answers'
    BY <1>1, <1>2 DEF IInv, Answers, Granted
  <2> QED BY <2>2, <2>3, <2>4, <2>5 DEF IInv
<1>3. CASE (AwaitActivation \/ AwaitHeartbeat) /\ UNCHANGED <<state, session, net>>
  BY <1>2, <1>3 DEF AwaitActivation, AwaitHeartbeat
<1>4. ASSUME release \in {"usage", "sent"}
      PROVE  /\ state = "deactivating" /\ activation # "pending" /\ timer = NoTimer
             /\ IsSettled("activate") /\ IsSettled("heartbeat") /\ held \subseteq {token}
             /\ release = "sent" => \A c \in Call : IsSettled(c)
  BY <1>4 DEF IInv, Lifecycle, Overlap, HeartbeatLoopRuns, OneSession, TypeOK, ClientState
<1>5. ASSUME AwaitUsage, token # NoToken PROVE IInv'
  <2>1. /\ release = "usage" /\ release' = "sent" /\ UNCHANGED <<state, session>>
        /\ \A c \in Call : IsSettled(c)
        /\ Send("deactivate", token)
    BY <1>5 DEF AwaitUsage
  <2>2. /\ net' \in [Request -> Exchange]
        /\ net'["deactivate"].stage = "sent" /\ net'["deactivate"].response = NoResponse
        /\ net'["deactivate"].token = token
        /\ \A q \in Request \ {"deactivate"} : net'[q] = net[q]
    BY <2>1, SendType, RequestNames DEF IInv, TypeOK
  <2>3. \A q \in Request \ {"deactivate"} : (IsSettled(q))' = IsSettled(q)
    BY <2>2 DEF IsSettled
  <2>4. ~(IsSettled("deactivate"))'
    BY <2>2 DEF IsSettled
  <2>5. TypeOK'
    BY <1>1, <2>1, <2>2 DEF IInv, TypeOK
  <2>6. Lifecycle' /\ Overlap' /\ HeartbeatLoopRuns'
    BY <1>1, <1>4, <2>1, <2>3, <2>4, RequestNames DEF IInv, Lifecycle, Overlap, HeartbeatLoopRuns
  <2>7. Fatality' /\ OneSession' /\ NoSessionLeft' /\ ExpiryNotOverrated' /\ Room'
    BY <1>1, <1>4, <1>5, <2>1, <2>2, <2>3, RequestNames
    DEF IInv, Fatality, OneSession, NoSessionLeft, ExpiryNotOverrated, Room
  <2>8. Answers'
    BY <1>1, <2>2, NoResponseType, RequestNames DEF IInv, Answers, Granted
  <2> QED BY <2>5, <2>6, <2>7, <2>8 DEF IInv
<1>6. ASSUME NEW outcome \in {"released", "failed"}, FinishDeactivation(outcome),
             UNCHANGED interval, release \in {"usage", "sent"}, \A c \in Call : IsSettled(c),
             net' \in [Request -> Exchange],
             (net' = net /\ IsSettled("deactivate")) \/ Settle("deactivate"),
             outcome = "released" => \A t \in held : sessions[t] = 0
      PROVE  IInv'
  <2>1. /\ release' = outcome /\ token' = NoToken /\ expiresIn' = 0 /\ state' = "deactivated"
    BY <1>6 DEF FinishDeactivation
  <2>2. \A r \in Request : net'[r] = net[r] \/ net'[r] = Settled
    BY <1>6, SettleType, RequestNames DEF IInv
  <2>3. \A r \in Request : (IsSettled(r))'
    <3>1. net'["deactivate"] = Settled \/ (net' = net /\ IsSettled("deactivate"))
      <4>1. CASE Settle("deactivate")
        BY <4>1, SettleType, RequestNames DEF IInv
      <4> QED BY <1>6, <4>1
    <3> QED BY <1>4, <1>6, <2>2, <3>1, SettledType, RequestNames DEF IsSettled
  <2>4. TypeOK'
    BY <1>1, <1>6, <2>1 DEF IInv, TypeOK, ClientState
  <2>5. Lifecycle' /\ Overlap' /\ HeartbeatLoopRuns'
    BY <1>1, <1>4, <1>6, <2>1, <2>3, RequestNames DEF Lifecycle, Overlap, HeartbeatLoopRuns
  <2>6. Fatality' /\ NoSessionLeft' /\ ExpiryNotOverrated' /\ Room'
    BY <1>1, <1>6, <2>1, <2>3, RequestNames
    DEF IInv, Fatality, NoSessionLeft, ExpiryNotOverrated, Room
  <2>7. OneSession'
    BY <1>1, <2>1, <2>3, RequestNames DEF IInv, OneSession, NoToken, TypeOK
  <2>8. Answers'
    <3>1. \A r \in Request : net[r].stage = "settled" => net[r].response = NoResponse
      BY DEF IInv, Answers
    <3>2. \A r \in Request : net'[r].response = NoResponse
      BY <2>2, <2>3, <3>1, SettledType DEF IsSettled
    <3> QED BY <1>1, <3>2, NoResponseType, RequestNames DEF IInv, Answers, Granted
  <2> QED BY <2>4, <2>5, <2>6, <2>7, <2>8 DEF IInv
<1>7. ASSUME AwaitUsage, token = NoToken PROVE IInv'
  <2>1. /\ release = "usage" /\ FinishDeactivation("released") /\ UNCHANGED <<interval, net>>
        /\ \A c \in Call : IsSettled(c)
    BY <1>7 DEF AwaitUsage
  <2>2. held = {}
    BY <1>4, <1>7, <2>1 DEF IInv, TypeOK, Token, NoToken
  <2>3. IsSettled("deactivate") /\ net' \in [Request -> Exchange]
    BY <2>1 DEF IInv, Overlap, TypeOK
  <2> QED BY <1>6, <2>1, <2>2, <2>3
<1>8. ASSUME NEW response \in Outcome("deactivate"), Settle("deactivate"), UNCHANGED interval,
             FinishDeactivation(IF response.kind = "ok" THEN "released" ELSE "failed")
      PROVE  IInv'
  <2>1. release = "sent" /\ net' \in [Request -> Exchange]
    BY <1>8, SettleType, RequestNames DEF IInv, Overlap, Settle
  <2>2. net["deactivate"].token = token
    BY <1>8 DEF IInv, OneSession, Settle
  <2>3. response.kind = "ok" => sessions[token] = 0
    BY <1>8, <2>2, NoResponseType DEF Outcome, IInv, Answers
  <2> QED BY <1>4, <1>6, <1>8, <2>1, <2>3
<1> QED BY <1>3, <1>5, <1>7, <1>8 DEF DeactivateOnce

(* The request the server deals with is under way, so that those it        *)
(* excludes are settled.                                                   *)
LEMMA SentMeans ==
    ASSUME IInv, NEW r \in Request, net[r].stage = "sent"
    PROVE  /\ ~IsSettled(r) /\ state # "deactivated" /\ release \notin {"released", "failed"}
           /\ r = "activate" => /\ activation = "pending" /\ state # "active"
                                /\ IsSettled("heartbeat") /\ IsSettled("deactivate")
           /\ r = "heartbeat" => /\ net["heartbeat"].token = token
                                 /\ IsSettled("activate") /\ IsSettled("deactivate")
           /\ r = "deactivate" => /\ net["deactivate"].token = token /\ token \in Token
                                  /\ state # "active"
                                  /\ IsSettled("heartbeat") /\ IsSettled("activate")
<1>1. ~IsSettled(r)
  BY DEF IsSettled
<1>2. r \in Call \/ r = "activate" \/ r = "heartbeat" \/ r = "deactivate"
  BY RequestNames
<1>3. CASE r = "activate"
  BY <1>1, <1>3, RequestNames DEF IInv, Lifecycle, Overlap
<1>4. CASE r = "heartbeat"
  BY <1>1, <1>4, RequestNames DEF IInv, Lifecycle, Overlap, OneSession
<1>5. CASE r = "deactivate"
  BY <1>1, <1>5, RequestNames DEF IInv, Lifecycle, Overlap, OneSession, TypeOK
<1>6. CASE r \in Call
  BY <1>1, <1>6, RequestNames DEF IInv, Lifecycle, Overlap
<1> QED BY <1>1, <1>2, <1>3, <1>4, <1>5, <1>6

(* An answer changes what is on its way, and what the server keeps; the    *)
(* client has not noticed yet.                                             *)
LEMMA ReplyKeeps ==
    ASSUME IInv, NEW r \in Request, net[r].stage = "sent",
           NEW response \in Response, Reply(r, response), event' = {},
           UNCHANGED <<lifecycle, session, timer, counters, fatality, held, lifetime>>,
           sessions' \in [Token -> Nat], issued' \in issued .. MaxSessions,
           Answers', ExpiryNotOverrated'
    PROVE  IInv'
<1> USE DEF lifecycle, session, counters, fatality
<1>1. /\ net' \in [Request -> Exchange]
      /\ net'[r].stage = "answered" /\ net'[r].age = net[r].age /\ net'[r].token = net[r].token
      /\ \A q \in Request \ {r} : net'[q] = net[q]
  BY ReplyType DEF IInv
<1>2. \A q \in Request : /\ (IsSettled(q))' = IsSettled(q)
                         /\ net'[q].age = net[q].age /\ net'[q].token = net[q].token
  BY <1>1 DEF IsSettled
<1>3. \A c \in Call : (IsSettled(c))' = IsSettled(c)
  BY <1>2, RequestNames
<1>4. TypeOK'
  <2>1. issued' \in 0 .. MaxSessions
    BY Config DEF IInv, TypeOK
  <2> QED BY <1>1, <2>1 DEF IInv, TypeOK
<1>5. Lifecycle' /\ Overlap' /\ HeartbeatLoopRuns' /\ Fatality'
  BY <1>2, <1>3, RequestNames DEF IInv, Lifecycle, Overlap, HeartbeatLoopRuns, Fatality
<1>6. OneSession'
  <2>1. /\ issued \in Nat /\ issued' \in Nat /\ issued <= issued'
        /\ token \in Nat /\ held \subseteq Nat
    BY Config DEF IInv, TypeOK, Token, NoToken
  <2> QED BY <1>2, <2>1, RequestNames DEF IInv, OneSession
<1>7. NoSessionLeft'
  BY SentMeans DEF NoSessionLeft
<1>8. Room'
  BY <1>2, RequestNames DEF IInv, Room, Reserve, HasRoomForRetry, FullRetryBudget, RenewalSafety
<1> QED BY <1>4, <1>5, <1>6, <1>7, <1>8 DEF IInv

LEMMA ServerRefusesKeeps ==
    ASSUME IInv, NEW r \in Request, net[r].stage = "sent", ServerRefuses(r), event' = {},
           UNCHANGED <<lifecycle, session, timer, counters, fatality, held>>
    PROVE  IInv'
<1> USE DEF lifecycle, session, counters, fatality, server
<1>1. PICK response \in Response : Reply(r, response) /\ response.kind # "ok"
  <2>1. ASSUME NEW code \in Code PROVE
          /\ [NoResponse EXCEPT !.kind = "rejected", !.code = code] \in Response
          /\ [NoResponse EXCEPT !.kind = "rejected", !.code = code].kind # "ok"
    BY AnswerAssumption DEF NoResponse, Response, Kinds
  <2>2. ASSUME NEW after \in RetryAfter \cup {NoHeader} PROVE
          /\ [NoResponse EXCEPT !.kind = "throttled", !.after = after] \in Response
          /\ [NoResponse EXCEPT !.kind = "throttled", !.after = after].kind # "ok"
    BY DEF NoResponse, Response, Kinds
  <2>3. ASSUME NEW kind \in Trouble PROVE
          /\ [NoResponse EXCEPT !.kind = kind] \in Response
          /\ [NoResponse EXCEPT !.kind = kind].kind # "ok"
    BY AnswerAssumption DEF NoResponse, Response, Kinds
  <2> QED BY <2>1, <2>2, <2>3 DEF ServerRefuses
<1>2. UNCHANGED server
  BY DEF ServerRefuses
<1>3. /\ net'[r].stage = "answered" /\ net'[r].response.kind # "ok"
      /\ \A q \in Request \ {r} : net'[q] = net[q]
  BY <1>1, ReplyType DEF IInv
<1>4. Answers'
  BY <1>2, <1>3, RequestNames DEF IInv, Answers, Granted
<1>5. ExpiryNotOverrated'
  BY <1>2 DEF IInv, ExpiryNotOverrated
<1>6. sessions' \in [Token -> Nat] /\ issued' \in issued .. MaxSessions
  BY <1>2, Config DEF IInv, TypeOK
<1> QED BY <1>1, <1>2, <1>4, <1>5, <1>6, ReplyKeeps

LEMMA GrantKeeps ==
    ASSUME IInv, NEW r \in {"activate", "heartbeat"}, net[r].stage = "sent", NEW t \in Token,
           Grant(r, t), event' = {}, issued' \in issued .. MaxSessions, t <= issued',
           r = "heartbeat" => t = net[r].token,
           UNCHANGED <<lifecycle, session, timer, counters, fatality, held>>
    PROVE  IInv'
<1> USE DEF lifecycle, session, counters, fatality
<1> DEFINE response == [NoResponse EXCEPT !.kind = "ok", !.token = t, !.ttl = lifetime]
<1>0. lifetime \in Ttl /\ lifetime \in Nat /\ sessions \in [Token -> Nat] /\ r \in Request
  BY Config, RequestNames DEF IInv, TypeOK
<1>1. /\ response \in Response /\ response.kind = "ok" /\ response.token = t
      /\ response.ttl = lifetime
  BY <1>0 DEF NoResponse, Response, Kinds
<1>2. Reply(r, response) /\ sessions' = [sessions EXCEPT ![t] = lifetime] /\ UNCHANGED lifetime
  BY DEF Grant
<1>3. /\ net'[r].stage = "answered" /\ net'[r].response = response
      /\ net'[r].age = net[r].age /\ net'[r].token = net[r].token
      /\ \A q \in Request \ {r} : net'[q] = net[q]
      /\ net[r].age \in Nat
  <2>1. net[r].age \in Nat
    BY <1>0, Config DEF IInv, TypeOK, Exchange
  <2> HIDE DEF response
  <2> QED BY <1>0, <1>1, <1>2, <2>1, ReplyType DEF IInv
<1> HIDE DEF response
<1>4. sessions' \in [Token -> Nat] /\ sessions'[t] = lifetime
      /\ \A u \in Token : sessions'[u] <= lifetime /\ (u # t => sessions'[u] = sessions[u])
  BY <1>0, <1>2 DEF IInv, Answers
<1>5. /\ IsSettled("deactivate") /\ state # "deactivated"
      /\ r = "activate" => IsSettled("heartbeat") /\ state # "active"
      /\ r = "heartbeat" => IsSettled("activate") /\ t = token
  BY <1>0, SentMeans
<1>6. \A q \in Request : IsSettled(q) => net[q].response = NoResponse /\ q # r
  BY <1>0, SentMeans DEF IInv, Answers, IsSettled
<1>7. Answers'
  <2>1. Granted(r)'
    BY <1>0, <1>1, <1>2, <1>3, <1>4 DEF Granted
  <2>2. /\ \A q \in Request : net'[q].stage # "answered" => net'[q].response = NoResponse
        /\ net'["deactivate"].response.kind # "ok"
    BY <1>0, <1>3, <1>5, <1>6, NoResponseType, RequestNames DEF IInv, Answers
  <2>3. CASE r = "activate"
    <3>1. net'["heartbeat"].response.kind # "ok"
      BY <1>3, <1>5, <1>6, <2>3, NoResponseType, RequestNames
    <3> QED BY <1>2, <1>4, <2>1, <2>2, <2>3, <3>1 DEF Answers, Granted
  <2>4. CASE r = "heartbeat"
    <3>1. net'["activate"].response.kind # "ok"
      BY <1>3, <1>5, <1>6, <2>4, NoResponseType, RequestNames
    <3> QED BY <1>1, <1>2, <1>3, <1>4, <2>1, <2>2, <2>4, <3>1 DEF Answers, Granted
  <2> QED BY <2>3, <2>4
<1>8. ExpiryNotOverrated'
  <2>1. CASE state = "active"
    <3>1. expiresIn <= sessions[token] /\ sessions[token] <= lifetime /\ t = token
      BY <1>5, <2>1 DEF IInv, ExpiryNotOverrated, Answers
    <3> QED BY <1>0, <1>4, <3>1 DEF ExpiryNotOverrated, IInv, TypeOK
  <2> QED BY <2>1 DEF ExpiryNotOverrated
<1> QED BY <1>0, <1>1, <1>2, <1>4, <1>7, <1>8, ReplyKeeps

LEMMA ServerAcceptsKeeps ==
    ASSUME IInv, NEW r \in Request, net[r].stage = "sent", ServerAccepts(r), event' = {},
           UNCHANGED <<lifecycle, session, timer, counters, fatality, held>>
    PROVE  IInv'
<1> USE DEF lifecycle, session, counters, fatality, server
<1>0. /\ issued \in 0 .. MaxSessions /\ MaxSessions \in Nat /\ sessions \in [Token -> Nat]
      /\ lifetime \in Nat
  BY Config DEF IInv, TypeOK
<1>1. CASE r = "activate" /\ issued < MaxSessions /\ issued' = issued + 1 /\ Grant(r, issued')
  <2>1. issued' \in Token /\ issued' \in issued .. MaxSessions /\ issued' <= issued'
    BY <1>0, <1>1 DEF Token
  <2> QED BY <1>1, <2>1, GrantKeeps
<1>2. CASE r = "heartbeat" /\ Live(net[r].token) /\ Grant(r, net[r].token) /\ UNCHANGED issued
  <2>1. net[r].token \in Token /\ net[r].token <= issued'
    BY <1>2, SentMeans DEF Live, IInv, OneSession
  <2>2. issued' \in issued .. MaxSessions
    BY <1>0, <1>2
  <2> QED BY <1>2, <2>1, <2>2, GrantKeeps
<1> DEFINE response == [NoResponse EXCEPT !.kind = "ok"]
<1>3. response \in Response
  BY DEF NoResponse, Response, Kinds
<1>4. CASE r \in Call /\ Reply(r, response) /\ UNCHANGED server
  <2>1. net'[r].stage = "answered" /\ \A q \in Request \ {r} : net'[q] = net[q]
    BY <1>3, <1>4, ReplyType DEF IInv
  <2>2. Answers'
    <3>1. \A q \in Request : net'[q].stage # "answered" => net'[q].response = NoResponse
      BY <2>1 DEF IInv, Answers
    <3>2. \A q \in {"activate", "heartbeat", "deactivate"} : net'[q] = net[q]
      BY <1>4, <2>1, RequestNames
    <3> QED BY <1>4, <3>1, <3>2 DEF IInv, Answers, Granted
  <2>3. ExpiryNotOverrated'
    BY <1>4 DEF IInv, ExpiryNotOverrated
  <2>4. issued' \in issued .. MaxSessions
    BY <1>0, <1>4
  <2> QED BY <1>0, <1>3, <1>4, <2>2, <2>3, <2>4, ReplyKeeps
<1>5. CASE /\ r = "deactivate" /\ Reply(r, response)
           /\ sessions' = [sessions EXCEPT ![net[r].token] = 0]
           /\ UNCHANGED <<lifetime, issued>>
  <2>1. /\ net[r].token \in Token /\ state # "active"
        /\ IsSettled("heartbeat") /\ IsSettled("activate")
    BY <1>5, SentMeans
  <2>2. /\ net'[r].stage = "answered" /\ net'[r].token = net[r].token
        /\ \A q \in Request \ {r} : net'[q] = net[q]
    BY <1>3, <1>5, ReplyType DEF IInv
  <2>3. /\ sessions' \in [Token -> Nat] /\ sessions'[net[r].token] = 0
        /\ \A t \in Token : sessions'[t] <= lifetime
    BY <1>0, <1>5, <2>1 DEF IInv, Answers
  <2>4. /\ net'["heartbeat"].response = NoResponse /\ net'["activate"].response = NoResponse
    BY <1>5, <2>1, <2>2, RequestNames DEF IInv, Answers, IsSettled
  <2>5. \A q \in Request : net'[q].stage # "answered" => net'[q].response = NoResponse
    BY <2>2 DEF IInv, Answers
  <2>6. Answers'
    BY <1>5, <2>2, <2>3, <2>4, <2>5, NoResponseType DEF Answers, Granted
  <2>7. ExpiryNotOverrated' /\ issued' \in issued .. MaxSessions
    BY <1>0, <1>5, <2>1 DEF ExpiryNotOverrated
  <2> QED BY <1>3, <1>5, <2>3, <2>6, <2>7, ReplyKeeps
<1> QED BY <1>1, <1>2, <1>4, <1>5 DEF ServerAccepts

LEMMA ServerKeeps == ASSUME IInv, Server PROVE IInv'
BY ServerAcceptsKeeps, ServerRefusesKeeps DEF Server

LEMMA TickKeeps == ASSUME IInv, Tick PROVE IInv'
<1> USE DEF lifecycle, counters, fatality
<1>0. /\ lifetime \in Nat \ {0} /\ sessions \in [Token -> Nat] /\ expiresIn \in Nat
      /\ timer \in Nat \cup {NoTimer} /\ strikes \in Nat /\ throttles \in Nat
      /\ RequestTimeout \in Nat /\ net \in [Request -> Exchange]
  BY Config DEF IInv, TypeOK
<1>1. /\ event' = {} /\ expiresIn' = Larger(0, expiresIn - 1)
      /\ sessions' = [t \in Token |-> Larger(0, sessions[t] - 1)]
      /\ UNCHANGED <<lifecycle, token, interval, counters, fatality, lifetime, issued, held>>
  BY DEF Tick
<1>2. timer # 0 /\ timer' = IF timer = NoTimer THEN timer ELSE timer - 1
  BY DEF Tick
<1>3. ASSUME NEW r \in Request
      PROVE  /\ net'[r] \in Exchange /\ net'[r].stage = net[r].stage
             /\ net'[r].token = net[r].token /\ net'[r].response = net[r].response
             /\ net'[r].age = IF IsSettled(r) THEN net[r].age ELSE net[r].age + 1
             /\ net[r].age \in Nat
  <2>1. net[r] \in Exchange /\ (IsSettled(r) \/ net[r].age < RequestTimeout)
    BY <1>0 DEF Tick
  <2>2. net'[r] = IF IsSettled(r) THEN net[r] ELSE [net[r] EXCEPT !.age = @ + 1]
    BY DEF Tick
  <2> QED BY <1>0, <2>1, <2>2 DEF Exchange
<1>4. \A r \in Request : (IsSettled(r))' = IsSettled(r)
  BY <1>3 DEF IsSettled
<1>5. \A c \in Call : (IsSettled(c))' = IsSettled(c)
  BY <1>4, RequestNames
<1>6. /\ expiresIn' \in Nat /\ expiresIn' >= expiresIn - 1
      /\ expiresIn > 0 => expiresIn' = expiresIn - 1
      /\ expiresIn = 0 => expiresIn' = 0
  BY <1>0, <1>1 DEF Larger
<1>7. \A t \in Token : /\ sessions'[t] \in Nat /\ sessions'[t] >= sessions[t] - 1
                       /\ sessions'[t] <= sessions[t]
                       /\ expiresIn <= sessions[t] => expiresIn' <= sessions'[t]
  BY <1>0, <1>1 DEF Larger
<1>8. timer' \in Nat \cup {NoTimer} /\ (timer' = NoTimer <=> timer = NoTimer)
      /\ (timer # NoTimer => timer' = timer - 1)
  BY <1>0, <1>2 DEF NoTimer
<1>9. TypeOK'
  <2>1. net' \in [Request -> Exchange]
    <3>1. net' = [r \in Request |-> IF IsSettled(r) THEN net[r] ELSE [net[r] EXCEPT !.age = @ + 1]]
      BY DEF Tick
    <3> QED BY <1>3, <3>1
  <2>2. sessions' \in [Token -> Nat]
    BY <1>1, <1>7
  <2> QED BY <1>1, <1>6, <1>8, <2>1, <2>2 DEF IInv, TypeOK
<1>10. Lifecycle' /\ Overlap' /\ HeartbeatLoopRuns' /\ Fatality'
  BY <1>1, <1>4, <1>5, <1>8, RequestNames
  DEF IInv, Lifecycle, Overlap, HeartbeatLoopRuns, Fatality
<1>11. OneSession'
  BY <1>1, <1>3, <1>4, RequestNames DEF IInv, OneSession
<1>12. NoSessionLeft'
  BY <1>0, <1>1, <1>7 DEF IInv, NoSessionLeft, TypeOK
<1>13. ExpiryNotOverrated'
  <2>1. state = "active" => token \in Token
    BY DEF IInv, Lifecycle, TypeOK
  <2> QED BY <1>1, <1>7, <2>1 DEF IInv, ExpiryNotOverrated
<1>14. Answers'
  <2>1. ASSUME NEW r \in Request, Granted(r) PROVE Granted(r)'
    <3>1. CASE IsSettled(r)
      BY <1>3, <3>1, NoResponseType DEF Granted, IInv, Answers, IsSettled
    <3>2. CASE ~IsSettled(r)
      BY <1>0, <1>1, <1>3, <1>7, <2>1, <3>2 DEF Granted
    <3> QED BY <3>1, <3>2
  <2>2. Granted("activate")' /\ Granted("heartbeat")'
    BY <2>1, RequestNames DEF IInv, Answers
  <2>3. net'["deactivate"].response.kind = "ok" => sessions'[net'["deactivate"].token] = 0
    <3>1. SUFFICES ASSUME net["deactivate"].response.kind = "ok"
                   PROVE  sessions'[net["deactivate"].token] = 0
      BY <1>3, RequestNames
    <3>2. ~IsSettled("deactivate")
      BY <3>1, NoResponseType, RequestNames DEF IInv, Answers, IsSettled
    <3>3. net["deactivate"].token \in Token
      BY <3>2 DEF IInv, OneSession, TypeOK
    <3> QED BY <1>0, <1>7, <3>1, <3>3 DEF IInv, Answers
  <2>4. \A t \in Token : sessions'[t] <= lifetime
    BY <1>0, <1>7 DEF IInv, Answers
  <2> QED BY <1>1, <1>3, <2>2, <2>3, <2>4, RequestNames DEF IInv, Answers
<1>15. Room'
  <2>1. /\ Reserve \in Nat \ {0} /\ Reserve' = Reserve
        /\ (HasRoomForRetry(lifetime))' = HasRoomForRetry(lifetime)
    BY <1>0, <1>1, RenewalSafetyRange, Config
    DEF Reserve, HasRoomForRetry, FullRetryBudget, RenewalSafety
  <2>2. net["heartbeat"].age \in Nat /\ (IsSettled("heartbeat"))' = IsSettled("heartbeat")
        /\ (~IsSettled("heartbeat") => net'["heartbeat"].age = net["heartbeat"].age + 1)
    BY <1>3, <1>4, RequestNames
  <2> QED BY <1>0, <1>1, <1>2, <1>6, <1>8, <2>1, <2>2 DEF IInv, Room, NoTimer
<1> QED BY <1>9, <1>10, <1>11, <1>12, <1>13, <1>14, <1>15 DEF IInv

LEMMA StutterKeeps == ASSUME IInv, UNCHANGED vars PROVE IInv'
<1> USE DEF vars, lifecycle, session, counters, fatality, server
<1>1. TypeOK' /\ Lifecycle' /\ Overlap' /\ Fatality'
  BY DEF IInv, TypeOK, Lifecycle, Overlap, Fatality, IsSettled
<1>2. OneSession' /\ Answers' /\ HeartbeatLoopRuns' /\ NoSessionLeft' /\ ExpiryNotOverrated'
  BY DEF IInv, OneSession, Answers, Granted, HeartbeatLoopRuns, NoSessionLeft,
         ExpiryNotOverrated, IsSettled
<1>3. Room'
  BY DEF IInv, Room, Reserve, HasRoomForRetry, FullRetryBudget, RenewalSafety, IsSettled
<1> QED BY <1>1, <1>2, <1>3 DEF IInv

LEMMA NextKeeps == IInv /\ [Next]_vars => IInv'
BY ActivateKeeps, ActivateOnceKeeps, StartHeartbeatKeeps, RunHeartbeatKeeps, ConsumeKeeps,
   ConsumeOnceKeeps, DeactivateKeeps, FatalCleanupKeeps, DeactivateOnceKeeps, ServerKeeps,
   TickKeeps, StutterKeeps
DEF Next

-----------------------------------------------------------------------------
(* The theorems                                                            *)

(* The invariant holds in every state the client reaches.                  *)
THEOREM Invariance == Spec => []IInv
<1>1. Init => IInv
  BY InitIInv
<1>2. IInv /\ [Next]_vars => IInv'
  BY NextKeeps
<1> QED BY <1>1, <1>2, PTL DEF Spec

(* The client keeps its types: in particular no heartbeat interval is 0,   *)
(* and neither counter passes its limit by more than the step that ends    *)
(* the client.                                                             *)
THEOREM TypeCorrect == Spec => []TypeOK
<1>1. IInv => TypeOK
  BY DEF IInv
<1> QED BY <1>1, Invariance, PTL

(* The heartbeat loop neither dies nor doubles, whatever the server        *)
(* answers and whenever deactivate() comes (runHeartbeat,                  *)
(* scheduleHeartbeat, handleFatalError).                                   *)
THEOREM LoopRuns == Spec => []HeartbeatLoopRuns
<1>1. IInv => HeartbeatLoopRuns
  BY DEF IInv
<1> QED BY <1>1, Invariance, PTL

(* deactivateOnce sends its request after all others are over, for any     *)
(* number of usage calls.                                                  *)
THEOREM ReleaseComesLast == Spec => []ReleaseIsLast
<1>1. IInv => ReleaseIsLast
  <2>1. SUFFICES ASSUME IInv PROVE ReleaseIsLast
    OBVIOUS
  <2>2. ~IsSettled("deactivate") => \A r \in Request \ {"deactivate"} : IsSettled(r)
    BY <2>1, RequestNames DEF IInv, Overlap, Lifecycle
  <2>3. state = "deactivated" => \A r \in Request : IsSettled(r)
    BY <2>1, RequestNames DEF IInv, Overlap, Lifecycle
  <2> QED BY <2>2, <2>3 DEF ReleaseIsLast
<1> QED BY <1>1, Invariance, PTL

(* A released client leaves no session behind on the server, of however    *)
(* many the server issues (activateOnce, deactivateOnce).                  *)
THEOREM ReleaseLeavesNone == Spec => []NoSessionLeft
<1>1. IInv => NoSessionLeft
  BY DEF IInv
<1> QED BY <1>1, Invariance, PTL

(* The client's own expiry never outlasts the server's, for any lifetime   *)
(* and any delay of the answer within the timeout (sessionExpiresAt).      *)
THEOREM ExpiryIsSafe == Spec => []ExpiryNotOverrated
<1>1. IInv => ExpiryNotOverrated
  BY DEF IInv
<1> QED BY <1>1, Invariance, PTL

(* For every configuration and lifetime with room for two timed out        *)
(* requests, a heartbeat after at most one failure leaves while the        *)
(* session is alive (clampHeartbeatInterval,                               *)
(* clampRetryBeforeSessionExpiry).                                         *)
THEOREM SurvivesOneFailure == Spec => OneFailureIsSurvived
<1> DEFINE A == /\ IsSettled("heartbeat") /\ ~IsSettled("heartbeat")'
                /\ strikes + throttles <= 1
                /\ HasRoomForRetry(lifetime)
                => expiresIn > 0
<1>1. IInv /\ [Next]_vars => [A]_vars
  <2>1. SUFFICES ASSUME IInv, Next, IsSettled("heartbeat"), ~IsSettled("heartbeat")',
                        strikes + throttles <= 1, HasRoomForRetry(lifetime)
                 PROVE  expiresIn > 0
    OBVIOUS
  <2>2. timer = 0 /\ state = "active"
    <3>1. CASE StartHeartbeat
      BY <2>1, <3>1 DEF StartHeartbeat, IInv, HeartbeatLoopRuns, NoTimer
    <3>2. ASSUME net'["heartbeat"] = net["heartbeat"] PROVE FALSE
      BY <2>1, <3>2 DEF IsSettled
    <3>3. ASSUME NEW r \in Request, r # "heartbeat",
                 \/ \E t \in Token \cup {NoToken} : Send(r, t)
                 \/ Settle(r)
          PROVE  FALSE
      BY <2>1, <3>2, <3>3, SendType, SettleType, RequestNames DEF IInv
    <3>4. CASE Activate
      BY <3>3, <3>4, RequestNames DEF Activate
    <3>5. CASE ActivateOnce
      BY <3>3, <3>5, RequestNames DEF ActivateOnce
    <3>6. CASE RunHeartbeat
      BY <2>1, <3>6 DEF RunHeartbeat, Settle
    <3>7. ASSUME NEW c \in Call, Consume(c) \/ ConsumeOnce(c) PROVE FALSE
      BY <2>1, <3>3, <3>7, RequestNames DEF Consume, ConsumeOnce, IInv, TypeOK
    <3>8. CASE Deactivate \/ FatalCleanup
      BY <3>2, <3>8 DEF Deactivate, FatalCleanup
    <3>9. CASE DeactivateOnce
      <4>1. net' = net \/ Send("deactivate", token) \/ Settle("deactivate")
        BY <3>9 DEF DeactivateOnce, AwaitUsage
      <4> QED BY <2>1, <3>2, <3>3, <4>1, RequestNames DEF IInv, TypeOK
    <3>10. CASE Server
      <4>1. PICK r \in Request : net[r].stage = "sent" /\ \E response : Reply(r, response)
        BY <3>10 DEF Server, ServerAccepts, ServerRefuses, Grant
      <4>2. r # "heartbeat"
        BY <2>1, <4>1 DEF IsSettled
      <4> QED BY <2>1, <3>2, <4>1, <4>2, RequestNames DEF Reply, IInv, TypeOK
    <3>11. CASE Tick
      BY <2>1, <3>2, <3>11, RequestNames DEF Tick
    <3> QED BY <2>1, <3>1, <3>4, <3>5, <3>6, <3>7, <3>8, <3>9, <3>10, <3>11 DEF Next
  <2>3. lifetime \in Nat \ {0} /\ strikes \in Nat /\ throttles \in Nat /\ expiresIn \in Nat
    BY <2>1, Config DEF IInv, TypeOK
  <2> QED BY <2>1, <2>2, <2>3, RenewalSafetyRange, Config DEF IInv, Room, Reserve, NoTimer
<1> QED BY <1>1, Invariance, PTL DEF Spec, OneFailureIsSurvived
=============================================================================
