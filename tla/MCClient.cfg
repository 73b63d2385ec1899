CONSTANTS
    c1 = c1
    Call = {c1}
    RequestTimeout = 3
    RequestedHeartbeatInterval = 30
    MaxRetries = 2
    Second = 2
    MaxTimer = 60
    Ttl = {2, 20}
    RetryAfter = {5}
    Code = {"SESSION_INVALID_OR_EXPIRED", "LICENSE_REVOKED"}
    Trouble = {"throttled", "unavailable"}
    MaxSessions = 1
SPECIFICATION FairSpec
INVARIANTS TypeOK HeartbeatLoopRuns ReleaseIsLast NoSessionLeft ExpiryNotOverrated
PROPERTIES DeactivationEnds RefreshedOrEnded OneFailureIsSurvived
