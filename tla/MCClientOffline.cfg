CONSTANTS
    c1 = c1
    Call = {c1}
    RequestTimeout = 1
    RequestedHeartbeatInterval = 30
    MaxRetries = 2
    Second = 1
    MaxTimer = 60
    Ttl = {6}
    RetryAfter = {2}
    Code = {"SESSION_INVALID_OR_EXPIRED", "LICENSE_REVOKED"}
    Trouble = {"malformed", "throttled", "unavailable"}
    MaxSessions = 1
SPECIFICATION FairSpec
PROPERTIES OfflineMeansFailures
