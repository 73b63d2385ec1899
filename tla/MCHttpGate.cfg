CONSTANTS
    c1 = c1  c2 = c2  p1 = p1  p2 = p2  s1 = s1  s2 = s2
    r1 = r1  r2 = r2  t1 = t1   junk = junk  absent = absent
    Window = 4
    Second = 2
    Client = {c1, c2}
    Proxy = {p1, p2}
    Junk = junk
    Absent = absent
    MaxChain = 3
    MaxForged = 2
    MaxRoute = 2
    Process = {s1, s2}
    Request = {r1, r2}
    ProcessOf <- TwoProcesses
    Offset <- SkewedClocks
    MaxOffset = 1
    Followed = {c1}
    Principal = {t1}
    Scope = {"heartbeat", "usage"}
    Limit <- SmallLimits
    MaxDelay = 1
    MaxTime = 4
    MaxRequests = 3
    MaxFaults = 1
SPECIFICATION Spec
INVARIANTS TypeOK BudgetHeld BudgetNotStolen
PROPERTIES RefusalsEarned RetryAfterSuffices
CHECK_DEADLOCK FALSE
SYMMETRY Symmetry
CONSTRAINT Unfinished
