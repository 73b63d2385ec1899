CONSTANTS
    w1 = w1  w2 = w2  o1 = o1  o2 = o2  nobody = nobody
    l1 = l1  l2 = l2  s1 = s1  s2 = s2
    Nobody = nobody
    Worker = {w1, w2}
    Operator = {o1}
    License = {l1}
    Subscription = {s1}
    MaxChanges = 2
    BatchSize = 1
    Lease = 1
    BaseDelay = 1
    MaxDelay = 1
    MaxFailures = 1
    Operations = {"link", "unlink"}
SPECIFICATION FairSpec
INVARIANTS TypeOK NoChangeLost
PROPERTIES LinkNeverGoesBack Converges
CHECK_DEADLOCK FALSE
