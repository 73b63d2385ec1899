CONSTANTS
    w1 = w1  w2 = w2  o1 = o1  o2 = o2  nobody = nobody
    l1 = l1  l2 = l2  s1 = s1  s2 = s2
    Nobody = nobody
    Worker = {}
    Operator = {o1, o2}
    License = {l1}
    Subscription = {s1}
    MaxChanges = 1
    BatchSize = 2
    Lease = 1
    BaseDelay = 1
    MaxDelay = 2
    MaxFailures = 0
    Operations = {"link", "sync", "unlink", "update", "delete"}
SPECIFICATION Spec
SYMMETRY MCSymmetry
PROPERTIES LinkEndsOnRequest
CHECK_DEADLOCK FALSE
