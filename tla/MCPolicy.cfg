CONSTANTS
    r1 = r1  r2 = r2
    t1 = t1  t2 = t2  t3 = t3
    o1 = o1  o2 = o2
    nobody = nobody
    Request = {r1}
    Operator = {o1}
    Token = {t1, t2}
    Nobody = nobody
    Ip = {"ip1"}
    DeviceId = {"d1"}
    SessionTtl = 2
    LicenseType = {"lifetime", "subscription", "trial", "metered"}
    Limits <- SessionLimits
    Horizon = 1
    MaxRevision = 1
    EditAllowlists = TRUE
    StripeLinked = TRUE
    Faults = {"redis", "crash"}
SPECIFICATION Spec
SYMMETRY Symmetry
PROPERTIES ValidSessionsStay
CHECK_DEADLOCK FALSE
