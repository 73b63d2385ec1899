CONSTANTS
    r1 = r1  r2 = r2
    t1 = t1  t2 = t2  t3 = t3
    o1 = o1  o2 = o2
    nobody = nobody
    Request = {r1, r2}
    Operator = {o1}
    Token = {t1, t2}
    Nobody = nobody
    Ip = {"ip1"}
    DeviceId = {"d1"}
    SessionTtl = 1
    LicenseType = {"lifetime"}
    Limits <- OneSession
    Horizon = 1
    MaxRevision = 1
    EditAllowlists = FALSE
    StripeLinked = FALSE
    Faults = {"redis", "database"}
SPECIFICATION FairSpec
PROPERTIES RequestsEnd OrphansExpire
CHECK_DEADLOCK FALSE
