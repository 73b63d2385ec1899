CONSTANTS
    r1 = r1  r2 = r2
    t1 = t1  t2 = t2  t3 = t3
    o1 = o1  o2 = o2
    nobody = nobody
    Request = {r1, r2}
    Operator = {o1}
    Token = {t1, t2}
    Nobody = nobody
    Ip = {"ip1", "ip2"}
    DeviceId = {"d1"}
    SessionTtl = 2
    LicenseType = {"lifetime"}
    Limits <- AllLimits
    Horizon = 1
    MaxRevision = 2
    EditAllowlists = FALSE
    StripeLinked = FALSE
    Faults = {"redis", "database"}
SPECIFICATION Spec
SYMMETRY Symmetry
INVARIANTS TypeOK SetCoversSessions SessionsHoldSlots
PROPERTIES ImplementsSessions TerminatedNeverAccepted AdmissionIsCurrent StaleNeverCounts CleanupSparesCurrent RegistrationLimits
CHECK_DEADLOCK FALSE
