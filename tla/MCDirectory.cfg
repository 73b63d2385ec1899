CONSTANTS
    o1 = o1  o2 = o2  k1 = k1  c1 = c1  c2 = c2  l1 = l1  l2 = l2  l3 = l3
    t1 = t1  t2 = t2
    a1 = a1  a2 = a2  none = none
    Retention = 1
    Minute = 2
    None = none
    Operator = {o1, o2}
    Client = {k1}
    CustomerId = {c1, c2}
    LicenseId = {l1, l2, l3}
    Token = {t1, t2}
    Spelling <- Spellings
    NormalForm <- LowerCase
    Entry = {a1, a2}
    Mixes <- Interactions
    FirstCustomer = c1
    FirstLicense = l1
    FirstEmail = "ann@x.io"
    MaxTime = 2
    MaxOperations = 4
    MaxFaults = 2
SPECIFICATION Spec
SYMMETRY Symmetry
INVARIANTS TypeOK SessionsEnd DeletionsAudited LogComplete
PROPERTIES RestrictionWarned
CHECK_DEADLOCK FALSE
