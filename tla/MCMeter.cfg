CONSTANTS
    h1 = h1  h2 = h2  h3 = h3
    m1 = m1  m2 = m2
    e1 = e1  e2 = e2
    nobody = nobody  noEvent = noEvent
    Handler = {h1, h2}
    Nobody = nobody
    Meter = {m1, m2}
    EventId = {e1}
    NoEvent = noEvent
    MaxBalance = 2
    Units = {1, 2}
    Deltas <- MCDeltas
    MaxEntries = 4
    Faults = TRUE
SPECIFICATION Spec
SYMMETRY MCSymmetry
INVARIANTS TypeOK LedgerExplainsBalance AnswersRecorded MeteredKeepsMeter
PROPERTIES ImplementsAccount
CHECK_DEADLOCK FALSE
