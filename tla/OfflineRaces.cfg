SPECIFICATION Spec
CONSTANTS
    m1 = m1  m2 = m2
    d1 = d1  d2 = d2
    Messages = {m1, m2}
    Drains = {d1, d2}
    RetryLimit = 1
    MaxPending = 2
    MaxCrashes = 1
    MaxFaults = 1
SYMMETRY Symmetry
INVARIANTS
    TypeOK
    LossNeedsOverlap
CHECK_DEADLOCK FALSE
