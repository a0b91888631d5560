SPECIFICATION Spec
CONSTANTS
    m1 = m1  m2 = m2
    d1 = d1  d2 = d2
    Messages = {m1, m2}
    Drains = {d1, d2}
    RetryLimit = 1
    MaxPending = 2
    MaxCrashes = 0
    MaxFaults = 0
SYMMETRY Symmetry
INVARIANTS
    AcceptedIsKept
CHECK_DEADLOCK FALSE
