SPECIFICATION Spec
CONSTANTS
    s1 = s1
    s2 = s2
    NoSession = NoSession
    Sessions <- MCSessions
    DayLength = 3
    MaxClock = 5
    MaxBatch = 2
SYMMETRY MCSymmetry
INVARIANTS
    TypeOK
    LockedRowsAreNewer
PROPERTIES
    NoForkAcrossTransactions
    CommitsInOrder
