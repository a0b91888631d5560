SPECIFICATION CleanSpec
CONSTANTS
    s1 = s1
    s2 = s2
    NoSession = NoSession
    Sessions <- MCSessions
    DayLength = 4
    MaxClock = 8
    MaxBatch = 2
SYMMETRY MCSymmetry
INVARIANTS
    TypeOK
    LockedRowsAreNewer
    SignedDayVerifies
PROPERTIES
    NoForkAcrossTransactions
    CommitsInOrder
