SPECIFICATION MixedSpec
CONSTANTS
    s1 = s1
    s2 = s2
    NoSession = NoSession
    Sessions <- MCSessions
    DayLength = 3
    MaxClock = 6
    MaxBatch = 2
SYMMETRY MCSymmetry
INVARIANT SignedDayVerifies
