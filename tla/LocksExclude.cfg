SPECIFICATION Spec
CONSTANTS
    s1 = s1
    s2 = s2
    s3 = s3
    None = None
    Sessions <- MCSessions
    SkipAudit <- MCImports
    Rows = {1, 2}
    MaxFlushes <- MCFlushes
INVARIANTS
    TypeOK
    OneWriter
    DeadlockNeedsLateRow
PROPERTY EveryFlushEnds
