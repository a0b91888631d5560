SPECIFICATION Spec
CONSTANTS
    s1 = s1
    s2 = s2
    s3 = s3
    None = None
    Sessions <- MCTwoSessions
    SkipAudit <- MCNoImports
    Rows = {1, 2}
    MaxFlushes <- MCFlushes
INVARIANT WritesNeverFail
