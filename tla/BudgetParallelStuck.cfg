SPECIFICATION SerialSpec
CONSTANTS
    s1 = s1
    s2 = s2
    s3 = s3
    p1 = p1
    p2 = p2
    p3 = p3
    Idle = Idle
    Sessions <- MCTwoSessions
    Steps <- MCSteps
    Number <- MCParallel
    Parallel = {1}
CHECK_DEADLOCK FALSE
INVARIANT NothingLeftPending
