SPECIFICATION Spec
CONSTANTS
    s1 = s1
    s2 = s2
    m1 = m1
    m2 = m2
    NoSession = NoSession
    Sessions <- MCSessions
    Milestones <- MCMilestones
    Thresholds <- MCAnyIncrease
    Amounts = {1}
    MaxOpen = 1
SYMMETRY MCSymmetry
INVARIANTS
    TypeOK
    PastDesignWasActivated
    ClosedHasClosure
    SessionInv
