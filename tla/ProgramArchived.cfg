SPECIFICATION SerialSpec
CONSTANTS
    s1 = s1
    s2 = s2
    m1 = m1
    m2 = m2
    NoSession = NoSession
    Sessions <- MCOneSession
    Milestones <- MCTwoMilestones
    Thresholds <- MCThresholds
    Amounts = {0, 1, 3}
    MaxOpen = 2
PROPERTY
    ArchivedIsTerminal
