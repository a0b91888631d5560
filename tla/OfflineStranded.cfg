SPECIFICATION CalmSpec
CONSTANTS
    m1 = m1  m2 = m2
    d1 = d1  d2 = d2
    Messages = {m1, m2}
    Drains = {d1}
    RetryLimit = 3
    MaxPending = 1
    MaxCrashes = 2
    MaxFaults = 0
PROPERTIES
    SentWhenOnline
