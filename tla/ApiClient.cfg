SPECIFICATION Spec
CONSTANTS
    t1 = t1
    r1 = r1  r2 = r2
    m1 = m1
    viewPii = viewPii  exportData = exportData
    None = None
    Tabs = {t1}
    Requests = {r1, r2}
    Mints = {m1}
    TabOf <- MCTabOf
    ActionOf <- MCActionOf
    MaxPairs = 2
INVARIANTS
    TypeOK
    RefreshHasOwner
PROPERTIES
    FreshTokenPerRefresh
    EveryCallSettles
CHECK_DEADLOCK FALSE
