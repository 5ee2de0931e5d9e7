SPECIFICATION MCSpec
CONSTANTS
    Tabs = {t1, t2}
    Logins = {l1, l2, l3}
    MaxVisits = 3
    MaxExpiries = 1
    None = None
    Viewer = t1
    Urls = {u1, u2}
    MaxFetches = 2
    Cycles <- MCCycles
    MaxEdges = 2
    RetryAttempts = 1
    BatchSize = 2
    MaxCycles = 2
    MaxDropped = 1
    MaxEvents = 2
    Today = 2
    Week = 1
    Monitors = {m1, m2}
    BadFilter = BadFilter
    Null = Null
    Limit = 2
    PageRows = 2
    MaxRuns = 1
    MaxEdits = 1
INVARIANTS
    SomebodyGetsIn
    LoadingHasFetch
    NothingVanishes
    ResultIsOfItsRange
PROPERTIES
    NoForeignData
    WaitsEnd
CHECK_DEADLOCK FALSE
