SPECIFICATION ReadSpec
CONSTANTS
    HourLen = 12
    Switch = 36
    MaxBuckets = 288
    DefaultBuckets = 12
    Lag = 3
    RawTTL = 2016
    RollupTTL = 4320
    Starts = {4320}
    MaxTime = 4332
    MaxAsked = 289
    Giga = 10
    Billed <- MCBilled
    ClusterOf <- MCClusterOf
    SavingsLimit = 2
    MaxLinks = 1
    MaxChildren = 1
    RetransRate = 10
    TimeoutRate = 5
    Sigma = 3
    MinDelta <- MCMinDelta
    RateDanger = 10
    RateWarn = 5
    TopN = 2
    HourOfDay <- MCHourOfDay
    Now = 9
    MaxRows = 2
    ToolBuckets = 288
    Rows <- MCRows
    MaxCurrent = 4
    MaxPrior = 1
    Lookups <- MCLookups
    FlowIps = {1, 2}
    MaxDomains = 2
    MaxLookups = 4
    None = None
    Things = {1, 2}
    Pages = {"overview", "agents", "alerts", "anomalies", "cost", "insights", "monitors", "monitor", "network", "workload", "search", "paths", "flows", "settings", "chat"}
    NBuckets = 2
    MaxRecents = 2
    MaxSlot = 3
    MaxChosen = 3
    MaxVisits = 1
INVARIANTS
    PlansTile
    HourlyPartsHaveLanded
    AccountsAgree
    JudgementsHold
    PagesShowTheirAnswers
CHECK_DEADLOCK FALSE
