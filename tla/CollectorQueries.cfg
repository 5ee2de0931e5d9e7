SPECIFICATION Invocation
CONSTANTS
    Jobs = {j1, j2, j3}
    Workers = {w1, w2}
    Retries = 1
    PollMax = 2
    MaxPages = 2
    Groups = 2
    RecordCap = 2
    MaxRecords = 2
    None = None
INVARIANTS StatsAddUp OnlyRejectedLeftRunning
PROPERTIES InvocationEnds
CHECK_DEADLOCK FALSE
