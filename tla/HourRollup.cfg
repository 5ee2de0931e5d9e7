SPECIFICATION FairSpec
CONSTANTS
    Invocations = {i1, i2}
    Keys = {k1}
    Values = {v1}
    HourLen = 2
    Timeout = 1
    Grace = 1
    Lookback = 2
    MaxPerCycle = 1
    RawTTL = 4
    MaxTime = 4
    None = None
INVARIANTS MarkedHourExact
PROPERTIES NoLateRow ImplementsLedger BacklogCloses
