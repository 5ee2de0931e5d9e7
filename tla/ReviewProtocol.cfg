SPECIFICATION FairSpec
CONSTANTS
    Runners = {r1, r2}
    Tags = {codex, kiro}
    Independent = {codex}
    Kiro = {kiro}
    Retries = 2
    HistoryLimit = 1
    Chairs = 2
    FastFail = TRUE
    MaxPlans = 2
    MaxLaunches = 2
    None = None
INVARIANTS
    PassNeedsEveryRole
    TerminalIsFinal
PROPERTIES
    ValidResultStays
    EndsInVerdict
CHECK_DEADLOCK FALSE
