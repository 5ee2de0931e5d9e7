SPECIFICATION FairSpec
CONSTANTS
    Docs = {drawer, popup}
    Questions = {q}
    Requests = {s1, s2}
    ToolUses = {a, b}
    MaxTurns = 2
    None = None
INVARIANTS
    ToolCallsAnswered
    Converged
    AnswersAreSeparate
PROPERTIES
    EverySendSettles
CHECK_DEADLOCK FALSE
