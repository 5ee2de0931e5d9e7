SPECIFICATION Spec
CONSTANTS
  Clusters = {c1, c2}
  MaxRequests = 3
  Invocations = 2
  None = None
  Attempts = 2
  MaxEdits = 1
  Operators = {o1, o2}
  Targets = {t1, t2}
  MaxGateways = 3
  MaxRuns = 3
  Askers = {1, 2}
  ToolNames = {1, 2, 3, 4}
  Candidates <- MCCandidates
  ToolPage = 2
  ToolLife = 2
  MaxToolTime = 3
  NoAnswer = NoAnswer
INVARIANTS Reversible SuccessIsWhole ToolsAreReached
SYMMETRY Symmetry
CHECK_DEADLOCK FALSE
