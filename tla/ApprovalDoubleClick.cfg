CONSTANTS
  Requests = {r1, r2}
  None = None
  MaxRuns = 1
  MaxApprovals = 2
  Kinds = {"plain"}
  MayFail = FALSE
SPECIFICATION Spec
INVARIANT ToolRunsOnce
CHECK_DEADLOCK FALSE
