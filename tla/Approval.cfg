CONSTANTS
  Requests = {r1, r2}
  None = None
  MaxRuns = 2
  MaxApprovals = 4
  Kinds = {"plain", "sdk", "commits"}
  MayFail = TRUE
SPECIFICATION MCSpec
INVARIANTS PendingIsDecidable DecisionMatchesRun SerialToolRunsOnce SerialRejectedMeansNotRun
PROPERTIES RequestEnds SerialDecisionFinal
CHECK_DEADLOCK FALSE
