CONSTANTS
  Requests = {r1}
  MaxTasks = 2
  MaxTurns = 3
  MaxQueue = 1
  MaxResumes = 1
  IdWidth = 80
  Outcomes <- MCOutcomes
SPECIFICATION PlanSpec
INVARIANTS PlanMatchesTask HandoffsArrive
CHECK_DEADLOCK FALSE
