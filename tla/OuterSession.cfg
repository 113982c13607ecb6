CONSTANTS
  Requests = {r1, r2}
  MaxTasks = 3
  MaxTurns = 2
  MaxQueue = 1
  MaxResumes = 1
  IdWidth = 80
SPECIFICATION MCSpec
SYMMETRY RequestSymmetry
INVARIANTS  SerialRowsAgree
CHECK_DEADLOCK FALSE
