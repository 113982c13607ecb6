CONSTANTS
  TicksPerUnit = 4
  MaxTick = 13
  MaxSaves = 6
SPECIFICATION StoreSpec
INVARIANTS ResumesAtCurrentStep
CHECK_DEADLOCK FALSE
