SPECIFICATION Spec
CONSTANTS
  MaxAtOnce = 2
  Images = {0, 1}
  MaxEdits = 3
  MaxCalls = 2
  MaxKills = 1
  Faults <- MCFaults
CHECK_DEADLOCK FALSE
INVARIANTS
  DiskIsWhatRunsAlways
