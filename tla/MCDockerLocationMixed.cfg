SPECIFICATION Spec
CONSTANTS
  MaxMoves = 2
  MaxCuts = 1
  MaxFaults = 2
  MaxAbsent = 0
CHECK_DEADLOCK FALSE
INVARIANT DataSurvivesEvery
