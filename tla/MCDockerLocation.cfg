SPECIFICATION FairSpec
CONSTANTS
  MaxMoves = 2
  MaxCuts = 2
  MaxFaults = 1
  MaxAbsent = 1
CHECK_DEADLOCK FALSE
INVARIANTS
  DataSurvives
  RunsOnTheData
PROPERTIES
  DockerComesBack
