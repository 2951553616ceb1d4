SPECIFICATION FairSpec
CONSTANTS
  Commits = {1, 2}
  Older <- MCOlder
  NoCommit = 0
  Local = 9
  First = 1
  Ahead = 2
  MaxTag = 2
  HistoryLength = 2
  AttemptedLength = 1
  Most <- MCMost
  MostInAll = 4
INVARIANTS ServesDeployed VersionsCanBeGoneBackTo
PROPERTIES AutomaticKeepsToItsRules HandMadeStays OperationsEnd
