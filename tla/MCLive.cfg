CONSTANTS
  r1 = r1
  r2 = r2
  line = line
  event = event
  Readers <- MCReaders
  Kinds <- MCKinds
  Wants <- MCWants
  QueueSize = 2
  MaxMessages = 3
  Retention = 1
  MaxLines = 2
  MaxDay = 2
  MaxRuns = 2
  Mishaps = {"fault", "miss", "kill"}
  MaxMishaps = 1
  Files = {1, 2}
  Limit = 2
  HoldBack = 1
  MaxNow = 3
  MaxPrinted = 2
  EventLimit = 1
  MaxEvents = 2
  c1 = c1
  c2 = c2
  a1 = a1
  Containers <- MCContainers
  Projects <- MCProjects
  ProjectOf <- MCProjectOf
  WatchWindow = 2
  StopGrace = 0
  RestartsForALoop = 1
  MaxUnread = 1
  Troubles = {"die", "kill", "sick", "hold", "break"}
  MaxTroubles = 3
  TicksPerMinute = 2
  MissedTicks = 2
  MaxGap = 3
  AlertQueue = 2
  MaxIncidents = 3
SPECIFICATION MCSpec
CHECK_DEADLOCK FALSE
INVARIANTS
  PagesShowAll
  LastWordIsTrue
PROPERTIES
  StreamIsTold
  FilesAreTheLog
  AlertsAreTrue
  AlertOutlivesGaps
