CONSTANTS
  m1 = m1
  m2 = m2
  u1 = u1
  u2 = u2
  Places = {m1, m2}
  FilePlaces = {}
  AppMounts <- MCAppMounts
  BoxMounts <- MCBoxMounts
  Written = {m2}
  Lacking = {{m1}}
  BoxUnits <- MCBoxUnits
  Containers_ = c
  Stamps = {s1}
  Jobs = {w1, w2}
  Later = later
  Absent = Absent
  Nobody = Nobody
  MaxHits = 1
  Day = 3
  Week = 4
  MaxSleep = 13
  Weeks = 4
  app = app  other = other
  nightly = nightly  weekly = weekly  click = click
  Backup = Backup  Check = Check  Deploy = Deploy  Update = Update
  Free = Free
  Patience = 1
  Apps <- MCApps
  Kinds = {Backup, Check, Deploy, Update}
  Handles <- MCHandles
  Backups = {nightly, weekly}
  GitApps = {app}
  Clicks = {click}
  AppOf <- MCAppOf
  Destinations = {d1}
  Parts = {"copies"}
SPECIFICATION MCSpec
CHECK_DEADLOCK FALSE
INVARIANT NothingWrittenElsewhere
