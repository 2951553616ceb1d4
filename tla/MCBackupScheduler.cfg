CONSTANTS
  web = web  db = db  cache = cache  shop = shop  blog = blog
  HeldApps = {shop, blog}
  Containers = {web, db, cache}
  OwnerOf <- MCOwnerOf
  CallsThatFail = {"stop", "stopped", "start", "note", "forget", "read"}
  MaxKills = 2
  Parts = {"schedules", "hold"}
  Day = 2
  Week = 1
  Keys = {k1}
  Ticks = {t1, t2}
  Hands = {h1}
  Settings <- MCSettings
  HandKeeps = {1}
  Faults = {"copy", "purge"}
  MaxClock = 4
  MaxCrashes = 1
  MaxSaves = 1
SPECIFICATION BackupsSpec
INVARIANTS
  OwedIsNoted
PROPERTIES
  OwnerSaveStands
  SlotRunsOnce
  NewestStay
  DueIsRun
  ComesBack
