CONSTANTS
  web = web  db = db  cache = cache  shop = shop  blog = blog
  HeldApps = {shop, blog}
  Containers = {web, db, cache}
  OwnerOf <- MCOwnerOf
  CallsThatFail = {"stop", "stopped", "start", "note", "forget", "read"}
  MaxKills = 0
  Parts = {"schedules"}
  Day = 2
  Week = 1
  Keys = {k1}
  Ticks = {t1}
  Hands = {h1}
  Settings <- MCOneSetting
  HandKeeps = {1}
  Faults = {"copy"}
  MaxClock = 5
  MaxCrashes = 0
  MaxSaves = 0
SPECIFICATION BackupsSpec
PROPERTIES
  GoodIsNotDroppedForBroken
