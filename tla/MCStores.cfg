CONSTANTS
  u1 = u1
  u2 = u2
  cat1 = cat1
  cat2 = cat2
  Urls = {u1, u2}
  Catalogues = {cat1, cat2}
  Mirrored <- MCMirrored
  None = None
  NotAStore = NotAStore
  Cron = Cron
  Hand = Hand
  MaxUpsets = 3
  app1 = app1
  app2 = app2
  web = web
  db = db
  Apps = {app1, app2}
  Files <- MCFiles
  Floating <- MCFloating
  NoEntry = NoEntry
  FirstFile <- MCFirstFile
  NotInstalled = NotInstalled
  NoTag = NoTag
  NoService = NoService
  Blacklisted = {}
  MaxTurns = 2
SPECIFICATION MCSpec
INVARIANTS
  BadgeIsTheButton
PROPERTIES
  StoreKeepsACatalogue
  UpdateGoesForward
  RunAnswersForEach
