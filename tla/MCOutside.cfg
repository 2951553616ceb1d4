CONSTANTS
  Deliveries = {d1}
  Checkers = {c1, c2}
  MaxPushes = 1
  MaxSecrets = 2
  MaxKills = 1
  Repos = {r1, r2}
  Lookers = {l1, l2}
  Every = 2
  AfterFault = 1
  MaxUpsets = 2
SPECIFICATION OutsideSpec
INVARIANTS
  SecretIsTheOwners
  PushesAreLookedAt
PROPERTIES
  WebhooksSettle
  RepositoriesAreWatched
