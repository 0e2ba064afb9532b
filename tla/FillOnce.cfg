SPECIFICATION FairFillSpec
CONSTANTS
  Event <- AnyFill
  MaxTrades = 3
  MaxTime = 3
  Slack = 1
  MinAge = 1
  MaxDelay = 2
  Reach = 2
  BusDrops = TRUE
  PowerLosses = TRUE
  Patches = TRUE
  PreHistory = TRUE
INVARIANTS
  OncePerTrade
  SeenCoversLog
  ForwardOnly
PROPERTIES
  MissedIsAdopted
