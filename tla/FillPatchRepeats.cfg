SPECIFICATION FillSpec
CONSTANTS
  Event <- AnyFill
  MaxTrades = 3
  MaxTime = 4
  Slack = 2
  MinAge = 1
  MaxDelay = 2
  Reach = 3
  BusDrops = FALSE
  PowerLosses = FALSE
  Patches = TRUE
  PreHistory = FALSE
INVARIANTS
  NeverOvercounts
