SPECIFICATION FairFeedSpec
CONSTANTS
  Threshold = 5
  Operator = TRUE
  PowerLosses = TRUE
INVARIANTS
  FeedTypeOK
  WatchdogOwnsSwitch
  SilenceShutsGate
PROPERTIES
  OnlyMessageLifts
  HealthyDeskTrades
