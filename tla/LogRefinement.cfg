SPECIFICATION RefSpec
CONSTANTS
  Event = {e1, e2}
  MaxSlots = 4
  InitialCapacity = 1
  GrowthFactor = 2
  EarlyWriteback = TRUE
INVARIANTS
  ClaimedIsDurable
  AppendedSurvivesKill
  UnreadableClaimsNothing
  LogInv
  ScanFindsOnlyAppended
PROPERTIES
  CommittedNeverChanges
  ImplementsEventLog
