SPECIFICATION FairRepSpec
CONSTANTS
  b1 = b1
  b2 = b2
  i1 = i1
  Book = {b1, b2}
  Roster = {b1}
  Instrument = {i1}
  SeedLimit = 10
  Price = {1}
  Event <- GrownRosterEvents
  MaxSlots = 4
  InitialCapacity = 1
  GrowthFactor = 2
  EarlyWriteback = FALSE
  Builds = {"recovered", "fresh"}
  MaxFailures = 1
INVARIANTS
  NeverAhead
  TailIsFold
PROPERTIES
  TailCatchesUp
