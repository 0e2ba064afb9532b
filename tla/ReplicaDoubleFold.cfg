SPECIFICATION RepSpec
CONSTANTS
  b1 = b1
  b2 = b2
  i1 = i1
  Book = {b1}
  Roster = {b1}
  Instrument = {i1}
  SeedLimit = 10
  Price = {1}
  Event <- OneEvent
  MaxSlots = 2
  InitialCapacity = 1
  GrowthFactor = 2
  EarlyWriteback = FALSE
  Builds = {"recovered"}
  MaxFailures = 2
INVARIANTS
  CaughtUpAgrees
