SPECIFICATION RecSpec
CONSTANTS
  b1 = b1
  b2 = b2
  i1 = i1
  Book = {b1, b2}
  Instrument = {i1}
  SeedLimit = 10
  Price = {1, 2}
  Event <- RecordedEvents
  KeepLast = 2
  MaxLog = 3
  MaxLosses = 1
  Worlds <- AllWorlds
SYMMETRY BookSymmetry
INVARIANTS
  PositionsAreFold
  StateIsFold
  TradedBooksKept
  SnapshotsArePrefixes
