SPECIFICATION RecSpec
CONSTANTS
  b1 = b1
  b2 = b2
  i1 = i1
  Book = {b1, b2}
  Instrument = {i1}
  SeedLimit = 10
  Price = {1, 2}
  Event <- RecordedEvents
  KeepLast = 1
  MaxLog = 4
  MaxLosses = 0
  Worlds <- GrowingRoster
INVARIANTS
  StartSucceeds
