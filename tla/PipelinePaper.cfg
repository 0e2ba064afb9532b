SPECIFICATION PipeSpec
CONSTANTS
  b1 = b1
  b2 = b2
  i1 = i1
  Instrument = {i1}
  Book = {b1, b2}
  SeedLimit = 6
  Strategies <- TwoStrategies
  Price = {1, 2}
  OrderQty = 1
  Band = 1
  ManualQty <- BuyOrSellTwo
  PositionLimit = 3
  DrawdownLimit = 3
  MaxOrderSize = 2
  MaxQueue = 3
  MaxEvents = 11
  Kills = TRUE
INVARIANTS
  QueueStaysShort
  StrategyTracksBook
PROPERTIES
  FillsWithinLimits
