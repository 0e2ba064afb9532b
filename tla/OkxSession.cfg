SPECIFICATION FairOkxSpec
CONSTANTS
  b1 = b1
  b2 = b2
  Book = {b1, b2}
  Configs <- AllConfigs
  MaxExponent = 1
  MaxTrouble = 3
  OrderSize = 1
  MaxOrders = 2
  MaxRestarts = 1
INVARIANTS
  OkxTypeOK
  HandshakeInOrder
  RaisesOnlyAfterStreak
  FillOfItsBook
  FillOfItsOrder
PROPERTIES
  ServedInTheEnd
CHECK_DEADLOCK FALSE
