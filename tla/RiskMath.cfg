SPECIFICATION MathSpec
CONSTANTS
  MaxQty = 3
  MaxFills = 4
  Quote = {1, 2, 4}
  QtyMultiple = 6
CHECK_DEADLOCK FALSE
INVARIANTS
  PnlIsCash
  EntryAmongPaid
