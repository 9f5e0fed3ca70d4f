SPECIFICATION FairSpec
CONSTANTS
  a = a
  b = b
  c = c
  t1 = t1
  p1 = p1
  Bins = {a, b, c}
  Present = {a, b}
  MaxRequests = 3
  Transfers = {t1}
  Source <- MCSource
  Destination <- MCDestination
  Moves <- MCMoves
  Purchases = {p1}
  Deliveries <- MCDeliveries
  Carts <- MCCarts
  Sheets <- MCSheets
  NewStatuses = {"COMPLETED", "RECEIVED", "CANCELLED"}
  Adjustments <- MCAdjustments
  Quantities = {1}
INVARIANTS
  TypeOK
  LevelExplained
  ReceivedOnce
  MovedOnce
PROPERTIES
  CallsEnd
CHECK_DEADLOCK FALSE
