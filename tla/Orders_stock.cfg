SPECIFICATION Spec
CONSTANTS
  i1 = i1
  i2 = i2
  t1 = t1
  pA = pA
  pB = pB
  Items = {i1, i2}
  Products = {pA, pB}
  Qty <- MCQty
  PerUnit <- MCPerUnit
  Load <- MCLoad
  Price <- MCPrice
  Bill <- MCBill
  Opening <- MCOpening
  Tables = {}
  NoTable = NoTable
  Workers = {w1, w2}
  Amounts = {}
  PreOrder <- MCPreOrder
  DtoStatuses = {}
  StaffStatuses = {"COMPLETED", "SCHEDULED"}
  ItemStatuses = {"READY"}
  Attempts = 2
  MaxOrders = 1
  MaxRequests = 4
INVARIANTS
  TypeOK
  StockMatchesLedger
  DeductedOnce
  OverReturnHasCause
  NoOrderForgotten
PROPERTIES
  ImplementsLedger
SYMMETRY MCSymmetry
CHECK_DEADLOCK FALSE
