SPECIFICATION Spec
CONSTANTS
  i1 = i1
  i2 = i2
  t1 = t1
  pA = pA
  pB = pB
  Items = {i1, i2}
  Products = {pA}
  Qty <- MCQty
  PerUnit <- MCPerUnit
  Load <- MCLoad
  Price <- MCPrice
  Bill <- MCBill
  Opening <- MCOpening
  Tables = {t1}
  NoTable = NoTable
  Workers = {w1, w2}
  Amounts = {0, 1}
  PreOrder <- MCNoPreOrder
  DtoStatuses = {"HELD"}
  StaffStatuses = {"COMPLETED", "HELD"}
  ItemStatuses = {}
  Attempts = 2
  MaxOrders = 2
  MaxRequests = 3
INVARIANTS
  PaidIsBacked
  DrawerExplainsPayments
  TotalMatchesLines
SYMMETRY MCSymmetry
CHECK_DEADLOCK FALSE
