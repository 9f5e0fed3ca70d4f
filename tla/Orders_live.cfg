SPECIFICATION FairSpec
CONSTANTS
  i1 = i1
  i2 = i2
  t1 = t1
  pA = pA
  pB = pB
  Items = {i1}
  Products = {pB}
  Qty <- MCQty
  PerUnit <- MCPerUnit
  Load <- MCLoad
  Price <- MCPrice
  Bill <- MCBill
  Opening <- MCOpening
  Tables = {}
  NoTable = NoTable
  Workers = {w1, w2}
  Amounts = {}
  PreOrder <- MCOnlyPreOrders
  DtoStatuses = {}
  StaffStatuses = {"COMPLETED"}
  ItemStatuses = {}
  Attempts = 2
  MaxOrders = 3
  MaxRequests = 3
PROPERTIES
  JobsSettle
  RequestsEnd
CHECK_DEADLOCK FALSE
