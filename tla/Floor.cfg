SPECIFICATION Spec
CONSTANTS
  Tables = {t1, t2}
  NoTable = NoTable
  Workers = {w1, w2}
  StaffStatuses = {"PENDING", "DELIVERED", "COMPLETED"}
  Labels = {"AVAILABLE"}
  MaxOrders = 2
  MaxRequests = 4
INVARIANTS
  TypeOK
  OwingIsOccupied
  TabsJoin
PROPERTIES
  MovesToEmptyTable
SYMMETRY MCSymmetry
CHECK_DEADLOCK FALSE
