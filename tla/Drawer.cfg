SPECIFICATION Spec
CONSTANTS
  Requests = {r1, r2, r3, r4}
  Users = {u1}
  NoUser = NoUser
  Branches = {b1}
  NoBranch = NoBranch
  Amounts = {1}
  MaxPos = 1
  RequireDrawer = TRUE
  MaxSessions = 2
INVARIANTS
  TypeOK
  BalanceExplained
  OverLimitRaced
  SaleFindsDrawer
PROPERTIES
  ClosedIsFinal
SYMMETRY MCSymmetry
CHECK_DEADLOCK FALSE
