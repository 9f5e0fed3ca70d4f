SPECIFICATION Spec
CONSTANTS
  b1 = b1
  r1 = r1
  r2 = r2
  r3 = r3
  r4 = r4
  Requests = {r1, r2, r3}
  Branches = {b1}
  NoBranch = NoBranch
  Branch <- MCBranch
  ReceiptWrap = 999
  LastDay = 2
INVARIANTS
  LookupUnambiguous
CHECK_DEADLOCK FALSE
