SPECIFICATION Spec
CONSTANTS
  a1 = a1
  Rows = {d1}
  Calls <- MCCalls
  MaxRequests = 2
  Tabs = {t1, t2}
  MaxTokens = 3
  Aging = {1}
  MaxFaults = 1
INVARIANTS
  TypeOK
  OneLiveToken
  QueueHasOwner
PROPERTIES
  StaysSignedIn
SYMMETRY Symmetry
CHECK_DEADLOCK FALSE
