SPECIFICATION Spec
CONSTANTS
  r1 = r1
  r2 = r2
  r3 = r3
  None = None
  Requests <- MCTwoRequests
  Interval = 2
  MaxTime = 4
INVARIANTS
  StartsSpaced
CHECK_DEADLOCK FALSE
