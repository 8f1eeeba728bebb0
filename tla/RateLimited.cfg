SPECIFICATION FairSpec
CONSTANTS
  r1 = r1
  r2 = r2
  r3 = r3
  None = None
  Requests <- MCRequests
  Interval = 2
  MaxTime = 4
INVARIANTS
  TypeOK
  CallsSerialized
  SlotsSpaced
  RateBounded
  SleepBounded
PROPERTIES
  EveryRequestReturns
CHECK_DEADLOCK FALSE
