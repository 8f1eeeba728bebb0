SPECIFICATION Spec
CONSTANTS
  k = k
  None = None
  MaxElsewhere = 1
  Requests = {1, 2}
  Cancelable = {1, 2}
  Keys <- MCKeys
INVARIANTS
  CancellationIsPrivate
CHECK_DEADLOCK FALSE
