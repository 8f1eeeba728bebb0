SPECIFICATION FairSpec
CONSTANTS
  b1 = b1
  b2 = b2
  Requests <- MCRequests
  Bodies <- MCBodies
  MaxStops <- MCMaxStops
  ReadTimeout <- MCReadTimeout
  WriteTimeout <- MCWriteTimeout
  TurnTime <- MCTurnTime
INVARIANTS
  ServerTypeOK
  SuccessMeansAnswered
  EveryRowReported
  LateOnlyBehindOthers
PROPERTIES
  SignalStops
CHECK_DEADLOCK FALSE
