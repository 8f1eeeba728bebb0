SPECIFICATION Spec
CONSTANTS
  Inputs <- MCInputs
  MaxStops = 4
  MaxTopK = 7
INVARIANTS
  ResultIsRanking
PROPERTIES
  ImplementsTopK
CHECK_DEADLOCK FALSE
