SPECIFICATION FairSpec
CONSTANTS
  k = k
  None = None
  MaxElsewhere = 1
  Requests = {1, 2, 3}
  Cancelable = {1}
  Keys <- MCKeys
INVARIANTS
  TypeOK
  SingleProviderCall
  NoStrandedFollower
  CancellationIsPrivate
  ExpiredEntryCoversOutage
  NoRedundantFetch
PROPERTIES
  SavesNewestAnswer
  ImplementsLookup
  EveryRequestReturns
CHECK_DEADLOCK FALSE
