SPECIFICATION Spec
CONSTANTS
  Stops <- MCStops
  Links <- MCLinks
  Places <- MCPlaces
  NoPoints = 0
  Roads <- MCRoads
  Readings <- MCReadings
  OptionSets <- MCOptionSets
  MatchLimit = 2
  MaxRecords = 3
  MaxByHand = 1
  MaxRounds = 2
INVARIANTS
  NewestReadingUsed
  SilentOnlyWhenCrowdedOut
  AdjustedByOwnLinks
CHECK_DEADLOCK FALSE
