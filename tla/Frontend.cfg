SPECIFICATION Spec
CONSTANTS
  p = p
  q = q
  AddressKey <- MCAddressKey
  Blank = ""
  Labels <- MCLabels
  NoLabel = ""
  MaxLabeled = 1
  MaxTouched = 1
  Points <- MCPlaces
  Empty = Empty
  Partial = Partial
  Demo <- MCDemo
  PageLimits <- MCPageLimits
  ServerLimits <- MCServerLimits
  Counts <- MCCounts
  None = None
SYMMETRY Symmetric
INVARIANTS
  RowsCoherent
  RoutesMatchRows
  RequestsWithinLimits
