SPECIFICATION FairSpec
CONSTANTS
  Capacity = 3
  StreamLen = 6
  Counts = {0, 2, 3, 4}
INVARIANTS
  WindowExact
  CursorIntact
PROPERTIES
  Segments
  CallReturns
