SPECIFICATION VectorsSpec
\* A collect that has returned does nothing more.
CHECK_DEADLOCK FALSE
CONSTANTS
  a = a
  b = b
  Value = {a, b}
  Junk = Junk
  SizeMax = 7
  ElemSize = 1
  Capacities = {1, 3}
  CollectSize = 2
  DefaultCapacity = 2
  Sources <- SourcesOfItems
  Hints = {0, 1, 2, 3, 5}
  Mapping <- Swap
INVARIANTS
  Consistent
  CollectDelivers
PROPERTIES
  GrowsSparingly
  ImplementsContract
  CollectReturns
