SPECIFICATION OrderedSpec
\* A search that has returned does nothing more.
CHECK_DEADLOCK FALSE
CONSTANTS
  Rank = {1, 2, 3, 4, 5}
  MaxSize = 5
  e1 = e1
  e2 = e2
  e3 = e3
  Element = {e1, e2, e3}
  Order <- MCOrder
  Unwritten = Unwritten
  HeapSize = 6
INVARIANTS
  SearchesFind
  HeapConsistent
PROPERTIES
  SearchReturns
  HeapImplementsContract
