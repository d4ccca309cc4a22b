SPECIFICATION TablesSpec
CONSTANTS
  k1 = k1
  k2 = k2
  k3 = k3
  k4 = k4
  Key = {k1, k2, k3, k4}
  Hash <- MCHash
  Value = {u, v}
  Missing = Missing
  SizeMax = 31
  DefaultCapacity = 2
  BucketSize = 2
  ReserveSizes = {3, 5, 8}
INVARIANTS
  TablesConsistent
  IteratorsAreExact
PROPERTIES
  ReservesAreKept
  ImplementContracts
