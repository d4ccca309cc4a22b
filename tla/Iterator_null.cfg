SPECIFICATION NullContextSpec
CONSTANTS
  Iter = {i1, i2}
  Items = 2
  Junk = Junk
INVARIANTS
  StorageIsInitialised
