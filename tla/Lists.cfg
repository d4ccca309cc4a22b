SPECIFICATION ListsSpec
CONSTANTS
  Node = {n1, n2, n3, n4}
  NULL = NULL
  Garbage = Garbage
SYMMETRY NodeSymmetry
INVARIANT
  ListsConsistent
PROPERTY
  ListsAreSequences
