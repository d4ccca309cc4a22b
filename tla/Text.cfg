SPECIFICATION TextSpec
CONSTANTS
  byte1 = byte1
  byte2 = byte2
  Value = {byte1, byte2}
  NUL = NUL
  Junk = Junk
  SizeMax = 10
  HeaderSize = 2
  DefaultCapacity = 2
  Texts <- ShortTexts
  WalkedTexts <- MCWalkedTexts
  Predicates <- MCPredicates
  Iter = {i1, i2, i3}
  Items = 3
  FileTexts <- MCFileTexts
  FileMax = 3
SYMMETRY IterSymmetry
INVARIANTS
  Consistent
  WalksAreExact
  FilesAreTrue
PROPERTY
  ImplementsContract
