SPECIFICATION Spec
CONSTANTS
  Handle = {h1, h2, h3}
  SizeMax = 63
  Align = 2
  Header = 4
  CreateSizes = {9, 37, 63}
  Requests = {1, 4, 7, 13, 20, 63}
INVARIANTS
  Consistent
  BytesAccounted
PROPERTIES
  OnlyShrinkFragments
  DeallocGivesBack
  ImplementsAllocator
