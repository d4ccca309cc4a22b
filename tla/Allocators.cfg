SPECIFICATION AllocatorsSpec
CONSTANTS
  Handle = {h1, h2}
  SizeMax = 31
  Align = 2
  HeaderStruct = 1
  CreateSizes = {1, 13, 31}
  Requests = {1, 3, 4, 6, 30, 31}
  Block = {p, q, r}
  NoBlock = NoBlock
  NoFailure = NoFailure
  Countdowns = {0, 1, 2, NoFailure}
  MaxEvents = 5
SYMMETRY BlockSymmetry
INVARIANTS
  Consistent
  ServesExactly
  TrackerIsTrue
PROPERTIES
  OnlyResetReclaims
  ImplementsAllocator
