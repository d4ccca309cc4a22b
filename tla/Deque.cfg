SPECIFICATION IterSpec
CONSTANTS
  Value = {a, b}
  Nothing = Nothing
  Junk = Junk
  SizeMax = 16
  ElemSize = 2
  DefaultCapacity = 2
  MaxIterated = 4
INVARIANTS
  Consistent
  IteratorIsExact
PROPERTY
  ImplementsContract
