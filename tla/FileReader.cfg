SPECIFICATION ViewsSpec
\* After a panic the program is gone.
CHECK_DEADLOCK FALSE
CONSTANTS
  Capacity = 3
  StreamLen = 4
  Counts = {2, 4}
INVARIANT
  EachByteToOneView
PROPERTIES
  FailureIsNeverTheEnd
  OneViewReadsTheFile
  DrainedInOrder
