SPECIFICATION Spec
CONSTANTS
  Size = 6
  Byte = {b1, b2}
  Requests = {2, 3}
  Abandons = {2}
INVARIANTS TypeOK Exclusive ReadsCommitted AssertsHold ReleaseMatchesRegion EmptyAccepts
PROPERTY ImplementsFifo
