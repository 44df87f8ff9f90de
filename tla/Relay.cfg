SPECIFICATION Spec
CONSTANTS
  Fd = {"client", "target"}
  Wirings <- Sessions
  CHUNK_SZ = 2
  Size = 4
  Room = 2
  Traffic <- BothWays
  MaxEqual = 2
  Bursts <- OneOrTwo
INVARIANTS TypeOK PassedInOrder IndicesMatchContent
PROPERTIES EventuallyDelivered FinishCloses ResetCloses
