SPECIFICATION Spec
CONSTANTS
  Base = 16
  Query = 1
  Terminate = 2
  ParameterStatus = 3
  CHUNK_SZ = 16
  MaxMessages = 4
  Openings <- SSLOpening
  Messages <- FewMessages
INVARIANT ParsedAsSent
