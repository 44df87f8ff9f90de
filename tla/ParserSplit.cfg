SPECIFICATION Spec
CONSTANTS
  Base = 5
  Query = 1
  Terminate = 2
  ParameterStatus = 3
  CHUNK_SZ = 16
  MaxMessages = 4
  Openings <- PlainOpening
  Messages <- AnyMessages
INVARIANTS TypeOK ParsedAsSent RestKept SettingsKept
