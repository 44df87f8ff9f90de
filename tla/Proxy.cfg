SPECIFICATION ProxySpec
CONSTANTS
  Fd = {"client", "target"}
  Wirings <- PsqlOnly
  CHUNK_SZ = 10
  Size = 20
  Room = 5
  Traffic <- Answers
  MaxEqual = 1
  Bursts <- Sizes
  Base = 5
  Query = 1
  Terminate = 2
  ParameterStatus = 3
  Scripts <- Dialogues
INVARIANT LoggedBeforePassed
PROPERTY TerminateCloses
