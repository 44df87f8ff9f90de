SPECIFICATION Spec
CONSTANTS
  Fd = {"client", "target"}
  Wirings <- TcpQuiet
  CHUNK_SZ = 2
  Size = 4
  Room = 2
  Traffic <- BothWays
  MaxEqual = 2
  Bursts <- OneByOne
INVARIANT QuietMeansRead
