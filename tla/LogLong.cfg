SPECIFICATION LogSpec
CONSTANTS
  CHUNK_SZ = 2
  Size = 4
  Byte <- Bytes
  Requests <- PieceLengths
  Abandons = {}
  Lengths = {0, 2, 4}
  MaxMessages = 2
  MaxShort = 0
INVARIANT EmptyTakesAll
