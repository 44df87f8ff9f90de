SPECIFICATION Spec
CONSTANTS
  MaxFd = 4
  MaxClients = 2
  Widths = {2}
  MayReset = TRUE
  MayFail = FALSE
INVARIANT NoStaleEvent
