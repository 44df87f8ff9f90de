SPECIFICATION Spec
CONSTANTS
  MaxFd = 4
  MaxClients = 2
  Widths = {1, 2}
  MayReset = TRUE
  MayFail = TRUE
INVARIANTS TypeOK RegistrationsAgree BacklogNoticed ResetNoticed ListenBounded OnlyKnownLeaks
PROPERTY AllAccepted
