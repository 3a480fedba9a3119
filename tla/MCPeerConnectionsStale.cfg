SPECIFICATION Spec
CONSTANTS
  Peers = {p1}
  NoPeer = NoPeer
  p1 = p1
  MaxConn = 2
  MaxMsg = 0
  MaxTotal = 2
  Cap = 1
  WireCap = 1
  MayVanish = FALSE
  MayStop = TRUE
PROPERTY HealthyConnectionKept
CHECK_DEADLOCK FALSE
