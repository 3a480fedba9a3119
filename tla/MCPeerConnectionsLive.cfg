SPECIFICATION FairSpec
CONSTANTS
  Peers = {p1}
  NoPeer = NoPeer
  p1 = p1
  MaxConn = 3
  MaxMsg = 2
  MaxTotal = 4
  Cap = 1
  WireCap = 1
  MayVanish = FALSE
  MayStop = TRUE
PROPERTY EventuallyConnected
PROPERTY EveryTurnComes
PROPERTY CommandsDrain
PROPERTY AcceptedIsRead
CHECK_DEADLOCK FALSE
