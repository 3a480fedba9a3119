SPECIFICATION Spec
CONSTANTS
  Peers = {p1, p2}
  NoPeer = NoPeer
  p1 = p1
  p2 = p2
  MaxConn = 2
  MaxMsg = 2
  MaxTotal = 4
  Cap = 1
  WireCap = 1
  MayVanish = TRUE
  MayStop = TRUE
SYMMETRY PeerSymmetry
INVARIANT TypeOK
INVARIANT ConnectedHasChannel
INVARIANT ChannelIsNewest
INVARIANT NeverDialsConnected
INVARIANT BlockedSendCanEnd
INVARIANT StopLeavesAtMostOne
INVARIANT InOrderPerConnection
PROPERTY DeliveryRefined
CHECK_DEADLOCK FALSE
