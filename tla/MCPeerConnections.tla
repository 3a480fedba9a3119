------------------------- MODULE MCPeerConnections -------------------------
(* Small instances of PeerConnections.                                     *)
EXTENDS PeerConnections, TLC

PeerSymmetry == Permutations(Peers)
=============================================================================
