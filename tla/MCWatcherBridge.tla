--------------------------- MODULE MCWatcherBridge ---------------------------
(* One watched pair and one path are enough.                                *)
EXTENDS WatcherBridge

CONSTANTS p1, v1, v2, r1
=============================================================================
