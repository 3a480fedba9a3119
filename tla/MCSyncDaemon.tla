---------------------------- MODULE MCSyncDaemon ----------------------------
(* Two nodes paired with each other; contents of one and of two chunks.    *)
EXTENDS SyncDaemon, TLC

CONSTANTS a, b, c1, c2

MCRemote     == a :> b @@ b :> a
MCChunkCount == c1 :> 1 @@ c2 :> 2
=============================================================================
