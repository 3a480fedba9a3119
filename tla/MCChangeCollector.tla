-------------------------- MODULE MCChangeCollector --------------------------
(* Two paths, so that events of different paths meet in one window.         *)
EXTENDS ChangeCollector

CONSTANTS p1, p2, v1, v2
=============================================================================
