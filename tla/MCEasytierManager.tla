--------------------------- MODULE MCEasytierManager ---------------------------
(* A small instance of EasytierManager.                                      *)
EXTENDS EasytierManager
=============================================================================
