------------------------------ MODULE MCPairing ------------------------------
(* Two connectors on one machine, two listeners.                           *)
EXTENDS Pairing, TLC

CONSTANTS l1, l2, m1, c1, c2

MCMachineOf == [c \in Connectors |-> m1]
=============================================================================
