----------------------------- MODULE MCSyncState -----------------------------
(* A small instance of SyncState: contents c1 and c2 have the same size.   *)
EXTENDS SyncState, TLC

CONSTANTS c1, c2, c3

MCContents == {c1, c2}
MCSize == [c \in Contents |-> IF c \in {c1, c2} THEN 1 ELSE 2]
PathSymmetry == Permutations(Paths)
=============================================================================
