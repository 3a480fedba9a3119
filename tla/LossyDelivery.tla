--------------------------- MODULE LossyDelivery ---------------------------
(***************************************************************************)
(* What the network component promises the daemon: a command offered to a  *)
(* set of peers reaches each of them at most once, in any order, or is     *)
(* lost on the way to some of them.                                        *)
(***************************************************************************)
EXTENDS Integers, Sequences

CONSTANTS Peers, Msgs

VARIABLES offered,   \* commands the daemon has handed over
          pending,   \* <<m, p>>: m may still reach p
          got        \* what each peer has read, in order

Init == offered = {} /\ pending = {} /\ got = [p \in Peers |-> <<>>]

Offer(m, to) ==
  /\ m \notin offered
  /\ offered' = offered \cup {m}
  /\ pending' = pending \cup ({m} \X to)
  /\ UNCHANGED got

Arrive(m, p) ==
  /\ <<m, p>> \in pending
  /\ pending' = pending \ {<<m, p>>}
  /\ got' = [got EXCEPT ![p] = Append(@, m)]
  /\ UNCHANGED offered

Lose ==
  /\ pending' \subseteq pending
  /\ UNCHANGED <<offered, got>>

Next ==
  \/ \E m \in Msgs : \E to \in SUBSET Peers : Offer(m, to)
  \/ \E m \in Msgs, p \in Peers : Arrive(m, p)
  \/ Lose

Spec == Init /\ [][Next]_<<offered, pending, got>>
=============================================================================
