----------------------------- MODULE FileIndexes -----------------------------
(***************************************************************************)
(* File indexes and their comparison (sync.rs, protocol.rs).  An index maps *)
(* a relative path to its entry; a content stands for its hash, and a      *)
(* directory has the zero hash.                                            *)
(***************************************************************************)
EXTENDS Integers

CONSTANTS Paths,
          NoEntry,   \* the index has no entry for the path
          Hashes,
          Zero       \* Hash::from([0; 32])

ASSUME ZeroAssumption == Zero \in Hashes
ASSUME NoEntryAssumption == NoEntry \notin [hash : Hashes, modified : Nat]

IndexEntries == [hash : Hashes, modified : Nat]
Indexes == [Paths -> IndexEntries \cup {NoEntry}]

Listed(index) == {p \in Paths : index[p] # NoEntry}

\* is_same_as: the hash alone decides.
SameAs(e, f) == e.hash = f.hash

\* Definitions named ...Variant are plausible slips in the definition that
\* follows; no specification uses them.
NewerHereVariant(l, r, p) ==   \* not older, instead of newer
  /\ p \in Listed(l) \cap Listed(r)
  /\ ~SameAs(l[p], r[p]) /\ l[p].modified >= r[p].modified

\* Both list the path with different contents; the newer second wins.
NewerHere(l, r, p) ==
  /\ p \in Listed(l) \cap Listed(r)
  /\ ~SameAs(l[p], r[p]) /\ l[p].modified > r[p].modified

NotNewerHere(l, r, p) ==
  /\ p \in Listed(l) \cap Listed(r)
  /\ ~SameAs(l[p], r[p]) /\ ~NewerHere(l, r, p)

\* The two lists diff_indexes returns.
LocalOnly(l, r)  == {p \in Paths : NewerHere(l, r, p)} \cup (Listed(l) \ Listed(r))

RemoteOnlyVariant(l, r) ==   \* the two lists swapped
  {p \in Paths : NewerHere(l, r, p)} \cup (Listed(l) \ Listed(r))

RemoteOnly(l, r) == {p \in Paths : NotNewerHere(l, r, p)} \cup (Listed(r) \ Listed(l))

\* Two indexes disagree on a path.
Differ(l, r) ==
  {p \in Paths : \/ (p \in Listed(l)) # (p \in Listed(r))
                 \/ p \in Listed(l) \cap Listed(r) /\ ~SameAs(l[p], r[p])}
=============================================================================
