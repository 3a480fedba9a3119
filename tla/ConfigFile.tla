------------------------------ MODULE ConfigFile ------------------------------
(***************************************************************************)
(* The configuration file (config.rs:300-379).  load reads it whole; save   *)
(* is fs::write, which truncates the file and then writes.  Nothing locks   *)
(* it.  A configuration is its peers and its synchronisation pairs.        *)
(*                                                                         *)
(* Its text begins with `sync_pairs = []` if there are no pairs, and goes  *)
(* on with [node], [network], a table for every peer, [easytier], a table  *)
(* for every pair and [advanced].  Only sync_pairs, [node] and [network]   *)
(* have to be there (serde defaults, config.rs:15-66), so that a text cut  *)
(* short between two tables may load as a smaller configuration.           *)
(***************************************************************************)
EXTENDS Naturals

CONSTANTS Nodes,          \* that can be peers
          Ids,            \* of pairs
          Missing,        \* no file
          Empty,          \* truncated
          Garbage,        \* a text that does not parse
          Mixtures        \* configurations as which mixed texts load, see Spliced

VARIABLES file,
          torn   \* "no"; "cut": a text cut short; "spliced": such a text mixed with
                 \* another, now or in an earlier file that this one may derive from

Pairs  == [id : Ids, remote : Nodes]
Config == [peers : SUBSET Nodes, pairs : SUBSET Pairs]

ASSUME FileAssumption == /\ {Missing, Empty, Garbage} \cap Config = {}
                         /\ Empty # Missing /\ Garbage # Missing
                         /\ Mixtures \subseteq Config

DefaultConfig == [peers |-> {}, pairs |-> {}]

Loadable == file \in Config   \* else load is an error; Empty lacks [node]

\* The configurations that a beginning of the text may load as, cut in a table or
\* between two: with pairs, all peers and the pairs up to there, one at least;
\* without, the peers up to there.  (Their order is not modelled: any of them.)
BeginningsVariant(config) ==   \* the pairs come before the peers
  {[config EXCEPT !.peers = some] : some \in SUBSET config.peers}

Beginnings(config) ==
  IF config.pairs = {}
  THEN {[config EXCEPT !.peers = some] : some \in SUBSET config.peers}
  ELSE {[config EXCEPT !.pairs = some] : some \in SUBSET config.pairs \ {{}}}

Truncate == file' = Empty /\ torn' = IF torn = "cut" THEN "no" ELSE torn

\* Two texts over one another, one of them cut short: the tables of one may follow
\* those of the other, and if that loads nothing is known of the configuration.
Spliced == file' \in Mixtures \cup {Garbage} /\ torn' = "spliced"

\* Over an empty file it is this configuration.  Another command may have written
\* since the truncation and its end may be left behind this one; of a whole text that
\* end repeats [advanced], which does not parse, or lies within it and is ignored.
Write(config) ==
  \/ file = Empty /\ file' = config /\ UNCHANGED torn
  \/ file # Empty /\ torn # "cut" /\ file' \in {config, Garbage} /\ UNCHANGED torn
  \/ file # Empty /\ torn = "cut" /\ Spliced

\* The process ends, or the disk is full, after the truncation: before anything is
\* written, or part of the way through.
CutShort(config) ==
  \/ UNCHANGED <<file, torn>>
  \/ /\ file = Empty
     /\ file' \in Beginnings(config) \cup {Garbage}
     /\ torn' = IF torn = "no" THEN "cut" ELSE torn
  \/ file # Empty /\ Spliced

\* The part of validate that is about the configuration itself.
PeersKnown(config) == \A p \in config.pairs : p.remote \in config.peers
=============================================================================
