------------------------------- MODULE Commands -------------------------------
(***************************************************************************)
(* The commands that use the configuration file of one machine (main.rs):  *)
(* init, add, start-connect, connect and serve, all of which may run at     *)
(* once.  start-connect and connect work for as long as a pairing takes     *)
(* with the configuration they loaded, and load it again to save the peer   *)
(* (pairing.rs:896-911).  connect reads a pairing code that its user types. *)
(*                                                                         *)
(* The exchange itself is module Pairing; here it succeeds with some node   *)
(* or fails.  status, list and sync only load the file, as serve does.      *)
(***************************************************************************)
EXTENDS ConfigFile, PairingCode

CONSTANTS Inits, Adds, Starts, Connects, Serves,   \* runs of each
          NoNode, NoCode,
          Codes,             \* pairing codes of other machines
          MyName, MySecret,  \* hashes of this machine's network
          ExternalNode       \* easytier.external_node is set

Waiting  == Starts \cup Connects
Commands == Inits \cup Adds \cup Waiting \cup Serves

ASSUME CommandsAssumption ==
  /\ Inits \cap (Adds \cup Waiting \cup Serves) = {} /\ Adds \cap (Waiting \cup Serves) = {}
  /\ Waiting \cap Serves = {}
  /\ NoNode \notin Nodes /\ ExternalNode \in BOOLEAN
  /\ Codes \subseteq PairingCodes

VARIABLES
  pc,      \* "ready": about to save; "writing": has truncated the file
  snap,    \* the configuration a command has in memory
  peer,    \* the node it paired with
  given,   \* what was typed for connect: the code on the other screen, the text
  code,    \* what connect made of it, while it pairs
  added,   \* ghost: peers and pairs that commands reported as saved, kept while serial
  serial   \* ghost: no save was cut short, no two load-to-save sections overlapped

store == <<file, torn>>
vars == <<store, pc, snap, peer, given, code, added, serial>>

Saving == {"ready", "writing"}

Init ==
  /\ file \in {Missing, DefaultConfig} /\ torn = "no"
  /\ pc = [c \in Commands |-> "new"] /\ snap = [c \in Commands |-> DefaultConfig]
  /\ peer = [c \in Commands |-> NoNode]
  /\ given = [c \in Connects |-> NoCode] /\ code = [c \in Connects |-> NoCode]
  /\ added = DefaultConfig /\ serial = TRUE

-----------------------------------------------------------------------------
(* What a user may type for a code (a part of the environment).            *)

Small(text) ==
  [i \in DOMAIN text |-> IF text[i] = "-" THEN "-" ELSE Base32Small[Base32Decode[text[i]] + 1]]
Misread(text) ==
  [i \in DOMAIN text |-> IF text[i] = "0" THEN "O" ELSE IF text[i] = "1" THEN "l" ELSE text[i]]
Retyped(text) == {text, Cleaned(text), <<"-">> \o Misread(Small(text))}
Slips(text) ==
  {Front(text), text \o <<"0">>, [text EXCEPT ![1] = "U"]}
  \cup {[text EXCEPT ![i] = IF @ = "7" THEN "8" ELSE "7"] : i \in {14, Len(text)}}

Typed == UNION {[code : {k}, text : Retyped(Encode(k)), same : {TRUE}]
                \cup [code : {k}, text : Slips(Encode(k)), same : {FALSE}] : k \in Codes}

-----------------------------------------------------------------------------
\* From here to its save the command relies on what it has read.
EnterSave(c, config, reported) ==
  /\ pc' = [pc EXCEPT ![c] = "ready"]
  /\ snap' = [snap EXCEPT ![c] = config]
  /\ serial' = (serial /\ \A d \in Commands \ {c} : pc[d] \notin Saving)
  /\ added' = IF serial' THEN reported ELSE DefaultConfig

\* An ended process has no memory.
Forgets(c) == snap' = [snap EXCEPT ![c] = DefaultConfig] /\ peer' = [peer EXCEPT ![c] = NoNode]

Without(typed, c) == [d \in Connects |-> IF d = c THEN NoCode ELSE typed[d]]

Fails(c) ==
  /\ pc' = [pc EXCEPT ![c] = "failed"] /\ Forgets(c)
  /\ given' = Without(given, c) /\ code' = Without(code, c)
  /\ UNCHANGED <<store, added, serial>>

\* handle_init; --force means to forget what commands have saved.
InitConfig(c) ==
  /\ pc[c] = "new"
  /\ \E force \in BOOLEAN :
       /\ force \/ file = Missing
       /\ EnterSave(c, DefaultConfig, IF force THEN DefaultConfig ELSE added)
  /\ UNCHANGED <<store, peer, given, code>>

InitRefused(c) == pc[c] = "new" /\ file # Missing /\ Fails(c)

LoadFails(c) == pc[c] = "new" /\ ~Loadable /\ Fails(c)

\* handle_add: load, both checks, push.
AddPair(c) ==
  /\ pc[c] = "new" /\ Loadable
  /\ \E p \in Pairs :
       /\ \A q \in file.pairs : q.id # p.id
       /\ p.remote \in file.peers
       /\ EnterSave(c, [file EXCEPT !.pairs = @ \cup {p}], added)
  /\ UNCHANGED <<store, peer, given, code>>

\* The id is taken, or the remote node is no peer.
AddRefused(c) ==
  /\ pc[c] = "new" /\ Loadable
  /\ \E p \in Pairs : p.remote \notin file.peers \/ \E q \in file.pairs : q.id = p.id
  /\ Fails(c)

\* handle_serve: load and validate; the directories of the pairs must exist as well.
Serve(c) ==
  /\ pc[c] = "new" /\ Loadable /\ PeersKnown(file)
  /\ pc' = [pc EXCEPT ![c] = "serving"]
  /\ UNCHANGED <<store, snap, peer, given, code, added, serial>>

ServeRefused(c) ==
  pc[c] = "new" /\ Loadable /\ (~PeersKnown(file) \/ file.pairs # {}) /\ Fails(c)

-----------------------------------------------------------------------------
\* handle_start_connect shows its code and waits.
StartConnect(c) ==
  /\ pc[c] = "new" /\ Loadable
  /\ pc' = [pc EXCEPT ![c] = "pairing"] /\ snap' = [snap EXCEPT ![c] = file]
  /\ UNCHANGED <<store, peer, given, code, added, serial>>

\* handle_connect loads first ...
ConnectLoads(c) ==
  /\ pc[c] = "new" /\ Loadable
  /\ pc' = [pc EXCEPT ![c] = "typed"] /\ snap' = [snap EXCEPT ![c] = file]
  /\ \E t \in Typed : given' = [given EXCEPT ![c] = t]
  /\ UNCHANGED <<store, peer, code, added, serial>>

\* An address to dial: that of the code, or a shared node.
CanJoin(k) == HasPhysicalIp(k) \/ ExternalNode

Accepts(text) ==
  Decodes(text) /\ LET k == Decode(text) IN VerifyNetwork(k, MyName, MySecret) /\ CanJoin(k)

\* ... then decodes, and checks the network.
ConnectJoins(c) ==
  /\ pc[c] = "typed" /\ Accepts(given[c].text)
  /\ code' = [code EXCEPT ![c] = Decode(given[c].text)]
  /\ pc' = [pc EXCEPT ![c] = "pairing"]
  /\ given' = Without(given, c)
  /\ UNCHANGED <<store, snap, peer, added, serial>>

ConnectRefused(c) == pc[c] = "typed" /\ ~Accepts(given[c].text) /\ Fails(c)

\* The exchange ends, after up to a day.
Paired(c) ==
  /\ pc[c] = "pairing"
  /\ \E n \in Nodes : peer' = [peer EXCEPT ![c] = n]
  /\ pc' = [pc EXCEPT ![c] = "paired"]
  /\ code' = Without(code, c)
  /\ UNCHANGED <<store, snap, given, added, serial>>

PairingFails(c) == pc[c] = "pairing" /\ Fails(c)

\* A definition named ...Variant is a plausible slip in the one that follows; no
\* specification uses it.
SavePeerVariant(c) ==   \* into the configuration loaded at the start
  /\ pc[c] = "paired"
  /\ EnterSave(c, [snap[c] EXCEPT !.peers = @ \cup {peer[c]}], added)
  /\ UNCHANGED <<store, peer, given, code>>

\* save_peer_to_config loads the file again.
SavePeer(c) ==
  /\ pc[c] = "paired" /\ Loadable
  /\ EnterSave(c, [file EXCEPT !.peers = @ \cup {peer[c]}], added)
  /\ UNCHANGED <<store, peer, given, code>>

\* Its error is printed, nothing more.
SavePeerFails(c) == pc[c] = "paired" /\ ~Loadable /\ Fails(c)

-----------------------------------------------------------------------------
(* save                                                                    *)

BeginSave(c) ==
  /\ pc[c] = "ready" /\ Truncate
  /\ pc' = [pc EXCEPT ![c] = "writing"]
  /\ UNCHANGED <<snap, peer, given, code, added, serial>>

CannotOpen(c) == pc[c] = "ready" /\ Fails(c)

\* The command reports success.
EndSave(c) ==
  /\ pc[c] = "writing" /\ Write(snap[c])
  /\ pc' = [pc EXCEPT ![c] = "done"] /\ Forgets(c)
  /\ added' = IF serial THEN [peers |-> added.peers \cup snap[c].peers,
                              pairs |-> added.pairs \cup snap[c].pairs]
              ELSE added
  /\ UNCHANGED <<given, code, serial>>

SaveCutShort(c) ==
  /\ pc[c] = "writing" /\ CutShort(snap[c])
  /\ pc' = [pc EXCEPT ![c] = "failed"] /\ Forgets(c)
  /\ serial' = FALSE /\ added' = DefaultConfig
  /\ UNCHANGED <<given, code>>

Save(c) == BeginSave(c) \/ CannotOpen(c) \/ EndSave(c) \/ SaveCutShort(c)

Next ==
  \/ \E c \in Commands : Save(c)
  \/ \E c \in Inits : InitConfig(c) \/ InitRefused(c)
  \/ \E c \in Commands \ Inits : LoadFails(c)
  \/ \E c \in Adds : AddPair(c) \/ AddRefused(c)
  \/ \E c \in Serves : Serve(c) \/ ServeRefused(c)
  \/ \E c \in Starts : StartConnect(c)
  \/ \E c \in Connects : ConnectLoads(c) \/ ConnectJoins(c) \/ ConnectRefused(c)
  \/ \E c \in Waiting : Paired(c) \/ PairingFails(c) \/ SavePeer(c) \/ SavePeerFails(c)

Spec == Init /\ [][Next]_vars

-----------------------------------------------------------------------------
(* Properties.                                                             *)

\* The variables hold values of their types; what connect decodes has fields of bytes.
TypeOK ==
  /\ file \in Config \cup {Missing, Empty, Garbage} /\ torn \in {"no", "cut", "spliced"}
  /\ pc \in [Commands -> {"new", "typed", "pairing", "paired", "ready", "writing", "serving", "done", "failed"}]
  /\ snap \in [Commands -> Config] /\ peer \in [Commands -> Nodes \cup {NoNode}]
  /\ \A c \in Connects : /\ code[c] \in PairingCodes \cup {NoCode}
                         /\ given[c] = NoCode \/ given[c].code \in PairingCodes
  /\ added \in Config /\ serial \in BOOLEAN

UniqueIds(config) == \A p, q \in config.pairs : p.id = q.id => p = q

\* Whatever commands overlap, whatever updates that loses and wherever a save is cut
\* short, a file that can be loaded has unique pair ids and knows the peer of every
\* pair: the two checks of handle_add (main.rs:318-329) and the one of validate
\* (config.rs:368) stay true of it, so serve is never refused for its peers.  A
\* half-written text passes because the peers are written before the pairs
\* (config.rs:16-28); only where another save overlapped the one cut short may the
\* two texts load as a mixture.
FileServes == Loadable /\ torn # "spliced" => UniqueIds(file) /\ PeersKnown(file)

Holds(config, entries) == entries.peers \subseteq config.peers /\ entries.pairs \subseteq config.pairs

\* If no two load-to-save sections have overlapped and no save was cut short, every
\* peer and pair reported as saved is in the file (or in the save under way), though
\* start-connect and connect hold an old configuration for as long as they wait
\* (main.rs:457-517, pairing.rs:898).
SerialUpdatesKept ==
  serial => \/ Loadable /\ Holds(file, added)
            \/ file = Missing /\ added = DefaultConfig
            \/ \E c \in Commands : pc[c] = "writing" /\ Holds(snap[c], added)

\* A code typed without dashes, in small letters, with O for 0 or l for 1 is read as
\* the code on the other screen, if it is one of this network that can be dialed
\* (pairing.rs:91-116, 177-214): connect neither refuses it nor changes it.
CodeReadBack ==
  [][\A c \in Connects :
       pc[c] = "typed" /\ pc'[c] # "typed" /\ given[c].same =>
         IF VerifyNetwork(given[c].code, MyName, MySecret) /\ CanJoin(given[c].code)
         THEN pc'[c] = "pairing" /\ code'[c] = given[c].code
         ELSE pc'[c] = "failed"]_vars

\* Of whatever is typed, right or wrong, the bytes are the bits of its characters
\* regrouped, the rest of fewer than eight bits left out (pairing.rs:102-113).
BytesAreRegroupedBits ==
  [][\A c \in Connects :
       pc[c] = "typed" /\ pc'[c] # "typed" /\ Readable(given[c].text) =>
         BytesOf(given[c].text) = Regrouped(given[c].text)]_vars
=============================================================================
