---------------------------- MODULE Commands_proofs ----------------------------
(***************************************************************************)
(* What several commands on one configuration file do to it: FileServes     *)
(* and SerialUpdatesKept, for any number of commands, peers and pairs; and *)
(* what connect makes of what is typed, for any codes and any network.     *)
(***************************************************************************)
EXTENDS Commands, PairingCode_proofs

Places == {"new", "typed", "pairing", "paired", "ready", "writing", "serving", "done", "failed"}

FileType ==
  /\ file \in Config \cup {Missing, Empty, Garbage}
  /\ torn \in {"no", "cut", "spliced"}
  /\ pc \in [Commands -> Places]
  /\ snap \in [Commands -> Config]
  /\ peer \in [Commands -> Nodes \cup {NoNode}]
  /\ added \in Config
  /\ \A c \in Commands : pc[c] = "paired" => peer[c] \in Nodes

Consistent(config) == UniqueIds(config) /\ PeersKnown(config)

\* What is about to be saved is as consistent as what is in the file, unless that
\* derives from a mixed text.
ConsistentInv ==
  torn # "spliced" =>
    /\ Loadable => Consistent(file)
    /\ \A c \in Commands : pc[c] \in Saving => Consistent(snap[c])

\* One command at a time saves, what it has includes all that was reported, and
\* it finds the file as it truncated it.
SerialInv ==
  /\ \A c, d \in Commands : pc[c] \in Saving /\ pc[d] \in Saving => c = d
  /\ \A c \in Commands : pc[c] \in Saving => Holds(snap[c], added)
  /\ \A c \in Commands : pc[c] = "writing" => file = Empty
  /\ (\A c \in Commands : pc[c] # "writing") =>
       (Loadable /\ Holds(file, added)) \/ (file = Missing /\ added = DefaultConfig)

Inv == FileType /\ ConsistentInv /\ (serial => SerialInv)

LEMMA DefaultOk == DefaultConfig \in Config /\ Consistent(DefaultConfig) /\ Holds(DefaultConfig, DefaultConfig)
BY DEF DefaultConfig, Config, Consistent, UniqueIds, PeersKnown, Holds

\* A beginning of a text is as consistent as the text: the peers are written first.
LEMMA BeginningsOk ==
  ASSUME NEW config \in Config, NEW b \in Beginnings(config)
  PROVE  b \in Config /\ (Consistent(config) => Consistent(b))
<1>1. CASE config.pairs = {}
  <2>1. PICK some \in SUBSET config.peers : b = [config EXCEPT !.peers = some]
    BY <1>1 DEF Beginnings
  <2>2. b \in Config /\ b.pairs = {} BY <1>1, <2>1 DEF Config
  <2> QED BY <2>2 DEF Consistent, UniqueIds, PeersKnown
<1>2. CASE config.pairs # {}
  <2>1. PICK some \in SUBSET config.pairs : b = [config EXCEPT !.pairs = some]
    BY <1>2 DEF Beginnings
  <2>2. b \in Config /\ b.pairs \subseteq config.pairs /\ b.peers = config.peers
    BY <2>1 DEF Config
  <2> QED BY <2>2 DEF Consistent, UniqueIds, PeersKnown
<1> QED BY <1>1, <1>2

LEMMA InitOk == Init => Inv
<1> SUFFICES ASSUME Init PROVE Inv OBVIOUS
<1> USE DefaultOk, FileAssumption
<1>1. FileType BY DEF Init, FileType, Places
<1>2. ConsistentInv BY DEF Init, ConsistentInv, Saving, Loadable
<1>3. SerialInv BY DEF Init, SerialInv, Saving, Loadable
<1> QED BY <1>1, <1>2, <1>3 DEF Inv

\* A step of c that touches neither the file nor what was reported, and after which
\* c is not saving.
LEMMA QuietStep ==
  ASSUME Inv, NEW c \in Commands, NEW s \in Places \ Saving, pc[c] # "writing",
         pc' = [pc EXCEPT ![c] = s],
         snap' \in [Commands -> Config], \A d \in Commands \ {c} : snap'[d] = snap[d],
         peer' \in [Commands -> Nodes \cup {NoNode}],
         \A d \in Commands \ {c} : peer'[d] = peer[d],
         s = "paired" => peer'[c] \in Nodes,
         UNCHANGED <<file, torn, added, serial>>
  PROVE  Inv'
<1> USE DEF Inv
<1>1. \A d \in Commands \ {c} : pc'[d] = pc[d] BY DEF FileType
<1>2. pc'[c] = s BY DEF FileType
<1>3. FileType' BY <1>1, <1>2 DEF FileType
<1>4. ConsistentInv' BY <1>1, <1>2 DEF ConsistentInv, Loadable
<1>5. ASSUME serial' PROVE SerialInv'
  <2>1. SerialInv BY <1>5
  <2>2. "writing" \in Saving BY DEF Saving
  <2> QED BY <1>1, <1>2, <2>1, <2>2 DEF SerialInv, Loadable, Holds
<1> QED BY <1>3, <1>4, <1>5

\* A command enters its load-to-save section with a configuration that is consistent
\* and, if nobody else is saving, has all that was reported.
LEMMA EnterStep ==
  ASSUME Inv, NEW c \in Commands, NEW config \in Config, pc[c] \notin Saving,
         torn # "spliced" => Consistent(config),
         NEW reported \in Config, EnterSave(c, config, reported),
         UNCHANGED <<file, torn, peer>>,
         (serial /\ \A d \in Commands : pc[d] \notin Saving) =>
            /\ Holds(config, reported)
            /\ (Loadable /\ Holds(file, reported)) \/ (file = Missing /\ reported = DefaultConfig)
  PROVE  Inv'
<1> USE DEF Inv, EnterSave
<1>1. \A d \in Commands \ {c} : pc'[d] = pc[d] /\ snap'[d] = snap[d] BY DEF FileType
<1>2. pc'[c] = "ready" /\ snap'[c] = config BY DEF FileType
<1>3. FileType' BY <1>1, <1>2, DefaultOk DEF FileType, Places
<1>4. ConsistentInv' BY <1>1, <1>2 DEF ConsistentInv, Loadable
<1>5. ASSUME serial' PROVE SerialInv'
  <2>1. /\ serial /\ \A d \in Commands : pc[d] \notin Saving
        /\ added' = reported
    BY <1>5
  <2>2. /\ Holds(config, added')
        /\ (Loadable /\ Holds(file, added')) \/ (file = Missing /\ added' = DefaultConfig)
    BY <2>1
  <2>3. \A d \in Commands : pc'[d] \in Saving => d = c BY <1>1, <2>1
  <2>4. \A d \in Commands : pc'[d] # "writing" BY <1>1, <1>2, <2>1 DEF Saving
  <2>5. Holds(snap'[c], added') BY <1>2, <2>2
  <2>6. (Loadable /\ Holds(file, added))' \/ (file = Missing /\ added = DefaultConfig)'
    BY <2>2 DEF Loadable, Holds
  <2>7. \A d \in Commands : pc'[d] \in Saving => Holds(snap'[d], added') BY <2>3, <2>5
  <2>8. \A d, e \in Commands : pc'[d] \in Saving /\ pc'[e] \in Saving => d = e BY <2>3
  <2> QED BY <2>4, <2>6, <2>7, <2>8 DEF SerialInv, Holds
<1> QED BY <1>3, <1>4, <1>5

LEMMA FailsOk == ASSUME Inv, NEW c \in Commands, pc[c] # "writing", Fails(c) PROVE Inv'
<1>1. \A d \in Commands \ {c} : snap'[d] = snap[d] /\ peer'[d] = peer[d]
  BY DEF Fails, Forgets, Inv, FileType
<1>2. snap' \in [Commands -> Config] /\ peer' \in [Commands -> Nodes \cup {NoNode}]
  BY DefaultOk DEF Fails, Forgets, Inv, FileType
<1> QED BY <1>1, <1>2, QuietStep DEF Fails, store, Places, Saving

-----------------------------------------------------------------------------
LEMMA InitConfigOk == ASSUME Inv, NEW c \in Inits, InitConfig(c) PROVE Inv'
<1>1. c \in Commands BY DEF Commands
<1>2. pc[c] \notin Saving BY DEF InitConfig, Saving
<1>3. PICK force \in BOOLEAN :
        /\ force \/ file = Missing
        /\ EnterSave(c, DefaultConfig, IF force THEN DefaultConfig ELSE added)
  BY DEF InitConfig
<1> DEFINE reported == IF force THEN DefaultConfig ELSE added
<1>4. reported \in Config BY DefaultOk DEF Inv, FileType
<1>5. ASSUME serial, \A d \in Commands : pc[d] \notin Saving
      PROVE  /\ Holds(DefaultConfig, reported)
             /\ (Loadable /\ Holds(file, reported)) \/ (file = Missing /\ reported = DefaultConfig)
  <2>1. (Loadable /\ Holds(file, added)) \/ (file = Missing /\ added = DefaultConfig)
    BY <1>5 DEF Inv, SerialInv, Saving
  <2>2. CASE file = Missing
    BY <2>1, <2>2, DefaultOk, FileAssumption DEF Loadable
  <2>3. CASE file # Missing
    <3>1. reported = DefaultConfig BY <1>3, <2>3
    <3>2. file \in Config BY <2>1, <2>3 DEF Loadable
    <3>3. DefaultConfig.peers = {} /\ DefaultConfig.pairs = {} BY DEF DefaultConfig
    <3> HIDE DEF reported
    <3> QED BY <3>1, <3>2, <3>3 DEF Loadable, Holds
  <2> QED BY <2>2, <2>3
<1>6. EnterSave(c, DefaultConfig, reported) /\ UNCHANGED <<file, torn, peer>>
  BY <1>3 DEF InitConfig, store
<1> HIDE DEF reported
<1> QED BY <1>1, <1>2, <1>4, <1>5, <1>6, DefaultOk, EnterStep

\* A configuration that adds to the one in the file.
LEMMA Extending ==
  ASSUME Inv, NEW c \in Commands, NEW config \in Config, Loadable, pc[c] \notin Saving,
         torn # "spliced" => Consistent(config), EnterSave(c, config, added),
         Holds(config, file), UNCHANGED <<file, torn, peer>>
  PROVE  Inv'
<1>1. ASSUME serial, \A d \in Commands : pc[d] \notin Saving
      PROVE  Holds(config, added) /\ Loadable /\ Holds(file, added)
  <2>1. (Loadable /\ Holds(file, added)) \/ (file = Missing /\ added = DefaultConfig)
    BY <1>1 DEF Inv, SerialInv, Saving
  <2>2. file # Missing BY FileAssumption DEF Loadable
  <2> QED BY <2>1, <2>2 DEF Holds
<1>2. added \in Config BY DEF Inv, FileType
<1>3. (serial /\ \A d \in Commands : pc[d] \notin Saving) =>
         /\ Holds(config, added)
         /\ (Loadable /\ Holds(file, added)) \/ (file = Missing /\ added = DefaultConfig)
  BY <1>1
<1> QED BY <1>2, <1>3, EnterStep

LEMMA AddPairOk == ASSUME Inv, NEW c \in Adds, AddPair(c) PROVE Inv'
<1>1. c \in Commands /\ pc[c] \notin Saving /\ Loadable BY DEF Commands, AddPair, Saving
<1>2. PICK p \in Pairs : /\ \A q \in file.pairs : q.id # p.id
                         /\ p.remote \in file.peers
                         /\ EnterSave(c, [file EXCEPT !.pairs = @ \cup {p}], added)
  BY DEF AddPair
<1> DEFINE config == [file EXCEPT !.pairs = @ \cup {p}]
<1>3. file \in Config /\ (torn # "spliced" => Consistent(file))
  BY <1>1 DEF Inv, ConsistentInv, Loadable
<1>4. config \in Config /\ config.peers = file.peers /\ config.pairs = file.pairs \cup {p}
  BY <1>3 DEF Config
<1>5. torn # "spliced" => Consistent(config)
  BY <1>2, <1>3, <1>4 DEF Consistent, UniqueIds, PeersKnown
<1>6. Holds(config, file) BY <1>4 DEF Holds
<1>7. EnterSave(c, config, added) /\ UNCHANGED <<file, torn, peer>> BY <1>2 DEF AddPair, store
<1> HIDE DEF config
<1> QED BY <1>1, <1>4, <1>5, <1>6, <1>7, Extending

LEMMA SavePeerOk == ASSUME Inv, NEW c \in Waiting, SavePeer(c) PROVE Inv'
<1>1. c \in Commands /\ pc[c] \notin Saving /\ Loadable /\ peer[c] \in Nodes
  BY DEF Commands, SavePeer, Saving, Inv, FileType
<1> DEFINE config == [file EXCEPT !.peers = @ \cup {peer[c]}]
<1>2. file \in Config /\ (torn # "spliced" => Consistent(file))
  BY <1>1 DEF Inv, ConsistentInv, Loadable
<1>3. config \in Config /\ config.pairs = file.pairs /\ config.peers = file.peers \cup {peer[c]}
  BY <1>1, <1>2 DEF Config
<1>4. torn # "spliced" => Consistent(config)
  BY <1>2, <1>3 DEF Consistent, UniqueIds, PeersKnown
<1>5. Holds(config, file) BY <1>3 DEF Holds
<1>6. EnterSave(c, config, added) /\ UNCHANGED <<file, torn, peer>> BY DEF SavePeer, store
<1> HIDE DEF config
<1> QED BY <1>1, <1>3, <1>4, <1>5, <1>6, Extending

-----------------------------------------------------------------------------
LEMMA BeginSaveOk == ASSUME Inv, NEW c \in Commands, BeginSave(c) PROVE Inv'
<1> USE DEF BeginSave, Truncate, Inv
<1>1. \A d \in Commands \ {c} : pc'[d] = pc[d] BY DEF FileType
<1>2. pc[c] = "ready" /\ pc'[c] = "writing" BY DEF FileType
<1>3. FileType' BY <1>1, <1>2 DEF FileType, Places
<1>4. ConsistentInv' BY <1>1, <1>2, FileAssumption DEF ConsistentInv, Loadable, Saving
<1>5. ASSUME serial' PROVE SerialInv'
  BY <1>1, <1>2, <1>5 DEF SerialInv, Saving, Holds
<1> QED BY <1>3, <1>4, <1>5

LEMMA EndSaveOk == ASSUME Inv, NEW c \in Commands, EndSave(c) PROVE Inv'
<1> USE DEF EndSave, Inv
<1>1. \A d \in Commands \ {c} : pc'[d] = pc[d] /\ snap'[d] = snap[d] /\ peer'[d] = peer[d]
  BY DEF FileType, Forgets
<1>2. pc[c] = "writing" /\ pc'[c] = "done" BY DEF FileType
<1>3. \/ file' \in {snap[c], Garbage} /\ UNCHANGED torn
      \/ file' \in Mixtures \cup {Garbage} /\ torn' = "spliced"
  BY DEF Write, Spliced
<1>4. added' \in Config BY DEF FileType, Config
<1>5. snap[c] \in Config /\ (torn # "spliced" => Consistent(snap[c]))
  BY <1>2 DEF FileType, ConsistentInv, Saving
<1>6. FileType'
  BY <1>1, <1>2, <1>3, <1>4, <1>5, DefaultOk, FileAssumption DEF FileType, Forgets, Places
<1>7. ConsistentInv'
  <2> SUFFICES ASSUME torn' # "spliced"
               PROVE /\ file' \in Config => Consistent(file')
                     /\ \A d \in Commands : pc'[d] \in Saving => Consistent(snap'[d])
    BY DEF ConsistentInv, Loadable, Consistent, UniqueIds, PeersKnown
  <2>1. file' \in {snap[c], Garbage} /\ torn # "spliced" BY <1>3
  <2>2. file' \in Config => Consistent(file') BY <1>5, <2>1, FileAssumption
  <2>3. \A d \in Commands : pc'[d] \in Saving => Consistent(snap'[d])
    BY <1>1, <1>2, <2>1 DEF ConsistentInv, Saving
  <2> QED BY <2>2, <2>3
<1>8. ASSUME serial' PROVE SerialInv'
  <2>1. SerialInv BY <1>8
  <2>2. file' = snap[c] BY <1>2, <2>1 DEF SerialInv, Write
  <2>3. \A d \in Commands : pc'[d] \notin Saving BY <1>1, <1>2, <2>1 DEF SerialInv, Saving
  <2>4. added.peers \subseteq snap[c].peers /\ added.pairs \subseteq snap[c].pairs
    BY <1>2, <2>1 DEF SerialInv, Saving, Holds
  <2>5. added'.peers = snap[c].peers /\ added'.pairs = snap[c].pairs
    <3>1. added' = [peers |-> added.peers \cup snap[c].peers, pairs |-> added.pairs \cup snap[c].pairs]
      BY <1>8
    <3>2. /\ added'.peers = added.peers \cup snap[c].peers
          /\ added'.pairs = added.pairs \cup snap[c].pairs
      BY <3>1
    <3> QED BY <2>4, <3>2
  <2>6. file' \in Config /\ Holds(file', added') BY <1>5, <2>2, <2>5 DEF Holds
  <2>7. \A d \in Commands : pc'[d] # "writing" BY <2>3 DEF Saving
  <2> QED BY <2>3, <2>6, <2>7 DEF SerialInv, Loadable, Holds
<1> QED BY <1>6, <1>7, <1>8

LEMMA SaveCutShortOk == ASSUME Inv, NEW c \in Commands, SaveCutShort(c) PROVE Inv'
<1> USE DEF SaveCutShort, Inv
<1>1. \A d \in Commands \ {c} : pc'[d] = pc[d] /\ snap'[d] = snap[d] /\ peer'[d] = peer[d]
  BY DEF FileType, Forgets
<1>2. pc[c] = "writing" /\ pc'[c] = "failed" BY DEF FileType
<1>3. snap[c] \in Config /\ (torn # "spliced" => Consistent(snap[c]))
  BY <1>2 DEF FileType, ConsistentInv, Saving
<1>4. \/ UNCHANGED <<file, torn>>
      \/ /\ file' \in Beginnings(snap[c]) \cup {Garbage}
         /\ torn' = IF torn = "no" THEN "cut" ELSE torn
      \/ file' \in Mixtures \cup {Garbage} /\ torn' = "spliced"
  BY DEF CutShort, Spliced
<1>5. /\ file' \in Config \cup {Missing, Empty, Garbage}
      /\ torn' \in {"no", "cut", "spliced"}
  BY <1>3, <1>4, BeginningsOk, FileAssumption DEF FileType
<1>6. FileType' BY <1>1, <1>2, <1>5, DefaultOk DEF FileType, Forgets, Places
<1>7. ConsistentInv'
  <2> SUFFICES ASSUME torn' # "spliced"
               PROVE /\ file' \in Config => Consistent(file')
                     /\ \A d \in Commands : pc'[d] \in Saving => Consistent(snap'[d])
    BY DEF ConsistentInv, Loadable, Consistent, UniqueIds, PeersKnown
  <2>1. torn # "spliced" BY <1>4
  <2>2. file' \in Config => Consistent(file')
    <3>1. CASE file' = file BY <2>1, <3>1 DEF ConsistentInv, Loadable
    <3>2. CASE file' \in Beginnings(snap[c]) BY <1>3, <2>1, <3>2, BeginningsOk
    <3> QED BY <1>4, <3>1, <3>2, FileAssumption
  <2>3. \A d \in Commands : pc'[d] \in Saving => Consistent(snap'[d])
    BY <1>1, <1>2, <2>1 DEF ConsistentInv, Saving
  <2> QED BY <2>2, <2>3
<1> QED BY <1>6, <1>7

-----------------------------------------------------------------------------
LEMMA ServeOk == ASSUME Inv, NEW c \in Serves, Serve(c) PROVE Inv'
<1>1. c \in Commands BY DEF Commands
<1> QED BY <1>1, QuietStep DEF Serve, store, Inv, FileType, Places, Saving

LEMMA StartConnectOk == ASSUME Inv, NEW c \in Starts, StartConnect(c) PROVE Inv'
<1>1. c \in Commands BY DEF Commands, Waiting
<1>2. snap' \in [Commands -> Config] /\ \A d \in Commands \ {c} : snap'[d] = snap[d]
  BY DEF StartConnect, Loadable, Inv, FileType
<1> QED BY <1>1, <1>2, QuietStep DEF StartConnect, store, Inv, FileType, Places, Saving

LEMMA ConnectLoadsOk == ASSUME Inv, NEW c \in Connects, ConnectLoads(c) PROVE Inv'
<1>1. c \in Commands BY DEF Commands, Waiting
<1>2. snap' \in [Commands -> Config] /\ \A d \in Commands \ {c} : snap'[d] = snap[d]
  BY DEF ConnectLoads, Loadable, Inv, FileType
<1> QED BY <1>1, <1>2, QuietStep DEF ConnectLoads, store, Inv, FileType, Places, Saving

LEMMA ConnectJoinsOk == ASSUME Inv, NEW c \in Connects, ConnectJoins(c) PROVE Inv'
<1>1. c \in Commands BY DEF Commands, Waiting
<1> QED BY <1>1, QuietStep DEF ConnectJoins, store, Inv, FileType, Places, Saving

LEMMA PairedOk == ASSUME Inv, NEW c \in Waiting, Paired(c) PROVE Inv'
<1>1. c \in Commands BY DEF Commands
<1>2. PICK n \in Nodes : peer' = [peer EXCEPT ![c] = n] BY DEF Paired
<1>3. /\ peer' \in [Commands -> Nodes \cup {NoNode}] /\ peer'[c] \in Nodes
      /\ \A d \in Commands \ {c} : peer'[d] = peer[d]
  BY <1>1, <1>2 DEF Inv, FileType
<1> QED BY <1>1, <1>3, QuietStep DEF Paired, store, Inv, FileType, Places, Saving

LEMMA StepOk == Inv /\ [Next]_vars => Inv'
<1> SUFFICES ASSUME Inv, [Next]_vars PROVE Inv' OBVIOUS
<1> USE DEF Commands, Waiting
<1>1. ASSUME NEW c \in Commands, Save(c) PROVE Inv'
  <2>1. ASSUME CannotOpen(c) PROVE Inv' BY <2>1, FailsOk DEF CannotOpen
  <2> QED BY <1>1, <2>1, BeginSaveOk, EndSaveOk, SaveCutShortOk DEF Save
<1>2. ASSUME NEW c \in Inits, InitConfig(c) \/ InitRefused(c) PROVE Inv'
  BY <1>2, InitConfigOk, FailsOk DEF InitRefused
<1>3. ASSUME NEW c \in Commands \ Inits, LoadFails(c) PROVE Inv'
  BY <1>3, FailsOk DEF LoadFails
<1>4. ASSUME NEW c \in Adds, AddPair(c) \/ AddRefused(c) PROVE Inv'
  BY <1>4, AddPairOk, FailsOk DEF AddRefused
<1>5. ASSUME NEW c \in Serves, Serve(c) \/ ServeRefused(c) PROVE Inv'
  BY <1>5, ServeOk, FailsOk DEF ServeRefused
<1>6. ASSUME NEW c \in Starts, StartConnect(c) PROVE Inv'
  BY <1>6, StartConnectOk
<1>7. ASSUME NEW c \in Connects, ConnectLoads(c) \/ ConnectJoins(c) \/ ConnectRefused(c) PROVE Inv'
  BY <1>7, ConnectLoadsOk, ConnectJoinsOk, FailsOk DEF ConnectRefused
<1>8. ASSUME NEW c \in Waiting, Paired(c) \/ PairingFails(c) \/ SavePeer(c) \/ SavePeerFails(c)
      PROVE  Inv'
  <2>1. c \in Commands BY <1>8
  <2> QED BY <1>8, <2>1, PairedOk, SavePeerOk, FailsOk DEF PairingFails, SavePeerFails
<1>9. CASE UNCHANGED vars
  BY <1>9 DEF vars, store, Inv, FileType, ConsistentInv, SerialInv, Loadable, Saving, Holds,
              Consistent, UniqueIds, PeersKnown
<1> QED BY <1>1, <1>2, <1>3, <1>4, <1>5, <1>6, <1>7, <1>8, <1>9 DEF Next

LEMMA Always == Spec => []Inv
BY InitOk, StepOk, PTL DEF Spec

\* Whatever updates overlapping commands lose and wherever saves are cut short, a file
\* that loads has unique pair ids and knows the peer of every pair, unless a save cut
\* short overlapped another.
THEOREM ConfigurationServes == Spec => []FileServes
<1>1. Inv => FileServes BY DEF Inv, ConsistentInv, Consistent, FileServes
<1> QED BY <1>1, Always, PTL

\* Commands whose load-to-save sections do not overlap keep each other's entries,
\* although pairing works for long with an old configuration.
THEOREM SerialUpdatesSurvive == Spec => []SerialUpdatesKept
<1>1. Inv => SerialUpdatesKept
  <2> SUFFICES ASSUME Inv, serial
               PROVE \/ Loadable /\ Holds(file, added)
                     \/ file = Missing /\ added = DefaultConfig
                     \/ \E c \in Commands : pc[c] = "writing" /\ Holds(snap[c], added)
    BY DEF SerialUpdatesKept
  <2>1. CASE \E c \in Commands : pc[c] = "writing"
    BY <2>1 DEF Inv, SerialInv, Saving
  <2>2. CASE \A c \in Commands : pc[c] # "writing"
    BY <2>2 DEF Inv, SerialInv
  <2> QED BY <2>1, <2>2
<1> QED BY <1>1, Always, PTL

-----------------------------------------------------------------------------
(* What a user types for a code is decoded to it.                          *)

\* In small letters a text spells the same digits.
LEMMA SmallSpells ==
  ASSUME NEW text \in Seq(Chars), NEW v \in Seq(Digit), NEW f, Spells(text, v, f)
  PROVE  Small(text) \in Seq(Chars) /\ Spells(Small(text), v, f)
<1> DEFINE small(ch) == IF ch = "-" THEN "-" ELSE Base32Small[Base32Decode[ch] + 1]
           t == [i \in 1 .. Len(text) |-> small(text[i])]
<1>1. \A i \in 1 .. Len(text) : text[i] = "-" \/ text[i] \in Letters BY DEF Chars
<1>2. ASSUME NEW ch \in Letters
      PROVE  /\ Base32Small[Base32Decode[ch] + 1] \in Letters
             /\ Base32Small[Base32Decode[ch] + 1] # "-"
             /\ Base32Decode[Base32Small[Base32Decode[ch] + 1]] = Base32Decode[ch]
  BY LetterValues, LetterBack, NoDash
<1>3. Small(text) = t BY DEF Small
<1>4. ASSUME NEW i \in 1 .. Len(text)
      PROVE  /\ small(text[i]) \in Chars
             /\ IF text[i] = "-" THEN small(text[i]) = "-"
                ELSE small(text[i]) # "-" /\ Base32Decode[small(text[i])] = Base32Decode[text[i]]
  BY <1>1, <1>2 DEF Chars
<1> HIDE DEF small
<1>5. t \in Seq(Chars) /\ Len(t) = Len(text)
  <2>1. \E m \in Nat : t \in [1 .. m -> Chars] BY <1>4
  <2>2. t \in Seq(Chars) BY <2>1
  <2>3. DOMAIN t = 1 .. Len(text) /\ Len(text) \in Nat OBVIOUS
  <2> HIDE DEF t
  <2> QED BY <2>2, <2>3
<1>6. \A i \in 1 .. Len(text) :
        IF text[i] = "-" THEN t[i] = "-"
        ELSE t[i] # "-" /\ Base32Decode[t[i]] = Base32Decode[text[i]]
  BY <1>4
<1> HIDE DEF t
<1>7. Spells(t, v, f) BY <1>5, <1>6, SpellsToo
<1> QED BY <1>3, <1>5, <1>7

\* With O for 0 and l for 1 it spells the same digits.
LEMMA MisreadSpells ==
  ASSUME NEW text \in Seq(Chars), NEW v \in Seq(Digit), NEW f, Spells(text, v, f)
  PROVE  Misread(text) \in Seq(Chars) /\ Spells(Misread(text), v, f)
<1> DEFINE read(ch) == IF ch = "0" THEN "O" ELSE IF ch = "1" THEN "l" ELSE ch
           t == [i \in 1 .. Len(text) |-> read(text[i])]
<1>1. \A i \in 1 .. Len(text) : text[i] = "-" \/ text[i] \in Letters BY DEF Chars
<1>2. ASSUME NEW ch \in Letters
      PROVE  read(ch) \in Letters /\ Base32Decode[read(ch)] = Base32Decode[ch]
  <2>1. CASE ch = "0" BY <2>1, AliasValues
  <2>2. CASE ch = "1" BY <2>2, AliasValues
  <2>3. CASE ch # "0" /\ ch # "1" BY <2>3
  <2> QED BY <2>1, <2>2, <2>3
<1>3. read("-") = "-" OBVIOUS
<1>4. Misread(text) = t BY DEF Misread
<1> HIDE DEF read
<1>5. ASSUME NEW i \in 1 .. Len(text)
      PROVE  /\ read(text[i]) \in Chars
             /\ IF text[i] = "-" THEN read(text[i]) = "-"
                ELSE read(text[i]) # "-" /\ Base32Decode[read(text[i])] = Base32Decode[text[i]]
  BY <1>1, <1>2, <1>3, NoDash DEF Chars
<1>6. t \in Seq(Chars) /\ Len(t) = Len(text)
  <2>1. \E m \in Nat : t \in [1 .. m -> Chars] BY <1>5
  <2>2. t \in Seq(Chars) BY <2>1
  <2>3. DOMAIN t = 1 .. Len(text) /\ Len(text) \in Nat OBVIOUS
  <2> HIDE DEF t
  <2> QED BY <2>2, <2>3
<1>7. \A i \in 1 .. Len(text) :
        IF text[i] = "-" THEN t[i] = "-"
        ELSE t[i] # "-" /\ Base32Decode[t[i]] = Base32Decode[text[i]]
  BY <1>5
<1> HIDE DEF t
<1>8. Spells(t, v, f) BY <1>6, <1>7, SpellsToo
<1> QED BY <1>4, <1>6, <1>8

\* However a code is retyped, it is decoded to that code.
LEMMA RetypedDecodes ==
  ASSUME NEW k \in PairingCodes, NEW t \in Retyped(Encode(k))
  PROVE  t \in Seq(Chars) /\ Decodes(t) /\ Decode(t) = k
<1> DEFINE v == Quints(Layout(k))
           text == Encode(k)
<1>1. v \in Seq(Digit) BY LayoutIs, QuintsType
<1>2. text \in Seq(Chars) BY EncodeSpells
<1>3. PICK f : Spells(text, v, f) BY EncodeSpells
<1>4. t \in Retyped(text) OBVIOUS
<1> SUFFICES t \in Seq(Chars) /\ \E g : Spells(t, v, g) BY SpelledCode
<1> HIDE DEF v, text
<1>5. Cleaned(text) \in Seq(Chars) /\ \E g : Spells(Cleaned(text), v, g)
  BY <1>1, <1>2, <1>3, SpellsCleaned
<1>6. Small(text) \in Seq(Chars) /\ Spells(Small(text), v, f) BY <1>1, <1>2, <1>3, SmallSpells
<1>7. Misread(Small(text)) \in Seq(Chars) /\ Spells(Misread(Small(text)), v, f)
  BY <1>1, <1>6, MisreadSpells
<1>8. /\ <<"-">> \o Misread(Small(text)) \in Seq(Chars)
      /\ \E g : Spells(<<"-">> \o Misread(Small(text)), v, g)
  BY <1>1, <1>7, SpellsAfterDash
<1>9. \/ t = text \/ t = Cleaned(text)
       \/ t = <<"-">> \o Misread(Small(text))
  BY <1>4 DEF Retyped
<1> QED BY <1>2, <1>3, <1>5, <1>8, <1>9

\* What is typed in place of a code is a text too.
LEMMA SlipsText ==
  ASSUME NEW k \in PairingCodes, NEW t \in Slips(Encode(k))
  PROVE  \E T : t \in Seq(T)
<1> DEFINE text == Encode(k)
           T == Chars \cup {"0", "7", "8", "U"}
<1>1. text \in Seq(T)
  <2>1. text \in Seq(Chars) BY EncodeSpells
  <2> HIDE DEF text
  <2>2. \A i \in 1 .. Len(text) : text[i] \in T BY <2>1
  <2> HIDE DEF T
  <2> QED BY <2>1, <2>2
<1>2. {"0", "7", "8", "U"} \subseteq T OBVIOUS
<1>3. t \in Slips(text) OBVIOUS
<1> HIDE DEF text, T
<1>4. <<"0">> \in Seq(T) BY <1>2
<1>5. Front(text) \in Seq(T)
  <2>1. Len(text) \in Nat /\ \A i \in 1 .. Len(text) - 1 : text[i] \in T BY <1>1
  <2> QED BY <1>1, <2>1 DEF Front
<1>6. text \o <<"0">> \in Seq(T) BY <1>1, <1>4
<1>7. ASSUME NEW i \in {1, 14, Len(text)}, NEW ch \in T PROVE [text EXCEPT ![i] = ch] \in Seq(T)
  <2>1. text \in [1 .. Len(text) -> T] /\ Len(text) \in Nat BY <1>1
  <2> DEFINE e == [text EXCEPT ![i] = ch]
  <2>2. e \in [1 .. Len(text) -> T] BY <2>1
  <2> HIDE DEF e
  <2>3. \E m \in Nat : e \in [1 .. m -> T] BY <2>1, <2>2
  <2>4. e \in Seq(T) BY <2>3
  <2> QED BY <2>4 DEF e
<1>8. ASSUME NEW i \in {1, 14, Len(text)}
      PROVE  [text EXCEPT ![i] = IF @ = "7" THEN "8" ELSE "7"] \in Seq(T)
  <2> DEFINE ch == IF text[i] = "7" THEN "8" ELSE "7"
  <2>1. ch \in T BY <1>2
  <2>2. [text EXCEPT ![i] = IF @ = "7" THEN "8" ELSE "7"] = [text EXCEPT ![i] = ch] OBVIOUS
  <2> HIDE DEF ch
  <2> QED BY <1>7, <2>1, <2>2
<1>9. t = [text EXCEPT ![1] = "U"] => t \in Seq(T) BY <1>2, <1>7
<1>10. (\E i \in {14, Len(text)} : t = [text EXCEPT ![i] = IF @ = "7" THEN "8" ELSE "7"])
          => t \in Seq(T)
  BY <1>8
<1>11. \/ t \in {Front(text), text \o <<"0">>}
       \/ t = [text EXCEPT ![1] = "U"]
       \/ \E i \in {14, Len(text)} : t = [text EXCEPT ![i] = IF @ = "7" THEN "8" ELSE "7"]
  BY <1>3 DEF Slips
<1>12. t \in Seq(T) BY <1>4, <1>5, <1>6, <1>9, <1>10, <1>11
<1> QED BY <1>12

\* What connect is given.
LEMMA TypedIs ==
  ASSUME NEW g \in Typed
  PROVE  /\ g.code \in Codes /\ g.code \in PairingCodes /\ \E T : g.text \in Seq(T)
         /\ g.same => g.text \in Retyped(Encode(g.code))
<1>1. PICK k \in Codes :
        \/ g \in [code : {k}, text : Retyped(Encode(k)), same : {TRUE}]
        \/ g \in [code : {k}, text : Slips(Encode(k)), same : {FALSE}]
  BY DEF Typed
<1>2. k \in PairingCodes BY CommandsAssumption
<1>3. CASE g \in [code : {k}, text : Retyped(Encode(k)), same : {TRUE}]
  <2>1. g.code = k /\ g.text \in Retyped(Encode(k)) BY <1>3
  <2>2. g.text \in Seq(Chars) BY <1>2, <2>1, RetypedDecodes
  <2> QED BY <1>2, <2>1, <2>2
<1>4. CASE g \in [code : {k}, text : Slips(Encode(k)), same : {FALSE}]
  <2>1. g.code = k /\ g.text \in Slips(Encode(k)) /\ g.same = FALSE BY <1>4
  <2>2. \E T : g.text \in Seq(T) BY <1>2, <2>1, SlipsText
  <2> QED BY <1>2, <2>1, <2>2
<1> QED BY <1>1, <1>3, <1>4

-----------------------------------------------------------------------------
(* connect.                                                                *)

\* What is typed is one of the texts a user may type, and what connect made of the
\* last one is a code.
TextInv ==
  /\ given \in [Connects -> Typed \cup {NoCode}]
  /\ code \in [Connects -> PairingCodes \cup {NoCode}]
  /\ \A c \in Connects : pc[c] = "typed" => given[c] \in Typed
  /\ serial \in BOOLEAN

LEMMA ConnectsRun == Connects \subseteq Commands
BY DEF Commands, Waiting

\* A step of c that does not take it to where it reads a code.
LEMMA NothingTyped ==
  ASSUME FileType, TextInv, NEW c \in Commands, NEW s, s # "typed",
         pc' = [pc EXCEPT ![c] = s], serial' \in BOOLEAN,
         UNCHANGED code \/ code' = Without(code, c),
         UNCHANGED given \/ given' = Without(given, c)
  PROVE  TextInv'
<1>1. \A d \in Connects : pc'[d] = "typed" => pc[d] = "typed" /\ d # c
  BY ConnectsRun DEF FileType
<1>2. given' \in [Connects -> Typed \cup {NoCode}] BY DEF TextInv, Without
<1>3. \A d \in Connects \ {c} : given'[d] = given[d] BY DEF TextInv, Without
<1>4. code' \in [Connects -> PairingCodes \cup {NoCode}] BY DEF TextInv, Without
<1> QED BY <1>1, <1>2, <1>3, <1>4 DEF TextInv

LEMMA FailsText == ASSUME FileType, TextInv, NEW c \in Commands, Fails(c) PROVE TextInv'
<1>1. serial' \in BOOLEAN BY DEF Fails, TextInv
<1> QED BY <1>1, NothingTyped DEF Fails

LEMMA EnterText ==
  ASSUME FileType, TextInv, NEW c \in Commands, NEW config, NEW reported,
         EnterSave(c, config, reported), UNCHANGED <<given, code>>
  PROVE  TextInv'
<1>1. serial' \in BOOLEAN BY DEF EnterSave
<1> QED BY <1>1, NothingTyped DEF EnterSave

LEMMA SaveText == ASSUME FileType, TextInv, NEW c \in Commands, Save(c) PROVE TextInv'
<1>1. CASE BeginSave(c) BY <1>1, NothingTyped DEF BeginSave, TextInv
<1>2. CASE CannotOpen(c) BY <1>2, FailsText DEF CannotOpen
<1>3. CASE EndSave(c) BY <1>3, NothingTyped DEF EndSave, TextInv
<1>4. CASE SaveCutShort(c) BY <1>4, NothingTyped DEF SaveCutShort
<1> QED BY <1>1, <1>2, <1>3, <1>4 DEF Save

LEMMA ConnectText ==
  ASSUME FileType, TextInv, NEW c \in Connects,
         ConnectLoads(c) \/ ConnectJoins(c) \/ ConnectRefused(c)
  PROVE  TextInv'
<1>0. c \in Commands BY ConnectsRun
<1>1. CASE ConnectLoads(c)
  <2>1. PICK t \in Typed : given' = [given EXCEPT ![c] = t] BY <1>1 DEF ConnectLoads
  <2>2. \A d \in Commands \ {c} : pc'[d] = pc[d] BY <1>1 DEF ConnectLoads, FileType
  <2>3. \A d \in Connects \ {c} : given'[d] = given[d] /\ pc'[d] = pc[d]
    BY <2>1, <2>2, ConnectsRun DEF TextInv
  <2>4. given'[c] = t /\ given' \in [Connects -> Typed \cup {NoCode}] BY <2>1 DEF TextInv
  <2> QED BY <1>1, <2>3, <2>4 DEF ConnectLoads, TextInv
<1>2. CASE ConnectJoins(c)
  <2>1. given[c] \in Typed BY <1>2 DEF ConnectJoins, TextInv
  <2>2. PICK T : given[c].text \in Seq(T) BY <2>1, TypedIs
  <2>3. Decode(given[c].text) \in PairingCodes
    <3>1. Decodes(given[c].text) BY <1>2 DEF ConnectJoins, Accepts
    <3> QED BY <2>2, <3>1, DecodedType
  <2>4. code' \in [Connects -> PairingCodes \cup {NoCode}] BY <1>2, <2>3 DEF ConnectJoins, TextInv
  <2>5. \A d \in Connects : pc'[d] = "typed" => pc[d] = "typed" /\ d # c
    BY <1>0, <1>2, ConnectsRun DEF ConnectJoins, FileType
  <2>6. /\ given' \in [Connects -> Typed \cup {NoCode}]
        /\ \A d \in Connects \ {c} : given'[d] = given[d]
    BY <1>2 DEF ConnectJoins, Without, TextInv
  <2> QED BY <1>2, <2>4, <2>5, <2>6 DEF ConnectJoins, TextInv
<1>3. CASE ConnectRefused(c) BY <1>0, <1>3, FailsText DEF ConnectRefused
<1> QED BY <1>1, <1>2, <1>3

LEMMA TextStep == FileType /\ TextInv /\ [Next]_vars => TextInv'
<1> SUFFICES ASSUME FileType, TextInv, [Next]_vars PROVE TextInv' OBVIOUS
<1> USE DEF Commands, Waiting
<1>1. ASSUME NEW c \in Commands, Save(c) PROVE TextInv' BY <1>1, SaveText
<1>2. ASSUME NEW c \in Inits, InitConfig(c) \/ InitRefused(c) PROVE TextInv'
  BY <1>2, EnterText, FailsText DEF InitConfig, InitRefused
<1>3. ASSUME NEW c \in Commands \ Inits, LoadFails(c) PROVE TextInv'
  BY <1>3, FailsText DEF LoadFails
<1>4. ASSUME NEW c \in Adds, AddPair(c) \/ AddRefused(c) PROVE TextInv'
  BY <1>4, EnterText, FailsText DEF AddPair, AddRefused
<1>5. ASSUME NEW c \in Serves, Serve(c) \/ ServeRefused(c) PROVE TextInv'
  <2>1. CASE Serve(c)
    <3>1. serial' \in BOOLEAN BY <2>1 DEF Serve, TextInv
    <3> QED BY <2>1, <3>1, NothingTyped DEF Serve
  <2> QED BY <1>5, <2>1, FailsText DEF ServeRefused
<1>6. ASSUME NEW c \in Starts, StartConnect(c) PROVE TextInv'
  <2>1. serial' \in BOOLEAN BY <1>6 DEF StartConnect, TextInv
  <2> QED BY <1>6, <2>1, NothingTyped DEF StartConnect
<1>7. ASSUME NEW c \in Connects, ConnectLoads(c) \/ ConnectJoins(c) \/ ConnectRefused(c) PROVE TextInv'
  BY <1>7, ConnectText
<1>8. ASSUME NEW c \in Waiting, Paired(c) \/ PairingFails(c) \/ SavePeer(c) \/ SavePeerFails(c)
      PROVE  TextInv'
  <2>1. c \in Commands BY <1>8
  <2>2. CASE Paired(c)
    <3>1. serial' \in BOOLEAN BY <2>2 DEF Paired, TextInv
    <3> QED BY <2>1, <2>2, <3>1, NothingTyped DEF Paired
  <2>3. CASE SavePeer(c) BY <2>1, <2>3, EnterText DEF SavePeer
  <2> QED BY <1>8, <2>1, <2>2, <2>3, FailsText DEF PairingFails, SavePeerFails
<1>9. CASE UNCHANGED vars BY <1>9 DEF vars, store, TextInv
<1> QED BY <1>1, <1>2, <1>3, <1>4, <1>5, <1>6, <1>7, <1>8, <1>9 DEF Next

LEMMA TextAlways == Spec => []TextInv
<1>1. Init => TextInv
  <2> SUFFICES ASSUME Init PROVE TextInv OBVIOUS
  <2>1. \A c \in Connects : pc[c] = "new" BY ConnectsRun DEF Init
  <2>2. given = [c \in Connects |-> NoCode] /\ code = [c \in Connects |-> NoCode] /\ serial = TRUE
    BY DEF Init
  <2> QED BY <2>1, <2>2 DEF TextInv
<1>2. Inv => FileType BY DEF Inv
<1> QED BY <1>1, <1>2, TextStep, Always, PTL DEF Spec

\* Every variable holds values of its type; above all, whatever connect decodes has
\* fields of bytes and a port of sixteen bits.
THEOREM TypeCorrect == Spec => []TypeOK
<1>1. ASSUME TextInv, NEW c \in Connects
      PROVE  /\ code[c] \in PairingCodes \cup {NoCode}
             /\ given[c] = NoCode \/ given[c].code \in PairingCodes
  BY <1>1, TypedIs DEF TextInv
<1>2. Inv /\ TextInv => TypeOK BY <1>1 DEF Inv, FileType, TextInv, TypeOK, Places
<1> QED BY <1>2, Always, TextAlways, PTL

\* A step that takes c from where it reads a code is the reading.
LEMMA ReadStep ==
  ASSUME Inv, [Next]_vars, NEW c \in Connects, pc[c] = "typed", pc'[c] # "typed"
  PROVE  ConnectJoins(c) \/ ConnectRefused(c)
<1>0. c \in Commands BY ConnectsRun
<1>1. ASSUME NEW d \in Commands, NEW s, pc' = [pc EXCEPT ![d] = s] PROVE d = c
  BY <1>0, <1>1 DEF Inv, FileType
<1>2. ASSUME NEW d \in Commands, Fails(d) PROVE d = c BY <1>1, <1>2 DEF Fails
<1>3. ASSUME NEW d \in Commands, NEW config, NEW reported, EnterSave(d, config, reported) PROVE d = c
  BY <1>1, <1>3 DEF EnterSave
<1>4. pc' # pc BY <1>0
<1> USE DEF Commands, Waiting
<1>5. ASSUME NEW d \in Commands, Save(d) PROVE FALSE
  <2>1. d = c
    BY <1>1, <1>2, <1>5 DEF Save, BeginSave, CannotOpen, EndSave, SaveCutShort
  <2>2. pc[d] \in Saving BY <1>5 DEF Save, BeginSave, CannotOpen, EndSave, SaveCutShort, Saving
  <2> QED BY <2>1, <2>2 DEF Saving
<1>6. ASSUME NEW d \in Inits, InitConfig(d) \/ InitRefused(d) PROVE FALSE
  <2>1. pc[d] = "new" BY <1>6 DEF InitConfig, InitRefused
  <2> QED BY <1>2, <1>3, <1>6, <2>1 DEF InitConfig, InitRefused
<1>7. ASSUME NEW d \in Commands \ Inits, LoadFails(d) PROVE FALSE
  BY <1>2, <1>7 DEF LoadFails
<1>8. ASSUME NEW d \in Adds, AddPair(d) \/ AddRefused(d) PROVE FALSE
  BY <1>2, <1>3, <1>8 DEF AddPair, AddRefused
<1>9. ASSUME NEW d \in Serves, Serve(d) \/ ServeRefused(d) PROVE FALSE
  BY <1>1, <1>2, <1>9 DEF Serve, ServeRefused
<1>10. ASSUME NEW d \in Starts, StartConnect(d) PROVE FALSE
  BY <1>1, <1>10 DEF StartConnect
<1>11. ASSUME NEW d \in Connects, ConnectLoads(d) PROVE FALSE
  BY <1>1, <1>11 DEF ConnectLoads
<1>12. ASSUME NEW d \in Connects, ConnectJoins(d) PROVE ConnectJoins(c)
  <2>1. d = c BY <1>1, <1>12 DEF ConnectJoins
  <2> QED BY <1>12, <2>1
<1>13. ASSUME NEW d \in Connects, ConnectRefused(d) PROVE ConnectRefused(c)
  <2>1. d = c BY <1>2, <1>13 DEF ConnectRefused
  <2> QED BY <1>13, <2>1
<1>14. ASSUME NEW d \in Waiting, Paired(d) \/ PairingFails(d) \/ SavePeer(d) \/ SavePeerFails(d)
       PROVE  FALSE
  <2>1. d \in Commands BY <1>14
  <2>2. d = c
    BY <1>1, <1>2, <1>3, <1>14, <2>1 DEF Paired, PairingFails, SavePeer, SavePeerFails
  <2>3. pc[d] \in {"pairing", "paired"}
    BY <1>14 DEF Paired, PairingFails, SavePeer, SavePeerFails
  <2> QED BY <2>2, <2>3
<1>15. CASE UNCHANGED vars BY <1>4, <1>15 DEF vars
<1> QED
  BY <1>5, <1>6, <1>7, <1>8, <1>9, <1>10, <1>11, <1>12, <1>13, <1>14, <1>15 DEF Next

\* A code typed without its dashes, in small letters, with O for 0 or l for 1 is read
\* as the code it was, and connect joins or refuses as that code says, for any codes.
THEOREM CodesAreReadBack == Spec => CodeReadBack
<1>1. ASSUME Inv, TextInv, [Next]_vars, NEW c \in Connects,
             pc[c] = "typed", pc'[c] # "typed", given[c].same
      PROVE  IF VerifyNetwork(given[c].code, MyName, MySecret) /\ CanJoin(given[c].code)
             THEN pc'[c] = "pairing" /\ code'[c] = given[c].code
             ELSE pc'[c] = "failed"
  <2> DEFINE k == given[c].code
             text == given[c].text
  <2>1. k \in PairingCodes /\ text \in Retyped(Encode(k)) BY <1>1, TypedIs DEF TextInv
  <2>2. Decodes(text) /\ Decode(text) = k BY <2>1, RetypedDecodes
  <2>3. Accepts(text) <=> VerifyNetwork(k, MyName, MySecret) /\ CanJoin(k) BY <2>2 DEF Accepts
  <2>4. c \in DOMAIN pc /\ c \in DOMAIN code BY <1>1, ConnectsRun DEF Inv, FileType, TextInv
  <2>5. CASE ConnectJoins(c)
    <3>1. Accepts(text) /\ code'[c] = Decode(text) /\ pc'[c] = "pairing"
      BY <2>4, <2>5 DEF ConnectJoins
    <3> QED BY <2>2, <2>3, <3>1
  <2>6. CASE ConnectRefused(c)
    <3>1. ~Accepts(text) /\ pc'[c] = "failed" BY <2>4, <2>6 DEF ConnectRefused, Fails
    <3> QED BY <2>3, <3>1
  <2> QED BY <1>1, <2>5, <2>6, ReadStep
<1>2. Inv /\ TextInv /\ [Next]_vars =>
        [\A c \in Connects :
           pc[c] = "typed" /\ pc'[c] # "typed" /\ given[c].same =>
             IF VerifyNetwork(given[c].code, MyName, MySecret) /\ CanJoin(given[c].code)
             THEN pc'[c] = "pairing" /\ code'[c] = given[c].code
             ELSE pc'[c] = "failed"]_vars
  BY <1>1
<1> QED BY <1>2, Always, TextAlways, PTL DEF Spec, CodeReadBack

\* Of whatever is typed, right or wrong, connect reads the bits of the characters,
\* regrouped.
THEOREM BytesAreTheBits == Spec => BytesAreRegroupedBits
<1>1. ASSUME TextInv, NEW c \in Connects, pc[c] = "typed", Readable(given[c].text)
      PROVE  BytesOf(given[c].text) = Regrouped(given[c].text)
  <2>1. given[c] \in Typed BY <1>1 DEF TextInv
  <2>2. PICK T : given[c].text \in Seq(T) BY <2>1, TypedIs
  <2> QED BY <1>1, <2>2, DecodingRegroupsBits
<1>2. TextInv =>
        [\A c \in Connects :
           pc[c] = "typed" /\ pc'[c] # "typed" /\ Readable(given[c].text) =>
             BytesOf(given[c].text) = Regrouped(given[c].text)]_vars
  BY <1>1
<1> QED BY <1>2, TextAlways, PTL DEF BytesAreRegroupedBits
=============================================================================
