-------------------------- MODULE SyncDaemon_proofs --------------------------
(***************************************************************************)
(* Proofs about the comparison of indexes, for any two indexes, and about  *)
(* SyncDaemon, for any set of nodes, paths and contents.                   *)
(***************************************************************************)
EXTENDS SyncDaemon, SequenceTheorems, TLAPS

\* The two lists of diff_indexes have no path in common (sync.rs:155-206).
THEOREM ListsAreDisjoint ==
  ASSUME NEW l \in Indexes, NEW r \in Indexes
  PROVE  LocalOnly(l, r) \cap RemoteOnly(l, r) = {}
  BY DEF LocalOnly, RemoteOnly, NewerHere, NotNewerHere, Listed

\* Together they are the paths on which the indexes differ.
THEOREM ListsAreComplete ==
  ASSUME NEW l \in Indexes, NEW r \in Indexes
  PROVE  LocalOnly(l, r) \cup RemoteOnly(l, r) = Differ(l, r)
  BY DEF LocalOnly, RemoteOnly, NewerHere, NotNewerHere, Differ, Listed

\* What one node takes for its own newer file, the other one requests when it
\* compares the same two indexes.
THEOREM OffersAreRequested ==
  ASSUME NEW l \in Indexes, NEW r \in Indexes
  PROVE  LocalOnly(l, r) \subseteq RemoteOnly(r, l)
  <1> SUFFICES ASSUME NEW p \in LocalOnly(l, r) PROVE p \in RemoteOnly(r, l)
    OBVIOUS
  <1>1. CASE NewerHere(l, r, p)
    <2>1. l[p] \in IndexEntries /\ r[p] \in IndexEntries /\ p \in Paths
      BY <1>1 DEF NewerHere, Listed, Indexes
    <2>2. l[p].modified \in Nat /\ r[p].modified \in Nat
      BY <2>1 DEF IndexEntries
    <2> QED  BY <1>1, <2>1, <2>2 DEF RemoteOnly, NotNewerHere, NewerHere, SameAs
  <1>2. CASE p \in Listed(l) \ Listed(r)
    BY <1>2 DEF RemoteOnly
  <1> QED  BY <1>1, <1>2 DEF LocalOnly

\* Both nodes request a path only when their versions are of the same second.
THEOREM SwapsAreTies ==
  ASSUME NEW l \in Indexes, NEW r \in Indexes,
         NEW p \in RemoteOnly(l, r) \cap RemoteOnly(r, l)
  PROVE  p \in Listed(l) \cap Listed(r) /\ l[p].modified = r[p].modified
  <1>1. NotNewerHere(l, r, p) /\ NotNewerHere(r, l, p)
    BY DEF RemoteOnly, NotNewerHere, Listed
  <1>2. p \in Listed(l) \cap Listed(r) /\ p \in Paths
    BY <1>1 DEF NotNewerHere, Listed
  <1>3. l[p] \in IndexEntries /\ r[p] \in IndexEntries
    BY <1>2 DEF Listed, Indexes
  <1>4. l[p].modified \in Nat /\ r[p].modified \in Nat
    BY <1>3 DEF IndexEntries
  <1> QED  BY <1>1, <1>2, <1>4 DEF NotNewerHere, NewerHere, SameAs

-----------------------------------------------------------------------------
(* The types.                                                              *)

\* Taking an action: what is left in the channel was in it.
LEMMA TakeFacts ==
  ASSUME TypeOK, NEW n \in Nodes, NEW type, Takes(n, type)
  PROVE  /\ Head(queue[n]) \in Actions /\ Head(queue[n]).type = type
         /\ Head(queue[n]) = queue[n][1] /\ 1 \in 1 .. Len(queue[n])
         /\ queue' \in [Nodes -> Seq(Actions)]
         /\ \A x \in Nodes : \A i \in 1 .. Len(queue'[x]) :
              \E j \in 1 .. Len(queue[x]) : queue'[x][i] = queue[x][j]
         /\ UNCHANGED <<disk, now, edits, submitted>> /\ ~serving[n].on
  <1> DEFINE t == Tail(queue[n])
  <1>1. queue \in [Nodes -> Seq(Actions)] /\ queue[n] \in Seq(Actions) /\ queue[n] # <<>>
    BY DEF TypeOK, Takes
  <1>2. Head(queue[n]) \in Actions /\ t \in Seq(Actions) /\ Len(t) = Len(queue[n]) - 1
        /\ Len(queue[n]) \in Nat /\ Len(queue[n]) # 0
        /\ \A i \in 1 .. Len(t) : t[i] = queue[n][i + 1]
    BY <1>1, HeadTailProperties, LenProperties, EmptySeq
  <1>3. Head(queue[n]) = queue[n][1]
    BY <1>1
  <1>4. queue' = [queue EXCEPT ![n] = t]
    BY DEF Takes
  <1>5. \A i \in 1 .. Len(t) : \E j \in 1 .. Len(queue[n]) : t[i] = queue[n][j]
    <2> TAKE i \in 1 .. Len(t)
    <2>1. i + 1 \in 1 .. Len(queue[n])
      BY <1>2
    <2> QED  BY <2>1, <1>2
  <1> HIDE DEF t
  <1>6. queue' \in [Nodes -> Seq(Actions)]
    BY <1>1, <1>2, <1>4
  <1>7. \A x \in Nodes : \A i \in 1 .. Len(queue'[x]) :
          \E j \in 1 .. Len(queue[x]) : queue'[x][i] = queue[x][j]
    BY <1>1, <1>4, <1>5
  <1> QED  BY <1>2, <1>3, <1>6, <1>7 DEF Takes

\* Submitting an action: what the channels hold was there before or is the new one.
LEMMA AppendFacts ==
  ASSUME queue \in [Nodes -> Seq(Actions)], NEW n \in Nodes, NEW e \in Actions,
         queue' = [queue EXCEPT ![n] = Append(@, e)]
  PROVE  /\ queue' \in [Nodes -> Seq(Actions)]
         /\ \A x \in Nodes : \A i \in 1 .. Len(queue'[x]) :
              \/ \E j \in 1 .. Len(queue[x]) : queue'[x][i] = queue[x][j]
              \/ x = n /\ queue'[x][i] = e
  <1> DEFINE t == Append(queue[n], e)
  <1>1. queue[n] \in Seq(Actions)
    OBVIOUS
  <1>2. t \in Seq(Actions) /\ Len(t) = Len(queue[n]) + 1 /\ Len(queue[n]) \in Nat
        /\ t[Len(queue[n]) + 1] = e
        /\ \A i \in 1 .. Len(queue[n]) : t[i] = queue[n][i]
    BY <1>1, AppendProperties, LenProperties
  <1>3. \A i \in 1 .. Len(t) : (\E j \in 1 .. Len(queue[n]) : t[i] = queue[n][j]) \/ t[i] = e
    <2> TAKE i \in 1 .. Len(t)
    <2>1. i \in 1 .. Len(queue[n]) \/ i = Len(queue[n]) + 1
      BY <1>2
    <2> QED  BY <2>1, <1>2
  <1>4. queue' = [queue EXCEPT ![n] = t]
    OBVIOUS
  <1> HIDE DEF t
  <1>5. queue' \in [Nodes -> Seq(Actions)]
    BY <1>2, <1>4
  <1>6. \A x \in Nodes : \A i \in 1 .. Len(queue'[x]) :
          \/ \E j \in 1 .. Len(queue[x]) : queue'[x][i] = queue[x][j]
          \/ x = n /\ queue'[x][i] = e
    BY <1>3, <1>4
  <1> QED  BY <1>5, <1>6

\* The message bodies, by type.
LEMMA ActionFacts ==
  /\ \A b \in Actions : b \in Bodies
  /\ \A b \in Bodies : b.type \in {"index", "request"} => b \in Actions
  /\ \A b \in Bodies : b.type = "index" => b.index \in Indexes
  /\ \A b \in Bodies : b.type = "request" => b.files \in SUBSET Paths
  BY DEF Actions, Bodies, Requests

\* What ToRemote adds are well-formed messages to the remote node.
LEMMA ToRemoteFacts ==
  ASSUME net \subseteq [to : Nodes, body : Bodies], NEW n \in Nodes, NEW bs \in SUBSET Bodies
  PROVE  /\ ToRemote(n, bs) \subseteq [to : Nodes, body : Bodies]
         /\ \A m \in ToRemote(n, bs) : m \in net \/ (m.to = Remote[n] /\ m.body \in bs)
  BY NodesAssumption DEF ToRemote

\* The lists a comparison returns are lists of paths, the second of remote ones.
LEMMA ListFacts ==
  ASSUME NEW l, NEW r
  PROVE  LocalOnly(l, r) \subseteq Paths /\ RemoteOnly(l, r) \subseteq Listed(r)
         /\ Listed(r) \subseteq Paths
  BY DEF LocalOnly, RemoteOnly, NewerHere, NotNewerHere, Listed

\* An answer is an ack or a request for the files needed.
LEMMA AnswerFacts ==
  ASSUME NEW offer \in SUBSET Paths, NEW need \in SUBSET Paths
  PROVE  /\ Answers(offer, need) \subseteq Bodies
         /\ \A b \in Answers(offer, need) :
              b.type # "index" /\ (b.type = "request" => b.files = need)
  <1>1. \A b \in Answers(offer, need) :
          \/ b = [type |-> "ack", files |-> offer]
          \/ b = [type |-> "request", files |-> need]
    BY DEF Answers
  <1>2. [type |-> "ack", files |-> offer] \in Bodies /\ [type |-> "request", files |-> need] \in Bodies
    BY DEF Bodies, Actions, Requests
  <1> QED  BY <1>1, <1>2

\* The request in service is well formed.
ServingOK(s) ==
  /\ s \in Serving
  /\ s.path # NoFile => s.content \in Contents /\ s.next <= ChunkCount[s.content]

\* The type invariant as two halves: the request in service, and the rest.
LEMMA TypeSplit ==
  TypeOK <=> /\ disk \in [Nodes -> Indexes]
             /\ now \in Nat /\ edits \in Nat /\ submitted \in Nat
             /\ queue \in [Nodes -> Seq(Actions)]
             /\ net \subseteq [to : Nodes, body : Bodies]
             /\ serving \in [Nodes -> Serving] /\ \A n \in Nodes : ServingOK(serving[n])
             /\ view \in [Nodes -> [local : Indexes, remote : Indexes]]
             /\ wants \in [Nodes -> SUBSET Paths]
             /\ announced \in [Nodes -> SUBSET Paths]
  BY DEF TypeOK, ServingOK

\* The initial state is well typed.
LEMMA InitType == Init => TypeOK
  <1> SUFFICES ASSUME Init PROVE TypeOK
    OBVIOUS
  <1>1. disk \in [Nodes -> Indexes]
    BY ContentsAssumption DEF Init, Indexes, IndexEntries
  <1>2. Idle \in Serving
    <2>1. FALSE \in BOOLEAN
      BY Zenon
    <2> QED  BY <2>1, ZeroAssumption DEF Idle, Serving
  <1>3. Empty \in Indexes
    BY DEF Empty, Indexes
  <1>4. <<>> \in Seq(Actions)
    OBVIOUS
  <1>5. queue \in [Nodes -> Seq(Actions)]
    BY <1>4 DEF Init
  <1>6. \A n \in Nodes : ServingOK(serving[n])
    BY <1>2 DEF Init, ServingOK, Idle
  <1>7. serving \in [Nodes -> Serving]
    BY <1>2 DEF Init
  <1>8. view \in [Nodes -> [local : Indexes, remote : Indexes]]
    BY <1>3 DEF Init
  <1>9. wants \in [Nodes -> SUBSET Paths] /\ announced \in [Nodes -> SUBSET Paths]
        /\ net = {} /\ now = 0 /\ edits = 0 /\ submitted = 0
    BY DEF Init
  <1> QED  BY <1>1, <1>5, <1>6, <1>7, <1>8, <1>9, TypeSplit

\* The index a node sends is an index.
LEMMA SentIndexType == ASSUME TypeOK, NEW n \in Nodes PROVE SentIndex(n) \in Indexes
  BY ZeroAssumption DEF TypeOK, SentIndex, Indexes, IndexEntries

\* A change of the request in service keeps it well typed.
LEMMA ServingStep ==
  ASSUME TypeOK, NEW n \in Nodes, NEW s, ServingOK(s), serving' = [serving EXCEPT ![n] = s]
  PROVE  serving' \in [Nodes -> Serving] /\ \A x \in Nodes : ServingOK(serving'[x])
  BY TypeSplit DEF ServingOK

\* A step of serving a request keeps the types.
LEMMA ServeType ==
  ASSUME TypeOK, NEW n \in Nodes,
         \/ \E p \in Paths : SkipMissing(n, p) \/ ReadFile(n, p) \/ ReadFails(n, p)
         \/ SendChunk(n) \/ FileDone(n) \/ RequestDone(n)
  PROVE  TypeOK'
  <1>0. serving[n] \in Serving /\ ServingOK(serving[n]) /\ ServingOK(Idle)
    <2>1. serving[n] \in Serving /\ ServingOK(serving[n])
      BY TypeSplit
    <2>2. FALSE \in BOOLEAN
      BY Zenon
    <2>3. ServingOK(Idle)
      BY <2>2, ZeroAssumption DEF Idle, Serving, ServingOK
    <2> QED  BY <2>1, <2>3
  <1>1. ASSUME ServeOnly, net' \subseteq [to : Nodes, body : Bodies],
               NEW s, ServingOK(s), serving' = [serving EXCEPT ![n] = s]
        PROVE  TypeOK'
    <2>1. serving' \in [Nodes -> Serving] /\ \A x \in Nodes : ServingOK(serving'[x])
      BY <1>1, ServingStep
    <2> QED  BY <1>1, <2>1 DEF ServeOnly, TypeOK, ServingOK
  <1>2. net \subseteq [to : Nodes, body : Bodies] /\ disk[n] \in Indexes
    BY DEF TypeOK
  <1>3. ASSUME NEW p \in Paths, SkipMissing(n, p) PROVE TypeOK'
    <2> DEFINE s == [serving[n] EXCEPT !.left = @ \ {p}]
    <2>1. ServingOK(s)
      BY <1>0 DEF ServingOK, Serving
    <2>2. serving' = [serving EXCEPT ![n] = s]
      BY <1>3 DEF SkipMissing
    <2> HIDE DEF s
    <2> QED  BY <1>1, <1>2, <1>3, <2>1, <2>2 DEF SkipMissing
  <1>4. ASSUME NEW p \in Paths, ReadFile(n, p) PROVE TypeOK'
    <2> DEFINE h == disk[n][p].hash
               s == [serving[n] EXCEPT !.left = @ \ {p}, !.path = p, !.content = h, !.next = 0]
    <2>1. h \in Contents
      BY <1>2, <1>4, ContentsAssumption DEF ReadFile, Indexes, IndexEntries
    <2>2. ServingOK(s)
      <3>1. s \in Serving
        BY <1>0, <2>1, ContentsAssumption DEF ServingOK, Serving
      <3>2. s.content = h /\ s.next = 0
        BY <1>0 DEF Serving
      <3>3. ChunkCount[h] \in Nat
        BY <2>1, ContentsAssumption
      <3>4. 0 <= ChunkCount[h]
        BY <3>3
      <3> HIDE DEF s, h
      <3> QED  BY <2>1, <3>1, <3>2, <3>4 DEF ServingOK
    <2>3. serving' = [serving EXCEPT ![n] = s]
      BY <1>4 DEF ReadFile
    <2> HIDE DEF s
    <2> QED  BY <1>1, <1>2, <1>4, <2>2, <2>3 DEF ReadFile
  <1>5. ASSUME NEW p \in Paths, ReadFails(n, p) PROVE TypeOK'
    BY <1>0, <1>1, <1>2, <1>5 DEF ReadFails
  <1>6. CASE SendChunk(n)
    <2> DEFINE s == [serving[n] EXCEPT !.next = @ + 1, !.sent = @ \cup {Chunk(n)}]
    <2>1. serving[n].content \in Contents /\ serving[n].next < ChunkCount[serving[n].content]
          /\ ChunkCount[serving[n].content] \in Nat /\ serving[n].next \in Nat
          /\ serving[n].path \in Paths
      BY <1>0, <1>6, ContentsAssumption DEF SendChunk, ServingOK, Serving
    <2>2. Chunk(n) \in Chunks
      BY <2>1 DEF Chunk, Chunks
    <2>3. ServingOK(s)
      <3>0. serving[n].sent \cup {Chunk(n)} \in SUBSET Chunks /\ serving[n].next + 1 \in Nat
        BY <1>0, <2>1, <2>2 DEF Serving
      <3>1. s \in Serving
        BY <1>0, <3>0 DEF Serving
      <3>2. s.content = serving[n].content /\ s.next = serving[n].next + 1
        BY <1>0 DEF Serving
      <3>3. s.next <= ChunkCount[s.content]
        BY <2>1, <3>2
      <3> HIDE DEF s
      <3> QED  BY <2>1, <3>1, <3>2, <3>3 DEF ServingOK
    <2>4. serving' = [serving EXCEPT ![n] = s]
      BY <1>6 DEF SendChunk
    <2>5. [type |-> "chunk", chunk |-> Chunk(n)] \in Bodies
      BY <2>2 DEF Bodies
    <2>6. net' \subseteq [to : Nodes, body : Bodies]
      BY <1>2, <1>6, <2>5, ToRemoteFacts DEF SendChunk
    <2> HIDE DEF s
    <2> QED  BY <1>1, <1>6, <2>3, <2>4, <2>6 DEF SendChunk
  <1>7. CASE FileDone(n)
    <2> DEFINE s == [serving[n] EXCEPT !.path = NoFile]
    <2>1. ServingOK(s)
      BY <1>0 DEF ServingOK, Serving
    <2>2. serving' = [serving EXCEPT ![n] = s]
      BY <1>7 DEF FileDone
    <2> HIDE DEF s
    <2> QED  BY <1>1, <1>2, <1>7, <2>1, <2>2 DEF FileDone
  <1>8. CASE RequestDone(n)
    BY <1>0, <1>1, <1>2, <1>8 DEF RequestDone
  <1> QED  BY <1>3, <1>4, <1>5, <1>6, <1>7, <1>8

\* Every step keeps the types.
LEMMA TypeStep == ASSUME TypeOK, [Next]_vars PROVE TypeOK'
  <1>1. CASE Tick
    BY <1>1 DEF Tick, TypeOK
  <1>2. ASSUME NEW m \in net, Arrive(m) PROVE TypeOK'
    <2>1. m.to \in Nodes /\ m.body \in Bodies
      BY <1>2 DEF TypeOK
    <2>2. queue' \in [Nodes -> Seq(Actions)]
      <3>1. CASE m.body.type \in {"index", "request"}
        BY <1>2, <2>1, <3>1, ActionFacts, AppendFacts DEF Arrive, TypeOK
      <3>2. CASE m.body.type \notin {"index", "request"}
        BY <1>2, <3>2 DEF Arrive, TypeOK
      <3> QED  BY <3>1, <3>2
    <2> QED  BY <1>2, <2>2 DEF Arrive, TypeOK
  <1>3. ASSUME NEW m \in net, Lose(m) PROVE TypeOK'
    BY <1>3 DEF Lose, TypeOK
  <1>4. ASSUME NEW n \in Nodes, NEW p \in Paths,
               NEW e \in [hash : Hashes, modified : {now}] \cup {NoEntry}, Edit(n, p, e)
        PROVE  TypeOK'
    <2>1. e \in IndexEntries \cup {NoEntry}
      BY DEF IndexEntries, TypeOK
    <2>2. disk' \in [Nodes -> Indexes]
      BY <1>4, <2>1 DEF Edit, TypeOK, Indexes
    <2> QED  BY <1>4, <2>2 DEF Edit, TypeOK
  <1>5. ASSUME NEW n \in Nodes, Submit(n, [type |-> "local"]) \/ Submit(n, [type |-> "full"])
        PROVE  TypeOK'
    <2>1. [type |-> "local"] \in Actions /\ [type |-> "full"] \in Actions
      BY DEF Actions
    <2>2. queue' \in [Nodes -> Seq(Actions)]
      BY <1>5, <2>1, AppendFacts DEF Submit, TypeOK
    <2> QED  BY <1>5, <2>2 DEF Submit, TypeOK
  <1>6. ASSUME NEW n \in Nodes, HandleLocalChanges(n) PROVE TypeOK'
    <2>1. [type |-> "index", index |-> SentIndex(n)] \in Bodies
      BY SentIndexType DEF Bodies, Actions
    <2>2. net' \subseteq [to : Nodes, body : Bodies]
      <3> DEFINE bs == {[type |-> "index", index |-> SentIndex(n)]}
      <3>1. bs \in SUBSET Bodies /\ net' = ToRemote(n, bs)
        BY <1>6, <2>1 DEF HandleLocalChanges
      <3> HIDE DEF bs
      <3> QED  BY <3>1, ToRemoteFacts DEF TypeOK
    <2>3. Listed(disk[n]) \subseteq Paths
      BY ListFacts
    <2> QED  BY <1>6, <2>2, <2>3, TakeFacts DEF HandleLocalChanges, TypeOK
  <1>7. ASSUME NEW n \in Nodes, HandlerFails(n) \/ RunFullSync(n) PROVE TypeOK'
    BY <1>7, TakeFacts DEF HandlerFails, RunFullSync, TypeOK
  <1>8. ASSUME NEW n \in Nodes, HandleRemoteIndex(n) PROVE TypeOK'
    <2> DEFINE remote == Head(queue[n]).index
               need == RemoteOnly(disk[n], remote)
               offer == LocalOnly(disk[n], remote)
    <2>1. remote \in Indexes
      BY <1>8, TakeFacts, ActionFacts DEF HandleRemoteIndex
    <2>2. need \in SUBSET Paths /\ offer \in SUBSET Paths
      BY ListFacts
    <2>3. Answers(offer, need) \subseteq Bodies
      BY <2>2, AnswerFacts
    <2>4. /\ net' = ToRemote(n, Answers(offer, need))
          /\ view' = [view EXCEPT ![n] = [local |-> disk[n], remote |-> remote]]
          /\ wants' = [wants EXCEPT ![n] = need]
          /\ UNCHANGED <<serving, announced>> /\ Takes(n, "index")
      BY <1>8 DEF HandleRemoteIndex
    <2> HIDE DEF remote, need, offer
    <2>5. net' \subseteq [to : Nodes, body : Bodies]
      BY <2>3, <2>4, ToRemoteFacts DEF TypeOK
    <2>6. view' \in [Nodes -> [local : Indexes, remote : Indexes]]
          /\ wants' \in [Nodes -> SUBSET Paths]
      BY <2>1, <2>2, <2>4 DEF TypeOK
    <2> QED  BY <2>4, <2>5, <2>6, TakeFacts DEF TypeOK
  <1>9. ASSUME NEW n \in Nodes, BeginRequest(n) PROVE TypeOK'
    <2> DEFINE s == [Idle EXCEPT !.on = TRUE, !.left = Head(queue[n]).files]
    <2>1. Head(queue[n]).files \in SUBSET Paths
      BY <1>9, TakeFacts, ActionFacts DEF BeginRequest
    <2>2. TRUE \in BOOLEAN
      BY Zenon
    <2>3. ServingOK(s)
      BY <2>1, <2>2, ZeroAssumption DEF Idle, Serving, ServingOK
    <2>4. serving' = [serving EXCEPT ![n] = s]
      BY <1>9 DEF BeginRequest
    <2> HIDE DEF s
    <2>5. serving' \in [Nodes -> Serving] /\ \A x \in Nodes : ServingOK(serving'[x])
      BY <2>3, <2>4, ServingStep
    <2> QED  BY <1>9, <2>5, TakeFacts DEF BeginRequest, TypeOK, ServingOK
  <1>10. CASE UNCHANGED vars
    BY <1>10 DEF vars, TypeOK
  <1> QED
    BY <1>1, <1>2, <1>3, <1>4, <1>5, <1>6, <1>7, <1>8, <1>9, <1>10, ServeType
    DEF Next, Delivery, DaemonStep, Environment

\* Every variable keeps its type.
THEOREM TypeCorrect == Spec => []TypeOK
  BY InitType, TypeStep, PTL DEF Spec

-----------------------------------------------------------------------------
(* What was requested, and of whom.                                        *)

\* wants is the outcome of the comparison recorded in view.
DecisionInv == \A n \in Nodes : wants[n] = RemoteOnly(view[n].local, view[n].remote)

\* Every step keeps it: the two ghosts change together.
LEMMA DecisionStep == ASSUME TypeOK, DecisionInv, [Next]_vars PROVE DecisionInv'
  <1>1. ASSUME NEW n \in Nodes, HandleRemoteIndex(n) PROVE DecisionInv'
    <2> DEFINE remote == Head(queue[n]).index
               need == RemoteOnly(disk[n], remote)
    <2>1. /\ view' = [view EXCEPT ![n] = [local |-> disk[n], remote |-> remote]]
          /\ wants' = [wants EXCEPT ![n] = need]
      BY <1>1 DEF HandleRemoteIndex
    <2>2. \A x \in Nodes : wants'[x] = RemoteOnly(view'[x].local, view'[x].remote)
      <3> TAKE x \in Nodes
      <3>1. CASE x = n
        BY <2>1, <3>1 DEF TypeOK
      <3>2. CASE x # n
        <4>1. wants'[x] = wants[x] /\ view'[x] = view[x]
          BY <2>1, <3>2 DEF TypeOK
        <4> QED  BY <4>1 DEF DecisionInv
      <3> QED  BY <3>1, <3>2
    <2> QED  BY <2>2 DEF DecisionInv
  <1>2. ASSUME UNCHANGED <<view, wants>> PROVE DecisionInv'
    BY <1>2 DEF DecisionInv
  <1>3. ASSUME NEW n \in Nodes, DaemonStep(n), ~HandleRemoteIndex(n)
        PROVE  UNCHANGED <<view, wants>>
    BY <1>3 DEF DaemonStep, HandleLocalChanges, HandlerFails, RunFullSync, BeginRequest,
                SkipMissing, ReadFile, ReadFails, SendChunk, FileDone, RequestDone, ServeOnly
  <1>4. ASSUME Tick \/ Delivery \/ (\E n \in Nodes : Environment(n)) \/ UNCHANGED vars
        PROVE  UNCHANGED <<view, wants>>
    BY <1>4 DEF Tick, Delivery, Arrive, Lose, Environment, Edit, Submit, vars
  <1> QED  BY <1>1, <1>2, <1>3, <1>4 DEF Next

\* Two entries that stand for what the two nodes have decide for one of them.
LEMMA PathDecided ==
  ASSUME NEW d \in Indexes, NEW e \in Indexes, NEW r1 \in Indexes, NEW r2 \in Indexes,
         NEW p \in Paths, Stands(r1[p], e[p]), Stands(r2[p], d[p])
  PROVE  /\ p \in Differ(d, e) <=> p \in RemoteOnly(d, r1) \cup RemoteOnly(e, r2)
         /\ p \in RemoteOnly(d, r1) \cap RemoteOnly(e, r2) =>
              Zero \in {d[p].hash, e[p].hash} \/ d[p].modified = e[p].modified
  <1> DEFINE Both == d[p] # NoEntry /\ e[p] # NoEntry
  <1>1. (r1[p] = NoEntry <=> e[p] = NoEntry) /\ (r2[p] = NoEntry <=> d[p] = NoEntry)
    BY DEF Stands
  <1>2. CASE ~Both
    BY <1>1, <1>2 DEF Differ, RemoteOnly, NotNewerHere, Listed
  <1>3. CASE Both
    <2>1. {d[p], e[p], r1[p], r2[p]} \subseteq IndexEntries
      BY <1>1, <1>3 DEF Indexes
    <2>2. /\ d[p].modified \in Nat /\ e[p].modified \in Nat
          /\ r1[p].modified \in Nat /\ r2[p].modified \in Nat
      BY <2>1 DEF IndexEntries
    <2>3. r1[p].hash = e[p].hash /\ r1[p].modified >= e[p].modified
          /\ r2[p].hash = d[p].hash /\ r2[p].modified >= d[p].modified
      BY <2>2 DEF Stands
    <2>4. /\ p \in Differ(d, e) <=> d[p].hash # e[p].hash
          /\ p \in RemoteOnly(d, r1) <=>
               d[p].hash # e[p].hash /\ ~(d[p].modified > r1[p].modified)
          /\ p \in RemoteOnly(e, r2) <=>
               d[p].hash # e[p].hash /\ ~(e[p].modified > r2[p].modified)
      BY <1>1, <1>3, <2>3 DEF Differ, RemoteOnly, NotNewerHere, NewerHere, Listed, SameAs
    <2>5. Zero \notin {d[p].hash, e[p].hash} => r1[p] = e[p] /\ r2[p] = d[p]
      BY DEF Stands
    <2>6. p \in Differ(d, e) <=> p \in RemoteOnly(d, r1) \cup RemoteOnly(e, r2)
      <3>1. ~(d[p].modified > r1[p].modified /\ e[p].modified > r2[p].modified)
        BY <2>2, <2>3
      <3> QED  BY <2>4, <3>1
    <2>7. ASSUME p \in RemoteOnly(d, r1) \cap RemoteOnly(e, r2), Zero \notin {d[p].hash, e[p].hash}
          PROVE  d[p].modified = e[p].modified
      <3>1. ~(d[p].modified > e[p].modified) /\ ~(e[p].modified > d[p].modified)
        BY <2>4, <2>5, <2>7
      <3> QED  BY <2>2, <3>1
    <2> QED  BY <2>6, <2>7
  <1> QED  BY <1>2, <1>3

\* Two nodes that compared the directories as they are leave no difference
\* undecided, and both request a file only when the two were written in one second.
THEOREM DecisionsAgreeAlways == Spec => []DecisionsAgree
  <1>1. Init => DecisionInv
    <2> SUFFICES ASSUME Init PROVE DecisionInv
      OBVIOUS
    <2>1. RemoteOnly(Empty, Empty) = {}
      BY DEF RemoteOnly, NotNewerHere, Listed, Empty
    <2> QED  BY <2>1 DEF Init, DecisionInv
  <1>2. TypeOK /\ DecisionInv => DecisionsAgree
    <2> SUFFICES ASSUME TypeOK, DecisionInv, NEW n \in Nodes, Remote[Remote[n]] = n,
                        UpToDate(n), UpToDate(Remote[n])
                 PROVE  /\ Differ(disk[n], disk[Remote[n]]) = wants[n] \cup wants[Remote[n]]
                        /\ \A p \in wants[n] \cap wants[Remote[n]] :
                             \/ Zero \in {disk[n][p].hash, disk[Remote[n]][p].hash}
                             \/ disk[n][p].modified = disk[Remote[n]][p].modified
      BY DEF DecisionsAgree
    <2> DEFINE m == Remote[n]
    <2>1. m \in Nodes
      BY NodesAssumption
    <2>2. PICK d \in Indexes, e \in Indexes, r1 \in Indexes, r2 \in Indexes :
            d = disk[n] /\ e = disk[m] /\ r1 = view[n].remote /\ r2 = view[m].remote
      BY <2>1 DEF TypeOK
    <2>3. wants[n] = RemoteOnly(d, r1) /\ wants[m] = RemoteOnly(e, r2)
      BY <2>1, <2>2 DEF DecisionInv, UpToDate
    <2>4. \A p \in Paths : Stands(r1[p], e[p]) /\ Stands(r2[p], d[p])
      BY <2>2 DEF UpToDate
    <2>5. Differ(d, e) \subseteq Paths /\ wants[n] \subseteq Paths /\ wants[m] \subseteq Paths
      BY <2>1 DEF Differ, TypeOK
    <2> HIDE DEF m
    <2>6. \A p \in Paths :
            /\ p \in Differ(d, e) <=> p \in RemoteOnly(d, r1) \cup RemoteOnly(e, r2)
            /\ p \in RemoteOnly(d, r1) \cap RemoteOnly(e, r2) =>
                 Zero \in {d[p].hash, e[p].hash} \/ d[p].modified = e[p].modified
      <3> TAKE p \in Paths
      <3>1. Stands(r1[p], e[p]) /\ Stands(r2[p], d[p])
        BY <2>4
      <3> QED  BY <3>1, PathDecided
    <2>7. /\ Differ(d, e) = wants[n] \cup wants[m]
          /\ \A p \in wants[n] \cap wants[m] :
               Zero \in {d[p].hash, e[p].hash} \/ d[p].modified = e[p].modified
      BY <2>3, <2>5, <2>6
    <2> QED  BY <2>2, <2>7 DEF m
  <1> QED  BY TypeCorrect, <1>1, <1>2, DecisionStep, PTL DEF Spec

-----------------------------------------------------------------------------
(* Who is asked for what.                                                  *)

Mutual == \A n \in Nodes : Remote[Remote[n]] = n

\* A body on its way to n, or in n's channel, names announced paths only: an index
\* those of the node it came from, a request those of n.
Known(n, b) ==
  /\ b.type = "index" => Listed(b.index) \subseteq announced[Remote[n]]
  /\ b.type = "request" => b.files \subseteq announced[n]

KnownInv ==
  /\ \A m \in net : Known(m.to, m.body)
  /\ \A n \in Nodes : \A i \in 1 .. Len(queue[n]) : Known(n, queue[n][i])
  /\ \A n \in Nodes : serving[n].left \subseteq announced[n]

\* Announcing more keeps what is known known.
LEMMA KnownGrows ==
  ASSUME NEW n \in Nodes, NEW b, Known(n, b), \A x \in Nodes : announced[x] \subseteq announced'[x]
  PROVE  Known(n, b)'
  BY NodesAssumption DEF Known

\* Serving one node's request leaves the others' alone.
LEMMA LeftFacts ==
  ASSUME TypeOK, NEW n \in Nodes, NEW s, serving' = [serving EXCEPT ![n] = s],
         s.left \subseteq serving[n].left
  PROVE  \A x \in Nodes : serving'[x].left \subseteq serving[x].left
  BY DEF TypeOK

\* Every step keeps requests among announced paths.
LEMMA KnownStep == ASSUME Mutual, TypeOK, KnownInv, [Next]_vars PROVE KnownInv'
  <1>0. \A m \in net : m.to \in Nodes /\ m.body \in Bodies
    BY DEF TypeOK
  <1>1. ASSUME UNCHANGED <<queue, announced>>, net' \subseteq net,
               \A x \in Nodes : serving'[x].left \subseteq serving[x].left
        PROVE  KnownInv'
    BY <1>1 DEF KnownInv, Known
  <1>2. ASSUME NEW n \in Nodes, NEW type, Takes(n, type), UNCHANGED <<serving, announced>>,
               \A m \in net' : m \in net \/ Known(m.to, m.body)
        PROVE  KnownInv'
    <2>1. \A x \in Nodes : \A i \in 1 .. Len(queue'[x]) : Known(x, queue'[x][i])
      BY <1>2, TakeFacts DEF KnownInv
    <2> QED  BY <1>2, <2>1 DEF KnownInv, Known
  <1>3. CASE Tick \/ UNCHANGED vars
    BY <1>1, <1>3 DEF Tick, vars
  <1>4. ASSUME NEW m \in net, Arrive(m) PROVE KnownInv'
    <2>1. \A x \in Nodes : \A i \in 1 .. Len(queue'[x]) : Known(x, queue'[x][i])
      <3>1. CASE m.body.type \in {"index", "request"}
        <4>1. m.body \in Actions /\ m.to \in Nodes /\ Known(m.to, m.body)
          BY <1>0, <1>4, <3>1, ActionFacts DEF KnownInv
        <4>2. queue' = [queue EXCEPT ![m.to] = Append(@, m.body)]
          BY <1>4, <3>1 DEF Arrive
        <4> QED  BY <4>1, <4>2, AppendFacts DEF KnownInv, TypeOK
      <3>2. CASE m.body.type \notin {"index", "request"}
        BY <1>4, <3>2 DEF Arrive, KnownInv
      <3> QED  BY <3>1, <3>2
    <2> QED  BY <1>4, <2>1 DEF Arrive, KnownInv, Known
  <1>5. ASSUME NEW m \in net, Lose(m) PROVE KnownInv'
    BY <1>1, <1>5 DEF Lose
  <1>6. ASSUME NEW n \in Nodes, NEW p \in Paths, NEW e, Edit(n, p, e) PROVE KnownInv'
    BY <1>1, <1>6 DEF Edit
  <1>7. ASSUME NEW n \in Nodes, NEW t \in {"local", "full"}, Submit(n, [type |-> t])
        PROVE  KnownInv'
    <2>1. [type |-> t] \in Actions /\ Known(n, [type |-> t])
      BY DEF Actions, Known
    <2>2. \A x \in Nodes : \A i \in 1 .. Len(queue'[x]) : Known(x, queue'[x][i])
      BY <1>7, <2>1, AppendFacts DEF Submit, KnownInv, TypeOK
    <2> QED  BY <1>7, <2>2 DEF Submit, KnownInv, Known
  <1>8. ASSUME NEW n \in Nodes, HandleLocalChanges(n) PROVE KnownInv'
    <2> DEFINE b == [type |-> "index", index |-> SentIndex(n)]
    <2>1. Takes(n, "local") /\ net' = ToRemote(n, {b}) /\ UNCHANGED serving
          /\ announced' = [announced EXCEPT ![n] = @ \cup Listed(disk[n])]
      BY <1>8 DEF HandleLocalChanges
    <2>2. Listed(SentIndex(n)) = Listed(disk[n])
      BY NoEntryAssumption, <1>0 DEF Listed, SentIndex, TypeOK, Indexes, IndexEntries
    <2>3. \A x \in Nodes : announced[x] \subseteq announced'[x]
      BY <2>1 DEF TypeOK
    <2>4. b.type = "index" /\ Listed(b.index) \subseteq announced'[n] /\ Remote[Remote[n]] = n
      BY <2>1, <2>2 DEF Mutual, TypeOK
    <2> HIDE DEF b
    <2>5. net' = net \cup {[to |-> Remote[n], body |-> b]}
      BY <2>1 DEF ToRemote
    <2>6. \A m \in net' : /\ m.body.type = "index" => Listed(m.body.index) \subseteq announced'[Remote[m.to]]
                          /\ m.body.type = "request" => m.body.files \subseteq announced'[m.to]
      <3> TAKE m \in net'
      <3>1. CASE m \in net
        <4>1. Known(m.to, m.body) /\ m.to \in Nodes /\ Remote[m.to] \in Nodes
          BY <1>0, <3>1, NodesAssumption DEF KnownInv
        <4> QED  BY <4>1, <2>3 DEF Known
      <3>2. CASE m = [to |-> Remote[n], body |-> b]
        BY <2>4, <3>2
      <3> QED  BY <2>5, <3>1, <3>2
    <2>7. ASSUME NEW x \in Nodes, NEW i \in 1 .. Len(queue'[x])
          PROVE  Known(x, queue[x][i])'
      <3>1. PICK j \in 1 .. Len(queue[x]) : queue'[x][i] = queue[x][j]
        BY <2>1, TakeFacts
      <3>2. Known(x, queue[x][j])
        BY DEF KnownInv
      <3> QED  BY <2>3, <3>1, <3>2, NodesAssumption DEF Known
    <2> QED  BY <2>1, <2>3, <2>6, <2>7 DEF KnownInv, Known
  <1>9. ASSUME NEW n \in Nodes, HandlerFails(n) \/ RunFullSync(n) PROVE KnownInv'
    BY <1>2, <1>9 DEF HandlerFails, RunFullSync
  <1>10. ASSUME NEW n \in Nodes, HandleRemoteIndex(n) PROVE KnownInv'
    <2> DEFINE remote == Head(queue[n]).index
               need == RemoteOnly(disk[n], remote)
               offer == LocalOnly(disk[n], remote)
    <2>1. /\ net' = ToRemote(n, Answers(offer, need))
          /\ UNCHANGED <<serving, announced>> /\ Takes(n, "index")
      BY <1>10 DEF HandleRemoteIndex
    <2>2. Known(n, Head(queue[n])) /\ Head(queue[n]).type = "index"
      BY <2>1, TakeFacts DEF KnownInv
    <2>3. need \subseteq announced[Remote[n]] /\ need \in SUBSET Paths /\ offer \in SUBSET Paths
      BY <2>2, ListFacts DEF Known
    <2> HIDE DEF remote, need, offer
    <2>4. \A b \in Answers(offer, need) : Known(Remote[n], b)
      BY <2>3, AnswerFacts DEF Known
    <2>5. \A m \in net' : m \in net \/ (m.to = Remote[n] /\ m.body \in Answers(offer, need))
      BY <2>1 DEF ToRemote
    <2>6. \A m \in net' : m \in net \/ Known(m.to, m.body)
      BY <2>4, <2>5
    <2> QED  BY <1>2, <2>1, <2>6
  <1>11. ASSUME NEW n \in Nodes, BeginRequest(n) PROVE KnownInv'
    <2>1. Takes(n, "request") /\ UNCHANGED <<net, announced>>
          /\ serving' = [serving EXCEPT ![n] = [Idle EXCEPT !.on = TRUE, !.left = Head(queue[n]).files]]
      BY <1>11 DEF BeginRequest
    <2>2. Known(n, Head(queue[n])) /\ Head(queue[n]).type = "request"
      BY <2>1, TakeFacts DEF KnownInv
    <2>3. \A x \in Nodes : serving'[x].left \subseteq announced[x]
      BY <2>1, <2>2 DEF Known, KnownInv, TypeOK, Idle
    <2>4. \A x \in Nodes : \A i \in 1 .. Len(queue'[x]) : Known(x, queue'[x][i])
      BY <2>1, TakeFacts DEF KnownInv
    <2> QED  BY <2>1, <2>3, <2>4 DEF KnownInv, Known
  <1>12. ASSUME NEW n \in Nodes, NEW p \in Paths, SkipMissing(n, p) \/ ReadFile(n, p) \/ ReadFails(n, p)
         PROVE  KnownInv'
    <2>1. CASE SkipMissing(n, p)
      <3>1. serving' = [serving EXCEPT ![n] = [serving[n] EXCEPT !.left = @ \ {p}]]
        BY <2>1 DEF SkipMissing
      <3>2. [serving[n] EXCEPT !.left = @ \ {p}].left = serving[n].left \ {p}
        BY DEF TypeOK, Serving
      <3> QED  BY <1>1, <2>1, <3>1, <3>2, LeftFacts DEF SkipMissing, ServeOnly
    <2>2. CASE ReadFile(n, p)
      <3> DEFINE s == [serving[n] EXCEPT !.left = @ \ {p}, !.path = p,
                                         !.content = disk[n][p].hash, !.next = 0]
      <3>1. serving' = [serving EXCEPT ![n] = s]
        BY <2>2 DEF ReadFile
      <3>2. s.left = serving[n].left \ {p}
        BY DEF TypeOK, Serving
      <3> HIDE DEF s
      <3> QED  BY <1>1, <2>2, <3>1, <3>2, LeftFacts DEF ReadFile, ServeOnly
    <2>3. CASE ReadFails(n, p)
      BY <1>1, <2>3, LeftFacts DEF ReadFails, ServeOnly, Idle
    <2> QED  BY <1>12, <2>1, <2>2, <2>3
  <1>13. ASSUME NEW n \in Nodes, FileDone(n) \/ RequestDone(n) PROVE KnownInv'
    <2>1. CASE FileDone(n)
      <3>1. serving' = [serving EXCEPT ![n] = [serving[n] EXCEPT !.path = NoFile]]
        BY <2>1 DEF FileDone
      <3>2. [serving[n] EXCEPT !.path = NoFile].left = serving[n].left
        BY DEF TypeOK, Serving
      <3> QED  BY <1>1, <2>1, <3>1, <3>2, LeftFacts DEF FileDone, ServeOnly
    <2>2. CASE RequestDone(n)
      BY <1>1, <2>2, LeftFacts DEF RequestDone, ServeOnly, Idle
    <2> QED  BY <1>13, <2>1, <2>2
  <1>14. ASSUME NEW n \in Nodes, SendChunk(n) PROVE KnownInv'
    <2>1. \A x \in Nodes : serving'[x].left = serving[x].left
      BY <1>14 DEF SendChunk, TypeOK, Serving
    <2>2. \A m \in net' : m \in net \/ m.body = [type |-> "chunk", chunk |-> Chunk(n)]
      BY <1>14 DEF SendChunk, ToRemote
    <2>3. \A m \in net' : Known(m.to, m.body)
      BY <2>2 DEF KnownInv, Known
    <2>4. UNCHANGED <<queue, announced>>
      BY <1>14 DEF SendChunk, ServeOnly
    <2> QED  BY <2>1, <2>3, <2>4 DEF KnownInv, Known
  <1> QED
    BY <1>3, <1>4, <1>5, <1>6, <1>7, <1>8, <1>9, <1>10, <1>11, <1>12, <1>13, <1>14
    DEF Next, Delivery, DaemonStep, Environment

\* Nodes that name each other are only asked for what they have announced.
THEOREM AnnouncedOnly == Spec => []OnlyAnnouncedRequested
  <1>1. Mutual /\ Init => KnownInv
    BY DEF Init, KnownInv, Idle
  <1>2. TypeOK /\ KnownInv => OnlyAnnouncedRequested
    <2> SUFFICES ASSUME TypeOK, KnownInv, NEW n \in Nodes PROVE RequestedOf(n) \subseteq announced[n]
      BY DEF OnlyAnnouncedRequested
    <2>1. \A i \in DOMAIN queue[n] : queue[n][i].type = "request" => queue[n][i].files \subseteq announced[n]
      <3>1. DOMAIN queue[n] = 1 .. Len(queue[n])
        BY DEF TypeOK
      <3> QED  BY <3>1 DEF KnownInv, Known
    <2>2. \A m \in net : m.to = n /\ m.body.type = "request" => m.body.files \subseteq announced[n]
      BY DEF KnownInv, Known
    <2>3. serving[n].left \subseteq announced[n]
      BY DEF KnownInv
    <2> QED  BY <2>1, <2>2, <2>3 DEF RequestedOf
  <1>3. ~Mutual => OnlyAnnouncedRequested
    BY DEF Mutual, OnlyAnnouncedRequested
  <1>4. CASE Mutual
    <2>1. Init => KnownInv
      BY <1>1, <1>4
    <2>2. TypeOK /\ KnownInv /\ [Next]_vars => KnownInv'
      BY <1>4, KnownStep
    <2> QED  BY TypeCorrect, <2>1, <2>2, <1>2, PTL DEF Spec
  <1>5. CASE ~Mutual
    <2>1. OnlyAnnouncedRequested
      BY <1>3, <1>5
    <2> QED  BY <2>1, PTL
  <1> QED  BY <1>4, <1>5

-----------------------------------------------------------------------------
(* The chunks of a request.                                                *)

ChunkOf(p, i, v) == [path |-> p, index |-> i, total |-> ChunkCount[v], content |-> v]

\* A path is read at most once in a request; the chunks sent of it are of one content,
\* and only of the file in hand may some be missing, from next on.
WholeIn(s) ==
  /\ s.path # NoFile => s.path \notin s.left
  /\ \A c \in s.sent : /\ c.path \notin s.left
                       /\ c = ChunkOf(c.path, c.index, c.content)
                       /\ c.path = s.path => c.content = s.content
                       /\ c.path # s.path =>
                            \A i \in 0 .. ChunkCount[c.content] - 1 :
                              ChunkOf(c.path, i, c.content) \in s.sent
  /\ \A c, d \in s.sent : c.path = d.path => c.content = d.content
  /\ s.path # NoFile => \A i \in 0 .. s.next - 1 : ChunkOf(s.path, i, s.content) \in s.sent

WholeInv == \A n \in Nodes : WholeIn(serving[n])

\* Every step that serves a request keeps it.
LEMMA WholeServed ==
  ASSUME TypeOK, WholeInv, NEW n \in Nodes,
         \/ BeginRequest(n)
         \/ \E p \in Paths : SkipMissing(n, p) \/ ReadFile(n, p) \/ ReadFails(n, p)
         \/ SendChunk(n) \/ FileDone(n) \/ RequestDone(n)
  PROVE  WholeInv'
  <1> DEFINE s == serving[n]
             t == serving'[n]
  <1>0. /\ serving \in [Nodes -> Serving] /\ s \in Serving /\ WholeIn(s)
        /\ s.sent \subseteq Chunks /\ s.left \subseteq Paths /\ s.next \in Nat /\ NoFile \notin Paths
    BY ContentsAssumption DEF TypeOK, WholeInv, Serving
  <1>1. ASSUME WholeIn(t), NEW r, serving' = [serving EXCEPT ![n] = r] PROVE WholeInv'
    BY <1>0, <1>1 DEF WholeInv
  <1>2. ASSUME t.sent = {}, t.path = NoFile PROVE WholeIn(t)
    BY <1>2 DEF WholeIn
  <1>3. CASE BeginRequest(n)
    <2>1. serving' = [serving EXCEPT ![n] =
                        [Idle EXCEPT !.on = TRUE, !.left = Head(queue[n]).files]]
      BY <1>3 DEF BeginRequest
    <2>2. t.sent = {} /\ t.path = NoFile
      BY <1>0, <2>1 DEF Idle
    <2> QED  BY <1>1, <1>2, <2>1, <2>2
  <1>4. ASSUME NEW p \in Paths, ReadFails(n, p) PROVE WholeInv'
    <2>1. serving' = [serving EXCEPT ![n] = Idle] /\ t.sent = {} /\ t.path = NoFile
      BY <1>0, <1>4 DEF ReadFails, Idle
    <2> QED  BY <1>1, <1>2, <2>1
  <1>5. CASE RequestDone(n)
    <2>1. serving' = [serving EXCEPT ![n] = Idle] /\ t.sent = {} /\ t.path = NoFile
      BY <1>0, <1>5 DEF RequestDone, Idle
    <2> QED  BY <1>1, <1>2, <2>1
  <1>6. ASSUME NEW p \in Paths, SkipMissing(n, p) PROVE WholeInv'
    <2>1. /\ serving' = [serving EXCEPT ![n] = [s EXCEPT !.left = @ \ {p}]]
          /\ t.left = s.left \ {p} /\ t.path = s.path /\ t.content = s.content
          /\ t.next = s.next /\ t.sent = s.sent
      BY <1>0, <1>6 DEF SkipMissing, Serving
    <2> HIDE DEF s, t
    <2>2. WholeIn(t)
      BY <1>0, <2>1 DEF WholeIn
    <2> QED  BY <1>1, <2>1, <2>2 DEF s
  <1>7. ASSUME NEW p \in Paths, ReadFile(n, p) PROVE WholeInv'
    <2> DEFINE h == disk[n][p].hash
    <2>1. /\ serving' = [serving EXCEPT ![n] = [s EXCEPT !.left = @ \ {p}, !.path = p,
                                                         !.content = h, !.next = 0]]
          /\ t.left = s.left \ {p} /\ t.path = p /\ t.next = 0 /\ t.sent = s.sent
          /\ s.path = NoFile /\ p \in s.left
      BY <1>0, <1>7 DEF ReadFile, Between, Serving
    <2>2. \A c \in s.sent : c.path \in Paths /\ c.path # p
      BY <1>0, <2>1 DEF WholeIn, Chunks
    <2> HIDE DEF s, t, h
    <2>3. WholeIn(t)
      BY <1>0, <2>1, <2>2 DEF WholeIn
    <2> QED  BY <1>1, <2>1, <2>3 DEF s
  <1>8. CASE FileDone(n)
    <2>1. /\ serving' = [serving EXCEPT ![n] = [s EXCEPT !.path = NoFile]]
          /\ t.left = s.left /\ t.path = NoFile /\ t.content = s.content /\ t.sent = s.sent
          /\ s.path # NoFile /\ s.next = ChunkCount[s.content]
      BY <1>0, <1>8 DEF FileDone, Serving
    <2> HIDE DEF s, t
    <2>2. \A c \in s.sent : c.path \in Paths /\ c.path # NoFile
      BY <1>0 DEF Chunks
    <2>3. \A c \in s.sent : \A i \in 0 .. ChunkCount[c.content] - 1 :
            ChunkOf(c.path, i, c.content) \in s.sent
      BY <1>0, <2>1 DEF WholeIn
    <2>4. WholeIn(t)
      BY <1>0, <2>1, <2>2, <2>3 DEF WholeIn
    <2> QED  BY <1>1, <2>1, <2>4 DEF s
  <1>9. CASE SendChunk(n)
    <2> DEFINE k == ChunkOf(s.path, s.next, s.content)
    <2>1. /\ serving' = [serving EXCEPT ![n] = [s EXCEPT !.next = @ + 1, !.sent = @ \cup {Chunk(n)}]]
          /\ Chunk(n) = k
          /\ t.left = s.left /\ t.path = s.path /\ t.content = s.content
          /\ t.next = s.next + 1 /\ t.sent = s.sent \cup {Chunk(n)} /\ s.path # NoFile
      BY <1>0, <1>9 DEF SendChunk, Serving, Chunk, ChunkOf
    <2>2. /\ k.path = s.path /\ k.content = s.content
          /\ k = ChunkOf(k.path, k.index, k.content)
      BY DEF ChunkOf
    <2> HIDE DEF s, t, k
    <2>3. s.path \notin t.left /\ t.sent = s.sent \cup {k}
      BY <1>0, <2>1 DEF WholeIn
    <2>4. \A i \in 0 .. t.next - 1 : ChunkOf(t.path, i, t.content) \in t.sent
      <3>1. \A i \in 0 .. t.next - 1 : i \in 0 .. s.next - 1 \/ i = s.next
        BY <1>0, <2>1
      <3> QED  BY <3>1, <1>0, <2>1, <2>3 DEF WholeIn, k
    <2>5. \A c \in t.sent : /\ c.path \notin t.left
                            /\ c = ChunkOf(c.path, c.index, c.content)
                            /\ c.path = t.path => c.content = t.content
                            /\ c.path # t.path =>
                                 \A i \in 0 .. ChunkCount[c.content] - 1 :
                                   ChunkOf(c.path, i, c.content) \in t.sent
      BY <1>0, <2>1, <2>2, <2>3 DEF WholeIn
    <2>6. \A c, d \in t.sent : c.path = d.path => c.content = d.content
      BY <1>0, <2>1, <2>2, <2>3 DEF WholeIn
    <2>7. WholeIn(t)
      BY <2>1, <2>3, <2>4, <2>5, <2>6 DEF WholeIn
    <2> QED  BY <1>1, <2>1, <2>7 DEF s
  <1> QED  BY <1>3, <1>4, <1>5, <1>6, <1>7, <1>8, <1>9

\* Every step keeps it.
LEMMA WholeStep == ASSUME TypeOK, WholeInv, [Next]_vars PROVE WholeInv'
  <1>1. ASSUME UNCHANGED serving PROVE WholeInv'
    BY <1>1 DEF WholeInv
  <1>2. ASSUME NEW n \in Nodes, DaemonStep(n) PROVE WholeInv'
    <2>1. CASE HandleLocalChanges(n) \/ HandlerFails(n) \/ HandleRemoteIndex(n) \/ RunFullSync(n)
      BY <1>1, <2>1 DEF HandleLocalChanges, HandlerFails, HandleRemoteIndex, RunFullSync
    <2> QED  BY <1>2, <2>1, WholeServed DEF DaemonStep
  <1>3. CASE Tick \/ Delivery \/ (\E n \in Nodes : Environment(n)) \/ UNCHANGED vars
    BY <1>1, <1>3 DEF Tick, Delivery, Arrive, Lose, Environment, Edit, Submit, vars
  <1> QED  BY <1>2, <1>3 DEF Next

\* The chunks sent of a file in one request are of one version of it and, once the
\* daemon has gone on to another file, all of them.
THEOREM FilesAreSentWhole == Spec => []FilesSentWhole
  <1>1. Init => WholeInv
    BY DEF Init, WholeInv, WholeIn, Idle
  <1>2. TypeOK /\ WholeInv => FilesSentWhole
    <2> SUFFICES ASSUME TypeOK, NEW n \in Nodes, WholeIn(serving[n]), NEW c \in serving[n].sent
                 PROVE  /\ \A d \in serving[n].sent : d.path = c.path => d.content = c.content
                        /\ c.path # serving[n].path =>
                             \A i \in 0 .. ChunkCount[c.content] - 1 :
                               [c EXCEPT !.index = i] \in serving[n].sent
      BY DEF FilesSentWhole, WholeInv
    <2>1. \A i : [c EXCEPT !.index = i] = ChunkOf(c.path, i, c.content)
      <3>1. c = [path |-> c.path, index |-> c.index, total |-> ChunkCount[c.content],
                 content |-> c.content]
        BY DEF WholeIn, ChunkOf
      <3> QED  BY <3>1 DEF ChunkOf
    <2> QED  BY <2>1 DEF WholeIn
  <1> QED  BY TypeCorrect, <1>1, <1>2, WholeStep, PTL DEF Spec
=============================================================================
