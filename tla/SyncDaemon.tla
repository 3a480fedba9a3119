------------------------------ MODULE SyncDaemon ------------------------------
(***************************************************************************)
(* The action loop of the sync daemon (daemon.rs) on several nodes that    *)
(* share one sync pair, and the index exchange between them.               *)
(*                                                                         *)
(* A daemon handles one action at a time.  The index handlers look at the  *)
(* directory at one instant (SyncState has the walk step by step); serving *)
(* a request goes file by file and chunk by chunk, and the directory may   *)
(* change in between.  The network is what LossyDelivery promises: each    *)
(* message arrives at most once, in any order.                             *)
(***************************************************************************)
EXTENDS FileIndexes, Sequences, FiniteSets

CONSTANTS Nodes,
          Remote,      \* pair.remote_node of every node
          Contents,
          ChunkCount,  \* chunks of each content, by advanced.chunk_size
          NoFile,      \* a node serves no file
          MaxTime,     \* bound: seconds on the clock
          MaxEdits,    \* bound: changes of the directories
          MaxActions   \* bound: LocalChange and PeriodicFullSync actions submitted

ASSUME NodesAssumption == Remote \in [Nodes -> Nodes]
ASSUME ContentsAssumption == /\ Hashes = Contents \cup {Zero} /\ Zero \notin Contents
                             /\ ChunkCount \in [Contents -> Nat]
                             /\ NoFile \notin Paths
ASSUME BoundsAssumption == {MaxTime, MaxEdits, MaxActions} \subseteq Nat

VARIABLES
  disk,       \* what every node has at a path, as an index entry
  now, edits, submitted,
  queue,      \* the action channel of every daemon
  net,        \* messages under way
  serving,    \* the FileRequest a daemon is serving
  view,       \* ghost: the two indexes a daemon compared last
  wants,      \* ghost: what it requested then
  announced   \* ghost: paths in the indexes a node has sent

vars == <<disk, now, edits, submitted, queue, net, serving, view, wants, announced>>

Empty == [p \in Paths |-> NoEntry]
Chunks == [path : Paths, index : Nat, total : Nat, content : Contents]

\* left: files not come to; path, content, next: the file read and the next chunk.
Idle == [on |-> FALSE, left |-> {}, path |-> NoFile, content |-> Zero, next |-> 0, sent |-> {}]

Init ==
  /\ disk \in [Nodes -> [Paths -> [hash : Hashes, modified : {0}] \cup {NoEntry}]]
  /\ now = 0 /\ edits = 0 /\ submitted = 0
  /\ queue = [n \in Nodes |-> <<>>]
  /\ net = {}
  /\ serving = [n \in Nodes |-> Idle]
  /\ view = [n \in Nodes |-> [local |-> Empty, remote |-> Empty]]
  /\ wants = [n \in Nodes |-> {}]
  /\ announced = [n \in Nodes |-> {}]

-----------------------------------------------------------------------------
(* The directories, and the watcher and the timers that submit actions.    *)

Tick ==
  /\ now < MaxTime
  /\ now' = now + 1
  /\ UNCHANGED <<disk, edits, submitted, queue, net, serving, view, wants, announced>>

\* A file is written, a directory made, or either removed.
Edit(n, p, e) ==
  /\ edits < MaxEdits /\ e # disk[n][p]
  /\ edits' = edits + 1
  /\ disk' = [disk EXCEPT ![n][p] = e]
  /\ UNCHANGED <<now, submitted, queue, net, serving, view, wants, announced>>

Submit(n, action) ==
  /\ submitted < MaxActions
  /\ submitted' = submitted + 1
  /\ queue' = [queue EXCEPT ![n] = Append(@, action)]
  /\ UNCHANGED <<disk, now, edits, net, serving, view, wants, announced>>

-----------------------------------------------------------------------------
(* The network.  Only indexes and requests are passed on to the daemon.    *)

Arrive(m) ==
  /\ m \in net
  /\ net' = net \ {m}
  /\ queue' = IF m.body.type \in {"index", "request"}
                THEN [queue EXCEPT ![m.to] = Append(@, m.body)] ELSE queue
  /\ UNCHANGED <<disk, now, edits, submitted, serving, view, wants, announced>>

Lose(m) ==
  /\ m \in net
  /\ net' = net \ {m}
  /\ UNCHANGED <<disk, now, edits, submitted, queue, serving, view, wants, announced>>

\* Whatever the node whose message is being answered, pair.remote_node is told.
ToRemote(n, bodies) == net \cup {[to |-> Remote[n], body |-> b] : b \in bodies}

-----------------------------------------------------------------------------
(* The handlers.                                                           *)

Takes(n, type) ==
  /\ ~serving[n].on /\ queue[n] # <<>> /\ Head(queue[n]).type = type
  /\ queue' = [queue EXCEPT ![n] = Tail(@)]
  /\ UNCHANGED <<disk, now, edits, submitted>>

\* incremental_update gives a directory the current time.
SentIndex(n) ==
  [p \in Paths |-> IF disk[n][p] # NoEntry /\ disk[n][p].hash = Zero
                     THEN [hash |-> Zero, modified |-> now] ELSE disk[n][p]]

\* The index goes out whether or not the state could be saved.
HandleLocalChanges(n) ==
  /\ Takes(n, "local")
  /\ net' = ToRemote(n, {[type |-> "index", index |-> SentIndex(n)]})
  /\ announced' = [announced EXCEPT ![n] = @ \cup Listed(disk[n])]
  /\ UNCHANGED <<serving, view, wants>>

\* `?`: an entry cannot be read while the index is updated or built.
HandlerFails(n) ==
  /\ Takes(n, "local") \/ Takes(n, "index")
  /\ UNCHANGED <<net, serving, view, wants, announced>>

Answers(offer, need) ==
  (IF offer = {} THEN {} ELSE {[type |-> "ack", files |-> offer]})
    \cup (IF need = {} THEN {} ELSE {[type |-> "request", files |-> need]})

HandleRemoteIndexVariant(n) ==   \* the index is answered with an index
  LET remote == Head(queue[n]).index
      need   == RemoteOnly(disk[n], remote)
  IN /\ Takes(n, "index")
     /\ net' = ToRemote(n, Answers(LocalOnly(disk[n], remote), need)
                             \cup {[type |-> "index", index |-> SentIndex(n)]})
     /\ view' = [view EXCEPT ![n] = [local |-> disk[n], remote |-> remote]]
     /\ wants' = [wants EXCEPT ![n] = need]
     /\ announced' = [announced EXCEPT ![n] = @ \cup Listed(disk[n])]
     /\ UNCHANGED serving

HandleRemoteIndex(n) ==
  LET remote == Head(queue[n]).index
      need   == RemoteOnly(disk[n], remote)
  IN /\ Takes(n, "index")
     /\ net' = ToRemote(n, Answers(LocalOnly(disk[n], remote), need))
     /\ view' = [view EXCEPT ![n] = [local |-> disk[n], remote |-> remote]]
     /\ wants' = [wants EXCEPT ![n] = need]
     /\ UNCHANGED <<serving, announced>>

\* The index is built and cached; nothing is sent.
RunFullSync(n) ==
  /\ Takes(n, "full")
  /\ UNCHANGED <<net, serving, view, wants, announced>>

BeginRequest(n) ==
  /\ Takes(n, "request")
  /\ serving' = [serving EXCEPT ![n] = [Idle EXCEPT !.on = TRUE, !.left = Head(queue[n]).files]]
  /\ UNCHANGED <<net, view, wants, announced>>

-----------------------------------------------------------------------------
(* handle_file_request.  The files come in the order of a HashMap.         *)

ServeOnly == UNCHANGED <<disk, now, edits, submitted, queue, view, wants, announced>>

Between(n) == serving[n].on /\ serving[n].path = NoFile

SkipMissing(n, p) ==
  /\ Between(n) /\ p \in serving[n].left /\ disk[n][p] = NoEntry
  /\ serving' = [serving EXCEPT ![n].left = @ \ {p}]
  /\ UNCHANGED net /\ ServeOnly

ReadFile(n, p) ==
  /\ Between(n) /\ p \in serving[n].left /\ disk[n][p] # NoEntry /\ disk[n][p].hash # Zero
  /\ serving' = [serving EXCEPT ![n].left = @ \ {p}, ![n].path = p,
                                ![n].content = disk[n][p].hash, ![n].next = 0]
  /\ UNCHANGED net /\ ServeOnly

\* `?` on the read: it is a directory, it went after it was seen to exist, or it
\* cannot be read.  The rest of the request is dropped.
ReadFails(n, p) ==
  /\ Between(n) /\ p \in serving[n].left
  /\ serving' = [serving EXCEPT ![n] = Idle]
  /\ UNCHANGED net /\ ServeOnly

ChunkVariant(n) ==   \* the file is read again for each chunk
  LET s == serving[n]
      c == IF disk[n][s.path] = NoEntry \/ disk[n][s.path].hash = Zero
             THEN s.content ELSE disk[n][s.path].hash
  IN [path |-> s.path, index |-> s.next, total |-> ChunkCount[c], content |-> c]

Chunk(n) ==
  LET s == serving[n]
  IN [path |-> s.path, index |-> s.next, total |-> ChunkCount[s.content], content |-> s.content]

SendChunkVariant(n) ==   \* one chunk too many
  LET s == serving[n]
  IN /\ s.path # NoFile /\ s.next <= ChunkCount[s.content]
     /\ net' = ToRemote(n, {[type |-> "chunk", chunk |-> Chunk(n)]})
     /\ serving' = [serving EXCEPT ![n].next = @ + 1, ![n].sent = @ \cup {Chunk(n)}]
     /\ ServeOnly

SendChunk(n) ==
  LET s == serving[n]
  IN /\ s.path # NoFile /\ s.next < ChunkCount[s.content]
     /\ net' = ToRemote(n, {[type |-> "chunk", chunk |-> Chunk(n)]})
     /\ serving' = [serving EXCEPT ![n].next = @ + 1, ![n].sent = @ \cup {Chunk(n)}]
     /\ ServeOnly

FileDone(n) ==
  /\ serving[n].path # NoFile /\ serving[n].next = ChunkCount[serving[n].content]
  /\ serving' = [serving EXCEPT ![n].path = NoFile]
  /\ UNCHANGED net /\ ServeOnly

RequestDone(n) ==
  /\ Between(n) /\ serving[n].left = {}
  /\ serving' = [serving EXCEPT ![n] = Idle]
  /\ UNCHANGED net /\ ServeOnly

-----------------------------------------------------------------------------
DaemonStep(n) ==
  \/ HandleLocalChanges(n) \/ HandlerFails(n) \/ HandleRemoteIndex(n)
  \/ RunFullSync(n) \/ BeginRequest(n)
  \/ \E p \in Paths : SkipMissing(n, p) \/ ReadFile(n, p) \/ ReadFails(n, p)
  \/ SendChunk(n) \/ FileDone(n) \/ RequestDone(n)

Delivery == \E m \in net : Arrive(m) \/ Lose(m)

Environment(n) ==
  \/ \E p \in Paths, e \in [hash : Hashes, modified : {now}] \cup {NoEntry} : Edit(n, p, e)
  \/ Submit(n, [type |-> "local"]) \/ Submit(n, [type |-> "full"])

Next == Tick \/ Delivery \/ \E n \in Nodes : DaemonStep(n) \/ Environment(n)

Spec == Init /\ [][Next]_vars

\* The daemons run and the network gets rid of every message, by losing it even.
FairSpec == Spec /\ WF_vars(Delivery) /\ \A n \in Nodes : WF_vars(DaemonStep(n))

-----------------------------------------------------------------------------
(* Properties.                                                             *)

Requests == [type : {"request"}, files : SUBSET Paths]
Actions  == [type : {"local", "full"}] \cup [type : {"index"}, index : Indexes] \cup Requests
Bodies   == Actions \cup [type : {"ack"}, files : SUBSET Paths]
                    \cup [type : {"chunk"}, chunk : Chunks]
Serving  == [on : BOOLEAN, left : SUBSET Paths, path : Paths \cup {NoFile},
             content : Hashes, next : Nat, sent : SUBSET Chunks]

\* Every variable keeps its type (daemon.rs:23-57).
TypeOK ==
  /\ disk \in [Nodes -> Indexes]
  /\ now \in Nat /\ edits \in Nat /\ submitted \in Nat
  /\ queue \in [Nodes -> Seq(Actions)]
  /\ net \subseteq [to : Nodes, body : Bodies]
  /\ serving \in [Nodes -> Serving]
  /\ \A n \in Nodes : serving[n].path # NoFile =>
       serving[n].content \in Contents /\ serving[n].next <= ChunkCount[serving[n].content]
  /\ view \in [Nodes -> [local : Indexes, remote : Indexes]]
  /\ wants \in [Nodes -> SUBSET Paths]
  /\ announced \in [Nodes -> SUBSET Paths]

\* An entry of an index stands for what a directory has now: a directory that was
\* not touched since it was announced is as good as announced.
Stands(e, f) ==
  \/ e = f
  \/ NoEntry \notin {e, f} /\ e.hash = Zero /\ f.hash = Zero /\ e.modified >= f.modified

\* n compared its directory as it is now with the one its remote node has now.
UpToDate(n) ==
  /\ view[n].local = disk[n]
  /\ \A p \in Paths : Stands(view[n].remote[p], disk[Remote[n]][p])

\* When two nodes have each compared the directories as they are, whatever was
\* lost, reordered or edited on the way, every path on which they differ was
\* requested by one of them, and by one only if it is a file on both sides written
\* in different seconds: "以修改时间较新的为准" (sync.rs:178).  So one version
\* wins and nothing is left out, although a directory is announced with the time
\* of the announcement (state.rs:151).
DecisionsAgree ==
  \A n \in Nodes :
    LET m == Remote[n]
    IN Remote[m] = n /\ UpToDate(n) /\ UpToDate(m) =>
         /\ Differ(disk[n], disk[m]) = wants[n] \cup wants[m]
         /\ \A p \in wants[n] \cap wants[m] :
              \/ Zero \in {disk[n][p].hash, disk[m][p].hash}
              \/ disk[n][p].modified = disk[m][p].modified

RequestedOf(n) ==
  serving[n].left
    \cup (UNION {m.body.files : m \in {x \in net : x.to = n /\ x.body.type = "request"}})
    \cup (UNION {queue[n][i].files : i \in {j \in DOMAIN queue[n] : queue[n][j].type = "request"}})

\* A node is never asked for a path it has not announced: requests name what the
\* remote index listed, never what is local only (daemon.rs:260-270), when the pair
\* names the two nodes mutually.
OnlyAnnouncedRequested ==
  (\A n \in Nodes : Remote[Remote[n]] = n) =>
    \A n \in Nodes : RequestedOf(n) \subseteq announced[n]

\* All chunks of a file sent for one request are of one version of it, whole, even
\* when the file is written while they are sent (daemon.rs:312-333).
FilesSentWhole ==
  \A n \in Nodes : \A c \in serving[n].sent :
    /\ \A d \in serving[n].sent : d.path = c.path => d.content = c.content
    /\ c.path # serving[n].path =>
         \A i \in 0 .. ChunkCount[c.content] - 1 : [c EXCEPT !.index = i] \in serving[n].sent

\* An exchange comes to an end: no message provokes an endless conversation
\* (daemon.rs:111-169).
ComesToRest ==
  <>[](net = {} /\ \A n \in Nodes : queue[n] = <<>> /\ ~serving[n].on)
=============================================================================
