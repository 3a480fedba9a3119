--------------------------- MODULE PeerConnections ---------------------------
(***************************************************************************)
(* The outgoing half of NetworkManager (network.rs) on one node: the table *)
(* of peers that the connect loop, the writer and reader task of every     *)
(* connection ever installed, the command handler and stop() share, and    *)
(* the bounded channel and the socket behind each connection.              *)
(*                                                                         *)
(* A connection is a number, in the order the loop opened them.  Its tasks *)
(* outlive its place in the table: that is where the interleavings are.    *)
(***************************************************************************)
EXTENDS Integers, Sequences, FiniteSets

CONSTANTS Peers,      \* ids of the configured peers
          MaxConn,    \* bound: connections opened in a behaviour
          MaxMsg,     \* bound: commands the daemon submits in a behaviour
          MaxTotal,   \* bound: connections and commands of a behaviour together
          NoPeer,     \* no peer is being dialed
          Cap,        \* capacity of a write channel (256 in the code)
          WireCap,    \* frames a socket buffers before a write has to wait
          MayVanish,  \* TRUE: a peer may go silent without closing its socket
          MayStop     \* TRUE: stop() may be called (main.rs does so as it exits)

ASSUME PeersAssumption == IsFiniteSet(Peers)
ASSUME NoPeerAssumption == NoPeer \notin Peers
ASSUME BoundsAssumption == /\ MaxConn \in Nat /\ MaxMsg \in Nat /\ MaxTotal \in Nat
                           /\ Cap \in Nat \ {0} /\ WireCap \in Nat \ {0}
ASSUME SwitchesAssumption == MayVanish \in BOOLEAN /\ MayStop \in BOOLEAN

Conns  == 1 .. MaxConn
NoConn == 0                      \* write_tx = None
Msgs   == 1 .. MaxMsg

States   == {"Disconnected", "Connecting", "Connected", "Failed"}
LoopPcs  == {"collect", "next", "mark", "dial", "ack", "install", "fail",
             "sleep", "ended"}
Tasks    == {"none", "run", "cleanup", "done"}
Sockets  == {"none", "up", "closed", "vanished"}
Commands == [msg : Msgs, to : SUBSET Peers]

VARIABLES
  state,      \* PeerConnection.state of every peer
  tx,         \* PeerConnection.write_tx: the connection whose channel it feeds
  stop,       \* "no", "requested" (running = false), "done" (table cleared)
  loop, todo, dialing,   \* the connect loop: where it is, peers_to_connect, peer_id
  nconn,      \* connections opened so far
  owner,      \* the peer a connection was opened to
  sock,       \* its socket
  writer, reader,        \* its two tasks
  queue,      \* its write channel
  wire,       \* what the socket holds and the peer has not read
  cmds,       \* NetworkCommands the handler has not taken
  nmsg,       \* commands submitted so far
  sending,    \* the command in hand: its message and the peers still to be sent to
  delivered   \* what each peer has read, in order, with the connection it came by

table    == <<state, tx>>
loopVars == <<loop, todo, dialing>>
connVars == <<nconn, owner>>
taskVars == <<sock, writer, reader, queue, wire>>
cmdVars  == <<cmds, nmsg, sending>>
vars == <<state, tx, stop, loop, todo, dialing, nconn, owner, sock, writer,
          reader, queue, wire, cmds, nmsg, sending, delivered>>

running == stop = "no"

\* The handler keeps the read guard of the table while a send waits for room in
\* a channel, so every section that takes the write lock waits for it.
WriteLockFree == sending.to = {}

\* The sender half of g's channel is alive as long as the table holds it.
ChannelOpen(g) == tx[owner[g]] = g

Init ==
  /\ state = [p \in Peers |-> "Disconnected"]
  /\ tx = [p \in Peers |-> NoConn]
  /\ stop = "no"
  /\ loop = "collect" /\ todo = {} /\ dialing = NoPeer
  /\ nconn = 0
  /\ owner = [g \in Conns |-> NoPeer]
  /\ sock = [g \in Conns |-> "none"]
  /\ writer = [g \in Conns |-> "none"]
  /\ reader = [g \in Conns |-> "none"]
  /\ queue = [g \in Conns |-> <<>>]
  /\ wire = [g \in Conns |-> <<>>]
  /\ cmds = <<>> /\ nmsg = 0
  /\ sending = [msg |-> 0, to |-> {}]
  /\ delivered = [p \in Peers |-> <<>>]

-----------------------------------------------------------------------------
(* The connect loop.                                                       *)

LoopOnly == UNCHANGED <<table, stop, connVars, taskVars, cmdVars, delivered>>

\* Variants named ...Variant are plausible slips in the definition that follows;
\* no specification uses them, they show which property each slip breaks.
CollectAllVariant ==
  /\ loop = "collect"
  /\ todo' = Peers
  /\ loop' = "next"
  /\ UNCHANGED dialing /\ LoopOnly

CollectDisconnectedVariant ==
  /\ loop = "collect"
  /\ todo' = {p \in Peers : state[p] = "Disconnected"}
  /\ loop' = "next"
  /\ UNCHANGED dialing /\ LoopOnly

\* A round starts with a snapshot of the peers that are not connected.
Collect ==
  /\ loop = "collect"
  /\ todo' = {p \in Peers : state[p] # "Connected"}
  /\ loop' = "next"
  /\ UNCHANGED dialing /\ LoopOnly

PickPeerVariant ==   \* the flag is read once a round
  /\ loop = "next" /\ todo # {}
  /\ \E p \in todo : dialing' = p /\ todo' = todo \ {p}
  /\ loop' = "mark"
  /\ LoopOnly

\* The running flag is read before each peer, and only there.
PickPeer ==
  /\ loop = "next" /\ running
  /\ \E p \in todo : dialing' = p /\ todo' = todo \ {p}
  /\ loop' = "mark"
  /\ LoopOnly

LoopEnds ==
  /\ loop = "next" /\ todo # {} /\ ~running
  /\ loop' = "ended" /\ todo' = {}
  /\ UNCHANGED dialing /\ LoopOnly

RoundOver ==
  /\ loop = "next" /\ todo = {}
  /\ loop' = "sleep"
  /\ UNCHANGED <<todo, dialing>> /\ LoopOnly

Wake ==
  /\ loop = "sleep"
  /\ loop' = "collect"
  /\ UNCHANGED <<todo, dialing>> /\ LoopOnly

MarkConnecting ==
  /\ loop = "mark" /\ WriteLockFree
  /\ state' = [state EXCEPT ![dialing] = "Connecting"]
  /\ loop' = "dial"
  /\ UNCHANGED <<tx, stop, todo, dialing, connVars, taskVars, cmdVars, delivered>>

MayOpen == nconn < MaxConn /\ nconn + nmsg < MaxTotal

\* TcpStream::connect answers within connect_timeout and the handshake is sent.
DialOk(p) ==
  /\ loop = "dial" /\ dialing = p /\ MayOpen
  /\ nconn' = nconn + 1
  /\ owner' = [owner EXCEPT ![nconn'] = p]
  /\ sock' = [sock EXCEPT ![nconn'] = "up"]
  /\ loop' = "ack"
  /\ UNCHANGED <<table, stop, todo, dialing, writer, reader, queue, wire,
                 cmdVars, delivered>>

\* Refused, unreachable, or connect_timeout elapsed.
DialFail ==
  /\ loop = "dial"
  /\ loop' = "fail"
  /\ UNCHANGED <<todo, dialing>> /\ LoopOnly

\* The peer's HandshakeAck says accepted.
AckOk(p) ==
  /\ loop = "ack" /\ dialing = p /\ sock[nconn] = "up"
  /\ loop' = "install"
  /\ UNCHANGED <<todo, dialing>> /\ LoopOnly

AckFailVariant ==   \* end of stream is not noticed
  /\ loop = "ack" /\ sock[nconn] = "up"
  /\ sock' = [sock EXCEPT ![nconn] = "closed"]
  /\ loop' = "fail"
  /\ UNCHANGED <<table, stop, todo, dialing, connVars, writer, reader, queue,
                 wire, cmdVars, delivered>>

\* A refusal, another message or a read error; the stream is dropped.  No
\* timeout covers the read, so nothing happens while the peer stays silent.
AckFail ==
  /\ loop = "ack" /\ sock[nconn] \in {"up", "closed"}
  /\ sock' = [sock EXCEPT ![nconn] = "closed"]
  /\ loop' = "fail"
  /\ UNCHANGED <<table, stop, todo, dialing, connVars, writer, reader, queue,
                 wire, cmdVars, delivered>>

InstallVariant ==   \* an entry that has a channel keeps it
  /\ loop = "install" /\ WriteLockFree
  /\ state' = [state EXCEPT ![dialing] = "Connected"]
  /\ tx' = [tx EXCEPT ![dialing] = IF @ = NoConn THEN nconn ELSE @]
  /\ writer' = [writer EXCEPT ![nconn] = "run"]
  /\ reader' = [reader EXCEPT ![nconn] = "run"]
  /\ loop' = "next" /\ dialing' = NoPeer
  /\ UNCHANGED <<stop, todo, connVars, sock, queue, wire, cmdVars, delivered>>

\* The new channel replaces whatever the table held, and the tasks start.  The
\* running flag is not read again; the iteration is over.
Install ==
  /\ loop = "install" /\ WriteLockFree
  /\ state' = [state EXCEPT ![dialing] = "Connected"]
  /\ tx' = [tx EXCEPT ![dialing] = nconn]
  /\ writer' = [writer EXCEPT ![nconn] = "run"]
  /\ reader' = [reader EXCEPT ![nconn] = "run"]
  /\ loop' = "next" /\ dialing' = NoPeer
  /\ UNCHANGED <<stop, todo, connVars, sock, queue, wire, cmdVars, delivered>>

MarkFailed ==
  /\ loop = "fail" /\ WriteLockFree
  /\ state' = [state EXCEPT ![dialing] = "Failed"]
  /\ loop' = "next" /\ dialing' = NoPeer
  /\ UNCHANGED <<tx, stop, todo, connVars, taskVars, cmdVars, delivered>>

-----------------------------------------------------------------------------
(* The tasks of connection g.  Both clean up the entry of the PEER they    *)
(* served, whichever connection that entry holds by then.                  *)

TaskOnly == UNCHANGED <<stop, loopVars, connVars, cmdVars, delivered>>

WriteOkVariant(g) ==   \* the frame stays queued and is written again
  /\ writer[g] = "run" /\ queue[g] # <<>> /\ sock[g] = "up"
  /\ Len(wire[g]) < WireCap
  /\ wire' = [wire EXCEPT ![g] = Append(@, Head(queue[g]))]
  /\ UNCHANGED <<table, sock, writer, reader, queue>> /\ TaskOnly

WriteOk(g) ==
  /\ writer[g] = "run" /\ queue[g] # <<>> /\ sock[g] = "up"
  /\ Len(wire[g]) < WireCap
  /\ wire' = [wire EXCEPT ![g] = Append(@, Head(queue[g]))]
  /\ queue' = [queue EXCEPT ![g] = Tail(@)]
  /\ UNCHANGED <<table, sock, writer, reader>> /\ TaskOnly

\* The kernel takes the frame although the peer is gone.
WriteLost(g) ==
  /\ writer[g] = "run" /\ queue[g] # <<>> /\ sock[g] # "up"
  /\ queue' = [queue EXCEPT ![g] = Tail(@)]
  /\ UNCHANGED <<table, sock, writer, reader, wire>> /\ TaskOnly

WriterStopsVariant(g) ==   \* a closed channel is not drained
  /\ writer[g] = "run"
  /\ (queue[g] # <<>> /\ sock[g] # "up") \/ ~ChannelOpen(g)
  /\ writer' = [writer EXCEPT ![g] = "cleanup"]
  /\ queue' = [queue EXCEPT ![g] = <<>>]
  /\ UNCHANGED <<table, sock, reader, wire>> /\ TaskOnly

\* A write error, or a closed channel that is drained; the receiver is dropped.
WriterStops(g) ==
  /\ writer[g] = "run"
  /\ \/ queue[g] # <<>> /\ sock[g] # "up"
     \/ queue[g] = <<>> /\ ~ChannelOpen(g)
  /\ writer' = [writer EXCEPT ![g] = "cleanup"]
  /\ queue' = [queue EXCEPT ![g] = <<>>]
  /\ UNCHANGED <<table, sock, reader, wire>> /\ TaskOnly

WriterCleanupStateVariant(g) ==   \* only the channel is cleared
  /\ writer[g] = "cleanup" /\ WriteLockFree
  /\ tx' = [tx EXCEPT ![owner[g]] = NoConn]
  /\ writer' = [writer EXCEPT ![g] = "done"]
  /\ UNCHANGED <<state, sock, reader, queue, wire>> /\ TaskOnly

WriterCleanupLockVariant(g) ==   \* the handler's read guard is not respected
  /\ writer[g] = "cleanup"
  /\ state' = [state EXCEPT ![owner[g]] = "Disconnected"]
  /\ tx' = [tx EXCEPT ![owner[g]] = NoConn]
  /\ writer' = [writer EXCEPT ![g] = "done"]
  /\ UNCHANGED <<sock, reader, queue, wire>> /\ TaskOnly

WriterCleanup(g) ==
  /\ writer[g] = "cleanup" /\ WriteLockFree
  /\ state' = [state EXCEPT ![owner[g]] = "Disconnected"]
  /\ tx' = [tx EXCEPT ![owner[g]] = NoConn]
  /\ writer' = [writer EXCEPT ![g] = "done"]
  /\ UNCHANGED <<sock, reader, queue, wire>> /\ TaskOnly

\* End of stream or a read error.  A silent peer may never cause one.
ReaderStops(g) ==
  /\ reader[g] = "run" /\ sock[g] # "up"
  /\ reader' = [reader EXCEPT ![g] = "cleanup"]
  /\ UNCHANGED <<table, sock, writer, queue, wire>> /\ TaskOnly

\* The reader leaves write_tx in place.
ReaderCleanup(g) ==
  /\ reader[g] = "cleanup" /\ WriteLockFree
  /\ state' = [state EXCEPT ![owner[g]] = "Disconnected"]
  /\ reader' = [reader EXCEPT ![g] = "done"]
  /\ UNCHANGED <<tx, sock, writer, queue, wire>> /\ TaskOnly

-----------------------------------------------------------------------------
(* The command handler.  A command goes to one peer (SendToPeer) or to all *)
(* (Broadcast); a peer without a channel is skipped.                       *)

\* With nobody left to send to the command is forgotten and the guard released.
InHand(msg, to) == [msg |-> IF to = {} THEN 0 ELSE msg, to |-> to]

Submit(to) ==
  /\ nmsg < MaxMsg /\ nconn + nmsg < MaxTotal
  /\ nmsg' = nmsg + 1
  /\ cmds' = Append(cmds, [msg |-> nmsg', to |-> to])
  /\ UNCHANGED <<table, stop, loopVars, connVars, taskVars, sending, delivered>>

TakeCommandWaitVariant ==   \* a command waits until every target has a channel
  /\ sending.to = {} /\ cmds # <<>>
  /\ \A p \in Head(cmds).to : tx[p] # NoConn
  /\ sending' = InHand(Head(cmds).msg, Head(cmds).to)
  /\ cmds' = Tail(cmds)
  /\ UNCHANGED <<table, stop, loopVars, connVars, taskVars, nmsg, delivered>>

TakeCommandVariant ==   \* the newest command first
  /\ sending.to = {} /\ cmds # <<>>
  /\ LET c == cmds[Len(cmds)]
     IN sending' = InHand(c.msg, {p \in c.to : tx[p] # NoConn})
  /\ cmds' = SubSeq(cmds, 1, Len(cmds) - 1)
  /\ UNCHANGED <<table, stop, loopVars, connVars, taskVars, nmsg, delivered>>

TakeCommand ==
  /\ sending.to = {} /\ cmds # <<>>
  /\ sending' = InHand(Head(cmds).msg, {p \in Head(cmds).to : tx[p] # NoConn})
  /\ cmds' = Tail(cmds)
  /\ UNCHANGED <<table, stop, loopVars, connVars, taskVars, nmsg, delivered>>

SendIntoVariant(p) ==   \* an unbounded channel
  /\ p \in sending.to
  /\ writer[tx[p]] = "run"
  /\ queue' = [queue EXCEPT ![tx[p]] = Append(@, sending.msg)]
  /\ sending' = InHand(sending.msg, sending.to \ {p})
  /\ UNCHANGED <<table, stop, loopVars, connVars, sock, writer, reader, wire,
                 cmds, nmsg, delivered>>

\* tx.send: waits for room, with the read guard held.
SendInto(p) ==
  /\ p \in sending.to
  /\ writer[tx[p]] = "run" /\ Len(queue[tx[p]]) < Cap
  /\ queue' = [queue EXCEPT ![tx[p]] = Append(@, sending.msg)]
  /\ sending' = InHand(sending.msg, sending.to \ {p})
  /\ UNCHANGED <<table, stop, loopVars, connVars, sock, writer, reader, wire,
                 cmds, nmsg, delivered>>

\* The receiver is gone: the message is dropped and the error logged.
SendFails(p) ==
  /\ p \in sending.to
  /\ writer[tx[p]] # "run"
  /\ sending' = InHand(sending.msg, sending.to \ {p})
  /\ UNCHANGED <<table, stop, loopVars, connVars, taskVars, cmds, nmsg, delivered>>

-----------------------------------------------------------------------------
(* stop(): the flag first, then the table under the write lock.            *)

StopRequest ==
  /\ MayStop /\ running
  /\ stop' = "requested"
  /\ UNCHANGED <<table, loopVars, connVars, taskVars, cmdVars, delivered>>

StopTable ==
  /\ stop = "requested" /\ WriteLockFree
  /\ stop' = "done"
  /\ state' = [p \in Peers |-> "Disconnected"]
  /\ tx' = [p \in Peers |-> NoConn]
  /\ UNCHANGED <<loopVars, connVars, taskVars, cmdVars, delivered>>

-----------------------------------------------------------------------------
(* The peers and the network.                                              *)

\* handle_incoming_connection at the peer reads the next frame.
PeerReads(g) ==
  /\ wire[g] # <<>>
  /\ delivered' = [delivered EXCEPT
                     ![owner[g]] = Append(@, [via |-> g, msg |-> Head(wire[g])])]
  /\ wire' = [wire EXCEPT ![g] = Tail(@)]
  /\ UNCHANGED <<table, stop, loopVars, connVars, sock, writer, reader, queue, cmdVars>>

Breaks(g, how) ==
  /\ sock[g] = "up"
  /\ sock' = [sock EXCEPT ![g] = how]
  /\ wire' = [wire EXCEPT ![g] = <<>>]
  /\ UNCHANGED <<table, writer, reader, queue>> /\ TaskOnly

PeerCloses(g)   == Breaks(g, "closed")
PeerVanishes(g) == MayVanish /\ Breaks(g, "vanished")

-----------------------------------------------------------------------------
LoopStep ==
  \/ Collect \/ PickPeer \/ LoopEnds \/ RoundOver \/ Wake
  \/ MarkConnecting \/ DialFail \/ AckFail \/ Install \/ MarkFailed
  \/ \E p \in Peers : DialOk(p) \/ AckOk(p)

WriterStep(g) == WriteOk(g) \/ WriteLost(g) \/ WriterStops(g) \/ WriterCleanup(g)
ReaderStep(g) == ReaderStops(g) \/ ReaderCleanup(g)
HandlerStep   == TakeCommand \/ \E p \in Peers : SendInto(p) \/ SendFails(p)
Submission    == Submit(Peers) \/ \E p \in Peers : Submit({p})

Next ==
  \/ LoopStep \/ HandlerStep \/ Submission \/ StopRequest \/ StopTable
  \/ \E g \in Conns : \/ WriterStep(g) \/ ReaderStep(g)
                      \/ PeerReads(g) \/ PeerCloses(g) \/ PeerVanishes(g)

Spec == Init /\ [][Next]_vars

-----------------------------------------------------------------------------
(* Fairness.  The tasks run on the tokio scheduler, whose RwLock is FIFO.  *)
(* The loop goes on unless it waits for the ack of a silent peer; a peer   *)
(* that is dialed again and again accepts in the end (SF).  Nothing is     *)
(* assumed of breaks, of stop(), of the daemon, nor of a silent peer.      *)

Fairness ==
  /\ WF_vars(LoopStep)
  /\ \A p \in Peers : SF_vars(DialOk(p)) /\ SF_vars(AckOk(p))
  /\ WF_vars(HandlerStep)
  /\ \A g \in Conns : /\ WF_vars(WriterStep(g)) /\ WF_vars(ReaderCleanup(g))
                      /\ WF_vars(ReaderStops(g) /\ sock[g] = "closed")
                      /\ WF_vars(PeerReads(g))

FairSpec == Spec /\ Fairness

-----------------------------------------------------------------------------
(* Properties.                                                             *)

\* Every variable keeps its type; channels never exceed their capacity
\* (mpsc::channel(256) at network.rs:197).
TypeOK ==
  /\ state \in [Peers -> States]
  /\ tx \in [Peers -> Conns \cup {NoConn}]
  /\ stop \in {"no", "requested", "done"}
  /\ loop \in LoopPcs /\ todo \in SUBSET Peers /\ dialing \in Peers \cup {NoPeer}
  /\ nconn \in 0 .. MaxConn
  /\ owner \in [Conns -> Peers \cup {NoPeer}]
  /\ sock \in [Conns -> Sockets]
  /\ writer \in [Conns -> Tasks] /\ reader \in [Conns -> Tasks]
  /\ queue \in [Conns -> Seq(Msgs)] /\ wire \in [Conns -> Seq(Msgs)]
  /\ \A g \in Conns : Len(queue[g]) <= Cap /\ Len(wire[g]) <= WireCap
  /\ cmds \in Seq(Commands) /\ nmsg \in 0 .. MaxMsg
  /\ sending \in [msg : Msgs \cup {0}, to : SUBSET Peers]
  /\ delivered \in [Peers -> Seq([via : Conns, msg : Msgs])]

\* A peer the table calls Connected has a write channel, whatever order the
\* cleanups of old tasks and the installs of new connections come in: the two
\* fields are written together except at network.rs:227, which clears the state.
ConnectedHasChannel == \A p \in Peers : state[p] = "Connected" => tx[p] # NoConn

\* A cleanup at network.rs:212 may clear a newer channel, but it never brings an
\* old one back: the channel in the table is that of the newest connection
\* installed for the peer, and its writer has not finished.
ChannelIsNewest ==
  \A p \in Peers : tx[p] # NoConn =>
    /\ owner[tx[p]] = p
    /\ writer[tx[p]] \in {"run", "cleanup"}
    /\ \A g \in Conns : owner[g] = p /\ writer[g] # "none" => g <= tx[p]

\* The loop uses its snapshot of network.rs:159 long after the read lock is gone.
\* No peer of it is dialed while the table says Connected, so a round never
\* replaces a connection in use.
NeverDialsConnected ==
  /\ \A p \in todo : state[p] # "Connected"
  /\ loop \in {"mark", "dial", "ack", "install", "fail"} => state[dialing] # "Connected"

\* The channel a blocked send waits on stays in the table until the send ends
\* (network.rs:304), and a full one still has a writer that will make room or
\* drop its receiver: the handler cannot wait for a task that waits for it.
BlockedSendCanEnd ==
  \A p \in sending.to :
    /\ tx[p] # NoConn
    /\ Len(queue[tx[p]]) = Cap => writer[tx[p]] \in {"run", "cleanup"}

\* stop() does not wait for the loop (network.rs:436-444): the dial under way may install
\* its connection after the table was cleared, but that is the last one, and until then
\* nobody has a channel.
StopLeavesAtMostOne ==
  stop = "done" =>
    /\ loop \in {"mark", "dial", "ack", "install", "fail"} => \A p \in Peers : tx[p] = NoConn
    /\ \A p, q \in Peers : tx[p] # NoConn /\ tx[q] # NoConn => p = q

\* What a peer reads from one connection comes in the order the daemon sent it,
\* through the command channel, the write channel and the socket.  (Across two
\* connections of one peer it may not.)
InOrderPerConnection ==
  \A p \in Peers : \A i, j \in DOMAIN delivered[p] :
    i < j /\ delivered[p][i].via = delivered[p][j].via
      => delivered[p][i].msg < delivered[p][j].msg

\* A connection whose socket is up is left alone by the tasks of older ones while
\* the manager runs.  The table is "活跃连接" (network.rs:50), the state of the
\* active connection.  The code does not keep this.
HealthyConnectionKept ==
  [][\A p \in Peers :
       running /\ state[p] = "Connected" /\ sock[tx[p]] = "up"
         => state'[p] = "Connected"]_vars

\* Every peer that is not connected is connected in the end, unless stop() is
\* called: a failed peer, a broken connection, a full channel or the late cleanup
\* of an older connection does not keep the loop from coming back to it
\* (network.rs:157-244).  The bound on connections ends the promise only where
\* it bites, at a dial of the loop that it forbids.  Needs peers that answer
\* (MayVanish = FALSE).
EventuallyConnected ==
  \A p \in Peers :
    state[p] # "Connected"
      ~> (state[p] = "Connected" \/ ~running \/ (loop = "dial" /\ ~MayOpen))

\* Every peer of a round gets its turn and the turn ends, stop() or not: by
\* connect_timeout ("连接超时 (秒)", config.rs:57) at the latest.  The timeout of
\* network.rs:580 covers the TCP connect only, so this needs peers that do not
\* go silent before their HandshakeAck (MayVanish = FALSE).
EveryTurnComes ==
  \A p \in Peers : (p \in todo \/ dialing = p) ~> (p \notin todo /\ dialing # p)

\* The command handler never stays behind: every submitted command is taken and
\* its sends end (network.rs:288-344), although a send that finds the channel
\* full holds up every writer of the table, stop() included.
CommandsDrain == cmds # <<>> ~> (cmds = <<>> /\ sending.to = {})

\* A message that reached a write channel is read by the peer unless the socket
\* breaks, even when the table drops the channel: the writer drains what is
\* queued before it sees the channel closed (network.rs:696).
AcceptedIsRead ==
  \A g \in Conns, m \in Msgs :
    (\E i \in DOMAIN queue[g] : queue[g][i] = m)
      ~> (\/ sock[g] # "up"
          \/ \E i \in DOMAIN delivered[owner[g]] :
               delivered[owner[g]][i] = [via |-> g, msg |-> m])

\* What the network promises the daemon, with what it still holds and what the
\* peers have read read off the detailed state.
InFlight ==
  LET Of(seq, p) == {<<seq[i], p>> : i \in DOMAIN seq}
      HeldFor(g) == IF owner[g] \in Peers
                      THEN Of(queue[g], owner[g]) \cup Of(wire[g], owner[g]) ELSE {}
  IN (UNION {{cmds[i].msg} \X cmds[i].to : i \in DOMAIN cmds})
       \cup ({sending.msg} \X sending.to)
       \cup UNION {HeldFor(g) : g \in Conns}

ReadBy == [p \in Peers |-> [i \in DOMAIN delivered[p] |-> delivered[p][i].msg]]

Lossy == INSTANCE LossyDelivery WITH offered <- 1 .. nmsg, pending <- InFlight, got <- ReadBy

\* Every step of the tasks, the table and the sockets is a step of LossyDelivery:
\* a command may be lost at any point, but each addressee reads it at most once
\* and nobody else reads it (network.rs:288-344, 695-701).
DeliveryRefined == Lossy!Spec
=============================================================================
