------------------------ MODULE PeerConnections_proofs ------------------------
(***************************************************************************)
(* Proofs about PeerConnections for every set of peers and every bound.    *)
(* The table invariants are not inductive alone: they need to know which   *)
(* connection the loop has in hand (LoopInv), that the tasks of a          *)
(* connection exist only once it is installed (ConnInv), and that a        *)
(* command in hand is a real one whose targets have a channel (HandInv).   *)
(***************************************************************************)
EXTENDS PeerConnections, SequenceTheorems, TLAPS

Dialing == loop \in {"mark", "dial", "ack", "install", "fail"}

LoopInv ==
  /\ Dialing => dialing \in Peers /\ dialing \notin todo
  /\ loop \in {"ack", "install"} =>
       nconn \in Conns /\ owner[nconn] = dialing /\ writer[nconn] = "none"

ConnInv ==
  \A g \in Conns :
    /\ g <= nconn => owner[g] \in Peers
    /\ writer[g] # "none" \/ reader[g] # "none" \/ wire[g] # <<>> => g <= nconn

HandInv ==
  /\ sending.to # {} => sending.msg \in Msgs
  /\ \A p \in sending.to : tx[p] # NoConn

TableInv == ConnectedHasChannel /\ ChannelIsNewest /\ NeverDialsConnected

IInv == TypeOK /\ LoopInv /\ ConnInv /\ HandInv /\ TableInv /\ StopLeavesAtMostOne

\* The constants that bound the sets of TypeOK are numbers.
LEMMA BoundFacts == /\ Conns = 1 .. MaxConn /\ NoConn = 0 /\ Msgs = 1 .. MaxMsg
                    /\ MaxConn \in Nat /\ MaxMsg \in Nat /\ Cap \in Nat /\ Cap > 0
                    /\ WireCap \in Nat /\ WireCap > 0
  BY BoundsAssumption DEF Conns, NoConn, Msgs

\* Taking the head off a non-empty sequence, and appending to one.
LEMMA HeadTail ==
  ASSUME NEW S, NEW s \in Seq(S), s # <<>>
  PROVE  Head(s) \in S /\ Tail(s) \in Seq(S) /\ Len(Tail(s)) = Len(s) - 1 /\ Len(s) \in Nat
  BY HeadTailProperties, LenProperties

LEMMA AppendOne ==
  ASSUME NEW S, NEW s \in Seq(S), NEW e \in S
  PROVE  Append(s, e) \in Seq(S) /\ Len(Append(s, e)) = Len(s) + 1 /\ Len(s) \in Nat
  BY AppendProperties, LenProperties

\* Changing a function at one point.
LEMMA Update ==
  ASSUME NEW D, NEW S, NEW f \in [D -> S], NEW d \in D, NEW e \in S, NEW f2,
         f2 = [f EXCEPT ![d] = e]
  PROVE  /\ f2 \in [D -> S] /\ f2[d] = e
         /\ \A x \in D : x # d => f2[x] = f[x]
  OBVIOUS

\* Taking the head off one sequence of a family of bounded ones, and appending
\* to one of them.
LEMMA TailAt ==
  ASSUME NEW D, NEW S, NEW q \in [D -> Seq(S)], NEW n \in Nat,
         \A x \in D : Len(q[x]) <= n,
         NEW d \in D, q[d] # <<>>, NEW q2, q2 = [q EXCEPT ![d] = Tail(q[d])]
  PROVE  /\ Head(q[d]) \in S
         /\ q2 \in [D -> Seq(S)] /\ \A x \in D : Len(q2[x]) <= n
  <1> DEFINE t == Tail(q[d])
  <1>1. Head(q[d]) \in S /\ t \in Seq(S) /\ Len(t) = Len(q[d]) - 1 /\ Len(q[d]) \in Nat
    BY HeadTail
  <1>2. Len(t) <= n
    BY <1>1
  <1>3. q2 = [q EXCEPT ![d] = t]
    OBVIOUS
  <1> HIDE DEF t
  <1> QED  BY <1>1, <1>2, <1>3, Update

LEMMA AppendAt ==
  ASSUME NEW D, NEW S, NEW q \in [D -> Seq(S)], NEW n \in Nat,
         \A x \in D : Len(q[x]) <= n,
         NEW d \in D, NEW e \in S, Len(q[d]) < n,
         NEW q2, q2 = [q EXCEPT ![d] = Append(q[d], e)]
  PROVE  q2 \in [D -> Seq(S)] /\ \A x \in D : Len(q2[x]) <= n
  <1> DEFINE t == Append(q[d], e)
  <1>1. t \in Seq(S) /\ Len(t) = Len(q[d]) + 1 /\ Len(q[d]) \in Nat
    BY AppendOne
  <1>2. Len(t) <= n
    BY <1>1
  <1>3. q2 = [q EXCEPT ![d] = t]
    OBVIOUS
  <1> HIDE DEF t
  <1> QED  BY <1>1, <1>2, <1>3, Update

\* The initial state satisfies the invariant.
LEMMA InitIInv == Init => IInv
  <1> SUFFICES ASSUME Init PROVE IInv
    OBVIOUS
  <1> USE DEF Init
  <1>1. TypeOK
    BY BoundFacts DEF TypeOK, States, LoopPcs, Tasks, Sockets, Commands
  <1>2. LoopInv /\ ConnInv /\ HandInv
    BY BoundFacts DEF LoopInv, Dialing, ConnInv, HandInv
  <1>3. TableInv
    BY BoundFacts DEF TableInv, ConnectedHasChannel, ChannelIsNewest,
       NeverDialsConnected
  <1>4. StopLeavesAtMostOne
    BY DEF StopLeavesAtMostOne
  <1> QED  BY <1>1, <1>2, <1>3, <1>4 DEF IInv

\* Every step keeps the types.
LEMMA TypeStep ==
  ASSUME IInv, [Next]_vars PROVE TypeOK'
  <1> USE BoundFacts DEF vars, table, loopVars, connVars, taskVars, cmdVars,
             LoopOnly, TaskOnly, WriteLockFree, running, States, LoopPcs, Tasks, Sockets
  <1>1. CASE Collect
    BY <1>1 DEF IInv, Collect, TypeOK
  <1>2. CASE PickPeer
    BY <1>2 DEF IInv, PickPeer, TypeOK
  <1>3. CASE LoopEnds
    BY <1>3 DEF IInv, LoopEnds, TypeOK
  <1>4. CASE RoundOver
    BY <1>4 DEF IInv, RoundOver, TypeOK
  <1>5. CASE Wake
    BY <1>5 DEF IInv, Wake, TypeOK
  <1>6. CASE MarkConnecting
    BY <1>6 DEF IInv, MarkConnecting, TypeOK
  <1>7. CASE DialFail
    BY <1>7 DEF IInv, DialFail, TypeOK
  <1>8. CASE AckFail
    <2>1. nconn \in Conns /\ sock \in [Conns -> Sockets]
      BY <1>8 DEF AckFail, IInv, TypeOK, LoopInv
    <2>2. sock' = [sock EXCEPT ![nconn] = "closed"]
      BY <1>8 DEF AckFail
    <2>3. sock' \in [Conns -> Sockets]
      BY <2>1, <2>2, Update
    <2> QED
      BY <1>8, <2>3 DEF AckFail, IInv, TypeOK
  <1>9. CASE Install
    <2>1. nconn \in Conns /\ dialing \in Peers
      BY <1>9 DEF Install, IInv, TypeOK, LoopInv, Dialing
    <2>2. /\ state' \in [Peers -> States] /\ tx' \in [Peers -> Conns \cup {NoConn}]
          /\ writer' \in [Conns -> Tasks] /\ reader' \in [Conns -> Tasks]
      BY <1>9, <2>1 DEF Install, IInv, TypeOK
    <2> QED
      BY <1>9, <2>2 DEF Install, IInv, TypeOK
  <1>10. CASE MarkFailed
    BY <1>10 DEF IInv, MarkFailed, TypeOK
  <1>11. ASSUME NEW p \in Peers, DialOk(p) PROVE TypeOK'
    <2>1. nconn + 1 \in Conns /\ nconn' = nconn + 1 /\ nconn' \in 0 .. MaxConn /\ nconn \in 0 .. MaxConn
      BY <1>11 DEF DialOk, MayOpen, IInv, TypeOK
    <2>2. owner' = [owner EXCEPT ![nconn + 1] = p] /\ sock' = [sock EXCEPT ![nconn + 1] = "up"]
      BY <1>11 DEF DialOk
    <2>3. /\ owner' \in [Conns -> Peers \cup {NoPeer}] /\ owner'[nconn + 1] = p
          /\ \A h \in Conns : h # nconn + 1 => owner'[h] = owner[h]
      BY <2>1, <2>2, Update DEF IInv, TypeOK
    <2>4. sock' \in [Conns -> Sockets]
      BY <2>1, <2>2, Update DEF IInv, TypeOK, Sockets
    <2>5. /\ UNCHANGED <<state, tx, stop, todo, dialing, writer, reader, queue,
                         wire, cmds, nmsg, sending, delivered>>
          /\ loop = "dial" /\ loop' = "ack" /\ dialing = p
      BY <1>11 DEF DialOk
    <2> QED
      BY <2>1, <2>3, <2>4, <2>5 DEF IInv, TypeOK
  <1>12. ASSUME NEW p \in Peers, AckOk(p) PROVE TypeOK'
    BY <1>12 DEF IInv, AckOk, TypeOK
  <1>13. ASSUME NEW g \in Conns, WriteOk(g) PROVE TypeOK'
    <2>1. queue \in [Conns -> Seq(Msgs)] /\ \A h \in Conns : Len(queue[h]) <= Cap
      BY DEF IInv, TypeOK
    <2>2. wire \in [Conns -> Seq(Msgs)] /\ \A h \in Conns : Len(wire[h]) <= WireCap
      BY DEF IInv, TypeOK
    <2>3. queue[g] # <<>> /\ queue' = [queue EXCEPT ![g] = Tail(queue[g])]
      BY <1>13 DEF WriteOk
    <2>4. wire' = [wire EXCEPT ![g] = Append(wire[g], Head(queue[g]))] /\ Len(wire[g]) < WireCap
      BY <1>13 DEF WriteOk
    <2>5. Head(queue[g]) \in Msgs /\ queue' \in [Conns -> Seq(Msgs)] /\ \A h \in Conns : Len(queue'[h]) <= Cap
      BY <2>1, <2>3, TailAt
    <2>6. wire' \in [Conns -> Seq(Msgs)] /\ \A h \in Conns : Len(wire'[h]) <= WireCap
      BY <2>2, <2>4, <2>5, AppendAt
    <2> QED
      BY <1>13, <2>5, <2>6 DEF IInv, WriteOk, TypeOK
  <1>14. ASSUME NEW g \in Conns, WriteLost(g) PROVE TypeOK'
    <2>1. queue \in [Conns -> Seq(Msgs)] /\ \A h \in Conns : Len(queue[h]) <= Cap
      BY DEF IInv, TypeOK
    <2>2. queue[g] # <<>> /\ queue' = [queue EXCEPT ![g] = Tail(queue[g])]
      BY <1>14 DEF WriteLost
    <2>3. queue' \in [Conns -> Seq(Msgs)] /\ \A h \in Conns : Len(queue'[h]) <= Cap
      BY <2>1, <2>2, TailAt
    <2> QED
      BY <1>14, <2>3 DEF IInv, WriteLost, TypeOK
  <1>15. ASSUME NEW g \in Conns, WriterStops(g) PROVE TypeOK'
    <2>1. <<>> \in Seq(Msgs) /\ Len(<<>>) = 0
      OBVIOUS
    <2>2. queue' \in [Conns -> Seq(Msgs)] /\ \A h \in Conns : Len(queue'[h]) <= Cap
      BY <1>15, <2>1 DEF IInv, WriterStops, TypeOK
    <2> QED
      BY <1>15, <2>2 DEF IInv, WriterStops, TypeOK, Tasks
  <1>16. ASSUME NEW g \in Conns, WriterCleanup(g) PROVE TypeOK'
    BY <1>16 DEF IInv, WriterCleanup, TypeOK
  <1>17. ASSUME NEW g \in Conns, ReaderStops(g) PROVE TypeOK'
    BY <1>17 DEF IInv, ReaderStops, TypeOK
  <1>18. ASSUME NEW g \in Conns, ReaderCleanup(g) PROVE TypeOK'
    BY <1>18 DEF IInv, ReaderCleanup, TypeOK
  <1>19. ASSUME TakeCommand PROVE TypeOK'
    <2>1. Head(cmds) \in Commands /\ Tail(cmds) \in Seq(Commands)
      BY <1>19, HeadTail DEF TakeCommand, IInv, TypeOK
    <2>2. sending' \in [msg : Msgs \cup {0}, to : SUBSET Peers]
      BY <1>19, <2>1 DEF IInv, TakeCommand, InHand, TypeOK, Commands
    <2>3. cmds' \in Seq(Commands)
      BY <1>19, <2>1 DEF TakeCommand
    <2> QED
      BY <1>19, <2>2, <2>3 DEF IInv, TakeCommand, TypeOK
  <1>20. ASSUME NEW p \in Peers, SendInto(p) PROVE TypeOK'
    <2>1. tx[p] \in Conns /\ sending.msg \in Msgs
      BY <1>20 DEF SendInto, IInv, TypeOK, HandInv
    <2>2. Append(queue[tx[p]], sending.msg) \in Seq(Msgs)
          /\ Len(Append(queue[tx[p]], sending.msg)) = Len(queue[tx[p]]) + 1
          /\ Len(queue[tx[p]]) \in Nat
      BY <2>1, AppendOne DEF IInv, TypeOK
    <2>3. queue' \in [Conns -> Seq(Msgs)] /\ \A h \in Conns : Len(queue'[h]) <= Cap
      <3>1. queue \in [Conns -> Seq(Msgs)] /\ \A h \in Conns : Len(queue[h]) <= Cap
        BY DEF IInv, TypeOK
      <3>2. /\ queue' = [queue EXCEPT ![tx[p]] = Append(queue[tx[p]], sending.msg)]
            /\ Len(queue[tx[p]]) < Cap
        BY <1>20 DEF SendInto
      <3> QED  BY <2>1, <2>2, <3>1, <3>2, Update
    <2>4. sending' \in [msg : Msgs \cup {0}, to : SUBSET Peers]
      BY <1>20, <2>1 DEF IInv, SendInto, InHand, TypeOK
    <2> QED
      BY <1>20, <2>3, <2>4 DEF IInv, SendInto, TypeOK
  <1>21. ASSUME NEW p \in Peers, SendFails(p) PROVE TypeOK'
    BY <1>21 DEF IInv, SendFails, InHand, TypeOK
  <1>22. ASSUME NEW to \in SUBSET Peers, Submit(to) PROVE TypeOK'
    <2>1. [msg |-> nmsg + 1, to |-> to] \in Commands /\ nmsg + 1 \in 0 .. MaxMsg
      BY <1>22 DEF Submit, IInv, TypeOK, Commands
    <2>2. cmds' = Append(cmds, [msg |-> nmsg + 1, to |-> to]) /\ nmsg' = nmsg + 1
      BY <1>22 DEF Submit
    <2>3. cmds' \in Seq(Commands)
      BY <2>1, <2>2, AppendOne DEF IInv, TypeOK
    <2> QED
      BY <1>22, <2>1, <2>2, <2>3 DEF IInv, Submit, TypeOK
  <1>23. CASE StopRequest
    BY <1>23 DEF IInv, StopRequest, TypeOK
  <1>24. CASE StopTable
    BY <1>24 DEF IInv, StopTable, TypeOK
  <1>25. ASSUME NEW g \in Conns, PeerReads(g) PROVE TypeOK'
    <2>1. wire \in [Conns -> Seq(Msgs)] /\ \A h \in Conns : Len(wire[h]) <= WireCap
      BY DEF IInv, TypeOK
    <2>2. wire[g] # <<>> /\ wire' = [wire EXCEPT ![g] = Tail(wire[g])] /\ owner[g] \in Peers
      BY <1>25 DEF PeerReads, IInv, TypeOK, ConnInv
    <2>3. Head(wire[g]) \in Msgs /\ wire' \in [Conns -> Seq(Msgs)] /\ \A h \in Conns : Len(wire'[h]) <= WireCap
      BY <2>1, <2>2, TailAt
    <2>4. Append(delivered[owner[g]], [via |-> g, msg |-> Head(wire[g])])
            \in Seq([via : Conns, msg : Msgs])
      BY <2>2, <2>3, AppendOne DEF IInv, TypeOK
    <2>5. delivered' \in [Peers -> Seq([via : Conns, msg : Msgs])]
      BY <1>25, <2>2, <2>4 DEF IInv, PeerReads, TypeOK
    <2> QED
      BY <1>25, <2>3, <2>5 DEF IInv, PeerReads, TypeOK
  <1>26. ASSUME NEW g \in Conns, PeerCloses(g) PROVE TypeOK'
    <2>1. <<>> \in Seq(Msgs) /\ Len(<<>>) = 0
      OBVIOUS
    <2>2. wire' \in [Conns -> Seq(Msgs)] /\ \A h \in Conns : Len(wire'[h]) <= WireCap
      BY <1>26, <2>1 DEF IInv, PeerCloses, Breaks, TypeOK
    <2> QED
      BY <1>26, <2>2 DEF IInv, PeerCloses, Breaks, TypeOK, Sockets
  <1>27. ASSUME NEW g \in Conns, PeerVanishes(g) PROVE TypeOK'
    <2>1. <<>> \in Seq(Msgs) /\ Len(<<>>) = 0
      OBVIOUS
    <2>2. wire' \in [Conns -> Seq(Msgs)] /\ \A h \in Conns : Len(wire'[h]) <= WireCap
      BY <1>27, <2>1 DEF IInv, PeerVanishes, Breaks, TypeOK
    <2> QED
      BY <1>27, <2>2 DEF IInv, PeerVanishes, Breaks, TypeOK, Sockets
  <1>28. CASE UNCHANGED vars
    BY <1>28 DEF IInv, TypeOK
  <1> QED
    BY <1>1, <1>2, <1>3, <1>4, <1>5, <1>6, <1>7, <1>8, <1>9, <1>10, <1>11,
       <1>12, <1>13, <1>14, <1>15, <1>16, <1>17, <1>18, <1>19, <1>20, <1>21,
       <1>22, <1>23, <1>24, <1>25, <1>26, <1>27, <1>28
    DEF Next, LoopStep, WriterStep, ReaderStep, HandlerStep, Submission

\* Every step keeps what the loop knows of the connection in hand.
LEMMA LoopStepInv ==
  ASSUME IInv, [Next]_vars PROVE LoopInv'
  <1> USE BoundFacts DEF vars, table, loopVars, connVars, taskVars, cmdVars,
             LoopOnly, TaskOnly, WriteLockFree, running
  <1>1. CASE Collect
    BY <1>1 DEF IInv, Collect, TypeOK, LoopInv, Dialing, ConnInv
  <1>2. CASE PickPeer
    BY <1>2 DEF IInv, PickPeer, TypeOK, LoopInv, Dialing, ConnInv
  <1>3. CASE LoopEnds
    BY <1>3 DEF IInv, LoopEnds, TypeOK, LoopInv, Dialing, ConnInv
  <1>4. CASE RoundOver
    BY <1>4 DEF IInv, RoundOver, TypeOK, LoopInv, Dialing, ConnInv
  <1>5. CASE Wake
    BY <1>5 DEF IInv, Wake, TypeOK, LoopInv, Dialing, ConnInv
  <1>6. CASE MarkConnecting
    BY <1>6 DEF IInv, MarkConnecting, TypeOK, LoopInv, Dialing, ConnInv
  <1>7. CASE DialFail
    BY <1>7 DEF IInv, DialFail, TypeOK, LoopInv, Dialing, ConnInv
  <1>8. CASE AckFail
    BY <1>8 DEF IInv, AckFail, TypeOK, LoopInv, Dialing, ConnInv
  <1>9. CASE Install
    BY <1>9 DEF IInv, Install, TypeOK, LoopInv, Dialing, ConnInv
  <1>10. CASE MarkFailed
    BY <1>10 DEF IInv, MarkFailed, TypeOK, LoopInv, Dialing, ConnInv
  <1>11. ASSUME NEW p \in Peers, DialOk(p) PROVE LoopInv'
    BY <1>11 DEF IInv, DialOk, MayOpen, TypeOK, LoopInv, Dialing, ConnInv
  <1>12. ASSUME NEW p \in Peers, AckOk(p) PROVE LoopInv'
    BY <1>12 DEF IInv, AckOk, TypeOK, LoopInv, Dialing, ConnInv
  <1>13. ASSUME NEW g \in Conns, WriteOk(g) PROVE LoopInv'
    BY <1>13 DEF IInv, WriteOk, TypeOK, LoopInv, Dialing, ConnInv
  <1>14. ASSUME NEW g \in Conns, WriteLost(g) PROVE LoopInv'
    BY <1>14 DEF IInv, WriteLost, TypeOK, LoopInv, Dialing, ConnInv
  <1>15. ASSUME NEW g \in Conns, WriterStops(g) PROVE LoopInv'
    BY <1>15 DEF IInv, WriterStops, ChannelOpen, TypeOK, LoopInv, Dialing,
       ConnInv
  <1>16. ASSUME NEW g \in Conns, WriterCleanup(g) PROVE LoopInv'
    BY <1>16 DEF IInv, WriterCleanup, TypeOK, LoopInv, Dialing, ConnInv
  <1>17. ASSUME NEW g \in Conns, ReaderStops(g) PROVE LoopInv'
    BY <1>17 DEF IInv, ReaderStops, TypeOK, LoopInv, Dialing, ConnInv
  <1>18. ASSUME NEW g \in Conns, ReaderCleanup(g) PROVE LoopInv'
    BY <1>18 DEF IInv, ReaderCleanup, TypeOK, LoopInv, Dialing, ConnInv
  <1>19. CASE TakeCommand
    BY <1>19 DEF IInv, TakeCommand, InHand, TypeOK, LoopInv, Dialing, ConnInv
  <1>20. ASSUME NEW p \in Peers, SendInto(p) PROVE LoopInv'
    BY <1>20 DEF IInv, SendInto, InHand, TypeOK, LoopInv, Dialing, ConnInv
  <1>21. ASSUME NEW p \in Peers, SendFails(p) PROVE LoopInv'
    BY <1>21 DEF IInv, SendFails, InHand, TypeOK, LoopInv, Dialing, ConnInv
  <1>22. ASSUME NEW to \in SUBSET Peers, Submit(to) PROVE LoopInv'
    BY <1>22 DEF IInv, Submit, TypeOK, LoopInv, Dialing, ConnInv
  <1>23. CASE StopRequest
    BY <1>23 DEF IInv, StopRequest, TypeOK, LoopInv, Dialing, ConnInv
  <1>24. CASE StopTable
    BY <1>24 DEF IInv, StopTable, TypeOK, LoopInv, Dialing, ConnInv
  <1>25. ASSUME NEW g \in Conns, PeerReads(g) PROVE LoopInv'
    BY <1>25 DEF IInv, PeerReads, TypeOK, LoopInv, Dialing, ConnInv
  <1>26. ASSUME NEW g \in Conns, PeerCloses(g) PROVE LoopInv'
    BY <1>26 DEF IInv, PeerCloses, Breaks, TypeOK, LoopInv, Dialing, ConnInv
  <1>27. ASSUME NEW g \in Conns, PeerVanishes(g) PROVE LoopInv'
    BY <1>27 DEF IInv, PeerVanishes, Breaks, TypeOK, LoopInv, Dialing, ConnInv
  <1>28. CASE UNCHANGED vars
    BY <1>28 DEF IInv, TypeOK, LoopInv, Dialing, ConnInv
  <1> QED
    BY <1>1, <1>2, <1>3, <1>4, <1>5, <1>6, <1>7, <1>8, <1>9, <1>10, <1>11,
       <1>12, <1>13, <1>14, <1>15, <1>16, <1>17, <1>18, <1>19, <1>20, <1>21,
       <1>22, <1>23, <1>24, <1>25, <1>26, <1>27, <1>28
    DEF Next, LoopStep, WriterStep, ReaderStep, HandlerStep, Submission

\* Tasks and frames belong to opened connections only.
LEMMA ConnStepInv ==
  ASSUME IInv, [Next]_vars PROVE ConnInv'
  <1> USE BoundFacts DEF vars, table, loopVars, connVars, taskVars, cmdVars,
             LoopOnly, TaskOnly, WriteLockFree, running
  <1>1. CASE Collect
    BY <1>1 DEF IInv, Collect, TypeOK, LoopInv, Dialing, ConnInv
  <1>2. CASE PickPeer
    BY <1>2 DEF IInv, PickPeer, TypeOK, LoopInv, Dialing, ConnInv
  <1>3. CASE LoopEnds
    BY <1>3 DEF IInv, LoopEnds, TypeOK, LoopInv, Dialing, ConnInv
  <1>4. CASE RoundOver
    BY <1>4 DEF IInv, RoundOver, TypeOK, LoopInv, Dialing, ConnInv
  <1>5. CASE Wake
    BY <1>5 DEF IInv, Wake, TypeOK, LoopInv, Dialing, ConnInv
  <1>6. CASE MarkConnecting
    BY <1>6 DEF IInv, MarkConnecting, TypeOK, LoopInv, Dialing, ConnInv
  <1>7. CASE DialFail
    BY <1>7 DEF IInv, DialFail, TypeOK, LoopInv, Dialing, ConnInv
  <1>8. CASE AckFail
    BY <1>8 DEF IInv, AckFail, TypeOK, LoopInv, Dialing, ConnInv
  <1>9. CASE Install
    BY <1>9 DEF IInv, Install, TypeOK, LoopInv, Dialing, ConnInv
  <1>10. CASE MarkFailed
    BY <1>10 DEF IInv, MarkFailed, TypeOK, LoopInv, Dialing, ConnInv
  <1>11. ASSUME NEW p \in Peers, DialOk(p) PROVE ConnInv'
    <2>1. nconn + 1 \in Conns /\ nconn' = nconn + 1 /\ nconn' \in 0 .. MaxConn /\ nconn \in 0 .. MaxConn
      BY <1>11 DEF DialOk, MayOpen, IInv, TypeOK
    <2>2. owner' = [owner EXCEPT ![nconn + 1] = p] /\ sock' = [sock EXCEPT ![nconn + 1] = "up"]
      BY <1>11 DEF DialOk
    <2>3. /\ owner' \in [Conns -> Peers \cup {NoPeer}] /\ owner'[nconn + 1] = p
          /\ \A h \in Conns : h # nconn + 1 => owner'[h] = owner[h]
      BY <2>1, <2>2, Update DEF IInv, TypeOK
    <2>4. sock' \in [Conns -> Sockets]
      BY <2>1, <2>2, Update DEF IInv, TypeOK, Sockets
    <2>5. /\ UNCHANGED <<state, tx, stop, todo, dialing, writer, reader, queue,
                         wire, cmds, nmsg, sending, delivered>>
          /\ loop = "dial" /\ loop' = "ack" /\ dialing = p
      BY <1>11 DEF DialOk
    <2>6. ASSUME NEW h \in Conns, h <= nconn' PROVE owner'[h] \in Peers
      <3>1. CASE h = nconn + 1
        BY <3>1, <2>3
      <3>2. CASE h # nconn + 1
        BY <3>2, <2>1, <2>3, <2>6 DEF IInv, ConnInv
      <3> QED  BY <3>1, <3>2
    <2>7. ASSUME NEW h \in Conns, writer[h] # "none" \/ reader[h] # "none" \/ wire[h] # <<>>
          PROVE  h <= nconn'
      BY <2>1, <2>7 DEF IInv, ConnInv
    <2> QED
      BY <2>1, <2>3, <2>4, <2>5, <2>6, <2>7 DEF ConnInv
  <1>12. ASSUME NEW p \in Peers, AckOk(p) PROVE ConnInv'
    BY <1>12 DEF IInv, AckOk, TypeOK, LoopInv, Dialing, ConnInv
  <1>13. ASSUME NEW g \in Conns, WriteOk(g) PROVE ConnInv'
    BY <1>13 DEF IInv, WriteOk, TypeOK, LoopInv, Dialing, ConnInv
  <1>14. ASSUME NEW g \in Conns, WriteLost(g) PROVE ConnInv'
    BY <1>14 DEF IInv, WriteLost, TypeOK, LoopInv, Dialing, ConnInv
  <1>15. ASSUME NEW g \in Conns, WriterStops(g) PROVE ConnInv'
    BY <1>15 DEF IInv, WriterStops, ChannelOpen, TypeOK, LoopInv, Dialing,
       ConnInv
  <1>16. ASSUME NEW g \in Conns, WriterCleanup(g) PROVE ConnInv'
    BY <1>16 DEF IInv, WriterCleanup, TypeOK, LoopInv, Dialing, ConnInv
  <1>17. ASSUME NEW g \in Conns, ReaderStops(g) PROVE ConnInv'
    BY <1>17 DEF IInv, ReaderStops, TypeOK, LoopInv, Dialing, ConnInv
  <1>18. ASSUME NEW g \in Conns, ReaderCleanup(g) PROVE ConnInv'
    BY <1>18 DEF IInv, ReaderCleanup, TypeOK, LoopInv, Dialing, ConnInv
  <1>19. CASE TakeCommand
    BY <1>19 DEF IInv, TakeCommand, InHand, TypeOK, LoopInv, Dialing, ConnInv
  <1>20. ASSUME NEW p \in Peers, SendInto(p) PROVE ConnInv'
    BY <1>20 DEF IInv, SendInto, InHand, TypeOK, LoopInv, Dialing, ConnInv
  <1>21. ASSUME NEW p \in Peers, SendFails(p) PROVE ConnInv'
    BY <1>21 DEF IInv, SendFails, InHand, TypeOK, LoopInv, Dialing, ConnInv
  <1>22. ASSUME NEW to \in SUBSET Peers, Submit(to) PROVE ConnInv'
    BY <1>22 DEF IInv, Submit, TypeOK, LoopInv, Dialing, ConnInv
  <1>23. CASE StopRequest
    BY <1>23 DEF IInv, StopRequest, TypeOK, LoopInv, Dialing, ConnInv
  <1>24. CASE StopTable
    BY <1>24 DEF IInv, StopTable, TypeOK, LoopInv, Dialing, ConnInv
  <1>25. ASSUME NEW g \in Conns, PeerReads(g) PROVE ConnInv'
    BY <1>25 DEF IInv, PeerReads, TypeOK, LoopInv, Dialing, ConnInv
  <1>26. ASSUME NEW g \in Conns, PeerCloses(g) PROVE ConnInv'
    BY <1>26 DEF IInv, PeerCloses, Breaks, TypeOK, LoopInv, Dialing, ConnInv
  <1>27. ASSUME NEW g \in Conns, PeerVanishes(g) PROVE ConnInv'
    BY <1>27 DEF IInv, PeerVanishes, Breaks, TypeOK, LoopInv, Dialing, ConnInv
  <1>28. CASE UNCHANGED vars
    BY <1>28 DEF IInv, TypeOK, LoopInv, Dialing, ConnInv
  <1> QED
    BY <1>1, <1>2, <1>3, <1>4, <1>5, <1>6, <1>7, <1>8, <1>9, <1>10, <1>11,
       <1>12, <1>13, <1>14, <1>15, <1>16, <1>17, <1>18, <1>19, <1>20, <1>21,
       <1>22, <1>23, <1>24, <1>25, <1>26, <1>27, <1>28
    DEF Next, LoopStep, WriterStep, ReaderStep, HandlerStep, Submission

\* The command in hand stays a real one, its targets keep their channel.
LEMMA HandStepInv ==
  ASSUME IInv, [Next]_vars PROVE HandInv'
  <1> USE BoundFacts DEF vars, table, loopVars, connVars, taskVars, cmdVars,
             LoopOnly, TaskOnly, WriteLockFree, running
  <1>1. CASE Collect
    BY <1>1 DEF IInv, Collect, TypeOK, Commands, HandInv
  <1>2. CASE PickPeer
    BY <1>2 DEF IInv, PickPeer, TypeOK, Commands, HandInv
  <1>3. CASE LoopEnds
    BY <1>3 DEF IInv, LoopEnds, TypeOK, Commands, HandInv
  <1>4. CASE RoundOver
    BY <1>4 DEF IInv, RoundOver, TypeOK, Commands, HandInv
  <1>5. CASE Wake
    BY <1>5 DEF IInv, Wake, TypeOK, Commands, HandInv
  <1>6. CASE MarkConnecting
    BY <1>6 DEF IInv, MarkConnecting, TypeOK, Commands, HandInv
  <1>7. CASE DialFail
    BY <1>7 DEF IInv, DialFail, TypeOK, Commands, HandInv
  <1>8. CASE AckFail
    BY <1>8 DEF IInv, AckFail, TypeOK, Commands, HandInv
  <1>9. CASE Install
    BY <1>9 DEF IInv, Install, TypeOK, Commands, HandInv
  <1>10. CASE MarkFailed
    BY <1>10 DEF IInv, MarkFailed, TypeOK, Commands, HandInv
  <1>11. ASSUME NEW p \in Peers, DialOk(p) PROVE HandInv'
    BY <1>11 DEF IInv, DialOk, TypeOK, Commands, HandInv
  <1>12. ASSUME NEW p \in Peers, AckOk(p) PROVE HandInv'
    BY <1>12 DEF IInv, AckOk, TypeOK, Commands, HandInv
  <1>13. ASSUME NEW g \in Conns, WriteOk(g) PROVE HandInv'
    BY <1>13 DEF IInv, WriteOk, TypeOK, Commands, HandInv
  <1>14. ASSUME NEW g \in Conns, WriteLost(g) PROVE HandInv'
    BY <1>14 DEF IInv, WriteLost, TypeOK, Commands, HandInv
  <1>15. ASSUME NEW g \in Conns, WriterStops(g) PROVE HandInv'
    BY <1>15 DEF IInv, WriterStops, ChannelOpen, TypeOK, Commands, HandInv
  <1>16. ASSUME NEW g \in Conns, WriterCleanup(g) PROVE HandInv'
    BY <1>16 DEF IInv, WriterCleanup, TypeOK, Commands, HandInv
  <1>17. ASSUME NEW g \in Conns, ReaderStops(g) PROVE HandInv'
    BY <1>17 DEF IInv, ReaderStops, TypeOK, Commands, HandInv
  <1>18. ASSUME NEW g \in Conns, ReaderCleanup(g) PROVE HandInv'
    BY <1>18 DEF IInv, ReaderCleanup, TypeOK, Commands, HandInv
  <1>19. CASE TakeCommand
    <2>1. Head(cmds) \in Commands
      BY <1>19, HeadTail DEF TakeCommand, IInv, TypeOK
    <2> QED
      BY <1>19, <2>1 DEF IInv, TakeCommand, InHand, TypeOK, Commands, HandInv
  <1>20. ASSUME NEW p \in Peers, SendInto(p) PROVE HandInv'
    BY <1>20 DEF IInv, SendInto, InHand, TypeOK, Commands, HandInv
  <1>21. ASSUME NEW p \in Peers, SendFails(p) PROVE HandInv'
    BY <1>21 DEF IInv, SendFails, InHand, TypeOK, Commands, HandInv
  <1>22. ASSUME NEW to \in SUBSET Peers, Submit(to) PROVE HandInv'
    BY <1>22 DEF IInv, Submit, TypeOK, Commands, HandInv
  <1>23. CASE StopRequest
    BY <1>23 DEF IInv, StopRequest, TypeOK, Commands, HandInv
  <1>24. CASE StopTable
    BY <1>24 DEF IInv, StopTable, TypeOK, Commands, HandInv
  <1>25. ASSUME NEW g \in Conns, PeerReads(g) PROVE HandInv'
    BY <1>25 DEF IInv, PeerReads, TypeOK, Commands, HandInv
  <1>26. ASSUME NEW g \in Conns, PeerCloses(g) PROVE HandInv'
    BY <1>26 DEF IInv, PeerCloses, Breaks, TypeOK, Commands, HandInv
  <1>27. ASSUME NEW g \in Conns, PeerVanishes(g) PROVE HandInv'
    BY <1>27 DEF IInv, PeerVanishes, Breaks, TypeOK, Commands, HandInv
  <1>28. CASE UNCHANGED vars
    BY <1>28 DEF IInv, TypeOK, Commands, HandInv
  <1> QED
    BY <1>1, <1>2, <1>3, <1>4, <1>5, <1>6, <1>7, <1>8, <1>9, <1>10, <1>11,
       <1>12, <1>13, <1>14, <1>15, <1>16, <1>17, <1>18, <1>19, <1>20, <1>21,
       <1>22, <1>23, <1>24, <1>25, <1>26, <1>27, <1>28
    DEF Next, LoopStep, WriterStep, ReaderStep, HandlerStep, Submission

\* Every step keeps the invariants of the table.
LEMMA TableStepInv ==
  ASSUME IInv, [Next]_vars PROVE TableInv'
  <1> USE BoundFacts DEF vars, table, loopVars, connVars, taskVars, cmdVars,
             LoopOnly, TaskOnly, WriteLockFree, running
  <1>1. CASE Collect
    BY <1>1 DEF IInv, Collect, TypeOK, LoopInv, Dialing, ConnInv, TableInv,
       ConnectedHasChannel, ChannelIsNewest, NeverDialsConnected
  <1>2. CASE PickPeer
    BY <1>2 DEF IInv, PickPeer, TypeOK, LoopInv, Dialing, ConnInv, TableInv,
       ConnectedHasChannel, ChannelIsNewest, NeverDialsConnected
  <1>3. CASE LoopEnds
    BY <1>3 DEF IInv, LoopEnds, TypeOK, LoopInv, Dialing, ConnInv, TableInv,
       ConnectedHasChannel, ChannelIsNewest, NeverDialsConnected
  <1>4. CASE RoundOver
    BY <1>4 DEF IInv, RoundOver, TypeOK, LoopInv, Dialing, ConnInv, TableInv,
       ConnectedHasChannel, ChannelIsNewest, NeverDialsConnected
  <1>5. CASE Wake
    BY <1>5 DEF IInv, Wake, TypeOK, LoopInv, Dialing, ConnInv, TableInv,
       ConnectedHasChannel, ChannelIsNewest, NeverDialsConnected
  <1>6. CASE MarkConnecting
    BY <1>6 DEF IInv, MarkConnecting, TypeOK, LoopInv, Dialing, ConnInv,
       TableInv, ConnectedHasChannel, ChannelIsNewest, NeverDialsConnected
  <1>7. CASE DialFail
    BY <1>7 DEF IInv, DialFail, TypeOK, LoopInv, Dialing, ConnInv, TableInv,
       ConnectedHasChannel, ChannelIsNewest, NeverDialsConnected
  <1>8. CASE AckFail
    BY <1>8 DEF IInv, AckFail, TypeOK, LoopInv, Dialing, ConnInv, TableInv,
       ConnectedHasChannel, ChannelIsNewest, NeverDialsConnected
  <1>9. CASE Install
    BY <1>9 DEF IInv, Install, TypeOK, LoopInv, Dialing, ConnInv, TableInv,
       ConnectedHasChannel, ChannelIsNewest, NeverDialsConnected
  <1>10. CASE MarkFailed
    BY <1>10 DEF IInv, MarkFailed, TypeOK, LoopInv, Dialing, ConnInv, TableInv,
       ConnectedHasChannel, ChannelIsNewest, NeverDialsConnected
  <1>11. ASSUME NEW p \in Peers, DialOk(p) PROVE TableInv'
    <2>1. nconn + 1 \in Conns /\ nconn' = nconn + 1 /\ nconn' \in 0 .. MaxConn /\ nconn \in 0 .. MaxConn
      BY <1>11 DEF DialOk, MayOpen, IInv, TypeOK
    <2>2. owner' = [owner EXCEPT ![nconn + 1] = p] /\ sock' = [sock EXCEPT ![nconn + 1] = "up"]
      BY <1>11 DEF DialOk
    <2>3. /\ owner' \in [Conns -> Peers \cup {NoPeer}] /\ owner'[nconn + 1] = p
          /\ \A h \in Conns : h # nconn + 1 => owner'[h] = owner[h]
      BY <2>1, <2>2, Update DEF IInv, TypeOK
    <2>4. sock' \in [Conns -> Sockets]
      BY <2>1, <2>2, Update DEF IInv, TypeOK, Sockets
    <2>5. /\ UNCHANGED <<state, tx, stop, todo, dialing, writer, reader, queue,
                         wire, cmds, nmsg, sending, delivered>>
          /\ loop = "dial" /\ loop' = "ack" /\ dialing = p
      BY <1>11 DEF DialOk
    <2>6. ChannelIsNewest'
      <3>1. ASSUME NEW h \in Conns, writer[h] # "none" PROVE owner'[h] = owner[h]
        BY <3>1, <2>1, <2>3 DEF IInv, ConnInv
      <3>2. ChannelIsNewest /\ tx \in [Peers -> Conns \cup {NoConn}]
        BY DEF IInv, TableInv, TypeOK
      <3> QED  BY <3>1, <3>2, <2>5 DEF ChannelIsNewest
    <2>7. ConnectedHasChannel /\ NeverDialsConnected
      BY DEF IInv, TableInv
    <2> QED
      BY <2>1, <2>3, <2>4, <2>5, <2>6, <2>7 DEF TableInv, ConnectedHasChannel,
         NeverDialsConnected
  <1>12. ASSUME NEW p \in Peers, AckOk(p) PROVE TableInv'
    BY <1>12 DEF IInv, AckOk, TypeOK, LoopInv, Dialing, ConnInv, TableInv,
       ConnectedHasChannel, ChannelIsNewest, NeverDialsConnected
  <1>13. ASSUME NEW g \in Conns, WriteOk(g) PROVE TableInv'
    BY <1>13 DEF IInv, WriteOk, TypeOK, LoopInv, Dialing, ConnInv, TableInv,
       ConnectedHasChannel, ChannelIsNewest, NeverDialsConnected
  <1>14. ASSUME NEW g \in Conns, WriteLost(g) PROVE TableInv'
    BY <1>14 DEF IInv, WriteLost, TypeOK, LoopInv, Dialing, ConnInv, TableInv,
       ConnectedHasChannel, ChannelIsNewest, NeverDialsConnected
  <1>15. ASSUME NEW g \in Conns, WriterStops(g) PROVE TableInv'
    <2>1. /\ writer[g] = "run" /\ writer' = [writer EXCEPT ![g] = "cleanup"]
          /\ UNCHANGED <<state, tx, todo, loop, dialing, owner>>
      BY <1>15 DEF WriterStops
    <2>2. writer \in [Conns -> Tasks]
      BY DEF IInv, TypeOK
    <2>3. ConnectedHasChannel /\ ChannelIsNewest /\ NeverDialsConnected
      BY DEF IInv, TableInv
    <2>4. ChannelIsNewest'
      <3>1. \A h \in Conns : h # g => writer'[h] = writer[h]
        BY <2>1, <2>2
      <3>2. writer'[g] = "cleanup"
        BY <2>1, <2>2
      <3>3. tx \in [Peers -> Conns \cup {NoConn}]
        BY DEF IInv, TypeOK
      <3> QED  BY <2>1, <2>3, <3>1, <3>2, <3>3 DEF ChannelIsNewest
    <2>5. ConnectedHasChannel' /\ NeverDialsConnected'
      BY <2>1, <2>3 DEF ConnectedHasChannel, NeverDialsConnected
    <2> QED  BY <2>4, <2>5 DEF TableInv
  <1>16. ASSUME NEW g \in Conns, WriterCleanup(g) PROVE TableInv'
    BY <1>16 DEF IInv, WriterCleanup, TypeOK, LoopInv, Dialing, ConnInv,
       TableInv, ConnectedHasChannel, ChannelIsNewest, NeverDialsConnected
  <1>17. ASSUME NEW g \in Conns, ReaderStops(g) PROVE TableInv'
    BY <1>17 DEF IInv, ReaderStops, TypeOK, LoopInv, Dialing, ConnInv, TableInv,
       ConnectedHasChannel, ChannelIsNewest, NeverDialsConnected
  <1>18. ASSUME NEW g \in Conns, ReaderCleanup(g) PROVE TableInv'
    BY <1>18 DEF IInv, ReaderCleanup, TypeOK, LoopInv, Dialing, ConnInv,
       TableInv, ConnectedHasChannel, ChannelIsNewest, NeverDialsConnected
  <1>19. CASE TakeCommand
    BY <1>19 DEF IInv, TakeCommand, InHand, TypeOK, LoopInv, Dialing, ConnInv,
       TableInv, ConnectedHasChannel, ChannelIsNewest, NeverDialsConnected
  <1>20. ASSUME NEW p \in Peers, SendInto(p) PROVE TableInv'
    BY <1>20 DEF IInv, SendInto, InHand, TypeOK, LoopInv, Dialing, ConnInv,
       TableInv, ConnectedHasChannel, ChannelIsNewest, NeverDialsConnected
  <1>21. ASSUME NEW p \in Peers, SendFails(p) PROVE TableInv'
    BY <1>21 DEF IInv, SendFails, InHand, TypeOK, LoopInv, Dialing, ConnInv,
       TableInv, ConnectedHasChannel, ChannelIsNewest, NeverDialsConnected
  <1>22. ASSUME NEW to \in SUBSET Peers, Submit(to) PROVE TableInv'
    BY <1>22 DEF IInv, Submit, TypeOK, LoopInv, Dialing, ConnInv, TableInv,
       ConnectedHasChannel, ChannelIsNewest, NeverDialsConnected
  <1>23. CASE StopRequest
    BY <1>23 DEF IInv, StopRequest, TypeOK, LoopInv, Dialing, ConnInv, TableInv,
       ConnectedHasChannel, ChannelIsNewest, NeverDialsConnected
  <1>24. CASE StopTable
    BY <1>24 DEF IInv, StopTable, TypeOK, LoopInv, Dialing, ConnInv, TableInv,
       ConnectedHasChannel, ChannelIsNewest, NeverDialsConnected
  <1>25. ASSUME NEW g \in Conns, PeerReads(g) PROVE TableInv'
    BY <1>25 DEF IInv, PeerReads, TypeOK, LoopInv, Dialing, ConnInv, TableInv,
       ConnectedHasChannel, ChannelIsNewest, NeverDialsConnected
  <1>26. ASSUME NEW g \in Conns, PeerCloses(g) PROVE TableInv'
    BY <1>26 DEF IInv, PeerCloses, Breaks, TypeOK, LoopInv, Dialing, ConnInv,
       TableInv, ConnectedHasChannel, ChannelIsNewest, NeverDialsConnected
  <1>27. ASSUME NEW g \in Conns, PeerVanishes(g) PROVE TableInv'
    BY <1>27 DEF IInv, PeerVanishes, Breaks, TypeOK, LoopInv, Dialing, ConnInv,
       TableInv, ConnectedHasChannel, ChannelIsNewest, NeverDialsConnected
  <1>28. CASE UNCHANGED vars
    BY <1>28 DEF IInv, TypeOK, LoopInv, Dialing, ConnInv, TableInv,
       ConnectedHasChannel, ChannelIsNewest, NeverDialsConnected
  <1> QED
    BY <1>1, <1>2, <1>3, <1>4, <1>5, <1>6, <1>7, <1>8, <1>9, <1>10, <1>11,
       <1>12, <1>13, <1>14, <1>15, <1>16, <1>17, <1>18, <1>19, <1>20, <1>21,
       <1>22, <1>23, <1>24, <1>25, <1>26, <1>27, <1>28
    DEF Next, LoopStep, WriterStep, ReaderStep, HandlerStep, Submission

\* Once the table is cleared nobody is picked any more, so at most one install follows.
LEMMA StopStepInv ==
  ASSUME IInv, [Next]_vars PROVE StopLeavesAtMostOne'
  <1> USE BoundFacts DEF vars, table, loopVars, connVars, taskVars, cmdVars,
             LoopOnly, TaskOnly, running, IInv, StopLeavesAtMostOne
  <1>1. CASE Collect \/ PickPeer \/ LoopEnds \/ RoundOver \/ Wake
    BY <1>1 DEF Collect, PickPeer, LoopEnds, RoundOver, Wake
  <1>2. CASE MarkConnecting \/ DialFail \/ AckFail \/ MarkFailed
    BY <1>2 DEF MarkConnecting, DialFail, AckFail, MarkFailed
  <1>3. ASSUME NEW p \in Peers, DialOk(p) \/ AckOk(p) PROVE StopLeavesAtMostOne'
    BY <1>3 DEF DialOk, AckOk
  <1>4. CASE Install
    BY <1>4 DEF Install, TypeOK, LoopInv, Dialing
  <1>5. ASSUME NEW g \in Conns, WriterCleanup(g) PROVE StopLeavesAtMostOne'
    BY <1>5 DEF WriterCleanup, TypeOK
  <1>6. ASSUME NEW g \in Conns, WriteOk(g) \/ WriteLost(g) \/ WriterStops(g) \/ ReaderStep(g)
        PROVE  StopLeavesAtMostOne'
    BY <1>6 DEF WriteOk, WriteLost, WriterStops, ReaderStep, ReaderStops, ReaderCleanup
  <1>7. CASE HandlerStep \/ Submission
    BY <1>7 DEF HandlerStep, TakeCommand, SendInto, SendFails, Submission, Submit
  <1>8. CASE StopRequest \/ StopTable
    BY <1>8 DEF StopRequest, StopTable
  <1>9. ASSUME NEW g \in Conns, PeerReads(g) \/ PeerCloses(g) \/ PeerVanishes(g)
        PROVE  StopLeavesAtMostOne'
    BY <1>9 DEF PeerReads, PeerCloses, PeerVanishes, Breaks
  <1>10. CASE UNCHANGED vars
    BY <1>10
  <1> QED
    BY <1>1, <1>2, <1>3, <1>4, <1>5, <1>6, <1>7, <1>8, <1>9, <1>10 DEF Next, LoopStep, WriterStep

\* The inductive invariant holds in every reachable state.
LEMMA Invariance == Spec => []IInv
  <1>1. ASSUME IInv, [Next]_vars PROVE IInv'
    BY <1>1, TypeStep, LoopStepInv, ConnStepInv, HandStepInv, TableStepInv,
       StopStepInv DEF IInv
  <1> QED  BY InitIInv, <1>1, PTL DEF Spec

\* Every variable keeps its type, and no channel or socket buffer overflows.
THEOREM TypeCorrect == Spec => []TypeOK
  <1>1. IInv => TypeOK
    BY DEF IInv
  <1> QED  BY Invariance, <1>1, PTL

\* A peer the table calls Connected always has a write channel.
THEOREM ConnectedPeersHaveChannels == Spec => []ConnectedHasChannel
  <1>1. IInv => ConnectedHasChannel
    BY DEF IInv, TableInv
  <1> QED  BY Invariance, <1>1, PTL

\* The channel in the table is always the newest connection's, never one that a
\* late cleanup brought back.
THEOREM ChannelsAreNewest == Spec => []ChannelIsNewest
  <1>1. IInv => ChannelIsNewest
    BY DEF IInv, TableInv
  <1> QED  BY Invariance, <1>1, PTL

\* A round of the loop never dials a peer the table calls Connected.
THEOREM ConnectedPeersAreNotDialed == Spec => []NeverDialsConnected
  <1>1. IInv => NeverDialsConnected
    BY DEF IInv, TableInv
  <1> QED  BY Invariance, <1>1, PTL

\* After stop() at most one peer, the one being dialed, gets a channel again.
THEOREM StopLeavesAtMostOneChannel == Spec => []StopLeavesAtMostOne
  <1>1. IInv => StopLeavesAtMostOne
    BY DEF IInv
  <1> QED  BY Invariance, <1>1, PTL

\* The command handler and the writer it waits for never wait for each other.
THEOREM BlockedSendsCanEnd == Spec => []BlockedSendCanEnd
  <1>1. IInv => BlockedSendCanEnd
    BY DEF IInv, TableInv, HandInv, TypeOK, ChannelIsNewest, BlockedSendCanEnd
  <1> QED  BY Invariance, <1>1, PTL

-----------------------------------------------------------------------------
(* Who takes a working connection out of use.                              *)

\* A writer ends only when its socket is down or the table has let go of its
\* channel, a reader only when the socket is down; the two start together.
DownInv ==
  \A g \in Conns :
    /\ writer[g] \in {"cleanup", "done"} => sock[g] # "up" \/ tx[owner[g]] # g
    /\ reader[g] \in {"cleanup", "done"} => sock[g] # "up"
    /\ reader[g] # "none" => writer[g] # "none"

LEMMA DownStepInv ==
  ASSUME IInv, DownInv, [Next]_vars PROVE DownInv'
  <1> USE BoundFacts DEF vars, table, loopVars, connVars, taskVars, cmdVars,
             LoopOnly, TaskOnly
  <1>1. CASE UNCHANGED <<tx, owner, sock, writer, reader>>
    BY <1>1 DEF DownInv
  <1>2. ASSUME NEW p \in Peers, DialOk(p) PROVE DownInv'
    <2>1. /\ nconn \in Nat /\ nconn + 1 \in Conns /\ UNCHANGED <<tx, writer, reader>>
          /\ \A g \in Conns \ {nconn + 1} : owner'[g] = owner[g] /\ sock'[g] = sock[g]
      BY <1>2 DEF DialOk, MayOpen, IInv, TypeOK
    <2>2. writer[nconn + 1] = "none" /\ reader[nconn + 1] = "none"
      BY <2>1 DEF IInv, ConnInv
    <2> QED  BY <2>1, <2>2 DEF DownInv
  <1>3. CASE AckFail
    <2>1. \A g \in Conns : sock'[g] = "up" => sock[g] = "up"
      BY <1>3 DEF AckFail, IInv, TypeOK
    <2> QED  BY <1>3, <2>1 DEF AckFail, DownInv
  <1>4. CASE Install
    <2>1. /\ nconn \in Conns /\ dialing \in Peers
          /\ writer'[nconn] = "run" /\ reader'[nconn] = "run" /\ tx'[dialing] = nconn
          /\ \A p \in Peers \ {dialing} : tx'[p] = tx[p]
          /\ \A g \in Conns \ {nconn} : writer'[g] = writer[g] /\ reader'[g] = reader[g]
          /\ UNCHANGED <<owner, sock>>
      BY <1>4 DEF Install, IInv, TypeOK, LoopInv, Dialing
    <2>2. ASSUME NEW g \in Conns, g # nconn, writer[g] # "none", tx[owner[g]] # g
          PROVE  tx'[owner[g]] # g
      BY <2>1, <2>2 DEF IInv, ConnInv
    <2> QED  BY <2>1, <2>2 DEF DownInv
  <1>5. ASSUME NEW g \in Conns, WriterStops(g) PROVE DownInv'
    <2>1. /\ sock[g] # "up" \/ tx[owner[g]] # g
          /\ writer'[g] = "cleanup" /\ \A h \in Conns \ {g} : writer'[h] = writer[h]
          /\ UNCHANGED <<tx, owner, sock, reader>>
      BY <1>5 DEF WriterStops, ChannelOpen, IInv, TypeOK
    <2> QED  BY <2>1 DEF DownInv
  <1>6. ASSUME NEW g \in Conns, WriterCleanup(g) PROVE DownInv'
    <2>1. /\ writer[g] = "cleanup" /\ writer'[g] = "done" /\ owner[g] \in Peers
          /\ tx'[owner[g]] = 0
          /\ \A h \in Conns \ {g} : writer'[h] = writer[h]
          /\ \A p \in Peers \ {owner[g]} : tx'[p] = tx[p]
          /\ UNCHANGED <<owner, sock, reader>>
      BY <1>6 DEF WriterCleanup, IInv, TypeOK, ConnInv
    <2>2. ASSUME NEW h \in Conns, writer[h] # "none", tx[owner[h]] # h
          PROVE  tx'[owner[h]] # h
      BY <2>1, <2>2 DEF IInv, ConnInv
    <2> QED  BY <2>1, <2>2 DEF DownInv
  <1>7. ASSUME NEW g \in Conns, ReaderStops(g) PROVE DownInv'
    BY <1>7 DEF ReaderStops, IInv, TypeOK, DownInv
  <1>8. ASSUME NEW g \in Conns, ReaderCleanup(g) PROVE DownInv'
    BY <1>8 DEF ReaderCleanup, IInv, TypeOK, DownInv
  <1>9. CASE StopTable
    <2>1. UNCHANGED <<owner, sock, writer, reader>> /\ \A p \in Peers : tx'[p] = 0
      BY <1>9 DEF StopTable
    <2>2. \A g \in Conns : writer[g] # "none" => owner[g] \in Peers
      BY DEF IInv, ConnInv
    <2> QED  BY <2>1, <2>2 DEF DownInv
  <1>10. ASSUME NEW g \in Conns, PeerCloses(g) \/ PeerVanishes(g) PROVE DownInv'
    <2>1. \A h \in Conns : sock'[h] = "up" => sock[h] = "up"
      BY <1>10 DEF PeerCloses, PeerVanishes, Breaks, IInv, TypeOK
    <2>2. UNCHANGED <<tx, owner, writer, reader>>
      BY <1>10 DEF PeerCloses, PeerVanishes, Breaks
    <2> QED  BY <2>1, <2>2 DEF DownInv
  <1>11. CASE Collect \/ PickPeer \/ LoopEnds \/ RoundOver \/ Wake \/ DialFail
    BY <1>1, <1>11 DEF Collect, PickPeer, LoopEnds, RoundOver, Wake, DialFail
  <1>12. CASE MarkConnecting \/ MarkFailed \/ \E p \in Peers : AckOk(p)
    BY <1>1, <1>12 DEF MarkConnecting, MarkFailed, AckOk
  <1>13. CASE HandlerStep \/ Submission \/ StopRequest
    BY <1>1, <1>13 DEF HandlerStep, TakeCommand, SendInto, SendFails, Submission, Submit,
       StopRequest
  <1>14. ASSUME NEW g \in Conns, WriteOk(g) \/ WriteLost(g) \/ PeerReads(g) PROVE DownInv'
    BY <1>1, <1>14 DEF WriteOk, WriteLost, PeerReads
  <1> QED
    BY <1>1, <1>2, <1>3, <1>4, <1>5, <1>6, <1>7, <1>8, <1>9, <1>10, <1>11, <1>12, <1>13, <1>14
    DEF Next, LoopStep, WriterStep, ReaderStep

\* Only a cleanup can take a working connection out of use, and it
\* is never that connection's own.
DisconnectedByOlder(p) ==
  running /\ state[p] = "Connected" /\ sock[tx[p]] = "up" /\ state'[p] # "Connected" =>
    \E g \in Conns : /\ owner[g] = p /\ g < tx[p]
                     /\ \/ writer[g] = "cleanup" /\ writer'[g] = "done"
                        \/ reader[g] = "cleanup" /\ reader'[g] = "done"

LEMMA DisconnectStep ==
  ASSUME IInv, DownInv, [Next]_vars, NEW p \in Peers PROVE DisconnectedByOlder(p)
  <1> SUFFICES ASSUME running, state[p] = "Connected", sock[tx[p]] = "up",
                      state'[p] # "Connected"
               PROVE  \E g \in Conns : /\ owner[g] = p /\ g < tx[p]
                                       /\ \/ writer[g] = "cleanup" /\ writer'[g] = "done"
                                          \/ reader[g] = "cleanup" /\ reader'[g] = "done"
    BY DEF DisconnectedByOlder
  <1> USE BoundFacts DEF vars, table, loopVars, connVars, taskVars, cmdVars,
             LoopOnly, TaskOnly
  <1>1. state # state'
    OBVIOUS
  <1>2. tx[p] \in Conns
    BY DEF IInv, TypeOK, TableInv, ConnectedHasChannel
  <1>3. ASSUME NEW g \in Conns, owner[g] = p, writer[g] # "none", g # tx[p]
        PROVE  g < tx[p]
    BY <1>2, <1>3 DEF IInv, TableInv, ChannelIsNewest
  <1>4. ASSUME NEW g \in Conns, WriterCleanup(g)
        PROVE  owner[g] = p /\ g < tx[p] /\ writer[g] = "cleanup" /\ writer'[g] = "done"
    <2>1. writer[g] = "cleanup" /\ writer'[g] = "done" /\ owner[g] = p
      BY <1>4 DEF WriterCleanup, IInv, TypeOK, ConnInv
    <2>2. g # tx[p]
      BY <2>1 DEF DownInv
    <2> QED  BY <1>3, <2>1, <2>2
  <1>5. ASSUME NEW g \in Conns, ReaderCleanup(g)
        PROVE  owner[g] = p /\ g < tx[p] /\ reader[g] = "cleanup" /\ reader'[g] = "done"
    <2>1. reader[g] = "cleanup" /\ reader'[g] = "done" /\ owner[g] = p
      BY <1>5 DEF ReaderCleanup, IInv, TypeOK, ConnInv
    <2>2. g # tx[p] /\ writer[g] # "none"
      BY <2>1 DEF DownInv
    <2> QED  BY <1>3, <2>1, <2>2
  <1>6. ~MarkConnecting /\ ~MarkFailed /\ ~Install
    BY DEF MarkConnecting, MarkFailed, Install, IInv, TypeOK, LoopInv, Dialing,
       TableInv, NeverDialsConnected
  <1>7. ~StopTable
    BY DEF StopTable, running
  <1>8. ~(Collect \/ PickPeer \/ LoopEnds \/ RoundOver \/ Wake \/ DialFail \/ AckFail)
    BY <1>1 DEF Collect, PickPeer, LoopEnds, RoundOver, Wake, DialFail, AckFail
  <1>9. ~(HandlerStep \/ Submission \/ StopRequest \/ \E q \in Peers : DialOk(q) \/ AckOk(q))
    BY <1>1 DEF HandlerStep, TakeCommand, SendInto, SendFails, Submission, Submit,
       StopRequest, DialOk, AckOk
  <1>10. ~\E g \in Conns : WriteOk(g) \/ WriteLost(g) \/ WriterStops(g) \/ ReaderStops(g)
                           \/ PeerReads(g) \/ PeerCloses(g) \/ PeerVanishes(g)
    BY <1>1 DEF WriteOk, WriteLost, WriterStops, ReaderStops, PeerReads, PeerCloses,
       PeerVanishes, Breaks
  <1> QED
    BY <1>1, <1>4, <1>5, <1>6, <1>7, <1>8, <1>9, <1>10
    DEF Next, LoopStep, WriterStep, ReaderStep

\* While the manager runs, a peer whose connection works is called disconnected
\* only by the cleanup of a task of an OLDER connection of that peer
\* (network.rs:205-231): never by the loop, never by its own tasks.
THEOREM OnlyOlderTasksDisconnect == Spec => [][\A p \in Peers : DisconnectedByOlder(p)]_vars
  <1>1. Init => DownInv
    BY DEF Init, DownInv
  <1>2. ASSUME IInv, DownInv, [Next]_vars PROVE DownInv'
    BY <1>2, DownStepInv
  <1>3. ASSUME IInv, DownInv, [Next]_vars
        PROVE  [\A p \in Peers : DisconnectedByOlder(p)]_vars
    BY <1>3, DisconnectStep
  <1> QED  BY <1>1, <1>2, <1>3, Invariance, PTL DEF Spec
-----------------------------------------------------------------------------
(***************************************************************************)
(* Proofs about what PeerConnections delivers, for every set of peers and  *)
(* every bound: the order on one connection, and that the detailed module  *)
(* implements LossyDelivery.                                               *)
(*                                                                         *)
(* The messages of a connection stand in one line: those its peer has      *)
(* read, the socket's, the write channel's, the one in hand, the submitted *)
(* ones.  The invariant says that this line is increasing at every         *)
(* connection, and that no message is held by two connections of a peer.   *)
(***************************************************************************)

Elems(s)      == {s[i] : i \in DOMAIN s}
Increasing(s) == \A i, j \in DOMAIN s : i < j => s[i] < s[j]

Held(g) == Elems(queue[g]) \cup Elems(wire[g])

\* m went by before everything that the handler may still put into g.
Before(g, m) ==
  /\ m <= nmsg
  /\ \A i \in DOMAIN cmds : m < cmds[i].msg
  /\ owner[g] \in sending.to => m < sending.msg

CommandsInv ==
  /\ \A i, j \in DOMAIN cmds : i < j => cmds[i].msg < cmds[j].msg
  /\ \A i \in DOMAIN cmds : cmds[i].msg <= nmsg
  /\ sending.to # {} => /\ sending.msg <= nmsg
                        /\ \A i \in DOMAIN cmds : sending.msg < cmds[i].msg

PipeInv ==
  \A g \in Conns :
    /\ Increasing(queue[g]) /\ Increasing(wire[g])
    /\ \A m \in Elems(wire[g]), n \in Elems(queue[g]) : m < n
    /\ queue[g] # <<>> => g <= nconn

HeldInv == \A g \in Conns : \A m \in Held(g) : Before(g, m)

\* Peer p has read m from connection g, and what g still holds comes after it.
WentBy(p, g, m) ==
  owner[g] = p /\ g <= nconn /\ Before(g, m) /\ \A n \in Held(g) : m < n

ReadInv ==
  \A p \in Peers : \A i \in DOMAIN delivered[p] : \A g \in Conns, m \in Msgs :
    delivered[p][i] = [via |-> g, msg |-> m] => WentBy(p, g, m)

ApartInv ==
  \A g, h \in Conns : g # h /\ owner[g] = owner[h] => Held(g) \cap Held(h) = {}

DInv == CommandsInv /\ PipeInv /\ HeldInv /\ ReadInv /\ ApartInv /\ InOrderPerConnection

-----------------------------------------------------------------------------
(* Sequences of numbers.                                                   *)

\* The empty sequence.
LEMMA ElemsEmpty == Elems(<<>>) = {} /\ Increasing(<<>>)
  BY DEF Elems, Increasing

\* What is left of a sequence without its head; the head of an increasing one is least.
LEMMA ElemsTail ==
  ASSUME NEW S \in SUBSET Nat, NEW s \in Seq(S), s # <<>>
  PROVE  /\ Head(s) \in Elems(s)
         /\ Elems(s) = {Head(s)} \cup Elems(Tail(s))
         /\ Increasing(s) => /\ Increasing(Tail(s))
                             /\ \A m \in Elems(Tail(s)) : Head(s) < m
  <1>1. /\ Len(s) \in Nat /\ Len(s) > 0 /\ DOMAIN s = 1 .. Len(s) /\ Head(s) = s[1]
        /\ DOMAIN Tail(s) = 1 .. (Len(s) - 1)
        /\ \A i \in 1 .. (Len(s) - 1) : Tail(s)[i] = s[i + 1]
    BY HeadTailProperties, LenProperties, EmptySeq
  <1>2. Head(s) \in Elems(s)
    BY <1>1 DEF Elems
  <1>3. Elems(s) = {Head(s)} \cup Elems(Tail(s))
    <2>1. ASSUME NEW i \in DOMAIN s PROVE s[i] \in {Head(s)} \cup Elems(Tail(s))
      <3>1. CASE i = 1
        BY <3>1, <1>1
      <3>2. CASE i # 1
        <4>1. i - 1 \in 1 .. (Len(s) - 1) /\ Tail(s)[i - 1] = s[i]
          BY <3>2, <1>1
        <4> QED  BY <4>1, <1>1 DEF Elems
      <3> QED  BY <3>1, <3>2
    <2>2. ASSUME NEW i \in DOMAIN Tail(s) PROVE Tail(s)[i] \in Elems(s)
      BY <1>1 DEF Elems
    <2> QED  BY <2>1, <2>2, <1>2 DEF Elems
  <1>4. ASSUME Increasing(s)
        PROVE  Increasing(Tail(s)) /\ \A m \in Elems(Tail(s)) : Head(s) < m
    <2>1. Increasing(Tail(s))
      BY <1>1, <1>4 DEF Increasing
    <2>2. ASSUME NEW i \in DOMAIN Tail(s) PROVE Head(s) < Tail(s)[i]
      BY <1>1, <1>4 DEF Increasing
    <2> QED  BY <2>1, <2>2 DEF Elems
  <1> QED  BY <1>2, <1>3, <1>4

\* A sequence with one element more.
LEMMA ElemsAppend ==
  ASSUME NEW S, NEW s \in Seq(S), NEW e \in S
  PROVE  Elems(Append(s, e)) = Elems(s) \cup {e}
  <1>1. /\ Len(s) \in Nat /\ DOMAIN s = 1 .. Len(s)
        /\ DOMAIN Append(s, e) = 1 .. (Len(s) + 1)
        /\ Append(s, e)[Len(s) + 1] = e
        /\ \A i \in 1 .. Len(s) : Append(s, e)[i] = s[i]
    BY AppendProperties, LenProperties
  <1>2. ASSUME NEW i \in DOMAIN Append(s, e) PROVE Append(s, e)[i] \in Elems(s) \cup {e}
    BY <1>1 DEF Elems
  <1>3. ASSUME NEW i \in DOMAIN s PROVE s[i] \in Elems(Append(s, e))
    BY <1>1 DEF Elems
  <1>4. e \in Elems(Append(s, e))
    <2>1. Len(s) + 1 \in DOMAIN Append(s, e)
      BY <1>1
    <2> QED  BY <2>1, <1>1 DEF Elems
  <1> QED  BY <1>2, <1>3, <1>4 DEF Elems

\* An increasing sequence stays increasing if what is appended is the greatest.
LEMMA IncreasingAppend ==
  ASSUME NEW S \in SUBSET Nat, NEW s \in Seq(S), NEW e \in S,
         Increasing(s), \A m \in Elems(s) : m < e
  PROVE  Increasing(Append(s, e))
  <1>1. /\ Len(s) \in Nat /\ DOMAIN s = 1 .. Len(s)
        /\ DOMAIN Append(s, e) = 1 .. (Len(s) + 1)
        /\ Append(s, e)[Len(s) + 1] = e
        /\ \A i \in 1 .. Len(s) : Append(s, e)[i] = s[i]
    BY AppendProperties, LenProperties
  <1> SUFFICES ASSUME NEW i \in 1 .. (Len(s) + 1), NEW j \in 1 .. (Len(s) + 1), i < j
               PROVE  Append(s, e)[i] < Append(s, e)[j]
    BY <1>1 DEF Increasing
  <1>2. i \in DOMAIN s /\ Append(s, e)[i] = s[i] /\ s[i] \in Elems(s)
    BY <1>1 DEF Elems
  <1>3. CASE j \in 1 .. Len(s)
    BY <1>1, <1>2, <1>3 DEF Increasing
  <1>4. CASE j = Len(s) + 1
    BY <1>1, <1>2, <1>4
  <1> QED  BY <1>3, <1>4, <1>1

-----------------------------------------------------------------------------
(* The steps, sorted by what they do to the messages.                      *)

Quiet == UNCHANGED <<connVars, queue, wire, cmdVars, delivered>>

\* A frame or the whole of a channel or of a socket is lost.
Forget(g) ==
  /\ \/ UNCHANGED wire /\ queue[g] # <<>> /\ queue' = [queue EXCEPT ![g] = Tail(@)]
     \/ UNCHANGED wire /\ queue' = [queue EXCEPT ![g] = <<>>]
     \/ UNCHANGED queue /\ wire' = [wire EXCEPT ![g] = <<>>]
  /\ UNCHANGED <<connVars, cmdVars, delivered>>

\* Every step leaves the messages alone or is one of these.
LEMMA StepKinds ==
  ASSUME [Next]_vars
  PROVE  \/ Quiet
         \/ \E p \in Peers : DialOk(p)
         \/ \E g \in Conns : WriteOk(g) \/ Forget(g) \/ PeerReads(g)
         \/ \E to \in SUBSET Peers : Submit(to)
         \/ TakeCommand
         \/ \E p \in Peers : SendInto(p) \/ SendFails(p)
  <1> USE DEF vars, table, loopVars, connVars, taskVars, cmdVars, LoopOnly, TaskOnly
  <1>1. CASE Collect \/ PickPeer \/ LoopEnds \/ RoundOver \/ Wake
    BY <1>1 DEF Collect, PickPeer, LoopEnds, RoundOver, Wake, Quiet
  <1>2. CASE MarkConnecting \/ DialFail \/ AckFail \/ Install \/ MarkFailed
    BY <1>2 DEF MarkConnecting, DialFail, AckFail, Install, MarkFailed, Quiet
  <1>3. ASSUME NEW p \in Peers, AckOk(p) PROVE Quiet
    BY <1>3 DEF AckOk, Quiet
  <1>4. ASSUME NEW g \in Conns, WriteLost(g) \/ WriterStops(g) PROVE Forget(g)
    BY <1>4 DEF WriteLost, WriterStops, Forget
  <1>5. ASSUME NEW g \in Conns, PeerCloses(g) \/ PeerVanishes(g) PROVE Forget(g)
    BY <1>5 DEF PeerCloses, PeerVanishes, Breaks, Forget
  <1>6. ASSUME NEW g \in Conns, WriterCleanup(g) \/ ReaderStep(g) PROVE Quiet
    BY <1>6 DEF WriterCleanup, ReaderStep, ReaderStops, ReaderCleanup, Quiet
  <1>7. CASE StopRequest \/ StopTable
    BY <1>7 DEF StopRequest, StopTable, Quiet
  <1>8. CASE UNCHANGED vars
    BY <1>8 DEF Quiet
  <1> QED
    BY <1>1, <1>2, <1>3, <1>4, <1>5, <1>6, <1>7, <1>8
    DEF Next, LoopStep, WriterStep, HandlerStep, Submission

\* Every step keeps the order in the command channel and of the message in hand.
LEMMA CommandsStep ==
  ASSUME IInv, DInv, [Next]_vars
  PROVE  CommandsInv'
  <1> USE BoundFacts DEF connVars, cmdVars, table, loopVars, taskVars
  <1>0. TypeOK /\ CommandsInv
    BY DEF IInv, DInv
  <1>a. nmsg \in Nat /\ cmds \in Seq(Commands) /\ Len(cmds) \in Nat /\ DOMAIN cmds = 1 .. Len(cmds)
    BY <1>0, LenProperties DEF TypeOK
  <1>b. \A i \in DOMAIN cmds : cmds[i] \in Commands /\ cmds[i].msg \in Nat
    <2>1. \A i \in DOMAIN cmds : cmds[i] \in Commands
      BY <1>a, ElementOfSeq
    <2>2. \A c \in Commands : c.msg \in Nat
      BY DEF Commands
    <2> QED  BY <2>1, <2>2
  <1>1. CASE Quiet \/ \E g \in Conns : WriteOk(g) \/ Forget(g) \/ PeerReads(g)
    BY <1>0, <1>1 DEF Quiet, WriteOk, Forget, PeerReads, TaskOnly, CommandsInv
  <1>2. ASSUME NEW p \in Peers, DialOk(p) PROVE CommandsInv'
    BY <1>0, <1>2 DEF DialOk, CommandsInv
  <1>3. ASSUME NEW to \in SUBSET Peers, Submit(to) PROVE CommandsInv'
    <2> DEFINE c == [msg |-> nmsg + 1, to |-> to]
    <2>1. c \in Commands
      BY <1>3, <1>a DEF Submit, Commands
    <2>2. cmds' = Append(cmds, c) /\ nmsg' = nmsg + 1 /\ UNCHANGED sending
      BY <1>3 DEF Submit
    <2>3. c.msg = nmsg + 1
      OBVIOUS
    <2> HIDE DEF c
    <2>4. /\ DOMAIN cmds' = 1 .. (Len(cmds) + 1) /\ cmds'[Len(cmds) + 1] = c
          /\ \A i \in 1 .. Len(cmds) : cmds'[i] = cmds[i]
      BY <2>1, <2>2, <1>a, AppendProperties
    <2>5. \A i, j \in DOMAIN cmds' : i < j => cmds'[i].msg < cmds'[j].msg
      BY <2>3, <2>4, <1>0, <1>a, <1>b DEF CommandsInv
    <2>6. \A i \in DOMAIN cmds' : cmds'[i].msg <= nmsg'
      BY <2>2, <2>3, <2>4, <1>0, <1>a, <1>b DEF CommandsInv
    <2>7. sending'.to # {} => /\ sending'.msg <= nmsg'
                              /\ \A i \in DOMAIN cmds' : sending'.msg < cmds'[i].msg
      <3>1. sending.msg \in Int
        BY <1>0 DEF TypeOK
      <3> QED  BY <3>1, <2>2, <2>3, <2>4, <1>0, <1>a, <1>b DEF CommandsInv
    <2> QED  BY <2>5, <2>6, <2>7 DEF CommandsInv
  <1>4. CASE TakeCommand
    <2>1. /\ DOMAIN cmds' = 1 .. (Len(cmds) - 1) /\ Len(cmds) > 0 /\ Head(cmds) = cmds[1]
          /\ \A i \in 1 .. (Len(cmds) - 1) : cmds'[i] = cmds[i + 1]
      BY <1>4, <1>a, HeadTailProperties, LenProperties, EmptySeq DEF TakeCommand
    <2>2. UNCHANGED nmsg /\ (sending'.to # {} => sending'.msg = cmds[1].msg)
      BY <1>4, <2>1 DEF TakeCommand, InHand
    <2>0. \A i \in DOMAIN cmds' : i \in Int /\ i + 1 \in DOMAIN cmds /\ cmds'[i] = cmds[i + 1]
      BY <2>1, <1>a
    <2>3. /\ \A i, j \in DOMAIN cmds' : i < j => cmds'[i].msg < cmds'[j].msg
          /\ \A i \in DOMAIN cmds' : cmds'[i].msg <= nmsg'
      <3>1. ASSUME NEW i \in DOMAIN cmds', NEW j \in DOMAIN cmds', i < j
            PROVE  cmds'[i].msg < cmds'[j].msg
        <4>1. i + 1 < j + 1
          BY <2>0, <3>1
        <4> QED  BY <4>1, <2>0, <1>0 DEF CommandsInv
      <3> QED  BY <3>1, <2>0, <2>2, <1>0 DEF CommandsInv
    <2>4. cmds[1].msg <= nmsg /\ \A i \in DOMAIN cmds' : cmds[1].msg < cmds'[i].msg
      <3>1. 1 \in DOMAIN cmds /\ \A i \in DOMAIN cmds' : 1 < i + 1
        BY <2>1, <1>a
      <3> QED  BY <3>1, <2>0, <1>0 DEF CommandsInv
    <2> QED  BY <2>2, <2>3, <2>4 DEF CommandsInv
  <1>5. ASSUME NEW p \in Peers, SendInto(p) \/ SendFails(p) PROVE CommandsInv'
    <2>1. UNCHANGED <<cmds, nmsg>> /\ sending.to # {}
          /\ (sending'.to # {} => sending'.msg = sending.msg)
      BY <1>5 DEF SendInto, SendFails, InHand
    <2> QED  BY <2>1, <1>0 DEF CommandsInv
  <1> QED  BY <1>1, <1>2, <1>3, <1>4, <1>5, StepKinds

\* What went by before stays before.
LEMMA BeforeStep ==
  ASSUME IInv, DInv, [Next]_vars,
         NEW g \in Conns, g <= nconn, NEW m \in Msgs, Before(g, m)
  PROVE  Before(g, m)' /\ owner'[g] = owner[g] /\ g <= nconn'
  <1> USE BoundFacts DEF connVars, cmdVars, table, loopVars, taskVars
  <1>0. TypeOK /\ CommandsInv
    BY DEF IInv, DInv
  <1>a. /\ nmsg \in Nat /\ cmds \in Seq(Commands) /\ Len(cmds) \in Nat
        /\ DOMAIN cmds = 1 .. Len(cmds) /\ nconn \in Nat /\ m \in Nat
    BY <1>0, LenProperties DEF TypeOK
  <1>1. CASE Quiet \/ \E h \in Conns : WriteOk(h) \/ Forget(h) \/ PeerReads(h)
    BY <1>1 DEF Quiet, WriteOk, Forget, PeerReads, TaskOnly, Before
  <1>2. ASSUME NEW p \in Peers, DialOk(p) PROVE Before(g, m)' /\ owner'[g] = owner[g] /\ g <= nconn'
    <2>1. g # nconn + 1 /\ nconn' = nconn + 1
      BY <1>2, <1>a DEF DialOk
    <2>2. owner'[g] = owner[g]
      BY <1>2, <2>1, <1>0 DEF DialOk, TypeOK
    <2> QED  BY <1>2, <2>1, <2>2, <1>a DEF DialOk, Before
  <1>3. ASSUME NEW to \in SUBSET Peers, Submit(to)
        PROVE Before(g, m)' /\ owner'[g] = owner[g] /\ g <= nconn'
    <2> DEFINE c == [msg |-> nmsg + 1, to |-> to]
    <2>1. c \in Commands
      BY <1>3, <1>a DEF Submit, Commands
    <2>2. cmds' = Append(cmds, c) /\ nmsg' = nmsg + 1 /\ UNCHANGED <<sending, connVars>>
      BY <1>3 DEF Submit
    <2>3. c.msg = nmsg + 1
      OBVIOUS
    <2> HIDE DEF c
    <2>4. /\ DOMAIN cmds' = 1 .. (Len(cmds) + 1) /\ cmds'[Len(cmds) + 1] = c
          /\ \A i \in 1 .. Len(cmds) : cmds'[i] = cmds[i]
      BY <2>1, <2>2, <1>a, AppendProperties
    <2>5. \A i \in DOMAIN cmds' : m < cmds'[i].msg
      BY <2>3, <2>4, <1>a DEF Before
    <2> QED  BY <2>2, <2>5, <1>a DEF Before
  <1>4. CASE TakeCommand
    <2>1. /\ DOMAIN cmds' = 1 .. (Len(cmds) - 1) /\ Len(cmds) > 0 /\ Head(cmds) = cmds[1]
          /\ \A i \in 1 .. (Len(cmds) - 1) : cmds'[i] = cmds[i + 1]
      BY <1>4, <1>a, HeadTailProperties, LenProperties, EmptySeq DEF TakeCommand
    <2>2. UNCHANGED <<nmsg, connVars>> /\ (sending'.to # {} => sending'.msg = cmds[1].msg)
      BY <1>4, <2>1 DEF TakeCommand, InHand
    <2>0. 1 \in DOMAIN cmds
          /\ \A i \in DOMAIN cmds' : i + 1 \in DOMAIN cmds /\ cmds'[i] = cmds[i + 1]
      BY <2>1, <1>a
    <2>3. m < cmds[1].msg /\ \A i \in DOMAIN cmds' : m < cmds'[i].msg
      BY <2>0 DEF Before
    <2> QED  BY <2>2, <2>3, <1>a DEF Before
  <1>5. ASSUME NEW p \in Peers, SendInto(p) \/ SendFails(p)
        PROVE Before(g, m)' /\ owner'[g] = owner[g] /\ g <= nconn'
    <2>1. UNCHANGED <<cmds, nmsg, connVars>> /\ sending'.to \subseteq sending.to
          /\ (sending'.to # {} => sending'.msg = sending.msg)
      BY <1>5 DEF SendInto, SendFails, InHand
    <2> QED  BY <2>1, <1>a DEF Before
  <1> QED  BY <1>1, <1>2, <1>3, <1>4, <1>5, StepKinds DEF Quiet, WriteOk, Forget, PeerReads

\* What a connection holds is a message, the connection was opened, and its owner known.
LEMMA HeldFacts ==
  ASSUME IInv, DInv, NEW g \in Conns, NEW m \in Held(g)
  PROVE  m \in Msgs /\ g <= nconn /\ owner[g] \in Peers /\ Before(g, m)
  <1>1. queue[g] \in Seq(Msgs) /\ wire[g] \in Seq(Msgs)
    BY DEF IInv, TypeOK
  <1>2. m \in Msgs
    BY <1>1, ElementOfSeq, LenProperties DEF Held, Elems
  <1>3. queue[g] # <<>> \/ wire[g] # <<>>
    BY ElemsEmpty DEF Held
  <1>4. g <= nconn /\ owner[g] \in Peers
    BY <1>3 DEF IInv, ConnInv, DInv, PipeInv
  <1> QED  BY <1>2, <1>4 DEF DInv, HeldInv

\* The channel a send goes into is one of the peer, and its message the last so far.
LEMMA SendFacts ==
  ASSUME IInv, DInv, NEW p \in Peers, SendInto(p)
  PROVE  /\ tx[p] \in Conns /\ owner[tx[p]] = p /\ tx[p] <= nconn
         /\ sending.msg \in Msgs /\ p \in sending.to
         /\ \A g \in Conns : owner[g] = p => \A m \in Held(g) : m < sending.msg
         /\ queue' = [queue EXCEPT ![tx[p]] = Append(@, sending.msg)]
         /\ UNCHANGED <<wire, delivered, owner, nconn, cmds, nmsg>>
         /\ sending'.to = sending.to \ {p}
  <1>1. p \in sending.to /\ tx[p] # NoConn /\ sending.msg \in Msgs
    BY DEF IInv, HandInv, SendInto
  <1>2. tx[p] \in Conns /\ owner[tx[p]] = p /\ tx[p] <= nconn
    BY <1>1, BoundFacts DEF SendInto, IInv, TypeOK, TableInv, ChannelIsNewest, ConnInv
  <1>3. \A g \in Conns : owner[g] = p => \A m \in Held(g) : m < sending.msg
    BY <1>1 DEF DInv, HeldInv, Before
  <1> QED
    BY <1>1, <1>2, <1>3 DEF SendInto, InHand, connVars, table, loopVars

\* What a step may do to what connection g holds.
HoldsNoMore(g) ==
  \/ Held(g)' \subseteq Held(g)
  \/ \E p \in Peers : /\ SendInto(p) /\ g = tx[p]
                      /\ Held(g)' \subseteq Held(g) \cup {sending.msg}

PipeKept(g) ==
  /\ Increasing(queue'[g]) /\ Increasing(wire'[g])
  /\ \A m \in Elems(wire'[g]), n \in Elems(queue'[g]) : m < n
  /\ queue'[g] # <<>> => g <= nconn
  /\ HoldsNoMore(g)

\* Every step keeps the order within a connection.
LEMMA PipeStep ==
  ASSUME IInv, DInv, [Next]_vars, NEW g \in Conns
  PROVE  PipeKept(g)
  <1>0. /\ Msgs \in SUBSET Nat
        /\ queue \in [Conns -> Seq(Msgs)] /\ wire \in [Conns -> Seq(Msgs)]
        /\ queue[g] \in Seq(Msgs) /\ wire[g] \in Seq(Msgs)
    BY BoundFacts DEF IInv, TypeOK
  <1>a. /\ Increasing(queue[g]) /\ Increasing(wire[g])
        /\ \A m \in Elems(wire[g]), n \in Elems(queue[g]) : m < n
        /\ queue[g] # <<>> => g <= nconn
    BY DEF DInv, PipeInv
  <1>b. ASSUME queue'[g] = queue[g], wire'[g] = wire[g] PROVE PipeKept(g)
    BY <1>a, <1>b DEF PipeKept, HoldsNoMore, Held
  <1>1. CASE Quiet
    BY <1>1, <1>b DEF Quiet
  <1>2. CASE TakeCommand
    BY <1>2, <1>b DEF TakeCommand, taskVars
  <1>7. ASSUME NEW p \in Peers, DialOk(p) \/ SendFails(p) PROVE PipeKept(g)
    BY <1>7, <1>b DEF DialOk, SendFails, taskVars
  <1>8. ASSUME NEW to \in SUBSET Peers, Submit(to) PROVE PipeKept(g)
    BY <1>8, <1>b DEF Submit, taskVars
  <1>3. ASSUME NEW h \in Conns, WriteOk(h) PROVE PipeKept(g)
    <2>1. CASE g # h
      BY <2>1, <1>3, <1>0, <1>b DEF WriteOk
    <2>2. CASE g = h
      <3>1. /\ queue[g] # <<>> /\ queue'[g] = Tail(queue[g])
            /\ wire'[g] = Append(wire[g], Head(queue[g]))
        BY <2>2, <1>3, <1>0 DEF WriteOk
      <3>2. /\ Head(queue[g]) \in Msgs /\ Head(queue[g]) \in Elems(queue[g])
            /\ Elems(queue[g]) = {Head(queue[g])} \cup Elems(queue'[g])
            /\ Increasing(queue'[g]) /\ \A m \in Elems(queue'[g]) : Head(queue[g]) < m
        BY <3>1, <1>0, <1>a, ElemsTail, HeadTail
      <3>3. /\ Elems(wire'[g]) = Elems(wire[g]) \cup {Head(queue[g])}
            /\ Increasing(wire'[g])
        <4>1. \A m \in Elems(wire[g]) : m < Head(queue[g])
          BY <3>2, <1>a
        <4>2. Increasing(wire'[g])
          BY <4>1, <3>1, <3>2, <1>0, <1>a, IncreasingAppend
        <4>3. Elems(wire'[g]) = Elems(wire[g]) \cup {Head(queue[g])}
          BY <3>1, <3>2, <1>0, ElemsAppend
        <4> QED  BY <4>2, <4>3
      <3>4. \A m \in Elems(wire'[g]), n \in Elems(queue'[g]) : m < n
        BY <3>2, <3>3, <1>a
      <3>5. Held(g)' \subseteq Held(g)
        BY <3>2, <3>3 DEF Held
      <3> QED  BY <3>1, <3>2, <3>3, <3>4, <3>5, <1>a DEF PipeKept, HoldsNoMore
    <2> QED  BY <2>1, <2>2
  <1>4. ASSUME NEW h \in Conns, Forget(h) PROVE PipeKept(g)
    <2>1. CASE g # h
      BY <2>1, <1>4, <1>0, <1>b DEF Forget
    <2>2. CASE g = h /\ UNCHANGED wire /\ queue[h] # <<>> /\ queue' = [queue EXCEPT ![h] = Tail(@)]
      <3>1. /\ queue[g] # <<>> /\ queue'[g] = Tail(queue[g]) /\ wire'[g] = wire[g]
        BY <2>2, <1>0
      <3>2. /\ Elems(queue'[g]) \subseteq Elems(queue[g]) /\ Increasing(queue'[g])
        BY <3>1, <1>0, <1>a, ElemsTail
      <3>3. Held(g)' \subseteq Held(g)
        BY <3>1, <3>2 DEF Held
      <3> QED  BY <3>1, <3>2, <3>3, <1>a DEF PipeKept, HoldsNoMore
    <2>3. CASE g = h /\ UNCHANGED wire /\ queue' = [queue EXCEPT ![h] = <<>>]
      <3>1. queue'[g] = <<>> /\ wire'[g] = wire[g]
        BY <2>3, <1>0
      <3> QED  BY <3>1, <1>a, ElemsEmpty DEF PipeKept, HoldsNoMore, Held
    <2>4. CASE g = h /\ UNCHANGED queue /\ wire' = [wire EXCEPT ![h] = <<>>]
      <3>1. wire'[g] = <<>> /\ queue'[g] = queue[g]
        BY <2>4, <1>0
      <3> QED  BY <3>1, <1>a, ElemsEmpty DEF PipeKept, HoldsNoMore, Held
    <2> QED  BY <2>1, <2>2, <2>3, <2>4, <1>4 DEF Forget
  <1>5. ASSUME NEW h \in Conns, PeerReads(h) PROVE PipeKept(g)
    <2>1. CASE g # h
      BY <2>1, <1>5, <1>0, <1>b DEF PeerReads
    <2>2. CASE g = h
      <3>1. wire[g] # <<>> /\ wire'[g] = Tail(wire[g]) /\ queue'[g] = queue[g]
        BY <2>2, <1>5, <1>0 DEF PeerReads
      <3>2. Elems(wire'[g]) \subseteq Elems(wire[g]) /\ Increasing(wire'[g])
        BY <3>1, <1>0, <1>a, ElemsTail
      <3>3. Held(g)' \subseteq Held(g)
        BY <3>1, <3>2 DEF Held
      <3> QED  BY <3>1, <3>2, <3>3, <1>a DEF PipeKept, HoldsNoMore
    <2> QED  BY <2>1, <2>2
  <1>6. ASSUME NEW p \in Peers, SendInto(p) PROVE PipeKept(g)
    <2>1. CASE g # tx[p]
      BY <2>1, <1>6, <1>0, <1>b, SendFacts
    <2>2. CASE g = tx[p]
      <3>1. /\ queue'[g] = Append(queue[g], sending.msg) /\ wire'[g] = wire[g]
            /\ sending.msg \in Msgs /\ g <= nconn
            /\ \A m \in Held(g) : m < sending.msg
        BY <2>2, <1>6, <1>0, SendFacts
      <3>2. /\ Elems(queue'[g]) = Elems(queue[g]) \cup {sending.msg}
            /\ Increasing(queue'[g])
        <4>1. \A m \in Elems(queue[g]) : m < sending.msg
          BY <3>1 DEF Held
        <4>2. Increasing(queue'[g])
          BY <4>1, <3>1, <1>0, <1>a, IncreasingAppend
        <4>3. Elems(queue'[g]) = Elems(queue[g]) \cup {sending.msg}
          BY <3>1, <1>0, ElemsAppend
        <4> QED  BY <4>2, <4>3
      <3>3. \A m \in Elems(wire'[g]), n \in Elems(queue'[g]) : m < n
        BY <3>1, <3>2, <1>a DEF Held
      <3>4. Held(g)' \subseteq Held(g) \cup {sending.msg}
        BY <3>1, <3>2 DEF Held
      <3> QED  BY <3>1, <3>2, <3>3, <3>4, <1>a, <1>6, <2>2 DEF PipeKept, HoldsNoMore
    <2> QED  BY <2>1, <2>2
  <1> QED
    BY <1>1, <1>2, <1>3, <1>4, <1>5, <1>6, <1>7, <1>8, StepKinds

\* What a connection holds went by before what the handler still has.
LEMMA HeldStep ==
  ASSUME IInv, DInv, [Next]_vars PROVE HeldInv'
  <1> SUFFICES ASSUME NEW g \in Conns, NEW m \in Held(g)' PROVE Before(g, m)'
    BY DEF HeldInv
  <1>1. CASE m \in Held(g)
    BY <1>1, HeldFacts, BeforeStep
  <1>2. ASSUME NEW p \in Peers, SendInto(p), g = tx[p], m = sending.msg
        PROVE  Before(g, m)'
    <2>1. m <= nmsg /\ \A i \in DOMAIN cmds : m < cmds[i].msg
      BY <1>2, SendFacts DEF DInv, CommandsInv
    <2> QED  BY <2>1, <1>2, SendFacts DEF Before
  <1> QED  BY <1>1, <1>2, PipeStep DEF PipeKept, HoldsNoMore

\* What a peer has read afterwards, it had read before or reads now.
LEMMA ReadMoves ==
  ASSUME IInv, [Next]_vars, NEW p \in Peers, NEW i \in DOMAIN delivered'[p]
  PROVE  \/ i \in DOMAIN delivered[p] /\ delivered'[p][i] = delivered[p][i]
         \/ \E h \in Conns : /\ PeerReads(h) /\ owner[h] = p
                             /\ i = Len(delivered[p]) + 1
                             /\ delivered'[p][i] = [via |-> h, msg |-> Head(wire[h])]
  <1> USE DEF connVars, cmdVars, table, loopVars, taskVars
  <1>1. CASE UNCHANGED delivered
    BY <1>1
  <1>2. ASSUME NEW h \in Conns, PeerReads(h) PROVE
         \/ i \in DOMAIN delivered[p] /\ delivered'[p][i] = delivered[p][i]
         \/ /\ owner[h] = p /\ i = Len(delivered[p]) + 1
            /\ delivered'[p][i] = [via |-> h, msg |-> Head(wire[h])]
    <2> DEFINE R == [via : Conns, msg : Msgs]
               r == [via |-> h, msg |-> Head(wire[h])]
    <2>1. delivered \in [Peers -> Seq(R)] /\ wire[h] \in Seq(Msgs) /\ wire[h] # <<>>
      BY <1>2 DEF IInv, TypeOK, PeerReads
    <2>2. Head(wire[h]) \in Msgs
      BY <2>1, HeadTail
    <2>3. r \in R
      BY <2>2
    <2>4. delivered' = [delivered EXCEPT ![owner[h]] = Append(@, r)]
      BY <1>2 DEF PeerReads
    <2> HIDE DEF R, r
    <2>5. CASE owner[h] # p
      BY <2>1, <2>4, <2>5
    <2>6. CASE owner[h] = p
      <3>1. delivered'[p] = Append(delivered[p], r) /\ delivered[p] \in Seq(R)
        BY <2>1, <2>4, <2>6
      <3>2. /\ DOMAIN delivered'[p] = 1 .. (Len(delivered[p]) + 1) /\ Len(delivered[p]) \in Nat
            /\ DOMAIN delivered[p] = 1 .. Len(delivered[p])
            /\ delivered'[p][Len(delivered[p]) + 1] = r
            /\ \A j \in 1 .. Len(delivered[p]) : delivered'[p][j] = delivered[p][j]
        BY <3>1, <2>3, AppendProperties, LenProperties
      <3>3. i \in 1 .. Len(delivered[p]) \/ i = Len(delivered[p]) + 1
        BY <3>2
      <3> QED  BY <3>2, <3>3, <2>6 DEF r
    <2> QED  BY <2>5, <2>6
  <1> QED
    BY <1>1, <1>2, StepKinds
    DEF Quiet, DialOk, WriteOk, Forget, Submit, TakeCommand, SendInto, SendFails, TaskOnly

\* What was read went by before all that its connection still holds or will hold.
LEMMA ReadStep ==
  ASSUME IInv, DInv, [Next]_vars PROVE ReadInv'
  <1> SUFFICES ASSUME NEW p \in Peers, NEW i \in DOMAIN delivered'[p],
                      NEW g \in Conns, NEW m \in Msgs,
                      delivered'[p][i] = [via |-> g, msg |-> m]
               PROVE  WentBy(p, g, m)'
    BY DEF ReadInv
  <1>1. CASE i \in DOMAIN delivered[p] /\ delivered'[p][i] = delivered[p][i]
    <2>1. /\ owner[g] = p /\ g <= nconn /\ Before(g, m) /\ \A n \in Held(g) : m < n
      BY <1>1 DEF DInv, ReadInv, WentBy
    <2>2. owner'[g] = p /\ g <= nconn' /\ Before(g, m)'
      BY <2>1, BeforeStep
    <2>3. \A n \in Held(g)' : m < n
      <3>1. CASE Held(g)' \subseteq Held(g)
        BY <3>1, <2>1
      <3>2. ASSUME NEW q \in Peers, SendInto(q), g = tx[q],
                   Held(g)' \subseteq Held(g) \cup {sending.msg}
            PROVE  \A n \in Held(g)' : m < n
        <4>1. m < sending.msg
          BY <3>2, <2>1, SendFacts DEF Before
        <4> QED  BY <4>1, <3>2, <2>1
      <3> QED  BY <3>1, <3>2, PipeStep DEF PipeKept, HoldsNoMore
    <2> QED  BY <2>2, <2>3 DEF WentBy
  <1>2. ASSUME NEW h \in Conns, PeerReads(h), owner[h] = p,
               delivered'[p][i] = [via |-> h, msg |-> Head(wire[h])]
        PROVE  WentBy(p, g, m)'
    <2>0. g = h /\ m = Head(wire[g])
      BY <1>2
    <2>1. wire[g] \in Seq(Msgs) /\ Msgs \in SUBSET Nat /\ wire[g] # <<>>
      BY <2>0, <1>2, BoundFacts DEF IInv, TypeOK, PeerReads
    <2>2. m \in Elems(wire[g]) /\ \A n \in Elems(Tail(wire[g])) : m < n
      BY <2>0, <2>1, ElemsTail DEF DInv, PipeInv
    <2>3. m \in Held(g) /\ \A n \in Elems(queue[g]) : m < n
      BY <2>2 DEF DInv, PipeInv, Held
    <2>4. g <= nconn /\ Before(g, m)
      BY <2>3, HeldFacts
    <2>5. owner'[g] = p /\ g <= nconn' /\ Before(g, m)'
      BY <2>0, <2>4, <1>2, BeforeStep
    <2>6. wire'[g] = Tail(wire[g]) /\ queue'[g] = queue[g]
      BY <2>0, <1>2 DEF PeerReads, IInv, TypeOK
    <2>7. \A n \in Held(g)' : m < n
      BY <2>2, <2>3, <2>6 DEF Held
    <2> QED  BY <2>5, <2>7 DEF WentBy
  <1> QED  BY <1>1, <1>2, ReadMoves

\* Two connections of one peer never hold the same message.
LEMMA ApartStep ==
  ASSUME IInv, DInv, [Next]_vars PROVE ApartInv'
  <1>1. ASSUME NEW g \in Conns, NEW m \in Held(g)'
        PROVE  \/ m \in Held(g)
               \/ \E p \in Peers : SendInto(p) /\ g = tx[p] /\ m = sending.msg
    BY PipeStep DEF PipeKept, HoldsNoMore
  <1>2. ASSUME NEW g \in Conns, NEW m \in Held(g)'
        PROVE  owner'[g] = owner[g]
    BY <1>1, HeldFacts, BeforeStep, SendFacts
  <1>3. ASSUME NEW g \in Conns, NEW h \in Conns, g # h, owner[g] = owner[h],
               NEW p \in Peers, SendInto(p), g = tx[p], NEW m, m = sending.msg, m \in Held(h)'
        PROVE  FALSE
    <2>1. owner[h] = p /\ m \in Msgs /\ \A n \in Held(h) : n < m
      BY <1>3, SendFacts
    <2>2. m \notin Held(h)
      BY <2>1, BoundFacts
    <2>3. PICK q \in Peers : SendInto(q) /\ h = tx[q]
      BY <1>1, <1>3, <2>2
    <2> QED  BY <1>3, <2>1, <2>3, SendFacts
  <1> SUFFICES ASSUME NEW g \in Conns, NEW h \in Conns, g # h, owner'[g] = owner'[h],
                      NEW m, m \in Held(g)', m \in Held(h)'
               PROVE  FALSE
    BY DEF ApartInv
  <1>4. owner[g] = owner[h]
    BY <1>2
  <1>5. ~(m \in Held(g) /\ m \in Held(h))
    BY <1>4 DEF DInv, ApartInv
  <1> QED  BY <1>1, <1>3, <1>4, <1>5

\* Every step keeps the order in which a connection is read.
LEMMA InOrderStep ==
  ASSUME IInv, DInv, [Next]_vars PROVE InOrderPerConnection'
  <1> SUFFICES ASSUME NEW p \in Peers,
                      NEW i \in DOMAIN delivered'[p], NEW j \in DOMAIN delivered'[p],
                      i < j, delivered'[p][i].via = delivered'[p][j].via
               PROVE  delivered'[p][i].msg < delivered'[p][j].msg
    BY DEF InOrderPerConnection
  <1>1. /\ delivered[p] \in Seq([via : Conns, msg : Msgs])
        /\ DOMAIN delivered[p] = 1 .. Len(delivered[p]) /\ Len(delivered[p]) \in Nat
    BY LenProperties DEF IInv, TypeOK
  <1>0. \A k \in DOMAIN delivered[p] :
           /\ delivered[p][k].via \in Conns /\ delivered[p][k].msg \in Msgs
           /\ delivered[p][k] = [via |-> delivered[p][k].via, msg |-> delivered[p][k].msg]
    <2>1. \A k \in DOMAIN delivered[p] : delivered[p][k] \in [via : Conns, msg : Msgs]
      BY <1>1, ElementOfSeq
    <2> QED  BY <2>1
  <1>2. \/ j \in DOMAIN delivered[p] /\ delivered'[p][j] = delivered[p][j]
        \/ \E h \in Conns : /\ PeerReads(h) /\ owner[h] = p
                            /\ j = Len(delivered[p]) + 1
                            /\ delivered'[p][j] = [via |-> h, msg |-> Head(wire[h])]
    BY ReadMoves
  <1>3. i \in DOMAIN delivered[p] /\ delivered'[p][i] = delivered[p][i]
    <2>1. (i \in DOMAIN delivered[p] /\ delivered'[p][i] = delivered[p][i]) \/ i = Len(delivered[p]) + 1
      BY ReadMoves
    <2>2. CASE j \in DOMAIN delivered[p]
      BY <2>1, <2>2, <1>1
    <2>3. CASE j = Len(delivered[p]) + 1
      BY <2>1, <2>3, <1>1
    <2> QED  BY <2>2, <2>3, <1>2
  <1>4. CASE j \in DOMAIN delivered[p] /\ delivered'[p][j] = delivered[p][j]
    BY <1>3, <1>4 DEF DInv, InOrderPerConnection
  <1>5. ASSUME NEW h \in Conns, PeerReads(h),
               delivered'[p][j] = [via |-> h, msg |-> Head(wire[h])]
        PROVE  delivered'[p][i].msg < delivered'[p][j].msg
    <2>1. Head(wire[h]) \in Held(h)
      <3>1. wire[h] \in Seq(Msgs) /\ Msgs \in SUBSET Nat /\ wire[h] # <<>>
        BY <1>5, BoundFacts DEF IInv, TypeOK, PeerReads
      <3> QED  BY <3>1, ElemsTail DEF Held
    <2>2. delivered[p][i].via = h
      BY <1>3, <1>5
    <2>3. WentBy(p, h, delivered[p][i].msg)
      BY <1>0, <1>3, <2>2 DEF DInv, ReadInv
    <2> QED  BY <1>3, <1>5, <2>1, <2>3 DEF WentBy
  <1> QED  BY <1>2, <1>4, <1>5

\* The line of messages is increasing in every reachable state.
LEMMA DeliveryInvariance == Spec => [](IInv /\ DInv)
  <1>1. Init => DInv
    <2> SUFFICES ASSUME Init PROVE DInv
      OBVIOUS
    <2> USE DEF Init
    <2>1. CommandsInv
      BY DEF CommandsInv
    <2>2. \A g \in Conns : queue[g] = <<>> /\ wire[g] = <<>> /\ Held(g) = {}
      BY ElemsEmpty DEF Held
    <2>3. PipeInv /\ HeldInv /\ ApartInv
      BY <2>2, ElemsEmpty DEF PipeInv, HeldInv, ApartInv
    <2>4. ReadInv /\ InOrderPerConnection
      BY DEF ReadInv, InOrderPerConnection
    <2> QED  BY <2>1, <2>3, <2>4 DEF DInv
  <1>2. ASSUME IInv, DInv, [Next]_vars PROVE DInv'
    <2>1. PipeInv'
      <3>1. nconn \in Nat /\ nconn' \in Nat /\ nconn <= nconn'
        <4>1. nconn \in Nat
          BY <1>2, BoundFacts DEF IInv, TypeOK
        <4>2. UNCHANGED nconn \/ nconn' = nconn + 1
          BY <1>2, StepKinds, Zenon
          DEF Quiet, DialOk, WriteOk, Forget, PeerReads, Submit, TakeCommand, SendInto,
              SendFails, connVars, TaskOnly
        <4> QED  BY <4>1, <4>2
      <3>2. \A g \in Conns : g \in Int
        BY BoundFacts
      <3> QED  BY <3>1, <3>2, <1>2, PipeStep DEF PipeKept, PipeInv
    <2> QED  BY <2>1, <1>2, CommandsStep, HeldStep, ReadStep, ApartStep, InOrderStep DEF DInv
  <1> QED  BY <1>1, <1>2, Invariance, PTL DEF Spec

\* What a peer reads from one connection comes in the order of the commands.
THEOREM InOrderAlways == Spec => []InOrderPerConnection
  <1>1. DInv => InOrderPerConnection
    BY DEF DInv
  <1> QED  BY <1>1, DeliveryInvariance, PTL

-----------------------------------------------------------------------------
(* The refinement of LossyDelivery.                                        *)

\* m may still reach p: it is submitted, in hand, or held by a connection of p.
MayReach(m, p) ==
  \/ \E i \in DOMAIN cmds : cmds[i].msg = m /\ p \in cmds[i].to
  \/ sending.msg = m /\ p \in sending.to
  \/ \E g \in Conns : owner[g] = p /\ m \in Held(g)

Reachable == {x \in Msgs \X Peers : MayReach(x[1], x[2])}

MappingInv == InFlight = Reachable

\* The refinement mapping gives exactly those pairs.
LEMMA InFlightIs == IInv => MappingInv
  <1> SUFFICES ASSUME IInv PROVE InFlight = Reachable
    BY DEF MappingInv
  <1>1. /\ \A i \in DOMAIN cmds : cmds[i].msg \in Msgs /\ cmds[i].to \subseteq Peers
        /\ sending.to \subseteq Peers /\ (sending.to # {} => sending.msg \in Msgs)
    <2>1. cmds \in Seq(Commands) /\ HandInv /\ sending.to \in SUBSET Peers
      BY DEF IInv, TypeOK
    <2>2. \A i \in DOMAIN cmds : cmds[i] \in Commands
      BY <2>1, ElementOfSeq, LenProperties
    <2> QED  BY <2>1, <2>2 DEF Commands, HandInv
  <1>2. \A g \in Conns : Held(g) \subseteq Msgs
    <2>1. ASSUME NEW g \in Conns PROVE Held(g) \subseteq Msgs
      <3>1. queue[g] \in Seq(Msgs) /\ wire[g] \in Seq(Msgs)
        BY DEF IInv, TypeOK
      <3> QED  BY <3>1, ElementOfSeq, LenProperties DEF Held, Elems
    <2> QED  BY <2>1
  <1>3. ASSUME NEW x \in InFlight PROVE x \in Reachable
    <2>1. CASE \E i \in DOMAIN cmds : x \in {cmds[i].msg} \X cmds[i].to
      BY <2>1, <1>1 DEF Reachable, MayReach
    <2>2. CASE x \in {sending.msg} \X sending.to
      BY <2>2, <1>1 DEF Reachable, MayReach
    <2>3. ASSUME NEW g \in Conns, owner[g] \in Peers,
                 NEW m \in Held(g), x = <<m, owner[g]>>
          PROVE  x \in Reachable
      BY <2>3, <1>2 DEF Reachable, MayReach
    <2> QED  BY <2>1, <2>2, <2>3 DEF InFlight, Held, Elems
  <1>4. ASSUME NEW x \in Reachable PROVE x \in InFlight
    <2>1. PICK m \in Msgs, p \in Peers : x = <<m, p>> /\ MayReach(m, p)
      BY DEF Reachable
    <2>2. CASE \E i \in DOMAIN cmds : cmds[i].msg = m /\ p \in cmds[i].to
      BY <2>1, <2>2 DEF InFlight
    <2>3. CASE sending.msg = m /\ p \in sending.to
      BY <2>1, <2>3 DEF InFlight
    <2>4. ASSUME NEW g \in Conns, owner[g] = p, m \in Held(g) PROVE x \in InFlight
      BY <2>1, <2>4 DEF InFlight, Held, Elems
    <2> QED  BY <2>1, <2>2, <2>3, <2>4 DEF MayReach
  <1> QED  BY <1>3, <1>4

\* Every step but a submission and a read only ever loses messages.
LEMMA LosingStep ==
  ASSUME IInv, DInv, [Next]_vars, NEW m \in Msgs, NEW p \in Peers,
         \A to \in SUBSET Peers : ~Submit(to), MayReach(m, p)'
  PROVE  MayReach(m, p)
  <1> USE DEF connVars, cmdVars, table, loopVars, taskVars
  <1>1. CASE \E i \in DOMAIN cmds' : cmds'[i].msg = m /\ p \in cmds'[i].to
    <2>1. CASE UNCHANGED cmds
      BY <2>1, <1>1 DEF MayReach
    <2>2. CASE TakeCommand
      <3>1. cmds \in Seq(Commands) /\ cmds # <<>> /\ cmds' = Tail(cmds)
        BY <2>2 DEF IInv, TypeOK, TakeCommand
      <3>2. \A i \in DOMAIN cmds' : i + 1 \in DOMAIN cmds /\ cmds'[i] = cmds[i + 1]
        BY <3>1, HeadTailProperties, LenProperties, EmptySeq
      <3> QED  BY <3>2, <1>1 DEF MayReach
    <2> QED
      BY <2>1, <2>2, StepKinds
      DEF Quiet, DialOk, WriteOk, Forget, PeerReads, SendInto, SendFails, TaskOnly
  <1>2. CASE sending'.msg = m /\ p \in sending'.to
    <2>1. CASE UNCHANGED sending
      BY <2>1, <1>2 DEF MayReach
    <2>2. CASE TakeCommand
      <3>1. cmds \in Seq(Commands) /\ cmds # <<>>
        BY <2>2 DEF IInv, TypeOK, TakeCommand
      <3>2. 1 \in DOMAIN cmds /\ Head(cmds) = cmds[1]
        BY <3>1, HeadTailProperties, LenProperties, EmptySeq
      <3>3. sending'.msg = cmds[1].msg /\ p \in cmds[1].to
        BY <2>2, <1>2, <3>2 DEF TakeCommand, InHand
      <3> QED  BY <3>2, <3>3, <1>2 DEF MayReach
    <2>3. ASSUME NEW q \in Peers, SendInto(q) \/ SendFails(q) PROVE MayReach(m, p)
      BY <2>3, <1>2 DEF SendInto, SendFails, InHand, MayReach
    <2> QED
      BY <2>1, <2>2, <2>3, StepKinds
      DEF Quiet, DialOk, WriteOk, Forget, PeerReads, TaskOnly
  <1>3. ASSUME NEW g \in Conns, owner'[g] = p, m \in Held(g)'
        PROVE  MayReach(m, p)
    <2>1. CASE m \in Held(g)
      <3>1. owner[g] = p
        BY <2>1, <1>3, HeldFacts, BeforeStep
      <3> QED  BY <3>1, <2>1 DEF MayReach
    <2>2. ASSUME NEW q \in Peers, SendInto(q), g = tx[q], m = sending.msg
          PROVE  MayReach(m, p)
      BY <2>2, <1>3, SendFacts DEF MayReach
    <2> QED  BY <2>1, <2>2, <1>3, PipeStep DEF PipeKept, HoldsNoMore
  <1> QED  BY <1>1, <1>2, <1>3 DEF MayReach

\* A message that its peer reads is on its way to that peer no more, and nothing else is lost.
LEMMA ReadingStep ==
  ASSUME IInv, DInv, DInv', [Next]_vars, NEW g \in Conns, PeerReads(g)
  PROVE  /\ Head(wire[g]) \in Msgs /\ owner[g] \in Peers
         /\ MayReach(Head(wire[g]), owner[g])
         /\ \A m \in Msgs, p \in Peers :
              MayReach(m, p)' <=> MayReach(m, p) /\ ~(m = Head(wire[g]) /\ p = owner[g])
  <1> USE DEF connVars, cmdVars, table, loopVars, taskVars
  <1>0. /\ wire \in [Conns -> Seq(Msgs)] /\ wire[g] # <<>> /\ Msgs \in SUBSET Nat
        /\ wire' = [wire EXCEPT ![g] = Tail(@)]
        /\ UNCHANGED <<cmds, sending, owner, queue, nmsg>>
    BY BoundFacts DEF IInv, TypeOK, PeerReads
  <1>1. /\ Head(wire[g]) \in Elems(wire[g])
        /\ Elems(wire[g]) = {Head(wire[g])} \cup Elems(wire'[g])
        /\ \A n \in Elems(wire'[g]) : Head(wire[g]) < n
    BY <1>0, ElemsTail DEF DInv, PipeInv
  <1>2. /\ Head(wire[g]) \in Held(g)
        /\ Head(wire[g]) \in Msgs /\ owner[g] \in Peers /\ Before(g, Head(wire[g]))
    BY <1>1, HeldFacts DEF Held
  <1>3. /\ Held(g) = {Head(wire[g])} \cup Held(g)'
        /\ \A n \in Held(g)' : Head(wire[g]) < n
        /\ \A h \in Conns : h # g => Held(h)' = Held(h)
    <2>1. \A n \in Elems(queue[g]) : Head(wire[g]) < n
      BY <1>1 DEF DInv, PipeInv
    <2> QED  BY <2>1, <1>0, <1>1 DEF Held
  <1>4. MayReach(Head(wire[g]), owner[g])
    BY <1>2 DEF MayReach
  <1>5. ASSUME NEW m \in Msgs, NEW p \in Peers, m = Head(wire[g]), p = owner[g], MayReach(m, p)'
        PROVE  FALSE
    <2>1. Before(g, m) /\ m \in Nat
      BY <1>2, <1>5, <1>0
    <2>2. ~\E i \in DOMAIN cmds : cmds[i].msg = m
      BY <2>1 DEF Before
    <2>3. ~(sending.msg = m /\ p \in sending.to)
      BY <2>1, <1>5 DEF Before
    <2>4. m \notin Held(g)'
      BY <1>3, <1>5, <2>1
    <2>5. ASSUME NEW h \in Conns, h # g, owner[h] = p PROVE m \notin Held(h)'
      BY <2>5, <1>2, <1>3, <1>5 DEF DInv, ApartInv
    <2> QED  BY <2>2, <2>3, <2>4, <2>5, <1>0, <1>5 DEF MayReach
  <1>6. ASSUME NEW m \in Msgs, NEW p \in Peers, MayReach(m, p)' PROVE MayReach(m, p)
    <2>1. \A to \in SUBSET Peers : ~Submit(to)
      BY <1>0, BoundFacts DEF Submit, IInv, TypeOK
    <2> QED  BY <2>1, <1>6, LosingStep
  <1>7. ASSUME NEW m \in Msgs, NEW p \in Peers, MayReach(m, p),
               ~(m = Head(wire[g]) /\ p = owner[g])
        PROVE  MayReach(m, p)'
    BY <1>7, <1>0, <1>3 DEF MayReach
  <1> QED  BY <1>2, <1>4, <1>5, <1>6, <1>7

\* What a peer has read, without the connections.
LEMMA ReadByStep ==
  ASSUME IInv, [Next]_vars, NEW g \in Conns, PeerReads(g)
  PROVE  ReadBy' = [ReadBy EXCEPT ![owner[g]] = Append(@, Head(wire[g]))]
  <1> DEFINE R == [via : Conns, msg : Msgs]
             m == Head(wire[g])
             p == owner[g]
             r == [via |-> g, msg |-> m]
             Of(s) == [i \in DOMAIN s |-> s[i].msg]
  <1>1. /\ delivered \in [Peers -> Seq(R)] /\ wire[g] \in Seq(Msgs) /\ wire[g] # <<>>
        /\ delivered' = [delivered EXCEPT ![p] = Append(@, r)]
    BY DEF IInv, TypeOK, PeerReads
  <1>2. m \in Msgs /\ p \in Peers
    <2>1. g <= nconn
      BY <1>1 DEF IInv, ConnInv
    <2> QED  BY <2>1, <1>1, HeadTail DEF IInv, ConnInv
  <1>3. r \in R /\ r.msg = m
    BY <1>2
  <1>4. delivered[p] \in Seq(R) /\ delivered'[p] = Append(delivered[p], r)
    BY <1>1, <1>2
  <1>5. \A q \in Peers : q # p => delivered'[q] = delivered[q]
    BY <1>1
  <1>6. ASSUME NEW s \in Seq(R), NEW x \in R
        PROVE  Of(Append(s, x)) = Append(Of(s), x.msg)
    <2>1. /\ Len(s) \in Nat /\ DOMAIN s = 1 .. Len(s) /\ Append(s, x) \in Seq(R)
          /\ Len(Append(s, x)) = Len(s) + 1 /\ DOMAIN Append(s, x) = 1 .. (Len(s) + 1)
          /\ Append(s, x)[Len(s) + 1] = x
          /\ \A i \in 1 .. Len(s) : Append(s, x)[i] = s[i]
      BY AppendProperties, LenProperties
    <2>2. /\ \A i \in 1 .. Len(s) : s[i].msg \in Msgs
          /\ x.msg \in Msgs
      <3>1. \A i \in 1 .. Len(s) : s[i] \in R
        BY ElementOfSeq
      <3> QED  BY <3>1
    <2>3. Of(s) \in Seq(Msgs) /\ Len(Of(s)) = Len(s)
      BY <2>1, <2>2
    <2>4. /\ Append(Of(s), x.msg) \in Seq(Msgs)
          /\ Len(Append(Of(s), x.msg)) = Len(s) + 1
          /\ Append(Of(s), x.msg)[Len(s) + 1] = x.msg
          /\ \A i \in 1 .. Len(s) : Append(Of(s), x.msg)[i] = s[i].msg
      BY <2>1, <2>2, <2>3, AppendProperties
    <2>5. Of(Append(s, x)) \in Seq(Msgs) /\ Len(Of(Append(s, x))) = Len(s) + 1
      BY <2>1, <2>2
    <2>6. \A i \in 1 .. (Len(s) + 1) : Of(Append(s, x))[i] = Append(Of(s), x.msg)[i]
      BY <2>1, <2>4
    <2> QED  BY <2>4, <2>5, <2>6, SeqEqual
  <1>7. ReadBy = [q \in Peers |-> Of(delivered[q])] /\ ReadBy' = [q \in Peers |-> Of(delivered'[q])]
    BY DEF ReadBy
  <1> HIDE DEF R, r, Of, m, p
  <1>8. Of(delivered'[p]) = Append(Of(delivered[p]), m)
    BY <1>3, <1>4, <1>6
  <1>9. ReadBy' = [ReadBy EXCEPT ![p] = Append(@, m)]
    BY <1>2, <1>5, <1>7, <1>8
  <1> QED  BY <1>9 DEF p, m

\* Every step of the detailed system is one of LossyDelivery, or leaves it as it is.
LEMMA RefinementStep ==
  ASSUME IInv, DInv, IInv', DInv', [Next]_vars,
         MappingInv, MappingInv'
  PROVE  [Lossy!Next]_<<1 .. nmsg, InFlight, ReadBy>>
  <1> USE DEF connVars, cmdVars, table, loopVars, taskVars, MappingInv
  <1>1. ASSUME NEW g \in Conns, PeerReads(g) PROVE Lossy!Next
    <2>1. \A x : x \in Reachable' <=> x \in Reachable /\ x # <<Head(wire[g]), owner[g]>>
      <3>1. \A x \in Msgs \X Peers :
               MayReach(x[1], x[2])'
                 <=> MayReach(x[1], x[2]) /\ ~(x[1] = Head(wire[g]) /\ x[2] = owner[g])
        BY <1>1, ReadingStep
      <3> QED  BY <3>1 DEF Reachable
    <2>2. /\ Head(wire[g]) \in Msgs /\ owner[g] \in Peers
          /\ <<Head(wire[g]), owner[g]>> \in Reachable
      BY <1>1, ReadingStep DEF Reachable
    <2>3. InFlight' = InFlight \ {<<Head(wire[g]), owner[g]>>}
      BY <2>1
    <2>4. UNCHANGED nmsg
      BY <1>1 DEF PeerReads
    <2>5. Lossy!Arrive(Head(wire[g]), owner[g])
      BY <2>2, <2>3, <2>4, <1>1, ReadByStep DEF Lossy!Arrive
    <2> QED  BY <2>2, <2>5 DEF Lossy!Next
  <1>2. ASSUME NEW to \in SUBSET Peers, Submit(to) PROVE Lossy!Next
    <2>1. /\ nmsg' = nmsg + 1 /\ nmsg' \in Msgs /\ nmsg \in Nat
          /\ cmds' = Append(cmds, [msg |-> nmsg', to |-> to])
          /\ UNCHANGED <<sending, owner, queue, wire, delivered>>
      BY <1>2, BoundFacts DEF Submit, IInv, TypeOK
    <2>2. \A m, p : MayReach(m, p)' <=> MayReach(m, p) \/ (m = nmsg' /\ p \in to)
      <3> DEFINE c == [msg |-> nmsg', to |-> to]
      <3>1. c \in Commands /\ cmds \in Seq(Commands) /\ c.msg = nmsg' /\ c.to = to
        BY <2>1 DEF Commands, IInv, TypeOK
      <3> HIDE DEF c
      <3>2. /\ DOMAIN cmds' = 1 .. (Len(cmds) + 1) /\ cmds'[Len(cmds) + 1] = c
            /\ \A i \in 1 .. Len(cmds) : cmds'[i] = cmds[i]
            /\ DOMAIN cmds = 1 .. Len(cmds) /\ Len(cmds) \in Nat
        BY <2>1, <3>1, AppendProperties, LenProperties DEF c
      <3>3. \A m, p : (\E i \in DOMAIN cmds' : cmds'[i].msg = m /\ p \in cmds'[i].to)
                     <=> \/ \E i \in DOMAIN cmds : cmds[i].msg = m /\ p \in cmds[i].to
                         \/ m = nmsg' /\ p \in to
        BY <3>1, <3>2
      <3> QED  BY <3>3, <2>1 DEF MayReach, Held
    <2>3. InFlight' = InFlight \cup ({nmsg'} \X to)
      BY <2>1, <2>2 DEF Reachable
    <2>4. /\ nmsg' \notin 1 .. nmsg /\ 1 .. nmsg' = (1 .. nmsg) \cup {nmsg'}
          /\ UNCHANGED ReadBy
      BY <2>1 DEF ReadBy
    <2>5. Lossy!Offer(nmsg', to)
      BY <2>3, <2>4 DEF Lossy!Offer
    <2> QED  BY <2>1, <2>5 DEF Lossy!Next
  <1>3. ASSUME \A g \in Conns : ~PeerReads(g), \A to \in SUBSET Peers : ~Submit(to)
        PROVE  Lossy!Next
    <2>1. UNCHANGED <<nmsg, delivered>>
      BY <1>3, StepKinds
      DEF Quiet, DialOk, WriteOk, Forget, TakeCommand, SendInto, SendFails, TaskOnly
    <2>2. \A m \in Msgs, p \in Peers : MayReach(m, p)' => MayReach(m, p)
      BY <1>3, LosingStep
    <2>3. InFlight' \subseteq InFlight
      BY <2>2 DEF Reachable
    <2>4. UNCHANGED <<1 .. nmsg, ReadBy>>
      BY <2>1 DEF ReadBy
    <2> QED  BY <2>3, <2>4 DEF Lossy!Next, Lossy!Lose
  <1> QED  BY <1>1, <1>2, <1>3

\* The network implements LossyDelivery: whatever the interleaving of the tasks, a command
\* reaches each of its addressees at most once, and nobody else.
THEOREM DeliveryImplemented == Spec => DeliveryRefined
  <1>1. Init => Lossy!Init
    <2> SUFFICES ASSUME Init PROVE Lossy!Init
      OBVIOUS
    <2>1. InFlight = {}
      BY BoundFacts DEF Init, InFlight
    <2>2. ReadBy = [p \in Peers |-> <<>>]
      BY DEF Init, ReadBy
    <2>3. 1 .. nmsg = {}
      BY DEF Init
    <2> QED  BY <2>1, <2>2, <2>3 DEF Lossy!Init
  <1>2. ASSUME IInv, DInv, IInv', DInv', [Next]_vars,
               MappingInv, MappingInv'
        PROVE  [Lossy!Next]_<<1 .. nmsg, InFlight, ReadBy>>
    BY <1>2, RefinementStep
  <1> QED
    BY <1>1, <1>2, InFlightIs, DeliveryInvariance, PTL DEF Spec, DeliveryRefined, Lossy!Spec
=============================================================================
