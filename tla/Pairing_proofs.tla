--------------------------- MODULE Pairing_proofs ---------------------------
(***************************************************************************)
(* Proofs about Pairing for any listeners, connectors and sessions.  That  *)
(* both sides agree rests on what the channels of a connection may hold:   *)
(* requests carry the code of their connector, an acknowledgement is there *)
(* only when the pairing was returned, and nothing else follows the first  *)
(* message to a connector.                                                 *)
(***************************************************************************)
EXTENDS Pairing, SequenceTheorems, TLAPS

Sent(s)  == {s[i] : i \in DOMAIN s}
Later(s) == {s[i] : i \in 2 .. Len(s)}

UpMessages   == [type : {"request"}, token : Codes, version : BOOLEAN]
                  \cup [type : {"handshake"}]
DownMessages == [type : {"accepted"}, ip : Listeners \cup {NoAddress}]
                  \cup [type : {"rejected", "ack"}]

\* The types that TypeOK leaves open.
LinkTypes ==
  /\ address \in [Listeners -> Listeners \cup {NoAddress}]
  /\ up \in [Connectors -> Seq(UpMessages)]
  /\ down \in [Connectors -> Seq(DownMessages)]

\* A connector has a target once it has begun, and a listener serves
\* connectors that dialed it.
LinkInv ==
  /\ \A c \in Connectors :
       /\ cpc[c] # "new" => target[c] \in Listeners
       /\ cpc[c] = "new" => target[c] = NoNode /\ down[c] = <<>> /\ ~lopen[c]
  /\ \A l \in Listeners : lpc[l] \notin {"off", "accept"} => target[serving[l]] = l

\* Requests carry the code of their connector; behind the check of the token
\* the connector's code is the one of this session.
TokenInv ==
  /\ \A c \in Connectors : \A m \in Sent(up[c]) :
       m.type = "request" => m.token = code[c]
  /\ \A l \in Listeners : lpc[l] \in {"address", "handshake", "save"} =>
       code[serving[l]] = [listener |-> l, session |-> session[l]]

\* A pairing of the present session ends the session.
RecordInv ==
  /\ \A p \in pairedL :
       /\ cpc[p.connector] # "new"
       /\ p.session <= session[p.listener]
       /\ p.session = session[p.listener] => lpc[p.listener] \in {"save", "off"}
  /\ CodeWasGiven /\ CodePairsOnce

RecordOf(c) == [listener |-> target[c], session |-> code[c].session, connector |-> c]

\* Until the response is sent nothing is under way to the connector, which
\* cannot be waiting for the acknowledgement then.
StageInv ==
  /\ \A l \in Listeners : lpc[l] \in {"request", "address"} =>
       down[serving[l]] = <<>> /\ cpc[serving[l]] # "ack"
  /\ \A c \in Connectors : lopen[c] /\ serving[target[c]] # c =>
       down[c] = <<>> /\ cpc[c] # "ack"

AckInv ==
  \A c \in Connectors :
    /\ \A m \in Sent(down[c]) : m.type = "ack" => RecordOf(c) \in pairedL
    /\ \A m \in Later(down[c]) : m.type = "ack"
    /\ cpc[c] = "ack" => \A m \in Sent(down[c]) : m.type = "ack"

IInv == /\ TypeOK /\ LinkTypes /\ LinkInv /\ TokenInv /\ RecordInv
        /\ StageInv /\ AckInv /\ BothSidesPaired

-----------------------------------------------------------------------------
(* Sequences and functions.                                                *)

LEMMA HeadOf ==
  ASSUME NEW S, NEW s \in Seq(S), s # <<>>
  PROVE  /\ Head(s) \in S /\ Head(s) \in Sent(s) /\ Tail(s) \in Seq(S)
         /\ Sent(Tail(s)) \subseteq Later(s) /\ Later(s) \subseteq Sent(s)
         /\ Later(Tail(s)) \subseteq Later(s)
  <1>1. /\ Len(s) \in Nat /\ Len(s) >= 1 /\ DOMAIN s = 1 .. Len(s)
        /\ Head(s) = s[1] /\ Head(s) \in S
        /\ Tail(s) \in Seq(S) /\ Len(Tail(s)) = Len(s) - 1
        /\ \A i \in 1 .. Len(s) - 1 : Tail(s)[i] = s[i + 1]
    BY HeadTailProperties, LenProperties, EmptySeq
  <1> DEFINE t == Tail(s)
  <1>2. DOMAIN t = 1 .. Len(s) - 1
    BY <1>1, LenProperties
  <1>3. \A i \in 1 .. Len(s) - 1 : t[i] = s[i + 1] /\ i + 1 \in 2 .. Len(s)
    BY <1>1
  <1>4. Len(t) = Len(s) - 1
    BY <1>1
  <1> HIDE DEF t
  <1>5. Sent(t) \subseteq Later(s)
    BY <1>2, <1>3, <1>1 DEF Sent, Later
  <1>6. Later(t) \subseteq Later(s)
    BY <1>4, <1>3, <1>1 DEF Later
  <1>7. Later(s) \subseteq Sent(s) /\ Head(s) \in Sent(s)
    BY <1>1 DEF Later, Sent
  <1> QED  BY <1>1, <1>5, <1>6, <1>7 DEF t

LEMMA AppendOf ==
  ASSUME NEW S, NEW s \in Seq(S), NEW e \in S
  PROVE  /\ Append(s, e) \in Seq(S)
         /\ Sent(Append(s, e)) \subseteq Sent(s) \cup {e}
         /\ Later(Append(s, e)) \subseteq Later(s) \cup {e}
         /\ s = <<>> => Later(Append(s, e)) = {}
         /\ Append(s, e) # <<>>
  <1> DEFINE t == Append(s, e)
  <1>1. /\ Len(s) \in Nat /\ DOMAIN s = 1 .. Len(s)
        /\ t \in Seq(S) /\ Len(t) = Len(s) + 1 /\ t # <<>>
        /\ \A i \in 1 .. Len(s) : t[i] = s[i]
        /\ t[Len(s) + 1] = e
    BY AppendProperties, LenProperties
  <1>2. DOMAIN t = 1 .. Len(s) + 1
    BY <1>1, LenProperties
  <1>3. s = <<>> => Len(s) = 0
    BY EmptySeq
  <1> HIDE DEF t
  <1>4. Sent(t) \subseteq Sent(s) \cup {e}
    <2> SUFFICES ASSUME NEW i \in 1 .. Len(s) + 1 PROVE t[i] \in Sent(s) \cup {e}
      BY <1>2 DEF Sent
    <2>1. i \in 1 .. Len(s) \/ i = Len(s) + 1
      BY <1>1
    <2> QED  BY <1>1, <2>1 DEF Sent
  <1>5. Later(t) \subseteq Later(s) \cup {e}
    <2> SUFFICES ASSUME NEW i \in 2 .. Len(s) + 1 PROVE t[i] \in Later(s) \cup {e}
      BY <1>1 DEF Later
    <2>1. (i \in 2 .. Len(s) /\ i \in 1 .. Len(s)) \/ i = Len(s) + 1
      BY <1>1
    <2> QED  BY <1>1, <2>1 DEF Later
  <1>6. s = <<>> => Later(t) = {}
    BY <1>1, <1>3 DEF Later
  <1> QED  BY <1>1, <1>4, <1>5, <1>6 DEF t

LEMMA NothingSent == Sent(<<>>) = {} /\ Later(<<>>) = {}
  BY EmptySeq DEF Sent, Later

LEMMA FirstMessage ==
  ASSUME NEW S, NEW s \in Seq(S), s = <<>>, NEW e \in S
  PROVE  Sent(Append(s, e)) \subseteq {e} /\ Later(Append(s, e)) = {}
  <1>1. Sent(s) = {}
    BY NothingSent
  <1>2. Sent(Append(s, e)) \subseteq Sent(s) \cup {e} /\ Later(Append(s, e)) = {}
    BY AppendOf
  <1> QED  BY <1>1, <1>2

-----------------------------------------------------------------------------
LEMMA InitIInv == Init => IInv
  <1> SUFFICES ASSUME Init PROVE IInv
    OBVIOUS
  <1> USE DEF Init
  <1>1. TypeOK
    BY NodesAssumption, BoundsAssumption DEF TypeOK, Codes, NoCode, Pairings, Peers
  <1>2. LinkTypes
    BY DEF LinkTypes
  <1>3. LinkInv /\ RecordInv /\ BothSidesPaired
    BY DEF LinkInv, RecordInv, CodeWasGiven, CodePairsOnce, BothSidesPaired
  <1>4. TokenInv /\ StageInv /\ AckInv
    BY NothingSent DEF TokenInv, StageInv, AckInv
  <1> QED  BY <1>1, <1>2, <1>3, <1>4 DEF IInv

\* What the type invariant says of the listener an action is about.
LEMMA ServingFacts ==
  ASSUME TypeOK, NEW l \in Listeners, lpc[l] \notin {"off", "accept"}
  PROVE  serving[l] \in Connectors
  BY DEF TypeOK

\* The pairing a listener is about to return.
LEMMA PairingTyped ==
  ASSUME IInv, NEW l \in Listeners, lpc[l] = "handshake"
  PROVE  /\ Pairing(l) \in Pairings /\ serving[l] \in Connectors
         /\ Pairing(l) = RecordOf(serving[l])
         /\ code[serving[l]] = [listener |-> l, session |-> session[l]]
  <1>1. serving[l] \in Connectors
    BY ServingFacts DEF IInv
  <1>2. target[serving[l]] = l /\ code[serving[l]] = [listener |-> l, session |-> session[l]]
    BY DEF IInv, LinkInv, TokenInv
  <1>3. code[serving[l]] \in Codes
    <2>1. code[serving[l]] # NoCode
      BY <1>2, NodesAssumption DEF NoCode
    <2> QED  BY <1>1, <2>1 DEF IInv, TypeOK
  <1> QED  BY <1>1, <1>2, <1>3 DEF Pairing, Pairings, Codes, RecordOf

-----------------------------------------------------------------------------
(* Types.                                                                  *)

LEMMA DropType ==
  ASSUME TypeOK, NEW l \in Listeners, lpc[l] \notin {"off", "accept"}, Drop(l)
  PROVE  /\ lpc' \in [Listeners -> {"off", "accept", "request", "address", "handshake", "save"}]
         /\ serving' \in [Listeners -> Connectors \cup {NoNode}]
         /\ \A k \in Listeners : serving'[k] = NoNode <=> lpc'[k] \in {"off", "accept"}
         /\ lopen' \in [Connectors -> BOOLEAN]
  <1>1. serving[l] \in Connectors
    BY ServingFacts
  <1>2. lopen' \in [Connectors -> BOOLEAN]
    BY <1>1 DEF TypeOK, Drop
  <1> QED  BY <1>2 DEF TypeOK, Drop

LEMMA StopType ==
  ASSUME TypeOK, LinkTypes, NEW l \in Listeners, StopListening(l)
  PROVE  /\ lpc' \in [Listeners -> {"off", "accept", "request", "address", "handshake", "save"}]
         /\ serving' \in [Listeners -> Connectors \cup {NoNode}]
         /\ \A k \in Listeners : serving'[k] = NoNode <=> lpc'[k] \in {"off", "accept"}
         /\ \A k \in Listeners : address'[k] \in {k, NoAddress}
         /\ address' \in [Listeners -> Listeners \cup {NoAddress}]
         /\ lopen' \in [Connectors -> BOOLEAN]
  <1>1. lopen' \in [Connectors -> BOOLEAN]
    <2>1. \A c \in Connectors : (lopen[c] /\ target[c] # l) \in BOOLEAN
      BY Zenon
    <2> QED  BY <2>1, Zenon DEF StopListening
  <1> QED  BY <1>1 DEF TypeOK, LinkTypes, StopListening

LEMMA ListenerTypeStep ==
  ASSUME IInv, NEW l \in Listeners, StartConnect(l) \/ ListenerStep(l) \/ TimeOut(l)
  PROVE  TypeOK' /\ LinkTypes'
  <1> USE NodesAssumption
  <1> USE DEF IInv
  <1>1. CASE StartConnect(l)
    <2>1. session[l] \in 0 .. MaxSessions /\ session[l] + 1 \in 0 .. MaxSessions
      BY <1>1, BoundsAssumption DEF TypeOK, StartConnect
    <2> QED  BY <1>1, <2>1 DEF TypeOK, LinkTypes, StartConnect, cvars, link
  <1>2. ASSUME NEW c \in Connectors, Accept(l, c) PROVE TypeOK' /\ LinkTypes'
    BY <1>2 DEF TypeOK, LinkTypes, Accept, cvars, link
  <1>3. CASE AcceptRequest(l)
    <2>1. serving[l] \in Connectors
      BY <1>3, ServingFacts DEF AcceptRequest
    <2>2. Tail(up[serving[l]]) \in Seq(UpMessages)
      BY <1>3, <2>1, HeadOf DEF AcceptRequest, LinkTypes
    <2>3. up' \in [Connectors -> Seq(UpMessages)]
      BY <1>3, <2>1, <2>2 DEF AcceptRequest, LinkTypes
    <2> QED  BY <1>3, <2>3 DEF TypeOK, LinkTypes, AcceptRequest, cvars
  <1>4. CASE RejectRequest(l)
    <2>1. serving[l] \in Connectors
      BY <1>4, ServingFacts DEF RejectRequest
    <2>2. up' \in [Connectors -> Seq(UpMessages)]
      <3>1. Tail(up[serving[l]]) \in Seq(UpMessages)
        BY <1>4, <2>1, HeadOf DEF RejectRequest, LinkTypes
      <3> QED  BY <1>4, <2>1, <3>1 DEF RejectRequest, LinkTypes
    <2>3. down' \in [Connectors -> Seq(DownMessages)]
      <3>1. Append(down[serving[l]], [type |-> "rejected"]) \in Seq(DownMessages)
        BY <2>1, AppendOf DEF LinkTypes, DownMessages
      <3> QED  BY <1>4, <2>1, <3>1 DEF RejectRequest, LinkTypes
    <2>4. Drop(l) /\ lpc[l] \notin {"off", "accept"}
      BY <1>4 DEF RejectRequest
    <2> QED  BY <1>4, <2>2, <2>3, <2>4, DropType DEF TypeOK, LinkTypes, RejectRequest, cvars
  <1>5. CASE ConnectionFails(l)
    <2>1. Drop(l) /\ lpc[l] \notin {"off", "accept"}
      BY <1>5 DEF ConnectionFails
    <2> QED  BY <1>5, <2>1, DropType DEF TypeOK, LinkTypes, ConnectionFails, cvars
  <1>6. ASSUME NEW ip \in {l, NoAddress}, Respond(l, ip) PROVE TypeOK' /\ LinkTypes'
    <2>1. serving[l] \in Connectors
      BY <1>6, ServingFacts DEF Respond
    <2>2. Append(down[serving[l]], [type |-> "accepted", ip |-> ip]) \in Seq(DownMessages)
      BY <2>1, AppendOf DEF LinkTypes, DownMessages
    <2>3. down' \in [Connectors -> Seq(DownMessages)]
      BY <1>6, <2>1, <2>2 DEF Respond, LinkTypes
    <2> QED  BY <1>6, <2>3 DEF TypeOK, LinkTypes, Respond, cvars
  <1>7. CASE FinishHandshake(l)
    <2>1. serving[l] \in Connectors
      BY <1>7, ServingFacts DEF FinishHandshake
    <2>2. up' \in [Connectors -> Seq(UpMessages)]
      <3>1. Tail(up[serving[l]]) \in Seq(UpMessages)
        BY <1>7, <2>1, HeadOf DEF FinishHandshake, LinkTypes
      <3> QED  BY <1>7, <2>1, <3>1 DEF FinishHandshake, LinkTypes
    <2>3. down' \in [Connectors -> Seq(DownMessages)]
      <3>1. Append(down[serving[l]], [type |-> "ack"]) \in Seq(DownMessages)
        BY <2>1, AppendOf DEF LinkTypes, DownMessages
      <3> QED  BY <1>7, <2>1, <3>1 DEF FinishHandshake, LinkTypes
    <2>4. Pairing(l) \in Pairings
      BY <1>7, <2>1, PairingTyped DEF FinishHandshake
    <2> QED  BY <1>7, <2>2, <2>3, <2>4 DEF TypeOK, LinkTypes, FinishHandshake, cvars
  <1>8. CASE AckFails(l)
    <2>1. serving[l] \in Connectors
      BY <1>8, ServingFacts DEF AckFails
    <2>2. up' \in [Connectors -> Seq(UpMessages)]
      <3>1. Tail(up[serving[l]]) \in Seq(UpMessages)
        BY <1>8, <2>1, HeadOf DEF AckFails, LinkTypes
      <3> QED  BY <1>8, <2>1, <3>1 DEF AckFails, LinkTypes
    <2>3. Drop(l) /\ lpc[l] \notin {"off", "accept"}
      BY <1>8 DEF AckFails
    <2> QED  BY <1>8, <2>2, <2>3, DropType DEF TypeOK, LinkTypes, AckFails, cvars
  <1>9. CASE ReturnWithoutHandshake(l)
    <2>1. Pairing(l) \in Pairings
      BY <1>9, PairingTyped DEF ReturnWithoutHandshake
    <2> QED  BY <1>9, <2>1 DEF TypeOK, LinkTypes, ReturnWithoutHandshake, cvars, link
  <1>10. CASE Save(l)
    <2>1. StopListening(l) /\ serving[l] \in Connectors
      BY <1>10, ServingFacts DEF Save
    <2>2. [peer |-> MachineOf[serving[l]], address |-> address[l]] \in Peers
      BY <2>1 DEF LinkTypes, Peers
    <2>3. book' \in [Listeners \cup Machines -> SUBSET Peers]
      BY <1>10, <2>2 DEF TypeOK, Save
    <2> QED  BY <1>10, <2>1, <2>3, StopType DEF TypeOK, LinkTypes, Save, cvars
  <1>11. CASE TimeOut(l)
    <2>1. StopListening(l)
      BY <1>11 DEF TimeOut
    <2> QED  BY <1>11, <2>1, StopType DEF TypeOK, LinkTypes, TimeOut, cvars
  <1> QED  BY <1>1, <1>2, <1>3, <1>4, <1>5, <1>6, <1>7, <1>8, <1>9, <1>10, <1>11
           DEF ListenerStep

\* What connect and the dial of a serve have in common: one message, which carries
\* the code of the connector if it is a request.
Dials(c, k, l, r) ==
  /\ cpc[c] = "new" /\ cpc' = [cpc EXCEPT ![c] = "response"]
  /\ code' = [code EXCEPT ![c] = k] /\ target' = [target EXCEPT ![c] = l]
  /\ up' = [up EXCEPT ![c] = <<r>>] /\ (r.type = "request" => r.token = k)
  /\ lopen' = [lopen EXCEPT ![c] = TRUE] /\ copen' = [copen EXCEPT ![c] = TRUE]
  /\ UNCHANGED <<lvars, heard, down, book, pairedL, pairedC>>

LEMMA ConnectDials ==
  ASSUME NEW c \in Connectors, NEW k \in Codes, NEW l \in Listeners, NEW v \in BOOLEAN,
         Connect(c, k, l, v)
  PROVE  \E r \in UpMessages : Dials(c, k, l, r)
  <1> DEFINE r == [type |-> "request", token |-> k, version |-> v]
  <1>1. r \in UpMessages /\ r.token = k
    BY DEF UpMessages
  <1>2. up' = [up EXCEPT ![c] = <<r>>]
    BY DEF Connect
  <1> HIDE DEF r
  <1> QED  BY <1>1, <1>2 DEF Connect, Dials

LEMMA PeerDialsDials ==
  ASSUME TypeOK, NEW c \in Connectors, NEW l \in Listeners, PeerDials(c, l)
  PROVE  \E k \in Codes \cup {NoCode}, r \in UpMessages : Dials(c, k, l, r)
  <1> DEFINE r == [type |-> "handshake"]
  <1>1. r \in UpMessages /\ r.type # "request"
    BY DEF UpMessages
  <1>2. code' = [code EXCEPT ![c] = code[c]] /\ code[c] \in Codes \cup {NoCode}
    BY DEF PeerDials, TypeOK
  <1>3. up' = [up EXCEPT ![c] = <<r>>]
    BY DEF PeerDials
  <1> HIDE DEF r
  <1>4. Dials(c, code[c], l, r)
    BY <1>1, <1>2, <1>3 DEF PeerDials, Dials
  <1> QED  BY <1>1, <1>2, <1>4

LEMMA ConnectorTypeStep ==
  ASSUME IInv, NEW c \in Connectors, ConnectorStep(c)
  PROVE  TypeOK' /\ LinkTypes'
  <1> USE NodesAssumption
  <1> USE DEF IInv
  <1>1. ASSUME NEW k \in Codes \cup {NoCode}, NEW l \in Listeners, NEW r \in UpMessages,
               Dials(c, k, l, r)
        PROVE  TypeOK' /\ LinkTypes'
    <2>1. up' \in [Connectors -> Seq(UpMessages)]
      BY <1>1 DEF Dials, LinkTypes
    <2>2. lopen' \in [Connectors -> BOOLEAN] /\ copen' \in [Connectors -> BOOLEAN]
      BY <1>1 DEF Dials, TypeOK
    <2> QED  BY <1>1, <2>1, <2>2 DEF TypeOK, LinkTypes, Dials, lvars
  <1>2. CASE ReadAccepted(c)
    <2>1. /\ Head(down[c]) \in DownMessages /\ Head(down[c]).type = "accepted"
          /\ Tail(down[c]) \in Seq(DownMessages)
      BY <1>2, HeadOf DEF ReadAccepted, LinkTypes
    <2>2. Head(down[c]).ip \in Listeners \cup {NoAddress}
      BY <2>1 DEF DownMessages
    <2>3. Append(up[c], [type |-> "handshake"]) \in Seq(UpMessages)
      BY AppendOf DEF LinkTypes, UpMessages
    <2> QED  BY <1>2, <2>1, <2>2, <2>3 DEF TypeOK, LinkTypes, ReadAccepted, lvars
  <1>3. ASSUME Leave(c) PROVE TypeOK' /\ LinkTypes'
    <2>1. copen' \in [Connectors -> BOOLEAN]
      BY <1>3 DEF Leave, TypeOK
    <2> QED  BY <1>3, <2>1 DEF TypeOK, LinkTypes, Leave, lvars
  <1>4. CASE ReadAck(c)
    <2>1. Tail(down[c]) \in Seq(DownMessages)
      BY <1>4, HeadOf DEF ReadAck, LinkTypes
    <2>2. copen' \in [Connectors -> BOOLEAN]
      BY <1>4 DEF ReadAck, TypeOK
    <2>3. RecordOf(c) \in Pairings
      <3>1. Head(down[c]) \in Sent(down[c]) /\ cpc[c] = "ack"
        BY <1>4, HeadOf DEF ReadAck, LinkTypes
      <3>2. RecordOf(c) \in pairedL
        BY <3>1 DEF AckInv
      <3> QED  BY <3>2 DEF TypeOK
    <2> QED  BY <1>4, <2>1, <2>2, <2>3 DEF TypeOK, LinkTypes, ReadAck, lvars, RecordOf
  <1>5. CASE SavePeer(c)
    <2>1. [peer |-> target[c], address |-> heard[c]] \in Peers
      BY <1>5 DEF SavePeer, LinkInv, TypeOK, Peers
    <2>2. book' \in [Listeners \cup Machines -> SUBSET Peers]
      BY <1>5, <2>1 DEF TypeOK, SavePeer
    <2> QED  BY <1>5, <2>2 DEF TypeOK, LinkTypes, SavePeer, lvars, link
  <1> QED  BY <1>1, <1>2, <1>3, <1>4, <1>5, ConnectDials, PeerDialsDials
           DEF ConnectorStep, ReadRejected, Broken, Abandon

-----------------------------------------------------------------------------
(* Connections, tokens and records.                                        *)

\* The states of the listener an action leaves behind when its connection ends.
LEMMA DropFacts ==
  ASSUME TypeOK, NEW l \in Listeners, lpc[l] \notin {"off", "accept"}, Drop(l)
  PROVE  /\ serving[l] \in Connectors
         /\ lpc'[l] = "accept" /\ serving'[l] = NoNode
         /\ \A k \in Listeners \ {l} : lpc'[k] = lpc[k] /\ serving'[k] = serving[k]
         /\ ~lopen'[serving[l]]
         /\ \A c \in Connectors \ {serving[l]} : lopen'[c] = lopen[c]
  BY ServingFacts DEF TypeOK, Drop

LEMMA StopFacts ==
  ASSUME TypeOK, NEW l \in Listeners, StopListening(l)
  PROVE  /\ lpc'[l] = "off" /\ serving'[l] = NoNode
         /\ \A k \in Listeners \ {l} : lpc'[k] = lpc[k] /\ serving'[k] = serving[k]
         /\ \A c \in Connectors : lopen'[c] <=> lopen[c] /\ target[c] # l
  BY DEF TypeOK, StopListening

LEMMA ListenerLinkStep ==
  ASSUME IInv, NEW l \in Listeners, StartConnect(l) \/ ListenerStep(l) \/ TimeOut(l)
  PROVE  LinkInv' /\ TokenInv' /\ RecordInv'
  <1> USE NodesAssumption
  <1> USE DEF IInv
  <1>0. \A k \in Listeners : session[k] \in Nat
    BY BoundsAssumption DEF TypeOK
  <1>1. CASE StartConnect(l)
    <2>1. /\ session' = [session EXCEPT ![l] = session[l] + 1]
          /\ lpc' = [lpc EXCEPT ![l] = "accept"]
          /\ UNCHANGED <<serving, code, target, cpc, up, down, lopen, pairedL>>
      BY <1>1 DEF StartConnect, cvars, link
    <2>2. LinkInv' /\ TokenInv'
      BY <2>1 DEF TypeOK, LinkInv, TokenInv
    <2>3. CodeWasGiven' /\ CodePairsOnce'
      BY <2>1 DEF RecordInv, CodeWasGiven, CodePairsOnce
    <2>4. ASSUME NEW p \in pairedL
          PROVE  /\ p.session <= session'[p.listener]
                 /\ p.session # session'[p.listener] \/ lpc'[p.listener] \in {"save", "off"}
      <3>1. p.listener \in Listeners /\ p.session \in Nat /\ p.session <= session[p.listener]
        BY <2>4 DEF TypeOK, Pairings, RecordInv
      <3>2. CASE p.listener = l
        BY <1>0, <2>1, <3>1, <3>2 DEF TypeOK
      <3>3. CASE p.listener # l
        BY <2>1, <2>4, <3>1, <3>3 DEF TypeOK, RecordInv
      <3> QED  BY <3>2, <3>3
    <2> QED  BY <2>1, <2>2, <2>3, <2>4 DEF RecordInv
  <1>2. ASSUME NEW c \in Connectors, Accept(l, c)
        PROVE  LinkInv' /\ TokenInv' /\ RecordInv'
    <2>1. /\ lpc' = [lpc EXCEPT ![l] = "request"] /\ lpc[l] = "accept" /\ target[c] = l
          /\ serving' = [serving EXCEPT ![l] = c]
          /\ UNCHANGED <<session, code, target, cpc, up, down, lopen, pairedL>>
      BY <1>2 DEF Accept, cvars, link
    <2>2. LinkInv' /\ TokenInv'
      BY <2>1 DEF TypeOK, LinkInv, TokenInv
    <2>3. RecordInv'
      BY <2>1 DEF TypeOK, RecordInv, CodeWasGiven, CodePairsOnce
    <2> QED  BY <2>2, <2>3
  <1>3. CASE AcceptRequest(l)
    <2> DEFINE c == serving[l]
    <2>1. /\ lpc' = [lpc EXCEPT ![l] = "address"] /\ lpc[l] = "request"
          /\ up[c] # <<>> /\ up' = [up EXCEPT ![c] = Tail(up[c])]
          /\ GoodRequest(l, Head(up[c]))
          /\ UNCHANGED <<session, serving, code, target, cpc, down, lopen, pairedL>>
      BY <1>3 DEF AcceptRequest, cvars
    <2>2. c \in Connectors
      BY <2>1, ServingFacts
    <2>3. Head(up[c]) \in Sent(up[c]) /\ Sent(Tail(up[c])) \subseteq Sent(up[c])
      BY <2>1, <2>2, HeadOf DEF LinkTypes
    <2>4. code[c] = [listener |-> l, session |-> session[l]]
      BY <2>1, <2>2, <2>3 DEF TokenInv, GoodRequest
    <2>5. \A d \in Connectors : Sent(up'[d]) \subseteq Sent(up[d])
      BY <2>1, <2>2, <2>3 DEF LinkTypes
    <2> HIDE DEF c
    <2>6. TokenInv'
      BY <2>1, <2>4, <2>5 DEF TypeOK, TokenInv, c
    <2>7. LinkInv' /\ RecordInv'
      BY <2>1 DEF TypeOK, LinkInv, RecordInv, CodeWasGiven, CodePairsOnce
    <2> QED  BY <2>6, <2>7
  <1>4. ASSUME lpc[l] \notin {"off", "accept", "save"}, Drop(l), 
               UNCHANGED <<session, code, target, cpc, pairedL>>,
               \A c \in Connectors : Sent(up'[c]) \subseteq Sent(up[c]),
               \A c \in Connectors : cpc[c] = "new" => down'[c] = down[c]
        PROVE  LinkInv' /\ TokenInv' /\ RecordInv'
    <2>1. /\ lpc'[l] = "accept" /\ serving'[l] = NoNode
          /\ \A k \in Listeners \ {l} : lpc'[k] = lpc[k] /\ serving'[k] = serving[k]
          /\ \A c \in Connectors : lopen'[c] => lopen[c]
      BY <1>4, DropFacts
    <2>2. LinkInv'
      BY <1>4, <2>1 DEF LinkInv
    <2>3. TokenInv'
      BY <1>4, <2>1 DEF TokenInv
    <2>4. RecordInv'
      BY <1>4, <2>1 DEF TypeOK, Pairings, RecordInv, CodeWasGiven, CodePairsOnce
    <2> QED  BY <2>2, <2>3, <2>4
  <1>5. CASE RejectRequest(l)
    <2> DEFINE c == serving[l]
    <2>1. /\ lpc[l] = "request" /\ Drop(l) /\ up[c] # <<>>
          /\ up' = [up EXCEPT ![c] = Tail(up[c])]
          /\ UNCHANGED <<session, code, target, cpc, pairedL>>
          /\ \A d \in Connectors : d # c => down'[d] = down[d]
      BY <1>5 DEF RejectRequest, cvars, LinkTypes
    <2>2. c \in Connectors /\ target[c] = l
      BY <2>1, ServingFacts DEF LinkInv
    <2>3. cpc[c] # "new"
      BY <2>2 DEF LinkInv
    <2>4. Sent(Tail(up[c])) \subseteq Sent(up[c])
      BY <2>1, <2>2, HeadOf DEF LinkTypes
    <2>5. \A d \in Connectors : Sent(up'[d]) \subseteq Sent(up[d])
      BY <2>1, <2>2, <2>4 DEF LinkTypes
    <2> HIDE DEF c
    <2> QED  BY <1>4, <2>1, <2>3, <2>5
  <1>6. CASE ConnectionFails(l)
    <2>1. /\ lpc[l] \notin {"off", "accept", "save"} /\ Drop(l)
          /\ UNCHANGED <<session, code, target, cpc, pairedL, up, down>>
      BY <1>6 DEF ConnectionFails, cvars
    <2> QED  BY <1>4, <2>1
  <1>7. CASE AckFails(l)
    <2> DEFINE c == serving[l]
    <2>1. /\ lpc[l] = "handshake" /\ Drop(l) /\ up[c] # <<>>
          /\ up' = [up EXCEPT ![c] = Tail(up[c])]
          /\ UNCHANGED <<session, code, target, cpc, pairedL, down>>
      BY <1>7 DEF AckFails, cvars
    <2>2. c \in Connectors
      BY <2>1, ServingFacts
    <2>3. Sent(Tail(up[c])) \subseteq Sent(up[c])
      BY <2>1, <2>2, HeadOf DEF LinkTypes
    <2>4. \A d \in Connectors : Sent(up'[d]) \subseteq Sent(up[d])
      BY <2>1, <2>2, <2>3 DEF LinkTypes
    <2> HIDE DEF c
    <2> QED  BY <1>4, <2>1, <2>4
  <1>8. ASSUME NEW ip, Respond(l, ip)
        PROVE  LinkInv' /\ TokenInv' /\ RecordInv'
    <2>1. /\ lpc' = [lpc EXCEPT ![l] = "handshake"] /\ lpc[l] = "address"
          /\ \A d \in Connectors : d # serving[l] => down'[d] = down[d]
          /\ UNCHANGED <<session, serving, code, target, cpc, up, lopen, pairedL>>
      BY <1>8 DEF Respond, cvars, LinkTypes
    <2>2. serving[l] \in Connectors /\ target[serving[l]] = l
      BY <2>1, ServingFacts DEF LinkInv
    <2>3. cpc[serving[l]] # "new"
      BY <2>2 DEF LinkInv
    <2>4. LinkInv'
      BY <2>1, <2>3 DEF TypeOK, LinkInv
    <2>5. TokenInv' /\ RecordInv'
      BY <2>1 DEF TypeOK, TokenInv, RecordInv, CodeWasGiven, CodePairsOnce
    <2> QED  BY <2>4, <2>5
  <1>9. ASSUME lpc[l] = "handshake", lpc' = [lpc EXCEPT ![l] = "save"],
               pairedL' = pairedL \cup {Pairing(l)},
               UNCHANGED <<session, serving, code, target, cpc, lopen>>,
               \A c \in Connectors : Sent(up'[c]) \subseteq Sent(up[c]),
               \A c \in Connectors : c # serving[l] => down'[c] = down[c]
        PROVE  LinkInv' /\ TokenInv' /\ RecordInv'
    <2>1. /\ Pairing(l) \in Pairings /\ serving[l] \in Connectors
          /\ code[serving[l]] = [listener |-> l, session |-> session[l]]
          /\ Pairing(l) = [listener |-> l, session |-> session[l], connector |-> serving[l]]
      BY <1>9, PairingTyped DEF Pairing
    <2>2. target[serving[l]] = l
      BY <1>9 DEF LinkInv
    <2>3. cpc[serving[l]] # "new"
      BY <2>1, <2>2 DEF LinkInv
    <2>4. LinkInv' /\ TokenInv'
      BY <1>9, <2>3 DEF TypeOK, LinkInv, TokenInv
    <2>5. \A p \in pairedL : p.listener = l => p.session # session[l]
      BY <1>9 DEF RecordInv
    <2>6. CodeWasGiven' /\ CodePairsOnce'
      BY <1>9, <2>1, <2>5 DEF RecordInv, CodeWasGiven, CodePairsOnce
    <2>7. ASSUME NEW p \in pairedL'
          PROVE  /\ cpc'[p.connector] # "new" /\ p.session <= session'[p.listener]
                 /\ p.session = session'[p.listener] => lpc'[p.listener] \in {"save", "off"}
      <3>1. CASE p \in pairedL
        BY <1>9, <3>1 DEF TypeOK, Pairings, RecordInv
      <3>2. CASE p = Pairing(l)
        BY <1>0, <1>9, <2>1, <2>3, <3>2 DEF TypeOK
      <3> QED  BY <1>9, <2>7, <3>1, <3>2
    <2> QED  BY <2>4, <2>6, <2>7 DEF RecordInv
  <1>10. CASE FinishHandshake(l)
    <2> DEFINE c == serving[l]
    <2>1. /\ lpc[l] = "handshake" /\ up[c] # <<>>
          /\ up' = [up EXCEPT ![c] = Tail(up[c])]
          /\ lpc' = [lpc EXCEPT ![l] = "save"] /\ pairedL' = pairedL \cup {Pairing(l)}
          /\ UNCHANGED <<session, serving, code, target, cpc, lopen>>
          /\ \A d \in Connectors : d # c => down'[d] = down[d]
      BY <1>10 DEF FinishHandshake, cvars, LinkTypes
    <2>2. c \in Connectors
      BY <2>1, ServingFacts
    <2>3. Sent(Tail(up[c])) \subseteq Sent(up[c])
      BY <2>1, <2>2, HeadOf DEF LinkTypes
    <2>4. \A d \in Connectors : Sent(up'[d]) \subseteq Sent(up[d])
      BY <2>1, <2>2, <2>3 DEF LinkTypes
    <2> QED  BY <1>9, <2>1, <2>4
  <1>11. CASE ReturnWithoutHandshake(l)
    <2>1. /\ lpc[l] = "handshake"
          /\ lpc' = [lpc EXCEPT ![l] = "save"] /\ pairedL' = pairedL \cup {Pairing(l)}
          /\ UNCHANGED <<session, serving, code, target, cpc, lopen, up, down>>
      BY <1>11 DEF ReturnWithoutHandshake, cvars, link
    <2> QED  BY <1>9, <2>1
  <1>12. CASE Save(l) \/ TimeOut(l)
    <2>1. /\ StopListening(l)
          /\ UNCHANGED <<session, code, target, cpc, up, down, pairedL>>
      BY <1>12 DEF Save, TimeOut, cvars
    <2>2. /\ lpc'[l] = "off" /\ serving'[l] = NoNode
          /\ \A k \in Listeners \ {l} : lpc'[k] = lpc[k] /\ serving'[k] = serving[k]
          /\ \A c \in Connectors : lopen'[c] => lopen[c]
      BY <2>1, StopFacts
    <2>3. LinkInv' /\ TokenInv'
      BY <2>1, <2>2 DEF LinkInv, TokenInv
    <2>4. RecordInv'
      BY <2>1, <2>2 DEF TypeOK, Pairings, RecordInv, CodeWasGiven, CodePairsOnce
    <2> QED  BY <2>3, <2>4
  <1> QED  BY <1>1, <1>2, <1>3, <1>5, <1>6, <1>7, <1>8, <1>10, <1>11, <1>12
           DEF ListenerStep

LEMMA ConnectorLinkStep ==
  ASSUME IInv, NEW c \in Connectors, ConnectorStep(c)
  PROVE  LinkInv' /\ TokenInv' /\ RecordInv'
  <1> USE NodesAssumption
  <1> USE DEF IInv
  <1>1. ASSUME NEW k \in Codes \cup {NoCode}, NEW l \in Listeners, NEW r \in UpMessages,
               Dials(c, k, l, r)
        PROVE  LinkInv' /\ TokenInv' /\ RecordInv'
    <2>1. /\ cpc[c] = "new" /\ cpc'[c] = "response" /\ code'[c] = k /\ target'[c] = l
          /\ up'[c] = <<r>>
          /\ \A d \in Connectors \ {c} :
               /\ cpc'[d] = cpc[d] /\ code'[d] = code[d] /\ target'[d] = target[d]
               /\ up'[d] = up[d] /\ lopen'[d] = lopen[d]
          /\ UNCHANGED <<session, lpc, serving, down, pairedL>>
      BY <1>1 DEF Dials, TypeOK, LinkTypes, lvars
    <2>2. ASSUME NEW h \in Listeners, lpc[h] \notin {"off", "accept"}
          PROVE  serving[h] \in Connectors \ {c} /\ target[serving[h]] = h
      <3>1. serving[h] \in Connectors /\ target[serving[h]] = h
        BY <2>2, ServingFacts DEF LinkInv
      <3>2. target[c] = NoNode
        BY <2>1 DEF LinkInv
      <3> QED  BY <3>1, <3>2
    <2>3. \A p \in pairedL : p.connector \in Connectors \ {c}
      BY <2>1 DEF RecordInv, TypeOK, Pairings
    <2>4. \A m \in Sent(up'[c]) : m.type = "request" => m.token = k
      <3>1. Sent(<<r>>) = {r}
        BY DEF Sent
      <3> QED  BY <1>1, <2>1, <3>1 DEF Dials
    <2>5. LinkInv'
      BY <2>1, <2>2 DEF LinkInv
    <2>6. TokenInv'
      BY <2>1, <2>2, <2>4 DEF TokenInv
    <2>7. RecordInv'
      BY <2>1, <2>3 DEF RecordInv, CodeWasGiven, CodePairsOnce
    <2> QED  BY <2>5, <2>6, <2>7
  <1>2. ASSUME cpc[c] # "new", cpc'[c] # "new", \A d \in Connectors \ {c} : cpc'[d] = cpc[d],
               \A d \in Connectors \ {c} : down'[d] = down[d],
               UNCHANGED <<session, lpc, serving, code, target, lopen, pairedL>>,
               \A d \in Connectors : \A m \in Sent(up'[d]) :
                   m \in Sent(up[d]) \/ m.type # "request"
        PROVE  LinkInv' /\ TokenInv' /\ RecordInv'
    <2>1. LinkInv'
      BY <1>2 DEF LinkInv
    <2>2. TokenInv'
      BY <1>2 DEF TokenInv
    <2>3. RecordInv'
      BY <1>2 DEF TypeOK, Pairings, RecordInv, CodeWasGiven, CodePairsOnce
    <2> QED  BY <2>1, <2>2, <2>3
  <1>3. CASE ReadAccepted(c)
    <2> DEFINE h == [type |-> "handshake"]
    <2>1. /\ cpc[c] = "response" /\ cpc'[c] = "ack"
          /\ \A d \in Connectors \ {c} : cpc'[d] = cpc[d] /\ down'[d] = down[d] /\ up'[d] = up[d]
          /\ up'[c] = Append(up[c], h)
          /\ UNCHANGED <<session, lpc, serving, code, target, lopen, pairedL>>
      BY <1>3 DEF ReadAccepted, TypeOK, LinkTypes, lvars
    <2>2. Sent(Append(up[c], h)) \subseteq Sent(up[c]) \cup {h} /\ h.type # "request"
      BY AppendOf DEF LinkTypes, UpMessages
    <2> HIDE DEF h
    <2>3. \A d \in Connectors : \A m \in Sent(up'[d]) : m \in Sent(up[d]) \/ m.type # "request"
      BY <2>1, <2>2
    <2>4. cpc[c] # "new" /\ cpc'[c] # "new"
      BY <2>1
    <2> QED  BY <1>2, <2>1, <2>3, <2>4
  <1>4. CASE ReadRejected(c) \/ Broken(c) \/ Abandon(c) \/ ReadAck(c) \/ SavePeer(c)
    <2>1. /\ cpc[c] # "new" /\ cpc'[c] # "new"
          /\ \A d \in Connectors \ {c} : cpc'[d] = cpc[d] /\ down'[d] = down[d]
          /\ UNCHANGED <<session, lpc, serving, code, target, lopen, pairedL, up>>
      BY <1>4 DEF ReadRejected, Broken, Abandon, Leave, ReadAck, SavePeer, TypeOK, LinkTypes,
         lvars, link
    <2> QED  BY <1>2, <2>1
  <1> QED  BY <1>1, <1>3, <1>4, ConnectDials, PeerDialsDials DEF ConnectorStep

-----------------------------------------------------------------------------
(* What is under way to a connector.                                       *)

LEMMA ListenerStageStep ==
  ASSUME IInv, NEW l \in Listeners, StartConnect(l) \/ ListenerStep(l) \/ TimeOut(l)
  PROVE  StageInv' /\ AckInv' /\ BothSidesPaired'
  <1> USE NodesAssumption
  <1> USE DEF IInv
  <1>1. CASE StartConnect(l)
    <2>1. /\ lpc' = [lpc EXCEPT ![l] = "accept"]
          /\ UNCHANGED <<serving, code, target, cpc, down, lopen, pairedL, pairedC>>
      BY <1>1 DEF StartConnect, cvars, link
    <2>2. StageInv'
      BY <2>1 DEF TypeOK, StageInv
    <2>3. AckInv' /\ BothSidesPaired'
      BY <2>1 DEF AckInv, BothSidesPaired, RecordOf
    <2> QED  BY <2>2, <2>3
  <1>2. ASSUME NEW c \in Connectors, Accept(l, c)
        PROVE  StageInv' /\ AckInv' /\ BothSidesPaired'
    <2>1. /\ lpc[l] = "accept" /\ lpc' = [lpc EXCEPT ![l] = "request"]
          /\ target[c] = l /\ lopen[c] /\ serving' = [serving EXCEPT ![l] = c]
          /\ UNCHANGED <<code, target, cpc, down, lopen, pairedL, pairedC>>
      BY <1>2 DEF Accept, cvars, link
    <2>2. serving[l] = NoNode
      BY <2>1 DEF TypeOK
    <2>3. down[c] = <<>> /\ cpc[c] # "ack"
      BY <2>1, <2>2 DEF StageInv
    <2>4. StageInv'
      <3>1. ASSUME NEW k \in Listeners, lpc'[k] \in {"request", "address"}
            PROVE  down'[serving'[k]] = <<>> /\ cpc'[serving'[k]] # "ack"
        BY <2>1, <2>3, <3>1 DEF TypeOK, StageInv
      <3>2. ASSUME NEW d \in Connectors, lopen'[d], serving'[target'[d]] # d
            PROVE  down'[d] = <<>> /\ cpc'[d] # "ack"
        <4>1. serving[target[d]] # d
          BY <2>1, <2>2, <3>2 DEF TypeOK
        <4> QED  BY <2>1, <3>2, <4>1 DEF StageInv
      <3> QED  BY <3>1, <3>2 DEF StageInv
    <2>5. AckInv' /\ BothSidesPaired'
      BY <2>1 DEF AckInv, BothSidesPaired, RecordOf
    <2> QED  BY <2>4, <2>5
  <1>3. CASE AcceptRequest(l)
    <2>1. /\ lpc[l] = "request" /\ lpc' = [lpc EXCEPT ![l] = "address"]
          /\ UNCHANGED <<serving, code, target, cpc, down, lopen, pairedL, pairedC>>
      BY <1>3 DEF AcceptRequest, cvars
    <2>2. StageInv'
      BY <2>1 DEF TypeOK, StageInv
    <2>3. AckInv' /\ BothSidesPaired'
      BY <2>1 DEF AckInv, BothSidesPaired, RecordOf
    <2> QED  BY <2>2, <2>3
  \* The connection ends; only the one that was served may have got a message.
  <1>4. ASSUME lpc[l] \notin {"off", "accept"}, Drop(l) \/ StopListening(l),
               UNCHANGED <<code, target, cpc, pairedL, pairedC>>,
               \A c \in Connectors : c # serving[l] => down'[c] = down[c]
        PROVE  StageInv'
    <2>1. serving[l] \in Connectors /\ target[serving[l]] = l
      BY <1>4, ServingFacts DEF LinkInv
    <2>2. /\ lpc'[l] \in {"off", "accept"} /\ serving'[l] = NoNode
          /\ \A k \in Listeners \ {l} : lpc'[k] = lpc[k] /\ serving'[k] = serving[k]
          /\ ~lopen'[serving[l]]
          /\ \A c \in Connectors : lopen'[c] => lopen[c]
      BY <1>4, <2>1, DropFacts, StopFacts
    <2>3. ASSUME NEW k \in Listeners, lpc'[k] \in {"request", "address"}
          PROVE  down'[serving'[k]] = <<>> /\ cpc'[serving'[k]] # "ack"
      <3>1. k # l /\ lpc[k] = lpc'[k] /\ serving'[k] = serving[k]
        BY <2>2, <2>3
      <3>2. serving[k] \in Connectors /\ target[serving[k]] = k
        BY <2>3, <3>1, ServingFacts DEF LinkInv
      <3>3. serving[k] # serving[l]
        BY <2>1, <3>1, <3>2
      <3> QED  BY <1>4, <2>3, <3>1, <3>2, <3>3 DEF StageInv
    <2>4. ASSUME NEW d \in Connectors, lopen'[d], serving'[target'[d]] # d
          PROVE  down'[d] = <<>> /\ cpc'[d] # "ack"
      <3>1. d # serving[l] /\ lopen[d]
        BY <2>2, <2>4
      <3>2. serving[target[d]] # d
        <4>1. CASE target[d] = l
          BY <3>1, <4>1
        <4>2. CASE target[d] # l
          <5>1. target[d] \in Listeners
            BY <3>1 DEF LinkInv
          <5> QED  BY <1>4, <2>2, <2>4, <4>2, <5>1
        <4> QED  BY <4>1, <4>2
      <3> QED  BY <1>4, <3>1, <3>2 DEF StageInv
    <2> QED  BY <2>3, <2>4 DEF StageInv
  <1>5. ASSUME UNCHANGED <<code, target, cpc, down, pairedC>>, pairedL \subseteq pairedL'
        PROVE  AckInv' /\ BothSidesPaired'
    BY <1>5 DEF AckInv, BothSidesPaired, RecordOf
  <1>6. CASE RejectRequest(l)
    <2> DEFINE c == serving[l]
               e == [type |-> "rejected"]
    <2>1. /\ lpc[l] = "request" /\ Drop(l)
          /\ UNCHANGED <<code, target, cpc, pairedL, pairedC>>
          /\ down' = [down EXCEPT ![c] = Append(down[c], e)] \/ down' = down
      BY <1>6 DEF RejectRequest, cvars
    <2>2. c \in Connectors
      BY <2>1, ServingFacts
    <2>3. down[c] = <<>> /\ cpc[c] # "ack"
      BY <2>1 DEF StageInv
    <2>4. \A d \in Connectors : d # c => down'[d] = down[d]
      BY <2>1 DEF LinkTypes
    <2>5. Sent(down'[c]) \subseteq {e} /\ Later(down'[c]) = {}
      <3>1. CASE down' = down
        BY <2>3, <3>1, NothingSent
      <3>2. CASE down' = [down EXCEPT ![c] = Append(down[c], e)]
        <4>1. e \in DownMessages /\ down[c] \in Seq(DownMessages)
          BY <2>2 DEF DownMessages, LinkTypes
        <4>2. down'[c] = Append(down[c], e)
          BY <2>2, <3>2 DEF LinkTypes
        <4> HIDE DEF e, c
        <4>3. Sent(Append(down[c], e)) \subseteq {e} /\ Later(Append(down[c], e)) = {}
          BY <2>3, <4>1, FirstMessage
        <4> QED  BY <4>2, <4>3
      <3> QED  BY <2>1, <3>1, <3>2
    <2>6. e.type # "ack"
      OBVIOUS
    <2> HIDE DEF e
    <2>7. StageInv'
      BY <1>4, <2>1, <2>4
    <2>8. AckInv'
      BY <2>1, <2>3, <2>4, <2>5, <2>6 DEF AckInv, RecordOf
    <2> QED  BY <2>1, <2>7, <2>8 DEF BothSidesPaired
  <1>7. CASE ConnectionFails(l) \/ AckFails(l) \/ Save(l)
    <2>1. /\ lpc[l] \notin {"off", "accept"} /\ (Drop(l) \/ StopListening(l))
          /\ UNCHANGED <<code, target, cpc, down, pairedL, pairedC>>
      BY <1>7 DEF ConnectionFails, AckFails, Save, cvars
    <2> QED  BY <1>4, <1>5, <2>1
  <1>8. CASE TimeOut(l)
    <2>1. /\ StopListening(l)
          /\ UNCHANGED <<code, target, cpc, down, pairedL, pairedC>>
      BY <1>8 DEF TimeOut, cvars
    <2>2. AckInv' /\ BothSidesPaired'
      BY <1>5, <2>1
    <2>3. CASE lpc[l] \notin {"off", "accept"}
      BY <1>4, <2>1, <2>2, <2>3
    <2>4. CASE lpc[l] \in {"off", "accept"}
      <3>1. serving[l] = NoNode
        BY <2>4 DEF TypeOK
      <3>2. /\ lpc'[l] = "off" /\ serving'[l] = NoNode
            /\ \A k \in Listeners \ {l} : lpc'[k] = lpc[k] /\ serving'[k] = serving[k]
            /\ \A c \in Connectors : lopen'[c] => lopen[c]
        BY <2>1, StopFacts
      <3>3. \A k \in Listeners : serving'[k] = serving[k]
        BY <3>1, <3>2
      <3>4. \A d \in Connectors : lopen'[d] => lopen[d] /\ target[d] \in Listeners
        BY <3>2 DEF LinkInv
      <3>5. StageInv'
        BY <2>1, <3>2, <3>3, <3>4 DEF StageInv
      <3> QED  BY <2>2, <3>5
    <2> QED  BY <2>3, <2>4
  <1>9. ASSUME NEW ip \in {l, NoAddress}, Respond(l, ip)
        PROVE  StageInv' /\ AckInv' /\ BothSidesPaired'
    <2> DEFINE c == serving[l]
               e == [type |-> "accepted", ip |-> ip]
    <2>1. /\ lpc[l] = "address" /\ lpc' = [lpc EXCEPT ![l] = "handshake"]
          /\ down' = [down EXCEPT ![c] = Append(down[c], e)]
          /\ UNCHANGED <<serving, code, target, cpc, lopen, pairedL, pairedC>>
      BY <1>9 DEF Respond, cvars
    <2>2. c \in Connectors /\ target[c] = l
      BY <2>1, ServingFacts DEF LinkInv
    <2>3. down[c] = <<>> /\ cpc[c] # "ack"
      BY <2>1 DEF StageInv
    <2>4. \A d \in Connectors : d # c => down'[d] = down[d]
      BY <2>1 DEF LinkTypes
    <2>5. Sent(down'[c]) \subseteq {e} /\ Later(down'[c]) = {}
      <3>1. e \in DownMessages /\ down[c] \in Seq(DownMessages)
        BY <2>2 DEF DownMessages, LinkTypes
      <3>2. down'[c] = Append(down[c], e)
        BY <2>1, <2>2 DEF LinkTypes
      <3> HIDE DEF e, c
      <3>3. Sent(Append(down[c], e)) \subseteq {e} /\ Later(Append(down[c], e)) = {}
        BY <2>3, <3>1, FirstMessage
      <3> QED  BY <3>2, <3>3
    <2>6. e.type # "ack"
      OBVIOUS
    <2> HIDE DEF e
    <2>7. StageInv'
      <3>1. ASSUME NEW k \in Listeners, lpc'[k] \in {"request", "address"}
            PROVE  down'[serving'[k]] = <<>> /\ cpc'[serving'[k]] # "ack"
        <4>1. k # l /\ lpc[k] = lpc'[k] /\ serving'[k] = serving[k]
          BY <2>1, <3>1 DEF TypeOK
        <4>2. serving[k] \in Connectors /\ target[serving[k]] = k
          BY <3>1, <4>1, ServingFacts DEF LinkInv
        <4>3. serving[k] # c
          BY <2>2, <4>1, <4>2
        <4> QED  BY <2>1, <2>4, <3>1, <4>1, <4>2, <4>3 DEF StageInv
      <3>2. ASSUME NEW d \in Connectors, lopen'[d], serving'[target'[d]] # d
            PROVE  down'[d] = <<>> /\ cpc'[d] # "ack"
        BY <2>1, <2>2, <2>4, <3>2 DEF StageInv
      <3> QED  BY <3>1, <3>2 DEF StageInv
    <2>8. AckInv'
      BY <2>1, <2>3, <2>4, <2>5, <2>6 DEF AckInv, RecordOf
    <2> QED  BY <2>1, <2>7, <2>8 DEF BothSidesPaired
  \* The listener returns the pairing: nothing is refused or waited for any more.
  <1>10. ASSUME lpc[l] = "handshake", lpc' = [lpc EXCEPT ![l] = "save"],
                UNCHANGED <<serving, target, cpc, lopen>>,
                \A c \in Connectors : c # serving[l] => down'[c] = down[c]
         PROVE  StageInv'
    <2>1. serving[l] \in Connectors /\ target[serving[l]] = l
      BY <1>10, ServingFacts DEF LinkInv
    <2>2. ASSUME NEW k \in Listeners, lpc'[k] \in {"request", "address"}
          PROVE  down'[serving'[k]] = <<>> /\ cpc'[serving'[k]] # "ack"
      <3>1. k # l /\ lpc[k] = lpc'[k] /\ serving'[k] = serving[k]
        BY <1>10, <2>2 DEF TypeOK
      <3>2. serving[k] \in Connectors /\ target[serving[k]] = k
        BY <2>2, <3>1, ServingFacts DEF LinkInv
      <3>3. serving[k] # serving[l]
        BY <2>1, <3>1, <3>2
      <3> QED  BY <1>10, <2>2, <3>1, <3>2, <3>3 DEF StageInv
    <2>3. ASSUME NEW d \in Connectors, lopen'[d], serving'[target'[d]] # d
          PROVE  down'[d] = <<>> /\ cpc'[d] # "ack"
      BY <1>10, <2>1, <2>3 DEF StageInv
    <2> QED  BY <2>2, <2>3 DEF StageInv
  <1>11. CASE FinishHandshake(l)
    <2> DEFINE c == serving[l]
               e == [type |-> "ack"]
    <2>1. /\ lpc[l] = "handshake" /\ lpc' = [lpc EXCEPT ![l] = "save"]
          /\ down' = [down EXCEPT ![c] = Append(down[c], e)]
          /\ pairedL' = pairedL \cup {Pairing(l)}
          /\ UNCHANGED <<serving, code, target, cpc, lopen, pairedC>>
      BY <1>11 DEF FinishHandshake, cvars
    <2>2. c \in Connectors /\ RecordOf(c) \in pairedL'
      BY <2>1, PairingTyped
    <2>3. \A d \in Connectors : d # c => down'[d] = down[d]
      BY <2>1 DEF LinkTypes
    <2>4. Sent(down'[c]) \subseteq Sent(down[c]) \cup {e} /\ Later(down'[c]) \subseteq Later(down[c]) \cup {e}
      <3>1. e \in DownMessages /\ down[c] \in Seq(DownMessages)
        BY <2>2 DEF DownMessages, LinkTypes
      <3>2. down'[c] = Append(down[c], e)
        BY <2>1, <2>2 DEF LinkTypes
      <3> HIDE DEF e, c
      <3> QED  BY <3>1, <3>2, AppendOf
    <2>5. e.type = "ack"
      OBVIOUS
    <2> HIDE DEF e
    <2>6. StageInv'
      BY <1>10, <2>1, <2>3
    <2>7. AckInv'
      <3> SUFFICES ASSUME NEW d \in Connectors
                   PROVE  /\ \A m \in Sent(down'[d]) : m.type = "ack" => RecordOf(d) \in pairedL'
                          /\ \A m \in Later(down'[d]) : m.type = "ack"
                          /\ cpc[d] = "ack" => \A m \in Sent(down'[d]) : m.type = "ack"
        BY <2>1 DEF AckInv, RecordOf
      <3>1. CASE d = c
        BY <2>2, <2>4, <2>5, <3>1 DEF AckInv
      <3>2. CASE d # c
        BY <2>1, <2>3, <3>2 DEF AckInv
      <3> QED  BY <3>1, <3>2
    <2> QED  BY <2>1, <2>6, <2>7 DEF BothSidesPaired
  <1>12. CASE ReturnWithoutHandshake(l)
    <2>1. /\ lpc[l] = "handshake" /\ lpc' = [lpc EXCEPT ![l] = "save"]
          /\ pairedL \subseteq pairedL'
          /\ UNCHANGED <<serving, code, target, cpc, lopen, down, pairedC>>
      BY <1>12 DEF ReturnWithoutHandshake, cvars, link
    <2> QED  BY <1>5, <1>10, <2>1
  <1> QED  BY <1>1, <1>2, <1>3, <1>6, <1>7, <1>8, <1>9, <1>11, <1>12 DEF ListenerStep

LEMMA ConnectorStageStep ==
  ASSUME IInv, NEW c \in Connectors, ConnectorStep(c)
  PROVE  StageInv' /\ AckInv' /\ BothSidesPaired'
  <1> USE NodesAssumption
  <1> USE DEF IInv
  <1>1. ASSUME NEW k \in Codes \cup {NoCode}, NEW l \in Listeners, NEW r \in UpMessages,
               Dials(c, k, l, r)
        PROVE  StageInv' /\ AckInv' /\ BothSidesPaired'
    <2>1. /\ cpc[c] = "new" /\ cpc'[c] = "response"
          /\ \A d \in Connectors \ {c} :
               /\ cpc'[d] = cpc[d] /\ code'[d] = code[d] /\ target'[d] = target[d]
               /\ lopen'[d] = lopen[d]
          /\ UNCHANGED <<lpc, serving, down, pairedL, pairedC>>
      BY <1>1 DEF Dials, TypeOK, lvars
    <2>2. down[c] = <<>>
      BY <2>1 DEF LinkInv
    <2>3. StageInv'
      <3>1. ASSUME NEW h \in Listeners, lpc'[h] \in {"request", "address"}
            PROVE  down'[serving'[h]] = <<>> /\ cpc'[serving'[h]] # "ack"
        <4>1. serving[h] \in Connectors
          BY <2>1, <3>1, ServingFacts
        <4> QED  BY <2>1, <2>2, <3>1, <4>1 DEF StageInv
      <3>2. ASSUME NEW d \in Connectors, lopen'[d], serving'[target'[d]] # d
            PROVE  down'[d] = <<>> /\ cpc'[d] # "ack"
        BY <2>1, <2>2, <3>2 DEF StageInv
      <3> QED  BY <3>1, <3>2 DEF StageInv
    <2>4. AckInv'
      <3> SUFFICES ASSUME NEW d \in Connectors
                   PROVE  /\ \A m \in Sent(down'[d]) : m.type = "ack" => RecordOf(d)' \in pairedL'
                          /\ \A m \in Later(down'[d]) : m.type = "ack"
                          /\ cpc'[d] = "ack" => \A m \in Sent(down'[d]) : m.type = "ack"
        BY DEF AckInv
      <3>1. CASE d = c
        BY <2>1, <2>2, <3>1, NothingSent
      <3>2. CASE d # c
        BY <2>1, <3>2 DEF AckInv, RecordOf
      <3> QED  BY <3>1, <3>2
    <2> QED  BY <2>1, <2>3, <2>4 DEF BothSidesPaired
  <1>2. CASE ReadAccepted(c)
    <2>1. /\ down[c] # <<>> /\ cpc'[c] = "ack" /\ down'[c] = Tail(down[c])
          /\ \A d \in Connectors \ {c} : cpc'[d] = cpc[d] /\ down'[d] = down[d]
          /\ UNCHANGED <<lpc, serving, code, target, lopen, pairedL, pairedC>>
      BY <1>2 DEF ReadAccepted, TypeOK, LinkTypes, lvars
    <2>2. /\ Sent(down'[c]) \subseteq Later(down[c]) /\ Later(down[c]) \subseteq Sent(down[c])
          /\ Later(down'[c]) \subseteq Later(down[c])
      BY <2>1, HeadOf DEF LinkTypes
    <2>3. StageInv'
      <3>1. ASSUME NEW h \in Listeners, lpc'[h] \in {"request", "address"}
            PROVE  down'[serving'[h]] = <<>> /\ cpc'[serving'[h]] # "ack"
        <4>1. serving[h] \in Connectors
          BY <2>1, <3>1, ServingFacts
        <4> QED  BY <2>1, <3>1, <4>1 DEF StageInv
      <3>2. ASSUME NEW d \in Connectors, lopen'[d], serving'[target'[d]] # d
            PROVE  down'[d] = <<>> /\ cpc'[d] # "ack"
        BY <2>1, <3>2 DEF StageInv
      <3> QED  BY <3>1, <3>2 DEF StageInv
    <2>4. AckInv'
      <3> SUFFICES ASSUME NEW d \in Connectors
                   PROVE  /\ \A m \in Sent(down'[d]) : m.type = "ack" => RecordOf(d) \in pairedL
                          /\ \A m \in Later(down'[d]) : m.type = "ack"
                          /\ cpc'[d] = "ack" => \A m \in Sent(down'[d]) : m.type = "ack"
        BY <2>1 DEF AckInv, RecordOf
      <3>1. CASE d = c
        BY <2>2, <3>1 DEF AckInv
      <3>2. CASE d # c
        BY <2>1, <3>2 DEF AckInv
      <3> QED  BY <3>1, <3>2
    <2> QED  BY <2>1, <2>3, <2>4 DEF BothSidesPaired
  <1>3. CASE ReadRejected(c) \/ Broken(c) \/ Abandon(c) \/ SavePeer(c)
    <2>1. /\ cpc'[c] = "off" /\ \A d \in Connectors \ {c} : cpc'[d] = cpc[d]
          /\ UNCHANGED <<lpc, serving, code, target, lopen, down, pairedL, pairedC>>
      BY <1>3 DEF ReadRejected, Broken, Abandon, Leave, SavePeer, TypeOK, lvars, link
    <2>2. StageInv'
      <3>1. \A d \in Connectors : cpc[d] # "ack" => cpc'[d] # "ack"
        BY <2>1
      <3> QED  BY <2>1, <3>1, ServingFacts DEF StageInv
    <2>3. AckInv' /\ BothSidesPaired'
      <3>1. \A d \in Connectors : cpc'[d] = "ack" => cpc[d] = "ack"
        BY <2>1
      <3> QED  BY <2>1, <3>1 DEF AckInv, BothSidesPaired, RecordOf
    <2> QED  BY <2>2, <2>3
  <1>4. CASE ReadAck(c)
    <2>1. /\ down[c] # <<>> /\ cpc[c] = "ack" /\ cpc'[c] = "save" /\ down'[c] = Tail(down[c])
          /\ \A d \in Connectors \ {c} : cpc'[d] = cpc[d] /\ down'[d] = down[d]
          /\ pairedC' = pairedC \cup {RecordOf(c)}
          /\ UNCHANGED <<lpc, serving, code, target, lopen, pairedL>>
      BY <1>4 DEF ReadAck, TypeOK, LinkTypes, lvars, RecordOf
    <2>2. /\ Head(down[c]) \in Sent(down[c]) /\ Sent(down'[c]) \subseteq Later(down[c])
          /\ Later(down[c]) \subseteq Sent(down[c]) /\ Later(down'[c]) \subseteq Later(down[c])
      BY <2>1, HeadOf DEF LinkTypes
    <2>3. RecordOf(c) \in pairedL
      BY <2>1, <2>2 DEF AckInv
    <2>4. StageInv'
      <3>1. ASSUME NEW h \in Listeners, lpc'[h] \in {"request", "address"}
            PROVE  down'[serving'[h]] = <<>> /\ cpc'[serving'[h]] # "ack"
        <4>1. serving[h] \in Connectors
          BY <2>1, <3>1, ServingFacts
        <4> QED  BY <2>1, <3>1, <4>1 DEF StageInv
      <3>2. ASSUME NEW d \in Connectors, lopen'[d], serving'[target'[d]] # d
            PROVE  down'[d] = <<>> /\ cpc'[d] # "ack"
        BY <2>1, <3>2 DEF StageInv
      <3> QED  BY <3>1, <3>2 DEF StageInv
    <2>5. AckInv'
      <3> SUFFICES ASSUME NEW d \in Connectors
                   PROVE  /\ \A m \in Sent(down'[d]) : m.type = "ack" => RecordOf(d) \in pairedL
                          /\ \A m \in Later(down'[d]) : m.type = "ack"
                          /\ cpc'[d] = "ack" => \A m \in Sent(down'[d]) : m.type = "ack"
        BY <2>1 DEF AckInv, RecordOf
      <3>1. CASE d = c
        BY <2>1, <2>2, <2>3, <3>1 DEF AckInv
      <3>2. CASE d # c
        BY <2>1, <3>2 DEF AckInv
      <3> QED  BY <3>1, <3>2
    <2> QED  BY <2>1, <2>3, <2>4, <2>5 DEF BothSidesPaired
  <1> QED  BY <1>1, <1>2, <1>3, <1>4, ConnectDials, PeerDialsDials DEF IInv, ConnectorStep

-----------------------------------------------------------------------------
LEMMA StutterStep == ASSUME IInv, UNCHANGED vars PROVE IInv'
  <1> USE DEF vars, lvars, cvars, link
  <1>1. TypeOK' /\ LinkTypes'
    BY DEF IInv, TypeOK, LinkTypes
  <1>2. LinkInv' /\ TokenInv' /\ RecordInv'
    BY DEF IInv, LinkInv, TokenInv, RecordInv, CodeWasGiven, CodePairsOnce
  <1>3. StageInv' /\ AckInv' /\ BothSidesPaired'
    BY DEF IInv, StageInv, AckInv, BothSidesPaired, RecordOf
  <1> QED  BY <1>1, <1>2, <1>3 DEF IInv

\* The inductive invariant holds in every reachable state.
LEMMA Invariance == Spec => []IInv
  <1>1. ASSUME IInv, [Next]_vars PROVE IInv'
    <2>1. ASSUME NEW l \in Listeners, StartConnect(l) \/ ListenerStep(l) \/ TimeOut(l)
          PROVE  IInv'
      BY <1>1, <2>1, ListenerTypeStep, ListenerLinkStep, ListenerStageStep DEF IInv
    <2>2. ASSUME NEW c \in Connectors, ConnectorStep(c) PROVE IInv'
      BY <1>1, <2>2, ConnectorTypeStep, ConnectorLinkStep, ConnectorStageStep DEF IInv
    <2>3. CASE UNCHANGED vars
      BY <1>1, <2>3, StutterStep
    <2> QED  BY <1>1, <2>1, <2>2, <2>3 DEF Next
  <1> QED  BY InitIInv, <1>1, PTL DEF Spec

\* Every variable keeps its type, whatever the machines and however many runs
\* of start-connect (pairing.rs:317-619).
THEOREM TypeCorrect == Spec => []TypeOK
  BY Invariance, PTL DEF IInv

\* wait_for_pairing returns with the first connector that pairs: no code pairs
\* two of them (pairing.rs:332).
THEOREM CodesPairOnce == Spec => []CodePairsOnce
  <1>1. IInv => CodePairsOnce
    BY DEF IInv, RecordInv
  <1> QED  BY Invariance, <1>1, PTL

\* A listener pairs only with connectors that were given the code it shows now:
\* tokens of earlier runs and of other machines are refused (pairing.rs:376-386).
THEOREM CodesWereGiven == Spec => []CodeWasGiven
  <1>1. IInv => CodeWasGiven
    BY DEF IInv, RecordInv
  <1> QED  BY Invariance, <1>1, PTL

\* When connect reports success, the machine whose code it was given has returned
\* the same pairing from wait_for_pairing (pairing.rs:509-619).
THEOREM PairedOnBothSides == Spec => []BothSidesPaired
  BY Invariance, PTL DEF IInv
-----------------------------------------------------------------------------
(* The addresses that are saved.                                           *)

\* A connector hears of the machine it dialed only.
HeardInv ==
  \A c \in Connectors :
    /\ \A m \in Sent(down[c]) : m.type = "accepted" => m.ip \in {target[c], NoAddress}
    /\ heard[c] \in {target[c], NoAddress}
    /\ cpc[c] = "new" => heard[c] = NoAddress

\* connect saves the address of the peer it names, or none; start-connect saves
\* its own address, or none, under the name of the connector.
SavedAddress ==
  \A n \in Listeners \cup Machines : \A p \in book[n] :
    \/ n \in Machines /\ p.peer \in Listeners /\ p.address \in {p.peer, NoAddress}
    \/ n \in Listeners /\ p.peer \in Machines /\ p.address \in {n, NoAddress}

\* Nothing new is heard, except what a listener says of itself.
LEMMA HeardKept ==
  ASSUME HeardInv, UNCHANGED <<target, heard>>,
         \A c \in Connectors : cpc'[c] = "new" => cpc[c] = "new",
         \A c \in Connectors : \A m \in Sent(down'[c]) :
           m \in Sent(down[c]) \/ m.type # "accepted" \/ m.ip \in {target[c], NoAddress}
  PROVE  HeardInv'
  BY DEF HeardInv

LEMMA ListenerHeardStep ==
  ASSUME IInv, HeardInv, NEW l \in Listeners, StartConnect(l) \/ ListenerStep(l) \/ TimeOut(l)
  PROVE  HeardInv'
  <1> USE DEF lvars, cvars, link
  <1>1. ASSUME UNCHANGED <<target, heard, cpc, down>> PROVE HeardInv'
    BY <1>1, HeardKept
  <1>2. ASSUME NEW m \in DownMessages, lpc[l] \notin {"off", "accept"},
               down' = [down EXCEPT ![serving[l]] = Append(@, m)],
               m.type # "accepted" \/ m.ip \in {l, NoAddress},
               UNCHANGED <<target, heard, cpc>>
        PROVE  HeardInv'
    <2>1. serving[l] \in Connectors /\ target[serving[l]] = l /\ down \in [Connectors -> Seq(DownMessages)]
      BY <1>2, ServingFacts DEF IInv, LinkInv, LinkTypes
    <2>2. Sent(Append(down[serving[l]], m)) \subseteq Sent(down[serving[l]]) \cup {m}
      BY <2>1, AppendOf
    <2>3. /\ down'[serving[l]] = Append(down[serving[l]], m)
          /\ \A c \in Connectors \ {serving[l]} : down'[c] = down[c]
      BY <1>2, <2>1
    <2>4. ASSUME NEW c \in Connectors, NEW n \in Sent(down'[c])
          PROVE  n \in Sent(down[c]) \/ n.type # "accepted" \/ n.ip \in {target[c], NoAddress}
      BY <1>2, <2>1, <2>2, <2>3, <2>4
    <2> QED  BY <1>2, <2>4, HeardKept
  <1>3. CASE StartConnect(l) \/ TimeOut(l) \/ Save(l)
    BY <1>1, <1>3 DEF StartConnect, TimeOut, Save, StopListening
  <1>4. CASE (\E c \in Connectors : Accept(l, c)) \/ AcceptRequest(l) \/ ConnectionFails(l)
    BY <1>1, <1>4 DEF Accept, AcceptRequest, ConnectionFails, Drop
  <1>5. CASE AckFails(l) \/ ReturnWithoutHandshake(l)
    BY <1>1, <1>5 DEF AckFails, ReturnWithoutHandshake, Drop
  <1>6. CASE RejectRequest(l)
    <2>1. [type |-> "rejected"] \in DownMessages
      BY DEF DownMessages
    <2> QED  BY <1>1, <1>2, <1>6, <2>1 DEF RejectRequest, Drop
  <1>7. CASE FinishHandshake(l)
    <2>1. [type |-> "ack"] \in DownMessages
      BY DEF DownMessages
    <2> QED  BY <1>2, <1>7, <2>1 DEF FinishHandshake
  <1>8. ASSUME NEW ip \in {l, NoAddress}, Respond(l, ip) PROVE HeardInv'
    <2> DEFINE m == [type |-> "accepted", ip |-> ip]
    <2>1. m \in DownMessages /\ m.ip = ip
      BY DEF DownMessages
    <2>2. /\ lpc[l] = "address" /\ down' = [down EXCEPT ![serving[l]] = Append(@, m)]
          /\ UNCHANGED <<target, heard, cpc>>
      BY <1>8 DEF Respond
    <2> HIDE DEF m
    <2> QED  BY <1>2, <2>1, <2>2
  <1> QED
    BY <1>3, <1>4, <1>5, <1>6, <1>7, <1>8 DEF ListenerStep

LEMMA ConnectorHeardStep ==
  ASSUME IInv, HeardInv, NEW c \in Connectors, ConnectorStep(c)
  PROVE  HeardInv'
  <1> USE DEF lvars, cvars, link
  <1>1. ASSUME NEW k \in Codes \cup {NoCode}, NEW l \in Listeners, NEW r \in UpMessages,
               Dials(c, k, l, r)
        PROVE  HeardInv'
    <2>1. /\ cpc[c] = "new" /\ cpc'[c] # "new" /\ UNCHANGED <<heard, down>>
          /\ \A d \in Connectors \ {c} : target'[d] = target[d] /\ cpc'[d] = cpc[d]
      BY <1>1 DEF Dials, IInv, TypeOK
    <2>2. heard[c] = NoAddress /\ Sent(down[c]) = {}
      BY <2>1, NothingSent DEF HeardInv, IInv, LinkInv
    <2> QED  BY <2>1, <2>2 DEF HeardInv
  <1>2. CASE ReadAccepted(c)
    <2>1. /\ down[c] \in Seq(DownMessages) /\ down[c] # <<>>
          /\ cpc'[c] = "ack" /\ down'[c] = Tail(down[c]) /\ heard'[c] = Head(down[c]).ip
          /\ Head(down[c]).type = "accepted" /\ UNCHANGED target
          /\ \A d \in Connectors \ {c} :
               cpc'[d] = cpc[d] /\ down'[d] = down[d] /\ heard'[d] = heard[d]
      BY <1>2 DEF ReadAccepted, IInv, TypeOK, LinkTypes
    <2>2. Head(down[c]) \in Sent(down[c]) /\ Sent(Tail(down[c])) \subseteq Sent(down[c])
      BY <2>1, HeadOf
    <2> QED  BY <2>1, <2>2 DEF HeardInv
  <1>3. CASE ReadAck(c)
    <2>1. /\ down[c] \in Seq(DownMessages) /\ down[c] # <<>>
          /\ cpc'[c] = "save" /\ down'[c] = Tail(down[c]) /\ UNCHANGED <<target, heard>>
          /\ \A d \in Connectors \ {c} : cpc'[d] = cpc[d] /\ down'[d] = down[d]
      BY <1>3 DEF ReadAck, IInv, TypeOK, LinkTypes
    <2>2. Sent(Tail(down[c])) \subseteq Sent(down[c])
      BY <2>1, HeadOf
    <2> QED  BY <2>1, <2>2, HeardKept
  <1>4. CASE ReadRejected(c) \/ Broken(c) \/ Abandon(c) \/ SavePeer(c)
    <2>1. /\ cpc'[c] = "off" /\ UNCHANGED <<target, heard, down>>
          /\ \A d \in Connectors \ {c} : cpc'[d] = cpc[d]
      BY <1>4 DEF ReadRejected, Broken, Abandon, Leave, SavePeer, IInv, TypeOK
    <2> QED  BY <2>1, HeardKept
  <1> QED  BY <1>1, <1>2, <1>3, <1>4, ConnectDials, PeerDialsDials DEF IInv, ConnectorStep

\* Only the two saves write a configuration.
LEMMA SavedStep ==
  ASSUME IInv, HeardInv, SavedAddress, [Next]_vars
  PROVE  SavedAddress'
  <1> USE DEF lvars, cvars, link
  <1>1. CASE UNCHANGED book
    BY <1>1 DEF SavedAddress
  <1>2. ASSUME NEW l \in Listeners, Save(l) PROVE SavedAddress'
    <2>1. /\ serving[l] \in Connectors /\ address[l] \in {l, NoAddress}
          /\ MachineOf[serving[l]] \in Machines
      BY <1>2, ServingFacts, NodesAssumption DEF Save, IInv, TypeOK
    <2>2. CASE book' = [book EXCEPT ![l] = {p \in @ : p.peer # MachineOf[serving[l]]}
                         \cup {[peer |-> MachineOf[serving[l]], address |-> address[l]]}]
      BY <2>1, <2>2 DEF SavedAddress, IInv, TypeOK
    <2> QED  BY <1>1, <1>2, <2>2 DEF Save
  <1>3. ASSUME NEW c \in Connectors, SavePeer(c) PROVE SavedAddress'
    <2>1. /\ heard[c] \in {target[c], NoAddress} /\ target[c] \in Listeners
          /\ MachineOf[c] \in Machines
      BY <1>3, NodesAssumption DEF SavePeer, HeardInv, IInv, LinkInv
    <2>2. CASE book' = [book EXCEPT ![MachineOf[c]] = {p \in @ : p.peer # target[c]}
                         \cup {[peer |-> target[c], address |-> heard[c]]}]
      BY <2>1, <2>2 DEF SavedAddress, IInv, TypeOK
    <2> QED  BY <1>1, <1>3, <2>2 DEF SavePeer
  <1>4. ASSUME NEW l \in Listeners, StartConnect(l) \/ ListenerStep(l) \/ TimeOut(l), ~Save(l)
        PROVE  UNCHANGED book
    BY <1>4 DEF StartConnect, ListenerStep, TimeOut, Accept, AcceptRequest, RejectRequest,
       ConnectionFails, Respond, FinishHandshake, AckFails, ReturnWithoutHandshake
  <1>5. ASSUME NEW c \in Connectors, ConnectorStep(c), ~SavePeer(c) PROVE UNCHANGED book
    BY <1>5 DEF ConnectorStep, Connect, PeerDials, ReadAccepted, ReadRejected, Broken, Abandon, Leave, ReadAck
  <1> QED  BY <1>1, <1>2, <1>3, <1>4, <1>5 DEF Next, vars

\* What a machine saves of another one: connect the address of the machine it
\* dialed, or none; start-connect never an address of the connector, only its own
\* or none (pairing.rs:411-481, 609, 903).
THEOREM AddressesSaved == Spec => []SavedAddress
  <1>1. Init => HeardInv /\ SavedAddress
    BY NothingSent DEF Init, HeardInv, SavedAddress
  <1>2. ASSUME IInv, HeardInv, [Next]_vars PROVE HeardInv'
    <2>1. CASE UNCHANGED vars
      BY <1>2, <2>1 DEF vars, cvars, link, HeardInv
    <2> QED  BY <1>2, <2>1, ListenerHeardStep, ConnectorHeardStep DEF Next
  <1>3. ASSUME IInv, HeardInv, SavedAddress, [Next]_vars PROVE SavedAddress'
    BY <1>3, SavedStep
  <1> QED  BY <1>1, <1>2, <1>3, Invariance, PTL DEF Spec
=============================================================================
