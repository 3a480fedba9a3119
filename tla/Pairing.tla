------------------------------- MODULE Pairing -------------------------------
(***************************************************************************)
(* Pairing two machines (pairing.rs, and the commands start-connect and    *)
(* connect of main.rs).  A listener shows a code, accepts one connection    *)
(* after the other and returns with the first that pairs; a connector finds *)
(* an address in the virtual network, which need not be that of the machine *)
(* whose code it was given, and sends the token of the code.                *)
(*                                                                         *)
(* A token is four random bytes; here every session has its own.  A        *)
(* connection is a pair of FIFO channels; when one end has closed, the     *)
(* other end may find out before or after it reads what is left.           *)
(***************************************************************************)
EXTENDS Naturals, Sequences

CONSTANTS Listeners,
          Connectors,      \* runs of connect, or dials of a serve, a connection each
          Machines,        \* that the connectors run on
          MachineOf,
          NoNode, NoAddress,
          MaxSessions      \* bound: runs of start-connect, each listener

ASSUME NodesAssumption == /\ MachineOf \in [Connectors -> Machines]
                          /\ NoNode \notin Listeners \cup Connectors
                          /\ NoAddress \notin Listeners
ASSUME BoundsAssumption == MaxSessions \in Nat

VARIABLES
  session,    \* latest session of a listener: its auth_token
  lpc,        \* where start-connect is
  serving,    \* connector whose connection is being handled
  address,    \* the virtual_ip found for the response
  cpc,        \* where connect is
  code,       \* the code it was given: a listener and one of its sessions
  target,     \* the listener it dialed
  up, down,   \* the connection of a connector, both directions
  lopen, copen,    \* the ends that are open
  heard,      \* the virtual_ip in the response a connector read
  book,       \* network.peers in the configuration of every machine
  pairedL,    \* ghost: pairings wait_for_pairing returned
  pairedC     \* ghost: pairings connect returned

lvars == <<session, lpc, serving, address>>
cvars == <<cpc, code, target, heard>>
link  == <<up, down, lopen, copen>>
vars  == <<lvars, cvars, link, book, pairedL, pairedC>>

Codes    == [listener : Listeners, session : 1 .. MaxSessions]
Waiting  == {"accept", "request", "address", "handshake"}
NoCode   == [listener |-> NoNode, session |-> 0]
Pairings == [listener : Listeners, session : 1 .. MaxSessions, connector : Connectors]
Peers    == [peer : Listeners \cup Machines, address : Listeners \cup {NoAddress}]

Init ==
  /\ session = [l \in Listeners |-> 0] /\ lpc = [l \in Listeners |-> "off"]
  /\ serving = [l \in Listeners |-> NoNode] /\ address = [l \in Listeners |-> NoAddress]
  /\ cpc = [c \in Connectors |-> "new"]
  /\ code = [c \in Connectors |-> NoCode] /\ target = [c \in Connectors |-> NoNode]
  /\ heard = [c \in Connectors |-> NoAddress]
  /\ up = [c \in Connectors |-> <<>>] /\ down = [c \in Connectors |-> <<>>]
  /\ lopen = [c \in Connectors |-> FALSE] /\ copen = [c \in Connectors |-> FALSE]
  /\ book = [n \in Listeners \cup Machines |-> {}]
  /\ pairedL = {} /\ pairedC = {}

-----------------------------------------------------------------------------
(* The listener: handle_start_connect, wait_for_pairing,                   *)
(* handle_pairing_connection.                                              *)

StartConnectVariant(l) ==   \* the code is the one of the last run
  /\ lpc[l] = "off" /\ session[l] < MaxSessions
  /\ lpc' = [lpc EXCEPT ![l] = "accept"]
  /\ session' = [session EXCEPT ![l] = IF @ = 0 THEN 1 ELSE @]
  /\ UNCHANGED <<serving, address, cvars, link, book, pairedL, pairedC>>

StartConnect(l) ==
  /\ lpc[l] = "off" /\ session[l] < MaxSessions
  /\ lpc' = [lpc EXCEPT ![l] = "accept"]
  /\ session' = [session EXCEPT ![l] = @ + 1]
  /\ UNCHANGED <<serving, address, cvars, link, book, pairedL, pairedC>>

Accept(l, c) ==
  /\ lpc[l] = "accept" /\ target[c] = l /\ lopen[c]
  /\ lpc' = [lpc EXCEPT ![l] = "request"]
  /\ serving' = [serving EXCEPT ![l] = c]
  /\ UNCHANGED <<session, address, cvars, link, book, pairedL, pairedC>>

DropVariant(l) ==   \* the stream outlives the exchange
  /\ lpc' = [lpc EXCEPT ![l] = "accept"]
  /\ UNCHANGED <<serving, lopen>>

\* handle_pairing_connection returns an error: its stream is dropped, the next
\* connection is accepted.
Drop(l) ==
  /\ lpc' = [lpc EXCEPT ![l] = "accept"]
  /\ serving' = [serving EXCEPT ![l] = NoNode]
  /\ lopen' = [lopen EXCEPT ![serving[l]] = FALSE]

GoodRequestVariant(l, r) == r.type = "request" /\ r.version   \* the token is not compared

GoodRequest(l, r) ==
  r.type = "request" /\ r.token = [listener |-> l, session |-> session[l]] /\ r.version

\* Token and version are right: the virtual_ip is looked up next.
AcceptRequest(l) ==
  LET c == serving[l]
  IN /\ lpc[l] = "request" /\ up[c] # <<>> /\ GoodRequest(l, Head(up[c]))
     /\ lpc' = [lpc EXCEPT ![l] = "address"]
     /\ up' = [up EXCEPT ![c] = Tail(@)]
     /\ UNCHANGED <<session, serving, address, cvars, down, lopen, copen, book, pairedL, pairedC>>

\* Another message is not answered.  The refusal may fail to be sent, with the same
\* outcome here.
RejectRequest(l) ==
  LET c == serving[l]
  IN /\ lpc[l] = "request" /\ up[c] # <<>> /\ ~GoodRequest(l, Head(up[c]))
     /\ up' = [up EXCEPT ![c] = Tail(@)]
     /\ \/ /\ Head(up[c]).type = "request"
           /\ down' = [down EXCEPT ![c] = Append(@, [type |-> "rejected"])]
        \/ /\ Head(up[c]).type # "request" \/ ~copen[c]
           /\ UNCHANGED down
     /\ Drop(l)
     /\ UNCHANGED <<session, address, cvars, copen, book, pairedL, pairedC>>

\* Nothing to read, or nobody to answer: the connector has closed its end.
ConnectionFails(l) ==
  /\ lpc[l] \in {"request", "address"} /\ ~copen[serving[l]]
  /\ Drop(l)
  /\ UNCHANGED <<session, address, cvars, up, down, copen, book, pairedL, pairedC>>

\* ip: the virtual_ip of this machine, unless easytier-cli and the interfaces did
\* not tell it in ten attempts.
Respond(l, ip) ==
  /\ lpc[l] = "address"
  /\ lpc' = [lpc EXCEPT ![l] = "handshake"]
  /\ address' = [address EXCEPT ![l] = ip]
  /\ down' = [down EXCEPT ![serving[l]] = Append(@, [type |-> "accepted", ip |-> ip])]
  /\ UNCHANGED <<session, serving, cvars, up, lopen, copen, book, pairedL, pairedC>>

Pairing(l) == [listener |-> l, session |-> session[l], connector |-> serving[l]]

FinishHandshakeVariant(l) ==   \* the listener goes on accepting
  LET c == serving[l]
  IN /\ lpc[l] = "handshake" /\ up[c] # <<>>
     /\ up' = [up EXCEPT ![c] = Tail(@)]
     /\ down' = [down EXCEPT ![c] = Append(@, [type |-> "ack"])]
     /\ pairedL' = pairedL \cup {Pairing(l)}
     /\ Drop(l)
     /\ UNCHANGED <<session, address, cvars, copen, book, pairedC>>

\* The handshake is acknowledged and wait_for_pairing returns.
FinishHandshake(l) ==
  LET c == serving[l]
  IN /\ lpc[l] = "handshake" /\ up[c] # <<>>
     /\ up' = [up EXCEPT ![c] = Tail(@)]
     /\ down' = [down EXCEPT ![c] = Append(@, [type |-> "ack"])]
     /\ lpc' = [lpc EXCEPT ![l] = "save"]
     /\ pairedL' = pairedL \cup {Pairing(l)}
     /\ UNCHANGED <<session, serving, address, cvars, lopen, copen, book, pairedC>>

\* `?`: the handshake was read but the acknowledgement cannot be sent.
AckFails(l) ==
  /\ lpc[l] = "handshake" /\ up[serving[l]] # <<>> /\ ~copen[serving[l]]
  /\ up' = [up EXCEPT ![serving[l]] = Tail(@)]
  /\ Drop(l)
  /\ UNCHANGED <<session, address, cvars, down, copen, book, pairedL, pairedC>>

\* The connector went away before its handshake: the pairing is returned all the
\* same, without an address.
ReturnWithoutHandshake(l) ==
  /\ lpc[l] = "handshake" /\ ~copen[serving[l]]
  /\ lpc' = [lpc EXCEPT ![l] = "save"]
  /\ address' = [address EXCEPT ![l] = NoAddress]
  /\ pairedL' = pairedL \cup {Pairing(l)}
  /\ UNCHANGED <<session, serving, cvars, link, book, pairedC>>

\* The process ends: every connection made to it is closed.
StopListening(l) ==
  /\ lpc' = [lpc EXCEPT ![l] = "off"]
  /\ serving' = [serving EXCEPT ![l] = NoNode]
  /\ address' = [address EXCEPT ![l] = NoAddress]
  /\ lopen' = [c \in Connectors |-> lopen[c] /\ target[c] # l]

\* save_peer_to_config, which may fail; the error is printed.
Save(l) ==
  /\ lpc[l] = "save"
  /\ \/ book' = [book EXCEPT ![l] = {p \in @ : p.peer # MachineOf[serving[l]]}
                       \cup {[peer |-> MachineOf[serving[l]], address |-> address[l]]}]
     \/ UNCHANGED book
  /\ StopListening(l)
  /\ UNCHANGED <<session, cvars, up, down, copen, pairedL, pairedC>>

TimeOutVariant(l) ==   \* the timeout is that of accept
  /\ lpc[l] = "accept"
  /\ StopListening(l)
  /\ UNCHANGED <<session, cvars, up, down, copen, book, pairedL, pairedC>>

\* The timeout covers the connection being handled too.
TimeOut(l) ==
  /\ lpc[l] \in Waiting
  /\ StopListening(l)
  /\ UNCHANGED <<session, cvars, up, down, copen, book, pairedL, pairedC>>

-----------------------------------------------------------------------------
(* The connector: handle_connect, PairingConnector::connect.               *)

\* The token of a code that was shown, by the machine it came from or by another
\* one, is sent to a machine that listens; v: the versions are the same.
Connect(c, k, l, v) ==
  /\ cpc[c] = "new"
  /\ k.session <= session[k.listener] /\ lpc[l] \in Waiting
  /\ cpc' = [cpc EXCEPT ![c] = "response"]
  /\ code' = [code EXCEPT ![c] = k] /\ target' = [target EXCEPT ![c] = l]
  /\ up' = [up EXCEPT ![c] = <<[type |-> "request", token |-> k, version |-> v]>>]
  /\ lopen' = [lopen EXCEPT ![c] = TRUE] /\ copen' = [copen EXCEPT ![c] = TRUE]
  /\ UNCHANGED <<lvars, heard, down, book, pairedL, pairedC>>

\* A serve dials its peers at the port that the listener shares with the daemon, and
\* begins with its handshake (network.rs:579-607).
PeerDials(c, l) ==
  /\ cpc[c] = "new" /\ lpc[l] \in Waiting
  /\ cpc' = [cpc EXCEPT ![c] = "response"]
  /\ target' = [target EXCEPT ![c] = l]
  /\ up' = [up EXCEPT ![c] = <<[type |-> "handshake"]>>]
  /\ lopen' = [lopen EXCEPT ![c] = TRUE] /\ copen' = [copen EXCEPT ![c] = TRUE]
  /\ UNCHANGED <<lvars, code, heard, down, book, pairedL, pairedC>>

ReadAcceptedVariant(c) ==   \* the acknowledgement is not waited for
  /\ cpc[c] = "response" /\ down[c] # <<>> /\ Head(down[c]).type = "accepted"
  /\ cpc' = [cpc EXCEPT ![c] = "save"]
  /\ heard' = [heard EXCEPT ![c] = Head(down[c]).ip]
  /\ down' = [down EXCEPT ![c] = Tail(@)]
  /\ up' = [up EXCEPT ![c] = Append(@, [type |-> "handshake"])]
  /\ pairedC' = pairedC \cup {[listener |-> target[c], session |-> code[c].session, connector |-> c]}
  /\ UNCHANGED <<lvars, code, target, lopen, copen, book, pairedL>>

\* The response accepts: the handshake is sent.
ReadAccepted(c) ==
  /\ cpc[c] = "response" /\ down[c] # <<>> /\ Head(down[c]).type = "accepted"
  /\ cpc' = [cpc EXCEPT ![c] = "ack"]
  /\ heard' = [heard EXCEPT ![c] = Head(down[c]).ip]
  /\ down' = [down EXCEPT ![c] = Tail(@)]
  /\ up' = [up EXCEPT ![c] = Append(@, [type |-> "handshake"])]
  /\ UNCHANGED <<lvars, code, target, lopen, copen, book, pairedL, pairedC>>

\* connect returns an error: rejected, the connection broke, or the user stops it.
Leave(c) ==
  /\ cpc' = [cpc EXCEPT ![c] = "off"]
  /\ copen' = [copen EXCEPT ![c] = FALSE]
  /\ UNCHANGED <<lvars, code, target, heard, up, down, lopen, book, pairedL, pairedC>>

ReadRejected(c) ==
  cpc[c] = "response" /\ down[c] # <<>> /\ Head(down[c]).type = "rejected" /\ Leave(c)

Broken(c) == cpc[c] \in {"response", "ack"} /\ ~lopen[c] /\ Leave(c)

Abandon(c) == cpc[c] \in {"response", "ack"} /\ Leave(c)

\* The acknowledgement: connect returns the pairing.
ReadAck(c) ==
  /\ cpc[c] = "ack" /\ down[c] # <<>>
  /\ cpc' = [cpc EXCEPT ![c] = "save"]
  /\ down' = [down EXCEPT ![c] = Tail(@)]
  /\ copen' = [copen EXCEPT ![c] = FALSE]
  /\ pairedC' = pairedC \cup {[listener |-> target[c], session |-> code[c].session, connector |-> c]}
  /\ UNCHANGED <<lvars, code, target, heard, up, lopen, book, pairedL>>

SavePeer(c) ==
  /\ cpc[c] = "save"
  /\ cpc' = [cpc EXCEPT ![c] = "off"]
  /\ \/ book' = [book EXCEPT ![MachineOf[c]] = {p \in @ : p.peer # target[c]}
                                  \cup {[peer |-> target[c], address |-> heard[c]]}]
     \/ UNCHANGED book
  /\ UNCHANGED <<lvars, code, target, heard, link, pairedL, pairedC>>

-----------------------------------------------------------------------------
ListenerStep(l) ==
  \/ \E c \in Connectors : Accept(l, c)
  \/ AcceptRequest(l) \/ RejectRequest(l) \/ ConnectionFails(l)
  \/ \E ip \in {l, NoAddress} : Respond(l, ip)
  \/ FinishHandshake(l) \/ AckFails(l) \/ ReturnWithoutHandshake(l) \/ Save(l)

ConnectorStep(c) ==
  \/ \E k \in Codes, l \in Listeners, v \in BOOLEAN : Connect(c, k, l, v)
  \/ \E l \in Listeners : PeerDials(c, l)
  \/ ReadAccepted(c) \/ ReadRejected(c) \/ Broken(c) \/ Abandon(c)
  \/ ReadAck(c) \/ SavePeer(c)

Next ==
  \/ \E l \in Listeners : StartConnect(l) \/ ListenerStep(l) \/ TimeOut(l)
  \/ \E c \in Connectors : ConnectorStep(c)

Spec == Init /\ [][Next]_vars

\* The timer of wait_for_pairing fires in the end, and a pairing it returned is
\* saved or not; no connector is assumed to do anything.
FairSpec == Spec /\ \A l \in Listeners : WF_vars(TimeOut(l)) /\ WF_vars(Save(l))

-----------------------------------------------------------------------------
(* Properties.                                                             *)

\* Every variable keeps its type (pairing.rs:317-619).
TypeOK ==
  /\ session \in [Listeners -> 0 .. MaxSessions]
  /\ lpc \in [Listeners -> {"off", "accept", "request", "address", "handshake", "save"}]
  /\ serving \in [Listeners -> Connectors \cup {NoNode}]
  /\ \A l \in Listeners : serving[l] = NoNode <=> lpc[l] \in {"off", "accept"}
  /\ \A l \in Listeners : address[l] \in {l, NoAddress}
  /\ cpc \in [Connectors -> {"new", "off", "response", "ack", "save"}]
  /\ code \in [Connectors -> Codes \cup {NoCode}]
  /\ target \in [Connectors -> Listeners \cup {NoNode}]
  /\ heard \in [Connectors -> Listeners \cup {NoAddress}]
  /\ lopen \in [Connectors -> BOOLEAN] /\ copen \in [Connectors -> BOOLEAN]
  /\ book \in [Listeners \cup Machines -> SUBSET Peers]
  /\ pairedL \subseteq Pairings /\ pairedC \subseteq Pairings

\* A connector that reports success was paired by the listener too, in this very
\* run and for the code it was given: no machine saves a peer that rejected it,
\* nor another machine than the one that showed the code, whichever it dialed
\* (pairing.rs:509-619).
BothSidesPaired == pairedC \subseteq pairedL

\* A code pairs one connector, once: the listener returns with the first
\* (pairing.rs:332).
CodePairsOnce ==
  \A p, q \in pairedL : p.listener = q.listener /\ p.session = q.session => p = q

\* A listener pairs only with a run that was given its present code: an old code,
\* or that of another machine, pairs nobody (pairing.rs:376-386).
CodeWasGiven ==
  \A p \in pairedL : code[p.connector] = [listener |-> p.listener, session |-> p.session]

\* start-connect ends, even when a connector stops in the middle of the exchange
\* (pairing.rs:327-350).
ListenerEnds == \A l \in Listeners : lpc[l] # "off" ~> lpc[l] = "off"

\* "配对成功后获得的远端节点信息" (pairing.rs:261): the information a successful
\* pairing returns is that of the remote machine.  The listener returns, and saves,
\* its own virtual_ip as the address of the connector.
AddressIsRemote ==
  \A l \in Listeners : \A p \in book[l] : p.address # l
=============================================================================
