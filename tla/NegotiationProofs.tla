-------------------------- MODULE NegotiationProofs --------------------------
(***************************************************************************)
(* Proofs about Negotiation for any set of clients, any trees and sizes,    *)
(* with or without loss, overlap and interrupted runs.                      *)
(***************************************************************************)
EXTENDS NegotiationInvariant, TLAPS

\* What a client sends is a datagram of its own, or is lost, or finds no socket.
LEMMA SendToServerEffect ==
    ASSUME NEW c \in Clients, NEW type \in DatagramType, SendToServer(c, type)
    PROVE  /\ \A m \in toServer : m \in toServer'
           /\ \A m \in toServer' : m \in toServer \/ m = [from |-> c, type |-> type]
           /\ ~UdpPortOpen => toServer' = toServer
BY DEF SendToServer

\* A reply changes no other client's queue, and its own only by whole messages.
LEMMA ReplyEffect ==
    ASSUME NEW c \in Clients, NEW bodies \in Seq(Message), Reply(c, bodies),
           toClient \in [Clients -> Seq(Message)]
    PROVE  /\ toClient' \in [Clients -> Seq(Message)]
           /\ \A d \in Clients \ {c} : toClient'[d] = toClient[d]
           /\ cPhase[c] \notin OnUdpSocket => toClient' = toClient
<1>1. PICK delivered \in Deliverable(bodies) :
          toClient' = IF cPhase[c] \in OnUdpSocket
                      THEN [toClient EXCEPT ![c] = @ \o delivered]
                      ELSE toClient
  BY DEF Reply
<1>2. delivered \in Seq(Message)
  <2>1. \A i \in DOMAIN bodies : <<bodies[i]>> \in Seq(Message)
    OBVIOUS
  <2>2. <<>> \in Seq(Message)
    OBVIOUS
  <2> QED BY <1>1, <2>1, <2>2 DEF Deliverable
<1>3. toClient[c] \o delivered \in Seq(Message)
  BY <1>2
<1> QED BY <1>1, <1>3

\* A reply to nobody changes nothing.
LEMMA ReplyToNobody ==
    ASSUME NEW c, c \notin Clients, NEW bodies, Reply(c, bodies),
           toClient \in [Clients -> Seq(Message)]
    PROVE  toClient' = toClient
<1>1. \A q : [toClient EXCEPT ![c] = q] = toClient
  OBVIOUS
<1> QED BY <1>1 DEF Reply

\* A single message is delivered once or not at all.
LEMMA ReplyOnce ==
    ASSUME NEW c \in Clients, NEW text \in Message, Reply(c, <<text>>),
           toClient \in [Clients -> Seq(Message)], toClient[c] = <<>>
    PROVE  toClient'[c] \in {<<>>, <<text>>}
<1>1. PICK delivered \in Deliverable(<<text>>) :
          toClient' = IF cPhase[c] \in OnUdpSocket
                      THEN [toClient EXCEPT ![c] = @ \o delivered]
                      ELSE toClient
  BY DEF Reply
<1>2. delivered = <<>> \/ delivered = <<text>>
  <2>1. DOMAIN <<text>> = {1} /\ <<text>>[1] = text
    OBVIOUS
  <2> QED BY <1>1, <2>1 DEF Deliverable
<1>3. <<>> \o delivered = delivered
  BY <1>2
<1> QED BY <1>1, <1>2, <1>3
-----------------------------------------------------------------------------
USE DEF ServerPhase, ClientPhase, Running, OnUdpSocket, ClientUdpSession, Ended,
        Handshake, UdpSession, TcpSession

\* Every datagram a client can send is of a known type.
LEMMA SendToServerType ==
    ASSUME NEW c \in Clients, NEW type \in DatagramType, SendToServer(c, type),
           toServer \subseteq Datagram
    PROVE  toServer' \subseteq Datagram
BY SendToServerEffect DEF Datagram

\* A client step keeps the types.
LEMMA ClientStepType ==
    ASSUME TypeOK, NEW c \in Clients,
           StartClient(c) \/ ClientStep(c) \/ Kill(c)
    PROVE  TypeOK'
<1> USE DEF TypeOK
<1>1. /\ \A phase \in ClientPhase :
            Goto(c, phase) => cPhase' \in [Clients -> ClientPhase]
      /\ \A phase \in ClientPhase :
            Leave(c, phase) => /\ cPhase' \in [Clients -> ClientPhase]
                               /\ toClient' \in [Clients -> Seq(Message)]
  <2>1. <<>> \in Seq(Message)
    OBVIOUS
  <2> QED BY <2>1 DEF Goto, Leave
<1>2. toClient[c] # <<>> /\ Consume(c) => toClient' \in [Clients -> Seq(Message)]
  BY DEF Consume
<1>3. \A type \in DatagramType :
          SendToServer(c, type) => toServer' \subseteq Datagram
  BY SendToServerType
<1>4. {"count", "array", "mode", "ackOffset", "counts"} \subseteq DatagramType
  BY DEF DatagramType
<1>5. CASE StartClient(c)
  BY <1>1, <1>3, <1>4, <1>5 DEF StartClient, serverVars
<1>6. CASE RecvCountReply(c)
  BY <1>1, <1>2, <1>3, <1>4, <1>6 DEF RecvCountReply, serverVars
<1>7. CASE RecvArrayReply(c)
  BY <1>1, <1>2, <1>3, <1>4, <1>7 DEF RecvArrayReply, serverVars
<1>8. CASE RecvStart(c)
  BY <1>1, <1>2, <1>8 DEF RecvStart, serverVars
<1>9. CASE Connect(c)
  BY <1>1, <1>9 DEF Connect, serverVars
<1>10. CASE FinishTcp(c)
  BY <1>1, <1>10 DEF FinishTcp, serverVars
<1>11. CASE RecvOffset(c) \/ RecvIndex(c)
  BY <1>1, <1>2, <1>3, <1>4, <1>11 DEF RecvOffset, RecvIndex, RecvUdp, serverVars
<1>12. CASE RecvEcho(c)
  BY <1>1, <1>2, <1>12 DEF RecvEcho, serverVars
<1>13. CASE RecvVerdict(c)
  BY <1>1, <1>13 DEF RecvVerdict, serverVars
<1>14. CASE Kill(c)
  BY <1>1, <1>14 DEF Kill, serverVars
<1> QED
  BY <1>5, <1>6, <1>7, <1>8, <1>9, <1>10, <1>11, <1>12, <1>13, <1>14
  DEF ClientStep

\* A server step keeps the types; the counts it reads come from the clients.
LEMMA ServerStepType ==
    ASSUME TypeOK, ServerStep
    PROVE  TypeOK'
<1> USE ClientsAssumption DEF TypeOK
<1>1. \A text \in Message : <<text>> \in Seq(Message)
  OBVIOUS
<1>2. {"File count", "path array", "Start", "offset", "index", "echo", "verdict"}
        \subseteq Message
  BY DEF Message
<1>3. ASSUME NEW c \in Clients, NEW text \in Message, Reply(c, <<text>>)
      PROVE  toClient' \in [Clients -> Seq(Message)]
  BY <1>1, <1>3, ReplyEffect
<1>4. Exit => sPhase' \in ServerPhase /\ toServer' \subseteq Datagram
  BY DEF Exit
<1>5. ASSUME NEW m \in toServer, ServerCount(m)
      PROVE  TypeOK'
  <2>1. m.from \in Clients /\ Atoi(m) \in Nat
    BY DEF Datagram, Atoi
  <2> QED BY <1>2, <1>3, <1>4, <1>5, <2>1 DEF ServerCount, Unfilled
<1>6. ASSUME NEW m \in toServer, ServerArray(m)
      PROVE  TypeOK'
  <2>1. m.from \in Clients /\ m \in Datagram
    BY DEF Datagram
  <2> QED BY <1>2, <1>3, <1>6, <2>1 DEF ServerArray, Unfilled
<1>7. ASSUME NEW m \in toServer, ServerMode(m)
      PROVE  TypeOK'
  <2>1. m.from \in Clients
    BY DEF Datagram
  <2> QED BY <1>2, <1>3, <1>4, <1>7, <2>1 DEF ServerMode
<1>8. ASSUME NEW m \in toServer, UdpAck(m)
      PROVE  TypeOK'
  <2>1. m.from \in Clients
    BY DEF Datagram
  <2> QED BY <1>2, <1>3, <1>8, <2>1 DEF UdpAck
<1>9. ASSUME NEW m \in toServer, UdpCounts(m)
      PROVE  TypeOK'
  <2>1. m.from \in Clients
    BY DEF Datagram
  <2>2. <<"echo", "verdict">> \in Seq(Message)
    <3>1. "echo" \in Message /\ "verdict" \in Message
      BY DEF Message
    <3>2. \A a, b \in Message : <<a, b>> \in Seq(Message)
      OBVIOUS
    <3> QED BY <3>1, <3>2
  <2>3. toClient' \in [Clients -> Seq(Message)]
    BY <1>9, <2>1, <2>2, ReplyEffect DEF UdpCounts
  <2> QED BY <1>9, <2>1, <2>3 DEF UdpCounts
<1>10. CASE Listen
  BY <1>10 DEF Listen, clientVars
<1>11. ASSUME NEW c \in Clients, Accept(c)
       PROVE  TypeOK'
  BY <1>11 DEF Accept, clientVars
<1>12. CASE EndTcp
  <2>1. \A q \in Seq(Message) : Append(q, "verdict") \in Seq(Message)
    <3>1. "verdict" \in Message
      BY DEF Message
    <3> QED BY <3>1
  <2>2. toClient' \in [Clients -> Seq(Message)]
    BY <1>12, <2>1 DEF EndTcp
  <2> QED BY <1>12, <2>2 DEF EndTcp
<1>13. CASE BrokenTcp
  BY <1>4, <1>13 DEF BrokenTcp, clientVars
<1>14. CASE SendOffset
  <2>1. CASE cli \in Clients
    BY <1>2, <1>3, <1>14, <2>1 DEF SendOffset
  <2>2. CASE cli \notin Clients
    BY <1>14, <2>2, ReplyToNobody DEF SendOffset
  <2> QED BY <2>1, <2>2
<1>15. CASE CloseSession \/ NextSession
  BY <1>15 DEF CloseSession, NextSession, clientVars
<1> QED
  BY <1>5, <1>6, <1>7, <1>8, <1>9, <1>10, <1>11, <1>12, <1>13, <1>14, <1>15
  DEF ServerStep

\* Type correctness, whatever the network and the users do.
THEOREM TypeCorrect == Spec => []TypeOK
<1>1. Init => TypeOK
  <2>1. <<>> \in Seq(Message)
    OBVIOUS
  <2> QED BY <2>1 DEF Init, TypeOK
<1>2. TypeOK /\ [Next]_vars => TypeOK'
  <2>1. CASE UNCHANGED vars
    BY <2>1 DEF TypeOK, vars, serverVars, clientVars
  <2> QED
    BY <2>1, ClientStepType, ServerStepType DEF Next
<1> QED BY <1>1, <1>2, PTL DEF Spec
-----------------------------------------------------------------------------
\* What a step of client c leaves alone: the server, the other clients, and what
\* is queued at the server except for one request of c's own.
LeavesOthers(c) ==
    /\ UNCHANGED serverVars
    /\ \A d \in Clients \ {c} : cPhase'[d] = cPhase[d] /\ toClient'[d] = toClient[d]
    /\ \A m \in toServer' : m \in toServer \/ m.from = c
    /\ ~UdpPortOpen => toServer' = toServer
    /\ cPhase[c] # "connect" => backlog' = backlog

LEMMA ClientLeavesOthers ==
    ASSUME TypeOK, NEW c \in Clients, StartClient(c) \/ ClientStep(c) \/ Kill(c)
    PROVE  LeavesOthers(c)
<1> USE DEF TypeOK, LeavesOthers, serverVars
<1>1. ASSUME NEW phase, Goto(c, phase)
      PROVE  \A d \in Clients \ {c} : cPhase'[d] = cPhase[d]
  BY <1>1 DEF Goto
<1>2. ASSUME NEW phase, Leave(c, phase)
      PROVE  \A d \in Clients \ {c} : cPhase'[d] = cPhase[d] /\ toClient'[d] = toClient[d]
  BY <1>2 DEF Goto, Leave
<1>3. Consume(c) => \A d \in Clients \ {c} : toClient'[d] = toClient[d]
  BY DEF Consume
<1>4. ASSUME NEW type \in DatagramType, SendToServer(c, type)
      PROVE  /\ \A m \in toServer' : m \in toServer \/ m.from = c
             /\ ~UdpPortOpen => toServer' = toServer
  BY <1>4, SendToServerEffect
<1>5. {"count", "array", "mode", "ackOffset", "counts"} \subseteq DatagramType
  BY DEF DatagramType
<1>6. CASE StartClient(c)
  BY <1>1, <1>4, <1>5, <1>6 DEF StartClient
<1>7. CASE RecvCountReply(c)
  BY <1>1, <1>2, <1>3, <1>4, <1>5, <1>7 DEF RecvCountReply
<1>8. CASE RecvArrayReply(c)
  BY <1>1, <1>3, <1>4, <1>5, <1>8 DEF RecvArrayReply
<1>9. CASE RecvStart(c)
  BY <1>1, <1>2, <1>3, <1>9 DEF RecvStart
<1>10. CASE Connect(c)
  BY <1>1, <1>10 DEF Connect
<1>11. CASE FinishTcp(c) \/ RecvVerdict(c) \/ Kill(c)
  BY <1>2, <1>11 DEF FinishTcp, RecvVerdict, Kill
<1>12. CASE RecvOffset(c) \/ RecvIndex(c)
  BY <1>1, <1>3, <1>4, <1>5, <1>12 DEF RecvOffset, RecvIndex, RecvUdp
<1>13. CASE RecvEcho(c)
  BY <1>1, <1>3, <1>13 DEF RecvEcho
<1> QED
  BY <1>6, <1>7, <1>8, <1>9, <1>10, <1>11, <1>12, <1>13 DEF ClientStep

\* A role is a statement about one client only, so c's steps keep the others'.
LEMMA OthersKeepRoles ==
    ASSUME NEW c \in Clients, NEW d \in Clients \ {c}, LeavesOthers(c)
    PROVE  /\ \A types : Sends(d, types) => Sends(d, types)'
           /\ Silent(d) => Silent(d)'
           /\ Counted(d) => Counted(d)'
           /\ Listed(d) => Listed(d)'
           /\ Doomed(d) => Doomed(d)'
           /\ Stranded(d) => Stranded(d)'
           /\ Started(d) /\ backlog' = backlog => Started(d)'
<1>1. \A types : Sends(d, types) => Sends(d, types)'
  BY DEF LeavesOthers, Sends
<1> QED
  BY <1>1 DEF LeavesOthers, Silent, Counted, Listed, Doomed, Stranded, Started

\* Consuming the only message of a queue empties it.
LEMMA ConsumeOnly ==
    ASSUME TypeOK, OneOutstanding, NEW c \in Clients, toClient[c] # <<>>, Consume(c)
    PROVE  toClient'[c] = <<>>
<1>1. PICK text \in Message : toClient[c] = <<text>>
  BY DEF OneOutstanding
<1>2. Tail(<<text>>) = <<>>
  OBVIOUS
<1> QED BY <1>1, <1>2 DEF Consume, TypeOK

\* What a step of client c does to c's own state when nobody goes over to UDP.
Advances(c) ==
    /\ toClient'[c] = <<>>
    /\ \A m \in toServer' :
          \/ m \in toServer
          \/ /\ m = [from |-> c, type |-> cPhase'[c]]
             /\ cPhase'[c] \in Handshake
             /\ cPhase[c] # cPhase'[c]
    /\ \/ cPhase[c] = "idle" /\ cPhase'[c] = "count"
       \/ cPhase[c] = "count" /\ toClient[c] # <<>> /\ cPhase'[c] \in {"array", "unsent"}
       \/ cPhase[c] = "array" /\ toClient[c] # <<>> /\ cPhase'[c] = "mode"
       \/ cPhase[c] = "mode" /\ toClient[c] = <<"Start">>
             /\ cPhase'[c] = IF Choose(c) = "TCP" THEN "connect" ELSE "done"
       \/ /\ cPhase[c] = "mode" /\ toClient[c] \notin {<<>>, <<"Start">>}
          /\ cPhase'[c] = "notReady"
       \/ /\ cPhase[c] = "connect" /\ cPhase'[c] = "tcp"
          /\ TcpPortOpen /\ backlog' = backlog \cup {c}
       \/ /\ cPhase[c] = "connect" /\ cPhase'[c] = "refused"
          /\ ~TcpPortOpen /\ backlog' = backlog
       \/ cPhase[c] = "tcp" /\ toClient[c] # <<>> /\ cPhase'[c] = "done"
       \/ cPhase[c] \in Running /\ cPhase'[c] = "killed" /\ backlog' = backlog

LEMMA ClientAdvances ==
    ASSUME NoUdp, TypeOK, OneOutstanding, NEW c \in Clients,
           StartClient(c) \/ ClientStep(c) \/ Kill(c)
    PROVE  Advances(c)
<1> USE DEF TypeOK, Advances
<1>1. ASSUME NEW phase, Goto(c, phase)
      PROVE  cPhase'[c] = phase
  BY <1>1 DEF Goto
<1>2. ASSUME NEW phase, Leave(c, phase)
      PROVE  cPhase'[c] = phase /\ toClient'[c] = <<>>
  BY <1>2 DEF Goto, Leave
<1>3. toClient[c] # <<>> /\ Consume(c) => toClient'[c] = <<>>
  BY ConsumeOnly
<1>4. ASSUME NEW type \in DatagramType, SendToServer(c, type)
      PROVE  \A m \in toServer' : m \in toServer \/ m = [from |-> c, type |-> type]
  BY <1>4, SendToServerEffect
<1>5. {"count", "array", "mode", "ackOffset", "counts"} \subseteq DatagramType
  BY DEF DatagramType
<1>6. cPhase[c] \notin ClientUdpSession
  BY DEF OneOutstanding
<1>7. CASE StartClient(c)
  BY <1>1, <1>4, <1>5, <1>7 DEF StartClient, OneOutstanding
<1>8. CASE RecvCountReply(c)
  BY <1>1, <1>2, <1>3, <1>4, <1>5, <1>8 DEF RecvCountReply
<1>9. CASE RecvArrayReply(c)
  BY <1>1, <1>3, <1>4, <1>5, <1>9 DEF RecvArrayReply
<1>10. CASE RecvStart(c)
  <2>1. PICK text \in Message : toClient[c] = <<text>>
    BY <1>10 DEF OneOutstanding, RecvStart
  <2>2. /\ Head(toClient[c]) = text
        /\ <<text>> # <<>>
        /\ <<text>> = <<"Start">> <=> text = "Start"
    BY <2>1
  <2>3. Choose(c) # "UDP"
    BY DEF NoUdp
  <2>4. Choose(c) \in {"TCP", "UDP", "none"}
    BY ClientsAssumption DEF Choose, UdpLimit
  <2>5. \/ Leave(c, "connect") /\ Choose(c) = "TCP" /\ text = "Start"
        \/ Leave(c, "done") /\ Choose(c) = "none" /\ text = "Start"
        \/ Leave(c, "notReady") /\ text # "Start"
    BY <1>10, <2>2, <2>3, <2>4 DEF RecvStart, IsStart
  <2>6. cPhase[c] = "mode" /\ toServer' = toServer
    BY <1>10 DEF RecvStart
  <2> QED BY <1>2, <2>1, <2>2, <2>5, <2>6
<1>11. CASE Connect(c)
  BY <1>1, <1>11 DEF Connect, OneOutstanding
<1>12. CASE FinishTcp(c)
  BY <1>2, <1>12 DEF FinishTcp
<1>13. CASE Kill(c)
  BY <1>2, <1>13 DEF Kill
<1>14. CASE RecvOffset(c) \/ RecvIndex(c) \/ RecvEcho(c) \/ RecvVerdict(c)
  BY <1>6, <1>14 DEF RecvOffset, RecvIndex, RecvUdp, RecvEcho, RecvVerdict
<1> QED
  BY <1>7, <1>8, <1>9, <1>10, <1>11, <1>12, <1>13, <1>14 DEF ClientStep

\* Its own steps keep a client in whatever role it has.
LEMMA ClientKeepsRole ==
    ASSUME TypeOK, OneOutstanding, NEW c \in Clients, Advances(c), LeavesOthers(c)
    PROVE  /\ Silent(c) => Silent(c)'
           /\ Counted(c) => Counted(c)'
           /\ Listed(c) => Listed(c)'
           /\ Doomed(c) => Doomed(c)'
           /\ Stranded(c) => Stranded(c)'
<1>1. cPhase[c] # "killed" /\ (toClient[c] # <<>> \/ cPhase[c] = "idle")
        => \A m \in toServer : m.from # c
  BY DEF OneOutstanding
<1>2. <<"File count">> # <<>> /\ <<"path array">> # <<>> /\ <<"Start">> # <<>>
  OBVIOUS
<1>3. \A m \in toServer' : m.from = c =>
          m \in toServer \/ /\ m.type = cPhase'[c]
                            /\ cPhase'[c] \in Handshake
                            /\ cPhase[c] # cPhase'[c]
  BY DEF Advances
<1> USE <1>1, <1>2, <1>3 DEF Advances, Sends
<1>4. Silent(c) => Silent(c)'
  BY DEF Silent
<1>5. Counted(c) => Counted(c)'
  BY DEF Counted
<1>6. Listed(c) => Listed(c)'
  BY DEF Listed
<1>7. Doomed(c) => Doomed(c)'
  BY DEF Doomed
<1>8. Stranded(c) => Stranded(c)'
  BY DEF Stranded
<1> QED BY <1>4, <1>5, <1>6, <1>7, <1>8

\* A client's step leaves at most one thing under way for everybody.
LEMMA ClientOneOutstanding ==
    ASSUME TypeOK, OneOutstanding, NEW c \in Clients, Advances(c), LeavesOthers(c)
    PROVE  OneOutstanding'
<1> USE DEF OneOutstanding
<1>1. ASSUME NEW d \in Clients
      PROVE  /\ toClient'[d] = <<>> \/ \E text \in Message : toClient'[d] = <<text>>
             /\ toClient'[d] # <<>> => cPhase'[d] \in Handshake \cup {"tcp"}
             /\ cPhase'[d] \notin ClientUdpSession
  <2>1. CASE d = c
    BY <2>1 DEF Advances
  <2>2. CASE d # c
    BY <2>2 DEF LeavesOthers
  <2> QED BY <2>1, <2>2
<1>2. ASSUME NEW m \in toServer'
      PROVE  /\ m.type \in Handshake
             /\ cPhase'[m.from] \in {m.type, "killed"}
             /\ toClient'[m.from] = <<>>
  <2>1. CASE m.from # c
    <3>1. m \in toServer /\ m.from \in Clients \ {c}
      BY <1>2, <2>1 DEF LeavesOthers, TypeOK, Datagram
    <3> QED BY <3>1 DEF LeavesOthers
  <2>2. CASE m.from = c /\ m \in toServer
    BY <2>2 DEF Advances
  <2>3. CASE m = [from |-> c, type |-> cPhase'[c]] /\ cPhase'[c] \in Handshake
    BY <2>3 DEF Advances
  <2> QED BY <1>2, <2>1, <2>2, <2>3 DEF Advances
<1> QED BY <1>1, <1>2

\* A client's step keeps what the server's phase says of every client.
LEMMA ClientPhases ==
    ASSUME TypeOK, OneOutstanding, Phases, NEW c \in Clients,
           Advances(c), LeavesOthers(c)
    PROVE  Phases'
<1>1. /\ sPhase' = sPhase /\ cli' = cli
      /\ fileCount' = fileCount /\ fileInfo' = fileInfo
  BY DEF LeavesOthers, serverVars
<1>2. \A d \in Clients : /\ Silent(d) => Silent(d)'
                         /\ Counted(d) => Counted(d)'
                         /\ Listed(d) => Listed(d)'
                         /\ Doomed(d) => Doomed(d)'
                         /\ Stranded(d) => Stranded(d)'
  BY ClientKeepsRole, OthersKeepRoles
<1>3. OthersSilent => OthersSilent'
  BY <1>1, <1>2 DEF OthersSilent
<1>4. cPhase[c] = "connect" =>
          sPhase \in {"closedUdp", "listening"} /\ c = cli
  BY DEF Phases, InCount, InArray, InMode, InTcp, InExited, OthersSilent,
         Silent, Counted, Listed, Doomed, Stranded, TypeOK
<1>5. cPhase[c] # "connect" => backlog' = backlog
  BY DEF LeavesOthers
<1>6. sPhase \in TcpSession \cup {"exited"} => toServer' = toServer
  BY DEF LeavesOthers, UdpPortOpen
<1>7. CASE sPhase \in {"tcpOver", "unbound", "count"}
  BY <1>1, <1>2, <1>4, <1>5, <1>7 DEF Phases, InCount
<1>8. CASE sPhase = "array"
  BY <1>1, <1>2, <1>3, <1>4, <1>5, <1>8 DEF Phases, InArray
<1>9. CASE sPhase = "mode"
  BY <1>1, <1>2, <1>3, <1>4, <1>5, <1>9 DEF Phases, InMode, ListIsOf
<1>10. CASE sPhase = "exited"
  BY <1>1, <1>2, <1>6, <1>10 DEF Phases, InExited
<1>11. CASE sPhase \in TcpSession
  <2>1. InTcp'
    BY <1>1, <1>3, <1>6, <1>11 DEF Phases, InTcp, ListIsOf
  <2>2. cli \in Clients
    BY <1>11 DEF Phases, InTcp
  <2>3. CASE c # cli
    <3>1. backlog' = backlog
      BY <1>4, <1>5, <2>3
    <3>2. cPhase'[cli] = cPhase[cli] /\ toClient'[cli] = toClient[cli]
      BY <2>2, <2>3 DEF LeavesOthers
    <3>3. Started(cli) => Started(cli)'
      BY <1>1, <3>1, <3>2 DEF Started
    <3> QED BY <1>1, <1>11, <2>1, <3>1, <3>2, <3>3 DEF Phases
  <2>4. CASE c = cli /\ sPhase = "tcp"
    <3>1. cPhase'[cli] = "killed" /\ toClient'[cli] = <<>>
      BY <2>4 DEF Phases, Advances
    <3> QED BY <1>1, <1>4, <1>5, <2>1, <2>4, <3>1 DEF Phases
  <2>5. CASE c = cli /\ sPhase \in {"closedUdp", "listening"}
    <3>1. InTcp /\ Started(cli)
      BY <2>5 DEF Phases
    <3>2. <<"Start">> # <<>>
      OBVIOUS
    <3>3. Choose(cli) = "TCP"
      BY <3>1 DEF InTcp
    <3>4. Started(cli)'
      BY <1>1, <1>5, <2>5, <3>1, <3>2, <3>3 DEF Started, Advances, TcpPortOpen
    <3>5. sPhase = "closedUdp" => cPhase'[cli] # "tcp" /\ backlog' = {}
      BY <1>5, <2>5, <3>1 DEF Started, Advances, Phases, TcpPortOpen
    <3> QED BY <1>1, <2>1, <2>5, <3>4, <3>5 DEF Phases
  <2> QED BY <1>11, <2>3, <2>4, <2>5
<1> QED
  BY <1>7, <1>8, <1>9, <1>10, <1>11 DEF Phases, TypeOK
-----------------------------------------------------------------------------
\* Taking a datagram off the queue cannot cost a client its role.
LEMMA TakingKeepsRoles ==
    ASSUME NEW d \in Clients, cPhase' = cPhase, toClient'[d] = toClient[d],
           toServer' \subseteq toServer
    PROVE  /\ Silent(d) => Silent(d)'
           /\ Counted(d) => Counted(d)'
           /\ Listed(d) => Listed(d)'
           /\ Doomed(d) => Doomed(d)'
           /\ Stranded(d) => Stranded(d)'
BY DEF Sends, Silent, Counted, Listed, Doomed, Stranded

\* A server's recvfrom and the reply to it: the sender has nothing else queued,
\* unless it is dead, and then no reply reaches it.
LEMMA TakeAndReply ==
    ASSUME TypeOK, OneOutstanding, NEW m \in toServer, NEW text \in Message,
           Reply(m.from, <<text>>), toServer' \subseteq toServer \ {m},
           cPhase' = cPhase
    PROVE  /\ OneOutstanding'
           /\ m.from \in Clients
           /\ \A d \in Clients \ {m.from} : toClient'[d] = toClient[d]
           /\ toClient'[m.from] \in {<<>>, <<text>>}
           /\ cPhase[m.from] = "killed" => toClient'[m.from] = <<>>
           /\ \A k \in toServer' : k.from = m.from =>
                 cPhase[m.from] = "killed" /\ k.type # m.type
<1>1. m.from \in Clients /\ toClient[m.from] = <<>>
  BY DEF TypeOK, Datagram, OneOutstanding
<1>2. \A d \in Clients \ {m.from} : toClient'[d] = toClient[d]
  <2>1. <<text>> \in Seq(Message)
    OBVIOUS
  <2> QED BY <1>1, <2>1, ReplyEffect DEF TypeOK
<1>3. toClient'[m.from] \in {<<>>, <<text>>}
  BY <1>1, ReplyOnce DEF TypeOK
<1>4. cPhase[m.from] = "killed" => toClient'[m.from] = <<>>
  BY <1>1 DEF Reply
<1>5. \A k \in toServer' : k.from = m.from => k.type # m.type
  BY DEF TypeOK, Datagram
<1>6. \A k \in toServer' : k.from = m.from => cPhase[m.from] = "killed"
  BY <1>5 DEF OneOutstanding
<1>7. OneOutstanding'
  <2>1. ASSUME NEW d \in Clients
        PROVE  /\ toClient'[d] = <<>> \/ \E t \in Message : toClient'[d] = <<t>>
               /\ toClient'[d] # <<>> => cPhase'[d] \in Handshake \cup {"tcp"}
               /\ cPhase'[d] \notin ClientUdpSession
    <3>1. CASE d = m.from
      BY <1>3, <1>4, <3>1 DEF OneOutstanding
    <3>2. CASE d # m.from
      BY <1>2, <3>2 DEF OneOutstanding
    <3> QED BY <3>1, <3>2
  <2>2. ASSUME NEW k \in toServer'
        PROVE  /\ k.type \in Handshake
               /\ cPhase'[k.from] \in {k.type, "killed"}
               /\ toClient'[k.from] = <<>>
    <3>1. CASE k.from = m.from
      BY <1>4, <1>6, <2>2, <3>1 DEF OneOutstanding
    <3>2. CASE k.from # m.from
      <4>1. k.from \in Clients \ {m.from} /\ k \in toServer
        BY <2>2, <3>2 DEF TypeOK, Datagram
      <4> QED BY <1>2, <4>1 DEF OneOutstanding
    <3> QED BY <3>1, <3>2
  <2> QED BY <2>1, <2>2 DEF OneOutstanding
<1> QED BY <1>1, <1>2, <1>3, <1>4, <1>5, <1>6, <1>7

\* A process exit, or a step that sends nothing, keeps OneOutstanding.
LEMMA QuietOneOutstanding ==
    ASSUME OneOutstanding, toClient' = toClient, cPhase' = cPhase,
           toServer' \subseteq toServer
    PROVE  OneOutstanding'
BY DEF OneOutstanding

\* The count opens a session for the client that sent it.
LEMMA CountStep ==
    ASSUME TypeOK, OneOutstanding, Phases, NEW m \in toServer, ServerCount(m)
    PROVE  OneOutstanding' /\ Phases'
<1>1. backlog = {} /\ \A c \in Clients : Silent(c)
  BY DEF ServerCount, Phases, InCount
<1>2. m.from \in Clients /\ m.type = "count"
  BY <1>1 DEF Silent, Sends, TypeOK, Datagram
<1>3. /\ sPhase' = "array" /\ cli' = m.from /\ fileCount' = FileCount[m.from]
      /\ toServer' = toServer \ {m} /\ backlog' = backlog /\ cPhase' = cPhase
      /\ Reply(m.from, <<"File count">>)
  BY <1>2 DEF ServerCount, Overruns, Atoi
<1>4. "File count" \in Message
  BY DEF Message
<1>5. /\ OneOutstanding'
      /\ \A d \in Clients \ {m.from} : toClient'[d] = toClient[d]
      /\ toClient'[m.from] \in {<<>>, <<"File count">>}
      /\ cPhase[m.from] = "killed" => toClient'[m.from] = <<>>
      /\ \A k \in toServer' : k.from = m.from =>
            cPhase[m.from] = "killed" /\ k.type # "count"
  <2>1. toServer' \subseteq toServer \ {m}
    BY <1>3
  <2>2. Reply(m.from, <<"File count">>) /\ cPhase' = cPhase
    BY <1>3
  <2> QED BY <1>2, <1>4, <2>1, <2>2, TakeAndReply, ZenonT(60)
<1>6. OthersSilent'
  BY <1>1, <1>3, <1>5, TakingKeepsRoles DEF OthersSilent
<1>7. Counted(cli)'
  <2>1. cPhase[m.from] \in {"count", "killed"}
    BY <1>2 DEF OneOutstanding
  <2>2. Sends(m.from, {"count"})
    BY <1>1, <1>2 DEF Silent
  <2>3. \A k \in toServer' : k.from # m.from
    BY <1>3, <1>5, <2>2 DEF Sends
  <2> QED BY <1>3, <1>5, <2>1, <2>3 DEF Counted, Sends
<1> QED BY <1>1, <1>2, <1>3, <1>5, <1>6, <1>7 DEF Phases, InArray

\* The array taken is the array of the client whose count was taken, or else a
\* second count, after which no client can name a transport any more.
LEMMA ArrayStep ==
    ASSUME TypeOK, OneOutstanding, Phases, NEW m \in toServer, ServerArray(m)
    PROVE  OneOutstanding' /\ Phases'
<1>1. /\ backlog = {} /\ cli \in Clients /\ fileCount = FileCount[cli]
      /\ Counted(cli) /\ OthersSilent
  BY DEF ServerArray, Phases, InArray
<1>2. /\ sPhase' = "mode" /\ cli' = m.from /\ fileCount' = fileCount
      /\ fileInfo' = IF fileCount = 0 THEN Unfilled ELSE m
      /\ toServer' = toServer \ {m} /\ backlog' = backlog /\ cPhase' = cPhase
      /\ Reply(m.from, <<"path array">>)
  BY DEF ServerArray
<1>3. "path array" \in Message
  BY DEF Message
<1>4. /\ OneOutstanding'
      /\ m.from \in Clients
      /\ \A d \in Clients \ {m.from} : toClient'[d] = toClient[d]
      /\ toClient'[m.from] \in {<<>>, <<"path array">>}
      /\ cPhase[m.from] = "killed" => toClient'[m.from] = <<>>
      /\ \A k \in toServer' : k.from = m.from =>
            cPhase[m.from] = "killed" /\ k.type # m.type
  <2>1. toServer' \subseteq toServer \ {m}
    BY <1>2
  <2>2. Reply(m.from, <<"path array">>) /\ cPhase' = cPhase
    BY <1>2
  <2> QED BY <1>3, <2>1, <2>2, TakeAndReply
<1>5. cPhase[m.from] \in {m.type, "killed"}
  BY DEF OneOutstanding
<1>6. CASE m.from = cli
  <2>1. m.type = "array" /\ Sends(cli, {"array"})
    BY <1>1, <1>6 DEF Counted, Sends
  <2>2. m = [from |-> cli, type |-> "array"]
    BY <1>6, <2>1 DEF TypeOK, Datagram
  <2>3. fileCount # 0
    BY <1>1, ClientsAssumption
  <2>4. \A k \in toServer' : k.from # m.from
    BY <1>2, <1>4, <1>6, <2>1 DEF Sends
  <2>5. Listed(cli)'
    BY <1>2, <1>4, <1>5, <2>1, <2>4 DEF Listed, Sends
  <2>6. OthersSilent'
    BY <1>1, <1>2, <1>4, <1>6, TakingKeepsRoles DEF OthersSilent
  <2>7. ListIsOf(cli)'
    BY <1>1, <1>2, <1>6, <2>2, <2>3 DEF ListIsOf
  <2>8. InMode'
    BY <1>1, <1>2, <1>4, <2>5, <2>6, <2>7 DEF InMode
  <2> QED BY <1>2, <1>4, <2>8 DEF Phases
<1>7. CASE m.from # cli
  <2>1. \A d \in Clients : Silent(d) \/ Counted(d)
    BY <1>1 DEF OthersSilent
  <2>2. \A d \in Clients : Doomed(d)
    BY <2>1 DEF Silent, Counted, Doomed, Sends
  <2>3. Silent(m.from)
    BY <1>1, <1>4, <1>7 DEF OthersSilent
  <2>4. m.type = "count"
    BY <2>3 DEF Silent, Sends
  <2>5. \A d \in Clients \ {m.from} : Doomed(d)'
    BY <1>2, <1>4, <2>2, TakingKeepsRoles
  <2>6. Doomed(m.from)'
    BY <1>2, <1>4, <1>5, <2>2, <2>4 DEF Doomed, Sends
  <2>7. (\A d \in Clients : Doomed(d))'
    BY <2>5, <2>6
  <2>8. InMode'
    BY <1>1, <1>2, <2>7 DEF InMode
  <2> QED BY <1>2, <1>4, <2>8 DEF Phases
<1> QED BY <1>6, <1>7

\* The transport is named by the client whose list the server holds; anything
\* else that arrives in its place ends the server.
LEMMA ModeStep ==
    ASSUME NoUdp, TypeOK, OneOutstanding, Phases, NEW m \in toServer, ServerMode(m)
    PROVE  OneOutstanding' /\ Phases'
<1>1. InMode
  BY DEF ServerMode, Phases
<1>2. "Start" \in Message
  BY DEF Message
<1>3. /\ m.from \in Clients
      /\ m.type \in Handshake
      /\ cPhase[m.from] \in {m.type, "killed"}
  BY DEF TypeOK, Datagram, OneOutstanding
<1>4. cPhase' = cPhase /\ cli' = m.from /\ backlog' = backlog
      /\ fileCount' = fileCount /\ fileInfo' = fileInfo
  BY DEF ServerMode
<1>5. toServer' \subseteq toServer \ {m}
  <2>1. Choose(m.from) # "UDP"
    BY <1>3 DEF NoUdp
  <2> QED BY <2>1 DEF ServerMode, Exit
<1>6. ASSUME Reply(m.from, <<"Start">>)
      PROVE  /\ OneOutstanding'
             /\ \A d \in Clients \ {m.from} : toClient'[d] = toClient[d]
             /\ toClient'[m.from] \in {<<>>, <<"Start">>}
             /\ cPhase[m.from] = "killed" => toClient'[m.from] = <<>>
  <2>1. cPhase' = cPhase
    BY <1>4
  <2> QED BY <1>2, <1>5, <1>6, <2>1, TakeAndReply
<1>7. \A d \in Clients : Silent(d) \/ Listed(d) \/ Doomed(d)
  BY <1>1 DEF InMode, OthersSilent
<1>8. ASSUME NEW d \in Clients
      PROVE  Stranded(d)
  <2>1. "path array" # "Start" /\ <<"Start">> # <<>>
    OBVIOUS
  <2> QED BY <1>7, <1>8, <2>1 DEF Silent, Listed, Doomed, Stranded, InMode
<1>9. CASE Exit /\ toClient' = toClient
  <2>1. OneOutstanding'
    BY <1>4, <1>5, <1>9, QuietOneOutstanding
  <2>2. InExited'
    BY <1>4, <1>8, <1>9 DEF InExited, Exit, Stranded
  <2> QED BY <1>9, <2>1, <2>2 DEF Phases, Exit
<1>10. CASE Reply(m.from, <<"Start">>) /\ ~Recognised(m) /\ Exit
  <2>1. cPhase[m.from] # "mode"
    BY <1>3, <1>10 DEF Recognised
  <2>2. Stranded(m.from)'
    BY <1>3, <1>4, <1>8, <2>1 DEF Stranded
  <2>3. \A d \in Clients \ {m.from} : Stranded(d)'
    BY <1>4, <1>6, <1>8, <1>10 DEF Stranded
  <2>4. InExited'
    BY <1>10, <2>2, <2>3 DEF InExited, Exit
  <2> QED BY <1>6, <1>10, <2>4 DEF Phases, Exit
<1>11. CASE /\ Reply(m.from, <<"Start">>) /\ Recognised(m)
            /\ Choose(m.from) = "TCP" /\ sPhase' = "closedUdp" /\ toServer' = {}
  <2>1. m.type = "mode"
    BY <1>11 DEF Recognised
  <2>2. ~Doomed(m.from) /\ ~Silent(m.from)
    BY <2>1 DEF Doomed, Silent, Sends
  <2>3. m.from = cli /\ ListIsOf(cli) /\ OthersSilent /\ backlog = {}
    BY <1>1, <1>3, <2>2 DEF InMode, OthersSilent
  <2>4. OthersSilent'
    BY <1>4, <1>5, <1>6, <1>11, <2>3, TakingKeepsRoles DEF OthersSilent
  <2>5. InTcp'
    BY <1>3, <1>4, <1>11, <2>3, <2>4 DEF InTcp, ListIsOf
  <2>6. Started(cli)' /\ cPhase'[cli'] # "tcp" /\ backlog' = {}
    BY <1>3, <1>4, <1>6, <1>11, <2>1, <2>3 DEF Started
  <2> QED BY <1>6, <1>11, <2>5, <2>6 DEF Phases
<1>12. Choose(m.from) # "UDP"
  BY <1>3 DEF NoUdp
<1> QED BY <1>9, <1>10, <1>11, <1>12 DEF ServerMode

\* The TCP half of a session, from the closed UDP socket to the next one.
LEMMA TcpStep ==
    ASSUME TypeOK, OneOutstanding, Phases,
           Listen \/ (\E c \in Clients : Accept(c)) \/ EndTcp \/ BrokenTcp
             \/ CloseSession \/ NextSession
    PROVE  OneOutstanding' /\ Phases'
<1>1. CASE Listen
  <2>1. toClient' = toClient /\ cPhase' = cPhase /\ toServer' = toServer
    BY <1>1 DEF Listen, clientVars
  <2>2. OneOutstanding'
    BY <2>1, QuietOneOutstanding
  <2>3. InTcp' /\ Started(cli)'
    BY <1>1, <2>1 DEF Listen, Phases, InTcp, OthersSilent, ListIsOf, Silent, Sends,
                      Started
  <2> QED BY <1>1, <2>2, <2>3 DEF Listen, Phases
<1>2. ASSUME NEW c \in Clients, Accept(c)
      PROVE  OneOutstanding' /\ Phases'
  <2>1. /\ toClient' = toClient /\ cPhase' = cPhase /\ toServer' = toServer
        /\ fileCount' = fileCount /\ fileInfo' = fileInfo /\ sPhase = "listening"
        /\ sPhase' = "tcp" /\ cli' = c /\ c \in backlog /\ backlog' = backlog \ {c}
    BY <1>2 DEF Accept, clientVars
  <2>2. OneOutstanding'
    BY <2>1, QuietOneOutstanding
  <2>3. InTcp /\ Started(cli)
    BY <2>1 DEF Phases
  <2>4. /\ c = cli /\ backlog' = {}
        /\ cPhase[cli] \in {"tcp", "killed"} /\ toClient[cli] = <<>>
    BY <2>1, <2>3 DEF Started
  <2>5. InTcp'
    BY <2>1, <2>3, <2>4 DEF InTcp, OthersSilent, ListIsOf, Silent, Sends
  <2> QED BY <2>1, <2>2, <2>4, <2>5 DEF Phases
<1>3. CASE EndTcp
  <2>1. /\ cPhase' = cPhase /\ toServer' = toServer /\ backlog' = backlog
        /\ sPhase = "tcp" /\ sPhase' = "tcpOver"
        /\ toClient' = IF cPhase[cli] = "tcp"
                       THEN [toClient EXCEPT ![cli] = Append(@, "verdict")]
                       ELSE toClient
    BY <1>3 DEF EndTcp
  <2>2. /\ InTcp /\ cPhase[cli] \in {"tcp", "killed"} /\ toClient[cli] = <<>>
        /\ cli \in Clients /\ toServer = {} /\ backlog = {}
    BY <2>1 DEF Phases, InTcp
  <2>3. Append(<<>>, "verdict") = <<"verdict">>
    OBVIOUS
  <2>4. /\ \A d \in Clients \ {cli} : toClient'[d] = toClient[d]
        /\ toClient'[cli] \in {<<>>, <<"verdict">>}
        /\ cPhase[cli] = "killed" => toClient'[cli] = <<>>
    BY <2>1, <2>2, <2>3 DEF TypeOK
  <2>5. "verdict" \in Message
    BY DEF Message
  <2>6. OneOutstanding'
    BY <2>1, <2>2, <2>4, <2>5 DEF OneOutstanding
  <2>7. \A d \in Clients : Silent(d)'
    BY <2>1, <2>2, <2>4 DEF InTcp, OthersSilent, Silent, Sends
  <2> QED BY <2>1, <2>2, <2>6, <2>7 DEF Phases, InCount
<1>4. CASE BrokenTcp
  <2>1. /\ toClient' = toClient /\ cPhase' = cPhase /\ toServer' = {}
        /\ sPhase = "tcp" /\ sPhase' = "exited" /\ cPhase[cli] = "killed"
    BY <1>4 DEF BrokenTcp, Exit, clientVars
  <2>2. OneOutstanding'
    BY <2>1, QuietOneOutstanding
  <2>3. InTcp /\ <<"Start">> # <<>>
    BY <2>1 DEF Phases
  <2>4. \A d \in Clients : Stranded(d)'
    BY <2>1, <2>3 DEF InTcp, OthersSilent, Silent, Stranded
  <2> QED BY <2>1, <2>2, <2>4 DEF Phases, InExited
<1>5. CASE CloseSession \/ NextSession
  <2>1. /\ toClient' = toClient /\ cPhase' = cPhase /\ toServer' \subseteq toServer
        /\ sPhase' \in {"unbound", "count"} /\ backlog' \in {{}, backlog}
        /\ sPhase \in {"udpOver", "tcpOver", "unbound"}
    BY <1>5 DEF CloseSession, NextSession, clientVars
  <2>2. OneOutstanding'
    BY <2>1, QuietOneOutstanding
  <2>3. backlog' = {} /\ \A d \in Clients : Silent(d)'
    BY <2>1, TakingKeepsRoles DEF Phases, InCount
  <2> QED BY <2>1, <2>2, <2>3 DEF Phases, InCount
<1> QED BY <1>1, <1>2, <1>3, <1>4, <1>5

\* When no client goes over to UDP, at every point of server.c's loop all clients
\* but the one being served are silent, and that one's next datagram is the one
\* the next recvfrom is meant for - or the server is on its way out.
THEOREM NoUdpInvariant == Spec => []NoUdpInv
<1>1. Init => NoUdpInv
  <2> SUFFICES ASSUME NoUdp, Init
               PROVE  TypeOK /\ OneOutstanding /\ Phases
    BY DEF NoUdpInv
  <2>1. TypeOK
    <3>1. <<>> \in Seq(Message)
      OBVIOUS
    <3> QED BY <3>1 DEF Init, TypeOK
  <2>2. OneOutstanding
    BY DEF Init, OneOutstanding
  <2>3. Phases
    BY DEF Init, Phases, InCount, Silent, Sends
  <2> QED BY <2>1, <2>2, <2>3
<1>2. NoUdpInv /\ [Next]_vars => NoUdpInv'
  <2> SUFFICES ASSUME NoUdp, TypeOK, OneOutstanding, Phases, [Next]_vars
               PROVE  TypeOK' /\ OneOutstanding' /\ Phases'
    BY DEF NoUdpInv, NoUdp, Choose
  <2>1. CASE UNCHANGED vars
    BY <2>1, ZenonT(60) DEF vars, serverVars, clientVars, TypeOK, OneOutstanding, Phases,
       InCount, InArray, InMode, InTcp, InExited, OthersSilent, ListIsOf,
       Silent, Counted, Listed, Doomed, Started, Stranded, Sends
  <2>2. ASSUME NEW c \in Clients, StartClient(c) \/ ClientStep(c) \/ Kill(c)
        PROVE  TypeOK' /\ OneOutstanding' /\ Phases'
    BY <2>2, ClientStepType, ClientAdvances, ClientLeavesOthers,
       ClientOneOutstanding, ClientPhases
  <2>3. ASSUME ServerStep
        PROVE  TypeOK' /\ OneOutstanding' /\ Phases'
    <3>1. TypeOK'
      BY <2>3, ServerStepType
    <3>2. sPhase \notin UdpSession
      BY DEF Phases
    <3>3. ASSUME NEW m \in toServer,
                 ServerCount(m) \/ ServerArray(m) \/ ServerMode(m)
                   \/ UdpAck(m) \/ UdpCounts(m)
          PROVE  OneOutstanding' /\ Phases'
      BY <3>2, <3>3, CountStep, ArrayStep, ModeStep DEF UdpAck, UdpCounts
    <3>4. CASE SendOffset
      BY <3>2, <3>4 DEF SendOffset
    <3>5. ASSUME Listen \/ (\E c \in Clients : Accept(c)) \/ EndTcp \/ BrokenTcp
                   \/ CloseSession \/ NextSession
          PROVE  OneOutstanding' /\ Phases'
      BY ONLY TypeOK, OneOutstanding, Phases, <3>5, TcpStep
    <3> QED BY <2>3, <3>1, <3>3, <3>4, <3>5 DEF ServerStep
  <2> QED BY <2>1, <2>2, <2>3 DEF Next
<1> QED BY <1>1, <1>2, PTL DEF Spec

\* When no client goes over to UDP, the count and the array a transfer works from
\* (server.c:38-51, used at server.c:108) always come from the client it serves.
THEOREM ListsAgree == NoUdp => (Spec => []ListAgreement)
<1>1. NoUdp /\ NoUdpInv => ListAgreement
  BY DEF NoUdpInv, Phases, InTcp, ListIsOf, ListAgreement
<1>2. CASE NoUdp
  <2>1. NoUdpInv => ListAgreement
    BY <1>1, <1>2
  <2> QED BY <2>1, NoUdpInvariant, PTL
<1> QED BY <1>2

\* When no client goes over to UDP, a client that connects (client.c:119) is the
\* one whose transport the server has read and left its UDP socket for.
THEOREM StartIsForTheServed == NoUdp => (Spec => []StartMeansAccepted)
<1>1. NoUdp /\ NoUdpInv => StartMeansAccepted
  <2> SUFFICES ASSUME NoUdp, NoUdpInv, NEW c \in Clients, cPhase[c] = "connect"
               PROVE  /\ sPhase \in {"closedUdp", "listening"}
                      /\ cli = c
                      /\ Choose(c) = "TCP"
    BY DEF StartMeansAccepted
  <2>1. sPhase \in {"closedUdp", "listening"} /\ cli = c
    BY DEF NoUdpInv, Phases, InCount, InArray, InMode, InTcp, InExited,
           OthersSilent, Silent, Counted, Listed, Doomed, Stranded, TypeOK
  <2> QED BY <2>1 DEF NoUdpInv, Phases, InTcp
<1>2. CASE NoUdp
  <2>1. NoUdpInv => StartMeansAccepted
    BY <1>1, <1>2
  <2> QED BY <2>1, NoUdpInvariant, PTL
<1> QED BY <1>2
-----------------------------------------------------------------------------
(* Clients of either kind: who owns the TCP connection.                     *)

\* A message other than Start does not bring one.
LEMMA ReplyNoStart ==
    ASSUME NEW c \in Clients, NEW bodies \in Seq(Message), Reply(c, bodies),
           toClient \in [Clients -> Seq(Message)],
           \A k \in DOMAIN bodies : bodies[k] # "Start"
    PROVE  HasStart(c)' => HasStart(c)
<1>1. PICK delivered \in Deliverable(bodies) :
          toClient' = IF cPhase[c] \in OnUdpSocket
                      THEN [toClient EXCEPT ![c] = @ \o delivered]
                      ELSE toClient
  BY DEF Reply
<1>2. delivered \in Seq(Message) /\ \A k \in DOMAIN delivered : delivered[k] # "Start"
  <2>1. \A i \in DOMAIN bodies : /\ <<bodies[i]>> \in Seq(Message)
                                 /\ \A k \in DOMAIN <<bodies[i]>> : <<bodies[i]>>[k] # "Start"
    OBVIOUS
  <2>2. <<>> \in Seq(Message) /\ DOMAIN <<>> = {}
    OBVIOUS
  <2> QED BY <1>1, <2>1, <2>2 DEF Deliverable
<1>3. ASSUME NEW q \in Seq(Message), NEW k \in DOMAIN (q \o delivered),
             (q \o delivered)[k] = "Start"
      PROVE  \E j \in DOMAIN q : q[j] = "Start"
  <2>1. k \in DOMAIN q \/ k - Len(q) \in DOMAIN delivered
    BY <1>2, <1>3
  <2> QED BY <1>2, <1>3, <2>1
<1> QED BY <1>1, <1>3 DEF HasStart

\* What a client's step does to its place in the queue for the connection.
Approaches(c) ==
    /\ HasStart(c)' => HasStart(c)
    /\ cPhase[c] # "killed"
    /\ \/ /\ cPhase'[c] \notin {"connect", "tcp"}
          /\ backlog' = backlog
          /\ cPhase[c] = "tcp" =>
                toClient[c] # <<>> \/ (cPhase'[c] = "killed" /\ toClient'[c] = <<>>)
       \/ /\ cPhase[c] = "mode" /\ cPhase'[c] = "connect"
          /\ HasStart(c)
          /\ Choose(c) = "TCP"
          /\ toClient'[c] = <<>>
          /\ backlog' = backlog
       \/ /\ cPhase[c] = "connect" /\ cPhase'[c] = "tcp"
          /\ TcpPortOpen
          /\ backlog' = backlog \cup {c}
          /\ toClient' = toClient

LEMMA ClientApproaches ==
    ASSUME TypeOK, NEW c \in Clients, StartClient(c) \/ ClientStep(c) \/ Kill(c)
    PROVE  Approaches(c)
<1> USE DEF TypeOK, Approaches
<1>1. ASSUME NEW phase, Goto(c, phase)
      PROVE  cPhase'[c] = phase
  BY <1>1 DEF Goto
<1>2. ASSUME NEW phase, Leave(c, phase)
      PROVE  cPhase'[c] = phase /\ toClient'[c] = <<>> /\ ~HasStart(c)'
  BY <1>2 DEF Goto, Leave, HasStart
<1>3. toClient[c] # <<>> /\ Consume(c) => (HasStart(c)' => HasStart(c))
  <2>1. \A q \in Seq(Message) : q # <<>> =>
            \A k \in DOMAIN Tail(q) : k + 1 \in DOMAIN q /\ Tail(q)[k] = q[k + 1]
    OBVIOUS
  <2> QED BY <2>1 DEF Consume, HasStart
<1>4. toClient' = toClient => (HasStart(c)' => HasStart(c))
  BY DEF HasStart
<1>5. CASE StartClient(c)
  BY <1>1, <1>4, <1>5 DEF StartClient
<1>6. CASE RecvCountReply(c)
  BY <1>1, <1>2, <1>3, <1>6 DEF RecvCountReply
<1>7. CASE RecvArrayReply(c)
  BY <1>1, <1>3, <1>7 DEF RecvArrayReply
<1>8. CASE RecvStart(c)
  <2>1. IsStart(c) => HasStart(c)
    BY <1>8 DEF RecvStart, IsStart, HasStart
  <2> QED BY <1>1, <1>2, <1>3, <1>8, <2>1 DEF RecvStart
<1>9. CASE Connect(c)
  BY <1>1, <1>4, <1>9 DEF Connect
<1>10. CASE FinishTcp(c) \/ RecvVerdict(c) \/ Kill(c)
  BY <1>2, <1>10 DEF FinishTcp, RecvVerdict, Kill
<1>11. CASE RecvOffset(c) \/ RecvIndex(c)
  BY <1>1, <1>3, <1>11 DEF RecvOffset, RecvIndex, RecvUdp
<1>12. CASE RecvEcho(c)
  BY <1>1, <1>3, <1>12 DEF RecvEcho
<1> QED
  BY <1>5, <1>6, <1>7, <1>8, <1>9, <1>10, <1>11, <1>12 DEF ClientStep

\* No client's step takes the connection from the one it is meant for.
LEMMA ClientTcpInv ==
    ASSUME TcpInv, NEW c \in Clients, StartClient(c) \/ ClientStep(c) \/ Kill(c)
    PROVE  TcpInv'
<1> USE DEF TypeOK
<1>0. TypeOK /\ TypeOK'
  BY ClientStepType DEF TcpInv
<1>1. Approaches(c) /\ LeavesOthers(c)
  BY <1>0, ClientApproaches, ClientLeavesOthers
<1>2. sPhase' = sPhase /\ cli' = cli
  BY <1>1 DEF LeavesOthers, serverVars
<1>3. CASE sPhase = "exited"
  BY <1>0, <1>2, <1>3 DEF TcpInv
<1>4. CASE sPhase # "exited"
  <2>1. /\ sPhase # "listening" => backlog = {}
        /\ \A d \in Clients : OwnsStart(d) /\ OwnsConnection(d)
    BY <1>4 DEF TcpInv
  <2>2. backlog' = backlog \/
        (cPhase[c] = "connect" /\ cPhase'[c] = "tcp" /\ sPhase = "listening" /\ cli = c
           /\ backlog = {} /\ backlog' = {c} /\ toClient[c] = <<>> /\ toClient' = toClient)
    BY <1>1, <2>1 DEF Approaches, OwnsConnection, Waiting, TcpPortOpen
  <2>3. ASSUME NEW d \in Clients, d # c
        PROVE  (OwnsStart(d) /\ OwnsConnection(d))'
    <3>1. cPhase'[d] = cPhase[d] /\ toClient'[d] = toClient[d]
      BY <1>1, <2>3 DEF LeavesOthers
    <3>2. HasStart(d)' = HasStart(d)
      BY <3>1 DEF HasStart
    <3>3. d \in backlog' <=> d \in backlog
      BY <2>2, <2>3
    <3>4. cPhase[d] = "connect" \/ (HasStart(d) /\ Choose(d) # "UDP") => backlog' = backlog
      BY <2>1, <2>2, <2>3 DEF OwnsStart, OwnsConnection
    <3> QED
      BY <1>2, <2>1, <3>1, <3>2, <3>3, <3>4 DEF OwnsStart, OwnsConnection
  <2>4. (OwnsStart(c) /\ OwnsConnection(c))'
    <3>1. OwnsStart(c) /\ OwnsConnection(c)
      BY <2>1
    <3>2. CASE cPhase'[c] \notin {"connect", "tcp"}
      BY <1>1, <1>2, <3>1, <3>2 DEF Approaches, OwnsStart, OwnsConnection
    <3>3. CASE cPhase'[c] = "connect"
      BY <1>1, <1>2, <3>1, <3>3 DEF Approaches, OwnsStart, OwnsConnection, HasStart
    <3>4. CASE cPhase'[c] = "tcp"
      BY <1>1, <1>2, <2>2, <3>1, <3>4 DEF Approaches, OwnsStart, OwnsConnection, HasStart
    <3> QED BY <3>2, <3>3, <3>4
  <2> QED BY <1>0, <1>2, <2>1, <2>2, <2>3, <2>4 DEF TcpInv
<1> QED BY <1>3, <1>4

\* As long as the server is on its UDP socket nobody connects, waits or is served over TCP.
LEMMA NobodyConnects ==
    ASSUME TcpInv, sPhase \in Handshake \cup UdpSession
    PROVE  /\ backlog = {}
           /\ \A c \in Clients :
                /\ Choose(c) # "UDP" => ~HasStart(c)
                /\ cPhase[c] # "connect"
                /\ cPhase[c] = "tcp" => toClient[c] = <<"verdict">>
BY DEF TcpInv, OwnsStart, OwnsConnection, Waiting

\* A reply on the UDP socket, whoever gets it, changes nothing in that, but for Start.
LEMMA ReplyTcpInv ==
    ASSUME TcpInv, TypeOK', sPhase \in Handshake \cup UdpSession, sPhase' # "tcp",
           cPhase' = cPhase, backlog' = backlog,
           NEW c, \A d \in Clients \ {c} : toClient'[d] = toClient[d],
           c \in Clients /\ cPhase[c] \notin OnUdpSocket => toClient' = toClient,
           c \in Clients /\ Choose(c) # "UDP" /\ HasStart(c)' =>
                HasStart(c) \/ (sPhase' \in Waiting /\ cli' = c)
    PROVE  TcpInv'
<1>1. /\ backlog = {}
      /\ \A d \in Clients :
            /\ Choose(d) # "UDP" => ~HasStart(d)
            /\ cPhase[d] # "connect"
            /\ cPhase[d] = "tcp" => toClient[d] = <<"verdict">>
  BY NobodyConnects
<1>2. ASSUME NEW d \in Clients
      PROVE  (OwnsStart(d) /\ OwnsConnection(d))'
  <2>1. cPhase[d] = "tcp" => toClient'[d] = toClient[d]
    BY DEF TypeOK
  <2>2. OwnsConnection(d)'
    BY <1>1, <2>1 DEF OwnsConnection
  <2>3. d # c => HasStart(d)' = HasStart(d)
    BY DEF HasStart
  <2> QED BY <1>1, <2>2, <2>3 DEF OwnsStart
<1> QED BY <1>1, <1>2 DEF TcpInv

\* A server's step leaves the connection to the client it has answered with Start.
LEMMA ServerTcpInv ==
    ASSUME TcpInv, ServerStep
    PROVE  TcpInv'
<1>0. TypeOK /\ TypeOK'
  BY ServerStepType DEF TcpInv
<1> USE <1>0
<1>1. {"File count", "path array", "Start", "offset", "index", "echo", "verdict"} \subseteq Message
  BY DEF Message
<1>2. ASSUME NEW c \in Clients, NEW text \in Message \ {"Start"}, Reply(c, <<text>>)
      PROVE  /\ HasStart(c)' => HasStart(c)
             /\ \A d \in Clients \ {c} : toClient'[d] = toClient[d]
             /\ cPhase[c] \notin OnUdpSocket => toClient' = toClient
  <2>1. <<text>> \in Seq(Message) /\ \A k \in DOMAIN <<text>> : <<text>>[k] # "Start"
    OBVIOUS
  <2> QED BY <1>2, <2>1, ReplyNoStart, ReplyEffect DEF TypeOK
<1>3. ASSUME sPhase' = "exited"
      PROVE  TcpInv'
  BY <1>3 DEF TcpInv
<1>4. Exit => sPhase' = "exited"
  BY DEF Exit
<1>5. \A m \in toServer : m.from \in Clients
  BY DEF TypeOK, Datagram
<1>6. ASSUME NEW m \in toServer, ServerCount(m)
      PROVE  TcpInv'
  BY <1>1, <1>2, <1>3, <1>4, <1>5, <1>6, ReplyTcpInv DEF ServerCount
<1>7. ASSUME NEW m \in toServer, ServerArray(m)
      PROVE  TcpInv'
  BY <1>1, <1>2, <1>5, <1>7, ReplyTcpInv DEF ServerArray
<1>8. ASSUME NEW m \in toServer, ServerMode(m)
      PROVE  TcpInv'
  <2>1. CASE Exit
    BY <1>3, <1>4, <2>1
  <2>2. CASE ~Exit
    <3>1. /\ Reply(m.from, <<"Start">>) /\ sPhase = "mode" /\ cli' = m.from
          /\ cPhase' = cPhase /\ backlog' = backlog
          /\ (Choose(m.from) = "UDP" /\ sPhase' = "sendOffset") \/ sPhase' = "closedUdp"
      BY <1>8, <2>2 DEF ServerMode
    <3>2. <<"Start">> \in Seq(Message)
      <4>1. "Start" \in Message
        BY <1>1
      <4>2. \A text \in Message : <<text>> \in Seq(Message)
        OBVIOUS
      <4> QED BY <4>1, <4>2
    <3>3. /\ \A d \in Clients \ {m.from} : toClient'[d] = toClient[d]
          /\ cPhase[m.from] \notin OnUdpSocket => toClient' = toClient
      BY <1>5, <3>1, <3>2, ReplyEffect DEF TypeOK
    <3> QED BY <1>5, <3>1, <3>3, ReplyTcpInv DEF Waiting
  <2> QED BY <2>1, <2>2
<1>9. ASSUME NEW m \in toServer, UdpAck(m)
      PROVE  TcpInv'
  BY <1>1, <1>2, <1>5, <1>9, ReplyTcpInv DEF UdpAck
<1>10. ASSUME NEW m \in toServer, UdpCounts(m)
       PROVE  TcpInv'
  <2>1. /\ <<"echo", "verdict">> \in Seq(Message)
        /\ \A k \in DOMAIN <<"echo", "verdict">> : <<"echo", "verdict">>[k] # "Start"
    <3>1. "echo" \in Message /\ "verdict" \in Message
      BY <1>1
    <3>2. \A p, q \in Message : <<p, q>> \in Seq(Message)
      OBVIOUS
    <3> QED BY <3>1, <3>2
  <2>2. /\ Reply(m.from, <<"echo", "verdict">>) /\ cPhase' = cPhase /\ backlog' = backlog
        /\ sPhase = "counts" /\ sPhase' = "udpOver" /\ m.from \in Clients
    BY <1>5, <1>10 DEF UdpCounts
  <2>3. /\ HasStart(m.from)' => HasStart(m.from)
        /\ \A d \in Clients \ {m.from} : toClient'[d] = toClient[d]
        /\ cPhase[m.from] \notin OnUdpSocket => toClient' = toClient
    BY <1>5, <2>1, <2>2, ReplyNoStart, ReplyEffect DEF TypeOK
  <2> QED BY <2>2, <2>3, ReplyTcpInv
<1>11. CASE Listen
  BY <1>11, ZenonT(60) DEF Listen, clientVars, TcpInv, OwnsStart, OwnsConnection, Waiting, HasStart
<1>12. ASSUME NEW c \in Clients, Accept(c)
       PROVE  TcpInv'
  <2>1. /\ sPhase = "listening" /\ sPhase' = "tcp" /\ cli' = c /\ c \in backlog
        /\ backlog' = backlog \ {c} /\ cPhase' = cPhase /\ toClient' = toClient
    BY <1>12 DEF Accept, clientVars
  <2>2. \A d \in Clients : OwnsStart(d) /\ OwnsConnection(d)
    BY <2>1 DEF TcpInv
  <2>3. cli = c /\ backlog = {c}
    BY <2>1, <2>2 DEF OwnsConnection, TypeOK
  <2>4. ASSUME NEW d \in Clients
        PROVE  (OwnsStart(d) /\ OwnsConnection(d))'
    <3>1. HasStart(d)' = HasStart(d)
      BY <2>1 DEF HasStart
    <3> QED BY <2>1, <2>2, <2>3, <3>1 DEF OwnsStart, OwnsConnection
  <2> QED BY <2>1, <2>3, <2>4 DEF TcpInv
<1>13. CASE EndTcp
  <2>1. /\ sPhase = "tcp" /\ sPhase' = "tcpOver" /\ cli' = cli
        /\ backlog' = backlog /\ cPhase' = cPhase
        /\ toClient' = IF cPhase[cli] = "tcp"
                       THEN [toClient EXCEPT ![cli] = Append(@, "verdict")]
                       ELSE toClient
    BY <1>13 DEF EndTcp
  <2>2. backlog = {} /\ \A d \in Clients : OwnsStart(d) /\ OwnsConnection(d)
    BY <2>1 DEF TcpInv
  <2>3. Append(<<>>, "verdict") = <<"verdict">> /\ <<"verdict">> # <<>> /\ "verdict" # "Start"
    OBVIOUS
  <2>4. ASSUME NEW d \in Clients
        PROVE  (OwnsStart(d) /\ OwnsConnection(d))'
    <3>1. ~HasStart(d) \/ Choose(d) = "UDP"
      BY <2>1, <2>2 DEF OwnsStart, Waiting
    <3>2. CASE toClient'[d] = toClient[d]
      <4>1. HasStart(d)' = HasStart(d)
        BY <3>2 DEF HasStart
      <4>2. cPhase[d] = "tcp" => toClient[d] = <<"verdict">>
        <5>1. CASE cPhase[d] = "tcp" /\ toClient[d] = <<>> /\ cli = d
          BY <2>1, <2>3, <3>2, <5>1 DEF TypeOK
        <5> QED BY <2>2, <5>1 DEF OwnsConnection
      <4> QED BY <2>1, <2>2, <3>1, <3>2, <4>1, <4>2 DEF OwnsStart, OwnsConnection, Waiting
    <3>3. CASE toClient'[d] # toClient[d]
      <4>1. d = cli /\ cPhase[d] = "tcp" /\ toClient'[d] = Append(toClient[d], "verdict")
        BY <2>1, <3>3 DEF TypeOK
      <4>2. toClient[d] = <<>>
        BY <2>1, <2>2, <4>1 DEF OwnsConnection
      <4> QED BY <2>1, <2>2, <2>3, <3>1, <4>1, <4>2 DEF OwnsStart, OwnsConnection, HasStart
    <3> QED BY <3>2, <3>3
  <2> QED BY <2>1, <2>2, <2>4 DEF TcpInv
<1>14. CASE BrokenTcp
  BY <1>3, <1>4, <1>14 DEF BrokenTcp
<1>15. CASE SendOffset
  <2>1. CASE cli \in Clients
    BY <1>1, <1>2, <1>15, <2>1, ReplyTcpInv DEF SendOffset
  <2>2. CASE cli \notin Clients
    <3>1. toClient' = toClient
      BY <1>15, <2>2, ReplyToNobody DEF SendOffset, TypeOK
    <3> QED BY <1>15, <2>2, <3>1, ReplyTcpInv DEF SendOffset
  <2> QED BY <2>1, <2>2
<1>16. CASE CloseSession \/ NextSession
  <2>1. /\ toClient' = toClient /\ cPhase' = cPhase /\ cli' = cli
        /\ sPhase' \in {"unbound", "count"} /\ backlog' \in {{}, backlog}
        /\ sPhase \in {"udpOver", "tcpOver", "unbound"}
    BY <1>16 DEF CloseSession, NextSession, clientVars
  <2>2. backlog = {} /\ \A d \in Clients : OwnsStart(d) /\ OwnsConnection(d)
    BY <2>1 DEF TcpInv
  <2>3. \A d \in Clients : HasStart(d)' = HasStart(d)
    BY <2>1 DEF HasStart
  <2>4. \A d \in Clients : (OwnsStart(d) /\ OwnsConnection(d))'
    BY <2>1, <2>2, <2>3 DEF OwnsStart, OwnsConnection, Waiting
  <2> QED BY <2>1, <2>2, <2>4 DEF TcpInv
<1> QED
  BY <1>6, <1>7, <1>8, <1>9, <1>10, <1>11, <1>12, <1>13, <1>14, <1>15, <1>16 DEF ServerStep

\* With clients of either kind, and whatever is lost or killed: Start is answered only to
\* the client for which the server leaves its UDP socket, and it comes back to that socket
\* only after this client's connection.
THEOREM TcpInvariant == Spec => []TcpInv
<1>1. Init => TcpInv
  <2>1. <<>> \in Seq(Message)
    OBVIOUS
  <2>2. Init => TypeOK
    BY <2>1 DEF Init, TypeOK
  <2> QED BY <2>2 DEF Init, TcpInv, OwnsStart, OwnsConnection, HasStart
<1>2. TcpInv /\ [Next]_vars => TcpInv'
  <2>1. CASE UNCHANGED vars
    BY <2>1, ZenonT(60) DEF vars, serverVars, clientVars, TcpInv, TypeOK, OwnsStart, OwnsConnection,
       HasStart
  <2> QED BY <2>1, ClientTcpInv, ServerTcpInv DEF Next
<1> QED BY <1>1, <1>2, PTL DEF Spec

\* Whoever connects, waits in the backlog or is served on the TCP socket
\* (server_function.c:445-451) has it to itself, or has its verdict already, as long as the
\* server lives, whatever the other clients choose.
THEOREM ConnectionIsExclusive == Spec => []TcpIsExclusive
<1>1. TcpInv => TcpIsExclusive
  <2> SUFFICES ASSUME TcpInv, sPhase # "exited", NEW c \in Clients,
                      c \in backlog \/ cPhase[c] \in {"connect", "tcp"}
               PROVE  (sPhase \in TcpSession /\ cli = c) \/ toClient[c] = <<"verdict">>
    BY DEF TcpIsExclusive
  <2>1. OwnsConnection(c) /\ (sPhase # "listening" => backlog = {})
    BY DEF TcpInv
  <2> QED BY <2>1 DEF OwnsConnection, Waiting
<1> QED BY <1>1, TcpInvariant, PTL
-----------------------------------------------------------------------------
(* Runs in sequence.                                                        *)

\* Nothing is lost: a datagram arrives where there is a socket, and a reply arrives whole.
LEMMA NothingLost ==
    ASSUME Undisturbed, NEW c \in Clients
    PROVE  /\ \A type : SendToServer(c, type) =>
                toServer' = IF UdpPortOpen THEN toServer \cup Ask(c, type) ELSE toServer
           /\ \A bodies : Reply(c, bodies) =>
                toClient' = IF cPhase[c] \in OnUdpSocket
                            THEN [toClient EXCEPT ![c] = @ \o bodies]
                            ELSE toClient
BY DEF Undisturbed, SendToServer, Reply, Deliverable, Ask

\* Only c is running before and after a step: what is to be shown of c.
LEMMA OnlyOne ==
    ASSUME TypeOK, InTurns, NEW c \in Clients,
           \A d \in Clients \ {c} :
                cPhase[d] \notin Running /\ cPhase'[d] = cPhase[d] /\ toClient'[d] = toClient[d],
           IF cPhase'[c] \in Running
           THEN Session(c)'
           ELSE toClient'[c] = <<>> /\ toServer' = {} /\ sPhase' \in Waiting \cup AfterUdp \cup AfterTcp,
           \A d \in Clients \ {c} : d \notin backlog',
           c \in backlog' <=> cPhase'[c] = "tcp" /\ sPhase' = "listening",
           sPhase' \in Waiting => cli' \in Clients
    PROVE  InTurns'
<1>1. \A d \in Clients \ {c} : cPhase'[d] \notin Running /\ toClient'[d] = <<>>
  BY DEF InTurns
<1>2. (\A d \in Clients : IF cPhase[d] \in Running THEN Session(d) ELSE toClient[d] = <<>>)'
  BY <1>1
<1>3. AllOver' => toServer' = {} /\ sPhase' \in Waiting \cup AfterUdp \cup AfterTcp
  BY DEF AllOver
<1>4. \A d \in Clients : d \in backlog' <=> cPhase'[d] = "tcp" /\ sPhase' = "listening"
  BY <1>1
<1> QED BY <1>1, <1>2, <1>3, <1>4 DEF InTurns

\* The queues a session has.
LEMMA Queues ==
    /\ Tail(<<"File count">>) = <<>> /\ Tail(<<"path array">>) = <<>>
    /\ Tail(<<"Start">>) = <<>> /\ Tail(<<"Start", "offset">>) = <<"offset">>
    /\ Tail(<<"offset">>) = <<>> /\ Tail(<<"index">>) = <<>>
    /\ Tail(<<"echo", "verdict">>) = <<"verdict">>
    /\ Head(<<"Start">>) = "Start" /\ Head(<<"Start", "offset">>) = "Start"
OBVIOUS

LEMMA Answers ==
    /\ \A text \in Message : <<>> \o <<text>> = <<text>> /\ Append(<<>>, text) = <<text>>
    /\ <<>> \o <<"echo", "verdict">> = <<"echo", "verdict">>
    /\ <<"Start">> \o <<"offset">> = <<"Start", "offset">>
<1>1. \A text \in Message : <<>> \o <<text>> = <<text>> /\ Append(<<>>, text) = <<text>>
  OBVIOUS
<1>2. <<>> \o <<"echo", "verdict">> = <<"echo", "verdict">>
  OBVIOUS
<1>3. <<"Start">> \o <<"offset">> = <<"Start", "offset">>
  <2>1. /\ <<"Start">> \o <<"offset">> \in Seq({"Start", "offset"})
        /\ Len(<<"Start">> \o <<"offset">>) = 2
        /\ (<<"Start">> \o <<"offset">>)[1] = "Start"
        /\ (<<"Start">> \o <<"offset">>)[2] = "offset"
    OBVIOUS
  <2>2. \A q \in Seq({"Start", "offset"}) :
            Len(q) = 2 /\ q[1] = "Start" /\ q[2] = "offset" => q = <<"Start", "offset">>
    OBVIOUS
  <2> QED BY <2>1, <2>2
<1> QED BY <1>1, <1>2, <1>3

\* A client's step is its answer to the server's, or its start or its end.
LEMMA ClientInTurns ==
    ASSUME Undisturbed, TypeOK, InTurns, ListAgreement, NEW c \in Clients,
           StartClient(c) \/ ClientStep(c) \/ Kill(c)
    PROVE  InTurns' /\ ListAgreement'
<1> USE DEF TypeOK
<1>1. LeavesOthers(c)
  BY ClientLeavesOthers
<1>2. /\ sPhase' = sPhase /\ cli' = cli /\ fileCount' = fileCount /\ fileInfo' = fileInfo
      /\ \A d \in Clients \ {c} : cPhase'[d] = cPhase[d] /\ toClient'[d] = toClient[d]
  BY <1>1 DEF LeavesOthers, serverVars
<1>3. ListAgreement'
  BY <1>2 DEF ListAgreement
<1>4. \A type : SendToServer(c, type) =>
          toServer' = IF UdpPortOpen THEN toServer \cup Ask(c, type) ELSE toServer
  BY NothingLost
<1>5. \A phase : Goto(c, phase) => cPhase'[c] = phase
  BY DEF Goto
<1>6. \A phase : Leave(c, phase) => cPhase'[c] = phase /\ toClient'[c] = <<>>
  BY DEF Goto, Leave
<1>7. Consume(c) => toClient'[c] = Tail(toClient[c])
  BY DEF Consume
<1>8. \A s \in Waiting : s = "closedUdp" \/ s = "listening"
  BY DEF Waiting
<1>9. Choose(c) \in {"TCP", "UDP", "none"}
  BY ClientsAssumption DEF Choose, UdpLimit
<1>10. CASE StartClient(c)
  <2>1. AllOver /\ cPhase'[c] = "count" /\ toClient' = toClient /\ backlog' = backlog
    BY <1>5, <1>10 DEF StartClient, Undisturbed, AllOver
  <2>2. /\ toServer = {} /\ sPhase \in Waiting \cup AfterUdp \cup AfterTcp
        /\ toClient[c] = <<>> /\ \A d \in Clients : d \notin backlog
    BY <2>1 DEF InTurns, AllOver
  <2>3. toServer' = IF UdpPortOpen THEN Ask(c, "count") ELSE {}
    BY <1>4, <1>10, <2>2 DEF StartClient
  <2>4. CASE sPhase = "count"
    <3>1. InHandshake(c)'
      BY <1>2, <2>1, <2>2, <2>3, <2>4 DEF InHandshake, Here, UdpPortOpen, Ask
    <3> QED BY <1>2, <1>3, <2>1, <2>2, <2>4, <3>1, OnlyOne DEF Session, AllOver, Waiting
  <2>5. CASE sPhase \in Waiting \cup {"tcpOver", "unbound"}
    <3>1. Unheard(c)'
      BY <1>2, <1>8, <2>1, <2>2, <2>3, <2>5
      DEF Unheard, Here, UdpPortOpen, Nothing, Waiting, AfterTcp
    <3>2. sPhase \in Waiting => cli' \in Clients
      BY <1>2, <2>5 DEF InTurns
    <3> QED BY <1>2, <1>3, <2>1, <2>2, <3>1, <3>2, OnlyOne DEF Session, AllOver
  <2>6. CASE sPhase = "udpOver"
    <3>1. Unheard(c)'
      BY <1>2, <2>1, <2>2, <2>3, <2>6 DEF Unheard, Here, UdpPortOpen, Ask
    <3> QED BY <1>2, <1>3, <2>1, <2>2, <2>6, <3>1, OnlyOne DEF Session, AllOver, Waiting
  <2> QED BY <2>2, <2>4, <2>5, <2>6 DEF AfterUdp, AfterTcp
<1>11. CASE ClientStep(c)
  <2>1. cPhase[c] \in Running
    BY <1>11 DEF ClientStep, RecvCountReply, RecvArrayReply, RecvStart, Connect, FinishTcp,
       RecvOffset, RecvIndex, RecvUdp, RecvEcho, RecvVerdict
  <2>2. \A d \in Clients \ {c} : cPhase[d] \notin Running
    BY <2>1 DEF InTurns
  <2>3. /\ Session(c)
        /\ \A d \in Clients \ {c} : d \notin backlog
        /\ c \in backlog <=> cPhase[c] = "tcp" /\ sPhase = "listening"
        /\ sPhase \in Waiting => cli \in Clients
    BY <2>1, <2>2 DEF InTurns
  <2>4. SUFFICES
          /\ IF cPhase'[c] \in Running
             THEN Session(c)'
             ELSE /\ toClient'[c] = <<>> /\ toServer' = {}
                  /\ sPhase \in Waiting \cup AfterUdp \cup AfterTcp
          /\ backlog' = IF cPhase'[c] = "tcp" THEN backlog \cup {c} ELSE backlog
          /\ cPhase[c] # "tcp" \/ sPhase # "listening"
          /\ cPhase'[c] = "tcp" => sPhase = "listening"
    BY <1>2, <1>3, <2>2, <2>3, OnlyOne
  <2> USE <1>2, <2>3, Queues
       DEF Session, InHandshake, InUdp, InTcpRun, Unheard, Here, ListHere, ListIsOf, Nothing
  <2>5. CASE RecvCountReply(c)
    <3>1. ArrayFits(c)
      BY DEF Undisturbed
    <3>2. /\ cPhase[c] = "count" /\ toClient[c] = <<"File count">>
          /\ sPhase = "array" /\ toServer = {} /\ fileCount = FileCount[c]
      BY <2>5 DEF RecvCountReply
    <3>3. /\ cPhase'[c] = "array" /\ toClient'[c] = <<>> /\ backlog' = backlog
          /\ toServer' = Ask(c, "array")
      BY <1>4, <1>5, <1>7, <2>5, <3>1, <3>2 DEF RecvCountReply, UdpPortOpen
    <3>4. Ask(c, "array")' = Ask(c, "array")
      BY DEF Ask
    <3> QED BY <3>2, <3>3, <3>4
  <2>6. CASE RecvArrayReply(c)
    <3>1. /\ cPhase[c] = "array" /\ toClient[c] = <<"path array">>
          /\ sPhase = "mode" /\ toServer = {} /\ cli = c /\ ListIsOf(c)
      BY <2>6 DEF RecvArrayReply
    <3>2. /\ cPhase'[c] = "mode" /\ toClient'[c] = <<>> /\ backlog' = backlog
          /\ toServer' = IF Choose(c) = "none" THEN {} ELSE Ask(c, "mode")
      BY <1>4, <1>5, <1>7, <2>6, <3>1 DEF RecvArrayReply, UdpPortOpen
    <3>3. Ask(c, "mode")' = Ask(c, "mode") /\ ListIsOf(c)' /\ Choose(c)' = Choose(c)
      BY <3>1 DEF Ask
    <3> QED BY <3>1, <3>2, <3>3
  <2>7. CASE RecvStart(c)
    <3>1. /\ cPhase[c] = "mode" /\ toServer = {} /\ cli = c
          /\ backlog' = backlog /\ toServer' = toServer
          /\ \/ Choose(c) = "UDP" /\ sPhase = "sendOffset" /\ toClient[c] = <<"Start">>
             \/ Choose(c) = "UDP" /\ sPhase = "ackOffset" /\ toClient[c] = <<"Start", "offset">>
             \/ Choose(c) = "TCP" /\ sPhase \in Waiting /\ toClient[c] = <<"Start">>
      BY <2>7 DEF RecvStart
    <3>2. IsStart(c)
      BY <3>1 DEF IsStart
    <3>3. CASE Choose(c) = "UDP"
      <4>1. cPhase'[c] = "offset" /\ toClient'[c] = Tail(toClient[c])
        BY <1>5, <1>7, <2>7, <3>2, <3>3 DEF RecvStart
      <4>2. InUdp(c)'
        <5>1. CASE toClient[c] = <<"Start">>
          BY <3>1, <3>3, <4>1, <5>1
        <5>2. CASE toClient[c] = <<"Start", "offset">>
          BY <3>1, <3>3, <4>1, <5>2
        <5> QED BY <3>1, <3>3, <5>1, <5>2
      <4> QED BY <3>1, <4>1, <4>2
    <3>4. CASE Choose(c) = "TCP"
      <4>1. cPhase'[c] = "connect" /\ toClient'[c] = <<>>
        BY <1>6, <2>7, <3>2, <3>4 DEF RecvStart
      <4>2. InTcpRun(c)'
        BY <3>1, <3>4, <4>1
      <4> QED BY <3>1, <4>1, <4>2
    <3> QED BY <3>1, <3>3, <3>4
  <2>8. CASE Connect(c)
    <3>1. /\ cPhase[c] = "connect" /\ sPhase \in Waiting /\ toServer = {} /\ toClient[c] = <<>>
          /\ cli = c /\ Choose(c) = "TCP" /\ toServer' = toServer /\ toClient' = toClient
      BY <2>8 DEF Connect
    <3>2. \/ cPhase'[c] = "tcp" /\ sPhase = "listening" /\ backlog' = backlog \cup {c}
          \/ cPhase'[c] = "refused" /\ backlog' = backlog
      BY <1>5, <1>8, <2>8, <3>1 DEF Connect, TcpPortOpen
    <3> QED BY <3>1, <3>2
  <2>9. CASE FinishTcp(c)
    <3>1. cPhase[c] = "tcp" /\ sPhase \in AfterTcp /\ sPhase # "listening" /\ toServer = {}
      BY <2>9 DEF FinishTcp, AfterTcp
    <3>2. cPhase'[c] = "done" /\ toClient'[c] = <<>> /\ toServer' = toServer /\ backlog' = backlog
      BY <1>6, <2>9 DEF FinishTcp
    <3> QED BY <3>1, <3>2
  <2>10. CASE RecvOffset(c)
    <3>1. /\ cPhase[c] = "offset" /\ sPhase = "ackOffset" /\ toServer = {}
          /\ toClient[c] = <<"offset">> /\ cli = c /\ Choose(c) = "UDP"
      BY <2>10 DEF RecvOffset, RecvUdp
    <3>2. /\ cPhase'[c] = "index" /\ toClient'[c] = <<>> /\ backlog' = backlog
          /\ toServer' = Ask(c, "ackOffset")
      BY <1>4, <1>5, <1>7, <2>10, <3>1 DEF RecvOffset, RecvUdp, UdpPortOpen
    <3>3. Ask(c, "ackOffset")' = Ask(c, "ackOffset")
      BY DEF Ask
    <3> QED BY <3>1, <3>2, <3>3
  <2>11. CASE RecvIndex(c)
    <3>1. /\ cPhase[c] = "index" /\ sPhase = "counts" /\ toServer = {}
          /\ toClient[c] = <<"index">> /\ cli = c /\ Choose(c) = "UDP"
      BY <2>11 DEF RecvIndex, RecvUdp
    <3>2. /\ cPhase'[c] = "echo" /\ toClient'[c] = <<>> /\ backlog' = backlog
          /\ toServer' = Ask(c, "counts")
      BY <1>4, <1>5, <1>7, <2>11, <3>1 DEF RecvIndex, RecvUdp, UdpPortOpen
    <3>3. Ask(c, "counts")' = Ask(c, "counts")
      BY DEF Ask
    <3> QED BY <3>1, <3>2, <3>3
  <2>12. CASE RecvEcho(c)
    <3>1. /\ cPhase[c] = "echo" /\ sPhase \in AfterUdp /\ toServer = {}
          /\ toClient[c] = <<"echo", "verdict">> /\ cli = c /\ Choose(c) = "UDP"
      BY <2>12 DEF RecvEcho
    <3>2. /\ cPhase'[c] = "verdict" /\ toClient'[c] = <<"verdict">> /\ backlog' = backlog
          /\ toServer' = toServer
      BY <1>5, <1>7, <2>12, <3>1 DEF RecvEcho
    <3> QED BY <3>1, <3>2
  <2>13. CASE RecvVerdict(c)
    <3>1. cPhase[c] = "verdict" /\ sPhase \in AfterUdp /\ toServer = {}
      BY <2>13 DEF RecvVerdict
    <3>2. cPhase'[c] = "done" /\ toClient'[c] = <<>> /\ toServer' = toServer /\ backlog' = backlog
      BY <1>6, <2>13 DEF RecvVerdict
    <3> QED BY <3>1, <3>2
  <2> QED
    BY <1>11, <2>5, <2>6, <2>7, <2>8, <2>9, <2>10, <2>11, <2>12, <2>13 DEF ClientStep
<1>12. ~Kill(c)
  BY DEF Kill, Undisturbed
<1> QED BY <1>10, <1>11, <1>12

\* What the server does with the one datagram there can be.
LEMMA ServerTakesInTurns ==
    ASSUME Undisturbed, TypeOK, InTurns, ListAgreement, NEW m \in toServer,
           ServerCount(m) \/ ServerArray(m) \/ ServerMode(m) \/ UdpAck(m) \/ UdpCounts(m)
    PROVE  InTurns' /\ ListAgreement'
<1> USE ClientsAssumption DEF TypeOK
<1>1. ~AllOver
  BY DEF InTurns
<1>2. PICK c \in Clients : cPhase[c] \in Running
  BY <1>1 DEF AllOver
<1>3. Session(c) /\ \A d \in Clients \ {c} : cPhase[d] \notin Running
  BY <1>2 DEF InTurns
<1>a. /\ \A r, s : Ask(c, r) = Ask(c, s) => r = s
      /\ \A r : Ask(c, r) = {m} => m = [from |-> c, type |-> r]
      /\ \A r : m \in Ask(c, r) => m = [from |-> c, type |-> r] /\ Ask(c, r) = {m}
  <2>1. \A r, s : [from |-> c, type |-> r] = [from |-> c, type |-> s] => r = s
    OBVIOUS
  <2> QED BY <2>1 DEF Ask
<1>b. \E r : toServer = Ask(c, r)
  BY <1>3 DEF Session, InHandshake, InUdp, InTcpRun, Unheard, Here, Nothing
<1>4. toServer = Ask(c, m.type) /\ m.from = c /\ toServer = {m}
  BY <1>a, <1>b
<1>5. m = [from |-> c, type |-> m.type] /\ \A r : toServer = Ask(c, r) => m.type = r
  BY <1>a, <1>4
<1>c. Choose(c) \in {"TCP", "UDP", "none"}
  BY DEF Choose, UdpLimit
<1>6. /\ cPhase' = cPhase /\ backlog' = backlog /\ cli' = c
      /\ sPhase \in Handshake \cup UdpSession
      /\ \A d \in Clients : d \notin backlog
  BY <1>4 DEF ServerCount, ServerArray, ServerMode, UdpAck, UdpCounts, InTurns
<1>7. ASSUME NEW bodies \in Seq(Message), Reply(m.from, bodies), cPhase[c] \in OnUdpSocket
      PROVE  /\ toClient'[c] = toClient[c] \o bodies
             /\ \A d \in Clients \ {c} : toClient'[d] = toClient[d]
  <2>1. toClient' = [toClient EXCEPT ![c] = @ \o bodies]
    BY <1>4, <1>7, NothingLost
  <2> QED BY <2>1
<1>8. /\ "File count" \in Message /\ "path array" \in Message /\ "Start" \in Message
      /\ "index" \in Message /\ "echo" \in Message /\ "verdict" \in Message
  BY DEF Message
<1>9. /\ \A text \in Message : <<text>> \in Seq(Message)
      /\ \A p, q \in Message : <<p, q>> \in Seq(Message)
  OBVIOUS
<1>10. SUFFICES /\ Session(c)'
                /\ \A d \in Clients \ {c} : toClient'[d] = toClient[d]
                /\ ListAgreement'
                /\ sPhase' # "listening"
  BY <1>2, <1>3, <1>6, OnlyOne
<1> USE <1>2, <1>3, <1>6, <1>8, <1>9, Answers
    DEF Session, InHandshake, InUdp, InTcpRun, Unheard, Here, ListHere, ListIsOf, Nothing
<1>11. CASE ServerCount(m)
  <2>1. /\ cPhase[c] = "count" /\ toClient[c] = <<>> /\ m.type = "count"
        /\ toServer = {m}
    BY <1>4, <1>5, <1>11 DEF ServerCount
  <2>2. /\ sPhase' = "array" /\ toServer' = {} /\ fileCount' = FileCount[c]
        /\ Reply(m.from, <<"File count">>)
    BY <1>4, <1>11, <2>1 DEF ServerCount, Overruns, Atoi
  <2>3. toClient'[c] = <<"File count">> /\ \A d \in Clients \ {c} : toClient'[d] = toClient[d]
    BY <1>7, <2>1, <2>2
  <2> QED BY <2>1, <2>2, <2>3 DEF ListAgreement
<1>12. CASE ServerArray(m)
  <2>1. /\ cPhase[c] = "array" /\ toClient[c] = <<>> /\ m.type = "array"
        /\ fileCount = FileCount[c] /\ toServer = {m}
    BY <1>4, <1>5, <1>12 DEF ServerArray
  <2>2. fileCount # 0
    BY <2>1
  <2>3. /\ sPhase' = "mode" /\ toServer' = {} /\ fileCount' = fileCount /\ fileInfo' = m
        /\ Reply(m.from, <<"path array">>)
    BY <1>12, <2>1, <2>2 DEF ServerArray
  <2>4. toClient'[c] = <<"path array">> /\ \A d \in Clients \ {c} : toClient'[d] = toClient[d]
    BY <1>7, <2>1, <2>3
  <2> QED BY <1>5, <2>1, <2>3, <2>4 DEF ListAgreement
<1>13. CASE ServerMode(m)
  <2>1. /\ cPhase[c] = "mode" /\ toClient[c] = <<>> /\ m.type = "mode"
        /\ Choose(c) # "none" /\ ListHere(c) /\ toServer = {m}
    BY <1>4, <1>5, <1>13 DEF ServerMode
  <2>3. /\ toServer' = {} /\ fileCount' = fileCount /\ fileInfo' = fileInfo
        /\ \/ Choose(c) = "UDP" /\ sPhase' = "sendOffset"
           \/ Choose(c) = "TCP" /\ sPhase' = "closedUdp"
        /\ Reply(m.from, <<"Start">>)
    BY <1>4, <1>13, <1>c, <2>1 DEF ServerMode, Overruns, Recognised
  <2>4. toClient'[c] = <<"Start">> /\ \A d \in Clients \ {c} : toClient'[d] = toClient[d]
    BY <1>7, <2>1, <2>3
  <2> QED BY <2>1, <2>3, <2>4 DEF ListAgreement, Waiting
<1>14. CASE UdpAck(m)
  <2>1. /\ cPhase[c] = "index" /\ toClient[c] = <<>> /\ Choose(c) = "UDP" /\ toServer = {m}
    BY <1>4, <1>5, <1>14 DEF UdpAck
  <2>2. sPhase' = "counts" /\ toServer' = {} /\ Reply(m.from, <<"index">>)
    BY <1>14, <2>1 DEF UdpAck
  <2>3. toClient'[c] = <<"index">> /\ \A d \in Clients \ {c} : toClient'[d] = toClient[d]
    BY <1>7, <2>1, <2>2
  <2> QED BY <2>1, <2>2, <2>3 DEF ListAgreement
<1>15. CASE UdpCounts(m)
  <2>1. /\ cPhase[c] = "echo" /\ toClient[c] = <<>> /\ Choose(c) = "UDP"
    BY <1>4, <1>5, <1>15 DEF UdpCounts
  <2>2. sPhase' = "udpOver" /\ toServer' = {} /\ Reply(m.from, <<"echo", "verdict">>)
    BY <1>4, <1>15 DEF UdpCounts
  <2>3. toClient'[c] = <<"echo", "verdict">> /\ \A d \in Clients \ {c} : toClient'[d] = toClient[d]
    BY <1>7, <2>1, <2>2
  <2> QED BY <2>1, <2>2, <2>3 DEF ListAgreement, AfterUdp
<1> QED BY <1>11, <1>12, <1>13, <1>14, <1>15

\* What the server does unasked.
LEMMA ServerGoesOnInTurns ==
    ASSUME Undisturbed, TypeOK, InTurns, ListAgreement,
           \/ Listen \/ (\E c \in Clients : Accept(c)) \/ EndTcp \/ BrokenTcp
           \/ SendOffset \/ CloseSession \/ NextSession
    PROVE  InTurns' /\ ListAgreement'
<1> USE DEF TypeOK
<1>1. cPhase' = cPhase
  BY DEF Listen, Accept, EndTcp, BrokenTcp, SendOffset, CloseSession, NextSession, clientVars
<1>2. CASE AllOver
  <2>1. /\ toServer = {} /\ backlog = {}
        /\ sPhase \in Waiting \cup AfterUdp \cup AfterTcp
        /\ \A d \in Clients : cPhase[d] \notin Running
    BY <1>2 DEF AllOver, InTurns
  <2>2. /\ \/ /\ sPhase = "closedUdp" /\ sPhase' = "listening"
              /\ fileCount' = fileCount /\ fileInfo' = fileInfo
           \/ sPhase' \in {"unbound", "count"}
        /\ toServer' = {} /\ backlog' = {} /\ toClient' = toClient /\ cli' = cli
    BY <1>2, <2>1 DEF Listen, Accept, EndTcp, BrokenTcp, SendOffset, CloseSession, NextSession,
       Waiting, AfterUdp, AfterTcp, clientVars
  <2>3. ListAgreement'
    BY <2>2 DEF ListAgreement
  <2> QED BY <1>1, <1>2, <2>1, <2>2, <2>3 DEF InTurns, AllOver, Waiting, AfterUdp, AfterTcp
<1>3. CASE ~AllOver
  <2>1. PICK c \in Clients : cPhase[c] \in Running
    BY <1>3 DEF AllOver
  <2>2. /\ Session(c) /\ \A d \in Clients \ {c} : cPhase[d] \notin Running
        /\ \A d \in Clients \ {c} : d \notin backlog
        /\ c \in backlog <=> cPhase[c] = "tcp" /\ sPhase = "listening"
        /\ sPhase \in Waiting => cli \in Clients
    BY <2>1 DEF InTurns
  <2>3. SUFFICES /\ Session(c)'
                 /\ \A d \in Clients \ {c} : toClient'[d] = toClient[d]
                 /\ \A d \in Clients \ {c} : d \notin backlog'
                 /\ c \in backlog' <=> cPhase[c] = "tcp" /\ sPhase' = "listening"
                 /\ sPhase' \in Waiting => cli' \in Clients
                 /\ ListAgreement'
    BY <1>1, <2>1, <2>2, OnlyOne
  <2> USE <1>1, <2>1, <2>2
      DEF Session, InHandshake, InUdp, InTcpRun, Unheard, Here, ListHere, ListIsOf, Nothing
  <2>4. CASE Listen
    <3>1. /\ sPhase = "closedUdp" /\ sPhase' = "listening" /\ toServer' = toServer
          /\ toClient' = toClient /\ backlog' = backlog /\ cli' = cli /\ fileCount' = fileCount
          /\ fileInfo' = fileInfo
      BY <2>4 DEF Listen, clientVars
    <3>2. ListAgreement'
      BY <3>1 DEF ListAgreement
    <3> QED BY <3>1, <3>2 DEF Waiting, AfterUdp, AfterTcp
  <2>5. ASSUME NEW d \in Clients, Accept(d)
        PROVE  /\ Session(c)'
               /\ \A e \in Clients \ {c} : toClient'[e] = toClient[e]
               /\ \A e \in Clients \ {c} : e \notin backlog'
               /\ c \in backlog' <=> cPhase[c] = "tcp" /\ sPhase' = "listening"
               /\ sPhase' \in Waiting => cli' \in Clients
               /\ ListAgreement'
    <3>1. /\ d = c /\ sPhase = "listening" /\ sPhase' = "tcp" /\ toServer' = toServer
          /\ toClient' = toClient /\ backlog' = backlog \ {c} /\ cli' = c
          /\ fileCount' = fileCount /\ fileInfo' = fileInfo
      BY <2>5 DEF Accept, clientVars
    <3>2. /\ cPhase[c] = "tcp" /\ cli = c /\ Choose(c) = "TCP"
          /\ toServer = {} /\ toClient[c] = <<>>
      BY <2>5, <3>1 DEF Accept, Waiting, AfterUdp, AfterTcp
    <3>3. ListAgreement'
      BY <3>1, <3>2 DEF ListAgreement
    <3> QED BY <3>1, <3>2, <3>3 DEF Waiting
  <2>6. CASE EndTcp
    <3>1. /\ sPhase = "tcp" /\ sPhase' = "tcpOver" /\ toServer' = toServer /\ cli' = cli
          /\ backlog' = backlog
          /\ toClient' = IF cPhase[cli] = "tcp"
                         THEN [toClient EXCEPT ![cli] = Append(@, "verdict")]
                         ELSE toClient
      BY <2>6 DEF EndTcp
    <3>2. /\ cPhase[c] = "tcp" /\ cli = c /\ Choose(c) = "TCP"
          /\ toServer = {} /\ toClient[c] = <<>>
      BY <3>1 DEF Waiting, AfterUdp, AfterTcp
    <3>3. toClient'[c] = <<"verdict">> /\ \A d \in Clients \ {c} : toClient'[d] = toClient[d]
      <4>1. "verdict" \in Message
        BY DEF Message
      <4> QED BY <3>1, <3>2, <4>1, Answers
    <3> QED BY <3>1, <3>2, <3>3 DEF ListAgreement, Waiting, AfterTcp
  <2>7. ~BrokenTcp
    BY DEF BrokenTcp, Waiting, AfterUdp, AfterTcp
  <2>8. CASE SendOffset
    <3>1. /\ sPhase = "sendOffset" /\ sPhase' = "ackOffset" /\ toServer' = toServer /\ cli' = cli
          /\ backlog' = backlog /\ Reply(cli, <<"offset">>)
      BY <2>8 DEF SendOffset
    <3>2. /\ cli = c /\ Choose(c) = "UDP" /\ toServer = {}
          /\ \/ cPhase[c] = "mode" /\ toClient[c] = <<"Start">>
             \/ cPhase[c] = "offset" /\ toClient[c] = <<>>
      BY <3>1 DEF Waiting, AfterUdp, AfterTcp
    <3>3. toClient' = [toClient EXCEPT ![c] = @ \o <<"offset">>]
      BY <3>1, <3>2, NothingLost
    <3>4. /\ \A d \in Clients \ {c} : toClient'[d] = toClient[d]
          /\ cPhase[c] = "mode" => toClient'[c] = <<"Start", "offset">>
          /\ cPhase[c] = "offset" => toClient'[c] = <<"offset">>
      <4>1. "offset" \in Message
        BY DEF Message
      <4> QED BY <3>2, <3>3, <4>1, Answers
    <3> QED BY <3>1, <3>2, <3>4 DEF ListAgreement, Waiting
  <2>9. CASE CloseSession
    <3>1. /\ sPhase \in {"udpOver", "tcpOver"} /\ sPhase' = "unbound" /\ toServer' = {}
          /\ backlog' = {} /\ toClient' = toClient /\ cli' = cli
      BY <2>9 DEF CloseSession, clientVars
    <3>2. Session(c)'
      BY <3>1 DEF Waiting, AfterUdp, AfterTcp
    <3> QED BY <3>1, <3>2 DEF ListAgreement, Waiting
  <2>10. CASE NextSession
    <3>1. /\ sPhase = "unbound" /\ sPhase' = "count" /\ toServer' = toServer
          /\ backlog' = backlog /\ toClient' = toClient /\ cli' = cli
      BY <2>10 DEF NextSession, clientVars
    <3>2. Session(c)'
      BY <3>1 DEF Waiting, AfterUdp, AfterTcp
    <3> QED BY <3>1, <3>2 DEF ListAgreement, Waiting
  <2> QED BY <2>4, <2>5, <2>6, <2>7, <2>8, <2>9, <2>10
<1> QED BY <1>2, <1>3

\* As long as runs do not overlap, nothing is lost and no array is too long, a run and the
\* server take turns, whichever transport each run chooses, through the verdict, the close
\* of the old socket and the bind of the next; a run that is over leaves nothing to the
\* next, nor does one that is started in between and never heard.
THEOREM SequenceInvariant == Spec => []SequenceInv
<1>1. Init => SequenceInv
  <2>1. <<>> \in Seq(Message)
    OBVIOUS
  <2>2. Init => TypeOK
    BY <2>1 DEF Init, TypeOK
  <2>3. Init => InTurns
    BY DEF Init, InTurns, AllOver, Waiting, AfterUdp
  <2> QED BY <2>2, <2>3 DEF Init, SequenceInv, ListAgreement
<1>2. SequenceInv /\ [Next]_vars => SequenceInv'
  <2> SUFFICES ASSUME Undisturbed, TypeOK, InTurns, ListAgreement, [Next]_vars
               PROVE  TypeOK' /\ InTurns' /\ ListAgreement'
    BY DEF SequenceInv, Undisturbed, ArrayFits
  <2>1. CASE UNCHANGED vars
    <3> USE <2>1 DEF vars, serverVars, clientVars
    <3>1. TypeOK' /\ ListAgreement' /\ AllOver' = AllOver
      BY DEF TypeOK, ListAgreement, AllOver
    <3>2. ASSUME NEW c \in Clients
          PROVE  Session(c)' = Session(c)
      BY DEF Session, InHandshake, InUdp, InTcpRun, Unheard, Here, ListHere, ListIsOf, Ask, Nothing
    <3> QED BY <3>1, <3>2 DEF InTurns
  <2>2. ASSUME NEW c \in Clients, StartClient(c) \/ ClientStep(c) \/ Kill(c)
        PROVE  TypeOK' /\ InTurns' /\ ListAgreement'
    BY <2>2, ClientStepType, ClientInTurns
  <2>3. ASSUME ServerStep
        PROVE  TypeOK' /\ InTurns' /\ ListAgreement'
    BY <2>3, ServerStepType, ServerTakesInTurns, ServerGoesOnInTurns DEF ServerStep
  <2> QED BY <2>1, <2>2, <2>3 DEF Next
<1> QED BY <1>1, <1>2, PTL DEF Spec

\* As long as runs do not overlap, nothing is lost and no array is too long, the server never
\* takes the return of server.c:79, and the count and the array it works from are those of
\* the client it serves, over UDP too.
THEOREM ServerGoesOn == Undisturbed => (Spec => [](ServerStaysUp /\ ListAgreement))
<1>1. Undisturbed /\ SequenceInv => ServerStaysUp /\ ListAgreement
  <2> SUFFICES ASSUME TypeOK, InTurns
               PROVE  sPhase # "exited"
    BY DEF SequenceInv, ServerStaysUp
  <2>1. CASE AllOver
    BY <2>1 DEF InTurns, Waiting, AfterUdp, AfterTcp
  <2>2. CASE ~AllOver
    <3>1. PICK c \in Clients : Session(c)
      BY <2>2 DEF AllOver, InTurns
    <3> QED
      BY <3>1 DEF Session, InHandshake, InUdp, InTcpRun, Unheard, Here, Waiting, AfterUdp, AfterTcp
  <2> QED BY <2>1, <2>2
<1>2. CASE Undisturbed
  <2>1. SequenceInv => ServerStaysUp /\ ListAgreement
    BY <1>1, <1>2
  <2> QED BY <2>1, SequenceInvariant, PTL
<1> QED BY <1>2
=============================================================================
