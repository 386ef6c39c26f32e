----------------------------- MODULE Negotiation -----------------------------
(***************************************************************************)
(* The session protocol of server.c and client.c: one server, any number   *)
(* of client runs.  A session opens with three datagram exchanges on UDP    *)
(* port 9000 - the number of entries, the array of entries, the transport - *)
(* each one a request and a reply with no identifier, no timeout and no     *)
(* retry; then the two programs either stay on the UDP socket or close it   *)
(* and meet again over TCP.                                                 *)
(*                                                                          *)
(* Abstractions.  A datagram is its sender and its kind; what it carries is *)
(* given by the constants for that sender.  The exchange of file contents   *)
(* is reduced to its first and last rounds: over UDP the rounds that steer  *)
(* the server's notion of its peer, over TCP the accept and the close.      *)
(***************************************************************************)
EXTENDS Naturals, Sequences

CONSTANTS
    Clients,     \* runs of client.exe
    NoOne,       \* the address of nobody
    FileCount,   \* FileCount[c]: fileCount after c has scanned its argument
    Idx,         \* Idx[c]: entries c's scan has stored in file_info
    TotalSize,   \* TotalSize[c]: what FileTransferSize returns to c
    Lossy,       \* TRUE: the network may drop datagrams
    OneAtATime,  \* TRUE: a client is started only when no other one is running
    MayKill      \* TRUE: the user may interrupt a client that is running

ASSUME ClientsAssumption ==
    /\ NoOne \notin Clients
    /\ FileCount \in [Clients -> Nat \ {0}]
    /\ Idx \in [Clients -> Nat \ {0}]
    /\ \A c \in Clients : Idx[c] <= FileCount[c]
    /\ TotalSize \in [Clients -> Nat]

ASSUME KnobsAssumption ==
    /\ Lossy \in BOOLEAN
    /\ OneAtATime \in BOOLEAN
    /\ MayKill \in BOOLEAN

VARIABLES
    sPhase,     \* where the server's process is blocked
    cli,        \* server: the address filled in by the last recvfrom or accept
    fileCount,  \* server: fileCount, equal to files_size once both are set
    fileInfo,   \* server: the datagram received into file_info
    toServer,   \* datagrams queued on the server's UDP socket
    backlog,    \* clients connected to the listening socket, not yet accepted
    cPhase,     \* cPhase[c]: where client c is blocked
    toClient    \* toClient[c]: messages queued on c's current socket

serverVars == <<sPhase, cli, fileCount, fileInfo>>
clientVars == <<cPhase, toClient>>
vars == <<serverVars, toServer, backlog, clientVars>>
-----------------------------------------------------------------------------
(* Vocabulary.                                                             *)

SizeofFileInformation == 2049    \* path[1024], final_path[1024], or_file_dir
MaxDatagram == 65507             \* largest payload of a UDP datagram over IPv4
UdpLimit == 65535

Handshake == {"count", "array", "mode"}
UdpSession == {"sendOffset", "ackOffset", "counts", "udpOver"}
TcpSession == {"closedUdp", "listening", "tcp"}
ServerPhase ==
    Handshake \cup UdpSession \cup TcpSession \cup {"tcpOver", "unbound", "exited"}

ClientUdpSession == {"offset", "index", "echo", "verdict"}
Ended == {"done", "unsent", "notReady", "refused", "killed"}
OnUdpSocket == Handshake \cup ClientUdpSession
Running == OnUdpSocket \cup {"connect", "tcp"}
ClientPhase == {"idle"} \cup Running \cup Ended

DatagramType == {"count", "array", "mode", "ackOffset", "counts"}
Datagram == [from : Clients, type : DatagramType]
Message == {"File count", "path array", "Start",
            "offset", "index", "echo", "verdict"}

\* What file_info holds just after malloc, before anything is received into it.
Unfilled == [from |-> NoOne, type |-> "malloc"]

\* server.c binds UDP port 9000 at the top of its loop and closes it at the bottom,
\* after the verdict, or at once when the session goes over to TCP.
UdpPortOpen == sPhase \in Handshake \cup UdpSession

\* The listening socket outlives the connection accepted from it.
TcpPortOpen == sPhase \in {"listening", "tcp", "tcpOver"}

\* The choice between the two transports: nothing is chosen at the limit.
Choose(c) ==
    CASE TotalSize[c] > UdpLimit -> "TCP"
      [] TotalSize[c] < UdpLimit -> "UDP"
      [] OTHER -> "none"

ArrayFits(c) == Idx[c] * SizeofFileInformation <= MaxDatagram

\* Mutants: a buffer whose text is no number yields -1; a count one too small.
AtoiMinusOne(m) == IF m.type = "count" THEN FileCount[m.from] ELSE 0 - 1
AtoiShort(m) == IF m.type = "count" THEN FileCount[m.from] - 1 ELSE 0

\* atoi of a received request: only a count begins with digits.
Atoi(m) == IF m.type = "count" THEN FileCount[m.from] ELSE 0
-----------------------------------------------------------------------------
(* The network.                                                            *)

SendToServer(c, type) ==
    LET arrived == IF UdpPortOpen
                   THEN toServer \cup {[from |-> c, type |-> type]}
                   ELSE toServer
    IN  toServer' \in IF Lossy THEN {arrived, toServer} ELSE {arrived}

Deliverable(bodies) ==
    IF Lossy THEN {bodies, <<>>} \cup {<<bodies[i]>> : i \in DOMAIN bodies}
             ELSE {bodies}

\* Replies reach c only while it still has its UDP socket.
Reply(c, bodies) ==
    \E delivered \in Deliverable(bodies) :
        toClient' = IF cPhase[c] \in OnUdpSocket
                    THEN [toClient EXCEPT ![c] = @ \o delivered]
                    ELSE toClient
-----------------------------------------------------------------------------
Init ==
    /\ sPhase = "unbound"
    /\ cli = NoOne
    /\ fileCount = 1
    /\ fileInfo = Unfilled
    /\ toServer = {}
    /\ backlog = {}
    /\ cPhase = [c \in Clients |-> "idle"]
    /\ toClient = [c \in Clients |-> <<>>]

(***************************************************************************)
(* The client.                                                             *)
(***************************************************************************)

Goto(c, phase) == cPhase' = [cPhase EXCEPT ![c] = phase]

\* Process exit closes the socket and whatever was queued on it.
Leave(c, phase) ==
    /\ Goto(c, phase)
    /\ toClient' = [toClient EXCEPT ![c] = <<>>]

Consume(c) == toClient' = [toClient EXCEPT ![c] = Tail(@)]

\* main up to its first recvfrom: scan the argument, send the count.
StartClient(c) ==
    /\ cPhase[c] = "idle"
    /\ OneAtATime => \A d \in Clients : cPhase[d] \notin Running
    /\ SendToServer(c, "count")
    /\ Goto(c, "count")
    /\ UNCHANGED <<serverVars, backlog, toClient>>

\* Any reply will do.  An array too big for a datagram makes sendto fail.
RecvCountReply(c) ==
    /\ cPhase[c] = "count"
    /\ toClient[c] # <<>>
    /\ \/ /\ ArrayFits(c)
          /\ SendToServer(c, "array")
          /\ Goto(c, "array")
          /\ Consume(c)
       \/ /\ ~ArrayFits(c)
          /\ Leave(c, "unsent")
          /\ UNCHANGED toServer
    /\ UNCHANGED <<serverVars, backlog>>

\* Mutant: over TCP the client does not wait for Start.
RecvArrayReplyEager(c) ==
    /\ cPhase[c] = "array"
    /\ toClient[c] # <<>>
    /\ IF Choose(c) = "none" THEN UNCHANGED toServer
                             ELSE SendToServer(c, "mode")
    /\ Leave(c, IF Choose(c) = "TCP" THEN "connect" ELSE "mode")
    /\ UNCHANGED <<serverVars, backlog>>

\* Any reply will do.  At exactly UdpLimit no branch sends a transport, and
\* the client goes on to wait for the answer to it.
RecvArrayReply(c) ==
    /\ cPhase[c] = "array"
    /\ toClient[c] # <<>>
    /\ IF Choose(c) = "none" THEN UNCHANGED toServer
                             ELSE SendToServer(c, "mode")
    /\ Goto(c, "mode")
    /\ Consume(c)
    /\ UNCHANGED <<serverVars, backlog>>

\* The one reply whose text is compared.
IsStart(c) == Head(toClient[c]) = "Start"

\* After Start the client stays on its socket for UDP and replaces it for TCP;
\* with no transport chosen main falls through to its end.
RecvStart(c) ==
    /\ cPhase[c] = "mode"
    /\ toClient[c] # <<>>
    /\ \/ IsStart(c) /\ Choose(c) = "UDP" /\ Goto(c, "offset") /\ Consume(c)
       \/ IsStart(c) /\ Choose(c) = "TCP" /\ Leave(c, "connect")
       \/ IsStart(c) /\ Choose(c) = "none" /\ Leave(c, "done")
       \/ ~IsStart(c) /\ Leave(c, "notReady")
    /\ UNCHANGED <<serverVars, toServer, backlog>>

\* connect() is refused unless the server is already listening; otherwise the
\* connection waits in the backlog, whether or not the server ever accepts it.
Connect(c) ==
    /\ cPhase[c] = "connect"
    /\ \/ /\ TcpPortOpen
          /\ Goto(c, "tcp")
          /\ backlog' = backlog \cup {c}
       \/ /\ ~TcpPortOpen
          /\ Goto(c, "refused")
          /\ UNCHANGED backlog
    /\ UNCHANGED <<serverVars, toServer, toClient>>

\* TcpClient's last recv, then main's end.
FinishTcp(c) ==
    /\ cPhase[c] = "tcp"
    /\ toClient[c] # <<>>
    /\ Leave(c, "done")
    /\ UNCHANGED <<serverVars, toServer, backlog>>

\* UdpClient, reply by reply; none of the texts is looked at.
RecvUdp(c, phase, send, next) ==
    /\ cPhase[c] = phase
    /\ toClient[c] # <<>>
    /\ SendToServer(c, send)
    /\ Goto(c, next)
    /\ Consume(c)
    /\ UNCHANGED <<serverVars, backlog>>

RecvOffset(c) == RecvUdp(c, "offset", "ackOffset", "index")

\* From the acknowledgement of the index to the two counts: one datagram here.
RecvIndex(c) == RecvUdp(c, "index", "counts", "echo")

RecvEcho(c) ==
    /\ cPhase[c] = "echo"
    /\ toClient[c] # <<>>
    /\ Goto(c, "verdict")
    /\ Consume(c)
    /\ UNCHANGED <<serverVars, toServer, backlog>>

RecvVerdict(c) ==
    /\ cPhase[c] = "verdict"
    /\ toClient[c] # <<>>
    /\ Leave(c, "done")
    /\ UNCHANGED <<serverVars, toServer, backlog>>

\* The user interrupts a run, wherever it is blocked.
Kill(c) ==
    /\ MayKill
    /\ cPhase[c] \in Running
    /\ Leave(c, "killed")
    /\ UNCHANGED <<serverVars, toServer, backlog>>

(***************************************************************************)
(* The server.                                                             *)
(***************************************************************************)

\* return 0 or exit(1): the process is gone and its socket with it.
Exit ==
    /\ sPhase' = "exited"
    /\ toServer' = {}

\* What is neither a count nor a transport is longer than main's buf[256]; the
\* copy that overruns it may leave the process running or bring it down.
Overruns(m) == m.type \notin {"count", "mode"}

\* Mutant: the transport is expected before the array.
ServerCountSkipsArray(m) ==
    /\ sPhase = "count"
    /\ m \in toServer
    /\ cli' = m.from
    /\ sPhase' = "mode"
    /\ toServer' = toServer \ {m}
    /\ fileCount' = Atoi(m)
    /\ fileInfo' = Unfilled
    /\ Reply(m.from, <<"File count">>)
    /\ UNCHANGED <<backlog, cPhase>>

\* First recvfrom of the loop: whatever arrives is read as a count.
ServerCount(m) ==
    /\ sPhase = "count"
    /\ m \in toServer
    /\ cli' = m.from
    /\ \/ /\ sPhase' = "array"
          /\ toServer' = toServer \ {m}
          /\ fileCount' = Atoi(m)
          /\ fileInfo' = Unfilled
          /\ Reply(m.from, <<"File count">>)
       \/ /\ Overruns(m)
          /\ Exit
          /\ UNCHANGED <<fileCount, fileInfo, toClient>>
    /\ UNCHANGED <<backlog, cPhase>>

\* Mutant: the array is stored and not answered.
ServerArrayMute(m) ==
    /\ sPhase = "array"
    /\ m \in toServer
    /\ cli' = m.from
    /\ fileInfo' = IF fileCount = 0 THEN Unfilled ELSE m
    /\ sPhase' = "mode"
    /\ toServer' = toServer \ {m}
    /\ UNCHANGED <<fileCount, backlog, clientVars>>

\* Second recvfrom: whatever arrives is stored as the array, if there is room.
ServerArray(m) ==
    /\ sPhase = "array"
    /\ m \in toServer
    /\ cli' = m.from
    /\ fileInfo' = IF fileCount = 0 THEN Unfilled ELSE m
    /\ sPhase' = "mode"
    /\ toServer' = toServer \ {m}
    /\ Reply(m.from, <<"path array">>)
    /\ UNCHANGED <<fileCount, backlog, cPhase>>

\* Mutant: the text of the request is not checked.
RecognisedAny(m) == TRUE

\* Is the received request one of the four spellings of a transport?
Recognised(m) == m.type = "mode"

\* Third recvfrom.  Start is sent before the text is looked at; a text that is
\* no transport ends the program.
ServerMode(m) ==
    /\ sPhase = "mode"
    /\ m \in toServer
    /\ cli' = m.from
    /\ \/ /\ Reply(m.from, <<"Start">>)
          /\ \/ /\ Recognised(m) /\ Choose(m.from) = "UDP"
                /\ sPhase' = "sendOffset"
                /\ toServer' = toServer \ {m}
             \/ /\ Recognised(m) /\ Choose(m.from) = "TCP"
                /\ sPhase' = "closedUdp"
                /\ toServer' = {}
             \/ /\ ~Recognised(m)
                /\ Exit
       \/ /\ Overruns(m)
          /\ Exit
          /\ UNCHANGED toClient
    /\ UNCHANGED <<fileCount, fileInfo, backlog, cPhase>>

\* socket, bind, and TcpServer's mkdir and listen.
Listen ==
    /\ sPhase = "closedUdp"
    /\ sPhase' = "listening"
    /\ UNCHANGED <<cli, fileCount, fileInfo, toServer, backlog, clientVars>>

Accept(c) ==
    /\ sPhase = "listening"
    /\ c \in backlog
    /\ sPhase' = "tcp"
    /\ cli' = c
    /\ backlog' = backlog \ {c}
    /\ UNCHANGED <<fileCount, fileInfo, toServer, clientVars>>

\* TcpServer sends its verdict on the connection, closes it and returns; the
\* listening socket is still there.
EndTcp ==
    /\ sPhase = "tcp"
    /\ toClient' = IF cPhase[cli] = "tcp"
                   THEN [toClient EXCEPT ![cli] = Append(@, "verdict")]
                   ELSE toClient
    /\ sPhase' = "tcpOver"
    /\ UNCHANGED <<cli, fileCount, fileInfo, toServer, backlog, cPhase>>

\* The peer died on the connection: a send to it raises SIGPIPE, a recv from it
\* may fail.  (A recv that returns 0 instead keeps the server in TcpServer.)
BrokenTcp ==
    /\ sPhase = "tcp"
    /\ cPhase[cli] = "killed"
    /\ Exit
    /\ UNCHANGED <<cli, fileCount, fileInfo, backlog, clientVars>>

\* UdpServer begins by sending the offset, unasked.
SendOffset ==
    /\ sPhase = "sendOffset"
    /\ sPhase' = "ackOffset"
    /\ Reply(cli, <<"offset">>)
    /\ UNCHANGED <<cli, fileCount, fileInfo, toServer, backlog, cPhase>>

\* Every recvfrom of UdpServer takes a datagram of any sender and answers it.
UdpAck(m) ==
    /\ sPhase = "ackOffset"
    /\ m \in toServer
    /\ cli' = m.from
    /\ sPhase' = "counts"
    /\ toServer' = toServer \ {m}
    /\ Reply(m.from, <<"index">>)
    /\ UNCHANGED <<fileCount, fileInfo, backlog, cPhase>>

\* The last recvfrom of UdpServer, its two answers and its return; the socket is
\* still there, and what reaches it from now on is never read.
UdpCounts(m) ==
    /\ sPhase = "counts"
    /\ m \in toServer
    /\ cli' = m.from
    /\ sPhase' = "udpOver"
    /\ toServer' = toServer \ {m}
    /\ Reply(m.from, <<"echo", "verdict">>)
    /\ UNCHANGED <<fileCount, fileInfo, backlog, cPhase>>

\* Bottom of main's loop: the session's socket goes with all that is queued on it.
CloseSession ==
    /\ sPhase \in {"udpOver", "tcpOver"}
    /\ sPhase' = "unbound"
    /\ toServer' = {}
    /\ backlog' = {}
    /\ UNCHANGED <<cli, fileCount, fileInfo, clientVars>>

\* Top of main's loop: a fresh socket, bound, and initGrobal.
NextSession ==
    /\ sPhase = "unbound"
    /\ sPhase' = "count"
    /\ fileCount' = 1
    /\ UNCHANGED <<cli, fileInfo, toServer, backlog, clientVars>>
-----------------------------------------------------------------------------
ServerStep ==
    \/ \E m \in toServer :
        \/ ServerCount(m)
        \/ ServerArray(m)
        \/ ServerMode(m)
        \/ UdpAck(m)
        \/ UdpCounts(m)
    \/ Listen
    \/ \E c \in Clients : Accept(c)
    \/ EndTcp
    \/ BrokenTcp
    \/ SendOffset
    \/ CloseSession
    \/ NextSession

ClientStep(c) ==
    \/ RecvCountReply(c)
    \/ RecvArrayReply(c)
    \/ RecvStart(c)
    \/ Connect(c)
    \/ FinishTcp(c)
    \/ RecvOffset(c)
    \/ RecvIndex(c)
    \/ RecvEcho(c)
    \/ RecvVerdict(c)

Next ==
    \/ ServerStep
    \/ \E c \in Clients : StartClient(c) \/ ClientStep(c) \/ Kill(c)

Spec == Init /\ [][Next]_vars

\* Both programs run whenever they are not blocked in a call.
Fairness ==
    /\ WF_vars(ServerStep)
    /\ \A c \in Clients : WF_vars(ClientStep(c))

FairSpec == Spec /\ Fairness
-----------------------------------------------------------------------------
TypeOK ==
    /\ sPhase \in ServerPhase
    /\ cli \in Clients \cup {NoOne}
    /\ fileCount \in Nat
    /\ fileInfo \in Datagram \cup {Unfilled}
    /\ toServer \subseteq Datagram
    /\ backlog \subseteq Clients
    /\ cPhase \in [Clients -> ClientPhase]
    /\ toClient \in [Clients -> Seq(Message)]

\* When the server goes over to a transfer (server.c:84,108) the count and the
\* array it works from are both those of the client it is about to serve,
\* although each was filled by whatever datagram was next on the socket.
ListAgreement ==
    sPhase \in {"sendOffset"} \cup TcpSession =>
        /\ fileCount = FileCount[cli]
        /\ fileInfo = [from |-> cli, type |-> "array"]

\* A client that acts on "Start" by connecting (client.c:96,119) is the client
\* the server has left its UDP socket for, and no other: Start reaches it as the
\* answer to its transport, never as an answer to something else.
StartMeansAccepted ==
    \A c \in Clients :
        cPhase[c] = "connect" =>
            /\ sPhase \in {"closedUdp", "listening"}
            /\ cli = c
            /\ Choose(c) = "TCP"

\* Also with clients that go over to UDP, and as long as the server lives: whoever
\* connects, waits in the backlog or is served on the TCP socket
\* (server_function.c:445-451) has it to itself, or has its verdict already.
TcpIsExclusive ==
    sPhase # "exited" => \A c \in Clients :
        c \in backlog \/ cPhase[c] \in {"connect", "tcp"} =>
            (sPhase \in TcpSession /\ cli = c) \/ toClient[c] = <<"verdict">>

\* Only server.c:79 and a failing call end the server's loop: as long as runs do
\* not overlap and nothing is lost it never takes that return.
ServerStaysUp == sPhase # "exited"

\* client.c:88 waits for the message that tells whether the server is ready and
\* calls any other text "Server is not ready": after it the connection is made.
StartMeansReady == \A c \in Clients : cPhase[c] # "refused"

\* client.c:88 receives a message on whether the server is ready: a client that
\* waits for it gets an answer.
ReadyMessageComes == \A c \in Clients : cPhase[c] = "mode" ~> cPhase[c] # "mode"

\* A run whose count is waiting at the server's first recvfrom (server.c:34) gets its
\* verdict.  It is no promise for a run started between the verdict of the one before
\* it and server.c:27: its count is closed with the old socket (server.c:110) or finds
\* none, and the client waits for ever.
HeardRunEnds ==
    \A c \in Clients :
        sPhase = "count" /\ [from |-> c, type |-> "count"] \in toServer
            ~> cPhase[c] = "done"
=============================================================================
