------------------------ MODULE NegotiationInvariant ------------------------
(***************************************************************************)
(* Why the session protocol keeps its requests apart when no client goes    *)
(* over to UDP: an inductive invariant.  It says, for each phase of the     *)
(* server, what the client being served and every other client may still    *)
(* have on its way to the server or waiting in its own socket.              *)
(***************************************************************************)
EXTENDS Negotiation

NoUdp == \A c \in Clients : Choose(c) # "UDP"

Sends(c, types) == \A m \in toServer : m.from = c => m.type \in types

\* A client the server owes nothing and that has nothing but a count to say.
Silent(c) ==
    /\ cPhase[c] # "connect"
    /\ cPhase[c] # "tcp" => toClient[c] = <<>>
    /\ Sends(c, {"count"})

\* The client whose count opened the session.
Counted(c) ==
    \/ /\ cPhase[c] = "count"
       /\ toClient[c] \in {<<>>, <<"File count">>}
       /\ Sends(c, {})
    \/ /\ cPhase[c] \in {"array", "unsent", "killed"}
       /\ toClient[c] = <<>>
       /\ Sends(c, {"array"})

\* The client whose count and array the server holds.
Listed(c) ==
    \/ /\ cPhase[c] = "array"
       /\ toClient[c] \in {<<>>, <<"path array">>}
       /\ Sends(c, {})
    \/ /\ cPhase[c] \in {"mode", "killed"}
       /\ toClient[c] = <<>>
       /\ Sends(c, {"mode"})

\* A client when the server has taken two counts for a count and an array:
\* nobody will ever get as far as naming a transport.
Doomed(c) ==
    /\ cPhase[c] # "connect"
    /\ cPhase[c] \in {"array", "mode"} => toClient[c] = <<>>
    /\ Sends(c, {"count", "array"})

\* The client the server has left its UDP socket for, before it is accepted.
Started(c) ==
    \/ /\ cPhase[c] = "mode"
       /\ toClient[c] \in {<<>>, <<"Start">>}
       /\ backlog = {}
    \/ /\ cPhase[c] \in {"connect", "refused"}
       /\ toClient[c] = <<>>
       /\ backlog = {}
    \/ /\ cPhase[c] \in {"tcp", "killed"}
       /\ toClient[c] = <<>>
       /\ backlog \subseteq {c}

\* A client after the server is gone.
Stranded(c) ==
    /\ cPhase[c] # "connect"
    /\ cPhase[c] = "mode" => toClient[c] # <<"Start">>
-----------------------------------------------------------------------------
\* A client has at most one thing under way: its request or the reply to it.
OneOutstanding ==
    /\ \A c \in Clients :
        /\ toClient[c] = <<>> \/ \E text \in Message : toClient[c] = <<text>>
        /\ toClient[c] # <<>> => cPhase[c] \in Handshake \cup {"tcp"}
        /\ cPhase[c] \notin ClientUdpSession
    /\ \A m \in toServer :
        /\ m.type \in Handshake
        /\ cPhase[m.from] \in {m.type, "killed"}
        /\ toClient[m.from] = <<>>

OthersSilent == \A c \in Clients \ {cli} : Silent(c)

ListIsOf(c) ==
    /\ fileCount = FileCount[c]
    /\ fileInfo = [from |-> c, type |-> "array"]

InCount == backlog = {} /\ \A c \in Clients : Silent(c)

InArray ==
    /\ backlog = {}
    /\ cli \in Clients
    /\ fileCount = FileCount[cli]
    /\ Counted(cli)
    /\ OthersSilent

InMode ==
    /\ backlog = {}
    /\ \/ cli \in Clients /\ ListIsOf(cli) /\ Listed(cli) /\ OthersSilent
       \/ \A c \in Clients : Doomed(c)

InTcp ==
    /\ toServer = {}
    /\ cli \in Clients
    /\ ListIsOf(cli)
    /\ Choose(cli) = "TCP"
    /\ OthersSilent

InExited == toServer = {} /\ \A c \in Clients : Stranded(c)

Phases ==
    /\ sPhase \notin UdpSession
    /\ sPhase \in {"tcpOver", "unbound", "count"} => InCount
    /\ sPhase = "array" => InArray
    /\ sPhase = "mode" => InMode
    /\ sPhase = "closedUdp" => InTcp /\ Started(cli) /\ cPhase[cli] # "tcp"
                               /\ backlog = {}
    /\ sPhase = "listening" => InTcp /\ Started(cli)
    /\ sPhase = "tcp" => /\ InTcp
                         /\ cPhase[cli] \in {"tcp", "killed"}
                         /\ toClient[cli] = <<>>
                         /\ backlog = {}
    /\ sPhase = "exited" => InExited

\* The inductive invariant behind ListAgreement and StartMeansAccepted: at every
\* point of server.c:33-108 all clients but the one being served are silent, and
\* that one's next datagram is the one the next recvfrom is meant for.
NoUdpInv == NoUdp => TypeOK /\ OneOutstanding /\ Phases
-----------------------------------------------------------------------------
(* Who owns the TCP connection, with clients of either kind.                *)

HasStart(c) == \E k \in DOMAIN toClient[c] : toClient[c][k] = "Start"

Waiting == {"closedUdp", "listening"}

\* A client that does not go over to UDP finds Start in its queue only while the server
\* waits for its connection.
OwnsStart(c) ==
    HasStart(c) /\ Choose(c) # "UDP" => sPhase \in Waiting /\ cli = c /\ backlog = {}

OwnsConnection(c) ==
    /\ c \in backlog => cli = c /\ cPhase[c] \in {"tcp", "killed"} /\ toClient[c] = <<>>
    /\ cPhase[c] = "connect" =>
        sPhase \in Waiting /\ cli = c /\ backlog = {} /\ toClient[c] = <<>>
    /\ cPhase[c] = "tcp" =>
        \/ toClient[c] = <<"verdict">> /\ c \notin backlog
        \/ /\ toClient[c] = <<>>
           /\ cli = c
           /\ sPhase = "tcp" \/ (sPhase = "listening" /\ c \in backlog)
    /\ sPhase = "tcp" /\ cli = c => cPhase[c] \in {"tcp", "killed"} /\ toClient[c] = <<>>

\* The inductive invariant behind TcpIsExclusive: Start goes to the one client the server
\* leaves its UDP socket for (server.c:61-108), and the server comes back to that socket
\* only after this client's connection.
TcpInv ==
    /\ TypeOK
    /\ sPhase # "exited" =>
        /\ sPhase # "listening" => backlog = {}
        /\ \A c \in Clients : OwnsStart(c) /\ OwnsConnection(c)
-----------------------------------------------------------------------------
(* Runs in sequence.                                                        *)

\* Nobody interferes with a run, and no array is too long for a datagram.
Undisturbed ==
    /\ OneAtATime
    /\ ~Lossy
    /\ ~MayKill
    /\ \A c \in Clients : ArrayFits(c)

Nothing == {}
Ask(c, type) == {[from |-> c, type |-> type]}

\* Where the two programs are, and what is on its way from the client and to it.
Here(c, client, server, requests, replies) ==
    /\ cPhase[c] = client
    /\ sPhase = server
    /\ toServer = requests
    /\ toClient[c] = replies

ListHere(c) == cli = c /\ ListIsOf(c)

InHandshake(c) ==
    \/ Here(c, "count", "count", Ask(c, "count"), <<>>)
    \/ /\ fileCount = FileCount[c]
       /\ \/ Here(c, "count", "array", Nothing, <<"File count">>)
          \/ Here(c, "array", "array", Ask(c, "array"), <<>>)
    \/ /\ ListHere(c)
       /\ \/ Here(c, "array", "mode", Nothing, <<"path array">>)
          \/ Here(c, "mode", "mode", Ask(c, "mode"), <<>>) /\ Choose(c) # "none"
          \/ Here(c, "mode", "mode", Nothing, <<>>) /\ Choose(c) = "none"

\* Where the server may be once it has sent a verdict.
AfterUdp == {"udpOver", "unbound", "count"}
AfterTcp == {"tcpOver", "unbound", "count"}

InUdp(c) ==
    /\ Choose(c) = "UDP"
    /\ cli = c
    /\ \/ Here(c, "mode", "sendOffset", Nothing, <<"Start">>)
       \/ Here(c, "mode", "ackOffset", Nothing, <<"Start", "offset">>)
       \/ Here(c, "offset", "sendOffset", Nothing, <<>>)
       \/ Here(c, "offset", "ackOffset", Nothing, <<"offset">>)
       \/ Here(c, "index", "ackOffset", Ask(c, "ackOffset"), <<>>)
       \/ Here(c, "index", "counts", Nothing, <<"index">>)
       \/ Here(c, "echo", "counts", Ask(c, "counts"), <<>>)
       \/ \E server \in AfterUdp :
              \/ Here(c, "echo", server, Nothing, <<"echo", "verdict">>)
              \/ Here(c, "verdict", server, Nothing, <<"verdict">>)

InTcpRun(c) ==
    /\ Choose(c) = "TCP"
    /\ cli = c
    /\ \/ \E server \in Waiting : Here(c, "mode", server, Nothing, <<"Start">>)
       \/ \E server \in Waiting : Here(c, "connect", server, Nothing, <<>>)
       \/ Here(c, "tcp", "listening", Nothing, <<>>)
       \/ Here(c, "tcp", "tcp", Nothing, <<>>)
       \/ \E server \in AfterTcp : Here(c, "tcp", server, Nothing, <<"verdict">>)

\* A run that will wait for ever: nobody was on the UDP port when it sent its count -
\* the run before was refused by TCP, or the server is between two sockets - or the
\* socket that has its count is about to be closed.
Unheard(c) ==
    \/ \E server \in Waiting \cup AfterTcp :
           Here(c, "count", server, Nothing, <<>>)
    \/ Here(c, "count", "udpOver", Ask(c, "count"), <<>>)

Session(c) == InHandshake(c) \/ InUdp(c) \/ InTcpRun(c) \/ Unheard(c)

AllOver == \A c \in Clients : cPhase[c] \notin Running

\* One run at a time; the server is where it can meet it, and a run that is over leaves
\* nothing behind.
InTurns ==
    /\ \A c, d \in Clients : cPhase[c] \in Running /\ cPhase[d] \in Running => c = d
    /\ \A c \in Clients : IF cPhase[c] \in Running THEN Session(c) ELSE toClient[c] = <<>>
    /\ AllOver => toServer = {} /\ sPhase \in Waiting \cup AfterUdp \cup AfterTcp
    /\ \A c \in Clients : c \in backlog <=> cPhase[c] = "tcp" /\ sPhase = "listening"
    /\ sPhase \in Waiting => cli \in Clients

\* The inductive invariant behind ServerStaysUp: a run and the server take turns
\* (client.c:55-120, server.c:33-108).
SequenceInv == Undisturbed => TypeOK /\ InTurns /\ ListAgreement
=============================================================================
