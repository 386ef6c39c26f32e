------------------------ MODULE UdpTransferInvariant ------------------------
(***************************************************************************)
(* The inductive invariant of UdpTransfer: what survives lost datagrams,    *)
(* datagrams of other runs and kills, and what an undisturbed session has.  *)
(***************************************************************************)
EXTENDS UdpTransfer, TransferInvariant

TypeInv == TypeOK /\ InLoops

OnlyStrays == \A j \in 1 .. Len(toServer) : toServer[j] = Text("stray")

\* What waits for the server is of the file it writes to, and the end of the file is
\* the last the client has sent.
ToServerInv ==
    \A j \in 1 .. Len(toServer) :
        /\ toServer[j].block.n > 0 => toServer[j].block.file = Target
        /\ toServer[j].type = "eof" =>
            /\ cPhase = "eof" \/ ~Alive
            /\ \A k \in j + 1 .. Len(toServer) : toServer[k] = Text("stray")

\* How far the client can be ahead: by the rest of one file and its end.  A datagram may
\* be missing, or a stray one may have taken its place.
ClientInv ==
    /\ cPhase = "offset" => OnlyStrays
    /\ cPhase = "index" =>
        \/ /\ toClient = <<>>
           /\ \A j \in 1 .. Len(toServer) :
                /\ toServer[j] \in {Text("ack"), Text("stray")}
                /\ toServer[j] = Text("ack") =>
                    \A k \in j + 1 .. Len(toServer) : toServer[k] = Text("stray")
        \/ toClient = <<Index>> /\ OnlyStrays /\ sPhase # "ackOffset"
    /\ cPhase \in {"offset", "index"} => Target = NextFile(indexA)
    /\ cPhase \in {"read", "length"} =>
        sPhase # "ackOffset" /\ toClient = <<>> /\ sending = Target
    /\ cPhase = "eof" =>
        /\ sPhase # "ackOffset"
        /\ \/ toClient = <<>> /\ sending = Target
           \/ OnlyStrays /\ NextFile(sending + 1) = Target

Paired ==
    /\ ToServerInv
    /\ ClientInv
    /\ cPhase \in {"offset", "eof"} => Len(toClient) <= 1
    /\ sPhase = "length" /\ block.n > 0 => block.file = entry

\* As long as no datagram has overtaken another and no block was taken for the end of a
\* file, the two sides of the transfer (client_function.c:154-216,
\* server_function.c:179-284) work on the same file until the server is past its list.
LockStep ==
    /\ sPhase \notin Serving \cup {"start"} => toServer = <<>>
    /\ sPhase = "start" => toClient = <<>> /\ cPhase \in {"offset", "killed"} /\ OnlyStrays
    /\ "stray" \notin mishaps => \A j \in 1 .. Len(toServer) : toServer[j].type # "stray"
    /\ sPhase \in Serving \ {"dirCnt"} /\ mishaps \cap {"marker", "overtaken"} = {} => Paired
-----------------------------------------------------------------------------
(* What an undisturbed session has delivered, and what is on its way.      *)

\* How far the copies have grown: by the whole of a file once the server is past it, by a
\* part of it while it is open, by nothing before.
Delivered ==
    /\ entry >= indexA
    /\ \A i \in Files :
        /\ saved[i] = before[i] \o Piece(0, i, Added(i))
        /\ Added(i) \in 0 .. Size[i]
        /\ i < indexA \/ i > entry \/ (i = entry /\ sPhase = "loop") => Added(i) = 0
        /\ indexA <= i /\ i < entry => Added(i) = Size[i]

\* What the server takes next, if all is well.
Expects ==
    CASE sPhase = "ackIndex" -> <<"ack", 0>>
      [] sPhase = "length" -> <<"length", block>>
      [] sPhase = "content" -> <<"block", Added(entry)>>
      [] sPhase = "dirCnt" -> <<"count", 0>>
      [] OTHER -> <<"block", 0>>

\* What has to follow datagram m, and what can follow next.
After(m) ==
    CASE m.type = "ack" -> <<"block", 0>>
      [] m.type = "block" -> <<"length", m.block>>
      [] m.type = "length" -> <<"block", m.block.at + m.block.n>>
      [] OTHER -> <<"end", 0>>

Fits(next, m) ==
    \/ m.type = "ack" /\ next = <<"ack", 0>>
    \/ /\ m.type = "block" /\ next = <<"block", m.block.at>>
       /\ m.block.n > 0
       /\ Target \in Files
       /\ m.block.at + m.block.n <= Size[Target]
    \/ m.type = "length" /\ next = <<"length", m.block>>
    \/ m.type = "eof" /\ next[1] = "block" /\ Target \in Files /\ next[2] >= Size[Target]
    \/ m.type = "count" /\ next = <<"block", 0>> /\ Target = FileCount
    \/ m.type = "count" /\ next = <<"count", 0>>

\* What has to come at place j of the queue, and what the client sends next.
NextAt(j) == IF j = 1 THEN Expects ELSE After(toServer[j - 1])

Answered == toClient # <<>>

Sends ==
    CASE cPhase = "read" -> <<"block", pos>>
      [] cPhase = "length" -> <<"length", ReadHere>>
      [] cPhase = "counts" \/ (cPhase = "eof" /\ Answered) -> <<"block", 0>>
      [] cPhase = "index" /\ Answered -> <<"ack", 0>>
      [] cPhase = "fileEcho" /\ Answered -> <<"count", 0>>
      [] OTHER -> <<"end", 0>>

Chained ==
    /\ \A j \in 1 .. Len(toServer) : Fits(NextAt(j), toServer[j])
    /\ Alive => NextAt(Len(toServer) + 1) = Sends

\* Where the client can be.
ClientFits ==
    /\ cPhase \in {"offset", "index", "read", "length", "eof", "counts", "fileEcho", "dirEcho"}
    /\ cPhase = "offset" => sPhase = "ackOffset" /\ toServer = <<>> /\ Answered
    /\ cPhase = "index" /\ ~Answered => sPhase = "ackOffset" /\ toServer = <<Text("ack")>>
    /\ cPhase # "offset" /\ (cPhase = "index" => Answered) => sPhase # "ackOffset"
    /\ cPhase \in {"counts", "fileEcho", "dirEcho"} => Target = FileCount
    /\ cPhase \in {"counts", "dirEcho"} => ~Answered
    /\ cPhase = "fileEcho" => Len(toClient) <= 1
    /\ sPhase = "dirCnt" => cPhase \in {"fileEcho", "dirEcho"}
    /\ cPhase = "dirEcho" => sPhase = "dirCnt"

\* A session that the network and other runs leave alone, and in which no block is taken
\* for the end of a file, delivers the client's files byte by byte
\* (client_function.c:255-310, server_function.c:208-262), and if the client dies, what it
\* has sent until then.
Streaming ==
    sPhase \in Serving /\ Clean =>
        /\ sPhase # "misaligned"
        /\ IF sPhase \in {"ackOffset", "ackIndex"} THEN saved = before ELSE Delivered
        /\ sPhase = "length" =>
            /\ block.n > 0
            /\ block.at = Added(entry)
            /\ block.at + block.n <= Size[entry]
        /\ IF sPhase = "ackOffset" THEN toServer \in {<<>>, <<Text("ack")>>} ELSE Chained
        /\ Alive => ClientFits
-----------------------------------------------------------------------------
(* When the client comes to its end.                                       *)

\* The session has delivered all it had to.
Complete == \A i \in Files : saved[i] = before[i] \o (IF i < indexA THEN <<>> ELSE Source(i))

\* The client will not ask for a file any more.
AtEnd ==
    \/ cPhase \in {"counts", "fileEcho", "dirEcho", "verdict", "done"}
    \/ cPhase = "eof" /\ Answered /\ NextFile(sending + 1) = FileCount
    \/ cPhase = "index" /\ Answered /\ NextFile(indexA) = FileCount

\* The client comes to its end only when the server's session is over, and every file is
\* complete (client_function.c:176-216, server_function.c:263-284), also if the server dies
\* while its answers are still on their way - unless the network or another run has
\* disturbed the session, or a block was taken for the end of a file.
Reporting ==
    /\ Alive /\ Clean /\ sPhase \notin Serving \cup {"start"} =>
        /\ cPhase = "offset" => saved = before /\ Len(toClient) <= 1
        /\ cPhase = "index" => toClient \in {<<>>, <<Index>>}
        /\ cPhase \in {"read", "length"} => ~Answered
        /\ cPhase = "eof" => Len(toClient) <= 1
    /\ Clean /\ cPhase = "done" => sPhase \notin Serving \cup {"start"}
    /\ (Alive \/ cPhase = "done") /\ Clean /\ AtEnd => Complete
-----------------------------------------------------------------------------
(* What the sessions leave under ./save.                                   *)

\* Until something goes wrong for the first time, if only that a block is taken for the end
\* of a file, one is left behind only complete.
NoneLeft ==
    mishaps = {} =>
        /\ \A j \in present : \A i \in Files : i < j /\ saved[i] = <<>> => Size[i] = 0
        /\ Kind[indexA] # "none" =>
            \A i \in Files : i < indexA /\ before[i] = <<>> => Size[i] = 0

\* What the starting points of the sessions rest on.
Kept == InOrder /\ NoneLeft
=============================================================================
