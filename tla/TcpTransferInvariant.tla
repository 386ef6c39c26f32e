------------------------ MODULE TcpTransferInvariant ------------------------
(***************************************************************************)
(* The inductive invariant of TcpTransfer: the two loops over the two lists *)
(* of entries run in lock step with what is on its way between them.        *)
(***************************************************************************)
EXTENDS TcpTransfer, TransferInvariant

TypeInv == TypeOK /\ InLoops

\* What waits for the server is of the file it writes to, and the end of the file is
\* the last of it.
ToServerInv ==
    \A j \in 1 .. Len(toServer) :
        /\ toServer[j].block.n > 0 => toServer[j].block.file = Target
        /\ toServer[j].type = "eof" => j = Len(toServer)
        /\ toServer[j].type = "eof" => cPhase = "eof" \/ ~Alive

\* How far the client can be ahead: by the rest of one file and its end.
ClientInv ==
    /\ cPhase = "offset" =>
        sPhase = "ackOffset" /\ toServer = <<>> /\ Len(toClient) <= 1
    /\ cPhase = "index" =>
        \/ sPhase = "ackOffset" /\ Len(toServer) <= 1 /\ toClient = <<>>
        \/ sPhase = "ackIndex" /\ toServer = <<>> /\ toClient = <<Index>>
    /\ cPhase \in {"read", "length"} =>
        sPhase # "ackOffset" /\ toClient = <<>> /\ sending = Target
    /\ cPhase = "eof" =>
        /\ sPhase # "ackOffset"
        /\ \/ toClient = <<>> /\ sending = Target
           \/ toServer = <<>> /\ Len(toClient) = 1 /\ NextFile(sending + 1) = Target

\* The two sides of the transfer (client_function.c:472, server_function.c:490) work on
\* the same file as long as no block was taken for the end of one.
LockStep ==
    /\ sPhase = "down" => ~connected
    /\ sPhase \in Serving \cup {"start"} => connected
    /\ sPhase \in Serving => "guess" \notin mishaps
    /\ sPhase = "start" =>
        toServer = <<>> /\ toClient = <<>> /\ cPhase \in {"offset", "killed"}
    /\ sPhase \in Serving /\ "marker" \notin mishaps =>
        /\ ToServerInv
        /\ ClientInv
        /\ sPhase = "length" /\ block.n > 0 => block.file = entry
-----------------------------------------------------------------------------
(* What an undisturbed session has delivered, and what is on its way.      *)

Base == Seek(fileOffset)

Rest(i) == IF Base < Size[i] THEN Size[i] - Base ELSE 0

\* How far the copies have grown: by all that is left of a file once the server is past
\* it, by a part of it while it is open, by nothing before.
Delivered ==
    /\ entry >= indexA
    /\ \A i \in Files :
        /\ saved[i] = before[i] \o Piece(Base, i, Added(i))
        /\ Added(i) \in 0 .. Rest(i)
        /\ i < indexA \/ i > entry \/ (i = entry /\ sPhase = "loop") => Added(i) = 0
        /\ indexA <= i /\ i < entry => Added(i) = Rest(i)

\* What the server takes next, if all is well.
Expects ==
    IF sPhase = "ackIndex" THEN <<"ack", 0>>
    ELSE IF sPhase = "length" THEN <<"length", block>>
    ELSE <<"block", IF sPhase = "content" THEN Base + Added(entry) ELSE Base>>

\* What has to follow message m, and what can follow next.
After(m) ==
    IF m.type = "ack" THEN <<"block", Base>>
    ELSE IF m.type = "block" THEN <<"length", m.block>>
    ELSE IF m.type = "length" THEN <<"block", m.block.at + m.block.n>>
    ELSE <<"end", 0>>

Fits(next, m) ==
    \/ m.type = "ack" /\ next = <<"ack", 0>>
    \/ /\ m.type = "block" /\ next = <<"block", m.block.at>>
       /\ m.block.n > 0
       /\ m.block.at + m.block.n <= Size[Target]
    \/ m.type = "length" /\ next = <<"length", m.block>>
    \/ m.type = "eof" /\ next[1] = "block" /\ next[2] >= Size[Target]

\* What has to come at place j of the queue, and what the client sends next.
NextAt(j) == IF j = 1 THEN Expects ELSE After(toServer[j - 1])

Sends ==
    IF cPhase = "read" THEN <<"block", pos>>
    ELSE IF cPhase = "length" THEN <<"length", ReadHere>>
    ELSE <<"end", 0>>

Linked == \A j \in 1 .. Len(toServer) : Fits(NextAt(j), toServer[j])

Chained == Linked /\ NextAt(Len(toServer) + 1) = Sends

InFile == cPhase \in {"read", "length"} \/ (cPhase = "eof" /\ toClient = <<>>)

\* A session in which nothing has gone wrong delivers the client's files byte by byte
\* (client_function.c:575-595, server_function.c:503-553).
Streaming ==
    Intact =>
        /\ sPhase # "misaligned"
        /\ IF sPhase \in {"ackOffset", "ackIndex"} THEN saved = before ELSE Delivered
        /\ sPhase = "length" =>
            /\ block.n > 0
            /\ block.at = Base + Added(entry)
            /\ block.at + block.n <= Size[entry]
        /\ InFile => Chained
        /\ cPhase = "eof" /\ toClient # <<>> => Expects = <<"block", Base>>
        /\ cPhase \in {"counts", "fileEcho", "dirEcho", "verdict"} => Target = FileCount
-----------------------------------------------------------------------------
(* When the client comes to its end.                                       *)

Complete == \A i \in Files : i >= indexA => Added(i) = Rest(i)

\* In the closing exchanges the client is never ahead of the server by more than one
\* count, and never gets an answer the server has not given in this session.
Echoes ==
    /\ cPhase \in {"counts", "fileEcho", "dirEcho"} => sPhase # "ackOffset"
    /\ cPhase \in {"counts", "dirEcho"} => toClient = <<>>
    /\ cPhase \notin {"fileEcho", "dirEcho"} =>
        /\ sPhase # "dirCnt"
        /\ \A j \in 1 .. Len(toServer) : toServer[j].type # "count"
    /\ cPhase = "fileEcho" =>
        \/ /\ sPhase # "dirCnt"
           /\ toClient = <<>>
           /\ \A j \in 1 .. Len(toServer) : toServer[j].type = "count" => j = Len(toServer)
        \/ sPhase = "dirCnt" /\ toServer = <<>> /\ Len(toClient) = 1
    /\ cPhase = "dirEcho" => sPhase = "dirCnt"
    /\ cPhase # "verdict"

\* The client will not ask for a file any more.
AtEnd ==
    \/ cPhase \in {"counts", "fileEcho", "dirEcho", "verdict", "done"}
    \/ cPhase = "eof" /\ toClient # <<>> /\ NextFile(sending + 1) = FileCount
    \/ cPhase = "index" /\ toClient # <<>> /\ NextFile(indexA) = FileCount

\* The client comes to its end only when the server's session is over
\* (client_function.c:505-533, server_function.c:571-597), and every file is complete, also
\* if the server dies while its answers are on their way - unless the client never got the
\* index (client_function.c:446, 458) and started from what was in its buffer.
Reporting ==
    /\ sPhase \in Serving /\ Clean => cPhase # "done"
    /\ Intact => Echoes
    /\ Alive /\ Clean /\ cPhase = "offset" /\ toClient # <<>> =>
        Head(toClient).value = StartOffset /\ indexA = StartIndex
    /\ Alive /\ Clean /\ sPhase \notin Serving \cup {"start"} =>
        /\ cPhase = "offset" /\ toClient # <<>> => saved = before /\ Len(toClient) = 1
        /\ cPhase = "index" => toClient \in {<<>>, <<Index>>}
        /\ cPhase \in {"read", "length"} => toClient = <<>>
        /\ cPhase = "eof" => Len(toClient) <= 1
    /\ (Alive \/ cPhase = "done") /\ Clean /\ AtEnd => Complete
-----------------------------------------------------------------------------
(* What the sessions leave under ./save.                                   *)

\* The offset FilePathCheck has found for the entry it starts from.
Agreed == IF indexA \in Files /\ before[indexA] # <<>> THEN Len(before[indexA]) - 1 ELSE 0

BeforeLoop == sPhase \in {"ackOffset", "ackIndex"}

\* The server has been through an entry.
Passed(i) == ~ BeforeLoop /\ indexA <= i /\ i < entry

\* A file the server is past has received at least what was left of it, and only the file
\* that is open has received anything else.
Grown ==
    IF BeforeLoop THEN saved = before /\ indexA = StartIndex
    ELSE /\ entry >= indexA
         /\ \A i \in Files :
            /\ i < indexA \/ i > entry \/ (i = entry /\ sPhase = "loop") => saved[i] = before[i]
            /\ Added(i) >= IF Passed(i) THEN Rest(i) ELSE 0

\* What a dead client has sent still fits, as long as it lasts.
Bequest ==
    IF sPhase = "ackOffset" THEN Len(toServer) <= 1
    ELSE Target # FileCount =>
        /\ Linked
        /\ sPhase = "length" => block.n > 0 /\ block.at = Base + Added(entry)

\* A session in which nothing has gone wrong but deaths leaves a file only when it is
\* complete, also the session of a dead client, which the server goes on serving
\* (server_function.c:503-554).
Leaving ==
    sPhase \in Serving /\ Clean =>
        /\ sPhase # "misaligned"
        /\ Grown
        /\ (Alive /\ cPhase # "offset") \/ toServer # <<>> \/ (\E i \in Files : Passed(i))
            => Base = Agreed
        /\ ~ Alive /\ toServer # <<>> => Bequest

\* When a client comes to its end, so have its files, unless it had to guess where to
\* start.
Ended ==
    /\ Alive \/ cPhase = "done"
    /\ Clean
    /\ AtEnd
    => /\ Base = Agreed
       /\ \A i \in Files :
            saved[i] = before[i] \o (IF i < indexA THEN <<>> ELSE From(i, Base))

\* A copy that was complete when it was continued, or was continued to its end, is longer
\* than its file, and stays so.
Spoilt(copies) == \E i \in Files : Len(copies[i]) > Size[i]

\* Until something goes wrong for the first time - a client that guesses where to start
\* apart, since the server it lost is gone - a file is left behind empty only if it is
\* empty, or behind the copy of another that was spoilt by being continued.
NoneLeft ==
    mishaps \subseteq {"guess"} =>
        /\ \/ Spoilt(saved)
           \/ \A j \in present : \A i \in Files : i < j /\ saved[i] = <<>> => Size[i] = 0
        /\ \/ Kind[indexA] = "none"
           \/ Spoilt(before)
           \/ \A i \in Files : i < indexA /\ before[i] = <<>> => Size[i] = 0

\* What the starting points of the sessions rest on.
Kept == InOrder /\ Leaving /\ Ended /\ NoneLeft
=============================================================================
