----------------------------- MODULE TcpTransfer -----------------------------
(***************************************************************************)
(* The transfer of one tree over TCP: TcpClient and TcpFileTrans against    *)
(* TcpServer.  Runs end early when a user kills a process; ./save outlives  *)
(* the server.                                                              *)
(*                                                                          *)
(* Abstractions.  A message is what one send() hands over, and a recv()     *)
(* takes a whole one, but for the length, which may come short.  While the  *)
(* server's reads do not fall on the bounds of messages, a read takes some  *)
(* message and yields anything that can be made of it.                      *)
(***************************************************************************)
EXTENDS Transfer

CONSTANTS
    ServerDirs,     \* directories the server counts under file_info[0].path
    MayKillClient, MayKillServer,
    MayReadShort    \* recv may return a part of the ten bytes of a length

ASSUME EnvironmentAssumption ==
    /\ ServerDirs \in Nat
    /\ MayKillClient \in BOOLEAN
    /\ MayKillServer \in BOOLEAN
    /\ MayReadShort \in BOOLEAN

VARIABLES
    verdict,    \* client: the integrity text it was sent
    connected   \* the server's end of the connection is open: TcpServer does not close
                \* it, only the server's death does

serverSide == <<store, server>>
clientSide == <<client, verdict, sessions>>
vars == <<serverSide, clientSide, mishaps, connected, toServer, toClient>>
-----------------------------------------------------------------------------
Init ==
    /\ TransferInit
    /\ sPhase = "accept"
    /\ verdict = "none"
    /\ connected = FALSE

(***************************************************************************)
(* The client.                                                             *)
(***************************************************************************)

\* What is sent to a server that is gone is lost, unless the send fails.
Send(message) == toServer' = IF connected THEN Append(toServer, message) ELSE toServer

Got(type) == toClient # <<>> /\ Head(toClient).type = type
Consume == toClient # <<>> /\ toClient' = Tail(toClient)

\* A new run of the client, up to its connect.
Connect ==
    /\ ~Alive
    /\ sPhase = "accept"
    /\ sPhase' = "start"
    /\ sessions < MaxSessions
    /\ sessions' = sessions + 1
    /\ cPhase' = "offset"
    /\ sending' = 0
    /\ fileOffset' = 0
    /\ pos' = 0
    /\ verdict' = "none"
    /\ connected' = TRUE
    /\ toServer' = <<>>
    /\ toClient' = <<>>
    /\ UNCHANGED <<store, indexA, entry, block, mishaps>>

RecvOffset ==
    /\ cPhase = "offset"
    /\ Consume
    /\ fileOffset' = Head(toClient).value
    /\ Send(Text("ack"))
    /\ cPhase' = "index"
    /\ UNCHANGED <<sending, pos>>

\* Every file is read from the one offset received.
RecvIndex ==
    /\ cPhase = "index"
    /\ Consume
    /\ Send(Text("ack"))
    /\ MoveTo(Head(toClient).value, Seek(fileOffset))

SendBlock ==
    /\ cPhase = "read"
    /\ pos < Size[sending]
    /\ Send([type |-> "block", block |-> ReadHere])
    /\ cPhase' = "length"
    /\ UNCHANGED <<cursor, toClient>>

SendLength ==
    /\ cPhase = "length"
    /\ Send([type |-> "length", block |-> ReadHere])
    /\ pos' = pos + ReadHere.n
    /\ cPhase' = "read"
    /\ UNCHANGED <<sending, fileOffset, toClient>>

SendEof ==
    /\ cPhase = "read"
    /\ pos >= Size[sending]
    /\ Send(Text("eof"))
    /\ cPhase' = "eof"
    /\ UNCHANGED <<cursor, toClient>>

RecvEof ==
    /\ cPhase = "eof"
    /\ Got("eof")
    /\ Consume
    /\ MoveTo(sending + 1, Seek(fileOffset))
    /\ UNCHANGED toServer

SendFileCount ==
    /\ cPhase = "counts"
    /\ Send(Text("count"))
    /\ cPhase' = "fileEcho"
    /\ UNCHANGED <<cursor, toClient>>

RecvFileEcho ==
    /\ cPhase = "fileEcho"
    /\ Consume
    /\ Send(Text("count"))
    /\ cPhase' = "dirEcho"
    /\ UNCHANGED cursor

RecvDirEcho ==
    /\ cPhase = "dirEcho"
    /\ Consume
    /\ cPhase' = "verdict"
    /\ UNCHANGED <<cursor, toServer>>

\* The server's end is gone and recv returns 0: the client looks for -1 only.
NothingComes == ~connected /\ toClient = <<>>

\* It goes through the closing rounds all the same.
RecvNothing ==
    /\ NothingComes
    /\ \/ cPhase = "fileEcho" /\ cPhase' = "dirEcho"
       \/ cPhase = "dirEcho" /\ cPhase' = "verdict"
       \/ cPhase = "verdict" /\ cPhase' = "done"
    /\ UNCHANGED <<cursor, toServer, toClient>>

\* It takes for the offset what atoi makes of a buf that was never filled: the numbers
\* here stand for any, a negative one being as good as 0.
GuessOffset ==
    /\ NothingComes
    /\ cPhase = "offset"
    /\ fileOffset' \in 0 .. FileCount
    /\ cPhase' = "index"
    /\ UNCHANGED <<sending, pos, toServer, toClient>>

\* It takes for the index the offset, which is still in buf. Before the array there may
\* by chance be what looks like directories; if not, the client fails.
GuessIndex ==
    /\ NothingComes
    /\ cPhase = "index"
    /\ MoveTo(fileOffset, Seek(fileOffset))
    /\ UNCHANGED <<toServer, toClient>>

Guess == (GuessOffset \/ GuessIndex) /\ mishaps' = mishaps \cup {"guess"}

\* The server's end is gone: a send or recv fails, or what recv leaves in buf is not
\* the text it is compared with; or another text than the end of a file has come.
Fail ==
    /\ \/ ~connected /\ Alive /\ (toClient = <<>> \/ cPhase \notin {"eof", "dirEcho", "verdict"})
       \/ cPhase = "eof" /\ toClient # <<>> /\ ~Got("eof")
    /\ cPhase' = "failed"
    /\ UNCHANGED <<cursor, toServer, toClient>>

ClientMoves ==
    \/ RecvOffset
    \/ RecvIndex
    \/ SendBlock
    \/ SendLength
    \/ SendEof
    \/ RecvEof
    \/ SendFileCount
    \/ RecvFileEcho
    \/ RecvDirEcho
    \/ RecvNothing
    \/ Fail

RecvVerdict ==
    /\ cPhase = "verdict"
    /\ Consume
    /\ verdict' = IF Head(toClient).value = 1 THEN "True" ELSE "False"
    /\ cPhase' = "done"
    /\ UNCHANGED <<cursor, toServer>>

ClientStep ==
    /\ \/ ClientMoves /\ UNCHANGED <<verdict, mishaps>>
       \/ RecvVerdict /\ UNCHANGED mishaps
       \/ Guess /\ UNCHANGED verdict
    /\ UNCHANGED <<serverSide, connected, sessions>>

KillClient ==
    /\ MayKillClient
    /\ Alive
    /\ cPhase' = "killed"
    /\ UNCHANGED <<serverSide, cursor, verdict, sessions, mishaps, connected, toServer, toClient>>

(***************************************************************************)
(* The server.                                                             *)
(***************************************************************************)

Answer(messages) == toClient' = toClient \o messages

\* recv() returns a message of the kind the server is waiting for, or 0 bytes once
\* everything a dead client had sent is consumed: no caller looks at the 0.
Arrived(type) == toServer # <<>> /\ Head(toServer).type = type
Nothing == toServer = <<>> /\ ~Alive
Drop == toServer' = IF toServer = <<>> THEN <<>> ELSE Tail(toServer)
Recv(type) == (Arrived(type) \/ Nothing) /\ Drop

\* accept returns, FilePathCheck, and the offset sent. A guess has touched nothing that a
\* later session finds.
Accept ==
    /\ sPhase = "start"
    /\ indexA' = StartIndex
    /\ Answer(<<[type |-> "offset", value |-> StartOffset]>>)
    /\ before' = saved
    /\ mishaps' = Earlier({"guess"})
    /\ sPhase' = "ackOffset"
    /\ UNCHANGED <<present, saved, entry, block, connected, toServer>>

AckOffset ==
    /\ sPhase = "ackOffset"
    /\ Recv("ack")
    /\ Answer(<<[type |-> "index", value |-> indexA]>>)
    /\ sPhase' = "ackIndex"
    /\ UNCHANGED <<store, indexA, entry, block, mishaps, connected>>

\* Mutant: the server starts over, whatever index it has told the client.
AckIndexRestart ==
    /\ sPhase = "ackIndex"
    /\ Recv("ack")
    /\ entry' = 0
    /\ sPhase' = "loop"
    /\ UNCHANGED <<store, indexA, block, mishaps, connected, toClient>>

AckIndex ==
    /\ sPhase = "ackIndex"
    /\ Recv("ack")
    /\ entry' = indexA
    /\ sPhase' = "loop"
    /\ UNCHANGED <<store, indexA, block, mishaps, connected, toClient>>

\* Mutant: the end of a file is not answered.
RecvEndOfFileMute ==
    /\ sPhase = "content"
    /\ Arrived("eof")
    /\ Drop
    /\ TakeEndOfFile
    /\ UNCHANGED <<mishaps, connected, toClient>>

RecvEndOfFile ==
    /\ sPhase = "content"
    /\ Arrived("eof")
    /\ Drop
    /\ Answer(<<Reply("eof")>>)
    /\ TakeEndOfFile
    /\ UNCHANGED <<mishaps, connected>>

\* A block whose text compares equal is answered and taken for the end of the file.
RecvMarker ==
    /\ sPhase = "content"
    /\ toServer # <<>>
    /\ ReadsLikeEof(Head(toServer))
    /\ Drop
    /\ Answer(<<Reply("eof")>>)
    /\ TakeEndOfFile
    /\ mishaps' = mishaps \cup {"marker"}
    /\ UNCHANGED connected

RecvBlock ==
    /\ sPhase = "content"
    /\ Recv("block")
    /\ TakeBlock(IF toServer = <<>> THEN Zeros ELSE Head(toServer).block)
    /\ UNCHANGED <<mishaps, connected, toClient>>

\* The length is whatever atoi finds in tmp, which an empty recv leaves as it was.
RecvLength ==
    /\ sPhase = "length"
    /\ Recv("length")
    /\ \E len \in IF toServer = <<>> THEN AnyLength ELSE {Head(toServer).block.n} :
            WriteBytes(Bytes(block, len))
    /\ sPhase' = "content"
    /\ UNCHANGED <<mishaps, connected, toClient>>

\* recv without MSG_WAITALL returns the first of the ten bytes; the others are still
\* to come.
RecvLengthShort ==
    /\ MayReadShort
    /\ sPhase = "length"
    /\ Arrived("length")
    /\ Drop
    /\ \E len \in AnyLength : WriteBytes(Bytes(block, len))
    /\ sPhase' = "misaligned"
    /\ mishaps' = mishaps \cup {"short"}
    /\ UNCHANGED <<connected, toClient>>

\* A frame of another size than the one waited for: from here on every recv ends
\* in the middle of a message,
Misalign ==
    /\ sPhase = "content"
    /\ Arrived("length")
    /\ sPhase' = "misaligned"
    /\ UNCHANGED <<store, indexA, entry, block, mishaps, connected, toServer, toClient>>

\* what it yields is written, and one more short recv may find the bound again.
RecvMisaligned ==
    /\ sPhase = "misaligned"
    /\ toServer # <<>> \/ Nothing
    /\ Drop
    /\ \E b \in {Zeros} \cup {toServer[k].block : k \in {1} \cap DOMAIN toServer} :
       \E len \in AnyLength \cap {0, 1} : WriteBytes(Bytes(b, len))
    /\ sPhase' \in {"misaligned", "content"}
    /\ UNCHANGED <<mishaps, connected, toClient>>

\* The file count, or whatever a stream out of step holds.
FileCnt ==
    /\ sPhase = "fileCnt"
    /\ Recv("count") \/ (~Clean /\ toServer # <<>> /\ Drop)
    /\ Answer(<<Reply("echo")>>)
    /\ sPhase' = "dirCnt"
    /\ UNCHANGED <<store, indexA, entry, block, mishaps, connected>>

\* Both sides take their directories from the same fileCount to get their files,
\* so the two comparisons come out alike.
CountsMatch == ServerDirs = Cardinality({i \in Entries : Kind[i] = "d"})

DirCnt ==
    /\ sPhase = "dirCnt"
    /\ Recv("count") \/ (~Clean /\ toServer # <<>> /\ Drop)
    /\ \E match \in {CountsMatch} \cup (IF Clean THEN {} ELSE {FALSE}) :
        Answer(<<Reply("echo"), [type |-> "verdict", value |-> IF match THEN 1 ELSE 0]>>)
    /\ sPhase' = "accept"
    /\ UNCHANGED <<store, indexA, entry, block, mishaps, connected>>

ServerStep ==
    /\ \/ Accept
       \/ AckOffset
       \/ AckIndex
       \/ Loop /\ UNCHANGED <<mishaps, connected, toServer, toClient>>
       \/ RecvEndOfFile
       \/ RecvMarker
       \/ RecvBlock
       \/ RecvLength
       \/ RecvLengthShort
       \/ Misalign
       \/ RecvMisaligned
       \/ FileCnt
       \/ DirCnt
    /\ UNCHANGED clientSide

\* The server is killed, or dies of writing to a connection the client has left.
KillServer ==
    /\ sPhase # "down"
    /\ MayKillServer \/ (sPhase \in Serving /\ ~Alive)
    /\ sPhase' = "down"
    /\ connected' = FALSE
    /\ toServer' = <<>>
    /\ toClient' \in {<<>>, toClient}
    /\ UNCHANGED <<store, indexA, entry, block, clientSide, mishaps>>

RestartServer ==
    /\ sPhase = "down"
    /\ sPhase' = "accept"
    /\ entry' = 0
    /\ block' = Zeros
    /\ UNCHANGED <<store, indexA, clientSide, mishaps, connected, toServer, toClient>>
-----------------------------------------------------------------------------
Next == Connect \/ ClientStep \/ KillClient \/ ServerStep \/ KillServer \/ RestartServer

Spec == Init /\ [][Next]_vars

\* Both programs run whenever they are not blocked in a call.
FairSpec == Spec /\ WF_vars(ClientStep) /\ WF_vars(ServerStep)
-----------------------------------------------------------------------------
TypeOK ==
    /\ TransferTypeOK
    /\ sPhase \in Serving \cup {"accept", "start", "down"}
    /\ verdict \in {"none", "True", "False"}
    /\ connected \in BOOLEAN

\* A session in which nobody has died and nothing has gone wrong.
Intact == sPhase \in Serving /\ Alive /\ Clean

\* Whatever ./save held, once the server's loop is over (server_function.c:554) an
\* undisturbed session has added to each file from indexA on exactly what the client's
\* lseek and reads (client_function.c:575-595) yield, and nothing to the others.
SessionAppends ==
    Intact /\ sPhase \in {"fileCnt", "dirCnt"} =>
        \A i \in Files :
            saved[i] = before[i] \o (IF i < indexA THEN <<>> ELSE From(i, Seek(fileOffset)))

\* The transfer over TCP keeps the promise of Delivery: copies grow in the order of
\* the list by what is left of the client's files (server_function.c:490-554,
\* client_function.c:472-487), they never lose a byte, and the client comes to its end
\* only after the last of them (client_function.c:528), resumed or not. A session counts
\* as gone wrong from a short length, a block taken for the end of a file, or a client
\* that goes on without the server's offset or index; copies lose nothing then either.
Offset == Seek(IF cPhase = "offset" THEN StartOffset ELSE fileOffset)

Promise == INSTANCE Delivery WITH plan <- Remaining(Offset), phase <- DeliveryPhase

KeepsPromise == Promise!DeliverySpec

\* server_function.c:523 takes a text for the end of a file: when the server leaves
\* a file on it, the client has sent the file to its end.
EofMeansEnd ==
    sPhase \in Serving /\ Alive =>
        \A i \in Files : indexA <= i /\ i < entry => Len(saved[i]) >= Size[i]

\* The integrity check (client_function.c:527, server_function.c:588-594) tells the
\* client that its files have arrived, also those of a transfer that was continued as
\* client_function.c:469-470 has it.
VerdictIsIntegrity ==
    cPhase = "done" /\ verdict = "True" => \A i \in Files : saved[i] = Source(i)

\* As long as nobody kills a process and nothing goes wrong, a session that starts
\* comes to its verdict, resumed or not: the two sides never wait for each other.
SessionEnds ==
    cPhase = "offset" /\ connected ~>
        cPhase \in {"done", "killed"} \/ sPhase = "down" \/ ~Clean
=============================================================================
