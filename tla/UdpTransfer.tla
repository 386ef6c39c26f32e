----------------------------- MODULE UdpTransfer -----------------------------
(***************************************************************************)
(* The transfer of one tree over UDP: UdpClient and UdpFileTrans against    *)
(* UdpServer.  The network may lose datagrams and let one overtake others,  *)
(* users kill processes, and datagrams of other runs of the client come in. *)
(* Every recvfrom takes whatever datagram is next, from whomever, and the   *)
(* server answers the sender of the last one.                               *)
(*                                                                          *)
(* Abstractions.  The handshake before the transfer is module Negotiation;  *)
(* what reaches a server that is in it is not seen here.  A datagram can    *)
(* overtake the one sent before it, replies do not overtake each other, and *)
(* nothing is duplicated.                                                   *)
(***************************************************************************)
EXTENDS Transfer

CONSTANTS MayLose, MayOvertake, MayKill

ASSUME NetworkAssumption == {MayLose, MayOvertake, MayKill} \subseteq BOOLEAN

serverSide == <<store, server>>
vars == <<serverSide, client, sessions, mishaps, toServer, toClient>>
-----------------------------------------------------------------------------
Init == TransferInit /\ sPhase = "idle"

Listening == sPhase \in Serving \cup {"start"}

\* Bound: one kind of fault in a session, any number of times, and none after a block was
\* taken for the end of a file.
Fault(kind) ==
    /\ mishaps \subseteq {kind, "earlier"}
    /\ mishaps' = mishaps \cup {kind}

Send(datagram) ==
    \/ Listening /\ toServer' = Append(toServer, datagram) /\ UNCHANGED mishaps
    \/ Listening /\ MayLose /\ Fault("lost") /\ UNCHANGED toServer
    \/ /\ Listening /\ MayOvertake /\ Fault("overtaken") /\ toServer # <<>>
       /\ toServer' = [toServer EXCEPT ![Len(toServer)] = datagram]
                        \o <<toServer[Len(toServer)]>>
    \/ ~Listening /\ UNCHANGED <<toServer, mishaps>>

\* The datagrams go to the sender of the one just received.
Answer(datagrams) ==
    IF toServer # <<>> /\ Head(toServer).type = "stray"
    THEN UNCHANGED <<toClient, mishaps>>
    ELSE \/ toClient' = toClient \o datagrams /\ UNCHANGED mishaps
         \/ /\ MayLose /\ Fault("lost")
            /\ \E n \in 0 .. Len(datagrams) - 1 :
                toClient' = toClient \o SubSeq(datagrams, 1, n)

(***************************************************************************)
(* The client.                                                             *)
(***************************************************************************)

Got == Head(toClient)
Consume == toClient # <<>> /\ toClient' = Tail(toClient)

\* A new run of the client, after its handshake.
Connect ==
    /\ ~Alive
    /\ sPhase = "idle"
    /\ sessions < MaxSessions
    /\ sessions' = sessions + 1
    /\ cPhase' = "offset"
    /\ sPhase' = "start"
    /\ toClient' = <<>>
    /\ mishaps' = Earlier({})
    /\ UNCHANGED <<store, indexA, entry, block, cursor, toServer>>

RecvOffset ==
    /\ cPhase = "offset"
    /\ Consume
    /\ fileOffset' = Got.value
    /\ Send(Text("ack"))
    /\ cPhase' = "index"
    /\ UNCHANGED <<sending, pos>>

\* Mutant: UdpFileTrans reads from the offset it is given.
RecvIndexSeek ==
    /\ cPhase = "index"
    /\ Consume
    /\ Send(Text("ack"))
    /\ MoveTo(Got.value, Seek(fileOffset))

\* UdpFileTrans is given the offset, and sends every file from its start.
RecvIndex ==
    /\ cPhase = "index"
    /\ Consume
    /\ Send(Text("ack"))
    /\ MoveTo(Got.value, 0)

SendBlock ==
    /\ cPhase = "read"
    /\ pos < Size[sending]
    /\ Send([type |-> "block", block |-> ReadHere])
    /\ cPhase' = "length"
    /\ UNCHANGED <<cursor, toClient>>

SendLength ==
    /\ cPhase = "length"
    /\ Send([type |-> "length", block |-> ReadHere])
    /\ pos' = pos + ReadHere.n
    /\ cPhase' = "read"
    /\ UNCHANGED <<sending, fileOffset, toClient>>

SendEof ==
    /\ cPhase = "read"
    /\ pos >= Size[sending]
    /\ Send(Text("eof"))
    /\ cPhase' = "eof"
    /\ UNCHANGED <<cursor, toClient>>

\* Mutant: the client does not wait for the end of a file to be confirmed.
RecvEofUnasked ==
    /\ cPhase = "eof"
    /\ MoveTo(sending + 1, 0)
    /\ UNCHANGED <<toServer, toClient, mishaps>>

\* Any other text ends the client: it comes when two strays have been taken for
\* acks and nothing is left to send.
RecvEof ==
    /\ cPhase = "eof"
    /\ Consume
    /\ IF Got.type = "eof"
       THEN MoveTo(sending + 1, 0)
       ELSE cPhase' = "failed" /\ UNCHANGED cursor
    /\ UNCHANGED <<toServer, mishaps>>

SendFileCount ==
    /\ cPhase = "counts"
    /\ Send(Text("count"))
    /\ cPhase' = "fileEcho"
    /\ UNCHANGED <<cursor, toClient>>

RecvFileEcho ==
    /\ cPhase = "fileEcho"
    /\ Consume
    /\ Send(Text("count"))
    /\ cPhase' = "dirEcho"
    /\ UNCHANGED cursor

\* The echo of the second count, and the verdict.
RecvLast ==
    /\ cPhase \in {"dirEcho", "verdict"}
    /\ Consume
    /\ cPhase' = IF cPhase = "dirEcho" THEN "verdict" ELSE "done"
    /\ UNCHANGED <<cursor, toServer, mishaps>>

ClientStep ==
    /\ \/ RecvOffset
       \/ RecvIndex
       \/ SendBlock
       \/ SendLength
       \/ SendEof
       \/ RecvEof
       \/ SendFileCount
       \/ RecvFileEcho
       \/ RecvLast
    /\ UNCHANGED <<serverSide, sessions>>

KillClient ==
    /\ MayKill
    /\ Alive
    /\ cPhase' = "killed"
    /\ UNCHANGED <<serverSide, cursor, sessions, mishaps, toServer, toClient>>

\* Another run of the client sends its count, or goes on from what it takes for the
\* answer, while the server is still in this session.
Stray ==
    /\ MayKill
    /\ Listening
    /\ sessions < MaxSessions
    /\ sessions' = sessions + 1
    /\ toServer' = Append(toServer, Text("stray"))
    /\ Fault("stray")
    /\ UNCHANGED <<serverSide, client, toClient>>

(***************************************************************************)
(* The server.                                                             *)
(***************************************************************************)

Receive == toServer # <<>> /\ toServer' = Tail(toServer)
Datagram == Head(toServer)

\* FilePathCheck, and the offset sent.
SendOffset ==
    /\ sPhase = "start"
    /\ indexA' = StartIndex
    /\ before' = saved
    /\ sPhase' = "ackOffset"
    /\ \/ /\ toClient' = <<[type |-> "offset", value |-> StartOffset]>>
          /\ UNCHANGED mishaps
       \/ MayLose /\ Fault("lost") /\ UNCHANGED toClient
    /\ UNCHANGED <<present, saved, entry, block, toServer>>

AckOffset ==
    /\ sPhase = "ackOffset"
    /\ Receive
    /\ Answer(<<[type |-> "index", value |-> indexA]>>)
    /\ sPhase' = "ackIndex"
    /\ UNCHANGED <<store, indexA, entry, block>>

AckIndex ==
    /\ sPhase = "ackIndex"
    /\ Receive
    /\ entry' = indexA
    /\ sPhase' = "loop"
    /\ UNCHANGED <<store, indexA, block, mishaps, toClient>>

\* Mutant: the end of a file is not answered.
RecvEndOfFileMute ==
    /\ sPhase = "content"
    /\ Receive
    /\ Datagram.type = "eof"
    /\ TakeEndOfFile
    /\ UNCHANGED <<mishaps, toClient>>

RecvEndOfFile ==
    /\ sPhase = "content"
    /\ Receive
    /\ Datagram.type = "eof"
    /\ Answer(<<Reply("eof")>>)
    /\ TakeEndOfFile

\* A block whose text compares equal is answered and taken for the end of the file.
RecvMarker ==
    /\ sPhase = "content"
    /\ Receive
    /\ ReadsLikeEof(Datagram)
    /\ toClient' \in {Append(toClient, Reply("eof"))} \cup (IF MayLose THEN {toClient} ELSE {})
    /\ TakeEndOfFile
    /\ mishaps' = mishaps \cup {"marker"}

RecvBlock ==
    /\ sPhase = "content"
    /\ Receive
    /\ Datagram.type # "eof"
    /\ TakeBlock(IF Datagram.type = "block" THEN Datagram.block ELSE Zeros)
    /\ UNCHANGED <<mishaps, toClient>>

\* What atoi makes of the first ten bytes: texts that begin with no digit give 0.
LengthIn(datagram) ==
    CASE datagram.type = "length" -> {datagram.block.n}
      [] datagram.type \in {"block", "stray"} -> AnyLength
      [] OTHER -> {0}

RecvLength ==
    /\ sPhase = "length"
    /\ Receive
    /\ \E len \in LengthIn(Datagram) : WriteBytes(Bytes(block, len))
    /\ sPhase' = "content"
    /\ UNCHANGED <<mishaps, toClient>>

FileCnt ==
    /\ sPhase = "fileCnt"
    /\ Receive
    /\ Answer(<<Reply("echo")>>)
    /\ sPhase' = "dirCnt"
    /\ UNCHANGED <<store, indexA, entry, block>>

\* The socket is closed at the end of the session, with what is left in it.
DirCnt ==
    /\ sPhase = "dirCnt"
    /\ toServer # <<>>
    /\ toServer' = <<>>
    /\ Answer(<<Reply("echo"), Reply("verdict")>>)
    /\ sPhase' = "idle"
    /\ UNCHANGED <<store, indexA, entry, block>>

ServerStep ==
    /\ \/ SendOffset
       \/ AckOffset
       \/ AckIndex
       \/ Loop /\ UNCHANGED <<mishaps, toServer, toClient>>
       \/ RecvEndOfFile
       \/ RecvMarker
       \/ RecvBlock
       \/ RecvLength
       \/ FileCnt
       \/ DirCnt
    /\ UNCHANGED <<client, sessions>>

KillServer ==
    /\ MayKill
    /\ sPhase \in Serving
    /\ sPhase' = "down"
    /\ toServer' = <<>>
    /\ UNCHANGED <<store, indexA, entry, block, client, sessions, mishaps, toClient>>

RestartServer ==
    /\ sPhase = "down"
    /\ sPhase' = "idle"
    /\ UNCHANGED <<store, indexA, entry, block, client, sessions, mishaps, toServer, toClient>>
-----------------------------------------------------------------------------
Next ==
    \/ Connect
    \/ ClientStep
    \/ KillClient
    \/ Stray
    \/ ServerStep
    \/ KillServer
    \/ RestartServer

Spec == Init /\ [][Next]_vars

\* Both programs run whenever they are not blocked in recvfrom.
FairSpec == Spec /\ WF_vars(ClientStep) /\ WF_vars(ServerStep)
-----------------------------------------------------------------------------
TypeOK == TransferTypeOK /\ sPhase \in Serving \cup {"idle", "start", "down"}

\* A session that nothing disturbs, no marker either, appends to the copy of every file from indexA on the whole of
\* the file (client_function.c:255-281), also to the one that was begun before.
SessionAppends ==
    sPhase \in {"fileCnt", "dirCnt"} /\ Alive /\ Clean =>
        \A i \in Files :
            saved[i] = before[i] \o (IF i < indexA THEN <<>> ELSE Source(i))

\* The transfer over UDP keeps the promise of Delivery (client_function.c:154-216,
\* server_function.c:179-284). A session counts as gone wrong from what the network or
\* another run does to it, or a block taken for the end of a file (server_function.c:212);
\* copies lose nothing then either.
Promise == INSTANCE Delivery WITH plan <- Remaining(0), phase <- DeliveryPhase

KeepsPromise == Promise!DeliverySpec

\* If nobody kills a process and nothing goes wrong, a session comes to its end.
SessionEnds ==
    sPhase = "start" ~> cPhase \in {"done", "killed"} \/ sPhase = "down" \/ ~Clean
=============================================================================
