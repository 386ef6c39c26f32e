-------------------------- MODULE TcpDeliveryProofs --------------------------
(***************************************************************************)
(* The transfer over TCP implements Delivery, whatever the tree, the size   *)
(* of a block, the number of sessions and the faults the model has; and     *)
(* what its sessions leave under ./save is what the next one takes it for.  *)
(***************************************************************************)
EXTENDS TcpTransferProofs

-----------------------------------------------------------------------------
(* When the client comes to its end.                                       *)

\* The server, too, is past its files once the client will not ask for one any more.
LEMMA TargetAtEnd == TypeInv /\ LockStep /\ Streaming /\ Intact /\ AtEnd => Target = FileCount
<1> SUFFICES ASSUME TypeInv, LockStep, Streaming, Intact, AtEnd
             PROVE  Target = FileCount
  OBVIOUS
<1>1. ClientInv /\ Queued /\ cPhase # "done"
  BY IntactPaired, StreamingParts DEF Intact, Alive, Running
<1>2. CASE cPhase \in {"counts", "fileEcho", "dirEcho", "verdict"}
  BY <1>1, <1>2 DEF Queued
<1>3. CASE cPhase = "eof" /\ toClient # <<>> /\ NextFile(sending + 1) = FileCount
  BY <1>1, <1>3 DEF ClientInv
<1>4. CASE cPhase = "index" /\ toClient # <<>> /\ NextFile(indexA) = FileCount
  BY <1>1, <1>4 DEF ClientInv, Target
<1> QED
  BY <1>1, <1>2, <1>3, <1>4 DEF AtEnd

\* Nothing is left then.
LEMMA CompleteAtEnd == TypeInv /\ LockStep /\ Streaming /\ Intact /\ AtEnd => Complete
<1> SUFFICES ASSUME TypeInv, LockStep, Streaming, Intact, AtEnd
             PROVE  Complete
  OBVIOUS
<1>1. Target = FileCount
  BY TargetAtEnd
<1>2. FileCount \notin Files
  BY FilesAreEntries, TreeAssumption
<1>3. ASSUME sPhase \in {"ackOffset", "ackIndex"}, NEW i \in Files, i >= indexA
      PROVE  FALSE
  <2>1. NextFile(indexA) = FileCount
    BY <1>1, <1>3 DEF Target
  <2>2. i < indexA
    BY <1>2, <2>1, IndexTypes, TypeParts, NextFileIsNext
  <2> QED
    BY <1>3, <2>2, IndexTypes, TypeParts, FilesAreEntries
<1>4. ASSUME sPhase \notin {"ackOffset", "ackIndex"}, NEW i \in Files, i >= indexA
      PROVE  Added(i) = Rest(i)
  <2>1. NextFile(entry) = FileCount
    BY <1>1, <1>4 DEF Target
  <2>2. i < entry
    BY <1>2, <2>1, IndexTypes, TypeParts, NextFileIsNext
  <2>3. indexA <= i
    BY <1>4, IndexTypes, TypeParts, FilesAreEntries
  <2> QED
    BY <1>4, <2>2, <2>3 DEF Streaming, Delivered
<1> QED
  BY <1>3, <1>4 DEF Complete

LEMMA ServerStepParts ==
    ASSUME ServerStep, ~ Accept
    PROVE  /\ sPhase \in Serving
           /\ mishaps \subseteq mishaps'
           /\ DirCnt \/ sPhase' \in Serving
           /\ UNCHANGED <<cPhase, sending, fileOffset, pos, sessions, before, indexA>>
<1>1. UNCHANGED <<cPhase, sending, fileOffset, pos, sessions>>
  BY DEF ServerStep, clientSide, client, cursor
<1> QED
  BY <1>1
  DEF ServerStep, AckOffset, AckIndex, Loop, MakeDirectory, SkipEntry, OpenFile, EndLoop,
      RecvEndOfFile, RecvMarker, TakeEndOfFile, RecvBlock, TakeBlock, RecvLength,
      RecvLengthShort, WriteBytes, Misalign, RecvMisaligned, FileCnt, DirCnt, Serving, store

\* An intact session takes no step of the server's before the offset was received.
LEMMA OffsetWaits ==
    ASSUME TypeInv, LockStep, Intact, ServerStep, ~ Accept
    PROVE  cPhase # "offset"
<1> SUFFICES ASSUME cPhase = "offset" PROVE FALSE
  OBVIOUS
<1>1. sPhase = "ackOffset" /\ toServer = <<>> /\ Alive
  BY IntactPaired DEF ClientInv, Intact
<1> QED
  BY <1>1
  DEF ServerStep, AckOffset, AckIndex, Loop, MakeDirectory, SkipEntry, OpenFile, EndLoop,
      RecvEndOfFile, RecvMarker, RecvBlock, RecvLength, RecvLengthShort, Misalign,
      RecvMisaligned, FileCnt, DirCnt, Recv, Arrived, Nothing

\* The client's part in the closing exchanges.
LEMMA ClientEchoes ==
    ASSUME TypeInv, LockStep, Reporting, ClientStep, Intact, Intact'
    PROVE  Echoes'
<1>1. /\ ToServerInv /\ ClientInv /\ Echoes /\ connected
      /\ sPhase \in Serving
      /\ UNCHANGED <<sPhase, connected>>
  BY IntactPaired DEF LockStep, Reporting, Intact, ClientStep, serverSide, server
<1>2. toServer \in Seq(ServerMessage) /\ toClient \in Seq(ClientMessage)
  BY IndexTypes, TypeParts
<1>3. ASSUME NEW m \in ServerMessage, Send(m)
      PROVE  /\ Len(toServer') = Len(toServer) + 1 /\ Len(toServer) \in Nat
             /\ \A j \in 1 .. Len(toServer) : toServer'[j] = toServer[j]
             /\ toServer'[Len(toServer) + 1] = m
  BY <1>1, <1>2, <1>3, AppendTo DEF Send
<1>4. ASSUME NEW m \in ServerMessage, Send(m),
             \A j \in 1 .. Len(toServer) : toServer[j].type # "count"
      PROVE  /\ m.type # "count" =>
                    \A j \in 1 .. Len(toServer') : toServer'[j].type # "count"
             /\ \A j \in 1 .. Len(toServer') :
                    toServer'[j].type = "count" => j = Len(toServer')
  BY <1>3, <1>4
<1>5. \A t \in {"ack", "eof", "count"} : Text(t) \in ServerMessage /\ Text(t).type = t
  BY TextType DEF Text
<1>6. Consume /\ Len(toClient) = 1 => toClient' = <<>>
  BY <1>2 DEF Consume
<1>7. CASE RecvOffset
  <2>1. cPhase = "offset" /\ cPhase' = "index" /\ Send(Text("ack"))
    BY <1>7 DEF RecvOffset
  <2> QED
    BY <1>1, <1>4, <1>5, <2>1 DEF Echoes
<1>8. CASE RecvIndex
  <2>1. /\ cPhase = "index" /\ cPhase' \in {"read", "counts"}
        /\ Send(Text("ack")) /\ toClient' = <<>>
        /\ sPhase = "ackIndex"
    BY <1>1, <1>6, <1>8 DEF RecvIndex, MoveTo, ClientInv, Consume
  <2> QED
    BY <1>1, <1>4, <1>5, <2>1 DEF Echoes
<1>9. CASE SendBlock \/ SendLength
  <2>1. ReadHere \in Block
    BY <1>9, ReadHereType DEF SendBlock, SendLength, TypeInv, TypeOK, TransferTypeOK, InLoops
  <2>2. \A t \in {"block", "length"} : [type |-> t, block |-> ReadHere] \in ServerMessage
    BY <2>1 DEF ServerMessage
  <2>3. PICK t \in {"block", "length"} : Send([type |-> t, block |-> ReadHere])
    BY <1>9 DEF SendBlock, SendLength
  <2>4. cPhase \in {"read", "length"} /\ cPhase' \in {"read", "length"}
    BY <1>9 DEF SendBlock, SendLength
  <2>5. \A j \in 1 .. Len(toServer) : toServer[j].type # "count"
    BY <1>1, <2>4 DEF Echoes
  <2>6. \A j \in 1 .. Len(toServer') : toServer'[j].type # "count"
    BY <1>4, <2>2, <2>3, <2>5
  <2> QED
    BY <1>1, <2>4, <2>6 DEF Echoes
<1>10. CASE SendEof
  <2>1. cPhase = "read" /\ cPhase' = "eof" /\ Send(Text("eof"))
    BY <1>10 DEF SendEof
  <2> QED
    BY <1>1, <1>4, <1>5, <2>1 DEF Echoes
<1>11. CASE RecvEof
  <2>1. cPhase = "eof" /\ cPhase' \in {"read", "counts"} /\ UNCHANGED toServer
    BY <1>11 DEF RecvEof, MoveTo
  <2>2. toClient' = <<>> /\ sPhase # "ackOffset"
    BY <1>1, <1>6, <1>11, <2>1 DEF RecvEof, ClientInv, Consume
  <2> QED
    BY <1>1, <2>1, <2>2 DEF Echoes
<1>12. CASE SendFileCount
  <2>1. /\ cPhase = "counts" /\ cPhase' = "fileEcho" /\ Send(Text("count"))
        /\ toClient' = toClient
    BY <1>12 DEF SendFileCount
  <2> QED
    BY <1>1, <1>4, <1>5, <2>1 DEF Echoes
<1>13. CASE RecvFileEcho
  <2>1. /\ cPhase = "fileEcho" /\ cPhase' = "dirEcho" /\ Send(Text("count"))
        /\ toClient # <<>> /\ Consume
    BY <1>13 DEF RecvFileEcho, Consume
  <2>2. sPhase = "dirCnt" /\ Len(toClient) = 1
    BY <1>1, <2>1 DEF Echoes
  <2>3. toClient' = <<>>
    BY <1>6, <2>1, <2>2
  <2> QED
    BY <1>1, <2>1, <2>2, <2>3 DEF Echoes
<1>14. CASE RecvDirEcho
  BY <1>1, <1>14 DEF RecvDirEcho, Consume, Echoes
<1>15. CASE RecvNothing \/ Fail \/ Guess
  BY <1>1, <1>15
  DEF RecvNothing, Guess, GuessOffset, GuessIndex, NothingComes, Fail, Intact, Alive, Running
<1>16. CASE RecvVerdict
  BY <1>1, <1>16 DEF RecvVerdict, Echoes
<1> QED
  BY <1>7, <1>8, <1>9, <1>10, <1>11, <1>12, <1>13, <1>14, <1>15, <1>16
  DEF ClientStep, ClientMoves

\* The server's part.
LEMMA ServerEchoes ==
    ASSUME TypeInv, LockStep, Reporting, Streaming, Streaming', ServerStep, ~ Accept,
           Intact, Intact'
    PROVE  Echoes'
<1>1. /\ ToServerInv /\ ClientInv /\ Echoes /\ Alive
      /\ cPhase' = cPhase
      /\ sPhase # "misaligned" /\ sPhase' # "misaligned"
  BY IntactPaired, ServerStepParts DEF Reporting, Intact, Streaming
<1>2. /\ toServer \in Seq(ServerMessage) /\ toClient \in Seq(ClientMessage)
      /\ Reply("echo") \in ClientMessage
  BY IndexTypes, TypeParts, TextType
<1>3. ASSUME toServer # <<>>, Drop
      PROVE  /\ Len(toServer) \in Nat \ {0}
             /\ Head(toServer) = toServer[1]
             /\ Len(toServer') = Len(toServer) - 1
             /\ \A j \in 1 .. Len(toServer') : toServer'[j] = toServer[j + 1]
  BY <1>2, <1>3, TailOf DEF Drop
<1>4. ASSUME toServer # <<>>, Drop
      PROVE  /\ (\A j \in 1 .. Len(toServer) : toServer[j].type # "count") =>
                    \A j \in 1 .. Len(toServer') : toServer'[j].type # "count"
             /\ (\A j \in 1 .. Len(toServer) : toServer[j].type = "count" => j = Len(toServer)) =>
                    \A j \in 1 .. Len(toServer') :
                        toServer'[j].type = "count" => j = Len(toServer')
  <2>1. /\ Len(toServer) \in Nat \ {0} /\ Len(toServer') = Len(toServer) - 1
        /\ \A j \in 1 .. Len(toServer') : toServer'[j] = toServer[j + 1]
    BY <1>3, <1>4
  <2>2. ASSUME NEW j \in 1 .. Len(toServer')
        PROVE  /\ j \in Int /\ j + 1 \in 1 .. Len(toServer)
               /\ toServer'[j].type = toServer[j + 1].type
               /\ j + 1 = Len(toServer) => j = Len(toServer')
    BY <2>1, <2>2
  <2> QED
    BY <2>2
<1>5. \A type : Recv(type) => Arrived(type) /\ toServer # <<>> /\ Drop
  BY <1>1 DEF Recv, Nothing, Arrived
<1>6. CASE AckOffset
  <2>1. sPhase = "ackOffset" /\ sPhase' = "ackIndex" /\ toServer # <<>> /\ Drop
    BY <1>5, <1>6 DEF AckOffset
  <2> QED
    BY <1>1, <1>4, <2>1 DEF Echoes
<1>7. CASE AckIndex \/ RecvBlock \/ RecvLength
  <2>1. /\ sPhase \in {"ackIndex", "content", "length"}
        /\ sPhase' \in {"loop", "content", "length"}
        /\ toServer # <<>> /\ Drop /\ toClient' = toClient
    BY <1>5, <1>7 DEF AckIndex, RecvBlock, TakeBlock, RecvLength
  <2> QED
    BY <1>1, <1>4, <2>1 DEF Echoes
<1>8. CASE Loop /\ UNCHANGED <<mishaps, connected, toServer, toClient>>
  <2>1. /\ sPhase = "loop" /\ sPhase' \in {"loop", "content", "fileCnt"}
        /\ UNCHANGED <<toServer, toClient>>
    BY <1>8 DEF Loop, MakeDirectory, SkipEntry, OpenFile, EndLoop
  <2> QED
    BY <1>1, <2>1 DEF Echoes
<1>9. CASE RecvEndOfFile
  <2>1. /\ Arrived("eof") /\ toServer # <<>> /\ Drop
        /\ sPhase = "content" /\ sPhase' = "loop"
    BY <1>9 DEF RecvEndOfFile, TakeEndOfFile, Arrived, Intact, Clean, Mishap
  <2>2. cPhase = "eof"
    BY <1>1, <1>3, <2>1 DEF ToServerInv, Arrived
  <2> QED
    BY <1>1, <1>4, <2>1, <2>2 DEF Echoes
<1>10. CASE FileCnt
  <2>1. /\ Arrived("count") /\ toServer # <<>> /\ Drop
        /\ sPhase = "fileCnt" /\ sPhase' = "dirCnt"
        /\ Answer(<<Reply("echo")>>)
    BY <1>5, <1>10 DEF FileCnt, Intact
  <2>2. cPhase = "fileEcho" /\ toClient = <<>> /\ Len(toServer) = 1
    BY <1>1, <1>3, <2>1 DEF Echoes, Arrived
  <2>3. toServer' = <<>> /\ Len(toClient') = 1
    BY <1>2, <1>3, <2>1, <2>2 DEF Answer, Drop
  <2> QED
    BY <1>1, <2>1, <2>2, <2>3 DEF Echoes
<1>11. CASE RecvMarker \/ RecvLengthShort \/ Misalign \/ RecvMisaligned \/ DirCnt
  BY <1>1, <1>11
  DEF RecvMarker, RecvLengthShort, Misalign, RecvMisaligned, DirCnt, Intact, Clean, Mishap, Serving
<1> QED
  BY <1>6, <1>7, <1>8, <1>9, <1>10, <1>11 DEF ServerStep

\* A client comes to its end through the closing exchanges only.
LEMMA LastMoves ==
    ASSUME ClientStep, cPhase' \in {"fileEcho", "dirEcho", "verdict", "done"}
    PROVE  /\ cPhase \in {"counts", "fileEcho", "dirEcho", "verdict"}
           /\ cPhase' = "done" => cPhase = "verdict"
  BY DEF ClientStep, ClientMoves, RecvOffset, RecvIndex, SendBlock, SendLength, SendEof, RecvEof,
      SendFileCount, RecvFileEcho, RecvDirEcho, RecvNothing, Guess, GuessOffset, GuessIndex,
      Fail, RecvVerdict, MoveTo

\* What a step of the client's leaves alone. One after which the session is clean is no
\* guess.
LEMMA ClientParts ==
    ASSUME ClientStep
    PROVE  /\ Alive
           /\ UNCHANGED <<present, saved, before, sPhase, indexA, entry, block, connected>>
           /\ mishaps \subseteq mishaps'
           /\ Clean' => Clean /\ ~ Guess /\ UNCHANGED mishaps
<1>1. Alive
  BY DEF ClientStep, ClientMoves, RecvOffset, RecvIndex, SendBlock, SendLength, SendEof, RecvEof,
      SendFileCount, RecvFileEcho, RecvDirEcho, RecvNothing, Guess, GuessOffset, GuessIndex,
      Fail, RecvVerdict, Alive, Running
<1>2. mishaps \subseteq mishaps' /\ (Guess \/ UNCHANGED mishaps) /\ (Guess => "guess" \in mishaps')
  BY DEF ClientStep, Guess
<1> QED
  BY <1>1, <1>2 DEF ClientStep, serverSide, store, server, Clean, Mishap

\* No step of the client's takes it back to its first message, and the offset it has
\* received stays.
LEMMA MovesOn ==
    ASSUME ClientStep, ~ Guess
    PROVE  cPhase' # "offset" /\ (RecvOffset \/ (cPhase # "offset" /\ fileOffset' = fileOffset)
                                 \/ cPhase' = "failed")
  BY DEF ClientStep, ClientMoves, RecvOffset, RecvIndex, SendBlock, SendLength, SendEof, RecvEof,
      SendFileCount, RecvFileEcho, RecvDirEcho, RecvNothing, Fail, RecvVerdict, MoveTo, cursor

LEMMA SameComplete ==
    ASSUME Complete, UNCHANGED <<saved, before, indexA, fileOffset>>
    PROVE  Complete'
  BY DEF Complete, Added, Rest, Base

\* What the client can be waiting for after the server's end.
Waits ==
    /\ cPhase = "offset" /\ toClient # <<>> => saved = before /\ Len(toClient) = 1
    /\ cPhase = "index" => toClient \in {<<>>, <<Index>>}
    /\ cPhase \in {"read", "length"} => toClient = <<>>
    /\ cPhase = "eof" => Len(toClient) <= 1

ReportingParts ==
    /\ sPhase \in Serving /\ Clean => cPhase # "done"
    /\ Intact => Echoes
    /\ Alive /\ Clean /\ cPhase = "offset" /\ toClient # <<>> =>
        Head(toClient).value = StartOffset /\ indexA = StartIndex
    /\ Alive /\ Clean /\ sPhase \notin Serving \cup {"start"} => Waits
    /\ (Alive \/ cPhase = "done") /\ Clean /\ AtEnd => Complete

LEMMA ReportingIsItsParts == Reporting <=> ReportingParts
  BY DEF Reporting, ReportingParts, Waits, Index

\* A client takes what it waits for, and comes no nearer to its end than it was.
LEMMA ClientWaits ==
    ASSUME TypeInv, Waits, ClientStep, ~ Guess
    PROVE  /\ Waits'
           /\ AtEnd' => AtEnd /\ fileOffset' = fileOffset
<1>0. Index' = Index /\ indexA' = indexA /\ saved' = saved /\ before' = before
  BY ClientParts DEF Index
<1>1. Consume /\ Len(toClient) <= 1 => toClient' = <<>>
  <2>1. SUFFICES ASSUME Consume, Len(toClient) <= 1 PROVE toClient' = <<>>
    OBVIOUS
  <2>2. toClient' \in Seq(ClientMessage) /\ Len(toClient') = 0
    <3>1. toClient \in Seq(ClientMessage) /\ toClient # <<>> /\ toClient' = Tail(toClient)
      BY <2>1, QueueTypes, TypeParts DEF Consume
    <3> QED
      BY <2>1, <3>1, TailOf
  <2> QED
    BY <2>2
<1> USE DEF Waits, AtEnd
<1>2. CASE RecvOffset
  <2>1. cPhase = "offset" /\ cPhase' = "index" /\ toClient # <<>> /\ Consume
    BY <1>2 DEF RecvOffset, Consume
  <2>2. toClient' = <<>>
    BY <1>1, <2>1
  <2> QED
    BY <2>1, <2>2
<1>3. CASE RecvIndex
  <2>1. /\ cPhase = "index" /\ toClient = <<Index>> /\ Consume
        /\ MoveTo(Head(toClient).value, Seek(fileOffset))
    BY <1>3 DEF RecvIndex, Consume
  <2>2. Head(toClient).value = indexA /\ toClient' = <<>>
    BY <1>1, <2>1 DEF Index
  <2>3. \/ cPhase' = "read"
        \/ cPhase' = "counts" /\ ~(NextFile(indexA) < FileCount)
    BY <2>1, <2>2 DEF MoveTo
  <2>4. NextFile(indexA) < FileCount \/ NextFile(indexA) = FileCount
    <3>1. indexA \in Int
      BY IndexTypes, TypeParts
    <3> QED
      BY <3>1, FilesAreEntries, NextFileRange
  <2>5. fileOffset' = fileOffset
    BY <2>1 DEF MoveTo
  <2> QED
    BY <2>1, <2>2, <2>3, <2>4, <2>5
<1>4. CASE SendBlock \/ SendLength \/ SendEof
  <2>1. /\ cPhase \in {"read", "length"} /\ cPhase' \in {"read", "length", "eof"}
        /\ toClient = <<>> /\ toClient' = <<>>
    BY <1>4 DEF SendBlock, SendLength, SendEof
  <2> QED
    BY <2>1
<1>5. CASE RecvEof
  <2>1. /\ cPhase = "eof" /\ toClient # <<>> /\ Consume /\ MoveTo(sending + 1, Seek(fileOffset))
    BY <1>5 DEF RecvEof, Consume
  <2>2. toClient' = <<>> /\ fileOffset' = fileOffset
    BY <1>1, <2>1 DEF MoveTo
  <2>3. \/ cPhase' = "read"
        \/ cPhase' = "counts" /\ ~(NextFile(sending + 1) < FileCount)
    BY <2>1 DEF MoveTo
  <2>4. NextFile(sending + 1) < FileCount \/ NextFile(sending + 1) = FileCount
    <3>1. sending + 1 \in Int
      BY TreeAssumption DEF TypeInv, TypeOK, TransferTypeOK
    <3> QED
      BY <3>1, FilesAreEntries, NextFileRange
  <2> QED
    BY <2>1, <2>2, <2>3, <2>4
<1>6. CASE SendFileCount \/ RecvFileEcho \/ RecvDirEcho \/ RecvNothing \/ RecvVerdict
  <2>1. /\ cPhase \in {"counts", "fileEcho", "dirEcho", "verdict"}
        /\ cPhase' \in {"fileEcho", "dirEcho", "verdict", "done"}
        /\ fileOffset' = fileOffset
    BY <1>6 DEF SendFileCount, RecvFileEcho, RecvDirEcho, RecvNothing, RecvVerdict, cursor
  <2> QED
    BY <2>1
<1>7. CASE Fail
  <2>1. cPhase' = "failed"
    BY <1>7 DEF Fail
  <2> QED
    BY <2>1
<1> QED
  BY <1>2, <1>3, <1>4, <1>5, <1>6, <1>7 DEF ClientStep, ClientMoves

\* What the server's death, its new start and a step of nobody leave alone.
LEMMA ServerGone ==
    ASSUME KillServer \/ RestartServer \/ UNCHANGED vars
    PROVE  /\ UNCHANGED <<present, saved, before, indexA, cPhase, sending, fileOffset, mishaps>>
           /\ toClient' \in {<<>>, toClient}
           /\ sPhase' \in Serving \cup {"start"} => UNCHANGED vars
           /\ KillServer \/ (sPhase \in Serving \cup {"start"} => UNCHANGED vars)
  BY DEF KillServer, RestartServer, Serving, vars, serverSide, clientSide, store, server, client,
      cursor

\* What a client waits for in a session, it waits for after the server's end.
LEMMA WaitsInSession ==
    ASSUME TypeInv, LockStep, Streaming, Alive, Clean, sPhase \in Serving \cup {"start"}
    PROVE  Waits
<1>1. CASE sPhase = "start"
  BY <1>1 DEF LockStep, Waits, Alive, Running
<1>2. CASE sPhase \in Serving
  <2>1. Intact
    BY <1>2 DEF Intact
  <2>2. ClientInv /\ Flowing
    BY <2>1, IntactPaired, StreamingParts
  <2>3. Len(<<>>) <= 1 /\ (toClient # <<>> /\ Len(toClient) <= 1 => Len(toClient) = 1)
    BY QueueTypes, TypeParts
  <2>4. cPhase = "offset" /\ toClient # <<>> => saved = before /\ Len(toClient) = 1
    <3>1. cPhase = "offset" => sPhase = "ackOffset" /\ Len(toClient) <= 1
      BY <2>2, Zenon DEF ClientInv
    <3> QED
      BY <2>2, <2>3, <3>1, Zenon DEF Flowing
  <2>5. cPhase = "index" => toClient \in {<<>>, <<Index>>}
    BY <2>2, Zenon DEF ClientInv
  <2>6. cPhase \in {"read", "length"} => toClient = <<>>
    BY <2>2, Zenon DEF ClientInv
  <2>7. cPhase = "eof" => Len(toClient) <= 1
    <3>1. cPhase = "eof" => toClient = <<>> \/ Len(toClient) = 1
      BY <2>2, Zenon DEF ClientInv
    <3>2. Len(toClient) = 1 => Len(toClient) <= 1
      OBVIOUS
    <3> QED
      BY <2>3, <3>1, <3>2, Zenon
  <2> QED
    BY <2>4, <2>5, <2>6, <2>7, Zenon DEF Waits
<1> QED
  BY <1>1, <1>2

LEMMA StepReporting ==
    ASSUME TypeInv, TypeInv', LockStep, LockStep', Streaming, Streaming', Reporting, [Next]_vars
    PROVE  Reporting'
<1>0. ReportingParts /\ (Reporting <=> ReportingParts)'
  BY ReportingIsItsParts, PTL
<1>1. (TypeInv /\ LockStep /\ Streaming /\ Intact /\ AtEnd => Complete)'
  BY CompleteAtEnd, PTL
<1>2. ServerStep /\ Accept =>
        /\ sPhase' = "ackOffset" /\ indexA' = StartIndex
        /\ toServer' = <<>> /\ cPhase \in {"offset", "killed"} /\ cPhase' = cPhase
        /\ toClient' = <<[type |-> "offset", value |-> StartOffset]>>
        /\ UNCHANGED <<present, saved>>
  BY DEF ServerStep, Accept, LockStep, Answer, clientSide, client
<1>3. Connect => cPhase' = "offset" /\ sPhase' = "start" /\ toClient' = <<>>
  BY DEF Connect
<1>4. KillClient => cPhase' = "killed"
  BY DEF KillClient
<1>5. ASSUME Clean', sPhase' \in Serving, cPhase' = "done"
      PROVE  FALSE
  <2>1. CASE ClientStep
    <3>1. cPhase = "verdict" /\ sPhase \in Serving /\ Clean /\ Alive
      BY <1>5, <2>1, LastMoves, ClientParts
    <3> QED
      BY <1>0, <3>1 DEF ReportingParts, Intact, Echoes
  <2>2. CASE ServerStep /\ ~ Accept
    BY <1>0, <1>5, <2>2, ServerStepParts DEF ReportingParts, Clean
  <2>3. CASE KillServer \/ RestartServer \/ UNCHANGED vars
    <3>1. UNCHANGED vars /\ UNCHANGED <<cPhase, mishaps>>
      BY <1>5, <2>3, ServerGone
    <3>2. sPhase' = sPhase
      BY <3>1 DEF vars, serverSide, server
    <3> QED
      BY <1>0, <1>5, <3>1, <3>2 DEF ReportingParts, Clean
  <2> QED
    BY <1>2, <1>3, <1>4, <1>5, <2>1, <2>2, <2>3 DEF Next
<1>6. ASSUME Intact'
      PROVE  Echoes'
  <2>1. CASE UNCHANGED vars
    <3>1. UNCHANGED <<sPhase, cPhase, toServer, toClient, mishaps>>
      BY <2>1 DEF vars, serverSide, clientSide, server, client
    <3> QED
      BY <1>0, <1>6, <3>1 DEF ReportingParts, Intact, Alive, Clean, Echoes
  <2>2. CASE ServerStep /\ Accept
    <3>1. cPhase' = "offset" /\ sPhase' = "ackOffset" /\ toServer' = <<>>
      BY <1>2, <1>6, <2>2 DEF Intact, Alive, Running
    <3> QED
      BY <3>1 DEF Echoes
  <2> QED
    BY <1>6, <2>1, <2>2, IntactBefore, ClientEchoes, ServerEchoes
<1>7. ASSUME Alive', Clean', cPhase' = "offset", toClient' # <<>>
      PROVE  Head(toClient').value = StartOffset' /\ indexA' = StartIndex'
  <2>1. CASE ClientStep
    BY <1>7, <2>1, ClientParts, MovesOn
  <2>2. CASE ServerStep /\ ~ Accept
    <3>1. Intact /\ cPhase = "offset"
      BY <1>7, <2>2, ServerStepParts DEF Intact, Alive, Clean
    <3> QED
      BY <2>2, <3>1, OffsetWaits
  <2>3. CASE ServerStep /\ Accept
    <3>1. StartOffset' = StartOffset /\ StartIndex' = StartIndex
      BY <1>2, <2>3, SameStart
    <3> QED
      BY <1>2, <2>3, <3>1
  <2>4. CASE KillServer \/ RestartServer \/ UNCHANGED vars
    <3>1. /\ UNCHANGED <<present, saved, indexA, cPhase, mishaps>>
          /\ toClient' = toClient
      BY <1>7, <2>4, ServerGone
    <3>2. StartOffset' = StartOffset /\ StartIndex' = StartIndex
      BY <3>1, SameStart
    <3>3. Alive /\ Clean
      BY <1>7, <3>1 DEF Alive, Clean
    <3> QED
      BY <1>0, <1>7, <3>1, <3>2, <3>3 DEF ReportingParts
  <2> QED
    BY <1>3, <1>4, <1>7, <2>1, <2>2, <2>3, <2>4 DEF Next, Alive, Running
<1>8. ASSUME Alive', Clean', sPhase' \notin Serving \cup {"start"}
      PROVE  Waits'
  <2>1. CASE ClientStep
    BY <1>0, <1>8, <2>1, ClientParts, ClientWaits DEF ReportingParts
  <2>2. CASE ServerStep /\ ~ Accept
    <3>1. /\ Intact /\ cPhase' = cPhase
          /\ DirCnt
      BY <1>8, <2>2, ServerStepParts DEF Intact, Alive, Clean
    <3>2. cPhase \in {"fileEcho", "dirEcho"}
      BY <1>0, <3>1 DEF ReportingParts, DirCnt, Echoes
    <3> QED
      BY <3>1, <3>2 DEF Waits
  <2>3. CASE KillServer \/ RestartServer \/ UNCHANGED vars
    <3>1. /\ UNCHANGED <<saved, before, indexA, cPhase, mishaps>>
          /\ toClient' \in {<<>>, toClient}
      BY <2>3, ServerGone
    <3>2. Alive /\ Clean
      BY <1>8, <3>1 DEF Alive, Clean
    <3>3. Waits
      BY <1>0, <3>2, WaitsInSession DEF ReportingParts
    <3>4. Len(<<>>) = 0
      OBVIOUS
    <3> QED
      BY <3>1, <3>3, <3>4 DEF Waits, Index
  <2> QED
    BY <1>2, <1>3, <1>4, <1>8, <2>1, <2>2, <2>3 DEF Next, Alive, Running, Serving
<1>9. ASSUME Alive' \/ cPhase' = "done", Clean', AtEnd'
      PROVE  Complete'
  <2>1. CASE ClientStep
    <3>1. Alive /\ Clean /\ ~ Guess /\ UNCHANGED <<saved, before, sPhase, indexA>>
      BY <1>9, <2>1, ClientParts
    <3>2. CASE sPhase' \in Serving
      <4>1. Intact'
        BY <1>5, <1>9, <3>2 DEF Intact
      <4> QED
        BY <1>1, <1>9, <4>1
    <3>3. CASE sPhase \notin Serving
      <4>1. Waits
        BY <1>0, <3>1, <3>3, WaitsInSession DEF ReportingParts
      <4>2. AtEnd /\ fileOffset' = fileOffset
        BY <1>9, <2>1, <3>1, <4>1, ClientWaits
      <4> QED
        BY <1>0, <3>1, <4>2, SameComplete DEF ReportingParts
    <3> QED
      BY <3>1, <3>2, <3>3
  <2>2. CASE ServerStep /\ ~ Accept
    <3>1. CASE sPhase' \in Serving
      <4>1. Intact'
        BY <1>5, <1>9, <3>1 DEF Intact
      <4> QED
        BY <1>1, <1>9, <4>1
    <3>2. CASE sPhase' \notin Serving
      <4>1. /\ DirCnt /\ Clean /\ sPhase \in Serving
            /\ UNCHANGED <<cPhase, before, indexA, fileOffset>>
        BY <1>9, <2>2, <3>2, ServerStepParts DEF Clean
      <4>2. cPhase # "done"
        BY <1>0, <4>1 DEF ReportingParts
      <4>3. Alive /\ Intact
        BY <1>9, <4>1, <4>2 DEF Alive, Intact
      <4>4. cPhase \in {"fileEcho", "dirEcho"} /\ saved' = saved
        BY <1>0, <4>1, <4>3 DEF ReportingParts, DirCnt, Echoes, store
      <4> QED
        BY <1>0, <4>1, <4>3, <4>4, SameComplete DEF ReportingParts, AtEnd
    <3> QED
      BY <3>1, <3>2
  <2>3. CASE KillServer \/ RestartServer \/ UNCHANGED vars
    <3>1. /\ UNCHANGED <<saved, before, indexA, cPhase, sending, fileOffset, mishaps>>
          /\ toClient' \in {<<>>, toClient}
      BY <2>3, ServerGone
    <3>2. (Alive \/ cPhase = "done") /\ Clean /\ AtEnd
      BY <1>9, <3>1 DEF Alive, Clean, AtEnd
    <3> QED
      BY <1>0, <3>1, <3>2, SameComplete DEF ReportingParts
  <2> QED
    BY <1>2, <1>3, <1>4, <1>9, <2>1, <2>2, <2>3 DEF Next, AtEnd, Alive, Running
<1>10. ReportingParts'
  BY <1>5, <1>6, <1>7, <1>8, <1>9 DEF ReportingParts
<1> QED
  BY <1>0, <1>10

\* For every tree and all the faults the model has: in sessions in which nothing has gone
\* wrong but deaths and the client did not have to guess where to start, it never comes to
\* its end while the server is still in the session, nor before every file from indexA on
\* is complete.
THEOREM EndIsComplete == Spec => []Reporting
<1>1. Init => Reporting
  BY DEF Init, TransferInit, Reporting, AtEnd, Intact, Alive, Running, Serving
<1>2. TypeInv /\ TypeInv' /\ LockStep /\ LockStep' /\ Streaming /\ Streaming' /\ Reporting
        /\ [Next]_vars => Reporting'
  BY StepReporting
<1> QED
  BY <1>1, <1>2, TypeCorrect, InLockStep, StreamIsWhole, PTL DEF Spec
-----------------------------------------------------------------------------
(* The refinement.                                                         *)

Plan == Remaining(Offset)

\* The definitions of Delivery are those of the transfer.
LEMMA SameDefinitions ==
    /\ Promise!Entries = Entries
    /\ Promise!Files = Files
    /\ Promise!NoPlan = [i \in Entries |-> <<>>]
    /\ \A i, offset : Promise!From(i, offset) = From(i, offset)
    /\ \A S : Promise!Min(S) = Min(S)
  BY DEF Promise!Entries, Entries, Promise!Files, Files, Promise!NoPlan, Promise!From, From,
         Promise!Min, Min

LEMMA NothingPlanned == ~ Going => Plan = Promise!NoPlan
  BY SameDefinitions DEF Plan, Remaining

\* The steps of the transfer that are steps of Delivery of their own kind.
LEMMA IsEnd == ASSUME DeliveryPhase' = "idle", UNCHANGED saved PROVE Promise!End
<1>1. (~ Going => Plan = Promise!NoPlan)'
  BY NothingPlanned, PTL
<1>2. PhaseFacts'
  BY Phases, PTL
<1> QED
  BY <1>1, <1>2 DEF PhaseFacts, Promise!End, Plan, Promise!NoPlan

LEMMA IsDerail ==
    ASSUME DeliveryPhase' = "derailed", DeliveryPhase # "reported",
           NEW i \in Entries, Growing(i)
    PROVE  Promise!Derail
<1>1. (~ Going => Plan = Promise!NoPlan)'
  BY NothingPlanned, PTL
<1>2. PhaseFacts'
  BY Phases, PTL
<1>3. Plan' = [k \in Entries |-> <<>>] /\ Promise!Entries = Entries
  BY <1>1, <1>2, SameDefinitions DEF PhaseFacts
<1> QED
  BY <1>3, SameDefinitions DEF Promise!Derail, Growing, Plan

LEMMA StepGrows ==
    ASSUME TypeInv, Next
    PROVE  \/ UNCHANGED saved
           \/ (RecvLength \/ RecvLengthShort \/ RecvMisaligned) /\ \E i \in Entries : Growing(i)
<1>1. CASE RecvLength
  <2>1. PICK len \in IF toServer = <<>> THEN AnyLength ELSE {Head(toServer).block.n} :
            WriteBytes(Bytes(block, len))
    BY <1>1 DEF RecvLength
  <2>2. len \in Nat
    BY <2>1, AnyLengthType, HeadType
  <2>3. entry \in Files /\ block \in Block /\ (block.n > 0 => block.file \in Files)
    BY <1>1 DEF RecvLength, TypeInv, TypeOK, TransferTypeOK, InLoops
  <2> QED
    BY <1>1, <2>1, <2>2, <2>3, WriteGrows, TypeParts
<1>2. CASE RecvLengthShort
  <2>1. PICK len \in AnyLength : WriteBytes(Bytes(block, len))
    BY <1>2 DEF RecvLengthShort
  <2>2. entry \in Files /\ block \in Block /\ (block.n > 0 => block.file \in Files)
    BY <1>2 DEF RecvLengthShort, TypeInv, TypeOK, TransferTypeOK, InLoops
  <2> QED
    BY <1>2, <2>1, <2>2, AnyLengthType, WriteGrows, TypeParts
<1>3. CASE RecvMisaligned
  <2>1. PICK b \in {Zeros} \cup {toServer[k].block : k \in {1} \cap DOMAIN toServer},
             len \in AnyLength \cap {0, 1} : WriteBytes(Bytes(b, len))
    BY <1>3 DEF RecvMisaligned
  <2>2. entry \in Files
    BY <1>3 DEF RecvMisaligned, TypeInv, InLoops
  <2>3. b \in Block /\ (b.n > 0 => b.file \in Files)
    <3>1. CASE b = Zeros
      BY <3>1, TextType DEF Zeros
    <3>2. CASE b # Zeros
      <4>1. 1 \in DOMAIN toServer /\ b = toServer[1].block
        BY <2>1, <3>2
      <4>2. toServer # <<>> /\ 1 \in 1 .. Len(toServer)
        BY <4>1, QueueTypes, TypeParts
      <4> QED
        BY <4>1, <4>2, HeadType DEF TypeInv, InLoops
    <3> QED
      BY <3>1, <3>2
  <2> QED
    BY <1>3, <2>1, <2>2, <2>3, AnyLengthType, WriteGrows, TypeParts
<1>4. CASE ~ RecvLength /\ ~ RecvLengthShort /\ ~ RecvMisaligned
  BY <1>4
  DEF Next, Connect, ClientStep, KillClient, ServerStep, Accept, AckOffset, AckIndex, Loop,
      MakeDirectory, SkipEntry, OpenFile, EndLoop, RecvEndOfFile, RecvMarker, TakeEndOfFile,
      RecvBlock, TakeBlock, Misalign, FileCnt, DirCnt, KillServer, RestartServer, serverSide, store
<1> QED
  BY <1>1, <1>2, <1>3, <1>4
-----------------------------------------------------------------------------
\* A session begins one byte before the end of the copy it continues, or at its start.
LEMMA StartIsInCopy ==
    ASSUME TypeInv
    PROVE  StartIndex \in Entries /\ Seek(StartOffset) \in 0 .. Len(saved[StartIndex])
<1>1. StartIndex \in Entries
  BY StartType, TypeParts DEF TypeInv
<1>2. \A i \in Entries : Len(saved[i]) \in Nat /\ (saved[i] # <<>> => Len(saved[i]) > 0)
  BY DEF TypeInv, TypeOK, TransferTypeOK
<1>3. \A i \in Entries : Seek(FileLocatePointer(i)) \in 0 .. Len(saved[i])
  BY <1>2 DEF Seek, FileLocatePointer
<1>4. 0 \notin Found => Seek(StartOffset) = 0
  BY DEF StartOffset, Seek
<1>5. Len(saved[StartIndex]) \in Nat
  BY <1>1, <1>2
<1>6. 0 \in Found => Seek(StartOffset) = Seek(FileLocatePointer(StartIndex))
  BY DEF StartOffset
<1> QED
  BY <1>1, <1>3, <1>4, <1>5, <1>6

\* What a session that begins plans to do.
LEMMA PlanBegins ==
    ASSUME TypeInv, DeliveryPhase = "idle", Going', saved' = saved, before' = saved,
           indexA' = StartIndex, Offset' = Seek(StartOffset)
    PROVE  Promise!Begin
<1> DEFINE first == StartIndex
           offset == Seek(StartOffset)
<1>1. first \in Entries /\ offset \in 0 .. Len(saved[first])
  BY StartIsInCopy
<1>2. DeliveryPhase' = "going"
  <2>1. PhaseFacts'
    BY Phases, PTL
  <2> QED
    BY <2>1 DEF PhaseFacts
<1>3. \A i \in Files : Len(saved[i]) \in Nat
  BY SizeType DEF TypeInv, TypeOK, TransferTypeOK
<1>4. offset \in Int
  BY <1>1
<1> HIDE DEF first, offset
<1>5. \A i \in Files : offset + (Len(saved[i]) - Len(saved[i])) = offset
  BY <1>3, <1>4
<1>6. Plan' = [i \in Entries |-> IF i \in Files /\ i >= first THEN From(i, offset) ELSE <<>>]
  <2>1. Plan' = [i \in Entries |->
                    IF i \in Files /\ i >= first
                    THEN From(i, offset + (Len(saved[i]) - Len(saved[i]))) ELSE <<>>]
    BY DEF Plan, Remaining, first, offset
  <2> QED
    BY <1>5, <2>1
<1> QED
  BY <1>1, <1>2, <1>6, SameDefinitions DEF Promise!Begin, Plan

LEMMA AcceptBegins ==
    ASSUME TypeInv, LockStep, Accept, UNCHANGED clientSide, Alive
    PROVE  Promise!Begin
<1>1. /\ cPhase = "offset" /\ cPhase' = "offset"
      /\ sPhase = "start" /\ sPhase' = "ackOffset"
      /\ indexA' = StartIndex
      /\ saved' = saved /\ before' = saved /\ present' = present
      /\ mishaps' = Earlier({"guess"})
  BY DEF Accept, LockStep, Alive, Running, clientSide, client
<1>2. DeliveryPhase = "idle"
  BY <1>1 DEF DeliveryPhase, Going, Serving
<1>3. Clean' /\ Alive'
  BY <1>1 DEF Clean, Mishap, Earlier, Alive, Running
<1>4. Going'
  BY <1>1, <1>3 DEF Going, Serving
<1>5. Offset' = Seek(StartOffset)
  BY <1>1, SameStart DEF Offset, Seek
<1> QED
  BY <1>1, <1>2, <1>4, <1>5, PlanBegins

\* A client that receives its offset after the server's end is in a session from then on.
LEMMA LateBegins ==
    ASSUME TypeInv, LockStep, Reporting, ClientStep, RecvOffset, sPhase \notin Serving, Clean
    PROVE  Promise!Begin
<1>1. /\ UNCHANGED <<saved, before, indexA, sPhase>>
      /\ cPhase = "offset" /\ cPhase' = "index" /\ Alive /\ Alive'
      /\ toClient # <<>>
      /\ fileOffset' = Head(toClient).value
      /\ mishaps' = mishaps
  BY ClientParts DEF ClientStep, Guess, GuessOffset, GuessIndex, NothingComes, RecvOffset,
      Consume, Alive, Running
<1>2. sPhase \notin Serving \cup {"start"}
  BY <1>1 DEF LockStep
<1>3. saved = before /\ fileOffset' = StartOffset /\ indexA = StartIndex
  BY <1>1, <1>2 DEF Reporting
<1>4. DeliveryPhase = "idle" /\ Going'
  BY <1>1 DEF DeliveryPhase, Going, Clean
<1>5. Offset' = Seek(StartOffset)
  BY <1>1, <1>3 DEF Offset, Seek
<1> QED
  BY <1>1, <1>3, <1>4, <1>5, PlanBegins

\* What is planned for a file of a session that is going.
LEMMA PlanOf ==
    Going /\ cPhase # "offset" =>
        Plan = [i \in Entries |->
                    IF i \in Files /\ i >= indexA THEN From(i, Base + Added(i)) ELSE <<>>]
  BY DEF Plan, Remaining, Offset, Base, Added

LEMMA SamePlan ==
    ASSUME Going, Going', UNCHANGED <<saved, before, indexA>>, Offset' = Offset
    PROVE  Plan' = Plan
  BY DEF Plan, Remaining

\* The least entry with something left is the one the server writes to.
LEMMA PlanStartsAtEntry ==
    ASSUME TypeInv, Delivered, entry \in Files, Going, cPhase # "offset", Plan[entry] # <<>>
    PROVE  Min({k \in Entries : Plan[k] # <<>>}) = entry
<1> DEFINE S == {k \in Entries : Plan[k] # <<>>}
<1>1. entry \in S /\ S \subseteq Nat
  BY SizeType, TreeAssumption DEF Entries
<1>2. ASSUME NEW k \in S
      PROVE  entry <= k
  <2>1. k \in Files /\ k >= indexA /\ From(k, Base + Added(k)) # <<>>
    BY PlanOf
  <2>2. k \in Nat /\ indexA \in Nat /\ entry \in Nat /\ Base \in Nat /\ Size[k] \in Nat
    BY <2>1, IndexTypes, TypeParts, FilesAreEntries, BaseType, SizeType
  <2>3. ASSUME k < entry
        PROVE  FALSE
    <3>1. Added(k) = Rest(k)
      BY <2>1, <2>2, <2>3 DEF Delivered
    <3>2. ~ (Base + Added(k) < Size[k])
      BY <2>2, <3>1 DEF Rest
    <3>3. From(k, Base + Added(k)) = <<>>
      BY <3>2 DEF From
    <3> QED
      BY <2>1, <3>3
  <2> QED
    BY <2>2, <2>3
<1>3. Min(S) \in S /\ Min(S) <= entry
  BY <1>1, MinIsLeast
<1> QED
  BY <1>1, <1>2, <1>3

LEMMA LengthDelivers ==
    ASSUME TypeInv, LockStep, Streaming, Intact, Intact', RecvLength, UNCHANGED clientSide
    PROVE  Promise!Deliver
<1>1. /\ Flowing /\ Queued /\ Alive /\ ClientInv
      /\ sPhase = "length" /\ sPhase' = "content"
      /\ entry \in Files
      /\ block.file = entry
      /\ UNCHANGED <<cPhase, fileOffset>>
  BY StreamingParts, IntactPaired
  DEF RecvLength, Flowing, TypeInv, InLoops, Intact, clientSide, client, cursor
<1>2. /\ Delivered
      /\ block.n > 0 /\ block.at = Base + Added(entry) /\ block.at + block.n <= Size[entry]
      /\ block \in Block
  BY <1>1 DEF Flowing, TypeInv, TypeOK, TransferTypeOK
<1>3. Arrived("length") /\ toServer # <<>> /\ Head(toServer) = toServer[1]
  BY <1>1, QueueTypes, TypeParts, TailOf DEF RecvLength, Recv, Nothing, Arrived
<1>4. toServer[1].block = block
  <2>1. Fits(Expects, toServer[1])
    BY <1>1, <1>3, InFileWhenOpen
  <2> QED
    BY <1>1, <1>3, <2>1 DEF Fits, Arrived, Expects
<1>5. WriteBytes(Bytes(block, block.n))
  BY <1>3, <1>4 DEF RecvLength
<1>6. Added(entry)' = Added(entry) + block.n
  BY <1>1, <1>2, <1>5, WriteDelivered
<1>7. /\ block.n \in Nat /\ Base \in Nat /\ Added(entry) \in Nat
      /\ entry \in Entries /\ Size[entry] \in Nat
      /\ entry >= indexA
  <2>1. block.n \in Nat
    BY <1>2, TransferAssumption DEF Block
  <2> QED
    BY <1>1, <1>2, <2>1, BaseType, SizeType DEF Delivered
<1>8. cPhase # "offset" /\ cPhase' # "offset"
  BY <1>1 DEF ClientInv
<1>9. Going /\ Going' /\ Base' = Base
  BY <1>1, <1>8 DEF Going, Intact, Base
<1> DEFINE n == block.n
           x == Base + Added(entry)
<1>10. n \in Nat /\ n > 0 /\ x \in Nat /\ x + n <= Size[entry] /\ block.at = x
  BY <1>2, <1>7
<1>11. Plan[entry] = From(entry, x)
  BY <1>1, <1>7, <1>8, <1>9, PlanOf
<1>12. Bytes(block, n) = [k \in 1 .. n |-> <<entry, x + k - 1>>]
  BY <1>1, <1>10 DEF Bytes
<1>13. /\ Plan' = [i \in Entries |->
                    IF i \in Files /\ i >= indexA THEN From(i, Base + Added(i)') ELSE <<>>]
  <2>1. indexA' = indexA
    BY <1>5 DEF WriteBytes
  <2>2. (Going /\ cPhase # "offset" =>
            Plan = [i \in Entries |->
                        IF i \in Files /\ i >= indexA THEN From(i, Base + Added(i)) ELSE <<>>])'
    BY PlanOf, PTL
  <2> QED
    BY <1>8, <1>9, <2>1, <2>2
<1>14. Base + (Len(saved'[entry]) - Len(before'[entry])) = x + n
  <2>1. entry' = entry
    BY <1>5 DEF WriteBytes
  <2>2. Added(entry)' = Len(saved'[entry]) - Len(before'[entry])
    BY <2>1 DEF Added
  <2>3. Base + Added(entry)' = x + n
    BY <1>6, <1>7
  <2> QED
    BY <2>2, <2>3
<1>15. Plan'[entry] = From(entry, x + n)
  BY <1>1, <1>7, <1>13, <1>14 DEF Added
<1>16. \A i \in Entries \ {entry} : Plan'[i] = Plan[i]
  <2>1. ASSUME NEW i \in Files, i # entry
        PROVE  Added(i)' = Added(i)
    <3>1. saved'[i] = saved[i] /\ before' = before
      BY <1>1, <1>2, <1>5, <1>7, <2>1, SizeType, WriteType, TypeParts
    <3> QED
      BY <3>1 DEF Added
  <2> QED
    BY <1>8, <1>9, <1>13, <2>1, PlanOf
<1>17. Min({k \in Entries : Plan[k] # <<>>}) = entry /\ Plan[entry] # <<>>
  BY <1>1, <1>2, <1>8, <1>9, <1>10, <1>11, FromCut, PlanStartsAtEntry
<1>18. /\ n \in 1 .. Len(Plan[entry])
       /\ Bytes(block, n) = SubSeq(Plan[entry], 1, n)
       /\ Plan'[entry] = SubSeq(Plan[entry], n + 1, Len(Plan[entry]))
  <2> HIDE DEF n, x
  <2>1. /\ n \in 1 .. Len(From(entry, x))
        /\ SubSeq(From(entry, x), 1, n) = [k \in 1 .. n |-> <<entry, x + k - 1>>]
        /\ SubSeq(From(entry, x), n + 1, Len(From(entry, x))) = From(entry, x + n)
    BY <1>1, <1>10, FromCut, ZenonT(60)
  <2> QED
    BY <1>11, <1>12, <1>15, <2>1
<1>19. Plan' = [Plan EXCEPT ![entry] = SubSeq(@, n + 1, Len(@))]
  <2>1. Plan = [i \in Entries |-> Plan[i]]
    BY <1>8, <1>9, PlanOf
  <2>2. Plan' = [i \in Entries |-> Plan'[i]]
    BY <1>13
  <2> QED
    BY <1>7, <1>16, <1>18, <2>1, <2>2
<1>20. saved' = [saved EXCEPT ![entry] = @ \o SubSeq(Plan[entry], 1, n)]
  BY <1>5, <1>18 DEF WriteBytes
<1>21. Plan # Promise!NoPlan
  BY <1>7, <1>17, SameDefinitions
<1>22. DeliveryPhase = "going" /\ DeliveryPhase' = "going"
  <2>1. PhaseFacts'
    BY Phases, PTL
  <2> QED
    BY <1>9, <2>1, Phases DEF PhaseFacts
<1> HIDE DEF n
<1> QED
  BY <1>17, <1>18, <1>19, <1>20, <1>21, <1>22, SameDefinitions DEF Promise!Deliver, Plan

Same == UNCHANGED <<saved, Plan, DeliveryPhase>>

LEMMA IsSame ==
    ASSUME Going, Going', UNCHANGED <<saved, before, indexA>>, Offset' = Offset
    PROVE  Same
<1>1. PhaseFacts'
  BY Phases, PTL
<1> QED
  BY <1>1, Phases, SamePlan DEF PhaseFacts, Same

\* The client's steps: they are within a session, end it or report it.
LEMMA ClientRefines ==
    ASSUME TypeInv, LockStep, Streaming, Reporting, ClientStep
    PROVE  Promise!DeliveryNext \/ Same
<1>1. /\ Alive
      /\ UNCHANGED <<present, saved, before, indexA, sPhase>>
      /\ Clean' => Clean /\ ~ Guess
  BY ClientParts
<1>2. DeliveryPhase # "reported"
  BY <1>1, Phases DEF PhaseFacts, Alive, Running
<1>3. PhaseFacts'
  BY Phases, PTL
<1>4. CASE DeliveryPhase' = "idle"
  BY <1>1, <1>4, IsEnd DEF Promise!DeliveryNext
<1>5. CASE DeliveryPhase' = "derailed"
  <2>1. PICK i \in Entries : Growing(i)
    BY <1>1, SameGrows, TypeParts
  <2> QED
    BY <1>2, <1>5, <2>1, IsDerail DEF Promise!DeliveryNext
<1>6. CASE DeliveryPhase' = "reported"
  <2>1. cPhase' = "done" /\ Clean
    BY <1>1, <1>3, <1>6 DEF PhaseFacts
  <2>2. cPhase = "verdict"
    BY <2>1, LastMoves
  <2>3. Going /\ Complete
    BY <1>1, <2>1, <2>2 DEF Going, Reporting, AtEnd
  <2>4. Plan = Promise!NoPlan
    <3>1. ASSUME NEW i \in Files, i >= indexA
          PROVE  From(i, Base + Added(i)) = <<>>
      <4>1. ~ (Base + Added(i) < Size[i])
        BY <2>3, <3>1, BaseType, SizeType DEF Complete, Rest
      <4> QED
        BY <4>1 DEF From
    <3> QED
      BY <2>2, <2>3, <3>1, PlanOf, SameDefinitions
  <2>5. Plan' = Promise!NoPlan
    <3>1. ~ Going'
      BY <2>1 DEF Going, Alive, Running
    <3>2. (~ Going => Plan = Promise!NoPlan)'
      BY NothingPlanned, PTL
    <3> QED
      BY <3>1, <3>2, SameDefinitions DEF Promise!NoPlan
  <2>6. DeliveryPhase = "going"
    BY <2>3, Phases DEF PhaseFacts
  <2>7. Promise!Report
    BY <1>1, <1>6, <2>4, <2>5, <2>6 DEF Promise!Report, Plan
  <2> QED
    BY <2>7 DEF Promise!DeliveryNext
<1>7. CASE DeliveryPhase' = "going"
  <2>1. Going' /\ Alive' /\ Clean' /\ Clean /\ ~ Guess
    BY <1>1, <1>3, <1>7 DEF PhaseFacts, Going
  <2>2. cPhase' # "failed" /\ cPhase' # "offset"
    BY <2>1, MovesOn DEF Alive, Running
  <2>3. CASE RecvOffset /\ sPhase \in Serving
    <3>1. /\ cPhase = "offset" /\ toClient # <<>>
          /\ fileOffset' = Head(toClient).value
      BY <2>3 DEF RecvOffset, Consume
    <3>2. fileOffset' = StartOffset
      BY <1>1, <2>1, <3>1 DEF Reporting
    <3>3. Offset' = Offset /\ Going
      BY <1>1, <2>1, <2>2, <2>3, <3>1, <3>2 DEF Offset, Seek, Going
    <3> QED
      BY <1>1, <2>1, <3>3, IsSame
  <2>4. CASE RecvOffset /\ sPhase \notin Serving
    BY <2>1, <2>4, LateBegins DEF Promise!DeliveryNext
  <2>5. CASE cPhase # "offset" /\ fileOffset' = fileOffset
    <3>1. Offset' = Offset /\ Going
      BY <1>1, <2>1, <2>2, <2>5 DEF Offset, Seek, Going
    <3> QED
      BY <1>1, <2>1, <3>1, IsSame
  <2> QED
    BY <2>1, <2>2, <2>3, <2>4, <2>5, MovesOn
<1> QED
  BY <1>3, <1>4, <1>5, <1>6, <1>7 DEF PhaseFacts

\* The server's steps but the first: they deliver, or a session that has gone wrong goes
\* on in its way.
LEMMA ServerRefines ==
    ASSUME TypeInv, LockStep, Streaming, Streaming', Reporting, Reporting', ServerStep, ~ Accept
    PROVE  Promise!DeliveryNext \/ Same
<1>1. /\ sPhase \in Serving
      /\ mishaps \subseteq mishaps'
      /\ DirCnt \/ sPhase' \in Serving
      /\ UNCHANGED <<cPhase, fileOffset, before, indexA>>
      /\ UNCHANGED clientSide
  BY ServerStepParts DEF ServerStep
<1>2. /\ Clean' => Clean
      /\ Alive' <=> Alive
      /\ ~ (cPhase = "done" /\ Clean)
  BY <1>1 DEF Clean, Alive, Reporting
<1>3. PhaseFacts'
  BY Phases, PTL
<1>4. PICK i \in Entries : Growing(i)
  BY StepGrows, SameGrows, TypeParts DEF Next
<1>5. CASE sPhase' \in Serving /\ ~ (Alive' /\ Clean')
  <2>1. DeliveryPhase' = "derailed"
    BY <1>1, <1>2, <1>3, <1>5 DEF PhaseFacts
  <2>2. DeliveryPhase # "reported"
    BY <1>2, Phases DEF PhaseFacts
  <2> QED
    BY <1>4, <2>1, <2>2, IsDerail DEF Promise!DeliveryNext
<1>6. CASE DirCnt /\ ~ (Alive' /\ Clean')
  <2>1. sPhase' \notin Serving /\ UNCHANGED saved
    BY <1>6 DEF DirCnt, store, Serving
  <2>2. DeliveryPhase' = "idle"
    BY <1>1, <1>2, <1>3, <1>6, <2>1 DEF PhaseFacts, Going
  <2> QED
    BY <2>1, <2>2, IsEnd DEF Promise!DeliveryNext
<1>7. CASE Alive' /\ Clean'
  <2>1. Intact
    BY <1>1, <1>2, <1>7 DEF Intact
  <2>2. cPhase # "offset" /\ cPhase' # "offset"
    BY <1>1, <2>1, OffsetWaits
  <2>3. Going /\ Going' /\ Offset' = Offset
    BY <1>1, <1>2, <1>7, <2>1, <2>2 DEF Going, Intact, Offset, Seek
  <2>4. CASE UNCHANGED saved
    BY <1>1, <2>3, <2>4, IsSame
  <2>5. CASE RecvLength
    <3>1. Intact'
      BY <1>7, <2>5 DEF RecvLength, Intact, Serving
    <3> QED
      BY <1>1, <2>1, <2>5, <3>1, LengthDelivers DEF Promise!DeliveryNext
  <2>6. ~ RecvLengthShort /\ ~ RecvMisaligned
    BY <1>7, <2>1 DEF RecvLengthShort, RecvMisaligned, Streaming, Clean, Mishap
  <2> QED
    BY <2>4, <2>5, <2>6, StepGrows DEF Next
<1> QED
  BY <1>1, <1>5, <1>6, <1>7

LEMMA StepRefines ==
    ASSUME TypeInv, LockStep, Streaming, Streaming', Reporting, Reporting', [Next]_vars
    PROVE  Promise!DeliveryNext \/ Same
<1>0. PhaseFacts'
  BY Phases, PTL
<1>1. CASE Connect
  <2>1. /\ cPhase' = "offset" /\ sPhase' = "start" /\ UNCHANGED saved
    BY <1>1 DEF Connect, store
  <2>2. DeliveryPhase' = "idle"
    BY <1>0, <2>1 DEF PhaseFacts, Going, Serving
  <2> QED
    BY <2>1, <2>2, IsEnd DEF Promise!DeliveryNext
<1>2. CASE ClientStep
  BY <1>2, ClientRefines
<1>3. CASE KillClient
  <2>1. /\ cPhase' = "killed" /\ Alive /\ UNCHANGED saved
    BY <1>3 DEF KillClient, serverSide, store
  <2>2. DeliveryPhase' \in {"idle", "derailed"} /\ DeliveryPhase # "reported"
    BY <1>0, <2>1, Phases DEF PhaseFacts, Going, Alive, Running
  <2>3. PICK i \in Entries : Growing(i)
    BY <2>1, SameGrows, TypeParts
  <2> QED
    BY <2>1, <2>2, <2>3, IsEnd, IsDerail DEF Promise!DeliveryNext
<1>4. CASE ServerStep /\ Accept
  <2>1. /\ UNCHANGED clientSide /\ sPhase' = "ackOffset" /\ UNCHANGED saved
        /\ cPhase' = cPhase
        /\ cPhase \in {"offset", "killed"}
    BY <1>4 DEF ServerStep, Accept, LockStep, clientSide, client
  <2>2. CASE cPhase = "offset"
    BY <1>4, <2>1, <2>2, AcceptBegins DEF Alive, Running, Promise!DeliveryNext
  <2>3. CASE cPhase = "killed"
    <3>1. DeliveryPhase' = "derailed" /\ DeliveryPhase # "reported"
      BY <1>0, <2>1, <2>3, Phases DEF PhaseFacts, Alive, Running, Serving
    <3>2. PICK i \in Entries : Growing(i)
      BY <2>1, SameGrows, TypeParts
    <3> QED
      BY <3>1, <3>2, IsDerail DEF Promise!DeliveryNext
  <2> QED
    BY <2>1, <2>2, <2>3
<1>5. CASE ServerStep /\ ~ Accept
  BY <1>5, ServerRefines
<1>6. CASE KillServer /\ sPhase \in Serving
  <2>1. /\ UNCHANGED <<saved, before, indexA, cPhase, fileOffset, mishaps>>
        /\ sPhase' = "down" /\ sPhase' \notin Serving
    BY <1>6 DEF KillServer, store, clientSide, client, cursor, Serving
  <2>2. ~ (cPhase' = "done" /\ Clean') /\ (Clean' <=> Clean) /\ (Alive' <=> Alive)
    BY <1>6, <2>1 DEF Reporting, Clean, Alive
  <2>3. DeliveryPhase' \in {"idle", "going"}
    BY <1>0, <2>1, <2>2 DEF PhaseFacts
  <2>4. CASE DeliveryPhase' = "going"
    <3>1. Going' /\ Going /\ Offset' = Offset
      BY <1>0, <2>1, <2>2, <2>4 DEF PhaseFacts, Going, Offset, Seek
    <3> QED
      BY <2>1, <3>1, IsSame
  <2> QED
    BY <2>1, <2>3, <2>4, IsEnd DEF Promise!DeliveryNext
<1>7. CASE (KillServer /\ sPhase \notin Serving) \/ RestartServer \/ UNCHANGED vars
  <2>1. /\ UNCHANGED <<present, saved, before, indexA, cPhase, fileOffset, mishaps>>
        /\ sPhase' \in Serving <=> sPhase \in Serving
    BY <1>7
    DEF KillServer, RestartServer, store, clientSide, client, cursor, Serving, vars, serverSide,
        server
  <2>2. Going' = Going /\ Offset' = Offset /\ DeliveryPhase' = DeliveryPhase
    BY <2>1, SameStart DEF Going, Alive, Clean, Offset, Seek, DeliveryPhase
  <2>3. Plan' = Plan
    BY <2>1, <2>2 DEF Plan, Remaining
  <2> QED
    BY <2>1, <2>2, <2>3 DEF Same
<1> QED
  BY <1>1, <1>2, <1>3, <1>4, <1>5, <1>6, <1>7 DEF Next

\* For every tree, every size of a block, any number of sessions and all the faults the
\* model has: the transfer over TCP keeps the promise of Delivery. A session whose client
\* had to guess where to start is one that has gone wrong.
THEOREM DeliveryKept == Spec => KeepsPromise
<1>1. Init => Promise!DeliveryInit
  <2>1. Init => ~ Going /\ DeliveryPhase = "idle" /\ saved = [i \in Entries |-> <<>>]
    BY DEF Init, TransferInit, Going, Alive, Running, DeliveryPhase, Serving
  <2> QED
    BY <2>1, NothingPlanned, SameDefinitions DEF Promise!DeliveryInit, Plan
<1>2. TypeInv /\ LockStep /\ Streaming /\ Streaming' /\ Reporting /\ Reporting' /\ [Next]_vars
        => [Promise!DeliveryNext]_(Promise!deliveryVars)
  BY StepRefines DEF Same, Plan, Promise!deliveryVars
<1> QED
  BY <1>1, <1>2, TypeCorrect, InLockStep, StreamIsWhole, EndIsComplete, PTL
  DEF Spec, KeepsPromise, Promise!DeliverySpec
-----------------------------------------------------------------------------
(* What the sessions leave under ./save.                                   *)

LEMMA StepInOrder ==
    ASSUME TypeInv, InOrder, [Next]_vars
    PROVE  InOrder'
<1>1. TransferTypeOK /\ InLoops
  BY TypeParts
<1>2. CASE Accept
  BY <1>1, <1>2, StartInOrder DEF Accept
<1>3. CASE AckIndex \/ RecvEndOfFile \/ RecvMarker
  BY <1>1, <1>3, NextInOrder DEF AckIndex, RecvEndOfFile, RecvMarker, TakeEndOfFile, store
<1>4. CASE Loop
  BY <1>1, <1>4, LoopInOrder
<1>5. CASE RecvLength \/ RecvLengthShort \/ RecvMisaligned
  <2>1. \E bytes : WriteBytes(bytes)
    BY <1>5 DEF RecvLength, RecvLengthShort, RecvMisaligned
  <2>2. sPhase \in {"length", "misaligned"} /\ sPhase' \in {"content", "misaligned"}
    BY <1>5 DEF RecvLength, RecvLengthShort, RecvMisaligned
  <2> QED
    BY <1>1, <2>1, <2>2, WriteInOrder
<1>6. CASE AckOffset \/ RecvBlock \/ Misalign \/ FileCnt \/ DirCnt
  BY <1>6, SameInOrder
  DEF AckOffset, RecvBlock, TakeBlock, Misalign, FileCnt, DirCnt, store, Serving
<1>7. CASE Connect \/ ClientStep \/ KillClient \/ KillServer \/ UNCHANGED vars
  <2>1. /\ UNCHANGED <<present, saved, before, indexA, entry>>
        /\ sPhase' = sPhase \/ sPhase' \notin Serving
    BY <1>7
    DEF Connect, ClientStep, KillClient, KillServer, vars, serverSide, store, server, Serving
  <2> QED
    BY <2>1, SameInOrder
<1>8. CASE RestartServer
  BY <1>8 DEF RestartServer, store, InOrder, Found, Serving
<1> QED
  BY <1>2, <1>3, <1>4, <1>5, <1>6, <1>7, <1>8 DEF Next, ServerStep

\* The offset that FilePathCheck finds is that of the copy it starts from.
LEMMA StartIsAgreed ==
    ASSUME TypeInv, InOrder, saved = before, indexA = StartIndex
    PROVE  Seek(StartOffset) = Agreed
<1>1. indexA \in Entries /\ indexA \in Nat
  BY IndexTypes, TypeParts
<1>2. Len(saved[indexA]) \in Nat /\ (saved[indexA] # <<>> => Len(saved[indexA]) > 0)
  BY <1>1 DEF TypeInv, TypeOK, TransferTypeOK
<1>3. CASE 0 \notin Found
  <2>1. indexA = 0 /\ Seek(StartOffset) = 0
    BY <1>3 DEF StartIndex, StartOffset, Seek
  <2>2. saved[0] = <<>>
    BY <1>1, <1>3, <2>1 DEF InOrder, Found
  <2> QED
    BY <2>1, <2>2 DEF Agreed
<1>4. CASE 0 \in Found
  BY <1>2, <1>4 DEF StartOffset, FileLocatePointer, Seek, Agreed
<1> QED
  BY <1>3, <1>4

\* Where a file is open, the entry is the target.
LEMMA OpenIsTarget ==
    ASSUME TypeInv, sPhase \in {"content", "length"}
    PROVE  Target = entry /\ entry \in Files /\ entry # FileCount
<1>1. entry \in Files /\ Target = NextFile(entry)
  BY DEF Target, TypeInv, InLoops
<1> QED
  BY <1>1, NextFileOfFile, FilesAreEntries, TreeAssumption

\* What a clean session receives is what it expects, also from a client that has died.
LEMMA HeadFits ==
    ASSUME TypeInv, LockStep, Streaming, Leaving, sPhase \in {"content", "length"}, Clean,
           toServer # <<>>
    PROVE  Fits(Expects, toServer[1])
<1>1. CASE Alive
  <2>1. Intact
    BY <1>1 DEF Intact, Serving
  <2> QED
    BY <2>1, StreamingParts, InFileWhenOpen
<1>2. CASE ~ Alive
  <2>1. Bequest
    BY <1>2 DEF Leaving, Serving
  <2>2. Linked
    BY <2>1, OpenIsTarget DEF Bequest
  <2>3. 1 \in 1 .. Len(toServer)
    BY QueueTypes, TypeParts, TailOf
  <2> QED
    BY <2>2, <2>3 DEF Linked, NextAt
<1> QED
  BY <1>1, <1>2

LEMMA CopyTypes ==
    ASSUME TypeInv, NEW i \in Files
    PROVE  /\ Len(saved[i]) \in Nat /\ Len(before[i]) \in Nat
           /\ Added(i) \in Int /\ Rest(i) \in Nat /\ Base \in Nat /\ Size[i] \in Nat
           /\ i \in Entries /\ i \in Nat
           /\ (Len(saved[i]) = 0 => saved[i] = <<>>)
           /\ (Len(before[i]) = 0 => before[i] = <<>>)
<1>1. /\ saved[i] \in Bytestrings /\ before[i] \in Bytestrings
      /\ Size[i] \in Nat /\ i \in Entries /\ i \in Nat
  BY SizeType, FilesAreEntries DEF TypeInv, TypeOK, TransferTypeOK, Bytestrings
<1>2. Len(saved[i]) \in Nat /\ Len(before[i]) \in Nat
  BY <1>1, LenProperties DEF Bytestrings
<1>3. /\ (Len(saved[i]) = 0 => saved[i] = <<>>)
      /\ (Len(before[i]) = 0 => before[i] = <<>>)
  BY <1>1, EmptySeq DEF Bytestrings
<1>4. Base \in Nat
  BY BaseType
<1>5. Rest(i) \in Nat
  BY <1>1, <1>4 DEF Rest
<1>6. Added(i) \in Int
  BY <1>2 DEF Added
<1> QED
  BY <1>1, <1>2, <1>3, <1>4, <1>5, <1>6

\* The end of a file comes when the file is complete.
LEMMA EofIsWhole ==
    ASSUME TypeInv, LockStep, Streaming, Leaving, sPhase = "content", Clean, Arrived("eof")
    PROVE  Added(entry) >= Rest(entry)
<1>1. Target = entry /\ entry \in Files
  BY OpenIsTarget
<1>2. toServer # <<>> /\ Head(toServer) = toServer[1] /\ toServer[1].type = "eof"
  BY HeadType DEF Arrived
<1>3. Fits(Expects, toServer[1])
  BY <1>2, HeadFits
<1>4. Expects = <<"block", Base + Added(entry)>>
  BY DEF Expects
<1>5. Base + Added(entry) >= Size[entry]
  BY <1>1, <1>2, <1>3, <1>4 DEF Fits
<1>6. Added(entry) \in Int /\ Base \in Nat /\ Size[entry] \in Nat /\ Rest(entry) \in Nat
  BY <1>1, CopyTypes
<1>7. Added(entry) >= 0
  BY <1>1, <1>6 DEF Leaving, Grown, BeforeLoop, Passed, Serving
<1> QED
  BY <1>5, <1>6, <1>7 DEF Rest

\* Nothing of this changes.
LEMMA SameGrown ==
    ASSUME Grown, UNCHANGED <<saved, before, indexA, entry, present>>,
           BeforeLoop' <=> BeforeLoop, sPhase' = "loop" => sPhase = "loop",
           BeforeLoop \/ fileOffset' = fileOffset
    PROVE  Grown'
<1>1. StartIndex' = StartIndex
  BY SameStart
<1>2. \A i : Added(i)' = Added(i) /\ (~ BeforeLoop => Rest(i)' = Rest(i)) /\ (Passed(i)' <=> Passed(i))
  BY DEF Added, Rest, Base, Passed
<1> QED
  BY <1>1, <1>2 DEF Grown

\* The server comes to its first entry.
LEMMA FirstGrown ==
    ASSUME TypeInv, Grown, BeforeLoop, UNCHANGED <<saved, before, indexA>>,
           entry' = indexA, sPhase' = "loop"
    PROVE  Grown'
<1>1. \A i \in Files : Added(i)' = 0 /\ ~ Passed(i)' /\ saved'[i] = before'[i]
  <2>1. indexA \in Nat
    BY IndexTypes, TypeParts
  <2>2. ASSUME NEW i \in Files
        PROVE  Added(i)' = 0
    <3>1. Len(saved[i]) \in Nat
      BY CopyTypes
    <3> QED
      BY <3>1 DEF Added, Grown
  <2>3. ASSUME NEW i \in Files
        PROVE  ~ Passed(i)'
    <3>1. i \in Nat
      BY CopyTypes
    <3> QED
      BY <2>1, <3>1 DEF Passed
  <2> QED
    BY <2>2, <2>3 DEF Grown
<1>2. entry' >= indexA' /\ ~ BeforeLoop'
  BY IndexTypes, TypeParts DEF BeforeLoop
<1> QED
  BY <1>1, <1>2 DEF Grown

\* The server comes to the next entry, if this one needs nothing more.
LEMMA NextGrown ==
    ASSUME TypeInv, Grown, ~ BeforeLoop, UNCHANGED <<saved, before, indexA, fileOffset>>,
           entry' = entry + 1, sPhase' = "loop",
           entry \in Files => Added(entry) >= Rest(entry)
    PROVE  Grown'
<1>1. entry \in Nat /\ indexA \in Nat /\ entry >= indexA /\ ~ BeforeLoop'
  BY IndexTypes, TypeParts DEF Grown, BeforeLoop
<1>2. \A i \in Files : Added(i)' = Added(i) /\ Rest(i)' = Rest(i)
  BY DEF Added, Rest, Base
<1>3. ASSUME NEW i \in Files
      PROVE  /\ i < indexA \/ i > entry + 1 \/ i = entry + 1 => saved[i] = before[i]
             /\ Added(i) >= IF indexA <= i /\ i < entry + 1 THEN Rest(i) ELSE 0
  <2>1. i \in Nat /\ Added(i) \in Int /\ Rest(i) \in Nat
    BY CopyTypes
  <2>2. /\ i < indexA \/ i > entry => saved[i] = before[i]
        /\ Added(i) >= IF indexA <= i /\ i < entry THEN Rest(i) ELSE 0
    BY <1>1 DEF Grown, Passed
  <2>3. CASE i = entry
    BY <1>1, <2>1, <2>2, <2>3
  <2>4. CASE i # entry
    <3>1. i < entry + 1 <=> i < entry
      BY <1>1, <2>1, <2>4
    <3>2. i > entry + 1 \/ i = entry + 1 => i > entry
      BY <1>1, <2>1
    <3> QED
      BY <2>2, <3>1, <3>2
  <2> QED
    BY <2>3, <2>4
<1>4. entry + 1 >= indexA
  BY <1>1
<1> QED
  BY <1>1, <1>2, <1>3, <1>4 DEF Grown, Passed

\* The server writes to the file that is open.
LEMMA WriteGrown ==
    ASSUME TypeInv, Grown, sPhase = "length", sPhase' = "content",
           NEW len \in Nat, WriteBytes(Bytes(block, len)), fileOffset' = fileOffset
    PROVE  Grown' /\ Added(entry)' = Added(entry) + len
<1>1. entry \in Files /\ block \in Block /\ (block.n > 0 => block.file \in Files)
  BY DEF TypeInv, TypeOK, TransferTypeOK, InLoops
<1>2. /\ \A i \in Entries \ {entry} : saved'[i] = saved[i]
      /\ saved'[entry] = saved[entry] \o Bytes(block, len)
      /\ UNCHANGED <<before, indexA, entry>>
  BY <1>1, WriteType, TypeParts
<1>3. /\ entry \in Nat /\ indexA \in Nat /\ entry >= indexA
      /\ ~ BeforeLoop /\ ~ BeforeLoop'
  BY IndexTypes, TypeParts DEF Grown, BeforeLoop
<1>4. Len(saved'[entry]) = Len(saved[entry]) + len
  <2>1. Bytes(block, len) \in Bytestrings /\ Len(Bytes(block, len)) = len
    BY <1>1, BytesType DEF Bytestrings
  <2>2. saved[entry] \in Bytestrings
    BY <1>1, SizeType DEF TypeInv, TypeOK, TransferTypeOK, Bytestrings
  <2>3. Len(saved[entry] \o Bytes(block, len)) = Len(saved[entry]) + Len(Bytes(block, len))
    BY <2>1, <2>2, ConcatBytes, Zenon
  <2> QED
    BY <1>2, <2>1, <2>3
<1>5. Added(entry)' = Added(entry) + len
  <2>1. Len(saved[entry]) \in Nat /\ Len(before[entry]) \in Nat
    BY <1>1, CopyTypes
  <2>2. Added(entry)' = (Len(saved[entry]) + len) - Len(before[entry])
    BY <1>2, <1>4 DEF Added
  <2>3. Added(entry) = Len(saved[entry]) - Len(before[entry])
    BY DEF Added
  <2> QED
    BY <2>1, <2>2, <2>3
<1>6. ASSUME NEW i \in Files
      PROVE  /\ i < indexA \/ i > entry => saved'[i] = before[i]
             /\ Added(i)' >= IF Passed(i)' THEN Rest(i)' ELSE 0
  <2>1. /\ i \in Nat /\ Added(i) \in Int /\ Rest(i) \in Nat /\ i \in Entries
        /\ Rest(i)' = Rest(i) /\ (Passed(i)' <=> Passed(i))
    BY <1>2, <1>3, CopyTypes DEF Rest, Base, Passed
  <2>2. /\ i < indexA \/ i > entry => saved[i] = before[i]
        /\ Added(i) >= IF Passed(i) THEN Rest(i) ELSE 0
    BY <1>3 DEF Grown
  <2>3. CASE i = entry
    <3>1. Added(i)' = Added(i) + len
      BY <1>2, <1>5, <2>3 DEF Added
    <3> QED
      BY <1>3, <2>1, <2>2, <2>3, <3>1
  <2>4. CASE i # entry
    <3>1. saved'[i] = saved[i] /\ Added(i)' = Added(i)
      BY <1>2, <2>1, <2>4 DEF Added
    <3> QED
      BY <2>1, <2>2, <3>1
  <2> QED
    BY <2>3, <2>4
<1> QED
  BY <1>2, <1>3, <1>5, <1>6 DEF Grown

\* What a dead client leaves on its way.
LEMMA DeathBequeaths ==
    ASSUME TypeInv, LockStep, Streaming, Reporting, Intact, toServer # <<>>
    PROVE  Bequest
<1>1. Flowing /\ Queued /\ Echoes /\ ClientInv /\ cPhase \in Running
  BY StreamingParts, IntactPaired DEF Reporting, Intact, Alive
<1>2. CASE cPhase \in {"offset", "index"}
  BY <1>1, <1>2 DEF ClientInv, Bequest
<1>3. CASE cPhase \in {"read", "length", "eof"}
  <2>1. sPhase # "ackOffset" /\ InFile
    BY <1>1, <1>3 DEF ClientInv, InFile
  <2> QED
    BY <1>1, <2>1 DEF Bequest, Queued, Chained, Flowing
<1>4. CASE cPhase \in {"counts", "fileEcho", "dirEcho", "verdict"}
  <2>1. sPhase # "ackOffset" /\ Target = FileCount
    BY <1>1, <1>4 DEF Echoes, Queued
  <2> QED
    BY <2>1 DEF Bequest
<1> QED
  BY <1>1, <1>2, <1>3, <1>4 DEF Running

\* A step of the client's in a session receives the offset, or leaves it as it is.
LEMMA OffsetOnce ==
    ASSUME LockStep, ClientStep, sPhase \in Serving
    PROVE  /\ Alive /\ ~ Guess
           /\ RecvOffset \/ (cPhase # "offset" /\ fileOffset' = fileOffset)
           /\ cPhase' = "done" \/ Alive' \/ (cPhase = "eof" /\ toClient # <<>> /\ toServer' = toServer)
<1>1. connected
  BY DEF LockStep
<1>2. ~ Guess
  BY <1>1 DEF Guess, GuessOffset, GuessIndex, NothingComes
<1> QED
  BY <1>1, <1>2
  DEF ClientStep, ClientMoves, RecvOffset, RecvIndex, SendBlock, SendLength, SendEof, RecvEof,
      SendFileCount, RecvFileEcho, RecvDirEcho, RecvNothing, NothingComes, Fail, RecvVerdict,
      MoveTo, cursor, Alive, Running

\* What the parts of Leaving that say what the client has to do with it need of a step.
Staked ==
    /\ (Alive /\ cPhase # "offset") \/ toServer # <<>> \/ (\E i \in Files : Passed(i))
        => Base = Agreed
    /\ ~ Alive /\ toServer # <<>> => Bequest

LEMMA LeavingParts ==
    Leaving <=> (sPhase \in Serving /\ Clean => sPhase # "misaligned" /\ Grown /\ Staked)
  BY DEF Leaving, Staked

LEMMA ClientLeaving ==
    ASSUME TypeInv, LockStep, Streaming, Reporting, Reporting', InOrder, Leaving, ClientStep,
           sPhase \in Serving, Clean
    PROVE  Leaving'
<1>1. /\ UNCHANGED <<present, saved, before, sPhase, indexA, entry, block, mishaps>>
      /\ Grown /\ Staked /\ sPhase # "misaligned"
  BY LeavingParts, OffsetOnce DEF ClientStep, serverSide, store, server
<1>2. /\ BeforeLoop' <=> BeforeLoop
      /\ \A i : Passed(i)' <=> Passed(i)
      /\ Agreed' = Agreed
  BY <1>1 DEF BeforeLoop, Passed, Agreed
<1>3. Alive /\ Intact /\ ClientInv
  BY OffsetOnce, IntactPaired DEF Intact
<1>4. CASE RecvOffset
  <2>1. cPhase = "offset" /\ sPhase = "ackOffset" /\ BeforeLoop /\ toClient # <<>>
    BY <1>3, <1>4 DEF RecvOffset, Consume, ClientInv, BeforeLoop
  <2>2. Grown'
    BY <1>1, <1>2, <2>1, SameGrown
  <2>3. Base' = Seek(StartOffset)
    BY <1>3, <1>4, <2>1 DEF RecvOffset, Reporting, Base
  <2>4. Base' = Agreed'
    BY <1>1, <1>2, <2>1, <2>3, StartIsAgreed DEF Grown
  <2>5. Alive'
    BY <1>4 DEF RecvOffset, Alive, Running
  <2> QED
    BY <1>1, <2>2, <2>4, <2>5, LeavingParts DEF Leaving
<1>5. CASE cPhase # "offset" /\ fileOffset' = fileOffset
  <2>1. Grown' /\ Base' = Base
    BY <1>1, <1>2, <1>5, SameGrown DEF Base
  <2>2. Base' = Agreed'
    BY <1>1, <1>2, <1>3, <1>5, <2>1 DEF Staked
  <2>3. Alive' \/ toServer' = <<>>
    <3>1. cPhase' # "done"
      BY <1>1 DEF Reporting, Clean
    <3>2. CASE cPhase = "eof" /\ toClient # <<>> /\ toServer' = toServer
      BY <1>3, <3>2 DEF ClientInv
    <3> QED
      BY <3>1, <3>2, OffsetOnce
  <2> QED
    BY <1>1, <2>1, <2>2, <2>3 DEF Leaving
<1> QED
  BY <1>4, <1>5, OffsetOnce

\* A step of the server's that passes no file: what is at stake stays, but for the messages
\* of a dead client.
LEMMA SameStaked ==
    ASSUME Staked, UNCHANGED <<before, indexA, cPhase, fileOffset>>,
           toServer' # <<>> => toServer # <<>>,
           (\E i \in Files : Passed(i)') => (\E i \in Files : Passed(i)) \/ toServer # <<>>,
           ~ Alive /\ toServer' # <<>> /\ Bequest => Bequest'
    PROVE  Staked'
  BY DEF Staked, Agreed, Base, Alive

LEMMA ServerLeaving ==
    ASSUME TypeInv, LockStep, Streaming, Leaving, ServerStep, sPhase \in Serving, Clean',
           sPhase' \in Serving
    PROVE  sPhase' # "misaligned" /\ Grown' /\ Staked'
<1>0. /\ UNCHANGED <<cPhase, sending, fileOffset, pos, before, indexA>>
      /\ Base' = Base
      /\ ~ Accept
      /\ Clean
  <2>1. ~ Accept
    BY DEF Accept, Serving
  <2> QED
    BY <2>1, ServerStepParts DEF Base, Clean
<1>1. Grown /\ Staked /\ sPhase # "misaligned" /\ ToServerInv
  BY <1>0, LeavingParts DEF LockStep, Clean, Mishap
<1>2. Drop => (toServer' # <<>> => toServer # <<>>)
  BY DEF Drop
<1>3. \A type : Recv(type) => Drop /\ (toServer # <<>> => Arrived(type))
  BY DEF Recv, Nothing
<1>4. toServer # <<>> => Head(toServer) = toServer[1]
  BY QueueTypes, TypeParts, TailOf
<1>5. CASE AckOffset
  <2>1. /\ sPhase = "ackOffset" /\ sPhase' = "ackIndex" /\ Drop
        /\ UNCHANGED <<saved, entry, present>>
    BY <1>3, <1>5 DEF AckOffset, store
  <2>2. Grown'
    BY <1>0, <1>1, <2>1, SameGrown DEF BeforeLoop
  <2>3. \A i : ~ Passed(i)'
    BY <2>1 DEF Passed, BeforeLoop
  <2>4. Bequest => toServer' = <<>>
    <3>1. CASE toServer = <<>>
      BY <2>1, <3>1 DEF Drop
    <3>2. CASE toServer # <<>>
      <4>1. /\ toServer' \in Seq(ServerMessage) /\ Len(toServer') = Len(toServer) - 1
            /\ Len(toServer) \in Nat \ {0}
        BY <2>1, <3>2, QueueTypes, TypeParts, TailOf DEF Drop
      <4>2. ASSUME Bequest PROVE Len(toServer') = 0
        BY <2>1, <4>1, <4>2 DEF Bequest
      <4> QED
        BY <4>1, <4>2
    <3> QED
      BY <3>1, <3>2
  <2>5. Staked'
    BY <1>0, <1>1, <1>2, <2>1, <2>3, <2>4, SameStaked
  <2> QED
    BY <2>1, <2>2, <2>5
<1>6. CASE AckIndex
  <2>1. /\ sPhase = "ackIndex" /\ sPhase' = "loop" /\ Drop
        /\ toServer # <<>> => Arrived("ack")
        /\ UNCHANGED <<saved, present>>
        /\ entry' = indexA
    BY <1>3, <1>6 DEF AckIndex, store
  <2>2. Grown'
    BY <1>0, <1>1, <2>1, FirstGrown DEF BeforeLoop
  <2>3. \A i \in Files : ~ Passed(i)'
    BY <1>0, <2>1, IndexTypes, TypeParts, FilesAreEntries DEF Passed
  <2>4. ASSUME Bequest, toServer' # <<>>
        PROVE  Bequest'
    <3>1. Target' = Target
      BY <1>0, <2>1 DEF Target
    <3>2. toServer # <<>> /\ Arrived("ack")
      BY <1>2, <2>1, <2>4
    <3>3. Expects' = <<"block", Base>> /\ After(toServer[1]) = <<"block", Base>>
      BY <1>0, <1>4, <2>1, <3>2 DEF Expects, After, Arrived
    <3>4. Target # FileCount => Linked'
      BY <1>0, <2>1, <2>4, <3>1, <3>2, <3>3, LinkDrop DEF Bequest
    <3> QED
      BY <2>1, <3>1, <3>4 DEF Bequest
  <2>5. Staked'
    BY <1>0, <1>1, <1>2, <2>1, <2>3, <2>4, SameStaked
  <2> QED
    BY <2>1, <2>2, <2>5
<1>7. CASE Loop /\ UNCHANGED <<mishaps, connected, toServer, toClient>>
  <2>1. /\ sPhase = "loop" /\ sPhase' \in {"loop", "content", "fileCnt"}
        /\ UNCHANGED saved
        /\ ~ BeforeLoop /\ ~ BeforeLoop'
    BY <1>7 DEF Loop, MakeDirectory, SkipEntry, OpenFile, EndLoop, store, BeforeLoop
  <2>2. \/ sPhase' = "loop" /\ entry' = entry + 1 /\ entry \notin Files
        \/ sPhase' # "loop" /\ entry' = entry /\ (sPhase' = "content" => entry \in Files)
    <3>1. entry < FileCount => entry \in Entries
      BY IndexTypes, TypeParts, TreeAssumption DEF Entries
    <3>2. CASE MakeDirectory \/ SkipEntry
      BY <3>2 DEF MakeDirectory, SkipEntry, Files
    <3>3. CASE OpenFile
      BY <3>1, <3>3 DEF OpenFile, Files
    <3>4. CASE EndLoop
      BY <3>4 DEF EndLoop
    <3> QED
      BY <1>7, <3>2, <3>3, <3>4 DEF Loop
  <2>3. Grown'
    <3>1. CASE sPhase' = "loop"
      BY <1>0, <1>1, <2>1, <2>2, <3>1, NextGrown
    <3>2. CASE sPhase' # "loop"
      <4>1. /\ entry' = entry
            /\ \A i : Added(i)' = Added(i) /\ Rest(i)' = Rest(i) /\ (Passed(i)' <=> Passed(i))
        BY <1>0, <2>1, <2>2, <3>2 DEF Added, Rest, Passed
      <4> QED
        BY <1>0, <1>1, <2>1, <3>2, <4>1 DEF Grown
    <3> QED
      BY <3>1, <3>2
  <2>4. ASSUME NEW i \in Files, Passed(i)'
        PROVE  Passed(i)
    <3>1. i # entry \/ entry' = entry
      BY <2>2
    <3>2. i \in Nat /\ entry \in Nat
      BY CopyTypes, IndexTypes, TypeParts
    <3> QED
      BY <1>0, <2>1, <2>2, <2>4, <3>1, <3>2 DEF Passed
  <2>5. ASSUME Bequest PROVE Bequest'
    <3>1. Target' = Target
      <4>1. entry \in Int
        BY DEF TypeInv, TypeOK, TransferTypeOK
      <4>2. NextFile(entry') = NextFile(entry)
        BY <2>2, <4>1, NextFileSkips
      <4> QED
        BY <2>1, <4>2 DEF Target
    <3>2. Expects' = Expects
      <4>1. CASE sPhase' = "content"
        <5>1. entry' = entry /\ entry \in Files
          BY <2>2, <4>1
        <5>2. Added(entry)' = 0
          <6>1. saved[entry] = before[entry]
            BY <1>1, <2>1, <5>1 DEF Grown
          <6>2. Len(saved[entry]) \in Nat
            BY <5>1, CopyTypes
          <6> QED
            BY <1>0, <2>1, <5>1, <6>1, <6>2 DEF Added
        <5>3. Base + Added(entry)' = Base
          BY <5>2, BaseType
        <5> QED
          BY <1>0, <2>1, <4>1, <5>3 DEF Expects
      <4>2. CASE sPhase' # "content"
        BY <1>0, <2>1, <4>2 DEF Expects
      <4> QED
        BY <4>1, <4>2
    <3>3. Linked => Linked'
      BY <1>0, <1>7, <3>1, <3>2 DEF Linked, NextAt, After, Fits
    <3> QED
      BY <2>1, <2>5, <3>1, <3>3 DEF Bequest
  <2>6. Staked'
    BY <1>0, <1>1, <1>7, <2>4, <2>5, SameStaked
  <2> QED
    BY <2>1, <2>3, <2>6
<1>8. CASE RecvEndOfFile
  <2>1. /\ Arrived("eof") /\ toServer # <<>> /\ Drop
        /\ sPhase = "content" /\ sPhase' = "loop"
        /\ entry' = entry + 1
        /\ UNCHANGED saved
        /\ ~ BeforeLoop
    BY <1>8 DEF RecvEndOfFile, TakeEndOfFile, store, Arrived, Clean, Mishap, BeforeLoop
  <2>2. Added(entry) >= Rest(entry)
    BY <1>0, <2>1, EofIsWhole
  <2>3. Grown'
    BY <1>0, <1>1, <2>1, <2>2, NextGrown
  <2>4. toServer' = <<>>
    BY <1>1, <2>1, EofIsLast
  <2>5. Staked'
    BY <1>0, <1>1, <2>1, <2>4, SameStaked
  <2> QED
    BY <2>1, <2>3, <2>5
<1>9. CASE RecvBlock
  <2>1. /\ sPhase = "content" /\ sPhase' = "length" /\ Drop
        /\ toServer # <<>> => Arrived("block") /\ block' = toServer[1].block
        /\ UNCHANGED <<saved, entry, present>>
        /\ ~ BeforeLoop /\ ~ BeforeLoop'
    BY <1>3, <1>4, <1>9 DEF RecvBlock, TakeBlock, store, BeforeLoop
  <2>2. Grown'
    BY <1>0, <1>1, <2>1, SameGrown
  <2>3. \A i : Passed(i)' <=> Passed(i)
    BY <1>0, <2>1 DEF Passed
  <2>4. ASSUME Bequest, toServer' # <<>>
        PROVE  Bequest'
    <3>1. toServer # <<>> /\ Arrived("block") /\ block' = toServer[1].block
      BY <1>2, <2>1, <2>4
    <3>2. Target = entry /\ Target # FileCount /\ Target' = Target
      BY <2>1, OpenIsTarget DEF Target
    <3>3. Fits(Expects, toServer[1])
      BY <1>0, <2>1, <3>1, HeadFits
    <3>4. block'.n > 0 /\ <<"block", block'.at>> = <<"block", Base + Added(entry)>>
      BY <1>4, <2>1, <3>1, <3>3 DEF Fits, Arrived, Expects
    <3>5. block'.at = Base' + Added(entry)'
      BY <1>0, <2>1, <3>4 DEF Added
    <3>6. Expects' = After(toServer[1])
      BY <1>4, <2>1, <3>1 DEF Expects, After, Arrived
    <3>7. Linked'
      BY <1>0, <2>1, <2>4, <3>1, <3>2, <3>6, LinkDrop DEF Bequest
    <3> QED
      BY <2>1, <3>4, <3>5, <3>7 DEF Bequest
  <2>5. Staked'
    BY <1>0, <1>1, <1>2, <2>1, <2>3, <2>4, SameStaked
  <2> QED
    BY <2>1, <2>2, <2>5
<1>10. CASE RecvLength
  <2>1. /\ sPhase = "length" /\ sPhase' = "content" /\ Drop
        /\ toServer # <<>> => Arrived("length")
        /\ UNCHANGED entry
        /\ ~ BeforeLoop /\ ~ BeforeLoop'
    BY <1>3, <1>10 DEF RecvLength, WriteBytes, BeforeLoop
  <2>2. PICK len \in IF toServer = <<>> THEN AnyLength ELSE {Head(toServer).block.n} :
            WriteBytes(Bytes(block, len))
    BY <1>10 DEF RecvLength
  <2>3. len \in Nat
    BY <2>2, AnyLengthType, HeadType
  <2>4. Grown' /\ Added(entry)' = Added(entry) + len
    BY <1>0, <1>1, <2>1, <2>2, <2>3, WriteGrown
  <2>5. \A i : Passed(i)' <=> Passed(i)
    BY <1>0, <2>1 DEF Passed
  <2>6. ASSUME Bequest, toServer' # <<>>
        PROVE  Bequest'
    <3>1. toServer # <<>> /\ Arrived("length") /\ toServer[1].type = "length"
      BY <1>2, <1>4, <2>1, <2>6 DEF Arrived
    <3>2. Target = entry /\ Target # FileCount /\ Target' = Target /\ entry \in Files
      BY <2>1, OpenIsTarget DEF Target
    <3>3. Fits(Expects, toServer[1])
      BY <1>0, <2>1, <3>1, HeadFits
    <3>4. <<"length", toServer[1].block>> = <<"length", block>>
      BY <2>1, <3>1, <3>3 DEF Fits, Expects
    <3>5. len = block.n /\ block.at = Base + Added(entry)
      BY <1>4, <2>1, <2>2, <2>6, <3>1, <3>2, <3>4 DEF Bequest
    <3>6. Base' + Added(entry)' = block.at + block.n
      <4>1. Base \in Nat /\ Added(entry) \in Int
        BY <3>2, CopyTypes
      <4> QED
        BY <1>0, <2>3, <2>4, <3>5, <4>1
    <3>7. Expects' = After(toServer[1])
      BY <2>1, <3>1, <3>4, <3>6 DEF Expects, After
    <3>8. Linked'
      BY <1>0, <2>1, <2>6, <3>1, <3>2, <3>7, LinkDrop DEF Bequest
    <3> QED
      BY <2>1, <3>8 DEF Bequest
  <2>7. Staked'
    BY <1>0, <1>1, <1>2, <2>1, <2>5, <2>6, SameStaked
  <2> QED
    BY <2>1, <2>4, <2>7
<1>11. CASE Misalign
  <2>1. sPhase = "content" /\ Arrived("length") /\ toServer # <<>>
    BY <1>11 DEF Misalign, Arrived
  <2>2. Fits(Expects, toServer[1])
    BY <1>0, <2>1, HeadFits
  <2> QED
    BY <1>4, <2>1, <2>2 DEF Fits, Arrived, Expects
<1>12. CASE FileCnt
  <2>1. /\ sPhase = "fileCnt" /\ sPhase' = "dirCnt" /\ Drop
        /\ UNCHANGED <<saved, entry, present>>
        /\ entry = FileCount
        /\ ~ BeforeLoop /\ ~ BeforeLoop'
    BY <1>3, <1>12 DEF FileCnt, store, BeforeLoop, TypeInv, InLoops
  <2>2. Grown'
    BY <1>0, <1>1, <2>1, SameGrown
  <2>3. \A i : Passed(i)' <=> Passed(i)
    BY <1>0, <2>1 DEF Passed
  <2>4. Bequest'
    BY <2>1, NextFileOfEnd DEF Bequest, Target
  <2>5. Staked'
    BY <1>0, <1>1, <1>2, <2>1, <2>3, <2>4, SameStaked
  <2> QED
    BY <2>1, <2>2, <2>5
<1>13. CASE RecvMarker \/ RecvLengthShort \/ RecvMisaligned \/ DirCnt
  BY <1>1, <1>13
  DEF RecvMarker, RecvLengthShort, RecvMisaligned, DirCnt, Clean, Mishap, Serving
<1> QED
  BY <1>0, <1>5, <1>6, <1>7, <1>8, <1>9, <1>10, <1>11, <1>12, <1>13 DEF ServerStep

\* A session begins with nothing but the place to start from.
LEMMA AcceptLeaving ==
    ASSUME TypeInv, LockStep, Accept, UNCHANGED clientSide
    PROVE  Grown' /\ Staked'
<1>1. /\ sPhase' = "ackOffset" /\ BeforeLoop'
      /\ saved' = saved /\ before' = saved /\ present' = present
      /\ indexA' = StartIndex
      /\ toServer' = <<>>
      /\ cPhase' \in {"offset", "killed"}
  BY DEF Accept, LockStep, BeforeLoop, clientSide, client
<1>2. StartIndex' = StartIndex
  BY <1>1, SameStart
<1>3. \A i : ~ Passed(i)'
  BY <1>1 DEF Passed
<1> QED
  BY <1>1, <1>2, <1>3 DEF Grown, Staked, Alive, Running

LEMMA StepLeaving ==
    ASSUME TypeInv, LockStep, Streaming, Reporting, Reporting', InOrder, Leaving, [Next]_vars
    PROVE  Leaving'
<1> SUFFICES ASSUME sPhase' \in Serving, Clean'
             PROVE  sPhase' # "misaligned" /\ Grown' /\ Staked'
  BY DEF Leaving, Staked
<1>1. CASE ClientStep
  <2>1. sPhase \in Serving /\ Clean
    BY <1>1, ClientParts
  <2>2. Leaving'
    BY <1>1, <2>1, ClientLeaving
  <2> QED
    BY <2>2 DEF Leaving, Staked
<1>2. CASE ServerStep /\ ~ Accept
  BY <1>2, ServerLeaving, ServerStepParts
<1>3. CASE ServerStep /\ Accept
  <2>1. UNCHANGED clientSide /\ sPhase' = "ackOffset"
    BY <1>3 DEF ServerStep, Accept
  <2> QED
    BY <1>3, <2>1, AcceptLeaving
<1>4. CASE KillClient \/ UNCHANGED vars
  <2>1. /\ UNCHANGED <<present, saved, before, sPhase, indexA, entry, block, mishaps>>
        /\ UNCHANGED <<sending, fileOffset, pos, toServer, toClient>>
        /\ cPhase' = cPhase \/ (Alive /\ ~ Alive')
    BY <1>4
    DEF KillClient, vars, serverSide, clientSide, store, server, client, cursor, Alive, Running
  <2>2. sPhase \in Serving /\ Clean
    BY <2>1 DEF Clean
  <2>3. Grown /\ Staked /\ sPhase # "misaligned"
    BY <2>2, LeavingParts
  <2>4. /\ BeforeLoop' <=> BeforeLoop
        /\ \A i : Passed(i)' <=> Passed(i)
        /\ Agreed' = Agreed /\ Base' = Base
        /\ Bequest' <=> Bequest
    <3>1. Target' = Target /\ Base' = Base /\ Expects' = Expects
      BY <2>1 DEF Target, Base, Expects, Added
    <3>2. Linked' <=> Linked
      BY <2>1, <3>1 DEF Linked, NextAt, After, Fits
    <3> QED
      BY <2>1, <3>1, <3>2 DEF BeforeLoop, Passed, Agreed, Bequest, Added
  <2>5. Grown'
    BY <2>1, <2>3, <2>4, SameGrown
  <2>6. ASSUME ~ Alive', toServer' # <<>>
        PROVE  Bequest'
    <3>1. CASE Alive
      <4>1. Intact /\ toServer # <<>>
        BY <2>1, <2>2, <2>6, <3>1 DEF Intact
      <4> QED
        BY <2>4, <4>1, DeathBequeaths
    <3>2. CASE ~ Alive
      <4>1. cPhase' = cPhase
        BY <2>1, <3>2
      <4> QED
        BY <2>1, <2>3, <2>4, <2>6, <3>2 DEF Staked
    <3> QED
      BY <3>1, <3>2
  <2>7. Staked'
    <3>1. Alive' /\ cPhase' # "offset" => Alive /\ cPhase # "offset"
      BY <2>1 DEF Alive
    <3> QED
      BY <2>1, <2>3, <2>4, <2>6, <3>1 DEF Staked
  <2> QED
    BY <2>1, <2>3, <2>5, <2>7
<1>5. CASE Connect \/ KillServer \/ RestartServer
  BY <1>5 DEF Connect, KillServer, RestartServer, serverSide, server, Serving
<1> QED
  BY <1>1, <1>2, <1>3, <1>4, <1>5 DEF Next

\* What has been delivered when the client will not ask for a file any more.
LEMMA EndAppends ==
    ASSUME TypeInv, LockStep, Streaming, Intact, AtEnd
    PROVE  \A i \in Files :
                saved[i] = before[i] \o (IF i < indexA THEN <<>> ELSE From(i, Base))
<1> SUFFICES ASSUME NEW i \in Files
             PROVE  saved[i] = before[i] \o (IF i < indexA THEN <<>> ELSE From(i, Base))
  OBVIOUS
<1>1. /\ saved[i] \in Bytestrings /\ before[i] \in Bytestrings
      /\ i \in Nat /\ indexA \in Nat /\ entry \in Nat
  BY SizeType, FilesAreEntries, IndexTypes, TypeParts
  DEF TypeInv, TypeOK, TransferTypeOK, Bytestrings
<1>2. Complete
  BY CompleteAtEnd
<1>3. FileCount \notin Files /\ Target = FileCount
  BY FilesAreEntries, TreeAssumption, TargetAtEnd
<1>4. CASE i < indexA
  <2>1. saved[i] = before[i]
    <3>1. CASE sPhase \in {"ackOffset", "ackIndex"}
      BY <3>1 DEF Streaming
    <3>2. CASE sPhase \notin {"ackOffset", "ackIndex"}
      <4>1. saved[i] = before[i] \o Piece(Base, i, Added(i)) /\ Added(i) = 0
        BY <1>4, <3>2 DEF Streaming, Delivered
      <4>2. Piece(Base, i, Added(i)) = <<>>
        BY <4>1 DEF Piece
      <4> QED
        BY <1>1, <4>1, <4>2, ConcatEmptySeq DEF Bytestrings
    <3> QED
      BY <3>1, <3>2
  <2> QED
    BY <1>1, <1>4, <2>1, ConcatEmptySeq DEF Bytestrings
<1>5. CASE ~ (i < indexA)
  <2>1. i >= indexA
    BY <1>1, <1>5
  <2>2. sPhase \notin {"ackOffset", "ackIndex"}
    <3>1. SUFFICES ASSUME sPhase \in {"ackOffset", "ackIndex"} PROVE FALSE
      OBVIOUS
    <3>2. NextFile(indexA) = FileCount
      BY <1>3, <3>1 DEF Target
    <3> QED
      BY <1>1, <1>3, <1>5, <3>2, NextFileIsNext
  <2>3. saved[i] = before[i] \o Piece(Base, i, Rest(i))
    BY <1>2, <2>1, <2>2 DEF Complete, Streaming, Delivered
  <2> QED
    BY <1>5, <2>3, PieceIsFrom
<1> QED
  BY <1>4, <1>5

LEMMA StepEnded ==
    ASSUME TypeInv, TypeInv', LockStep, LockStep', Streaming, Streaming', Reporting, Reporting',
           Leaving', Ended, [Next]_vars
    PROVE  Ended'
<1> DEFINE Reached == (Alive \/ cPhase = "done") /\ Clean /\ AtEnd
           Appended == \A i \in Files :
                saved[i] = before[i] \o (IF i < indexA THEN <<>> ELSE From(i, Base))
<1>0. (Ended <=> (Reached => Base = Agreed /\ Appended)) /\ ReportingParts
  BY ReportingIsItsParts DEF Ended
<1>1. SUFFICES ASSUME Reached'
               PROVE  Base' = Agreed' /\ Appended'
  BY DEF Ended
<1>2. CASE sPhase' \in Serving
  <2>1. Intact' /\ cPhase' # "offset"
    BY <1>1, <1>2 DEF Reporting, Intact, AtEnd
  <2>2. (TypeInv /\ LockStep /\ Streaming /\ Intact /\ AtEnd => Appended)'
    BY EndAppends, PTL
  <2> QED
    BY <1>1, <2>1, <2>2 DEF Leaving, Intact
<1>3. ASSUME Reached, UNCHANGED <<saved, before, indexA, fileOffset>>
      PROVE  Base' = Agreed' /\ Appended'
  <2>1. Base' = Base /\ Agreed' = Agreed
    BY <1>3 DEF Base, Agreed
  <2> QED
    BY <1>0, <1>3, <2>1
<1>4. CASE ClientStep /\ sPhase' \notin Serving
  <2>1. Alive /\ Clean /\ ~ Guess /\ UNCHANGED <<saved, before, sPhase, indexA>>
    BY <1>1, <1>4, ClientParts
  <2>2. Waits
    BY <1>0, <1>4, <2>1, WaitsInSession DEF ReportingParts
  <2>3. AtEnd /\ fileOffset' = fileOffset
    BY <1>1, <1>4, <2>1, <2>2, ClientWaits
  <2> QED
    BY <1>3, <2>1, <2>3
<1>5. CASE ServerStep /\ ~ Accept /\ sPhase' \notin Serving
  <2>1. /\ DirCnt /\ Clean /\ sPhase \in Serving
        /\ UNCHANGED <<cPhase, before, indexA, fileOffset>>
    BY <1>1, <1>5, ServerStepParts DEF Clean
  <2>2. cPhase # "done"
    BY <1>0, <2>1 DEF ReportingParts
  <2>3. Alive /\ Intact
    BY <1>1, <2>1, <2>2 DEF Alive, Intact
  <2>4. cPhase \in {"fileEcho", "dirEcho"} /\ saved' = saved
    BY <1>0, <2>1, <2>3 DEF ReportingParts, DirCnt, Echoes, store
  <2> QED
    BY <1>3, <2>1, <2>3, <2>4 DEF AtEnd
<1>6. CASE KillServer \/ RestartServer \/ UNCHANGED vars
  <2>1. /\ UNCHANGED <<saved, before, indexA, cPhase, sending, fileOffset, mishaps>>
        /\ toClient' \in {<<>>, toClient}
    BY <1>6, ServerGone
  <2>2. Reached
    BY <1>1, <2>1 DEF Alive, Clean, AtEnd
  <2> QED
    BY <1>3, <2>1, <2>2
<1>7. ~ Connect /\ ~ KillClient /\ (ServerStep /\ Accept => sPhase' \in Serving)
  BY <1>1 DEF Connect, KillClient, Accept, AtEnd, Alive, Running, Serving
<1> QED
  BY <1>2, <1>4, <1>5, <1>6, <1>7 DEF Next

\* Nothing that has once gone wrong is forgotten, but for a guess.
LEMMA NothingForgotten ==
    ASSUME TypeInv, [Next]_vars, mishaps' \subseteq {"guess"}
    PROVE  mishaps \subseteq {"guess"}
<1>1. CASE ServerStep /\ ~ Accept
  BY <1>1, ServerStepParts
<1>2. CASE ServerStep /\ Accept
  BY <1>2 DEF Accept, Earlier
<1>3. CASE ClientStep
  BY <1>3, ClientParts
<1>4. CASE ~ ServerStep /\ ~ ClientStep
  BY <1>4 DEF Next, Connect, KillClient, KillServer, RestartServer, vars
<1> QED
  BY <1>1, <1>2, <1>3, <1>4

\* A spoilt copy stays spoilt, and an empty one was empty before.
LEMMA CopiesOnlyGrow ==
    ASSUME TypeInv, TypeInv', [Next]_vars
    PROVE  /\ Spoilt(saved) => Spoilt(saved')
           /\ \A i \in Files : saved'[i] = <<>> => saved[i] = <<>>
<1>1. UNCHANGED saved \/ \E k \in Entries : Growing(k)
  BY StepGrows DEF vars, serverSide, store
<1>2. CASE UNCHANGED saved
  BY <1>2
<1>3. ASSUME NEW k \in Entries, Growing(k)
      PROVE  /\ Spoilt(saved) => Spoilt(saved')
             /\ \A i \in Files : saved'[i] = <<>> => saved[i] = <<>>
  <2>1. ASSUME NEW i \in Files
        PROVE  /\ Len(saved[i]) <= Len(saved'[i])
               /\ Len(saved[i]) \in Nat /\ Len(saved'[i]) \in Nat /\ Size[i] \in Nat
               /\ Len(saved[i]) = 0 => saved[i] = <<>>
    <3>1. /\ Len(saved[i]) \in Nat /\ Size[i] \in Nat /\ i \in Entries
          /\ Len(saved[i]) = 0 => saved[i] = <<>>
      BY CopyTypes
    <3>2. Len(saved[i]) <= Len(saved'[i])
      BY <1>3, <3>1 DEF Growing
    <3>3. Len(saved'[i]) \in Nat
      BY <3>1 DEF TypeInv, TypeOK, TransferTypeOK
    <3> QED
      BY <3>1, <3>2, <3>3
  <2>2. ASSUME NEW i \in Files, Len(saved[i]) > Size[i]
        PROVE  Len(saved'[i]) > Size[i]
    BY <2>1, <2>2
  <2>3. ASSUME NEW i \in Files, saved'[i] = <<>>
        PROVE  saved[i] = <<>>
    <3>1. Len(saved'[i]) = 0
      BY <2>3
    <3> QED
      BY <2>1, <3>1
  <2> QED
    BY <2>2, <2>3 DEF Spoilt
<1> QED
  BY <1>1, <1>2, <1>3

\* The server opens an entry only when every file before it has its contents, or when it
\* has spoilt a copy.
LEMMA OpensAfterWhole ==
    ASSUME TypeInv, Leaving, NoneLeft, mishaps = {}, sPhase = "loop",
           entry < FileCount, Kind[entry] # "none", ~ Spoilt(saved),
           NEW i \in Files, i < entry, saved[i] = <<>>
    PROVE  Size[i] = 0
<1>1. /\ Grown /\ ~ BeforeLoop
      /\ (\E k \in Files : Passed(k)) => Base = Agreed
  BY DEF Leaving, Clean, Serving, BeforeLoop
<1>2. /\ entry \in Entries /\ entry \in Nat /\ indexA \in Entries /\ indexA \in Nat
      /\ entry >= indexA
  BY <1>1, IndexTypes, TypeParts, TreeAssumption DEF Entries, Grown
<1>3. ASSUME NEW k \in Files
      PROVE  /\ Len(saved[k]) \in Nat /\ Len(before[k]) \in Nat
             /\ Base \in Nat /\ Size[k] \in Nat /\ k \in Nat
             /\ (Len(before[k]) = 0 => before[k] = <<>>)
             /\ Len(saved[k]) <= Size[k]
             /\ Len(saved[k]) >= Len(before[k])
             /\ Passed(k) => Len(saved[k]) >= Len(before[k]) + Rest(k)
  <2>1. /\ Len(saved[k]) \in Nat /\ Len(before[k]) \in Nat
        /\ Rest(k) \in Nat /\ Size[k] \in Nat
        /\ Base \in Nat /\ k \in Nat
        /\ (Len(before[k]) = 0 => before[k] = <<>>)
    BY CopyTypes
  <2>2. ~ (Len(saved[k]) > Size[k])
    BY DEF Spoilt
  <2>3. Added(k) = Len(saved[k]) - Len(before[k])
    BY DEF Added
  <2>4. Added(k) >= IF Passed(k) THEN Rest(k) ELSE 0
    BY <1>1 DEF Grown
  <2> DEFINE a == Len(saved[k])
             b == Len(before[k])
             r == Rest(k)
             d == Added(k)
  <2>5. /\ a \in Nat /\ b \in Nat /\ r \in Nat /\ Size[k] \in Nat
        /\ ~ (a > Size[k])
        /\ d = a - b
        /\ d >= IF Passed(k) THEN r ELSE 0
    BY <2>1, <2>2, <2>3, <2>4
  <2> HIDE DEF a, b, r, d
  <2>6. a <= Size[k] /\ a >= b /\ (Passed(k) => a >= b + r)
    BY <2>5
  <2> QED
    BY <2>1, <2>6 DEF a, b, r
<1>4. Len(saved[i]) = 0 /\ before[i] = <<>>
  BY <1>3
<1>5. CASE i < indexA
  <2>1. Kind[indexA] # "none"
    <3>1. indexA = entry \/ indexA < entry
      BY <1>2
    <3> QED
      BY <1>2, <3>1, TreeAssumption
  <2>2. ~ Spoilt(before)
    <3>1. ASSUME NEW k \in Files, Len(before[k]) > Size[k]
          PROVE  FALSE
      BY <1>3, <3>1
    <3> QED
      BY <3>1 DEF Spoilt
  <2> QED
    BY <1>4, <1>5, <2>1, <2>2 DEF NoneLeft
<1>6. CASE ~ (i < indexA)
  <2>1. Passed(i)
    BY <1>1, <1>2, <1>3, <1>6 DEF Passed
  <2>2. Base = Agreed
    BY <1>1, <2>1
  <2>3. ~ (indexA \in Files /\ before[indexA] # <<>>)
    <3>1. SUFFICES ASSUME indexA \in Files, before[indexA] # <<>> PROVE FALSE
      OBVIOUS
    <3>2. Base = Len(before[indexA]) - 1
      BY <2>2, <3>1 DEF Agreed
    <3>3. Passed(indexA)
      BY <1>1, <1>2, <1>3, <1>6 DEF Passed
    <3>4. /\ Len(saved[indexA]) <= Size[indexA]
          /\ Len(saved[indexA]) >= Len(before[indexA]) + Rest(indexA)
          /\ Len(before[indexA]) \in Nat \ {0}
          /\ Len(saved[indexA]) \in Nat
          /\ Size[indexA] \in Nat
      BY <1>3, <3>1, <3>3
    <3>5. Rest(indexA) = IF Base < Size[indexA] THEN Size[indexA] - Base ELSE 0
      BY DEF Rest
    <3> QED
      BY <3>2, <3>4, <3>5
  <2>4. Base = 0
    BY <2>2, <2>3 DEF Agreed
  <2>5. Rest(i) = IF 0 < Size[i] THEN Size[i] ELSE 0
    BY <1>3, <2>4 DEF Rest
  <2> QED
    BY <1>3, <1>4, <2>1, <2>5
<1> QED
  BY <1>5, <1>6

LEMMA StepNoneLeft ==
    ASSUME TypeInv, TypeInv', LockStep, Leaving, NoneLeft, [Next]_vars
    PROVE  NoneLeft'
<1> DEFINE Whole(copies, there) ==
                \A j \in there : \A i \in Files : i < j /\ copies[i] = <<>> => Size[i] = 0
           Behind(start, copies) ==
                \A i \in Files : i < start /\ copies[i] = <<>> => Size[i] = 0
<1> SUFFICES ASSUME mishaps' \subseteq {"guess"}
             PROVE  /\ Spoilt(saved') \/ Whole(saved', present')
                    /\ Kind[indexA'] = "none" \/ Spoilt(before') \/ Behind(indexA', before')
  BY DEF NoneLeft, Spoilt
<1>1. mishaps \subseteq {"guess"} /\ (sPhase = "loop" => mishaps = {})
  BY NothingForgotten DEF LockStep, Serving
<1>2. /\ Spoilt(saved) \/ Whole(saved, present)
      /\ Kind[indexA] = "none" \/ Spoilt(before) \/ Behind(indexA, before)
  BY <1>1 DEF NoneLeft
<1>3. /\ Spoilt(saved) => Spoilt(saved')
      /\ \A i \in Files : saved'[i] = <<>> => saved[i] = <<>>
  BY CopiesOnlyGrow
<1>4. CASE Accept
  <2>1. indexA' = StartIndex /\ before' = saved /\ UNCHANGED <<present, saved>>
    BY <1>4 DEF Accept
  <2>2. ASSUME Kind[StartIndex] # "none", NEW i \in Files, i < StartIndex
        PROVE  StartIndex \in present
    <3>1. StartIndex # 0
      BY <2>2, FilesAreEntries
    <3>2. StartIndex \in Found
      BY <3>1, StartFinds, TypeParts DEF StartIndex
    <3> QED
      BY <2>2, <3>2 DEF Found
  <2> QED
    BY <1>2, <2>1, <2>2
<1>5. CASE Loop
  <2>1. /\ UNCHANGED <<saved, before, indexA>>
        /\ \/ present' = present
           \/ /\ sPhase = "loop" /\ entry < FileCount /\ Kind[entry] # "none"
              /\ present' = present \cup {entry}
    BY <1>5 DEF Loop, MakeDirectory, SkipEntry, OpenFile, EndLoop, store
  <2> QED
    BY <1>1, <1>2, <2>1, OpensAfterWhole
<1>6. CASE ~ Accept /\ ~ Loop
  <2>1. UNCHANGED <<present, before, indexA>>
    BY <1>6
    DEF Next, vars, Connect, ClientStep, KillClient, ServerStep, AckOffset, AckIndex,
        RecvEndOfFile, RecvMarker, TakeEndOfFile, RecvBlock, TakeBlock, RecvLength,
        RecvLengthShort, Misalign, RecvMisaligned, WriteBytes, FileCnt, DirCnt, KillServer, RestartServer,
        serverSide, server, store
  <2> QED
    BY <1>2, <1>3, <2>1
<1> QED
  BY <1>4, <1>5, <1>6

\* For every tree and all the faults the model has: the entries come into being in the
\* order of the list; as long as nothing goes wrong in a session but deaths, and its client
\* did not have to guess where to start, a file is left only complete, also when its client
\* has died; and as long as no session had more go wrong than that, one that starts further
\* on leaves an empty copy behind only of an empty file or where another copy is spoilt.
THEOREM NothingLeftBehind == Spec => []Kept
<1>1. Init => Kept
  <2>1. SUFFICES ASSUME Init PROVE Kept
    OBVIOUS
  <2>2. /\ present = {} /\ indexA = 0 /\ sPhase \notin Serving /\ cPhase = "idle"
        /\ \A i \in Entries : saved[i] = <<>> /\ before[i] = <<>>
    BY <2>1 DEF Init, TransferInit, Serving
  <2>3. \A i \in Files : ~(i < 0)
    BY FilesAreEntries
  <2>4. Leaving /\ Ended
    BY <2>2 DEF Leaving, Ended, Alive, Running
  <2> QED
    BY <2>2, <2>3, <2>4 DEF Kept, InOrder, NoneLeft
<1>2. /\ TypeInv /\ TypeInv' /\ LockStep /\ LockStep' /\ Streaming /\ Streaming'
      /\ Reporting /\ Reporting' /\ Kept /\ [Next]_vars
      => Kept'
  BY StepInOrder, StepLeaving, StepEnded, StepNoneLeft DEF Kept
<1> QED
  BY <1>1, <1>2, TypeCorrect, InLockStep, StreamIsWhole, EndIsComplete, PTL DEF Spec

\* For every tree and any number of sessions with all the deaths there may be: a session
\* that has no copy to continue has saved every file when its client comes to its end, if
\* that client had the offset and the index from the server.
THEOREM SavedWhenDone == Spec => []FreshMeansSaved
<1>1. ASSUME TypeInv, Kept
      PROVE  FreshMeansSaved
  <2>1. SUFFICES ASSUME cPhase = "done", mishaps = {},
                        \A i \in Files : before[i] \in {<<>>, Source(i)},
                        indexA \in Files => before[indexA] = <<>>,
                        Kind[indexA] # "none",
                        NEW i \in Files
                 PROVE  saved[i] = Source(i)
    BY DEF FreshMeansSaved
  <2>2. saved[i] = before[i] \o (IF i < indexA THEN <<>> ELSE Source(i))
    <3>1. Ended /\ Clean
      BY <1>1, <2>1 DEF Kept, Clean
    <3>2. Base = 0
      BY <2>1, <3>1 DEF Ended, AtEnd, Agreed
    <3> QED
      BY <2>1, <3>1, <3>2 DEF Ended, AtEnd, Source
  <2>3. \A k \in Files : Source(k) \in Bytestrings /\ Len(Source(k)) = Size[k]
    <3>1. ASSUME NEW k \in Files
          PROVE  Source(k) \in Bytestrings /\ Len(Source(k)) = Size[k]
      <4>1. Size[k] \in Nat
        BY SizeType
      <4>2. Source(k) = Piece(0, k, Size[k])
        BY <4>1 DEF Source, From, Piece
      <4> QED
        BY <4>1, <4>2, PieceType
    <3> QED
      BY <3>1
  <2>4. /\ i \in Nat /\ indexA \in Nat /\ i \in Entries
        /\ Source(i) \in Bytestrings
    BY <1>1, <2>3, SizeType, FilesAreEntries, IndexTypes, TypeParts
  <2>5. CASE i < indexA
    <3>1. before[i] = Source(i)
      <4>1. CASE before[i] = <<>>
        <5>1. ~ Spoilt(before)
          <6>1. ASSUME NEW k \in Files, Len(before[k]) > Size[k]
                PROVE  FALSE
            <7>1. Size[k] \in Nat /\ Len(<<>>) = 0
              BY SizeType
            <7> QED
              BY <2>1, <2>3, <6>1, <7>1
          <6> QED
            BY <6>1 DEF Spoilt
        <5>2. Size[i] = 0
          BY <1>1, <2>1, <2>5, <4>1, <5>1 DEF Kept, NoneLeft
        <5> QED
          BY <4>1, <5>2 DEF Source, From
      <4> QED
        BY <2>1, <4>1
    <3> QED
      BY <2>2, <2>4, <2>5, <3>1, ConcatEmptySeq DEF Bytestrings
  <2>6. CASE ~ (i < indexA)
    <3>1. before[i] = <<>>
      <4>1. CASE i = indexA
        BY <2>1, <4>1
      <4>2. CASE i > indexA
        BY <1>1, <2>4, <4>2 DEF Kept, InOrder
      <4> QED
        BY <2>4, <2>6, <4>1, <4>2
    <3> QED
      BY <2>2, <2>4, <2>6, <3>1, ConcatEmptySeq DEF Bytestrings
  <2> QED
    BY <2>5, <2>6
<1> QED
  BY <1>1, TypeCorrect, NothingLeftBehind, PTL
=============================================================================
