------------------------- MODULE TcpTransferProofs -------------------------
(***************************************************************************)
(* The two sides of the TCP transfer run in lock step, and a session in     *)
(* which nothing goes wrong delivers the client's files byte by byte,       *)
(* whatever the tree, the size of a block, the number of sessions, and what *)
(* was under ./save before.                                                 *)
(***************************************************************************)
EXTENDS TcpTransferInvariant, TransferProofs

LEMMA TypeParts == TypeInv => TransferTypeOK /\ InLoops
  BY DEF TypeInv, TypeOK
-----------------------------------------------------------------------------
(* Type correctness.                                                       *)

LEMMA TypeInit == Init => TypeInv
<1> SUFFICES ASSUME Init PROVE TypeInv
  OBVIOUS
<1>1. Zeros \in Block /\ Zeros.n = 0
  BY TextType DEF Zeros
<1>2. saved \in [Entries -> Seq(Byte \cup {Junk})] /\ before = saved
  BY DEF Init, TransferInit
<1>3. 0 \in Entries /\ 0 \in 0 .. FileCount /\ 0 \in 0 .. MaxSessions
  BY TreeAssumption, TransferAssumption DEF Entries
<1>4. toServer = <<>> /\ toClient = <<>>
  BY DEF Init, TransferInit
<1>5. TransferTypeOK
  BY <1>1, <1>2, <1>3, <1>4 DEF Init, TransferInit, TransferTypeOK
<1>6. TypeOK
  BY <1>5 DEF Init, TypeOK
<1>7. InLoops
  BY <1>1, <1>4 DEF Init, TransferInit, InLoops
<1> QED
  BY <1>6, <1>7 DEF TypeInv

\* A step of the client's that takes a message.
LEMMA ConsumeType ==
    ASSUME TypeInv, Consume
    PROVE  /\ toClient \in Seq(ClientMessage)
           /\ toClient' \in Seq(ClientMessage)
           /\ Head(toClient).value \in Int
<1>1. toClient \in Seq(ClientMessage) /\ toClient # <<>>
  BY DEF TypeInv, TypeOK, TransferTypeOK, Consume
<1>2. Head(toClient) \in ClientMessage /\ Tail(toClient) \in Seq(ClientMessage)
  BY <1>1, TailOf
<1> QED
  BY <1>1, <1>2 DEF Consume, ClientMessage

LEMMA SendType ==
    ASSUME TypeInv, NEW m \in ServerMessage, m.block.n > 0 => m.block.file \in Files, Send(m)
    PROVE  ToServerOK(toServer')
<1>1. toServer \in Seq(ServerMessage) /\ ToServerOK(toServer)
  BY DEF TypeInv, TypeOK, TransferTypeOK, InLoops, ToServerOK
<1>2. CASE connected
  BY <1>1, <1>2, AppendTo DEF ToServerOK, Send
<1>3. CASE ~connected
  BY <1>1, <1>3 DEF Send
<1> QED
  BY <1>2, <1>3

\* The part of TypeInv that is the client's.
ClientTypes ==
    /\ cPhase \in Running \cup {"idle", "done", "failed", "killed"}
    /\ sending \in 0 .. FileCount
    /\ fileOffset \in Int
    /\ pos \in Nat
    /\ ToServerOK(toServer)
    /\ toClient \in Seq(ClientMessage)
    /\ cPhase \in {"read", "length", "eof"} => sending \in Files
    /\ cPhase = "length" => pos < Size[sending]

LEMMA ClientPart == TypeInv => ClientTypes
  BY DEF TypeInv, TypeOK, TransferTypeOK, InLoops, ClientTypes, ToServerOK

\* The client's steps keep its part.
LEMMA ClientMovesType ==
    ASSUME TypeInv, ClientMoves \/ Guess
    PROVE  ClientTypes'
<1> ClientTypes
  BY ClientPart
<1> USE DEF ClientTypes, Running
<1>a. ASSUME NEW t \in {"ack", "eof", "count"}, Send(Text(t))
      PROVE  ToServerOK(toServer')
  BY <1>a, TextType, SendType DEF Zeros
<1>1. CASE RecvOffset
  BY <1>1, <1>a, ConsumeType DEF RecvOffset
<1>2. CASE RecvIndex
  <2>1. /\ Head(toClient).value \in Int
        /\ Seek(fileOffset) \in Nat
        /\ toClient' \in Seq(ClientMessage)
    BY <1>2, ConsumeType, SeekType DEF RecvIndex
  <2> QED
    BY <1>2, <1>a, <2>1, MoveToType DEF RecvIndex
<1>3. CASE SendBlock
  <2> DEFINE m == [type |-> "block", block |-> ReadHere]
  <2>1. ReadHere \in Block /\ ReadHere.file \in Files
    BY <1>3, ReadHereType DEF SendBlock
  <2>2. m \in ServerMessage /\ m.block.file \in Files
    BY <2>1 DEF ServerMessage
  <2>3. ToServerOK(toServer')
    BY <1>3, <2>2, SendType DEF SendBlock
  <2> QED
    BY <1>3, <2>3 DEF SendBlock, cursor
<1>4. CASE SendLength
  <2> DEFINE m == [type |-> "length", block |-> ReadHere]
  <2>1. /\ ReadHere \in Block
        /\ ReadHere.file \in Files
        /\ pos + ReadHere.n \in Nat
    BY <1>4, ReadHereType DEF SendLength
  <2>2. m \in ServerMessage /\ m.block.file \in Files
    BY <2>1 DEF ServerMessage
  <2>3. ToServerOK(toServer')
    BY <1>4, <2>2, SendType DEF SendLength
  <2> QED
    BY <1>4, <2>1, <2>3 DEF SendLength
<1>5. CASE SendEof
  BY <1>5, <1>a DEF SendEof, cursor
<1>6. CASE RecvEof
  <2>1. sending + 1 \in Int /\ Seek(fileOffset) \in Nat
    BY SeekType
  <2> QED
    BY <1>6, <2>1, ConsumeType, MoveToType DEF RecvEof
<1>7. CASE SendFileCount
  BY <1>7, <1>a DEF SendFileCount, cursor
<1>8. CASE RecvFileEcho
  BY <1>8, <1>a, ConsumeType DEF RecvFileEcho, cursor
<1>9. CASE RecvDirEcho
  BY <1>9, ConsumeType DEF RecvDirEcho, cursor
<1>10. CASE RecvNothing
  BY <1>10 DEF RecvNothing, cursor
<1>11. CASE Fail
  BY <1>11 DEF Fail, cursor
<1>12. CASE GuessOffset
  BY <1>12, TreeAssumption DEF GuessOffset
<1>13. CASE GuessIndex
  <2>1. Seek(fileOffset) \in Nat
    BY SeekType
  <2> QED
    BY <1>13, <2>1, MoveToType DEF GuessIndex
<1> QED
  BY <1>1, <1>2, <1>3, <1>4, <1>5, <1>6, <1>7, <1>8, <1>9, <1>10, <1>11, <1>12, <1>13
  DEF ClientMoves, Guess

\* Every step of the client's, and of a user who starts or kills it.
LEMMA ClientType ==
    ASSUME TypeInv, Connect \/ ClientStep \/ KillClient
    PROVE  TypeInv'
<1> USE DEF TypeInv
<1>1. CASE Connect
  BY <1>1, TransferAssumption, TreeAssumption
  DEF Connect, TypeOK, TransferTypeOK, InLoops, Running, serverSide, store, server, cursor
<1>2. CASE KillClient
  BY <1>2 DEF KillClient, TypeOK, TransferTypeOK, InLoops, serverSide, store, server, cursor
<1>3. CASE ClientStep
  <2>0. mishaps' \subseteq Mishap \cup {"earlier"}
    BY <1>3 DEF ClientStep, Guess, TypeOK, TransferTypeOK, Mishap
  <2>1. verdict' \in {"none", "True", "False"}
    BY <1>3 DEF ClientStep, RecvVerdict, TypeOK
  <2>2. CASE RecvVerdict
    <3>1. ClientTypes'
      BY <2>2, ConsumeType, ClientPart DEF RecvVerdict, ClientTypes, cursor
    <3> QED
      BY <1>3, <2>0, <2>1, <3>1
      DEF ClientStep, ClientTypes, ToServerOK, TypeOK, TransferTypeOK, InLoops, serverSide,
          store, server
  <2>3. CASE ClientMoves \/ Guess
    <3>1. ClientTypes'
      BY <2>3, ClientMovesType
    <3> QED
      BY <1>3, <2>0, <2>1, <3>1
      DEF ClientStep, ClientTypes, ToServerOK, TypeOK, TransferTypeOK, InLoops, serverSide,
          store, server
  <2> QED
    BY <1>3, <2>2, <2>3 DEF ClientStep
<1> QED
  BY <1>1, <1>2, <1>3

\* What is left after the server has received, and what it received.
LEMMA DropType ==
    ASSUME TypeInv, Drop
    PROVE  ToServerOK(toServer')
<1>1. ToServerOK(toServer)
  BY DEF TypeInv, TypeOK, TransferTypeOK, InLoops, ToServerOK
<1>2. CASE toServer = <<>>
  BY <1>1, <1>2 DEF Drop
<1>3. CASE toServer # <<>>
  BY <1>1, <1>3, TailOf DEF Drop, ToServerOK
<1> QED
  BY <1>2, <1>3

LEMMA HeadType ==
    ASSUME TypeInv, toServer # <<>>
    PROVE  /\ Head(toServer) = toServer[1]
           /\ Head(toServer).block \in Block
           /\ Head(toServer).block.n \in Nat
           /\ Head(toServer).block.n > 0 => Head(toServer).block.file \in Files
<1>1. toServer \in Seq(ServerMessage)
  BY DEF TypeInv, TypeOK, TransferTypeOK
<1>2. /\ Head(toServer) \in ServerMessage
      /\ Head(toServer) = toServer[1]
      /\ 1 \in 1 .. Len(toServer)
  BY <1>1, TailOf
<1>3. Head(toServer).block \in Block
  BY <1>2 DEF ServerMessage
<1> QED
  BY <1>2, <1>3, TransferAssumption DEF TypeInv, InLoops, Block

\* What the server answers.
LEMMA AnswerType ==
    ASSUME TypeInv, NEW q \in Seq(ClientMessage), Answer(q)
    PROVE  toClient' \in Seq(ClientMessage)
<1>1. toClient \in Seq(ClientMessage)
  BY DEF TypeInv, TypeOK, TransferTypeOK
<1> QED
  BY <1>1, Concatenated DEF Answer

\* The part of TypeInv that is the server's.
ServerTypes ==
    /\ present \subseteq Entries
    /\ saved \in [Entries -> Seq(Byte \cup {Junk})]
    /\ before \in [Entries -> Seq(Byte \cup {Junk})]
    /\ sPhase \in Serving \cup {"accept", "start", "down"}
    /\ indexA \in Entries
    /\ entry \in 0 .. FileCount
    /\ block \in Block
    /\ ToServerOK(toServer)
    /\ toClient \in Seq(ClientMessage)
    /\ mishaps \subseteq Mishap \cup {"earlier"}
    /\ connected \in BOOLEAN
    /\ sPhase \in {"content", "length", "misaligned"} => entry \in Files
    /\ sPhase \in {"fileCnt", "dirCnt"} => entry = FileCount
    /\ block.n > 0 => block.file \in Files

LEMMA ServerPart == TypeInv => ServerTypes
<1> SUFFICES ASSUME TypeInv PROVE ServerTypes
  OBVIOUS
<1>1. ToServerOK(toServer)
  BY DEF TypeInv, TypeOK, TransferTypeOK, InLoops, ToServerOK
<1> QED
  BY <1>1 DEF TypeInv, TypeOK, TransferTypeOK, InLoops, ServerTypes

\* The server's steps keep its part.
LEMMA ServerMovesType ==
    ASSUME TypeInv, ServerStep
    PROVE  ServerTypes'
<1> ServerTypes
  BY ServerPart
<1> USE DEF ServerTypes, Serving, store
<1>0. entry < FileCount => entry \in Entries /\ entry + 1 \in 0 .. FileCount
  BY TreeAssumption DEF Entries
<1>1. CASE Accept
  <2>1. StartIndex \in Entries /\ StartOffset \in Int
    BY StartType, TypeParts DEF TypeInv
  <2>2. <<[type |-> "offset", value |-> StartOffset]>> \in Seq(ClientMessage)
    BY <2>1 DEF ClientMessage
  <2>3. toClient' \in Seq(ClientMessage)
    BY <1>1, <2>2, AnswerType DEF Accept
  <2>4. mishaps' \subseteq Mishap \cup {"earlier"}
    BY <1>1 DEF Accept, Earlier
  <2> QED
    BY <1>1, <2>1, <2>3, <2>4 DEF Accept
<1>2. CASE AckOffset
  <2>1. indexA \in Int
    BY TreeAssumption DEF Entries
  <2>2. <<[type |-> "index", value |-> indexA]>> \in Seq(ClientMessage)
    BY <2>1 DEF ClientMessage
  <2> QED
    BY <1>2, <2>2, AnswerType, DropType DEF AckOffset, Recv
<1>3. CASE AckIndex
  <2>1. indexA \in 0 .. FileCount
    BY TreeAssumption DEF Entries
  <2> QED
    BY <1>3, <2>1, DropType DEF AckIndex, Recv
<1>4. CASE Loop /\ UNCHANGED <<mishaps, connected, toServer, toClient>>
  <2>1. Kind[entry] = "f" /\ entry \in Entries => entry \in Files
    BY DEF Files
  <2> QED
    BY <1>0, <1>4, <2>1 DEF Loop, MakeDirectory, SkipEntry, OpenFile, EndLoop
<1>5. CASE RecvEndOfFile
  <2>1. <<Reply("eof")>> \in Seq(ClientMessage)
    BY TextType
  <2>2. ToServerOK(toServer') /\ toClient' \in Seq(ClientMessage)
    BY <1>5, <2>1, AnswerType, DropType DEF RecvEndOfFile
  <2>3. entry + 1 \in 0 .. FileCount
    BY <1>0, <1>5, FilesAreEntries DEF RecvEndOfFile
  <2> QED
    BY <1>5, <2>2, <2>3 DEF RecvEndOfFile, TakeEndOfFile
<1>6. CASE RecvBlock
  <2>1. /\ block' \in Block
        /\ block'.n > 0 => block'.file \in Files
    BY <1>6, HeadType, TextType DEF RecvBlock, TakeBlock, Zeros
  <2> QED
    BY <1>6, <2>1, DropType DEF RecvBlock, TakeBlock, Recv
<1>7. CASE RecvLength
  <2>1. PICK len \in IF toServer = <<>> THEN AnyLength ELSE {Head(toServer).block.n} :
            WriteBytes(Bytes(block, len))
    BY <1>7 DEF RecvLength
  <2>2. len \in Nat
    BY <2>1, AnyLengthType, HeadType
  <2>3. /\ saved' \in [Entries -> Seq(Byte \cup {Junk})]
        /\ UNCHANGED <<present, before, indexA, entry, block>>
    BY <1>7, <2>1, <2>2, WriteType, TypeParts DEF RecvLength
  <2> QED
    BY <1>7, <2>3, DropType DEF RecvLength, Recv
<1>8. CASE RecvLengthShort
  <2>1. PICK len \in AnyLength : WriteBytes(Bytes(block, len))
    BY <1>8 DEF RecvLengthShort
  <2>2. /\ saved' \in [Entries -> Seq(Byte \cup {Junk})]
        /\ UNCHANGED <<present, before, indexA, entry, block>>
    BY <1>8, <2>1, AnyLengthType, WriteType, TypeParts DEF RecvLengthShort
  <2> QED
    BY <1>8, <2>2, DropType DEF RecvLengthShort, Mishap
<1>9. CASE Misalign
  BY <1>9 DEF Misalign
<1>10. CASE RecvMisaligned
  <2>1. PICK b \in {Zeros} \cup {toServer[k].block : k \in {1} \cap DOMAIN toServer},
             len \in AnyLength \cap {0, 1} : WriteBytes(Bytes(b, len))
    BY <1>10 DEF RecvMisaligned
  <2>2. b \in Block /\ (b.n > 0 => b.file \in Files)
    <3>1. CASE b = Zeros
      BY <3>1, TextType DEF Zeros
    <3>2. CASE b # Zeros
      <4>1. 1 \in DOMAIN toServer /\ b = toServer[1].block
        BY <2>1, <3>2
      <4>2. toServer # <<>>
        BY <4>1
      <4> QED
        BY <4>1, <4>2, HeadType
    <3> QED
      BY <3>1, <3>2
  <2>3. /\ saved' \in [Entries -> Seq(Byte \cup {Junk})]
        /\ UNCHANGED <<present, before, indexA, entry, block>>
    BY <1>10, <2>1, <2>2, AnyLengthType, WriteType, TypeParts DEF RecvMisaligned
  <2> QED
    BY <1>10, <2>3, DropType DEF RecvMisaligned
<1>11. CASE FileCnt
  <2>1. <<Reply("echo")>> \in Seq(ClientMessage)
    BY TextType
  <2> QED
    BY <1>11, <2>1, AnswerType, DropType DEF FileCnt, Recv
<1>12. CASE DirCnt
  <2>1. \A v \in {0, 1} :
          <<Reply("echo"), [type |-> "verdict", value |-> v]>> \in Seq(ClientMessage)
    BY TextType DEF ClientMessage
  <2>2. toClient' \in Seq(ClientMessage)
    BY <1>12, <2>1, AnswerType DEF DirCnt
  <2> QED
    BY <1>12, <2>2, DropType DEF DirCnt, Recv
<1>13. CASE RecvMarker
  <2>1. <<Reply("eof")>> \in Seq(ClientMessage)
    BY TextType
  <2>2. ToServerOK(toServer') /\ toClient' \in Seq(ClientMessage)
    BY <1>13, <2>1, AnswerType, DropType DEF RecvMarker
  <2>3. entry + 1 \in 0 .. FileCount
    BY <1>0, <1>13, FilesAreEntries DEF RecvMarker
  <2>4. mishaps' \subseteq Mishap \cup {"earlier"}
    BY <1>13 DEF RecvMarker, Mishap
  <2> QED
    BY <1>13, <2>2, <2>3, <2>4 DEF RecvMarker, TakeEndOfFile
<1> QED
  BY <1>1, <1>2, <1>3, <1>4, <1>5, <1>6, <1>7, <1>8, <1>9, <1>10, <1>11, <1>12, <1>13
  DEF ServerStep

\* Every step of the server's, and of a user who kills or starts it.
LEMMA ServerType ==
    ASSUME TypeInv, ServerStep \/ KillServer \/ RestartServer
    PROVE  TypeInv'
<1> USE DEF TypeInv
<1>1. CASE ServerStep
  <2>1. ServerTypes'
    BY <1>1, ServerMovesType
  <2> QED
    BY <1>1, <2>1
    DEF ServerStep, ServerTypes, ToServerOK, TypeOK, TransferTypeOK, InLoops, clientSide,
        client, cursor
<1>2. CASE KillServer
  <2>0. toServer' = <<>> /\ (toClient' = <<>> \/ toClient' = toClient)
    BY <1>2 DEF KillServer
  <2>1. /\ toServer' \in Seq(ServerMessage) /\ Len(toServer') = 0
    BY <2>0
  <2>3. toClient' \in Seq(ClientMessage)
    <3>1. toClient \in Seq(ClientMessage)
      BY DEF TypeOK, TransferTypeOK
    <3>2. <<>> \in Seq(ClientMessage)
      OBVIOUS
    <3> QED
      BY <2>0, <3>1, <3>2, Zenon
  <2>2. connected' \in BOOLEAN
    BY <1>2 DEF KillServer
  <2> QED
    BY <1>2, <2>1, <2>2, <2>3
    DEF KillServer, TypeOK, TransferTypeOK, InLoops, store, clientSide, client, cursor
<1>3. CASE RestartServer
  <2>1. Zeros \in Block /\ Zeros.n = 0 /\ 0 \in 0 .. FileCount
    BY TextType, TreeAssumption DEF Zeros
  <2> QED
    BY <1>3, <2>1
    DEF RestartServer, TypeOK, TransferTypeOK, InLoops, store, clientSide, client, cursor
<1> QED
  BY <1>1, <1>2, <1>3

\* Every variable keeps its type, and each program is in its loop where its state
\* says: a block is never of an entry that is not a file.
THEOREM TypeCorrect == Spec => []TypeInv
<1>1. ASSUME TypeInv, [Next]_vars
      PROVE  TypeInv'
  <2>1. CASE UNCHANGED vars
    BY <1>1, <2>1
    DEF vars, serverSide, clientSide, store, server, client, cursor, TypeInv, TypeOK,
        TransferTypeOK, InLoops
  <2> QED
    BY <1>1, <2>1, ClientType, ServerType DEF Next
<1> QED
  BY <1>1, TypeInit, PTL DEF Spec

\* The types alone, which the runs check: among them that the server never starts
\* from an entry outside its list (server_function.c:86-111).
THEOREM TypesHold == Spec => []TypeOK
<1>1. TypeInv => TypeOK
  BY DEF TypeInv
<1> QED
  BY <1>1, TypeCorrect, PTL
-----------------------------------------------------------------------------
(* Lock step.                                                              *)

\* A client that has not come to the end of its file may send another message of it.
LEMMA ToServerSend ==
    ASSUME TypeInv, ToServerInv, Alive, cPhase # "eof", connected,
           NEW m \in ServerMessage, Send(m),
           m.block.n > 0 => m.block.file = Target,
           m.type = "eof" => cPhase' = "eof",
           Target' = Target
    PROVE  ToServerInv'
<1>1. /\ toServer' \in Seq(ServerMessage)
      /\ Len(toServer) \in Nat
      /\ Len(toServer') = Len(toServer) + 1
      /\ \A k \in 1 .. Len(toServer) : toServer'[k] = toServer[k]
      /\ toServer'[Len(toServer) + 1] = m
  BY QueueTypes, TypeParts, AppendTo DEF Send
<1>2. \A j \in 1 .. Len(toServer) :
        toServer[j].type # "eof" /\ (toServer[j].block.n > 0 => toServer[j].block.file = Target)
  BY DEF ToServerInv
<1>3. ASSUME NEW j \in 1 .. Len(toServer')
      PROVE  /\ toServer'[j].block.n > 0 => toServer'[j].block.file = Target
             /\ toServer'[j].type = "eof" => j = Len(toServer') /\ cPhase' = "eof"
  <2>1. CASE j \in 1 .. Len(toServer)
    BY <1>1, <1>2, <2>1
  <2>2. CASE j = Len(toServer) + 1
    BY <1>1, <2>2
  <2> QED
    BY <1>1, <1>3, <2>1, <2>2
<1> QED
  BY <1>3 DEF ToServerInv

\* Taking the first message away does no harm.
LEMMA ToServerDrop ==
    ASSUME TypeInv, ToServerInv, Drop, Target' = Target, cPhase' = cPhase
    PROVE  ToServerInv'
<1>1. CASE toServer = <<>>
  BY <1>1 DEF Drop, ToServerInv, Alive
<1>2. CASE toServer # <<>>
  <2>1. /\ Len(toServer) \in Nat
        /\ Len(toServer') = Len(toServer) - 1
        /\ \A k \in 1 .. Len(toServer') : toServer'[k] = toServer[k + 1]
    BY <1>2, QueueTypes, TypeParts, TailOf DEF Drop
  <2>2. ASSUME NEW j \in 1 .. Len(toServer')
        PROVE  /\ toServer'[j].block.n > 0 => toServer'[j].block.file = Target
               /\ toServer'[j].type = "eof" => j = Len(toServer')
               /\ toServer'[j].type = "eof" => cPhase = "eof" \/ ~Alive
    <3>1. j + 1 \in 1 .. Len(toServer) /\ toServer'[j] = toServer[j + 1]
      BY <2>1
    <3>2. j + 1 = Len(toServer) => j = Len(toServer')
      BY <2>1
    <3> QED
      BY <3>1, <3>2 DEF ToServerInv
  <2> QED
    BY <2>2 DEF ToServerInv, Alive
<1> QED
  BY <1>1, <1>2

\* The server has come to the end of a file: nothing else is on its way.
LEMMA EofIsLast ==
    ASSUME TypeInv, ToServerInv, Arrived("eof"), Drop
    PROVE  toServer' = <<>> /\ (cPhase = "eof" \/ ~Alive)
<1>1. /\ Head(toServer) = toServer[1]
      /\ 1 \in 1 .. Len(toServer)
      /\ Tail(toServer) \in Seq(ServerMessage)
      /\ Len(Tail(toServer)) = Len(toServer) - 1
  BY QueueTypes, TypeParts, TailOf DEF Arrived
<1>2. Len(toServer) = 1 /\ (cPhase = "eof" \/ ~Alive)
  BY <1>1 DEF Arrived, ToServerInv
<1>3. toServer' = Tail(toServer)
  BY DEF Arrived, Drop
<1> QED
  BY <1>1, <1>2, <1>3

\* A step of the client's in a session that runs.
LEMMA ClientLockStep ==
    ASSUME TypeInv, LockStep, ClientMoves \/ RecvVerdict, sPhase \in Serving,
           "marker" \notin mishaps,
           UNCHANGED <<serverSide, mishaps>>
    PROVE  ToServerInv' /\ ClientInv'
<1>0. ToServerInv /\ ClientInv /\ connected
  BY DEF LockStep
<1> USE <1>0 DEF Alive, Running
<1>1. Target' = Target /\ sPhase' = sPhase /\ indexA' = indexA /\ Index' = Index
  BY DEF Target, Index, serverSide, server
<1>2. \A t \in {"ack", "eof", "count"} :
        Text(t) \in ServerMessage /\ Text(t).block.n = 0 /\ Text(t).type = t
  BY TextType DEF Text, Zeros
<1>3. CASE RecvOffset
  <2>1. toServer = <<>> /\ Len(toClient) <= 1 /\ toClient # <<>> /\ sPhase = "ackOffset"
    BY <1>3 DEF RecvOffset, ClientInv, Consume
  <2>2. toClient' = <<>>
    BY <1>3, <2>1, QueueTypes, TypeParts, TailOf DEF RecvOffset, Consume
  <2>3. toServer' = <<Text("ack")>>
    BY <1>0, <1>3, <2>1 DEF RecvOffset, Send
  <2>4. ToServerInv'
    BY <1>1, <1>2, <1>3, ToServerSend DEF RecvOffset
  <2> QED
    BY <1>1, <1>3, <2>1, <2>2, <2>3, <2>4 DEF RecvOffset, ClientInv
<1>4. CASE RecvIndex
  <2>1. /\ sPhase = "ackIndex"
        /\ toClient = <<Index>>
        /\ toClient' = <<>>
    BY <1>4 DEF RecvIndex, ClientInv, Consume
  <2>2. sending' = Target /\ cPhase' \in {"read", "counts"}
    BY <1>4, <2>1 DEF RecvIndex, MoveTo, Index, Target
  <2>3. ToServerInv'
    BY <1>1, <1>2, <1>4, ToServerSend DEF RecvIndex
  <2> QED
    BY <1>1, <2>1, <2>2, <2>3 DEF ClientInv
<1>5. CASE SendBlock
  <2> DEFINE m == [type |-> "block", block |-> ReadHere]
  <2>1. ReadHere \in Block /\ ReadHere.file = Target
    BY <1>5, ReadHereType DEF SendBlock, ClientInv, TypeInv, TypeOK, TransferTypeOK, InLoops
  <2>2. m \in ServerMessage
    BY <2>1 DEF ServerMessage
  <2>3. ToServerInv'
    BY <1>1, <1>5, <2>1, <2>2, ToServerSend DEF SendBlock
  <2> QED
    BY <1>1, <1>5, <2>3 DEF SendBlock, ClientInv, cursor
<1>6. CASE SendLength
  <2> DEFINE m == [type |-> "length", block |-> ReadHere]
  <2>1. ReadHere \in Block /\ ReadHere.file = Target
    BY <1>6, ReadHereType DEF SendLength, ClientInv, TypeInv, TypeOK, TransferTypeOK, InLoops
  <2>2. m \in ServerMessage
    BY <2>1 DEF ServerMessage
  <2>3. ToServerInv'
    BY <1>1, <1>6, <2>1, <2>2, ToServerSend DEF SendLength
  <2> QED
    BY <1>1, <1>6, <2>3 DEF SendLength, ClientInv
<1>7. CASE SendEof
  <2>1. ToServerInv'
    BY <1>1, <1>2, <1>7, ToServerSend DEF SendEof
  <2> QED
    BY <1>1, <1>7, <2>1 DEF SendEof, ClientInv, cursor
<1>8. CASE RecvEof
  <2>1. /\ sPhase # "ackOffset"
        /\ toServer = <<>>
        /\ Len(toClient) = 1
        /\ NextFile(sending + 1) = Target
        /\ toServer' = <<>>
    BY <1>8 DEF RecvEof, ClientInv, Consume
  <2>2. toClient' = <<>>
    BY <1>8, <2>1, QueueTypes, TypeParts, TailOf DEF RecvEof, Consume
  <2>3. sending' = Target /\ cPhase' \in {"read", "counts"}
    BY <1>8, <2>1 DEF RecvEof, MoveTo
  <2> QED
    BY <1>1, <2>1, <2>2, <2>3 DEF ClientInv, ToServerInv
<1>9. CASE SendFileCount
  <2>1. ToServerInv'
    BY <1>1, <1>2, <1>9, ToServerSend DEF SendFileCount
  <2> QED
    BY <1>9, <2>1 DEF SendFileCount, ClientInv
<1>10. CASE RecvFileEcho
  <2>1. ToServerInv'
    BY <1>1, <1>2, <1>10, ToServerSend DEF RecvFileEcho
  <2> QED
    BY <1>10, <2>1 DEF RecvFileEcho, ClientInv
<1>11. CASE RecvDirEcho \/ RecvNothing \/ Fail \/ RecvVerdict
  <2>1. toServer' = toServer /\ cPhase' \in {"verdict", "dirEcho", "done", "failed"}
    BY <1>11 DEF RecvDirEcho, RecvNothing, Fail, RecvVerdict
  <2>2. Alive /\ (cPhase = "eof" => cPhase' = "failed")
    BY <1>11 DEF RecvDirEcho, RecvNothing, Fail, RecvVerdict
  <2>3. ToServerInv'
    BY <1>1, <2>1, <2>2 DEF ToServerInv
  <2> QED
    BY <2>1, <2>3 DEF ClientInv
<1> QED
  BY <1>3, <1>4, <1>5, <1>6, <1>7, <1>8, <1>9, <1>10, <1>11 DEF ClientMoves

\* What a session that runs keeps.
Paired ==
    /\ ToServerInv
    /\ ClientInv
    /\ sPhase = "length" /\ block.n > 0 => block.file = entry

\* The server waits in vain while the client is alive and has sent nothing.
LEMMA ServerLockStep ==
    ASSUME TypeInv, Paired, ServerStep, sPhase \in Serving, sPhase' \in Serving,
           "marker" \notin mishaps'
    PROVE  Paired'
<1>0. /\ UNCHANGED <<cPhase, sending, fileOffset, pos>>
      /\ Alive' = Alive
      /\ entry \in Nat
      /\ indexA \in Nat
  BY TreeAssumption
  DEF ServerStep, clientSide, client, cursor, Alive, TypeInv, TypeOK, TransferTypeOK, Entries
<1>1. CASE AckOffset
  <2>1. indexA' = indexA /\ entry' = entry /\ sPhase = "ackOffset" /\ sPhase' = "ackIndex"
    BY <1>1 DEF AckOffset
  <2>2. Target' = Target /\ Index' = Index
    BY <2>1 DEF Target, Index
  <2>3. ToServerInv'
    BY <1>0, <1>1, <2>2, ToServerDrop DEF AckOffset, Recv, Paired
  <2>4. cPhase \notin {"offset", "read", "length", "eof"}
    BY <1>1, <2>1 DEF AckOffset, Paired, ClientInv, Recv, Arrived, Nothing, Alive, Running
  <2>5. cPhase = "index" => toServer' = <<>> /\ toClient' = <<Index>>
    <3>1. SUFFICES ASSUME cPhase = "index" PROVE toServer' = <<>> /\ toClient' = <<Index>>
      OBVIOUS
    <3>2. Len(toServer) <= 1 /\ toClient = <<>>
      BY <2>1, <3>1 DEF Paired, ClientInv
    <3>3. ASSUME toServer # <<>> PROVE Tail(toServer) = <<>>
      <4>1. /\ Len(toServer) \in Nat \ {0}
            /\ Tail(toServer) \in Seq(ServerMessage)
            /\ Len(Tail(toServer)) = Len(toServer) - 1
        BY <3>3, QueueTypes, TypeParts, TailOf
      <4> QED
        BY <3>2, <4>1
    <3>4. toServer' = <<>>
      BY <1>1, <3>3 DEF AckOffset, Recv, Drop
    <3> QED
      BY <1>1, <3>2, <3>4 DEF AckOffset, Answer, Index
  <2> QED
    BY <1>0, <2>1, <2>2, <2>3, <2>4, <2>5 DEF Paired, ClientInv
<1>2. CASE AckIndex
  <2>1. /\ indexA' = indexA
        /\ entry' = indexA
        /\ sPhase = "ackIndex"
        /\ sPhase' = "loop"
        /\ toClient' = toClient
    BY <1>2 DEF AckIndex
  <2>2. Target' = Target
    BY <2>1 DEF Target
  <2>3. ToServerInv'
    BY <1>0, <1>2, <2>2, ToServerDrop DEF AckIndex, Recv, Paired
  <2>4. cPhase \notin {"offset", "index"}
    BY <1>2, <2>1 DEF AckIndex, Paired, ClientInv, Recv, Arrived, Nothing, Alive, Running
  <2>5. toServer = <<>> => toServer' = <<>>
    BY <1>2 DEF AckIndex, Recv, Drop
  <2> QED
    BY <1>0, <2>1, <2>2, <2>3, <2>4, <2>5 DEF Paired, ClientInv
<1>3. CASE Loop /\ UNCHANGED <<mishaps, connected, toServer, toClient>>
  <2>1. sPhase = "loop" /\ sPhase' \in {"loop", "content", "fileCnt"} /\ indexA' = indexA
    BY <1>3 DEF Loop, MakeDirectory, SkipEntry, OpenFile, EndLoop
  <2>2. entry' = entry \/ (entry' = entry + 1 /\ entry \notin Files)
    BY <1>3 DEF Loop, MakeDirectory, SkipEntry, OpenFile, EndLoop, Files
  <2>3. NextFile(entry') = NextFile(entry)
    BY <1>0, <2>2, NextFileSkips
  <2>4. Target' = Target
    BY <2>1, <2>3 DEF Target
  <2> QED
    BY <1>0, <1>3, <2>1, <2>4 DEF Paired, ToServerInv, ClientInv
<1>4. CASE RecvEndOfFile
  <2>1. /\ Arrived("eof")
        /\ mishaps' = mishaps
    BY <1>4 DEF RecvEndOfFile
  <2>2. /\ sPhase = "content" /\ sPhase' = "loop"
        /\ entry' = entry + 1
        /\ entry \in Files
    BY <1>4 DEF RecvEndOfFile, TakeEndOfFile, TypeInv, InLoops
  <2>3. toServer' = <<>> /\ (cPhase = "eof" \/ ~Alive)
    BY <1>4, <2>1, EofIsLast DEF Paired, RecvEndOfFile
  <2>4. Target = entry /\ Target' = NextFile(entry + 1)
    BY <2>2, NextFileOfFile DEF Target
  <2>5. cPhase = "eof" => toClient = <<>> /\ sending = entry
    BY <2>1, <2>4 DEF Paired, ClientInv, Arrived
  <2>6. cPhase = "eof" => Len(toClient') = 1
    BY <1>4, <2>5 DEF RecvEndOfFile, Answer
  <2> QED
    BY <1>0, <2>2, <2>3, <2>4, <2>5, <2>6 DEF Paired, ToServerInv, ClientInv, Alive, Running
<1>5. CASE RecvBlock \/ RecvLength \/ RecvLengthShort \/ Misalign \/ RecvMisaligned
  <2>1. /\ sPhase \in {"content", "length", "misaligned"}
        /\ sPhase' \in {"content", "length", "misaligned"}
        /\ entry' = entry
        /\ indexA' = indexA
        /\ toClient' = toClient
    BY <1>5
    DEF RecvBlock, TakeBlock, RecvLength, RecvLengthShort, Misalign, RecvMisaligned, WriteBytes
  <2>2. Target = entry /\ Target' = entry
    BY <2>1, NextFileOfFile DEF Target, TypeInv, InLoops
  <2>3. Drop \/ toServer' = toServer
    BY <1>5 DEF RecvBlock, RecvLength, RecvLengthShort, Misalign, RecvMisaligned, Recv
  <2>4. ToServerInv'
    BY <1>0, <2>2, <2>3, ToServerDrop DEF Paired, ToServerInv
  <2>5. toServer = <<>> => toServer' = <<>>
    BY <2>3 DEF Drop
  <2>6. ClientInv'
    BY <1>0, <2>1, <2>2, <2>5 DEF Paired, ClientInv
  <2>7. sPhase' = "length" /\ block'.n > 0 => block'.file = entry
    <3>1. sPhase' = "length" => RecvBlock
      BY <1>5 DEF RecvLength, RecvLengthShort, Misalign, RecvMisaligned
    <3>2. CASE toServer = <<>>
      BY <3>1, <3>2 DEF RecvBlock, TakeBlock, Zeros
    <3>3. CASE toServer # <<>>
      <4>1. 1 \in 1 .. Len(toServer) /\ Head(toServer) = toServer[1]
        BY <3>3, QueueTypes, TypeParts, TailOf
      <4> QED
        BY <2>2, <3>1, <3>3, <4>1 DEF RecvBlock, TakeBlock, Paired, ToServerInv
    <3> QED
      BY <3>2, <3>3
  <2> QED
    BY <2>1, <2>4, <2>6, <2>7 DEF Paired
<1>6. CASE FileCnt
  <2>1. /\ sPhase = "fileCnt" /\ sPhase' = "dirCnt"
        /\ entry = FileCount
        /\ entry' = entry
        /\ indexA' = indexA
    BY <1>6 DEF FileCnt, TypeInv, InLoops
  <2>2. Target = FileCount /\ Target' = FileCount
    BY <2>1, NextFileOfEnd DEF Target
  <2>3. FileCount \notin Files
    BY FilesAreEntries, TreeAssumption
  <2>4. ToServerInv'
    BY <1>0, <1>6, <2>2, ToServerDrop DEF Paired, FileCnt, Recv
  <2>5. cPhase \notin {"offset", "index", "read", "length", "eof"}
    <3>1. cPhase \in {"read", "length", "eof"} => sending # Target
      BY <2>2, <2>3 DEF TypeInv, InLoops
    <3>2. Alive => toServer # <<>>
      BY <1>6 DEF FileCnt, Recv, Arrived, Nothing
    <3> QED
      BY <2>1, <3>1, <3>2 DEF Paired, ClientInv, Alive, Running
  <2> QED
    BY <1>0, <2>1, <2>4, <2>5 DEF Paired, ClientInv
<1>7. CASE Accept \/ DirCnt \/ RecvMarker
  BY <1>7 DEF Accept, DirCnt, RecvMarker, Serving
<1> QED
  BY <1>1, <1>2, <1>3, <1>4, <1>5, <1>6, <1>7 DEF ServerStep

\* The steps between two sessions.
LEMMA StepLockStep ==
    ASSUME TypeInv, LockStep, [Next]_vars
    PROVE  LockStep'
<1> USE DEF LockStep
<1>0. sPhase \in Serving => sPhase \notin {"accept", "start", "down"}
  BY DEF Serving
<1>1. CASE Connect
  BY <1>0, <1>1 DEF Connect, Serving, serverSide, server
<1>2. CASE ClientStep
  <2>1. /\ UNCHANGED <<serverSide, connected>>
        /\ sPhase' = sPhase /\ block' = block /\ entry' = entry
    BY <1>2 DEF ClientStep, serverSide, server
  <2>2. CASE sPhase \in Serving
    <3>1. ~ Guess
      BY <2>2 DEF Guess, GuessOffset, GuessIndex, NothingComes
    <3>2. (ClientMoves \/ RecvVerdict) /\ mishaps' = mishaps
      BY <1>2, <3>1 DEF ClientStep
    <3> QED
      BY <1>0, <2>1, <2>2, <3>2, ClientLockStep
  <2>3. CASE sPhase = "start"
    <3>1. ~ ClientMoves /\ ~ RecvVerdict /\ ~ Guess
      BY <2>3
      DEF ClientMoves, RecvOffset, RecvIndex, SendBlock, SendLength, SendEof, RecvEof,
          SendFileCount, RecvFileEcho, RecvDirEcho, RecvNothing, Fail, RecvVerdict, Consume,
          Guess, GuessOffset, GuessIndex, NothingComes
    <3> QED
      BY <1>2, <3>1 DEF ClientStep
  <2>4. CASE sPhase \notin Serving \cup {"start"}
    BY <2>1, <2>4
  <2> QED
    BY <2>2, <2>3, <2>4
<1>3. CASE KillClient
  BY <1>0, <1>3
  DEF KillClient, serverSide, server, cursor, ToServerInv, ClientInv, Target, Alive, Running
<1>4. CASE ServerStep
  <2>1. CASE Accept
    <3>1. /\ toServer' = <<>>
          /\ Len(toClient') = 1
          /\ cPhase' \in {"offset", "killed"}
          /\ sPhase' = "ackOffset"
          /\ connected'
          /\ "guess" \notin mishaps'
      BY <1>4, <2>1 DEF Accept, Earlier, Answer, ServerStep, clientSide, client
    <3> QED
      BY <3>1 DEF ToServerInv, ClientInv, Serving
  <2>2. CASE DirCnt
    BY <2>2 DEF DirCnt, Serving
  <2>3. CASE ~ Accept /\ ~ DirCnt
    <3>1. sPhase \in Serving /\ sPhase' \in Serving
      BY <1>4, <2>3
      DEF ServerStep, AckOffset, AckIndex, Loop, MakeDirectory, SkipEntry, OpenFile, EndLoop,
          RecvEndOfFile, RecvMarker, TakeEndOfFile, RecvBlock, TakeBlock, RecvLength,
          RecvLengthShort, Misalign, RecvMisaligned, FileCnt, Serving
    <3>2. /\ "marker" \in mishaps => "marker" \in mishaps'
          /\ "guess" \notin mishaps'
      BY <1>4, <2>3, <3>1
      DEF LockStep, ServerStep, AckOffset, AckIndex, Loop, RecvEndOfFile, RecvMarker, RecvBlock,
          RecvLength, RecvLengthShort, Misalign, RecvMisaligned, FileCnt
    <3>3. sPhase' \notin {"accept", "start", "down"} /\ connected'
      BY <1>4, <2>3, <3>1
      DEF ServerStep, AckOffset, AckIndex, RecvEndOfFile, RecvMarker, RecvBlock, RecvLength,
          RecvLengthShort, Misalign, RecvMisaligned, FileCnt, Serving
    <3>4. "marker" \notin mishaps' => Paired'
      BY <1>4, <3>1, <3>2, ServerLockStep DEF Paired
    <3> QED
      BY <3>2, <3>3, <3>4 DEF Paired
  <2> QED
    BY <2>1, <2>2, <2>3
<1>5. CASE KillServer
  BY <1>5 DEF KillServer, Serving
<1>6. CASE RestartServer
  BY <1>6 DEF RestartServer, Serving
<1>7. CASE UNCHANGED vars
  BY <1>7
  DEF vars, serverSide, clientSide, server, client, cursor, ToServerInv, ClientInv, Target,
      Index, Alive
<1> QED
  BY <1>1, <1>2, <1>3, <1>4, <1>5, <1>6, <1>7 DEF Next

\* In every session that has not taken a block for the end of a file, whatever the
\* tree, the size of a block, the kills and the short reads, both programs work on the
\* same file and nothing of another file is on its way.
THEOREM InLockStep == Spec => []LockStep
<1>1. Init => LockStep
  BY DEF Init, LockStep, TransferInit, Serving
<1>2. TypeInv /\ LockStep /\ [Next]_vars => LockStep'
  BY StepLockStep
<1> QED
  BY <1>1, <1>2, TypeCorrect, PTL DEF Spec
-----------------------------------------------------------------------------
(* No copy receives a byte of another file.                                *)

\* Only the three receives of a length write, and what they write is of the entry.
LEMMA StepOwn ==
    ASSUME TypeInv, LockStep, [Next]_vars, "marker" \notin mishaps
    PROVE  Own
<1>1. CASE RecvLength
  <2>1. PICK len \in IF toServer = <<>> THEN AnyLength ELSE {Head(toServer).block.n} :
            WriteBytes(Bytes(block, len))
    BY <1>1 DEF RecvLength
  <2>2. len \in Nat
    BY <2>1, AnyLengthType, HeadType
  <2>3. entry \in Files /\ block \in Block /\ (block.n > 0 => block.file = entry)
    BY <1>1 DEF RecvLength, LockStep, Serving, TypeInv, TypeOK, TransferTypeOK, InLoops
  <2> QED
    BY <2>1, <2>2, <2>3, WriteOwn, TypeParts
<1>2. CASE RecvLengthShort
  <2>1. PICK len \in AnyLength : WriteBytes(Bytes(block, len))
    BY <1>2 DEF RecvLengthShort
  <2>2. entry \in Files /\ block \in Block /\ (block.n > 0 => block.file = entry)
    BY <1>2 DEF RecvLengthShort, LockStep, Serving, TypeInv, TypeOK, TransferTypeOK, InLoops
  <2> QED
    BY <2>1, <2>2, AnyLengthType, WriteOwn, TypeParts
<1>3. CASE RecvMisaligned
  <2>1. PICK b \in {Zeros} \cup {toServer[k].block : k \in {1} \cap DOMAIN toServer},
             len \in AnyLength \cap {0, 1} : WriteBytes(Bytes(b, len))
    BY <1>3 DEF RecvMisaligned
  <2>2. entry \in Files /\ sPhase = "misaligned" /\ ToServerInv
    BY <1>3 DEF RecvMisaligned, LockStep, Serving, TypeInv, InLoops
  <2>3. Target = entry
    BY <2>2, NextFileOfFile DEF Target
  <2>4. b \in Block /\ (b.n > 0 => b.file = entry)
    <3>1. CASE b = Zeros
      BY <3>1, TextType DEF Zeros
    <3>2. CASE b # Zeros
      <4>1. 1 \in DOMAIN toServer /\ b = toServer[1].block
        BY <2>1, <3>2
      <4>2. toServer # <<>> /\ 1 \in 1 .. Len(toServer)
        BY <4>1, QueueTypes, TypeParts
      <4> QED
        BY <2>2, <2>3, <4>1, <4>2, HeadType DEF ToServerInv
    <3> QED
      BY <3>1, <3>2
  <2> QED
    BY <2>1, <2>2, <2>4, AnyLengthType, WriteOwn, TypeParts
<1>4. CASE ~ RecvLength /\ ~ RecvLengthShort /\ ~ RecvMisaligned
  <2>1. saved' = saved
    BY <1>4
    DEF Next, Connect, ClientStep, KillClient, ServerStep, Accept, AckOffset, AckIndex, Loop,
        MakeDirectory, SkipEntry, OpenFile, EndLoop, RecvEndOfFile, RecvMarker, TakeEndOfFile,
        RecvBlock, TakeBlock, Misalign, FileCnt, DirCnt, KillServer, RestartServer, vars, serverSide,
        store
  <2> QED
    BY <2>1, UnchangedOwn
<1> QED
  BY <1>1, <1>2, <1>3, <1>4

\* Whatever dies or is read short, no copy of a file receives a byte of another file,
\* unless a block was taken for the end of one.
THEOREM NoForeignBytes == Spec => OwnBytesOnly
<1>1. ASSUME TypeInv, LockStep, [Next]_vars
      PROVE  [mishaps \cap {"marker", "overtaken"} = {} => Own]_<<saved, mishaps>>
  BY <1>1, StepOwn
<1>2. TypeInv /\ LockStep /\ [Next]_vars =>
        [mishaps \cap {"marker", "overtaken"} = {} =>
            \A i \in Files : \A k \in DOMAIN saved'[i] \ DOMAIN saved[i] :
                saved'[i][k] \in ({i} \X Nat) \cup {Junk}]_<<saved, mishaps>>
  BY <1>1 DEF Own
<1> QED
  BY <1>2, TypeCorrect, InLockStep, PTL DEF Spec, OwnBytesOnly

-----------------------------------------------------------------------------
(* What a session delivers.                                                *)

LEMMA BaseType == ASSUME TypeInv PROVE Base \in Nat
  BY SeekType DEF Base, TypeInv, TypeOK, TransferTypeOK

\* The piece that is all that is left is what From yields.
LEMMA PieceIsFrom ==
    ASSUME NEW i \in Files
    PROVE  Piece(Base, i, Rest(i)) = From(i, Base)
  BY DEF Piece, Rest, From
-----------------------------------------------------------------------------
(* The chain of what is on its way.                                        *)

\* The server takes what it expects.
LEMMA LinkDrop ==
    ASSUME TypeInv, Linked, toServer # <<>>, Drop,
           Expects' = After(toServer[1]), Base' = Base, Target' = Target
    PROVE  Linked'
<1>1. /\ Len(toServer) \in Nat \ {0}
      /\ Len(toServer') = Len(toServer) - 1
      /\ \A k \in 1 .. Len(toServer') : toServer'[k] = toServer[k + 1]
  BY QueueTypes, TypeParts, TailOf DEF Drop
<1>2. ASSUME NEW j \in 1 .. Len(toServer')
      PROVE  NextAt(j)' = NextAt(j + 1)
  <2>1. CASE j = 1
    BY <2>1 DEF NextAt
  <2>2. CASE j # 1
    <3>1. j - 1 \in 1 .. Len(toServer') /\ j + 1 # 1 /\ (j + 1) - 1 = j /\ (j - 1) + 1 = j
      BY <1>1, <2>2
    <3>2. toServer'[j - 1] = toServer[j]
      BY <1>1, <3>1
    <3>3. NextAt(j)' = After(toServer[j])
      BY <2>2, <3>2 DEF NextAt, After
    <3>4. NextAt(j + 1) = After(toServer[j])
      BY <3>1 DEF NextAt
    <3> QED
      BY <3>3, <3>4
  <2> QED
    BY <2>1, <2>2
<1>3. ASSUME NEW j \in 1 .. Len(toServer')
      PROVE  Fits(NextAt(j), toServer[j])'
  <2>1. j + 1 \in 1 .. Len(toServer)
    BY <1>1
  <2>2. Fits(NextAt(j + 1), toServer[j + 1])
    BY <2>1 DEF Linked
  <2>3. NextAt(j)' = NextAt(j + 1) /\ toServer'[j] = toServer[j + 1]
    BY <1>1, <1>2
  <2> QED
    BY <2>2, <2>3 DEF Fits
<1> QED
  BY <1>3 DEF Linked

LEMMA ChainDrop ==
    ASSUME TypeInv, Chained, toServer # <<>>, Drop,
           Expects' = After(toServer[1]), Base' = Base, Target' = Target, Sends' = Sends
    PROVE  Chained'
<1>1. /\ Len(toServer) \in Nat \ {0}
      /\ Len(toServer') = Len(toServer) - 1
      /\ \A k \in 1 .. Len(toServer') : toServer'[k] = toServer[k + 1]
  BY QueueTypes, TypeParts, TailOf DEF Drop
<1>2. Linked'
  BY LinkDrop DEF Chained
<1>3. NextAt(Len(toServer) + 1)' = NextAt(Len(toServer) + 1)
  <2>1. CASE Len(toServer) = 1
    BY <1>1, <2>1 DEF NextAt
  <2>2. CASE Len(toServer) # 1
    <3>1. /\ Len(toServer') \in 1 .. Len(toServer')
          /\ Len(toServer') + 1 # 1
          /\ (Len(toServer') + 1) - 1 = Len(toServer')
          /\ toServer'[Len(toServer')] = toServer[Len(toServer)]
          /\ Len(toServer) + 1 # 1
          /\ (Len(toServer) + 1) - 1 = Len(toServer)
      BY <1>1, <2>2
    <3>2. NextAt(Len(toServer) + 1)' = After(toServer[Len(toServer)])
      BY <3>1 DEF NextAt, After
    <3> QED
      BY <3>1, <3>2 DEF NextAt
  <2> QED
    BY <2>1, <2>2
<1> QED
  BY <1>2, <1>3 DEF Chained

\* The client sends what has to come.
LEMMA ChainSend ==
    ASSUME TypeInv, Chained, connected, NEW m \in ServerMessage, Send(m), Fits(Sends, m),
           Sends' = After(m), Expects' = Expects, Base' = Base, Target' = Target
    PROVE  Chained'
<1>1. /\ Len(toServer) \in Nat
      /\ Len(toServer') = Len(toServer) + 1
      /\ \A k \in 1 .. Len(toServer) : toServer'[k] = toServer[k]
      /\ toServer'[Len(toServer) + 1] = m
  BY QueueTypes, TypeParts, AppendTo DEF Send
<1>2. ASSUME NEW j \in 1 .. Len(toServer) + 1
      PROVE  NextAt(j)' = NextAt(j)
  <2>1. CASE j = 1
    BY <2>1 DEF NextAt
  <2>2. CASE j # 1
    <3>1. j - 1 \in 1 .. Len(toServer)
      BY <1>1, <2>2
    <3>2. toServer'[j - 1] = toServer[j - 1]
      BY <1>1, <3>1
    <3> QED
      BY <2>2, <3>2 DEF NextAt, After
  <2> QED
    BY <2>1, <2>2
<1>3. ASSUME NEW j \in 1 .. Len(toServer')
      PROVE  Fits(NextAt(j), toServer[j])'
  <2>1. j \in 1 .. Len(toServer) + 1
    BY <1>1
  <2>2. Fits(NextAt(j), toServer'[j])
    <3>1. CASE j \in 1 .. Len(toServer)
      BY <1>1, <3>1 DEF Chained, Linked
    <3>2. CASE j = Len(toServer) + 1
      BY <1>1, <3>2 DEF Chained, Linked
    <3> QED
      BY <1>1, <2>1, <3>1, <3>2
  <2> QED
    BY <1>2, <2>1, <2>2 DEF Fits
<1>4. NextAt(Len(toServer) + 1)' = After(m)
  <2>1. /\ Len(toServer') + 1 # 1
        /\ (Len(toServer') + 1) - 1 = Len(toServer) + 1
    BY <1>1
  <2> QED
    BY <1>1, <2>1 DEF NextAt, After
<1> QED
  BY <1>3, <1>4 DEF Chained, Linked

LEMMA ChainSame ==
    ASSUME Chained, toServer' = toServer, Expects' = Expects, Base' = Base,
           Target' = Target, Sends' = Sends
    PROVE  Chained'
<1>1. ASSUME NEW j
      PROVE  NextAt(j)' = NextAt(j)
  BY DEF NextAt, After
<1>2. ASSUME NEW j \in 1 .. Len(toServer)
      PROVE  Fits(NextAt(j), toServer[j])'
  <2>1. Fits(NextAt(j), toServer[j])
    BY DEF Chained, Linked
  <2> QED
    BY <1>1, <2>1 DEF Fits
<1>3. NextAt(Len(toServer) + 1)' = NextAt(Len(toServer) + 1)
  BY DEF NextAt, After
<1> QED
  BY <1>2, <1>3 DEF Chained, Linked
-----------------------------------------------------------------------------
(* The client's steps.                                                     *)

\* What Streaming says of an intact session.
Flowing ==
    /\ sPhase # "misaligned"
    /\ IF sPhase \in {"ackOffset", "ackIndex"} THEN saved = before ELSE Delivered
    /\ sPhase = "length" =>
        /\ block.n > 0
        /\ block.at = Base + Added(entry)
        /\ block.at + block.n <= Size[entry]

\* The part that the client's steps can disturb.
Queued ==
    /\ InFile => Chained
    /\ cPhase = "eof" /\ toClient # <<>> => Expects = <<"block", Base>>
    /\ cPhase \in {"counts", "fileEcho", "dirEcho", "verdict"} => Target = FileCount

LEMMA StreamingParts == Streaming <=> (Intact => Flowing /\ Queued)
  BY DEF Streaming, Flowing, Queued

\* In an intact session the two sides are in lock step.
LEMMA IntactPaired ==
    ASSUME TypeInv, LockStep, Intact
    PROVE  "marker" \notin mishaps /\ ToServerInv /\ ClientInv
           /\ (sPhase = "length" /\ block.n > 0 => block.file = entry)
  BY DEF LockStep, Intact, Clean, Mishap

\* An empty queue, and one of a single message.
LEMMA ChainEmpty == ASSUME toServer' = <<>>, Expects' = Sends' PROVE Chained'
  BY DEF Chained, Linked, NextAt

LEMMA ChainOne ==
    ASSUME NEW m, toServer' = <<m>>, Fits(Expects, m)', Sends' = After(m)'
    PROVE  Chained'
<1>1. Len(toServer') = 1 /\ toServer'[1] = m
  OBVIOUS
<1> QED
  BY <1>1 DEF Chained, Linked, NextAt, After

LEMMA ClientStreaming ==
    ASSUME TypeInv, LockStep, Intact, Flowing, Queued, ClientMoves \/ RecvVerdict, Alive',
           UNCHANGED <<serverSide, mishaps>>
    PROVE  Flowing' /\ Queued'
<1>0. ToServerInv /\ ClientInv /\ connected
  BY IntactPaired DEF Intact, LockStep
<1>1. /\ UNCHANGED <<saved, before, sPhase, indexA, entry, block>>
      /\ Target' = Target
      /\ Index' = Index
  BY DEF Target, Index, serverSide, server, store
<1>2. \A t \in {"ack", "eof", "count"} :
        Text(t) \in ServerMessage /\ Text(t).block.n = 0 /\ Text(t).type = t
  BY TextType DEF Text, Zeros
<1>3. CASE RecvOffset
  <2>1. sPhase = "ackOffset" /\ cPhase' = "index"
    BY <1>0, <1>3 DEF RecvOffset, ClientInv
  <2> QED
    BY <1>1, <2>1 DEF Flowing, Queued, InFile
<1>4. ASSUME ~ RecvOffset
      PROVE  /\ Base' = Base /\ fileOffset' = fileOffset
             /\ Expects' = Expects
             /\ Flowing'
  <2>1. fileOffset' = fileOffset
    BY <1>4
    DEF ClientMoves, RecvIndex, SendBlock, SendLength, SendEof, RecvEof, SendFileCount,
        RecvFileEcho, RecvDirEcho, RecvNothing, Fail, RecvVerdict, MoveTo, cursor
  <2>2. Base' = Base
    BY <2>1 DEF Base
  <2>3. Expects' = Expects
    BY <1>1, <2>2 DEF Expects, Added
  <2>4. Delivered => Delivered'
    BY <1>1, <2>2 DEF Delivered, Added, Rest, Piece
  <2>5. Flowing'
    BY <1>1, <2>2, <2>4 DEF Flowing, Added
  <2> QED
    BY <2>1, <2>2, <2>3, <2>5
<1>5. Target \in Files \/ Target = FileCount
  BY TargetType, TypeParts
<1>6. CASE RecvIndex
  <2>1. /\ sPhase = "ackIndex"
        /\ toServer = <<>>
        /\ toClient = <<Index>>
    BY <1>0, <1>6 DEF RecvIndex, ClientInv, Consume
  <2>2. MoveTo(indexA, Base) /\ toServer' = <<Text("ack")>>
    BY <1>0, <1>6, <2>1 DEF RecvIndex, Index, Base, Send
  <2>3. pos' = Base /\ cPhase' = IF Target < FileCount THEN "read" ELSE "counts"
    BY <2>1, <2>2 DEF MoveTo, Target
  <2>4. Base' = Base /\ Expects' = <<"ack", 0>> /\ Flowing'
    BY <1>4, <1>6, <2>1 DEF RecvIndex, RecvOffset, Expects
  <2>5. InFile' => Chained'
    <3>1. SUFFICES ASSUME InFile' PROVE Chained'
      OBVIOUS
    <3>2. Sends' = <<"block", Base>>
      BY <2>3, <3>1 DEF InFile, Sends
    <3>3. Fits(Expects, Text("ack"))'
      BY <1>2, <2>4 DEF Fits
    <3>4. After(Text("ack"))' = <<"block", Base>>
      BY <1>2, <2>4 DEF After
    <3> QED
      BY <2>2, <3>2, <3>3, <3>4, ChainOne
  <2>6. cPhase' = "counts" => Target' = FileCount
    BY <1>1, <1>5, <2>3, FilesAreEntries
  <2> QED
    BY <2>3, <2>4, <2>5, <2>6 DEF Queued
<1>7. CASE SendBlock
  <2> DEFINE m == [type |-> "block", block |-> ReadHere]
  <2>1. /\ toClient = <<>> /\ toClient' = <<>>
        /\ sending = Target /\ sending \in Files
        /\ cPhase = "read" /\ cPhase' = "length"
        /\ pos' = pos /\ sending' = sending
    BY <1>0, <1>7 DEF SendBlock, ClientInv, cursor, TypeInv, InLoops
  <2>2. /\ ReadHere \in Block /\ ReadHere.at = pos /\ ReadHere.n > 0
        /\ pos + ReadHere.n <= Size[Target]
    BY <1>7, <2>1, ReadHereType DEF SendBlock, TypeInv, TypeOK, TransferTypeOK
  <2>3. m \in ServerMessage /\ m.type = "block" /\ m.block = ReadHere
    BY <2>2 DEF ServerMessage
  <2> HIDE DEF m
  <2>4. Sends = <<"block", pos>> /\ Sends' = <<"length", ReadHere>>
    BY <2>1 DEF Sends, ReadHere
  <2>5. Fits(Sends, m) /\ Sends' = After(m)
    BY <2>2, <2>3, <2>4 DEF Fits, After
  <2>6. Chained
    BY <2>1 DEF Queued, InFile
  <2>7. Send(m)
    BY <1>7 DEF SendBlock, m
  <2>8. Base' = Base /\ Expects' = Expects /\ Flowing'
    BY <1>4, <1>7, <2>1 DEF RecvOffset
  <2>9. Chained'
    BY <1>0, <1>1, <2>3, <2>5, <2>6, <2>7, <2>8, ChainSend
  <2> QED
    BY <2>1, <2>8, <2>9 DEF Queued
<1>8. CASE SendLength
  <2> DEFINE m == [type |-> "length", block |-> ReadHere]
  <2>1. /\ toClient = <<>> /\ toClient' = <<>>
        /\ sending = Target /\ sending \in Files
        /\ cPhase = "length" /\ cPhase' = "read"
        /\ pos' = pos + ReadHere.n /\ sending' = sending
    BY <1>0, <1>8 DEF SendLength, ClientInv, TypeInv, InLoops
  <2>2. ReadHere \in Block /\ ReadHere.at = pos
    BY <2>1, ReadHereType DEF TypeInv, TypeOK, TransferTypeOK, InLoops
  <2>3. m \in ServerMessage /\ m.type = "length" /\ m.block = ReadHere
    BY <2>2 DEF ServerMessage
  <2> HIDE DEF m
  <2>4. Sends = <<"length", ReadHere>> /\ Sends' = <<"block", pos + ReadHere.n>>
    BY <2>1 DEF Sends
  <2>5. Fits(Sends, m) /\ Sends' = After(m)
    BY <2>2, <2>3, <2>4 DEF Fits, After
  <2>6. Chained
    BY <2>1 DEF Queued, InFile
  <2>7. Send(m)
    BY <1>8 DEF SendLength, m
  <2>8. Base' = Base /\ Expects' = Expects /\ Flowing'
    BY <1>4, <1>8, <2>1 DEF RecvOffset
  <2>9. Chained'
    BY <1>0, <1>1, <2>3, <2>5, <2>6, <2>7, <2>8, ChainSend
  <2> QED
    BY <2>1, <2>8, <2>9 DEF Queued
<1>9. CASE SendEof
  <2>1. /\ toClient = <<>> /\ toClient' = <<>>
        /\ sending = Target
        /\ cPhase = "read" /\ cPhase' = "eof"
        /\ pos >= Size[Target]
        /\ Send(Text("eof"))
    BY <1>0, <1>9 DEF SendEof, ClientInv
  <2>2. Sends = <<"block", pos>> /\ Sends' = <<"end", 0>>
    BY <2>1 DEF Sends
  <2>3. Fits(Sends, Text("eof")) /\ Sends' = After(Text("eof"))
    BY <1>2, <2>1, <2>2 DEF Fits, After
  <2>4. Chained
    BY <2>1 DEF Queued, InFile
  <2>5. Base' = Base /\ Expects' = Expects /\ Flowing'
    BY <1>4, <2>1 DEF RecvOffset
  <2>6. Chained'
    BY <1>0, <1>1, <1>2, <2>1, <2>3, <2>4, <2>5, ChainSend
  <2> QED
    BY <2>1, <2>5, <2>6 DEF Queued
<1>10. CASE RecvEof
  <2>1. /\ toClient # <<>> /\ cPhase = "eof"
        /\ toServer = <<>> /\ toServer' = <<>>
        /\ NextFile(sending + 1) = Target
        /\ MoveTo(sending + 1, Base)
    BY <1>0, <1>10 DEF RecvEof, ClientInv, Consume, Base
  <2>2. pos' = Base /\ cPhase' = IF Target < FileCount THEN "read" ELSE "counts"
    BY <2>1 DEF MoveTo
  <2>3. Base' = Base /\ Expects' = <<"block", Base>> /\ Flowing'
    BY <1>4, <2>1 DEF RecvOffset, Queued
  <2>4. InFile' => Chained'
    <3>1. SUFFICES ASSUME InFile' PROVE Chained'
      OBVIOUS
    <3>2. Sends' = <<"block", Base>>
      BY <2>2, <3>1 DEF InFile, Sends
    <3> QED
      BY <2>1, <2>3, <3>2, ChainEmpty
  <2>5. cPhase' = "counts" => Target' = FileCount
    BY <1>1, <1>5, <2>2, FilesAreEntries
  <2> QED
    BY <2>2, <2>3, <2>4, <2>5 DEF Queued
<1>11. CASE SendFileCount \/ RecvFileEcho \/ RecvDirEcho \/ RecvNothing
  <2>1. /\ cPhase \in {"counts", "fileEcho", "dirEcho", "verdict"}
        /\ cPhase' \in {"fileEcho", "dirEcho", "verdict"} \/ ~ Alive'
    BY <1>11 DEF SendFileCount, RecvFileEcho, RecvDirEcho, RecvNothing, Alive, Running
  <2>2. Flowing'
    BY <1>4, <2>1 DEF RecvOffset
  <2> QED
    BY <1>1, <2>1, <2>2 DEF Queued, InFile
<1>12. CASE Fail \/ RecvVerdict
  BY <1>12 DEF Fail, RecvVerdict, Alive, Running
<1> QED
  BY <1>3, <1>6, <1>7, <1>8, <1>9, <1>10, <1>11, <1>12 DEF ClientMoves
-----------------------------------------------------------------------------
(* The server's steps.                                                     *)

\* A message that waits for the server while it has a file open is of the chain.
LEMMA InFileWhenOpen ==
    ASSUME TypeInv, LockStep, Intact, Queued, sPhase \in {"content", "length"},
           toServer # <<>>
    PROVE  /\ InFile
           /\ Chained
           /\ Fits(Expects, toServer[1])
           /\ Target = entry
<1>1. Target = entry /\ entry \in Files /\ entry # FileCount
  <2>1. entry \in Files /\ Target = NextFile(entry)
    BY DEF Target, TypeInv, InLoops
  <2> QED
    BY <2>1, NextFileOfFile, FilesAreEntries, TreeAssumption
<1>2. InFile
  <2>1. cPhase \in Running /\ cPhase \notin {"counts", "fileEcho", "dirEcho", "verdict"}
    BY <1>1 DEF Queued, Intact, Alive
  <2>2. ClientInv
    BY IntactPaired
  <2>3. cPhase \notin {"offset", "index"} /\ (cPhase = "eof" => toClient = <<>>)
    BY <2>2 DEF ClientInv
  <2> QED
    BY <2>1, <2>3 DEF InFile, Running
<1>3. 1 \in 1 .. Len(toServer)
  BY QueueTypes, TypeParts, TailOf
<1> QED
  BY <1>1, <1>2, <1>3 DEF Queued, Chained, Linked, NextAt

\* The copies when the server's loop begins, and when it comes to the next entry.
LEMMA NothingDelivered ==
    ASSUME TypeInv', saved' = before', entry' = indexA', sPhase' = "loop"
    PROVE  Delivered'
<1>1. /\ saved' \in [Entries -> Bytestrings]
      /\ indexA' \in Int
      /\ fileOffset' \in Int
  BY TreeAssumption DEF TypeInv, TypeOK, TransferTypeOK, Bytestrings, Entries
<1>2. ASSUME NEW i \in Files
      PROVE  /\ Added(i)' = 0
             /\ Piece(Base, i, Added(i))' = <<>>
             /\ saved'[i] \o <<>> = saved'[i]
             /\ Rest(i)' \in Nat
  <2>1. saved'[i] \in Bytestrings
    BY <1>1, SizeType
  <2>2. Len(saved'[i]) \in Nat
    BY <2>1, ConcatBytes
  <2>3. Added(i)' = 0
    BY <2>2 DEF Added
  <2>4. Piece(Base, i, Added(i))' = <<>>
    BY <2>3 DEF Piece
  <2>5. saved'[i] \o <<>> = saved'[i]
    BY <2>1, ConcatEmptySeq DEF Bytestrings
  <2>6. Rest(i)' \in Nat
    BY <1>1, SizeType, SeekType DEF Rest, Base, Seek
  <2> QED
    BY <2>3, <2>4, <2>5, <2>6
<1>3. ASSUME NEW i \in Files
      PROVE  /\ saved'[i] = before'[i] \o Piece(Base, i, Added(i))'
             /\ Added(i)' \in 0 .. Rest(i)'
             /\ ~ (indexA' <= i /\ i < entry')
  <2>1. saved'[i] = before'[i] \o Piece(Base, i, Added(i))'
    BY <1>2
  <2>2. Added(i)' \in 0 .. Rest(i)'
    BY <1>2
  <2>3. i \in Int
    BY FilesAreEntries
  <2> QED
    BY <1>1, <2>1, <2>2, <2>3
<1>4. entry' >= indexA'
  BY <1>1
<1> QED
  BY <1>2, <1>3, <1>4 DEF Delivered

\* The server goes on to the next entry when this one needs nothing more.
LEMMA NextDelivered ==
    ASSUME TypeInv, Delivered, UNCHANGED <<saved, before, indexA, fileOffset>>,
           entry' = entry + 1,
           entry \in Files => Added(entry) = Rest(entry)
    PROVE  Delivered'
<1>1. entry \in Int /\ indexA \in Int /\ \A i \in Files : i \in Int
  BY FilesAreEntries, TreeAssumption DEF TypeInv, TypeOK, TransferTypeOK, Entries
<1>2. \A i \in Files :
        Added(i)' = Added(i) /\ Piece(Base, i, Added(i))' = Piece(Base, i, Added(i)) /\ Rest(i)' = Rest(i)
  BY DEF Added, Piece, Rest, Base
<1>3. ASSUME NEW i \in Files
      PROVE  /\ i < indexA \/ i > entry + 1 \/ i = entry + 1 => Added(i) = 0
             /\ indexA <= i /\ i < entry + 1 => Added(i) = Rest(i)
  BY <1>1 DEF Delivered
<1>4. entry + 1 >= indexA
  BY <1>1 DEF Delivered
<1> QED
  BY <1>2, <1>3, <1>4 DEF Delivered

\* The server changes its phase, but not the entry.
LEMMA SameDelivered ==
    ASSUME Delivered, UNCHANGED <<saved, before, indexA, fileOffset, entry>>,
           sPhase' # "loop"
    PROVE  Delivered'
  BY DEF Delivered, Added, Piece, Rest, Base

\* A block that fits the copy is written to it.
LEMMA WriteDelivered ==
    ASSUME TypeInv, Delivered, entry \in Files, sPhase = "length", sPhase' = "content",
           block.n > 0, block.file = entry, block.at = Base + Added(entry),
           block.at + block.n <= Size[entry],
           WriteBytes(Bytes(block, block.n)), fileOffset' = fileOffset
    PROVE  Delivered' /\ Added(entry)' = Added(entry) + block.n
<1> DEFINE n == Added(entry)
<1>1. /\ block \in Block /\ block.n \in Nat
      /\ Base \in Nat
      /\ Size[entry] \in Nat
  BY BaseType, SizeType, TransferAssumption DEF TypeInv, TypeOK, TransferTypeOK, Block
<1>2. n \in 0 .. Rest(entry) /\ saved[entry] = before[entry] \o Piece(Base, entry, n)
  BY DEF Delivered
<1>3. /\ \A i \in Entries \ {entry} : saved'[i] = saved[i]
      /\ saved'[entry] = saved[entry] \o Bytes(block, block.n)
      /\ UNCHANGED <<before, indexA, entry>>
  BY <1>1, WriteType, TypeParts
<1>5. n \in Nat /\ n + block.n \in 0 .. Rest(entry)
  BY <1>1, <1>2 DEF Rest
<1>7. saved'[entry] = before[entry] \o Piece(Base, entry, n + block.n)
  BY <1>1, <1>2, <1>5, WriteAdds, TypeParts
<1>8. Added(entry)' = n + block.n
  BY <1>1, <1>2, <1>5, WriteAdds, TypeParts
<1>9. ASSUME NEW i \in Files
      PROVE  /\ saved'[i] = before[i] \o Piece(Base, i, Added(i)')
             /\ Added(i)' \in 0 .. Rest(i)
             /\ i < indexA \/ i > entry => Added(i)' = 0
             /\ indexA <= i /\ i < entry => Added(i)' = Rest(i)
  <2>1. CASE i = entry
    <3>1. Added(i)' = n + block.n
      <4>1. Added(i)' = Added(entry)'
        BY <1>3, <2>1 DEF Added
      <4> QED
        BY <1>8, <4>1
    <3>2. ~ (i < indexA) /\ ~ (i > entry) /\ ~ (i < entry)
      <4>1. entry \in Int /\ entry >= indexA /\ indexA \in Int
        BY FilesAreEntries, TreeAssumption
        DEF Delivered, TypeInv, TypeOK, TransferTypeOK, Entries
      <4> QED
        BY <2>1, <4>1
    <3> HIDE DEF n
    <3> QED
      BY <1>5, <1>7, <2>1, <3>1, <3>2
  <2>2. CASE i # entry
    <3>1. saved'[i] = saved[i] /\ Added(i)' = Added(i)
      BY <1>3, <2>2, SizeType DEF Added
    <3> QED
      BY <3>1 DEF Delivered
  <2> QED
    BY <2>1, <2>2
<1>10. \A i \in Files : Rest(i)' = Rest(i) /\ \A k : Piece(Base, i, k)' = Piece(Base, i, k)
  BY DEF Rest, Piece, Base
<1>11. Delivered'
  BY <1>3, <1>9, <1>10 DEF Delivered, Piece, Base
<1> QED
  BY <1>8, <1>11

LEMMA ServerStreaming ==
    ASSUME TypeInv, TypeInv', LockStep, Intact, Flowing, Queued, ServerStep,
           sPhase' \in Serving, Clean'
    PROVE  Flowing' /\ Queued'
<1>0. /\ UNCHANGED <<cPhase, sending, fileOffset, pos>>
      /\ Base' = Base
      /\ Sends' = Sends
  BY DEF ServerStep, clientSide, client, cursor, Base, Sends, ReadHere
<1>1. /\ Alive /\ ToServerInv /\ ClientInv /\ sPhase \in Serving
      /\ sPhase = "length" => block.file = entry
  BY IntactPaired DEF Intact, Flowing
<1>2. \A type : Recv(type) => Arrived(type) /\ toServer # <<>> /\ Drop
  BY <1>1 DEF Recv, Nothing, Arrived
<1>3. toServer # <<>> => Head(toServer) = toServer[1]
  BY QueueTypes, TypeParts, TailOf
<1>4. CASE AckOffset
  <2>1. /\ sPhase = "ackOffset" /\ sPhase' = "ackIndex"
        /\ UNCHANGED <<saved, before, entry, indexA>>
        /\ toServer # <<>>
    BY <1>2, <1>4 DEF AckOffset, store
  <2>2. Target' = Target
    BY <2>1 DEF Target
  <2>3. cPhase \notin {"read", "length", "eof"}
    BY <1>1, <2>1 DEF ClientInv
  <2> QED
    BY <1>0, <2>1, <2>2, <2>3 DEF Flowing, Queued, InFile
<1>5. CASE AckIndex
  <2>1. /\ sPhase = "ackIndex" /\ sPhase' = "loop"
        /\ UNCHANGED <<saved, before, indexA, toClient>>
        /\ entry' = indexA
        /\ Arrived("ack") /\ toServer # <<>> /\ Drop
    BY <1>2, <1>5 DEF AckIndex, store
  <2>2. Target' = Target
    BY <2>1 DEF Target
  <2>3. Delivered'
    BY <2>1, NothingDelivered DEF Flowing
  <2>4. Expects' = <<"block", Base>> /\ After(toServer[1]) = <<"block", Base>>
    BY <1>0, <1>3, <2>1 DEF Expects, After, Arrived
  <2>5. InFile' => Chained'
    BY <1>0, <2>1, <2>2, <2>4, ChainDrop DEF Queued, InFile
  <2>6. cPhase = "eof" => toClient = <<>>
    BY <1>1, <2>1 DEF ClientInv
  <2> QED
    BY <1>0, <2>1, <2>2, <2>3, <2>5, <2>6 DEF Flowing, Queued
<1>6. CASE Loop /\ UNCHANGED <<mishaps, connected, toServer, toClient>>
  <2>1. /\ sPhase = "loop" /\ sPhase' \in {"loop", "content", "fileCnt"}
        /\ UNCHANGED <<saved, before, indexA>>
        /\ Delivered
    BY <1>6 DEF Loop, MakeDirectory, SkipEntry, OpenFile, EndLoop, store, Flowing
  <2>2. \/ sPhase' = "loop" /\ entry' = entry + 1 /\ entry \notin Files
        \/ sPhase' # "loop" /\ entry' = entry /\ (sPhase' = "content" => entry \in Files)
    BY <1>6 DEF Loop, MakeDirectory, SkipEntry, OpenFile, EndLoop, Files, Entries, TypeInv,
                TypeOK, TransferTypeOK
  <2>3. Delivered'
    BY <1>0, <2>1, <2>2, NextDelivered, SameDelivered
  <2>4. Target' = Target
    <3>1. entry \in Int
      BY DEF TypeInv, TypeOK, TransferTypeOK
    <3>2. NextFile(entry') = NextFile(entry)
      BY <2>2, <3>1, NextFileSkips
    <3> QED
      BY <2>1, <3>2 DEF Target
  <2>5. Expects' = Expects
    <3>1. CASE sPhase' = "content"
      <4>1. entry' = entry /\ entry \in Files
        BY <2>2, <3>1
      <4>2. Added(entry) = 0
        BY <2>1, <4>1 DEF Delivered
      <4>3. Added(entry)' = 0 /\ Base \in Nat
        BY <2>1, <4>1, <4>2, BaseType DEF Added
      <4>4. Base + Added(entry)' = Base
        BY <4>3
      <4> QED
        BY <1>0, <2>1, <3>1, <4>4 DEF Expects
    <3>2. CASE sPhase' # "content"
      BY <1>0, <2>1, <3>2 DEF Expects
    <3> QED
      BY <3>1, <3>2
  <2>6. Queued'
    BY <1>0, <1>6, <2>4, <2>5, ChainSame DEF Queued, InFile
  <2> QED
    BY <2>1, <2>3, <2>6 DEF Flowing
<1>7. CASE RecvEndOfFile
  <2>1. /\ Arrived("eof") /\ toServer # <<>> /\ Drop
        /\ sPhase = "content" /\ sPhase' = "loop"
        /\ entry' = entry + 1
        /\ UNCHANGED <<saved, before, indexA>>
        /\ Delivered
    BY <1>7 DEF RecvEndOfFile, TakeEndOfFile, store, Flowing, Arrived, Clean, Mishap
  <2>2. toServer' = <<>> /\ cPhase = "eof"
    BY <1>1, <2>1, EofIsLast
  <2>3. Fits(Expects, toServer[1]) /\ Target = entry /\ entry \in Files
    BY <2>1, InFileWhenOpen DEF TypeInv, InLoops
  <2>4. Added(entry) = Rest(entry)
    <3>1. Expects = <<"block", Base + Added(entry)>>
      BY <2>1 DEF Expects
    <3>2. Base + Added(entry) >= Size[entry]
      BY <1>3, <2>1, <2>3, <3>1 DEF Fits, Arrived
    <3>3. Added(entry) \in 0 .. Rest(entry) /\ Base \in Nat /\ Size[entry] \in Nat
      BY <2>1, <2>3, BaseType, SizeType DEF Delivered
    <3> QED
      BY <3>2, <3>3 DEF Rest
  <2>5. Delivered'
    BY <1>0, <2>1, <2>4, NextDelivered
  <2>6. toClient' # <<>>
    <3>1. Reply("eof") \in ClientMessage /\ toClient \in Seq(ClientMessage)
      BY TextType, QueueTypes, TypeParts
    <3> QED
      BY <1>7, <3>1 DEF RecvEndOfFile, Answer
  <2>7. Expects' = <<"block", Base>>
    BY <1>0, <2>1 DEF Expects
  <2> QED
    BY <1>0, <2>1, <2>2, <2>5, <2>6, <2>7 DEF Flowing, Queued, InFile
<1>8. CASE RecvBlock
  <2>1. /\ Arrived("block") /\ toServer # <<>> /\ Drop
        /\ sPhase = "content" /\ sPhase' = "length"
        /\ block' = toServer[1].block
        /\ UNCHANGED <<saved, before, entry, indexA, toClient>>
        /\ Delivered
    BY <1>2, <1>3, <1>8 DEF RecvBlock, TakeBlock, store, Flowing
  <2>2. InFile /\ Chained /\ Fits(Expects, toServer[1]) /\ Target = entry
    BY <2>1, InFileWhenOpen
  <2>3. /\ block'.n > 0
        /\ <<"block", block'.at>> = <<"block", Base + Added(entry)>>
        /\ block'.at + block'.n <= Size[entry]
    BY <1>3, <2>1, <2>2 DEF Fits, Arrived, Expects
  <2>4. block'.at = Base' + Added(entry)'
    BY <1>0, <2>1, <2>3 DEF Added
  <2>5. Target' = Target
    BY <2>1 DEF Target
  <2>6. Expects' = After(toServer[1])
    BY <1>3, <2>1 DEF Expects, After, Arrived
  <2>7. Chained'
    BY <1>0, <2>1, <2>2, <2>5, <2>6, ChainDrop
  <2>8. Delivered'
    BY <1>0, <2>1, SameDelivered
  <2>9. Flowing'
    BY <2>1, <2>3, <2>4, <2>8 DEF Flowing
  <2>10. Queued'
    BY <1>0, <2>1, <2>2, <2>7 DEF Queued, InFile
  <2> QED
    BY <2>9, <2>10
<1>9. CASE RecvLength
  <2>1. /\ Arrived("length") /\ toServer # <<>> /\ Drop
        /\ sPhase = "length" /\ sPhase' = "content"
        /\ WriteBytes(Bytes(block, toServer[1].block.n))
        /\ UNCHANGED <<before, entry, indexA, toClient>>
        /\ Delivered
        /\ entry \in Files
    BY <1>2, <1>3, <1>9 DEF RecvLength, WriteBytes, Flowing, TypeInv, InLoops
  <2>2. InFile /\ Chained /\ Fits(Expects, toServer[1]) /\ Target = entry
    BY <2>1, InFileWhenOpen
  <2>3. <<"length", toServer[1].block>> = <<"length", block>> /\ toServer[1].type = "length"
    BY <1>3, <2>1, <2>2 DEF Fits, Arrived, Expects
  <2>4. Delivered' /\ Added(entry)' = Added(entry) + block.n
    BY <1>0, <1>1, <2>1, <2>3, WriteDelivered DEF Flowing
  <2>5. Target' = Target
    BY <2>1 DEF Target
  <2>6. Expects' = After(toServer[1])
    <3>1. /\ block.at = Base + Added(entry)
          /\ block.n \in Nat /\ Base \in Nat /\ Added(entry) \in Int
      <4>1. block.n \in Nat
        BY TransferAssumption DEF TypeInv, TypeOK, TransferTypeOK, Block
      <4> QED
        BY <2>1, <4>1, BaseType DEF Flowing, Delivered
    <3>2. Base + Added(entry)' = block.at + block.n
      BY <2>4, <3>1
    <3>3. Expects' = <<"block", Base + Added(entry)'>>
      BY <1>0, <2>1 DEF Expects
    <3>4. After(toServer[1]) = <<"block", block.at + block.n>>
      BY <2>3 DEF After
    <3> QED
      BY <3>2, <3>3, <3>4
  <2>7. Chained'
    BY <1>0, <2>1, <2>2, <2>5, <2>6, ChainDrop
  <2>8. Flowing'
    BY <2>1, <2>4 DEF Flowing
  <2>9. Queued'
    BY <1>0, <2>1, <2>2, <2>7 DEF Queued, InFile
  <2> QED
    BY <2>8, <2>9
<1>10. CASE RecvLengthShort
  BY <1>10 DEF RecvLengthShort, Clean, Mishap
<1>11. CASE Misalign
  <2>1. sPhase = "content" /\ Arrived("length") /\ toServer # <<>>
    BY <1>11 DEF Misalign, Arrived
  <2>2. Fits(Expects, toServer[1])
    BY <2>1, InFileWhenOpen
  <2> QED
    BY <1>3, <2>1, <2>2 DEF Fits, Arrived, Expects
<1>12. CASE RecvMisaligned
  BY <1>12 DEF RecvMisaligned, Flowing
<1>13. CASE FileCnt
  <2>1. /\ sPhase = "fileCnt" /\ sPhase' = "dirCnt"
        /\ UNCHANGED <<saved, before, entry, indexA>>
        /\ entry = FileCount
        /\ Delivered
        /\ toServer # <<>>
    BY <1>2, <1>13 DEF FileCnt, store, Flowing, TypeInv, InLoops
  <2>2. Target = FileCount /\ Target' = FileCount
    BY <2>1, NextFileOfEnd DEF Target
  <2>3. FileCount \notin Files
    BY FilesAreEntries, TreeAssumption
  <2>4. cPhase \notin {"read", "length", "eof"}
    BY <1>1, <2>1, <2>2, <2>3 DEF ClientInv, TypeInv, InLoops
  <2>5. Delivered'
    BY <1>0, <2>1, SameDelivered
  <2> QED
    BY <1>0, <2>1, <2>2, <2>4, <2>5 DEF Flowing, Queued, InFile
<1>14. CASE Accept \/ DirCnt \/ RecvMarker
  BY <1>1, <1>14 DEF Accept, DirCnt, RecvMarker, Serving, Clean, Mishap
<1> QED
  BY <1>4, <1>5, <1>6, <1>7, <1>8, <1>9, <1>10, <1>11, <1>12, <1>13, <1>14 DEF ServerStep
-----------------------------------------------------------------------------
\* A session begins with the copies as FilePathCheck finds them.
LEMMA AcceptStreaming ==
    ASSUME LockStep, Accept, UNCHANGED cPhase, Alive
    PROVE  Flowing' /\ Queued'
<1>1. /\ cPhase' = "offset"
      /\ sPhase' = "ackOffset"
      /\ saved' = saved
      /\ before' = saved
  BY DEF Accept, LockStep, Alive, Running
<1> QED
  BY <1>1 DEF Flowing, Queued, InFile

\* Which steps an intact session is the result of.
LEMMA IntactBefore ==
    ASSUME LockStep, Next, Intact'
    PROVE  \/ ClientStep /\ Intact /\ (ClientMoves \/ RecvVerdict)
              /\ UNCHANGED <<serverSide, mishaps>>
           \/ ServerStep /\ ~ Accept /\ Intact /\ UNCHANGED clientSide
           \/ ServerStep /\ Accept /\ Alive /\ UNCHANGED clientSide
<1>0. sPhase' \in Serving /\ Alive' /\ Clean' /\ sPhase' \notin {"accept", "start", "down"}
  BY DEF Intact, Serving
<1>1. CASE ClientStep
  <2>0. ~ Guess
    BY <1>0, <1>1
    DEF ClientStep, Guess, GuessOffset, GuessIndex, NothingComes, LockStep, serverSide, server
  <2>1. UNCHANGED <<serverSide, mishaps>> /\ (ClientMoves \/ RecvVerdict)
    BY <1>1, <2>0 DEF ClientStep
  <2>2. Alive
    BY <2>1
    DEF ClientMoves, RecvOffset, RecvIndex, SendBlock, SendLength, SendEof, RecvEof,
        SendFileCount, RecvFileEcho, RecvDirEcho, RecvNothing, Fail, RecvVerdict, Alive, Running
  <2> QED
    BY <1>0, <1>1, <2>1, <2>2 DEF Intact, Clean, serverSide, server
<1>2. CASE ServerStep
  <2>1. UNCHANGED clientSide /\ Alive
    BY <1>0, <1>2 DEF ServerStep, clientSide, client, Alive
  <2>2. CASE ~ Accept
    <3>1. sPhase \in Serving
      BY <1>2, <2>2
      DEF ServerStep, AckOffset, AckIndex, Loop, MakeDirectory, SkipEntry, OpenFile, EndLoop,
          RecvEndOfFile, RecvMarker, RecvBlock, RecvLength, RecvLengthShort, Misalign,
          RecvMisaligned, FileCnt, DirCnt, Serving
    <3>2. mishaps \subseteq mishaps'
      BY <1>2, <2>2
      DEF ServerStep, AckOffset, AckIndex, RecvEndOfFile, RecvMarker, RecvBlock, RecvLength,
          RecvLengthShort, Misalign, RecvMisaligned, FileCnt, DirCnt
    <3> QED
      BY <1>0, <1>2, <2>1, <2>2, <3>1, <3>2 DEF Intact, Clean
  <2> QED
    BY <1>2, <2>1, <2>2
<1>3. CASE Connect \/ KillClient \/ KillServer \/ RestartServer
  BY <1>0, <1>3
  DEF Connect, KillClient, KillServer, RestartServer, serverSide, server, Alive, Running
<1> QED
  BY <1>1, <1>2, <1>3 DEF Next

LEMMA StepStreaming ==
    ASSUME TypeInv, TypeInv', LockStep, Streaming, [Next]_vars
    PROVE  Streaming'
<1> SUFFICES ASSUME Intact' PROVE Flowing' /\ Queued'
  BY DEF Streaming, Flowing, Queued
<1>0. sPhase' \in Serving /\ Alive' /\ Clean'
  BY DEF Intact
<1>1. CASE /\ ClientStep /\ Intact /\ (ClientMoves \/ RecvVerdict)
           /\ UNCHANGED <<serverSide, mishaps>>
  BY <1>0, <1>1, StreamingParts, ClientStreaming
<1>2. CASE ServerStep /\ ~ Accept /\ Intact
  BY <1>0, <1>2, StreamingParts, ServerStreaming
<1>3. CASE Accept /\ Alive /\ UNCHANGED clientSide
  BY <1>3, AcceptStreaming DEF clientSide, client
<1>4. CASE UNCHANGED vars
  <2>1. /\ UNCHANGED <<present, saved, before, sPhase, indexA, entry, block>>
        /\ UNCHANGED <<cPhase, sending, fileOffset, pos, toServer, toClient, mishaps>>
    BY <1>4 DEF vars, serverSide, clientSide, store, server, client, cursor
  <2>2. Intact /\ Flowing /\ Queued
    BY <2>1, StreamingParts DEF Intact, Clean, Alive
  <2>3. Base' = Base /\ Target' = Target
    BY <2>1 DEF Base, Target
  <2>4. Expects' = Expects /\ Sends' = Sends
    BY <2>1, <2>3 DEF Expects, Added, Sends, ReadHere
  <2>5. Queued'
    BY <2>1, <2>2, <2>3, <2>4, ChainSame DEF Queued, InFile
  <2>6. Delivered => Delivered'
    BY <2>1, <2>3 DEF Delivered, Added, Piece, Rest
  <2> QED
    BY <2>1, <2>2, <2>3, <2>5, <2>6 DEF Flowing, Added
<1> QED
  BY <1>1, <1>2, <1>3, <1>4, IntactBefore

\* Every message on its way between the two sides is the one that has to come, and the
\* copies have grown by what the server has taken, as long as nothing goes wrong.
THEOREM StreamIsWhole == Spec => []Streaming
<1>1. Init => Streaming
  BY DEF Init, Streaming, Intact, Serving
<1>2. TypeInv /\ TypeInv' /\ LockStep /\ Streaming /\ [Next]_vars => Streaming'
  BY StepStreaming
<1> QED
  BY <1>1, <1>2, TypeCorrect, InLockStep, PTL DEF Spec

\* What Streaming says at the end of the server's loop.
LEMMA StreamingAppends ==
    ASSUME TypeInv, Streaming
    PROVE  SessionAppends
<1> SUFFICES ASSUME Intact, sPhase \in {"fileCnt", "dirCnt"}, NEW i \in Files
             PROVE  saved[i] = before[i] \o
                        (IF i < indexA THEN <<>> ELSE From(i, Seek(fileOffset)))
  BY DEF SessionAppends
<1>1. Delivered /\ entry = FileCount
  BY DEF Streaming, TypeInv, InLoops
<1>2. saved[i] = before[i] \o Piece(Base, i, Added(i))
  BY <1>1 DEF Delivered
<1>3. CASE i < indexA
  <2>1. Piece(Base, i, Added(i)) = <<>>
    BY <1>1, <1>3 DEF Delivered, Piece
  <2> QED
    BY <1>2, <1>3, <2>1
<1>4. CASE ~ (i < indexA)
  <2>1. i \in Int /\ indexA \in Int /\ i < FileCount
    BY FilesAreEntries, TreeAssumption DEF TypeInv, TypeOK, TransferTypeOK, Entries
  <2>2. Added(i) = Rest(i)
    BY <1>1, <1>4, <2>1 DEF Delivered
  <2>3. Piece(Base, i, Added(i)) = From(i, Seek(fileOffset))
    BY <2>2, PieceIsFrom DEF Base
  <2> QED
    BY <1>2, <1>4, <2>3
<1> QED
  BY <1>3, <1>4

\* For every tree, every size of a block and whatever earlier sessions have left: when
\* the server's loop is over, a session in which nothing has gone wrong has added to
\* each file from indexA on what the client reads from the one offset on, and nothing
\* to the others.
THEOREM SessionDelivers == Spec => []SessionAppends
<1>1. TypeInv /\ Streaming => SessionAppends
  BY StreamingAppends
<1> QED
  BY <1>1, TypeCorrect, StreamIsWhole, PTL
=============================================================================
