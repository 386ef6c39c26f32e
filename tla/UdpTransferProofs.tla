------------------------- MODULE UdpTransferProofs -------------------------
(***************************************************************************)
(* The two sides of the UDP transfer run in lock step as long as no datagram *)
(* overtakes another, whatever is lost and whatever other runs send, and a  *)
(* session left alone delivers the files it was asked to, byte by byte.     *)
(***************************************************************************)
EXTENDS UdpTransferInvariant, TransferProofs

LEMMA TypeParts == TypeInv => TransferTypeOK /\ InLoops
  BY DEF TypeInv, TypeOK
-----------------------------------------------------------------------------
(* Type correctness.                                                       *)

LEMMA TypeInit == Init => TypeInv
<1> SUFFICES ASSUME Init PROVE TypeInv
  OBVIOUS
<1>1. Zeros \in Block /\ Zeros.n = 0
  BY TextType DEF Zeros
<1>2. saved \in [Entries -> Seq(Byte \cup {Junk})] /\ before = saved
  BY DEF Init, TransferInit
<1>3. 0 \in Entries /\ 0 \in 0 .. FileCount /\ 0 \in 0 .. MaxSessions
  BY TreeAssumption, TransferAssumption DEF Entries
<1>4. toServer = <<>> /\ toClient = <<>>
  BY DEF Init, TransferInit
<1>5. TransferTypeOK
  BY <1>1, <1>2, <1>3, <1>4 DEF Init, TransferInit, TransferTypeOK
<1>6. TypeOK
  BY <1>5 DEF Init, TypeOK
<1>7. InLoops
  BY <1>1, <1>4 DEF Init, TransferInit, InLoops
<1> QED
  BY <1>6, <1>7 DEF TypeInv

\* A step of the client's that takes a datagram.
LEMMA ConsumeType ==
    ASSUME TypeInv, Consume
    PROVE  /\ toClient' \in Seq(ClientMessage)
           /\ Got \in ClientMessage
           /\ Got.value \in Int
           /\ Got = toClient[1]
           /\ Len(toClient) \in Nat \ {0}
           /\ Len(toClient') = Len(toClient) - 1
<1>1. toClient \in Seq(ClientMessage) /\ toClient # <<>>
  BY QueueTypes, TypeParts DEF Consume
<1>2. /\ Head(toClient) \in ClientMessage
      /\ Head(toClient) = toClient[1]
      /\ Tail(toClient) \in Seq(ClientMessage)
      /\ Len(toClient) \in Nat \ {0}
      /\ Len(Tail(toClient)) = Len(toClient) - 1
  BY <1>1, TailOf
<1> QED
  BY <1>2 DEF Consume, ClientMessage, Got

\* What a datagram that is sent, lost or swapped with the one before it leaves.
LEMMA SendType ==
    ASSUME TypeInv, NEW m \in ServerMessage, m.block.n > 0 => m.block.file \in Files, Send(m)
    PROVE  ToServerOK(toServer') /\ mishaps' \subseteq Mishap \cup {"earlier"}
<1>1. toServer \in Seq(ServerMessage) /\ ToServerOK(toServer)
  BY DEF TypeInv, TypeOK, TransferTypeOK, InLoops, ToServerOK
<1>2. mishaps' \subseteq Mishap \cup {"earlier"}
  BY DEF TypeInv, TypeOK, TransferTypeOK, Send, Fault, Mishap
<1>3. CASE toServer' = Append(toServer, m)
  BY <1>1, <1>2, <1>3, AppendTo DEF ToServerOK
<1>4. CASE toServer' = toServer
  BY <1>1, <1>2, <1>4
<1>5. CASE /\ toServer # <<>>
           /\ toServer' = [toServer EXCEPT ![Len(toServer)] = m] \o <<toServer[Len(toServer)]>>
  <2> DEFINE q == [toServer EXCEPT ![Len(toServer)] = m]
             last == toServer[Len(toServer)]
  <2>1. Len(toServer) \in 1 .. Len(toServer) /\ Len(toServer) \in Nat \ {0}
    BY <1>1, <1>5, TailOf
  <2>2. last \in ServerMessage /\ (last.block.n > 0 => last.block.file \in Files)
    BY <1>1, <2>1 DEF ToServerOK
  <2>3. /\ q \in Seq(ServerMessage)
        /\ Len(q) = Len(toServer)
        /\ \A k \in 1 .. Len(q) : q[k] = toServer[k] \/ q[k] = m
    BY <1>1, <2>1
  <2>0. toServer' = q \o <<last>>
    BY <1>5
  <2> HIDE DEF q, last
  <2>4. toServer' = Append(q, last)
    BY <2>0, <2>2, <2>3, AppendIsConcat
  <2>5. ToServerOK(toServer')
    <3>1. /\ Append(q, last) \in Seq(ServerMessage)
          /\ Len(Append(q, last)) = Len(q) + 1
          /\ \A k \in 1 .. Len(q) : Append(q, last)[k] = q[k]
          /\ Append(q, last)[Len(q) + 1] = last
      BY <2>2, <2>3, AppendTo
    <3>2. \A j \in 1 .. Len(q) + 1 :
            Append(q, last)[j].block.n > 0 => Append(q, last)[j].block.file \in Files
      BY <1>1, <2>1, <2>2, <2>3, <3>1 DEF ToServerOK
    <3> QED
      BY <2>4, <3>1, <3>2 DEF ToServerOK
  <2> QED
    BY <1>2, <2>5
<1> QED
  BY <1>3, <1>4, <1>5 DEF Send

\* The part of TypeInv that is the client's.
ClientTypes ==
    /\ cPhase \in Running \cup {"idle", "done", "failed", "killed"}
    /\ sending \in 0 .. FileCount
    /\ fileOffset \in Int
    /\ pos \in Nat
    /\ ToServerOK(toServer)
    /\ toClient \in Seq(ClientMessage)
    /\ mishaps \subseteq Mishap \cup {"earlier"}
    /\ cPhase \in {"read", "length", "eof"} => sending \in Files
    /\ cPhase = "length" => pos < Size[sending]

LEMMA ClientPart == TypeInv => ClientTypes
  BY DEF TypeInv, TypeOK, TransferTypeOK, InLoops, ClientTypes, ToServerOK

\* The client's steps keep its part.
LEMMA ClientMovesType ==
    ASSUME TypeInv, ClientStep
    PROVE  ClientTypes'
<1> ClientTypes
  BY ClientPart
<1> USE DEF ClientTypes, Running
<1>a. ASSUME NEW t \in {"ack", "eof", "count"}, Send(Text(t))
      PROVE  ToServerOK(toServer') /\ mishaps' \subseteq Mishap \cup {"earlier"}
  BY <1>a, TextType, SendType DEF Zeros
<1>1. CASE RecvOffset
  BY <1>1, <1>a, ConsumeType DEF RecvOffset
<1>2. CASE RecvIndex
  <2>1. Got.value \in Int /\ toClient' \in Seq(ClientMessage)
    BY <1>2, ConsumeType DEF RecvIndex
  <2> QED
    BY <1>2, <1>a, <2>1, MoveToType DEF RecvIndex
<1>3. CASE SendBlock
  <2> DEFINE m == [type |-> "block", block |-> ReadHere]
  <2>1. ReadHere \in Block /\ ReadHere.file \in Files
    BY <1>3, ReadHereType DEF SendBlock
  <2>2. m \in ServerMessage /\ m.block.file \in Files
    BY <2>1 DEF ServerMessage
  <2>3. ToServerOK(toServer') /\ mishaps' \subseteq Mishap \cup {"earlier"}
    BY <1>3, <2>2, SendType DEF SendBlock
  <2> QED
    BY <1>3, <2>3 DEF SendBlock, cursor
<1>4. CASE SendLength
  <2> DEFINE m == [type |-> "length", block |-> ReadHere]
  <2>1. /\ ReadHere \in Block
        /\ ReadHere.file \in Files
        /\ pos + ReadHere.n \in Nat
    BY <1>4, ReadHereType DEF SendLength
  <2>2. m \in ServerMessage /\ m.block.file \in Files
    BY <2>1 DEF ServerMessage
  <2>3. ToServerOK(toServer') /\ mishaps' \subseteq Mishap \cup {"earlier"}
    BY <1>4, <2>2, SendType DEF SendLength
  <2> QED
    BY <1>4, <2>1, <2>3 DEF SendLength
<1>5. CASE SendEof
  BY <1>5, <1>a DEF SendEof, cursor
<1>6. CASE RecvEof
  <2>1. sending + 1 \in Int /\ toClient' \in Seq(ClientMessage)
    BY <1>6, ConsumeType DEF RecvEof
  <2>2. CASE MoveTo(sending + 1, 0)
    BY <1>6, <2>1, <2>2, MoveToType DEF RecvEof
  <2>3. CASE cPhase' = "failed" /\ UNCHANGED cursor
    BY <1>6, <2>1, <2>3 DEF RecvEof, cursor
  <2> QED
    BY <1>6, <2>2, <2>3 DEF RecvEof
<1>7. CASE SendFileCount
  BY <1>7, <1>a DEF SendFileCount, cursor
<1>8. CASE RecvFileEcho
  BY <1>8, <1>a, ConsumeType DEF RecvFileEcho, cursor
<1>9. CASE RecvLast
  BY <1>9, ConsumeType DEF RecvLast, cursor
<1> QED
  BY <1>1, <1>2, <1>3, <1>4, <1>5, <1>6, <1>7, <1>8, <1>9 DEF ClientStep

\* Every step of the client's, of a user who starts or kills it, and of another run.
LEMMA ClientType ==
    ASSUME TypeInv, Connect \/ ClientStep \/ KillClient \/ Stray
    PROVE  TypeInv'
<1> USE DEF TypeInv
<1>1. CASE Connect
  <2>1. mishaps' \subseteq Mishap \cup {"earlier"}
    BY <1>1 DEF Connect, Earlier
  <2>2. toClient' \in Seq(ClientMessage)
    BY <1>1 DEF Connect
  <2> QED
    BY <1>1, <2>1, <2>2, TransferAssumption
    DEF Connect, TypeOK, TransferTypeOK, InLoops, Running, Serving, store, cursor
<1>2. CASE KillClient
  BY <1>2 DEF KillClient, TypeOK, TransferTypeOK, InLoops, serverSide, store, server, cursor
<1>3. CASE ClientStep
  <2>1. ClientTypes'
    BY <1>3, ClientMovesType
  <2> QED
    BY <1>3, <2>1
    DEF ClientStep, ClientTypes, ToServerOK, TypeOK, TransferTypeOK, InLoops, serverSide,
        store, server
<1>4. CASE Stray
  <2>1. Text("stray") \in ServerMessage /\ Text("stray").block.n = 0
    BY TextType DEF Zeros
  <2>2. ToServerOK(toServer)
    BY ClientPart DEF ClientTypes
  <2>3. ToServerOK(toServer')
    BY <1>4, <2>1, <2>2, AppendTo DEF Stray, ToServerOK
  <2>4. mishaps' \subseteq Mishap \cup {"earlier"}
    BY <1>4 DEF Stray, Fault, TypeOK, TransferTypeOK, Mishap
  <2>5. sessions' \in 0 .. MaxSessions
    BY <1>4, TransferAssumption DEF Stray, TypeOK, TransferTypeOK
  <2> QED
    BY <1>4, <2>3, <2>4, <2>5
    DEF Stray, ToServerOK, TypeOK, TransferTypeOK, InLoops, serverSide, store, server,
        client, cursor
<1> QED
  BY <1>1, <1>2, <1>3, <1>4

\* What is left after the server has received.
LEMMA ReceiveType ==
    ASSUME TypeInv, Receive
    PROVE  ToServerOK(toServer')
<1>1. ToServerOK(toServer)
  BY DEF TypeInv, TypeOK, TransferTypeOK, InLoops, ToServerOK
<1> QED
  BY <1>1, TailOf DEF Receive, ToServerOK

\* What it receives.
LEMMA DatagramType ==
    ASSUME TypeInv, toServer # <<>>
    PROVE  /\ Datagram = toServer[1]
           /\ 1 \in 1 .. Len(toServer)
           /\ Datagram \in ServerMessage
           /\ Datagram.block \in Block
           /\ Datagram.block.n \in Nat
           /\ Datagram.block.n > 0 => Datagram.block.file \in Files
<1>1. toServer \in Seq(ServerMessage)
  BY DEF TypeInv, TypeOK, TransferTypeOK
<1>2. /\ Head(toServer) \in ServerMessage
      /\ Head(toServer) = toServer[1]
      /\ 1 \in 1 .. Len(toServer)
  BY <1>1, TailOf
<1>3. Head(toServer).block \in Block
  BY <1>2 DEF ServerMessage
<1> QED
  BY <1>2, <1>3, TransferAssumption DEF TypeInv, InLoops, Block, Datagram

\* What the server answers, wholly or in part.
LEMMA AnswerType ==
    ASSUME TypeInv, NEW q \in Seq(ClientMessage), Answer(q)
    PROVE  toClient' \in Seq(ClientMessage) /\ mishaps' \subseteq Mishap \cup {"earlier"}
<1>1. toClient \in Seq(ClientMessage) /\ mishaps \subseteq Mishap \cup {"earlier"}
  BY DEF TypeInv, TypeOK, TransferTypeOK
<1>2. CASE toClient' = toClient \o q /\ UNCHANGED mishaps
  BY <1>1, <1>2, Concatenated
<1>3. CASE UNCHANGED <<toClient, mishaps>>
  BY <1>1, <1>3
<1>4. CASE /\ MayLose /\ Fault("lost")
           /\ \E n \in 0 .. Len(q) - 1 : toClient' = toClient \o SubSeq(q, 1, n)
  <2>1. PICK n \in 0 .. Len(q) - 1 : toClient' = toClient \o SubSeq(q, 1, n)
    BY <1>4
  <2>2. SubSeq(q, 1, n) \in Seq(ClientMessage)
    <3>1. n \in Nat /\ n <= Len(q) /\ Len(q) \in Nat
      BY <2>1, LenProperties
    <3> QED
      BY <3>1, SubSeqProperties
  <2>3. mishaps' \subseteq Mishap \cup {"earlier"}
    BY <1>1, <1>4 DEF Fault, Mishap
  <2> QED
    BY <1>1, <2>1, <2>2, <2>3, Concatenated
<1> QED
  BY <1>2, <1>3, <1>4 DEF Answer

\* The part of TypeInv that is the server's.
ServerTypes ==
    /\ present \subseteq Entries
    /\ saved \in [Entries -> Seq(Byte \cup {Junk})]
    /\ before \in [Entries -> Seq(Byte \cup {Junk})]
    /\ sPhase \in Serving \cup {"idle", "start", "down"}
    /\ indexA \in Entries
    /\ entry \in 0 .. FileCount
    /\ block \in Block
    /\ ToServerOK(toServer)
    /\ toClient \in Seq(ClientMessage)
    /\ mishaps \subseteq Mishap \cup {"earlier"}
    /\ sPhase \in {"content", "length", "misaligned"} => entry \in Files
    /\ sPhase \in {"fileCnt", "dirCnt"} => entry = FileCount
    /\ block.n > 0 => block.file \in Files

LEMMA ServerPart == TypeInv => ServerTypes
  BY DEF TypeInv, TypeOK, TransferTypeOK, InLoops, ServerTypes, ToServerOK

\* The server's steps keep its part.
LEMMA ServerMovesType ==
    ASSUME TypeInv, ServerStep
    PROVE  ServerTypes'
<1> ServerTypes
  BY ServerPart
<1> USE DEF ServerTypes, Serving, store
<1>0. entry < FileCount => entry \in Entries /\ entry + 1 \in 0 .. FileCount
  BY TreeAssumption DEF Entries
<1>1. CASE SendOffset
  <2>1. StartIndex \in Entries /\ StartOffset \in Int
    BY StartType, TypeParts
  <2>2. <<[type |-> "offset", value |-> StartOffset]>> \in Seq(ClientMessage)
    BY <2>1 DEF ClientMessage
  <2>3. toClient' \in Seq(ClientMessage)
    BY <1>1, <2>2 DEF SendOffset
  <2>4. mishaps' \subseteq Mishap \cup {"earlier"}
    BY <1>1 DEF SendOffset, Fault, Mishap
  <2> QED
    BY <1>1, <2>1, <2>3, <2>4 DEF SendOffset
<1>2. CASE AckOffset
  <2>1. indexA \in Int
    BY TreeAssumption DEF Entries
  <2>2. <<[type |-> "index", value |-> indexA]>> \in Seq(ClientMessage)
    BY <2>1 DEF ClientMessage
  <2> QED
    BY <1>2, <2>2, AnswerType, ReceiveType DEF AckOffset
<1>3. CASE AckIndex
  <2>1. indexA \in 0 .. FileCount
    BY TreeAssumption DEF Entries
  <2> QED
    BY <1>3, <2>1, ReceiveType DEF AckIndex
<1>4. CASE Loop /\ UNCHANGED <<mishaps, toServer, toClient>>
  <2>1. Kind[entry] = "f" /\ entry \in Entries => entry \in Files
    BY DEF Files
  <2> QED
    BY <1>0, <1>4, <2>1 DEF Loop, MakeDirectory, SkipEntry, OpenFile, EndLoop
<1>5. CASE RecvEndOfFile
  <2>1. <<Reply("eof")>> \in Seq(ClientMessage)
    BY TextType
  <2>2. /\ ToServerOK(toServer')
        /\ toClient' \in Seq(ClientMessage)
        /\ mishaps' \subseteq Mishap \cup {"earlier"}
    BY <1>5, <2>1, AnswerType, ReceiveType DEF RecvEndOfFile
  <2>3. entry + 1 \in 0 .. FileCount
    BY <1>0, <1>5, FilesAreEntries DEF RecvEndOfFile
  <2> QED
    BY <1>5, <2>2, <2>3 DEF RecvEndOfFile, TakeEndOfFile
<1>6. CASE RecvBlock
  <2>1. /\ block' \in Block
        /\ block'.n > 0 => block'.file \in Files
    BY <1>6, DatagramType, TextType DEF RecvBlock, TakeBlock, Zeros, Receive
  <2> QED
    BY <1>6, <2>1, ReceiveType DEF RecvBlock, TakeBlock
<1>7. CASE RecvLength
  <2>1. PICK len \in LengthIn(Datagram) : WriteBytes(Bytes(block, len))
    BY <1>7 DEF RecvLength
  <2>2. len \in Nat
    BY <1>7, <2>1, AnyLengthType, DatagramType DEF LengthIn, RecvLength, Receive
  <2>3. /\ saved' \in [Entries -> Seq(Byte \cup {Junk})]
        /\ UNCHANGED <<present, before, indexA, entry, block>>
    BY <1>7, <2>1, <2>2, WriteType, TypeParts DEF RecvLength
  <2> QED
    BY <1>7, <2>3, ReceiveType DEF RecvLength
<1>8. CASE FileCnt
  <2>1. <<Reply("echo")>> \in Seq(ClientMessage)
    BY TextType
  <2> QED
    BY <1>8, <2>1, AnswerType, ReceiveType DEF FileCnt
<1>9. CASE DirCnt
  <2>1. <<Reply("echo"), Reply("verdict")>> \in Seq(ClientMessage)
    BY TextType
  <2>2. toClient' \in Seq(ClientMessage) /\ mishaps' \subseteq Mishap \cup {"earlier"}
    BY <1>9, <2>1, AnswerType DEF DirCnt
  <2>3. ToServerOK(toServer')
    BY <1>9 DEF DirCnt, ToServerOK
  <2> QED
    BY <1>9, <2>2, <2>3 DEF DirCnt
<1>10. CASE RecvMarker
  <2>1. toClient' \in Seq(ClientMessage)
    <3>1. Reply("eof") \in ClientMessage
      BY TextType
    <3>2. toClient' = toClient \/ toClient' = Append(toClient, Reply("eof"))
      BY <1>10 DEF RecvMarker
    <3>3. Append(toClient, Reply("eof")) \in Seq(ClientMessage)
      BY <3>1
    <3> QED
      BY <3>2, <3>3
  <2>2. entry + 1 \in 0 .. FileCount
    BY <1>0, <1>10, FilesAreEntries DEF RecvMarker
  <2>3. mishaps' \subseteq Mishap \cup {"earlier"}
    BY <1>10 DEF RecvMarker, Mishap
  <2> QED
    BY <1>10, <2>1, <2>2, <2>3, ReceiveType DEF RecvMarker, TakeEndOfFile
<1> QED
  BY <1>1, <1>2, <1>3, <1>4, <1>5, <1>6, <1>7, <1>8, <1>9, <1>10 DEF ServerStep

\* Every step of the server's, and of a user who kills or starts it.
LEMMA ServerType ==
    ASSUME TypeInv, ServerStep \/ KillServer \/ RestartServer
    PROVE  TypeInv'
<1> USE DEF TypeInv
<1>1. CASE ServerStep
  <2>1. ServerTypes'
    BY <1>1, ServerMovesType
  <2> QED
    BY <1>1, <2>1
    DEF ServerStep, ServerTypes, ToServerOK, TypeOK, TransferTypeOK, InLoops, client, cursor
<1>2. CASE KillServer
  <2>1. toServer' \in Seq(ServerMessage) /\ Len(toServer') = 0
    BY <1>2 DEF KillServer
  <2> QED
    BY <1>2, <2>1 DEF KillServer, TypeOK, TransferTypeOK, InLoops, store, client, cursor
<1>3. CASE RestartServer
  BY <1>3 DEF RestartServer, TypeOK, TransferTypeOK, InLoops, store, client, cursor
<1> QED
  BY <1>1, <1>2, <1>3

\* Every variable keeps its type, and each program is in its loop where its state
\* says, whatever is lost, overtaken, sent by other runs or killed.
THEOREM TypeCorrect == Spec => []TypeInv
<1>1. ASSUME TypeInv, [Next]_vars
      PROVE  TypeInv'
  <2>1. CASE UNCHANGED vars
    BY <1>1, <2>1
    DEF vars, serverSide, store, server, client, cursor, TypeInv, TypeOK, TransferTypeOK,
        InLoops
  <2> QED
    BY <1>1, <2>1, ClientType, ServerType DEF Next
<1> QED
  BY <1>1, TypeInit, PTL DEF Spec

\* The types alone, which the run checks: among them that the server never starts from
\* an entry outside its list (server_function.c:86-111), and that no datagram, of whatever
\* run, makes it write to an entry that is not a file.
THEOREM TypesHold == Spec => []TypeOK
<1>1. TypeInv => TypeOK
  BY DEF TypeInv
<1> QED
  BY <1>1, TypeCorrect, PTL
-----------------------------------------------------------------------------
(* Lock step.                                                              *)

\* A text is of its type and holds no block.
LEMMA TextFacts ==
    \A t \in {"ack", "eof", "count", "stray"} :
        Text(t) \in ServerMessage /\ Text(t).block.n = 0 /\ Text(t).type = t
  BY TextType DEF Text, Zeros

\* What waits for the server after a datagram is sent has waited before or is that datagram;
\* if none overtakes, it is the last, or lost.
LEMMA SendLeaves ==
    ASSUME TypeInv, NEW m \in ServerMessage, Send(m)
    PROVE  /\ \A j \in 1 .. Len(toServer') :
                toServer'[j] = m \/ \E k \in 1 .. Len(toServer) : toServer'[j] = toServer[k]
           /\ ~ Listening => toServer' = toServer
           /\ \A kind \in Mishap : kind \in mishaps => kind \in mishaps'
           /\ "overtaken" \notin mishaps' => toServer' \in {toServer, Append(toServer, m)}
<1>1. \A kind \in Mishap : kind \in mishaps => kind \in mishaps'
  BY DEF Send, Fault
<1>2. toServer \in Seq(ServerMessage)
  BY QueueTypes, TypeParts
<1>3. CASE toServer' = Append(toServer, m) /\ Listening
  BY <1>1, <1>2, <1>3, AppendTo
<1>4. CASE toServer' = toServer
  BY <1>1, <1>4
<1>5. CASE /\ Listening /\ Fault("overtaken") /\ toServer # <<>>
           /\ toServer' = [toServer EXCEPT ![Len(toServer)] = m] \o <<toServer[Len(toServer)]>>
  <2> DEFINE q == [toServer EXCEPT ![Len(toServer)] = m]
             last == toServer[Len(toServer)]
  <2>1. Len(toServer) \in 1 .. Len(toServer) /\ Len(toServer) \in Nat \ {0}
    BY <1>2, <1>5, TailOf
  <2>2. last \in ServerMessage
    BY <1>2, <2>1
  <2>3. /\ q \in Seq(ServerMessage)
        /\ Len(q) = Len(toServer)
        /\ \A k \in 1 .. Len(q) : q[k] = toServer[k] \/ q[k] = m
    BY <1>2, <2>1
  <2>4. toServer' = q \o <<last>>
    BY <1>5
  <2> HIDE DEF q
  <2>5. toServer' = Append(q, last)
    BY <2>2, <2>3, <2>4, AppendIsConcat
  <2>6. \A j \in 1 .. Len(toServer') :
          toServer'[j] = m \/ \E k \in 1 .. Len(toServer) : toServer'[j] = toServer[k]
    <3> HIDE DEF last
    <3>1. /\ Len(Append(q, last)) = Len(q) + 1
          /\ \A k \in 1 .. Len(q) : Append(q, last)[k] = q[k]
          /\ Append(q, last)[Len(q) + 1] = last
      BY <2>2, <2>3, AppendTo
    <3> QED
      BY <2>1, <2>3, <2>5, <3>1 DEF last
  <2>7. "overtaken" \in mishaps'
    BY <1>5 DEF Fault
  <2> QED
    BY <1>1, <1>5, <2>6, <2>7
<1> QED
  BY <1>3, <1>4, <1>5 DEF Send

\* What waits after the server has received has waited before, one place behind.
LEMMA ReceiveLeaves ==
    ASSUME TypeInv, Receive
    PROVE  /\ toServer' \in Seq(ServerMessage)
           /\ Len(toServer) \in Nat
           /\ Len(toServer') = Len(toServer) - 1
           /\ \A j \in 1 .. Len(toServer') :
                j + 1 \in 1 .. Len(toServer) /\ toServer'[j] = toServer[j + 1]
<1>1. toServer \in Seq(ServerMessage) /\ toServer # <<>>
  BY QueueTypes, TypeParts DEF Receive
<1> QED
  BY <1>1, TailOf DEF Receive

\* Nothing waits when nobody listens, and no datagram is of another run unless one came.
QueueFits ==
    /\ sPhase \notin Serving \cup {"start"} => toServer = <<>>
    /\ "stray" \notin mishaps => \A j \in 1 .. Len(toServer) : toServer[j].type # "stray"

LEMMA ClientSends ==
    ASSUME TypeInv, ClientStep
    PROVE  \/ UNCHANGED <<toServer, mishaps>>
           \/ \E m \in ServerMessage : m.type # "stray" /\ Send(m)
<1>1. CASE RecvOffset
  BY <1>1, TextFacts DEF RecvOffset
<1>2. CASE RecvIndex
  BY <1>2, TextFacts DEF RecvIndex
<1>3. CASE SendBlock
  <2> DEFINE m == [type |-> "block", block |-> ReadHere]
  <2>1. ReadHere \in Block
    BY <1>3, ReadHereType, TypeParts DEF SendBlock, InLoops, TransferTypeOK
  <2>2. m \in ServerMessage /\ m.type # "stray"
    BY <2>1 DEF ServerMessage
  <2> QED
    BY <1>3, <2>2 DEF SendBlock
<1>4. CASE SendLength
  <2> DEFINE m == [type |-> "length", block |-> ReadHere]
  <2>1. ReadHere \in Block
    BY <1>4, ReadHereType, TypeParts DEF SendLength, InLoops, TransferTypeOK
  <2>2. m \in ServerMessage /\ m.type # "stray"
    BY <2>1 DEF ServerMessage
  <2> QED
    BY <1>4, <2>2 DEF SendLength
<1>5. CASE SendEof
  BY <1>5, TextFacts DEF SendEof
<1>6. CASE RecvEof \/ RecvLast
  BY <1>6 DEF RecvEof, RecvLast
<1>7. CASE SendFileCount
  BY <1>7, TextFacts DEF SendFileCount
<1>8. CASE RecvFileEcho
  BY <1>8, TextFacts DEF RecvFileEcho
<1> QED
  BY <1>1, <1>2, <1>3, <1>4, <1>5, <1>6, <1>7, <1>8 DEF ClientStep

\* The server's steps take one datagram at most, and at the end of the session all.
LEMMA ServerTakes ==
    ASSUME TypeInv, ServerStep
    PROVE  /\ sPhase \in Serving \cup {"start"}
           /\ Receive \/ toServer' = toServer \/ (toServer' = <<>> /\ sPhase' = "idle")
           /\ sPhase' \in Serving \/ (toServer' = <<>> /\ sPhase' = "idle")
           /\ \A kind \in Mishap : kind \in mishaps => kind \in mishaps'
           /\ \A kind \in Mishap \ {"lost", "marker"} : kind \in mishaps' => kind \in mishaps
           /\ "marker" \in mishaps' => "marker" \in mishaps \/ RecvMarker
<1> USE DEF Serving
<1>1. CASE SendOffset
  BY <1>1 DEF SendOffset, Fault
<1>2. CASE AckOffset
  BY <1>2 DEF AckOffset, Answer, Fault
<1>3. CASE AckIndex
  BY <1>3 DEF AckIndex
<1>4. CASE Loop /\ UNCHANGED <<mishaps, toServer, toClient>>
  BY <1>4 DEF Loop, MakeDirectory, SkipEntry, OpenFile, EndLoop
<1>5. CASE RecvEndOfFile
  BY <1>5 DEF RecvEndOfFile, TakeEndOfFile, Answer, Fault
<1>6. CASE RecvBlock
  BY <1>6 DEF RecvBlock, TakeBlock
<1>7. CASE RecvLength
  BY <1>7 DEF RecvLength
<1>8. CASE FileCnt
  BY <1>8 DEF FileCnt, Answer, Fault
<1>9. CASE DirCnt
  BY <1>9 DEF DirCnt, Answer, Fault
<1>10. CASE RecvMarker
  BY <1>10 DEF RecvMarker, TakeEndOfFile
<1> QED
  BY <1>1, <1>2, <1>3, <1>4, <1>5, <1>6, <1>7, <1>8, <1>9, <1>10 DEF ServerStep

LEMMA StepQueue ==
    ASSUME TypeInv, QueueFits, [Next]_vars
    PROVE  QueueFits'
<1> USE DEF QueueFits
<1>1. CASE Connect
  BY <1>1 DEF Connect, Serving
<1>2. CASE ClientStep
  <2>1. sPhase' = sPhase
    BY <1>2 DEF ClientStep, serverSide, server
  <2>2. CASE UNCHANGED <<toServer, mishaps>>
    BY <2>1, <2>2
  <2>3. ASSUME NEW m \in ServerMessage, m.type # "stray", Send(m)
        PROVE  QueueFits'
    BY <2>1, <2>3, SendLeaves DEF Mishap, Listening
  <2> QED
    BY <1>2, <2>2, <2>3, ClientSends
<1>3. CASE Stray
  BY <1>3 DEF Stray, Fault, Listening, serverSide, server
<1>4. CASE ServerStep
  <2>1. CASE Receive
    BY <1>4, <2>1, ServerTakes, ReceiveLeaves DEF Mishap
  <2>2. CASE toServer' = toServer
    BY <1>4, <2>2, ServerTakes DEF Mishap
  <2>3. CASE toServer' = <<>>
    <3>1. Len(toServer') = 0
      BY <2>3
    <3> QED
      BY <2>3, <3>1
  <2> QED
    BY <1>4, <2>1, <2>2, <2>3, ServerTakes
<1>5. CASE KillServer
  <2>1. toServer' = <<>> /\ Len(toServer') = 0
    BY <1>5 DEF KillServer
  <2> QED
    BY <2>1
<1>6. CASE RestartServer
  BY <1>6 DEF RestartServer, Serving
<1>7. CASE KillClient \/ UNCHANGED vars
  BY <1>7 DEF KillClient, vars, serverSide, server
<1> QED
  BY <1>1, <1>2, <1>3, <1>4, <1>5, <1>6, <1>7 DEF Next
\* A client that has not come to the end of its file may send another datagram of it.
LEMMA ToServerSend ==
    ASSUME TypeInv, ToServerInv, Alive, cPhase # "eof",
           NEW m \in ServerMessage, toServer' \in {toServer, Append(toServer, m)},
           m.block.n > 0 => m.block.file = Target,
           m.type = "eof" => cPhase' = "eof",
           Target' = Target
    PROVE  ToServerInv'
<1>1. \A j \in 1 .. Len(toServer) :
        toServer[j].type # "eof" /\ (toServer[j].block.n > 0 => toServer[j].block.file = Target)
  BY DEF ToServerInv
<1>2. CASE toServer' = toServer
  BY <1>1, <1>2 DEF ToServerInv
<1>3. CASE toServer' = Append(toServer, m)
  <2>1. /\ toServer' \in Seq(ServerMessage)
        /\ Len(toServer) \in Nat
        /\ Len(toServer') = Len(toServer) + 1
        /\ \A k \in 1 .. Len(toServer) : toServer'[k] = toServer[k]
        /\ toServer'[Len(toServer) + 1] = m
    BY <1>3, QueueTypes, TypeParts, AppendTo
  <2>2. ASSUME NEW j \in 1 .. Len(toServer')
        PROVE  /\ toServer'[j].block.n > 0 => toServer'[j].block.file = Target
               /\ toServer'[j].type = "eof" => j = Len(toServer') /\ cPhase' = "eof"
    <3>1. CASE j \in 1 .. Len(toServer)
      BY <1>1, <2>1, <3>1
    <3>2. CASE j = Len(toServer) + 1
      BY <2>1, <3>2
    <3> QED
      BY <2>1, <2>2, <3>1, <3>2
  <2> QED
    BY <2>1, <2>2 DEF ToServerInv
<1> QED
  BY <1>2, <1>3

\* Taking the first datagram away does no harm.
LEMMA ToServerDrop ==
    ASSUME TypeInv, ToServerInv, Receive, Target' = Target, cPhase' = cPhase
    PROVE  ToServerInv'
<1>1. /\ Len(toServer) \in Nat
      /\ Len(toServer') = Len(toServer) - 1
      /\ \A j \in 1 .. Len(toServer') :
            j + 1 \in 1 .. Len(toServer) /\ toServer'[j] = toServer[j + 1]
  BY ReceiveLeaves
<1>2. ASSUME NEW j \in 1 .. Len(toServer')
      PROVE  /\ toServer'[j].block.n > 0 => toServer'[j].block.file = Target
             /\ toServer'[j].type = "eof" =>
                  /\ cPhase = "eof" \/ ~Alive
                  /\ \A k \in j + 1 .. Len(toServer') : toServer'[k] = Text("stray")
  <2>1. j + 1 \in 1 .. Len(toServer) /\ toServer'[j] = toServer[j + 1]
    BY <1>1
  <2>2. \A k \in j + 1 .. Len(toServer') :
          k + 1 \in (j + 1) + 1 .. Len(toServer) /\ toServer'[k] = toServer[k + 1]
    BY <1>1
  <2> QED
    BY <2>1, <2>2 DEF ToServerInv
<1> QED
  BY <1>2 DEF ToServerInv, Alive

LEMMA StraysDrop ==
    ASSUME TypeInv, OnlyStrays, Receive
    PROVE  OnlyStrays'
<1>1. \A j \in 1 .. Len(toServer') :
        j + 1 \in 1 .. Len(toServer) /\ toServer'[j] = toServer[j + 1]
  BY ReceiveLeaves
<1> QED
  BY <1>1 DEF OnlyStrays

\* What waits while the client waits for the index.
AckAndStrays ==
    \A j \in 1 .. Len(toServer) :
        /\ toServer[j] \in {Text("ack"), Text("stray")}
        /\ toServer[j] = Text("ack") =>
            \A k \in j + 1 .. Len(toServer) : toServer[k] = Text("stray")

LEMMA AckDrop ==
    ASSUME TypeInv, AckAndStrays, Receive
    PROVE  AckAndStrays' /\ (Datagram = Text("stray") \/ OnlyStrays')
<1>1. /\ Len(toServer) \in Nat
      /\ Len(toServer') = Len(toServer) - 1
      /\ \A j \in 1 .. Len(toServer') :
            j + 1 \in 1 .. Len(toServer) /\ toServer'[j] = toServer[j + 1]
  BY ReceiveLeaves
<1>2. ASSUME NEW j \in 1 .. Len(toServer')
      PROVE  /\ toServer'[j] \in {Text("ack"), Text("stray")}
             /\ toServer'[j] = Text("ack") =>
                  \A k \in j + 1 .. Len(toServer') : toServer'[k] = Text("stray")
  <2>1. j + 1 \in 1 .. Len(toServer) /\ toServer'[j] = toServer[j + 1]
    BY <1>1
  <2>2. \A k \in j + 1 .. Len(toServer') :
          k + 1 \in (j + 1) + 1 .. Len(toServer) /\ toServer'[k] = toServer[k + 1]
    BY <1>1
  <2> QED
    BY <2>1, <2>2 DEF AckAndStrays
<1>3. Datagram = toServer[1] /\ 1 \in 1 .. Len(toServer)
  BY DatagramType DEF Receive
<1>4. CASE toServer[1] = Text("ack")
  <2>1. \A j \in 1 .. Len(toServer') : j + 1 \in 1 + 1 .. Len(toServer)
    BY <1>1
  <2> QED
    BY <1>1, <1>2, <1>3, <1>4, <2>1 DEF AckAndStrays, OnlyStrays
<1> QED
  BY <1>2, <1>3, <1>4 DEF AckAndStrays

\* A datagram of another run does no harm to the lock step.
LEMMA StrayLockStep ==
    ASSUME TypeInv, Stray
    PROVE  /\ OnlyStrays => OnlyStrays'
           /\ Paired => Paired'
<1>1. /\ toServer' \in Seq(ServerMessage)
      /\ Len(toServer) \in Nat
      /\ Len(toServer') = Len(toServer) + 1
      /\ \A k \in 1 .. Len(toServer) : toServer'[k] = toServer[k]
      /\ toServer'[Len(toServer) + 1] = Text("stray")
  BY QueueTypes, TypeParts, AppendTo, TextFacts DEF Stray
<1>2. \A k \in 1 .. Len(toServer') : k \in 1 .. Len(toServer) \/ toServer'[k] = Text("stray")
  BY <1>1
<1>3. OnlyStrays => OnlyStrays'
  BY <1>1, <1>2 DEF OnlyStrays
<1>4. /\ UNCHANGED <<sPhase, indexA, entry, block, cPhase, sending, toClient>>
      /\ Target' = Target /\ Index' = Index /\ Alive' = Alive
  BY DEF Stray, serverSide, server, client, cursor, Target, Index, Alive
<1>5. Text("stray").block.n = 0 /\ Text("stray").type = "stray" /\ Text("stray") # Text("ack")
  BY TextFacts DEF Text
<1>6. ToServerInv => ToServerInv'
  <2> SUFFICES ASSUME ToServerInv, NEW j \in 1 .. Len(toServer')
               PROVE  /\ toServer'[j].block.n > 0 => toServer'[j].block.file = Target
                      /\ toServer'[j].type = "eof" =>
                           /\ cPhase = "eof" \/ ~Alive
                           /\ \A k \in j + 1 .. Len(toServer') : toServer'[k] = Text("stray")
    BY <1>4 DEF ToServerInv
  <2>1. CASE j \in 1 .. Len(toServer)
    <3>1. \A k \in j + 1 .. Len(toServer') :
            k \in j + 1 .. Len(toServer) \/ toServer'[k] = Text("stray")
      BY <1>1
    <3>2. \A k \in j + 1 .. Len(toServer) : toServer'[k] = toServer[k]
      BY <1>1, <2>1
    <3> QED
      BY <1>1, <2>1, <3>1, <3>2 DEF ToServerInv
  <2>2. CASE toServer'[j] = Text("stray")
    BY <1>5, <2>2
  <2> QED
    BY <1>2, <2>1, <2>2
<1>7. AckAndStrays => AckAndStrays'
  <2> SUFFICES ASSUME AckAndStrays, NEW j \in 1 .. Len(toServer')
               PROVE  /\ toServer'[j] \in {Text("ack"), Text("stray")}
                      /\ toServer'[j] = Text("ack") =>
                           \A k \in j + 1 .. Len(toServer') : toServer'[k] = Text("stray")
    BY DEF AckAndStrays
  <2>1. CASE j \in 1 .. Len(toServer)
    <3>1. \A k \in j + 1 .. Len(toServer') :
            k \in j + 1 .. Len(toServer) \/ toServer'[k] = Text("stray")
      BY <1>1
    <3>2. \A k \in j + 1 .. Len(toServer) : toServer'[k] = toServer[k]
      BY <1>1, <2>1
    <3> QED
      BY <1>1, <2>1, <3>1, <3>2 DEF AckAndStrays
  <2>2. CASE toServer'[j] = Text("stray")
    BY <1>5, <2>2
  <2> QED
    BY <1>2, <2>1, <2>2
<1>8. ClientInv => ClientInv'
  <2>1. ClientInv /\ cPhase = "index" =>
          (AckAndStrays /\ toClient = <<>>) \/ (toClient = <<Index>> /\ OnlyStrays /\ sPhase # "ackOffset")
    BY DEF ClientInv, AckAndStrays
  <2>2. ClientInv /\ cPhase = "index" =>
          (AckAndStrays' /\ toClient' = <<>>) \/ (toClient' = <<Index'>> /\ OnlyStrays' /\ sPhase' # "ackOffset")
    BY <1>3, <1>4, <1>7, <2>1
  <2> QED
    BY <1>3, <1>4, <2>2 DEF ClientInv, AckAndStrays
<1> QED
  BY <1>3, <1>4, <1>6, <1>8 DEF Paired

\* A step of the client's in a session that runs.
LEMMA ClientLockStep ==
    ASSUME TypeInv, Paired, ClientStep, sPhase \in Serving, "overtaken" \notin mishaps'
    PROVE  Paired'
<1> USE DEF Alive, Running
<1>0. ToServerInv /\ ClientInv
  BY DEF Paired
<1>1. /\ UNCHANGED <<sPhase, indexA, entry, block>>
      /\ Target' = Target /\ Index' = Index
  BY DEF ClientStep, serverSide, server, Target, Index
<1>2. ASSUME NEW m \in ServerMessage, Send(m)
      PROVE  toServer' \in {toServer, Append(toServer, m)}
  BY <1>2, SendLeaves
<1> SUFFICES ToServerInv' /\ ClientInv' /\ (cPhase' \in {"offset", "eof"} => Len(toClient') <= 1)
  BY <1>1 DEF Paired
<1>3. CASE RecvOffset
  <2>1. OnlyStrays /\ Len(toClient) <= 1 /\ toClient # <<>> /\ Target = NextFile(indexA)
    BY <1>0, <1>3 DEF RecvOffset, ClientInv, Paired, Consume
  <2>2. toClient' = <<>>
    <3>1. toClient' \in Seq(ClientMessage) /\ Len(toClient) = 1 /\ Len(toClient') = 0
      BY <1>3, <2>1, ConsumeType DEF RecvOffset
    <3> QED
      BY <3>1
  <2>3. toServer' \in {toServer, Append(toServer, Text("ack"))}
    BY <1>2, <1>3, TextFacts DEF RecvOffset
  <2>4. ToServerInv'
    BY <1>0, <1>1, <1>3, <2>3, TextFacts, ToServerSend DEF RecvOffset
  <2>5. AckAndStrays'
    <3>1. CASE toServer' = toServer
      BY <2>1, <3>1, TextFacts DEF OnlyStrays, AckAndStrays
    <3>2. CASE toServer' = Append(toServer, Text("ack"))
      <4>1. /\ Len(toServer) \in Nat
            /\ Len(toServer') = Len(toServer) + 1
            /\ \A k \in 1 .. Len(toServer) : toServer'[k] = toServer[k]
            /\ toServer'[Len(toServer) + 1] = Text("ack")
        BY <3>2, QueueTypes, TypeParts, AppendTo, TextFacts
      <4>2. ASSUME NEW j \in 1 .. Len(toServer')
            PROVE  toServer'[j] = Text("stray")
                    \/ (toServer'[j] = Text("ack") /\ j + 1 .. Len(toServer') = {})
        BY <2>1, <4>1 DEF OnlyStrays
      <4>3. Text("stray") # Text("ack")
        BY TextFacts
      <4> QED
        BY <4>2, <4>3 DEF AckAndStrays
    <3> QED
      BY <2>3, <3>1, <3>2
  <2> QED
    BY <1>1, <1>3, <2>1, <2>2, <2>4, <2>5 DEF RecvOffset, ClientInv, AckAndStrays
<1>4. CASE RecvIndex
  <2>1. /\ sPhase # "ackOffset"
        /\ Target = NextFile(indexA)
        /\ toClient = <<Index>>
    BY <1>0, <1>4 DEF RecvIndex, ClientInv, Consume
  <2>2. Got.value = indexA /\ toClient' = <<>>
    BY <1>4, <2>1 DEF RecvIndex, Consume, Got, Index
  <2>3. sending' = Target /\ cPhase' \in {"read", "counts"}
    BY <1>4, <2>1, <2>2 DEF RecvIndex, MoveTo
  <2>4. ToServerInv'
    BY <1>0, <1>1, <1>2, <1>4, TextFacts, ToServerSend DEF RecvIndex
  <2> QED
    BY <1>1, <2>1, <2>2, <2>3, <2>4 DEF ClientInv
<1>5. CASE SendBlock
  <2> DEFINE m == [type |-> "block", block |-> ReadHere]
  <2>1. ReadHere \in Block /\ ReadHere.file = Target
    BY <1>0, <1>5, ReadHereType DEF SendBlock, ClientInv, TypeInv, TypeOK, TransferTypeOK, InLoops
  <2>2. m \in ServerMessage
    BY <2>1 DEF ServerMessage
  <2>3. ToServerInv'
    BY <1>0, <1>1, <1>2, <1>5, <2>1, <2>2, ToServerSend DEF SendBlock
  <2> QED
    BY <1>0, <1>1, <1>5, <2>3 DEF SendBlock, ClientInv, cursor
<1>6. CASE SendLength
  <2> DEFINE m == [type |-> "length", block |-> ReadHere]
  <2>1. ReadHere \in Block /\ ReadHere.file = Target
    BY <1>0, <1>6, ReadHereType DEF SendLength, ClientInv, TypeInv, TypeOK, TransferTypeOK, InLoops
  <2>2. m \in ServerMessage
    BY <2>1 DEF ServerMessage
  <2>3. ToServerInv'
    BY <1>0, <1>1, <1>2, <1>6, <2>1, <2>2, ToServerSend DEF SendLength
  <2> QED
    BY <1>0, <1>1, <1>6, <2>3 DEF SendLength, ClientInv
<1>7. CASE SendEof
  <2>1. ToServerInv'
    BY <1>0, <1>1, <1>2, <1>7, TextFacts, ToServerSend DEF SendEof
  <2>2. toClient' = <<>> /\ Len(toClient') = 0
    BY <1>0, <1>7 DEF SendEof, ClientInv
  <2> QED
    BY <1>0, <1>1, <1>7, <2>1, <2>2 DEF SendEof, ClientInv, cursor
<1>8. CASE RecvEof
  <2>1. /\ sPhase # "ackOffset"
        /\ OnlyStrays
        /\ NextFile(sending + 1) = Target
        /\ toServer' = toServer
    BY <1>0, <1>8 DEF RecvEof, ClientInv, Consume
  <2>2. toClient' = <<>>
    <3>1. toClient' \in Seq(ClientMessage) /\ Len(toClient') = 0
      BY <1>8, ConsumeType DEF RecvEof, Paired
    <3> QED
      BY <3>1
  <2>3. OnlyStrays' /\ ToServerInv'
    <3>1. OnlyStrays'
      BY <2>1 DEF OnlyStrays
    <3>2. \A j \in 1 .. Len(toServer') : toServer'[j].type # "eof" /\ toServer'[j].block.n = 0
      BY <3>1, TextFacts DEF OnlyStrays
    <3> QED
      BY <3>1, <3>2 DEF ToServerInv
  <2>4. CASE MoveTo(sending + 1, 0)
    <3>1. sending' = Target /\ cPhase' \in {"read", "counts"}
      BY <2>1, <2>4 DEF MoveTo
    <3> QED
      BY <1>1, <2>1, <2>2, <2>3, <3>1 DEF ClientInv
  <2>5. CASE cPhase' = "failed"
    BY <2>3, <2>5 DEF ClientInv
  <2> QED
    BY <1>8, <2>4, <2>5 DEF RecvEof
<1>9. CASE SendFileCount
  <2>1. ToServerInv'
    BY <1>0, <1>1, <1>2, <1>9, TextFacts, ToServerSend DEF SendFileCount
  <2> QED
    BY <1>9, <2>1 DEF SendFileCount, ClientInv
<1>10. CASE RecvFileEcho
  <2>1. ToServerInv'
    BY <1>0, <1>1, <1>2, <1>10, TextFacts, ToServerSend DEF RecvFileEcho
  <2> QED
    BY <1>10, <2>1 DEF RecvFileEcho, ClientInv
<1>11. CASE RecvLast
  <2>1. toServer' = toServer /\ cPhase' \in {"verdict", "done"} /\ cPhase \in {"dirEcho", "verdict"}
    BY <1>11 DEF RecvLast
  <2>2. ToServerInv'
    BY <1>0, <1>1, <2>1 DEF ToServerInv
  <2> QED
    BY <2>1, <2>2 DEF ClientInv
<1> QED
  BY <1>3, <1>4, <1>5, <1>6, <1>7, <1>8, <1>9, <1>10, <1>11 DEF ClientStep
\* The server's one answer to a datagram comes, or is lost, or goes to another run.
LEMMA OneAnswer ==
    ASSUME TypeInv, NEW r \in ClientMessage, Answer(<<r>>), toServer # <<>>
    PROVE  /\ toClient' \in {toClient, toClient \o <<r>>}
           /\ Datagram.type = "stray" => toClient' = toClient
<1>1. toClient \in Seq(ClientMessage)
  BY QueueTypes, TypeParts
<1>2. CASE Datagram.type = "stray"
  BY <1>2 DEF Answer, Datagram
<1>3. CASE Datagram.type # "stray"
  <2>1. toClient' = toClient \o <<r>>
          \/ \E n \in 0 .. Len(<<r>>) - 1 : toClient' = toClient \o SubSeq(<<r>>, 1, n)
    BY <1>3 DEF Answer, Datagram
  <2>2. \A n \in 0 .. Len(<<r>>) - 1 : n = 0
    OBVIOUS
  <2>3. toClient \o SubSeq(<<r>>, 1, 0) = toClient
    <3>1. SubSeq(<<r>>, 1, 0) = <<>>
      OBVIOUS
    <3> QED
      BY <1>1, <3>1
  <2> QED
    BY <1>3, <2>1, <2>2, <2>3
<1> QED
  BY <1>2, <1>3

\* A step of the server's in a session that goes on.
LEMMA ServerLockStep ==
    ASSUME TypeInv, Paired, ServerStep, sPhase \in Serving, sPhase' \in Serving \ {"dirCnt"},
           "marker" \notin mishaps'
    PROVE  Paired'
<1>0. /\ UNCHANGED <<cPhase, sending, fileOffset, pos>>
      /\ Alive' = Alive
      /\ entry \in Nat
      /\ indexA \in Nat
      /\ ToServerInv
      /\ ClientInv
  BY IndexTypes, TypeParts DEF ServerStep, client, cursor, Alive, Paired
<1>1. CASE AckOffset
  <2>1. /\ indexA' = indexA /\ entry' = entry
        /\ sPhase = "ackOffset" /\ sPhase' = "ackIndex"
        /\ Receive
    BY <1>1 DEF AckOffset
  <2>2. Target' = Target /\ Index' = Index
    BY <2>1 DEF Target, Index
  <2>3. ToServerInv'
    BY <1>0, <2>1, <2>2, ToServerDrop
  <2>4. cPhase \notin {"read", "length", "eof"}
    BY <1>0, <2>1 DEF ClientInv
  <2>5. Index \in ClientMessage
    BY <1>0 DEF Index, ClientMessage
  <2>6. /\ toClient' \in {toClient, toClient \o <<Index>>}
        /\ Datagram.type = "stray" => toClient' = toClient
    BY <1>1, <2>5, OneAnswer DEF AckOffset, Index, Receive
  <2>7. cPhase = "offset" => OnlyStrays' /\ toClient' = toClient
    <3>1. SUFFICES ASSUME cPhase = "offset" PROVE OnlyStrays' /\ toClient' = toClient
      OBVIOUS
    <3>2. OnlyStrays
      BY <1>0, <3>1 DEF ClientInv
    <3>3. Datagram.type = "stray"
      BY <2>1, <3>2, DatagramType, TextFacts DEF OnlyStrays, Receive
    <3> QED
      BY <2>1, <2>6, <3>2, <3>3, StraysDrop
  <2>8. cPhase = "index" =>
          \/ toClient' = <<>> /\ AckAndStrays'
          \/ toClient' = <<Index>> /\ OnlyStrays'
    <3>1. SUFFICES ASSUME cPhase = "index"
                   PROVE  \/ toClient' = <<>> /\ AckAndStrays'
                          \/ toClient' = <<Index>> /\ OnlyStrays'
      OBVIOUS
    <3>2. toClient = <<>> /\ AckAndStrays
      BY <1>0, <2>1, <3>1 DEF ClientInv, AckAndStrays
    <3>3. AckAndStrays' /\ (Datagram = Text("stray") \/ OnlyStrays')
      BY <2>1, <3>2, AckDrop
    <3> QED
      BY <2>6, <3>2, <3>3, TextFacts
  <2> QED
    BY <1>0, <2>1, <2>2, <2>3, <2>4, <2>7, <2>8 DEF Paired, ClientInv, AckAndStrays
<1>2. CASE AckIndex
  <2>1. /\ indexA' = indexA
        /\ entry' = indexA
        /\ sPhase = "ackIndex"
        /\ sPhase' = "loop"
        /\ toClient' = toClient
        /\ Receive
    BY <1>2 DEF AckIndex
  <2>2. Target' = Target /\ Index' = Index
    BY <2>1 DEF Target, Index
  <2>3. ToServerInv'
    BY <1>0, <2>1, <2>2, ToServerDrop
  <2>4. (OnlyStrays => OnlyStrays') /\ (AckAndStrays => AckAndStrays')
    BY <2>1, StraysDrop, AckDrop
  <2> QED
    BY <1>0, <2>1, <2>2, <2>3, <2>4 DEF Paired, ClientInv, AckAndStrays
<1>3. CASE Loop /\ UNCHANGED <<mishaps, toServer, toClient>>
  <2>1. sPhase = "loop" /\ sPhase' \in {"loop", "content", "fileCnt"} /\ indexA' = indexA
    BY <1>3 DEF Loop, MakeDirectory, SkipEntry, OpenFile, EndLoop
  <2>2. entry' = entry \/ (entry' = entry + 1 /\ entry \notin Files)
    BY <1>3 DEF Loop, MakeDirectory, SkipEntry, OpenFile, EndLoop, Files
  <2>3. NextFile(entry') = NextFile(entry)
    BY <1>0, <2>2, NextFileSkips
  <2>4. Target' = Target /\ Index' = Index
    BY <2>1, <2>3 DEF Target, Index
  <2> QED
    BY <1>0, <1>3, <2>1, <2>4 DEF Paired, ToServerInv, ClientInv, OnlyStrays
<1>4. CASE RecvEndOfFile
  <2>1. /\ Receive
        /\ sPhase = "content" /\ sPhase' = "loop"
        /\ entry' = entry + 1
        /\ indexA' = indexA
        /\ entry \in Files
    BY <1>4 DEF RecvEndOfFile, TakeEndOfFile, TypeInv, InLoops
  <2>2. Target = entry /\ Target' = NextFile(entry + 1)
    BY <2>1, NextFileOfFile DEF Target
  <2>3. Datagram = toServer[1] /\ 1 \in 1 .. Len(toServer) /\ Datagram.type = "eof"
    BY <1>4, <2>1, DatagramType DEF RecvEndOfFile, Receive
  <2>4. /\ cPhase = "eof" \/ ~Alive
        /\ OnlyStrays'
    <3>1. \A j \in 1 .. Len(toServer') :
            j + 1 \in 1 + 1 .. Len(toServer) /\ toServer'[j] = toServer[j + 1]
      BY <2>1, ReceiveLeaves
    <3> QED
      BY <1>0, <2>3, <3>1 DEF ToServerInv, OnlyStrays
  <2>5. cPhase = "eof" => toClient = <<>> /\ sending = entry
    <3>1. ~OnlyStrays
      BY <2>3, TextFacts DEF OnlyStrays
    <3> QED
      BY <1>0, <2>2, <3>1 DEF ClientInv
  <2>6. cPhase = "eof" => Len(toClient') <= 1
    <3>1. toClient' \in {toClient, toClient \o <<Reply("eof")>>}
      BY <1>4, TextType, OneAnswer DEF RecvEndOfFile, Receive
    <3>2. Len(<<>>) <= 1 /\ Len(<<>> \o <<Reply("eof")>>) <= 1
      OBVIOUS
    <3>3. cPhase = "eof" => toClient' = <<>> \/ toClient' = <<>> \o <<Reply("eof")>>
      BY <2>5, <3>1, Zenon
    <3> QED
      BY <3>2, <3>3, Zenon
  <2>7. ToServerInv'
    <3>1. \A j \in 1 .. Len(toServer') : toServer'[j].type # "eof" /\ toServer'[j].block.n = 0
      BY <2>4, TextFacts DEF OnlyStrays
    <3> QED
      BY <2>4, <3>1 DEF ToServerInv
  <2> QED
    BY <1>0, <2>1, <2>2, <2>4, <2>5, <2>6, <2>7 DEF Paired, ClientInv, Alive, Running
<1>5. CASE RecvBlock \/ RecvLength
  <2>1. /\ sPhase \in {"content", "length"}
        /\ sPhase' \in {"content", "length"}
        /\ entry' = entry
        /\ indexA' = indexA
        /\ toClient' = toClient
        /\ Receive
    BY <1>5 DEF RecvBlock, TakeBlock, RecvLength, WriteBytes
  <2>2. Target = entry /\ Target' = entry /\ Index' = Index
    BY <2>1, NextFileOfFile DEF Target, TypeInv, InLoops, Index
  <2>3. ToServerInv'
    BY <1>0, <2>1, <2>2, ToServerDrop
  <2>4. (OnlyStrays => OnlyStrays') /\ (AckAndStrays => AckAndStrays')
    BY <2>1, StraysDrop, AckDrop
  <2>5. ClientInv'
    BY <1>0, <2>1, <2>2, <2>4 DEF ClientInv, AckAndStrays
  <2>6. sPhase' = "length" /\ block'.n > 0 => block'.file = entry
    <3>1. sPhase' = "length" => RecvBlock
      BY <1>5 DEF RecvLength
    <3>2. Datagram = toServer[1] /\ 1 \in 1 .. Len(toServer)
      BY <2>1, DatagramType DEF Receive
    <3> QED
      BY <1>0, <2>2, <3>1, <3>2, TextFacts DEF RecvBlock, TakeBlock, ToServerInv, Zeros
  <2> QED
    BY <1>0, <2>1, <2>3, <2>5, <2>6 DEF Paired
<1>6. CASE SendOffset \/ FileCnt \/ DirCnt
  BY <1>6 DEF SendOffset, FileCnt, DirCnt, Serving
<1>7. CASE RecvMarker
  BY <1>7 DEF RecvMarker
<1> QED
  BY <1>1, <1>2, <1>3, <1>4, <1>5, <1>6, <1>7 DEF ServerStep

InStep == mishaps \cap {"marker", "overtaken"} = {}

Started ==
    sPhase = "start" => toClient = <<>> /\ cPhase \in {"offset", "killed"} /\ OnlyStrays

LEMMA LockStepParts ==
    LockStep <=>
        /\ QueueFits
        /\ Started
        /\ sPhase \in Serving \ {"dirCnt"} /\ InStep => Paired
  BY DEF LockStep, QueueFits, Started, InStep

\* Before the server has sent the offset, nothing of the session is on its way.
LEMMA StepStarted ==
    ASSUME TypeInv, QueueFits, Started, [Next]_vars
    PROVE  Started'
<1> USE DEF Started
<1>1. CASE Connect
  BY <1>1 DEF Connect, QueueFits, Serving, OnlyStrays
<1>2. CASE ClientStep
  <2>1. sPhase' = sPhase
    BY <1>2 DEF ClientStep, serverSide, server
  <2>2. sPhase # "start"
    BY <1>2
    DEF ClientStep, RecvOffset, RecvIndex, SendBlock, SendLength, SendEof, RecvEof,
        SendFileCount, RecvFileEcho, RecvLast, Consume
  <2> QED
    BY <2>1, <2>2
<1>3. CASE Stray
  BY <1>3, StrayLockStep DEF Stray, serverSide, server, client, OnlyStrays
<1>4. CASE ServerStep \/ KillServer \/ RestartServer
  <2>1. sPhase' # "start"
    BY <1>4, ServerTakes DEF KillServer, RestartServer, Serving
  <2> QED
    BY <2>1
<1>5. CASE KillClient \/ UNCHANGED vars
  BY <1>5 DEF KillClient, vars, serverSide, server, client, OnlyStrays
<1> QED
  BY <1>1, <1>2, <1>3, <1>4, <1>5 DEF Next

\* The first offset is sent when only datagrams of other runs wait.
LEMMA OffsetLockStep ==
    ASSUME TypeInv, Started, SendOffset, UNCHANGED client
    PROVE  Paired'
<1>1. /\ toClient = <<>> /\ cPhase' \in {"offset", "killed"} /\ OnlyStrays'
      /\ sPhase' = "ackOffset"
  BY DEF Started, SendOffset, OnlyStrays, client
<1>2. Len(toClient') <= 1
  BY <1>1 DEF SendOffset
<1>3. ToServerInv'
  <2>1. \A j \in 1 .. Len(toServer') : toServer'[j].type # "eof" /\ toServer'[j].block.n = 0
    BY <1>1, TextFacts DEF OnlyStrays
  <2> QED
    BY <1>1, <2>1 DEF ToServerInv
<1>4. Target' = NextFile(indexA')
  BY <1>1 DEF Target
<1> QED
  BY <1>1, <1>2, <1>3, <1>4 DEF Paired, ClientInv

LEMMA StepLockStep ==
    ASSUME TypeInv, LockStep, [Next]_vars
    PROVE  LockStep'
<1>1. QueueFits /\ Started /\ QueueFits' /\ Started'
  BY LockStepParts, StepQueue, StepStarted
<1> SUFFICES ASSUME sPhase' \in Serving \ {"dirCnt"}, InStep'
             PROVE  Paired'
  BY <1>1 DEF LockStep, QueueFits, Started, InStep
<1>2. sPhase \in Serving \ {"dirCnt"} /\ InStep => Paired
  BY LockStepParts
<1>3. CASE Connect
  BY <1>3 DEF Connect, Serving
<1>4. CASE ClientStep
  <2>1. sPhase' = sPhase
    BY <1>4 DEF ClientStep, serverSide, server
  <2>2. InStep
    BY <1>4, ClientSends, SendLeaves DEF Mishap, InStep
  <2>3. "overtaken" \notin mishaps'
    BY DEF InStep
  <2> QED
    BY <1>2, <1>4, <2>1, <2>2, <2>3, ClientLockStep
<1>5. CASE Stray
  BY <1>2, <1>5, StrayLockStep DEF Stray, Fault, serverSide, server, InStep
<1>6. CASE KillClient
  BY <1>2, <1>6
  DEF KillClient, serverSide, server, cursor, Paired, ToServerInv, ClientInv, Target, Alive,
      Running, InStep
<1>7. CASE ServerStep
  <2>1. InStep /\ "marker" \notin mishaps'
    BY <1>7, ServerTakes DEF Mishap, InStep
  <2>2. CASE SendOffset
    BY <1>1, <1>7, <2>2, OffsetLockStep DEF ServerStep
  <2>3. CASE ~SendOffset
    <3>1. sPhase \in Serving \ {"dirCnt"}
      BY <1>7, <2>3
      DEF ServerStep, AckOffset, AckIndex, Loop, MakeDirectory, SkipEntry, OpenFile, EndLoop,
          RecvEndOfFile, RecvMarker, RecvBlock, RecvLength, FileCnt, DirCnt, Serving
    <3> QED
      BY <1>2, <1>7, <2>1, <3>1, ServerLockStep
  <2> QED
    BY <2>2, <2>3
<1>8. CASE KillServer \/ RestartServer
  BY <1>8 DEF KillServer, RestartServer, Serving
<1>9. CASE UNCHANGED vars
  BY <1>2, <1>9
  DEF vars, serverSide, server, client, cursor, Paired, ToServerInv, ClientInv, Target, Index,
      Alive, OnlyStrays, InStep
<1> QED
  BY <1>3, <1>4, <1>5, <1>6, <1>7, <1>8, <1>9 DEF Next

\* In every session in which no datagram has overtaken another and no block was taken for
\* the end of a file, whatever is lost, killed or sent by other runs, both programs work on
\* the same file, until the server is past its list, and nothing of another file is on its
\* way.
THEOREM InLockStep == Spec => []LockStep
<1>1. Init => LockStep
  BY DEF Init, LockStep, TransferInit, Serving
<1>2. TypeInv /\ LockStep /\ [Next]_vars => LockStep'
  BY StepLockStep
<1> QED
  BY <1>1, <1>2, TypeCorrect, PTL DEF Spec
-----------------------------------------------------------------------------
(* No copy receives a byte of another file.                                *)

\* Only the receive of a length writes, and what it writes is of the entry.
LEMMA StepOwn ==
    ASSUME TypeInv, LockStep, [Next]_vars, InStep
    PROVE  Own
<1>1. CASE RecvLength
  <2>1. PICK len \in LengthIn(Datagram) : WriteBytes(Bytes(block, len))
    BY <1>1 DEF RecvLength
  <2>2. len \in Nat
    BY <1>1, <2>1, AnyLengthType, DatagramType DEF LengthIn, RecvLength, Receive
  <2>3. entry \in Files /\ block \in Block /\ (block.n > 0 => block.file = entry)
    BY <1>1
    DEF RecvLength, LockStep, InStep, Paired, Serving, TypeInv, TypeOK, TransferTypeOK, InLoops
  <2> QED
    BY <2>1, <2>2, <2>3, WriteOwn, TypeParts
<1>2. CASE ~RecvLength
  <2>1. saved' = saved
    BY <1>2
    DEF Next, Connect, ClientStep, KillClient, Stray, ServerStep, SendOffset, AckOffset,
        AckIndex, Loop, MakeDirectory, SkipEntry, OpenFile, EndLoop, RecvEndOfFile, RecvMarker,
        TakeEndOfFile, RecvBlock, TakeBlock, FileCnt, DirCnt, KillServer, RestartServer, vars,
        serverSide, store
  <2> QED
    BY <2>1, UnchangedOwn
<1> QED
  BY <1>1, <1>2

\* Whatever is lost or killed and whatever other runs send, no copy of a file receives a
\* byte of another file, unless a datagram has overtaken another or a block was taken for
\* the end of a file.
THEOREM NoForeignBytes == Spec => OwnBytesOnly
<1>1. ASSUME TypeInv, LockStep, [Next]_vars
      PROVE  [mishaps \cap {"marker", "overtaken"} = {} => Own]_<<saved, mishaps>>
  BY <1>1, StepOwn DEF InStep
<1>2. TypeInv /\ LockStep /\ [Next]_vars =>
        [mishaps \cap {"marker", "overtaken"} = {} =>
            \A i \in Files : \A k \in DOMAIN saved'[i] \ DOMAIN saved[i] :
                saved'[i][k] \in ({i} \X Nat) \cup {Junk}]_<<saved, mishaps>>
  BY <1>1 DEF Own
<1> QED
  BY <1>2, TypeCorrect, InLockStep, PTL DEF Spec, OwnBytesOnly
=============================================================================
