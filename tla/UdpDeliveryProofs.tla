-------------------------- MODULE UdpDeliveryProofs --------------------------
(***************************************************************************)
(* A session of the UDP transfer that the network and other runs leave alone *)
(* delivers the client's files byte by byte, whatever the tree, the size of *)
(* a block, the kills, and what earlier sessions have left under ./save.    *)
(***************************************************************************)
EXTENDS UdpTransferProofs

\* What Streaming says of the copies, and of what is on its way.
Flowing ==
    /\ sPhase # "misaligned"
    /\ IF sPhase \in {"ackOffset", "ackIndex"} THEN saved = before ELSE Delivered
    /\ sPhase = "length" =>
        /\ block.n > 0
        /\ block.at = Added(entry)
        /\ block.at + block.n <= Size[entry]

Queued ==
    /\ IF sPhase = "ackOffset" THEN toServer \in {<<>>, <<Text("ack")>>} ELSE Chained
    /\ Alive => ClientFits

LEMMA StreamingParts == Streaming <=> (sPhase \in Serving /\ Clean => Flowing /\ Queued)
  BY DEF Streaming, Flowing, Queued

\* In a clean session the two sides are in lock step, and no other run's datagram waits.
LEMMA CleanPaired ==
    ASSUME TypeInv, LockStep, Clean
    PROVE  /\ sPhase \in Serving \ {"dirCnt"} => Paired
           /\ \A j \in 1 .. Len(toServer) : toServer[j].type # "stray"
  BY DEF LockStep, Clean, Mishap
-----------------------------------------------------------------------------
(* The chain of what is on its way.                                        *)

\* The server takes what it expects.
LEMMA ChainDrop ==
    ASSUME TypeInv, Chained, Receive,
           Expects' = After(toServer[1]), Target' = Target, Sends' = Sends, Alive' = Alive
    PROVE  Chained'
<1>1. /\ Len(toServer) \in Nat \ {0}
      /\ Len(toServer') = Len(toServer) - 1
      /\ \A k \in 1 .. Len(toServer') : toServer'[k] = toServer[k + 1]
  BY QueueTypes, TypeParts, TailOf DEF Receive
<1>2. ASSUME NEW j \in 1 .. Len(toServer') + 1
      PROVE  NextAt(j)' = NextAt(j + 1)
  <2>1. CASE j = 1
    BY <2>1 DEF NextAt
  <2>2. CASE j # 1
    <3>1. j - 1 \in 1 .. Len(toServer') /\ j + 1 # 1 /\ (j + 1) - 1 = j /\ (j - 1) + 1 = j
      BY <1>1, <2>2
    <3>2. toServer'[j - 1] = toServer[j]
      BY <1>1, <3>1
    <3>3. NextAt(j)' = After(toServer[j])
      BY <2>2, <3>2 DEF NextAt, After
    <3>4. NextAt(j + 1) = After(toServer[j])
      BY <3>1 DEF NextAt
    <3> QED
      BY <3>3, <3>4
  <2> QED
    BY <2>1, <2>2
<1>3. ASSUME NEW j \in 1 .. Len(toServer')
      PROVE  Fits(NextAt(j), toServer[j])'
  <2>1. j + 1 \in 1 .. Len(toServer) /\ j \in 1 .. Len(toServer') + 1
    BY <1>1
  <2>2. Fits(NextAt(j + 1), toServer[j + 1])
    BY <2>1 DEF Chained
  <2>3. NextAt(j)' = NextAt(j + 1) /\ toServer'[j] = toServer[j + 1]
    BY <1>1, <1>2, <2>1
  <2> QED
    BY <2>2, <2>3 DEF Fits
<1>4. NextAt(Len(toServer) + 1)' = NextAt(Len(toServer) + 1)
  <2>1. CASE Len(toServer) = 1
    BY <1>1, <2>1 DEF NextAt
  <2>2. CASE Len(toServer) # 1
    <3>1. /\ Len(toServer') \in 1 .. Len(toServer')
          /\ Len(toServer') + 1 # 1
          /\ (Len(toServer') + 1) - 1 = Len(toServer')
          /\ toServer'[Len(toServer')] = toServer[Len(toServer)]
          /\ Len(toServer) + 1 # 1
          /\ (Len(toServer) + 1) - 1 = Len(toServer)
      BY <1>1, <2>2
    <3>2. NextAt(Len(toServer) + 1)' = After(toServer[Len(toServer)])
      BY <3>1 DEF NextAt, After
    <3> QED
      BY <3>1, <3>2 DEF NextAt
  <2> QED
    BY <2>1, <2>2
<1> QED
  BY <1>3, <1>4 DEF Chained

\* The client sends what has to come.
LEMMA ChainSend ==
    ASSUME TypeInv, Chained, Alive, NEW m \in ServerMessage, toServer' = Append(toServer, m),
           Fits(Sends, m), Sends' = After(m), Expects' = Expects, Target' = Target
    PROVE  Chained'
<1>1. /\ Len(toServer) \in Nat
      /\ Len(toServer') = Len(toServer) + 1
      /\ \A k \in 1 .. Len(toServer) : toServer'[k] = toServer[k]
      /\ toServer'[Len(toServer) + 1] = m
  BY QueueTypes, TypeParts, AppendTo
<1>2. ASSUME NEW j \in 1 .. Len(toServer) + 1
      PROVE  NextAt(j)' = NextAt(j)
  <2>1. CASE j = 1
    BY <2>1 DEF NextAt
  <2>2. CASE j # 1
    <3>1. j - 1 \in 1 .. Len(toServer)
      BY <1>1, <2>2
    <3>2. toServer'[j - 1] = toServer[j - 1]
      BY <1>1, <3>1
    <3> QED
      BY <2>2, <3>2 DEF NextAt, After
  <2> QED
    BY <2>1, <2>2
<1>3. ASSUME NEW j \in 1 .. Len(toServer')
      PROVE  Fits(NextAt(j), toServer[j])'
  <2>1. j \in 1 .. Len(toServer) + 1
    BY <1>1
  <2>2. Fits(NextAt(j), toServer'[j])
    <3>1. CASE j \in 1 .. Len(toServer)
      BY <1>1, <3>1 DEF Chained
    <3>2. CASE j = Len(toServer) + 1
      BY <1>1, <3>2 DEF Chained
    <3> QED
      BY <1>1, <2>1, <3>1, <3>2
  <2> QED
    BY <1>2, <2>1, <2>2 DEF Fits
<1>4. NextAt(Len(toServer) + 1)' = After(m)
  <2>1. /\ Len(toServer') + 1 # 1
        /\ (Len(toServer') + 1) - 1 = Len(toServer) + 1
    BY <1>1
  <2> QED
    BY <1>1, <2>1 DEF NextAt, After
<1> QED
  BY <1>3, <1>4 DEF Chained

\* Nothing is sent or taken, and the client sends the same next, or has died.
LEMMA ChainSame ==
    ASSUME Chained, toServer' = toServer, Expects' = Expects, Target' = Target,
           Alive' => Alive /\ Sends' = Sends
    PROVE  Chained'
<1>1. ASSUME NEW j
      PROVE  NextAt(j)' = NextAt(j)
  BY DEF NextAt, After
<1>2. ASSUME NEW j \in 1 .. Len(toServer)
      PROVE  Fits(NextAt(j), toServer[j])'
  <2>1. Fits(NextAt(j), toServer[j])
    BY DEF Chained
  <2> QED
    BY <1>1, <2>1 DEF Fits
<1>3. NextAt(Len(toServer) + 1)' = NextAt(Len(toServer) + 1)
  BY DEF NextAt, After
<1> QED
  BY <1>2, <1>3 DEF Chained

\* What nothing can follow is the last.
LEMMA ChainEnds ==
    ASSUME TypeInv, Chained, Receive, After(toServer[1]) = <<"end", 0>>
    PROVE  toServer' = <<>> /\ (Alive => Sends = <<"end", 0>>)
<1>1. /\ Len(toServer) \in Nat \ {0}
      /\ toServer' \in Seq(ServerMessage)
      /\ Len(toServer') = Len(toServer) - 1
  BY QueueTypes, TypeParts, TailOf, ReceiveLeaves DEF Receive
<1>2. NextAt(2) = <<"end", 0>>
  BY DEF NextAt
<1>3. Len(toServer) = 1
  <2>1. SUFFICES ASSUME 2 \in 1 .. Len(toServer) PROVE FALSE
    BY <1>1
  <2>2. Fits(<<"end", 0>>, toServer[2])
    BY <1>2, <2>1 DEF Chained
  <2> QED
    BY <2>2 DEF Fits
<1>4. Alive => Sends = <<"end", 0>>
  BY <1>2, <1>3 DEF Chained
<1>5. toServer' = <<>>
  BY <1>1, <1>3
<1> QED
  BY <1>4, <1>5

\* An empty queue.
LEMMA ChainEmpty == ASSUME toServer' = <<>>, Alive' => Expects' = Sends' PROVE Chained'
  BY DEF Chained, NextAt

\* The server's next datagram is the one it expects.
LEMMA ChainHead ==
    ASSUME TypeInv, Chained, toServer # <<>>
    PROVE  Fits(Expects, Datagram) /\ Datagram = toServer[1]
<1>1. Datagram = toServer[1] /\ 1 \in 1 .. Len(toServer)
  BY DatagramType
<1> QED
  BY <1>1 DEF Chained, NextAt
-----------------------------------------------------------------------------
(* The client's steps.                                                     *)

\* In a session in which nothing is lost, what is sent arrives last.
LEMMA SendClean ==
    ASSUME TypeInv, NEW m \in ServerMessage, Send(m), sPhase \in Serving, Clean'
    PROVE  toServer' = Append(toServer, m) /\ UNCHANGED mishaps
  BY DEF Send, Fault, Listening, Clean, Mishap

LEMMA ClientStreaming ==
    ASSUME TypeInv, LockStep, sPhase \in Serving, Clean, Clean', Alive, Flowing, Queued,
           ClientStep
    PROVE  Flowing' /\ Queued'
<1> USE DEF Alive, Running
<1>0. /\ UNCHANGED <<saved, before, sPhase, indexA, entry, block>>
      /\ Target' = Target
      /\ Index' = Index
      /\ Expects' = Expects
  BY DEF ClientStep, serverSide, server, store, Target, Index, Expects, Added
<1>1. Flowing'
  <2>1. Delivered => Delivered'
    BY <1>0 DEF Delivered, Added
  <2> QED
    BY <1>0, <2>1 DEF Flowing, Added
<1>2. ClientFits /\ (sPhase # "dirCnt" => Paired)
  BY CleanPaired DEF Queued
<1>3. \A t \in {"ack", "eof", "count"} :
        Text(t) \in ServerMessage /\ Text(t).block.n = 0 /\ Text(t).type = t
  BY TextFacts
<1>4. Target \in Nat /\ (Target \in Files \/ Target = FileCount)
  BY TargetType, TypeParts
<1> USE DEF Answered
<1>5. CASE RecvOffset
  <2>1. /\ sPhase = "ackOffset" /\ toServer = <<>> /\ cPhase = "offset" /\ cPhase' = "index"
        /\ Len(toClient) <= 1
    BY <1>2, <1>5 DEF RecvOffset, ClientFits, Paired
  <2>2. toClient' = <<>>
    <3>1. toClient' \in Seq(ClientMessage) /\ Len(toClient') = 0
      BY <1>5, <2>1, ConsumeType DEF RecvOffset
    <3> QED
      BY <3>1
  <2>3. toServer' = <<Text("ack")>>
    BY <1>3, <1>5, <2>1, SendClean DEF RecvOffset
  <2> QED
    BY <1>0, <1>1, <2>1, <2>2, <2>3 DEF Queued, ClientFits
<1>6. CASE RecvIndex
  <2>1. /\ cPhase = "index" /\ toClient # <<>> /\ sPhase \notin {"ackOffset", "dirCnt"}
        /\ Target = NextFile(indexA)
        /\ toClient = <<Index>>
    BY <1>2, <1>6 DEF RecvIndex, Consume, ClientFits, Paired, ClientInv
  <2>2. Got.value = indexA /\ toClient' = <<>>
    BY <1>6, <2>1 DEF RecvIndex, Consume, Got, Index
  <2>3. pos' = 0 /\ cPhase' = IF Target < FileCount THEN "read" ELSE "counts"
    BY <1>6, <2>1, <2>2 DEF RecvIndex, MoveTo
  <2>4. Sends = <<"ack", 0>> /\ Sends' = <<"block", 0>>
    BY <2>1, <2>3 DEF Sends
  <2>5. Fits(Sends, Text("ack")) /\ Sends' = After(Text("ack"))
    BY <1>3, <2>4 DEF Fits, After
  <2>6. toServer' = Append(toServer, Text("ack"))
    BY <1>3, <1>6, SendClean DEF RecvIndex
  <2>7. Chained'
    BY <1>0, <1>3, <2>1, <2>5, <2>6, ChainSend DEF Queued
  <2>8. cPhase' = "counts" => Target = FileCount
    BY <1>4, <2>3, FilesAreEntries
  <2> QED
    BY <1>0, <1>1, <2>1, <2>2, <2>3, <2>7, <2>8 DEF Queued, ClientFits
<1>7. CASE SendBlock
  <2> DEFINE m == [type |-> "block", block |-> ReadHere]
  <2>1. /\ cPhase = "read" /\ cPhase' = "length"
        /\ sPhase \notin {"ackOffset", "dirCnt"}
        /\ toClient = <<>> /\ toClient' = <<>>
        /\ sending = Target /\ sending \in Files
        /\ pos' = pos /\ sending' = sending
    BY <1>2, <1>7 DEF SendBlock, ClientFits, Paired, ClientInv, cursor, TypeInv, InLoops
  <2>2. /\ ReadHere \in Block /\ ReadHere.at = pos /\ ReadHere.n > 0
        /\ pos + ReadHere.n <= Size[Target]
    BY <1>7, <2>1, ReadHereType DEF SendBlock, TypeInv, TypeOK, TransferTypeOK
  <2>3. m \in ServerMessage /\ m.type = "block" /\ m.block = ReadHere
    BY <2>2 DEF ServerMessage
  <2> HIDE DEF m
  <2>4. Sends = <<"block", pos>> /\ Sends' = <<"length", ReadHere>>
    BY <2>1 DEF Sends, ReadHere
  <2>5. Fits(Sends, m) /\ Sends' = After(m)
    BY <2>1, <2>2, <2>3, <2>4 DEF Fits, After
  <2>6. toServer' = Append(toServer, m)
    BY <1>7, <2>3, SendClean DEF SendBlock, m
  <2>7. Chained'
    BY <1>0, <2>1, <2>3, <2>5, <2>6, ChainSend DEF Queued
  <2> QED
    BY <1>0, <1>1, <2>1, <2>7 DEF Queued, ClientFits
<1>8. CASE SendLength
  <2> DEFINE m == [type |-> "length", block |-> ReadHere]
  <2>1. /\ cPhase = "length" /\ cPhase' = "read"
        /\ sPhase \notin {"ackOffset", "dirCnt"}
        /\ sending \in Files
        /\ pos' = pos + ReadHere.n /\ sending' = sending
    BY <1>2, <1>8 DEF SendLength, ClientFits, TypeInv, InLoops
  <2>2. ReadHere \in Block /\ ReadHere.at = pos
    BY <2>1, ReadHereType DEF TypeInv, TypeOK, TransferTypeOK, InLoops
  <2>3. m \in ServerMessage /\ m.type = "length" /\ m.block = ReadHere
    BY <2>2 DEF ServerMessage
  <2> HIDE DEF m
  <2>4. Sends = <<"length", ReadHere>> /\ Sends' = <<"block", pos + ReadHere.n>>
    BY <2>1 DEF Sends
  <2>5. Fits(Sends, m) /\ Sends' = After(m)
    BY <2>2, <2>3, <2>4 DEF Fits, After
  <2>6. toServer' = Append(toServer, m)
    BY <1>8, <2>3, SendClean DEF SendLength, m
  <2>7. Chained'
    BY <1>0, <2>1, <2>3, <2>5, <2>6, ChainSend DEF Queued
  <2> QED
    BY <1>0, <1>1, <2>1, <2>7 DEF Queued, ClientFits
<1>9. CASE SendEof
  <2>1. /\ cPhase = "read" /\ cPhase' = "eof"
        /\ sPhase \notin {"ackOffset", "dirCnt"}
        /\ toClient = <<>> /\ toClient' = <<>>
        /\ sending = Target /\ sending \in Files
        /\ pos >= Size[Target]
    BY <1>2, <1>9 DEF SendEof, ClientFits, Paired, ClientInv, TypeInv, InLoops
  <2>2. Sends = <<"block", pos>> /\ Sends' = <<"end", 0>>
    BY <2>1 DEF Sends
  <2>3. Fits(Sends, Text("eof")) /\ Sends' = After(Text("eof"))
    BY <1>3, <2>1, <2>2 DEF Fits, After
  <2>4. toServer' = Append(toServer, Text("eof"))
    BY <1>3, <1>9, SendClean DEF SendEof
  <2>5. Chained'
    BY <1>0, <1>3, <2>1, <2>3, <2>4, ChainSend DEF Queued
  <2> QED
    BY <1>0, <1>1, <2>1, <2>5 DEF Queued, ClientFits
<1>10. CASE RecvEof
  <2>1. /\ cPhase = "eof" /\ toClient # <<>> /\ toServer' = toServer
        /\ sPhase \notin {"ackOffset", "dirCnt"}
        /\ NextFile(sending + 1) = Target
        /\ Len(toClient) <= 1
    BY <1>2, <1>10 DEF RecvEof, Consume, ClientFits, Paired, ClientInv
  <2>2. toClient' = <<>>
    <3>1. toClient' \in Seq(ClientMessage) /\ Len(toClient') = 0
      BY <1>10, <2>1, ConsumeType DEF RecvEof
    <3> QED
      BY <3>1
  <2>3. Chained
    BY <2>1 DEF Queued
  <2>4. CASE MoveTo(sending + 1, 0)
    <3>1. pos' = 0 /\ cPhase' = IF Target < FileCount THEN "read" ELSE "counts"
      BY <2>1, <2>4 DEF MoveTo
    <3>2. Sends = <<"block", 0>> /\ Sends' = <<"block", 0>>
      BY <2>1, <3>1 DEF Sends
    <3>3. Chained'
      BY <1>0, <2>1, <2>3, <3>2, ChainSame
    <3>4. cPhase' = "counts" => Target = FileCount
      BY <1>4, <3>1, FilesAreEntries
    <3> QED
      BY <1>0, <1>1, <2>1, <2>2, <3>1, <3>3, <3>4 DEF Queued, ClientFits
  <2>5. CASE cPhase' = "failed"
    BY <1>0, <1>1, <2>1, <2>3, <2>5, ChainSame DEF Queued
  <2> QED
    BY <1>10, <2>4, <2>5 DEF RecvEof
<1>11. CASE SendFileCount
  <2>1. /\ cPhase = "counts" /\ cPhase' = "fileEcho"
        /\ sPhase \notin {"ackOffset", "dirCnt"}
        /\ toClient = <<>> /\ toClient' = <<>>
        /\ Target = FileCount
    BY <1>2, <1>11 DEF SendFileCount, ClientFits
  <2>2. Sends = <<"block", 0>> /\ Sends' = <<"end", 0>>
    BY <2>1 DEF Sends
  <2>3. Fits(Sends, Text("count")) /\ Sends' = After(Text("count"))
    BY <1>3, <2>1, <2>2 DEF Fits, After
  <2>4. toServer' = Append(toServer, Text("count"))
    BY <1>3, <1>11, SendClean DEF SendFileCount
  <2>5. Chained'
    BY <1>0, <1>3, <2>1, <2>3, <2>4, ChainSend DEF Queued
  <2> QED
    BY <1>0, <1>1, <2>1, <2>5 DEF Queued, ClientFits
<1>12. CASE RecvFileEcho
  <2>1. /\ cPhase = "fileEcho" /\ cPhase' = "dirEcho"
        /\ sPhase # "ackOffset"
        /\ toClient # <<>>
        /\ Len(toClient) <= 1
        /\ Target = FileCount
    BY <1>2, <1>12 DEF RecvFileEcho, Consume, ClientFits
  <2>2. toClient' = <<>>
    <3>1. toClient' \in Seq(ClientMessage) /\ Len(toClient') = 0
      BY <1>12, <2>1, ConsumeType DEF RecvFileEcho
    <3> QED
      BY <3>1
  <2>3. Sends = <<"count", 0>> /\ Sends' = <<"end", 0>>
    BY <2>1 DEF Sends
  <2>4. Fits(Sends, Text("count")) /\ Sends' = After(Text("count"))
    BY <1>3, <2>3 DEF Fits, After
  <2>5. toServer' = Append(toServer, Text("count"))
    BY <1>3, <1>12, SendClean DEF RecvFileEcho
  <2>6. Chained'
    BY <1>0, <1>3, <2>1, <2>4, <2>5, ChainSend DEF Queued
  <2>7. sPhase = "dirCnt"
    <3>1. NextAt(Len(toServer) + 1) = <<"count", 0>>
      BY <2>1, <2>3 DEF Queued, Chained
    <3>2. \A m : After(m) # <<"count", 0>>
      BY DEF After
    <3>3. Expects = <<"count", 0>>
      BY <3>1, <3>2 DEF NextAt
    <3> QED
      BY <3>3 DEF Expects
  <2> QED
    BY <1>0, <1>1, <2>1, <2>2, <2>6, <2>7 DEF Queued, ClientFits
<1>13. CASE RecvLast
  BY <1>2, <1>13 DEF RecvLast, Consume, ClientFits
<1> QED
  BY <1>5, <1>6, <1>7, <1>8, <1>9, <1>10, <1>11, <1>12, <1>13 DEF ClientStep
-----------------------------------------------------------------------------
(* The server's steps.                                                     *)

\* The copies when the server's loop begins, and when it comes to the next entry.
LEMMA NothingDelivered ==
    ASSUME TypeInv', saved' = before', entry' = indexA', sPhase' = "loop"
    PROVE  Delivered'
<1>1. saved' \in [Entries -> Bytestrings] /\ indexA' \in Int
  BY TreeAssumption DEF TypeInv, TypeOK, TransferTypeOK, Bytestrings, Entries
<1>2. ASSUME NEW i \in Files
      PROVE  /\ saved'[i] = before'[i] \o Piece(0, i, Added(i)')
             /\ Added(i)' = 0
             /\ Size[i] \in Nat
             /\ i \in Int
  <2>1. saved'[i] \in Bytestrings
    BY <1>1, SizeType
  <2>2. Len(saved'[i]) \in Nat
    BY <2>1, ConcatBytes
  <2>3. Added(i)' = 0
    BY <2>2 DEF Added
  <2>4. Piece(0, i, Added(i)') = <<>>
    BY <2>3 DEF Piece
  <2>5. saved'[i] \o <<>> = saved'[i]
    BY <2>1, ConcatEmptySeq DEF Bytestrings
  <2>6. saved'[i] = before'[i] \o Piece(0, i, Added(i)')
    BY <2>4, <2>5
  <2> QED
    BY <2>3, <2>6, SizeType, FilesAreEntries
<1>3. \A i \in Files : Added(i)' \in 0 .. Size[i] /\ ~ (indexA' <= i /\ i < entry')
  BY <1>1, <1>2
<1> QED
  BY <1>1, <1>2, <1>3 DEF Delivered

\* The server goes on to the next entry when this one needs nothing more.
LEMMA NextDelivered ==
    ASSUME TypeInv, Delivered, UNCHANGED <<saved, before, indexA>>,
           entry' = entry + 1,
           entry \in Files => Added(entry) = Size[entry]
    PROVE  Delivered'
<1>1. entry \in Int /\ indexA \in Int /\ \A i \in Files : i \in Int
  BY FilesAreEntries, TreeAssumption DEF TypeInv, TypeOK, TransferTypeOK, Entries
<1>2. \A i \in Files : Added(i)' = Added(i)
  BY DEF Added
<1>3. ASSUME NEW i \in Files
      PROVE  /\ i < indexA \/ i > entry + 1 \/ i = entry + 1 => Added(i) = 0
             /\ indexA <= i /\ i < entry + 1 => Added(i) = Size[i]
  BY <1>1 DEF Delivered
<1>4. entry + 1 >= indexA
  BY <1>1 DEF Delivered
<1> QED
  BY <1>2, <1>3, <1>4 DEF Delivered

\* The server changes its phase, but not the entry.
LEMMA SameDelivered ==
    ASSUME Delivered, UNCHANGED <<saved, before, indexA, entry>>, sPhase' # "loop"
    PROVE  Delivered'
  BY DEF Delivered, Added

\* A block that fits the copy is written to it.
LEMMA WriteDelivered ==
    ASSUME TypeInv, Delivered, entry \in Files, sPhase = "length", sPhase' = "content",
           block.n > 0, block.file = entry, block.at = Added(entry),
           block.at + block.n <= Size[entry],
           WriteBytes(Bytes(block, block.n))
    PROVE  Delivered' /\ Added(entry)' = Added(entry) + block.n
<1> DEFINE n == Added(entry)
<1>1. /\ block \in Block /\ block.n \in Nat
      /\ Size[entry] \in Nat
  BY SizeType, TransferAssumption DEF TypeInv, TypeOK, TransferTypeOK, Block
<1>2. n \in 0 .. Size[entry] /\ saved[entry] = before[entry] \o Piece(0, entry, n)
  BY DEF Delivered
<1>3. /\ \A i \in Entries \ {entry} : saved'[i] = saved[i]
      /\ UNCHANGED <<before, indexA, entry>>
  BY <1>1, WriteType, TypeParts
<1>4. n \in Nat /\ n + block.n \in 0 .. Size[entry] /\ block.at = 0 + n
  BY <1>1, <1>2
<1>5. /\ saved'[entry] = before[entry] \o Piece(0, entry, n + block.n)
      /\ Added(entry)' = n + block.n
  BY <1>1, <1>2, <1>4, WriteAdds, TypeParts
<1>6. ASSUME NEW i \in Files
      PROVE  /\ saved'[i] = before[i] \o Piece(0, i, Added(i)')
             /\ Added(i)' \in 0 .. Size[i]
             /\ i < indexA \/ i > entry => Added(i)' = 0
             /\ indexA <= i /\ i < entry => Added(i)' = Size[i]
  <2>1. CASE i = entry
    <3>1. Added(i)' = n + block.n
      <4>1. Added(i)' = Added(entry)'
        BY <1>3, <2>1 DEF Added
      <4> QED
        BY <1>5, <4>1
    <3>2. ~ (i < indexA) /\ ~ (i > entry) /\ ~ (i < entry)
      <4>1. entry \in Int /\ entry >= indexA /\ indexA \in Int
        BY FilesAreEntries, TreeAssumption
        DEF Delivered, TypeInv, TypeOK, TransferTypeOK, Entries
      <4> QED
        BY <2>1, <4>1
    <3> HIDE DEF n
    <3> QED
      BY <1>4, <1>5, <2>1, <3>1, <3>2
  <2>2. CASE i # entry
    <3>1. saved'[i] = saved[i] /\ Added(i)' = Added(i)
      BY <1>3, <2>2, SizeType DEF Added
    <3> QED
      BY <3>1 DEF Delivered
  <2> QED
    BY <2>1, <2>2
<1>7. Delivered'
  BY <1>3, <1>6 DEF Delivered
<1> QED
  BY <1>5, <1>7

\* The first offset is sent: the copies are as FilePathCheck finds them.
LEMMA OffsetStreaming ==
    ASSUME TypeInv, LockStep, SendOffset, UNCHANGED client, Clean'
    PROVE  Flowing' /\ Queued'
<1>1. /\ saved' = saved /\ before' = saved /\ sPhase' = "ackOffset"
      /\ toServer' = toServer
      /\ cPhase \in {"offset", "killed"} /\ cPhase' = cPhase
      /\ OnlyStrays
      /\ toClient' # <<>> /\ mishaps' = mishaps
  BY DEF SendOffset, LockStep, client, Fault, Clean, Mishap
<1>2. toServer = <<>>
  <2>1. Clean
    BY <1>1 DEF Clean
  <2>2. 1 \notin 1 .. Len(toServer)
    BY <1>1, <2>1, CleanPaired, TextFacts DEF OnlyStrays
  <2> QED
    BY <2>2, QueueTypes, TypeParts, TailOf
<1> QED
  BY <1>1, <1>2 DEF Flowing, Queued, ClientFits, Answered, Alive, Running

LEMMA ServerStreaming ==
    ASSUME TypeInv, TypeInv', LockStep, sPhase \in Serving, Clean, Flowing, Queued,
           ServerStep, sPhase' \in Serving, Clean'
    PROVE  Flowing' /\ Queued'
<1> USE DEF Answered
<1>0. /\ UNCHANGED <<cPhase, sending, fileOffset, pos>>
      /\ Alive' = Alive
      /\ toClient' = toClient => Sends' = Sends /\ Answered' = Answered
  BY DEF ServerStep, client, cursor, Sends, ReadHere, Alive
<1>1. /\ sPhase # "dirCnt" => Paired
      /\ sPhase = "length" => block.file = entry
      /\ toServer # <<>> => toServer[1].type # "stray" /\ Datagram = toServer[1]
  BY CleanPaired, DatagramType DEF Paired, Flowing
<1>2. ASSUME NEW r \in ClientMessage, Answer(<<r>>), toServer # <<>>
      PROVE  toClient' = toClient \o <<r>> /\ toClient' # <<>>
  <2>1. toClient' = toClient \o <<r>>
    BY <1>1, <1>2 DEF Answer, Datagram, Fault, Clean, Mishap
  <2>2. toClient \o <<r>> # <<>>
    BY QueueTypes, TypeParts
  <2> QED
    BY <2>1, <2>2
<1>3. CASE AckOffset
  <2>1. /\ sPhase = "ackOffset" /\ sPhase' = "ackIndex"
        /\ UNCHANGED <<saved, before, entry, indexA>>
        /\ toServer # <<>> /\ toServer' = Tail(toServer)
    BY <1>3 DEF AckOffset, store, Receive
  <2>2. toServer = <<Text("ack")>> /\ toServer' = <<>>
    <3>1. toServer = <<Text("ack")>>
      BY <2>1 DEF Queued
    <3>2. Tail(<<Text("ack")>>) = <<>>
      OBVIOUS
    <3> QED
      BY <2>1, <3>1, <3>2
  <2>3. Index \in ClientMessage
    BY IndexTypes, TypeParts DEF Index, ClientMessage
  <2>4. toClient' # <<>>
    BY <1>2, <1>3, <2>1, <2>3 DEF AckOffset, Index
  <2>5. Alive => cPhase = "index"
    BY <2>1, <2>2 DEF Queued, ClientFits
  <2>6. Target' = Target
    BY <2>1 DEF Target
  <2>7. Expects' = <<"ack", 0>> /\ (Alive' => Sends' = <<"ack", 0>>)
    BY <1>0, <2>1, <2>4, <2>5 DEF Expects, Sends
  <2>8. Chained'
    BY <2>2, <2>7, ChainEmpty
  <2> QED
    BY <1>0, <2>1, <2>4, <2>5, <2>8 DEF Flowing, Queued, ClientFits
<1>4. CASE AckIndex
  <2>1. /\ sPhase = "ackIndex" /\ sPhase' = "loop"
        /\ UNCHANGED <<saved, before, indexA, toClient>>
        /\ entry' = indexA
        /\ toServer # <<>> /\ Receive
    BY <1>4 DEF AckIndex, store, Receive
  <2>2. Target' = Target /\ Chained
    BY <2>1 DEF Target, Queued
  <2>3. Delivered'
    BY <2>1, NothingDelivered DEF Flowing
  <2>4. Expects' = <<"block", 0>> /\ After(toServer[1]) = <<"block", 0>>
    BY <2>1, <2>2, ChainHead DEF Expects, After, Fits
  <2>5. Chained'
    BY <1>0, <2>1, <2>2, <2>4, ChainDrop
  <2> QED
    BY <1>0, <2>1, <2>2, <2>3, <2>5 DEF Flowing, Queued, ClientFits
<1>5. CASE Loop /\ UNCHANGED <<mishaps, toServer, toClient>>
  <2>1. /\ sPhase = "loop" /\ sPhase' \in {"loop", "content", "fileCnt"}
        /\ UNCHANGED <<saved, before, indexA>>
        /\ Delivered /\ Chained
    BY <1>5 DEF Loop, MakeDirectory, SkipEntry, OpenFile, EndLoop, store, Flowing, Queued
  <2>2. \/ sPhase' = "loop" /\ entry' = entry + 1 /\ entry \notin Files
        \/ sPhase' # "loop" /\ entry' = entry /\ (sPhase' = "content" => entry \in Files)
    BY <1>5 DEF Loop, MakeDirectory, SkipEntry, OpenFile, EndLoop, Files, Entries, TypeInv,
                TypeOK, TransferTypeOK
  <2>3. Delivered'
    BY <2>1, <2>2, NextDelivered, SameDelivered
  <2>4. Target' = Target
    <3>1. entry \in Int
      BY DEF TypeInv, TypeOK, TransferTypeOK
    <3>2. NextFile(entry') = NextFile(entry)
      BY <2>2, <3>1, NextFileSkips
    <3> QED
      BY <2>1, <3>2 DEF Target
  <2>5. Expects' = Expects
    <3>1. CASE sPhase' = "content"
      <4>1. entry' = entry /\ Added(entry) = 0
        BY <2>1, <2>2, <3>1 DEF Delivered
      <4> QED
        BY <2>1, <3>1, <4>1 DEF Expects, Added
    <3>2. CASE sPhase' # "content"
      BY <2>1, <3>2 DEF Expects
    <3> QED
      BY <3>1, <3>2
  <2>6. Chained'
    BY <1>0, <1>5, <2>1, <2>4, <2>5, ChainSame
  <2> QED
    BY <1>0, <1>5, <2>1, <2>3, <2>4, <2>6 DEF Flowing, Queued, ClientFits
<1>6. CASE RecvEndOfFile
  <2>1. /\ sPhase = "content" /\ sPhase' = "loop"
        /\ entry' = entry + 1
        /\ UNCHANGED <<saved, before, indexA>>
        /\ toServer # <<>> /\ Receive
        /\ Delivered /\ Chained
        /\ entry \in Files
    BY <1>6 DEF RecvEndOfFile, TakeEndOfFile, store, Receive, Flowing, Queued, TypeInv, InLoops
  <2>2. toServer[1].type = "eof"
    BY <1>1, <1>6, <2>1 DEF RecvEndOfFile
  <2>3. Fits(Expects, toServer[1])
    BY <2>1, ChainHead
  <2>4. Target = entry
    BY <2>1, NextFileOfFile DEF Target
  <2>5. Added(entry) = Size[entry]
    <3>1. Expects = <<"block", Added(entry)>>
      BY <2>1 DEF Expects
    <3>2. Added(entry) >= Size[entry]
      BY <2>2, <2>3, <2>4, <3>1 DEF Fits
    <3>3. Added(entry) \in 0 .. Size[entry] /\ Size[entry] \in Nat
      BY <2>1, SizeType DEF Delivered
    <3> QED
      BY <3>2, <3>3
  <2>6. Delivered'
    BY <2>1, <2>5, NextDelivered
  <2>7. After(toServer[1]) = <<"end", 0>>
    BY <2>2 DEF After
  <2>8. toServer' = <<>>
    BY <2>1, <2>7, ChainEnds
  <2>9. Alive => cPhase = "eof"
    <3>1. 1 \in 1 .. Len(toServer)
      BY <2>1, DatagramType
    <3> QED
      BY <1>1, <2>1, <2>2, <3>1 DEF Paired, ToServerInv
  <2>10. toClient' # <<>>
    BY <1>2, <1>6, <2>1, TextType DEF RecvEndOfFile
  <2>11. Expects' = <<"block", 0>> /\ (Alive' => Sends' = <<"block", 0>>)
    BY <1>0, <2>1, <2>9, <2>10 DEF Expects, Sends
  <2>12. Chained'
    BY <2>8, <2>11, ChainEmpty
  <2> QED
    BY <1>0, <2>1, <2>6, <2>9, <2>12 DEF Flowing, Queued, ClientFits
<1>7. CASE RecvBlock
  <2>1. /\ sPhase = "content" /\ sPhase' = "length"
        /\ toServer # <<>> /\ Receive
        /\ toServer[1].type # "eof"
        /\ block' = IF toServer[1].type = "block" THEN toServer[1].block ELSE Zeros
        /\ UNCHANGED <<saved, before, entry, indexA, toClient>>
        /\ Delivered /\ Chained
        /\ entry \in Files
    BY <1>1, <1>7
    DEF RecvBlock, TakeBlock, store, Flowing, Queued, Receive, TypeInv, InLoops
  <2>2. Fits(Expects, toServer[1])
    BY <2>1, ChainHead
  <2>3. Target = entry /\ entry # FileCount
    <3>1. Target = entry
      BY <2>1, NextFileOfFile DEF Target
    <3> QED
      BY <2>1, <3>1, FilesAreEntries, TreeAssumption
  <2>4. Expects = <<"block", Added(entry)>>
    BY <2>1 DEF Expects
  <2>5. /\ toServer[1].type = "block" /\ block' = toServer[1].block
        /\ block'.n > 0
        /\ block'.at = Added(entry)
        /\ block'.at + block'.n <= Size[entry]
    BY <2>1, <2>2, <2>3, <2>4 DEF Fits
  <2>6. Added(entry)' = Added(entry) /\ Target' = Target
    BY <2>1 DEF Added, Target
  <2>7. Expects' = After(toServer[1])
    BY <2>1, <2>5 DEF Expects, After
  <2>8. Chained'
    BY <1>0, <2>1, <2>6, <2>7, ChainDrop
  <2>9. Delivered'
    BY <2>1, SameDelivered
  <2>10. Flowing'
    BY <2>1, <2>5, <2>6, <2>9 DEF Flowing
  <2> QED
    BY <1>0, <2>1, <2>6, <2>8, <2>10 DEF Queued, ClientFits
<1>8. CASE RecvLength
  <2>1. /\ sPhase = "length" /\ sPhase' = "content"
        /\ toServer # <<>> /\ Receive
        /\ \E len \in LengthIn(toServer[1]) : WriteBytes(Bytes(block, len))
        /\ UNCHANGED <<before, entry, indexA, toClient>>
        /\ Delivered /\ Chained
        /\ entry \in Files
    BY <1>1, <1>8 DEF RecvLength, WriteBytes, Flowing, Queued, Receive, TypeInv, InLoops
  <2>2. Fits(Expects, toServer[1])
    BY <2>1, ChainHead
  <2>3. toServer[1].type = "length" /\ toServer[1].block = block
    BY <2>1, <2>2 DEF Fits, Expects
  <2>4. WriteBytes(Bytes(block, block.n))
    BY <2>1, <2>3 DEF LengthIn
  <2>5. Delivered' /\ Added(entry)' = Added(entry) + block.n
    BY <1>1, <2>1, <2>4, WriteDelivered DEF Flowing
  <2>6. Target' = Target
    BY <2>1 DEF Target
  <2>7. Expects' = After(toServer[1])
    <3>1. Expects' = <<"block", Added(entry)'>>
      BY <2>1 DEF Expects
    <3>2. After(toServer[1]) = <<"block", block.at + block.n>>
      BY <2>3 DEF After
    <3>3. block.at = Added(entry)
      BY <2>1 DEF Flowing
    <3> QED
      BY <2>5, <3>1, <3>2, <3>3
  <2>8. Chained'
    BY <1>0, <2>1, <2>6, <2>7, ChainDrop
  <2>9. Flowing'
    BY <2>1, <2>5 DEF Flowing
  <2> QED
    BY <1>0, <2>1, <2>6, <2>8, <2>9 DEF Queued, ClientFits
<1>9. CASE FileCnt
  <2>1. /\ sPhase = "fileCnt" /\ sPhase' = "dirCnt"
        /\ UNCHANGED <<saved, before, entry, indexA>>
        /\ entry = FileCount
        /\ toServer # <<>> /\ Receive
        /\ Delivered /\ Chained
    BY <1>9 DEF FileCnt, store, Receive, Flowing, Queued, TypeInv, InLoops
  <2>2. Target = FileCount /\ FileCount \notin Files /\ Target' = Target
    BY <2>1, NextFileOfEnd, FilesAreEntries, TreeAssumption DEF Target
  <2>3. toServer[1].type = "count"
    <3>1. Fits(<<"block", 0>>, toServer[1])
      BY <2>1, ChainHead DEF Expects
    <3> QED
      BY <2>2, <3>1 DEF Fits
  <2>4. After(toServer[1]) = <<"end", 0>>
    BY <2>3 DEF After
  <2>5. toServer' = <<>> /\ (Alive => Sends = <<"end", 0>>)
    BY <2>1, <2>4, ChainEnds
  <2>6. ~OnlyStrays
    <3>1. 1 \in 1 .. Len(toServer)
      BY <2>1, DatagramType
    <3> QED
      BY <2>3, <3>1, TextFacts DEF OnlyStrays
  <2>7. Alive => cPhase = "fileEcho" /\ toClient = <<>>
    <3>1. SUFFICES ASSUME Alive PROVE cPhase = "fileEcho" /\ toClient = <<>>
      OBVIOUS
    <3>2. ClientFits /\ Sends = <<"end", 0>> /\ ClientInv
      BY <1>1, <2>1, <2>5, <3>1 DEF Queued, Paired
    <3>3. cPhase # "eof"
      BY <2>2, <2>6, <3>2 DEF ClientInv, TypeInv, InLoops
    <3> QED
      BY <2>1, <3>2, <3>3 DEF ClientFits, Sends
  <2>8. toClient' = toClient \o <<Reply("echo")>> /\ toClient' # <<>>
    BY <1>2, <1>9, <2>1, TextType DEF FileCnt
  <2>9. Alive => Len(toClient') <= 1
    BY <2>7, <2>8
  <2>10. Expects' = <<"count", 0>> /\ (Alive' => Sends' = <<"count", 0>>)
    BY <1>0, <2>1, <2>7, <2>8 DEF Expects, Sends
  <2>11. Chained'
    BY <2>5, <2>10, ChainEmpty
  <2>12. Delivered'
    BY <2>1, SameDelivered
  <2> QED
    BY <1>0, <2>1, <2>2, <2>7, <2>8, <2>9, <2>11, <2>12 DEF Flowing, Queued, ClientFits
<1>10. CASE SendOffset \/ DirCnt
  BY <1>10 DEF SendOffset, DirCnt, Serving
<1>11. CASE RecvMarker
  BY <1>11 DEF RecvMarker, Clean, Mishap
<1> QED
  BY <1>3, <1>4, <1>5, <1>6, <1>7, <1>8, <1>9, <1>10, <1>11 DEF ServerStep
-----------------------------------------------------------------------------
\* The client's steps are of a client that runs, and nothing heals.
LEMMA ClientRuns ==
    ASSUME TypeInv, ClientStep
    PROVE  Alive /\ (Clean' => Clean)
<1>1. Alive
  BY DEF ClientStep, RecvOffset, RecvIndex, SendBlock, SendLength, SendEof, RecvEof,
         SendFileCount, RecvFileEcho, RecvLast, Alive, Running
<1>2. Clean' => Clean
  <2>1. CASE UNCHANGED <<toServer, mishaps>>
    BY <2>1 DEF Clean
  <2>2. ASSUME NEW m \in ServerMessage, m.type # "stray", Send(m)
        PROVE  Clean' => Clean
    BY <2>2, SendLeaves DEF Clean
  <2> QED
    BY <2>1, <2>2, ClientSends
<1> QED
  BY <1>1, <1>2

\* Nothing has changed, but perhaps the client has died.
LEMMA SameStreaming ==
    ASSUME UNCHANGED <<serverSide, cursor, mishaps, toServer, toClient>>,
           cPhase' = cPhase \/ ~Alive', sPhase \in Serving, Flowing, Queued
    PROVE  Flowing' /\ Queued'
<1>1. UNCHANGED <<saved, before, sPhase, indexA, entry, block, sending, fileOffset, pos>>
  BY DEF serverSide, server, store, cursor
<1>2. Alive' => cPhase' = cPhase /\ Alive
  BY DEF Alive
<1>3. /\ Target' = Target /\ Expects' = Expects
      /\ (Alive' => Sends' = Sends)
  BY <1>1, <1>2 DEF Target, Expects, Added, Sends, ReadHere, Answered
<1>4. Chained => Chained'
  BY <1>2, <1>3, ChainSame
<1>5. Delivered => Delivered'
  BY <1>1 DEF Delivered, Added
<1> QED
  BY <1>1, <1>2, <1>3, <1>4, <1>5 DEF Flowing, Queued, ClientFits, Answered, Added

LEMMA StepStreaming ==
    ASSUME TypeInv, TypeInv', LockStep, Streaming, [Next]_vars
    PROVE  Streaming'
<1> SUFFICES ASSUME sPhase' \in Serving, Clean' PROVE Flowing' /\ Queued'
  BY DEF Streaming, Flowing, Queued
<1>0. sPhase \in Serving /\ Clean => Flowing /\ Queued
  BY StreamingParts
<1>1. CASE ClientStep
  BY <1>0, <1>1, ClientRuns, ClientStreaming DEF ClientStep, serverSide, server
<1>2. CASE ServerStep
  <2>1. CASE SendOffset
    BY <1>2, <2>1, OffsetStreaming DEF ServerStep
  <2>2. CASE ~SendOffset
    <3>1. sPhase # "start"
      BY <1>2, <2>2
      DEF ServerStep, AckOffset, AckIndex, Loop, MakeDirectory, SkipEntry, OpenFile, EndLoop,
          RecvEndOfFile, RecvMarker, RecvBlock, RecvLength, FileCnt, DirCnt
    <3>2. sPhase \in Serving /\ Clean
      BY <1>2, <3>1, ServerTakes DEF Clean
    <3> QED
      BY <1>0, <1>2, <3>2, ServerStreaming
  <2> QED
    BY <2>1, <2>2
<1>3. CASE KillClient \/ UNCHANGED vars
  <2>1. UNCHANGED <<serverSide, cursor, mishaps, toServer, toClient>>
    BY <1>3 DEF KillClient, vars, client
  <2>2. cPhase' = cPhase \/ ~Alive'
    BY <1>3 DEF KillClient, vars, client, Alive, Running
  <2>3. sPhase \in Serving /\ Clean
    BY <2>1 DEF serverSide, server, Clean
  <2> QED
    BY <1>0, <2>1, <2>2, <2>3, SameStreaming
<1>4. CASE Connect \/ Stray \/ KillServer \/ RestartServer
  BY <1>4 DEF Connect, Stray, Fault, KillServer, RestartServer, Serving, Clean, Mishap
<1> QED
  BY <1>1, <1>2, <1>3, <1>4 DEF Next

\* Every datagram on its way between the two sides is the one that has to come, and the
\* copies have grown by what the server has taken, as long as the network and other runs
\* leave the session alone and no block is taken for the end of a file, also after the
\* client has died.
THEOREM StreamIsWhole == Spec => []Streaming
<1>1. Init => Streaming
  BY DEF Init, Streaming, Serving
<1>2. TypeInv /\ TypeInv' /\ LockStep /\ Streaming /\ [Next]_vars => Streaming'
  BY StepStreaming
<1> QED
  BY <1>1, <1>2, TypeCorrect, InLockStep, PTL DEF Spec

\* The whole of a file, piece by piece.
LEMMA PieceIsSource ==
    ASSUME NEW i \in Files
    PROVE  Piece(0, i, Size[i]) = Source(i)
<1>1. Size[i] \in Nat
  BY SizeType
<1>2. (IF 0 < Size[i] THEN Size[i] - 0 ELSE 0) = Size[i]
  BY <1>1
<1> QED
  BY <1>2 DEF Piece, Source, From

\* The server is past the list: every file is whole.
LEMMA DeliveredAll ==
    ASSUME TypeInv, Delivered, Target = FileCount, sPhase \notin {"ackOffset", "ackIndex"}
    PROVE  Complete
<1> SUFFICES ASSUME NEW i \in Files
             PROVE  saved[i] = before[i] \o (IF i < indexA THEN <<>> ELSE Source(i))
  BY DEF Complete
<1>1. i \in Int /\ indexA \in Int /\ entry \in Int
  BY FilesAreEntries, IndexTypes, TypeParts
<1>2. i < entry
  <2>1. NextFile(entry) = FileCount /\ FileCount \notin Files
    BY FilesAreEntries, TreeAssumption DEF Target
  <2> QED
    BY <1>1, <2>1, NextFileIsNext
<1>3. saved[i] = before[i] \o Piece(0, i, Added(i))
  BY DEF Delivered
<1>4. CASE i < indexA
  <2>1. Piece(0, i, Added(i)) = <<>>
    BY <1>4 DEF Delivered, Piece
  <2> QED
    BY <1>3, <1>4, <2>1
<1>5. CASE ~(i < indexA)
  <2>1. Added(i) = Size[i]
    BY <1>1, <1>2, <1>5 DEF Delivered
  <2> QED
    BY <1>3, <1>5, <2>1, PieceIsSource
<1> QED
  BY <1>4, <1>5

\* For every tree, every size of a block and whatever earlier sessions have left: when the
\* server's loop is over, a session that the network and other runs have left alone, and in
\* which no block was taken for the end of a file, has appended to each copy from indexA on
\* the whole of the file, and nothing to the others.
THEOREM SessionDelivers == Spec => []SessionAppends
<1>1. ASSUME TypeInv, Streaming PROVE SessionAppends
  <2>1. SUFFICES ASSUME sPhase \in {"fileCnt", "dirCnt"}, Clean PROVE Complete
    BY DEF SessionAppends, Complete
  <2>2. entry = FileCount /\ Delivered
    BY <1>1, <2>1 DEF TypeInv, InLoops, Streaming, Serving
  <2>3. Target = FileCount
    BY <2>1, <2>2, NextFileOfEnd DEF Target
  <2> QED
    BY <1>1, <2>1, <2>2, <2>3, DeliveredAll
<1> QED
  BY <1>1, TypeCorrect, StreamIsWhole, PTL
-----------------------------------------------------------------------------
(* When the client comes to its end.                                       *)

\* While the server is in the session, a client that will not ask for a file any more has
\* nothing left to send.
LEMMA ServingEnd ==
    TypeInv /\ LockStep /\ Streaming /\ Alive /\ Clean /\ sPhase \in Serving /\ AtEnd => Complete
<1> SUFFICES ASSUME TypeInv, LockStep, Streaming, Alive, Clean, sPhase \in Serving, AtEnd
             PROVE  Complete
  OBVIOUS
<1>1. Flowing /\ ClientFits /\ (sPhase # "dirCnt" => Paired)
  BY StreamingParts, CleanPaired DEF Queued
<1>2. Target = FileCount /\ sPhase # "ackOffset"
  <2>1. CASE cPhase \in {"counts", "fileEcho", "dirEcho", "verdict", "done"}
    BY <1>1, <2>1 DEF ClientFits
  <2>2. CASE cPhase \in {"eof", "index"} /\ Answered
    BY <1>1, <2>2 DEF AtEnd, ClientFits, Paired, ClientInv, Answered
  <2> QED
    BY <2>1, <2>2 DEF AtEnd
<1>3. CASE sPhase = "ackIndex"
  <2>1. saved = before /\ NextFile(indexA) = FileCount
    BY <1>1, <1>2, <1>3 DEF Flowing, Target
  <2>2. ASSUME NEW i \in Files
        PROVE  i < indexA /\ saved[i] = before[i] \o <<>>
    <3>1. i < indexA
      BY <2>1, IndexTypes, TypeParts, NextFileIsNext, FilesAreEntries, TreeAssumption
    <3>2. before[i] \o <<>> = before[i]
      BY SizeType, ConcatEmptySeq DEF TypeInv, TypeOK, TransferTypeOK
    <3> QED
      BY <2>1, <3>1, <3>2
  <2> QED
    BY <2>2 DEF Complete
<1>4. CASE sPhase # "ackIndex"
  BY <1>1, <1>2, <1>4, DeliveredAll DEF Flowing
<1> QED
  BY <1>3, <1>4

\* What the client can be waiting for after the server's end.
Waits ==
    /\ cPhase = "offset" => saved = before /\ Len(toClient) <= 1
    /\ cPhase = "index" => toClient \in {<<>>, <<Index>>}
    /\ cPhase \in {"read", "length"} => ~Answered
    /\ cPhase = "eof" => Len(toClient) <= 1

LEMMA ReportingParts ==
    Reporting <=>
        /\ Alive /\ Clean /\ sPhase \notin Serving \cup {"start"} => Waits
        /\ Clean /\ cPhase = "done" => sPhase \notin Serving \cup {"start"}
        /\ (Alive \/ cPhase = "done") /\ Clean /\ AtEnd => Complete
  BY DEF Reporting, Waits

\* A client takes what it waits for, and comes no nearer to its end than it was.
LEMMA ClientWaits ==
    ASSUME TypeInv, Waits, ClientStep
    PROVE  Waits' /\ (AtEnd' => AtEnd)
<1>0. Index' = Index /\ indexA' = indexA
  BY DEF ClientStep, serverSide, server, Index
<1>1. Consume /\ Len(toClient) <= 1 => toClient' = <<>>
  <2>1. SUFFICES ASSUME Consume, Len(toClient) <= 1 PROVE toClient' = <<>>
    OBVIOUS
  <2>2. toClient' \in Seq(ClientMessage) /\ Len(toClient') = 0
    BY <2>1, ConsumeType
  <2> QED
    BY <2>2
<1> USE DEF Waits, Answered, AtEnd
<1>2. CASE RecvOffset
  <2>1. cPhase' = "index" /\ toClient' = <<>>
    BY <1>1, <1>2 DEF RecvOffset
  <2> QED
    BY <2>1
<1>3. CASE RecvIndex
  <2>1. /\ cPhase = "index" /\ toClient = <<Index>> /\ toClient' = <<>>
    <3>1. cPhase = "index" /\ toClient = <<Index>>
      BY <1>3 DEF RecvIndex, Consume
    <3> QED
      BY <1>1, <1>3, <3>1 DEF RecvIndex
  <2>2. Got.value = indexA
    BY <2>1 DEF Got, Index
  <2>3. \/ cPhase' = "read"
        \/ cPhase' = "counts" /\ ~(NextFile(indexA) < FileCount)
    BY <1>3, <2>2 DEF RecvIndex, MoveTo
  <2>4. NextFile(indexA) < FileCount \/ NextFile(indexA) = FileCount
    <3>1. indexA \in Int
      BY IndexTypes, TypeParts
    <3> QED
      BY <3>1, FilesAreEntries, NextFileRange
  <2> QED
    BY <2>1, <2>3, <2>4
<1>4. CASE SendBlock \/ SendLength \/ SendEof
  <2>1. /\ cPhase \in {"read", "length"} /\ cPhase' \in {"read", "length", "eof"}
        /\ toClient = <<>> /\ toClient' = <<>>
    BY <1>4 DEF SendBlock, SendLength, SendEof
  <2> QED
    BY <2>1
<1>5. CASE RecvEof
  <2>1. /\ cPhase = "eof" /\ toClient # <<>> /\ toClient' = <<>>
    BY <1>1, <1>5 DEF RecvEof, Consume
  <2>2. \/ cPhase' \in {"read", "failed"}
        \/ cPhase' = "counts" /\ ~(NextFile(sending + 1) < FileCount)
    BY <1>5 DEF RecvEof, MoveTo
  <2>3. NextFile(sending + 1) < FileCount \/ NextFile(sending + 1) = FileCount
    <3>1. sending + 1 \in Int
      BY TreeAssumption DEF TypeInv, TypeOK, TransferTypeOK
    <3> QED
      BY <3>1, FilesAreEntries, NextFileRange
  <2> QED
    BY <2>1, <2>2, <2>3
<1>6. CASE SendFileCount \/ RecvFileEcho \/ RecvLast
  <2>1. /\ cPhase \in {"counts", "fileEcho", "dirEcho", "verdict"}
        /\ cPhase' \in {"fileEcho", "dirEcho", "verdict", "done"}
    BY <1>6 DEF SendFileCount, RecvFileEcho, RecvLast
  <2> QED
    BY <2>1
<1> QED
  BY <1>2, <1>3, <1>4, <1>5, <1>6 DEF ClientStep

LEMMA SameComplete ==
    ASSUME Complete, UNCHANGED <<saved, before, indexA>>
    PROVE  Complete'
  BY DEF Complete

LEMMA StepReporting ==
    ASSUME TypeInv, TypeInv', LockStep, LockStep', Streaming, Streaming', Reporting, [Next]_vars
    PROVE  Reporting'
<1>0. (TypeInv /\ LockStep /\ Streaming /\ Alive /\ Clean /\ sPhase \in Serving /\ AtEnd
            => Complete)'
  BY ServingEnd, PTL
<1>1. /\ Alive /\ Clean /\ sPhase \notin Serving \cup {"start"} => Waits
      /\ Clean /\ cPhase = "done" => sPhase \notin Serving \cup {"start"}
      /\ (Alive \/ cPhase = "done") /\ Clean /\ AtEnd => Complete
  BY ReportingParts
<1>2. (sPhase = "start" => cPhase \in {"offset", "killed"})'
  BY DEF LockStep
<1>3. SUFFICES ASSUME Clean', cPhase' # "killed"
               PROVE  /\ Alive' /\ sPhase' \notin Serving \cup {"start"} => Waits'
                      /\ cPhase' = "done" => sPhase' \notin Serving \cup {"start"}
                      /\ (Alive' \/ cPhase' = "done") /\ AtEnd' => Complete'
  BY DEF Reporting, Waits, AtEnd, Alive, Running
<1>4. CASE ClientStep
  <2>1. /\ Alive /\ Clean
        /\ UNCHANGED <<saved, before, indexA, sPhase>>
    BY <1>3, <1>4, ClientRuns DEF ClientStep, serverSide, store, server
  <2>2. CASE sPhase \notin Serving \cup {"start"}
    BY <1>1, <1>4, <2>1, <2>2, ClientWaits, SameComplete
  <2>3. CASE sPhase \in Serving
    <3>1. cPhase # "verdict"
      BY <2>1, <2>3, StreamingParts DEF Queued, ClientFits
    <3>2. cPhase' # "done"
      BY <1>4, <3>1
      DEF ClientStep, RecvOffset, RecvIndex, SendBlock, SendLength, SendEof, RecvEof,
          SendFileCount, RecvFileEcho, RecvLast, MoveTo
    <3> QED
      BY <1>0, <1>3, <2>1, <2>3, <3>2
  <2>4. CASE sPhase = "start"
    BY <1>2, <2>1, <2>4 DEF AtEnd
  <2> QED
    BY <2>2, <2>3, <2>4
<1>5. CASE ServerStep
  <2>1. /\ sPhase \in Serving \cup {"start"}
        /\ sPhase' \in Serving \cup {"idle"}
        /\ Clean
        /\ UNCHANGED <<cPhase, sending>>
        /\ Alive' = Alive
    BY <1>3, <1>5, ServerTakes DEF Clean, ServerStep, client, cursor, Alive
  <2>2. cPhase # "done"
    BY <1>1, <2>1
  <2>3. CASE sPhase' \in Serving
    BY <1>0, <1>3, <2>1, <2>2, <2>3
  <2>4. CASE sPhase' \notin Serving
    <3>1. DirCnt
      BY <1>5, <2>4
      DEF ServerStep, SendOffset, AckOffset, AckIndex, Loop, MakeDirectory, SkipEntry,
          OpenFile, EndLoop, RecvEndOfFile, RecvMarker, TakeEndOfFile, RecvBlock, TakeBlock,
          RecvLength, FileCnt, Serving
    <3>2. sPhase = "dirCnt" /\ UNCHANGED <<saved, before, indexA>>
      BY <3>1 DEF DirCnt, store
    <3>3. Alive => cPhase \in {"fileEcho", "dirEcho"}
      BY <2>1, <3>2, StreamingParts DEF Queued, ClientFits, Serving
    <3>4. Alive => Complete
      BY <1>1, <2>1, <3>3 DEF AtEnd
    <3> QED
      BY <2>1, <2>2, <2>4, <3>2, <3>3, <3>4, SameComplete DEF Waits
  <2> QED
    BY <2>3, <2>4
<1>6. CASE KillServer
  <2>1. /\ sPhase \in Serving /\ sPhase' \notin Serving \cup {"start"}
        /\ UNCHANGED <<saved, before, indexA, cPhase, sending, toClient>>
        /\ Clean
    BY <1>3, <1>6 DEF KillServer, store, client, cursor, Serving, Clean
  <2>2. Alive' = Alive /\ AtEnd' = AtEnd /\ Waits' = Waits
    BY <2>1 DEF Alive, AtEnd, Waits, Answered, Index
  <2>3. Alive => Waits
    <3>1. Alive => Flowing /\ ClientFits /\ (sPhase # "dirCnt" => Paired)
      BY <2>1, StreamingParts, CleanPaired DEF Queued
    <3> QED
      BY <3>1 DEF Waits, ClientFits, Paired, ClientInv, Flowing, Answered
  <2> QED
    BY <1>1, <2>1, <2>2, <2>3, SameComplete
<1>7. CASE RestartServer \/ UNCHANGED vars
  <2>1. /\ UNCHANGED <<saved, before, indexA, cPhase, sending, toClient>>
        /\ Clean
        /\ sPhase' \in Serving \cup {"start"} <=> sPhase \in Serving \cup {"start"}
    BY <1>3, <1>7
    DEF RestartServer, vars, serverSide, server, store, client, cursor, Serving, Clean
  <2>2. Alive' = Alive /\ AtEnd' = AtEnd /\ Waits' = Waits
    BY <2>1 DEF Alive, AtEnd, Waits, Answered, Index
  <2> QED
    BY <1>1, <2>1, <2>2, SameComplete
<1>8. CASE Connect \/ KillClient \/ Stray
  BY <1>3, <1>8 DEF Connect, KillClient, Stray, Fault, Clean, Mishap, AtEnd
<1> QED
  BY <1>4, <1>5, <1>6, <1>7, <1>8 DEF Next

\* For every tree and all the faults the model has: in sessions that the network and other
\* runs leave alone, and in which no block is taken for the end of a file, the client never
\* comes to its end while the server is still in the session, nor before every file from
\* indexA on is complete.
THEOREM EndIsComplete == Spec => []Reporting
<1>1. Init => Reporting
  BY DEF Init, TransferInit, Reporting, AtEnd, Alive, Running
<1>2. TypeInv /\ TypeInv' /\ LockStep /\ LockStep' /\ Streaming /\ Streaming' /\ Reporting
        /\ [Next]_vars => Reporting'
  BY StepReporting
<1> QED
  BY <1>1, <1>2, TypeCorrect, InLockStep, StreamIsWhole, PTL DEF Spec
-----------------------------------------------------------------------------
(* The refinement.                                                         *)

Plan == Remaining(0)

\* The definitions of Delivery are those of the transfer.
LEMMA SameDefinitions ==
    /\ Promise!Entries = Entries
    /\ Promise!Files = Files
    /\ Promise!NoPlan = [i \in Entries |-> <<>>]
    /\ \A i, offset : Promise!From(i, offset) = From(i, offset)
    /\ \A S : Promise!Min(S) = Min(S)
  BY DEF Promise!Entries, Entries, Promise!Files, Files, Promise!NoPlan, Promise!From, From,
         Promise!Min, Min

LEMMA NothingPlanned == ~ Going => Plan = Promise!NoPlan
  BY SameDefinitions DEF Plan, Remaining

\* The steps of the transfer that are steps of Delivery of their own kind.
LEMMA IsEnd == ASSUME DeliveryPhase' = "idle", UNCHANGED saved PROVE Promise!End
<1>1. (~ Going => Plan = Promise!NoPlan)'
  BY NothingPlanned, PTL
<1>2. PhaseFacts'
  BY Phases, PTL
<1> QED
  BY <1>1, <1>2 DEF PhaseFacts, Promise!End, Plan, Promise!NoPlan

LEMMA IsDerail ==
    ASSUME DeliveryPhase' = "derailed", DeliveryPhase # "reported",
           NEW i \in Entries, Growing(i)
    PROVE  Promise!Derail
<1>1. (~ Going => Plan = Promise!NoPlan)'
  BY NothingPlanned, PTL
<1>2. PhaseFacts'
  BY Phases, PTL
<1>3. Plan' = [k \in Entries |-> <<>>] /\ Promise!Entries = Entries
  BY <1>1, <1>2, SameDefinitions DEF PhaseFacts
<1> QED
  BY <1>3, SameDefinitions DEF Promise!Derail, Growing, Plan

\* Only one kind of step writes to ./save.
LEMMA StepGrows ==
    ASSUME TypeInv, Next
    PROVE  UNCHANGED saved \/ (RecvLength /\ \E i \in Entries : Growing(i))
<1>1. CASE RecvLength
  <2>1. toServer # <<>>
    BY <1>1 DEF RecvLength, Receive
  <2>2. PICK len \in LengthIn(Datagram) : WriteBytes(Bytes(block, len))
    BY <1>1 DEF RecvLength
  <2>3. len \in Nat
    BY <2>1, <2>2, AnyLengthType, DatagramType DEF LengthIn
  <2>4. entry \in Files /\ block \in Block /\ (block.n > 0 => block.file \in Files)
    BY <1>1 DEF RecvLength, TypeInv, TypeOK, TransferTypeOK, InLoops
  <2> QED
    BY <1>1, <2>2, <2>3, <2>4, WriteGrows, TypeParts
<1>2. CASE ~ RecvLength
  BY <1>2
  DEF Next, Connect, ClientStep, KillClient, Stray, ServerStep, SendOffset, AckOffset, AckIndex,
      Loop, MakeDirectory, SkipEntry, OpenFile, EndLoop, RecvEndOfFile, RecvMarker,
      TakeEndOfFile, RecvBlock, TakeBlock, FileCnt, DirCnt, KillServer, RestartServer, serverSide, store
<1> QED
  BY <1>1, <1>2
-----------------------------------------------------------------------------
\* What is planned for a session that is going.
LEMMA PlanOf ==
    TypeInv /\ Going =>
        Plan = [i \in Entries |->
                    IF i \in Files /\ i >= indexA THEN From(i, Added(i)) ELSE <<>>]
<1> SUFFICES ASSUME TypeInv, Going
             PROVE  Plan = [i \in Entries |->
                        IF i \in Files /\ i >= indexA THEN From(i, Added(i)) ELSE <<>>]
  OBVIOUS
<1>1. ASSUME NEW i \in Files
      PROVE  0 + (Len(saved[i]) - Len(before[i])) = Added(i)
  <2>1. Len(saved[i]) \in Nat /\ Len(before[i]) \in Nat
    BY SizeType, LenProperties DEF TypeInv, TypeOK, TransferTypeOK
  <2> QED
    BY <2>1 DEF Added
<1> QED
  BY <1>1 DEF Plan, Remaining

\* A session starts at an entry whose copy is as the session found it, and the plan is the
\* whole of every file from there on.
LEMMA Begins ==
    ASSUME TypeInv', DeliveryPhase = "idle", DeliveryPhase' = "going",
           saved' = saved, before' = saved
    PROVE  Promise!Begin
<1>1. Going'
  <2>1. PhaseFacts'
    BY Phases, PTL
  <2> QED
    BY <2>1 DEF PhaseFacts
<1>2. indexA' \in Entries /\ Len(saved[indexA']) \in Nat /\ \A i \in Files : Len(saved[i]) \in Nat
  BY SizeType, LenProperties DEF TypeInv, TypeOK, TransferTypeOK
<1>3. \A i \in Files : Added(i)' = 0
  BY <1>2 DEF Added
<1>4. (TypeInv /\ Going =>
        Plan = [i \in Entries |->
                    IF i \in Files /\ i >= indexA THEN From(i, Added(i)) ELSE <<>>])'
  BY PlanOf, PTL
<1>5. Plan' = [i \in Entries |-> IF i \in Files /\ i >= indexA' THEN From(i, 0) ELSE <<>>]
  BY <1>1, <1>3, <1>4
<1>6. 0 \in 0 .. Len(saved[indexA'])
  BY <1>2
<1> QED
  BY <1>2, <1>5, <1>6, SameDefinitions DEF Promise!Begin, Plan

Same == UNCHANGED <<saved, Plan, DeliveryPhase>>

LEMMA IsSame ==
    ASSUME Going, Going', UNCHANGED <<saved, before, indexA>>
    PROVE  Same
<1>1. PhaseFacts'
  BY Phases, PTL
<1> QED
  BY <1>1, Phases DEF PhaseFacts, Same, Plan, Remaining

\* The least entry with something left is the one the server writes to.
LEMMA PlanStartsAtEntry ==
    ASSUME TypeInv, Delivered, entry \in Files, Going, Plan[entry] # <<>>
    PROVE  Min({k \in Entries : Plan[k] # <<>>}) = entry
<1> DEFINE S == {k \in Entries : Plan[k] # <<>>}
<1>1. entry \in S /\ S \subseteq Nat
  BY SizeType, TreeAssumption DEF Entries
<1>2. ASSUME NEW k \in S
      PROVE  entry <= k
  <2>1. k \in Files /\ k >= indexA /\ From(k, Added(k)) # <<>>
    BY PlanOf
  <2>2. k \in Nat /\ indexA \in Nat /\ entry \in Nat /\ Size[k] \in Nat
    BY <2>1, IndexTypes, TypeParts, FilesAreEntries, SizeType
  <2>3. ASSUME k < entry
        PROVE  FALSE
    <3>1. Added(k) = Size[k]
      BY <2>1, <2>2, <2>3 DEF Delivered
    <3>2. From(k, Size[k]) = <<>>
      BY <2>2 DEF From
    <3> QED
      BY <2>1, <3>1, <3>2
  <2> QED
    BY <2>2, <2>3
<1>3. Min(S) \in S /\ Min(S) <= entry
  BY <1>1, MinIsLeast
<1> QED
  BY <1>1, <1>2, <1>3

LEMMA LengthDelivers ==
    ASSUME TypeInv, TypeInv', LockStep, Streaming, Alive, Clean, Clean', RecvLength,
           UNCHANGED client
    PROVE  Promise!Deliver
<1>1. /\ Flowing /\ Chained /\ Paired
      /\ sPhase = "length" /\ sPhase' = "content"
      /\ entry \in Files
      /\ UNCHANGED cPhase
      /\ toServer # <<>>
  BY StreamingParts, CleanPaired
  DEF RecvLength, Receive, Queued, TypeInv, InLoops, Serving, client
<1>2. /\ Delivered
      /\ block.n > 0 /\ block.at = Added(entry) /\ block.at + block.n <= Size[entry]
      /\ block \in Block
      /\ block.file = entry
  BY <1>1 DEF Flowing, Paired, TypeInv, TypeOK, TransferTypeOK
<1>3. Datagram.type = "length" /\ Datagram.block = block
  BY <1>1, ChainHead DEF Fits, Expects
<1>4. WriteBytes(Bytes(block, block.n))
  BY <1>3 DEF RecvLength, LengthIn
<1>5. Added(entry)' = Added(entry) + block.n
  BY <1>1, <1>2, <1>4, WriteDelivered
<1>6. /\ block.n \in Nat /\ Added(entry) \in Nat
      /\ entry \in Entries /\ Size[entry] \in Nat
      /\ entry >= indexA
  BY <1>1, <1>2, SizeType, TransferAssumption DEF Block, Delivered
<1>7. Going /\ Going'
  BY <1>1 DEF Going, Serving, Alive
<1> DEFINE n == block.n
           x == Added(entry)
<1>8. n \in Nat /\ n > 0 /\ x \in Nat /\ x + n <= Size[entry] /\ block.at = x
  BY <1>2, <1>6
<1>9. Plan[entry] = From(entry, x)
  BY <1>1, <1>6, <1>7, PlanOf
<1>10. Bytes(block, n) = [k \in 1 .. n |-> <<entry, x + k - 1>>]
  BY <1>2, <1>8 DEF Bytes
<1>11. Plan' = [i \in Entries |->
                    IF i \in Files /\ i >= indexA THEN From(i, Added(i)') ELSE <<>>]
  <2>1. indexA' = indexA
    BY <1>4 DEF WriteBytes
  <2>2. (TypeInv /\ Going =>
            Plan = [i \in Entries |->
                        IF i \in Files /\ i >= indexA THEN From(i, Added(i)) ELSE <<>>])'
    BY PlanOf, PTL
  <2> QED
    BY <1>7, <2>1, <2>2
<1>12. Plan'[entry] = From(entry, x + n)
  <2>1. Len(saved'[entry]) - Len(before'[entry]) = x + n
    BY <1>4, <1>5 DEF Added, WriteBytes
  <2> QED
    BY <1>1, <1>6, <1>11, <2>1 DEF Added
<1>13. \A i \in Entries \ {entry} : Plan'[i] = Plan[i]
  <2>1. ASSUME NEW i \in Files, i # entry
        PROVE  Added(i)' = Added(i)
    <3>1. saved'[i] = saved[i] /\ before' = before
      BY <1>1, <1>2, <1>4, <1>6, <2>1, SizeType, WriteType, TypeParts
    <3> QED
      BY <3>1 DEF Added
  <2> QED
    BY <1>7, <1>11, <2>1, PlanOf
<1>14. Min({k \in Entries : Plan[k] # <<>>}) = entry /\ Plan[entry] # <<>>
  BY <1>1, <1>2, <1>7, <1>8, <1>9, FromCut, PlanStartsAtEntry
<1>15. /\ n \in 1 .. Len(Plan[entry])
       /\ Bytes(block, n) = SubSeq(Plan[entry], 1, n)
       /\ Plan'[entry] = SubSeq(Plan[entry], n + 1, Len(Plan[entry]))
  <2> HIDE DEF n, x
  <2>1. /\ n \in 1 .. Len(From(entry, x))
        /\ SubSeq(From(entry, x), 1, n) = [k \in 1 .. n |-> <<entry, x + k - 1>>]
        /\ SubSeq(From(entry, x), n + 1, Len(From(entry, x))) = From(entry, x + n)
    BY <1>1, <1>8, FromCut, ZenonT(60)
  <2> QED
    BY <1>9, <1>10, <1>12, <2>1
<1>16. Plan' = [Plan EXCEPT ![entry] = SubSeq(@, n + 1, Len(@))]
  <2>1. Plan = [i \in Entries |-> Plan[i]]
    BY <1>7, PlanOf
  <2>2. Plan' = [i \in Entries |-> Plan'[i]]
    BY <1>11
  <2> QED
    BY <1>6, <1>13, <1>15, <2>1, <2>2
<1>17. saved' = [saved EXCEPT ![entry] = @ \o SubSeq(Plan[entry], 1, n)]
  BY <1>4, <1>15 DEF WriteBytes
<1>18. Plan # Promise!NoPlan
  BY <1>6, <1>14, SameDefinitions
<1>19. DeliveryPhase = "going" /\ DeliveryPhase' = "going"
  <2>1. PhaseFacts'
    BY Phases, PTL
  <2> QED
    BY <1>7, <2>1, Phases DEF PhaseFacts
<1> HIDE DEF n
<1> QED
  BY <1>14, <1>15, <1>16, <1>17, <1>18, <1>19, SameDefinitions DEF Promise!Deliver, Plan
-----------------------------------------------------------------------------
\* A client that receives its offset after the server's end begins the session then.
LEMMA LateBegins ==
    ASSUME TypeInv, TypeInv', LockStep, Reporting, ClientStep,
           Alive, Clean, cPhase = "offset", sPhase \notin Serving, DeliveryPhase' = "going"
    PROVE  Promise!Begin
<1>1. toClient # <<>> /\ UNCHANGED <<saved, before>>
  BY DEF ClientStep, RecvOffset, RecvIndex, SendBlock, SendLength, SendEof, RecvEof,
         SendFileCount, RecvFileEcho, RecvLast, Consume, serverSide, store
<1>2. saved = before
  BY <1>1 DEF LockStep, Reporting
<1>3. DeliveryPhase = "idle"
  BY DEF DeliveryPhase, Going
<1> QED
  BY <1>1, <1>2, <1>3, Begins

\* The client's steps: they are within a session, begin one late, end it or report it.
LEMMA ClientRefines ==
    ASSUME TypeInv, TypeInv', LockStep, Streaming, Reporting, ClientStep
    PROVE  Promise!DeliveryNext \/ Same
<1>1. /\ Alive
      /\ UNCHANGED <<saved, before, indexA, sPhase>>
      /\ Clean' => Clean
      /\ cPhase' # "offset"
  BY ClientRuns
  DEF ClientStep, RecvOffset, RecvIndex, SendBlock, SendLength, SendEof, RecvEof,
      SendFileCount, RecvFileEcho, RecvLast, MoveTo, serverSide, store, server
<1>2. DeliveryPhase # "reported"
  BY <1>1, Phases DEF PhaseFacts, Alive, Running
<1>3. PhaseFacts'
  BY Phases, PTL
<1>4. CASE DeliveryPhase' = "idle"
  BY <1>1, <1>4, IsEnd DEF Promise!DeliveryNext
<1>5. CASE DeliveryPhase' = "derailed"
  <2>1. PICK i \in Entries : Growing(i)
    BY <1>1, SameGrows, TypeParts
  <2> QED
    BY <1>2, <1>5, <2>1, IsDerail DEF Promise!DeliveryNext
<1>6. CASE DeliveryPhase' = "reported"
  <2>1. cPhase' = "done" /\ Clean
    BY <1>1, <1>3, <1>6 DEF PhaseFacts
  <2>2. cPhase = "verdict"
    BY <2>1
    DEF ClientStep, RecvOffset, RecvIndex, SendBlock, SendLength, SendEof, RecvEof,
        SendFileCount, RecvFileEcho, RecvLast, MoveTo
  <2>3. Going /\ Complete
    BY <1>1, <2>1, <2>2 DEF Going, Reporting, AtEnd
  <2>4. Plan = Promise!NoPlan
    <3>1. ASSUME NEW i \in Files, i >= indexA
          PROVE  From(i, Added(i)) = <<>>
      <4>1. saved[i] = before[i] \o Source(i)
        <5>1. ~(i < indexA)
          BY <3>1, FilesAreEntries, IndexTypes, TypeParts
        <5> QED
          BY <2>3, <5>1 DEF Complete
      <4>2. Added(i) = Size[i]
        <5>1. /\ before[i] \in Bytestrings
              /\ Size[i] \in Nat
              /\ Piece(0, i, Size[i]) \in Bytestrings
              /\ Len(Piece(0, i, Size[i])) = Size[i]
          BY SizeType, PieceType DEF TypeInv, TypeOK, TransferTypeOK, Bytestrings
        <5>2. saved[i] = before[i] \o Piece(0, i, Size[i])
          BY <4>1, PieceIsSource
        <5>3. Len(saved[i]) = Len(before[i]) + Size[i] /\ Len(before[i]) \in Nat
          BY <5>1, <5>2, ConcatBytes
        <5> QED
          BY <5>1, <5>3 DEF Added
      <4>3. Size[i] \in Nat
        BY SizeType
      <4> QED
        BY <4>2, <4>3 DEF From
    <3> QED
      BY <2>3, <3>1, PlanOf, SameDefinitions
  <2>5. Plan' = Promise!NoPlan
    <3>1. ~ Going'
      BY <2>1 DEF Going, Alive, Running
    <3>2. (~ Going => Plan = Promise!NoPlan)'
      BY NothingPlanned, PTL
    <3> QED
      BY <3>1, <3>2, SameDefinitions DEF Promise!NoPlan
  <2>6. DeliveryPhase = "going"
    BY <2>3, Phases DEF PhaseFacts
  <2>7. Promise!Report
    BY <1>1, <1>6, <2>4, <2>5, <2>6 DEF Promise!Report, Plan
  <2> QED
    BY <2>7 DEF Promise!DeliveryNext
<1>7. CASE DeliveryPhase' = "going"
  <2>1. Going' /\ Clean
    BY <1>1, <1>3, <1>7 DEF PhaseFacts, Going
  <2>2. CASE Going
    BY <1>1, <2>1, <2>2, IsSame
  <2>3. CASE ~ Going
    <3>1. cPhase = "offset" /\ sPhase \notin Serving
      BY <1>1, <2>1, <2>3 DEF Going
    <3> QED
      BY <1>1, <1>7, <2>1, <3>1, LateBegins DEF Promise!DeliveryNext
  <2> QED
    BY <2>2, <2>3
<1> QED
  BY <1>3, <1>4, <1>5, <1>6, <1>7 DEF PhaseFacts

\* The offset sent begins a session, unless it is lost or nobody is there to receive it.
LEMMA OffsetRefines ==
    ASSUME TypeInv, TypeInv', LockStep, SendOffset, UNCHANGED client
    PROVE  Promise!DeliveryNext \/ Same
<1>1. /\ cPhase \in {"offset", "killed"} /\ cPhase' = cPhase
      /\ sPhase = "start" /\ sPhase' = "ackOffset"
      /\ saved' = saved /\ before' = saved
  BY DEF LockStep, SendOffset, client
<1>2. DeliveryPhase = "idle"
  BY <1>1 DEF DeliveryPhase, Going, Alive, Running, Serving
<1>3. PhaseFacts'
  BY Phases, PTL
<1>4. CASE DeliveryPhase' = "going"
  BY <1>1, <1>2, <1>4, Begins DEF Promise!DeliveryNext
<1>5. CASE DeliveryPhase' = "derailed"
  <2>1. PICK i \in Entries : Growing(i)
    BY <1>1, SameGrows, TypeParts
  <2> QED
    BY <1>2, <1>5, <2>1, IsDerail DEF Promise!DeliveryNext
<1>6. CASE DeliveryPhase' = "idle"
  BY <1>1, <1>6, IsEnd DEF Promise!DeliveryNext
<1> QED
  BY <1>1, <1>3, <1>4, <1>5, <1>6 DEF PhaseFacts

\* The server's other steps: they deliver, or a session that has gone wrong goes on in its
\* way.
LEMMA ServerRefines ==
    ASSUME TypeInv, TypeInv', LockStep, Streaming, Reporting, ServerStep, ~ SendOffset
    PROVE  Promise!DeliveryNext \/ Same
<1>1. /\ sPhase \in Serving
      /\ DirCnt \/ sPhase' \in Serving
      /\ UNCHANGED <<before, indexA>>
      /\ UNCHANGED client
  BY DEF ServerStep, AckOffset, AckIndex, Loop, MakeDirectory, SkipEntry, OpenFile, EndLoop,
         RecvEndOfFile, RecvMarker, TakeEndOfFile, RecvBlock, TakeBlock, RecvLength, WriteBytes,
         FileCnt, DirCnt, Serving, store
<1>2. /\ Clean' => Clean
      /\ cPhase' = cPhase
      /\ Alive' = Alive
      /\ ~ (cPhase = "done" /\ Clean)
  BY <1>1, ServerTakes DEF Clean, client, Alive, Reporting
<1>3. PhaseFacts'
  BY Phases, PTL
<1>4. PICK i \in Entries : Growing(i)
  BY StepGrows, SameGrows, TypeParts DEF Next
<1>5. CASE sPhase' \in Serving /\ ~ (Alive' /\ Clean')
  <2>1. DeliveryPhase' = "derailed"
    BY <1>2, <1>3, <1>5 DEF PhaseFacts
  <2>2. DeliveryPhase # "reported"
    BY <1>2, Phases DEF PhaseFacts
  <2> QED
    BY <1>4, <2>1, <2>2, IsDerail DEF Promise!DeliveryNext
<1>6. CASE DirCnt /\ ~ (Alive' /\ Clean')
  <2>1. sPhase' \notin Serving /\ UNCHANGED saved
    BY <1>6 DEF DirCnt, store, Serving
  <2>2. DeliveryPhase' = "idle"
    BY <1>2, <1>3, <1>6, <2>1 DEF PhaseFacts, Going
  <2> QED
    BY <2>1, <2>2, IsEnd DEF Promise!DeliveryNext
<1>7. CASE Alive' /\ Clean'
  <2>1. Alive /\ Clean
    BY <1>2, <1>7
  <2>2. Going
    BY <1>1, <2>1 DEF Going
  <2>3. DirCnt => cPhase # "offset"
    BY <2>1, StreamingParts DEF DirCnt, Queued, ClientFits, Serving
  <2>4. Going'
    BY <1>1, <1>2, <1>7, <2>3 DEF Going
  <2>5. CASE UNCHANGED saved
    BY <1>1, <2>2, <2>4, <2>5, IsSame
  <2>6. CASE RecvLength
    BY <1>1, <1>7, <2>1, <2>6, LengthDelivers DEF Promise!DeliveryNext
  <2> QED
    BY <2>5, <2>6, StepGrows DEF Next
<1> QED
  BY <1>1, <1>5, <1>6, <1>7

LEMMA StepRefines ==
    ASSUME TypeInv, TypeInv', LockStep, Streaming, Reporting, [Next]_vars
    PROVE  Promise!DeliveryNext \/ Same
<1>0. PhaseFacts'
  BY Phases, PTL
<1>1. CASE Connect
  <2>1. /\ cPhase' = "offset" /\ sPhase' = "start" /\ UNCHANGED saved
    BY <1>1 DEF Connect, store
  <2>2. DeliveryPhase' = "idle"
    BY <1>0, <2>1 DEF PhaseFacts, Going, Serving
  <2> QED
    BY <2>1, <2>2, IsEnd DEF Promise!DeliveryNext
<1>2. CASE ClientStep
  BY <1>2, ClientRefines
<1>3. CASE KillClient \/ Stray
  <2>1. /\ UNCHANGED saved
        /\ cPhase' = "killed" \/ ~ Clean'
    BY <1>3 DEF KillClient, Stray, Fault, Clean, Mishap, serverSide, store
  <2>2. DeliveryPhase' \in {"idle", "derailed"}
    BY <1>0, <2>1 DEF PhaseFacts, Going, Alive, Running
  <2>3. DeliveryPhase # "reported"
    <3>1. CASE KillClient
      BY <3>1, Phases DEF PhaseFacts, KillClient, Alive, Running
    <3>2. CASE Stray
      BY <3>2, Phases DEF PhaseFacts, Stray, Listening, Reporting
    <3> QED
      BY <1>3, <3>1, <3>2
  <2>4. PICK i \in Entries : Growing(i)
    BY <2>1, SameGrows, TypeParts
  <2> QED
    BY <2>1, <2>2, <2>3, <2>4, IsEnd, IsDerail DEF Promise!DeliveryNext
<1>4. CASE ServerStep
  BY <1>4, OffsetRefines, ServerRefines DEF ServerStep
<1>5. CASE KillServer
  <2>1. /\ UNCHANGED <<saved, before, indexA, cPhase, mishaps>>
        /\ sPhase \in Serving /\ sPhase' = "down" /\ sPhase' \notin Serving
    BY <1>5 DEF KillServer, store, client, Serving
  <2>2. ~ (cPhase' = "done" /\ Clean') /\ (Clean' <=> Clean) /\ (Alive' <=> Alive)
    BY <2>1 DEF Reporting, Clean, Alive
  <2>3. DeliveryPhase' \in {"idle", "going"}
    BY <1>0, <2>1, <2>2 DEF PhaseFacts
  <2>4. CASE DeliveryPhase' = "going"
    <3>1. Going' /\ Going
      BY <1>0, <2>1, <2>2, <2>4 DEF PhaseFacts, Going
    <3> QED
      BY <2>1, <3>1, IsSame
  <2> QED
    BY <2>1, <2>3, <2>4, IsEnd DEF Promise!DeliveryNext
<1>6. CASE RestartServer \/ UNCHANGED vars
  <2>1. /\ UNCHANGED <<saved, before, indexA, cPhase, mishaps>>
        /\ sPhase' \in Serving <=> sPhase \in Serving
    BY <1>6 DEF RestartServer, store, client, Serving, vars, serverSide, server
  <2>2. Going' = Going /\ DeliveryPhase' = DeliveryPhase
    BY <2>1 DEF Going, Alive, Clean, DeliveryPhase
  <2>3. Plan' = Plan
    BY <2>1, <2>2 DEF Plan, Remaining
  <2> QED
    BY <2>1, <2>2, <2>3 DEF Same
<1> QED
  BY <1>1, <1>2, <1>3, <1>4, <1>5, <1>6 DEF Next

\* For every tree, every size of a block, any number of sessions and all the faults the
\* model has: the transfer over UDP keeps the promise of Delivery. A session in which a
\* block was taken for the end of a file is one that has gone wrong.
THEOREM DeliveryKept == Spec => KeepsPromise
<1>1. Init => Promise!DeliveryInit
  <2>1. Init => ~ Going /\ DeliveryPhase = "idle" /\ saved = [i \in Entries |-> <<>>]
    BY DEF Init, TransferInit, Going, Alive, Running, DeliveryPhase, Serving
  <2> QED
    BY <2>1, NothingPlanned, SameDefinitions DEF Promise!DeliveryInit, Plan
<1>2. TypeInv /\ TypeInv' /\ LockStep /\ Streaming /\ Reporting /\ [Next]_vars
        => [Promise!DeliveryNext]_(Promise!deliveryVars)
  BY StepRefines DEF Same, Plan, Promise!deliveryVars
<1> QED
  BY <1>1, <1>2, TypeCorrect, InLockStep, StreamIsWhole, EndIsComplete, PTL
  DEF Spec, KeepsPromise, Promise!DeliverySpec
-----------------------------------------------------------------------------
(* What the sessions leave under ./save.                                   *)

LEMMA StepInOrder ==
    ASSUME TypeInv, InOrder, [Next]_vars
    PROVE  InOrder'
<1>1. TransferTypeOK /\ InLoops
  BY TypeParts
<1>2. CASE SendOffset
  BY <1>1, <1>2, StartInOrder DEF SendOffset
<1>3. CASE AckIndex \/ RecvEndOfFile \/ RecvMarker
  BY <1>1, <1>3, NextInOrder DEF AckIndex, RecvEndOfFile, RecvMarker, TakeEndOfFile, store
<1>4. CASE Loop
  BY <1>1, <1>4, LoopInOrder
<1>5. CASE RecvLength
  <2>1. PICK len : WriteBytes(Bytes(block, len))
    BY <1>5 DEF RecvLength
  <2> QED
    BY <1>1, <1>5, <2>1, WriteInOrder DEF RecvLength
<1>6. CASE AckOffset \/ RecvBlock \/ FileCnt \/ DirCnt
  BY <1>6, SameInOrder DEF AckOffset, RecvBlock, TakeBlock, FileCnt, DirCnt, store, Serving
<1>7. CASE Connect \/ ClientStep \/ KillClient \/ Stray \/ KillServer \/ RestartServer
            \/ UNCHANGED vars
  <2>1. /\ UNCHANGED <<present, saved, before, indexA, entry>>
        /\ sPhase' = sPhase \/ sPhase' \notin Serving
    BY <1>7
    DEF Connect, ClientStep, KillClient, Stray, KillServer, RestartServer, vars, serverSide,
        store, server, Serving
  <2> QED
    BY <2>1, SameInOrder
<1> QED
  BY <1>2, <1>3, <1>4, <1>5, <1>6, <1>7 DEF Next, ServerStep

\* Nothing that has once gone wrong is forgotten.
LEMMA NothingForgotten ==
    ASSUME TypeInv, [Next]_vars, mishaps' = {}
    PROVE  mishaps = {}
<1>1. CASE ClientStep
  <2>1. \A m : Send(m) => mishaps \subseteq mishaps'
    BY DEF Send, Fault
  <2> QED
    BY <1>1, <2>1, ClientSends
<1>2. CASE ServerStep
  <2>1. \A q : Answer(q) => mishaps \subseteq mishaps'
    BY DEF Answer, Fault
  <2> QED
    BY <1>2, <2>1
    DEF ServerStep, SendOffset, AckOffset, AckIndex, RecvEndOfFile, RecvMarker, RecvBlock,
        RecvLength, FileCnt, DirCnt, Fault
<1>3. CASE Connect \/ KillClient \/ Stray \/ KillServer \/ RestartServer \/ UNCHANGED vars
  BY <1>3 DEF Connect, KillClient, Stray, KillServer, RestartServer, vars, Fault, Earlier
<1> QED
  BY <1>1, <1>2, <1>3 DEF Next

\* The server opens an entry only when every file before it has its contents.
LEMMA OpensAfterWhole ==
    ASSUME TypeInv, Streaming, InOrder, NoneLeft, mishaps = {}, sPhase = "loop",
           entry < FileCount, Kind[entry] # "none",
           NEW i \in Files, i < entry, saved[i] = <<>>
    PROVE  Size[i] = 0
<1>1. Delivered
  BY DEF Streaming, Clean, Serving
<1>2. /\ i \in Nat /\ entry \in Entries /\ entry \in Nat /\ indexA \in Entries /\ indexA \in Nat
      /\ Size[i] \in Nat
  BY FilesAreEntries, SizeType, IndexTypes, TypeParts, TreeAssumption DEF Entries
<1>3. Len(before[i]) \in Nat /\ (Len(before[i]) = 0 => before[i] = <<>>) /\ Len(saved[i]) = 0
  BY SizeType, LenProperties, EmptySeq DEF TypeInv, TypeOK, TransferTypeOK
<1>4. CASE i < indexA
  <2>1. Added(i) = 0
    BY <1>1, <1>4 DEF Delivered
  <2>2. before[i] = <<>>
    BY <1>3, <2>1 DEF Added
  <2>3. Kind[indexA] # "none"
    <3>1. indexA = entry \/ indexA < entry
      BY <1>1, <1>2 DEF Delivered
    <3> QED
      BY <1>2, <3>1, TreeAssumption
  <2> QED
    BY <1>4, <2>2, <2>3 DEF NoneLeft
<1>5. CASE ~(i < indexA)
  <2>1. Added(i) = Size[i]
    BY <1>1, <1>2, <1>5 DEF Delivered
  <2> QED
    BY <1>2, <1>3, <2>1 DEF Added
<1> QED
  BY <1>4, <1>5

LEMMA StepNoneLeft ==
    ASSUME TypeInv, Streaming, InOrder, NoneLeft, [Next]_vars
    PROVE  NoneLeft'
<1> SUFFICES ASSUME mishaps' = {}
             PROVE  /\ \A j \in present' : \A i \in Files :
                            i < j /\ saved'[i] = <<>> => Size[i] = 0
                    /\ Kind[indexA'] # "none" =>
                            \A i \in Files : i < indexA' /\ before'[i] = <<>> => Size[i] = 0
  BY DEF NoneLeft
<1>1. mishaps = {}
  BY NothingForgotten
<1>2. /\ \A j \in present : \A i \in Files : i < j /\ saved[i] = <<>> => Size[i] = 0
      /\ Kind[indexA] # "none" =>
            \A i \in Files : i < indexA /\ before[i] = <<>> => Size[i] = 0
  BY <1>1 DEF NoneLeft
<1>3. CASE SendOffset
  <2>1. indexA' = StartIndex /\ before' = saved /\ UNCHANGED <<present, saved>>
    BY <1>3 DEF SendOffset
  <2>2. ASSUME Kind[StartIndex] # "none", NEW i \in Files, i < StartIndex
        PROVE  StartIndex \in present
    <3>1. StartIndex # 0
      BY <2>2, FilesAreEntries
    <3>2. StartIndex \in Found
      BY <3>1, StartFinds, TypeParts DEF StartIndex
    <3> QED
      BY <2>2, <3>2 DEF Found
  <2> QED
    BY <1>2, <2>1, <2>2
<1>4. CASE Loop
  <2>1. /\ UNCHANGED <<saved, before, indexA>>
        /\ \/ present' = present
           \/ /\ sPhase = "loop" /\ entry < FileCount /\ Kind[entry] # "none"
              /\ present' = present \cup {entry}
    BY <1>4 DEF Loop, MakeDirectory, SkipEntry, OpenFile, EndLoop, store
  <2> QED
    BY <1>1, <1>2, <2>1, OpensAfterWhole
<1>5. CASE ~ SendOffset /\ ~ Loop
  <2>1. UNCHANGED <<present, before, indexA>>
    BY <1>5
    DEF Next, vars, Connect, ClientStep, KillClient, Stray, ServerStep, AckOffset, AckIndex,
        RecvEndOfFile, RecvMarker, TakeEndOfFile, RecvBlock, TakeBlock, RecvLength, WriteBytes,
        FileCnt, DirCnt, KillServer, RestartServer, serverSide, server, store
  <2>2. ASSUME NEW i \in Files, saved'[i] = <<>>
        PROVE  saved[i] = <<>>
    <3>1. CASE UNCHANGED saved
      BY <2>2, <3>1
    <3>2. ASSUME NEW k \in Entries, Growing(k)
          PROVE  saved[i] = <<>>
      <4>1. saved'[i] = saved[i] \/ Len(saved[i]) <= Len(saved'[i])
        BY <3>2, SizeType DEF Growing
      <4>2. Len(saved[i]) \in Nat /\ (Len(saved[i]) = 0 => saved[i] = <<>>)
        BY SizeType, LenProperties, EmptySeq DEF TypeInv, TypeOK, TransferTypeOK
      <4>3. Len(saved'[i]) = 0
        BY <2>2
      <4> QED
        BY <2>2, <4>1, <4>2, <4>3
    <3>3. UNCHANGED saved \/ \E k \in Entries : Growing(k)
      BY StepGrows DEF vars, serverSide, store
    <3> QED
      BY <3>1, <3>2, <3>3
  <2> QED
    BY <1>2, <2>1, <2>2
<1> QED
  BY <1>3, <1>4, <1>5

\* For every tree and all the faults the model has: the entries come into being in the
\* order of the list, and as long as nothing goes wrong but deaths, and no block is taken for
\* the end of a file, each file is left behind only complete.
THEOREM NothingLeftBehind == Spec => []Kept
<1>1. Init => Kept
  <2>1. SUFFICES ASSUME Init PROVE Kept
    OBVIOUS
  <2>2. /\ present = {} /\ indexA = 0 /\ sPhase \notin Serving
        /\ \A i \in Entries : saved[i] = <<>> /\ before[i] = <<>>
    BY <2>1 DEF Init, TransferInit, Serving
  <2>3. \A i \in Files : ~(i < 0)
    BY FilesAreEntries
  <2> QED
    BY <2>2, <2>3 DEF Kept, InOrder, NoneLeft
<1>2. TypeInv /\ Streaming /\ Kept /\ [Next]_vars => Kept'
  BY StepInOrder, StepNoneLeft DEF Kept
<1> QED
  BY <1>1, <1>2, TypeCorrect, StreamIsWhole, PTL DEF Spec

\* For every tree and any number of sessions with all the deaths there may be, in none of
\* which a block was taken for the end of a file: a session that has no copy to continue
\* has saved every file when its client comes to its end.
THEOREM SavedWhenDone == Spec => []FreshMeansSaved
<1>1. ASSUME TypeInv, Reporting, Kept
      PROVE  FreshMeansSaved
  <2>1. SUFFICES ASSUME cPhase = "done", mishaps = {},
                        \A i \in Files : before[i] \in {<<>>, Source(i)},
                        indexA \in Files => before[indexA] = <<>>,
                        Kind[indexA] # "none",
                        NEW i \in Files
                 PROVE  saved[i] = Source(i)
    BY DEF FreshMeansSaved
  <2>2. saved[i] = before[i] \o (IF i < indexA THEN <<>> ELSE Source(i))
    <3>1. Complete
      BY <1>1, <2>1 DEF Reporting, Clean, AtEnd
    <3> QED
      BY <3>1 DEF Complete
  <2>3. /\ Size[i] \in Nat /\ i \in Entries /\ i \in Nat /\ indexA \in Nat
        /\ Source(i) \in Bytestrings
    <3>1. Size[i] \in Nat
      BY SizeType
    <3>2. Source(i) \in Bytestrings
      <4>1. Piece(0, i, Size[i]) \in Bytestrings
        BY <3>1, PieceType
      <4> QED
        BY <4>1, PieceIsSource
    <3> QED
      BY <1>1, <3>1, <3>2, SizeType, FilesAreEntries, IndexTypes, TypeParts
  <2>4. CASE i < indexA
    <3>1. before[i] = Source(i)
      <4>1. CASE before[i] = <<>>
        <5>1. Size[i] = 0
          BY <1>1, <2>1, <2>4, <4>1 DEF Kept, NoneLeft
        <5> QED
          BY <4>1, <5>1 DEF Source, From
      <4> QED
        BY <2>1, <4>1
    <3> QED
      BY <2>2, <2>3, <2>4, <3>1, ConcatEmptySeq DEF Bytestrings
  <2>5. CASE ~(i < indexA)
    <3>1. before[i] = <<>>
      <4>1. CASE i = indexA
        BY <2>1, <4>1
      <4>2. CASE i > indexA
        BY <1>1, <2>3, <4>2 DEF Kept, InOrder
      <4> QED
        BY <2>3, <2>5, <4>1, <4>2
    <3> QED
      BY <2>2, <2>3, <2>5, <3>1, ConcatEmptySeq DEF Bytestrings
  <2> QED
    BY <2>4, <2>5
<1> QED
  BY <1>1, TypeCorrect, EndIsComplete, NothingLeftBehind, PTL
=============================================================================
