--------------------------- MODULE TransferProofs ---------------------------
(***************************************************************************)
(* What the proofs about the two transfers rest on: lemmas about the list   *)
(* of entries, the queues and the copies, whatever carries the bytes.       *)
(***************************************************************************)
EXTENDS TransferInvariant, SequenceTheorems, WellFoundedInduction, TLAPS

\* Min of a nonempty set of naturals is the least of them.
LEMMA MinIsLeast ==
    ASSUME NEW S \in SUBSET Nat, S # {}
    PROVE  Min(S) \in S /\ \A k \in S : Min(S) <= k
<1> DEFINE Less == OpToRel(<, Nat)
<1>1. IsWellFoundedOn(Less, Nat)
  BY NatLessThanWellFounded
<1>2. \A m, n \in Nat : <<m, n>> \in Less <=> m < n
  BY DEF OpToRel
<1> HIDE DEF Less
<1>3. \E n \in S : \A m \in S : ~ (<<m, n>> \in Less)
  BY <1>1, WFMin
<1>4. PICK n \in S : \A m \in S : ~ (<<m, n>> \in Less)
  BY <1>3
<1>5. ASSUME NEW m \in S
      PROVE  n <= m
  <2>1. m \in Nat /\ n \in Nat
    OBVIOUS
  <2>2. ~ (m < n)
    BY <1>2, <1>4, <2>1
  <2> QED
    BY <2>1, <2>2
<1> QED
  BY <1>5 DEF Min

LEMMA FilesAreEntries == Files \subseteq Nat /\ \A i \in Files : i < FileCount /\ Kind[i] = "f"
  BY TreeAssumption DEF Files, Entries

LEMMA SizeType == \A i \in Files : Size[i] \in Nat /\ i \in Entries
  BY TreeAssumption DEF Files

\* NextFile is the least file from i on, or one past the last entry.
LEMMA NextFileIsNext ==
    ASSUME NEW i \in Int
    PROVE  \/ /\ NextFile(i) \in Files
              /\ NextFile(i) >= i
              /\ \A k \in Files : k >= i => NextFile(i) <= k
           \/ /\ NextFile(i) = FileCount
              /\ \A k \in Files : k < i
<1>1. CASE \E k \in Files : k >= i
  <2> DEFINE S == {k \in Files : k >= i}
  <2>1. S \in SUBSET Nat /\ S # {}
    BY <1>1, FilesAreEntries
  <2>2. Min(S) \in S /\ \A k \in S : Min(S) <= k
    BY <2>1, MinIsLeast
  <2>3. NextFile(i) = Min(S)
    BY <1>1 DEF NextFile
  <2> QED
    BY <2>2, <2>3
<1>2. CASE ~ \E k \in Files : k >= i
  <2>1. NextFile(i) = FileCount
    BY <1>2 DEF NextFile
  <2>2. \A k \in Files : k < i
    BY <1>2, FilesAreEntries
  <2> QED
    BY <2>1, <2>2
<1> QED
  BY <1>1, <1>2

LEMMA NextFileRange ==
    ASSUME NEW i \in Int
    PROVE  NextFile(i) \in Files \/ NextFile(i) = FileCount
  BY NextFileIsNext

LEMMA NextFileOfFile ==
    ASSUME NEW i \in Files
    PROVE  NextFile(i) = i
<1>1. i \in Nat /\ i >= i
  BY FilesAreEntries
<1>2. ~ \A k \in Files : k < i
  BY <1>1
<1>3. NextFile(i) \in Files /\ NextFile(i) >= i /\ NextFile(i) <= i
  BY <1>1, <1>2, NextFileIsNext
<1>4. NextFile(i) \in Nat
  BY <1>3, FilesAreEntries
<1> QED
  BY <1>1, <1>3, <1>4

LEMMA NextFileSkips ==
    ASSUME NEW i \in Int, i \notin Files
    PROVE  NextFile(i + 1) = NextFile(i)
<1>1. \A k \in Files : k >= i <=> k >= i + 1
  BY FilesAreEntries
<1>2. {k \in Files : k >= i} = {k \in Files : k >= i + 1}
  BY <1>1
<1> QED
  BY <1>1, <1>2 DEF NextFile

LEMMA NextFileOfEnd == NextFile(FileCount) = FileCount
  BY FilesAreEntries, TreeAssumption DEF NextFile
-----------------------------------------------------------------------------
(* Sequences.                                                              *)

LEMMA TailOf ==
    ASSUME NEW S, NEW q \in Seq(S), q # <<>>
    PROVE  /\ Head(q) \in S
           /\ Head(q) = q[1]
           /\ Len(q) \in Nat \ {0}
           /\ Tail(q) \in Seq(S)
           /\ Len(Tail(q)) = Len(q) - 1
           /\ \A k \in 1 .. Len(Tail(q)) : Tail(q)[k] = q[k + 1]
  OBVIOUS

LEMMA AppendTo ==
    ASSUME NEW S, NEW q \in Seq(S), NEW m \in S
    PROVE  /\ Append(q, m) \in Seq(S)
           /\ Len(q) \in Nat
           /\ Len(Append(q, m)) = Len(q) + 1
           /\ \A k \in 1 .. Len(q) : Append(q, m)[k] = q[k]
           /\ Append(q, m)[Len(q) + 1] = m
  OBVIOUS

LEMMA Concatenated ==
    ASSUME NEW S, NEW q \in Seq(S), NEW r \in Seq(S)
    PROVE  /\ q \o r \in Seq(S)
           /\ Len(q) \in Nat
           /\ Len(r) \in Nat
           /\ Len(q \o r) = Len(q) + Len(r)
           /\ DOMAIN q = 1 .. Len(q)
           /\ DOMAIN (q \o r) = 1 .. (Len(q) + Len(r))
           /\ \A k \in 1 .. Len(q) : (q \o r)[k] = q[k]
           /\ \A k \in 1 .. Len(q) + Len(r) : k > Len(q) => (q \o r)[k] = r[k - Len(q)]
  OBVIOUS

Bytestrings == Seq(Byte \cup {Junk})

LEMMA ConcatBytes ==
    ASSUME NEW p \in Bytestrings, NEW r \in Bytestrings
    PROVE  /\ p \o r \in Bytestrings
           /\ Len(p) \in Nat
           /\ Len(r) \in Nat
           /\ Len(p \o r) = Len(p) + Len(r)
           /\ \A k \in 1 .. Len(p) : (p \o r)[k] = p[k]
           /\ \A k \in 1 .. Len(p) + Len(r) : ~ (k <= Len(p)) => (p \o r)[k] = r[k - Len(p)]
  BY DEF Bytestrings

LEMMA AssocBytes ==
    ASSUME NEW p \in Bytestrings, NEW q \in Bytestrings, NEW r \in Bytestrings
    PROVE  (p \o q) \o r = p \o (q \o r)
  BY ConcatAssociative DEF Bytestrings

\* The rest of a file, cut in two.
LEMMA FromCut ==
    ASSUME NEW i \in Files, NEW x \in Nat, NEW n \in Nat, x + n <= Size[i], n > 0
    PROVE  /\ Len(From(i, x)) = Size[i] - x
           /\ From(i, x) # <<>>
           /\ n \in 1 .. Len(From(i, x))
           /\ SubSeq(From(i, x), 1, n) = [k \in 1 .. n |-> <<i, x + k - 1>>]
           /\ SubSeq(From(i, x), n + 1, Len(From(i, x))) = From(i, x + n)
<1>1. Size[i] \in Nat /\ i \in Entries
  BY SizeType
<1> DEFINE l == Size[i] - x
           f == From(i, x)
<1>2. l \in Nat /\ n <= l /\ l > 0
  BY <1>1
<1>3. f = [k \in 1 .. l |-> <<i, x + k - 1>>]
  <2>1. x < Size[i]
    BY <1>1
  <2> QED
    BY <2>1 DEF From
<1> HIDE DEF f
<1>4. f \in Seq(Byte) /\ Len(f) = l
  <2>1. ASSUME NEW k \in 1 .. l
        PROVE  <<i, x + k - 1>> \in Byte
    BY <1>1, <1>2 DEF Byte
  <2> HIDE DEF l
  <2>2. [k \in 1 .. l |-> <<i, x + k - 1>>] \in Seq(Byte)
    BY <1>2, <2>1
  <2>3. Len([k \in 1 .. l |-> <<i, x + k - 1>>]) = l
    BY <1>2
  <2> QED
    BY <1>3, <2>2, <2>3
<1>5. f # <<>>
  BY <1>2, <1>4
<1>6. SubSeq(f, 1, n) = [k \in 1 .. n |-> <<i, x + k - 1>>]
  <2>1. SubSeq(f, 1, n) = [k \in 1 .. n |-> f[k]]
    BY <1>2, <1>4
  <2> QED
    BY <1>2, <1>3, <2>1
<1>7. SubSeq(f, n + 1, l) = [k \in 1 .. l - n |-> f[k + n]]
  BY <1>2, <1>4
<1>8. From(i, x + n) = [k \in 1 .. l - n |-> <<i, (x + n) + k - 1>>]
  <2>1. x + n < Size[i] => Size[i] - (x + n) = l - n
    BY <1>1
  <2>2. ~ (x + n < Size[i]) => 0 = l - n
    BY <1>1
  <2> QED
    BY <2>1, <2>2 DEF From
<1>9. ASSUME NEW k \in 1 .. l - n
      PROVE  f[k + n] = <<i, (x + n) + k - 1>>
  <2>1. k + n \in 1 .. l /\ x + (k + n) - 1 = (x + n) + k - 1
    BY <1>2
  <2> QED
    BY <1>3, <2>1
<1>10. SubSeq(f, n + 1, l) = From(i, x + n)
  BY <1>7, <1>8, <1>9
<1> QED
  BY <1>2, <1>4, <1>5, <1>6, <1>10 DEF f
-----------------------------------------------------------------------------
(* Types of what the steps are made of.                                    *)

LEMMA TextType ==
    /\ Zeros \in Block
    /\ \A t \in {"ack", "eof", "count", "stray"} :
        Text(t) \in ServerMessage /\ Text(t).block = Zeros
    /\ \A t \in {"eof", "echo", "verdict"} : Reply(t) \in ClientMessage
<1>1. Zeros \in Block
  BY TreeAssumption, TransferAssumption DEF Zeros, Block
<1> QED
  BY <1>1 DEF Text, Reply, ServerMessage, ClientMessage

\* What read() returns before the end of the file.
LEMMA ReadHereType ==
    ASSUME sending \in Files, pos \in Nat, pos < Size[sending]
    PROVE  /\ ReadHere \in Block
           /\ ReadHere.file = sending
           /\ ReadHere.at = pos
           /\ ReadHere.n > 0
           /\ pos + ReadHere.n \in Nat
           /\ pos + ReadHere.n <= Size[sending]
<1>1. Size[sending] \in Nat /\ sending \in 0 .. FileCount
  BY TreeAssumption DEF Files, Entries
<1>2. SIZEBUF \in Nat \ {0}
  BY TransferAssumption
<1> DEFINE n == IF Size[sending] - pos < SIZEBUF THEN Size[sending] - pos ELSE SIZEBUF
<1>3. n \in 0 .. SIZEBUF /\ n > 0 /\ pos + n <= Size[sending]
  BY <1>1, <1>2
<1>4. ReadHere = [file |-> sending, at |-> pos, n |-> n]
  BY DEF ReadHere
<1> HIDE DEF n
<1> QED
  BY <1>1, <1>2, <1>3, <1>4 DEF Block

LEMMA BytesType ==
    ASSUME NEW b \in Block, b.n > 0 => b.file \in Files, NEW len \in Nat
    PROVE  /\ Bytes(b, len) \in Seq(Byte \cup {Junk})
           /\ Len(Bytes(b, len)) = len
           /\ \A k \in 1 .. len : Bytes(b, len)[k] \in ({b.file} \X Nat) \cup {Junk}
           /\ b.n = 0 => \A k \in 1 .. len : Bytes(b, len)[k] = Junk
<1>1. b.n \in Nat /\ b.at \in Nat
  BY TransferAssumption DEF Block
<1>2. ASSUME NEW k \in 1 .. len, k <= b.n
      PROVE  <<b.file, b.at + k - 1>> \in Byte /\ <<b.file, b.at + k - 1>> \in {b.file} \X Nat
  <2>1. b.file \in Entries /\ b.at + k - 1 \in Nat
    BY <1>1, <1>2 DEF Files
  <2> QED
    BY <2>1 DEF Byte
<1>3. \A k \in 1 .. len :
        /\ Bytes(b, len)[k] \in Byte \cup {Junk}
        /\ Bytes(b, len)[k] \in ({b.file} \X Nat) \cup {Junk}
  BY <1>2 DEF Bytes
<1>4. b.n = 0 => \A k \in 1 .. len : Bytes(b, len)[k] = Junk
  BY DEF Bytes
<1>5. Bytes(b, len) \in Seq(Byte \cup {Junk}) /\ Len(Bytes(b, len)) = len
  BY <1>3 DEF Bytes
<1> QED
  BY <1>3, <1>4, <1>5

LEMMA SeekType == ASSUME NEW offset \in Int PROVE Seek(offset) \in Nat
  BY DEF Seek

\* FilePathCheck finds an entry to start from, and an offset.
LEMMA StartType ==
    ASSUME TransferTypeOK
    PROVE  StartIndex \in Entries /\ StartOffset \in Int
<1> DEFINE Missing == (Entries \ Found) \cup {FileCount}
<1>1. Missing \in SUBSET Nat /\ Missing # {}
  BY TreeAssumption DEF Entries
<1>2. Min(Missing) \in Missing
  BY <1>1, MinIsLeast
<1>3. StartIndex \in Entries
  <2>1. CASE 0 \in Found
    <3>1. 0 \notin Missing
      BY <2>1, TreeAssumption
    <3>2. Min(Missing) - 1 \in Entries
      BY <1>2, <3>1, TreeAssumption DEF Entries
    <3> QED
      BY <2>1, <3>2 DEF StartIndex, FirstMissing
  <2>2. CASE 0 \notin Found
    BY <2>2, TreeAssumption DEF StartIndex, Entries
  <2> QED
    BY <2>1, <2>2
<1>4. \A i \in Entries : FileLocatePointer(i) \in Int
  BY DEF FileLocatePointer, TransferTypeOK, Files
<1>5. StartOffset \in Int
  BY <1>3, <1>4 DEF StartOffset
<1> QED
  BY <1>3, <1>5

LEMMA SameStart == UNCHANGED <<present, saved>> => StartOffset' = StartOffset /\ StartIndex' = StartIndex
  BY DEF StartOffset, StartIndex, FirstMissing, Found, FileLocatePointer

\* What the client sends keeps the messages to the server well formed.
ToServerOK(q) ==
    /\ q \in Seq(ServerMessage)
    /\ \A j \in 1 .. Len(q) : q[j].block.n > 0 => q[j].block.file \in Files

\* The client moves to an entry of the list.
LEMMA MoveToType ==
    ASSUME NEW i \in Int, NEW offset \in Nat, MoveTo(i, offset)
    PROVE  /\ sending' \in 0 .. FileCount
           /\ pos' \in Nat
           /\ cPhase' \in {"read", "counts"}
           /\ cPhase' = "read" => sending' \in Files
           /\ fileOffset' = fileOffset
<1>1. NextFile(i) \in Files \/ NextFile(i) = FileCount
  BY NextFileRange
<1>2. NextFile(i) \in 0 .. FileCount
  BY <1>1, TreeAssumption DEF Files, Entries
<1> QED
  BY <1>1, <1>2 DEF MoveTo

LEMMA AnyLengthType == AnyLength \subseteq Nat
  BY TransferAssumption DEF AnyLength

LEMMA IndexTypes ==
    ASSUME TransferTypeOK
    PROVE  /\ indexA \in Entries /\ indexA \in Nat
           /\ entry \in Nat /\ entry <= FileCount
           /\ toServer \in Seq(ServerMessage)
           /\ toClient \in Seq(ClientMessage)
  BY TreeAssumption DEF TransferTypeOK, Entries

LEMMA QueueTypes ==
    ASSUME TransferTypeOK
    PROVE  toServer \in Seq(ServerMessage) /\ toClient \in Seq(ClientMessage)
  BY DEF TransferTypeOK

LEMMA TargetType ==
    ASSUME TransferTypeOK
    PROVE  Target \in Nat /\ (Target \in Files \/ Target = FileCount)
<1> DEFINE i == IF sPhase \in {"ackOffset", "ackIndex"} THEN indexA ELSE entry
<1>1. i \in Int
  BY TreeAssumption DEF TransferTypeOK, Entries
<1> HIDE DEF i
<1>2. NextFile(i) \in Files \/ NextFile(i) = FileCount
  BY <1>1, NextFileRange
<1>3. Target = NextFile(i)
  BY DEF Target, i
<1> QED
  BY <1>2, <1>3, FilesAreEntries, TreeAssumption
-----------------------------------------------------------------------------
(* What a write does to the copies.                                        *)

\* A write appends to the copy of the file that is open.
LEMMA WriteType ==
    ASSUME TransferTypeOK, entry \in Files, NEW b \in Block, b.n > 0 => b.file \in Files,
           NEW len \in Nat, WriteBytes(Bytes(b, len))
    PROVE  /\ saved' \in [Entries -> Seq(Byte \cup {Junk})]
           /\ \A i \in Entries \ {entry} : saved'[i] = saved[i]
           /\ saved'[entry] = saved[entry] \o Bytes(b, len)
           /\ UNCHANGED <<present, before, indexA, entry, block>>
<1>1. saved \in [Entries -> Seq(Byte \cup {Junk})] /\ entry \in Entries
  BY DEF TransferTypeOK, Files
<1>2. Bytes(b, len) \in Seq(Byte \cup {Junk})
  BY BytesType
<1>3. saved[entry] \o Bytes(b, len) \in Seq(Byte \cup {Junk})
  BY <1>1, <1>2, Concatenated
<1>4. saved' = [saved EXCEPT ![entry] = saved[entry] \o Bytes(b, len)]
  BY DEF WriteBytes
<1> QED
  BY <1>1, <1>3, <1>4 DEF WriteBytes

Own ==
    \A i \in Files : \A k \in DOMAIN saved'[i] \ DOMAIN saved[i] :
        saved'[i][k] \in ({i} \X Nat) \cup {Junk}

LEMMA UnchangedOwn == ASSUME saved' = saved PROVE Own
  BY DEF Own

LEMMA WriteOwn ==
    ASSUME TransferTypeOK, entry \in Files, NEW b \in Block, b.n > 0 => b.file = entry,
           NEW len \in Nat, WriteBytes(Bytes(b, len))
    PROVE  Own
<1>1. /\ \A i \in Entries \ {entry} : saved'[i] = saved[i]
      /\ saved'[entry] = saved[entry] \o Bytes(b, len)
  BY WriteType
<1>2. /\ Bytes(b, len) \in Seq(Byte \cup {Junk})
      /\ Len(Bytes(b, len)) = len
      /\ \A k \in 1 .. len : Bytes(b, len)[k] \in ({entry} \X Nat) \cup {Junk}
  <2>1. b.n = 0 \/ b.file = entry
    BY TransferAssumption DEF Block
  <2> QED
    BY <2>1, BytesType
<1>3. saved[entry] \in Seq(Byte \cup {Junk})
  BY DEF TransferTypeOK, Files
<1>4. ASSUME NEW i \in Files, NEW k \in DOMAIN saved'[i] \ DOMAIN saved[i]
      PROVE  saved'[i][k] \in ({i} \X Nat) \cup {Junk}
  <2>1. i = entry
    BY <1>1, <1>4 DEF Files
  <2>2. /\ Len(saved[entry]) \in Nat
        /\ DOMAIN saved[entry] = 1 .. Len(saved[entry])
        /\ DOMAIN saved'[entry] = 1 .. Len(saved[entry]) + len
        /\ \A j \in 1 .. Len(saved[entry]) + len :
             j > Len(saved[entry]) => saved'[entry][j] = Bytes(b, len)[j - Len(saved[entry])]
    <3> DEFINE q == saved[entry]
               r == Bytes(b, len)
    <3>1. q \in Seq(Byte \cup {Junk}) /\ r \in Seq(Byte \cup {Junk}) /\ Len(r) = len
      BY <1>2, <1>3
    <3>2. saved'[entry] = q \o r
      BY <1>1
    <3> HIDE DEF q, r
    <3> DEFINE S == Byte \cup {Junk}
    <3> HIDE DEF S
    <3>4. q \in Seq(S) /\ r \in Seq(S)
      BY <3>1 DEF S
    <3>5. Len(q) \in Nat /\ DOMAIN q = 1 .. Len(q)
      BY <3>4
    <3>6. DOMAIN (q \o r) = 1 .. (Len(q) + Len(r))
      BY <3>4
    <3>7. \A j \in 1 .. Len(q) + Len(r) : j > Len(q) => (q \o r)[j] = r[j - Len(q)]
      BY <3>4
    <3> QED
      BY <3>1, <3>2, <3>5, <3>6, <3>7 DEF q, r
  <2>3. /\ k \in 1 .. Len(saved[entry]) + len
        /\ k > Len(saved[entry])
        /\ k - Len(saved[entry]) \in 1 .. len
    BY <1>4, <2>1, <2>2
  <2> QED
    BY <1>2, <2>1, <2>2, <2>3
<1> QED
  BY <1>4 DEF Own

Growing(i) ==
    /\ \A j \in Entries \ {i} : saved'[j] = saved[j]
    /\ Len(saved[i]) <= Len(saved'[i])
    /\ \A k \in 1 .. Len(saved[i]) : saved'[i][k] = saved[i][k]

\* One step of the server's writes to one copy at most, and only behind its end.
LEMMA WriteGrows ==
    ASSUME TransferTypeOK, entry \in Files, NEW b \in Block, b.n > 0 => b.file \in Files,
           NEW len \in Nat, WriteBytes(Bytes(b, len))
    PROVE  \E i \in Entries : Growing(i)
<1>1. entry \in Entries
  BY DEF Files
<1>2. saved[entry] \in Bytestrings /\ Bytes(b, len) \in Bytestrings
  BY <1>1, BytesType DEF TransferTypeOK, Bytestrings
<1>3. /\ \A j \in Entries \ {entry} : saved'[j] = saved[j]
      /\ saved'[entry] = saved[entry] \o Bytes(b, len)
  BY WriteType
<1> DEFINE p == saved[entry]
           r == Bytes(b, len)
<1>4. p \in Bytestrings /\ r \in Bytestrings
  BY <1>2
<1> HIDE DEF p, r
<1>5. /\ Len(p) \in Nat /\ Len(r) \in Nat
      /\ Len(p \o r) = Len(p) + Len(r)
      /\ \A k \in 1 .. Len(p) : (p \o r)[k] = p[k]
  BY <1>4, ConcatBytes
<1>6. Len(p) <= Len(p \o r)
  BY <1>5
<1>7. Growing(entry)
  BY <1>3, <1>5, <1>6 DEF Growing, p, r
<1> QED
  BY <1>1, <1>7

LEMMA SameGrows == ASSUME TransferTypeOK, UNCHANGED saved PROVE \E i \in Entries : Growing(i)
<1>1. 0 \in Entries /\ saved[0] \in Bytestrings
  BY TreeAssumption DEF TransferTypeOK, Bytestrings, Entries
<1>2. Len(saved[0]) \in Nat
  BY <1>1, LenProperties DEF Bytestrings
<1>3. Growing(0)
  BY <1>2 DEF Growing
<1> QED
  BY <1>1, <1>3
-----------------------------------------------------------------------------
(* The phases of Delivery that a transfer is in.                           *)

PhaseFacts ==
    /\ DeliveryPhase = "reported" <=> cPhase = "done" /\ Clean
    /\ DeliveryPhase = "going" <=> Going
    /\ DeliveryPhase = "derailed" => sPhase \in Serving /\ ~ (Alive /\ Clean)
    /\ sPhase \in Serving /\ ~ (Alive /\ Clean) /\ ~ (cPhase = "done" /\ Clean) =>
            DeliveryPhase = "derailed"
    /\ DeliveryPhase \in {"reported", "going", "derailed", "idle"}

LEMMA Phases == PhaseFacts
  BY DEF PhaseFacts, DeliveryPhase, Going, Alive, Running
-----------------------------------------------------------------------------
(* What is written in a row is a piece of the file.                        *)

LEMMA PieceType ==
    ASSUME NEW base \in Nat, NEW i \in Files, NEW n \in Nat
    PROVE  /\ Piece(base, i, n) \in Bytestrings
           /\ Len(Piece(base, i, n)) = n
           /\ \A k \in 1 .. n : Piece(base, i, n)[k] = <<i, base + k - 1>>
<1>1. ASSUME NEW k \in 1 .. n
      PROVE  <<i, base + k - 1>> \in Byte \cup {Junk}
  <2>1. base + k - 1 \in Nat /\ i \in Entries
    BY SizeType
  <2> QED
    BY <2>1 DEF Byte
<1>2. \A k \in 1 .. n : Piece(base, i, n)[k] = <<i, base + k - 1>>
  BY DEF Piece
<1> QED
  BY <1>1, <1>2 DEF Piece, Bytestrings

\* A block read where the piece ends makes it longer.
LEMMA PieceGrows ==
    ASSUME NEW base \in Nat, NEW i \in Files, NEW n \in Nat, NEW b \in Block,
           b.file = i, b.at = base + n
    PROVE  Piece(base, i, n) \o Bytes(b, b.n) = Piece(base, i, n + b.n)
<1>1. b.n \in Nat /\ n + b.n \in Nat
  BY TransferAssumption DEF Block
<1>2. Bytes(b, b.n) \in Bytestrings /\ Len(Bytes(b, b.n)) = b.n
  BY <1>1, BytesType DEF Bytestrings
<1>3. /\ Piece(base, i, n) \in Bytestrings
      /\ Len(Piece(base, i, n)) = n
      /\ \A k \in 1 .. n : Piece(base, i, n)[k] = <<i, base + k - 1>>
  BY PieceType
<1>4. /\ Piece(base, i, n + b.n) \in Bytestrings
      /\ Len(Piece(base, i, n + b.n)) = n + b.n
      /\ \A k \in 1 .. n + b.n : Piece(base, i, n + b.n)[k] = <<i, base + k - 1>>
  BY <1>1, PieceType
<1> DEFINE p == Piece(base, i, n)
           r == Bytes(b, b.n)
           q == Piece(base, i, n + b.n)
<1>5. /\ p \in Bytestrings /\ Len(p) = n
      /\ r \in Bytestrings /\ Len(r) = b.n
      /\ q \in Bytestrings /\ Len(q) = n + b.n
  BY <1>2, <1>3, <1>4
<1>6. /\ \A k \in 1 .. n : p[k] = <<i, base + k - 1>>
      /\ \A k \in 1 .. n + b.n : q[k] = <<i, base + k - 1>>
  BY <1>3, <1>4
<1>7. ASSUME NEW k \in 1 .. b.n
      PROVE  r[k] = <<i, base + n + k - 1>>
  BY <1>1, <1>7 DEF Bytes
<1> HIDE DEF p, r, q
<1> DEFINE c == p \o r
<1>a. /\ c \in Bytestrings
      /\ Len(c) = Len(p) + Len(r)
      /\ \A k \in 1 .. Len(p) : c[k] = p[k]
      /\ \A k \in 1 .. Len(p) + Len(r) : ~ (k <= Len(p)) => c[k] = r[k - Len(p)]
  BY <1>5, ConcatBytes, Zenon
<1> HIDE DEF c
<1>8. /\ c \in Bytestrings
      /\ Len(c) = n + b.n
      /\ \A k \in 1 .. n : c[k] = p[k]
      /\ \A k \in 1 .. n + b.n : ~ (k <= n) => c[k] = r[k - n]
  BY <1>5, <1>a
<1>9. ASSUME NEW k \in 1 .. n + b.n
      PROVE  c[k] = q[k]
  <2>1. CASE k <= n
    <3>1. k \in 1 .. n
      BY <1>1, <2>1
    <3> QED
      BY <1>6, <1>8, <3>1
  <2>2. CASE ~ (k <= n)
    <3>1. k - n \in 1 .. b.n /\ base + n + (k - n) - 1 = base + k - 1
      BY <1>1, <2>2
    <3> QED
      BY <1>6, <1>7, <1>8, <2>2, <3>1
  <2> QED
    BY <2>1, <2>2
<1>10. c = q
  BY <1>5, <1>8, <1>9, SeqEqual DEF Bytestrings
<1> QED
  BY <1>10 DEF c, p, r, q

\* A block that goes on where the copy has got to is added to it.
LEMMA WriteAdds ==
    ASSUME TransferTypeOK, entry \in Files, NEW base \in Nat, NEW n \in Nat,
           n = Added(entry),
           saved[entry] = before[entry] \o Piece(base, entry, n),
           block.n > 0, block.file = entry, block.at = base + n,
           WriteBytes(Bytes(block, block.n))
    PROVE  /\ saved'[entry] = before[entry] \o Piece(base, entry, n + block.n)
           /\ Added(entry)' = n + block.n
<1>1. block \in Block /\ block.n \in Nat
  BY TransferAssumption DEF TransferTypeOK, Block
<1>2. /\ saved'[entry] = saved[entry] \o Bytes(block, block.n)
      /\ UNCHANGED <<before, entry>>
  BY <1>1, WriteType
<1>3. /\ before[entry] \in Bytestrings
      /\ saved[entry] \in Bytestrings
      /\ Bytes(block, block.n) \in Bytestrings /\ Len(Bytes(block, block.n)) = block.n
  BY <1>1, SizeType, BytesType DEF TransferTypeOK, Bytestrings
<1>4. Piece(base, entry, n) \in Bytestrings
      /\ Piece(base, entry, n) \o Bytes(block, block.n) = Piece(base, entry, n + block.n)
  BY <1>1, PieceType, PieceGrows
<1>5. saved'[entry] = before[entry] \o Piece(base, entry, n + block.n)
  <2> DEFINE p == before[entry]
             q == Piece(base, entry, n)
             r == Bytes(block, block.n)
  <2>1. p \in Bytestrings /\ q \in Bytestrings /\ r \in Bytestrings
    BY <1>3, <1>4
  <2> HIDE DEF p, q, r
  <2>2. (p \o q) \o r = p \o (q \o r)
    BY <2>1, AssocBytes
  <2> QED
    BY <1>2, <1>4, <2>2 DEF p, q, r
<1>6. Added(entry)' = n + block.n
  <2>1. /\ Len(saved[entry]) \in Nat
        /\ Len(before[entry]) \in Nat
    BY <1>3, ConcatBytes, Zenon
  <2>2. Len(saved[entry] \o Bytes(block, block.n))
          = Len(saved[entry]) + Len(Bytes(block, block.n))
    BY <1>3, ConcatBytes, Zenon
  <2>3. Len(saved'[entry]) = Len(saved[entry]) + block.n
    BY <1>2, <1>3, <2>2
  <2>4. Added(entry)' = Len(saved'[entry]) - Len(before[entry])
    BY <1>2 DEF Added
  <2>5. n = Len(saved[entry]) - Len(before[entry])
    BY DEF Added
  <2>6. Added(entry)' = (Len(saved[entry]) + block.n) - Len(before[entry])
    BY <2>3, <2>4
  <2> DEFINE x == Len(saved[entry])
             y == Len(before[entry])
             z == block.n
  <2>7. x \in Nat /\ y \in Nat /\ z \in Nat
    BY <1>1, <2>1
  <2> HIDE DEF x, y, z
  <2>8. (x + z) - y = (x - y) + z
    BY <2>7
  <2> QED
    BY <2>5, <2>6, <2>8 DEF x, y, z
<1> QED
  BY <1>5, <1>6
-----------------------------------------------------------------------------
(* The entries come into being in the order of the list.                   *)

\* FilePathCheck starts at the last entry of the beginning of the list that is there.
LEMMA StartFinds ==
    ASSUME TransferTypeOK
    PROVE  /\ \A i \in Entries : i < StartIndex => i \in Found
           /\ 0 \in Found => StartIndex \in Found
           /\ StartIndex + 1 \in Entries => StartIndex + 1 \notin Found \/ 0 \notin Found
<1>1. Entries \subseteq Nat /\ FileCount \in Nat
  BY TreeAssumption DEF Entries
<1> DEFINE S == (Entries \ Found) \cup {FileCount}
<1>2. S \subseteq Nat /\ S # {}
  BY <1>1
<1>3. FirstMissing \in S /\ \A k \in S : FirstMissing <= k
  BY <1>2, MinIsLeast DEF FirstMissing
<1>4. FirstMissing \in Nat
  BY <1>2, <1>3
<1> HIDE DEF S
<1>5. \A i \in Entries : i < FirstMissing => i \in Found
  <2>1. SUFFICES ASSUME NEW i \in Entries, i < FirstMissing, i \notin Found PROVE FALSE
    OBVIOUS
  <2>2. i \in S
    BY <2>1 DEF S
  <2> QED
    BY <1>1, <1>3, <1>4, <2>1, <2>2
<1>6. CASE 0 \notin Found
  <2>1. StartIndex = 0
    BY <1>6 DEF StartIndex
  <2> QED
    BY <1>1, <1>6, <2>1
<1>7. CASE 0 \in Found
  <2>1. StartIndex = FirstMissing - 1
    BY <1>7 DEF StartIndex
  <2>2. StartIndex \in Entries
    BY StartType
  <2>3. StartIndex + 1 = FirstMissing /\ StartIndex < FirstMissing
    BY <1>4, <2>1
  <2>4. \A i \in Entries : i < StartIndex => i < FirstMissing
    BY <1>1, <1>4, <2>1
  <2>5. FirstMissing \in Entries => FirstMissing \notin Found
    BY <1>1, <1>3 DEF S, Entries
  <2> QED
    BY <1>5, <2>2, <2>3, <2>4, <2>5
<1> QED
  BY <1>6, <1>7

LEMMA StartInOrder ==
    ASSUME TransferTypeOK, InOrder, indexA' = StartIndex, before' = saved,
           sPhase' = "ackOffset", UNCHANGED <<present, saved>>
    PROVE  InOrder'
<1>1. FileCount \in Nat /\ Entries \subseteq Nat /\ StartIndex \in Entries /\ StartIndex \in Nat
  BY StartType, TreeAssumption DEF Entries
<1>2. Found' = Found
  BY DEF Found
<1>3. ASSUME NEW i \in Entries, i > StartIndex
      PROVE  saved[i] = <<>>
  <2>1. SUFFICES ASSUME i \in present PROVE FALSE
    BY DEF InOrder
  <2>2. \A k \in Entries : k < i \/ k = i => k \in Found
    BY <2>1 DEF InOrder, Found
  <2>3. 0 \in Entries /\ i \in Nat
    BY <1>1, TreeAssumption DEF Entries
  <2>4. 0 \in Found
    BY <1>1, <1>3, <2>2, <2>3
  <2>5. StartIndex + 1 \in Entries /\ (StartIndex + 1 < i \/ StartIndex + 1 = i)
    BY <1>1, <1>3 DEF Entries
  <2> QED
    BY <2>2, <2>4, <2>5, StartFinds
<1> QED
  BY <1>1, <1>2, <1>3, StartFinds DEF InOrder

\* The server writes to the entry it has opened.
LEMMA WriteInOrder ==
    ASSUME TransferTypeOK, InLoops, InOrder, NEW bytes, WriteBytes(bytes),
           sPhase \in {"length", "misaligned"}, sPhase' \in {"content", "misaligned"}
    PROVE  InOrder'
<1>1. /\ \A i \in Entries \ {entry} : saved'[i] = saved[i]
      /\ UNCHANGED <<present, before, indexA, entry>>
  BY DEF TransferTypeOK, WriteBytes
<1>2. entry \in present /\ sPhase \in Serving /\ sPhase' \in Serving
  BY DEF InOrder, Serving
<1>3. Found' = Found
  BY <1>1 DEF Found
<1> QED
  BY <1>1, <1>2, <1>3 DEF InOrder

\* The server's loop, which opens what is missing on its way.
LEMMA LoopInOrder ==
    ASSUME TransferTypeOK, InOrder, Loop
    PROVE  InOrder'
<1>1. /\ sPhase = "loop" /\ sPhase' \in {"loop", "content", "fileCnt"}
      /\ sPhase \in Serving /\ sPhase' \in Serving
      /\ UNCHANGED <<saved, before, indexA>>
  BY DEF Loop, MakeDirectory, SkipEntry, OpenFile, EndLoop, store, Serving
<1>2. Entries \subseteq Nat /\ entry \in Nat /\ (entry < FileCount => entry \in Entries)
  BY TreeAssumption DEF TransferTypeOK, Entries
<1>3. \A i \in Entries : i < entry => i \in Found
  BY <1>1 DEF InOrder
<1>4. CASE entry < FileCount
  <2>1. /\ present' \in {present, present \cup {entry}}
        /\ entry \in Found'
        /\ \/ entry' = entry + 1 /\ sPhase' = "loop"
           \/ entry' = entry /\ sPhase' = "content" /\ entry \in present'
    <3>1. CASE MakeDirectory \/ OpenFile
      BY <1>2, <1>4, <3>1 DEF MakeDirectory, OpenFile, Found
    <3>2. CASE SkipEntry
      BY <1>2, <1>4, <3>2 DEF SkipEntry, Found, store
    <3>3. ~ EndLoop
      BY <1>2, <1>4 DEF EndLoop
    <3> QED
      BY <3>1, <3>2, <3>3 DEF Loop
  <2>2. Found \subseteq Found' /\ present \subseteq present'
    BY <2>1 DEF Found
  <2>3. \A j \in present' : \A i \in Entries : i < j => i \in Found'
    BY <1>3, <2>1, <2>2 DEF InOrder
  <2>4. \A i \in Entries : i < entry' => i \in Found'
    <3>1. ASSUME NEW i \in Entries, i < entry'
          PROVE  i < entry \/ i = entry
      BY <1>2, <2>1, <3>1
    <3> QED
      BY <1>3, <2>1, <2>2, <3>1
  <2> QED
    BY <1>1, <2>1, <2>2, <2>3, <2>4 DEF InOrder
<1>5. CASE ~(entry < FileCount)
  <2>1. UNCHANGED <<present, entry>> /\ sPhase' = "fileCnt"
    BY <1>5 DEF Loop, MakeDirectory, SkipEntry, OpenFile, EndLoop, store
  <2> QED
    BY <1>1, <1>3, <2>1 DEF InOrder, Found
<1> QED
  BY <1>4, <1>5

\* The server comes to its first entry, or to the next one.
LEMMA NextInOrder ==
    ASSUME TransferTypeOK, InOrder, UNCHANGED <<present, saved, before, indexA>>,
           sPhase' = "loop",
           \/ sPhase = "ackIndex" /\ entry' = indexA
           \/ sPhase = "content" /\ entry' = entry + 1
    PROVE  InOrder'
<1>1. Found' = Found /\ Entries \subseteq Nat /\ entry \in Nat /\ present \subseteq Found
  BY IndexTypes, TreeAssumption DEF Found, Entries
<1>2. sPhase \in Serving
  BY DEF Serving
<1>3. ASSUME NEW i \in Entries, i < entry'
      PROVE  i \in Found
  <2>1. CASE sPhase = "ackIndex"
    BY <1>2, <1>3, <2>1 DEF InOrder
  <2>2. CASE sPhase = "content"
    <3>1. entry \in present /\ \A k \in Entries : k < entry => k \in Found
      BY <1>2, <2>2 DEF InOrder
    <3>2. i < entry \/ i = entry
      BY <1>1, <1>3, <2>2
    <3> QED
      BY <1>1, <3>1, <3>2
  <2> QED
    BY <2>1, <2>2
<1> QED
  BY <1>1, <1>2, <1>3 DEF InOrder

\* The server changes its phase only, within the same part of the session, or leaves it.
LEMMA SameInOrder ==
    ASSUME InOrder, UNCHANGED <<present, saved, before, indexA, entry>>,
           sPhase' \in Serving =>
                /\ sPhase \in Serving
                /\ sPhase \in {"ackOffset", "ackIndex"} => sPhase' \in {"ackOffset", "ackIndex"}
                /\ sPhase' \in {"content", "length", "misaligned"} =>
                        sPhase \in {"content", "length", "misaligned"}
    PROVE  InOrder'
  BY DEF InOrder, Found
=============================================================================
