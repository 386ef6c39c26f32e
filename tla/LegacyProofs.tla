---------------------------- MODULE LegacyProofs ----------------------------
(***************************************************************************)
(* Theorems about the earlier programs, for every number of runs, every     *)
(* file, block and buffer, and whatever is killed, lost or read short.      *)
(***************************************************************************)
EXTENDS LegacyInvariant, SequenceTheorems, WellFoundedInduction, TLAPS

-----------------------------------------------------------------------------
(* What the operators on contents return.                                  *)

\* Min of a nonempty set of naturals is the least of them.
LEMMA MinIsLeast ==
    ASSUME NEW S \in SUBSET Nat, S # {}
    PROVE  Min(S) \in S /\ \A k \in S : Min(S) <= k
<1> DEFINE Less == OpToRel(<, Nat)
<1>1. IsWellFoundedOn(Less, Nat)
  BY NatLessThanWellFounded
<1>2. \A m, n \in Nat : <<m, n>> \in Less <=> m < n
  BY DEF OpToRel
<1> HIDE DEF Less
<1>3. \E n \in S : \A m \in S : ~ (<<m, n>> \in Less)
  BY <1>1, WFMin
<1>4. PICK n \in S : \A m \in S : ~ (<<m, n>> \in Less)
  BY <1>3
<1>5. ASSUME NEW m \in S
      PROVE  n <= m
  <2>1. m \in Nat /\ n \in Nat
    OBVIOUS
  <2>2. ~ (m < n)
    BY <1>2, <1>4, <2>1
  <2> QED
    BY <2>1, <2>2
<1> QED
  BY <1>5 DEF Min

\* UpToNul is what comes before the first NUL.
LEMMA UpToNulIs ==
    ASSUME NEW s \in Seq(Byte)
    PROVE  /\ UpToNul(s) \in Seq(Byte)
           /\ Len(UpToNul(s)) <= Len(s)
           /\ \A k \in 1 .. Len(UpToNul(s)) : UpToNul(s)[k] = s[k] /\ s[k] # Nul
           /\ Len(UpToNul(s)) < Len(s) => s[Len(UpToNul(s)) + 1] = Nul
<1>1. CASE Nul \notin Range(s)
  <2>1. UpToNul(s) = s
    BY <1>1 DEF UpToNul
  <2> QED
    BY <1>1, <2>1 DEF Range
<1>2. CASE Nul \in Range(s)
  <2> DEFINE S == {i \in 1 .. Len(s) : s[i] = Nul}
  <2>1. S \in SUBSET Nat /\ S # {}
    BY <1>2 DEF Range
  <2>2. Min(S) \in S /\ \A k \in S : Min(S) <= k
    BY <2>1, MinIsLeast
  <2>3. SelectInSeq(s, LAMBDA b : b = Nul) = Min(S)
    BY <2>1 DEF SelectInSeq
  <2>4. UpToNul(s) = SubSeq(s, 1, Min(S) - 1)
    BY <1>2, <2>3 DEF UpToNul
  <2> DEFINE m == Min(S)
  <2>5. m \in 1 .. Len(s) /\ s[m] = Nul /\ \A k \in 1 .. m - 1 : s[k] # Nul
    <3>1. m \in 1 .. Len(s) /\ s[m] = Nul
      BY <2>2
    <3>2. ASSUME NEW k \in 1 .. m - 1, s[k] = Nul
          PROVE  FALSE
      <4>1. k \in S
        BY <3>1, <3>2
      <4>2. m <= k
        BY <2>2, <4>1
      <4> QED
        BY <3>1, <4>2
    <3> QED
      BY <3>1, <3>2
  <2> HIDE DEF m
  <2>6. UpToNul(s) = SubSeq(s, 1, m - 1)
    BY <2>4 DEF m
  <2>7. SubSeq(s, 1, m - 1) \in Seq(Byte) /\ Len(SubSeq(s, 1, m - 1)) = m - 1
    BY <2>5
  <2>8. \A k \in 1 .. m - 1 : SubSeq(s, 1, m - 1)[k] = s[k]
    BY <2>5
  <2> QED
    BY <2>5, <2>6, <2>7, <2>8
<1> QED
  BY <1>1, <1>2

\* A copy of t that loses nothing but what a NUL comes before.
Faithful(copy, t) == Keeps(copy, t) /\ (Nul \notin Range(t) => copy = t)

LEMMA UpToNulIsFaithful ==
    ASSUME NEW s \in Seq(Byte)
    PROVE  Faithful(UpToNul(s), s)
<1>1. ASSUME NEW k \in 1 .. Len(s), \A j \in 1 .. k : s[j] # Nul
      PROVE  k <= Len(UpToNul(s)) /\ UpToNul(s)[k] = s[k]
  <2>1. Len(UpToNul(s)) \in Nat /\ Len(s) \in Nat
    BY UpToNulIs
  <2>2. k <= Len(UpToNul(s))
    BY <1>1, <2>1, UpToNulIs
  <2> QED
    BY <2>1, <2>2, UpToNulIs
<1>2. ASSUME Nul \notin Range(s)
      PROVE  UpToNul(s) = s
  BY <1>2 DEF UpToNul
<1> QED
  BY <1>1, <1>2 DEF Faithful, Keeps

\* Keeps is the prefix that Kept speaks of.
LEMMA KeepsPrefix ==
    ASSUME NEW s \in Seq(Byte), NEW t \in Seq(Byte), Keeps(s, t)
    PROVE  IsPrefix(UpToNul(t), s)
<1> DEFINE u == UpToNul(t)
<1>1. /\ u \in Seq(Byte)
      /\ Len(u) <= Len(t)
      /\ \A k \in 1 .. Len(u) : u[k] = t[k] /\ t[k] # Nul
  BY UpToNulIs
<1> HIDE DEF u
<1>2. \A k \in 1 .. Len(u) : k <= Len(s) /\ s[k] = u[k]
  <2>1. ASSUME NEW k \in 1 .. Len(u)
        PROVE  k <= Len(s) /\ s[k] = u[k]
    <3>1. k \in 1 .. Len(t) /\ \A j \in 1 .. k : t[j] # Nul
      BY <1>1
    <3> QED
      BY <1>1, <3>1 DEF Keeps
  <2> QED
    BY <2>1
<1>3. Len(u) <= Len(s)
  <2>1. CASE Len(u) = 0
    BY <2>1
  <2>2. CASE Len(u) > 0
    BY <1>1, <1>2, <2>2
  <2> QED
    BY <1>1, <2>1, <2>2
<1>4. SubSeq(u, 1, Len(u)) = SubSeq(s, 1, Len(u))
  <2>1. \A k \in 1 .. Len(u) : SubSeq(u, 1, Len(u))[k] = SubSeq(s, 1, Len(u))[k]
    BY <1>1, <1>2, <1>3
  <2>2. SubSeq(u, 1, Len(u)) \in Seq(Byte) /\ Len(SubSeq(u, 1, Len(u))) = Len(u)
    BY <1>1
  <2>3. SubSeq(s, 1, Len(u)) \in Seq(Byte) /\ Len(SubSeq(s, 1, Len(u))) = Len(u)
    BY <1>1, <1>3
  <2> QED
    BY <2>1, <2>2, <2>3, SeqEqual
<1> QED
  BY <1>3, <1>4 DEF IsPrefix, u

\* What is kept of a copy that keeps the original is kept of the original.
LEMMA KeepsTwice ==
    ASSUME NEW r \in Seq(Byte), NEW s \in Seq(Byte), NEW t \in Seq(Byte),
           Keeps(r, s), Keeps(s, t)
    PROVE  Keeps(r, t)
<1>1. ASSUME NEW k \in 1 .. Len(t), \A j \in 1 .. k : t[j] # Nul
      PROVE  k <= Len(r) /\ r[k] = t[k]
  <2>1. \A j \in 1 .. k : j <= Len(s) /\ s[j] = t[j]
    <3>1. ASSUME NEW j \in 1 .. k
          PROVE  j <= Len(s) /\ s[j] = t[j]
      <4>1. j \in 1 .. Len(t) /\ \A i \in 1 .. j : t[i] # Nul
        BY <1>1
      <4> QED
        BY <4>1 DEF Keeps
    <3> QED
      BY <3>1
  <2>2. k \in 1 .. Len(s) /\ \A j \in 1 .. k : s[j] # Nul
    BY <1>1, <2>1
  <2> QED
    BY <2>1, <2>2 DEF Keeps
<1> QED
  BY <1>1 DEF Keeps

\* A faithful copy with a copy behind it.
LEMMA KeepsJoined ==
    ASSUME NEW x \in Seq(Byte), NEW t \in Seq(Byte), NEW y \in Seq(Byte), NEW u \in Seq(Byte),
           Faithful(x, t), Keeps(y, u)
    PROVE  Keeps(x \o y, t \o u)
<1> DEFINE xy == x \o y
           tu == t \o u
<1>1. /\ xy \in Seq(Byte) /\ Len(xy) = Len(x) + Len(y)
      /\ \A k \in 1 .. Len(x) : xy[k] = x[k]
      /\ \A k \in 1 .. Len(y) : xy[Len(x) + k] = y[k]
  OBVIOUS
<1>2. /\ tu \in Seq(Byte) /\ Len(tu) = Len(t) + Len(u)
      /\ \A k \in 1 .. Len(t) : tu[k] = t[k]
      /\ \A k \in 1 .. Len(u) : tu[Len(t) + k] = u[k]
  OBVIOUS
<1> HIDE DEF xy, tu
<1>3. ASSUME NEW k \in 1 .. Len(tu), \A j \in 1 .. k : tu[j] # Nul
      PROVE  k <= Len(xy) /\ xy[k] = tu[k]
  <2>1. CASE k <= Len(t)
    <3>1. k \in 1 .. Len(t) /\ \A j \in 1 .. k : t[j] # Nul
      <4>1. ASSUME NEW j \in 1 .. k
            PROVE  j \in 1 .. Len(t) /\ t[j] # Nul
        <5>1. j \in 1 .. Len(t)
          BY <2>1
        <5> QED
          BY <1>2, <1>3, <5>1
      <4> QED
        BY <2>1, <4>1
    <3>2. k <= Len(x) /\ x[k] = t[k]
      BY <3>1 DEF Faithful, Keeps
    <3> QED
      BY <1>1, <1>2, <3>1, <3>2
  <2>2. CASE k > Len(t)
    <3>1. Nul \notin Range(t)
      <4>1. ASSUME NEW j \in 1 .. Len(t)
            PROVE  t[j] # Nul
        <5>1. j \in 1 .. k
          BY <2>2
        <5> QED
          BY <1>2, <1>3, <5>1
      <4> QED
        BY <4>1 DEF Range
    <3>2. x = t
      BY <3>1 DEF Faithful
    <3>3. k - Len(t) \in 1 .. Len(u)
      BY <1>2, <2>2
    <3>4. \A j \in 1 .. k - Len(t) : u[j] # Nul
      <4>1. ASSUME NEW j \in 1 .. k - Len(t)
            PROVE  u[j] # Nul
        <5>1. Len(t) + j \in 1 .. k /\ j \in 1 .. Len(u)
          BY <3>3
        <5> QED
          BY <1>2, <1>3, <5>1
      <4> QED
        BY <4>1
    <3>5. k - Len(t) <= Len(y) /\ y[k - Len(t)] = u[k - Len(t)]
      BY <3>3, <3>4 DEF Keeps
    <3>6. k - Len(t) \in 1 .. Len(y) /\ Len(t) + (k - Len(t)) = k
      BY <3>3, <3>5
    <3>7. xy[k] = y[k - Len(t)]
      BY <1>1, <3>2, <3>6
    <3>8. tu[k] = u[k - Len(t)]
      BY <1>2, <3>3, <3>6
    <3> QED
      BY <1>1, <3>2, <3>5, <3>6, <3>7, <3>8
  <2> QED
    BY <1>2, <2>1, <2>2
<1>4. Keeps(xy, tu)
  BY <1>3 DEF Keeps
<1> QED
  BY <1>4 DEF xy, tu

LEMMA FaithfulJoined ==
    ASSUME NEW x \in Seq(Byte), NEW t \in Seq(Byte), NEW y \in Seq(Byte), NEW u \in Seq(Byte),
           Faithful(x, t), Faithful(y, u)
    PROVE  Faithful(x \o y, t \o u)
<1>1. Keeps(x \o y, t \o u)
  BY KeepsJoined DEF Faithful
<1>2. ASSUME Nul \notin Range(t \o u)
      PROVE  x \o y = t \o u
  <2>1. \A k \in 1 .. Len(t) : t[k] # Nul
    <3>1. \A k \in 1 .. Len(t) : k \in DOMAIN (t \o u) /\ (t \o u)[k] = t[k]
      OBVIOUS
    <3> QED
      BY <1>2, <3>1 DEF Range
  <2>2. \A k \in 1 .. Len(u) : u[k] # Nul
    <3>1. \A k \in 1 .. Len(u) : Len(t) + k \in DOMAIN (t \o u) /\ (t \o u)[Len(t) + k] = u[k]
      OBVIOUS
    <3> QED
      BY <1>2, <3>1 DEF Range
  <2> QED
    BY <2>1, <2>2 DEF Range, Faithful
<1> QED
  BY <1>1, <1>2 DEF Faithful

\* The bytes of s from p to m.
LEMMA PieceIs ==
    ASSUME NEW s \in Seq(Byte), NEW p \in 1 .. Len(s) + 1, NEW m \in p - 1 .. Len(s)
    PROVE  /\ SubSeq(s, p, m) \in Seq(Byte)
           /\ Len(SubSeq(s, p, m)) = m - p + 1
           /\ \A k \in 1 .. m - p + 1 : SubSeq(s, p, m)[k] = s[p + k - 1]
<1>1. Len(s) \in Nat /\ p \in Nat /\ m \in Int
  OBVIOUS
<1>2. \A i \in p .. m : s[i] \in Byte
  BY <1>1
<1> QED
  BY <1>1, <1>2, SubSeqProperties

LEMMA PieceJoined ==
    ASSUME NEW s \in Seq(Byte), NEW p \in 1 .. Len(s) + 1, NEW m \in p - 1 .. Len(s),
           NEW e \in p - 1 .. m
    PROVE  SubSeq(s, p, m) = SubSeq(s, p, e) \o SubSeq(s, e + 1, m)
<1> DEFINE a == SubSeq(s, p, e)
           b == SubSeq(s, e + 1, m)
           c == SubSeq(s, p, m)
<1>1. Len(s) \in Nat /\ p \in Nat /\ m \in Int /\ e \in Int
  OBVIOUS
<1>2. /\ a \in Seq(Byte) /\ Len(a) = e - p + 1
      /\ \A k \in 1 .. e - p + 1 : a[k] = s[p + k - 1]
  <2>1. e \in p - 1 .. Len(s)
    BY <1>1
  <2> QED
    BY <2>1, PieceIs
<1>3. /\ b \in Seq(Byte) /\ Len(b) = m - e
      /\ \A k \in 1 .. m - e : b[k] = s[e + k]
  <2>1. e + 1 \in 1 .. Len(s) + 1 /\ m \in e + 1 - 1 .. Len(s)
    BY <1>1
  <2>2. /\ b \in Seq(Byte) /\ Len(b) = m - (e + 1) + 1
        /\ \A k \in 1 .. m - (e + 1) + 1 : b[k] = s[e + 1 + k - 1]
    BY <2>1, PieceIs
  <2>3. m - (e + 1) + 1 = m - e /\ \A k \in 1 .. m - e : e + 1 + k - 1 = e + k
    BY <1>1
  <2> QED
    BY <2>2, <2>3
<1>4. /\ c \in Seq(Byte) /\ Len(c) = m - p + 1
      /\ \A k \in 1 .. m - p + 1 : c[k] = s[p + k - 1]
  BY PieceIs
<1> HIDE DEF a, b, c
<1>5. a \o b \in Seq(Byte) /\ Len(a \o b) = m - p + 1
  <2>1. a \o b \in Seq(Byte) /\ Len(a \o b) = Len(a) + Len(b)
    BY <1>2, <1>3, ConcatProperties, Zenon
  <2>2. (e - p + 1) + (m - e) = m - p + 1
    BY <1>1
  <2> QED
    BY <1>2, <1>3, <2>1, <2>2
<1>6. ASSUME NEW k \in 1 .. m - p + 1
      PROVE  (a \o b)[k] = c[k]
  <2>1. CASE k <= e - p + 1
    BY <1>1, <1>2, <1>3, <1>4, <2>1
  <2>2. CASE k > e - p + 1
    <3>1. k - Len(a) \in 1 .. m - e /\ e + (k - Len(a)) = p + k - 1
      BY <1>1, <1>2, <2>2
    <3>2. (a \o b)[k] = b[k - Len(a)]
      <4>1. \A i \in 1 .. Len(a) + Len(b) :
                (a \o b)[i] = IF i <= Len(a) THEN a[i] ELSE b[i - Len(a)]
        BY <1>2, <1>3, ConcatProperties, Zenon
      <4>2. k \in 1 .. Len(a) + Len(b) /\ ~ (k <= Len(a))
        BY <1>1, <1>2, <1>3, <2>2
      <4> QED
        BY <4>1, <4>2
    <3> QED
      BY <1>3, <1>4, <3>1, <3>2
  <2>3. k <= e - p + 1 \/ k > e - p + 1
    BY <1>1
  <2> QED
    BY <2>1, <2>2, <2>3
<1>7. a \o b = c
  BY <1>4, <1>5, <1>6, SeqEqual
<1> QED
  BY <1>7 DEF a, b, c

\* A line ends where it begins or later, inside the file.
LEMMA LineEndIs ==
    ASSUME NEW s \in Seq(Byte), NEW size \in Nat \ {0}, NEW p \in 1 .. Len(s)
    PROVE  LineEnd(s, p, size) \in p .. Len(s)
<1> DEFINE S == {Len(s), p + size - 1} \cup {k \in p .. Len(s) : s[k] = NewLine}
<1>1. S \in SUBSET Nat /\ S # {} /\ Len(s) \in S /\ \A k \in S : k >= p
  OBVIOUS
<1>2. Min(S) \in S /\ \A k \in S : Min(S) <= k
  BY <1>1, MinIsLeast
<1>3. LineEnd(s, p, size) = Min(S)
  BY DEF LineEnd
<1> DEFINE m == Min(S)
<1>4. m \in S /\ m <= Len(s)
  BY <1>1, <1>2
<1> HIDE DEF S, m
<1>5. m \in Nat /\ m >= p /\ m <= Len(s) /\ Len(s) \in Nat
  BY <1>1, <1>4
<1>6. m \in p .. Len(s)
  BY <1>5
<1> QED
  BY <1>3, <1>6 DEF m

\* What Copied makes of the line at q, with copy[r] what it makes of the file from r on.
Line(copy, s, size, q) ==
    IF q > Len(s) THEN <<>>
    ELSE UpToNul(SubSeq(s, q, LineEnd(s, q, size))) \o copy[LineEnd(s, q, size) + 1]

LineByLine(copy, s, size, p) == copy = [q \in p .. Len(s) + 1 |-> Line(copy, s, size, q)]

\* The function that Copied defines is there, built from the last line on.
LEMMA CopyExists ==
    ASSUME NEW s \in Seq(Byte), NEW size \in Nat \ {0}
    PROVE  \E copy : LineByLine(copy, s, size, 1)
<1> DEFINE L == Len(s)
           S == {n \in 0 .. L : ~ \E copy : LineByLine(copy, s, size, L + 1 - n)}
<1>1. L \in Nat
  OBVIOUS
<1>2. SUFFICES ASSUME S # {}
               PROVE  FALSE
  <2>1. S = {} => \E copy : LineByLine(copy, s, size, L + 1 - L)
    BY <1>1
  <2>2. L + 1 - L = 1
    BY <1>1
  <2> QED
    BY <1>2, <2>1, <2>2
<1>3. S \in SUBSET Nat
  BY <1>1
<1>4. Min(S) \in S /\ \A k \in S : Min(S) <= k
  BY <1>2, <1>3, MinIsLeast
<1> DEFINE n == Min(S)
           p == L + 1 - n
<1>5. n \in 0 .. L /\ ~ \E copy : LineByLine(copy, s, size, p)
  BY <1>4
<1>6. ASSUME n > 0
      PROVE  n - 1 \in 0 .. L /\ n - 1 \notin S
  <2> HIDE DEF S
  <2>1. n \in S /\ \A k \in S : n <= k
    BY <1>4
  <2> HIDE DEF n
  <2>2. n - 1 \in 0 .. L /\ ~ (n <= n - 1)
    BY <1>1, <1>5, <1>6
  <2> QED
    BY <2>1, <2>2
<1> HIDE DEF n
<1>7. CASE n = 0
  <2> DEFINE copy == [q \in p .. L + 1 |-> <<>>]
  <2>1. copy = [q \in p .. L + 1 |-> Line(copy, s, size, q)]
    <3>1. \A q \in p .. L + 1 : Line(copy, s, size, q) = <<>>
      <4>1. \A q \in p .. L + 1 : q > Len(s)
        BY <1>1, <1>7
      <4> QED
        BY <4>1 DEF Line
    <3> QED
      BY <3>1
  <2> QED
    BY <1>5, <2>1 DEF LineByLine
<1>8. CASE n > 0
  <2>1. L + 1 - (n - 1) = p + 1 /\ p \in 1 .. L /\ n - 1 \in 0 .. L
    BY <1>1, <1>5, <1>8
  <2>2. \E copy : LineByLine(copy, s, size, p + 1)
    BY <1>6, <1>8, <2>1
  <2>3. PICK rest : LineByLine(rest, s, size, p + 1)
    BY <2>2
  <2> DEFINE copy == [q \in p .. L + 1 |-> IF q = p THEN Line(rest, s, size, p) ELSE rest[q]]
  <2> HIDE DEF p
  <2>4. \A q \in p .. L + 1 : copy[q] = Line(copy, s, size, q)
    <3>1. ASSUME NEW q \in p .. L + 1
          PROVE  copy[q] = Line(copy, s, size, q)
      <4>1. CASE q > L
        <5>1. q # p /\ q \in p + 1 .. L + 1
          BY <1>1, <2>1, <4>1
        <5>2. rest[q] = Line(rest, s, size, q)
          BY <2>3, <5>1 DEF LineByLine
        <5> QED
          BY <4>1, <5>1, <5>2 DEF Line
      <4>2. CASE q <= L
        <5> DEFINE e == LineEnd(s, q, size)
        <5>1. e \in q .. L
          <6>1. q \in 1 .. Len(s)
            BY <1>1, <2>1, <4>2
          <6> QED
            BY <6>1, LineEndIs
        <5>2. e + 1 \in p .. L + 1 /\ e + 1 # p
          BY <1>1, <2>1, <4>2, <5>1
        <5>3. copy[e + 1] = rest[e + 1]
          BY <5>2
        <5>4. Line(copy, s, size, q) = Line(rest, s, size, q)
          BY <5>3 DEF Line
        <5>5. CASE q = p
          BY <2>1, <5>4, <5>5
        <5>6. CASE q # p
          <6>1. q \in p + 1 .. L + 1
            BY <1>1, <2>1, <5>6
          <6>2. rest[q] = Line(rest, s, size, q)
            BY <2>3, <6>1 DEF LineByLine
          <6> QED
            BY <5>4, <5>6, <6>2
        <5> QED
          BY <5>5, <5>6
      <4> QED
        BY <1>1, <2>1, <4>1, <4>2
    <3> QED
      BY <3>1
  <2>5. copy = [q \in p .. L + 1 |-> Line(copy, s, size, q)]
    BY <2>4
  <2>6. LineByLine(copy, s, size, p)
    BY <2>5 DEF LineByLine
  <2> QED
    BY <1>5, <2>6 DEF p
<1> QED
  BY <1>1, <1>5, <1>7, <1>8

LEMMA CopiedUnfolds ==
    ASSUME NEW s \in Seq(Byte), NEW size \in Nat \ {0}
    PROVE  \E copy : LineByLine(copy, s, size, 1) /\ Copied(s, size) = copy[1]
<1>1. \E copy : LineByLine(copy, s, size, 1)
  BY CopyExists
<1>2. Copied(s, size) = (CHOOSE copy : LineByLine(copy, s, size, 1))[1]
  BY DEF Copied, LineByLine, Line
<1> QED
  BY <1>1, <1>2

\* fgets and fputs, line by line, lose nothing but what comes after a NUL.
LEMMA CopiedIsFaithful ==
    ASSUME NEW s \in Seq(Byte), NEW size \in Nat \ {0}
    PROVE  Copied(s, size) \in Seq(Byte) /\ Faithful(Copied(s, size), s)
<1>1. PICK copy : LineByLine(copy, s, size, 1) /\ Copied(s, size) = copy[1]
  BY CopiedUnfolds
<1> DEFINE L == Len(s)
           Fine(p) == copy[p] \in Seq(Byte) /\ Faithful(copy[p], SubSeq(s, p, L))
           S == {n \in 0 .. L : ~ Fine(L + 1 - n)}
<1>2. L \in Nat
  OBVIOUS
<1>3. \A q \in 1 .. L + 1 : copy[q] = Line(copy, s, size, q)
  BY <1>1 DEF LineByLine
<1>4. SUFFICES ASSUME S # {}
               PROVE  FALSE
  <2>1. S = {} => Fine(L + 1 - L)
    BY <1>2
  <2>2. L + 1 - L = 1 /\ SubSeq(s, 1, L) = s
    BY <1>2
  <2> HIDE DEF S
  <2>3. CASE Fine(1)
    BY <1>1, <2>2, <2>3
  <2> QED
    BY <1>4, <2>1, <2>2, <2>3
<1>5. S \in SUBSET Nat
  BY <1>2
<1>6. Min(S) \in S /\ \A k \in S : Min(S) <= k
  BY <1>4, <1>5, MinIsLeast
<1> DEFINE n == Min(S)
           p == L + 1 - n
<1>7. n \in 0 .. L /\ ~ Fine(p) /\ \A k \in 0 .. L : k < n => Fine(L + 1 - k)
  <2>1. n \in 0 .. L /\ ~ Fine(p)
    BY <1>6
  <2>2. ASSUME NEW k \in 0 .. L, k < n
        PROVE  Fine(L + 1 - k)
    <3> HIDE DEF S, Fine
    <3>1. \A m \in S : n <= m
      BY <1>6
    <3> HIDE DEF n
    <3>2. k \notin S
      BY <2>1, <2>2, <3>1
    <3> QED
      BY <3>2 DEF S
  <2> QED
    BY <2>1, <2>2
<1> HIDE DEF n, S
<1>8. p \in 1 .. L + 1
  BY <1>2, <1>7
<1> HIDE DEF p
<1>9. CASE p > L
  <2>1. copy[p] = <<>>
    BY <1>3, <1>8, <1>9 DEF Line
  <2>2. SubSeq(s, p, L) = <<>>
    BY <1>2, <1>8, <1>9
  <2>3. Keeps(<<>>, <<>>)
    BY DEF Keeps
  <2> QED
    BY <1>7, <2>1, <2>2, <2>3 DEF Faithful
<1>10. CASE p <= L
  <2> DEFINE e == LineEnd(s, p, size)
  <2>1. e \in p .. L
    <3>1. p \in 1 .. Len(s)
      BY <1>2, <1>8, <1>10
    <3> QED
      BY <3>1, LineEndIs
  <2>2. copy[p] = UpToNul(SubSeq(s, p, e)) \o copy[e + 1]
    <3>1. ~ (p > Len(s))
      BY <1>2, <1>8, <1>10
    <3> QED
      BY <1>3, <1>8, <3>1 DEF Line
  <2> HIDE DEF e
  <2>3. Fine(e + 1)
    <3>1. L - e \in 0 .. L /\ L - e < n /\ L + 1 - (L - e) = e + 1
      BY <1>2, <1>7, <1>8, <2>1 DEF p
    <3> QED
      BY <1>7, <3>1
  <2>4. SubSeq(s, p, e) \in Seq(Byte) /\ SubSeq(s, e + 1, L) \in Seq(Byte)
    BY <1>2, <1>8, <1>10, <2>1
  <2>5. SubSeq(s, p, L) = SubSeq(s, p, e) \o SubSeq(s, e + 1, L)
    <3>1. p \in 1 .. Len(s) + 1 /\ L \in p - 1 .. Len(s) /\ e \in p - 1 .. L
      BY <1>2, <1>8, <1>10, <2>1
    <3> HIDE DEF L
    <3> QED
      BY <3>1, PieceJoined
  <2>6. UpToNul(SubSeq(s, p, e)) \in Seq(Byte) /\ Faithful(UpToNul(SubSeq(s, p, e)), SubSeq(s, p, e))
    BY <2>4, UpToNulIs, UpToNulIsFaithful
  <2>7. Faithful(copy[p], SubSeq(s, p, L))
    BY <2>2, <2>3, <2>4, <2>5, <2>6, FaithfulJoined
  <2>8. copy[p] \in Seq(Byte)
    BY <2>2, <2>3, <2>6
  <2> QED
    BY <1>7, <2>7, <2>8
<1> QED
  BY <1>2, <1>8, <1>9, <1>10
-----------------------------------------------------------------------------
(* Types.                                                                  *)

LEMMA SizesAreNumbers ==
    /\ SIZEBUF \in Nat /\ SIZEBUF > 1 /\ SIZEBUF - 1 \in Nat \ {0}
    /\ Datagram \in Nat \ {0}
    /\ BlockSize \in Nat \ {0}
  BY LegacyAssumption DEF BlockSize

LEMMA TextType == TypeOK => \A c \in Clients : text[c] \in Seq(Byte) /\ pos[c] \in 0 .. Len(text[c])
<1> SUFFICES ASSUME TypeOK, NEW c \in Clients
             PROVE  text[c] \in Seq(Byte) /\ pos[c] \in 0 .. Len(text[c])
  OBVIOUS
<1>1. text[c] \in Seq(Byte)
  BY LegacyAssumption DEF TypeOK
<1>2. pos[c] \in Nat /\ pos[c] <= Len(text[c]) /\ Len(text[c]) \in Nat
  BY <1>1 DEF TypeOK
<1> QED
  BY <1>1, <1>2

\* Where a read leaves the position.
LEMMA AfterIs ==
    ASSUME TypeOK, NEW c \in Clients, NEW p \in 0 .. Len(text[c])
    PROVE  /\ After(c, p) \in p .. Len(text[c])
           /\ After(c, p) <= p + BlockSize
           /\ After(c, p) \in {p + BlockSize, Len(text[c])}
           /\ p < Len(text[c]) => After(c, p) > p
<1> DEFINE L == Len(text[c])
           S == {p + BlockSize, L}
           m == Min(S)
<1>1. L \in Nat /\ BlockSize \in Nat \ {0}
  BY TextType, SizesAreNumbers
<1>2. S \in SUBSET Nat /\ S # {}
  BY <1>1
<1>3. m \in S /\ \A k \in S : m <= k
  BY <1>2, MinIsLeast
<1>4. After(c, p) = m
  BY DEF After
<1> HIDE DEF m
<1>5. m \in {p + BlockSize, L} /\ m <= p + BlockSize /\ m <= L
  BY <1>3
<1> QED
  BY <1>1, <1>4, <1>5

LEMMA PieceOfText ==
    ASSUME TypeOK, NEW c \in Clients, NEW p \in 0 .. Len(text[c])
    PROVE  /\ Piece(c, p) \in Seq(Byte)
           /\ Len(Piece(c, p)) = After(c, p) - p
           /\ After(c, p) - p \in 0 .. BlockSize
<1>1. text[c] \in Seq(Byte) /\ Len(text[c]) \in Nat /\ BlockSize \in Nat
  BY TextType, SizesAreNumbers
<1>2. After(c, p) \in p .. Len(text[c]) /\ After(c, p) <= p + BlockSize
  BY AfterIs
<1>3. p + 1 \in 1 .. Len(text[c]) + 1 /\ After(c, p) \in p + 1 - 1 .. Len(text[c])
  BY <1>1, <1>2
<1>4. Piece(c, p) \in Seq(Byte) /\ Len(Piece(c, p)) = After(c, p) - (p + 1) + 1
  BY <1>1, <1>3, PieceIs DEF Piece
<1> QED
  BY <1>1, <1>2, <1>4

\* What is sent: over TCP the whole buffer, with what was read at its beginning.
LEMMA FilledIs ==
    ASSUME TypeOK, NEW c \in Clients
    PROVE  /\ Filled(c) \in Seq(Byte)
           /\ Tcp => Len(Filled(c)) = SIZEBUF
           /\ Holds(c, Filled(c), pos[c])
<1> DEFINE read == Piece(c, pos[c])
           n == Len(read)
<1>1. /\ read \in Seq(Byte) /\ n \in 0 .. BlockSize
      /\ pos[c] \in 0 .. Len(text[c])
  BY TextType, PieceOfText
<1>2. Filled(c) = IF Tcp THEN read \o SubSeq(buf[c], n + 1, SIZEBUF) ELSE read
  BY DEF Filled, Piece, After
<1> HIDE DEF read
<1>3. CASE ~ Tcp
  BY <1>1, <1>2, <1>3 DEF Holds, read
<1>4. CASE Tcp
  <2>1. /\ SIZEBUF \in Nat /\ n \in 0 .. SIZEBUF
        /\ buf[c] \in [1 .. SIZEBUF -> Byte]
    BY <1>1, <1>4, SizesAreNumbers DEF TypeOK, BlockSize
  <2> DEFINE rest == SubSeq(buf[c], n + 1, SIZEBUF)
  <2>2. buf[c] \in Seq(Byte) /\ Len(buf[c]) = SIZEBUF
    BY <2>1
  <2>3. rest \in Seq(Byte) /\ Len(rest) = SIZEBUF - n
    <3>1. n + 1 \in 1 .. Len(buf[c]) + 1 /\ SIZEBUF \in n + 1 - 1 .. Len(buf[c])
      BY <2>1, <2>2
    <3>2. rest \in Seq(Byte) /\ Len(rest) = SIZEBUF - (n + 1) + 1
      BY <2>2, <3>1, PieceIs
    <3> QED
      BY <2>1, <3>2
  <2> HIDE DEF rest
  <2>4. Filled(c) = read \o rest
    BY <1>2, <1>4 DEF rest
  <2>5. /\ Filled(c) \in Seq(Byte) /\ Len(Filled(c)) = n + (SIZEBUF - n)
        /\ \A k \in 1 .. n : Filled(c)[k] = read[k]
    <3> HIDE DEF n
    <3>1. /\ read \o rest \in Seq(Byte)
          /\ Len(read \o rest) = Len(read) + Len(rest)
          /\ \A k \in 1 .. Len(read) + Len(rest) :
                (read \o rest)[k] = IF k <= Len(read) THEN read[k] ELSE rest[k - Len(read)]
      BY <1>1, <2>3, ConcatProperties, Zenon
    <3>2. Len(read) = n /\ n \in Nat
      BY <2>1 DEF n
    <3>3. \A k \in 1 .. n : k \in 1 .. Len(read) + Len(rest)
      BY <2>1, <2>3, <3>2
    <3> QED
      BY <2>3, <2>4, <3>1, <3>2, <3>3
  <2>6. n + (SIZEBUF - n) = SIZEBUF
    BY <2>1
  <2> QED
    BY <1>4, <2>5, <2>6 DEF Holds, read
<1> QED
  BY <1>3, <1>4

Fault == {"killed", "lost", "short", "crossed", "crash"}
Reply == {"echo", "block", "eof", "100", "rest"}

LEMMA SendTypes ==
    ASSUME TypeOK, NEW c \in Clients, NEW type \in {"name", "block", "eof"},
           NEW bytes \in Seq(Byte), Send(c, type, bytes)
    PROVE  toServer' \in [Clients -> Seq(Message)] /\ faults' \subseteq Fault
<1>1. [type |-> type, bytes |-> bytes] \in Message
  BY DEF Message
<1>2. toServer \in [Clients -> Seq(Message)] /\ faults \subseteq Fault
  BY DEF TypeOK, Fault
<1> HIDE DEF Message
<1>3. CASE UNCHANGED faults /\ toServer' = [toServer EXCEPT ![c] = Append(@, [type |-> type, bytes |-> bytes])]
  <2>1. toServer[c] \in Seq(Message)
    BY <1>2
  <2>2. Append(toServer[c], [type |-> type, bytes |-> bytes]) \in Seq(Message)
    BY <1>1, <2>1
  <2> QED
    BY <1>2, <1>3, <2>2
<1>4. CASE UNCHANGED toServer /\ faults' = faults \cup {"lost"}
  BY <1>2, <1>4 DEF Fault
<1> QED
  BY <1>3, <1>4 DEF Send

LEMMA ConsumeTypes ==
    ASSUME TypeOK, NEW c \in Clients, Consume(c)
    PROVE  toClient' \in [Clients -> Seq(Reply)]
<1>1. toClient \in [Clients -> Seq(Reply)] /\ toClient[c] \in Seq(Reply)
  BY DEF TypeOK, Reply
<1>2. Tail(toClient[c]) \in Seq(Reply)
  BY <1>1 DEF Consume
<1> QED
  BY <1>1, <1>2 DEF Consume

LEMMA TakeTypes ==
    ASSUME TypeOK, NEW c \in Clients, Take(c)
    PROVE  /\ toServer' \in [Clients -> Seq(Message)]
           /\ Taken(c) \in Message
           /\ Taken(c).type \in {"name", "block", "eof"} /\ Taken(c).bytes \in Seq(Byte)
<1>1. toServer \in [Clients -> Seq(Message)] /\ toServer[c] \in Seq(Message) /\ toServer[c] # <<>>
  BY DEF TypeOK, Take
<1>2. Tail(toServer[c]) \in Seq(Message) /\ Taken(c) \in Message
  BY <1>1 DEF Taken
<1>3. Taken(c).type \in {"name", "block", "eof"} /\ Taken(c).bytes \in Seq(Byte)
  BY <1>2 DEF Message
<1> QED
  BY <1>1, <1>2, <1>3 DEF Take

LEMMA AnswerTypes ==
    ASSUME TypeOK, NEW c \in Clients, NEW replies \in Seq(Reply), Answer(c, replies, Crossed(c))
    PROVE  toClient' \in [Clients -> Seq(Reply)] /\ faults' \subseteq Fault
<1>1. /\ toClient \in [Clients -> Seq(Reply)] /\ toClient[c] \in Seq(Reply)
      /\ faults \subseteq Fault
  BY DEF TypeOK, Reply, Fault
<1>2. Heard(replies) \subseteq Seq(Reply)
  <2>1. \A k \in DOMAIN replies : <<replies[k]>> \in Seq(Reply)
    OBVIOUS
  <2>2. <<>> \in Seq(Reply)
    OBVIOUS
  <2> QED
    BY <2>1, <2>2 DEF Heard
<1>3. Crossed(c) \subseteq Fault
  BY DEF Crossed, Fault
<1>4. \E heard \in Seq(Reply) : toClient' = [toClient EXCEPT ![c] = toClient[c] \o heard]
  BY <1>2 DEF Answer
<1>5. faults' = faults \cup Crossed(c) \/ faults' = faults \cup Crossed(c) \cup {"lost"}
  BY DEF Answer
<1>6. toClient' \in [Clients -> Seq(Reply)]
  <2>1. PICK heard \in Seq(Reply) : toClient' = [toClient EXCEPT ![c] = toClient[c] \o heard]
    BY <1>4
  <2>2. toClient[c] \o heard \in Seq(Reply)
    BY <1>1
  <2> QED
    BY <1>1, <2>1, <2>2
<1>7. "lost" \in Fault
  BY DEF Fault
<1> QED
  BY <1>1, <1>3, <1>5, <1>6, <1>7

LEMMA InitTypes == Init => TypeOK
<1> SUFFICES ASSUME Init
             PROVE  TypeOK
  OBVIOUS
<1>1. ASSUME NEW c \in Clients
      PROVE  text[c] \in Contents[c] /\ pos[c] <= Len(text[c])
  <2>1. text[c] \in Contents[c]
    BY DEF Init
  <2>2. text[c] \in Seq(Byte)
    BY <2>1, LegacyAssumption
  <2> QED
    BY <2>1, <2>2 DEF Init
<1>2. <<>> \in Seq(Byte)
  OBVIOUS
<1>3. /\ transport \in Transports /\ nested \subseteq MayNest
      /\ pos \in [Clients -> Nat]
      /\ buf \in [Clients -> [1 .. SIZEBUF -> Byte]]
  BY LegacyAssumption DEF Init
<1> QED
  BY <1>1, <1>2, <1>3 DEF Init, TypeOK

LEMMA StepTypes == TypeOK /\ [Next]_vars => TypeOK'
<1> SUFFICES ASSUME TypeOK, [Next]_vars
             PROVE  TypeOK'
  OBVIOUS
<1> USE DEF Goto
<1>1. ASSUME NEW c \in Clients, Start(c), UNCHANGED <<inputs, server>>
      PROVE  TypeOK'
  <2>1. <<Other>> \in Seq(Byte) /\ <<>> \in Seq(Byte)
    BY DEF Byte
  <2>2. toServer' \in [Clients -> Seq(Message)] /\ faults' \subseteq Fault
    <3>1. CASE Send(c, "name", <<Other>>)
      BY <2>1, <3>1, SendTypes
    <3>2. CASE /\ toServer' = [toServer EXCEPT ![c] = <<[type |-> "name", bytes |-> <<>>]>>]
               /\ faults' = faults \cup {"killed"}
      <4>1. [type |-> "name", bytes |-> <<>>] \in Message
        BY <2>1 DEF Message
      <4>2. \A m \in Message : <<m>> \in Seq(Message)
        OBVIOUS
      <4> QED
        BY <3>2, <4>1, <4>2 DEF TypeOK, Fault
    <3> QED
      BY <1>1, <3>1, <3>2 DEF Start
  <2> QED
    BY <1>1, <2>2 DEF Start, TypeOK, inputs, server, Fault
<1>2. ASSUME NEW c \in Clients, RecvEcho(c), UNCHANGED <<inputs, server>>
      PROVE  TypeOK'
  <2>1. toClient' \in [Clients -> Seq(Reply)]
    BY <1>2, ConsumeTypes DEF RecvEcho
  <2> QED
    BY <1>2, <2>1 DEF RecvEcho, TypeOK, inputs, server, Reply
<1>3. ASSUME NEW c \in Clients, SendBlock(c), UNCHANGED <<inputs, server>>
      PROVE  TypeOK'
  <2>1. /\ Filled(c) \in Seq(Byte)
        /\ Tcp => Len(Filled(c)) = SIZEBUF
    BY FilledIs
  <2>2. toServer' \in [Clients -> Seq(Message)] /\ faults' \subseteq Fault
    BY <1>3, <2>1, SendTypes DEF SendBlock
  <2>3. pos' \in [Clients -> Nat] /\ \A d \in Clients : pos'[d] <= Len(text[d])
    <3>1. Advance(c) \in 0 .. Len(text[c])
      <4>1. Advance(c) = After(c, pos[c])
        BY DEF Advance, After
      <4>2. Advance(c) \in pos[c] .. Len(text[c]) /\ pos[c] \in Nat /\ Len(text[c]) \in Nat
        BY <4>1, TextType, AfterIs
      <4> QED
        BY <4>2
    <3>2. pos \in [Clients -> Nat] /\ \A d \in Clients : pos[d] <= Len(text[d])
      BY DEF TypeOK
    <3>3. pos' = [pos EXCEPT ![c] = Advance(c)] /\ Len(text[c]) \in Nat
      BY <1>3, TextType DEF SendBlock
    <3> QED
      BY <3>1, <3>2, <3>3
  <2>4. buf' \in [Clients -> [1 .. SIZEBUF -> Byte]]
    <3>1. buf \in [Clients -> [1 .. SIZEBUF -> Byte]]
      BY DEF TypeOK
    <3>2. ASSUME Tcp
          PROVE  [k \in 1 .. SIZEBUF |-> IF k <= Cleared \/ cPhase[c] = "resend" THEN Nul ELSE Filled(c)[k]]
                    \in [1 .. SIZEBUF -> Byte]
      <4>1. \A k \in 1 .. SIZEBUF : Filled(c)[k] \in Byte
        BY <2>1, <3>2
      <4>2. Nul \in Byte
        BY DEF Byte
      <4> QED
        BY <4>1, <4>2
    <3> QED
      BY <1>3, <3>1, <3>2 DEF SendBlock
  <2> QED
    BY <1>3, <2>2, <2>3, <2>4 DEF SendBlock, TypeOK, inputs, server, Fault
<1>4. ASSUME NEW c \in Clients, SendEof(c), UNCHANGED <<inputs, server>>
      PROVE  TypeOK'
  <2>1. <<>> \in Seq(Byte) /\ Nul \in Byte
    BY DEF Byte
  <2>2. toServer' \in [Clients -> Seq(Message)] /\ faults' \subseteq Fault
    BY <1>4, <2>1, SendTypes DEF SendEof
  <2>3. pos' \in [Clients -> Nat] /\ \A d \in Clients : pos'[d] <= Len(text[d])
    <3>1. pos \in [Clients -> Nat] /\ \A d \in Clients : pos[d] <= Len(text[d])
      BY DEF TypeOK
    <3>2. pos' = [pos EXCEPT ![c] = 0] /\ \A d \in Clients : Len(text[d]) \in Nat
      BY <1>4, TextType DEF SendEof
    <3> QED
      BY <3>1, <3>2
  <2>4. buf' \in [Clients -> [1 .. SIZEBUF -> Byte]]
    BY <1>4, <2>1 DEF SendEof, TypeOK
  <2> QED
    BY <1>4, <2>2, <2>3, <2>4 DEF SendEof, TypeOK, inputs, server, Fault
<1>5. ASSUME NEW c \in Clients, RecvEof(c), UNCHANGED <<inputs, server>>
      PROVE  TypeOK'
  <2>1. toClient' \in [Clients -> Seq(Reply)]
    <3>1. CASE Consume(c)
      BY <3>1, ConsumeTypes
    <3>2. CASE toClient[c] # <<>> /\ toClient' = [toClient EXCEPT ![c] = <<"rest">> \o Tail(@)]
      <4>1. toClient \in [Clients -> Seq(Reply)] /\ toClient[c] \in Seq(Reply)
        BY DEF TypeOK, Reply
      <4>2. Tail(toClient[c]) \in Seq(Reply) /\ <<"rest">> \in Seq(Reply)
        BY <3>2, <4>1 DEF Reply
      <4>3. <<"rest">> \o Tail(toClient[c]) \in Seq(Reply)
        BY <4>2
      <4> QED
        BY <3>2, <4>1, <4>3
    <3> QED
      BY <1>5, <3>1, <3>2 DEF RecvEof
  <2>2. faults' \subseteq Fault
    BY <1>5 DEF RecvEof, TypeOK, Fault
  <2>3. cPhase' \in [Clients -> {"idle", "echo", "send", "eof", "resend", "eof2", "verdict",
                                 "same", "differs", "failed", "killed"}]
    BY <1>5 DEF RecvEof, TypeOK
  <2> QED
    BY <1>5, <2>1, <2>2, <2>3 DEF RecvEof, TypeOK, inputs, server, Reply, Fault
<1>6. ASSUME NEW c \in Clients, RecvVerdict(c), UNCHANGED <<inputs, server>>
      PROVE  TypeOK'
  <2>1. toClient' \in [Clients -> Seq(Reply)]
    BY <1>6, ConsumeTypes DEF RecvVerdict
  <2> QED
    BY <1>6, <2>1 DEF RecvVerdict, TypeOK, inputs, server, Reply
<1>7. ASSUME NEW c \in Clients, Fail(c), UNCHANGED <<inputs, server>>
      PROVE  TypeOK'
  BY <1>7 DEF Fail, TypeOK, inputs, server
<1>8. ASSUME NEW c \in Clients, Kill(c)
      PROVE  TypeOK'
  BY <1>8 DEF Kill, TypeOK, inputs, server
<1>9. ASSUME NEW c \in Clients, RecvName(c), UNCHANGED <<inputs, client>>
      PROVE  TypeOK'
  <2>1. /\ toServer' \in [Clients -> Seq(Message)]
        /\ Taken(c).type \in {"name", "block", "eof"}
    BY <1>9, TakeTypes DEF RecvName
  <2>2. <<IF Taken(c).type = "name" THEN "echo" ELSE Taken(c).type>> \in Seq(Reply)
    BY <2>1 DEF Reply
  <2>3. toClient' \in [Clients -> Seq(Reply)] /\ faults' \subseteq Fault
    BY <1>9, <2>2, AnswerTypes DEF RecvName
  <2> QED
    BY <1>9, <2>1, <2>3 DEF RecvName, TypeOK, inputs, client, Reply, Fault
<1>10. ASSUME NEW c \in Clients, RecvBlock(c), UNCHANGED <<inputs, client>>
       PROVE  TypeOK'
  <2>1. /\ toServer' \in [Clients -> Seq(Message)]
        /\ Taken(c).bytes \in Seq(Byte)
    BY <1>10, TakeTypes DEF RecvBlock
  <2>2. temp \in Seq(Byte) /\ UpToNul(Taken(c).bytes) \in Seq(Byte)
    BY <2>1, UpToNulIs DEF TypeOK
  <2>3. temp' \in Seq(Byte)
    <3>1. temp \o Taken(c).bytes \in Seq(Byte) /\ temp \o UpToNul(Taken(c).bytes) \in Seq(Byte)
      BY <2>1, <2>2
    <3> QED
      BY <1>10, <2>2, <3>1 DEF RecvBlock
  <2>4. faults' \subseteq Fault
    BY <1>10 DEF RecvBlock, Crossed, TypeOK, Fault
  <2> QED
    BY <1>10, <2>1, <2>3, <2>4 DEF RecvBlock, TypeOK, inputs, client, Fault
<1>11. ASSUME NEW c \in Clients, SaveFile(c), UNCHANGED <<inputs, client>>
       PROVE  TypeOK'
  <2>1. toServer' \in [Clients -> Seq(Message)]
    BY <1>11, TakeTypes DEF SaveFile
  <2>2. Copied(temp, IF Tcp THEN SIZEBUF - 1 ELSE Datagram) \in Seq(Byte)
    BY SizesAreNumbers, CopiedIsFaithful DEF TypeOK
  <2>3. final' \in [Clients -> Seq(Byte)]
    BY <1>11, <2>2 DEF SaveFile, TypeOK
  <2>4. toClient' \in [Clients -> Seq(Reply)] /\ faults' \subseteq Fault
    <3>1. CASE Answer(c, <<"eof">>, Crossed(c))
      <4>1. <<"eof">> \in Seq(Reply)
        BY DEF Reply
      <4> QED
        BY <3>1, <4>1, AnswerTypes
    <3>2. CASE faults' = faults \cup {"crash"} /\ UNCHANGED toClient
      BY <3>2 DEF TypeOK, Fault, Reply
    <3> QED
      BY <1>11, <3>1, <3>2 DEF SaveFile
  <2> QED
    BY <1>11, <2>1, <2>3, <2>4 DEF SaveFile, TypeOK, inputs, client, Reply, Fault
<1>12. ASSUME NEW c \in Clients, EndCheck(c), UNCHANGED <<inputs, client>>
       PROVE  TypeOK'
  <2>1. toServer' \in [Clients -> Seq(Message)]
    BY <1>12, TakeTypes DEF EndCheck
  <2>2. <<"eof", "100">> \in Seq(Reply)
    BY DEF Reply
  <2>3. toClient' \in [Clients -> Seq(Reply)] /\ faults' \subseteq Fault
    BY <1>12, <2>2, AnswerTypes DEF EndCheck
  <2> QED
    BY <1>12, <2>1, <2>3 DEF EndCheck, TypeOK, inputs, client, Reply, Fault
<1>13. ASSUME Reopen, UNCHANGED <<inputs, client>>
       PROVE  TypeOK'
  BY <1>13 DEF Reopen, TypeOK, inputs, client
<1>14. ASSUME RecvNothing, UNCHANGED <<inputs, client>>
       PROVE  TypeOK'
  <2>1. temp \in Seq(Byte) /\ SIZEBUF \in Nat /\ Nul \in Byte
    BY SizesAreNumbers DEF TypeOK, Byte
  <2>2. [k \in 1 .. SIZEBUF |-> Nul] \in Seq(Byte)
    BY <2>1
  <2>3. temp \o [k \in 1 .. SIZEBUF |-> Nul] \in Seq(Byte)
    BY <2>1, <2>2
  <2> QED
    BY <1>14, <2>3 DEF RecvNothing, TypeOK, inputs, client
<1>15. ASSUME Die, UNCHANGED <<inputs, client>>
       PROVE  TypeOK'
  BY <1>15 DEF Die, TypeOK, inputs, client
<1>16. CASE UNCHANGED vars
  BY <1>16 DEF vars, TypeOK, inputs, client, server
<1> QED
  BY <1>1, <1>2, <1>3, <1>4, <1>5, <1>6, <1>7, <1>8, <1>9, <1>10, <1>11, <1>12, <1>13, <1>14,
     <1>15, <1>16 DEF Next, ClientStep, ServerStep

\* Every variable keeps its type, for every number of runs, every file and block, and
\* whatever is killed, lost or read short.
THEOREM TypesHold == Spec => []TypeOK
<1>1. Init => TypeOK
  BY InitTypes
<1>2. TypeOK /\ [Next]_vars => TypeOK'
  BY StepTypes
<1> QED
  BY <1>1, <1>2, PTL DEF Spec
-----------------------------------------------------------------------------
(* What temp.dat has.                                                      *)

LEMMA WholeIs ==
    ASSUME NEW a \in Nat, NEW m \in Nat \ {0}, a % m = 0
    PROVE  \E n \in 0 .. a : a = n * m
<1> DEFINE q == a \div m
<1>1. a = m * q + (a % m)
  OBVIOUS
<1>2. q \in Int /\ q >= 0
  OBVIOUS
<1> HIDE DEF q
<1>3. a = q * m
  BY <1>1, <1>2
<1>4. q <= a
  <2>1. q * (m - 1) >= 0
    BY <1>2
  <2>2. q * (m - 1) = q * m - q
    BY <1>2
  <2> QED
    BY <1>2, <1>3, <2>1, <2>2
<1> QED
  BY <1>2, <1>3, <1>4

LEMMA WholeFacts ==
    /\ Whole(0)
    /\ \A p \in Nat : Whole(p) => Whole(p + BlockSize)
<1>1. BlockSize \in Nat \ {0}
  BY SizesAreNumbers
<1> HIDE DEF BlockSize
<1>2. 0 \in 0 .. 0 /\ 0 = 0 * BlockSize
  BY <1>1
<1>3. ASSUME NEW p \in Nat, Whole(p)
      PROVE  Whole(p + BlockSize)
  <2>1. PICK n \in 0 .. p : p = n * BlockSize
    BY <1>3 DEF Whole
  <2>2. n + 1 \in 0 .. p + BlockSize
    BY <1>1
  <2>3. p + BlockSize = (n + 1) * BlockSize
    BY <1>1, <2>1
  <2> QED
    BY <2>2, <2>3 DEF Whole
<1> QED
  BY <1>2, <1>3 DEF Whole

LEMMA NoMultipleBetween ==
    ASSUME NEW m \in Nat \ {0}, NEW i \in Nat, NEW j \in Nat, i * m < j * m, j * m < i * m + m
    PROVE  FALSE
<1>1. CASE j <= i
  <2>1. i - j \in Nat /\ (i - j) * m >= 0
    BY <1>1
  <2>2. (i - j) * m = i * m - j * m
    OBVIOUS
  <2> QED
    BY <2>1, <2>2
<1>2. CASE j >= i + 1
  <2>1. j - (i + 1) \in Nat /\ (j - (i + 1)) * m >= 0
    BY <1>2
  <2>2. (j - (i + 1)) * m = j * m - (i * m + m)
    OBVIOUS
  <2> QED
    BY <2>1, <2>2
<1> QED
  BY <1>1, <1>2
\* A block that is not full ends at no multiple of its size.
LEMMA ShortBlock ==
    ASSUME NEW p \in Nat, NEW q \in Nat, Whole(p), Whole(q), p < q, q <= p + BlockSize
    PROVE  q = p + BlockSize
<1>1. BlockSize \in Nat \ {0}
  BY SizesAreNumbers
<1>2. PICK i \in 0 .. p : p = i * BlockSize
  BY DEF Whole
<1>3. PICK j \in 0 .. q : q = j * BlockSize
  BY DEF Whole
<1>4. ASSUME q < p + BlockSize
      PROVE  FALSE
  <2>1. i \in Nat /\ j \in Nat /\ i * BlockSize < j * BlockSize
        /\ j * BlockSize < i * BlockSize + BlockSize
    BY <1>2, <1>3, <1>4
  <2> QED
    BY <1>1, <2>1, NoMultipleBetween
<1> QED
  BY <1>1, <1>4

\* One more block makes a good copy of that much more.
LEMMA GoodGrows ==
    ASSUME TypeOK, NEW c \in Clients, NEW p \in 0 .. Len(text[c]), p < Len(text[c]), Whole(p),
           NEW copy \in Seq(Byte), Good(c, copy, p),
           NEW bytes \in Seq(Byte), Holds(c, bytes, p)
    PROVE  Good(c, copy \o (IF Tcp THEN bytes ELSE UpToNul(bytes)), After(c, p))
<1> DEFINE t == SubSeq(text[c], 1, p)
           u == Piece(c, p)
           q == After(c, p)
           tu == SubSeq(text[c], 1, q)
           more == IF Tcp THEN bytes ELSE UpToNul(bytes)
<1>1. text[c] \in Seq(Byte) /\ Len(text[c]) \in Nat /\ BlockSize \in Nat \ {0}
  BY TextType, SizesAreNumbers
<1>2. q \in p .. Len(text[c]) /\ q <= p + BlockSize /\ q > p
  BY AfterIs
<1>3. u \in Seq(Byte) /\ Len(u) = q - p /\ q - p \in 0 .. BlockSize
  BY PieceOfText
<1>4. t \in Seq(Byte) /\ tu \in Seq(Byte)
  BY <1>1, <1>2
<1>5. tu = t \o u
  <2>1. 1 \in 1 .. Len(text[c]) + 1 /\ q \in 1 - 1 .. Len(text[c]) /\ p \in 1 - 1 .. q
    BY <1>1, <1>2
  <2> HIDE DEF q
  <2>2. SubSeq(text[c], 1, q) = SubSeq(text[c], 1, p) \o SubSeq(text[c], p + 1, q)
    BY <1>1, <2>1, PieceJoined
  <2> QED
    BY <2>2 DEF Piece, q
<1>6. Faithful(copy, t)
  BY DEF Good, Faithful
<1> HIDE DEF t, u, tu
<1>7. CASE ~ Tcp
  <2>1. bytes = u
    BY <1>7 DEF Holds, u
  <2>2. more \in Seq(Byte) /\ Faithful(more, u)
    BY <1>7, <2>1, UpToNulIs, UpToNulIsFaithful
  <2>3. Faithful(copy \o more, t \o u)
    BY <1>3, <1>4, <1>6, <2>2, FaithfulJoined
  <2> QED
    BY <1>5, <2>3 DEF Faithful, Good, tu
<1>8. CASE Tcp
  <2>1. more = bytes /\ Len(bytes) = SIZEBUF /\ BlockSize = SIZEBUF
    BY <1>8 DEF Holds, BlockSize
  <2>2. \A k \in 1 .. Len(u) : k <= Len(bytes) /\ bytes[k] = u[k]
    BY <1>1, <1>3, <1>8, <2>1 DEF Holds, u
  <2>3. Keeps(bytes, u)
    BY <2>2 DEF Keeps
  <2>4. Keeps(copy \o bytes, t \o u)
    BY <1>3, <1>4, <1>6, <2>3, KeepsJoined
  <2>5. ASSUME Whole(q), Nul \notin Range(tu)
        PROVE  copy \o bytes = tu
    <3>1. q = p + BlockSize
      <4>1. p \in Nat /\ q \in Nat
        BY <1>1, <1>2
      <4> HIDE DEF q
      <4> QED
        BY <1>2, <2>5, <4>1, ShortBlock
    <3>2. Len(u) = Len(bytes)
      BY <1>1, <1>3, <2>1, <3>1
    <3>3. bytes = u
      BY <1>3, <2>2, <3>2, SeqEqual
    <3>4. Faithful(bytes, u)
      BY <2>3, <3>3 DEF Faithful
    <3>5. Faithful(copy \o bytes, t \o u)
      BY <1>3, <1>4, <1>6, <3>4, FaithfulJoined
    <3> QED
      BY <1>5, <2>5, <3>5 DEF Faithful
  <2> QED
    <3>1. Keeps(copy \o more, tu)
      BY <1>5, <2>1, <2>4
    <3>2. Nul \notin Range(tu) /\ (Tcp => Whole(q)) => copy \o more = tu
      BY <1>8, <2>1, <2>5
    <3> HIDE DEF more, q
    <3>3. Good(c, copy \o more, q)
      BY <3>1, <3>2 DEF Good, tu
    <3> QED
      BY <3>3 DEF more, q
<1> QED
  BY <1>7, <1>8

\* What is saved of a good copy of the whole file.
LEMMA CopyIsKept ==
    ASSUME TypeOK, NEW c \in Clients, Good(c, temp, Len(text[c])),
           final'[c] = Copied(temp, IF Tcp THEN SIZEBUF - 1 ELSE Datagram),
           UNCHANGED inputs
    PROVE  Kept(c)'
<1> DEFINE copy == Copied(temp, IF Tcp THEN SIZEBUF - 1 ELSE Datagram)
           t == text[c]
<1>1. t \in Seq(Byte) /\ temp \in Seq(Byte) /\ Len(t) \in Nat
  BY TextType DEF TypeOK
<1>2. SubSeq(t, 1, Len(t)) = t
  BY <1>1
<1>3. copy \in Seq(Byte) /\ Faithful(copy, temp)
  BY <1>1, SizesAreNumbers, CopiedIsFaithful
<1>4. Keeps(temp, t) /\ (Nul \notin Range(t) /\ (Tcp => Whole(Len(t))) => temp = t)
  BY <1>2 DEF Good
<1> HIDE DEF copy, t
<1>5. Keeps(copy, t)
  BY <1>1, <1>3, <1>4, KeepsTwice DEF Faithful
<1>6. IsPrefix(UpToNul(t), copy)
  BY <1>1, <1>3, <1>5, KeepsPrefix
<1>7. ASSUME Nul \notin Range(t), Tcp => Len(t) % SIZEBUF = 0
      PROVE  copy = t
  <2>1. Tcp => Whole(Len(t))
    <3>1. CASE Tcp
      <4>1. SIZEBUF \in Nat \ {0} /\ Len(t) % SIZEBUF = 0 /\ BlockSize = SIZEBUF
        BY <1>7, <3>1, SizesAreNumbers DEF BlockSize
      <4>2. \E n \in 0 .. Len(t) : Len(t) = n * SIZEBUF
        BY <1>1, <4>1, WholeIs
      <4> QED
        BY <4>1, <4>2 DEF Whole
    <3> QED
      BY <3>1
  <2>2. temp = t
    BY <1>4, <1>7, <2>1
  <2> QED
    BY <1>3, <1>7, <2>2 DEF Faithful
<1>8. final'[c] = copy /\ text'[c] = t /\ Tcp' = Tcp
  BY DEF copy, t, inputs, Tcp
<1> QED
  BY <1>6, <1>7, <1>8 DEF Kept

\* What a block and a copy are does not depend on anything that changes.
LEMMA SameMeaning ==
    ASSUME UNCHANGED inputs, NEW c \in Clients, NEW p, NEW bytes
    PROVE  /\ Holds(c, bytes, p)' <=> Holds(c, bytes, p)
           /\ Good(c, bytes, p)' <=> Good(c, bytes, p)
           /\ Whole(p)' <=> Whole(p)
           /\ After(c, p)' = After(c, p)
  BY DEF Good, Holds, Piece, After, Whole, Tcp, BlockSize, inputs

\* The first pass begins with nothing in temp.dat,
LEMMA PassBegins ==
    ASSUME TypeOK, NEW c \in Clients, UNCHANGED inputs, temp' = <<>>, pos'[c] = 0,
           cPhase'[c] = "send", toServer'[c] = <<>>
    PROVE  FirstPass(c, Len(toServer[c]))'
<1>1. Len(text[c]) \in Nat /\ text[c] \in Seq(Byte)
  BY TextType
<1>2. Len(toServer'[c]) = 0 /\ text'[c] = text[c] /\ Tcp' = Tcp /\ BlockSize' = BlockSize
  BY DEF inputs, Tcp, BlockSize
<1>3. SubSeq(text[c], 1, 0) = <<>>
  BY <1>1
<1>4. Good(c, <<>>, 0)
  <2>1. Keeps(<<>>, <<>>)
    BY DEF Keeps
  <2> QED
    BY <1>3, <2>1 DEF Good
<1>5. Good(c, temp, 0)'
  BY <1>2, <1>4 DEF Good, Whole
<1>6. Whole(0)'
  BY <1>2, WholeFacts DEF Whole
<1> DEFINE at == [k \in 1 .. 1 |-> 0]
<1>7. at \in [1 .. Len(toServer'[c]) + 1 -> 0 .. Len(text'[c])] /\ at[1] = 0
  BY <1>1, <1>2
<1> HIDE DEF at
<1>8. \A k \in 1 .. Len(toServer'[c]) + 1 : at[k] = 0
  BY <1>2, <1>7
<1> QED
  BY <1>2, <1>5, <1>6, <1>7, <1>8 DEF FirstPass

\* goes on with each block that is sent,
LEMMA PassSends ==
    ASSUME TypeOK, NEW c \in Clients, UNCHANGED inputs, UNCHANGED temp,
           cPhase[c] = "send", cPhase'[c] = "send",
           pos[c] < Len(text[c]), pos'[c] = Advance(c),
           toServer'[c] = Append(toServer[c], [type |-> "block", bytes |-> Filled(c)]),
           FirstPass(c, Len(toServer[c]))
    PROVE  FirstPass(c, Len(toServer[c]))'
<1> DEFINE n == Len(toServer[c])
<1>1. /\ Len(text[c]) \in Nat /\ pos[c] \in 0 .. Len(text[c]) /\ n \in Nat
      /\ toServer[c] \in Seq(Message)
  BY TextType DEF TypeOK
<1>2. /\ text' = text /\ Tcp' = Tcp /\ BlockSize' = BlockSize
  BY DEF inputs, Tcp, BlockSize
<1>3. PICK at \in [1 .. n + 1 -> 0 .. Len(text[c])] :
        /\ at[n + 1] = pos[c]
        /\ Good(c, temp, at[1])
        /\ \A k \in 1 .. n + 1 : at[k] < Len(text[c]) => Whole(at[k])
        /\ \A k \in 1 .. n :
            /\ toServer[c][k].type = "block"
            /\ Holds(c, toServer[c][k].bytes, at[k])
            /\ at[k] < Len(text[c])
            /\ at[k + 1] = After(c, at[k])
  BY DEF FirstPass
<1>4. /\ Len(toServer'[c]) = n + 1
      /\ \A k \in 1 .. n : toServer'[c][k] = toServer[c][k]
      /\ toServer'[c][n + 1] = [type |-> "block", bytes |-> Filled(c)]
  BY <1>1
<1>5. /\ Advance(c) = After(c, pos[c]) /\ Advance(c) \in 0 .. Len(text[c])
      /\ Advance(c) \in {pos[c] + BlockSize, Len(text[c])}
  <2>1. Advance(c) = After(c, pos[c])
    BY DEF Advance, After
  <2>2. After(c, pos[c]) \in pos[c] .. Len(text[c])
        /\ After(c, pos[c]) \in {pos[c] + BlockSize, Len(text[c])}
    BY <1>1, AfterIs
  <2> HIDE DEF n
  <2> QED
    BY <1>1, <2>1, <2>2
<1>6. Holds(c, Filled(c), pos[c])
  BY FilledIs
<1> HIDE DEF n
<1>7. PICK to \in [1 .. n + 2 -> 0 .. Len(text[c])] :
        /\ to[n + 2] = Advance(c)
        /\ \A k \in 1 .. n + 1 : to[k] = at[k]
  <2> DEFINE f == [k \in 1 .. n + 2 |-> IF k = n + 2 THEN Advance(c) ELSE at[k]]
  <2>1. /\ f \in [1 .. n + 2 -> 0 .. Len(text[c])]
        /\ f[n + 2] = Advance(c)
        /\ \A k \in 1 .. n + 1 : f[k] = at[k]
    BY <1>1, <1>5
  <2> HIDE DEF f
  <2> QED
    BY <2>1
<1>8. \A k \in 1 .. n + 2 : to[k] < Len(text[c]) => Whole(to[k])
  <2>1. ASSUME Advance(c) < Len(text[c])
        PROVE  Whole(Advance(c))
    <3>1. Advance(c) = pos[c] + BlockSize
      BY <1>1, <1>5, <2>1
    <3>2. Whole(pos[c])
      BY <1>1, <1>3
    <3> QED
      BY <1>1, <3>1, <3>2, WholeFacts
  <2> QED
    BY <1>1, <1>3, <1>7, <2>1
<1>9. ASSUME NEW k \in 1 .. n + 1
      PROVE  /\ toServer'[c][k].type = "block"
             /\ Holds(c, toServer'[c][k].bytes, to[k])
             /\ to[k] < Len(text[c])
             /\ to[k + 1] = After(c, to[k])
  <2>1. CASE k = n + 1
    <3>1. to[k] = pos[c] /\ to[k + 1] = Advance(c)
      BY <1>1, <1>3, <1>7, <2>1
    <3> QED
      BY <1>4, <1>5, <1>6, <2>1, <3>1
  <2>2. CASE k # n + 1
    <3>1. k \in 1 .. n /\ k + 1 \in 1 .. n + 1
      BY <1>1, <2>2
    <3> QED
      BY <1>3, <1>4, <1>7, <3>1
  <2> QED
    BY <2>1, <2>2
<1>10. Good(c, temp, to[1])
  BY <1>1, <1>3, <1>7
<1>11. n + 1 + 1 = n + 2 /\ n + 1 \in Nat
  BY <1>1
<1>12. Good(c, temp, to[1])'
  BY <1>10, SameMeaning
<1>13. \A k \in 1 .. n + 2 : to[k] < Len(text[c]) => Whole(to[k])'
  BY <1>8, SameMeaning
<1>14. \A k \in 1 .. n + 1 : Holds(c, toServer[c][k].bytes, to[k])' /\ to[k + 1] = After(c, to[k])'
  BY <1>9, SameMeaning
<1>15. Len(toServer'[c]) + 1 = n + 2 /\ to[n + 2] = pos'[c]
  BY <1>4, <1>7, <1>11
<1>16. to \in [1 .. Len(toServer'[c]) + 1 -> 0 .. Len(text'[c])]
  BY <1>2, <1>7, <1>15
<1>17. \A k \in 1 .. Len(toServer'[c]) :
        /\ toServer'[c][k].type = "block"
        /\ Holds(c, toServer[c][k].bytes, to[k])'
        /\ to[k] < Len(text'[c])
        /\ to[k + 1] = After(c, to[k])'
  BY <1>2, <1>4, <1>9, <1>14
<1>18. \A k \in 1 .. Len(toServer'[c]) + 1 : to[k] < Len(text'[c]) => Whole(to[k])'
  BY <1>2, <1>13, <1>15
<1> QED
  BY <1>12, <1>15, <1>16, <1>17, <1>18 DEF FirstPass

\* ends where the file ends,
LEMMA PassCloses ==
    ASSUME TypeOK, NEW c \in Clients, UNCHANGED inputs, UNCHANGED temp,
           cPhase[c] = "send", cPhase'[c] = "eof", pos[c] >= Len(text[c]),
           toServer'[c] = Append(toServer[c], [type |-> "eof", bytes |-> <<>>]),
           FirstPass(c, Len(toServer[c]))
    PROVE  AtEnd(c)' /\ FirstPass(c, Before(c))'
<1> DEFINE n == Len(toServer[c])
<1>1. /\ Len(text[c]) \in Nat /\ pos[c] \in 0 .. Len(text[c]) /\ n \in Nat
      /\ toServer[c] \in Seq(Message)
  BY TextType DEF TypeOK
<1>2. /\ text' = text /\ Tcp' = Tcp /\ BlockSize' = BlockSize
  BY DEF inputs, Tcp, BlockSize
<1>3. /\ Len(toServer'[c]) = n + 1 /\ Before(c)' = n
      /\ \A k \in 1 .. n : toServer'[c][k] = toServer[c][k]
      /\ toServer'[c][n + 1].type = "eof"
  BY <1>1 DEF Before
<1>4. AtEnd(c)'
  BY <1>1, <1>3 DEF AtEnd, Last
<1>5. pos[c] = Len(text[c])
  BY <1>1
<1> HIDE DEF n
<1>6. FirstPass(c, n)
  BY DEF n
<1>7. FirstPass(c, Before(c))'
  <2>1. PICK at \in [1 .. n + 1 -> 0 .. Len(text[c])] :
        /\ at[n + 1] = pos[c]
        /\ Good(c, temp, at[1])
        /\ \A k \in 1 .. n + 1 : at[k] < Len(text[c]) => Whole(at[k])
        /\ \A k \in 1 .. n :
            /\ toServer[c][k].type = "block"
            /\ Holds(c, toServer[c][k].bytes, at[k])
            /\ at[k] < Len(text[c])
            /\ at[k + 1] = After(c, at[k])
    BY <1>6 DEF FirstPass
  <2>2. Good(c, temp, at[1])'
    BY <2>1, SameMeaning
  <2>3. \A k \in 1 .. n + 1 : at[k] < Len(text[c]) => Whole(at[k])'
    BY <2>1, SameMeaning
  <2>4. \A k \in 1 .. n : Holds(c, toServer[c][k].bytes, at[k])' /\ at[k + 1] = After(c, at[k])'
    BY <1>3, <2>1, SameMeaning
  <2> QED
    BY <1>2, <1>3, <1>5, <2>1, <2>2, <2>3, <2>4 DEF FirstPass
<1> QED
  BY <1>4, <1>7

\* and follows the server as it takes the blocks.
LEMMA PassReceives ==
    ASSUME TypeOK, NEW c \in Clients, UNCHANGED inputs, UNCHANGED client,
           NEW n \in 1 .. Len(toServer[c]),
           toServer'[c] = Tail(toServer[c]),
           temp' = temp \o (IF Tcp THEN Taken(c).bytes ELSE UpToNul(Taken(c).bytes)),
           FirstPass(c, n)
    PROVE  /\ \A m \in Nat : m = n - 1 => FirstPass(c, m)'
           /\ Taken(c).type = "block"
<1> DEFINE m == n - 1
           goal == IF cPhase[c] = "send" THEN pos[c] ELSE Len(text[c])
<1>1. /\ Len(text[c]) \in Nat /\ m \in Nat
      /\ toServer[c] \in Seq(Message) /\ toServer[c] # <<>>
      /\ Len(toServer[c]) \in Nat
  BY TextType DEF TypeOK
<1>2. /\ text' = text /\ Tcp' = Tcp /\ BlockSize' = BlockSize /\ cPhase' = cPhase /\ pos' = pos
  BY DEF inputs, client, Tcp, BlockSize
<1>3. PICK at \in [1 .. n + 1 -> 0 .. Len(text[c])] :
        /\ at[n + 1] = goal
        /\ Good(c, temp, at[1])
        /\ \A k \in 1 .. n + 1 : at[k] < Len(text[c]) => Whole(at[k])
        /\ \A k \in 1 .. n :
            /\ toServer[c][k].type = "block"
            /\ Holds(c, toServer[c][k].bytes, at[k])
            /\ at[k] < Len(text[c])
            /\ at[k + 1] = After(c, at[k])
  BY DEF FirstPass
<1>4. \A k \in 1 .. m : toServer'[c][k] = toServer[c][k + 1]
  BY <1>1
<1>5. 1 \in 1 .. n /\ Taken(c) = toServer[c][1] /\ 1 + 1 = 2
  BY <1>1 DEF Taken
<1>6. Taken(c).bytes \in Seq(Byte)
  <2>1. Taken(c) \in Message
    BY <1>1, <1>5
  <2> QED
    BY <2>1 DEF Message
<1>7. Good(c, temp', at[2])
  <2>1. at[1] \in 0 .. Len(text[c]) /\ at[1] < Len(text[c]) /\ Whole(at[1])
    BY <1>1, <1>3, <1>5
  <2>2. Holds(c, Taken(c).bytes, at[1]) /\ at[2] = After(c, at[1])
    BY <1>3, <1>5
  <2>3. temp \in Seq(Byte)
    BY DEF TypeOK
  <2> QED
    BY <1>3, <1>6, <2>1, <2>2, <2>3, GoodGrows
<1> HIDE DEF goal
<1> DEFINE to == [k \in 1 .. m + 1 |-> at[k + 1]]
<1>8. /\ to \in [1 .. m + 1 -> 0 .. Len(text[c])]
      /\ \A k \in 1 .. m + 1 : to[k] = at[k + 1]
  BY <1>1
<1> HIDE DEF to
<1>9. to[m + 1] = goal /\ to[1] = at[2]
  BY <1>1, <1>3, <1>8
<1>10. \A k \in 1 .. m + 1 : to[k] < Len(text[c]) => Whole(to[k])
  <2>1. \A k \in 1 .. m + 1 : k + 1 \in 1 .. n + 1
    BY <1>1
  <2> QED
    BY <1>3, <1>8, <2>1
<1>11. ASSUME NEW k \in 1 .. m
       PROVE  /\ toServer'[c][k].type = "block"
              /\ Holds(c, toServer'[c][k].bytes, to[k])
              /\ to[k] < Len(text[c])
              /\ to[k + 1] = After(c, to[k])
  <2>1. k + 1 \in 1 .. n /\ k \in 1 .. m + 1 /\ k + 1 \in 1 .. m + 1
    BY <1>1
  <2> QED
    BY <1>3, <1>4, <1>8, <2>1
<1>12. FirstPass(c, m)'
  <2> HIDE DEF m
  <2> QED
    <3>1. Good(c, temp, to[1])'
      BY <1>7, <1>9, SameMeaning
    <3>2. \A k \in 1 .. m + 1 : to[k] < Len(text[c]) => Whole(to[k])'
      BY <1>10, SameMeaning
    <3>3. \A k \in 1 .. m : Holds(c, toServer[c][k].bytes, to[k])' /\ to[k + 1] = After(c, to[k])'
      BY <1>11, SameMeaning
    <3>4. goal' = goal
      BY <1>2 DEF goal
    <3> QED
      BY <1>2, <1>8, <1>9, <1>11, <3>1, <3>2, <3>3, <3>4 DEF FirstPass, goal
<1> QED
  BY <1>3, <1>5, <1>12

-----------------------------------------------------------------------------
(* Client and server in step.                                              *)

\* Whoever is undisturbed has been so all along.
LEMMA DisturbedForEver ==
    ASSUME TypeOK, Next
    PROVE  /\ UNCHANGED inputs
           /\ \A c \in Clients : Undisturbed(c)' => Undisturbed(c)
<1>1. UNCHANGED inputs /\ faults \subseteq faults'
  BY DEF Next, ClientStep, ServerStep, Start, RecvEcho, SendBlock, SendEof, RecvEof, RecvVerdict,
     Fail, Kill, Send, RecvName, RecvBlock, SaveFile, EndCheck, Reopen, RecvNothing, Die, Answer
<1>2. sPhase = "down" => sPhase' = "down"
  BY DEF Next, ClientStep, ServerStep, Kill, RecvName, RecvBlock, SaveFile, EndCheck, Reopen,
     RecvNothing, Die, server
<1>3. \A c \in Clients : cPhase[c] = "killed" => cPhase'[c] = "killed"
  <2>1. DOMAIN cPhase = Clients
    BY DEF TypeOK
  <2> QED
    BY <2>1 DEF Next, ClientStep, ServerStep, Start, RecvEcho, SendBlock, SendEof, RecvEof, RecvVerdict,
     Fail, Kill, Goto, Alive, Die, client
<1> QED
  BY <1>1, <1>2, <1>3 DEF Undisturbed, Tcp, inputs

\* A client that a step does not touch stays in step.
LEMMA SameInStep ==
    ASSUME TypeOK, NEW c \in Clients, InStep(c), UNCHANGED inputs,
           UNCHANGED <<cPhase[c], pos[c], toServer[c], toClient[c]>>,
           Attended(c)' <=> Attended(c),
           Attended(c) => (sPhase' = "blocks" <=> sPhase = "blocks"),
           Attended(c) /\ sPhase = "blocks" => UNCHANGED temp
    PROVE  InStep(c)'
<1>1. ASSUME NEW n, FirstPass(c, n), UNCHANGED temp
      PROVE  FirstPass(c, n)'
  <2>1. PICK at \in [1 .. n + 1 -> 0 .. Len(text[c])] :
        /\ at[n + 1] = IF cPhase[c] = "send" THEN pos[c] ELSE Len(text[c])
        /\ Good(c, temp, at[1])
        /\ \A k \in 1 .. n + 1 : at[k] < Len(text[c]) => Whole(at[k])
        /\ \A k \in 1 .. n :
            /\ toServer[c][k].type = "block"
            /\ Holds(c, toServer[c][k].bytes, at[k])
            /\ at[k] < Len(text[c])
            /\ at[k + 1] = After(c, at[k])
    BY <1>1 DEF FirstPass
  <2>2. Good(c, temp, at[1])'
    BY <1>1, <2>1, SameMeaning
  <2>3. \A k \in 1 .. n + 1 : at[k] < Len(text[c]) => Whole(at[k])'
    BY <2>1, SameMeaning
  <2>4. \A k \in 1 .. n : Holds(c, toServer[c][k].bytes, at[k])' /\ at[k + 1] = After(c, at[k])'
    BY <2>1, SameMeaning
  <2>5. text' = text
    BY DEF inputs
  <2> QED
    BY <2>1, <2>2, <2>3, <2>4, <2>5 DEF FirstPass
<1>2. /\ AtEnd(c)' <=> AtEnd(c)
      /\ Before(c)' = Before(c)
      /\ Len(toServer[c])' = Len(toServer[c])
      /\ \A n : Blocks(c, n)' <=> Blocks(c, n)
  BY DEF AtEnd, Before, Blocks
<1>3. Attended(c) /\ sPhase = "blocks" /\ FirstPass(c, Len(toServer[c])) => FirstPass(c, Len(toServer[c]))'
  BY <1>1, <1>2
<1>4. Attended(c) /\ sPhase = "blocks" /\ FirstPass(c, Before(c)) => FirstPass(c, Before(c))'
  BY <1>1, <1>2
<1> HIDE DEF InStep
<1> QED
  BY <1>2, <1>3, <1>4, Zenon DEF InStep

LEMMA OthersInStep ==
    ASSUME TypeOK, NEW c \in Clients, NEW d \in Clients, d # c, InStep(d),
           (Start(c) /\ UNCHANGED <<inputs, server>>) \/ ClientStep(c) \/ Kill(c)
    PROVE  InStep(d)'
<1>1. DOMAIN cPhase = Clients /\ DOMAIN pos = Clients /\ DOMAIN toServer = Clients /\ DOMAIN toClient = Clients
  BY DEF TypeOK
<1>2. UNCHANGED <<inputs, server>>
  BY DEF ClientStep, Kill
<1>3. UNCHANGED cPhase[d]
  BY <1>1 DEF ClientStep, Kill, Start, RecvEcho, SendBlock, SendEof, RecvEof, RecvVerdict, Fail, Goto
<1>4. UNCHANGED pos[d]
  BY <1>1 DEF ClientStep, Kill, Start, RecvEcho, SendBlock, SendEof, RecvEof, RecvVerdict, Fail
<1>5. UNCHANGED toServer[d]
  BY <1>1 DEF ClientStep, Kill, Start, RecvEcho, SendBlock, SendEof, RecvEof, RecvVerdict, Fail, Send
<1>6. UNCHANGED toClient[d]
  BY <1>1 DEF ClientStep, Kill, Start, RecvEcho, SendBlock, SendEof, RecvEof, RecvVerdict, Fail, Consume
<1>7. (Attended(d)' <=> Attended(d)) /\ UNCHANGED <<sPhase, temp>>
  BY <1>2 DEF server, Attended
<1> QED
  BY <1>2, <1>3, <1>4, <1>5, <1>6, <1>7, SameInStep

\* What a client sends is added to the queue, unless it is lost.
LEMMA SendInStep ==
    ASSUME TypeOK, NEW c \in Clients, NEW type, NEW bytes, Send(c, type, bytes),
           UNCHANGED inputs, Undisturbed(c)'
    PROVE  toServer'[c] = Append(toServer[c], [type |-> type, bytes |-> bytes])
<1>1. CASE toServer' = [toServer EXCEPT ![c] = Append(@, [type |-> type, bytes |-> bytes])]
  BY <1>1 DEF TypeOK
<1>2. CASE ~ Tcp /\ faults' = faults \cup {"lost"}
  <2>1. ~ Tcp'
    BY <1>2 DEF inputs, Tcp
  <2> QED
    BY <1>2, <2>1 DEF Undisturbed
<1> QED
  BY <1>1, <1>2 DEF Send

LEMMA ClientInStep ==
    ASSUME TypeOK, NEW c \in Clients, InStep(c), Undisturbed(c), Undisturbed(c)',
           (Start(c) /\ UNCHANGED <<inputs, server>>) \/ ClientStep(c) \/ Kill(c)
    PROVE  InStep(c)'
<1>1. UNCHANGED <<inputs, server>>
  BY DEF ClientStep, Kill
<1>2. /\ DOMAIN cPhase = Clients /\ DOMAIN pos = Clients
      /\ DOMAIN toServer = Clients /\ toServer[c] \in Seq(Message)
      /\ DOMAIN toClient = Clients /\ toClient[c] \in Seq(Reply)
  BY DEF TypeOK, Reply
<1>3. /\ Attended(c)' <=> Attended(c)
      /\ sPhase' = sPhase /\ temp' = temp
      /\ Tcp' = Tcp /\ text' = text
  BY <1>1 DEF Attended, server, inputs, Tcp
<1>4. CASE Start(c)
  <2>1. /\ cPhase[c] = "idle" /\ cPhase'[c] = "echo"
        /\ Send(c, "name", <<Other>>)
    <3>1. cPhase'[c] = "killed" => ~Tcp'
      BY DEF Undisturbed
    <3> QED
      BY <1>2, <1>3, <1>4, <3>1 DEF Start, Goto
  <2>2. ~ Attended(c) /\ pos[c] = 0 /\ toServer[c] = <<>> /\ toClient[c] = <<>>
    BY <2>1 DEF InStep
  <2>3. toServer'[c] = <<[type |-> "name", bytes |-> <<Other>>]>>
    BY <1>1, <2>1, <2>2, SendInStep
  <2>4. pos' = pos /\ toClient' = toClient
    BY <1>4 DEF Start
  <2> QED
    BY <1>3, <2>1, <2>2, <2>3, <2>4 DEF InStep
<1>5. CASE RecvEcho(c)
  <2>1. cPhase[c] = "echo" /\ toClient[c] # <<>>
    BY <1>5 DEF RecvEcho, Consume
  <2>2. /\ Attended(c) /\ sPhase = "blocks" /\ temp = <<>> /\ pos[c] = 0
        /\ toServer[c] = <<>> /\ toClient[c] = <<"echo">>
    BY <2>1 DEF InStep
  <2>3. cPhase'[c] = "send" /\ toClient'[c] = <<>> /\ toServer' = toServer /\ pos' = pos
    BY <1>2, <1>5, <2>2 DEF RecvEcho, Consume, Got, Goto
  <2>4. FirstPass(c, Len(toServer[c]))'
    BY <1>1, <1>3, <2>2, <2>3, PassBegins
  <2> QED
    BY <1>3, <2>2, <2>3, <2>4 DEF InStep
<1>6. CASE SendBlock(c)
  <2>1. /\ cPhase[c] \in {"send", "resend"} /\ cPhase' = cPhase /\ toClient' = toClient
        /\ pos[c] < Len(text[c]) /\ pos'[c] = Advance(c)
    BY <1>2, <1>6 DEF SendBlock
  <2>2. toServer'[c] = Append(toServer[c], [type |-> "block", bytes |-> Filled(c)])
    BY <1>1, <1>6, SendInStep DEF SendBlock
  <2>3. CASE cPhase[c] = "send"
    <3>1. /\ Attended(c) /\ sPhase = "blocks"
          /\ FirstPass(c, Len(toServer[c])) /\ toClient[c] = <<>>
      BY <2>3 DEF InStep
    <3>2. FirstPass(c, Len(toServer[c]))'
      BY <1>1, <1>3, <2>1, <2>2, <2>3, <3>1, PassSends
    <3> QED
      BY <1>3, <2>1, <2>3, <3>1, <3>2 DEF InStep
  <2>4. CASE cPhase[c] = "resend"
    <3>1. /\ Attended(c) /\ sPhase # "blocks"
          /\ Blocks(c, Len(toServer[c])) /\ toClient[c] = <<>>
      BY <2>4 DEF InStep
    <3>2. Blocks(c, Len(toServer[c]))'
      BY <1>2, <2>2, <3>1 DEF Blocks
    <3> QED
      BY <1>3, <2>1, <2>4, <3>1, <3>2 DEF InStep
  <2> QED
    BY <2>1, <2>3, <2>4
<1>7. CASE SendEof(c)
  <2>1. /\ cPhase[c] \in {"send", "resend"} /\ toClient' = toClient /\ pos[c] >= Len(text[c])
        /\ cPhase'[c] = IF cPhase[c] = "send" THEN "eof" ELSE "eof2"
    BY <1>2, <1>7 DEF SendEof, Goto
  <2>2. toServer'[c] = Append(toServer[c], [type |-> "eof", bytes |-> <<>>])
    BY <1>1, <1>7, SendInStep DEF SendEof
  <2>3. CASE cPhase[c] = "send"
    <3>1. /\ Attended(c) /\ sPhase = "blocks"
          /\ FirstPass(c, Len(toServer[c])) /\ toClient[c] = <<>>
      BY <2>3 DEF InStep
    <3>2. AtEnd(c)' /\ FirstPass(c, Before(c))'
      BY <1>1, <1>3, <2>1, <2>2, <2>3, <3>1, PassCloses
    <3> QED
      BY <1>3, <2>1, <2>3, <3>1, <3>2 DEF InStep
  <2>4. CASE cPhase[c] = "resend"
    <3>1. /\ Attended(c) /\ sPhase # "blocks"
          /\ Blocks(c, Len(toServer[c])) /\ toClient[c] = <<>>
      BY <2>4 DEF InStep
    <3>2. AtEnd(c)' /\ Blocks(c, Before(c))'
      BY <1>2, <2>2, <3>1 DEF Blocks, Before, AtEnd, Last
    <3> QED
      BY <1>3, <2>1, <2>4, <3>1, <3>2 DEF InStep
  <2> QED
    BY <2>1, <2>3, <2>4
<1>8. CASE RecvEof(c)
  <2>1. cPhase[c] \in {"eof", "eof2"} /\ toClient[c] # <<>> /\ toServer' = toServer
    BY <1>8 DEF RecvEof, Consume
  <2>2. CASE cPhase[c] = "eof"
    <3>1. Attended(c) /\ sPhase # "blocks" /\ toServer[c] = <<>> /\ toClient[c] = <<"eof">>
      BY <2>1, <2>2 DEF InStep
    <3>2. cPhase'[c] = "resend" /\ toClient'[c] = <<>>
      BY <1>2, <1>8, <2>2, <3>1 DEF RecvEof, Consume, Got, Goto
    <3>3. Blocks(c, Len(toServer[c]))'
      BY <2>1, <3>1 DEF Blocks
    <3> QED
      BY <1>3, <3>1, <3>2, <3>3 DEF InStep
  <2>3. CASE cPhase[c] = "eof2"
    <3>1. ~ Attended(c) /\ toServer[c] = <<>> /\ toClient[c] = <<"eof", "100">>
      BY <2>1, <2>3 DEF InStep
    <3>2. Tail(toClient[c]) = <<"100">> /\ <<"rest">> \o <<"100">> = <<"rest", "100">>
      <4>1. Tail(<<"eof", "100">>) = <<"100">>
        OBVIOUS
      <4>2. <<"rest">> \o <<"100">> = <<"rest", "100">>
        <5> DEFINE x == <<"rest">> \o <<"100">>
                   y == <<"rest", "100">>
                   S == {"rest", "100"}
        <5>1. x \in Seq(S) /\ Len(x) = 2 /\ x[1] = "rest" /\ x[2] = "100"
          <6>1. <<"rest">> \in Seq(S) /\ <<"100">> \in Seq(S)
            OBVIOUS
          <6>2. Len(<<"rest">>) = 1 /\ Len(<<"100">>) = 1
            OBVIOUS
          <6> QED
            BY <6>1, <6>2
        <5>2. y \in Seq(S) /\ Len(y) = 2 /\ y[1] = "rest" /\ y[2] = "100"
          OBVIOUS
        <5> HIDE DEF x, y
        <5>3. \A i \in 1 .. Len(x) : x[i] = y[i]
          BY <5>1, <5>2
        <5>4. x = y
          BY <5>1, <5>2, <5>3, SeqEqual
        <5> QED
          BY <5>4 DEF x, y
      <4> QED
        BY <3>1, <4>1, <4>2
    <3>3. cPhase'[c] = "verdict" /\ toClient'[c] \in {<<"100">>, <<"rest", "100">>}
      BY <1>2, <1>8, <2>3, <3>1, <3>2 DEF RecvEof, Consume, Got, Goto
    <3> QED
      BY <1>3, <2>1, <3>1, <3>3 DEF InStep
  <2> QED
    BY <2>1, <2>2, <2>3
<1>9. CASE RecvVerdict(c)
  <2>1. cPhase[c] = "verdict" /\ toServer' = toServer /\ cPhase'[c] \in {"same", "differs"}
    BY <1>2, <1>9 DEF RecvVerdict, Goto
  <2>2. ~ Attended(c) /\ toServer[c] = <<>>
    BY <2>1 DEF InStep
  <2> QED
    BY <1>3, <2>1, <2>2 DEF InStep
<1>10. CASE Fail(c)
  BY <1>10 DEF Fail, Undisturbed
<1>11. CASE Kill(c)
  <2>1. cPhase'[c] = "killed" /\ faults' # {}
    BY <1>2, <1>11 DEF Kill, Goto
  <2> QED
    BY <2>1 DEF Undisturbed
<1> QED
  BY <1>4, <1>5, <1>6, <1>7, <1>8, <1>9, <1>10, <1>11 DEF ClientStep

\* In the middle of a run the server takes what the client of that run has sent; over UDP
\* anything else disturbs them all.
LEMMA TakenFromServed ==
    ASSUME NEW c \in Clients, Take(c), sPhase # "name",
           Tcp \/ (faults' = {} /\ Crossed(c) \subseteq faults')
    PROVE  c = served
  BY DEF Take, Crossed, Expected

LEMMA TakeLeaves ==
    ASSUME TypeOK, NEW c \in Clients, Take(c)
    PROVE  /\ toServer[c] \in Seq(Message) /\ toServer[c] # <<>>
           /\ toServer'[c] = Tail(toServer[c])
           /\ \A d \in Clients : d # c => toServer'[d] = toServer[d]
           /\ Taken(c) = toServer[c][1] /\ Len(toServer[c]) \in Nat \ {0}
<1>1. toServer \in [Clients -> Seq(Message)] /\ toServer[c] # <<>>
  BY DEF TypeOK, Take
<1>2. toServer' = [toServer EXCEPT ![c] = Tail(toServer[c])]
  BY DEF Take
<1>3. toServer[c] \in Seq(Message) /\ toServer'[c] = Tail(toServer[c])
  BY <1>1, <1>2
<1>4. Head(toServer[c]) = toServer[c][1] /\ Len(toServer[c]) \in Nat \ {0}
  BY <1>1, <1>3
<1> QED
  BY <1>1, <1>2, <1>3, <1>4 DEF Taken

\* An answer reaches its client, unless it is lost.
LEMMA AnswerInStep ==
    ASSUME TypeOK, NEW c \in Clients, NEW replies \in Seq(Reply), Answer(c, replies, Crossed(c)),
           UNCHANGED inputs, Undisturbed(c)'
    PROVE  toClient'[c] = toClient[c] \o replies
<1>1. CASE toClient' = [toClient EXCEPT ![c] = @ \o replies]
  BY <1>1 DEF TypeOK
<1>2. CASE ~ Tcp /\ faults' = faults \cup Crossed(c) \cup {"lost"}
  <2>1. ~ Tcp'
    BY <1>2 DEF inputs, Tcp
  <2> QED
    BY <1>2, <2>1 DEF Undisturbed
<1> QED
  BY <1>1, <1>2 DEF Answer

LEMMA AnswerToOne ==
    ASSUME TypeOK, NEW c \in Clients, NEW replies, Answer(c, replies, Crossed(c)),
           NEW d \in Clients, d # c
    PROVE  toClient'[d] = toClient[d] /\ Crossed(c) \subseteq faults'
  BY DEF Answer, TypeOK

\* What a server's step leaves of the clients it does not take anything from.
LEMMA BystandersInStep ==
    ASSUME TypeOK, NEW d \in Clients, InStep(d), UNCHANGED <<inputs, client>>,
           toServer'[d] = toServer[d], toClient'[d] = toClient[d],
           ~ Attended(d), ~ Attended(d)'
    PROVE  InStep(d)'
<1>1. UNCHANGED <<cPhase[d], pos[d], toServer[d], toClient[d]>>
  BY DEF client
<1> QED
  BY <1>1, SameInStep

LEMMA NameInStep ==
    ASSUME TypeOK, NEW c \in Clients, RecvName(c), UNCHANGED <<inputs, client>>,
           NEW d \in Clients, InStep(d), Undisturbed(d)'
    PROVE  InStep(d)'
<1>1. ~ Attended(d) /\ sPhase' = "blocks" /\ temp' = <<>>
  BY DEF RecvName, Attended
<1>2. /\ toServer[c] \in Seq(Message) /\ toServer[c] # <<>>
      /\ toServer'[c] = Tail(toServer[c]) /\ Taken(c) = toServer[c][1]
      /\ \A e \in Clients : e # c => toServer'[e] = toServer[e]
  BY TakeLeaves DEF RecvName
<1> DEFINE reply == IF Taken(c).type = "name" THEN "echo" ELSE Taken(c).type
<1>3. <<reply>> \in Seq(Reply)
  BY TakeTypes DEF RecvName, Reply
<1>4. Answer(c, <<reply>>, Crossed(c))
  BY DEF RecvName
<1>5. CASE d # c
  <2>1. served' # d
    BY <1>5, LegacyAssumption DEF RecvName
  <2>2. toClient'[d] = toClient[d]
    BY <1>4, <1>5, AnswerToOne
  <2> QED
    BY <1>1, <1>2, <1>5, <2>1, <2>2, BystandersInStep DEF Attended
<1>6. CASE d = c
  <2>1. /\ cPhase[c] = "echo" /\ pos[c] = 0
        /\ toServer[c] = <<[type |-> "name", bytes |-> <<Other>>]>> /\ toClient[c] = <<>>
    BY <1>1, <1>2, <1>6 DEF InStep
  <2>2. Taken(c).type = "name" /\ toServer'[c] = <<>>
    BY <1>2, <2>1
  <2>3. served' = c
    BY <2>2 DEF RecvName
  <2>4. toClient'[c] = <<"echo">>
    <3>1. toClient'[c] = <<>> \o <<reply>>
      BY <1>3, <1>4, <1>6, <2>1, AnswerInStep
    <3>2. reply = "echo"
      BY <2>2
    <3> QED
      BY <3>1, <3>2
  <2>5. cPhase'[c] = "echo" /\ pos'[c] = 0
    BY <2>1 DEF client
  <2> QED
    BY <1>1, <1>6, <2>2, <2>3, <2>4, <2>5 DEF InStep, Attended
<1> QED
  BY <1>5, <1>6

LEMMA BlockInStep ==
    ASSUME TypeOK, NEW c \in Clients, RecvBlock(c), UNCHANGED <<inputs, client>>,
           NEW d \in Clients, InStep(d), Undisturbed(d)'
    PROVE  InStep(d)'
<1>1. /\ sPhase \in {"blocks", "check"} /\ sPhase' = sPhase /\ served' = served
      /\ toClient' = toClient /\ Take(c) /\ Crossed(c) \subseteq faults'
      /\ Taken(c).type # "eof"
  BY DEF RecvBlock
<1>2. c = served
  <2>1. Tcp \/ faults' = {}
    BY DEF Undisturbed, Tcp, inputs
  <2> QED
    BY <1>1, <2>1, TakenFromServed
<1>3. /\ toServer[c] \in Seq(Message) /\ toServer[c] # <<>>
      /\ toServer'[c] = Tail(toServer[c]) /\ Taken(c) = toServer[c][1]
      /\ \A e \in Clients : e # c => toServer'[e] = toServer[e]
      /\ Len(toServer[c]) \in Nat \ {0}
  BY <1>1, TakeLeaves
<1>4. CASE d # c
  BY <1>1, <1>2, <1>3, <1>4, BystandersInStep DEF Attended
<1>5. CASE d = c
  <2>1. Attended(c) /\ Attended(c)'
    BY <1>1, <1>2 DEF Attended
  <2>2. cPhase' = cPhase /\ pos' = pos /\ toClient' = toClient
    BY <1>1 DEF client
  <2> DEFINE n == Len(toServer[c])
  <2>3. Len(toServer'[c]) = n - 1 /\ \A k \in 1 .. n - 1 : toServer'[c][k] = toServer[c][k + 1]
    BY <1>3
  <2>4. ASSUME AtEnd(c)
        PROVE  AtEnd(c)' /\ Before(c)' = Before(c) - 1 /\ Before(c) \in 1 .. n
    <3>1. toServer[c][n].type = "eof"
      BY <2>4 DEF AtEnd, Last
    <3>2. n # 1
      BY <1>1, <1>3, <3>1
    <3>3. n - 1 \in 1 .. n - 1 /\ (n - 1) + 1 = n
      <4>1. n \in Nat \ {0}
        BY <1>3
      <4> HIDE DEF n
      <4> QED
        BY <3>2, <4>1
    <3>4. toServer'[c][n - 1] = toServer[c][n] /\ toServer'[c] # <<>>
      BY <2>3, <3>3
    <3> QED
      BY <1>3, <2>3, <3>1, <3>2, <3>4 DEF AtEnd, Last, Before
  <2>5. ASSUME NEW m \in 1 .. n, Blocks(c, m), NEW l \in Nat, l = m - 1
        PROVE  Blocks(c, l)'
    <3>1. \A k \in 1 .. l : k + 1 \in 1 .. m /\ k \in 1 .. n - 1
      BY <1>3, <2>5
    <3> QED
      BY <2>3, <2>5, <3>1 DEF Blocks
  <2>6. CASE sPhase = "blocks"
    <3>1. temp' = temp \o (IF Tcp THEN Taken(c).bytes ELSE UpToNul(Taken(c).bytes))
      BY <2>6 DEF RecvBlock
    <3>2. CASE cPhase[c] = "send"
      <4>1. FirstPass(c, n) /\ toClient[c] = <<>>
        BY <1>5, <2>1, <2>6, <3>2 DEF InStep
      <4>2. n \in 1 .. Len(toServer[c]) /\ n - 1 \in Nat
        BY <1>3
      <4>3. \A m \in Nat : m = n - 1 => FirstPass(c, m)'
        BY <1>3, <3>1, <4>1, <4>2, PassReceives
      <4>4. FirstPass(c, Len(toServer[c]))'
        BY <2>3, <4>2, <4>3
      <4> QED
        BY <1>1, <1>5, <2>1, <2>2, <2>6, <3>2, <4>1, <4>4 DEF InStep
    <3>3. CASE cPhase[c] = "eof"
      <4>1. AtEnd(c) /\ FirstPass(c, Before(c)) /\ toClient[c] = <<>>
        BY <1>5, <2>1, <2>6, <3>3 DEF InStep
      <4>2. AtEnd(c)' /\ Before(c)' = Before(c) - 1 /\ Before(c) \in 1 .. Len(toServer[c])
        BY <2>4, <4>1
      <4>3. \A m \in Nat : m = Before(c) - 1 => FirstPass(c, m)'
        BY <1>3, <3>1, <4>1, <4>2, PassReceives
      <4>4. FirstPass(c, Before(c))'
        BY <4>2, <4>3
      <4> QED
        BY <1>1, <1>5, <2>1, <2>2, <2>6, <3>3, <4>1, <4>2, <4>4 DEF InStep
    <3>4. cPhase[c] \in {"send", "eof"}
      BY <1>3, <1>5, <2>1, <2>6 DEF InStep
    <3> QED
      BY <3>2, <3>3, <3>4
  <2>7. CASE sPhase = "check"
    <3>1. CASE cPhase[c] = "resend"
      <4>1. Blocks(c, n) /\ toClient[c] = <<>>
        BY <1>5, <2>1, <2>7, <3>1 DEF InStep
      <4>2. n \in 1 .. n /\ n - 1 \in Nat
        BY <1>3
      <4>3. Blocks(c, Len(toServer[c]))'
        BY <2>3, <2>5, <4>1, <4>2
      <4> QED
        BY <1>1, <1>5, <2>1, <2>2, <2>7, <3>1, <4>1, <4>3 DEF InStep
    <3>2. CASE cPhase[c] = "eof2"
      <4>1. AtEnd(c) /\ Blocks(c, Before(c)) /\ toClient[c] = <<>>
        BY <1>5, <2>1, <2>7, <3>2 DEF InStep
      <4>2. AtEnd(c)' /\ Before(c)' = Before(c) - 1 /\ Before(c) \in 1 .. n
        BY <2>4, <4>1
      <4>3. Blocks(c, Before(c))'
        BY <2>5, <4>1, <4>2
      <4> QED
        BY <1>1, <1>5, <2>1, <2>2, <2>7, <3>2, <4>1, <4>2, <4>3 DEF InStep
    <3>3. cPhase[c] \in {"resend", "eof2"}
      BY <1>3, <1>5, <2>1, <2>7 DEF InStep
    <3> QED
      BY <3>1, <3>2, <3>3
  <2> QED
    BY <1>1, <2>6, <2>7
<1> QED
  BY <1>4, <1>5

\* The end of the file comes when there is nothing before it, and only where a client
\* waits for it to be answered.
LEMMA EofInStep ==
    ASSUME TypeOK, NEW c \in Clients, InStep(c), Attended(c), Take(c), Taken(c).type = "eof"
    PROVE  /\ toServer'[c] = <<>> /\ toClient[c] = <<>>
           /\ IF sPhase = "blocks" THEN cPhase[c] = "eof" /\ FirstPass(c, 0)
                                   ELSE cPhase[c] = "eof2"
<1>1. /\ toServer[c] \in Seq(Message) /\ toServer[c] # <<>>
      /\ toServer'[c] = Tail(toServer[c]) /\ Taken(c) = toServer[c][1]
      /\ Len(toServer[c]) \in Nat \ {0}
  BY TakeLeaves
<1>2. \A n \in Nat : FirstPass(c, n) \/ Blocks(c, n) => n = 0
  <2>1. ASSUME NEW n \in Nat, FirstPass(c, n) \/ Blocks(c, n), n # 0
        PROVE  FALSE
    <3>1. 1 \in 1 .. n
      BY <2>1
    <3>2. toServer[c][1].type = "block"
      BY <2>1, <3>1 DEF FirstPass, Blocks
    <3> QED
      BY <1>1, <3>2
  <2> QED
    BY <2>1
<1>3. Before(c) \in Nat /\ (Before(c) = 0 => Tail(toServer[c]) = <<>>)
  <2>1. Before(c) = Len(toServer[c]) - 1
    BY DEF Before
  <2>2. Before(c) \in Nat
    BY <1>1, <2>1
  <2>3. Tail(toServer[c]) \in Seq(Message) /\ Len(Tail(toServer[c])) = Len(toServer[c]) - 1
    BY <1>1
  <2>4. ASSUME Before(c) = 0
        PROVE  Tail(toServer[c]) = <<>>
    <3> DEFINE t == Tail(toServer[c])
               n == Len(toServer[c])
    <3>1. n \in Nat /\ n - 1 = 0 /\ t \in Seq(Message) /\ Len(t) = n - 1
      BY <1>1, <2>1, <2>3, <2>4
    <3> HIDE DEF t, n
    <3>2. t = <<>>
      BY <3>1
    <3> QED
      BY <3>2 DEF t
  <2> QED
    BY <2>2, <2>4
<1>4. CASE sPhase = "blocks"
  <2>1. cPhase[c] # "send"
    BY <1>1, <1>2, <1>4 DEF InStep
  <2>2. cPhase[c] = "eof" /\ FirstPass(c, Before(c)) /\ toClient[c] = <<>>
    BY <1>1, <1>4, <2>1 DEF InStep
  <2>3. Before(c) = 0
    BY <1>2, <1>3, <2>2
  <2> QED
    BY <1>1, <1>3, <1>4, <2>2, <2>3
<1>5. CASE sPhase # "blocks"
  <2>1. cPhase[c] # "resend"
    BY <1>1, <1>2, <1>5 DEF InStep
  <2>2. cPhase[c] = "eof2" /\ Blocks(c, Before(c)) /\ toClient[c] = <<>>
    BY <1>1, <1>5, <2>1 DEF InStep
  <2>3. Before(c) = 0
    BY <1>2, <1>3, <2>2
  <2> QED
    BY <1>1, <1>3, <1>5, <2>2, <2>3
<1> QED
  BY <1>4, <1>5

LEMMA SaveInStep ==
    ASSUME TypeOK, NEW c \in Clients, SaveFile(c), UNCHANGED <<inputs, client>>,
           NEW d \in Clients, InStep(d), Undisturbed(d)'
    PROVE  InStep(d)'
<1>1. sPhase = "blocks" /\ served' = served /\ Take(c) /\ Taken(c).type = "eof"
  BY DEF SaveFile
<1>2. sPhase' = "reopen" /\ Answer(c, <<"eof">>, Crossed(c))
  <2>1. CASE sPhase' = "down" /\ faults' = faults \cup {"crash"}
    BY <2>1 DEF Undisturbed
  <2> QED
    BY <2>1 DEF SaveFile
<1>3. c = served
  <2>1. Tcp \/ faults' = {}
    BY DEF Undisturbed, Tcp, inputs
  <2>2. Crossed(c) \subseteq faults'
    BY <1>2 DEF Answer
  <2> QED
    BY <1>1, <2>1, <2>2, TakenFromServed
<1>4. \A e \in Clients : e # c => toServer'[e] = toServer[e]
  BY <1>1, TakeLeaves
<1>5. CASE d # c
  <2>1. toClient'[d] = toClient[d]
    BY <1>2, <1>5, AnswerToOne
  <2> QED
    BY <1>1, <1>3, <1>4, <1>5, <2>1, BystandersInStep DEF Attended
<1>6. CASE d = c
  <2>1. Attended(c) /\ Attended(c)'
    BY <1>1, <1>2, <1>3 DEF Attended
  <2>2. toServer'[c] = <<>> /\ toClient[c] = <<>> /\ cPhase[c] = "eof"
    BY <1>1, <1>6, <2>1, EofInStep
  <2>3. toClient'[c] = <<"eof">>
    <3>1. <<"eof">> \in Seq(Reply)
      BY DEF Reply
    <3>2. toClient'[c] = <<>> \o <<"eof">>
      BY <1>2, <1>6, <2>2, <3>1, AnswerInStep
    <3> QED
      BY <3>2
  <2>4. cPhase'[c] = "eof"
    BY <2>2 DEF client
  <2> QED
    BY <1>2, <1>6, <2>1, <2>2, <2>3, <2>4 DEF InStep
<1> QED
  BY <1>5, <1>6

LEMMA CheckInStep ==
    ASSUME TypeOK, NEW c \in Clients, EndCheck(c), UNCHANGED <<inputs, client>>,
           NEW d \in Clients, InStep(d), Undisturbed(d)'
    PROVE  InStep(d)'
<1>1. /\ sPhase = "check" /\ served' = served /\ Take(c) /\ Taken(c).type = "eof"
      /\ sPhase' = "name" /\ Answer(c, <<"eof", "100">>, Crossed(c))
  BY DEF EndCheck
<1>2. c = served
  <2>1. Tcp \/ faults' = {}
    BY DEF Undisturbed, Tcp, inputs
  <2>2. Crossed(c) \subseteq faults'
    BY <1>1 DEF Answer
  <2> QED
    BY <1>1, <2>1, <2>2, TakenFromServed
<1>3. \A e \in Clients : e # c => toServer'[e] = toServer[e]
  BY <1>1, TakeLeaves
<1>4. ~ Attended(d)'
  BY <1>1 DEF Attended
<1>5. CASE d # c
  <2>1. toClient'[d] = toClient[d]
    BY <1>1, <1>5, AnswerToOne
  <2> QED
    BY <1>2, <1>3, <1>4, <1>5, <2>1, BystandersInStep DEF Attended
<1>6. CASE d = c
  <2>1. Attended(c)
    BY <1>1, <1>2 DEF Attended
  <2>2. toServer'[c] = <<>> /\ toClient[c] = <<>> /\ cPhase[c] = "eof2"
    BY <1>1, <1>6, <2>1, EofInStep
  <2>3. toClient'[c] = <<"eof", "100">>
    <3>1. <<"eof", "100">> \in Seq(Reply)
      BY DEF Reply
    <3>2. toClient'[c] = <<>> \o <<"eof", "100">>
      BY <1>1, <1>6, <2>2, <3>1, AnswerInStep
    <3> QED
      BY <3>1, <3>2
  <2>4. cPhase'[c] = "eof2"
    BY <2>2 DEF client
  <2> QED
    BY <1>4, <1>6, <2>2, <2>3, <2>4 DEF InStep
<1> QED
  BY <1>5, <1>6

LEMMA StepSteps ==
    ASSUME TypeOK, Steps, Next
    PROVE  Steps'
<1> SUFFICES ASSUME NEW d \in Clients, Undisturbed(d)'
             PROVE  InStep(d)'
  BY DEF Steps
<1>1. Undisturbed(d) /\ InStep(d)
  BY DisturbedForEver DEF Steps
<1>2. ASSUME NEW c \in Clients,
             (Start(c) /\ UNCHANGED <<inputs, server>>) \/ ClientStep(c) \/ Kill(c)
      PROVE  InStep(d)'
  <2>1. CASE d = c
    BY <1>1, <1>2, <2>1, ClientInStep
  <2>2. CASE d # c
    BY <1>1, <1>2, <2>2, OthersInStep
  <2> QED
    BY <2>1, <2>2
<1>3. ASSUME NEW c \in Clients, UNCHANGED <<inputs, client>>,
             RecvName(c) \/ RecvBlock(c) \/ SaveFile(c) \/ EndCheck(c)
      PROVE  InStep(d)'
  BY <1>1, <1>3, NameInStep, BlockInStep, SaveInStep, CheckInStep
<1>4. ASSUME Reopen, UNCHANGED <<inputs, client>>
      PROVE  InStep(d)'
  <2>1. UNCHANGED <<cPhase[d], pos[d], toServer[d], toClient[d], temp, served>>
    BY <1>4 DEF Reopen, client
  <2>2. sPhase = "reopen" /\ sPhase' = "check"
    BY <1>4 DEF Reopen
  <2> QED
    BY <1>1, <1>4, <2>1, <2>2, SameInStep DEF Attended
<1>5. ASSUME RecvNothing, UNCHANGED <<inputs, client>>
      PROVE  InStep(d)'
  <2>1. UNCHANGED <<cPhase[d], pos[d], toServer[d], toClient[d], sPhase, served>>
    BY <1>5 DEF RecvNothing, client
  <2>2. ~ Attended(d)
    BY <1>1, <1>5 DEF RecvNothing, Abandoned, Undisturbed, Attended
  <2> QED
    BY <1>1, <1>5, <2>1, <2>2, SameInStep DEF Attended
<1>6. ASSUME Die, UNCHANGED <<inputs, client>>
      PROVE  InStep(d)'
  BY <1>6 DEF Die, Abandoned, Undisturbed, Tcp, inputs
<1> QED
  BY <1>2, <1>3, <1>4, <1>5, <1>6 DEF Next, ServerStep
-----------------------------------------------------------------------------
(* What is saved.                                                          *)

LEMMA KeptStays ==
    ASSUME NEW c \in Clients, Kept(c), UNCHANGED inputs, final'[c] = final[c]
    PROVE  Kept(c)'
  BY DEF Kept, inputs, Tcp

\* The file is saved whole when its end is taken from the client whose run it is.
LEMMA SaveKeeps ==
    ASSUME TypeOK, Steps, NEW c \in Clients, SaveFile(c), UNCHANGED <<inputs, client>>,
           Undisturbed(c), c = served, sPhase' = "reopen"
    PROVE  Kept(c)' /\ cPhase[c] = "eof"
<1>1. sPhase = "blocks" /\ Take(c) /\ Taken(c).type = "eof"
  BY DEF SaveFile
<1>2. InStep(c) /\ Attended(c)
  BY <1>1 DEF Steps, Attended
<1>3. cPhase[c] = "eof" /\ FirstPass(c, 0)
  BY <1>1, <1>2, EofInStep
<1>4. Good(c, temp, Len(text[c]))
  <2>1. PICK at \in [1 .. 0 + 1 -> 0 .. Len(text[c])] :
            at[0 + 1] = Len(text[c]) /\ Good(c, temp, at[1])
    BY <1>3 DEF FirstPass
  <2> QED
    BY <2>1
<1>5. final'[c] = Copied(temp, IF Tcp THEN SIZEBUF - 1 ELSE Datagram)
  BY LegacyAssumption DEF SaveFile, TypeOK
<1> QED
  BY <1>3, <1>4, <1>5, CopyIsKept

LEMMA StepConfirmations ==
    ASSUME TypeOK, Steps, Confirmations, Next
    PROVE  Confirmations'
<1> SUFFICES ASSUME Tcp, NEW d \in Clients
             PROVE  /\ cPhase'[d] \in {"idle", "send"} => toClient'[d] = <<>>
                    /\ cPhase'[d] = "echo" => toClient'[d] \in {<<>>, <<"echo">>}
                    /\ Confirmed(d)' => Kept(d)'
  <2>1. UNCHANGED inputs
    BY DisturbedForEver
  <2> QED
    BY <2>1 DEF Confirmations, inputs, Tcp
<1>1. UNCHANGED inputs
  BY DisturbedForEver
<1>2. /\ cPhase[d] \in {"idle", "send"} => toClient[d] = <<>>
      /\ cPhase[d] = "echo" => toClient[d] \in {<<>>, <<"echo">>}
      /\ Confirmed(d) => Kept(d)
  BY DEF Confirmations
<1>3. DOMAIN cPhase = Clients /\ DOMAIN toClient = Clients /\ DOMAIN final = Clients
  BY DEF TypeOK
\* A client goes on only with a confirmation.
<1>4. ASSUME NEW c \in Clients,
             (Start(c) /\ UNCHANGED <<inputs, server>>) \/ ClientStep(c) \/ Kill(c)
      PROVE  /\ cPhase'[d] \in {"idle", "send"} => toClient'[d] = <<>>
             /\ cPhase'[d] = "echo" => toClient'[d] \in {<<>>, <<"echo">>}
             /\ Confirmed(d)' => Confirmed(d)
             /\ final' = final
  <2>1. final' = final
    BY <1>4 DEF ClientStep, Kill, server
  <2>2. CASE d # c
    <3>1. cPhase'[d] = cPhase[d]
      BY <1>3, <1>4, <2>2 DEF ClientStep, Kill, Start, RecvEcho, SendBlock, SendEof, RecvEof,
         RecvVerdict, Fail, Goto
    <3>2. toClient'[d] = toClient[d]
      BY <1>3, <1>4, <2>2 DEF ClientStep, Kill, Start, RecvEcho, SendBlock, SendEof, RecvEof,
         RecvVerdict, Fail, Consume
    <3> QED
      BY <1>2, <2>1, <3>1, <3>2 DEF Confirmed
  <2>3. CASE d = c
    <3>1. CASE Start(c)
      BY <1>2, <1>3, <2>1, <2>3, <3>1 DEF Start, Goto, Confirmed
    <3>2. CASE RecvEcho(c)
      <4>1. toClient[c] = <<"echo">> /\ cPhase[c] = "echo"
        BY <1>2, <2>3, <3>2 DEF RecvEcho, Consume
      <4>2. toClient'[c] = <<>> /\ cPhase'[c] \in {"send", "failed"}
        BY <1>3, <3>2, <4>1 DEF RecvEcho, Consume, Goto
      <4> QED
        BY <2>1, <2>3, <4>2 DEF Confirmed
    <3>3. CASE SendBlock(c)
      BY <1>2, <2>1, <2>3, <3>3 DEF SendBlock, Confirmed
    <3>4. CASE SendEof(c)
      BY <1>2, <1>3, <2>1, <2>3, <3>4 DEF SendEof, Goto, Confirmed
    <3>5. CASE RecvEof(c)
      <4>1. cPhase[c] \in {"eof", "eof2"} /\ toClient[c] # <<>>
        BY <3>5 DEF RecvEof, Consume
      <4>2. cPhase'[c] \in {"failed", "resend", "verdict"}
        BY <1>3, <3>5 DEF RecvEof, Goto
      <4> QED
        BY <2>1, <2>3, <4>1, <4>2 DEF Confirmed
    <3>6. CASE RecvVerdict(c)
      BY <1>3, <2>1, <2>3, <3>6 DEF RecvVerdict, Goto, Confirmed
    <3>7. CASE Fail(c)
      BY <1>3, <2>1, <2>3, <3>7 DEF Fail, Goto, Confirmed
    <3>8. CASE Kill(c)
      BY <1>3, <2>1, <2>3, <3>8 DEF Kill, Goto, Confirmed
    <3> QED
      BY <1>4, <3>1, <3>2, <3>3, <3>4, <3>5, <3>6, <3>7, <3>8 DEF ClientStep
  <2> QED
    BY <2>2, <2>3
\* The server answers a client in step with it, or a dead one.
<1>5. ASSUME NEW c \in Clients, UNCHANGED <<inputs, client>>, RecvName(c)
      PROVE  /\ cPhase'[d] \in {"idle", "send"} => toClient'[d] = <<>>
             /\ cPhase'[d] = "echo" => toClient'[d] \in {<<>>, <<"echo">>}
             /\ Confirmed(d)' => Confirmed(d)
             /\ final' = final
  <2>1. cPhase' = cPhase /\ final' = final /\ sPhase = "name" /\ Take(c)
    BY <1>5 DEF RecvName, client
  <2> DEFINE reply == IF Taken(c).type = "name" THEN "echo" ELSE Taken(c).type
  <2>2. Answer(c, <<reply>>, Crossed(c)) /\ toServer[c] # <<>>
    BY <1>5, <2>1 DEF RecvName, Take
  <2>3. CASE d # c
    <3>1. toClient'[d] = toClient[d]
      BY <2>2, <2>3, AnswerToOne
    <3> QED
      BY <1>2, <2>1, <3>1 DEF Confirmed
  <2>4. CASE d = c /\ cPhase[c] = "killed"
    BY <2>1, <2>4 DEF Confirmed
  <2>5. CASE d = c /\ cPhase[c] # "killed"
    <3>1. InStep(c) /\ ~ Attended(c)
      BY <2>1, <2>5 DEF Steps, Undisturbed, Attended
    <3>2. /\ cPhase[c] = "echo" /\ toClient[c] = <<>>
          /\ toServer[c] = <<[type |-> "name", bytes |-> <<Other>>]>>
      BY <2>2, <3>1 DEF InStep
    <3>3. reply = "echo"
      BY <3>2 DEF Taken
    <3>4. toClient'[c] = <<>> \o <<"echo">>
      BY <1>3, <2>2, <3>2, <3>3 DEF Answer
    <3> QED
      BY <2>1, <2>5, <3>2, <3>4 DEF Confirmed
  <2> QED
    BY <2>3, <2>4, <2>5
<1>6. ASSUME NEW c \in Clients, UNCHANGED <<inputs, client>>, SaveFile(c)
      PROVE  /\ cPhase'[d] \in {"idle", "send"} => toClient'[d] = <<>>
             /\ cPhase'[d] = "echo" => toClient'[d] \in {<<>>, <<"echo">>}
             /\ Confirmed(d)' => Kept(d)'
  <2>1. cPhase' = cPhase /\ sPhase = "blocks" /\ Take(c)
    BY <1>6 DEF SaveFile, client
  <2>2. c = served
    BY <2>1 DEF Take
  <2>3. CASE toClient' = toClient /\ final' = final
    BY <1>1, <1>2, <2>1, <2>3, KeptStays DEF Confirmed
  <2>4. CASE sPhase' = "reopen" /\ Answer(c, <<"eof">>, Crossed(c))
    <3>1. CASE d # c
      <4>1. toClient'[d] = toClient[d]
        BY <2>4, <3>1, AnswerToOne
      <4>2. final'[d] = final[d]
        BY <1>3, <1>6, <2>2, <3>1 DEF SaveFile
      <4> QED
        BY <1>1, <1>2, <2>1, <4>1, <4>2, KeptStays DEF Confirmed
    <3>2. CASE d = c /\ cPhase[c] = "killed"
      BY <2>1, <3>2 DEF Confirmed
    <3>3. CASE d = c /\ cPhase[c] # "killed"
      <4>1. Undisturbed(c)
        BY <2>1, <3>3 DEF Undisturbed
      <4>2. Kept(c)' /\ cPhase[c] = "eof"
        BY <1>6, <2>2, <2>4, <4>1, SaveKeeps
      <4> QED
        BY <2>1, <3>3, <4>2
    <3> QED
      BY <3>1, <3>2, <3>3
  <2> QED
    BY <1>6, <2>3, <2>4 DEF SaveFile
<1>7. ASSUME NEW c \in Clients, UNCHANGED <<inputs, client>>, EndCheck(c)
      PROVE  /\ cPhase'[d] \in {"idle", "send"} => toClient'[d] = <<>>
             /\ cPhase'[d] = "echo" => toClient'[d] \in {<<>>, <<"echo">>}
             /\ Confirmed(d)' => Confirmed(d)
             /\ final' = final
  <2>1. /\ cPhase' = cPhase /\ final' = final /\ sPhase = "check" /\ Take(c)
        /\ Taken(c).type = "eof" /\ Answer(c, <<"eof", "100">>, Crossed(c))
    BY <1>7 DEF EndCheck, client
  <2>2. CASE d # c
    <3>1. toClient'[d] = toClient[d]
      BY <2>1, <2>2, AnswerToOne
    <3> QED
      BY <1>2, <2>1, <3>1 DEF Confirmed
  <2>3. CASE d = c /\ cPhase[c] = "killed"
    BY <2>1, <2>3 DEF Confirmed
  <2>4. CASE d = c /\ cPhase[c] # "killed"
    <3>1. InStep(c) /\ Attended(c)
      BY <2>1, <2>4 DEF Steps, Undisturbed, Attended, Take
    <3>2. cPhase[c] = "eof2"
      BY <2>1, <3>1, EofInStep
    <3> QED
      BY <2>1, <2>4, <3>2 DEF Confirmed
  <2> QED
    BY <2>2, <2>3, <2>4
<1>8. ASSUME UNCHANGED <<inputs, client>>,
             (\E c \in Clients : RecvBlock(c)) \/ Reopen \/ RecvNothing \/ Die
      PROVE  UNCHANGED <<cPhase, toClient, final>>
  BY <1>8 DEF RecvBlock, Reopen, RecvNothing, Die, client
<1> QED
  <2>1. CASE UNCHANGED <<cPhase, toClient, final>>
    BY <1>1, <1>2, <2>1, KeptStays DEF Confirmed
  <2>2. ASSUME NEW c \in Clients,
               (Start(c) /\ UNCHANGED <<inputs, server>>) \/ ClientStep(c) \/ Kill(c)
        PROVE  /\ cPhase'[d] \in {"idle", "send"} => toClient'[d] = <<>>
               /\ cPhase'[d] = "echo" => toClient'[d] \in {<<>>, <<"echo">>}
               /\ Confirmed(d)' => Kept(d)'
    BY <1>1, <1>2, <1>4, <2>2, KeptStays
  <2>3. ASSUME NEW c \in Clients, UNCHANGED <<inputs, client>>, RecvName(c) \/ EndCheck(c)
        PROVE  /\ cPhase'[d] \in {"idle", "send"} => toClient'[d] = <<>>
               /\ cPhase'[d] = "echo" => toClient'[d] \in {<<>>, <<"echo">>}
               /\ Confirmed(d)' => Kept(d)'
    BY <1>1, <1>2, <1>5, <1>7, <2>3, KeptStays
  <2> QED
    BY <1>6, <1>8, <2>1, <2>2, <2>3 DEF Next, ServerStep

LEMMA StepReopened ==
    ASSUME TypeOK, Steps, Reopened, Next
    PROVE  Reopened'
<1> SUFFICES ASSUME ~ Tcp, faults' = {}, sPhase' = "reopen", served' # "nobody"
             PROVE  Kept(served)'
  <2>1. UNCHANGED inputs
    BY DisturbedForEver
  <2> QED
    BY <2>1 DEF Reopened, inputs, Tcp
<1>1. UNCHANGED inputs /\ \A c \in Clients : Undisturbed(c)
  <2>1. UNCHANGED inputs /\ \A c \in Clients : Undisturbed(c)' => Undisturbed(c)
    BY DisturbedForEver
  <2>2. \A c \in Clients : Undisturbed(c)'
    BY <2>1 DEF Undisturbed, inputs, Tcp
  <2> QED
    BY <2>1, <2>2
<1>2. ASSUME NEW c \in Clients, SaveFile(c), UNCHANGED <<inputs, client>>
      PROVE  Kept(served)'
  <2>1. sPhase = "blocks" /\ served' = served /\ Take(c) /\ Crossed(c) \subseteq faults'
    BY <1>2 DEF SaveFile, Answer
  <2>2. c = served
    BY <2>1, TakenFromServed
  <2>3. Kept(c)'
    BY <1>1, <1>2, <2>2, SaveKeeps
  <2> QED
    BY <2>1, <2>2, <2>3
<1>3. CASE UNCHANGED <<sPhase, served, final>>
  <2>1. served \in Clients /\ faults = {}
    <3>1. served \in Clients
      BY <1>3 DEF TypeOK
    <3> QED
      BY <1>1, <3>1 DEF Undisturbed
  <2>2. Kept(served)
    BY <1>3, <2>1 DEF Reopened
  <2>3. \A c \in Clients : Kept(c) => Kept(c)'
    BY <1>1, <1>3, KeptStays
  <2> QED
    BY <1>3, <2>1, <2>2, <2>3
<1>4. \/ UNCHANGED <<sPhase, served, final>>
      \/ \E c \in Clients : SaveFile(c) /\ UNCHANGED <<inputs, client>>
  BY DEF Next, ClientStep, Kill, ServerStep, RecvName, RecvBlock, EndCheck, Reopen, RecvNothing, Die,
     server
<1> QED
  BY <1>2, <1>3, <1>4

LEMMA InitCopyInv == Init => CopyInv
<1> SUFFICES ASSUME Init
             PROVE  CopyInv
  OBVIOUS
<1>1. TypeOK
  BY InitTypes
<1>2. Steps
  BY DEF Init, Steps, InStep, Attended
<1>3. Confirmations
  BY DEF Init, Confirmations, Confirmed
<1>4. Reopened
  BY DEF Init, Reopened
<1> QED
  BY <1>1, <1>2, <1>3, <1>4 DEF CopyInv

LEMMA SameCopyInv == CopyInv /\ UNCHANGED vars => CopyInv'
<1> SUFFICES ASSUME CopyInv, UNCHANGED vars
             PROVE  CopyInv'
  OBVIOUS
<1>1. TypeOK'
  BY StepTypes DEF CopyInv
<1>2. UNCHANGED <<inputs, client, server, toServer, toClient, faults>>
  BY DEF vars
<1>3. Steps'
  <2> SUFFICES ASSUME NEW c \in Clients, Undisturbed(c)'
               PROVE  InStep(c)'
    BY DEF Steps
  <2>1. Undisturbed(c)
    BY <1>2 DEF Undisturbed, Tcp, inputs, client, server
  <2>2. InStep(c)
    BY <2>1 DEF CopyInv, Steps
  <2>3. /\ UNCHANGED <<cPhase[c], pos[c], toServer[c], toClient[c], sPhase, temp>>
        /\ Attended(c)' <=> Attended(c)
    BY <1>2 DEF client, server, Attended
  <2> QED
    BY <1>2, <2>2, <2>3, SameInStep DEF CopyInv
<1>4. \A c \in Clients : Kept(c) => Kept(c)'
  BY <1>2, KeptStays DEF server
<1>5. Confirmations'
  BY <1>2, <1>4 DEF CopyInv, Confirmations, Confirmed, Tcp, inputs, client
<1>6. Reopened'
  <2> SUFFICES ASSUME ~ Tcp, faults = {}, sPhase = "reopen", served # "nobody"
               PROVE  Kept(served)'
    BY <1>2 DEF Reopened, Tcp, inputs, server
  <2>1. Kept(served) /\ served \in Clients
    BY DEF CopyInv, Reopened, TypeOK
  <2> QED
    BY <1>2, <1>4, <2>1 DEF server
<1> QED
  BY <1>1, <1>3, <1>5, <1>6 DEF CopyInv

\* Client and server are in step as long as nothing disturbs the run, so that what is
\* saved when the end of the file is taken is the file, for every number of runs, every
\* file, block and buffer.
THEOREM RunsAreInStep == Spec => []CopyInv
<1>1. Init => CopyInv
  BY InitCopyInv
<1>2. CopyInv /\ [Next]_vars => CopyInv'
  <2>1. CASE Next
    BY <2>1, StepTypes, StepSteps, StepConfirmations, StepReopened DEF CopyInv
  <2>2. CASE UNCHANGED vars
    BY <2>2, SameCopyInv
  <2> QED
    BY <2>1, <2>2
<1> QED
  BY <1>1, <1>2, PTL DEF Spec

\* The copy keeps all that is before the first NUL, and all of a file without one if
\* over TCP it fills its last block: over TCP from the confirmation on, whatever happens
\* to others, over UDP until the server opens it again (TCP_server.c:116-119,
\* UDP_server.c:111-112).
THEOREM SavedIsKept == Spec => []CopyKept
<1>1. CopyInv => CopyKept
  BY DEF CopyInv, Confirmations, Confirmed, Reopened, CopyKept
<1> QED
  BY <1>1, RunsAreInStep, PTL
=============================================================================
