----------------------------- MODULE ScanProofs -----------------------------
(***************************************************************************)
(* What the client does with its tree, for every tree, every order of       *)
(* readdir and every number of descriptors: the array of the scan never     *)
(* overflows, whatever capacity of two or more entries it starts with; it   *)
(* lists the tree once and in order when a transport is named; the counts   *)
(* that are sent after the transfer are those of the tree; and the total    *)
(* that names the transport is at most a factor of two for each nested      *)
(* directory above the sum of the lengths, and never below it.              *)
(***************************************************************************)
EXTENDS ScanInvariant, FiniteSetTheorems, WellFoundedInduction, TLAPS

\* A free entry at the end; two of them while a nested call is about to write
\* an entry that it does not check for.
Room ==
    /\ idx \in Nat
    /\ files_size \in Nat
    /\ files_size >= 2
    /\ idx < files_size
    /\ calling # NoPath => idx + 1 < files_size

\* The check at the top of the loop leaves room for one entry more than Room asks.
LEMMA GrowMakesRoom ==
    ASSUME Room, Grow
    PROVE  /\ files_size' \in Nat
           /\ files_size' >= files_size
           /\ idx + 2 < files_size'
  BY DEF Room, Grow

\* The initial states have room: SIZEBUF is at least two.
LEMMA InitRoom == Init => Room
  BY SizeAssumption DEF Init, Room

\* Every step keeps the room, and writes inside the array.
LEMMA StepRoom ==
    ASSUME Room, [Scanning]_vars
    PROVE  Room' /\ (idx' > idx => idx < files_size)
<1>1. CASE EnterDirectory
  BY <1>1 DEF EnterDirectory, Write, Room
<1>2. CASE EnterOther
  BY <1>2 DEF EnterOther, Write, Room
<1>3. ASSUME NEW name, ReadName(name)
      PROVE  /\ files_size' \in Nat
             /\ files_size' >= files_size
             /\ idx + 2 < files_size'
  BY <1>3, GrowMakesRoom DEF ReadName
<1>4. ASSUME NEW name, ReadDot(name)
      PROVE  Room' /\ (idx' > idx => idx < files_size)
  BY <1>3, <1>4 DEF ReadDot, Room
<1>5. ASSUME NEW name, ReadDirectory(name)
      PROVE  Room' /\ (idx' > idx => idx < files_size)
  <2>1. ReadName(name) /\ idx' = idx
    BY <1>5 DEF ReadDirectory, ReadName
  <2> QED
    BY <1>3, <2>1 DEF Room
<1>6. ASSUME NEW name, ReadFile(name)
      PROVE  Room' /\ (idx' > idx => idx < files_size)
  <2>1. ReadName(name) /\ calling = NoPath /\ calling' = calling /\ idx' = idx + 1
    BY <1>6 DEF ReadFile, ReadName, Write
  <2> QED
    BY <1>3, <2>1 DEF Room
<1>7. ASSUME NEW name, ReadSpecial(name)
      PROVE  Room' /\ (idx' > idx => idx < files_size)
  <2>1. ReadName(name) /\ calling = NoPath /\ calling' = calling /\ idx' = idx
    BY <1>7 DEF ReadSpecial, ReadName
  <2> QED
    BY <1>3, <2>1 DEF Room
<1>8. ASSUME NEW name, ReadDangling(name)
      PROVE  Room' /\ (idx' > idx => idx < files_size)
  <2>1. ReadName(name) /\ calling = NoPath /\ calling' = calling /\ idx' = idx
    BY <1>8 DEF ReadDangling, ReadName
  <2> QED
    BY <1>3, <2>1 DEF Room
<1>9. CASE LeaveDirectory
  BY <1>9 DEF LeaveDirectory, Room
<1>10. CASE UNCHANGED vars
  BY <1>10 DEF vars, array, Room
<1> QED
  BY <1>1, <1>2, <1>4, <1>5, <1>6, <1>7, <1>8, <1>9, <1>10
  DEF Scanning

\* What the client does after the scan leaves the array as it is.
LEMMA MeasuringKeepsRoom ==
    ASSUME Room, MeasureExit \/ Measure \/ CountDir
    PROVE  Room' /\ idx' = idx
  BY DEF MeasureExit, Measure, CountDir, array, Room

\* Every step of the client keeps the room, and writes inside the array.
LEMMA RoomStays ==
    ASSUME Room, [Next]_sizeVars
    PROVE  Room' /\ (idx' > idx => idx < files_size)
<1>1. CASE ScanStep
  BY <1>1, StepRoom DEF ScanStep
<1>2. CASE MeasureExit \/ Measure \/ CountDir
  BY <1>2, MeasuringKeepsRoom DEF Room
<1>3. CASE UNCHANGED sizeVars
  BY <1>3, StepRoom DEF sizeVars
<1> QED
  BY <1>1, <1>2, <1>3 DEF Next

\* client_function.c:69 keeps every write of the scan inside the array, for
\* every tree, every initial capacity and every number of descriptors.
THEOREM NoOverflow == SizeSpec => WritesInBounds
<1>1. SizeInit => Room
  BY InitRoom DEF SizeInit
<1>2. Room /\ [Next]_sizeVars => Room'
  BY RoomStays
<1>3. Room /\ [Next]_sizeVars => [idx' > idx => idx < files_size]_<<idx, files_size>>
  BY RoomStays
<1> QED
  BY <1>1, <1>2, <1>3, PTL DEF SizeSpec, WritesInBounds
-----------------------------------------------------------------------------
(* The counts.                                                             *)

\* A set of paths that is not empty has a least element.
LEMMA LeastPath ==
    ASSUME NEW S \in SUBSET Nat, S # {}
    PROVE  \E p \in S : \A q \in S : ~ (q < p)
<1> DEFINE Less == OpToRel(<, Nat)
<1>1. IsWellFoundedOn(Less, Nat)
  BY NatLessThanWellFounded
<1>2. \A m, n \in Nat : <<m, n>> \in Less <=> m < n
  BY DEF OpToRel
<1> HIDE DEF Less
<1>3. \E n \in S : \A m \in S : ~ (<<m, n>> \in Less)
  BY <1>1, WFMin
<1> QED
  BY <1>2, <1>3

\* What TreeAssumption says of the tree that was chosen.
LEMMA ChosenTree ==
    ASSUME Type \in Types
    PROVE  /\ Paths \subseteq Nat /\ IsFiniteSet(Paths)
           /\ Root \in Paths
           /\ NoPath \notin Paths
           /\ \A p \in Paths \ {Root} :
                /\ Parent[p] \in Paths
                /\ Parent[p] < p
                /\ Type[Parent[p]] \in Readable
  BY TreeAssumption DEF NoPath

LEMMA DirectoriesArePaths ==
    ASSUME Type \in Types
    PROVE  /\ Directories \subseteq Paths
           /\ IsFiniteSet(Directories)
           /\ Cardinality(Directories) \in Nat
<1>1. Directories \subseteq Paths
  BY DEF Directories
<1>2. IsFiniteSet(Directories)
  BY <1>1, ChosenTree, FS_Subset
<1> QED
  BY <1>1, <1>2, FS_CardinalityType

\* One path more.
LEMMA OneMore ==
    ASSUME NEW S \in SUBSET Paths, NEW x \in Paths, IsFiniteSet(Paths)
    PROVE  /\ Cardinality(S) \in Nat
           /\ x \notin S => Cardinality(S \cup {x}) = Cardinality(S) + 1
<1>1. IsFiniteSet(S)
  BY FS_Subset
<1> QED
  BY <1>1, FS_AddElement, FS_CardinalityType

\* The names of a listing that are paths are those of its directory's entries.
LEMMA ListingNames ==
    ASSUME Type \in Types
    PROVE  /\ \A p \in Paths : NameOf(p).path = p /\ NameOf(p).dot = "" /\ NameOf(p) \in Name
           /\ \A d \in Dots : DotName(d).path = NoPath /\ DotName(d).dot = d /\ DotName(d) \in Name
           /\ "" \notin Dots
           /\ \A q \in Paths : \A name \in Listing(q) :
                /\ name \in Name
                /\ name.dot = "" =>
                    /\ name.path \in Paths \ {Root}
                    /\ Parent[name.path] = q
                    /\ name = NameOf(name.path)
                /\ name.dot # "" => name.path = NoPath
           /\ \A p \in Paths \ {Root} : NameOf(p) \in Listing(Parent[p])
<1>1. "" \notin Dots
  BY DEF Dots
<1>2. /\ \A p \in Paths : NameOf(p).path = p /\ NameOf(p).dot = "" /\ NameOf(p) \in Name
      /\ \A d \in Dots : DotName(d).path = NoPath /\ DotName(d).dot = d /\ DotName(d) \in Name
  BY DEF NameOf, DotName, Name
<1>3. ASSUME NEW q \in Paths, NEW name \in Listing(q)
      PROVE  \/ \E d \in Dots : name = DotName(d)
             \/ \E p \in Paths \ {Root} : name = NameOf(p) /\ Parent[p] = q
  BY <1>3 DEF Listing, Children
<1>4. \A p \in Paths \ {Root} : NameOf(p) \in Listing(Parent[p])
  BY DEF Listing, Children
<1>5. ASSUME NEW q \in Paths, NEW name \in Listing(q)
      PROVE  /\ name \in Name
             /\ name.dot = "" =>
                    /\ name.path \in Paths \ {Root}
                    /\ Parent[name.path] = q
                    /\ name = NameOf(name.path)
             /\ name.dot # "" => name.path = NoPath
  <2>1. CASE \E d \in Dots : name = DotName(d)
    BY <1>1, <1>2, <2>1
  <2>2. CASE \E p \in Paths \ {Root} : name = NameOf(p) /\ Parent[p] = q
    <3>1. PICK p \in Paths \ {Root} : name = NameOf(p) /\ Parent[p] = q
      BY <2>2
    <3>2. name.path = p /\ name.dot = "" /\ name \in Name
      BY <1>2, <3>1
    <3> QED
      BY <3>1, <3>2
  <2> QED
    BY <1>3, <2>1, <2>2
<1> QED
  BY <1>1, <1>2, <1>4, <1>5
-----------------------------------------------------------------------------
LEMMA InitAccounts == SizeInit => Accounted
<1> SUFFICES ASSUME SizeInit PROVE Accounted
  OBVIOUS
<1>1. /\ Type \in Types /\ fd_free \in Nat /\ done = "no"
      /\ stack = <<>> /\ calling = Root /\ fileCount = 1 /\ count_Dir = 0
      /\ file_info = <<>> /\ idx = 0
  BY DescriptorsAssumption DEF SizeInit, Init
<1>2. Frames = {} /\ Open = {}
  BY <1>1 DEF Frames, Open
<1>3. Root # NoPath /\ Root \in Paths
  BY <1>1, ChosenTree
<1>4. Calls
  BY <1>1, <1>2 DEF Calls
<1>5. Cardinality({Root}) = 1 /\ Cardinality({}) = 0
  BY FS_Singleton, FS_EmptySet
<1>6. Returned({Root}) = {}
  BY DEF Returned
<1>7. Accounts({Root})
  <2>1. ASSUME NEW p \in Paths \ {Root}
        PROVE  Parent[p] \notin {Root} \/ Parent[p] = calling
    BY <1>1
  <2> QED
    BY <1>1, <1>2, <1>5, <1>6, <2>1 DEF Accounts
<1>8. Lists({Root})
  <2>1. 1 .. idx = {} /\ file_info \in Seq(Entry) /\ idx = Len(file_info)
    BY <1>1
  <2>2. Type[Root] # "dangling"
    BY <1>1, TreeAssumption
  <2> QED
    BY <1>1, <2>1, <2>2 DEF Lists
<1>9. Ordered
  BY <1>1, <1>3 DEF Ordered
<1> QED
  BY <1>1, <1>3, <1>4, <1>7, <1>8, <1>9 DEF Accounted, CountsRight, ArrayComplete
-----------------------------------------------------------------------------
\* A nested call begins: what is in its directory is now owed by it.
LEMMA EnterDirectoryAccounts ==
    ASSUME Type \in Types, fd_free \in Int, Calls, done = "no", EnterDirectory,
           NEW seen \in SUBSET Paths, Accounts(seen)
    PROVE  Calls' /\ Accounts(seen)'
<1> DEFINE n == Len(stack)
           frame == [dir |-> calling, todo |-> Listing(calling)]
<1>1. /\ calling # NoPath /\ Type[calling] \in Readable
      /\ stack' = Append(stack, frame)
      /\ calling' = NoPath /\ fd_free' = fd_free - 1
      /\ Type' = Type /\ done' = done /\ fileCount' = fileCount /\ count_Dir' = count_Dir
  BY DEF EnterDirectory, counters
<1>2. /\ calling \in Paths /\ calling \in Directories /\ calling \in seen
      /\ Directories' = Directories
      /\ Cardinality(Directories) \in Nat
  <2>1. calling \in seen
    BY <1>1 DEF Accounts
  <2> QED
    BY <1>1, <2>1, DirectoriesArePaths DEF Directories
<1>3. frame \in [dir : Paths, todo : SUBSET Name] /\ frame.dir = calling
      /\ frame.todo = Listing(calling)
  BY <1>2, ListingNames
<1>4. stack \in Seq([dir : Paths, todo : SUBSET Name]) /\ n \in Nat
  BY DEF Calls
<1> HIDE DEF frame
<1>5. /\ stack' \in Seq([dir : Paths, todo : SUBSET Name])
      /\ Len(stack') = n + 1
      /\ stack'[n + 1] = frame
      /\ \A j \in 1 .. n : stack'[j] = stack[j]
      /\ stack' # <<>>
  BY <1>1, <1>3, <1>4
<1>6. Frames = 1 .. n /\ Frames' = 1 .. n + 1 /\ n + 1 \notin Frames
      /\ Frames' = Frames \cup {n + 1}
      /\ (stack = <<>> <=> n = 0)
  BY <1>4, <1>5 DEF Frames
<1> HIDE DEF n
<1>7. Open' = Open \cup {calling}
  BY <1>3, <1>5, <1>6 DEF Open
<1>8. NoPath \notin Paths /\ Open \subseteq Paths /\ calling \notin Open
  <2>1. \A j \in Frames : stack[j].dir \in Paths
    BY <1>6, DirectoriesArePaths DEF Calls
  <2> QED
    BY <2>1, ChosenTree DEF Open, Calls
<1>9. Calls'
  <2>1. calling = Root <=> n = 0
    BY <1>1, <1>6, ChosenTree DEF Calls
  <2>2. ASSUME NEW j \in Frames'
        PROVE  /\ stack'[j].dir \in Directories
               /\ stack'[j].todo \subseteq Listing(stack'[j].dir)
               /\ stack'[j].dir = Root <=> j = 1
    <3>1. CASE j \in Frames
      BY <1>5, <1>6, <3>1 DEF Calls
    <3>2. CASE j = n + 1
      BY <1>2, <1>3, <1>4, <1>5, <2>1, <3>2
    <3> QED
      BY <1>6, <3>1, <3>2
  <2>3. ASSUME NEW j \in Frames', NEW k \in Frames', stack'[j].dir = stack'[k].dir
        PROVE  j = k
    <3>1. \A i \in Frames : stack'[i].dir = stack[i].dir /\ stack[i].dir \in Open
      BY <1>5, <1>6 DEF Open
    <3> QED
      BY <1>3, <1>5, <1>6, <1>8, <2>3, <3>1 DEF Calls
  <2>4. calling' \notin Open' /\ calling' \in (Directories \ {Root}) \cup {NoPath}
    BY <1>1, <1>2, <1>7, <1>8
  <2>5. Listing(Root)' = Listing(Root) /\ done' = "no"
    BY <1>1
  <2> QED
    BY <1>2, <1>5, <2>2, <2>3, <2>4, <2>5 DEF Calls
<1>10. Accounts(seen)'
  <2>1. \A p \in seen \ {Root} : Parent[p] \in seen /\ Parent[p] # calling'
    BY <1>1, <1>8 DEF Accounts
  <2>2. \A p \in Open' \cup {calling'} : p # NoPath => p \in seen
    BY <1>1, <1>2, <1>7 DEF Accounts
  <2>3. ASSUME NEW j \in Frames', NEW name \in stack'[j].todo
        PROVE  name.path \notin seen
    <3>1. CASE j \in Frames
      BY <1>5, <1>6, <2>3, <3>1 DEF Accounts
    <3>2. CASE j = n + 1
      <4>1. name \in Listing(calling)
        BY <1>3, <1>5, <2>3, <3>2
      <4>2. CASE name.dot = ""
        <5>1. name.path \in Paths \ {Root} /\ Parent[name.path] = calling
          BY <1>2, <4>1, <4>2, ListingNames
        <5> QED
          BY <5>1 DEF Accounts
      <4>3. CASE name.dot # ""
        <5>1. name.path = NoPath
          BY <1>2, <4>1, <4>3, ListingNames
        <5> QED
          BY <1>8, <5>1
      <4> QED
        BY <4>2, <4>3
    <3> QED
      BY <1>6, <3>1, <3>2
  <2>4. ASSUME NEW p \in Paths \ seen, Parent[p] \in seen
        PROVE  \/ \E j \in Frames' : stack'[j].dir = Parent[p] /\ NameOf(p) \in stack'[j].todo
               \/ fd_free' < Cardinality(Directories)
    <3>1. CASE Parent[p] = calling
      <4>1. p \in Paths \ {Root}
        BY DEF Accounts
      <4>2. NameOf(p) \in Listing(calling)
        BY <3>1, <4>1, ListingNames
      <4> QED
        BY <1>3, <1>5, <1>6, <3>1, <4>2
    <3>2. CASE \E j \in Frames : stack[j].dir = Parent[p] /\ NameOf(p) \in stack[j].todo
      BY <1>5, <1>6, <3>2
    <3>3. CASE fd_free < Cardinality(Directories)
      BY <1>1, <1>2, <3>3
    <3> QED
      BY <2>4, <3>1, <3>2, <3>3 DEF Accounts
  <2>5. Returned(seen)' = Returned(seen)
    BY <1>1, <1>2, <1>7, <1>8 DEF Returned
  <2> QED
    BY <1>1, <1>2, <2>1, <2>2, <2>3, <2>4, <2>5 DEF Accounts
<1> QED
  BY <1>9, <1>10

\* The directories of the open calls, and the top of the stack.
LEMMA OpenFacts ==
    ASSUME Type \in Types, Calls
    PROVE  /\ Len(stack) \in Nat
           /\ stack # <<>> <=> Len(stack) \in Frames
           /\ stack = <<>> <=> Frames = {}
           /\ Open \subseteq Directories
           /\ \A j \in Frames : stack[j].dir \in Open /\ stack[j].dir \in Paths
           /\ Open \subseteq Paths
           /\ NoPath \notin Paths
<1>1. stack \in Seq([dir : Paths, todo : SUBSET Name])
  BY DEF Calls
<1>2. Len(stack) \in Nat /\ (stack = <<>> <=> Len(stack) = 0)
  BY <1>1
<1>3. \A j \in Frames : stack[j].dir \in Directories
  BY DEF Calls
<1> QED
  BY <1>2, <1>3, ChosenTree, DirectoriesArePaths DEF Frames, Open

\* A call that could not open its argument returns.
LEMMA EnterOtherAccounts ==
    ASSUME Type \in Types, fd_free \in Int, Calls, done = "no", EnterOther,
           NEW seen \in SUBSET Paths, Accounts(seen)
    PROVE  Calls' /\ Accounts(seen)'
<1>1. /\ calling # NoPath /\ calling' = NoPath
      /\ stack' = stack /\ Type' = Type /\ fd_free' = fd_free /\ fileCount' = fileCount
      /\ IF stack = <<>> THEN done' = "scanned" /\ count_Dir' = count_Dir
                         ELSE done' = done /\ count_Dir' = count_Dir + 1
      /\ Type[calling] \notin Readable \/ fd_free = 0
  BY DEF EnterOther, Return
<1>2. /\ Frames' = Frames /\ Open' = Open /\ Directories' = Directories
      /\ \A p : Listing(p)' = Listing(p)
  BY <1>1 DEF Frames, Open, Directories, Listing, Children
<1>3. calling \in seen /\ calling \notin Open /\ calling \in Paths
  BY <1>1 DEF Accounts, Calls
<1>4. Calls'
  BY <1>1, <1>2, OpenFacts DEF Calls
<1>5. ASSUME NEW p \in Paths \ seen, Parent[p] = calling
      PROVE  fd_free < Cardinality(Directories)
  <2>1. Type[calling] \in Readable
    BY <1>5, ChosenTree DEF Accounts
  <2>2. calling \in Directories /\ fd_free = 0
    BY <1>1, <1>3, <2>1 DEF Directories
  <2>3. Cardinality(Directories) # 0
    BY <2>2, DirectoriesArePaths, FS_EmptySet
  <2> QED
    BY <2>2, <2>3, DirectoriesArePaths
<1>6. Returned(seen)' = IF stack = <<>> THEN Returned(seen) ELSE Returned(seen) \cup {calling}
  <2>1. Returned(seen)' = {p \in seen : p \in Directories /\ p \notin Open \cup {NoPath, Root}}
    BY <1>1, <1>2 DEF Returned
  <2>2. CASE stack = <<>>
    <3>1. calling = Root
      BY <1>1, <2>2 DEF Calls
    <3> QED
      BY <2>1, <2>2, <3>1, OpenFacts DEF Returned
  <2>3. CASE stack # <<>>
    <3>1. calling \in Directories /\ calling # Root
      BY <1>1, <2>3 DEF Calls
    <3> QED
      BY <1>3, <2>1, <2>3, <3>1, OpenFacts DEF Returned
  <2> QED
    BY <2>2, <2>3
<1>7. Returned(seen) \in SUBSET Paths /\ calling \notin Returned(seen)
  BY DEF Returned
<1>8. Cardinality(Returned(seen)') = count_Dir'
  BY <1>1, <1>3, <1>6, <1>7, OneMore, ChosenTree DEF Accounts
<1>9. \A p \in seen \ {Root} : Parent[p] \in seen /\ Parent[p] # calling'
  BY <1>1, OpenFacts DEF Accounts
<1>10. \A p \in Open' \cup {calling'} : p # NoPath => p \in seen
  BY <1>1, <1>2 DEF Accounts
<1>11. ASSUME NEW p \in Paths \ seen, Parent[p] \in seen
       PROVE  \/ \E j \in Frames : stack[j].dir = Parent[p] /\ NameOf(p) \in stack[j].todo
              \/ fd_free < Cardinality(Directories)
  BY <1>5, <1>11 DEF Accounts
<1>12. Accounts(seen)'
  BY <1>1, <1>2, <1>8, <1>9, <1>10, <1>11 DEF Accounts
<1> QED
  BY <1>4, <1>12

\* What one name less of the innermost directory changes.
LEMMA ReadNameFrames ==
    ASSUME Type \in Types, Calls, NEW name, ReadName(name)
    PROVE  LET n == Len(stack)
           IN  /\ n \in Frames /\ name \in stack[n].todo /\ calling = NoPath /\ stack' # <<>>
               /\ Frames' = Frames /\ Open' = Open
               /\ stack' \in Seq([dir : Paths, todo : SUBSET Name])
               /\ \A j \in Frames : stack'[j].dir = stack[j].dir
               /\ \A j \in Frames : j # n => stack'[j].todo = stack[j].todo
               /\ stack'[n].todo = stack[n].todo \ {name}
               /\ Type' = Type /\ Directories' = Directories
               /\ fd_free' = fd_free /\ count_Dir' = count_Dir
<1> DEFINE n == Len(stack)
           Frame == [dir : Paths, todo : SUBSET Name]
<1>1. /\ stack # <<>> /\ name \in stack[n].todo /\ calling = NoPath
      /\ stack' = [stack EXCEPT ![n].todo = @ \ {name}]
      /\ Type' = Type /\ fd_free' = fd_free /\ count_Dir' = count_Dir
  BY DEF ReadName, Top
<1>2. stack \in Seq(Frame) /\ n \in Nat /\ n \in Frames
  BY <1>1, OpenFacts DEF Calls
<1>3. stack[n] \in Frame
  <2> HIDE DEF Frame, n
  <2>1. n \in 1 .. Len(stack)
    BY <1>2 DEF Frames
  <2> QED
    BY <1>2, <2>1
<1> DEFINE top == [stack[n] EXCEPT !.todo = @ \ {name}]
<1>4. top \in Frame /\ top.dir = stack[n].dir /\ top.todo = stack[n].todo \ {name}
  BY <1>3
<1>5. stack' = [stack EXCEPT ![n] = top]
  BY <1>1
<1> HIDE DEF top
<1>6. /\ stack' \in Seq(Frame) /\ Len(stack') = n
      /\ stack'[n] = top
      /\ \A j \in Frames : j # n => stack'[j] = stack[j]
  BY <1>2, <1>4, <1>5 DEF Frames
<1>7. Frames' = Frames /\ stack' # <<>>
  BY <1>2, <1>6 DEF Frames
<1>8. \A j \in Frames : stack'[j].dir = stack[j].dir
  BY <1>4, <1>6
<1>9. Open' = Open /\ Directories' = Directories
  BY <1>1, <1>7, <1>8 DEF Open, Directories
<1> QED
  BY <1>1, <1>2, <1>4, <1>6, <1>7, <1>8, <1>9

\* The calls that are open after a name was read.
LEMMA ReadNameCalls ==
    ASSUME Type \in Types, Calls, NEW name, ReadName(name), done' = "no",
           calling' = NoPath \/ (calling' \in Directories \ {Root} /\ calling' \notin Open)
    PROVE  Calls'
<1> DEFINE n == Len(stack)
<1>1. /\ Frames' = Frames /\ Open' = Open /\ Directories' = Directories
      /\ stack' \in Seq([dir : Paths, todo : SUBSET Name]) /\ stack' # <<>>
      /\ \A j \in Frames : stack'[j].dir = stack[j].dir
      /\ \A j \in Frames : stack'[j].todo \subseteq stack[j].todo
  BY ReadNameFrames
<1>2. calling' \notin Open'
  BY <1>1, OpenFacts
<1>3. \A p : Listing(p)' = Listing(p)
  BY DEF Listing, Children
<1>4. \A j \in Frames' :
        /\ stack'[j].dir \in Directories'
        /\ stack'[j].todo \subseteq Listing(stack'[j].dir)
        /\ stack'[j].dir = Root <=> j = 1
  BY <1>1 DEF Calls
<1>5. \A j, k \in Frames' : stack'[j].dir = stack'[k].dir => j = k
  BY <1>1 DEF Calls
<1> QED
  BY <1>1, <1>2, <1>3, <1>4, <1>5 DEF Calls

\* A dot is nobody's path.
LEMMA ReadDotAccounts ==
    ASSUME Type \in Types, fd_free \in Int, Calls, done = "no", NEW name, ReadDot(name),
           NEW seen \in SUBSET Paths, Accounts(seen)
    PROVE  Calls' /\ Accounts(seen)'
<1> DEFINE n == Len(stack)
<1>1. /\ ReadName(name) /\ name.dot \in Dots
      /\ fileCount' = fileCount /\ calling' = calling /\ done' = done
  BY DEF ReadDot
<1>2. /\ n \in Frames /\ calling = NoPath
      /\ Frames' = Frames /\ Open' = Open /\ Directories' = Directories
      /\ \A j \in Frames : stack'[j].dir = stack[j].dir
      /\ \A j \in Frames : j # n => stack'[j].todo = stack[j].todo
      /\ stack'[n].todo = stack[n].todo \ {name}
      /\ fd_free' = fd_free /\ count_Dir' = count_Dir
  BY <1>1, ReadNameFrames
<1>3. Calls'
  BY <1>1, <1>2, ReadNameCalls
<1>4. ASSUME NEW p \in Paths, NEW j \in Frames, NameOf(p) \in stack[j].todo
      PROVE  NameOf(p) \in stack'[j].todo
  <2>1. NameOf(p) # name
    <3>1. NameOf(p).dot = "" /\ "" \notin Dots
      BY ListingNames
    <3> QED
      BY <1>1, <3>1
  <2> QED
    BY <1>2, <1>4, <2>1
<1>5. \A j \in Frames : stack'[j].todo \subseteq stack[j].todo
  BY <1>2
<1>6. Returned(seen)' = Returned(seen)
  BY <1>1, <1>2 DEF Returned
<1>7. \A p \in Paths \ seen :
        \/ Parent[p] \notin seen
        \/ Parent[p] = calling'
        \/ \E j \in Frames' : stack'[j].dir = Parent[p] /\ NameOf(p) \in stack'[j].todo
        \/ fd_free' < Cardinality(Directories')
  BY <1>1, <1>2, <1>4 DEF Accounts
<1>8. \A j \in Frames' : \A other \in stack'[j].todo : other.path \notin seen
  BY <1>2, <1>5 DEF Accounts
<1>9. Accounts(seen)'
  BY <1>1, <1>2, <1>6, <1>7, <1>8 DEF Accounts
<1> QED
  BY <1>3, <1>9

\* Any other name is a path that is counted now, and that a call may begin for.
LEMMA ReadPathAccounts ==
    ASSUME Type \in Types, fd_free \in Int, Calls, done = "no",
           NEW name, ReadName(name), name.dot = "",
           NEW seen \in SUBSET Paths, Accounts(seen),
           fileCount' = fileCount + 1, done' = done,
           IF name.path \in Directories THEN calling' = name.path ELSE calling' = calling
    PROVE  Calls' /\ Accounts(seen \cup {name.path})'
<1> DEFINE n == Len(stack)
           q == name.path
           now == seen \cup {q}
<1>1. /\ n \in Frames /\ calling = NoPath /\ name \in stack[n].todo
      /\ Frames' = Frames /\ Open' = Open /\ Directories' = Directories
      /\ \A j \in Frames : stack'[j].dir = stack[j].dir
      /\ \A j \in Frames : j # n => stack'[j].todo = stack[j].todo
      /\ stack'[n].todo = stack[n].todo \ {name}
      /\ fd_free' = fd_free /\ count_Dir' = count_Dir
  BY ReadNameFrames
<1> HIDE DEF n
<1>2. /\ q \in Paths \ {Root} /\ Parent[q] = stack[n].dir /\ name = NameOf(q)
      /\ q \notin seen
  <2>1. stack[n].dir \in Paths /\ name \in Listing(stack[n].dir)
    BY <1>1, OpenFacts DEF Calls
  <2> QED
    BY <1>1, <2>1, ListingNames DEF Accounts
<1>3. /\ Open \subseteq seen /\ Parent[q] \in seen /\ Root \in seen /\ NoPath \notin Paths
      /\ \A p \in seen \ {Root} : Parent[p] \in seen
  <2>1. stack[n].dir \in Open
    BY <1>1, OpenFacts
  <2> QED
    BY <1>2, <2>1, OpenFacts DEF Accounts
<1>4. Calls'
  BY <1>1, <1>2, <1>3, ReadNameCalls
<1> HIDE DEF q
<1>5. IF q \in Directories THEN calling' = q ELSE calling' = NoPath
  BY <1>1 DEF q
<1>6. \A p \in now \ {Root} : Parent[p] \in now /\ Parent[p] # calling'
  <2>1. \A p \in now \ {Root} : Parent[p] \in seen
    BY <1>3
  <2> QED
    BY <1>2, <1>3, <1>5, <2>1
<1>7. \A p \in Open' \cup {calling'} : p # NoPath => p \in now
  BY <1>1, <1>3, <1>5
<1>8. ASSUME NEW j \in Frames', NEW other \in stack'[j].todo
      PROVE  other.path \notin now
  <2>1. other \in stack[j].todo /\ j \in Frames
    BY <1>1, <1>8
  <2>2. other.path \notin seen
    BY <2>1 DEF Accounts
  <2>3. ASSUME other.path = q
        PROVE  FALSE
    <3>1. stack[j].dir \in Paths /\ other \in Listing(stack[j].dir)
      BY <2>1, OpenFacts DEF Calls
    <3>2. other.path # NoPath
      BY <1>2, <1>3, <2>3
    <3>3. other = NameOf(q) /\ Parent[q] = stack[j].dir
      <4>1. other.dot = ""
        BY <3>1, <3>2, ListingNames
      <4>2. Parent[other.path] = stack[j].dir /\ other = NameOf(other.path)
        BY <3>1, <4>1, ListingNames
      <4> QED
        BY <2>3, <4>2
    <3>4. j = n
      BY <1>1, <1>2, <2>1, <3>3 DEF Calls
    <3> QED
      BY <1>1, <1>2, <1>8, <3>3, <3>4
  <2> QED
    BY <2>2, <2>3
<1>9. ASSUME NEW p \in Paths \ now, Parent[p] \in now, Parent[p] # calling'
      PROVE  \/ \E j \in Frames' : stack'[j].dir = Parent[p] /\ NameOf(p) \in stack'[j].todo
             \/ fd_free' < Cardinality(Directories')
  <2>1. p \in Paths \ seen /\ p # Root /\ p # q
    BY <1>3
  <2>2. Parent[p] # q
    <3>1. Parent[p] \in Directories
      BY <2>1, ChosenTree DEF Directories
    <3> QED
      BY <1>5, <1>9, <3>1
  <2>3. Parent[p] \in seen /\ Parent[p] # calling
    BY <1>1, <1>3, <1>9, <2>2
  <2>4. CASE \E j \in Frames : stack[j].dir = Parent[p] /\ NameOf(p) \in stack[j].todo
    <3>1. PICK j \in Frames : stack[j].dir = Parent[p] /\ NameOf(p) \in stack[j].todo
      BY <2>4
    <3>2. NameOf(p) # name
      <4>1. NameOf(p).path = p /\ NameOf(q).path = q
        BY <1>2, <2>1, ListingNames
      <4> QED
        BY <1>2, <2>1, <4>1
    <3> QED
      BY <1>1, <3>1, <3>2
  <2> QED
    BY <1>1, <2>1, <2>3, <2>4 DEF Accounts
<1>10. Returned(now)' = Returned(seen)
  <2>1. Returned(now)' = {p \in now : p \in Directories /\ p \notin Open \cup {calling', Root}}
    BY <1>1 DEF Returned
  <2> QED
    BY <1>1, <1>2, <1>3, <1>5, <2>1 DEF Returned
<1>11. fileCount' = Cardinality(now)
  <2>1. fileCount = Cardinality(seen)
    BY DEF Accounts
  <2> QED
    BY <1>2, <2>1, OneMore, ChosenTree
<1>12. count_Dir' = Cardinality(Returned(now)')
  BY <1>1, <1>10 DEF Accounts
<1>13. Accounts(now)'
  BY <1>3, <1>6, <1>7, <1>8, <1>9, <1>11, <1>12 DEF Accounts
<1> QED
  BY <1>4, <1>13 DEF q

\* A call returns, and its caller counts a directory.
LEMMA LeaveAccounts ==
    ASSUME Type \in Types, fd_free \in Int, Calls, done = "no", LeaveDirectory,
           NEW seen \in SUBSET Paths, Accounts(seen)
    PROVE  Calls' /\ Accounts(seen)'
<1> DEFINE n == Len(stack)
           d == stack[n].dir
           Frame == [dir : Paths, todo : SUBSET Name]
<1>1. /\ calling = NoPath /\ calling' = NoPath
      /\ stack # <<>> /\ stack[n].todo = {} /\ stack' = SubSeq(stack, 1, n - 1)
      /\ IF stack' = <<>> THEN done' = "scanned" /\ count_Dir' = count_Dir
                          ELSE done' = done /\ count_Dir' = count_Dir + 1
      /\ Type' = Type /\ fd_free' = fd_free /\ fileCount' = fileCount
  BY DEF LeaveDirectory, Return, Top, Below
<1>2. stack \in Seq(Frame) /\ n \in Nat \ {0}
  BY <1>1 DEF Calls
<1>3. /\ stack' \in Seq(Frame) /\ Len(stack') = n - 1
      /\ \A j \in 1 .. n - 1 : stack'[j] = stack[j]
      /\ (stack' = <<>> <=> n = 1)
  <2>1. n - 1 \in Nat /\ n - 1 <= Len(stack)
    BY <1>2
  <2> DEFINE m == n - 1
  <2> HIDE DEF Frame, n, m
  <2>2. m \in Nat /\ m <= Len(stack) /\ stack' = SubSeq(stack, 1, m)
    BY <1>1, <2>1 DEF m
  <2>3. /\ stack' = [j \in 1 .. m |-> stack[j]]
        /\ \A j \in 1 .. m : stack[j] \in Frame
    BY <1>2, <2>2
  <2>4. stack' \in Seq(Frame) /\ Len(stack') = m
    BY <2>2, <2>3
  <2>5. m = n - 1 /\ n \in Nat /\ (m = 0 <=> n = 1)
    BY <1>2 DEF m
  <2>6. stack' = <<>> <=> m = 0
    BY <2>2, <2>4
  <2> QED
    BY <2>3, <2>4, <2>5, <2>6
<1> HIDE DEF n
<1>4. /\ Frames' = 1 .. n - 1 /\ Frames = Frames' \cup {n} /\ n \in Frames /\ n \notin Frames'
  BY <1>2, <1>3 DEF Frames, n
<1>5. Directories' = Directories /\ \A p : Listing(p)' = Listing(p)
  BY <1>1 DEF Directories, Listing, Children
<1>6. /\ \A j \in Frames' : stack'[j] = stack[j]
      /\ \A j \in Frames' : stack[j].dir # d
  BY <1>3, <1>4 DEF Calls
<1>7. Open = Open' \cup {d} /\ d \notin Open'
  BY <1>4, <1>6 DEF Open
<1>8. d \in Directories /\ d \in Paths /\ d \in seen /\ d # NoPath /\ NoPath \notin Open
  <2>1. d \in Open /\ d \in Paths /\ NoPath \notin Paths /\ Open \subseteq Directories
        /\ Open \subseteq Paths
    BY <1>4, OpenFacts
  <2> QED
    BY <2>1 DEF Accounts
<1>9. d = Root <=> n = 1
  BY <1>4 DEF Calls
<1>10. Calls'
  <2>1. \A j \in Frames' : j \in Frames
    BY <1>4
  <2>2. \A j, k \in Frames' : stack'[j].dir = stack'[k].dir => j = k
    BY <1>6, <2>1 DEF Calls
  <2>3. \A j \in Frames' :
          /\ stack'[j].dir \in Directories'
          /\ stack'[j].todo \subseteq Listing(stack'[j].dir)
          /\ stack'[j].dir = Root <=> j = 1
    BY <1>5, <1>6, <2>1 DEF Calls
  <2>4. calling' \notin Open'
    BY <1>1, <1>7, <1>8
  <2> QED
    BY <1>1, <1>3, <1>5, <2>2, <2>3, <2>4 DEF Calls
<1>11. Returned(seen)' = IF stack' = <<>> THEN Returned(seen) ELSE Returned(seen) \cup {d}
  <2>1. Returned(seen)' = {p \in seen : p \in Directories /\ p \notin Open' \cup {NoPath, Root}}
    BY <1>1, <1>5 DEF Returned
  <2>2. Returned(seen) = {p \in seen : p \in Directories /\ p \notin Open \cup {NoPath, Root}}
    BY <1>1 DEF Returned
  <2>3. stack' = <<>> => Open' = {}
    BY <1>3, <1>4 DEF Open
  <2>4. CASE stack' = <<>>
    BY <1>3, <1>7, <1>9, <2>1, <2>2, <2>4
  <2>5. CASE stack' # <<>>
    BY <1>3, <1>7, <1>8, <1>9, <2>1, <2>2, <2>5
  <2> QED
    BY <2>4, <2>5
<1>12. Returned(seen) \in SUBSET Paths /\ d \notin Returned(seen)
  BY <1>7 DEF Returned
<1>13. count_Dir' = Cardinality(Returned(seen)')
  BY <1>1, <1>8, <1>11, <1>12, OneMore, ChosenTree DEF Accounts
<1>14. ASSUME NEW p \in Paths \ seen, Parent[p] \in seen
       PROVE  \/ \E j \in Frames' : stack'[j].dir = Parent[p] /\ NameOf(p) \in stack'[j].todo
              \/ fd_free' < Cardinality(Directories')
  <2>1. p # Root
    BY DEF Accounts
  <2>2. Parent[p] # calling
    BY <1>1, <2>1, ChosenTree
  <2>3. CASE \E j \in Frames : stack[j].dir = Parent[p] /\ NameOf(p) \in stack[j].todo
    BY <1>1, <1>4, <1>6, <2>3
  <2> QED
    BY <1>1, <1>5, <1>14, <2>2, <2>3 DEF Accounts
<1>15. \A j \in Frames' : \A name \in stack'[j].todo : name.path \notin seen
  BY <1>4, <1>6 DEF Accounts
<1>16. \A p \in Open' \cup {calling'} : p # NoPath => p \in seen
  BY <1>1, <1>7 DEF Accounts
<1>17. Accounts(seen)'
  BY <1>1, <1>13, <1>14, <1>15, <1>16 DEF Accounts
<1> QED
  BY <1>10, <1>17

-----------------------------------------------------------------------------
(* The sort.                                                               *)

\* The position that qsort gives the entry at i is one more than the number of those
\* that come before it.
Position(s, i) == Cardinality({j \in DOMAIN s : Precedes(s, j, i)}) + 1

\* An entry has a position in the array, and a later one than what comes before it.
LEMMA PositionsAgree ==
    ASSUME Paths \subseteq Nat, NEW s \in Seq(Entry), NEW i \in DOMAIN s
    PROVE  /\ Position(s, i) \in DOMAIN s
           /\ \A j \in DOMAIN s : Precedes(s, j, i) => Position(s, j) < Position(s, i)
<1> DEFINE n == Len(s)
           before(j) == {k \in DOMAIN s : Precedes(s, k, j)}
<1>1. n \in Nat /\ DOMAIN s = 1 .. n
  OBVIOUS
<1>2. \A j \in DOMAIN s : s[j].path \in Nat
  <2>1. \A j \in DOMAIN s : s[j] \in Entry
    OBVIOUS
  <2> QED
    BY <2>1 DEF Entry
<1>3. IsFiniteSet(DOMAIN s) /\ Cardinality(DOMAIN s) = n
  <2> HIDE DEF n
  <2>1. /\ IsFiniteSet(1 .. n)
        /\ Cardinality(1 .. n) = IF 1 > n THEN 0 ELSE n - 1 + 1
    BY <1>1, FS_Interval
  <2> QED
    BY <1>1, <2>1
<1>4. \A j \in DOMAIN s : before(j) \in SUBSET DOMAIN s /\ j \notin before(j)
  BY <1>1, <1>2 DEF Precedes
<1>5. ASSUME NEW j \in DOMAIN s
      PROVE  IsFiniteSet(before(j)) /\ Cardinality(before(j)) \in Nat /\ Cardinality(before(j)) < n
  <2>1. before(j) \in SUBSET DOMAIN s /\ before(j) # DOMAIN s
    BY <1>4
  <2> HIDE DEF before
  <2>2. IsFiniteSet(before(j)) /\ Cardinality(before(j)) <= n /\ Cardinality(before(j)) # n
    BY <1>3, <2>1, FS_Subset
  <2>3. Cardinality(before(j)) \in Nat
    BY <2>2, FS_CardinalityType
  <2> QED
    BY <1>1, <2>2, <2>3
<1>6. \A j \in DOMAIN s : Position(s, j) = Cardinality(before(j)) + 1
  BY DEF Position
<1>7. Position(s, i) \in DOMAIN s
  <2> HIDE DEF before
  <2> QED
    BY <1>1, <1>5, <1>6
<1>8. ASSUME NEW j \in DOMAIN s, Precedes(s, j, i)
      PROVE  Position(s, j) < Position(s, i)
  <2>1. before(j) \subseteq before(i) /\ j \in before(i) /\ j \notin before(j)
    BY <1>1, <1>2, <1>4, <1>8 DEF Precedes
  <2> HIDE DEF before
  <2>2. before(j) \in SUBSET before(i) /\ before(j) # before(i)
    BY <2>1
  <2>3. Cardinality(before(j)) <= Cardinality(before(i))
        /\ Cardinality(before(j)) # Cardinality(before(i))
    BY <1>5, <2>2, FS_Subset
  <2> QED
    BY <1>5, <1>6, <2>3
<1> QED
  BY <1>7, <1>8

\* Two entries do not share a position, and every position is some entry's.
LEMMA PositionsAreTaken ==
    ASSUME Paths \subseteq Nat, NEW s \in Seq(Entry), NEW k \in DOMAIN s
    PROVE  /\ \A i, j \in DOMAIN s : Position(s, i) = Position(s, j) => i = j
           /\ \E i \in DOMAIN s : Position(s, i) = k
<1> DEFINE f == [i \in DOMAIN s |-> Position(s, i)]
<1>1. \A i \in DOMAIN s : s[i].path \in Nat /\ i \in Nat
  <2>1. \A i \in DOMAIN s : s[i] \in Entry /\ i \in Nat
    OBVIOUS
  <2> QED
    BY <2>1 DEF Entry
<1>2. ASSUME NEW i \in DOMAIN s, NEW j \in DOMAIN s, i # j
      PROVE  Position(s, i) # Position(s, j)
  <2>1. Precedes(s, i, j) \/ Precedes(s, j, i)
    BY <1>1, <1>2 DEF Precedes
  <2>2. Position(s, i) \in Nat /\ Position(s, j) \in Nat
    BY PositionsAgree
  <2> QED
    BY <2>1, <2>2, PositionsAgree
<1>3. f \in Injection(DOMAIN s, DOMAIN s)
  <2>1. f \in [DOMAIN s -> DOMAIN s]
    BY PositionsAgree
  <2> QED
    BY <1>2, <2>1 DEF Injection, IsInjective
<1>4. IsFiniteSet(DOMAIN s)
  BY FS_Interval
<1>5. f \in Surjection(DOMAIN s, DOMAIN s)
  <2> HIDE DEF f
  <2> QED
    BY <1>3, <1>4, FS_Injection
<1>6. \E i \in DOMAIN s : f[i] = k
  <2> HIDE DEF f
  <2> QED
    BY <1>5 DEF Surjection
<1> QED
  BY <1>2, <1>6

\* qsort keeps the entries and leaves them in the order of their paths, if no two have
\* the same.
LEMMA SortedIs ==
    ASSUME Paths \subseteq Nat, NEW s \in Seq(Entry),
           \A i, j \in 1 .. Len(s) : s[i].path = s[j].path => i = j
    PROVE  /\ Sorted(s) \in Seq(Entry) /\ Len(Sorted(s)) = Len(s)
           /\ \A k \in 1 .. Len(s) : \E i \in 1 .. Len(s) : Sorted(s)[k] = s[i]
           /\ \A i \in 1 .. Len(s) : \E k \in 1 .. Len(s) : Sorted(s)[k] = s[i]
           /\ \A k, l \in 1 .. Len(s) : k < l => Sorted(s)[k].path < Sorted(s)[l].path
<1> DEFINE at(k) == CHOOSE i \in DOMAIN s : Position(s, i) = k
           first(k) == CHOOSE i \in DOMAIN s :
                           Cardinality({j \in DOMAIN s : Precedes(s, j, i)}) = k - 1
<1>1. DOMAIN s = 1 .. Len(s) /\ Len(s) \in Nat
  OBVIOUS
<1>2. \A k \in DOMAIN s : at(k) \in DOMAIN s /\ Position(s, at(k)) = k
  BY PositionsAreTaken
<1>3. Sorted(s) = [k \in DOMAIN s |-> s[at(k)]]
  <2>1. ASSUME NEW k \in DOMAIN s
        PROVE  first(k) = at(k)
    <3>1. ASSUME NEW i \in DOMAIN s
          PROVE  (Cardinality({j \in DOMAIN s : Precedes(s, j, i)}) = k - 1) <=> Position(s, i) = k
      <4>1. {j \in DOMAIN s : Precedes(s, j, i)} \in SUBSET DOMAIN s /\ IsFiniteSet(DOMAIN s)
        BY FS_Interval
      <4>2. Cardinality({j \in DOMAIN s : Precedes(s, j, i)}) \in Nat
        BY <4>1, FS_Subset, FS_CardinalityType
      <4> QED
        BY <1>1, <4>2 DEF Position
    <3> QED
      BY <3>1
  <2>2. Sorted(s) = [k \in DOMAIN s |-> s[first(k)]]
    BY DEF Sorted
  <2> HIDE DEF at, first
  <2> QED
    BY <2>1, <2>2
<1> HIDE DEF at, first
<1>4. Sorted(s) \in [1 .. Len(s) -> Entry]
  BY <1>1, <1>2, <1>3
<1>5. Sorted(s) \in Seq(Entry) /\ Len(Sorted(s)) = Len(s)
  BY <1>1, <1>4
<1>6. \A k \in 1 .. Len(s) : Sorted(s)[k] = s[at(k)]
  BY <1>1, <1>3
<1>7. ASSUME NEW i \in 1 .. Len(s)
      PROVE  \E k \in 1 .. Len(s) : Sorted(s)[k] = s[i]
  <2>1. Position(s, i) \in DOMAIN s
    BY <1>1, PositionsAgree
  <2>2. at(Position(s, i)) = i
    BY <1>1, <1>2, <2>1, PositionsAreTaken
  <2> QED
    BY <1>1, <1>6, <2>1, <2>2
<1>8. ASSUME NEW k \in 1 .. Len(s), NEW l \in 1 .. Len(s), k < l
      PROVE  Sorted(s)[k].path < Sorted(s)[l].path
  <2>1. at(k) \in DOMAIN s /\ at(l) \in DOMAIN s
        /\ Position(s, at(k)) = k /\ Position(s, at(l)) = l
    BY <1>1, <1>2
  <2>2. ~ Precedes(s, at(l), at(k))
    <3>1. Precedes(s, at(l), at(k)) => l < k
      BY <2>1, PositionsAgree
    <3> QED
      BY <1>1, <1>8, <3>1
  <2>3. s[at(k)].path \in Nat /\ s[at(l)].path \in Nat /\ s[at(k)].path # s[at(l)].path
    <3>1. s[at(k)] \in Entry /\ s[at(l)] \in Entry /\ at(k) # at(l)
      BY <1>1, <1>8, <2>1
    <3> QED
      BY <1>1, <2>1, <3>1 DEF Entry
  <2> QED
    BY <1>6, <2>2, <2>3 DEF Precedes
<1> QED
  BY <1>1, <1>2, <1>5, <1>6, <1>7, <1>8

-----------------------------------------------------------------------------
(* The array.                                                              *)

\* An entry for a path that the array does not list yet.
LEMMA Appended ==
    ASSUME NEW p \in Paths, NEW kind \in {"d", "f"}, Write(p, kind),
           file_info \in Seq(Entry), idx = Len(file_info),
           \A i, j \in 1 .. idx : file_info[i].path = file_info[j].path => i = j,
           p \notin {file_info[i].path : i \in 1 .. idx}
    PROVE  /\ file_info' \in Seq(Entry) /\ idx' = Len(file_info')
           /\ \A i, j \in 1 .. idx' : file_info'[i].path = file_info'[j].path => i = j
           /\ {file_info'[i].path : i \in 1 .. idx'} = {file_info[i].path : i \in 1 .. idx} \cup {p}
           /\ \A i \in 1 .. idx' : IF i \in 1 .. idx THEN file_info'[i] = file_info[i]
                                   ELSE file_info'[i] = [path |-> p, kind |-> kind]
<1> DEFINE entry == [path |-> p, kind |-> kind]
<1>1. entry \in Entry /\ entry.path = p
  BY DEF Entry
<1>2. file_info' = Append(file_info, entry) /\ idx' = idx + 1
  BY DEF Write
<1> HIDE DEF entry
<1>3. /\ file_info' \in Seq(Entry) /\ idx \in Nat /\ idx' = Len(file_info')
      /\ \A i \in 1 .. idx : file_info'[i] = file_info[i]
      /\ file_info'[idx + 1] = entry
  BY <1>1, <1>2
<1>4. \A i \in 1 .. idx' : i \in 1 .. idx \/ i = idx + 1
  BY <1>2, <1>3
<1>5. 1 .. idx \subseteq 1 .. idx' /\ idx + 1 \in 1 .. idx'
  BY <1>2, <1>3
<1>6. \A i, j \in 1 .. idx' : file_info'[i].path = file_info'[j].path => i = j
  BY <1>1, <1>3, <1>4
<1>7. {file_info'[i].path : i \in 1 .. idx'} = {file_info[i].path : i \in 1 .. idx} \cup {p}
  BY <1>1, <1>3, <1>4, <1>5
<1> QED
  BY <1>3, <1>4, <1>6, <1>7 DEF entry

\* A directory that FolderSize cannot open stays so.
LEMMA CannotOpenStays ==
    ASSUME Type \in Types, Type' = Type, fd_free \in Int, fd_free' \in Int, fd_free' <= fd_free
    PROVE  Directories' = Directories /\ (CannotOpen => CannotOpen')
<1>1. Directories' = Directories
  BY DEF Directories
<1>2. Cardinality(Directories) \in Nat
  BY DirectoriesArePaths
<1> QED
  BY <1>1, <1>2 DEF CannotOpen

\* The entry that opens a call is for the path the call is about.
LEMMA EnterLists ==
    ASSUME Type \in Types, fd_free \in Nat, Calls, EnterDirectory \/ EnterOther,
           NEW seen \in SUBSET Paths, Accounts(seen), Lists(seen)
    PROVE  Lists(seen)' /\ fd_free' \in Nat
<1>1. /\ calling # NoPath /\ calling' = NoPath /\ Type' = Type
      /\ fd_free' \in Nat /\ fd_free' <= fd_free
  BY DEF EnterDirectory, EnterOther
<1>2. calling \in Paths /\ calling \in seen /\ NoPath \notin Paths
  BY <1>1, ChosenTree DEF Accounts
<1>3. calling \in Directories \/ calling = Root
  BY <1>1 DEF Calls
<1>4. Type[calling] # "special"
  BY <1>3, TreeAssumption DEF Directories, Readable
<1>5. Directories' = Directories /\ (CannotOpen => CannotOpen')
  BY <1>1, CannotOpenStays
<1>6. PICK kind \in {"d", "f"} :
          /\ Write(calling, kind)
          /\ CannotOpen \/ (kind = "d" <=> calling \in Directories)
  <2>1. CASE EnterDirectory
    BY <1>2, <2>1 DEF EnterDirectory, Directories
  <2>2. CASE EnterOther
    <3>1. Type[calling] \notin Readable \/ fd_free = 0
      BY <2>2 DEF EnterOther
    <3>2. CASE calling \notin Directories
      BY <2>2, <3>2 DEF EnterOther
    <3>3. CASE calling \in Directories /\ Type[calling] \notin Readable
      BY <2>2, <3>3 DEF EnterOther, CannotOpen, Readable
    <3>4. CASE calling \in Directories /\ fd_free = 0
      <4>1. Cardinality(Directories) # 0 /\ Cardinality(Directories) \in Nat
        BY <3>4, DirectoriesArePaths, FS_EmptySet
      <4> QED
        BY <2>2, <3>4, <4>1 DEF EnterOther, CannotOpen
    <3> QED
      BY <3>1, <3>2, <3>3, <3>4
  <2> QED
    BY <2>1, <2>2
<1>7. calling \notin {file_info[i].path : i \in 1 .. idx}
  BY DEF Lists
<1>8. /\ file_info' \in Seq(Entry) /\ idx' = Len(file_info')
      /\ \A i, j \in 1 .. idx' : file_info'[i].path = file_info'[j].path => i = j
      /\ {file_info'[i].path : i \in 1 .. idx'} = {file_info[i].path : i \in 1 .. idx} \cup {calling}
      /\ \A i \in 1 .. idx' : IF i \in 1 .. idx THEN file_info'[i] = file_info[i]
                              ELSE file_info'[i] = [path |-> calling, kind |-> kind]
  <2>1. /\ file_info \in Seq(Entry) /\ idx = Len(file_info)
        /\ \A i, j \in 1 .. idx : file_info[i].path = file_info[j].path => i = j
    BY DEF Lists
  <2> QED
    BY <1>2, <1>6, <1>7, <2>1, Appended
<1>9. {file_info'[i].path : i \in 1 .. idx'} = {p \in seen \ {calling'} : Type'[p] # "special"}
  <2>1. {file_info[i].path : i \in 1 .. idx} = {p \in seen \ {calling} : Type[p] # "special"}
    BY DEF Lists
  <2> QED
    BY <1>1, <1>2, <1>4, <1>8, <2>1
<1>10. CannotOpen' \/ \A i \in 1 .. idx' :
            file_info'[i].kind = "d" <=> file_info'[i].path \in Directories'
  <2> SUFFICES ASSUME ~ CannotOpen', NEW i \in 1 .. idx'
               PROVE  file_info'[i].kind = "d" <=> file_info'[i].path \in Directories
    BY <1>5
  <2>1. ~ CannotOpen
    BY <1>5
  <2>2. CASE i \in 1 .. idx
    BY <1>8, <2>1, <2>2 DEF Lists
  <2>3. CASE i \notin 1 .. idx
    BY <1>6, <1>8, <2>1, <2>3
  <2> QED
    BY <2>2, <2>3
<1> QED
  BY <1>1, <1>8, <1>9, <1>10 DEF Lists

\* The outermost call leaves the array to the sort, unless the argument is its only entry.
LEMMA EnterOrdered ==
    ASSUME Type \in Types, Calls, EnterDirectory \/ EnterOther,
           NEW seen \in SUBSET Paths, Accounts(seen), Lists(seen)
    PROVE  Ordered'
<1>1. CASE EnterDirectory
  <2>1. stack \in Seq([dir : Paths, todo : SUBSET Name])
    BY DEF Calls
  <2>2. stack' # <<>>
    BY <1>1, <2>1 DEF EnterDirectory
  <2> QED
    BY <2>2 DEF Ordered
<1>2. CASE EnterOther
  <2>1. calling # NoPath /\ stack' = stack /\ idx' = idx + 1
    BY <1>2 DEF EnterOther, Write
  <2> SUFFICES ASSUME stack = <<>>
               PROVE  Ordered'
    BY <2>1 DEF Ordered
  <2>2. calling = Root
    BY <2>1 DEF Calls
  <2>3. seen \ {Root} = {}
    <3> SUFFICES ASSUME seen \ {Root} # {} PROVE FALSE
      OBVIOUS
    <3>1. PICK p \in seen \ {Root} : \A q \in seen \ {Root} : ~ (q < p)
      BY ChosenTree, LeastPath
    <3> QED
      BY <2>2, <3>1, ChosenTree DEF Accounts
  <2>4. /\ {file_info[i].path : i \in 1 .. idx} = {p \in seen \ {calling} : Type[p] # "special"}
        /\ idx \in Nat
    BY DEF Lists
  <2>5. ~ (1 \in 1 .. idx)
    <3>1. 1 \in 1 .. idx => file_info[1].path \in {file_info[i].path : i \in 1 .. idx}
      OBVIOUS
    <3> QED
      BY <2>2, <2>3, <2>4, <3>1
  <2> QED
    BY <2>1, <2>4, <2>5 DEF Ordered
<1> QED
  BY <1>1, <1>2

\* A name from readdir.
LEMMA ReadLists ==
    ASSUME Type \in Types, fd_free \in Nat, Calls, NEW name,
           ReadDirectory(name) \/ ReadFile(name) \/ ReadSpecial(name),
           NEW seen \in SUBSET Paths, Accounts(seen), Lists(seen)
    PROVE  Lists(seen \cup {name.path})'
<1> DEFINE q == name.path
           now == seen \cup {q}
<1>1. ReadName(name) /\ name.dot = ""
  BY DEF ReadDirectory, ReadFile, ReadSpecial
<1>2. /\ Len(stack) \in Frames /\ name \in stack[Len(stack)].todo /\ calling = NoPath
      /\ Type' = Type /\ Directories' = Directories /\ fd_free' = fd_free
  BY <1>1, ReadNameFrames
<1>3. q \in Paths /\ q \notin seen /\ NoPath \notin Paths
  <2>1. stack[Len(stack)].dir \in Paths /\ name \in Listing(stack[Len(stack)].dir)
    BY <1>2, OpenFacts DEF Calls
  <2> QED
    BY <1>1, <1>2, <2>1, ListingNames, ChosenTree DEF Accounts
<1>4. Type[q] # "dangling"
  BY DEF ReadDirectory, ReadFile, ReadSpecial, Readable
<1>5. CannotOpen' <=> CannotOpen
  BY <1>2 DEF CannotOpen
<1>6. {file_info[i].path : i \in 1 .. idx} = {p \in seen : Type[p] # "special"}
  BY <1>2, <1>3 DEF Lists
<1>7. CASE ReadDirectory(name)
  <2>1. file_info' = file_info /\ idx' = idx /\ calling' = q
    BY <1>7 DEF ReadDirectory
  <2>2. {file_info'[i].path : i \in 1 .. idx'} = {p \in now \ {calling'} : Type'[p] # "special"}
    BY <1>2, <1>3, <1>6, <2>1
  <2> QED
    BY <1>2, <1>4, <1>5, <2>1, <2>2 DEF Lists
<1>8. CASE ReadSpecial(name)
  <2>1. file_info' = file_info /\ idx' = idx /\ calling' = NoPath /\ Type[q] = "special"
    BY <1>2, <1>8 DEF ReadSpecial
  <2>2. {file_info'[i].path : i \in 1 .. idx'} = {p \in now \ {calling'} : Type'[p] # "special"}
    BY <1>2, <1>3, <1>6, <2>1
  <2> QED
    BY <1>2, <1>4, <1>5, <2>1, <2>2 DEF Lists
<1>9. CASE ReadFile(name)
  <2>1. Write(q, "f") /\ calling' = NoPath /\ Type[q] \in {"file", "fleeting"}
    BY <1>2, <1>9 DEF ReadFile
  <2>2. q \notin {file_info[i].path : i \in 1 .. idx}
    BY <1>3, <1>6
  <2>3. /\ file_info' \in Seq(Entry) /\ idx' = Len(file_info')
        /\ \A i, j \in 1 .. idx' : file_info'[i].path = file_info'[j].path => i = j
        /\ {file_info'[i].path : i \in 1 .. idx'} = {file_info[i].path : i \in 1 .. idx} \cup {q}
        /\ \A i \in 1 .. idx' : IF i \in 1 .. idx THEN file_info'[i] = file_info[i]
                                ELSE file_info'[i] = [path |-> q, kind |-> "f"]
    BY <1>3, <2>1, <2>2, Appended DEF Lists
  <2>4. {file_info'[i].path : i \in 1 .. idx'} = {p \in now \ {calling'} : Type'[p] # "special"}
    BY <1>2, <1>3, <1>6, <2>1, <2>3
  <2>5. q \notin Directories
    BY <2>1 DEF Directories, Readable
  <2>6. CannotOpen' \/ \A i \in 1 .. idx' :
            file_info'[i].kind = "d" <=> file_info'[i].path \in Directories'
    <3> SUFFICES ASSUME ~ CannotOpen, NEW i \in 1 .. idx'
                 PROVE  file_info'[i].kind = "d" <=> file_info'[i].path \in Directories
      BY <1>2, <1>5
    <3>1. CASE i \in 1 .. idx
      BY <2>3, <3>1 DEF Lists
    <3>2. CASE i \notin 1 .. idx
      BY <2>3, <2>5, <3>2
    <3> QED
      BY <3>1, <3>2
  <2> QED
    BY <1>2, <1>4, <2>3, <2>4, <2>6 DEF Lists
<1> QED
  BY <1>7, <1>8, <1>9

\* Another order of the same entries lists the same paths with the same kinds.
LEMMA Rearranged ==
    ASSUME NEW n \in Nat, NEW s, NEW t, NEW D,
           \A k \in 1 .. n : \E i \in 1 .. n : t[k] = s[i],
           \A i \in 1 .. n : \E k \in 1 .. n : t[k] = s[i]
    PROVE  /\ {t[i].path : i \in 1 .. n} = {s[i].path : i \in 1 .. n}
           /\ (\A i \in 1 .. n : s[i].kind = "d" <=> s[i].path \in D)
                => \A i \in 1 .. n : t[i].kind = "d" <=> t[i].path \in D
<1>1. ASSUME NEW k \in 1 .. n
      PROVE  t[k].path \in {s[i].path : i \in 1 .. n}
  <2>1. PICK i \in 1 .. n : t[k] = s[i]
    OBVIOUS
  <2>2. t[k].path = s[i].path
    BY <2>1
  <2> QED
    BY <2>2
<1>2. ASSUME NEW i \in 1 .. n
      PROVE  s[i].path \in {t[k].path : k \in 1 .. n}
  <2>1. PICK k \in 1 .. n : t[k] = s[i]
    OBVIOUS
  <2>2. t[k].path = s[i].path
    BY <2>1
  <2> QED
    BY <2>2
<1>3. ASSUME NEW k \in 1 .. n, \A i \in 1 .. n : s[i].kind = "d" <=> s[i].path \in D
      PROVE  t[k].kind = "d" <=> t[k].path \in D
  <2>1. PICK i \in 1 .. n : t[k] = s[i]
    OBVIOUS
  <2>2. t[k].path = s[i].path /\ t[k].kind = s[i].kind
    BY <2>1
  <2> QED
    BY <1>3, <2>2
<1>4. {t[i].path : i \in 1 .. n} = {s[i].path : i \in 1 .. n}
  BY <1>1, <1>2, Zenon
<1> QED
  BY <1>3, <1>4

\* A call has returned: the array is sorted.
LEMMA LeaveLists ==
    ASSUME Type \in Types, fd_free \in Nat, Calls, LeaveDirectory,
           NEW seen \in SUBSET Paths, Accounts(seen), Lists(seen)
    PROVE  Lists(seen)' /\ Ordered'
<1>1. /\ file_info' = Sorted(file_info) /\ idx' = idx /\ calling' = calling
      /\ Type' = Type /\ fd_free' = fd_free
  BY DEF LeaveDirectory
<1>2. CannotOpen' <=> CannotOpen
  BY <1>1 DEF CannotOpen, Directories
<1>3. Directories' = Directories
  BY <1>1 DEF Directories
<1>4. Paths \subseteq Nat
  BY ChosenTree
<1>5. /\ file_info \in Seq(Entry) /\ idx = Len(file_info)
      /\ \A i, j \in 1 .. idx : file_info[i].path = file_info[j].path => i = j
      /\ CannotOpen \/ \A i \in 1 .. idx :
            file_info[i].kind = "d" <=> file_info[i].path \in Directories
  BY DEF Lists
<1> DEFINE new == file_info'
<1>6. /\ new \in Seq(Entry) /\ Len(new) = idx'
      /\ \A k \in 1 .. idx : \E i \in 1 .. idx : new[k] = file_info[i]
      /\ \A i \in 1 .. idx : \E k \in 1 .. idx : new[k] = file_info[i]
      /\ \A k, l \in 1 .. idx : k < l => new[k].path < new[l].path
  <2>1. /\ Sorted(file_info) \in Seq(Entry) /\ Len(Sorted(file_info)) = Len(file_info)
        /\ \A k \in 1 .. Len(file_info) : \E i \in 1 .. Len(file_info) :
              Sorted(file_info)[k] = file_info[i]
        /\ \A i \in 1 .. Len(file_info) : \E k \in 1 .. Len(file_info) :
              Sorted(file_info)[k] = file_info[i]
        /\ \A k, l \in 1 .. Len(file_info) :
              k < l => Sorted(file_info)[k].path < Sorted(file_info)[l].path
    BY <1>4, <1>5, SortedIs
  <2> QED
    BY <1>1, <1>5, <2>1
<1>7. \A k \in 1 .. idx : new[k].path \in Nat
  <2>1. \A k \in 1 .. idx : new[k] \in Entry
    BY <1>1, <1>5, <1>6
  <2> QED
    BY <1>4, <2>1 DEF Entry
<1> HIDE DEF new
<1>8. /\ {new[i].path : i \in 1 .. idx} = {file_info[i].path : i \in 1 .. idx}
      /\ \A i, j \in 1 .. idx : new[i].path = new[j].path => i = j
      /\ CannotOpen \/ \A i \in 1 .. idx : new[i].kind = "d" <=> new[i].path \in Directories
  <2>1. /\ \A k \in 1 .. idx : \E i \in 1 .. idx : new[k] = file_info[i]
        /\ \A i \in 1 .. idx : \E k \in 1 .. idx : new[k] = file_info[i]
    BY <1>6
  <2>2. idx \in Nat
    BY <1>5
  <2>3. /\ {new[i].path : i \in 1 .. idx} = {file_info[i].path : i \in 1 .. idx}
        /\ CannotOpen \/ \A i \in 1 .. idx : new[i].kind = "d" <=> new[i].path \in Directories
    <3>1. /\ {new[i].path : i \in 1 .. idx} = {file_info[i].path : i \in 1 .. idx}
          /\ (\A i \in 1 .. idx : file_info[i].kind = "d" <=> file_info[i].path \in Directories)
                => \A i \in 1 .. idx : new[i].kind = "d" <=> new[i].path \in Directories
      BY <2>1, <2>2, Rearranged
    <3> QED
      BY <1>5, <3>1, Zenon
  <2>4. ASSUME NEW i \in 1 .. idx, NEW j \in 1 .. idx, i # j
        PROVE  new[i].path # new[j].path
    <3>1. i < j \/ j < i
      BY <2>4
    <3>2. (i < j => new[i].path < new[j].path) /\ (j < i => new[j].path < new[i].path)
      BY <1>6
    <3>3. new[i].path \in Nat /\ new[j].path \in Nat
      BY <1>7
    <3> QED
      BY <3>1, <3>2, <3>3
  <2> QED
    BY <2>3, <2>4
<1>9. new = file_info'
  BY DEF new
<1>10. Lists(seen)'
  <2>1. {file_info'[i].path : i \in 1 .. idx'} = {p \in seen \ {calling'} : Type'[p] # "special"}
    <3>1. {file_info[i].path : i \in 1 .. idx} = {p \in seen \ {calling} : Type[p] # "special"}
      BY DEF Lists
    <3>2. {file_info'[i].path : i \in 1 .. idx'} = {new[i].path : i \in 1 .. idx}
      BY <1>1, <1>9
    <3>3. {p \in seen \ {calling'} : Type'[p] # "special"} = {p \in seen \ {calling} : Type[p] # "special"}
      BY <1>1
    <3> QED
      BY <1>8, <3>1, <3>2, <3>3
  <2> QED
    BY <1>1, <1>2, <1>3, <1>6, <1>8, <1>9, <2>1 DEF Lists
<1>11. Ordered'
  BY <1>1, <1>6, <1>9 DEF Ordered
<1> QED
  BY <1>10, <1>11

-----------------------------------------------------------------------------
\* Every step of the scan.
LEMMA ScanningAccounts ==
    ASSUME Accounted, Scanning
    PROVE  Accounted'
<1>1. /\ done = "no" /\ Type \in Types /\ fd_free \in Nat /\ Calls
  BY DEF Accounted, Scanning
<1>2. PICK seen \in SUBSET Paths : Accounts(seen) /\ Lists(seen)
  BY <1>1 DEF Accounted
<1>3. \/ done' = "exited"
      \/ /\ done' \in {"no", "scanned"}
         /\ Calls' /\ Ordered' /\ \E now \in SUBSET Paths : Accounts(now)' /\ Lists(now)'
  <2>1. CASE EnterDirectory
    BY <1>1, <1>2, <2>1, EnterDirectoryAccounts, EnterLists, EnterOrdered DEF EnterDirectory
  <2>2. CASE EnterOther
    BY <1>1, <1>2, <2>2, EnterOtherAccounts, EnterLists, EnterOrdered DEF EnterOther, Return
  <2>3. CASE LeaveDirectory
    BY <1>1, <1>2, <2>3, LeaveAccounts, LeaveLists DEF LeaveDirectory, Return
  <2>4. ASSUME NEW name, ReadDot(name)
        PROVE  done' = "no" /\ Calls' /\ Ordered' /\ Accounts(seen)' /\ Lists(seen)'
    <3>1. ReadName(name) /\ UNCHANGED <<file_info, idx, calling, done>>
      BY <2>4 DEF ReadDot
    <3>2. Type' = Type /\ fd_free' = fd_free /\ Directories' = Directories /\ stack' # <<>>
      BY <1>1, <3>1, ReadNameFrames
    <3>3. Lists(seen)'
      BY <1>2, <3>1, <3>2 DEF Lists, CannotOpen
    <3> QED
      BY <1>1, <1>2, <2>4, <3>1, <3>2, <3>3, ReadDotAccounts DEF Ordered
  <2>5. ASSUME NEW name, ReadDirectory(name) \/ ReadFile(name) \/ ReadSpecial(name)
        PROVE  /\ done' = "no" /\ Calls' /\ Ordered' /\ name.path \in Paths
               /\ Accounts(seen \cup {name.path})' /\ Lists(seen \cup {name.path})'
    <3>1. /\ ReadName(name) /\ name.dot = ""
          /\ fileCount' = fileCount + 1 /\ done' = done
      BY <2>5 DEF ReadDirectory, ReadFile, ReadSpecial
    <3>2. name \in stack[Len(stack)].todo /\ Len(stack) \in Frames
      BY <1>1, <3>1, ReadNameFrames
    <3>3. stack[Len(stack)].dir \in Paths /\ name \in Listing(stack[Len(stack)].dir)
      BY <1>1, <3>2, OpenFacts DEF Calls
    <3>4. name.path \in Paths
      BY <1>1, <3>1, <3>3, ListingNames
    <3>5. IF name.path \in Directories THEN calling' = name.path ELSE calling' = calling
      BY <2>5, <3>4 DEF ReadDirectory, ReadFile, ReadSpecial, Directories, Readable
    <3>6. Ordered'
      BY <1>1, <3>1, ReadNameFrames DEF Ordered
    <3>7. Calls' /\ Accounts(seen \cup {name.path})'
      <4>1. fd_free \in Int
        BY <1>1
      <4> QED
        BY <1>1, <1>2, <3>1, <3>5, <4>1, ReadPathAccounts
    <3>8. Lists(seen \cup {name.path})'
      BY <1>1, <1>2, <2>5, ReadLists
    <3> QED
      BY <1>1, <3>1, <3>4, <3>6, <3>7, <3>8
  <2>6. ASSUME NEW name, ReadDangling(name)
        PROVE  done' = "exited"
    BY <2>6 DEF ReadDangling
  <2>7. ASSUME NEW name, ReadDirectory(name) \/ ReadFile(name) \/ ReadSpecial(name)
        PROVE  /\ done' = "no" /\ Calls' /\ Ordered'
               /\ \E now \in SUBSET Paths : Accounts(now)' /\ Lists(now)'
    <3>1. /\ seen \cup {name.path} \in SUBSET Paths
          /\ Accounts(seen \cup {name.path})' /\ Lists(seen \cup {name.path})'
      BY <2>5, <2>7
    <3> QED
      BY <2>5, <2>7, <3>1
  <2> QED
    BY <1>2, <2>1, <2>2, <2>3, <2>4, <2>6, <2>7 DEF Scanning
<1>4. Type' = Type /\ fd_free' \in Nat
  <2>1. CASE EnterDirectory
    BY <1>1, <2>1 DEF EnterDirectory
  <2>2. CASE ~ EnterDirectory
    BY <1>1, <2>2 DEF Scanning, EnterOther, LeaveDirectory, ReadDot, ReadDirectory,
           ReadFile, ReadSpecial, ReadDangling, ReadName
  <2> QED
    BY <2>1, <2>2
<1> QED
  BY <1>1, <1>3, <1>4 DEF Accounted, CountsRight, ArrayComplete

\* When the walk is over and every directory could be opened, nothing is unseen.
LEMMA AllSeen ==
    ASSUME Type \in Types, fd_free \in Int, Calls, done # "no", ~ CannotOpen,
           NEW seen \in SUBSET Paths, Accounts(seen)
    PROVE  /\ seen = Paths
           /\ fileCount = Cardinality(Paths) /\ count_Dir = Cardinality(Directories \ {Root})
<1>1. stack = <<>> /\ calling = NoPath /\ ~ (fd_free < Cardinality(Directories))
  BY DEF Calls, CannotOpen
<1>2. Frames = {} /\ Open = {}
  BY <1>1, OpenFacts DEF Open
<1>3. Paths \ seen = {}
  <2> SUFFICES ASSUME Paths \ seen # {} PROVE FALSE
    OBVIOUS
  <2>1. PICK p \in Paths \ seen : \A q \in Paths \ seen : ~ (q < p)
    BY ChosenTree, LeastPath
  <2>2. p # Root
    BY DEF Accounts
  <2>3. Parent[p] \in seen
    BY <2>1, <2>2, ChosenTree
  <2>4. Parent[p] # calling
    BY <1>1, <2>3, ChosenTree
  <2> QED
    BY <1>1, <1>2, <2>1, <2>3, <2>4 DEF Accounts
<1>4. seen = Paths
  BY <1>3
<1>5. Returned(seen) = Directories \ {Root}
  BY <1>1, <1>2, <1>4, ChosenTree, DirectoriesArePaths DEF Returned
<1> QED
  BY <1>4, <1>5 DEF Accounts

\* The walks that follow the scan count nothing, but for the argument at the very end.
LEMMA MeasuringAccounts ==
    ASSUME Accounted, MeasureExit \/ Measure \/ CountDir
    PROVE  Accounted'
<1>1. /\ done \in {"scanned", "sized"} /\ Type \in Types /\ fd_free \in Nat /\ Calls /\ Ordered
      /\ Type' = Type /\ stack' = stack /\ calling' = calling
      /\ file_info' = file_info /\ idx' = idx
  BY DEF Accounted, MeasureExit, Measure, CountDir, array
<1>2. PICK seen \in SUBSET Paths : Accounts(seen) /\ Lists(seen)
  BY <1>1 DEF Accounted
<1>3. Directories' = Directories /\ Cardinality(Directories) \in Nat
  BY <1>1, DirectoriesArePaths DEF Directories
<1>4. CASE MeasureExit
  BY <1>1, <1>4 DEF MeasureExit, Accounted, CountsRight, ArrayComplete
<1>5. CASE Measure
  <2>1. /\ done' = "sized" /\ fileCount' = fileCount /\ count_Dir' = count_Dir
        /\ fd_free' = fd_free - Cardinality(Directories) /\ ~ CannotOpen
    BY <1>5 DEF Measure, Descend, counters
  <2>2. Frames' = Frames /\ Open' = Open /\ \A p : Listing(p)' = Listing(p)
    BY <1>1 DEF Frames, Open, Listing, Children
  <2>3. Calls'
    BY <1>1, <1>3, <2>1, <2>2 DEF Calls
  <2>4. Returned(seen)' = Returned(seen)
    BY <1>1, <1>3, <2>2 DEF Returned
  <2>5. fd_free < Cardinality(Directories) => fd_free' < Cardinality(Directories)
    BY <1>1, <1>3, <2>1
  <2>6. Accounts(seen)'
    BY <1>1, <1>2, <1>3, <2>1, <2>2, <2>4, <2>5 DEF Accounts
  <2>7. fd_free' \in Nat
    BY <1>1, <1>3, <2>1 DEF CannotOpen
  <2>8. Lists(seen)' /\ Ordered'
    BY <1>1, <1>2, <1>3, <2>1 DEF Lists, Ordered
  <2>9. ArrayComplete'
    <3>1. seen = Paths /\ stack = <<>> /\ calling = NoPath /\ NoPath \notin Paths
      BY <1>1, <1>2, <2>1, AllSeen, ChosenTree DEF Calls
    <3>2. {file_info[i].path : i \in 1 .. idx} = {p \in Paths : Type[p] # "special"}
      BY <1>2, <3>1 DEF Lists
    <3>3. \A i, j \in 1 .. idx : i < j => file_info[i].path < file_info[j].path
      BY <1>1, <3>1 DEF Ordered
    <3>4. /\ idx = Len(file_info)
          /\ \A i \in 1 .. idx : file_info[i].kind = "d" <=> file_info[i].path \in Directories
      BY <1>2, <2>1 DEF Lists
    <3> QED
      BY <1>1, <1>3, <3>2, <3>3, <3>4 DEF ArrayComplete
  <2> QED
    BY <1>1, <1>3, <2>1, <2>3, <2>6, <2>7, <2>8, <2>9 DEF Accounted, CountsRight
<1>6. CASE CountDir
  <2>1. /\ done' = "yes" /\ fileCount' = fileCount /\ ~ CannotOpen
        /\ count_Dir' = IF Root \in Directories THEN count_Dir + 1 ELSE count_Dir
        /\ count_File' = fileCount - count_Dir'
        /\ fd_free' = fd_free - Cardinality(Directories)
    BY <1>6 DEF CountDir, Descend
  <2>2. fileCount = Cardinality(Paths) /\ count_Dir = Cardinality(Directories \ {Root})
    <3>1. fd_free \in Int /\ done # "no"
      BY <1>1
    <3> QED
      BY <1>1, <1>2, <2>1, <3>1, AllSeen
  <2>3. count_Dir' = Cardinality(Directories)
    <3>1. Cardinality(Directories \ {Root}) =
              IF Root \in Directories THEN Cardinality(Directories) - 1
                                     ELSE Cardinality(Directories)
      BY <1>1, DirectoriesArePaths, FS_RemoveElement
    <3> QED
      BY <1>3, <2>1, <2>2, <3>1
  <2>4. Cardinality(Paths \ Directories) = Cardinality(Paths) - Cardinality(Directories)
    <3>1. Paths \cap Directories = Directories
      BY <1>1, DirectoriesArePaths
    <3> QED
      BY <1>1, <3>1, ChosenTree, FS_Difference
  <2>5. fd_free' \in Nat
    BY <1>1, <1>3, <2>1 DEF CannotOpen
  <2>6. ArrayComplete'
    <3>1. ArrayComplete /\ done = "sized"
      BY <1>6 DEF Accounted, CountDir
    <3> QED
      BY <1>1, <1>3, <3>1 DEF ArrayComplete
  <2> QED
    BY <1>1, <1>3, <2>1, <2>2, <2>3, <2>4, <2>5, <2>6 DEF Accounted, CountsRight
<1> QED
  BY <1>4, <1>5, <1>6

\* Nothing changes.
LEMMA SameAccounts ==
    ASSUME Accounted, UNCHANGED sizeVars
    PROVE  Accounted'
<1>1. UNCHANGED <<Type, fd_free, file_info, idx, fileCount, count_Dir, count_File, calling, stack, done>>
  BY DEF sizeVars, vars, array, counters
<1>2. /\ Frames' = Frames /\ Open' = Open /\ Directories' = Directories
      /\ \A p : Listing(p)' = Listing(p)
  BY <1>1 DEF Frames, Open, Directories, Listing, Children
<1>3. Calls' <=> Calls
  BY <1>1, <1>2 DEF Calls
<1>4. ASSUME NEW seen \in SUBSET Paths
      PROVE  (Accounts(seen)' <=> Accounts(seen)) /\ (Lists(seen)' <=> Lists(seen))
  <2>1. Returned(seen)' = Returned(seen) /\ (CannotOpen' <=> CannotOpen)
    BY <1>1, <1>2 DEF Returned, CannotOpen
  <2>2. Accounts(seen)' <=> Accounts(seen)
    BY <1>1, <1>2, <2>1 DEF Accounts
  <2>3. Lists(seen)' <=> Lists(seen)
    BY <1>1, <1>2, <2>1 DEF Lists
  <2> QED
    BY <2>2, <2>3
<1>5. (CountsRight' <=> CountsRight) /\ (ArrayComplete' <=> ArrayComplete) /\ (Ordered' <=> Ordered)
  BY <1>1, <1>2 DEF CountsRight, ArrayComplete, Ordered
<1> QED
  BY <1>1, <1>3, <1>4, <1>5 DEF Accounted

\* Every step of the client.
LEMMA AccountedStays ==
    ASSUME Accounted, [Next]_sizeVars
    PROVE  Accounted'
  BY ScanningAccounts, MeasuringAccounts, SameAccounts DEF Next, ScanStep

\* The three places that count (client_function.c:33, 86, 91) have counted, at any
\* moment of the walk, each path readdir has returned once and each directory whose
\* call has returned once; and the array lists each of these paths once.
THEOREM EachPathOnce == SizeSpec => []Accounted
<1>1. Accounted /\ [Next]_sizeVars => Accounted'
  BY AccountedStays
<1> QED
  BY <1>1, InitAccounts, PTL DEF SizeSpec

\* When a transport is named, the array that is going to be sent lists each directory
\* and regular file once, with its kind, and in order (client_function.c:100).
THEOREM ArrayIsComplete == SizeSpec => []ArrayComplete
<1>1. Accounted => ArrayComplete
  BY DEF Accounted
<1> QED
  BY <1>1, EachPathOnce, PTL

\* The counts the client sends (client_function.c:501-516) are those of its tree.
THEOREM CountsAreRight == SizeSpec => []CountsRight
<1>1. Accounted => CountsRight
  BY DEF Accounted
<1> QED
  BY <1>1, EachPathOnce, PTL
-----------------------------------------------------------------------------
(* Powers of two, and the arithmetic of a long long.                       *)

\* The first values of TwoTo.
IsTwoTo(f, n) == f = [k \in 0 .. n |-> IF k = 0 THEN 1 ELSE 2 * f[k - 1]]

\* There are functions that compute as many of them as one likes.
LEMMA TwoToBegins ==
    ASSUME NEW n \in Nat
    PROVE  \E f : IsTwoTo(f, n)
<1> DEFINE S == {k \in Nat : ~ \E f : IsTwoTo(f, k)}
<1> SUFFICES ASSUME S # {} PROVE FALSE
  OBVIOUS
<1>1. PICK m \in S : \A k \in S : ~ (k < m)
  BY LeastPath
<1>2. CASE m = 0
  <2> DEFINE f == [k \in 0 .. 0 |-> 1]
  <2>1. IsTwoTo(f, 0)
    BY DEF IsTwoTo
  <2> QED
    BY <1>2, <2>1
<1>3. CASE m > 0
  <2>1. m - 1 \in Nat /\ m - 1 \notin S
    <3> HIDE DEF S
    <3>1. m \in Nat
      BY DEF S
    <3>2. m - 1 \in Nat /\ m - 1 < m
      BY <1>3, <3>1
    <3> QED
      BY <1>1, <3>2
  <2>2. PICK g : IsTwoTo(g, m - 1)
    BY <2>1
  <2> DEFINE f == [k \in 0 .. m |-> IF k = m THEN 2 * g[m - 1] ELSE g[k]]
  <2>3. ASSUME NEW k \in 0 .. m
        PROVE  f[k] = IF k = 0 THEN 1 ELSE 2 * f[k - 1]
    <3>1. m \in Nat
      OBVIOUS
    <3>2. \A j \in 0 .. m - 1 : g[j] = IF j = 0 THEN 1 ELSE 2 * g[j - 1]
      BY <2>2 DEF IsTwoTo
    <3>3. CASE k = m
      BY <1>3, <3>1, <3>3
    <3>4. CASE k # m
      <4>1. k \in 0 .. m - 1 /\ (k # 0 => k - 1 \in 0 .. m /\ k - 1 # m)
        BY <3>1, <3>4
      <4> QED
        BY <3>2, <3>4, <4>1
    <3> QED
      BY <3>3, <3>4
  <2>4. IsTwoTo(f, m)
    <3>1. f = [k \in 0 .. m |-> f[k]]
      OBVIOUS
    <3> HIDE DEF f
    <3> QED
      BY <2>3, <3>1 DEF IsTwoTo
  <2> QED
    BY <2>4
<1> QED
  BY <1>1, <1>2, <1>3

\* They agree.
LEMMA TwoToAgrees ==
    ASSUME NEW f, NEW g, NEW n \in Nat, NEW m \in Nat, IsTwoTo(f, n), IsTwoTo(g, m),
           NEW k \in Nat, k <= n, k <= m
    PROVE  f[k] = g[k]
<1> DEFINE S == {j \in Nat : j <= n /\ j <= m /\ f[j] # g[j]}
<1> SUFFICES ASSUME S # {} PROVE FALSE
  OBVIOUS
<1>1. PICK j \in S : \A i \in S : ~ (i < j)
  BY LeastPath
<1>2. j \in 0 .. n /\ j \in 0 .. m /\ f[j] # g[j]
  OBVIOUS
<1>3. /\ f[j] = IF j = 0 THEN 1 ELSE 2 * f[j - 1]
      /\ g[j] = IF j = 0 THEN 1 ELSE 2 * g[j - 1]
  BY <1>2 DEF IsTwoTo
<1>4. j # 0
  BY <1>2, <1>3
<1>5. j - 1 \in Nat /\ j - 1 < j /\ j - 1 <= n /\ j - 1 <= m
  BY <1>2, <1>4
<1>6. j - 1 \notin S
  <2> HIDE DEF S
  <2> QED
    BY <1>1, <1>5
<1>7. f[j - 1] = g[j - 1]
  BY <1>5, <1>6
<1> QED
  BY <1>2, <1>3, <1>4, <1>7

\* TwoTo is what its definition says.
LEMMA TwoToIs == \A n \in Nat : TwoTo[n] = IF n = 0 THEN 1 ELSE 2 * TwoTo[n - 1]
<1> DEFINE first(n) == CHOOSE f : IsTwoTo(f, n)
           g == [n \in Nat |-> first(n)[n]]
           Fits(f) == f = [n \in Nat |-> IF n = 0 THEN 1 ELSE 2 * f[n - 1]]
<1>1. \A n \in Nat : IsTwoTo(first(n), n)
  BY TwoToBegins
<1> HIDE DEF first
<1>2. ASSUME NEW n \in Nat
      PROVE  g[n] = IF n = 0 THEN 1 ELSE 2 * g[n - 1]
  <2>1. first(n)[n] = IF n = 0 THEN 1 ELSE 2 * first(n)[n - 1]
    <3>1. IsTwoTo(first(n), n) /\ n \in 0 .. n
      BY <1>1
    <3> QED
      BY <3>1 DEF IsTwoTo
  <2>2. CASE n = 0
    BY <2>1, <2>2
  <2>3. CASE n # 0
    <3>1. n - 1 \in Nat /\ n - 1 <= n
      BY <2>3
    <3>2. first(n)[n - 1] = first(n - 1)[n - 1]
      BY <1>1, <3>1, TwoToAgrees
    <3> QED
      BY <2>1, <2>3, <3>1, <3>2
  <2> QED
    BY <2>2, <2>3
<1>3. Fits(g)
  <2>1. g = [n \in Nat |-> g[n]]
    OBVIOUS
  <2> HIDE DEF g
  <2> QED
    BY <1>2, <2>1
<1>4. TwoTo = CHOOSE f : Fits(f)
  BY DEF TwoTo
<1> HIDE DEF g
<1>5. Fits(TwoTo)
  <2> HIDE DEF Fits
  <2> QED
    BY <1>3, <1>4
<1> QED
  BY <1>5

\* The powers of two are positive.
LEMMA TwoToPositive == \A n \in Nat : TwoTo[n] \in Nat \ {0}
<1> DEFINE S == {n \in Nat : TwoTo[n] \notin Nat \ {0}}
<1> SUFFICES ASSUME S # {} PROVE FALSE
  OBVIOUS
<1>1. PICK n \in S : \A k \in S : ~ (k < n)
  BY LeastPath
<1>2. n # 0
  BY TwoToIs
<1>3. n - 1 \in Nat /\ n - 1 < n
  BY <1>2
<1>4. n - 1 \notin S
  <2> HIDE DEF S
  <2> QED
    BY <1>1, <1>3
<1>5. TwoTo[n - 1] \in Nat \ {0}
  BY <1>3, <1>4
<1>6. TwoTo[n] = 2 * TwoTo[n - 1]
  BY <1>2, TwoToIs
<1> QED
  BY <1>5, <1>6

\* One more is twice as much.
LEMMA TwoToNext == \A n \in Nat : TwoTo[n + 1] = 2 * TwoTo[n]
<1>1. ASSUME NEW n \in Nat
      PROVE  TwoTo[n + 1] = 2 * TwoTo[n]
  <2>1. n + 1 \in Nat /\ n + 1 # 0 /\ (n + 1) - 1 = n
    OBVIOUS
  <2> QED
    BY <2>1, TwoToIs
<1> QED
  BY <1>1

\* Powers multiply.
LEMMA TwoToPlus ==
    ASSUME NEW a \in Nat, NEW b \in Nat
    PROVE  TwoTo[a + b] = TwoTo[a] * TwoTo[b]
<1> DEFINE S == {n \in Nat : TwoTo[a + n] # TwoTo[a] * TwoTo[n]}
<1> SUFFICES ASSUME S # {} PROVE FALSE
  OBVIOUS
<1>1. PICK n \in S : \A k \in S : ~ (k < n)
  BY LeastPath
<1>2. n # 0
  <2>1. a + 0 = a /\ TwoTo[a] \in Nat /\ TwoTo[0] = 1
    BY TwoToIs, TwoToPositive
  <2> QED
    BY <2>1
<1>3. n - 1 \in Nat /\ n - 1 < n
  BY <1>2
<1>4. n - 1 \notin S
  <2> HIDE DEF S
  <2> QED
    BY <1>1, <1>3
<1>5. TwoTo[a + (n - 1)] = TwoTo[a] * TwoTo[n - 1]
  BY <1>3, <1>4
<1>6. TwoTo[n] = 2 * TwoTo[n - 1]
  BY <1>2, TwoToIs
<1>7. TwoTo[a + n] = 2 * TwoTo[a + (n - 1)]
  <2>1. a + n \in Nat /\ a + n # 0 /\ (a + n) - 1 = a + (n - 1)
    BY <1>2
  <2> QED
    BY <2>1, TwoToIs
<1>8. /\ TwoTo[a] \in Nat /\ TwoTo[n - 1] \in Nat
      /\ 2 * (TwoTo[a] * TwoTo[n - 1]) = TwoTo[a] * (2 * TwoTo[n - 1])
  <2>1. TwoTo[a] \in Nat /\ TwoTo[n - 1] \in Nat
    BY <1>3, TwoToPositive
  <2> QED
    BY <2>1
<1> QED
  BY <1>5, <1>6, <1>7, <1>8

\* A long long holds what fits into it.
LEMMA WrapIs ==
    ASSUME NEW n \in Int
    PROVE  LET top == TwoTo[Width - 1]
           IN  /\ top \in Nat \ {0}
               /\ Wrap(n) \in -top .. top - 1
               /\ n \in -top .. top - 1 => Wrap(n) = n
<1> DEFINE top == TwoTo[Width - 1]
<1>1. Width - 1 \in Nat /\ (Width - 1) + 1 = Width
  BY MeasureAssumption
<1>2. top \in Nat \ {0} /\ TwoTo[Width] = 2 * top
  BY <1>1, TwoToPositive, TwoToNext
<1> HIDE DEF top
<1>3. Wrap(n) = ((n + top) % (2 * top)) - top
  BY <1>2 DEF Wrap, top
<1>4. (n + top) % (2 * top) \in 0 .. 2 * top - 1
  BY <1>2
<1>5. n + top \in 0 .. 2 * top - 1 => (n + top) % (2 * top) = n + top
  BY <1>2
<1> QED
  BY <1>2, <1>3, <1>4, <1>5 DEF top
-----------------------------------------------------------------------------
(* What is below a path.                                                   *)

\* A set of paths that has whatever is in its directories.
Downward(X) == \A r \in Paths \ {Root} : Parent[r] \in X => r \in X

\* The paths in todo and all that is below them.
Under(todo) == {q \in Paths : \A X \in SUBSET Paths : todo \subseteq X /\ Downward(X) => q \in X}

\* What TreeAssumption says of every tree.
LEMMA EveryTree ==
    /\ Paths \subseteq Nat /\ IsFiniteSet(Paths) /\ Root \in Paths
    /\ \A p \in Paths \ {Root} : Parent[p] \in Paths /\ Parent[p] < p
    /\ \A p : Children(p) \subseteq Paths \ {Root} /\ \A q \in Children(p) : Parent[q] = p
    /\ \A q \in Paths \ {Root} : q \in Children(Parent[q])
  BY TreeAssumption DEF Children

\* Under is the least such set.
LEMMA UnderIs ==
    ASSUME NEW todo \in SUBSET Paths
    PROVE  /\ todo \subseteq Under(todo) /\ Under(todo) \subseteq Paths
           /\ Downward(Under(todo))
           /\ \A X \in SUBSET Paths : todo \subseteq X /\ Downward(X) => Under(todo) \subseteq X
<1>1. todo \subseteq Under(todo) /\ Under(todo) \subseteq Paths
  BY DEF Under
<1>2. \A X \in SUBSET Paths : todo \subseteq X /\ Downward(X) => Under(todo) \subseteq X
  BY DEF Under
<1>3. ASSUME NEW r \in Paths \ {Root}, Parent[r] \in Under(todo)
      PROVE  r \in Under(todo)
  <2>1. ASSUME NEW X \in SUBSET Paths, todo \subseteq X, Downward(X)
        PROVE  r \in X
    <3>1. Parent[r] \in X
      BY <1>2, <1>3, <2>1
    <3> QED
      BY <2>1, <3>1 DEF Downward
  <2> QED
    BY <2>1 DEF Under
<1> QED
  BY <1>1, <1>2, <1>3 DEF Downward

\* What is below a path is in todo or in a directory that is below one.
LEMMA UnderComesFrom ==
    ASSUME NEW todo \in SUBSET Paths, NEW q \in Under(todo)
    PROVE  q \in todo \/ (q # Root /\ Parent[q] \in Under(todo))
<1> DEFINE X == {p \in Under(todo) : p \in todo \/ (p # Root /\ Parent[p] \in Under(todo))}
<1>1. X \in SUBSET Paths /\ todo \subseteq X
  BY UnderIs
<1>2. Downward(X)
  <2>1. Downward(Under(todo))
    BY UnderIs
  <2> QED
    BY <2>1 DEF Downward
<1>3. Under(todo) \subseteq X
  <2> HIDE DEF X
  <2> QED
    BY <1>1, <1>2, UnderIs
<1> QED
  BY <1>3

\* The parts of Under.
LEMMA UnderParts ==
    /\ Under({}) = {}
    /\ Under({Root}) = Paths
    /\ \A todo \in SUBSET Paths : \A p \in todo : Under(todo) = Under({p}) \cup Under(todo \ {p})
    /\ \A p \in Paths : Under({p}) = {p} \cup Under(Children(p))
<1>1. Under({}) = {}
  <2>1. {} \in SUBSET Paths /\ Downward({})
    BY DEF Downward
  <2> QED
    BY <2>1, UnderIs
<1>2. Under({Root}) = Paths
  <2>1. {Root} \in SUBSET Paths
    BY EveryTree
  <2>2. Root \in Under({Root}) /\ Under({Root}) \subseteq Paths /\ Downward(Under({Root}))
    BY <2>1, UnderIs
  <2> SUFFICES ASSUME Paths \ Under({Root}) # {} PROVE FALSE
    BY <2>2
  <2>3. PICK p \in Paths \ Under({Root}) : \A q \in Paths \ Under({Root}) : ~ (q < p)
    BY EveryTree, LeastPath
  <2>4. p \in Paths \ {Root}
    BY <2>2
  <2>5. Parent[p] \in Under({Root})
    BY <2>3, <2>4, EveryTree
  <2> QED
    BY <2>2, <2>4, <2>5 DEF Downward
<1>3. ASSUME NEW todo \in SUBSET Paths, NEW p \in todo
      PROVE  Under(todo) = Under({p}) \cup Under(todo \ {p})
  <2>1. {p} \in SUBSET Paths /\ todo \ {p} \in SUBSET Paths
    OBVIOUS
  <2>2. /\ p \in Under({p}) /\ todo \ {p} \subseteq Under(todo \ {p})
        /\ Under({p}) \cup Under(todo \ {p}) \in SUBSET Paths
        /\ Downward(Under({p})) /\ Downward(Under(todo \ {p})) /\ Downward(Under(todo))
    BY <2>1, UnderIs
  <2>3. todo \subseteq Under({p}) \cup Under(todo \ {p})
    BY <2>2
  <2>4. Downward(Under({p}) \cup Under(todo \ {p}))
    BY <2>2 DEF Downward
  <2>5. Under(todo) \subseteq Under({p}) \cup Under(todo \ {p})
    BY <2>2, <2>3, <2>4, UnderIs
  <2>6. Under(todo) \in SUBSET Paths /\ {p} \subseteq Under(todo) /\ todo \ {p} \subseteq Under(todo)
    BY UnderIs
  <2>7. Under({p}) \subseteq Under(todo) /\ Under(todo \ {p}) \subseteq Under(todo)
    BY <2>1, <2>2, <2>6, UnderIs
  <2> QED
    BY <2>5, <2>7
<1>4. ASSUME NEW p \in Paths
      PROVE  Under({p}) = {p} \cup Under(Children(p))
  <2>1. {p} \in SUBSET Paths /\ Children(p) \in SUBSET Paths
    BY EveryTree
  <2>2. /\ p \in Under({p}) /\ Children(p) \subseteq Under(Children(p))
        /\ Under({p}) \in SUBSET Paths /\ {p} \cup Under(Children(p)) \in SUBSET Paths
        /\ Downward(Under({p})) /\ Downward(Under(Children(p)))
    BY <2>1, UnderIs
  <2>3. Downward({p} \cup Under(Children(p)))
    BY <2>2, EveryTree DEF Downward
  <2>4. Under({p}) \subseteq {p} \cup Under(Children(p))
    BY <2>1, <2>2, <2>3, UnderIs
  <2>5. Children(p) \subseteq Under({p})
    BY <2>2, EveryTree DEF Downward
  <2>6. Under(Children(p)) \subseteq Under({p})
    BY <2>1, <2>2, <2>5, UnderIs
  <2> QED
    BY <2>2, <2>4, <2>6
<1> QED
  BY <1>1, <1>2, <1>3, <1>4

\* What is in a directory is not above it.
LEMMA UnderIsBelow ==
    ASSUME NEW d \in Paths, NEW todo \in SUBSET Children(d)
    PROVE  \A q \in Under(todo) : d < q
<1> DEFINE X == {q \in Paths : d < q}
<1>1. X \in SUBSET Paths /\ todo \subseteq X
  <2>1. ASSUME NEW q \in todo
        PROVE  q \in X
    <3>1. q \in Children(d)
      OBVIOUS
    <3>2. q \in Paths \ {Root} /\ Parent[q] = d
      BY <3>1, EveryTree
    <3>3. d < q
      BY <3>2, EveryTree
    <3> QED
      BY <3>2, <3>3
  <2> QED
    BY <2>1
<1>2. Downward(X)
  <2>1. ASSUME NEW r \in Paths \ {Root}, Parent[r] \in X
        PROVE  r \in X
    <3>1. Parent[r] \in Nat /\ r \in Nat /\ d \in Nat /\ Parent[r] < r /\ d < Parent[r]
      BY <2>1, EveryTree
    <3> QED
      BY <3>1
  <2> QED
    BY <2>1 DEF Downward
<1>3. todo \in SUBSET Paths
  BY EveryTree
<1>4. Under(todo) \subseteq X
  <2> HIDE DEF X
  <2> QED
    BY <1>1, <1>2, <1>3, UnderIs
<1> QED
  BY <1>4

\* No name of a directory is below the others.
LEMMA SiblingsApart ==
    ASSUME NEW d \in Paths, NEW todo \in SUBSET Children(d), NEW p \in Children(d), p \notin todo
    PROVE  p \notin Under(todo)
<1>1. todo \in SUBSET Paths /\ p \in Paths \ {Root} /\ Parent[p] = d
  BY EveryTree
<1> DEFINE X == Under(todo) \ {p}
<1>2. X \in SUBSET Paths /\ todo \subseteq X /\ Downward(Under(todo))
  BY <1>1, UnderIs
<1>3. d \notin Under(todo)
  <2>1. d \in Under(todo) => d < d
    BY UnderIsBelow
  <2>2. d \in Nat
    BY EveryTree
  <2> QED
    BY <2>1, <2>2
<1>4. Downward(X)
  BY <1>1, <1>2, <1>3 DEF Downward
<1>5. Under(todo) \subseteq X
  <2> HIDE DEF X
  <2> QED
    BY <1>1, <1>2, <1>4, UnderIs
<1> QED
  BY <1>5

\* What is below one name of a directory is not below another one.
LEMMA UnderApart ==
    ASSUME NEW d \in Paths, NEW todo \in SUBSET Children(d), NEW p \in todo
    PROVE  Under({p}) \cap Under(todo \ {p}) = {}
<1> DEFINE rest == todo \ {p}
           S == Under({p}) \cap Under(rest)
<1>1. /\ {p} \in SUBSET Children(d) /\ rest \in SUBSET Children(d) /\ p \in Children(d) /\ p \notin rest
      /\ {p} \in SUBSET Paths /\ rest \in SUBSET Paths
  BY EveryTree
<1> HIDE DEF rest
<1> SUFFICES ASSUME S # {} PROVE FALSE
  BY DEF rest
<1>2. S \in SUBSET Nat /\ S \in SUBSET Paths
  BY <1>1, UnderIs, EveryTree
<1>3. PICK q \in S : \A r \in S : ~ (r < q)
  <2> HIDE DEF S
  <2> QED
    BY <1>2, LeastPath
<1>4. q \notin {p}
  BY <1>1, SiblingsApart
<1>5. q \notin rest
  BY <1>1, SiblingsApart
<1>6. q # Root /\ Parent[q] \in Under({p}) /\ Parent[q] \in Under(rest)
  BY <1>1, <1>4, <1>5, UnderComesFrom
<1>7. Parent[q] < q
  BY <1>2, <1>6, EveryTree
<1> QED
  BY <1>3, <1>6, <1>7

-----------------------------------------------------------------------------
(* Sizes of sets, by which the recursions of this module come to an end.   *)

\* A collection that is not empty has a member of least rank.
LEMMA LeastRank ==
    ASSUME NEW F, F # {}, NEW rank, \A x \in F : rank[x] \in Nat
    PROVE  \E x \in F : \A y \in F : ~ (rank[y] < rank[x])
<1> DEFINE S == {rank[x] : x \in F}
<1>1. S \in SUBSET Nat /\ S # {}
  OBVIOUS
<1>2. PICK n \in S : \A m \in S : ~ (m < n)
  <2> HIDE DEF S
  <2> QED
    BY <1>1, LeastPath
<1> QED
  BY <1>2

\* The number of paths a call of FolderSize has still before it.
Rank == [todo \in Listings |-> Cardinality(Under(todo))]

\* Without one of them, and in a nested call, there are fewer.
LEMMA RankFalls ==
    /\ \A todo \in Listings : todo \in SUBSET Paths /\ Rank[todo] \in Nat /\ Rank[todo] <= Cardinality(Paths)
    /\ \A p : Children(p) \in SUBSET Paths
    /\ \A p \in Paths : Children(p) \in Listings
    /\ \A todo \in Listings : \A p \in todo :
        /\ p \in Paths \ {Root}
        /\ todo \ {p} \in Listings /\ Rank[todo \ {p}] < Rank[todo]
        /\ Children(p) \in Listings /\ Rank[Children(p)] < Rank[todo]
<1>1. \A p : Children(p) \in SUBSET Paths
  BY EveryTree
<1>2. \A p \in Paths : Children(p) \in Listings
  BY DEF Listings
<1>3. ASSUME NEW todo \in Listings
      PROVE  /\ todo \in SUBSET Paths
             /\ Rank[todo] = Cardinality(Under(todo)) /\ IsFiniteSet(Under(todo))
             /\ Rank[todo] \in Nat /\ Rank[todo] <= Cardinality(Paths)
  <2>1. todo \in SUBSET Paths
    BY EveryTree DEF Listings
  <2>2. Under(todo) \in SUBSET Paths
    BY <2>1, UnderIs
  <2>3. IsFiniteSet(Under(todo)) /\ Cardinality(Under(todo)) <= Cardinality(Paths)
    BY <2>2, EveryTree, FS_Subset
  <2>4. Cardinality(Under(todo)) \in Nat
    BY <2>3, FS_CardinalityType
  <2> QED
    BY <2>1, <2>3, <2>4 DEF Rank
<1>4. ASSUME NEW todo \in Listings, NEW p \in todo
      PROVE  /\ p \in Paths \ {Root}
             /\ todo \ {p} \in Listings /\ Rank[todo \ {p}] < Rank[todo]
             /\ Children(p) \in Listings /\ Rank[Children(p)] < Rank[todo]
  <2>1. PICK d \in Paths : todo \in SUBSET Children(d)
    BY DEF Listings
  <2>2. p \in Paths \ {Root} /\ p \in Children(d)
    BY <2>1, EveryTree
  <2>3. todo \ {p} \in Listings /\ Children(p) \in Listings
    BY <1>2, <2>1, <2>2 DEF Listings
  <2>4. /\ todo \in SUBSET Paths /\ {p} \in SUBSET Paths /\ p \in Under({p})
        /\ Under(todo) = Under({p}) \cup Under(todo \ {p})
        /\ Under({p}) = {p} \cup Under(Children(p))
    BY <1>3, <2>2, UnderParts, UnderIs
  <2>5. p \notin Under(todo \ {p})
    BY <2>1, <2>4, UnderApart
  <2>6. p \notin Under(Children(p))
    <3>1. p \in Under(Children(p)) => p < p
      BY <2>2, UnderIsBelow
    <3> QED
      BY <2>2, <3>1, EveryTree
  <2>7. Under(todo \ {p}) \in SUBSET Under(todo) /\ Under(todo \ {p}) # Under(todo)
    BY <2>4, <2>5
  <2>8. Under(Children(p)) \in SUBSET Under(todo) /\ Under(Children(p)) # Under(todo)
    BY <2>4, <2>6
  <2>9. /\ Cardinality(Under(todo \ {p})) <= Cardinality(Under(todo))
        /\ Cardinality(Under(todo \ {p})) # Cardinality(Under(todo))
    BY <1>3, <2>7, FS_Subset
  <2>10. /\ Cardinality(Under(Children(p))) <= Cardinality(Under(todo))
         /\ Cardinality(Under(Children(p))) # Cardinality(Under(todo))
    BY <1>3, <2>8, FS_Subset
  <2>11. /\ Rank[todo \ {p}] = Cardinality(Under(todo \ {p})) /\ Rank[todo \ {p}] \in Nat
         /\ Rank[Children(p)] = Cardinality(Under(Children(p))) /\ Rank[Children(p)] \in Nat
         /\ Rank[todo] = Cardinality(Under(todo)) /\ Rank[todo] \in Nat
    BY <1>3, <2>3
  <2> QED
    BY <2>2, <2>3, <2>9, <2>10, <2>11
<1> QED
  BY <1>1, <1>2, <1>3, <1>4

-----------------------------------------------------------------------------
(* FolderSize.                                                             *)

\* The totals that the name p leads to, of which a nested call can return inner.
Through(inner, p, sum) ==
    CASE p \in Directories -> {Wrap(sum + i) : i \in inner[sum]}
      [] Type[p] = "special" -> {sum}
      [] OTHER -> {Wrap(sum + Length[p])}

\* What a call can return, when f says what the calls that follow can.
Returns(f, todo) == [sum \in Int |->
    IF todo = {} THEN {sum}
    ELSE UNION {UNION {f[todo \ {p}][next] : next \in Through(f[Children(p)], p, sum)} : p \in todo}]

\* The calls with fewer than n paths before them.
Shorter(n) == {todo \in Listings : Rank[todo] < n}

\* What a call returns depends on the shorter ones only.
LEMMA ReturnsAgree ==
    ASSUME NEW f, NEW g, NEW todo,
           \A p \in todo : f[todo \ {p}] = g[todo \ {p}] /\ f[Children(p)] = g[Children(p)]
    PROVE  Returns(f, todo) = Returns(g, todo)
<1> DEFINE F(h, sum, p) == UNION {h[todo \ {p}][next] : next \in Through(h[Children(p)], p, sum)}
<1>1. ASSUME NEW sum, NEW p \in todo
      PROVE  F(f, sum, p) = F(g, sum, p)
  BY <1>1
<1>2. \A h : Returns(h, todo) = [sum \in Int |-> IF todo = {} THEN {sum} ELSE UNION {F(h, sum, p) : p \in todo}]
  BY DEF Returns
<1> HIDE DEF F
<1> DEFINE all(h, sum) == UNION {F(h, sum, p) : p \in todo}
<1>3. \A sum : all(f, sum) = all(g, sum)
  BY <1>1
<1>4. \A h : Returns(h, todo) = [sum \in Int |-> IF todo = {} THEN {sum} ELSE all(h, sum)]
  BY <1>2
<1> HIDE DEF all
<1> QED
  BY <1>3, <1>4

\* There is a function that satisfies the definition of FolderSizes.
LEMMA FolderSizesExists == \E f : f = [todo \in Listings |-> Returns(f, todo)]
<1> DEFINE Fits(f, n) == f = [todo \in Shorter(n) |-> Returns(f, todo)]
           S == {n \in Nat : ~ \E f : Fits(f, n)}
<1>1. S = {}
  <2> SUFFICES ASSUME S # {} PROVE FALSE
    OBVIOUS
  <2>1. PICK n \in S : \A k \in S : ~ (k < n)
    BY LeastPath
  <2>2. CASE n = 0
    <3> DEFINE f == [todo \in {} |-> {}]
    <3>1. Shorter(0) = {}
      <4>1. \A todo \in Listings : Rank[todo] \in Nat
        BY RankFalls
      <4> QED
        BY <4>1 DEF Shorter
    <3>2. Fits(f, 0)
      BY <3>1
    <3> QED
      BY <2>1, <2>2, <3>2
  <2>3. CASE n # 0
    <3>1. n \in Nat /\ n - 1 \in Nat /\ n - 1 < n
      BY <2>3
    <3>2. n - 1 \notin S
      <4> HIDE DEF S
      <4> QED
        BY <2>1, <3>1
    <3>3. PICK g : Fits(g, n - 1)
      BY <3>1, <3>2
    <3> DEFINE f == [todo \in Shorter(n) |-> Returns(g, todo)]
    <3>4. ASSUME NEW todo \in Shorter(n - 1)
          PROVE  todo \in Shorter(n) /\ f[todo] = g[todo]
      <4>1. todo \in Shorter(n)
        BY <3>1, RankFalls DEF Shorter
      <4>2. g[todo] = Returns(g, todo)
        BY <3>3
      <4> QED
        BY <4>1, <4>2
    <3>5. ASSUME NEW todo \in Shorter(n)
          PROVE  f[todo] = Returns(f, todo)
      <4>1. ASSUME NEW p \in todo
            PROVE  todo \ {p} \in Shorter(n - 1) /\ Children(p) \in Shorter(n - 1)
        <5>1. todo \in Listings /\ Rank[todo] < n /\ Rank[todo] \in Nat
          BY RankFalls DEF Shorter
        <5>2. /\ todo \ {p} \in Listings /\ Rank[todo \ {p}] < Rank[todo] /\ Rank[todo \ {p}] \in Nat
              /\ Children(p) \in Listings /\ Rank[Children(p)] < Rank[todo] /\ Rank[Children(p)] \in Nat
          BY <5>1, RankFalls
        <5> QED
          BY <3>1, <5>1, <5>2 DEF Shorter
      <4>2. \A p \in todo : f[todo \ {p}] = g[todo \ {p}] /\ f[Children(p)] = g[Children(p)]
        BY <3>4, <4>1
      <4>3. f[todo] = Returns(g, todo)
        OBVIOUS
      <4> HIDE DEF f
      <4> QED
        BY <4>2, <4>3, ReturnsAgree
    <3>6. f = [todo \in Shorter(n) |-> f[todo]]
      OBVIOUS
    <3> HIDE DEF f
    <3>7. Fits(f, n)
      BY <3>5, <3>6
    <3> QED
      BY <2>1, <3>7
  <2> QED
    BY <2>2, <2>3
<1>2. Cardinality(Paths) \in Nat
  BY EveryTree, FS_CardinalityType
<1>3. PICK f : Fits(f, Cardinality(Paths) + 1)
  <2>1. Cardinality(Paths) + 1 \in Nat /\ Cardinality(Paths) + 1 \notin S
    BY <1>1, <1>2
  <2> QED
    BY <2>1
<1>4. Shorter(Cardinality(Paths) + 1) = Listings
  BY <1>2, RankFalls DEF Shorter
<1> QED
  BY <1>3, <1>4

\* FolderSizes is what its definition says.
LEMMA FolderSizesIs == \A todo \in Listings : FolderSizes[todo] = Returns(FolderSizes, todo)
<1> DEFINE Fits(f) == f = [todo \in Listings |-> Returns(f, todo)]
<1>1. FolderSizes = CHOOSE f : Fits(f)
  BY DEF FolderSizes, Returns, Through
<1>2. \E f : Fits(f)
  BY FolderSizesExists
<1>3. Fits(FolderSizes)
  <2> HIDE DEF Fits
  <2> QED
    BY <1>1, <1>2
<1> QED
  BY <1>3
-----------------------------------------------------------------------------
(* The total.                                                              *)

\* What a long long holds.
LongLong == -TwoTo[Width - 1] .. TwoTo[Width - 1] - 1

\* The value of what a call can return.
LEMMA ReturnsAre ==
    ASSUME NEW todo \in Listings, NEW sum \in Int, NEW s \in FolderSizes[todo][sum]
    PROVE  IF todo = {} THEN s = sum
           ELSE \E p \in todo : \E next \in Through(FolderSizes[Children(p)], p, sum) :
                    s \in FolderSizes[todo \ {p}][next]
<1>1. FolderSizes[todo][sum] = Returns(FolderSizes, todo)[sum]
  BY FolderSizesIs
<1>2. Returns(FolderSizes, todo)[sum] =
        IF todo = {} THEN {sum}
        ELSE UNION {UNION {FolderSizes[todo \ {p}][next] :
                        next \in Through(FolderSizes[Children(p)], p, sum)} : p \in todo}
  BY DEF Returns
<1> DEFINE follow(p) == UNION {FolderSizes[todo \ {p}][next] :
                                   next \in Through(FolderSizes[Children(p)], p, sum)}
<1>3. ASSUME NEW p \in todo, s \in follow(p)
      PROVE  \E next \in Through(FolderSizes[Children(p)], p, sum) : s \in FolderSizes[todo \ {p}][next]
  BY <1>3
<1>4. FolderSizes[todo][sum] = IF todo = {} THEN {sum} ELSE UNION {follow(p) : p \in todo}
  BY <1>1, <1>2
<1> HIDE DEF follow
<1>5. CASE todo = {}
  BY <1>4, <1>5
<1>6. CASE todo # {}
  <2>1. PICK p \in todo : s \in follow(p)
    BY <1>4, <1>6
  <2> QED
    BY <1>3, <1>6, <2>1
<1> QED
  BY <1>5, <1>6

\* A call that has names before it takes one of them.
LEMMA ReturnsFrom ==
    ASSUME NEW t \in Listings, t # {}, NEW n \in Int, NEW r \in FolderSizes[t][n]
    PROVE  \E p \in t : \E next \in Through(FolderSizes[Children(p)], p, n) :
             r \in FolderSizes[t \ {p}][next]
  BY ReturnsAre

\* A total that starts as a long long stays one.
LEMMA TotalsFit ==
    ASSUME NEW todo \in Listings, NEW sum \in LongLong
    PROVE  FolderSizes[todo][sum] \subseteq LongLong
<1> DEFINE F == {t \in Listings : ~ \A n \in LongLong : FolderSizes[t][n] \subseteq LongLong}
<1> SUFFICES ASSUME F # {} PROVE FALSE
  OBVIOUS
<1>1. \A t \in F : Rank[t] \in Nat
  BY RankFalls
<1>2. PICK t \in F : \A u \in F : ~ (Rank[u] < Rank[t])
  <2> HIDE DEF F
  <2> QED
    BY <1>1, LeastRank
<1>3. PICK n \in LongLong : ~ (FolderSizes[t][n] \subseteq LongLong)
  OBVIOUS
<1> PICK s \in FolderSizes[t][n] : s \notin LongLong
  BY <1>3
<1>4. LongLong \subseteq Int /\ \A k \in Int : Wrap(k) \in LongLong
  BY WrapIs DEF LongLong
<1>5. t # {} /\ t \in Listings /\ n \in Int
  <2>1. t \in Listings /\ n \in Int
    BY <1>4
  <2> HIDE DEF F
  <2>2. t = {} => s = n
    BY <2>1, ReturnsAre
  <2> QED
    BY <2>1, <2>2
<1>6. PICK p \in t : \E next \in Through(FolderSizes[Children(p)], p, n) :
          s \in FolderSizes[t \ {p}][next]
  <2> HIDE DEF F
  <2> QED
    BY <1>5, ReturnsAre
<1> PICK next \in Through(FolderSizes[Children(p)], p, n) : s \in FolderSizes[t \ {p}][next]
  BY <1>6
<1>7. /\ t \ {p} \in Listings /\ t \ {p} \notin F
      /\ Children(p) \in Listings /\ Children(p) \notin F /\ p \in Paths
  <2>1. /\ t \ {p} \in Listings /\ Rank[t \ {p}] < Rank[t]
        /\ Children(p) \in Listings /\ Rank[Children(p)] < Rank[t] /\ p \in Paths
    BY <1>5, RankFalls
  <2> HIDE DEF F
  <2> QED
    BY <1>2, <2>1
<1>8. /\ FolderSizes[Children(p)][n] \subseteq LongLong
      /\ next \in LongLong => FolderSizes[t \ {p}][next] \subseteq LongLong
  BY <1>7
<1>9. next \in LongLong
  <2>1. CASE p \in Directories
    <3> DEFINE inner == FolderSizes[Children(p)][n]
    <3>1. Through(FolderSizes[Children(p)], p, n) = {Wrap(n + i) : i \in inner}
      <4> DEFINE set == {Wrap(n + i) : i \in inner}
      <4>1. Through(FolderSizes[Children(p)], p, n) =
                CASE p \in Directories -> set
                  [] Type[p] = "special" -> {n}
                  [] OTHER -> {Wrap(n + Length[p])}
        BY DEF Through
      <4> HIDE DEF set
      <4>2. Through(FolderSizes[Children(p)], p, n) = set
        BY <1>7, <2>1, <4>1
      <4> QED
        BY <4>2 DEF set
    <3> HIDE DEF inner
    <3>2. PICK i \in inner : next = Wrap(n + i)
      BY <3>1
    <3>3. n + i \in Int
      <4>1. i \in LongLong
        BY <1>8 DEF inner
      <4> QED
        BY <1>4, <1>5, <4>1
    <3> QED
      BY <1>4, <3>2, <3>3
  <2>2. CASE p \notin Directories /\ Type[p] = "special"
    BY <1>6, <2>2 DEF Through
  <2>3. CASE p \notin Directories /\ Type[p] # "special"
    <3>1. next = Wrap(n + Length[p])
      BY <1>6, <2>3 DEF Through
    <3>2. Length[p] \in Int
      <4>1. Length[p] \in 0 .. TwoTo[Width - 1] - 1
        BY <1>7, MeasureAssumption
      <4> QED
        BY <4>1
    <3> QED
      BY <1>4, <1>5, <3>1, <3>2
  <2> QED
    BY <2>1, <2>2, <2>3
<1> QED
  BY <1>3, <1>6, <1>8, <1>9

\* FileTransferSize returns a long long.
LEMMA TotalFits ==
    ASSUME Type \in Types
    PROVE  FileTransferSizes \subseteq LongLong
<1>1. TwoTo[Width - 1] \in Nat \ {0}
  BY TwoToPositive, MeasureAssumption
<1>2. 0 \in LongLong
  BY <1>1 DEF LongLong
<1>3. CASE Root \in Directories
  <2>1. Children(Root) \in Listings
    BY RankFalls, EveryTree
  <2> QED
    BY <1>2, <1>3, <2>1, TotalsFit DEF FileTransferSizes
<1>4. CASE Root \notin Directories
  <2>1. Length[Root] \in 0 .. TwoTo[Width - 1] - 1
    BY EveryTree, MeasureAssumption
  <2>2. Length[Root] \in LongLong
    BY <1>1, <2>1 DEF LongLong
  <2> QED
    BY <1>4, <2>2 DEF FileTransferSizes
<1> QED
  BY <1>3, <1>4

-----------------------------------------------------------------------------
(* The sum of lengths.                                                     *)

\* What SumOf adds up for S, when f says what it is for smaller sets.
Adds(f, S) == IF S = {} THEN 0 ELSE LET p == CHOOSE p \in S : TRUE IN Length[p] + f[S \ {p}]

\* The sets of fewer than n paths.
Smaller(n) == {S \in SUBSET Paths : Cardinality(S) < n}

\* Without one of its paths a set is smaller.
LEMMA OneLess ==
    /\ \A S \in SUBSET Paths : Cardinality(S) \in Nat
    /\ \A S \in SUBSET Paths : \A p \in S :
            S \ {p} \in SUBSET Paths /\ Cardinality(S \ {p}) = Cardinality(S) - 1
<1>1. \A S \in SUBSET Paths : IsFiniteSet(S)
  BY EveryTree, FS_Subset
<1> QED
  BY <1>1, FS_CardinalityType, FS_RemoveElement

\* There is a function that satisfies the definition of SumOf.
LEMMA SumOfExists == \E f : f = [S \in SUBSET Paths |-> Adds(f, S)]
<1> DEFINE Fits(f, n) == f = [S \in Smaller(n) |-> Adds(f, S)]
           B == {n \in Nat : ~ \E f : Fits(f, n)}
<1>1. B = {}
  <2> SUFFICES ASSUME B # {} PROVE FALSE
    OBVIOUS
  <2>1. PICK n \in B : \A k \in B : ~ (k < n)
    BY LeastPath
  <2>2. CASE n = 0
    <3> DEFINE f == [S \in {} |-> 0]
    <3>1. Smaller(0) = {}
      BY OneLess DEF Smaller
    <3>2. Fits(f, 0)
      BY <3>1
    <3> QED
      BY <2>1, <2>2, <3>2
  <2>3. CASE n # 0
    <3>1. n \in Nat /\ n - 1 \in Nat /\ n - 1 < n
      BY <2>3
    <3>2. n - 1 \notin B
      <4> HIDE DEF B
      <4> QED
        BY <2>1, <3>1
    <3>3. PICK g : Fits(g, n - 1)
      BY <3>1, <3>2
    <3> DEFINE f == [S \in Smaller(n) |-> Adds(g, S)]
    <3>4. ASSUME NEW S \in Smaller(n - 1)
          PROVE  S \in Smaller(n) /\ f[S] = g[S]
      <4>1. S \in Smaller(n)
        BY <3>1, OneLess DEF Smaller
      <4>2. g[S] = Adds(g, S)
        BY <3>3
      <4> QED
        BY <4>1, <4>2
    <3>5. ASSUME NEW S \in Smaller(n)
          PROVE  f[S] = Adds(f, S)
      <4>1. ASSUME NEW p \in S
            PROVE  S \ {p} \in Smaller(n - 1)
        <5>1. S \in SUBSET Paths /\ Cardinality(S) < n /\ Cardinality(S) \in Nat
          BY OneLess DEF Smaller
        <5>2. S \ {p} \in SUBSET Paths /\ Cardinality(S \ {p}) = Cardinality(S) - 1
          BY <5>1, OneLess
        <5> QED
          BY <3>1, <5>1, <5>2 DEF Smaller
      <4>2. \A p \in S : f[S \ {p}] = g[S \ {p}]
        BY <3>4, <4>1
      <4>3. f[S] = Adds(g, S)
        OBVIOUS
      <4> HIDE DEF f
      <4>4. S # {} => (CHOOSE p \in S : TRUE) \in S
        OBVIOUS
      <4> QED
        BY <4>2, <4>3, <4>4 DEF Adds
    <3>6. f = [S \in Smaller(n) |-> f[S]]
      OBVIOUS
    <3> HIDE DEF f
    <3>7. Fits(f, n)
      BY <3>5, <3>6
    <3> QED
      BY <2>1, <3>7
  <2> QED
    BY <2>2, <2>3
<1>2. Cardinality(Paths) \in Nat
  BY OneLess
<1>3. PICK f : Fits(f, Cardinality(Paths) + 1)
  <2>1. Cardinality(Paths) + 1 \in Nat /\ Cardinality(Paths) + 1 \notin B
    BY <1>1, <1>2
  <2> QED
    BY <2>1
<1>4. Smaller(Cardinality(Paths) + 1) = SUBSET Paths
  <2>1. \A S \in SUBSET Paths : Cardinality(S) \in Nat /\ Cardinality(S) <= Cardinality(Paths)
    BY EveryTree, OneLess, FS_Subset
  <2> QED
    BY <1>2, <2>1 DEF Smaller
<1> QED
  BY <1>3, <1>4

\* SumOf is what its definition says.
LEMMA SumOfIs == \A S \in SUBSET Paths : SumOf[S] = Adds(SumOf, S)
<1> DEFINE Fits(f) == f = [S \in SUBSET Paths |-> Adds(f, S)]
<1>1. SumOf = CHOOSE f : Fits(f)
  BY DEF SumOf, Adds
<1>2. \E f : Fits(f)
  BY SumOfExists
<1>3. Fits(SumOf)
  <2> HIDE DEF Fits
  <2> QED
    BY <1>1, <1>2
<1> QED
  BY <1>3

\* A length is a number.
LEMMA LengthIs == \A p \in Paths : Length[p] \in Nat
<1>1. \A p \in Paths : Length[p] \in 0 .. TwoTo[Width - 1] - 1
  BY MeasureAssumption
<1> QED
  BY <1>1

\* In whatever order it is taken, a sum is a number.
LEMMA SumIsNat == \A S \in SUBSET Paths : SumOf[S] \in Nat
<1> DEFINE F == {S \in SUBSET Paths : SumOf[S] \notin Nat}
           size == [S \in SUBSET Paths |-> Cardinality(S)]
<1> SUFFICES ASSUME F # {} PROVE FALSE
  OBVIOUS
<1>1. \A S \in F : size[S] \in Nat
  BY OneLess
<1>2. PICK S \in F : \A T \in F : ~ (size[T] < size[S])
  <2> HIDE DEF F, size
  <2> QED
    BY <1>1, LeastRank
<1> DEFINE p == CHOOSE p \in S : TRUE
<1>3. SumOf[S] = IF S = {} THEN 0 ELSE Length[p] + SumOf[S \ {p}]
  BY SumOfIs DEF Adds
<1>4. S # {} /\ p \in S
  BY <1>3
<1> HIDE DEF p
<1>5. S \ {p} \in SUBSET Paths /\ size[S \ {p}] < size[S]
  BY <1>4, OneLess
<1>6. S \ {p} \notin F
  <2> HIDE DEF F, size
  <2> QED
    BY <1>2, <1>5
<1>7. SumOf[S \ {p}] \in Nat
  BY <1>5, <1>6
<1>8. Length[p] \in Nat
  BY <1>4, LengthIs
<1> QED
  BY <1>3, <1>4, <1>7, <1>8

\* Any of the paths may be the one that is added first.
LEMMA SumTakes ==
    ASSUME NEW A \in SUBSET Paths, NEW a \in A
    PROVE  SumOf[A] = Length[a] + SumOf[A \ {a}]
<1> DEFINE F == {S \in SUBSET Paths : ~ \A p \in S : SumOf[S] = Length[p] + SumOf[S \ {p}]}
           size == [S \in SUBSET Paths |-> Cardinality(S)]
<1> SUFFICES ASSUME F # {} PROVE FALSE
  OBVIOUS
<1>1. \A S \in F : size[S] \in Nat
  BY OneLess
<1>2. PICK S \in F : \A T \in F : ~ (size[T] < size[S])
  <2> HIDE DEF F, size
  <2> QED
    BY <1>1, LeastRank
<1>3. PICK p \in S : SumOf[S] # Length[p] + SumOf[S \ {p}]
  OBVIOUS
<1> DEFINE q == CHOOSE q \in S : TRUE
<1>4. S # {} /\ q \in S /\ p \in Paths /\ q \in Paths
  OBVIOUS
<1>5. SumOf[S] = Length[q] + SumOf[S \ {q}]
  BY <1>4, SumOfIs DEF Adds
<1> HIDE DEF q
<1>6. p # q
  BY <1>3, <1>5
<1>7. /\ S \ {p} \in SUBSET Paths /\ size[S \ {p}] < size[S]
      /\ S \ {q} \in SUBSET Paths /\ size[S \ {q}] < size[S]
  <2>1. ASSUME NEW x \in S
        PROVE  S \ {x} \in SUBSET Paths /\ size[S \ {x}] < size[S]
    BY OneLess
  <2> QED
    BY <1>4, <2>1
<1>8. S \ {p} \notin F /\ S \ {q} \notin F
  <2> HIDE DEF F, size
  <2> QED
    BY <1>2, <1>7
<1>9. SumOf[S \ {p}] = Length[q] + SumOf[(S \ {p}) \ {q}]
  BY <1>4, <1>6, <1>7, <1>8
<1>10. SumOf[S \ {q}] = Length[p] + SumOf[(S \ {q}) \ {p}]
  BY <1>4, <1>6, <1>7, <1>8
<1>11. (S \ {q}) \ {p} = (S \ {p}) \ {q} /\ (S \ {p}) \ {q} \in SUBSET Paths
  OBVIOUS
<1>12. /\ SumOf[(S \ {p}) \ {q}] \in Nat /\ Length[p] \in Nat /\ Length[q] \in Nat
  BY <1>4, <1>11, SumIsNat, LengthIs
<1>13. SumOf[(S \ {q}) \ {p}] = SumOf[(S \ {p}) \ {q}]
  BY <1>11
<1> QED
  BY <1>3, <1>5, <1>9, <1>10, <1>12, <1>13

\* The sum of two sets that have no path in common.
LEMMA SumOfBoth ==
    ASSUME NEW A \in SUBSET Paths, NEW B \in SUBSET Paths, A \cap B = {}
    PROVE  SumOf[A \cup B] = SumOf[A] + SumOf[B]
<1> DEFINE F == {S \in SUBSET A : SumOf[S \cup B] # SumOf[S] + SumOf[B]}
           size == [S \in SUBSET Paths |-> Cardinality(S)]
<1> SUFFICES ASSUME F # {} PROVE FALSE
  OBVIOUS
<1>1. \A S \in F : size[S] \in Nat
  BY OneLess
<1>2. PICK S \in F : \A T \in F : ~ (size[T] < size[S])
  <2> HIDE DEF F, size
  <2> QED
    BY <1>1, LeastRank
<1>3. SumOf[B] \in Nat /\ SumOf[{}] = 0
  BY SumIsNat, SumOfIs DEF Adds
<1>4. S # {}
  <2>1. S = {} => SumOf[S \cup B] = SumOf[B] /\ SumOf[S] = 0
    BY <1>3
  <2>2. SumOf[S \cup B] # SumOf[S] + SumOf[B]
    OBVIOUS
  <2> QED
    BY <1>3, <2>1, <2>2
<1>5. PICK p \in S : TRUE
  BY <1>4
<1>6. S \ {p} \in SUBSET A /\ S \in SUBSET Paths /\ p \in Paths /\ p \notin B
  OBVIOUS
<1>7. size[S \ {p}] < size[S]
  BY <1>6, OneLess
<1>8. S \ {p} \notin F
  <2> HIDE DEF F, size
  <2> QED
    BY <1>2, <1>7
<1>9. SumOf[(S \ {p}) \cup B] = SumOf[S \ {p}] + SumOf[B]
  BY <1>6, <1>8
<1>10. SumOf[S] = Length[p] + SumOf[S \ {p}]
  BY <1>6, SumTakes
<1>11. SumOf[S \cup B] = Length[p] + SumOf[(S \ {p}) \cup B]
  <2>1. S \cup B \in SUBSET Paths /\ p \in S \cup B /\ (S \cup B) \ {p} = (S \ {p}) \cup B
    BY <1>6
  <2>2. SumOf[S \cup B] = Length[p] + SumOf[(S \cup B) \ {p}]
    BY <2>1, SumTakes
  <2> QED
    BY <2>1, <2>2
<1>12. Length[p] \in Nat /\ SumOf[S \ {p}] \in Nat
  <2>1. S \ {p} \in SUBSET Paths
    BY <1>6
  <2> QED
    BY <1>6, <2>1, LengthIs, SumIsNat
<1>13. SumOf[S \cup B] = SumOf[S] + SumOf[B]
  BY <1>3, <1>9, <1>10, <1>11, <1>12
<1> QED
  BY <1>13
-----------------------------------------------------------------------------
(* How far the total can be from the sum of lengths.                       *)

\* What is in a tree.
Regular(X) == {p \in X : Type[p] \in {"file", "fleeting"}}
Content(todo) == SumOf[Regular(Under(todo))]
Nested(todo) == Cardinality(Under(todo) \cap Directories)

\* Two sets of paths that have none in common.
LEMMA TwoSets ==
    ASSUME Type \in Types, NEW A \in SUBSET Paths, NEW B \in SUBSET Paths, A \cap B = {}
    PROVE  /\ SumOf[Regular(A)] \in Nat /\ Cardinality(A \cap Directories) \in Nat
           /\ SumOf[Regular(A \cup B)] = SumOf[Regular(A)] + SumOf[Regular(B)]
           /\ Cardinality((A \cup B) \cap Directories) =
                Cardinality(A \cap Directories) + Cardinality(B \cap Directories)
<1>1. /\ Regular(A) \in SUBSET Paths /\ Regular(B) \in SUBSET Paths
      /\ Regular(A) \cap Regular(B) = {} /\ Regular(A \cup B) = Regular(A) \cup Regular(B)
  BY DEF Regular
<1>2. SumOf[Regular(A)] \in Nat /\ SumOf[Regular(A \cup B)] = SumOf[Regular(A)] + SumOf[Regular(B)]
  BY <1>1, SumIsNat, SumOfBoth
<1> DEFINE C == A \cap Directories
           D == B \cap Directories
<1>3. C \in SUBSET Paths /\ D \in SUBSET Paths /\ C \cap D = {} /\ (A \cup B) \cap Directories = C \cup D
  OBVIOUS
<1> HIDE DEF C, D
<1>4. IsFiniteSet(C) /\ IsFiniteSet(D) /\ Cardinality(C) \in Nat /\ Cardinality(D) \in Nat
  BY <1>3, EveryTree, OneLess, FS_Subset
<1>5. Cardinality(C \cup D) = Cardinality(C) + Cardinality(D)
  <2>1. Cardinality(C \cup D) = Cardinality(C) + Cardinality(D) - Cardinality(C \cap D)
    BY <1>4, FS_Union
  <2>2. Cardinality(C \cap D) = 0
    BY <1>3, FS_EmptySet
  <2> QED
    BY <1>4, <2>1, <2>2
<1> QED
  BY <1>2, <1>3, <1>4, <1>5 DEF C, D

\* What a name adds to the tree, and what is in it.
LEMMA TreeParts ==
    ASSUME Type \in Types, NEW todo \in Listings, NEW p \in todo
    PROVE  LET own == IF Type[p] \in {"file", "fleeting"} THEN Length[p] ELSE 0
               one == IF p \in Directories THEN 1 ELSE 0
           IN  /\ Content(todo) = own + Content(Children(p)) + Content(todo \ {p})
               /\ Nested(todo) = one + Nested(Children(p)) + Nested(todo \ {p})
               /\ Content(Children(p)) \in Nat /\ Content(todo \ {p}) \in Nat
               /\ Nested(Children(p)) \in Nat /\ Nested(todo \ {p}) \in Nat
               /\ p \notin Directories => Content(Children(p)) = 0 /\ Nested(Children(p)) = 0
<1> DEFINE own == IF Type[p] \in {"file", "fleeting"} THEN Length[p] ELSE 0
           one == IF p \in Directories THEN 1 ELSE 0
           rest == todo \ {p}
<1>1. PICK d \in Paths : todo \in SUBSET Children(d)
  BY DEF Listings
<1>2. /\ p \in Paths /\ todo \in SUBSET Paths /\ rest \in SUBSET Paths /\ {p} \in SUBSET Paths
      /\ Children(p) \in SUBSET Paths
  BY RankFalls
<1>3. /\ Under(todo) = Under({p}) \cup Under(rest) /\ Under({p}) \cap Under(rest) = {}
      /\ Under({p}) = {p} \cup Under(Children(p))
  BY <1>1, <1>2, UnderParts, UnderApart
<1>4. {p} \cap Under(Children(p)) = {}
  <2>1. p \in Under(Children(p)) => p < p
    BY <1>2, UnderIsBelow
  <2> QED
    BY <1>2, <2>1, EveryTree
<1>5. Under({p}) \in SUBSET Paths /\ Under(rest) \in SUBSET Paths /\ Under(Children(p)) \in SUBSET Paths
  BY <1>2, UnderIs
<1> HIDE DEF rest
<1>6. /\ Content(todo) = Content({p}) + Content(rest)
      /\ Nested(todo) = Nested({p}) + Nested(rest)
      /\ Content({p}) \in Nat /\ Nested({p}) \in Nat
      /\ Content(rest) \in Nat /\ Nested(rest) \in Nat
  <2>1. Under({p}) \cap Under(rest) = {} /\ Under(todo) = Under({p}) \cup Under(rest)
    BY <1>3
  <2>2. /\ SumOf[Regular(Under({p}))] \in Nat /\ Cardinality(Under({p}) \cap Directories) \in Nat
        /\ SumOf[Regular(Under({p}) \cup Under(rest))] =
              SumOf[Regular(Under({p}))] + SumOf[Regular(Under(rest))]
        /\ Cardinality((Under({p}) \cup Under(rest)) \cap Directories) =
              Cardinality(Under({p}) \cap Directories) + Cardinality(Under(rest) \cap Directories)
    BY <1>5, <2>1, TwoSets
  <2>3. /\ SumOf[Regular(Under(rest))] \in Nat /\ Cardinality(Under(rest) \cap Directories) \in Nat
    BY <1>5, <2>1, TwoSets
  <2> QED
    BY <2>1, <2>2, <2>3 DEF Content, Nested
<1>7. /\ Content({p}) = SumOf[Regular({p})] + Content(Children(p))
      /\ Nested({p}) = Cardinality({p} \cap Directories) + Nested(Children(p))
      /\ Content(Children(p)) \in Nat /\ Nested(Children(p)) \in Nat
  <2>1. {p} \cap Under(Children(p)) = {} /\ Under({p}) = {p} \cup Under(Children(p))
    BY <1>3, <1>4
  <2>2. /\ SumOf[Regular({p} \cup Under(Children(p)))] =
              SumOf[Regular({p})] + SumOf[Regular(Under(Children(p)))]
        /\ Cardinality(({p} \cup Under(Children(p))) \cap Directories) =
              Cardinality({p} \cap Directories) + Cardinality(Under(Children(p)) \cap Directories)
    BY <1>2, <1>5, <2>1, TwoSets
  <2>3. /\ SumOf[Regular(Under(Children(p)))] \in Nat
        /\ Cardinality(Under(Children(p)) \cap Directories) \in Nat
    BY <1>2, <1>5, <2>1, TwoSets
  <2> QED
    BY <2>1, <2>2, <2>3 DEF Content, Nested
<1>8. SumOf[Regular({p})] = own /\ own \in Nat
  <2>1. SumOf[{}] = 0 /\ Length[p] \in Nat
    BY <1>2, SumOfIs, LengthIs DEF Adds
  <2>2. SumOf[{p}] = Length[p]
    <3>1. SumOf[{p}] = Length[p] + SumOf[{p} \ {p}] /\ {p} \ {p} = {}
      BY <1>2, SumTakes
    <3> QED
      BY <2>1, <3>1
  <2>3. Regular({p}) = IF Type[p] \in {"file", "fleeting"} THEN {p} ELSE {}
    BY DEF Regular
  <2> QED
    BY <2>1, <2>2, <2>3
<1>9. Cardinality({p} \cap Directories) = one
  <2>1. {p} \cap Directories = IF p \in Directories THEN {p} ELSE {}
    OBVIOUS
  <2> QED
    BY <2>1, FS_EmptySet, FS_Singleton
<1>10. ASSUME p \notin Directories
       PROVE  Content(Children(p)) = 0 /\ Nested(Children(p)) = 0
  <2>1. Type[p] \notin Readable
    BY <1>2, <1>10 DEF Directories
  <2>2. \A q \in Paths \ {Root} : Type[Parent[q]] \in Readable
    BY ChosenTree
  <2>3. Children(p) = {}
    BY <2>1, <2>2 DEF Children
  <2>4. Regular({}) = {} /\ {} \cap Directories = {}
    BY DEF Regular
  <2> QED
    BY <2>3, <2>4, UnderParts, SumOfIs, FS_EmptySet DEF Content, Nested, Adds
<1> HIDE DEF own, one
<1>11. /\ Content(todo) = own + Content(Children(p)) + Content(rest)
       /\ Nested(todo) = one + Nested(Children(p)) + Nested(rest)
  BY <1>6, <1>7, <1>8, <1>9
<1> QED
  BY <1>6, <1>7, <1>10, <1>11 DEF own, one, rest

\* A product grows with its factors.
LEMMA Monotone ==
    ASSUME NEW a \in Nat, NEW b \in Nat, NEW c \in Nat, a <= b
    PROVE  a * c <= b * c /\ a * c \in Nat /\ b * c \in Nat
  OBVIOUS

\* A nested call that starts from sum, finds a and returns at most (sum + a) * x, before
\* names that find b and return at most y times what they start from.
LEMMA NestedCallBounds ==
    ASSUME NEW sum \in Nat, NEW a \in Nat, NEW b \in Nat, NEW x \in Nat \ {0}, NEW y \in Nat \ {0}
    PROVE  LET most == (sum + (a + b)) * (2 * (x * y))
           IN  /\ (sum + a) * x <= most
               /\ \A i \in Nat : sum + a <= i /\ i <= (sum + a) * x =>
                    /\ sum + i <= most
                    /\ sum + (a + b) <= (sum + i) + b
                    /\ ((sum + i) + b) * y <= most
<1> DEFINE c == sum + a
           e == sum + (a + b)
           most == e * (2 * (x * y))
<1>1. c \in Nat /\ e \in Nat /\ c <= e /\ e = c + b /\ sum <= c
  OBVIOUS
<1> HIDE DEF c, e
<1>2. x * y \in Nat /\ x <= x * y /\ c * x \in Nat /\ e * x \in Nat /\ b * x \in Nat
  <2>1. 1 * x <= y * x
    BY Monotone
  <2> QED
    BY <1>1, <2>1
<1>3. c <= c * x /\ b <= b * x
  <2>1. 1 * c <= x * c /\ 1 * b <= x * b
    BY <1>1, Monotone
  <2> QED
    BY <1>1, <2>1
<1>4. e * x = c * x + b * x
  BY <1>1
<1>5. most = 2 * ((e * x) * y) /\ most = (2 * (e * x)) * y
  BY <1>1
<1>6. (e * x) <= (e * x) * y /\ (e * x) * y \in Nat
  <2>1. 1 * (e * x) <= y * (e * x)
    BY <1>2, Monotone
  <2> QED
    BY <1>2, <2>1
<1> HIDE DEF most
<1>7. c * x <= most
  BY <1>2, <1>4, <1>5, <1>6
<1>8. ASSUME NEW i \in Nat, c <= i, i <= c * x
      PROVE  sum + i <= most /\ e <= (sum + i) + b /\ ((sum + i) + b) * y <= most
  <2>1. sum + i <= 2 * (c * x)
    BY <1>1, <1>2, <1>3, <1>8
  <2>2. 2 * (c * x) <= most
    BY <1>2, <1>4, <1>5, <1>6
  <2>3. (sum + i) + b <= 2 * (e * x)
    BY <1>1, <1>2, <1>3, <1>4, <2>1
  <2>4. ((sum + i) + b) * y <= (2 * (e * x)) * y
    BY <1>2, <2>3, Monotone
  <2>5. most \in Nat
    BY <1>5, <1>6
  <2> QED
    BY <1>1, <1>2, <1>5, <1>8, <2>1, <2>2, <2>4, <2>5
<1> QED
  BY <1>7, <1>8 DEF c, e, most

\* As long as it fits into a long long, the total is what was there before and what is
\* in the tree, up to a factor of two for each directory in it.
LEMMA TotalsBounded ==
    ASSUME Type \in Types, \A p \in Paths : Type[p] # "dangling",
           NEW todo \in Listings, NEW sum \in Nat,
           (sum + Content(todo)) * TwoTo[Nested(todo)] < TwoTo[Width - 1],
           NEW s \in FolderSizes[todo][sum]
    PROVE  sum + Content(todo) <= s /\ s <= (sum + Content(todo)) * TwoTo[Nested(todo)]
<1> DEFINE top == TwoTo[Width - 1]
           most(t, n) == (n + Content(t)) * TwoTo[Nested(t)]
           Fine(t, n) == most(t, n) < top =>
                \A r \in FolderSizes[t][n] : r \in Nat /\ n + Content(t) <= r /\ r <= most(t, n)
           F == {t \in Listings : ~ \A n \in Nat : Fine(t, n)}
<1> SUFFICES F = {}
  OBVIOUS
<1> SUFFICES ASSUME F # {} PROVE FALSE
  OBVIOUS
<1>1. \A t \in F : Rank[t] \in Nat
  BY RankFalls
<1>2. PICK t \in F : \A u \in F : ~ (Rank[u] < Rank[t])
  <2> HIDE DEF F
  <2> QED
    BY <1>1, LeastRank
<1>3. PICK n \in Nat : ~ Fine(t, n)
  OBVIOUS
<1>4. t \in Listings /\ n \in Int
  OBVIOUS
<1>5. top \in Nat \ {0} /\ \A k \in 0 .. top - 1 : Wrap(k) = k
  <2>1. \A k \in Int : k \in -top .. top - 1 => Wrap(k) = k
    BY WrapIs
  <2>2. top \in Nat \ {0}
    BY TwoToPositive, MeasureAssumption
  <2> HIDE DEF top
  <2> QED
    BY <2>1, <2>2
<1> HIDE DEF top
<1>6. most(t, n) < top
  BY <1>3
<1>7. PICK r \in FolderSizes[t][n] : ~ (r \in Nat /\ n + Content(t) <= r /\ r <= most(t, n))
  BY <1>3
<1>8. ASSUME NEW u \in Listings, Rank[u] < Rank[t], NEW k \in Nat
      PROVE  Fine(u, k)
  <2>1. u \notin F
    <3> HIDE DEF F
    <3> QED
      BY <1>2, <1>8
  <2> HIDE DEF Fine
  <2> QED
    BY <1>8, <2>1
<1> HIDE DEF F
<1>9. t # {}
  <2>1. ASSUME t = {} PROVE FALSE
    <3>1. r = n
      BY <1>4, <2>1, ReturnsAre
    <3>2. Regular({}) = {} /\ {} \cap Directories = {}
      BY DEF Regular
    <3>3. SumOf[{}] = 0 /\ TwoTo[0] = 1 /\ Cardinality({}) = 0
      <4>1. {} \in SUBSET Paths
        OBVIOUS
      <4>2. SumOf[{}] = 0
        BY <4>1, SumOfIs DEF Adds
      <4>3. TwoTo[0] = 1
        BY TwoToIs
      <4> QED
        BY <4>2, <4>3, FS_EmptySet
    <3>4. Under({}) = {}
      BY UnderParts
    <3>5. Content({}) = 0 /\ Nested({}) = 0
      BY <3>2, <3>3, <3>4 DEF Content, Nested
    <3>6. n + Content(t) = n /\ most(t, n) = n
      BY <1>4, <2>1, <3>3, <3>5
    <3> HIDE DEF most
    <3> QED
      BY <1>3, <1>7, <3>1, <3>6
  <2> QED
    BY <2>1
<1>10. PICK p \in t : \E next \in Through(FolderSizes[Children(p)], p, n) :
          r \in FolderSizes[t \ {p}][next]
  <2>1. t \in Listings /\ n \in Int /\ r \in FolderSizes[t][n]
    BY <1>4
  <2> HIDE DEF Fine, most
  <2> QED
    BY <1>9, <2>1, ReturnsFrom
<1>11. PICK next \in Through(FolderSizes[Children(p)], p, n) : r \in FolderSizes[t \ {p}][next]
  BY <1>10
<1> DEFINE own == IF Type[p] \in {"file", "fleeting"} THEN Length[p] ELSE 0
           one == IF p \in Directories THEN 1 ELSE 0
           a == Content(Children(p))
           b == Content(t \ {p})
           x == TwoTo[Nested(Children(p))]
           y == TwoTo[Nested(t \ {p})]
<1>12. /\ Content(t) = own + a + b /\ a \in Nat /\ b \in Nat
       /\ Nested(t) = one + Nested(Children(p)) + Nested(t \ {p})
       /\ Nested(Children(p)) \in Nat /\ Nested(t \ {p}) \in Nat
       /\ p \notin Directories => a = 0 /\ Nested(Children(p)) = 0
  BY <1>4, TreeParts
<1>13. x \in Nat \ {0} /\ y \in Nat \ {0}
  BY <1>12, TwoToPositive
<1>14. /\ p \in Paths /\ t \ {p} \in Listings /\ Rank[t \ {p}] < Rank[t]
       /\ Children(p) \in Listings /\ Rank[Children(p)] < Rank[t]
  BY <1>4, RankFalls
<1>15. Length[p] \in Nat
  BY <1>14, LengthIs
<1>16. most(t \ {p}, next) = (next + b) * y /\ most(Children(p), n) = (n + a) * x
  OBVIOUS
<1>17. CASE p \in Directories
  <2>1. own = 0 /\ one = 1
    BY <1>17 DEF Directories, Readable
  <2>2. TwoTo[Nested(t)] = 2 * (x * y)
    <3>1. Nested(t) = (Nested(Children(p)) + Nested(t \ {p})) + 1
      BY <1>12, <2>1
    <3>2. Nested(Children(p)) + Nested(t \ {p}) \in Nat
      BY <1>12
    <3> QED
      BY <1>12, <3>1, <3>2, TwoToNext, TwoToPlus
  <2>3. most(t, n) = (n + (a + b)) * (2 * (x * y)) /\ n + Content(t) = n + (a + b)
    BY <1>12, <2>1, <2>2
  <2>4. PICK i \in FolderSizes[Children(p)][n] : next = Wrap(n + i)
    <3> DEFINE set == {Wrap(n + i) : i \in FolderSizes[Children(p)][n]}
    <3>1. Through(FolderSizes[Children(p)], p, n) =
              CASE p \in Directories -> set
                [] Type[p] = "special" -> {n}
                [] OTHER -> {Wrap(n + Length[p])}
      BY DEF Through
    <3> HIDE DEF set
    <3>2. Through(FolderSizes[Children(p)], p, n) = set
      <4>1. Type[p] # "special"
        BY <1>17 DEF Directories, Readable
      <4> QED
        BY <1>17, <3>1, <4>1
    <3> QED
      BY <1>11, <3>2 DEF set
  <2> HIDE DEF own, one, a, b, x, y
  <2>5. /\ (n + a) * x <= most(t, n)
        /\ \A j \in Nat : n + a <= j /\ j <= (n + a) * x =>
                /\ n + j <= most(t, n)
                /\ n + (a + b) <= (n + j) + b
                /\ ((n + j) + b) * y <= most(t, n)
    <3> HIDE DEF most
    <3>1. LET M == (n + (a + b)) * (2 * (x * y))
          IN  /\ (n + a) * x <= M
              /\ \A j \in Nat : n + a <= j /\ j <= (n + a) * x =>
                    n + j <= M /\ n + (a + b) <= (n + j) + b /\ ((n + j) + b) * y <= M
      BY <1>12, <1>13, NestedCallBounds
    <3> QED
      BY <2>3, <3>1
  <2>6. /\ most(t, n) \in Int /\ (n + a) * x \in Int
        /\ Fine(Children(p), n)
    BY <1>8, <1>12, <1>13, <1>14, <2>3
  <2>7. most(Children(p), n) = (n + a) * x
    BY <1>16
  <2> HIDE DEF most
  <2>8. i \in Nat /\ n + a <= i /\ i <= (n + a) * x
    <3>1. (n + a) * x < top
      BY <1>5, <1>6, <2>5, <2>6
    <3> QED
      BY <2>6, <2>7, <3>1 DEF a
  <2>9. next = n + i /\ next \in Nat
    <3>1. n + i \in 0 .. top - 1
      BY <1>5, <1>6, <2>5, <2>6, <2>8
    <3> QED
      BY <1>5, <2>4, <3>1
  <2>10. /\ n + (a + b) <= next + b /\ (next + b) * y <= most(t, n)
    BY <2>5, <2>8, <2>9
  <2>11. Fine(t \ {p}, next) /\ most(t \ {p}, next) = (next + b) * y /\ (next + b) * y \in Int
    <3>1. Fine(t \ {p}, next)
      BY <1>8, <1>14, <2>9
    <3>2. most(t \ {p}, next) = (next + b) * y
      BY <1>16
    <3>3. (next + b) * y \in Int
      BY <1>12, <1>13, <2>9
    <3> QED
      BY <3>1, <3>2, <3>3
  <2>12. r \in Nat /\ next + b <= r /\ r <= (next + b) * y
    <3>1. (next + b) * y < top
      BY <1>5, <1>6, <2>6, <2>10, <2>11
    <3> QED
      BY <1>11, <2>11, <3>1 DEF b
  <2>13. n + Content(t) <= r
    BY <1>12, <2>3, <2>9, <2>10, <2>12
  <2>14. r <= most(t, n)
    BY <2>6, <2>10, <2>11, <2>12
  <2> QED
    BY <1>7, <2>12, <2>13, <2>14
<1>18. CASE p \notin Directories
  <2>1. one = 0 /\ a = 0 /\ Nested(t) = Nested(t \ {p}) /\ Content(t) = own + b
    BY <1>12, <1>15, <1>18
  <2>2. own \in Nat
    BY <1>15
  <2>3. own < top /\ n + own < top
    <3>1. 1 * (n + own + b) <= y * (n + own + b)
      BY <1>12, <1>13, <2>2, Monotone
    <3>2. most(t, n) = y * (n + own + b)
      BY <1>12, <1>13, <2>1, <2>2
    <3> HIDE DEF own, b, y, most
    <3>3. y * (n + own + b) \in Int
      BY <1>12, <1>13, <2>2
    <3> QED
      BY <1>5, <1>6, <1>12, <2>2, <3>1, <3>2, <3>3
  <2>4. next = n + own
    <3>1. CASE Type[p] = "special"
      BY <1>11, <1>18, <3>1 DEF Through
    <3>2. CASE Type[p] # "special"
      <4>1. Type[p] \in {"file", "fleeting"}
        <5>1. Type[p] \in FileType
          BY <1>14, TreeAssumption
        <5>2. Type[p] # "dangling"
          BY <1>14
        <5> QED
          BY <1>14, <1>18, <3>2, <5>1, <5>2 DEF FileType, Directories, Readable
      <4>2. next = Wrap(n + Length[p])
        BY <1>11, <1>18, <3>2 DEF Through
      <4>3. n + Length[p] \in 0 .. top - 1
        BY <1>5, <1>15, <2>3, <4>1
      <4> QED
        BY <1>5, <4>1, <4>2, <4>3
    <3> QED
      BY <3>1, <3>2
  <2>5. most(t \ {p}, next) = most(t, n) /\ next \in Nat /\ next + b = n + Content(t)
    <3> HIDE DEF own, b
    <3>1. next \in Nat /\ next + b = n + Content(t)
      BY <1>12, <2>1, <2>2, <2>4
    <3> QED
      BY <2>1, <3>1 DEF b
  <2>6. Fine(t \ {p}, next)
    BY <1>8, <1>14, <2>5
  <2> HIDE DEF most, own
  <2>7. r \in Nat /\ next + b <= r /\ r <= most(t, n)
    BY <1>6, <1>11, <2>5, <2>6
  <2> QED
    BY <1>7, <2>5, <2>7
<1> QED
  BY <1>17, <1>18
-----------------------------------------------------------------------------
\* The total of a tree that FileTransferSize comes through, none of whose names stat
\* fails on.
LEMMA TotalBounded ==
    ASSUME Type \in Types, \A p \in Paths : Type[p] # "dangling", NEW s \in FileTransferSizes,
           TrueSize * TwoTo[Cardinality(Directories \ {Root})] < TwoTo[Width - 1]
    PROVE  /\ TrueSize <= s
           /\ s <= TrueSize * TwoTo[Cardinality(Directories \ {Root})]
<1>1. TrueSize = SumOf[Regular(Paths)]
  BY DEF TrueSize, Regular
<1>2. Root \in Paths /\ {Root} \in SUBSET Paths /\ Children(Root) \in Listings
  BY EveryTree, RankFalls
<1>3. Paths = {Root} \cup Under(Children(Root)) /\ Under(Children(Root)) \subseteq Paths
  <2>1. Under({Root}) = Paths /\ Under({Root}) = {Root} \cup Under(Children(Root))
    BY <1>2, UnderParts
  <2> QED
    BY <2>1
<1>4. CASE Root \in Directories
  <2>1. s \in FolderSizes[Children(Root)][0]
    BY <1>4 DEF FileTransferSizes
  <2>2. Root \notin Under(Children(Root))
    <3>1. Children(Root) \in SUBSET Paths
      BY EveryTree
    <3>2. Root \in Under(Children(Root)) => Root < Root
      BY <1>2, UnderIsBelow
    <3> QED
      BY <1>2, <3>2, EveryTree
  <2>3. Regular(Paths) = Regular(Under(Children(Root)))
    <3>1. Type[Root] \notin {"file", "fleeting"}
      BY <1>4 DEF Directories, Readable
    <3> QED
      BY <1>3, <3>1 DEF Regular
  <2>4. Directories \ {Root} = Under(Children(Root)) \cap Directories
    BY <1>3, <2>2 DEF Directories
  <2>5. TrueSize = Content(Children(Root))
    BY <1>1, <2>3 DEF Content
  <2>6. Cardinality(Directories \ {Root}) = Nested(Children(Root))
    BY <2>4 DEF Nested
  <2>7. TrueSize \in Nat
    BY <1>1, SumIsNat DEF Regular
  <2>8. 0 \in Nat /\ 0 + TrueSize = TrueSize
    BY <2>7
  <2>9. (0 + Content(Children(Root))) * TwoTo[Nested(Children(Root))] < TwoTo[Width - 1]
    BY <2>5, <2>6, <2>8
  <2>10. /\ 0 + Content(Children(Root)) <= s
         /\ s <= (0 + Content(Children(Root))) * TwoTo[Nested(Children(Root))]
    BY <1>2, <2>1, <2>8, <2>9, TotalsBounded
  <2> QED
    BY <2>5, <2>6, <2>8, <2>10
<1>5. CASE Root \notin Directories
  <2>1. s = Length[Root]
    BY <1>5 DEF FileTransferSizes
  <2>2. Children(Root) = {}
    BY <1>2, <1>5, ChosenTree DEF Children, Directories
  <2>3. Paths = {Root}
    BY <1>3, <2>2, UnderParts
  <2>4. Type[Root] = "file"
    BY <1>2, <1>5, TreeAssumption DEF Directories, Readable
  <2>5. Regular(Paths) = {Root} /\ Directories \ {Root} = {}
    BY <1>5, <2>3, <2>4 DEF Regular, Directories
  <2>6. TrueSize = Length[Root] /\ Length[Root] \in Nat
    <3>1. SumOf[{Root}] = Length[Root] + SumOf[{Root} \ {Root}]
      BY <1>2, SumTakes
    <3>2. {} \in SUBSET Paths /\ {Root} \ {Root} = {}
      OBVIOUS
    <3>3. SumOf[{}] = 0
      BY <3>2, SumOfIs DEF Adds
    <3>4. Length[Root] \in Nat
      BY <1>2, LengthIs
    <3> QED
      <4>1. SumOf[{Root}] = Length[Root] + SumOf[{}]
        BY <3>1, <3>2
      <4>2. TrueSize = SumOf[{Root}]
        BY <1>1, <2>5
      <4> QED
        BY <3>3, <3>4, <4>1, <4>2
  <2>7. TwoTo[Cardinality(Directories \ {Root})] = 1
    BY <2>5, FS_EmptySet, TwoToIs
  <2> QED
    BY <2>1, <2>6, <2>7
<1> QED
  BY <1>4, <1>5

\* FileTransferSize returns what main then compares with the limit.
LEMMA MeasureBounds ==
    ASSUME Accounted, Measure
    PROVE  SizeWithinFactor'
<1>1. /\ done = "scanned" /\ ~ CannotOpen /\ total' \in FileTransferSizes /\ Type' = Type
      /\ Type \in Types /\ fd_free \in Nat /\ Calls
  BY DEF Accounted, Measure
<1>2. PICK seen \in SUBSET Paths : Accounts(seen) /\ Lists(seen)
  BY <1>1 DEF Accounted
<1>3. \A p \in Paths : Type[p] # "dangling"
  <2>1. fd_free \in Int /\ done # "no"
    BY <1>1
  <2>2. seen = Paths
    BY <1>1, <1>2, <2>1, AllSeen
  <2> QED
    BY <1>2, <2>2 DEF Lists
<1>4. TrueSize' = TrueSize /\ Directories' = Directories
  BY <1>1 DEF TrueSize, Directories
<1>5. TrueSize * TwoTo[Cardinality(Directories \ {Root})] < TwoTo[Width - 1] =>
        TrueSize <= total' /\ total' <= TrueSize * TwoTo[Cardinality(Directories \ {Root})]
  BY <1>1, <1>3, TotalBounded
<1> QED
  BY <1>4, <1>5 DEF SizeWithinFactor

\* Although FolderSize adds up what it was passed (client_function.c:830), the total
\* that chooses the transport is the sum of the file sizes but for a factor of two for
\* each nested directory, for every tree and every order of readdir.
THEOREM TotalIsWithinFactor == SizeSpec => []SizeWithinFactor
<1>1. SizeInit => SizeWithinFactor
  BY DEF SizeInit, Init, SizeWithinFactor
<1>2. ASSUME Accounted, SizeWithinFactor, [Next]_sizeVars
      PROVE  SizeWithinFactor'
  <2>1. CASE ScanStep
    <3>1. done' \in {"no", "scanned", "exited"}
      BY <2>1 DEF ScanStep, Scanning, EnterDirectory, EnterOther, LeaveDirectory, Return,
             ReadDot, ReadDirectory, ReadFile, ReadSpecial, ReadDangling
    <3> QED
      BY <3>1 DEF SizeWithinFactor
  <2>2. CASE MeasureExit \/ CountDir
    BY <2>2 DEF MeasureExit, CountDir, SizeWithinFactor
  <2>3. CASE Measure
    BY <1>2, <2>3, MeasureBounds
  <2>4. CASE UNCHANGED sizeVars
    <3>1. TrueSize' = TrueSize /\ Directories' = Directories /\ done' = done /\ total' = total
      BY <2>4 DEF sizeVars, vars, TrueSize, Directories
    <3> QED
      BY <1>2, <3>1 DEF SizeWithinFactor
  <2> QED
    BY <1>2, <2>1, <2>2, <2>3, <2>4 DEF Next
<1>3. Accounted /\ SizeWithinFactor /\ [Next]_sizeVars => SizeWithinFactor'
  BY <1>2
<1> QED
  BY <1>1, <1>3, EachPathOnce, PTL DEF SizeSpec
-----------------------------------------------------------------------------
(* Types.                                                                  *)

\* A step of the scan.
LEMMA ScanningTypes ==
    ASSUME Accounted, Accounted', Room', TypeOK, ScanStep
    PROVE  TypeOK'
<1>1. /\ done = "no" /\ Type \in Types /\ Calls /\ Scanning /\ total' = total
      /\ Type' = Type /\ count_File' = count_File
  BY DEF ScanStep, Scanning, Accounted, EnterDirectory, EnterOther, LeaveDirectory,
     ReadDot, ReadDirectory, ReadFile, ReadSpecial, ReadDangling, ReadName, counters
<1>2. done' \in {"no", "scanned", "exited"} /\ fileCount' \in Nat /\ count_Dir' \in Nat
  <2>1. done' \in {"no", "scanned", "exited"}
    BY <1>1 DEF Scanning, EnterDirectory, EnterOther, LeaveDirectory, Return,
       ReadDot, ReadDirectory, ReadFile, ReadSpecial, ReadDangling
  <2>2. fileCount' \in {fileCount, fileCount + 1}
    BY <1>1 DEF Scanning, EnterDirectory, EnterOther, LeaveDirectory, counters,
       ReadDot, ReadDirectory, ReadFile, ReadSpecial, ReadDangling
  <2>3. count_Dir' \in {count_Dir, count_Dir + 1}
    BY <1>1 DEF Scanning, EnterDirectory, EnterOther, LeaveDirectory, Return, counters,
       ReadDot, ReadDirectory, ReadFile, ReadSpecial, ReadDangling, ReadName
  <2>4. fileCount \in Nat /\ count_Dir \in Nat
    BY DEF TypeOK
  <2> QED
    BY <2>1, <2>2, <2>3, <2>4
<1>3. CASE done' # "exited"
  <2>1. Calls' /\ \E seen \in SUBSET Paths : Lists(seen)'
    BY <1>2, <1>3 DEF Accounted
  <2>2. stack' \in Seq([dir : Paths, todo : SUBSET Name]) /\ file_info' \in Seq(Entry)
    BY <2>1 DEF Calls, Lists
  <2>3. calling' \in Paths \cup {NoPath}
    <3>1. Root \in Paths /\ Directories' \subseteq Paths
      BY <1>1, ChosenTree DEF Directories
    <3> QED
      BY <2>1, <3>1 DEF Calls
  <2> QED
    BY <1>1, <1>2, <2>2, <2>3 DEF TypeOK, Accounted, Room
<1>4. CASE done' = "exited"
  <2>1. PICK name : ReadDangling(name)
    BY <1>1, <1>4 DEF Scanning, EnterDirectory, EnterOther, LeaveDirectory, Return,
       ReadDot, ReadDirectory, ReadFile, ReadSpecial
  <2>2. ReadName(name) /\ file_info' = file_info /\ calling' = calling
    BY <2>1 DEF ReadDangling
  <2>3. stack' \in Seq([dir : Paths, todo : SUBSET Name])
    BY <1>1, <2>2, ReadNameFrames
  <2> QED
    BY <1>1, <1>2, <1>4, <2>2, <2>3 DEF TypeOK, Accounted, Room
<1> QED
  BY <1>3, <1>4

\* A step of what follows it.
LEMMA MeasuringTypes ==
    ASSUME Accounted, Accounted', Room', TypeOK, MeasureExit \/ Measure \/ CountDir
    PROVE  TypeOK'
<1>1. /\ Type' = Type /\ file_info' = file_info /\ fileCount' = fileCount
      /\ calling' = calling /\ stack' = stack
      /\ fd_free' \in Nat /\ idx' \in Nat /\ files_size' \in Nat
  BY DEF MeasureExit, Measure, CountDir, array, counters, Accounted, Room
<1>2. done' \in {"sized", "yes", "exited"}
  BY DEF MeasureExit, Measure, CountDir
<1>3. total' \in LongLong
  <2>1. CASE Measure
    BY <2>1, TotalFits DEF Measure, Accounted
  <2>2. CASE MeasureExit \/ CountDir
    BY <2>2 DEF MeasureExit, CountDir, TypeOK, LongLong
  <2> QED
    BY <2>1, <2>2
<1>4. count_Dir' \in Nat /\ count_File' \in Nat
  <2>1. CASE CountDir
    <3>1. /\ count_Dir' = Cardinality(Directories)' /\ count_File' = Cardinality(Paths \ Directories')
      BY <2>1 DEF CountDir, Accounted, CountsRight
    <3>2. Directories' \subseteq Paths /\ Paths \ Directories' \subseteq Paths
      BY DEF Directories
    <3> QED
      BY <3>1, <3>2, OneLess
  <2>2. CASE MeasureExit \/ Measure
    BY <2>2 DEF MeasureExit, Measure, TypeOK, counters
  <2> QED
    BY <2>1, <2>2
<1> QED
  BY <1>1, <1>2, <1>3, <1>4 DEF TypeOK, LongLong

\* The type invariant: no counter falls below zero, and whatever is added up, in
\* whatever order, the total is a long long.
THEOREM TypesHold == SizeSpec => []TypeOK
<1>1. SizeInit => TypeOK
  <2> SUFFICES ASSUME SizeInit PROVE TypeOK
    OBVIOUS
  <2>1. 0 \in LongLong
    BY TwoToPositive, MeasureAssumption DEF LongLong
  <2>2. Root \in Paths /\ fd_free \in Nat /\ files_size \in Nat
    BY TreeAssumption, SizeAssumption, DescriptorsAssumption DEF SizeInit, Init
  <2> QED
    BY <2>1, <2>2 DEF SizeInit, Init, TypeOK, LongLong
<1>2. ASSUME Accounted, Room, TypeOK, [Next]_sizeVars
      PROVE  TypeOK'
  <2>1. Accounted' /\ Room'
    BY <1>2, RoomStays, AccountedStays
  <2>2. CASE ScanStep
    BY <1>2, <2>1, <2>2, ScanningTypes
  <2>3. CASE MeasureExit \/ Measure \/ CountDir
    BY <1>2, <2>1, <2>3, MeasuringTypes
  <2>4. CASE UNCHANGED sizeVars
    BY <1>2, <2>4 DEF sizeVars, vars, array, counters, TypeOK
  <2> QED
    BY <1>2, <2>2, <2>3, <2>4 DEF Next
<1>3. Accounted /\ Room /\ TypeOK /\ [Next]_sizeVars => TypeOK'
  BY <1>2
<1>4. SizeInit => Room
  BY InitRoom DEF SizeInit
<1>5. Room /\ [Next]_sizeVars => Room'
  BY RoomStays
<1> QED
  BY <1>1, <1>3, <1>4, <1>5, EachPathOnce, PTL DEF SizeSpec
=============================================================================
