-------------------------------- MODULE Sizes --------------------------------
(***************************************************************************)
(* What the client does with its tree around the transfer: the scan of      *)
(* module Scan, FileTransferSize, whose result chooses the transport, and   *)
(* after the transfer FileTransferSize again and CountDir.                  *)
(*                                                                          *)
(* Abstractions.  The transfer itself does not touch this state.  A tree    *)
(* that is measured is the one that was scanned, but for fleeting files.    *)
(***************************************************************************)
EXTENDS Scan

CONSTANTS
    Length,     \* Length[p]: st_size of the file p
    Limit,      \* the size that separates the transports
    Width       \* bits of a long long

TwoTo[n \in Nat] == IF n = 0 THEN 1 ELSE 2 * TwoTo[n - 1]

ASSUME MeasureAssumption ==
    /\ Width \in Nat /\ Width > 1
    /\ Length \in [Paths -> 0 .. TwoTo[Width - 1] - 1]
    /\ Limit \in Nat

VARIABLE total      \* what FileTransferSize has returned to main

sizeVars == <<vars, total>>
-----------------------------------------------------------------------------
Directories == {p \in Paths : Type[p] \in Readable \cup {"unreadable"}}

\* Mutant of Wrap: the total is kept in half the bits.
WrapHalf(n) ==
    ((n + TwoTo[Width \div 2 - 1]) % TwoTo[Width \div 2]) - TwoTo[Width \div 2 - 1]

\* long long arithmetic as the build does it: it wraps.
Wrap(n) == ((n + TwoTo[Width - 1]) % TwoTo[Width]) - TwoTo[Width - 1]

\* The names one directory may still owe.
Listings == UNION {SUBSET Children(p) : p \in Paths}

\* What the second loop of FolderSize can return, called with the total sum, when it
\* still has the names in todo before it, in whatever order readdir gave them.  A
\* nested call starts from the total so far, and the total so far is added to what it
\* returns.  A special file is neither 'd' nor 'f'.
FolderSizes[todo \in Listings] == [sum \in Int |->
    IF todo = {} THEN {sum}
    ELSE UNION {UNION {FolderSizes[todo \ {p}][next] : next \in
                    CASE p \in Directories ->
                            {Wrap(sum + inner) : inner \in FolderSizes[Children(p)][sum]}
                      [] Type[p] = "special" -> {sum}
                      [] OTHER -> {Wrap(sum + Length[p])}}
                : p \in todo}]

FileTransferSizes ==
    IF Root \in Directories THEN FolderSizes[Children(Root)][0] ELSE {Length[Root]}

\* FolderSize exits where it cannot open a directory: it may not be readable, no
\* descriptor may be left, or chdir to its last name has just succeeded elsewhere.
CannotOpen ==
    \/ \E p \in Directories : Type[p] # "dir"
    \/ fd_free < Cardinality(Directories)

\* It also exits where stat fails.
CannotStat == \E p \in Paths : Type[p] = "fleeting"
-----------------------------------------------------------------------------
\* Mutant of Descend: every directory is opened twice.
DescendTwice == fd_free' = fd_free - 2 * Cardinality(Directories)

\* A walk that comes to its end leaves every directory open.
Descend == fd_free' = fd_free - Cardinality(Directories)

SizeInit == Init /\ total = 0

ScanStep == Scanning /\ UNCHANGED total

MeasureExit ==
    /\ done \in {"scanned", "sized"}
    /\ CannotOpen \/ CannotStat
    /\ done' = "exited"
    /\ UNCHANGED <<Type, fd_free, array, counters, calling, stack, total>>

\* Mutant of Measure: it goes on without the directories it could not open.
MeasureAnyway ==
    /\ done = "scanned"
    /\ total' \in FileTransferSizes
    /\ done' = "sized"
    /\ UNCHANGED <<Type, fd_free, array, counters, calling, stack>>

Measure ==
    /\ done = "scanned"
    /\ ~CannotOpen
    /\ Descend
    /\ total' \in FileTransferSizes
    /\ done' = "sized"
    /\ UNCHANGED <<Type, array, counters, calling, stack>>

\* The transport main goes on with; at the limit it names none.
Transport == CASE total > Limit -> "TCP" [] total < Limit -> "UDP" [] OTHER -> "none"

\* After the transfer the tree is measured once more, and CountDir counts the argument.
CountDir ==
    /\ done = "sized"
    /\ Transport # "none"
    /\ ~CannotOpen
    /\ Descend
    /\ count_Dir' = IF Root \in Directories THEN count_Dir + 1 ELSE count_Dir
    /\ count_File' = fileCount - count_Dir'
    /\ done' = "yes"
    /\ UNCHANGED <<Type, array, fileCount, calling, stack, total>>

Next == ScanStep \/ MeasureExit \/ Measure \/ CountDir

\* The client is one process, and waits for nobody here.
SizeSpec == SizeInit /\ [][Next]_sizeVars /\ WF_sizeVars(Next)
-----------------------------------------------------------------------------
TypeOK ==
    /\ Type \in Types
    /\ fd_free \in Nat
    /\ file_info \in Seq(Entry)
    /\ idx \in Nat
    /\ files_size \in Nat
    /\ fileCount \in Nat
    /\ count_Dir \in Nat
    /\ count_File \in Nat
    /\ calling \in Paths \cup {NoPath}
    /\ stack \in Seq([dir : Paths, todo : SUBSET Name])
    /\ done \in {"no", "scanned", "sized", "yes", "exited"}
    /\ total \in -TwoTo[Width - 1] .. TwoTo[Width - 1] - 1

\* When a transport is named (client.c:61-84), the array (client.c:51) that it is going
\* to work through holds each directory and regular file once, with its kind, in strcmp
\* order and therefore each directory before what is in it, however the directories
\* are interleaved and re-sorted (client_function.c:100).  CountFile lists a directory
\* it cannot open as a file (client_function.c:57): that no transfer of such a list
\* begins rests on FolderSize failing where CountFile did (client_function.c:788).
ArrayComplete ==
    done \in {"sized", "yes"} =>
        /\ idx = Len(file_info)
        /\ \A i, j \in 1 .. idx : i < j => file_info[i].path < file_info[j].path
        /\ {file_info[i].path : i \in 1 .. idx} = {p \in Paths : Type[p] # "special"}
        /\ \A i \in 1 .. idx : file_info[i].kind = "d" <=> file_info[i].path \in Directories

\* The counts the client sends after the transfer (client_function.c:501-516) are
\* those of the tree, although three places count (client_function.c:33, 86, 91).
CountsRight ==
    done = "yes" =>
        /\ fileCount = Cardinality(Paths)
        /\ count_Dir = Cardinality(Directories)
        /\ count_File = Cardinality(Paths \ Directories)

SumOf[S \in SUBSET Paths] ==
    IF S = {} THEN 0 ELSE LET p == CHOOSE p \in S : TRUE IN Length[p] + SumOf[S \ {p}]

TrueSize == SumOf[{p \in Paths : Type[p] \in {"file", "fleeting"}}]

\* Although FolderSize adds up what it was passed (client_function.c:830), the total
\* is never below the sum of the file sizes, and above it by no more than a factor of
\* two for each nested directory: exact without one, and UDP is for trees below the
\* limit only, as long as that product fits into a long long.
SizeWithinFactor ==
    LET bound == TrueSize * TwoTo[Cardinality(Directories \ {Root})]
    IN  done = "sized" /\ bound < TwoTo[Width - 1] => TrueSize <= total /\ total <= bound

\* A tree that holds readable directories, none of them shadowed, and regular files
\* only, and descriptors for three walks that close nothing (client_function.c:57, 788).
Tame ==
    /\ calling = Root /\ idx = 0
    /\ \A p \in Paths : Type[p] \in {"dir", "file"}
    /\ fd_free >= 3 * Cardinality(Directories)

\* The client comes through all three walks with a tame tree, unless the tree has
\* exactly the size for which there is no transport.
TameTreeIsSent == Tame ~> done = "yes" \/ Transport = "none"

\* The walks come to an end, whatever the tree.
ScanEnds == <>(done \in {"yes", "exited"} \/ (done = "sized" /\ Transport = "none"))
=============================================================================
