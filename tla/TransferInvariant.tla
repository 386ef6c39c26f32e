-------------------------- MODULE TransferInvariant --------------------------
(***************************************************************************)
(* The parts of the inductive invariants that the two transfers share.      *)
(***************************************************************************)
EXTENDS Transfer

\* Where the two programs are in their loops, and what a block is read from.
InLoops ==
    /\ sPhase \in {"content", "length", "misaligned"} => entry \in Files
    /\ sPhase \in {"fileCnt", "dirCnt"} => entry = FileCount
    /\ cPhase \in {"read", "length", "eof"} => sending \in Files
    /\ cPhase = "length" => pos < Size[sending]
    /\ block.n > 0 => block.file \in Files
    /\ \A j \in 1 .. Len(toServer) :
        toServer[j].block.n > 0 => toServer[j].block.file \in Files

\* The file the server is going to write to next.
Target == NextFile(IF sPhase \in {"ackOffset", "ackIndex"} THEN indexA ELSE entry)

Index == [type |-> "index", value |-> indexA]

\* The n bytes of file i from base on.
Piece(base, i, n) == [k \in 1 .. n |-> <<i, base + k - 1>>]

\* By how much the copy of file i has grown in the session.
Added(i) == Len(saved[i]) - Len(before[i])
-----------------------------------------------------------------------------
(* What the sessions leave under ./save.                                   *)

\* The entries come into being in the order of the list, and only they have contents:
\* what FilePathCheck relies on when it starts before the first entry missing.
InOrder ==
    /\ \A i \in Entries : saved[i] # <<>> => i \in present
    /\ \A j \in present : \A i \in Entries : i < j => i \in Found
    /\ \A i \in Entries : i > indexA => before[i] = <<>>
    /\ sPhase \in Serving =>
        /\ \A i \in Entries : i < indexA => i \in Found
        /\ sPhase \notin {"ackOffset", "ackIndex"} =>
            \A i \in Entries : i < entry => i \in Found
        /\ sPhase \in {"content", "length", "misaligned"} => entry \in present
=============================================================================
