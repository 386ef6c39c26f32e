-------------------------------- MODULE Tree --------------------------------
(***************************************************************************)
(* The list of entries a transfer works through, and the contents of its    *)
(* files.  A byte is the file and the position it was read from, so that a  *)
(* wrong, missing or doubled byte shows.                                    *)
(***************************************************************************)
EXTENDS Integers, Sequences, FiniteSetsExt

CONSTANTS
    FileCount,      \* entries the server counts
    Kind,           \* Kind[i]: or_file_dir of entry i
    Size            \* Size[i]: length of file i

Entries == 0 .. FileCount - 1

\* An entry of kind "none" is one that the client counts and leaves out of its array,
\* a special file; the server has zeroed memory for it, behind what was sent.
ASSUME TreeAssumption ==
    /\ FileCount \in Nat \ {0}
    /\ Kind \in [Entries -> {"d", "f", "none"}]
    /\ Kind[0] # "none"
    /\ \A i, j \in Entries : i < j /\ Kind[i] = "none" => Kind[j] = "none"
    /\ Size \in [Entries -> Nat]

Files == {i \in Entries : Kind[i] = "f"}
Byte == Entries \X Nat
Junk == <<FileCount, 0>>     \* a byte that no file of the client was read for

\* The bytes of file i from position p on.
From(i, p) == [k \in 1 .. (IF p < Size[i] THEN Size[i] - p ELSE 0) |-> <<i, p + k - 1>>]
Source(i) == From(i, 0)
=============================================================================
