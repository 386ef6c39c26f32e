---------------------------- MODULE MCTcpTransfer ----------------------------
(* Values of TcpTransfer's constants for TLC.  Trees are lists of kinds and   *)
(* sizes in the order of file_info; a block has two bytes.                    *)
EXTENDS TcpTransferInvariant, TLC

\* A directory, a file of some blocks, an empty file, a directory, a file of one
\* full block: the first four entries make the smaller tree.
FlatKind == [i \in 0 .. 3 |-> IF i = 0 THEN "d" ELSE "f"]
FlatSize == [i \in 0 .. 3 |-> CASE i = 1 -> 3 [] i = 3 -> 2 [] OTHER -> 0]
DeepKind == [i \in 0 .. 4 |-> IF i \in {0, 3} THEN "d" ELSE "f"]
DeepSize == [i \in 0 .. 4 |-> CASE i = 1 -> 3 [] i = 4 -> 2 [] OTHER -> 0]

NoMarker == {}
MarkerInside == {<<1, 0>>}
\* At a position that only a continued transfer reads a block from.
MarkerOdd == {<<1, 1>>}
==============================================================================
