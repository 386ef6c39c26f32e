---------------------------- MODULE MCUdpTransfer ----------------------------
(* Values of UdpTransfer's constants for TLC: a directory, a file of a part   *)
(* of a block, a file of a block and a part, and a special file.              *)
EXTENDS UdpTransferInvariant, TLC

MCKind == [i \in 0 .. 3 |-> CASE i = 0 -> "d" [] i = 3 -> "none" [] OTHER -> "f"]
MCSize == [i \in 0 .. 3 |-> CASE i = 1 -> 1 [] i = 2 -> 3 [] OTHER -> 0]

\* The one block of the first file: what follows it is taken for the second one.
MCMarker == {<<1, 0>>}
==============================================================================
