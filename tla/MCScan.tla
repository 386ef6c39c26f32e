------------------------------- MODULE MCScan -------------------------------
(* Trees for Scan and Sizes.  Number 1 is the argument; the parents are given *)
(* by MCParent, so that strcmp order and nesting interleave.                  *)
EXTENDS ScanInvariant

MCPaths == 1 .. 7
MCParent == [p \in 2 .. 7 |-> CASE p \in {4, 5} -> 2
                                [] p = 7 -> 6
                                [] OTHER -> 1]

\* 1/ holds 2/ (4, 5), 3 and 6/ (7): 3 sorts between 2 and what is in 2, as "a.c"
\* does between "a" and "a/x".
MCTypes ==
    {[p \in 1 .. 7 |-> CASE p \in {1, 2, 6} -> "dir" [] p = 4 -> four [] p = 7 -> seven
                         [] OTHER -> "file"] :
        four \in {"dir", "file", "shadowed", "unreadable", "special"},
        seven \in {"file", "fleeting", "dangling"}}

MCLength == [p \in 1 .. 7 |-> CASE p = 3 -> 3 [] p \in {5, 7} -> 1 [] OTHER -> 0]
=============================================================================
