------------------------------ MODULE MCLegacy ------------------------------
(* Values of Legacy's constants for TLC: a block of TCP has three bytes, of    *)
(* which one is cleared, one of UDP two.                                       *)
EXTENDS LegacyInvariant, TLC

\* The file of "a" is anything up to a block, or a block that begins with its letter
\* and a byte more.
Short == UNION {[1 .. n -> {"a", NewLine, Nul}] : n \in 0 .. 3}
            \cup {<<"a", x, y, "a">> : x, y \in {"a", NewLine, Nul}}
MCContents == ("a" :> Short) @@ ("b" :> {<<"b", "b", "b">>})
\* A name of one letter, its NUL, and what follows it.
MCMemory == <<Other, Nul, Other>>
=============================================================================
