--------------------------- MODULE LegacyInvariant ---------------------------
(***************************************************************************)
(* The inductive invariant behind CopyKept: where a client and the server   *)
(* are in the run they share, and what is on its way between them.          *)
(***************************************************************************)
EXTENDS Legacy

\* The server is in the run of c (TCP_server.c:70, UDP_server.c:78).
Attended(c) == served = c /\ sPhase \in {"blocks", "reopen", "check"}

\* A copy has every byte of t that no NUL comes before.
Keeps(copy, t) ==
    \A k \in 1 .. Len(t) :
        (\A j \in 1 .. k : t[j] # Nul) => k <= Len(copy) /\ copy[k] = t[k]

\* A position that a number of full blocks leads to.
Whole(p) == \E n \in 0 .. p : p = n * BlockSize

\* A copy of the first p bytes of c's file has nothing else, unless there is a NUL among
\* them or the last block was not full.
Good(c, copy, p) ==
    LET t == SubSeq(text[c], 1, p)
    IN  /\ Keeps(copy, t)
        /\ Nul \notin Range(t) /\ (Tcp => Whole(p)) => copy = t

\* What fgets or fread takes at p, and where it leaves the position.
After(c, p) == Min({p + BlockSize, Len(text[c])})
Piece(c, p) == SubSeq(text[c], p + 1, After(c, p))

\* A block that was read at p: what was read, over TCP with the rest of the buffer.
Holds(c, bytes, p) ==
    IF Tcp THEN /\ Len(bytes) = SIZEBUF
                /\ \A k \in 1 .. Len(Piece(c, p)) : bytes[k] = Piece(c, p)[k]
           ELSE bytes = Piece(c, p)

\* The first n messages of c are blocks of its file, one behind the other, from where
\* temp ends to where the client has read.
FirstPass(c, n) ==
    \E at \in [1 .. n + 1 -> 0 .. Len(text[c])] :
        /\ at[n + 1] = IF cPhase[c] = "send" THEN pos[c] ELSE Len(text[c])
        /\ Good(c, temp, at[1])
        /\ \A k \in 1 .. n + 1 : at[k] < Len(text[c]) => Whole(at[k])
        /\ \A k \in 1 .. n :
            /\ toServer[c][k].type = "block"
            /\ Holds(c, toServer[c][k].bytes, at[k])
            /\ at[k] < Len(text[c])
            /\ at[k + 1] = After(c, at[k])

\* In the second pass only the kind of a message counts.
Blocks(c, n) == \A k \in 1 .. n : toServer[c][k].type = "block"

\* The end of the file is the last message.
AtEnd(c) == toServer[c] # <<>> /\ Last(toServer[c]).type = "eof"
Before(c) == Len(toServer[c]) - 1

\* Where a client and the server are, and what is on its way between them.
InStep(c) ==
    \/ /\ cPhase[c] = "idle"
       /\ ~ Attended(c) /\ pos[c] = 0
       /\ toServer[c] = <<>> /\ toClient[c] = <<>>
    \/ /\ cPhase[c] = "echo"
       /\ ~ Attended(c) /\ pos[c] = 0
       /\ toServer[c] = <<[type |-> "name", bytes |-> <<Other>>]>> /\ toClient[c] = <<>>
    \/ /\ cPhase[c] = "echo"
       /\ Attended(c) /\ sPhase = "blocks" /\ temp = <<>> /\ pos[c] = 0
       /\ toServer[c] = <<>> /\ toClient[c] = <<"echo">>
    \/ /\ cPhase[c] = "send"
       /\ Attended(c) /\ sPhase = "blocks"
       /\ FirstPass(c, Len(toServer[c])) /\ toClient[c] = <<>>
    \/ /\ cPhase[c] = "eof"
       /\ Attended(c) /\ sPhase = "blocks"
       /\ AtEnd(c) /\ FirstPass(c, Before(c)) /\ toClient[c] = <<>>
    \/ /\ cPhase[c] = "eof"
       /\ Attended(c) /\ sPhase # "blocks"
       /\ toServer[c] = <<>> /\ toClient[c] = <<"eof">>
    \/ /\ cPhase[c] = "resend"
       /\ Attended(c) /\ sPhase # "blocks"
       /\ Blocks(c, Len(toServer[c])) /\ toClient[c] = <<>>
    \/ /\ cPhase[c] = "eof2"
       /\ Attended(c) /\ sPhase # "blocks"
       /\ AtEnd(c) /\ Blocks(c, Before(c)) /\ toClient[c] = <<>>
    \/ /\ cPhase[c] = "eof2"
       /\ ~ Attended(c)
       /\ toServer[c] = <<>> /\ toClient[c] = <<"eof", "100">>
    \/ /\ cPhase[c] = "verdict"
       /\ ~ Attended(c)
       /\ toServer[c] = <<>> /\ toClient[c] \in {<<"100">>, <<"rest", "100">>}
    \/ /\ cPhase[c] \in {"same", "differs"}
       /\ ~ Attended(c)
       /\ toServer[c] = <<>>

\* Over TCP the two stay in step as long as both live, whatever becomes of the other
\* clients; over UDP as long as nothing has gone wrong with anybody.
Undisturbed(c) == IF Tcp THEN sPhase # "down" /\ cPhase[c] # "killed" ELSE faults = {}

Steps == \A c \in Clients : Undisturbed(c) => InStep(c)

\* Over TCP the confirmation stands for the copy, also when the server has died since.
Confirmed(c) ==
    \/ cPhase[c] \in {"resend", "eof2", "verdict", "same", "differs"}
    \/ cPhase[c] = "eof" /\ toClient[c] # <<>>

Confirmations ==
    Tcp => \A c \in Clients :
        /\ cPhase[c] \in {"idle", "send"} => toClient[c] = <<>>
        /\ cPhase[c] = "echo" => toClient[c] \in {<<>>, <<"echo">>}
        /\ Confirmed(c) => Kept(c)

\* Over UDP the copy is there until the file is opened again.
Reopened == ~ Tcp /\ faults = {} /\ sPhase = "reopen" /\ served # "nobody" => Kept(served)

CopyInv == TypeOK /\ Steps /\ Confirmations /\ Reopened
=============================================================================
