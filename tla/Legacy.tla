------------------------------- MODULE Legacy -------------------------------
(***************************************************************************)
(* The earlier programs under src/: one file, sent twice, over TCP          *)
(* (TCP_client.c, TCP_server.c) or UDP (UDP_client.c, UDP_server.c), which  *)
(* take the same steps with another transport, block and copy.              *)
(*                                                                          *)
(* Abstractions.  A byte is told apart only as a newline, a NUL, a letter   *)
(* of its client's file or another one.  Contents that read like the marker *)
(* are left out, as are datagrams of one client that overtake each other,   *)
(* and runs whose files have one name, of which the last takes the copy.    *)
(***************************************************************************)
EXTENDS Integers, SequencesExt

CONSTANTS
    Clients,        \* runs of the client; c is also a letter of c's file
    Transports,     \* a subset of {"TCP", "UDP"}
    Contents,       \* Contents[c]: what the file of c may hold
    MayNest,        \* clients whose argument may have a directory in it
    Memory,         \* SIZEBUF bytes of memory from the argument on
    SIZEBUF,        \* bytes of a block over TCP
    Cleared,        \* bytes of it the TCP client clears between two blocks
    Datagram,       \* bytes of a block over UDP
    MayKill, MayLose, MayReadShort,
    MaxTemp         \* bound: bytes up to which temp.dat grows from nothing

NewLine == "newline"
Nul == "nul"
Other == "other"
Byte == Clients \cup {NewLine, Nul, Other}

ASSUME LegacyAssumption ==
    /\ {NewLine, Nul, Other, "nobody"} \cap Clients = {}
    /\ Transports \subseteq {"TCP", "UDP"}
    /\ \A c \in Clients : Contents[c] \subseteq Seq(Byte)
    /\ MayNest \subseteq Clients
    /\ Memory \in [1 .. SIZEBUF -> Byte]
    /\ Cleared \in 0 .. SIZEBUF
    /\ {SIZEBUF, Datagram, MaxTemp} \subseteq Nat \ {0} /\ SIZEBUF > 1
    /\ {MayKill, MayLose, MayReadShort} \subseteq BOOLEAN

VARIABLES
    transport, text,        \* the programs used, and the file of each client
    nested,                 \* the clients whose argument has a directory in it
    cPhase, pos, buf,       \* client: where it is, file position, send buffer
    sPhase, served, temp,   \* server: where it is, whose name it has, temp.dat
    final,                  \* final[c]: the server's ./temp/<name of c's file>,
                            \* a name of its own for each c
    toServer, toClient,
    faults                  \* history: what has gone wrong

inputs == <<transport, text, nested>>
server == <<sPhase, served, temp, final>>
client == <<cPhase, pos, buf>>
vars == <<inputs, client, server, toServer, toClient, faults>>
-----------------------------------------------------------------------------
Tcp == transport = "TCP"
BlockSize == IF Tcp THEN SIZEBUF ELSE Datagram

UpToNul(s) ==
    IF Nul \in Range(s) THEN SubSeq(s, 1, SelectInSeq(s, LAMBDA b : b = Nul) - 1) ELSE s

\* fgets takes a line, or as much of it as fits; the last byte is at:
LineEnd(s, p, size) ==
    Min({Len(s), p + size - 1} \cup {k \in p .. Len(s) : s[k] = NewLine})

\* Mutant: one byte of a line that does not fit is lost.
CopiedShort(s, size) ==
    LET from[p \in 1 .. Len(s) + 1] ==
            IF p > Len(s) THEN <<>>
            ELSE UpToNul(SubSeq(s, p, LineEnd(s, p, size)))
                    \o from[Min({LineEnd(s, p, size) + 2, Len(s) + 1})]
    IN  from[1]

\* What fgets and fputs, or fprintf, make of a file: of each line, what is before
\* the first NUL in it.
Copied(s, size) ==
    LET from[p \in 1 .. Len(s) + 1] ==
            IF p > Len(s) THEN <<>>
            ELSE UpToNul(SubSeq(s, p, LineEnd(s, p, size))) \o from[LineEnd(s, p, size) + 1]
    IN  from[1]

Message == [type : {"name", "block", "eof"}, bytes : Seq(Byte)]
Alive(c) == cPhase[c] \in {"echo", "send", "eof", "resend", "eof2", "verdict"}

Init ==
    /\ transport \in Transports
    /\ text \in {t \in [Clients -> UNION Range(Contents)] :
                    \A c \in Clients : t[c] \in Contents[c]}
    /\ nested \in SUBSET MayNest
    /\ cPhase = [c \in Clients |-> "idle"]
    /\ pos = [c \in Clients |-> 0]
    /\ buf = [c \in Clients |-> Memory]
    /\ sPhase = "name"
    /\ served = "nobody"
    /\ temp = <<>>
    /\ final = [c \in Clients |-> <<>>]
    /\ toServer = [c \in Clients |-> <<>>]
    /\ toClient = [c \in Clients |-> <<>>]
    /\ faults = {}
-----------------------------------------------------------------------------
(* The client.                                                             *)

Goto(c, phase) == cPhase' = [cPhase EXCEPT ![c] = phase]

Send(c, type, bytes) ==
    \/ /\ toServer' = [toServer EXCEPT ![c] = Append(@, [type |-> type, bytes |-> bytes])]
       /\ UNCHANGED faults
    \/ /\ MayLose /\ ~Tcp
       /\ faults' = faults \cup {"lost"}
       /\ UNCHANGED toServer

Got(c) == Head(toClient[c])
Consume(c) == toClient[c] # <<>> /\ toClient' = [toClient EXCEPT ![c] = Tail(@)]

\* Over TCP a client connects before it opens its file.  When it cannot open it, it
\* leaves a closed connection behind: what the server's recv finds there is no name.
Start(c) ==
    /\ cPhase[c] = "idle"
    /\ Tcp => sPhase # "down"
    /\ \/ /\ Send(c, "name", <<Other>>)
          /\ Goto(c, "echo")
       \/ /\ MayKill /\ Tcp
          /\ toServer' = [toServer EXCEPT ![c] = <<[type |-> "name", bytes |-> <<>>]>>]
          /\ Goto(c, "killed")
          /\ faults' = faults \cup {"killed"}
    /\ UNCHANGED <<pos, buf, toClient>>

\* Over TCP the reply leaves in buf all that was sent with the name.
RecvEcho(c) ==
    /\ cPhase[c] = "echo"
    /\ Consume(c)
    /\ Goto(c, IF Got(c) = "echo" THEN "send" ELSE "failed")
    /\ UNCHANGED <<pos, buf, toServer, faults>>

\* Mutant: the position moves on by a whole block.
AdvanceWhole(c) == pos[c] + BlockSize

\* The position after one more read.
Advance(c) == Min({pos[c] + BlockSize, Len(text[c])})

\* buf after the read: over TCP all of it is sent, over UDP what was read.
Filled(c) ==
    LET read == SubSeq(text[c], pos[c] + 1, Min({pos[c] + BlockSize, Len(text[c])}))
    IN  IF Tcp THEN read \o SubSeq(buf[c], Len(read) + 1, SIZEBUF) ELSE read

\* The first pass clears a part of buf, the second all of it.
SendBlock(c) ==
    /\ cPhase[c] \in {"send", "resend"}
    /\ pos[c] < Len(text[c])
    /\ Send(c, "block", Filled(c))
    /\ pos' = [pos EXCEPT ![c] = Advance(c)]
    /\ buf' = [buf EXCEPT ![c] =
                IF Tcp
                THEN [k \in 1 .. SIZEBUF |->
                        IF k <= Cleared \/ cPhase[c] = "resend" THEN Nul ELSE Filled(c)[k]]
                ELSE @]
    /\ UNCHANGED <<cPhase, toClient>>

\* The file is opened again for the second pass.
SendEof(c) ==
    /\ cPhase[c] \in {"send", "resend"}
    /\ pos[c] >= Len(text[c])
    /\ Send(c, "eof", <<>>)
    /\ pos' = [pos EXCEPT ![c] = 0]
    /\ buf' = [buf EXCEPT ![c] = [k \in 1 .. SIZEBUF |-> Nul]]
    /\ Goto(c, IF cPhase[c] = "send" THEN "eof" ELSE "eof2")
    /\ UNCHANGED toClient

\* The second confirmation is received without MSG_WAITALL, into the buffer that the
\* first one is still in: a part of it passes, and the rest is still to come.
RecvEof(c) ==
    /\ cPhase[c] \in {"eof", "eof2"}
    /\ \/ /\ Consume(c)
          /\ Goto(c, CASE Got(c) # "eof" -> "failed"
                       [] cPhase[c] = "eof" -> "resend"
                       [] OTHER -> "verdict")
          /\ UNCHANGED faults
       \/ /\ MayReadShort /\ Tcp /\ cPhase[c] = "eof2"
          /\ toClient[c] # <<>>
          /\ toClient' = [toClient EXCEPT ![c] = <<"rest">> \o Tail(@)]
          /\ Goto(c, "verdict")
          /\ faults' = faults \cup {"short"}
    /\ UNCHANGED <<pos, buf, toServer>>

RecvVerdict(c) ==
    /\ cPhase[c] = "verdict"
    /\ Consume(c)
    /\ Goto(c, IF Got(c) = "100" THEN "same" ELSE "differs")
    /\ UNCHANGED <<pos, buf, toServer, faults>>

\* Over TCP a client notices that the server is gone.  For the second confirmation
\* a recv of 0 is no error, and the text of the first one passes for it; the result
\* is then none, and so is that of a recv that fails: "file is not same".
Fail(c) ==
    /\ Tcp
    /\ sPhase = "down"
    /\ \/ Alive(c) /\ cPhase[c] # "verdict" /\ Goto(c, "failed")
       \/ cPhase[c] = "eof2" /\ toClient[c] = <<>> /\ Goto(c, "verdict")
       \/ cPhase[c] = "verdict" /\ Goto(c, "differs")
    /\ UNCHANGED <<pos, buf, toServer, toClient, faults>>

ClientStep(c) ==
    /\ \/ RecvEcho(c)
       \/ SendBlock(c)
       \/ SendEof(c)
       \/ RecvEof(c)
       \/ RecvVerdict(c)
       \/ Fail(c)
    /\ UNCHANGED <<inputs, server>>

Kill(c) ==
    /\ MayKill
    /\ Alive(c)
    /\ Goto(c, "killed")
    /\ faults' = faults \cup {"killed"}
    /\ UNCHANGED <<inputs, pos, buf, server, toServer, toClient>>
-----------------------------------------------------------------------------
(* The server.                                                             *)

\* Over TCP it reads from one connection, over UDP from whoever has sent something.
Take(c) ==
    /\ Tcp => sPhase = "name" \/ c = served
    /\ toServer[c] # <<>>
    /\ toServer' = [toServer EXCEPT ![c] = Tail(@)]

Taken(c) == Head(toServer[c])

Expected(c) == IF sPhase = "name" THEN Taken(c).type = "name"
                                  ELSE c = served /\ Taken(c).type # "name"
Crossed(c) == IF Expected(c) THEN {} ELSE {"crossed"}

\* What is left of one or two replies when one is lost, or both.
Heard(replies) == ({<<>>} \cup {<<replies[k]>> : k \in DOMAIN replies}) \ {replies}

\* Over UDP each reply may be lost.
Answer(c, replies, crossed) ==
    \/ /\ toClient' = [toClient EXCEPT ![c] = @ \o replies]
       /\ faults' = faults \cup crossed
    \/ /\ MayLose /\ ~Tcp
       /\ faults' = faults \cup crossed \cup {"lost"}
       /\ \E heard \in Heard(replies) : toClient' = [toClient EXCEPT ![c] = @ \o heard]

\* Whatever comes first is taken for a name, and echoed.
RecvName(c) ==
    /\ sPhase = "name"
    /\ Take(c)
    /\ Answer(c, <<IF Taken(c).type = "name" THEN "echo" ELSE Taken(c).type>>, Crossed(c))
    /\ served' = IF Taken(c).type = "name" THEN c ELSE "nobody"
    /\ temp' = <<>>
    /\ sPhase' = "blocks"
    /\ UNCHANGED final

\* fwrite of all that was received over TCP, fprintf of a text over UDP. In the second
\* pass it goes to temp2.dat, which nothing reads.
RecvBlock(c) ==
    /\ sPhase \in {"blocks", "check"}
    /\ Take(c)
    /\ Taken(c).type # "eof"
    /\ temp' = CASE sPhase = "check" -> temp
                 [] Tcp -> temp \o Taken(c).bytes
                 [] OTHER -> temp \o UpToNul(Taken(c).bytes)
    /\ faults' = faults \cup Crossed(c)
    /\ UNCHANGED <<sPhase, served, final, toClient>>

\* Nobody sees that fopen returns NULL for a name with a directory in it.
SaveFile(c) ==
    /\ sPhase = "blocks"
    /\ Take(c)
    /\ Taken(c).type = "eof"
    /\ \/ /\ served \notin nested
          /\ final' = IF served = "nobody" THEN final
                      ELSE [final EXCEPT ![served] =
                            Copied(temp, IF Tcp THEN SIZEBUF - 1 ELSE Datagram)]
          /\ Answer(c, <<"eof">>, Crossed(c))
          /\ sPhase' = "reopen"
       \/ /\ served \in nested \cup {"nobody"}
          /\ faults' = faults \cup {"crash"}
          /\ sPhase' = "down"
          /\ UNCHANGED <<final, toClient>>
    /\ UNCHANGED <<served, temp>>

\* The file is opened to be compared, over UDP with w+.
Reopen ==
    /\ sPhase = "reopen"
    /\ sPhase' = "check"
    /\ final' = IF Tcp \/ served = "nobody" THEN final ELSE [final EXCEPT ![served] = <<>>]
    /\ UNCHANGED <<served, temp, toServer, toClient, faults>>

\* Mutant: temp2.dat is read from its beginning, and the comparison runs.
EndCheckCompared(c) ==
    /\ sPhase = "check"
    /\ Take(c)
    /\ Taken(c).type = "eof"
    /\ Answer(c, <<"eof", "100">>, Crossed(c))
    /\ sPhase' = IF served # "nobody" /\ final[served] = text[served] THEN "down" ELSE "name"
    /\ UNCHANGED <<served, temp, final>>

\* temp2.dat is not open for reading, or read at its end: fgets gives NULL, nothing is
\* compared, and the answer is always the same.
EndCheck(c) ==
    /\ sPhase = "check"
    /\ Take(c)
    /\ Taken(c).type = "eof"
    /\ Answer(c, <<"eof", "100">>, Crossed(c))
    /\ sPhase' = "name"
    /\ UNCHANGED <<served, temp, final>>

\* Once its client is dead recv returns 0 for ever; or an error, or a send is fatal.
Abandoned == Tcp /\ sPhase # "name" /\ served # "nobody" /\ cPhase[served] = "killed"

RecvNothing ==
    /\ Abandoned
    /\ sPhase = "blocks"
    /\ toServer[served] = <<>>
    /\ Len(temp) < MaxTemp
    /\ temp' = temp \o [k \in 1 .. SIZEBUF |-> Nul]
    /\ UNCHANGED <<sPhase, served, final, toServer, toClient, faults>>

Die ==
    /\ Abandoned
    /\ sPhase # "down"
    /\ sPhase' = "down"
    /\ UNCHANGED <<served, temp, final, toServer, toClient, faults>>

ServerStep ==
    /\ \/ \E c \in Clients : RecvName(c) \/ RecvBlock(c) \/ SaveFile(c) \/ EndCheck(c)
       \/ Reopen
       \/ RecvNothing
    /\ UNCHANGED <<inputs, client>>
-----------------------------------------------------------------------------
Next ==
    \/ \E c \in Clients :
        \/ Start(c) /\ UNCHANGED <<inputs, server>>
        \/ ClientStep(c)
        \/ Kill(c)
    \/ ServerStep
    \/ Die /\ UNCHANGED <<inputs, client>>

Spec == Init /\ [][Next]_vars

\* The programs run whenever they are not blocked in a call.
FairSpec == Spec /\ WF_vars(ServerStep) /\ \A c \in Clients : WF_vars(ClientStep(c))
-----------------------------------------------------------------------------
TypeOK ==
    /\ transport \in Transports
    /\ nested \subseteq MayNest
    /\ pos \in [Clients -> Nat]
    /\ \A c \in Clients : text[c] \in Contents[c] /\ pos[c] <= Len(text[c])
    /\ cPhase \in [Clients -> {"idle", "echo", "send", "eof", "resend", "eof2", "verdict",
                               "same", "differs", "failed", "killed"}]
    /\ buf \in [Clients -> [1 .. SIZEBUF -> Byte]]
    /\ sPhase \in {"name", "blocks", "reopen", "check", "down"}
    /\ served \in Clients \cup {"nobody"}
    /\ temp \in Seq(Byte)
    /\ final \in [Clients -> Seq(Byte)]
    /\ toServer \in [Clients -> Seq(Message)]
    /\ toClient \in [Clients -> Seq({"echo", "block", "eof", "100", "rest"})]
    /\ faults \subseteq {"killed", "lost", "short", "crossed", "crash"}

\* The copy of c's file keeps all that is before its first NUL, and all of a file
\* without one, if over TCP it fills its last block.
Kept(c) ==
    /\ IsPrefix(UpToNul(text[c]), final[c])
    /\ Nul \notin Range(text[c]) /\ (Tcp => Len(text[c]) % SIZEBUF = 0) => final[c] = text[c]

\* What the first pass saves (TCP_server.c:116-119, UDP_server.c:111-112).  Over TCP it
\* holds from the confirmation on, whoever else is killed; over UDP until the server
\* opens the file again (UDP_server.c:139), if nothing is lost and no two runs overlap.
CopyKept ==
    /\ Tcp => \A c \in Clients :
        cPhase[c] \in {"resend", "eof2", "verdict", "same", "differs"} => Kept(c)
    /\ ~Tcp /\ sPhase = "reopen" /\ served # "nobody" /\ faults = {} => Kept(served)

\* Unless something goes wrong every run ends with "same file" (TCP_client.c:168,
\* UDP_client.c:156): the comparison whose test is turned round (TCP_server.c:174,
\* UDP_server.c:170) never gets to fail for two files that are the same.
RunEnds == \A c \in Clients : cPhase[c] = "echo" ~> cPhase[c] = "same" \/ faults # {}

\* The client says "same file" (TCP_client.c:168, UDP_client.c:156) when the server has
\* its file.
SameMeansSame == \A c \in Clients : cPhase[c] = "same" => final[c] = text[c]
=============================================================================
