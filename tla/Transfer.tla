------------------------------ MODULE Transfer ------------------------------
(***************************************************************************)
(* What the TCP and the UDP transfer have in common, line by line in the    *)
(* code: ./save, FilePathCheck, the server's loop over the entries and the  *)
(* client's.  Modules TcpTransfer and UdpTransfer put a transport between.  *)
(*                                                                          *)
(* Abstractions.  The two lists of entries agree (module Negotiation says   *)
(* when), the argument is a plain name, so every mkdir and open under       *)
(* ./save succeeds, and the client's tree does not change.                  *)
(***************************************************************************)
EXTENDS Tree

CONSTANTS
    SIZEBUF,        \* bytes per block
    LooksLikeEof,   \* pairs <<i, p>>: a read of file i at p may yield "end of file"
    MaxSessions,    \* bound: runs of the client
    MaxLength       \* bound: length up to which junk is appended to a file

ASSUME TransferAssumption ==
    /\ SIZEBUF \in Nat \ {0}
    /\ LooksLikeEof \subseteq Entries \X Nat
    /\ MaxSessions \in Nat
    /\ MaxLength \in Nat

VARIABLES
    present,    \* entries that exist under ./save
    saved,      \* saved[i]: contents of ./save's copy of file i
    before,     \* history: saved as the session found it
    sPhase,     \* where the server is
    indexA,     \* server: entry the session starts from
    entry,      \* server: i of its loop over the entries
    block,      \* server: buf, once a block is in it
    cPhase,     \* where the client is
    sending,    \* client: i of its loop over the entries
    fileOffset, \* client: file_offset, as received
    pos,        \* client: position of the descriptor it reads from
    toServer, toClient,
    mishaps,    \* history: what has gone wrong in the session, but for deaths,
                \* and whether anything had in an earlier one
    sessions

store == <<present, saved, before>>
server == <<sPhase, indexA, entry, block>>
cursor == <<sending, fileOffset, pos>>
client == <<cPhase, cursor>>
-----------------------------------------------------------------------------
Block == [file : 0 .. FileCount, at : Nat, n : 0 .. SIZEBUF]
Zeros == [file |-> FileCount, at |-> 0, n |-> 0]

\* Mutants: the whole buffer is written; the last byte of a block is not.
BytesWhole(b, len) ==
    [k \in 1 .. SIZEBUF |-> IF k <= b.n THEN <<b.file, b.at + k - 1>> ELSE Junk]
BytesShort(b, len) == [k \in 1 .. len - 1 |-> <<b.file, b.at + k - 1>>]

\* The first len bytes from the start of a cleared buffer that b was received into.
Bytes(b, len) == [k \in 1 .. len |-> IF k <= b.n THEN <<b.file, b.at + k - 1>> ELSE Junk]

\* What atoi may find in a tmp that was not, or not wholly, filled by a length: one
\* byte more than the buffer holds stands for every larger number.
AnyLength ==
    {len \in 0 .. SIZEBUF + 1 : len > 0 => Len(saved[entry]) + len <= MaxLength}

ServerMessage ==
    [type : {"ack", "block", "length", "eof", "count", "stray"}, block : Block]
ClientMessage == [type : {"offset", "index", "eof", "echo", "verdict"}, value : Int]

Text(type) == [type |-> type, block |-> Zeros]
Reply(type) == [type |-> type, value |-> 0]

Serving == {"ackOffset", "ackIndex", "loop", "content", "length", "fileCnt", "dirCnt",
            "misaligned"}
Running == {"offset", "index", "read", "length", "eof", "counts", "fileEcho", "dirEcho",
            "verdict"}
-----------------------------------------------------------------------------
(* Where a session starts.                                                 *)

\* One byte less than the file holds, unless it is empty; a directory cannot be
\* opened with O_CREAT, and lseek on no descriptor returns -1.
FileLocatePointer(i) ==
    IF i \notin Files THEN 0 - 2 ELSE IF saved[i] = <<>> THEN 0 ELSE Len(saved[i]) - 1

\* The path of an entry that was not sent is ./save/ itself.
Found == present \cup {i \in Entries : Kind[i] = "none"}

FirstMissing == Min((Entries \ Found) \cup {FileCount})

\* Mutant: the entry before the first one missing, without the case of i == 0.
StartIndexUnchecked == FirstMissing - 1

\* Mutant: the first one missing, as if the copy before it were complete.
StartIndexMissing == Min({FirstMissing, FileCount - 1})

\* The last entry before the first one missing.
StartIndex == IF 0 \notin Found THEN 0 ELSE FirstMissing - 1

StartOffset == IF 0 \notin Found THEN 0 ELSE FileLocatePointer(StartIndex)

\* lseek to a negative offset fails and leaves the descriptor at the start.
Seek(offset) == IF offset < 0 THEN 0 ELSE offset
-----------------------------------------------------------------------------
(* The client's loop.                                                      *)

\* The next entry from i on that is a file: directories take the client no time, and
\* idx leaves out the entries that are not sent.
NextFile(i) == IF \E k \in Files : k >= i THEN Min({k \in Files : k >= i}) ELSE FileCount

\* The loop moves to the next file and opens it, at offset.
MoveTo(i, offset) ==
    /\ sending' = NextFile(i)
    /\ pos' = offset
    /\ cPhase' = IF NextFile(i) < FileCount THEN "read" ELSE "counts"
    /\ UNCHANGED fileOffset

\* What read() returns at the descriptor's position.
ReadHere ==
    [file |-> sending, at |-> pos,
     n |-> IF Size[sending] - pos < SIZEBUF THEN Size[sending] - pos ELSE SIZEBUF]
-----------------------------------------------------------------------------
(* The server's loop.                                                      *)

MakeDirectory ==
    /\ sPhase = "loop"
    /\ entry < FileCount
    /\ Kind[entry] = "d"
    /\ present' = present \cup {entry}
    /\ entry' = entry + 1
    /\ UNCHANGED <<saved, before, sPhase, indexA, block>>

\* Neither 'd' nor 'f'.
SkipEntry ==
    /\ sPhase = "loop"
    /\ entry < FileCount
    /\ Kind[entry] = "none"
    /\ entry' = entry + 1
    /\ UNCHANGED <<store, sPhase, indexA, block>>

\* Mutant: open with O_TRUNC.
OpenFileTruncated ==
    /\ sPhase = "loop"
    /\ entry < FileCount
    /\ Kind[entry] = "f"
    /\ present' = present \cup {entry}
    /\ saved' = [saved EXCEPT ![entry] = <<>>]
    /\ sPhase' = "content"
    /\ UNCHANGED <<before, indexA, entry, block>>

\* open with O_CREAT | O_APPEND: nothing that is there is lost.
OpenFile ==
    /\ sPhase = "loop"
    /\ entry < FileCount
    /\ Kind[entry] = "f"
    /\ present' = present \cup {entry}
    /\ sPhase' = "content"
    /\ UNCHANGED <<saved, before, indexA, entry, block>>

\* The loop ends; CountFile and CountDir look at the path the client named, under
\* the server's own working directory.
EndLoop ==
    /\ sPhase = "loop"
    /\ entry = FileCount
    /\ sPhase' = "fileCnt"
    /\ UNCHANGED <<store, indexA, entry, block>>

Loop == MakeDirectory \/ SkipEntry \/ OpenFile \/ EndLoop

\* Can the text in buf compare equal to "end of file", although it is a block? What the
\* bytes of a file are is left open, so that it need not.
ReadsLikeEof(message) ==
    message.type = "block" /\ <<message.block.file, message.block.at>> \in LooksLikeEof

TakeEndOfFile ==
    /\ entry' = entry + 1
    /\ sPhase' = "loop"
    /\ UNCHANGED <<store, indexA, block>>

TakeBlock(b) ==
    /\ block' = b
    /\ sPhase' = "length"
    /\ UNCHANGED <<store, indexA, entry>>

WriteBytes(bytes) ==
    /\ saved' = [saved EXCEPT ![entry] = @ \o bytes]
    /\ UNCHANGED <<present, before, indexA, entry, block>>
-----------------------------------------------------------------------------
\* What can go wrong in a session; deaths are not among it.
Mishap == {"short", "marker", "lost", "overtaken", "stray", "guess"}

Clean == mishaps \cap Mishap = {}

\* What a new session remembers of those before, mishaps that leave nothing to it apart.
Earlier(harmless) == IF mishaps \subseteq harmless THEN {} ELSE {"earlier"}

TransferInit ==
    /\ present = {}
    /\ saved = [i \in Entries |-> <<>>]
    /\ before = saved
    /\ indexA = 0
    /\ entry = 0
    /\ block = Zeros
    /\ cPhase = "idle"
    /\ sending = 0
    /\ fileOffset = 0
    /\ pos = 0
    /\ toServer = <<>>
    /\ toClient = <<>>
    /\ mishaps = {}
    /\ sessions = 0

TransferTypeOK ==
    /\ present \subseteq Entries
    /\ saved \in [Entries -> Seq(Byte \cup {Junk})]
    /\ before \in [Entries -> Seq(Byte \cup {Junk})]
    /\ indexA \in Entries
    /\ entry \in 0 .. FileCount
    /\ block \in Block
    /\ cPhase \in Running \cup {"idle", "done", "failed", "killed"}
    /\ sending \in 0 .. FileCount
    /\ fileOffset \in Int
    /\ pos \in Nat
    /\ toServer \in Seq(ServerMessage)
    /\ toClient \in Seq(ClientMessage)
    /\ mishaps \subseteq Mishap \cup {"earlier"}
    /\ sessions \in 0 .. MaxSessions

\* A session that finds the copies it does not start at empty or complete, and none to
\* continue where it starts, has saved every file when its client comes to its end
\* (client_function.c:216, 533), if nothing has gone wrong but deaths, in however many
\* sessions before. Not so one whose client went on without the server's offset or index,
\* after a recv of 0 (client_function.c:446, 458), nor one in which a block was taken for
\* the end of a file, nor one that is made to start at a special file, which FilePathCheck
\* always finds: the copy that was opened last and is still empty stays so
\* (server_function.c:93).
FreshMeansSaved ==
    /\ cPhase = "done"
    /\ mishaps = {}
    /\ \A i \in Files : before[i] \in {<<>>, Source(i)}
    /\ indexA \in Files => before[indexA] = <<>>
    => Kind[indexA] = "none" \/ \A i \in Files : saved[i] = Source(i)

\* Whatever dies, is lost or is read short, no file receives a byte of another one:
\* the two loops over the two lists (client_function.c:472, server_function.c:490) stay
\* on the same entry, unless a block was taken for the end of a file or a datagram
\* has overtaken another.
OwnBytesOnly ==
    [][mishaps \cap {"marker", "overtaken"} = {} =>
        \A i \in Files : \A k \in DOMAIN saved'[i] \ DOMAIN saved[i] :
            saved'[i][k] \in ({i} \X Nat) \cup {Junk}]_<<saved, mishaps>>
-----------------------------------------------------------------------------
(* How a transfer implements Delivery.                                     *)

Alive == cPhase \in Running

\* The client is in a session that has begun, with the server or after the server's end.
Going == Alive /\ Clean /\ ~(cPhase = "offset" /\ sPhase \notin Serving)

DeliveryPhase ==
    IF cPhase = "done" /\ Clean THEN "reported"
    ELSE IF sPhase \in Serving /\ ~(Alive /\ Clean) THEN "derailed"
    ELSE IF Going THEN "going"
    ELSE "idle"

\* What is left of the session when its files are sent from offset on.
Remaining(offset) ==
    [i \in Entries |->
        IF Going /\ i \in Files /\ i >= indexA
        THEN From(i, offset + (Len(saved[i]) - Len(before[i])))
        ELSE <<>>]
=============================================================================
