# Specifications of Invisible_hand_in_class

The repository is a file-transfer tool in C: `client.exe` sends a file or a
directory tree, `server.exe` stores it under `./save`. This directory holds TLA+
models of its protocols and algorithms, the TLC runs that check them and the
proofs that TLAPS checks.

## The system

| part | source | state | operations | interacts through |
|---|---|---|---|---|
| session negotiation | `client.c`, `server.c` | the server's `cli`, `fileCount`, `file_info`; the phase of each process | count, array and transport, each a datagram and a reply; the change to TCP; back to UDP for the next session | UDP port 9000, then TCP port 9000 |
| TCP transfer | `TcpClient`, `TcpFileTrans`, `TcpServer`, `FilePathCheck`, `FileLocatePointer` | `./save` (survives the server), `indexA`, `offset`, the two loop indices, the client's file position | start of a session from what `./save` holds, blocks with lengths, the `end of file` marker, the counts and the verdict | one TCP connection |
| UDP transfer | `UdpClient`, `UdpFileTrans`, `UdpServer` | as above | as above, in datagrams | the UDP socket of the session |
| tree scan | client's `CountFile`, `CountDir`, `compare_file_name` | `file_info`, `idx`, `files_size`, three counters | recursive `readdir`, doubling of the array, sorting | called once before the session, `CountDir` once after the transfer |
| server's counters | server's `CountFile`, `CountDir` | `count_Dir`, `count_File` | walk below the path the client named | called before the verdict |
| sizes | `FileTransferSize`, `FileSize`, `FolderSize` | the working directory | total size, which decides the transport | called by `client.c:61` |
| earlier programs | `src/TCP_*.c`, `src/UDP_*.c` | one temporary and one final file | one file sent twice and compared | not built by the Makefile |

Hard behaviours. There is one process on each side and no thread, so what is hard
lies between processes: several clients share the one UDP port, and no datagram
says which session or which step it belongs to; nothing has a timeout or a retry;
the TCP socket is opened after the client is told to connect; a killed process
leaves `./save` half-way and the next session decides from file lengths where to
continue; a `recv` that returns 0, or fewer bytes than were sent, is not
distinguished from data; the marker that ends a file travels in the same frames as
its contents; over UDP a block and its length are two datagrams that only their
order holds together. In the walks over the tree it is the recursion over global
state: the array, its capacity, its order, the running total, the working directory
and the descriptors change under callers that are still in their loops.

What makes the parts correct: the server serves a client with that client's list
(negotiation); copies under `./save` are made of the right bytes in the right order,
survive what goes wrong later, and are complete when the client comes to its end
(transfers); the array and the counts are those of the tree, written inside the
array, and the total chooses the right transport (scan, sizes); "same file" means the
same file (earlier programs).

## Modules

| module | models | notes |
|---|---|---|
| `Negotiation` | `main` of both programs, and of the two transfers the rounds that decide who talks to whom | one server, a set `Clients` of runs of the client |
| `NegotiationInvariant` | - | the inductive invariants `NoUdpInv`, `TcpInv` and `SequenceInv` of `Negotiation` |
| `NegotiationProofs` | - | theorems about `Negotiation` |
| `MCNegotiation` | - | values of the constants for TLC |
| `Tree` | the list of entries and the contents of files | bytes are told apart by file and position |
| `Delivery` | - | the abstract promise of a transfer, over three variables |
| `Transfer` | `./save`, `FilePathCheck`, the loops of both sides, what is read and written | shared by the two transports, whose code repeats it |
| `TcpTransfer` | the transfer of one tree over TCP, its interruptions and its continuation | extends `Transfer`; any number of sessions, one at a time |
| `TransferInvariant` | - | what the invariants of the two transports share, and the order in which entries come into being |
| `TransferProofs` | - | the lemmas about `Transfer` that the proofs of both transports cite |
| `TcpTransferInvariant` | - | the inductive invariant of `TcpTransfer`, in five layers |
| `TcpTransferProofs`, `TcpDeliveryProofs` | - | theorems about `TcpTransfer`: types, lock step and streams; the promise, what sessions leave behind |
| `UdpTransfer` | the same over UDP | extends `Transfer`; the network misbehaves |
| `UdpTransferInvariant` | - | the inductive invariant of `UdpTransfer`, in five layers |
| `UdpTransferProofs`, `UdpDeliveryProofs` | - | theorems about `UdpTransfer`: types and lock step; streams, the promise, what sessions leave behind |
| `Scan` | the client's `CountFile` | the recursion as an explicit stack |
| `Sizes` | `FileTransferSize`, `FolderSize`, `CountDir` and the choice of a transport | extends `Scan`: the client's three walks in a row |
| `ScanInvariant` | - | which part of the tree the open calls have accounted for and listed |
| `ScanProofs` | - | theorems about `Sizes` and `Scan`: types, the array, the counters, the total |
| `Legacy` | the earlier programs, TCP and UDP | one module: they take the same steps |
| `LegacyInvariant` | - | the inductive invariant `CopyInv` of `Legacy` |
| `LegacyProofs` | - | theorems about `Legacy` |
| `MC...` | - | values of the constants for TLC |

`TcpTransfer` and `UdpTransfer` compose a client and a server through channels and
begin where `Negotiation` leaves the two processes (`TcpSession`, `UdpSession`);
`Negotiation` in turn keeps of a transfer only the rounds in which the peer may
change. What a transfer assumes of the negotiation, that both sides hold the same
list, is `ListAgreement` there.

Names of variables and actions are those of the code where it has one. `sPhase` and
`cPhase` stand for the call a process is blocked in. One action is the code from
one blocking call to the next: what it received, what it assigns, what it sends.
Operators whose comment begins with *Mutant* are deliberately wrong variants of the
definition that follows them; nothing uses them, and each one makes a property
fail when it takes the place of that definition (`PROJECT.json` lists which).

### Negotiation

`ServerCount`, `ServerArray` and `ServerMode` are the three `recvfrom` of
`server.c:34-75`. Each takes *any* queued datagram, from any client, as the code
does, sets `cli` to its sender and answers it. `Atoi` gives 0 for a text that is no
number; a datagram longer than `buf[256]` may leave the process running or bring it
down (`Overruns`), because the call is given 1024 bytes of room. An unknown
transport ends the server (`Exit`) after `Start` has been sent. `Listen`, `Accept`,
`EndTcp` and `BrokenTcp` are the TCP half. `SendOffset`, `UdpAck` and `UdpCounts`
are the first and the last rounds of `UdpServer`, which is where the server's idea
of its peer can change.

The end of a session is three steps, as in the code. `UdpCounts` and `EndTcp` send the
verdict; the session's socket is still open then, and over UDP it still takes datagrams
that nobody will read (`udpOver`, `tcpOver`). `CloseSession` is server.c:110: the socket
goes with all that is queued on it, and until `NextSession` has bound the next one
(server.c:13-32) what is sent to the port is lost (`unbound`, which is also where the
server begins). A client started in that window sends its count to nobody and waits for
ever, on a network that has lost nothing.

`RecvCountReply` and `RecvArrayReply` accept any reply, `RecvStart` compares the
text. Knobs: `Lossy` lets the network drop any datagram or reply, `OneAtATime`
starts a client only when none is running, `MayKill` lets the user interrupt one.
Datagrams are a set: any of them may overtake any other. Duplication is not modelled.

### Transfer, TcpTransfer, UdpTransfer

`StartIndex` and `StartOffset` are `FilePathCheck`: the last entry before the first
that is missing, and one byte less than its length. `Seek` is the client's `lseek`,
which refuses the -2 the server sends for a directory. The byte `<<i, p>>` is the
byte file `i` has at position `p` at the client, so that a wrong, missing or doubled
byte shows; `Junk` is any other byte. `LooksLikeEof` names the places at which a read
of a file may give a block whose text is the marker; whether it does is a choice
(`RecvMarker` over both transports, `ReadsLikeEof`), so that what is shown holds for files
with such blocks and without. An entry of kind `none` is a
special file: the server counts it, the client does not send it, and the path the
server has for it is `./save/`, which exists. `mishaps` remembers what has gone wrong
in a session so that a property can say under which conditions it holds; `before` is
what the session found under `./save`.

`TcpTransfer`: `KillClient`, `KillServer` and `RestartServer` are the crashes. A
killed client leaves what it had sent, after which `recv` returns 0
(`Nothing`): the server goes on with a cleared buffer and whatever length `tmp`
held (`AnyLength`). Nor does the client notice a `recv` of 0, after the server's death, for
the offset (client_function.c:446), the starting entry (458) and in the closing rounds
(510-531; `RecvNothing`): it goes on with what `atoi` makes of a buffer that was never
filled (`GuessOffset`), and with the offset, which is still in it, for the starting entry
(`GuessIndex`), and may come to its end without having sent a file. The mishap "guess"
marks such a session. `RecvLengthShort` is a `recv` of the ten bytes of a length that
returns a part of them. From then on (`misaligned`, `Misalign`) a read ends in the
middle of messages: `RecvMisaligned` takes some message and writes what can be made
of it, and may find the bound of a message again.

`UdpTransfer`: a datagram is lost, or overtakes the one sent before it, in `Send` and
`Answer`; `Stray` is a datagram of another run of the client. The server answers the
sender of the last datagram, so what it answers to a stray one never reaches the
client. `LengthIn` is what `atoi` makes of a datagram that is not a length. An answer
may be lost too, the offset among them (`SendOffset`), after which the two wait for each
other; another text than the end of a file ends the client (`RecvEof`).
`UdpFileTrans` is given the offset and does not use it, so `RecvIndex` starts every
file at 0.

`Delivery` and the refinement. `Delivery` knows what is saved, what a session still
has to append (`plan`) and whether it is going. A session plans, for the entries
from some first one on, what follows one offset; copies grow by a piece of the plan,
file after file in the order of the list; the client comes to its end only when the
plan is empty; and once something has gone wrong (`Derail`) a copy may grow by
anything but never loses what it has. The mapping (`Remaining`, `DeliveryPhase` in
`Transfer`) computes the plan from what was found, the offset the client works with
and what is already written. Both transfers implement it (`KeepsPromise`), resumed or not: the
detailed steps of the two loops, the channels and the faults map to its steps or to
stuttering. That is proved for both.

Assumptions: both sides hold the same list; the argument is a plain name; the
client's tree does not change between sessions; memory that `malloc` returns is
zero: both programs free nothing while they work, so neither the server's array nor the
records of `FolderSize` come from memory that was used before.

### Scan and Sizes

A path is a number, in the order `strcmp` gives paths, so a directory comes before
what is in it. `stack` holds for each open call the names `readdir` still owes it;
`readdir` may give them in any order. `calling` is the argument of a nested call
between the caller's `CountFile(...)` and the callee's `opendir`. `fd_free` counts
descriptors: no call closes its directory, and a directory for which none is left
goes down as a file, as an unreadable one does. `Sorted` is `qsort` by
`compare_file_name`: at each place the entry that as many others precede.

`FolderSizes` is `FolderSize` as a function from the names still to be added and the total
so far to the set of totals that the orders of `readdir` can give, in the arithmetic
of a `long long` (`Width`, `Wrap`, `TwoTo` for the powers of two). A directory is
"shadowed" when the working directory holds one of the same last name: `chdir` then
succeeds, and the path that is relative to the old working directory is not found.
Where the walk exits (`CannotOpen`, `CannotStat`) is a guard; what it returns is not
computed step by step, since it leaves only its result and the descriptors behind.

### Legacy

A byte is a newline, a NUL, a letter of its client or another one: the copy made with
`fgets` and `fputs` (`Copied`) depends on nothing else. Over TCP the whole of `buf`
is sent, of which only a part is cleared between two blocks (`Filled`, `Cleared`;
`Memory` is what was sent with the name); over UDP what was read. `transport` is
chosen in `Init`. Over TCP the server reads from the connection it serves, over UDP
from whoever has sent something (`Take`); `faults` records when that was somebody
else than the client whose name it has. A client connects before it opens its file
(TCP_client.c:38-47); if it cannot, the server accepts a connection that is closed and takes
the 0 bytes of its `recv` for a name (`Start`). A client of a dead server that gets a 0 for
the second confirmation passes on, since the first one is still in `end_buf`, and says that
the file is not the same (`Fail`); over UDP each of two replies is lost on its own (`Heard`).
Each client sends a file of another name.

## Runs

| run | question | result |
|---|---|---|
| `tcp` | four overlapping, killable clients that do not choose UDP, with loss: can the server mix them up? | no: `ListAgreement`, `StartMeansAccepted`, and the inductive `NoUdpInv` hold |
| `mixed` | a UDP client among TCP clients, with loss and kills: who owns the TCP connection? | the client being served, as long as the server lives (`TcpIsExclusive`, by the inductive `TcpInv`) |
| `udp` | UDP clients in sequence, nothing lost | `ServerStaysUp`, `HeardRunEnds` and the inductive `SequenceInv` hold; the latter includes `ListAgreement`. A run ends if its count waits at the first `recvfrom` of a session; one that falls between a verdict and the next bind waits for ever, and leaves nothing to the others |
| `refused` | does `Start` mean the server is ready? | no: the client may connect before the server listens |
| `limit` | does the ready message come for every size? | not at exactly 65535 bytes |
| `resumed` | three TCP sessions, each killed anywhere on either side, with `recv` returning 0 wherever the code asks for it, short reads of a length and a block that reads like the marker | each complete loop of a session that has the server's offset and entry appends exactly the agreed suffixes (`SessionAppends`); a session that has no copy to continue saves every file (`FreshMeansSaved`); what is on its way between the two loops fits both of them (`LockStep`, `Streaming`), and the client's end comes after the last file (`Reporting`); what dead sessions leave behind is what the next one takes it for, until a continuation spoils a copy (`Kept`); no file gets another's bytes (`OwnBytesOnly`); the two never wait for each other (`SessionEnds`); all of it implements `Delivery` (`KeepsPromise`) |
| `marker` | does `end of file` mean the end? | not when a block reads like it |
| `verdict` | does the integrity text say that the files arrived? | no: after a continued transfer it is True, and the files differ from the client's |
| `lossy` | the same over UDP, in four sessions: loss, overtaking, datagrams of other runs, kills, and a block that reads like the marker | the same properties: those of contents for sessions that the network leaves alone and in which no block was taken for the end of a file, `OwnBytesOnly` and `LockStep` also under loss, strays and kills; and what dead sessions leave behind never misleads the next one (`Kept`) |
| `tree` | trees with every kind of entry, one of which may vanish before `stat`, in every order of `readdir`, with few or many descriptors | `ArrayComplete`, `CountsRight`, `Accounted`, `WritesInBounds`; the total is the sum of sizes up to a factor of two for each nested directory (`SizeWithinFactor`); the client gets through its walks with an ordinary tree (`TameTreeIsSent`), and they end (`ScanEnds`) |
| `legacy` | two overlapping runs of the earlier programs, TCP or UDP, with kills, losses and short reads | what is before the first NUL is kept, and a file of whole blocks without one is saved (`CopyKept`, by the inductive `CopyInv`, which includes the types and says where the two programs are); an undisturbed run ends with "same file" (`RunEnds`) |
| `same` | does "same file" mean that the server has the file? | not over UDP: the server empties its copy before it compares |

`FreshMeansSaved` has one exception, which is a defect of the code rather than a limit of
the model: when the tree holds a special file, `FilePathCheck` always finds the entry it
stands for, so that once every other file was opened each later session starts behind
the last of them. A copy that was opened and not completed then stays as it is, and the
session ends as if it had been. Without the exception TLC finds that in `lossy`,
in two sessions; over TCP the code is the same.

The five runs that end in a violation are quoted against the comments and texts
they contradict under `findings` in `PROJECT.json`. `verdict` takes a server started
beside the client's tree; started elsewhere it does not find the directories it
counts and answers False for every tree that has one.

### Bounds

`Negotiation`: three or four clients. The server holds at most one client's count
and one client's array, so a third client is enough to meet both, and a fourth to
have one still to come. Sizes and counts sit at the code's own limits (65534, 65535,
65536 bytes; 31 and 32 entries). No bound is put on the state: each client runs once.

`TcpTransfer` and `UdpTransfer`: blocks of two bytes (`SIZEBUF`; 1024 in the code). Over TCP
files of 0, 2 and 3 bytes: empty, exactly one block, a block and a part, among
five entries with a directory first and one in the middle, so that a session may
start at a directory, at a file, in the middle and at the end. Over UDP files of 1 and 3
bytes, a part of a block and a block and a part, among four entries, of which the last is
a special file. `MaxSessions` is 3 over TCP: an interrupted session, an interrupted
continuation and one more; over UDP it is 4, which leaves room for a fault before them. Over TCP
the text of the marker lies at an odd position, which only a continued transfer reads a
block from; over UDP it may be the one block of the first file. What a client reads from
a buffer nobody filled is any number up to `FileCount`, which stands for all larger ones
(`GuessOffset`). `MaxLength` bounds only the length up to which junk is
appended to a file, which the code repeats without end; in `AnyLength` one byte more
than the buffer holds stands for every larger number. Over UDP a session meets one
kind of fault, any number of times (`Fault`), and a datagram overtakes at most the one
before it; faults of different kinds meet in successive sessions. That bound keeps
the run small; the properties that claim something under a fault name the kinds.

`Scan`, `Sizes`: seven paths in three levels, with names that sort between a directory
and its contents, in fifteen trees, and an initial capacity of two (1024 in the code)
so that the array doubles twice. `Width` is just enough for the totals of these trees:
the claim is made for totals that fit.

`Legacy`: blocks of three bytes over TCP, one of them cleared, and of two over UDP.
One client's file is anything up to a block, or a block and a byte more that begins
with a letter: every place of a newline and a NUL in a block, in a line that is cut and
in the part of a second block; the other's is a whole block. Each client runs once.
`MaxTemp` bounds the zeros that the TCP server writes without end.

### Fairness

`FairSpec` of `Negotiation`, `TcpTransfer`, `UdpTransfer` and `Legacy` asks weak fairness
of the server's and of each client's steps: a process that is not blocked in a call
is scheduled. Nothing is asked of the user (starting, killing and restarting have no
fairness), nor of a network that may lose datagrams: `HeardRunEnds` is checked where
nothing is lost and nobody is killed, and speaks of the runs whose count is waiting at the
server's first `recvfrom`, since nothing makes a client start after the next bind and
nothing makes it ask again. `SessionEnds` and `RunEnds` except the
sessions in which something has gone wrong, since the code has no timeout and with
a fault they are false. `Sizes` has one process and weak fairness of its next step.

Deadlock checking is off everywhere: the programs stop when their runs are over, and
a server that waits for a client that never comes is a normal end of a behaviour.

## Proofs

`NegotiationProofs` holds for every set of clients, every tree and every size, with
or without loss, overlap and kills. It rests on `ClientsAssumption` and
`KnobsAssumption` only.

- `TypeCorrect`: `TypeOK` is inductive as it stands.
- `NoUdpInvariant`: under `NoUdp` (no client is below the limit) `NoUdpInv` is
  inductive. `ListAgreement` alone is not: it speaks of two variables the server
  fills at different times, and a step that breaks it is prepared by a stray datagram
  two steps earlier. The invariant therefore says for each phase of the server what
  every client may still have on its way: the client being served (`Counted`,
  `Listed`, `Started`) has at most the next request or the reply to the last one, and
  all others (`Silent`) at most their count. The exception is two counts taken for a
  count and an array; then nobody ever names a transport (`Doomed`), and the server
  can only take another datagram for a transport and leave.
- `ListsAgree` and `StartIsForTheServed` follow from it.

- `TcpInvariant` holds with clients of either kind. It needs far less than `NoUdpInv`, because it
  follows the connection and not the list: a client that does not go over to UDP has
  `Start` in its queue only while the server waits for its connection (`OwnsStart`), and from
  its `connect` on it owns the TCP socket until it has its verdict (`OwnsConnection`).
  `ConnectionIsExclusive` follows. What the server was told of that client's list is another
  matter; with UDP clients it may be somebody else's.
- `SequenceInvariant` holds when runs do not overlap, nothing is lost, nobody is killed and
  every array fits a datagram (`Undisturbed`). The invariant lists, for the one client that runs,
  each pair of places where it and the server can be and the one datagram or reply between
  them. A client that has yet to read its verdict may find the server before server.c:110,
  between two sockets or in the next session (`AfterUdp`, `AfterTcp`); a run whose count
  finds no socket, or one that is about to be closed, is `Unheard`, and is as far from
  disturbing a session as if it had not been started. `ServerGoesOn` is what follows: the server is never ended by a datagram out of
  place, and it serves each run, over UDP too, with that run's own list. The last condition is
  necessary: a client whose array does not fit leaves the server one request ahead, and the
  next run's array is taken for a transport.

With a UDP client that is killed, `ListAgreement` is false: the server stays in
`UdpServer` and the next client's requests are taken for that session's. `NoUdp` is
not a convenience of the proof.

### TcpTransfer

What the two transports share, in the code as in the model, is proved once in
`TransferProofs`: where `FilePathCheck` makes a session start, which file a loop meets next,
what the loops do to `./save` and to the order in which entries come into being. It holds
for every list of entries.

The theorems hold for every list of entries, every size of a block and of the files,
every place at which a block reads like the marker, any number of sessions and any
contents of `./save` that earlier sessions leave, with or without kills of either side
and short reads. They rest on `TreeAssumption`, `TransferAssumption` and
`EnvironmentAssumption`. The invariant is built in layers, because each property
needs to know more of what is on its way:

- `TypeInv` (`TypesHold`): the types, and where each program is in its loop: the server
  writes only while its entry is a file, and the block of a length that is still to come
  is not past the end of one.
- `LockStep` (`InLockStep`): as long as no block was taken for the end of a file, both
  loops are on the same file, and everything in the channel is of that file; the end of
  the file is the last of it, and the client waits for its answer. `OwnBytesOnly` alone is
  not inductive: it says nothing of the blocks that are still to arrive.
  `NoForeignBytes` follows from it, in sessions with dead clients and short reads too.
- `Streaming` (`StreamIsWhole`): in a session in which nothing has gone wrong, what was
  saved, the block in the server's buffer, each message in the channel and the next one
  the client sends make a chain without a gap or an overlap, which begins at the agreed
  offset. `SessionDelivers` is what it says when the loop is over.
- `Reporting` (`EndIsComplete`): in the closing exchanges the client is never ahead of the
  server by more than one count, so that it comes to its end only when every file from
  the starting entry on is complete. A client that takes a closed connection (`recv`
  returning 0) for an answer in the closing exchanges has had all of its files taken already,
  unless it took one for the offset or the starting entry too: then its end means nothing,
  and `Reporting`, like `Ended` and the promise, leaves that session out. Such a session
  leaves the copies as they are, since its server is gone (`LockStep` has it that no server
  serves a client that guessed), so `NoneLeft` goes on after it.
- `Kept` (`NothingLeftBehind`) is about the sequence of sessions. `InOrder`: an entry exists under
  `./save` only when all before it do. `Leaving`: until the first mishap of a session, a guess among them, the server leaves a file
  only when it has received all that was left of it, in the session of a dead client too,
  because what that client has sent still follows what is saved, as far as it goes
  (`Bequest`). `Ended`: a client that comes to its end, and did not have to guess, has agreed on the
  offset `FilePathCheck` found, and every copy is what it was with the rest of its file behind it. `NoneLeft`: a copy that is
  empty and before an existing entry is of an empty file, or some copy is spoilt. A
  continued file may be shorter than the offset of the one it is sent with and is then left
  empty; but the copy the session continued was whole, since the next file is opened only
  after the end of the one before, so the continuation has made it longer than its file,
  and no session makes a copy shorter again.

`DeliveryKept` is the refinement. Under these invariants `Accept` is `Begin`, the write of
a length is `Deliver` of as many bytes of the first file that is not complete, the step
to the client's end is `Report`, a death or a mishap and all writing after it is `Derail`,
and everything else leaves the three variables of `Delivery` as they are or is `End`.

`SavedWhenDone` is `FreshMeansSaved`: a session that has no copy to continue sends every file
from its beginning, so the copies it ends with are complete by `Ended` from the starting entry
on, and by `Kept` before it; a spoilt copy would be one the property's condition excludes.

### UdpTransfer

The same generality, with loss, overtaking, datagrams of other runs and kills as the
knobs allow, and for every place at which a block reads like the marker; `TreeAssumption`,
`TransferAssumption` and `NetworkAssumption` (which says that the knobs are Booleans) are
what is used. A session in which a block was taken for the end of a file is left out of what
is claimed of contents and of the order of files (`Clean`), as one the network has disturbed
is: with the rest of that file the server fills the next one (server_function.c:212). The types, `InOrder`
and that no copy loses a byte hold in it all the same.
The layers have the names of the TCP ones and say other things, since the queue may have
holes and strangers in it and there is no connection whose end either side would notice.

- `TypeInv` (`TypesHold`): also a datagram that comes in the wrong place, from whichever run,
  leaves the server inside its list and writing to files only.
- `LockStep` (`InLockStep`): as long as no datagram has overtaken another and no block was
  taken for the end of a file, what waits for the
  server is of the file it is on, or a stray one, and after the end of a file there are
  only strays (`Paired`). Loss does not break it: the client sends nothing of the next file
  before it has seen the end of this one answered. The claim ends with the server's list:
  a stray datagram taken for a count sets the two apart, without a byte being written.
  `NoForeignBytes` follows.
- `Streaming` (`StreamIsWhole`): in a session that the network, other runs and the marker
  leave alone, each datagram in the queue is the one that has to follow the one before (`Chained`). It holds
  after the client's death too, when the rest of the queue is still being written: that is
  what a later session finds. `SessionDelivers` follows.
- `Reporting` (`EndIsComplete`): when the client will ask for no more files, all are complete.
  Over UDP a client may still find answers of a server that has died, so the invariant
  keeps what those can be.
- `Kept` (`NothingLeftBehind`) is about the sequence of sessions. `InOrder`: an entry exists under
  `./save` only when all before it do, which is what `FilePathCheck` takes for granted, and
  which no mishap can undo; `NoneLeft`: until the first mishap, a copy that is empty and
  before an existing entry is of an empty file, because the server opens the next entry
  only after the end of the one before. The special files at the end of a list are
  outside of it: they exist without having been sent.

`DeliveryKept` is the refinement, step by step as over TCP; the plan is always made of whole
files, since `UdpFileTrans` does not use the offset. `SavedWhenDone` is `FreshMeansSaved`: the copies
before the starting entry are complete by `Kept`, the others by `Reporting`.

### Scan and Sizes

`NoOverflow` is proved for every tree, every number of descriptors and every initial
capacity of at least two, through all three walks. The property is about a step, and
the invariant behind it, `Room`, keeps one entry free at all times and two while a nested
call is about to write without a check of its own. `GrowMakesRoom` is the lemma about the
check itself.

`Accounted` (`EachPathOnce`) is the inductive invariant behind the counts and the array, for
every tree, order of `readdir` and number of descriptors. `CountsRight` speaks of the end of
three walks and `ArrayComplete` of the end of the first; `Accounted` says of every moment
which paths have been met: there is a set of paths, closed under parents, of
which `fileCount` is the size, and what is not in it is owed by an open call, is below a
path that is not in it or about to be entered, or is below a directory that could not be
opened. `count_Dir` is the number of directories in that set whose calls have returned. Each
step of the recursion moves one path from one part to the other. At the end of the walk
the least path that is not in the set would have a parent that is, so there is none; and
a directory that could not be opened makes `FolderSize` exit before the counts are sent.
`CountsAreRight` follows.

`ArrayIsComplete` rests on two more parts of `Accounted`. `Lists`: the array has each path of
that set once, but for special files and the path a call is about to begin for, as a
directory exactly if it is one, unless `FolderSize` is going to fail where `CountFile` did.
`Ordered`: when the outermost call has returned the array is sorted. `SortedIs` is the lemma
about the sort: the number of entries that precede an entry is another one for each entry
and takes every value, so `Sorted` loses none and doubles none, and it is in order.

`TotalIsWithinFactor` is about a function that recurs over sets of names, and no induction
over data is available. Each fact about it is shown by its least counterexample instead:
`Under` is what is below some names, `Rank` the number of these paths, and both the names
that are left and those of a nested call have a smaller rank (`RankFalls`). In this way the
recursive definitions are shown to have a solution (`FolderSizesIs`, `SumOfIs`, `TwoToIs`), the
sum of lengths not to depend on the order (`SumTakes`), and what is below one name to be apart
from what is below its siblings (`UnderApart`). `NestedCallBounds` is the arithmetic of
client_function.c:830: a nested call returns the total it was given with its own files, at
most doubled for each directory below, and adding that to the total doubles it once more
(`TotalsBounded`). As long as the last product fits into a `long long`, none of the sums on
the way wraps. `TypesHold` says of the total that it is a `long long` also when they do wrap
(`TotalsFit`).

`TreeAssumption`, `DescriptorsAssumption` and `SizeAssumption` are what is used; for the total
also `MeasureAssumption`, that a length is not negative and fits into a `long long`, as `st_size`
does.

### Legacy

The theorems hold for any set of clients with files of any contents, every size of the
buffer above one, of a datagram and of the memory behind a name, over both
transports, with kills, losses, short reads and overlapping runs. They rest on
`LegacyAssumption` only.

- `TypesHold`: the types; no client reads past the end of its file.
- `RunsAreInStep`: `CopyInv` is inductive. `InStep` lists the pairs of places in which a
  client and the server can be, and what is on its way between them. Over TCP it holds as
  long as these two live, over UDP until the first fault of anybody. In the first pass the
  blocks that wait for the server form a chain from where `temp` ends to where the client
  has read (`FirstPass`): the property speaks of the end of the pass only, and a chain with
  a gap would still end with a confirmation. In the second pass only the number of
  messages counts, since the comparison never runs. `Confirmations` and `Reopened` keep
  what was known when the first pass ended.
- `SavedIsKept` follows. The copy made with `fgets` and `fputs` is a recursive function of
  what was received (`Copied`). That it exists, and keeps all that is before the first
  NUL of each buffer (`CopiedIsFaithful`), is shown by the least length at which it would
  not.

### Only model-checked

Every invariant and step property that a passing run checks is a theorem, and so
is the refinement. What is left is liveness (`HeardRunEnds`, `SessionEnds`, `ScanEnds`,
`TameTreeIsSent`, `RunEnds`), which is out of the prover's reach.

## Not modelled

- `FileTransferTimer`, floating-point arithmetic for a printed figure, and printing.
- `UdpDirTrans` and `TcpDirTrans`, whose bodies are commented out.
- The server's walk (`CountFile`, `CountDir` of `server_function.c`) beyond its result
  in one session: that it leaves its descriptors open over sessions is listed as a
  hazard without a property.
- The byte stream of TCP below one `send`, except where a length is read short; after
  that a read yields some message's bytes, not the exact cut.
- Duplicated datagrams, and a datagram that overtakes more than one other.
- A tree that changes between sessions or between the scan and the transfer, except for
  files that vanish before `stat`.
- An argument of several components, for which `open` under `./save` fails.
- Path lengths against `SIZEBUF`, and cycles of symbolic links.
- In `Legacy`: contents that read like the marker (the two transfers look at that hazard),
  runs that send files of the same name, of which the later overwrites the copy of the
  earlier one, and a server that is restarted.

## Plan

1. The server's walk with its descriptors, composed with successive sessions.
