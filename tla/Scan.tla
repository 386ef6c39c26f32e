-------------------------------- MODULE Scan --------------------------------
(***************************************************************************)
(* CountFile and CountDir of client_function.c: the recursive walk over the *)
(* tree named on the command line, which fills the global array file_info,  *)
(* doubles it when it runs short, sorts it whenever a directory is done,    *)
(* and keeps three global counters on the way.                              *)
(*                                                                          *)
(* Abstractions.  A path is a number, in the order strcmp gives the paths.  *)
(* The calls that are open are a stack of the names readdir still owes      *)
(* them; readdir returns the names of a directory in any order.  No call    *)
(* closes the directory it has read, so the walk uses up descriptors.       *)
(***************************************************************************)
EXTENDS Integers, Sequences, FiniteSets

CONSTANTS
    Paths,      \* the argument and every path below it
    Root,       \* the argument
    Parent,     \* Parent[p]: the directory p is in
    Types,      \* the trees to look at: what Type can be
    Descriptors,\* descriptors the process can still open: what fd_free starts with
    SIZEBUF     \* the capacity file_info starts with

\* "unreadable" is a directory opendir fails on, "shadowed" one below the argument
\* with the last name of a directory in the working directory, "special" neither a
\* directory nor a regular file, "dangling" a name stat fails on, "fleeting" a
\* regular file that may be removed between readdir and stat.
FileType == {"dir", "shadowed", "unreadable", "file", "special", "dangling", "fleeting"}
Readable == {"dir", "shadowed"}

\* A path is longer than its parent's, and has it as a prefix.
ASSUME TreeAssumption ==
    /\ Paths \subseteq Nat
    /\ IsFiniteSet(Paths)
    /\ Root \in Paths
    /\ Types \subseteq [Paths -> FileType]
    /\ \A p \in Paths \ {Root} : Parent[p] \in Paths /\ Parent[p] < p
    /\ \A type \in Types :
        /\ type[Root] \in {"dir", "unreadable", "file"}
        /\ \A p \in Paths \ {Root} : type[Parent[p]] \in Readable

ASSUME SizeAssumption == SIZEBUF \in Nat /\ SIZEBUF >= 2

ASSUME DescriptorsAssumption == Descriptors \subseteq Nat

VARIABLES
    Type,       \* Type[p]: what opendir and stat find at p; it never changes
    fd_free,    \* descriptors that are left
    file_info,  \* the entries written so far, at 0 .. idx-1 of the array
    idx,
    files_size, \* the capacity of the array
    fileCount, count_Dir, count_File,
    calling,    \* the argument of a call of CountFile about to begin, or NoPath
    stack,      \* the open calls: [dir, todo], the innermost last
    done        \* "no", "scanned", then as the caller goes on, or "exited"

counters == <<fileCount, count_Dir, count_File>>
array == <<file_info, idx, files_size>>
vars == <<Type, fd_free, array, counters, calling, stack, done>>
-----------------------------------------------------------------------------
NoPath == -1
Dots == {"." , ".."}

Name == [dot : Dots \cup {""}, path : Paths \cup {NoPath}]
DotName(d) == [dot |-> d, path |-> NoPath]
NameOf(p) == [dot |-> "", path |-> p]

Children(p) == {q \in Paths \ {Root} : Parent[q] = p}
Listing(p) == {DotName(d) : d \in Dots} \cup {NameOf(q) : q \in Children(p)}

Top == stack[Len(stack)]
Below == SubSeq(stack, 1, Len(stack) - 1)

\* compare_file_name, and the order of writing for what it finds equal.
Precedes(s, i, j) == s[i].path < s[j].path \/ (s[i].path = s[j].path /\ i < j)

\* qsort: at k comes the entry that k-1 others precede.
Sorted(s) ==
    LET before(i) == {j \in DOMAIN s : Precedes(s, j, i)}
    IN  [k \in DOMAIN s |-> s[CHOOSE i \in DOMAIN s : Cardinality(before(i)) = k - 1]]

\* file_info[idx++] = an entry.
Write(path, kind) ==
    /\ file_info' = Append(file_info, [path |-> path, kind |-> kind])
    /\ idx' = idx + 1
-----------------------------------------------------------------------------
Init ==
    /\ Type \in Types
    /\ fd_free \in Descriptors
    /\ file_info = <<>>
    /\ idx = 0
    /\ files_size = SIZEBUF
    /\ fileCount = 1
    /\ count_Dir = 0
    /\ count_File = 0
    /\ calling = Root
    /\ stack = <<>>
    /\ done = "no"

\* Mutant of Return: a directory that was walked is not counted.
ReturnUncounted(callers) ==
    IF callers = <<>> THEN done' = "scanned" /\ UNCHANGED count_Dir
                      ELSE UNCHANGED <<count_Dir, done>>

\* A nested call has returned to its caller, which counts a directory; the
\* outermost returns to main.
Return(callers) ==
    IF callers = <<>> THEN done' = "scanned" /\ UNCHANGED count_Dir
                      ELSE count_Dir' = count_Dir + 1 /\ UNCHANGED done

\* The head of CountFile: a name opendir accepts is a directory.
EnterDirectory ==
    /\ calling # NoPath
    /\ Type[calling] \in Readable
    /\ fd_free > 0
    /\ fd_free' = fd_free - 1
    /\ Write(calling, "d")
    /\ stack' = Append(stack, [dir |-> calling, todo |-> Listing(calling)])
    /\ calling' = NoPath
    /\ UNCHANGED <<Type, files_size, counters, done>>

\* Whatever else it is, it goes down as a file: so does a directory for which no
\* descriptor is left.
EnterOther ==
    /\ calling # NoPath
    /\ Type[calling] \notin Readable \/ fd_free = 0
    /\ Write(calling, "f")
    /\ calling' = NoPath
    /\ Return(stack)
    /\ UNCHANGED <<Type, fd_free, files_size, fileCount, count_File, stack>>

\* Mutant of Grow: the check is off by one at the end of the array.
GrowLate == files_size' = IF idx > files_size THEN 2 * files_size ELSE files_size

\* The check at the top of the loop over readdir.
Grow == files_size' = IF idx + 2 >= files_size THEN 2 * files_size ELSE files_size

\* One name from readdir.
ReadName(name) ==
    /\ calling = NoPath
    /\ stack # <<>>
    /\ name \in Top.todo
    /\ Grow
    /\ stack' = [stack EXCEPT ![Len(stack)].todo = @ \ {name}]
    /\ UNCHANGED <<Type, fd_free, count_Dir, count_File>>

ReadDot(name) ==
    /\ ReadName(name)
    /\ name.dot \in Dots
    /\ UNCHANGED <<file_info, idx, fileCount, calling, done>>

\* Mutant of ReadDirectory: only what is not a directory is counted.
ReadDirectoryUncounted(name) ==
    /\ ReadName(name)
    /\ name.dot = ""
    /\ Type[name.path] \in Readable \cup {"unreadable"}
    /\ calling' = name.path
    /\ UNCHANGED <<file_info, idx, fileCount, done>>

ReadDirectory(name) ==
    /\ ReadName(name)
    /\ name.dot = ""
    /\ Type[name.path] \in Readable \cup {"unreadable"}
    /\ fileCount' = fileCount + 1
    /\ calling' = name.path
    /\ UNCHANGED <<file_info, idx, done>>

\* Mutant of ReadFile: the entry is written without its kind.
ReadFileUntyped(name) ==
    /\ ReadName(name)
    /\ name.dot = ""
    /\ Type[name.path] \in {"file", "fleeting"}
    /\ fileCount' = fileCount + 1
    /\ Write(name.path, "")
    /\ UNCHANGED <<calling, done>>

ReadFile(name) ==
    /\ ReadName(name)
    /\ name.dot = ""
    /\ Type[name.path] \in {"file", "fleeting"}
    /\ fileCount' = fileCount + 1
    /\ Write(name.path, "f")
    /\ UNCHANGED <<calling, done>>

\* Mutant of ReadSpecial: it is asked again until it is a file or a directory.
ReadSpecialRetried(name) ==
    /\ calling = NoPath
    /\ name.dot = ""
    /\ Type[name.path] = "special"
    /\ Grow
    /\ UNCHANGED <<Type, fd_free, file_info, idx, counters, calling, stack, done>>

\* Counted, and left out of the array.
ReadSpecial(name) ==
    /\ ReadName(name)
    /\ name.dot = ""
    /\ Type[name.path] = "special"
    /\ fileCount' = fileCount + 1
    /\ UNCHANGED <<file_info, idx, calling, done>>

\* stat fails, and the client exits.
ReadDangling(name) ==
    /\ ReadName(name)
    /\ name.dot = ""
    /\ Type[name.path] \in {"dangling", "fleeting"}
    /\ done' = "exited"
    /\ UNCHANGED <<file_info, idx, fileCount, calling>>

\* Mutant of LeaveDirectory: the sort is left out.
LeaveUnsorted ==
    /\ calling = NoPath
    /\ stack # <<>>
    /\ Top.todo = {}
    /\ stack' = Below
    /\ Return(Below)
    /\ UNCHANGED <<Type, fd_free, array, fileCount, count_File, calling>>

\* readdir is through: the whole array is sorted, not this directory's part of it.
LeaveDirectory ==
    /\ calling = NoPath
    /\ stack # <<>>
    /\ Top.todo = {}
    /\ file_info' = Sorted(file_info)
    /\ stack' = Below
    /\ Return(Below)
    /\ UNCHANGED <<Type, fd_free, idx, files_size, fileCount, count_File, calling>>

-----------------------------------------------------------------------------
Scanning ==
    /\ done = "no"
    /\ \/ EnterDirectory
       \/ EnterOther
       \/ \E name \in IF stack = <<>> THEN {} ELSE Top.todo :
            \/ ReadDot(name)
            \/ ReadDirectory(name)
            \/ ReadFile(name)
            \/ ReadSpecial(name)
            \/ ReadDangling(name)
       \/ LeaveDirectory

Spec == Init /\ [][Scanning]_vars
-----------------------------------------------------------------------------
Entry == [path : Paths, kind : {"d", "f"}]

\* Every entry is written inside the array as it is then allocated.  The entry of
\* a nested directory is written by the nested call (client_function.c:55-63),
\* which does not check: it relies on the check its caller made for the name
\* (client_function.c:69), and the next names on the ones after it.
WritesInBounds == [][idx' > idx => idx < files_size]_<<idx, files_size>>
=============================================================================
