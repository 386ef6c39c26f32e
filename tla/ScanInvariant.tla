--------------------------- MODULE ScanInvariant ---------------------------
(***************************************************************************)
(* The inductive invariant behind the counters and the array of Scan and    *)
(* Sizes: which part of the tree the calls that are open have accounted for *)
(* and listed.                                                              *)
(***************************************************************************)
EXTENDS Sizes

Frames == 1 .. Len(stack)
Open == {stack[j].dir : j \in Frames}

\* The calls of CountFile that have begun and not returned: the outermost is for the
\* argument, no two are for the same directory, and readdir gives what is in it.
Calls ==
    /\ stack \in Seq([dir : Paths, todo : SUBSET Name])
    /\ \A j \in Frames :
        /\ stack[j].dir \in Directories
        /\ stack[j].todo \subseteq Listing(stack[j].dir)
        /\ stack[j].dir = Root <=> j = 1
    /\ \A j, k \in Frames : stack[j].dir = stack[k].dir => j = k
    /\ calling \notin Open
    /\ IF stack = <<>> THEN calling \in {Root, NoPath} ELSE calling \in (Directories \ {Root}) \cup {NoPath}
    /\ done # "no" => stack = <<>> /\ calling = NoPath

\* The directories that a call has returned from, but for the argument.
Returned(seen) == {p \in seen : p \in Directories /\ p \notin Open \cup {calling, Root}}

\* The paths in seen are those that readdir has returned, from the argument on; what
\* is not, and not below something that is not, is still owed by an open call.
Accounts(seen) ==
    /\ Root \in seen
    /\ \A p \in seen \ {Root} : Parent[p] \in seen /\ Parent[p] # calling
    /\ \A p \in Open \cup {calling} : p # NoPath => p \in seen
    /\ \A j \in Frames : \A name \in stack[j].todo : name.path \notin seen
    /\ \A p \in Paths \ seen :
        \/ Parent[p] \notin seen
        \/ Parent[p] = calling
        \/ \E j \in Frames : stack[j].dir = Parent[p] /\ NameOf(p) \in stack[j].todo
        \/ fd_free < Cardinality(Directories)
    /\ fileCount = Cardinality(seen)
    /\ count_Dir = Cardinality(Returned(seen))

\* The array lists each path in seen once, but for special files and for the one whose
\* call is about to begin; as a directory exactly if it is one, unless FolderSize
\* is going to fail where CountFile did.  No stat has failed on the way.
Lists(seen) ==
    /\ file_info \in Seq(Entry)
    /\ idx = Len(file_info)
    /\ \A i, j \in 1 .. idx : file_info[i].path = file_info[j].path => i = j
    /\ {file_info[i].path : i \in 1 .. idx} = {p \in seen \ {calling} : Type[p] # "special"}
    /\ CannotOpen \/ \A i \in 1 .. idx :
            file_info[i].kind = "d" <=> file_info[i].path \in Directories
    /\ \A p \in seen : Type[p] # "dangling"

\* The array is in order when the outermost call has returned.
Ordered ==
    stack = <<>> /\ calling = NoPath =>
        \A i, j \in 1 .. idx : i < j => file_info[i].path < file_info[j].path

\* The three places that count (client_function.c:33, 86, 91) have counted, at any
\* moment of the walk, each path that readdir has returned once, and each directory
\* whose call has returned once; and what was counted is listed once.
Accounted ==
    /\ Type \in Types
    /\ fd_free \in Nat
    /\ done \in {"no", "scanned", "sized"} =>
        /\ Calls
        /\ Ordered
        /\ \E seen \in SUBSET Paths : Accounts(seen) /\ Lists(seen)
    /\ CountsRight
    /\ ArrayComplete
=============================================================================
