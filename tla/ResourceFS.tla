----------------------------- MODULE ResourceFS -----------------------------
(***************************************************************************)
(* The memory filesystem one guest command runs over (sdk/typescript:      *)
(* runtime.ts and resource-fs.ts): what staging puts there, the WASI calls *)
(* that change it, the budgets that bound it, the protection of inputs,    *)
(* and the collection of the generated files.                              *)
(*                                                                         *)
(* Names and descriptors are changed by the pinned WASI shim, which is     *)
(* modelled from how the SDK uses it.  A write takes place at any offset,  *)
(* as a guest may seek, so positions and file contents are left out; a     *)
(* call that only returns an error to the guest is no step.                *)
(***************************************************************************)
EXTENDS Integers, Sequences, FiniteSets, FiniteSetsExt

CONSTANTS
  Names,         \* what an entry may be called
  Unfit,         \* the names checkName refuses, which a guest may still give
  NewInodes,     \* the inodes a guest may create, as numbers
  MaxOutput,     \* limits.outputBytes
  MaxStdout,     \* limits.stdoutBytes
  MaxRequest,    \* limits.requestBytes
  MaxStderr,     \* limits.stderrBytes
  MaxEntries,    \* limits.outputEntries
  MaxPath,       \* limits.pathBytes, counted in names
  MaxFds,        \* maximumDescriptors
  MaxTable,      \* bound on the descriptors one guest ever opens
  None

Root   == 0
Stdin  == -1
Stdout == -2
Source == -3             \* the file a compiler run is given
Stderr == -4
Inputs == {Stdin, Source}
Files  == Inputs \cup {Stdout, Stderr} \cup NewInodes
Inodes == Files \cup {Root}

ASSUME ResourceAssumption ==
  /\ NewInodes \subseteq Nat \ {0} /\ IsFiniteSet(NewInodes)
  /\ {MaxOutput, MaxStdout, MaxRequest, MaxStderr, MaxEntries, MaxPath, MaxFds, MaxTable} \subseteq Nat
  /\ MaxFds >= 4 /\ None \notin Int /\ Unfit \subseteq Names

VARIABLES
  readonly,      \* the guest is the compiler
  kind,          \* of each inode: free, file or dir
  tree,          \* the inode at a directory and a name
  size,          \* file.data.length
  charged,       \* what ByteBudget.attach has charged for a file
  used,          \* ByteBudget.used, of each budget
  entries,       \* boundFilesystem's count of created names
  fds,           \* the shim's descriptor table
  live,          \* boundWasiIO's count of descriptors
  stop           \* the budget a call has exceeded, ending the guest

fs == <<readonly, kind, tree, size, charged, used, entries, fds, live, stop>>

Budgets == {"outputBytes", "stdoutBytes", "requestBytes", "stderrBytes"}

Maximum(b) == CASE b = "outputBytes"  -> MaxOutput  [] b = "stdoutBytes" -> MaxStdout
                [] b = "requestBytes" -> MaxRequest [] b = "stderrBytes" -> MaxStderr

\* A compiler's stdout is the request, when that has the smaller budget.
BudgetOf(f) == CASE f = Stdout -> IF readonly /\ MaxRequest < MaxStdout THEN "requestBytes" ELSE "stdoutBytes"
                 [] f = Stderr -> "stderrBytes"
                 [] OTHER      -> "outputBytes"

\* What stageFiles and the descriptors given to the shim set up.
Staged(ro) ==
  [readonly |-> ro,
   kind |-> [i \in Inodes |-> IF i \in NewInodes THEN "free" ELSE IF i = Root THEN "dir" ELSE "file"],
   tree |-> [x \in (IF ro THEN {<<Root, CHOOSE n \in Names : TRUE>>} ELSE {}) |-> Source],
   size |-> [f \in Files |-> IF f \in Inputs THEN 1 ELSE 0],
   fds |-> <<Stdin, Stdout, Stderr, Root>>]

Stage(ro) ==
  LET s == Staged(ro) IN
  /\ readonly' = s.readonly /\ kind' = s.kind /\ tree' = s.tree /\ size' = s.size
  /\ charged' = [f \in Files |-> 0] /\ used' = [b \in Budgets |-> 0] /\ entries' = 0
  /\ fds' = s.fds /\ live' = Len(s.fds) /\ stop' = None

InitFS ==
  LET s == Staged(TRUE) IN
  /\ readonly = s.readonly /\ kind = s.kind /\ tree = s.tree /\ size = s.size
  /\ charged = [f \in Files |-> 0] /\ used = [b \in Budgets |-> 0] /\ entries = 0
  /\ fds = s.fds /\ live = Len(s.fds) /\ stop = None

-----------------------------------------------------------------------------
(* Byte budgets.                                                           *)

\* LimitError: the call throws, and the guest ends without a further one.
Exceeds(limit) == stop' = limit /\ UNCHANGED <<readonly, kind, tree, size, charged, used, fds, live>>

\* Mutant: the setter charges the difference to file.data, which the shim may
\* have resized in place already.
SetDataByLength(f, n) ==
  /\ size' = [size EXCEPT ![f] = n]
  /\ \E old \in {n, size[f]} : used' = [used EXCEPT ![BudgetOf(f)] = @ + n - old]
  /\ charged' = [charged EXCEPT ![f] = n]

\* The setter attach puts on file.data.
SetData(f, n) ==
  /\ size' = [size EXCEPT ![f] = n]
  /\ used' = [used EXCEPT ![BudgetOf(f)] = @ + n - charged[f]]
  /\ charged' = [charged EXCEPT ![f] = n]

\* ByteBudget.check
Fits(f, n) == n <= Maximum(BudgetOf(f)) - used[BudgetOf(f)] + size[f]

Resize(f, n) ==
  IF Fits(f, n) THEN SetData(f, n) /\ UNCHANGED <<readonly, kind, tree, entries, fds, live, stop>>
  ELSE Exceeds(BudgetOf(f)) /\ UNCHANGED entries

\* What a guest asks a file to be resized to.
Lengths == 0..(Max({Maximum(b) : b \in Budgets}) + 1)

-----------------------------------------------------------------------------
(* Names.                                                                  *)

IsDir(i) == kind[i] = "dir"
Entry(t, d, n) == IF <<d, n>> \in DOMAIN t THEN t[<<d, n>>] ELSE None
Put(t, d, n, i) == [x \in DOMAIN t \cup {<<d, n>>} |-> IF x = <<d, n>> THEN i ELSE t[x]]
Drop(t, d, n) == [x \in DOMAIN t \ {<<d, n>>} |-> t[x]]
Children(t, d) == {t[x] : x \in {y \in DOMAIN t : y[1] = d}}

\* The directories a descriptor on directory d leads to.
Under(t, d) ==
  LET Reach[k \in 0..Cardinality(NewInodes)] ==
        IF k = 0 THEN {d}
        ELSE Reach[k - 1] \cup {i \in UNION {Children(t, e) : e \in Reach[k - 1]} : IsDir(i)}
  IN Reach[Cardinality(NewInodes)]

Open == {k \in DOMAIN fds : fds[k] # None}
Dirs(t) == UNION {Under(t, fds[k]) : k \in {j \in Open : IsDir(fds[j])}}

\* Mutant: a hard link or a rename is no new entry.
CountedNewOnly(t, d, n, i) == IF i \in {tree[x] : x \in DOMAIN tree} THEN entries ELSE entries + 1

\* The contents.set boundFilesystem puts on a directory, when it has the name.
Counted(t, d, n, i) == IF <<d, n>> \in DOMAIN t THEN entries ELSE entries + 1

Enter(t, d, n, i) ==
  /\ entries' = Counted(t, d, n, i)
  /\ IF entries' > MaxEntries THEN Exceeds("outputEntries")
     ELSE tree' = Put(t, d, n, i) /\ UNCHANGED <<readonly, size, charged, used, stop>>

Fresh == CHOOSE i \in NewInodes : kind[i] = "free"
CanCreate == \E i \in NewInodes : kind[i] = "free"
Makes(what) == kind' = [kind EXCEPT ![Fresh] = what]

-----------------------------------------------------------------------------
(* The calls.                                                              *)

Running == stop = None
Push(i) == fds' = Append(fds, i) /\ live' = live + 1

\* Any path call, with a path too long for the host to copy.
PathTooLong == Running /\ Exceeds("pathBytes") /\ UNCHANGED entries

\* path_open under its wrappers: a full table and a read-only run refuse.
PathOpen ==
  /\ Running /\ live < MaxFds /\ Len(fds) < MaxTable
  /\ \E d \in Dirs(tree), n \in Names :
       LET i == Entry(tree, d, n) IN
       \/ i # None /\ Push(i) /\ UNCHANGED <<readonly, kind, tree, size, charged, used, entries, stop>>
       \/ /\ ~readonly /\ i # None /\ ~IsDir(i) \* O_TRUNC
          /\ Push(i) /\ SetData(i, 0) /\ UNCHANGED <<readonly, kind, tree, entries, stop>>
       \/ /\ ~readonly /\ i = None /\ CanCreate \* O_CREAT
          /\ Enter(tree, d, n, Fresh)
          /\ stop' = None => Makes("file") /\ Push(Fresh)

Mkdir ==
  /\ Running /\ ~readonly /\ CanCreate
  /\ \E d \in Dirs(tree), n \in Names :
       /\ Entry(tree, d, n) = None /\ Enter(tree, d, n, Fresh)
       /\ stop' = None => Makes("dir") /\ UNCHANGED <<fds, live>>

\* path_link: of files; over a file it replaces the entry.
Link ==
  /\ Running /\ ~readonly
  /\ \E d, e \in Dirs(tree), n, m \in Names :
       LET i == Entry(tree, d, n)  over == Entry(tree, e, m) IN
       /\ i # None /\ ~IsDir(i) /\ (over # None => ~IsDir(over))
       /\ Enter(tree, e, m, i)
       /\ stop' = None => UNCHANGED <<kind, fds, live>>

\* path_unlink_file and path_remove_directory
Unlink ==
  /\ Running /\ ~readonly
  /\ \E d \in Dirs(tree), n \in Names :
       LET i == Entry(tree, d, n) IN
       /\ i # None /\ (IsDir(i) => Children(tree, i) = {})
       /\ tree' = Drop(tree, d, n)
       /\ UNCHANGED <<readonly, kind, size, charged, used, entries, fds, live, stop>>

\* path_rename: the shim takes the old name away before it looks up the new
\* one, and puts it back, as a new entry, when it cannot use the new one.
Rename ==
  /\ Running /\ ~readonly
  /\ \E d \in Dirs(tree), n \in Names :
       LET i == Entry(tree, d, n)  without == Drop(tree, d, n) IN
       /\ i # None
       /\ \/ \E e \in Dirs(without), m \in Names :
               LET over == Entry(without, e, m) IN
               /\ over # None => /\ IsDir(over) = IsDir(i)
                                 /\ IsDir(over) => Children(without, over) = {}
               /\ Enter(without, e, m, i)
          \/ Enter(without, d, n, i)
       /\ stop' = None => UNCHANGED <<kind, fds, live>>

\* Mutant: inputs are protected by the descriptor they were given.
ProtectedByNumber(k) == k = 1 \/ fds[k] = Source

\* protectFiles, and the shim's own check on writes: by the file, not the fd.
Protected(k) == fds[k] \in Inputs

\* fd_write, fd_pwrite and fd_allocate, which never shrink a file.
Write ==
  /\ Running
  /\ \E k \in Open, end \in Lengths :
       /\ ~IsDir(fds[k]) /\ ~Protected(k)
       /\ Resize(fds[k], Max({end, size[fds[k]]}))

\* fd_filestat_set_size
SetSize ==
  /\ Running
  /\ \E k \in Open, n \in Lengths :
       ~IsDir(fds[k]) /\ ~Protected(k) /\ Resize(fds[k], n)

\* What the wrapper of fd_close and fd_renumber counts for descriptor k.
Released(k, table) == IF table[k] = None /\ live > 0 THEN live - 1 ELSE live

Close ==
  /\ Running
  /\ \E k \in Open :
       /\ fds' = [fds EXCEPT ![k] = None]
       /\ live' = Released(k, fds')
  /\ UNCHANGED <<readonly, kind, tree, size, charged, used, entries, stop>>

\* fd_renumber closes the target; onto itself it only closes.
Renumber ==
  /\ Running
  /\ \E k, to \in Open :
       /\ fds' = [fds EXCEPT ![to] = fds[k], ![k] = None]
       /\ live' = Released(k, fds')
  /\ UNCHANGED <<readonly, kind, tree, size, charged, used, entries, stop>>

Call == \/ PathTooLong \/ PathOpen \/ Mkdir \/ Link \/ Unlink \/ Rename
        \/ Write \/ SetSize \/ Close \/ Renumber

-----------------------------------------------------------------------------
(* collectFiles.                                                           *)

\* No path has more directories on it than a guest can make.
Depth == Cardinality(NewInodes)

\* The entries of a directory the walk has come to.
Below(at) == {[path |-> Append(at.path, x[2]), inode |-> tree[x]] :
                x \in {y \in DOMAIN tree : y[1] = at.inode}}

\* The names at a depth, each as the sequence of names that leads to it.
Level[k \in 0..Depth] ==
  IF k = 0 THEN {[path |-> << >>, inode |-> Root]}
  ELSE UNION {Below(at) : at \in {a \in Level[k - 1] : IsDir(a.inode)}}

Listing == UNION {Level[k] : k \in 1..Depth}

Regular == {at \in Listing : ~IsDir(at.inode)}

\* The failures a walk may meet; which one it reports depends on its order.
CollectFails ==
  (IF \E a, b \in Listing : a # b /\ a.inode = b.inode /\ IsDir(a.inode) THEN {"cycle"} ELSE {})
  \cup (IF \E a \in Listing : a.path[Len(a.path)] \in Unfit THEN {"name"} ELSE {})
  \cup (IF \E a \in Listing : Len(a.path) > MaxPath THEN {"pathBytes"} ELSE {})
  \cup (IF Cardinality(Listing) > MaxEntries THEN {"outputEntries"} ELSE {})
  \cup (IF MapThenSumSet(LAMBDA a : size[a.inode], Regular) > MaxOutput THEN {"outputBytes"} ELSE {})

-----------------------------------------------------------------------------
(* Properties.                                                             *)

\* The bytes of some files, each by its file and its place in it.
BytesOf(len, some) == UNION {{f} \X (1..len[f]) : f \in some}
FilesOf(b) == {f \in Files \ Inputs : BudgetOf(f) = b}

\* What the host counts is what the guest holds, after any sequence of calls:
\* bytes of every file ever made (unlinked ones stay in memory), descriptors,
\* and no more names than were charged; and none exceeds its budget
\* (resource-fs.ts:37-112, 339-371).
ResourcesExact ==
  /\ \A b \in Budgets :
       /\ used[b] = Cardinality(BytesOf(size, FilesOf(b)))
       /\ used[b] <= Maximum(b)
  /\ live = Cardinality(Open) /\ live <= MaxFds
  /\ ~readonly => Cardinality(DOMAIN tree) <= entries
  /\ entries <= MaxEntries \/ stop = "outputEntries"

\* No call changes the inputs a guest was given, through whatever descriptor,
\* nor anything but stdout and stderr in a compiler's filesystem (runtime.ts:155-202).
InputsKept ==
  /\ \A f \in Inputs : size[f] = 1
  /\ readonly => tree = Staged(TRUE).tree /\ used["outputBytes"] = 0

\* A generator's output built within the budgets is never refused for its entries
\* or for a directory met twice: those checks of the walk never fire
\* (runtime.ts:104-135).
WalkAgrees ==
  readonly \/ stop # None \/ CollectFails \cap {"cycle", "outputEntries"} = {}
=============================================================================
