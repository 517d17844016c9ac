------------------------------ MODULE MemoryFS ------------------------------
(***************************************************************************)
(* The in-memory output filesystem of the Go SDK (sdk/go/memoryfs.go): the *)
(* one writable mount a generator gets, and the byte, entry and path       *)
(* budgets it enforces while the guest creates, writes, truncates, renames *)
(* and unlinks files through descriptors that outlive the names.           *)
(*                                                                         *)
(* A guest is single-threaded, so an action is one call of the filesystem. *)
(* File contents are abstracted to their lengths.  A call that fails with  *)
(* no effect but its errno is a stuttering step and is not written down;   *)
(* neither is a flag that can only cause such a failure (O_EXCL,           *)
(* O_DIRECTORY, O_WRONLY for reads).                                       *)
(***************************************************************************)
EXTENDS Integers, FiniteSets

CONSTANTS
  Names,          \* the resolved paths a guest names, but for the root
  Root,           \* "."
  Parent,         \* path.Dir
  Long,           \* paths longer than PathBytes that lookups still resolve
  Overlong,       \* longer than PathBytes and the longest mount prefix
  OutputEntries, OutputBytes,
  MaxWrite,       \* the longest write of a guest
  Handles,        \* descriptors a guest may hold at once
  None

ASSUME FSAssumption ==
  /\ Root \notin Names /\ Parent \in [Names -> Names \cup {Root}]
  /\ Long \subseteq Names /\ Overlong \subseteq Names \ Long
  /\ OutputEntries \in Nat /\ OutputBytes \in Nat /\ MaxWrite \in Nat
  /\ None \notin 0..OutputEntries

VARIABLES
  nodes,     \* name -> the inode it is linked to, or None
  nextIno,
  isDir,     \* of each inode, the root's included
  length,    \* len(data) of each inode
  used, created, limit,
  files      \* the memoryFile of each open handle: its node, offset and flags

fsVars == <<nodes, nextIno, isDir, length, used, created, limit, files>>

Paths  == Names \cup {Root}
Inodes == 0..OutputEntries
Closed == [node |-> None]
OpenFiles == [node : Inodes, offset : 0..OutputBytes, writable : BOOLEAN, append : BOOLEAN]

\* offset \in 0..OutputBytes is what keeps budget-offset from overflowing.
FSTypeOK ==
  /\ nodes \in [Paths -> Inodes \cup {None}] /\ nodes[Root] = 0
  /\ nextIno \in 1..(OutputEntries + 1)
  /\ isDir \in [Inodes -> BOOLEAN]
  /\ length \in [Inodes -> 0..OutputBytes]
  /\ used \in Int /\ created \in Nat
  /\ limit \in {"none", "pathBytes", "outputEntries", "outputBytes"}
  /\ files \in [Handles -> OpenFiles \cup {Closed}]

\* newMemoryFS(nil, false, limits).
FSInit ==
  /\ nodes = [n \in Paths |-> IF n = Root THEN 0 ELSE None]
  /\ nextIno = 1
  /\ isDir = [i \in Inodes |-> i = 0]
  /\ length = [i \in Inodes |-> 0]
  /\ used = 0 /\ created = 0 /\ limit = "none"
  /\ files = [h \in Handles |-> Closed]

IsOpen(h)  == files[h] # Closed
IsFile(n)  == nodes[n] # None /\ ~isDir[nodes[n]]
Node(h)    == files[h].node
WritableFile(h) == IsOpen(h) /\ files[h].writable /\ ~isDir[Node(h)]

-----------------------------------------------------------------------------
(* Budgets.                                                                *)

\* exceeded: the first budget a guest exceeds is the one reported.
Exceeded(what) == limit' = IF limit = "none" THEN what ELSE limit

\* chargeEntry.
EntryFits(n)    == n \notin Long /\ created < OutputEntries
EntryRefused(n) == Exceeded(IF n \in Long THEN "pathBytes" ELSE "outputEntries")

\* Mutant: what a shrunk file gives back is not refunded.
TruncateKeepsCharge(i, size) ==
  /\ length' = [length EXCEPT ![i] = size]
  /\ used' = IF size > length[i] THEN used + size - length[i] ELSE used

\* Truncate: the growth must fit what is left of the budget, and shrinking
\* refunds it, also of a file that has no name any more.
BytesFit(i, size) == size - length[i] <= OutputBytes - used
Truncate(i, size) ==
  /\ length' = [length EXCEPT ![i] = size]
  /\ used' = used + size - length[i]

-----------------------------------------------------------------------------
(* Names.                                                                  *)

\* resolve, for an operation that may create the name.
TooLong(n) ==
  /\ n \in Overlong
  /\ Exceeded("pathBytes")
  /\ UNCHANGED <<nodes, nextIno, isDir, length, used, created, files>>

\* Mutant: a file may be made below a file.
ParentExists(n) == nodes[Parent[n]] # None

\* parent.
ParentIsDir(n) == nodes[Parent[n]] # None /\ isDir[nodes[Parent[n]]]

\* create: a new inode, in the order chargeEntry and add.
Add(n, dir) ==
  /\ nodes' = [nodes EXCEPT ![n] = nextIno]
  /\ isDir' = [isDir EXCEPT ![nextIno] = dir]
  /\ nextIno' = nextIno + 1
  /\ created' = created + 1
  /\ UNCHANGED <<length, used>>

CreateRefused(n) ==
  /\ nodes[n] = None /\ n \notin Overlong /\ ParentIsDir(n) /\ ~EntryFits(n)
  /\ EntryRefused(n)
  /\ UNCHANGED <<nodes, nextIno, isDir, length, used, created, files>>

Create(n, dir) ==
  /\ nodes[n] = None /\ n \notin Overlong /\ ParentIsDir(n) /\ EntryFits(n)
  /\ Add(n, dir)

\* The memoryFile of OpenFile.
File(i, write, append) == [node |-> i, offset |-> 0, writable |-> write, append |-> append]

\* OpenFile of a name that is not there, with O_CREAT: O_TRUNC without write
\* access fails after the entry has been created.
OpenNew(h, n, write, append, trunc) ==
  \/ TooLong(n)
  \/ CreateRefused(n)
  \/ /\ Create(n, FALSE)
     /\ files' = IF trunc /\ ~write THEN files
                 ELSE [files EXCEPT ![h] = File(nextIno, write, append)]
     /\ UNCHANGED limit

\* OpenFile of a name that is there.
OpenOld(h, n, write, append, trunc) ==
  /\ nodes[n] # None
  /\ trunc => write
  /\ write => ~isDir[nodes[n]]
  /\ files' = [files EXCEPT ![h] = File(nodes[n], write, append)]
  /\ IF trunc THEN Truncate(nodes[n], 0) ELSE UNCHANGED <<length, used>>
  /\ UNCHANGED <<nodes, nextIno, isDir, created, limit>>

OpenFile(h) ==
  /\ ~IsOpen(h)
  /\ \E write, append, trunc \in BOOLEAN :
       \/ \E n \in Names : OpenNew(h, n, write, append, trunc)
       \/ \E n \in Paths : OpenOld(h, n, write, append, trunc)

Mkdir(n) ==
  \/ TooLong(n)
  \/ CreateRefused(n)
  \/ Create(n, TRUE) /\ UNCHANGED <<limit, files>>

\* Unlink: the bytes stay charged, since a handle may retain them.
Unlink(n) ==
  /\ IsFile(n)
  /\ nodes' = [nodes EXCEPT ![n] = None]
  /\ UNCHANGED <<nextIno, isDir, length, used, created, limit, files>>

\* Mutant: a rename is never charged, since it creates no file.
ChargedNever(to) == created

\* A new name is a new entry; replacing an existing one is not.
Charged(to) == IF nodes[to] = None THEN created + 1 ELSE created

\* Rename of a file; directories are refused, and the replaced file's bytes
\* stay charged.
RenameRefused(from, to) ==
  \/ from \notin Overlong /\ TooLong(to)
  \/ IsFile(from) /\ CreateRefused(to)
Rename(from, to) ==
  /\ IsFile(from) /\ from # to /\ to \notin Overlong
  /\ ParentIsDir(to)
  /\ nodes[to] # None => IsFile(to)
  /\ nodes[to] = None => EntryFits(to)
  /\ created' = Charged(to)
  /\ nodes' = [nodes EXCEPT ![from] = None, ![to] = nodes[from]]
  /\ UNCHANGED <<nextIno, isDir, length, used, limit, files>>

-----------------------------------------------------------------------------
(* Descriptors.                                                            *)

\* Pwrite of k bytes at offset `at`, but for the handle: a write past the end
\* grows the file first, also a write of no bytes.
PutRefused(i, at, k) ==
  at + k > OutputBytes \/ (at + k > length[i] /\ ~BytesFit(i, at + k))
Put(i, at, k) ==
  IF PutRefused(i, at, k)
    THEN Exceeded("outputBytes") /\ UNCHANGED <<length, used>>
    ELSE /\ IF at + k > length[i] THEN Truncate(i, at + k) ELSE UNCHANGED <<length, used>>
         /\ UNCHANGED limit

Advanced(i, at, k) == IF PutRefused(i, at, k) THEN at ELSE at + k

\* Write: an appending handle moves to the end first, and stays there when
\* the write is refused.
Write(h, k) ==
  LET i  == Node(h)
      at == IF files[h].append THEN length[i] ELSE files[h].offset IN
  /\ WritableFile(h)
  /\ Put(i, at, k)
  /\ files' = [files EXCEPT ![h].offset = Advanced(i, at, k)]
  /\ UNCHANGED <<nodes, nextIno, isDir, created>>

Pwrite(h, at, k) ==
  /\ WritableFile(h)
  /\ Put(Node(h), at, k)
  /\ UNCHANGED <<nodes, nextIno, isDir, created, files>>

SetSize(h, size) ==
  /\ WritableFile(h)
  /\ IF BytesFit(Node(h), size)
       THEN Truncate(Node(h), size) /\ UNCHANGED limit
       ELSE Exceeded("outputBytes") /\ UNCHANGED <<length, used>>
  /\ UNCHANGED <<nodes, nextIno, isDir, created, files>>

\* Read and Seek: any of them may move the offset within the file; only Seek
\* moves it past the end, and no further than the budget.
Move(h, to) ==
  /\ IsOpen(h) /\ ~isDir[Node(h)]
  /\ files' = [files EXCEPT ![h].offset = to]
  /\ UNCHANGED <<nodes, nextIno, isDir, length, used, created, limit>>

SetAppend(h, on) ==
  /\ IsOpen(h)
  /\ files' = [files EXCEPT ![h].append = on]
  /\ UNCHANGED <<nodes, nextIno, isDir, length, used, created, limit>>

CloseFile(h) ==
  /\ IsOpen(h)
  /\ files' = [files EXCEPT ![h] = Closed]
  /\ UNCHANGED <<nodes, nextIno, isDir, length, used, created, limit>>

-----------------------------------------------------------------------------
Descriptor(h) ==
  \/ OpenFile(h)
  \/ \E k \in 0..MaxWrite : Write(h, k) \/ \E at \in 0..(OutputBytes + 1) : Pwrite(h, at, k)
  \/ \E size \in 0..(OutputBytes + 1) : SetSize(h, size)
  \/ \E to \in 0..OutputBytes : Move(h, to)
  \/ \E on \in BOOLEAN : SetAppend(h, on)
  \/ CloseFile(h)

FSNext ==
  \/ \E h \in Handles : Descriptor(h)
  \/ \E n \in Names : Mkdir(n) \/ Unlink(n)
  \/ \E from, to \in Names : Rename(from, to) \/ RenameRefused(from, to)

FSSpec == FSInit /\ [][FSNext]_fsVars

-----------------------------------------------------------------------------
(* What the budgets promise.                                               *)

\* The bytes of the inodes in S, each an inode and a position in its data.
BytesOf(len, S) == UNION {{i} \X (1..len[i]) : i \in S}
Bytes(S) == Cardinality(BytesOf(length, S))

\* The charge is the length of every file ever made, whatever has been renamed
\* over, unlinked, closed, truncated or written since: the comment on `used`.
ChargeIsExact == used = Bytes(Inodes)

\* The bytes a guest can still reach, by a name or through a handle, and so
\* what a snapshot returns, never exceed the budget.
Reachable == {nodes[n] : n \in {m \in Paths : nodes[m] # None}} \cup
             {files[h].node : h \in {g \in Handles : IsOpen(g)}}
BytesBounded == used <= OutputBytes /\ Bytes(Reachable) <= OutputBytes

Linked == {n \in Names : nodes[n] # None}

\* A guest cannot make more inodes, or hold more names, than the budget.
EntriesBounded ==
  /\ created <= OutputEntries /\ nextIno - 1 <= created
  /\ Cardinality(Linked) <= created

\* The comment on `created`: every name ever made is charged once, renames to
\* a new name included, and nothing gives an entry back.
NamesAreCharged ==
  [][created' - created = Cardinality({n \in Names : nodes[n] = None /\ nodes'[n] # None})]_fsVars

\* Every name's parent is a directory that is there: a snapshot is a tree.
NamesFormTree ==
  \A n \in Names : nodes[n] # None =>
    \E i \in Inodes : nodes[Parent[n]] = i /\ isDir[i]

\* No name over PathBytes is ever made.
NamesAreShort == \A n \in Long \cup Overlong : nodes[n] = None

\* The budget that is reported stays the first one, and no name, byte or
\* entry changes in the step that exceeds it.
FirstLimitStays ==
  [][limit' # limit =>
       limit = "none" /\ UNCHANGED <<nodes, length, used, created>>]_fsVars

\* The three budgets together: the charge neither drifts nor lets a guest
\* hold more bytes, inodes or names than it was given.
BudgetsHold == ChargeIsExact /\ BytesBounded /\ EntriesBounded

\* What a snapshot needs of the flat map of names.
NamesWellFormed == NamesFormTree /\ NamesAreShort

\* Each call charges what it makes and reports what it was refused for.
StepsAccounted == NamesAreCharged /\ FirstLimitStays

-----------------------------------------------------------------------------
(* Why: an inductive invariant.                                            *)

\* What names and descriptors refer to has been made; an inode that has not
\* been made yet is no directory, and empty.
InodesAreMade ==
  /\ \A n \in Paths : nodes[n] # None => nodes[n] < nextIno
  /\ \A h \in Handles : IsOpen(h) => Node(h) < nextIno
  /\ \A i \in Inodes : i >= nextIno => ~isDir[i] /\ length[i] = 0

\* All of it: what every call of a guest keeps.
FSInv ==
  /\ FSTypeOK /\ InodesAreMade /\ NamesFormTree /\ NamesAreShort
  /\ isDir[0] /\ ChargeIsExact /\ used <= OutputBytes
  /\ IsFiniteSet(Linked) /\ EntriesBounded
=============================================================================
