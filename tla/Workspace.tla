------------------------------ MODULE Workspace ------------------------------
(***************************************************************************)
(* What a compile request may hold, in three places that must agree: the   *)
(* studio's sidebar (src/examples/browser/workspace.js), which accepts the *)
(* user's files; the SDK's validation (src/sdk/typescript/limits.ts),      *)
(* which both compilers run first; and the staging of the accepted files   *)
(* in a guest's directory tree (worker.ts, runtime.ts).                    *)
(*                                                                         *)
(* A path is the sequence of its names; a name is [text, units, bytes]:    *)
(* JavaScript counts its UTF-16 units, the SDK its UTF-8 bytes.  A         *)
(* workspace is a function from paths to file sizes.  An archive is a      *)
(* sequence of entries [path, size, data, readable, dir]: the bytes an     *)
(* entry declares and those it holds, which may differ.                    *)
(***************************************************************************)
EXTENDS Integers, Sequences, SequencesExt, FiniteSets, FiniteSetsExt, Functions

CONSTANTS
  Forbidden,   \* the names no canonical path has: "", ".", ".."
  Hidden,      \* the names of hidden files and folders
  IncludeName, \* "include", the folder the studio mounts apart
  SourceName,  \* "src", the guest directory of the other files
  Standard,    \* the bundled schemas: a workspace
  Studio       \* the studio's budget: [bytes, entries, nodes, pathLength]

EmptyPath == <<>>   \* the path ""

Total(f) == MapThenSumSet(LAMBDA x : f[x], DOMAIN f)
Units(p) == Len(p) - 1 + Total([i \in DOMAIN p |-> p[i].units])
Utf8(p) == Len(p) - 1 + Total([i \in DOMAIN p |-> p[i].bytes])
Size(files) == Total(files)

Above(p) == Prefixes(p) \ {p, EmptyPath}

\* Files plus the folders their paths imply.
Nodes(paths) == (UNION { Prefixes(p) : p \in paths }) \ {EmptyPath}
CountNodes(paths) == Cardinality(Nodes(paths))

Canonical(p) == p # EmptyPath /\ \A i \in DOMAIN p : p[i].text \notin Forbidden
Repeats(s) == ~IsInjective(s)
NoFiles == [p \in {} |-> 0]

------------------------------------------------------------------------------
\* The SDK: every synchronous check of validateCompile, by the fault it
\* reports.  The code reports the first it meets.

GeneratorFault(generators, supplied) ==
  Len(generators) > 4 \/ Repeats(generators) \/ ~(ToSet(generators) \subseteq supplied)

\* Mutant: only a file's own folder is looked up.
CollidesDirectly(files) ==
  \E p \in DOMAIN files : Len(p) > 1 /\ Front(p) \in DOMAIN files

PathFault(p, limits) == Utf8(p) > limits.pathBytes
Collides(files) == \E p \in DOMAIN files : Above(p) \cap DOMAIN files # {}
Directories(files) == Nodes(DOMAIN files) \ DOMAIN files

CompileFaults(job, limits, supplied) ==
  LET mounts == <<job.files, job.includeFiles>>
      named == ToSet(job.importPaths) \cup {job.sourcePrefix}
      paths == (named \ {EmptyPath}) \cup ToSet(job.entrypoints)
                 \cup DOMAIN job.files \cup DOMAIN job.includeFiles
      fault ==
        [generators |-> GeneratorFault(job.generators, supplied),
         importCount |-> Len(job.importPaths) > limits.workspaceEntries,
         entrypointCount |-> Len(job.entrypoints) > limits.workspaceEntries,
         pathBytes |-> \E p \in paths : PathFault(p, limits),
         pathForm |-> \E p \in paths : ~Canonical(p),
         duplicates |-> Repeats(job.importPaths) \/ Repeats(job.entrypoints),
         noEntrypoint |-> job.entrypoints = <<>>,
         entries |-> CountNodes(DOMAIN job.files) + CountNodes(DOMAIN job.includeFiles)
                       > limits.workspaceEntries,
         bytes |-> Size(job.files) + Size(job.includeFiles) > limits.workspaceBytes,
         collision |-> \E i \in DOMAIN mounts : Collides(mounts[i]),
         missing |-> ~(ToSet(job.entrypoints) \subseteq DOMAIN job.files),
         notDirectory |-> ~(named \ {EmptyPath} \subseteq Directories(job.files))]
  IN  { f \in DOMAIN fault : fault[f] }

SizeFaults == {"importCount", "entrypointCount", "pathBytes", "entries", "bytes"}

------------------------------------------------------------------------------
\* The guest's tree.

\* worker.ts: one map of files, by mount.
Stage(job) ==
  LET under(name, files) == { <<name>> \o p : p \in DOMAIN files }
  IN  [p \in under(SourceName, job.files) \cup under(IncludeName, job.includeFiles) |->
         IF p[1] = SourceName THEN job.files[Tail(p)] ELSE job.includeFiles[Tail(p)]]

\* runtime.ts, stageFiles: the directories and files, one file after the
\* other; ok is lost where a file lies on the way or the name is taken.
Put(p, tree) ==
  IF ~tree.ok \/ Above(p) \cap tree.files # {} \/ p \in tree.files \cup tree.dirs
  THEN [tree EXCEPT !.ok = FALSE]
  ELSE [tree EXCEPT !.dirs = @ \cup Above(p), !.files = @ \cup {p}]
StageFiles(files) ==
  FoldSet(Put, [ok |-> TRUE, files |-> {}, dirs |-> {<<SourceName>>, <<IncludeName>>}],
          DOMAIN files)

------------------------------------------------------------------------------
\* The studio.

CheckPath(p) == Units(p) <= Studio.pathLength /\ Canonical(p)
IsHidden(p) == \E i \in DOMAIN p : p[i].text \in Hidden

\* validateFiles accepts.
ValidFiles(files) ==
  /\ DOMAIN files # {}
  /\ Cardinality(DOMAIN files) <= Studio.entries
  /\ \A p \in DOMAIN files : CheckPath(p) /\ Above(p) \cap DOMAIN files = {}
  /\ Size(files) <= Studio.bytes
  /\ CountNodes(DOMAIN files) <= Studio.nodes

\* The user's include/ folder overrides the bundled schemas.
CompileWorkspace(files, entrypoints) ==
  LET own == { p \in DOMAIN files : p[1] = IncludeName /\ Len(p) > 1 }
      sources == DOMAIN files \ own
  IN  [files |-> Restrict(files, sources),
       includeFiles |-> [p \in { Tail(q) : q \in own } \cup DOMAIN Standard |->
                           IF <<IncludeName>> \o p \in own
                           THEN files[<<IncludeName>> \o p] ELSE Standard[p]],
       entrypoints |-> SetToSeq(entrypoints), importPaths |-> <<>>,
       sourcePrefix |-> EmptyPath, generators |-> <<>>]

\* compiler.js, budget: the SDK's limits for a studio workspace.
Budget(pathBytes) ==
  [workspaceBytes |-> Studio.bytes + Size(Standard),
   workspaceEntries |-> Studio.nodes + CountNodes(DOMAIN Standard),
   pathBytes |-> pathBytes]

------------------------------------------------------------------------------
\* Imports.  s is [ok, entries, bytes, files, inflated]: the budget left, what was
\* taken so far and what the entries unpacked had declared, which is the size of the
\* buffers they are inflated into.

Started == [ok |-> TRUE, entries |-> Studio.entries, bytes |-> Studio.bytes,
            files |-> NoFiles, inflated |-> 0]
Halt(s) == [s EXCEPT !.ok = FALSE]

Add(s, p, size) ==
  IF ~s.ok \/ p \in DOMAIN s.files THEN Halt(s)
  ELSE [s EXCEPT !.files = [q \in DOMAIN @ \cup {p} |-> IF q = p THEN size ELSE @[q]]]

\* unzipArchive's filter: an entry is charged what it declares, then inflated into
\* a buffer of that size, or copied whole where it is stored without compression.
Inflate(s, entry) ==
  IF ~s.ok \/ entry.dir \/ IsHidden(entry.path) THEN s
  ELSE IF s.entries <= 0 \/ entry.size > s.bytes THEN Halt(s)
  ELSE [s EXCEPT !.ok = entry.readable, !.entries = @ - 1, !.bytes = @ - entry.size,
                 !.inflated = @ + entry.size]

\* The entries that are kept, without the one top-level folder they share.
\* Of two entries with one name the later is taken.  Entries rooted at "/" share
\* the name "".
Kept(zip) == { i \in DOMAIN zip : ~zip[i].dir /\ ~IsHidden(zip[i].path) }
Expanded(zip) ==
  LET paths == { zip[i].path : i \in Kept(zip) }
      strip == /\ \A p, q \in paths : Len(p) > 1 /\ p[1] = q[1]
               /\ \A p \in paths : p[1].text \notin Forbidden \ {""}
      Name(p) == IF strip THEN Tail(p) ELSE p
  IN  [q \in { Name(p) : p \in paths } |->
         zip[Max({ i \in Kept(zip) : Name(zip[i].path) = q })].data]

Inflated(s, zip) == FoldLeft(Inflate, s, zip)
AddAll(s, files) == FoldSet(LAMBDA p, t : Add(t, p, files[p]), s, DOMAIN files)
Unzip(s, zip) ==
  LET charged == Inflated(s, zip)
      files == Expanded(zip)
  IN  IF ~charged.ok \/ \E p \in DOMAIN files : ~CheckPath(p) THEN Halt(charged)
      ELSE AddAll(charged, files)

\* importFiles: picked is a sequence of [path, size, archive, zip], where archive
\* says that the name ends in ".zip" and zip is the entries; directory says a folder
\* was picked, whose name its paths begin with.  Hidden files are passed over.
PickedPath(f, directory) == IF directory THEN Tail(f.path) ELSE f.path
IsArchive(f, directory) == ~directory /\ f.archive
Visible(picked, directory) ==
  { i \in DOMAIN picked : ~IsHidden(PickedPath(picked[i], directory)) }

Take(s, f, directory) ==
  IF ~s.ok \/ IsHidden(PickedPath(f, directory)) THEN s
  ELSE IF IsArchive(f, directory) THEN Unzip(s, f.zip)
  ELSE Add([s EXCEPT !.bytes = @ - f.size, !.entries = @ - 1],
           PickedPath(f, directory), f.size)
TakeAll(picked, directory) ==
  FoldLeft(LAMBDA s, f : Take(s, f, directory), Started, picked)

ImportFiles(picked, directory) ==
  LET visible == Visible(picked, directory)
      taken == TakeAll(picked, directory)
  IN  IF \/ visible = {}
         \/ \E i \in visible : ~CheckPath(PickedPath(picked[i], directory))
         \/ Cardinality(visible) > Studio.entries
         \/ Total([i \in visible |-> picked[i].size]) > Studio.bytes
      THEN Halt(Started)
      ELSE [taken EXCEPT !.ok = @ /\ ValidFiles(taken.files)]

------------------------------------------------------------------------------
\* What the three owe each other.

\* A request that validation accepts is staged whole, and what the compiler
\* will be told to open is there.
StagesWhole(job, limits, supplied) ==
  CompileFaults(job, limits, supplied) = {} =>
    LET tree == StageFiles(Stage(job)) IN
    /\ tree.ok
    /\ tree.files = DOMAIN Stage(job)
    /\ \A p \in ToSet(job.entrypoints) : <<SourceName>> \o p \in tree.files
    /\ \A p \in ToSet(job.importPaths) \cup {job.sourcePrefix} :
         <<SourceName>> \o p \in tree.dirs
    /\ Size(Stage(job)) <= limits.workspaceBytes

\* A workspace the sidebar accepts is not rejected for its size by a compiler
\* whose limits are the studio's budget, whichever files are its entrypoints.
SizeAgreed(files, pathBytes) ==
  ValidFiles(files) =>
    \A entrypoints \in SUBSET DOMAIN files :
      CompileFaults(CompileWorkspace(files, entrypoints), Budget(pathBytes), {})
        \cap SizeFaults = {}

\* The names of what one picked file brings.
EntryNames(f, directory) ==
  IF IsArchive(f, directory) THEN { f.zip[i].path : i \in Kept(f.zip) }
  ELSE { PickedPath(f, directory) }

\* The workspace has the file with its bytes; an archive's entries, the last of each
\* name, under the names they have or all of them without the first folder.
Stocks(files, f, directory) ==
  LET At(p, size) == p \in DOMAIN files /\ files[p] = size
      Latest(i) == \A j \in Kept(f.zip) : j > i => f.zip[j].path # f.zip[i].path
  IN  IF ~IsArchive(f, directory) THEN At(PickedPath(f, directory), f.size)
      ELSE \E cut \in BOOLEAN : \A i \in Kept(f.zip) :
             Latest(i) => At(IF cut THEN Tail(f.zip[i].path) ELSE f.zip[i].path, f.zip[i].data)

\* An import that succeeds is a valid workspace, which holds every file that is not
\* hidden and nothing else, two picked files never in one place; and no import has
\* archives inflated into more than one workspace's bytes.
ImportWhole(picked, directory) ==
  LET result == ImportFiles(picked, directory)
      visible == Visible(picked, directory)
  IN  /\ result.ok =>
           /\ ValidFiles(result.files)
           /\ \A i \in visible : Stocks(result.files, picked[i], directory)
           /\ Cardinality(DOMAIN result.files)
                = Total([i \in visible |-> Cardinality(EntryNames(picked[i], directory))])
      /\ result.inflated <= Studio.bytes
=============================================================================
