# A TLA+ model of capnpc-wasm

capnpc-wasm compiles the Cap'n Proto compiler and its generators to WASI
commands and runs them inside host programs: a TypeScript SDK (in-process or in
a web worker), a Go SDK over wazero, a portable launcher and a browser studio.
The guests are untrusted by the hosts' design, so the code that carries the
program's own logic is what surrounds them: who may run when, how a job is
cancelled, what a guest may leave behind, and what survives a failure.

This directory models that logic in TLA+, checks it with TLC on small
instances, and proves the most important parts with TLAPS for every value of
the constants.

## Inventory

| Component | State it keeps | Operations | Interacts through |
| --- | --- | --- | --- |
| Worker client (`sdk/typescript/worker-client.ts`) | `session` (worker, cell, `ready`, `settling`/`settle`), `disposed`, `busy`, `cancel`, `sequence`; per exchange `state` and three timers | create, compile, generate, dispose; abort signals, timers, worker events | messages to and from the worker, the shared cell, promises of the callers |
| Worker (`worker.ts`) | `engine`, `cell` | one async message handler | messages, the cell |
| Job control (`interrupt.ts`) | deadline, cell, token, stop reason | `cancelled`, `sleep` | read by every guest check |
| Guest runner (`runtime.ts`) | the first `stop`, the countdown | every WASI import, the injected check, `_start` | the shim, job control |
| Output budgets (`resource-fs.ts`) | bytes used, entries, live descriptors | wrapped shim operations | the shim's file objects |
| Engine (`engine.ts`), in-process compiler (`mod.ts`) | the stage it is in | a job's stages, one guest after another | guest runner, job control |
| Wire protocol and limits (`protocol.ts`, `limits.ts`) | none between calls | validation, encoding of results and errors | engine, worker client |
| Rewriter (`rewriter.ts`, `wasm.ts`) | the pass over one module | instruments Wasm modules | guest runner |
| Go Compiler (`sdk/go/compiler.go`) | `closed`, `jobs`, `idle`, `slots`, the release `sync.Once` | Compile, Generate, Close, all concurrent | mutex, channels, contexts |
| Go output filesystem (`sdk/go/memoryfs.go`) | `nodes`, `used`, `created`, `limit`, descriptors | open, mkdir, unlink, rename, write, truncate, seek, close | called by wazero for one guest |
| Portable launcher (`bin/capnp-wasm.ts`) | staging directories, stop signal, child | translate, stage, run, publish, clean up | file system, signals, children |
| Browser studio (`examples/browser/`) | workspace, session, running job, worker client | edit, import, run, restart, cancel, dispose | dialogs, downloads, worker client |
| Release preparation (`scripts/release.ts`) | staging directory, archive | prepare | git, the working tree, one rename |
| Nightly record and guard (`scripts/audit-nightly.ts`, `stable-release.ts`) | the ledger | compute, check, guard | run history of the nightly workflow |
| Build lock (`scripts/lib/lock.sh`) | a directory and its owner marker | acquire, take over, reclaim, release | renames between processes |
| Packaging, evidence and test scripts, generators | none that outlives a run | sequential tools | files |

What is hard in each, and what makes it right:

* **Worker client.** The caller, the timers and the worker race between any two
  tasks of the event loop; the token that stops a guest is an exchange id squeezed
  into an Int32. Jobs must be served one at a time, a cancellation must hit its own
  job and no other, no worker may leak, and every call must settle.
* **Guest runner, job control and rewriter.** The guest never yields, so a stop is a
  value in shared memory that rewritten code must come to look at: in loops, around
  calls, in a sleep. What the rewriter adds must change nothing else, the first stop
  must decide, and a stopped guest must end.
* **Output budgets and engine.** Budgets are kept beside a shim that knows nothing of
  them; charges must stay exact through links, renames and renumbered descriptors.
  An error has to say which stage failed and why, also after it crossed a thread.
* **Go Compiler.** `Close` may run at any moment, from several goroutines, and may
  give up. Runtimes are closed exactly once and never under a job.
* **Go output filesystem.** Long sequences of legal calls decide whether the byte
  charge, the lifetime entry count and the tree of names stay right once files are
  unlinked or replaced under open descriptors.
* **Launcher.** Signals arrive between any two steps of staging, running and
  publishing, and the output directory belongs to everybody. Nothing the generator
  wrote may be lost, and the exit status must tell what became of it.
* **Studio.** Jobs, imports, dialogs and edits overlap. Output shown as current must
  be the workspace's, and no edit may disappear unasked.
* **Release and nightly scripts.** They read a tree and a history that change under
  them, and a stable release rests on what they concluded.

`PROJECT.json` lists each hazard at the line where it bites.

## Modules

```
CompilerService            what a WorkerCompiler promises, abstractly
  ^ refined by
WorkerClient               client, calls, exchanges, worker thread, cell
Instrument <- Guest        the rewriter's code; one guest run under it
ResourceFS <- Engine       WASI filesystem and budgets; a job's stages
Protocol   <- Engine       how an error crosses the worker's boundary
GoCompiler                 calls, slots, Close, release of the runtimes
MemoryFS                   names, descriptors, budgets of Go's output
Launcher                   one run of the launcher
Studio                     the page, its session, job and worker client
Release                    preparing a release archive
BuildLock                  scripts taking turns by a directory
LauncherPaths, Workspace, Sections, GuestIO, Nightly
  <- Algorithms            pure functions, each called on bounded inputs
```

An `MC` module gives TLC its instance, a `.cfg` the run, a `Proofs` module the
theorems; `LauncherProofs` has those of `LauncherPaths` and `Nightly` too. `map` in
`PROJECT.json` names the source lines of every definition.

### WorkerClient

*State.* An operation is the creation of the client or one `compile`/`generate`
call (the two differ only in their payload). `phase[o]` is where its async
functions stand: an `await` (`waiting` in `settled`, `initializing`,
`exchanging`), or a microtask that will resume it. Every operation has at most
two exchanges, `init` and `job`; `state[x]` is the code's own variable
(`running`, `stopping`, `closed`), `work[x]` is its message seen from the worker.
A session is named after the operation that opened it; `worker`, `ready`,
`settle` and `cell` are its fields. `cancel` is the client's closure variable, as
the exchange or the wait it points to.

*Steps.* One action is one turn of JavaScript: a call of the API, an abort
event, a timer, a worker event, or one microtask. Timers and events are tasks
and wait until the microtasks have drained (`Drained`); calls and aborts are the
caller's own code and may come from a microtask of its own. What a callback calls
synchronously (`terminate`, `close`, `stop`, `reject`) is one step with it. The
worker's handler is async and excludes nobody: `Execute` may begin a second
message while the first is in progress, and only the client keeps that from
happening, which is what `SerialWorker` says.

*Abstractions.* A request is accepted or refused; a reply is a result, an error, a
cancellation or a timeout. Reading a request is one step: getters on the caller's
object that call the client back are not modelled. `createWorkerCompiler` called
with an aborted signal throws and makes no client. Time is not a number: any
timer may fire whenever its state allows, which covers cleared timers that fire
anyway. A terminated worker may run on, but answers nobody. An id is told from
others by its full value and its token by its Int32 value: the model keeps the
token, which counts modulo `TokenRange`, skipping 0.

### CompilerService

The abstract service of the comment on `createWorkerCompiler` and of
`WorkerCompiler` in `types.ts`: calls are active one at a time, others are refused as
busy, a call may settle while its guest still runs, and no guest starts before
the previous one stopped; a closed service starts nothing. It knows no workers,
messages, tokens or timers.

### Instrument and Guest

*State.* `Instrument` is the rewriter's effect on a module, as operators on records of
imports, function bodies, table, exports, start function and names; `Instrumented(m)`
is the module `instrument` returns. In `Guest` the frames `stack` execute that module.
`stop`, `countdown` and `code` are the host's variables in `runCommand`; `cell`,
`late` and `reason` are what `JobControl` reads and keeps; `nap` is where a
`poll_oneoff` stands. `ghost` holds the frames of the module the caller supplied.

*Steps.* One action is one instruction, one step of a sleep, or one step of another
thread (a token stored, the notification after it, the deadline). `ghost` takes the
same step as the guest whenever the instruction is not one the rewriter added.

*Abstractions.* Of instructions only control flow, calls and bulk operations remain,
and of imports those that stop, sleep, or do something else. A call nested deeper
than `MaxDepth` traps, as engines do at a depth of their own.

### ResourceFS, Protocol and Engine

*State.* `tree`, `kind`, `size` and `fds` are the shim's objects, `used`, `charged`,
`entries` and `live` the counters `resource-fs.ts` keeps beside them, `stop` the
first budget exceeded. There are four byte budgets: the files', stderr's, stdout's, and
the request's, which is what a compiler's stdout is charged to where it is the smaller
(`BudgetOf`). `Engine` adds the stages left (`job`), `phase`, the outputs and diagnostics
so far and the `reply`. `due` is why a poll would say that the job must stop.

*Steps.* A guest of a stage makes any sequence of WASI calls, then returns, exits,
traps or is stopped; the engine collects its files and begins the next stage in a
fresh filesystem. A path call may meet a path too long to copy (`PathTooLong`). What the
walk over the files refuses is `CollectFails`: a cycle, an entry too many, bytes too
many, a path too long, a name a guest may give and `checkName` does not take (`Unfit`).
The deadline or the cancellation may come between any two stages, and any poll of a guest
may see one (`Cancel`, `GuestCancelled`). A call that only returns an error is no step.

*Abstractions.* Contents and positions are left out (a guest may seek anywhere), except
that the inputs are files of their own. Directory reading is left out. A diagnostic is
the stage that wrote to stderr; messages cross the wire unread. A cause is the chain of
its names, ended by a value that is no Error: what a guest throws and nobody catches is a
`WebAssembly.Exception`, which `protocol.ts:121` turns into an Error.

### GoCompiler

*State.* `closed` and `jobs` under the mutex, the channel `idle`, the tokens in
`slots`, the `sync.Once`, and the goroutines: `pc` of each Compile or Generate,
`closer` of each Close, `releaser` for the goroutine the last job starts. `cause`
is `context.Cause` of a job's context, which is set once. `panicked` records a
second `close(c.idle)`.

*Steps.* One action is one section under the mutex, one channel operation, or a
guest starting or stopping; goroutines interleave between all of them. Requests
and guests are abstracted to how they end. `cancel(nil)` in `done` is not a step:
nothing reads the context after it. Every stage is a guest of any number: Compile
and Generate differ by the first one only. The mount that runs before a guest
cannot fail after `New` has tried it.

### MemoryFS

*State.* `nodes` maps a resolved path to an inode number; `length` is the length of
an inode's data, `files` the open descriptors with node, offset and flags;
`used`, `created` and `limit` are the code's fields. Inodes are never forgotten, so
an unlinked or replaced file still exists for the descriptors that hold it.

*Steps.* A guest has one thread, so one action is one call with everything it does.
A call that fails and changes nothing is stuttering and is not written down; a
call that fails and does change something is (a refused append that moved the
offset, `O_TRUNC` without write access after the entry was created, every
exceeded budget). Flags that only make an open fail (`O_EXCL`, `O_DIRECTORY`) and
read-only mounts are left out. Text of paths is left out, except what the budgets
tell apart: names longer than `PathBytes` that a lookup still resolves (`Long`) and
names too long for a lookup (`Overlong`). There is no rmdir: the code inherits
"unimplemented".

### Launcher

*State.* `pc` names the `await` the launcher is suspended in; `signal`, `child`,
`disk` (the staging directories in use, or kept at the end), `cleanup` (those it will try
to remove), `left` (those a removal was tried of and that are still there), `staged` (the
tree in the output stage), `dest` (the caller's output directory), `next` and
`published` for the publication pass, and `exit`. `raised` is where a check for a stop
threw.

*Steps.* An action resumes the launcher and runs it to its next `await`. A signal's
listener runs only while it is suspended. Other processes change the output
directory at any time (`Meddle`), so also between a check and the rename after it; a
directory nobody may write in any more is `locked`. `removeTree` is best effort and says
nothing when it fails, so any removal may leave its directory behind, with any status:
what `disk` says is which stages nobody tried to remove.

*Abstractions.* A generator may leave any of `Shapes`, links and strange files
included. Wasmtime's discovery and the manifest's verification are a step that
passes or fails. Contents are left out.

### Studio

*State.* `ws` and `session` are `state.js`'s records with their fields; `job` and
`waiting` are `main.js`'s job and the `run()` calls that await it; `client` and
`live` the worker client `compiler.js` keeps and those not disposed; `asking` the
modal dialogs, `reading` an import in progress.

*Steps.* One action is one event with every microtask it leads to. A dialog keeps the
user from other controls, not a job or an import from going on. Downloads, the
compiler and the generators may end in any order, fail, or hang.

*Abstractions.* Rendering, the editor, downloads of results and the text of archives are
left out. Which of several files comes first is left open.

### Release

*State.* The working tree (`head`, `edited`), `tags`, the `staging` directory and the
finished release (`dest`) per flavor, and the `run` with what it has read and still has to
copy. A file's content is the commit and the edits it was copied from. `moved` says whether
the run copied from a tree that was not the one it judged: the tree differs when the copies
begin, or changes before the last of them. `history` records every publication, with its
files where the tree had not moved. `starts` and `moves` count against the run's bounds.

*Steps.* Reading HEAD, the status, the tags, each copy, the pack and the rename are
steps of their own; the maintainer edits, checks out and tags between any two, and
every step may fail or be the last before a kill. Which files an archive takes depends on
the flavor and the commit (`Tracked`). They come from the checkout; `dist/` is taken as
built from it, and is ignored by git.

### BuildLock

*State.* `lock` is the directory, as the pids of its markers, its other entries, and
whether it is older than a minute; `dead[p]` is what script p has moved away. `pc[p]` is
the script's next command (`look` also stands for the sleep between two passes), and
`owner[p]` the owner it has read and not yet acted on. `late` records whether a lock
ever stood without a marker for a minute: from then on lock.sh relies on moving it away.

*Steps.* One command of the shell each: a test, a rename, a marker written or removed.
`mv` does what GNU's does when its target appears meanwhile: it lands inside, is refused,
or replaces an empty directory (`Moves`); `rm -rf` empties the directory and then removes
it unless something came in (`RemoveEntries`, `RemoveDirectory`). A script may be killed before any step,
and builds before these may have left a lock of either kind behind (`Leftovers`).

*Abstractions.* The wait is not counted: giving up may come at any time (`End`). The
minute is: it passes only while no script stands between two commands (`Minute`).

### Pure functions

`LauncherPaths` is the translation of a command line to the guest's root.
`Workspace` is the three places that bound a request: the studio's import, the
SDK's validation, and the staging. `Sections` is `instrument`'s pass over the
sections of a module, `boundMemory`, and the checks around them. `GuestIO` is the
vectored reads and writes, `random_get` and the guarded calls over a guest's
memory. `Nightly` is `computeStreak`, the ledger's consistency and the guard.
Each also defines what its functions owe, without the functions' own
definitions: files a path denotes, the engine's validation rules, cells of memory,
days in a row. `Algorithms` calls each of them once on every input of a bounded
set: a state is a call, an invariant what the call owes.

In `Workspace` an archive's entry has the size it declares, which is charged before it is
inflated, and the bytes it turns out to hold; a stored one may hold more, and
`validateFiles` sees that afterwards. Of two entries with one name in one archive the later
is taken, silently; the same name from two picked files ends the import. What `fflate` does
is modelled from how the code uses it. In `Sections` a function's body is the functions it
calls, those whose value it takes, its locals, and whether it has a bulk operation to charge
for. The pass fails closed (`Parses`): on a type that is no function's, a table that has an
initializer, instructions and forms it does not know (`exact`), a body with no local left;
besides, on a memory that is shared or over the ceiling and on an export with the reserved
name. Names it cannot read are dropped.

`Algorithms` extends the five modules and states what its inputs are (`IOAssumption`,
`HistoryAssumption`, `LineAssumption`, `WorkspaceAssumption`, `ModuleAssumption`). No
option has `--` for its value, which is where the launcher and the compiler count
differently; a current directory is a real path. The
run's inputs also leave out directories whose name holds `::`, which `translatePaths`
refuses, and its modules give import i the type i. The kind `--version` stands for `--help`
too.

## Runs

| Run | Instance | What it shows |
| --- | --- | --- |
| `worker_client` | creation + 2 jobs, cell, one usable token, fair; 94 thousand states | safety, the refinement of `CompilerService`, and that calls end |
| `guest` | 734 programs: five written by hand and every pair of short functions; interval 5, depth 3; 93 thousand | the rewritten code is the caller's, and stops |
| `engine` | a compiler and a generator, 2 names (one unfit), 2 inodes, budgets of 1 byte (stdout 2), 2 entries, paths of 1 name, 5 descriptors; 1.2 million | charges, inputs, collection, and the error reported |
| `go_compiler` | 2 calls, 2 Closes, 1 slot, fair; 70 thousand | slots, Close and the release |
| `memory_fs` | 5 names, 2 descriptors, 2 bytes, 3 entries, up to symmetry; 681 thousand | the budgets and the tree |
| `launcher` | all six modes, 2 signals, 3 entries, 7 staged trees, meddling twice, fair; 86 thousand | output, status and stops |
| `studio` | 2 paths, 2 contents, 2 languages, 2 revisions, 1 waiting run, fair; 227 thousand | outputs, jobs, the client, edits, restarts |
| `studio_restart` | the same, 2 waiting runs | a comment the code does not keep (violation) |
| `release` | 2 flavors, 2 commits, 3 files, 3 runs, 2 edits or checkouts; 12.9 million | what is in an archive and what a version means |
| `build_lock` | 3 scripts, 1 departed owner, fair; 122 thousand | turns are taken, and no lock stays stuck |
| `build_lock_turns` | the same | the turns after a lock stood without a marker (violation) |
| `algorithms` | every input of the sets in `MCAlgorithms`; 305 thousand | the pure functions against what they owe |

Bounds, and why they are enough:

* *Worker client.* The interesting interleavings are between a cancelled job, the next
  one, and dispose; creation is a third operation with its own session, so a job can
  find the first worker, a replacement, or none. `TokenRange` 2 leaves one token, so
  every two exchanges collide: the worst range there is. The proofs cover any. The
  run has shared memory; the safety theorems and the refinement hold without it too.
* *Guest.* The hand-written programs have loops, tail calls through the table and
  directly, recursion, a start function, bulk operations larger than the interval, and
  imports reached only as values; the pairs cover each kind of call followed by each
  other. Five ticks let a countdown run out in a loop, in a call and in a bulk charge.
* *Engine.* Two inodes are a file and a directory, two files, or a directory in the
  other; links and renames over each other need no third. Budgets of one byte are met
  by the first write and exceeded by the second; stdout's is larger than the request's, so
  that the compiler's and the generator's stdout differ. Of five descriptors four are taken
  at the start, so a table at its limit is reached at once. One job has every boundary: a
  first stage, a stage after another, and an end. A path of two names is too long, and one
  of the two names is unfit, so every failure of the walk happens. The proofs cover any.
* *Go.* One slot makes the calls wait for each other; two Closes race each other and
  the last job.
* *MemoryFS.* Five names are a directory, a file below it, one beside it, and one at
  each side of the lookup limit. Three entries allow a directory, a file and a
  rename, or three files; two bytes allow a shrink, a refund and a second file that
  takes the refund. Writes have at most one byte (`MaxWrite`) at any offset, so
  sparse writes happen; positions beyond the budget are enumerated up to one past it.
* *Launcher.* A directory, a file in it and a file beside it: a failure may come
  before, between and after the moves. Two signals, as the first decides the status;
  two changes by others, so one may undo what the launcher checked and one may make
  a rename fail.
* *Studio.* Two revisions make a job stale while it runs and again while it is
  restarted; one huge content is what an import refuses.
* *BuildLock.* Three scripts are two that judge one lock and a third that comes while it
  is moved away, or one that is killed and two that inherit; the departed owner and the
  old lock without a marker stand for whatever earlier builds left.
* *Release.* Two flavors with a file of each one's own and a shared one, and tracked sets
  that differ between the two commits. Of three runs two publish one version and one leaves
  something behind, or belongs to the other flavor; two moves are a change and its
  undoing, or one before the judgement and one after. Any number of tags and discards.

`CHECK_DEADLOCK FALSE` is set in every run: a run has finitely many calls, files or
revisions, and a client whose calls have all returned, a guest that has exited, a
launcher that is done and a call of a function do stop.

### Properties

*Worker client.* `SerialWorker`: no live worker holds two messages.
`CancelHitsItsJob`: a running job never finds its token in the cell, whatever tokens
collide, and a cancelled job's token stays there until its exchange closes.
`WorkersOwned`: a worker not terminated is the session's, none is left after dispose,
and a job reaches only a worker that compiled its modules. `WorkerKept`: a ready
worker is terminated only for the reasons the code lists. `CallsEnd`: an accepted
call returns and a cancelled job ends, under any behaviour of the worker, one that
never answers included. `ImplementsService`.

*Guest.* `Faithful`: the instructions the rewriter did not add are those of the
caller's module, in its order, on its functions. `HonestResult`: a guest reported by
its exit code saw no import refused before. `HaltsAtOnce`: once a stop is recorded
`_start` is not entered, no import acts, and as soon as the host has found the
countdown no instruction of the caller's module runs. `StopEndsGuest`: a stop requested or recorded
ends the run.

*Engine.* `ResourcesExact`: bytes, entries and descriptors are what the filesystem
holds, and fit. `InputsKept`: no call changes an input, or anything but stdout in a
compiler's filesystem. `WalkAgrees`: the walk that collects the output finds no cycle
and no more entries than were charged, unless a budget stopped the guest.
`FailureNamesCause`: the one error a caller gets names the stage that failed and the
budget it exceeded, or is a cancellation for a reason that was there; and it is the same
after it crossed the wire, but for a cause that is no Error, which arrives as one.

*Go.* `CloseIsSafe`: runtimes are freed under no job, `idle` is closed once, a Close that
gave up cancels every job, one that did not means released. `SlotsBoundGuests`: the
channel holds exactly the tokens of the jobs that hold a slot, and a job that runs
guests holds one. `GaveUpReleases`, `CloseReturns`. For the filesystem:
`BudgetsHold` (the charge is the length of every inode ever made; what is reachable by
name or descriptor fits; so do entries), `NamesWellFormed` (names form a tree and none
is over the limit), `StepsAccounted` (a step charges the names it makes, and the
first limit exceeded stays).

*Launcher.* `NothingLost`: once the move pass has begun, a file the generator wrote is
in the output directory or in a stage nobody removes. `ExitTellsOutput`: the status
says which, and a stage is kept exactly when a publication ended part-way; the removal of any
other was at least tried. `StopHonoured`: the running child is told of a stop (`StopReachesGuest`), no
other is started (`NoChildAfterStop`), and the status is the stop's, but for one that
the walk of the bundled schemas met, which ends with 73, and for a run that met no check
after the signal, which ends as it would have (`StopTold`).
`StopEnds`.

*Studio.* `OutputsCurrent`: outputs on offer, and the request a further one would reuse,
are of the workspace shown. `SlotsAgree`: the session's job and the page's are one,
and only an aborted job is waited for. `OneClient`: at most one client is alive, with
the generators a working job needs. `EditsKept`: no step takes more than one file
from the user unasked. `RestartServed`: a run that waits for a stale job goes on.

*Release.* `ArchiveWhole`: an archive is one run's, with nothing an earlier attempt left,
and holds exactly what its flavor takes of the commit and the status it records, unless the
run copied from a tree other than the one it judged. `OneSource` has two halves: every
publication of a version names the commit of its tag, whatever changed between the reads of
HEAD, status and tags; and any two whose files came from the tree that was judged hold the
same bytes.

*BuildLock.* `TakeTurns`: as long as no lock stood without a marker for a minute, at most
one script holds the lock, with its own marker alone in it, and none waits for itself.
`WaitersServed`: a lock no live process owns does not stay while a script waits, also
after such a minute, and before one the waiting scripts get it in turn.

*Algorithms.* `TranslationFaithful`: the guest resolves each translated path to the file
the host meant, under the deepest root that holds them all. `WorkspacesAgree`: what the
studio accepts the SDK accepts, what the SDK accepts is staged whole, and an import that
goes through has every picked file with its bytes and nothing else.
`RewriteAccepted`: of the modules the engine accepts those are refused that the pass does
not take, and no others; a rewritten one passes the engine's rules and every index still
means what it meant. `IOBounded`: no call touches a cell its vector does not name, and
what it reports moved is what moved. `StreakHonest`: the streak counts whole days in a
row, and a release is published only on one.

Each is paired in `PROJECT.json` with a mutant: a plausible bug in one mapped
definition under which the same run finds it violated.

### Fairness

* *WorkerClient.* The event loop runs queued microtasks and expired timers, so those
  are weakly fair: `Microtask`, and `WaitTimer`, `Timer` and `GraceTimer`, which the
  code always arms in the states that enable them. Nothing is assumed of the worker,
  of replies, or of callers. A suspended call returns because of its timers alone.
* *GoCompiler.* Goroutines are scheduled, so each call's and each Close's next step is
  weakly fair, with one exception: a guest stops only when its context has ended
  (wazero runs with `WithCloseOnContextDone`, and the guest's sleep watches the
  context). A context may never end; `CloseReturns` speaks of a Close whose has.
* *Guest.* Its thread takes steps, and the thread that stored a token goes on to notify
  (`StoreToken` then `Notify`). That a token is stored, or a deadline passes, is not
  assumed; neither is that a sleep ends.
* *Launcher.* Its own steps, and that a child told to terminate does. A child nobody
  told to stop may run for ever: `CAPNP_WASM_TIMEOUT` may be 0.
* *BuildLock.* A script that runs goes on and its build ends; time passes (`Minute` is
  strongly fair, as it needs a moment at which all scripts rest); and there are such
  moments again and again (`[]<>AtRest`), since a pass is a few commands and the sleep
  between passes a second. A script may be killed or give up, and need not.
* *Studio.* Only that what an aborted job awaits rejects. A download may hang, and the
  user need not do anything.

## Findings

* `build_lock_turns`. The header of `scripts/lib/lock.sh` (lines 4-7) promises mutual
  exclusion: two invocations of a script take turns. After a lock stood without a marker
  for a minute they may not. Two waiters find it so (line 87); the faster one moves it
  away, removes it and makes its own; the slower one then moves that live lock away
  (line 92), and before it has put it back (line 94) a third script finds none and
  makes one. Two scripts hold the lock, and what is put back lands inside the third's.
  A script whose new lock is moved away before it looks for its marker (line 68) is
  another victim: the lock is put back with that script's own, live marker in it, for
  which it and everybody else wait until it gives up.
* `studio_restart`. Two `run()` calls that await one stale job both go on when it ends.
  The second does not look at `job` again and calls `beginJob`, which throws: its
  targets are dropped. The comment on `run` (`examples/browser/main.js:456-460`) says a
  running job for the same snapshot is left alone.

More of the kind, seen while modelling and part of the models as the code has them:

* The copy of the bundled schemas awaits between files, and a stop signal makes it throw
  `Stopped`; the `catch` around it (`bin/capnp-wasm.ts:1445-1449`) turns every error into
  status 73, while the usage text (line 90) says a launcher stopped by signal N exits
  with `128+N`, as every other step does (so does `docs/releases.md:377`). `StopTold` names this
  exception and no other. The same line of the document says that the staging directory is
  removed, which is tried and not ensured.
* Two waiters that run in lock-step can move one departed owner's old lock back and forth
  for ever: each reads no owner while the other has the lock moved away, and judges it
  once it is back. `continue` (`lock.sh:100`) neither sleeps nor counts towards the
  timeout. The fairness of `build_lock` excludes it.
* A command line whose last option still waits for its value, as `compile a.capnp -I`, has
  the launcher's own options put behind it (`bin/capnp-wasm.ts:1359`, `1404`), and the
  first of them becomes that value. The compiler no longer sees that one is missing; for
  an empty value, line 1365 keeps its diagnostic. `TranslationOwed` claims nothing of a
  line whose last option waits when something is put behind it; without that premise the
  run finds the violation.
* A cause that is no Error changes on its way from a worker (`protocol.ts:121`): of an
  uncaught `WebAssembly.Exception` the direct compiler's caller gets the exception and the
  worker's an Error, while `types.ts:144-149` says that a `CompileError` is the same in both.
* A release that copies from a tree edited or checked out anew since it was judged
  (`release.ts:1023-1025`) records the commit it read. "An archive is tied to one clean
  commit" is then not so, and `moved` marks these runs.
* A job of the Go SDK that `Close` terminates between the two reads of `jobErr`
  (`compiler.go:803-806`), at its first check, returns `context.Canceled`. The comment above
  it (lines 799-801) says `ErrClosed`. No property depends on it (`Check`, `CheckRequest`).

## Theorems

Eight modules prove the safety properties for every value of the constants. Each shows `Init
=> IInv` and `IInv /\ [Next]_vars => IInv'`, concludes `Spec => []IInv`, and derives the
properties from it. What each assumes of its constants is a named `ASSUME` in the modelled
module, which TLC evaluates on the run's instance.

*WorkerClientProofs* (any set of jobs, infinite ones included; any `TokenRange` of at least
2; with and without the cell). `SerialWorker` and `CancelHitsItsJob` are not inductive: they
depend on what the client knows about exchanges that are long over. `IInv` adds, in named
parts: at most one operation is active and it holds `busy` (`OneActive`); an exchange runs
exactly while its operation awaits it (`RunningIsAwaited`) and `cancel` points at the one
suspended operation (`CancelIsPending`); the one live worker is the session's
(`LiveIsSession`); every open exchange belongs to that session and its `settle` is the one
that is stopping (`OpenInSession`); an exchange is stopping only while the active operation
waits for it, or none is past its wait (`NothingElseStopping`); a message is out at a live
worker only for an open exchange (`OutstandingIsOpen`). Then two messages at one live worker
belong to two open exchanges of one session, of which one is running and one stopping, and
no operation is in a phase that allows both. `CellInv` says the cell is zero unless a job is
stopping and then holds its token; as nothing runs while one is stopping, no running job
finds its token there, even when all tokens are equal. `FreshNames` and `InitKeepsSession`
are what replacement workers need, `EngineInv` what a job needs of its worker. For
`WorkerKept` a second invariant (`KeptInv`) says that an operation has no outcome until it
is settled, and that a session whose start-up is under way or has failed is not ready; each
step that terminates a worker then shows its reason. `ClientServes` proves the refinement:
at most one call has a message at a live worker (`OneGuest`), so a step that posts a job's
message starts a guest where there was none, a step that takes a message or a worker away
stops it, and no step changes both a call and the guest; `ServiceInv` says that `busy` is
some call's and that a call fails as disposed only after `dispose`.

*GoSdkProofs, the Compiler* (any finite set of calls, any Closes, any slot bound). A job is
registered exactly while its `pc` says so, and `idle` is closed exactly when the Compiler is
closed and has no jobs (`JobsInv`); since `begin` refuses a closed Compiler, that stays so
for good. Whoever releases the runtimes, or is about to, found `idle` closed (`ReleaseInv`)
and is alone (`OneReleaser`); hence no job can be using them. `slots` counts the calls with
`admitted` set (`SlotsInv`).

*GoSdkProofs, the filesystem* (any tree of names, any budgets, any descriptors). A sum has
no closed form and its induction is out of the provers' reach, so the bytes of the inodes
are counted as what they are: `Bytes(S)` is the number of pairs of an inode of S and a
position below its length. A write adds a column of pairs, a truncation removes one, and
cardinalities of disjoint finite sets add up (`Resized`). `InodesAreMade` says that an inode
about to be made has no bytes and no names. A name is taken away only by unlink and rename,
both of files, and nothing is ever below a file: hence the tree.

*EngineProofs* (any names, finite set of inodes, budgets, descriptor limit of at least 4,
and jobs). Bytes are counted in the same way (`BytesPart`); names are charged, so there are
never more than `entries`, which passes its budget only if that stopped the guest
(`NamesPart`); `live` is the number of open slots (`FdsPart`), which renumber keeps because
it closes one slot and moves another. A compiler's filesystem keeps the tree it was staged
with. `JobInv` ties the filesystem to the stage it was made for. `WalksAgree` is about a
walk, told level by level by a recursive function. `ForestInv`: a directory has one name at
most, and the root none. So a directory the walk meets was met on no other level and in no
other way, by induction on the level (`MetOnce`), and each entry it lists is found through a
name of its own (`FoundOnce`); names were charged. `FailuresAreHonest` follows each failure
from where it arises through `Encode` and `Decode`: a chain of causes is short enough to
cross whole, each link with its name or as an Error (`CauseCrosses`, `ErrorCrosses`). That a
walk meets no cycle and no entry too many is `WalksAgree`.

*GuestProofs* (any programs, interval and depth; `GuestAssumption` says that a program is
one the engine has validated: each index is in range, each branch names one loop of its
body). What the host guarantees whatever the code does: a refusal before an exit comes with
the stop that will be reported, and a thread sleeps only while no stop is recorded.
`FirstStopStays` proves of every step that it keeps the stop, does not enter `_start` and
lets no import act. `RewritesAreFaithful` and `StopsAtOnce` need the program's instructions,
and rest on a simulation. `Laid` is the layout of a rewritten body: where each instruction
went (`At`) and what stands there, by induction on the body. `Match` relates a frame of the
instrumented code to one of the caller's: it stands at that instruction's place, at an added
check before it, or past the charge of a bulk operation. `Pair` says what the two are about
to execute and where that leads, one case per shape the rewriter produces. The stacks are
related frame by frame (`Matched`), except while a thunk is about to call its import
(`Through`) or an import called from one has returned (`Leaving`); `SimInv` says that one of
the three holds whenever a guest runs. A step that executes an added instruction keeps the
caller's frames, any other takes the same step on both. `Pair` then gives `Faithful`; for
`HaltsAtOnce`, `Stopped` says that a recorded stop has zeroed the countdown once the host
has found it, and that the guest's next instruction is an added check or an added
`unreachable`. The proof covers modules whose start function and `_start` they define
themselves; an imported one is called by the engine and the rewriter sees none of it.

*LauncherProofs* (any modes, entries, staged trees, signals and meddling; any command lines;
any histories and ledgers). What is cleaned up is what exists (`Owned`); a child exists only
while it is waited for (`Waited`); from the generator's start to the end of the pass its
stage exists (`StageHeld`); nothing is staged before the generator succeeded and nothing
moved before the check pass did (`Unstaged`, `Unmoved`); and the move pass has dealt with
every entry before `next` (`Dealt`), so at its end no file is left in the stage.
`StopEndsIt`: once a stop was thrown the launcher is done, with the stop's status or, if the
walk of the schemas threw it, with 73. Any removal may fail in all of it.
`TranslationsAreFaithful` (any command line, directory, include directory and folding of
names) has two halves. The scan of the arguments is a recursion over them; an option added
before the options end leaves what it knows behind them as it was (`Extended`,
`ScansAgree`), since every option there that takes a value already has one (`Settled`);
where the last one has none, nothing is added. So the compiler reads the same paths on the
translated line, one prefix aside (`PathsRead`). The other half is about the host's
directories: a rooted path is normal (`NormalIs`, by induction on its names), the root is
above the current directory and every path's directory and no deeper one is (`RootIs`,
`RootIsTight`), and below it a guest path denotes what the host path did (`LiesBelow`).
`LineAssumption` says that the current directory is a real absolute path, as
`realPath(Deno.cwd())` is, and that no option has `--` for its value. That an option at the
end of the line may wait for its value is a premise of the property, where something is
added behind it. `ReleasesRestOnStreaks` goes through the history from its newest run.
`CountInv` relates what is counted after k runs to those k runs: the days counted are
consecutive up to today or yesterday (`Dated`), each was passed by its newest run, and all
but the oldest by every run (`Rows`); as long as the streak goes on, every run seen passed
and is of a counted day (`Open`); once it has ended, no day more is in a row (`Over`); and
the oldest day counted is that of a run seen (`Met`). After the last run that is the
definition of days in a row. `HistoryAssumption` says that a history is in the order its
runs were created, which line 95 of `audit-nightly.ts` sorts them into, and has none of a
later day than the clock, which is read after GitHub has answered (line 367).

*StudioProofs* (any paths, contents, languages, sources and revisions). What the session
holds is the snapshot of the workspace shown (`Current`), and a job's snapshot is the one of
its revision (`Traced`); as each change makes a new revision and drops the outputs, a job
that completes late cannot put its results there. `Queued` and `Owned` carry `SlotsAgree`
and `OneClient`; `Room` keeps the revision within its bound.

*ScriptProofs* (any flavors, files, commits and bounds on runs and moves; any number of
scripts). `ArchiveInv`: unless the tree moved, the stage holds what was copied so far of the
files owed, each as the tree was judged, and nothing else, and until the last is copied the
tree is still that one (`StagedSoFar`); a run that packs has copied all (`StagedAll`).
`SourceInv`: a run that may publish found its own commit under the tag, and a clean tree
(`Admitted`); tags do not move, so every publication has the tag's commit, and where its
files are known they are that commit's, unedited (`Published`): two of them are the same.
`ScriptsTakeTurns`: as long as no lock stood without a marker for a minute, a lock has one
marker at most (`OneMarker`), a script between its marker and its release has its own in the
lock, and one that takes the lock over read an owner that is gone (`Placed`). A takeover
renames the dead owner's marker, so a second script finds none to rename (`OneTakeover`),
and what it became keeps the directory in place until the new marker is written; nobody
moves a lock away in that time (`reclaim` is not reached).

*AlgorithmsProofs* (any memories of cells, any words a guest passes, any descriptors, any
workspaces, any modules). A call over a vector is a recursive function of the entries gone
through; by induction on them it stays a call under way that went to cells of memory only,
moved no more than the descriptor holds, and, for a write, changed no cell but its report
(`WritesBounded`, `ReadsBounded`). The induction asks nothing of what the entries hold, so
it also covers a read that overwrites the ones to come. Of memory `IOAssumption` says that
its cells are numbered from 0, as bytes of an `ArrayBuffer` are. `WorkspacesAreAgreed` (any
files, requests, archives and limits) is about functions that fold over sets and sequences.
The fold of the library is tied to a recursive function once, by induction on finite sets
(`Folds`); a sum is then the number of places below its terms, as bytes are counted above
(`Weight`). A request that passes validation has canonical paths none of which is above
another (`NoFaults`), so in the tree with its two mounts no file lies on another's way
(`StagedApart`), in whatever order they are put (`PutGrows`): all are staged. What the
studio splits off as the user's own schemas loses a folder, so files, nodes and bytes of the
two parts together are no more than those of the workspace and the bundled schemas
(`NodesFit`, `SizesFit`), which is the budget it gives the SDK; its path limit counts UTF-16
units and the SDK's counts bytes, three to a unit at most. Through an import the bytes
inflated and the budget left are never more than one workspace, and each file picked or
unpacked is new, or the import stops (`Gains`, `TakeAllIn`); what an archive brings is the
last entry of each name with the bytes it holds, with or without the first folder
(`ExpandedIs`, `BringsFinite`). `WorkspaceAssumption` asks that three times the studio's
path limit is within the SDK's, as those of 512 units (`workspace.js:14`) and 4096 bytes
(`docs/sdk-contract.md:140`) are, that the bundled schemas' paths are, and that a workspace
is finite. `RewritesAreAccepted` (any module that decodes, any ceiling of pages) goes
through the sections in the order a module must have them in. After those up to a place L,
the rewriter knows what they declare and which functions are used by then (`Knows`), what it
has emitted is in order and each section of it is the one a rewrite owes (`Holds`), and what
it has still to add are the sections that belong behind L (`PassedTo`); that lasts through
every section (`PassOn`) and the ones added at the end (`PassEnds`). A thunk stands for an
import wherever a value of it escapes, at an index behind all functions; so the output is a
module the engine accepts (`AcceptsOut`), and every export, call, table entry, global, start
and name means what it meant (`MeaningsOut`). A module that is not `Supported` has a section
the pass rejects, and a rejection lasts to the end (`Unsuited`, `UnsuitedRefused`).
`ModuleAssumption` says that a module is what a decoder makes of bytes: indices and sizes
are naturals, an entry has the fields its section gives it.

*Only model-checked.* Liveness (`CallsEnd`, `GaveUpReleases`, `CloseReturns`, `StopEnds`,
`StopEndsGuest`, `RestartServed`, `WaitersServed`) is out of this prover's reach. Every
invariant and every action property that a passing run checks is proved.

## Not modelled

* *Around the build lock*: pids that are used again, a directory that the script cannot
  write to, a process that is stopped for a minute between two commands, and children
  that outlive their script (`lock.sh:25-27`).
* *Packaging, evidence and test scripts; generators.* Sequential tools whose substance is
  external programs and the contents of files.
* *Wasm bytes.* LEB128, the opcode table, the type and data sections' contents, the
  feature probes of `environment.ts` and the shim's corrections of the ABI.
* *Validation of options* in `limits.ts` and `types.ts`, and `postReply`'s fallback for a
  reply that cannot be cloned.
* *Directory reading*, in both SDKs: offsets of Readdir and cookies of `fd_readdir`.
* *The launcher's discovery of Wasmtime*, `release.ts`'s other subcommands, checksums and
  provenance, and the queries to GitHub.
* *The working tree between status and copies.* `release.ts:1024` reads the status once
  and copies later; an edit between the two gets into the archive. Nothing in the script
  prevents it. It is in the model, and no property claims anything of the bytes of such an
  archive. The date an SBOM takes of HEAD (lines 1419-1425) is not part of the archive.

## Plan

Done: the client and its refinement, the guest under the rewriter, the engine over its
filesystem, the Go SDK, the launcher, the studio, release preparation, the pure
functions, and the proofs above. Next, in this order: validation of options; offsets of
directory reading.
