------------------------------ MODULE Launcher ------------------------------
(***************************************************************************)
(* The portable launcher (bin/capnp-wasm.ts): one run of the program, from *)
(* the arguments to the exit status, with the signals that may stop it,    *)
(* the children it starts, the staging directories it owns and the output  *)
(* directory it publishes into while other processes change it.            *)
(*                                                                         *)
(* The launcher is a single JavaScript thread: pc names the await it is    *)
(* suspended in, and an action resumes it there and runs it to the next    *)
(* await.  Signal listeners run only while it is suspended.  Other         *)
(* processes run at any time, also between a check and the call after it.  *)
(***************************************************************************)
EXTENDS Integers, Sequences

CONSTANTS
  Modes,        \* the first argument: some of AllModes
  Signals,      \* the signals a listener is installed for
  Entries,      \* what a generator may write, parents before children
  Ancestors,    \* the proper ancestors of an entry below the stage
  Shapes,       \* the staged trees considered: entry -> kind
  Meddling,     \* bound on the changes other processes make to the output
  None

AllModes  == {"version", "verify", "compiler", "generator", "capnp", "generate"}
Producing == {"generator", "generate"}
Items     == {Entries[i] : i \in DOMAIN Entries}
Kinds     == {"absent", "file", "directory", "symlink", "other"}
Found     == {"absent", "file", "readonly", "directory", "locked", "symlink"}
Stages    == {"workspace", "include", "output"}
Statuses  == {0, 1, 134}     \* of a child: success, its own failure, a trap
Children  == [who : {"capnp", "generator"}, status : Statuses \cup {None}]
Failures  == {1, 64, 65, 66, 69, 70, 73, 74, 78}

Awaits == {"verify", "probe", "survey", "copy", "warn", "protect", "create", "include",
           "schemas", "running", "walk", "move", "rename"}

ASSUME LauncherAssumption ==
  /\ Modes \subseteq AllModes /\ Meddling \in Nat /\ Entries \in Seq(Items)
  /\ Ancestors \in [Items -> SUBSET Items] /\ Shapes \subseteq [Items -> Kinds]
  /\ None \notin Signals /\ Signals \cap Int = {} /\ None \notin Int \cup Children \cup Awaits

VARIABLES
  mode, pc,
  signal,       \* stopping.signal
  child,        \* stopping.child: who it is and its status once it has exited
  told,         \* SIGTERM was sent to the child
  disk,         \* the staging directories in use, or kept at the end
  cleanup,      \* the ones cleanup.run will try to remove
  left,         \* the ones somebody tried to remove and that are still there
  staged,       \* what the output stage holds
  dest,         \* what the output directory holds under the same names
  next,         \* the entry the move pass has reached
  published,    \* the entries moved into the output directory
  raised,       \* the await after which a checkStop threw Stopped
  exit,         \* the exit status, a signal standing for 128 + its number
  meddled

run  == <<mode, signal, told, meddled, dest>>
vars == <<mode, pc, signal, child, told, disk, cleanup, left, staged, dest, next,
          published, raised, exit, meddled>>

Bare == [e \in Items |-> "absent"]

TypeOK ==
  /\ mode \in Modes /\ signal \in Signals \cup {None} /\ told \in BOOLEAN
  /\ pc \in {"start", "done"} \cup Awaits
  /\ child \in Children \cup {None}
  /\ disk \in SUBSET Stages /\ cleanup \in SUBSET Stages /\ left \in SUBSET Stages
  /\ staged \in [Items -> Kinds] /\ dest \in [Items -> Found]
  /\ next \in 1..(Len(Entries) + 1) /\ published \in SUBSET Items
  /\ raised \in Awaits \cup {None} /\ exit \in Statuses \cup Failures \cup Signals \cup {None}
  /\ meddled \in 0..Meddling

Init ==
  /\ mode \in Modes /\ pc = "start" /\ signal = None /\ child = None /\ told = FALSE
  /\ disk = {} /\ cleanup = {} /\ left = {} /\ staged = Bare /\ dest = Bare /\ next = 1
  /\ published = {} /\ raised = None /\ exit = None /\ meddled = 0

-----------------------------------------------------------------------------
(* How a step of the launcher ends.                                        *)

\* main's finally runs the cleanup, over the stages this step has just made too;
\* cli turns the error into a status.  removeTree is best effort: a directory it
\* cannot remove stays, and nothing is reported.
Finish(code, made) ==
  /\ pc' = "done" /\ exit' = code /\ child' = None
  /\ disk' = disk \ cleanup /\ cleanup' = {}
  /\ \E stuck \in SUBSET (cleanup \cup made) : left' = left \cup stuck
  /\ UNCHANGED <<staged, next, published>>

Quit(code, made) == Finish(code, made) /\ UNCHANGED raised
Exit(code) == Quit(code, {})
Fail(codes) == \E code \in codes : Exit(code)

\* checkStop throws Stopped, which ends the launcher with its own signal.
Stop(made) == signal # None /\ raised' = pc /\ Finish(signal, made)

\* The launcher suspends at p, owning the stages it has just made.  An output
\* stage has two places it may be made in: a directory made in the first whose
\* path cannot be resolved is removed, as far as that can be done.
Await(p, stages) ==
  /\ pc' = p /\ disk' = disk \cup stages /\ cleanup' = cleanup \cup stages
  /\ left' \in {left, left \cup (stages \cap {"output"})}
  /\ UNCHANGED <<staged, next, published, raised, exit>>

\* A walk checks for a stop before its first directory.
Walk(p, stages) ==
  \/ Stop(stages)
  \/ signal = None /\ Await(p, stages) /\ UNCHANGED child

\* Mutant: no checkStop before the spawn.
RunChildUnchecked(who, stages) ==
  /\ child' = [who |-> who, status |-> None] /\ Await("running", stages)

\* runChild: checkStop and spawn are one step; spawn may fail.
RunChild(who, stages) ==
  \/ Stop(stages)
  \/ signal = None /\ \E code \in {66, 69} : Quit(code, stages)
  \/ /\ signal = None
     /\ child' = [who |-> who, status |-> None]
     /\ Await("running", stages)

\* makeStage: a stage that cannot be made or resolved, or whose path holds ::,
\* ends the run; what was made of it is removed, as far as that can be done.
NoStage(stage) == Quit(73, {stage})

-----------------------------------------------------------------------------
(* The steps before anything is staged.                                    *)

\* main up to verifyPackage: usage (64), Deno (78), location (70), settings (78).
Start ==
  /\ pc = "start" /\ UNCHANGED run
  /\ \/ Fail({64, 70, 78})
     \/ mode = "version" /\ Exit(0)
     \/ mode # "version" /\ Await("verify", {}) /\ UNCHANGED child

\* verifyPackage: a stop is rethrown, any other error is 74.  Its last await
\* may end with a stop nobody looks at; the run then goes on to the probe.
Verify ==
  /\ pc = "verify" /\ UNCHANGED run
  /\ \/ Stop({})
     \/ Fail({74})
     \/ mode = "verify" /\ Exit(0)
     \/ mode # "verify" /\ Fail({69})
     \/ mode # "verify" /\ Await("probe", {}) /\ UNCHANGED child

-----------------------------------------------------------------------------
(* compiler: a write-protected copy of the workspace is the guest's root.  *)

\* stageWorkspace: with no workspace the root is empty and is protected at once.
StageWorkspace ==
  \/ Fail({64, 66})
  \/ NoStage("workspace")
  \/ Walk("survey", {"workspace"})
  \/ Walk("protect", {"workspace"})

\* The bounded walk, then copyTree's mkdir.
Survey ==
  /\ pc = "survey" /\ UNCHANGED run
  /\ Stop({}) \/ Fail({73}) \/ (Await("copy", {}) /\ UNCHANGED child)

\* copyTree looks for a stop before every entry; the warning walks again.
Copy ==
  /\ pc = "copy" /\ UNCHANGED run
  /\ Stop({}) \/ Fail({73}) \/ Walk("warn", {})

Warn ==
  /\ pc = "warn" /\ UNCHANGED run
  /\ Stop({}) \/ Walk("protect", {})

Protect ==
  /\ pc = "protect" /\ UNCHANGED <<mode, signal, meddled, dest>> /\ told' = FALSE
  /\ Stop({}) \/ Fail({73}) \/ RunChild("capnp", {})

-----------------------------------------------------------------------------
(* capnp and generate: the compiler runs on caller-relative paths.         *)

\* runCapnp: the bundled schemas are copied below the current directory when
\* they lie outside the caller's root; translatePaths may refuse the paths.
RunCapnp ==
  \/ Fail({1, 64})
  \/ RunChild("capnp", {})
  \/ NoStage("include")
  \/ Await("include", {"include"}) /\ UNCHANGED child

\* copyIncludes: its mkdir and its walk, which looks for a stop.  The caller
\* catches every error, a stop too, and ends with 73.
Include ==
  /\ pc = "include" /\ UNCHANGED run
  /\ \/ signal # None /\ raised' = pc /\ Finish(73, {})
     \/ Fail({73})
     \/ Await("schemas", {}) /\ UNCHANGED child

\* Its loop does not look for a stop; runChild does, once it is over.
CopySchemas ==
  /\ pc = "schemas" /\ UNCHANGED <<mode, signal, meddled, dest>> /\ told' = FALSE
  /\ Fail({64, 73}) \/ RunChild("capnp", {})

\* generate: the output directory is created, resolved and checked first.
Create ==
  /\ pc = "create" /\ UNCHANGED <<mode, signal, meddled, dest>> /\ told' = FALSE
  /\ Fail({64, 66, 73}) \/ RunCapnp

\* generator: checkModule, resolveRoot, the stage, the guest.
RunGenerator ==
  \/ Fail({64, 65, 66, 73})
  \/ NoStage("output")
  \/ RunChild("generator", {"output"})

\* resolveRuntime answered; main goes on with the mode.
Probe ==
  /\ pc = "probe" /\ UNCHANGED <<mode, signal, meddled, dest>> /\ told' = FALSE
  /\ \/ Fail({69, 78})
     \/ mode = "compiler" /\ StageWorkspace
     \/ mode = "generator" /\ RunGenerator
     \/ mode = "capnp" /\ RunCapnp
     \/ mode = "generate" /\ Fail({64, 65, 66})
     \/ mode = "generate" /\ Await("create", {}) /\ UNCHANGED child

-----------------------------------------------------------------------------
(* The child, and the launcher's return from it.                           *)

Running == child # None /\ child.status = None

\* A generator that exits 0 leaves one of the Shapes in its stage.
ChildExits ==
  /\ Running
  /\ \E status \in Statuses : child' = [child EXCEPT !.status = status]
  /\ IF child'.who = "generator" /\ child'.status = 0
     THEN staged' \in Shapes ELSE UNCHANGED staged
  /\ UNCHANGED <<run, pc, disk, cleanup, left, next, published, raised, exit>>

\* runChild's checkStop, then what the caller does with the status.
Return ==
  /\ pc = "running" /\ ~Running /\ UNCHANGED <<mode, signal, meddled, dest>> /\ told' = FALSE
  /\ \/ Stop({})
     \/ /\ signal = None
        /\ IF child.status # 0 \/ mode \notin Producing THEN Exit(child.status)
           ELSE IF child.who = "capnp" THEN NoStage("output") \/ RunChild("generator", {"output"})
           ELSE child' = None /\ Await("walk", {})

-----------------------------------------------------------------------------
(* publishOutput.                                                          *)

Symlinked(e) == \E a \in Ancestors[e] \cup {e} : dest[a] = "symlink"

Publishable(e) ==
  CASE staged[e] = "absent"    -> TRUE
    [] staged[e] = "directory" -> ~Symlinked(e) /\ dest[e] \in {"absent", "directory"}
    [] staged[e] = "file"      -> ~Symlinked(e) /\ dest[e] \in {"absent", "file"}
    [] OTHER                   -> FALSE

\* Mutant: the check pass stops at the first entry.
CheckPassFirst ==
  /\ pc = "walk" /\ UNCHANGED run
  /\ \/ Stop({}) \/ Fail({1})
     \/ ~Publishable(Entries[1]) /\ Fail({73})
     \/ Publishable(Entries[1]) /\ Await("move", {}) /\ UNCHANGED child

\* The walk of the stage (a plain error is 1), then the check pass over every
\* entry before anything moves.
CheckPass ==
  /\ pc = "walk" /\ UNCHANGED run
  /\ \/ Stop({})
     \/ Fail({1})
     \/ (\E e \in Items : ~Publishable(e)) /\ Fail({73})
     \/ (\A e \in Items : Publishable(e)) /\ Await("move", {}) /\ UNCHANGED child

\* Mutant: a part-way failure leaves the stage to the cleanup.
PublishFailDropped == Exit(73)

\* publishFail: the stage is kept, and everything else is cleaned up.
PublishFail ==
  /\ pc' = "done" /\ exit' = 73 /\ child' = None
  /\ disk' = disk \ (cleanup \ {"output"}) /\ cleanup' = {}
  /\ \E stuck \in SUBSET (cleanup \ {"output"}) : left' = left \cup stuck
  /\ UNCHANGED <<staged, next, published, raised>>

\* The symlink check right before each move; an existing directory is skipped,
\* one that nobody may write in any more too: the move below it fails.
MoveCheck ==
  /\ pc = "move" /\ next <= Len(Entries) /\ UNCHANGED run
  /\ LET e == Entries[next] IN
     IF \/ staged[e] = "absent"
        \/ staged[e] = "directory" /\ ~Symlinked(e) /\ dest[e] \in {"directory", "locked"}
     THEN next' = next + 1
          /\ UNCHANGED <<pc, child, disk, cleanup, left, staged, published, raised, exit>>
     ELSE IF Symlinked(e) THEN PublishFail
     ELSE Await("rename", {}) /\ UNCHANGED child

\* mkdir or rename: it takes place, or it fails and publication ends.
Move ==
  /\ pc = "rename" /\ UNCHANGED <<mode, signal, told, meddled>>
  /\ LET e == Entries[next] IN
     \/ PublishFail /\ UNCHANGED dest
     \/ /\ \A a \in Ancestors[e] : dest[a] \in {"directory", "symlink"}
        /\ dest[e] \in (IF staged[e] = "file" THEN {"absent", "file", "readonly", "symlink"}
                        ELSE {"absent"})
        /\ dest' = [dest EXCEPT ![e] = staged[e]]
        /\ staged' = [staged EXCEPT ![e] = IF @ = "file" THEN "absent" ELSE @]
        /\ published' = published \cup {e}
        /\ pc' = "move" /\ next' = next + 1
        /\ UNCHANGED <<child, disk, cleanup, left, raised, exit>>

\* The move pass is over: the status is the generator's 0.
Published ==
  /\ pc = "move" /\ next > Len(Entries) /\ UNCHANGED run /\ Exit(0)

-----------------------------------------------------------------------------
(* The environment.                                                        *)

\* Mutant: a signal is recorded and not passed on.
SignalKept(s) ==
  /\ pc \in Awaits /\ signal' = (IF signal = None THEN s ELSE signal)
  /\ UNCHANGED <<mode, told, meddled, dest, pc, child, disk, cleanup, left, staged,
                 next, published, raised, exit>>

\* A stop listener, run while the launcher is suspended: the first signal is the
\* one reported, each is forwarded.
Signal(s) ==
  /\ pc \in Awaits
  /\ signal' = IF signal = None THEN s ELSE signal
  /\ told' = (told \/ Running)
  /\ UNCHANGED <<mode, meddled, dest, pc, child, disk, cleanup, left, staged, next,
                 published, raised, exit>>

\* Another process changes the output.  The launcher first looks at it in the
\* check pass, so only changes from then on are separate steps.
Meddle(e, kind) ==
  /\ pc \in {"walk", "move", "rename"} /\ meddled < Meddling /\ kind # dest[e]
  /\ \A a \in Ancestors[e] : dest[a] \in {"directory", "locked", "symlink"}
  /\ dest' = [x \in Items |-> IF x = e THEN kind
                              ELSE IF e \in Ancestors[x] THEN "absent" ELSE dest[x]]
  /\ meddled' = meddled + 1
  /\ UNCHANGED <<mode, pc, signal, child, told, disk, cleanup, left, staged, next,
                 published, raised, exit>>

Step ==
  \/ Start \/ Verify \/ Probe \/ Survey \/ Copy \/ Warn \/ Protect \/ Include \/ CopySchemas
  \/ Create \/ Return \/ CheckPass \/ MoveCheck \/ Move \/ Published

Next ==
  \/ Step \/ ChildExits
  \/ \E s \in Signals : Signal(s)
  \/ \E e \in Items, kind \in Found : Meddle(e, kind)

Spec == Init /\ [][Next]_vars

\* The event loop resumes the launcher from every await (the version probe has
\* a timeout of its own); a child told to terminate does.  A child nobody told
\* to stop may run for ever: CAPNP_WASM_TIMEOUT may be 0, a plugin has none.
FairSpec ==
  /\ Spec /\ WF_vars(Step) /\ WF_vars(told /\ ChildExits)

-----------------------------------------------------------------------------
(* Properties.                                                             *)

Done == pc = "done"
Files(tree) == {e \in Items : tree[e] = "file"}

\* publishOutput's comment, lines 1204-1209: once the move pass has begun, a
\* file the generator wrote is either in the output directory or still in a
\* staging directory that nobody has tried to remove; a failure half-way loses
\* nothing.
NothingLost ==
  /\ pc \in {"move", "rename"} => "output" \in disk
  /\ Done /\ published # {} /\ Files(staged) # {} => "output" \in disk

\* The exit status tells what became of the output: 0 means every staged entry
\* was a file or a directory and every file was moved; a stop, a generator's
\* failure or a refused tree moved nothing.  A stage is kept exactly when a
\* publication ended part-way, which only 73 reports; the removal of every other
\* stage was tried, and may have failed under any status.
ExitTellsOutput ==
  Done =>
    /\ exit = 0 => \A e \in Items : staged[e] \in {"absent", "directory"}
    /\ exit \notin {0, 73} => published = {}
    /\ disk \subseteq {"output"}
    /\ disk # {} => exit = 73 /\ next <= Len(Entries)
    /\ published # {} /\ exit # 0 => disk # {}

\* A stop reaches every guest: no child of the launcher runs on without having
\* been sent SIGTERM once a signal was received.
StopReachesGuest == signal # None /\ Running => told

\* After a signal no guest and no native generator is started.
StartsChild ==
  child' # None /\ child'.status = None /\ (child = None \/ child.who # child'.who)
NoChildAfterStop == [][StartsChild => signal = None]_vars

\* A run that a stop ended says so (HELP, line 90, "128+N  the launcher was
\* stopped by signal N"), with one exception, a stop that the copy of the schemas
\* caught: 73.  A run that met no checkStop after the signal ended with a failure
\* of its own, or completed what it was at, the verification or the publication:
\* what a child returned is not its status.
StopTold ==
  Done /\ signal # None =>
    \/ raised # None /\ exit = IF raised = "include" THEN 73 ELSE signal
    \/ raised = None /\ exit \in Failures
    \/ raised = None /\ exit = 0 /\ (mode = "verify" \/ next > Len(Entries))

\* What a stop signal does at whichever await it arrives: the child that runs is
\* told, no other is started, and the status is the stop's.
StopHonoured ==
  [][StopReachesGuest' /\ StopTold' /\ (StartsChild => signal = None)]_vars

\* A signal ends the launcher, whatever it was doing.
StopEnds == signal # None ~> Done
=============================================================================
