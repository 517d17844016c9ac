--------------------------- MODULE LauncherProofs ---------------------------
(***************************************************************************)
(* Theorems about the launcher: about its run (Launcher), for any modes,   *)
(* entries, staged trees, signals and meddling; and about two of the       *)
(* functions under Algorithms: the paths of a command line                 *)
(* (LauncherPaths), for any line and any directory, and the record that a  *)
(* stable release rests on (Nightly), for any history and any ledger       *)
(* committed.                                                              *)
(***************************************************************************)
EXTENDS Launcher, AlgorithmsProofs

------------------------------------------------------------------------------
\* The invariant.  Until the launcher is done, what it will clean up is what
\* exists; a child is only there while the launcher waits for it.
Owned == pc # "done" => cleanup = disk
Waited ==
  /\ child # None => pc = "running"
  /\ pc = "running" => child \in Children

\* From the generator's start to the end of the move pass its stage exists.
StageHeld ==
  pc \in {"walk", "move", "rename"} \/ (pc = "running" /\ child.who = "generator")
    => "output" \in disk /\ mode \in Producing

\* Nothing is staged before a generator has succeeded, or moved before the
\* check pass has succeeded.
Unstaged ==
  \/ staged = Bare
  \/ pc \in {"walk", "move", "rename", "done"}
  \/ pc = "running" /\ child.who = "generator" /\ child.status = 0
Unmoved == pc \notin {"move", "rename", "done"} => published = {} /\ next = 1

\* The move pass has dealt with the entries before next.
Dealt ==
  pc \in {"move", "rename"} =>
    /\ \A e \in Items : staged[e] \in {"absent", "directory", "file"}
    /\ \A i \in 1..(next - 1) : staged[Entries[i]] # "file"
    /\ pc = "rename" => next <= Len(Entries)

IInv ==
  /\ TypeOK /\ Owned /\ Waited /\ StageHeld /\ Unstaged /\ Unmoved /\ Dealt
  /\ NothingLost /\ ExitTellsOutput /\ StopReachesGuest

LEMMA EntryOf == \A i \in 1..Len(Entries) : Entries[i] \in Items
BY LauncherAssumption DEF Items

LEMMA ItemAt == \A e \in Items : \E i \in 1..Len(Entries) : Entries[i] = e
BY LauncherAssumption DEF Items

LEMMA InitInv == Init => IInv
<1> SUFFICES ASSUME Init PROVE IInv
    OBVIOUS
<1>0. Len(Entries) \in Nat BY LauncherAssumption, LenProperties
<1>1. 1 \in 1..(Len(Entries) + 1) BY <1>0
<1>3. Bare \in [Items -> Kinds] /\ Bare \in [Items -> Found]
  BY DEF Bare, Kinds, Found
<1>4. 0 \in 0..Meddling BY LauncherAssumption
<1>2. TypeOK BY <1>1, <1>3, <1>4 DEF Init, TypeOK
<1> QED
  BY <1>2 DEF Init, IInv, Owned, Waited, StageHeld, Unstaged, Unmoved, Dealt, NothingLost,
     ExitTellsOutput, StopReachesGuest, Done, Running

------------------------------------------------------------------------------
\* How a step ends, whatever began it.  Before the move pass an error or a stop
\* ends the launcher with a status that says so.
LEMMA Finishes ==
  ASSUME IInv, NEW code, NEW made \in SUBSET Stages, Finish(code, made),
         UNCHANGED <<mode, signal, dest, meddled>>,
         told' \in BOOLEAN, raised' \in Awaits \cup {None},
         code \in (Statuses \cup Failures \cup Signals) \ {0},
         pc \notin {"move", "rename", "done"}
  PROVE  IInv'
<1>1. TypeOK' BY DEF IInv, TypeOK, Finish
<1>2. NothingLost' /\ ExitTellsOutput'
  BY DEF IInv, Finish, Owned, Unmoved, NothingLost, ExitTellsOutput, Done
<1> QED
  BY <1>1, <1>2 DEF IInv, Finish, Owned, Waited, StageHeld, Unstaged, Unmoved, Dealt,
     StopReachesGuest, Running

\* With nothing staged, success may be reported too.
LEMMA Succeeds ==
  ASSUME IInv, Exit(0), UNCHANGED run, staged = Bare,
         pc \notin {"move", "rename", "done"}
  PROVE  IInv'
<1>1. TypeOK' BY DEF IInv, TypeOK, Exit, Quit, Finish, run, Statuses
<1>2. NothingLost' /\ ExitTellsOutput'
  BY DEF IInv, Exit, Quit, Finish, Owned, Unmoved, NothingLost, ExitTellsOutput, Done, Bare
<1> QED
  BY <1>1, <1>2 DEF IInv, Exit, Quit, Finish, Owned, Waited, StageHeld, Unstaged, Unmoved, Dealt,
     StopReachesGuest, Running

Early == {"verify", "probe", "survey", "copy", "warn", "protect", "create",
          "include", "schemas"}

\* The launcher goes on to another await before the generator has run.
LEMMA Suspends ==
  ASSUME IInv, NEW p \in Early, NEW stages \in SUBSET Stages, Await(p, stages),
         UNCHANGED <<mode, signal, dest, meddled, child>>, told' \in BOOLEAN,
         pc \in Early \cup {"start"}
  PROVE  IInv'
<1>1. TypeOK' BY DEF IInv, TypeOK, Await, Early, Awaits
<1>2. child = None /\ staged = Bare BY DEF IInv, Waited, Unstaged, Early
<1> QED
  BY <1>1, <1>2 DEF IInv, Await, Owned, Waited, StageHeld, Unstaged, Unmoved, Dealt,
     NothingLost, ExitTellsOutput, StopReachesGuest, Running, Done, Early

\* A child is spawned: no signal has come, and the generator has its stage.
LEMMA Spawns ==
  ASSUME IInv, NEW who \in {"capnp", "generator"}, NEW stages \in SUBSET Stages,
         child' = [who |-> who, status |-> None], Await("running", stages), signal = None,
         UNCHANGED <<mode, signal, dest, meddled>>, told' \in BOOLEAN,
         pc \in Early \cup {"running"}, staged = Bare,
         who = "generator" => mode \in Producing /\ stages = {"output"}
  PROVE  IInv'
<1>1. child' \in Children BY DEF Children
<1>2. TypeOK' BY <1>1 DEF IInv, TypeOK, Await, Awaits
<1> QED
  BY <1>1, <1>2 DEF IInv, Await, Owned, Waited, StageHeld, Unstaged, Unmoved, Dealt,
     NothingLost, ExitTellsOutput, StopReachesGuest, Running, Done, Early

LEMMA Codes ==
  /\ Failures \subseteq (Statuses \cup Failures \cup Signals) \ {0}
  /\ Signals \subseteq (Statuses \cup Failures \cup Signals) \ {0}
BY LauncherAssumption DEF Failures, Statuses

\* The three ways a step before the generator's return may end.
LEMMA EarlyEnds ==
  ASSUME IInv, UNCHANGED <<mode, signal, dest, meddled>>, told' \in BOOLEAN,
         pc \in Early \cup {"start", "running", "walk"}, NEW made \in SUBSET Stages,
         (Stop(made) /\ pc # "start") \/ \E code \in Failures : Quit(code, made)
  PROVE  IInv'
<1>1. pc \notin {"move", "rename", "done"} BY DEF Early
<1>2. CASE Stop(made) /\ pc # "start"
  <2>1. signal \in (Statuses \cup Failures \cup Signals) \ {0}
    BY <1>2, Codes DEF Stop, IInv, TypeOK
  <2>2. raised' \in Awaits \cup {None} BY <1>2 DEF Stop, Early, Awaits
  <2> QED BY <1>1, <1>2, <2>1, <2>2, Finishes DEF Stop
<1>3. ASSUME NEW code \in Failures, Quit(code, made) PROVE IInv'
  BY <1>1, <1>3, Finishes, Codes DEF Quit, IInv, TypeOK
<1> QED BY <1>2, <1>3

LEMMA EarlyFails ==
  ASSUME IInv, UNCHANGED <<mode, signal, dest, meddled>>, told' \in BOOLEAN,
         pc \in Early \cup {"start", "running", "walk"},
         NEW codes \in SUBSET Failures, Fail(codes)
  PROVE  IInv'
<1>1. PICK code \in codes : Quit(code, {}) BY DEF Fail, Exit
<1> QED BY <1>1, EarlyEnds

LEMMA EarlyRuns ==
  ASSUME IInv, UNCHANGED <<mode, signal, dest, meddled>>, told' \in BOOLEAN,
         NEW who \in {"capnp", "generator"}, NEW stages \in SUBSET Stages,
         RunChild(who, stages), pc \in Early \cup {"running"}, staged = Bare,
         who = "generator" => mode \in Producing /\ stages = {"output"}
  PROVE  IInv'
<1>1. CASE Stop(stages) BY <1>1, EarlyEnds DEF Early
<1>2. CASE \E code \in {66, 69} : Quit(code, stages)
  BY <1>2, EarlyEnds DEF Failures
<1>3. CASE signal = None /\ child' = [who |-> who, status |-> None] /\ Await("running", stages)
  BY <1>3, Spawns
<1> QED BY <1>1, <1>2, <1>3 DEF RunChild

LEMMA EarlyWalks ==
  ASSUME IInv, UNCHANGED <<mode, signal, dest, meddled>>, told' \in BOOLEAN,
         NEW p \in Early, NEW stages \in SUBSET Stages, Walk(p, stages), pc \in Early
  PROVE  IInv'
<1>1. CASE Stop(stages) BY <1>1, EarlyEnds DEF Early
<1>2. CASE Await(p, stages) /\ UNCHANGED child BY <1>2, Suspends
<1> QED BY <1>1, <1>2 DEF Walk

LEMMA EarlyStages ==
  ASSUME IInv, UNCHANGED <<mode, signal, dest, meddled>>, told' \in BOOLEAN,
         pc \in Early \cup {"running"}, NEW stage \in Stages, NoStage(stage)
  PROVE  IInv'
BY EarlyEnds DEF NoStage, Failures

------------------------------------------------------------------------------
\* One lemma per part of the launcher.

LEMMA BeginStep == ASSUME IInv, Start \/ Verify PROVE IInv'
<1>1. /\ UNCHANGED <<mode, signal, dest, meddled, told>> /\ told' \in BOOLEAN
      /\ pc \in {"start", "verify"}
  BY DEF Start, Verify, run, IInv, TypeOK
<1>2. staged = Bare /\ pc \in Early \cup {"start"} BY <1>1 DEF IInv, Waited, Unstaged, Early
<1>3. CASE Stop({}) /\ pc = "verify" BY <1>1, <1>2, <1>3, EarlyEnds
<1>4. CASE Fail({64, 70, 78}) \/ Fail({74}) \/ Fail({69})
  BY <1>1, <1>2, <1>4, EarlyFails DEF Failures
<1>5. CASE Exit(0) BY <1>1, <1>2, <1>5, Succeeds DEF run, Early
<1>6. CASE (Await("verify", {}) \/ Await("probe", {})) /\ UNCHANGED child
  BY <1>1, <1>2, <1>6, Suspends DEF Early
<1> QED BY <1>3, <1>4, <1>5, <1>6 DEF Start, Verify

LEMMA EarlyFacts ==
  ASSUME IInv, pc \in Early
  PROVE  child = None /\ staged = Bare /\ pc \notin {"move", "rename", "done"}
BY DEF IInv, Waited, Unstaged, Early

LEMMA CompilerStep ==
  ASSUME IInv, Survey \/ Copy \/ Warn \/ Protect
  PROVE  IInv'
<1>1. UNCHANGED <<mode, signal, dest, meddled>> /\ told' \in BOOLEAN /\ pc \in Early
  BY DEF Survey, Copy, Warn, Protect, run, IInv, TypeOK, Early
<1>3. CASE Stop({}) BY <1>1, <1>3, EarlyEnds DEF Early
<1>4. CASE Fail({73}) BY <1>1, <1>4, EarlyFails DEF Early, Failures
<1>5. CASE Await("copy", {}) /\ UNCHANGED child BY <1>1, <1>5, Suspends DEF Early
<1>6. CASE Walk("warn", {}) \/ Walk("protect", {}) BY <1>1, <1>6, EarlyWalks DEF Early
<1>7. CASE RunChild("capnp", {}) BY <1>1, <1>7, EarlyRuns, EarlyFacts
<1> QED BY <1>3, <1>4, <1>5, <1>6, <1>7 DEF Survey, Copy, Warn, Protect

LEMMA CapnpRuns ==
  ASSUME IInv, UNCHANGED <<mode, signal, dest, meddled>>, told' \in BOOLEAN, pc \in Early,
         RunCapnp
  PROVE  IInv'
<1>1. CASE Fail({1, 64}) BY <1>1, EarlyFails DEF Early, Failures
<1>2. CASE RunChild("capnp", {}) BY <1>2, EarlyRuns, EarlyFacts
<1>3. CASE NoStage("include") BY <1>3, EarlyStages DEF Stages
<1>4. CASE Await("include", {"include"}) /\ UNCHANGED child
  BY <1>4, Suspends DEF Early, Stages
<1> QED BY <1>1, <1>2, <1>3, <1>4 DEF RunCapnp

LEMMA CapnpStep == ASSUME IInv, Include \/ CopySchemas \/ Create PROVE IInv'
<1>1. UNCHANGED <<mode, signal, dest, meddled>> /\ told' \in BOOLEAN /\ pc \in Early
  BY DEF Include, CopySchemas, Create, Early, run, IInv, TypeOK
<1>2. CASE pc = "include" /\ raised' = pc /\ Finish(73, {})
  BY <1>1, <1>2, Finishes, Codes DEF Failures, Awaits
<1>3. CASE Fail({73}) \/ Fail({64, 73}) \/ Fail({64, 66, 73})
  BY <1>1, <1>3, EarlyFails DEF Early, Failures
<1>4. CASE RunChild("capnp", {}) BY <1>1, <1>4, EarlyRuns, EarlyFacts
<1>5. CASE RunCapnp BY <1>1, <1>5, CapnpRuns
<1>6. CASE Await("schemas", {}) /\ UNCHANGED child BY <1>1, <1>6, Suspends DEF Early
<1> QED BY <1>2, <1>3, <1>4, <1>5, <1>6 DEF Include, CopySchemas, Create

LEMMA ProbeStep == ASSUME IInv, Probe PROVE IInv'
<1>1. UNCHANGED <<mode, signal, dest, meddled>> /\ told' \in BOOLEAN /\ pc \in Early
  BY DEF Probe, Early
<1>2. CASE Fail({69, 78}) \/ Fail({64, 65, 66}) \/ Fail({64, 66}) \/ Fail({64, 65, 66, 73})
  BY <1>1, <1>2, EarlyFails DEF Early, Failures
<1>3. CASE \E stage \in Stages : NoStage(stage) BY <1>1, <1>3, EarlyStages
<1>4. CASE Walk("survey", {"workspace"}) \/ Walk("protect", {"workspace"})
  BY <1>1, <1>4, EarlyWalks DEF Early, Stages
<1>5. CASE mode = "generator" /\ RunChild("generator", {"output"})
  BY <1>1, <1>5, EarlyRuns, EarlyFacts DEF Producing, Stages
<1>6. CASE RunCapnp BY <1>1, <1>6, CapnpRuns
<1>7. CASE Await("create", {}) /\ UNCHANGED child BY <1>1, <1>7, Suspends DEF Early
<1> QED
  BY <1>2, <1>3, <1>4, <1>5, <1>6, <1>7 DEF Probe, StageWorkspace, RunGenerator, Stages

\* A child's exit changes what is staged only when a generator has succeeded.
LEMMA ExitStep == ASSUME IInv, ChildExits PROVE IInv'
<1>1. PICK status \in Statuses : child' = [child EXCEPT !.status = status]
  BY DEF ChildExits
<1>2. child # None /\ pc = "running" /\ child \in Children
          /\ child.status = None
  BY DEF ChildExits, Running, IInv, Waited, TypeOK
<1>3. child' \in Children /\ child'.who = child.who /\ child'.status \in Statuses
  BY <1>1, <1>2 DEF Children
<1>4. staged' \in [Items -> Kinds]
  BY LauncherAssumption DEF ChildExits, IInv, TypeOK
<1>5. TypeOK' BY <1>3, <1>4 DEF ChildExits, run, IInv, TypeOK
<1>6. None \notin Statuses BY LauncherAssumption DEF Statuses
<1>7. StopReachesGuest' BY <1>3, <1>6 DEF StopReachesGuest, Running
<1>8. Unstaged'
  <2>1. staged = Bare BY <1>2, LauncherAssumption DEF IInv, Unstaged
  <2> QED BY <1>2, <1>3, <2>1 DEF ChildExits, Unstaged, Bare
<1>9. StageHeld' /\ Owned' /\ Waited' /\ Unmoved' /\ Dealt'
  BY <1>1, <1>2, <1>3 DEF ChildExits, run, IInv, StageHeld, Owned, Waited, Unmoved, Dealt
<1>10. NothingLost' /\ ExitTellsOutput'
  BY <1>2 DEF ChildExits, NothingLost, ExitTellsOutput, Done
<1> QED BY <1>5, <1>7, <1>8, <1>9, <1>10 DEF IInv

\* The child is gone: the next one starts, its output is published, or its
\* status is the launcher's.
LEMMA ReturnStep == ASSUME IInv, Return PROVE IInv'
<1>1. UNCHANGED <<mode, signal, dest, meddled>> /\ told' \in BOOLEAN /\ pc = "running"
  BY DEF Return
<1>2. child \in [who : {"capnp", "generator"}, status : Statuses]
  BY <1>1, LauncherAssumption DEF Return, Running, IInv, Waited, Children
<1>3. CASE Stop({}) BY <1>1, <1>3, EarlyEnds
<1>4. CASE child.status # 0 /\ Exit(child.status)
  BY <1>1, <1>2, <1>4, Finishes DEF Exit, Quit, IInv, TypeOK
<1>5. CASE child.status = 0 /\ mode \notin Producing /\ Exit(child.status)
  <2>1. staged = Bare BY <1>1, <1>2, <1>5 DEF IInv, Unstaged, StageHeld
  <2>2. TypeOK' BY <1>1, <1>5 DEF IInv, TypeOK, Exit, Quit, Finish, Statuses
  <2>3. NothingLost' /\ ExitTellsOutput'
    BY <1>1, <1>5, <2>1
       DEF IInv, Exit, Quit, Finish, Owned, Unmoved, NothingLost, ExitTellsOutput, Done, Bare
  <2> QED
    BY <1>1, <1>5, <2>2, <2>3
       DEF IInv, Exit, Quit, Finish, Owned, Waited, StageHeld, Unstaged, Unmoved, Dealt,
           StopReachesGuest, Running
<1>6. CASE mode \in Producing /\ child.who = "capnp" /\ NoStage("output")
  BY <1>1, <1>6, EarlyStages DEF Stages
<1>7. CASE mode \in Producing /\ child.who = "capnp" /\ RunChild("generator", {"output"})
  <2>1. staged = Bare BY <1>1, <1>2, <1>7 DEF IInv, Unstaged
  <2> QED BY <1>1, <1>7, <2>1, EarlyRuns DEF Stages
<1>8. CASE mode \in Producing /\ child.who # "capnp" /\ child' = None /\ Await("walk", {})
  <2>1. "output" \in disk BY <1>1, <1>2, <1>8 DEF IInv, StageHeld
  <2>2. TypeOK' BY <1>1, <1>8 DEF IInv, TypeOK, Await, Awaits
  <2> QED
    BY <1>1, <1>8, <2>1, <2>2
       DEF IInv, Await, Owned, Waited, StageHeld, Unstaged, Unmoved, Dealt, NothingLost,
           ExitTellsOutput, StopReachesGuest, Running, Done
<1> QED BY <1>1, <1>2, <1>3, <1>4, <1>5, <1>6, <1>7, <1>8 DEF Return, Exit

\* The check pass lets nothing but files and directories through.
LEMMA CheckStep == ASSUME IInv, CheckPass PROVE IInv'
<1>1. UNCHANGED <<mode, signal, dest, meddled, told>> /\ told' \in BOOLEAN /\ pc = "walk"
  BY DEF CheckPass, run, IInv, TypeOK
<1>2. CASE Stop({}) \/ Fail({1}) \/ Fail({73})
  BY <1>1, <1>2, EarlyEnds, EarlyFails DEF Failures
<1>3. CASE (\A e \in Items : Publishable(e)) /\ Await("move", {}) /\ UNCHANGED child
  <2>1. \A e \in Items : staged[e] \in {"absent", "directory", "file"}
    BY <1>3 DEF Publishable, IInv, TypeOK, Kinds
  <2>2. next = 1 BY <1>1 DEF IInv, Unmoved
  <2>3. child = None BY <1>1 DEF IInv, Waited
  <2>4. TypeOK' BY <1>1, <1>3 DEF IInv, TypeOK, Await, Awaits
  <2>5. Dealt' BY <1>3, <2>1, <2>2 DEF Await, Dealt
  <2> QED
    BY <1>1, <1>3, <2>3, <2>4, <2>5
       DEF IInv, Await, Owned, Waited, StageHeld, Unstaged, Unmoved, NothingLost,
           ExitTellsOutput, StopReachesGuest, Running, Done
<1> QED BY <1>2, <1>3 DEF CheckPass

\* A failure half-way keeps the stage and removes the rest.
LEMMA PublishFails ==
  ASSUME IInv, PublishFail, UNCHANGED <<mode, signal, told, dest, meddled>>,
         pc \in {"move", "rename"}, next <= Len(Entries)
  PROVE  IInv'
<1>1. TypeOK' BY DEF IInv, TypeOK, PublishFail, Failures
<1>2. NothingLost' /\ ExitTellsOutput'
  BY DEF IInv, PublishFail, Owned, StageHeld, NothingLost, ExitTellsOutput, Done
<1> QED
  BY <1>1, <1>2 DEF IInv, PublishFail, Owned, Waited, StageHeld, Unstaged, Unmoved, Dealt,
     StopReachesGuest, Running

LEMMA MoveCheckStep == ASSUME IInv, MoveCheck PROVE IInv'
<1>1. UNCHANGED <<mode, signal, dest, meddled, told>> /\ pc = "move" /\ next <= Len(Entries)
  BY DEF MoveCheck, run
<1>2. Len(Entries) \in Nat /\ next \in 1..(Len(Entries) + 1)
  BY LauncherAssumption, LenProperties DEF IInv, TypeOK
<1>3. CASE /\ staged[Entries[next]] \in {"absent", "directory"} /\ next' = next + 1
           /\ UNCHANGED <<pc, child, disk, cleanup, left, staged, published, raised, exit>>
  <2>1. TypeOK' BY <1>1, <1>2, <1>3 DEF IInv, TypeOK
  <2>2. Dealt'
    <3>1. \A i \in 1..(next' - 1) : i \in 1..(next - 1) \/ i = next BY <1>2, <1>3
    <3> QED BY <1>1, <1>3, <3>1 DEF IInv, Dealt
  <2> QED
    BY <1>1, <1>3, <2>1, <2>2
       DEF IInv, Owned, Waited, StageHeld, Unstaged, Unmoved, NothingLost,
           ExitTellsOutput, StopReachesGuest, Running, Done
<1>4. CASE PublishFail BY <1>1, <1>4, PublishFails
<1>5. CASE Await("rename", {}) /\ UNCHANGED child
  <2>1. TypeOK' BY <1>1, <1>5 DEF IInv, TypeOK, Await, Awaits
  <2>2. Dealt' BY <1>1, <1>5 DEF IInv, Dealt, Await
  <2> QED
    BY <1>1, <1>5, <2>1, <2>2
       DEF IInv, Await, Owned, Waited, StageHeld, Unstaged, Unmoved, NothingLost,
           ExitTellsOutput, StopReachesGuest, Running, Done
<1> QED BY <1>3, <1>4, <1>5 DEF MoveCheck

LEMMA MoveStep == ASSUME IInv, Move PROVE IInv'
<1>1. UNCHANGED <<mode, signal, told, meddled>> /\ pc = "rename"
  BY DEF Move
<1>2. /\ Len(Entries) \in Nat /\ next \in 1..(Len(Entries) + 1) /\ next <= Len(Entries)
      /\ Entries[next] \in Items
  BY <1>1, EntryOf, LauncherAssumption, LenProperties DEF IInv, TypeOK, Dealt
<1>3. CASE PublishFail /\ UNCHANGED dest BY <1>1, <1>2, <1>3, PublishFails
<1>4. CASE /\ dest' = [dest EXCEPT ![Entries[next]] = staged[Entries[next]]]
           /\ staged' = [staged EXCEPT ![Entries[next]] = IF @ = "file" THEN "absent" ELSE @]
           /\ published' = published \cup {Entries[next]}
           /\ pc' = "move" /\ next' = next + 1
           /\ UNCHANGED <<child, disk, cleanup, left, raised, exit>>
  <2>1. staged[Entries[next]] \in {"absent", "directory", "file"}
    BY <1>1, <1>2 DEF IInv, Dealt
  <2>2. TypeOK' BY <1>1, <1>2, <1>4, <2>1 DEF IInv, TypeOK, Found, Kinds, Awaits
  <2>3. Dealt' BY <1>1, <1>2, <1>4, <2>1 DEF IInv, TypeOK, Dealt
  <2> QED
    BY <1>1, <1>4, <2>2, <2>3
       DEF IInv, Owned, Waited, StageHeld, Unstaged, Unmoved, NothingLost,
           ExitTellsOutput, StopReachesGuest, Running, Done
<1> QED BY <1>3, <1>4 DEF Move

\* The move pass is over: no file is left behind.
LEMMA PublishedStep == ASSUME IInv, Published PROVE IInv'
<1>1. UNCHANGED <<mode, signal, dest, meddled, told>> /\ pc = "move" /\ next > Len(Entries)
      /\ Exit(0)
  BY DEF Published, run
<1>2. Len(Entries) \in Nat /\ next = Len(Entries) + 1
  BY <1>1, LauncherAssumption, LenProperties DEF IInv, TypeOK
<1>3. \A e \in Items : staged[e] \in {"absent", "directory"}
  BY <1>1, <1>2, ItemAt DEF IInv, Dealt
<1>4. TypeOK' BY <1>1 DEF IInv, TypeOK, Exit, Quit, Finish, Statuses
<1>5. NothingLost' /\ ExitTellsOutput'
  BY <1>1, <1>3 DEF IInv, Exit, Quit, Finish, Owned, NothingLost, ExitTellsOutput, Done, Files
<1> QED
  BY <1>1, <1>4, <1>5 DEF IInv, Exit, Quit, Finish, Owned, Waited, StageHeld, Unstaged, Unmoved,
     Dealt, StopReachesGuest, Running

\* Signals and other processes leave what the launcher owns alone.
LEMMA OutsideStep ==
  ASSUME IInv, \/ \E s \in Signals : Signal(s)
               \/ \E e \in Items, kind \in Found : Meddle(e, kind)
  PROVE  IInv'
<1>1. ASSUME NEW s \in Signals, Signal(s) PROVE IInv'
  <2>1. TypeOK' BY <1>1 DEF Signal, IInv, TypeOK
  <2> QED
    BY <1>1, <2>1
       DEF Signal, IInv, Owned, Waited, StageHeld, Unstaged, Unmoved, Dealt, NothingLost,
           ExitTellsOutput, StopReachesGuest, Running, Done
<1>2. ASSUME NEW e \in Items, NEW kind \in Found, Meddle(e, kind) PROVE IInv'
  <2>1. TypeOK' BY <1>2, LauncherAssumption DEF Meddle, IInv, TypeOK, Found
  <2> QED
    BY <1>2, <2>1
       DEF Meddle, IInv, Owned, Waited, StageHeld, Unstaged, Unmoved, Dealt, NothingLost,
           ExitTellsOutput, StopReachesGuest, Running, Done
<1> QED BY <1>1, <1>2

LEMMA NextInv == IInv /\ [Next]_vars => IInv'
<1> SUFFICES ASSUME IInv, [Next]_vars PROVE IInv'
    OBVIOUS
<1>1. CASE Next
  BY <1>1, BeginStep, CompilerStep, CapnpStep, ProbeStep, ExitStep, ReturnStep, CheckStep,
     MoveCheckStep, MoveStep, PublishedStep, OutsideStep DEF Next, Step
<1>2. CASE UNCHANGED vars
  BY <1>2 DEF vars, IInv, TypeOK, Owned, Waited, StageHeld, Unstaged, Unmoved, Dealt,
     NothingLost, ExitTellsOutput, StopReachesGuest, Running, Done
<1> QED BY <1>1, <1>2

LEMMA Invariant == Spec => []IInv
BY InitInv, NextInv, PTL DEF Spec

------------------------------------------------------------------------------
\* The theorems.

\* The variables keep their types.
THEOREM TypesAreKept == Spec => []TypeOK
<1>1. IInv => TypeOK BY DEF IInv
<1> QED BY Invariant, <1>1, PTL

\* What a generator wrote is published or kept, for any staged tree, any
\* interference with the output and a failure at any entry.
THEOREM NoOutputIsLost == Spec => []NothingLost
<1>1. IInv => NothingLost BY DEF IInv
<1> QED BY Invariant, <1>1, PTL

\* The exit status tells what became of the output.
THEOREM StatusesAreHonest == Spec => []ExitTellsOutput
<1>1. IInv => ExitTellsOutput BY DEF IInv
<1> QED BY Invariant, <1>1, PTL

\* A child that is running when a signal arrives is told.
THEOREM StopsReachGuests == Spec => []StopReachesGuest
<1>1. IInv => StopReachesGuest BY DEF IInv
<1> QED BY Invariant, <1>1, PTL

\* No step starts a child after a signal: the checkStop in runChild and the
\* spawn are one step, and the listener is the only other thing that runs.
THEOREM NothingStartsAfterStop == Spec => NoChildAfterStop
<1>1. ASSUME TypeOK, [Next]_vars, StartsChild PROVE signal = None
  <2> USE DEF StartsChild
  <2> USE DEF Exit, Fail, Quit, Finish, NoStage, Stop, Await, Walk, RunChild
  <2>1. CASE Start \/ Verify \/ Survey \/ Copy \/ Warn
    BY <1>1, <2>1 DEF Start, Verify, Survey, Copy, Warn
  <2>2. CASE Protect \/ Include \/ CopySchemas \/ Create
    BY <1>1, <2>2 DEF Protect, Include, CopySchemas, Create, RunCapnp
  <2>3. CASE Probe BY <1>1, <2>3 DEF Probe, StageWorkspace, RunGenerator, RunCapnp
  <2>4. CASE Return BY <1>1, <2>4 DEF Return
  <2>5. CASE CheckPass \/ MoveCheck \/ Move \/ Published
    BY <1>1, <2>5 DEF CheckPass, MoveCheck, Move, Published, PublishFail
  <2>6. CASE ChildExits
    <3>1. child \in Children BY <1>1, <2>6 DEF ChildExits, Running, TypeOK
    <3>2. child'.who = child.who BY <2>6, <3>1 DEF ChildExits, Children
    <3> QED BY <1>1, <2>6, <3>2 DEF ChildExits, Running
  <2>7. CASE \/ \E s \in Signals : Signal(s)
             \/ \E e \in Items, kind \in Found : Meddle(e, kind)
    BY <1>1, <2>7 DEF Signal, Meddle
  <2>8. CASE UNCHANGED vars BY <1>1, <2>8 DEF vars
  <2> QED BY <1>1, <2>1, <2>2, <2>3, <2>4, <2>5, <2>6, <2>7, <2>8 DEF Next, Step
<1>2. TypeOK /\ [Next]_vars => [StartsChild => signal = None]_vars BY <1>1
<1> QED BY TypesAreKept, <1>2, PTL DEF Spec, NoChildAfterStop

\* Whatever was caught on the way, a run that a stop ended reports its signal, or
\* 73 from the walk of the schemas; only three steps report success.
StopEndsIt ==
  /\ pc = "start" => signal = None
  /\ raised # None =>
       Done /\ signal # None /\ exit = IF raised = "include" THEN 73 ELSE signal
  /\ Done /\ signal # None /\ raised = None =>
       exit \in Failures \/ (exit = 0 /\ (mode = "verify" \/ next > Len(Entries)))

\* The ways a step before the end may go, for the status of a stopped run.
LEMMA StopCases ==
  ASSUME StopEndsIt, pc \in Awaits \cup {"start"}, UNCHANGED <<mode, signal>>
  PROVE  /\ raised = None
         /\ \A made : pc # "include" /\ Stop(made) => StopEndsIt'
         /\ \A code \in Failures : \A made : Quit(code, made) => StopEndsIt'
         /\ \A codes \in SUBSET Failures : Fail(codes) => StopEndsIt'
         /\ \A stage : NoStage(stage) => StopEndsIt'
         /\ \A p \in Awaits : \A stages : Await(p, stages) => StopEndsIt'
         /\ \A p \in Awaits : \A stages : pc # "include" /\ Walk(p, stages) => StopEndsIt'
         /\ \A who, stages : pc # "include" /\ RunChild(who, stages) => StopEndsIt'
<1>0. raised = None BY DEF StopEndsIt, Done, Awaits
<1>1. ASSUME NEW made, pc # "include", Stop(made) PROVE StopEndsIt'
  BY <1>1, LauncherAssumption DEF Stop, Finish, StopEndsIt, Done
<1>2. ASSUME NEW code \in Failures, NEW made, Quit(code, made) PROVE StopEndsIt'
  <2>1. pc' = "done" /\ exit' \in Failures /\ raised' = None
    BY <1>0, <1>2 DEF Quit, Finish
  <2> QED BY <2>1 DEF StopEndsIt, Done
<1>3. ASSUME NEW codes \in SUBSET Failures, Fail(codes) PROVE StopEndsIt'
  BY <1>2, <1>3 DEF Fail, Exit
<1>4. ASSUME NEW stage, NoStage(stage) PROVE StopEndsIt'
  BY <1>2, <1>4 DEF NoStage, Failures
<1>5. ASSUME NEW p \in Awaits, NEW stages, Await(p, stages) PROVE StopEndsIt'
  BY <1>0, <1>5 DEF Await, StopEndsIt, Done, Awaits
<1>6. ASSUME NEW p \in Awaits, NEW stages, pc # "include", Walk(p, stages) PROVE StopEndsIt'
  BY <1>1, <1>5, <1>6 DEF Walk
<1>7. ASSUME NEW who, NEW stages, pc # "include", RunChild(who, stages) PROVE StopEndsIt'
  <2>1. \A code \in {66, 69} : code \in Failures BY DEF Failures
  <2> QED BY <1>1, <1>2, <1>5, <1>7, <2>1 DEF RunChild, Awaits
<1> QED BY <1>0, <1>1, <1>2, <1>3, <1>4, <1>5, <1>6, <1>7

LEMMA StopStep == StopEndsIt /\ [Next]_vars => StopEndsIt'
<1> SUFFICES ASSUME StopEndsIt, [Next]_vars PROVE StopEndsIt'
    OBVIOUS
<1>0. /\ {1} \subseteq Failures /\ {64} \subseteq Failures /\ {69} \subseteq Failures
      /\ {73} \subseteq Failures /\ {74} \subseteq Failures /\ {1, 64} \subseteq Failures
      /\ {64, 66} \subseteq Failures /\ {69, 78} \subseteq Failures
      /\ {64, 73} \subseteq Failures /\ {64, 66, 73} \subseteq Failures
      /\ {64, 70, 78} \subseteq Failures /\ {64, 65, 66} \subseteq Failures
      /\ {64, 65, 66, 73} \subseteq Failures
  BY DEF Failures
<1>w. /\ {"verify", "probe", "survey", "copy", "warn", "protect", "create"} \subseteq Awaits
      /\ {"include", "schemas", "running", "walk", "move", "rename"} \subseteq Awaits
  BY DEF Awaits
<1>r. ASSUME UNCHANGED <<mode, signal>>, pc \in Awaits \cup {"start"}, pc # "include", RunCapnp
      PROVE StopEndsIt'
  BY <1>0, <1>w, <1>r, StopCases DEF RunCapnp
<1>1. CASE Start
  <2>1. UNCHANGED <<mode, signal>> /\ pc \in Awaits \cup {"start"} /\ signal = None
    BY <1>w, <1>1 DEF Start, run, StopEndsIt
  <2>2. CASE Exit(0)
    BY <2>1, <2>2, StopCases DEF Exit, Quit, Finish, StopEndsIt, Done
  <2> QED BY <1>0, <1>w, <1>1, <2>1, <2>2, StopCases DEF Start
<1>2. CASE Verify
  <2>1. UNCHANGED <<mode, signal>> /\ pc \in Awaits \cup {"start"} /\ pc # "include"
    BY <1>w, <1>2 DEF Verify, run
  <2>2. CASE mode = "verify" /\ Exit(0)
    BY <2>1, <2>2, StopCases DEF Exit, Quit, Finish, StopEndsIt, Done
  <2> QED BY <1>0, <1>w, <1>2, <2>1, <2>2, StopCases DEF Verify
<1>3. CASE Survey \/ Copy \/ Warn \/ Protect
  <2>1. UNCHANGED <<mode, signal>> /\ pc \in Awaits \cup {"start"} /\ pc # "include"
    BY <1>w, <1>3 DEF Survey, Copy, Warn, Protect, run
  <2> QED BY <1>0, <1>w, <1>3, <2>1, StopCases DEF Survey, Copy, Warn, Protect
<1>4. CASE Include
  <2>1. UNCHANGED <<mode, signal>> /\ pc = "include" /\ pc \in Awaits
    BY <1>w, <1>4 DEF Include, run
  <2>2. CASE signal # None /\ raised' = pc /\ Finish(73, {})
    BY <2>1, <2>2, LauncherAssumption DEF Finish, StopEndsIt, Done
  <2> QED BY <1>0, <1>w, <1>4, <2>1, <2>2, StopCases DEF Include
<1>5. CASE CopySchemas \/ Create
  <2>1. UNCHANGED <<mode, signal>> /\ pc \in Awaits \cup {"start"} /\ pc # "include"
    BY <1>w, <1>5 DEF CopySchemas, Create
  <2> QED BY <1>0, <1>r, <1>5, <2>1, StopCases DEF CopySchemas, Create
<1>6. CASE Probe
  <2>1. UNCHANGED <<mode, signal>> /\ pc \in Awaits \cup {"start"} /\ pc # "include"
    BY <1>w, <1>6 DEF Probe
  <2>2. StageWorkspace \/ RunGenerator => StopEndsIt'
    BY <1>0, <1>w, <2>1, StopCases DEF StageWorkspace, RunGenerator
  <2> QED BY <1>0, <1>w, <1>r, <1>6, <2>1, <2>2, StopCases DEF Probe
<1>7. CASE Return
  <2>1. UNCHANGED <<mode, signal>> /\ pc \in Awaits \cup {"start"} /\ pc # "include"
    BY <1>w, <1>7 DEF Return
  <2>2. CASE signal = None /\ Exit(child.status)
    BY <2>1, <2>2, StopCases DEF Exit, Quit, Finish, StopEndsIt, Done
  <2> QED BY <1>w, <1>7, <2>1, <2>2, StopCases DEF Return
<1>8. CASE CheckPass
  <2>1. UNCHANGED <<mode, signal>> /\ pc \in Awaits \cup {"start"} /\ pc # "include"
    BY <1>w, <1>8 DEF CheckPass, run
  <2> QED BY <1>0, <1>w, <1>8, <2>1, StopCases DEF CheckPass
<1>9. CASE MoveCheck \/ Move
  <2>1. UNCHANGED <<mode, signal>> /\ pc \in Awaits \cup {"start"}
    BY <1>w, <1>9 DEF MoveCheck, Move, run
  <2>2. CASE PublishFail
    <3>1. raised = None BY <2>1, StopCases
    <3>2. pc' = "done" /\ exit' = 73 /\ raised' = raised BY <2>2 DEF PublishFail
    <3>3. 73 \in Failures BY DEF Failures
    <3> QED BY <3>1, <3>2, <3>3 DEF StopEndsIt, Done
  <2>3. CASE Await("rename", {})
    <3>1. "rename" \in Awaits BY DEF Awaits
    <3> QED BY <2>1, <2>3, <3>1, StopCases
  <2>4. CASE pc' # "done" /\ pc' # "start" /\ UNCHANGED raised
    BY <2>1, <2>4, StopCases DEF StopEndsIt, Done
  <2>5. pc # "start" BY <1>9 DEF MoveCheck, Move
  <2> QED BY <1>9, <2>1, <2>2, <2>3, <2>4, <2>5 DEF MoveCheck, Move
<1>10. CASE Published
  <2>1. UNCHANGED <<mode, signal>> /\ pc \in Awaits \cup {"start"} /\ next > Len(Entries)
    BY <1>w, <1>10 DEF Published, run
  <2> QED BY <1>10, <2>1, StopCases DEF Published, Exit, Quit, Finish, StopEndsIt, Done
<1>11. CASE ChildExits BY <1>11 DEF ChildExits, run, StopEndsIt, Done
<1>12. CASE \E s \in Signals : Signal(s)
  BY <1>12, LauncherAssumption DEF Signal, StopEndsIt, Done, Awaits
<1>13. CASE \E e \in Items, kind \in Found : Meddle(e, kind)
  BY <1>13 DEF Meddle, StopEndsIt, Done
<1>14. CASE UNCHANGED vars BY <1>14 DEF vars, StopEndsIt, Done
<1> QED
  BY <1>1, <1>2, <1>3, <1>4, <1>5, <1>6, <1>7, <1>8, <1>9, <1>10, <1>11, <1>12, <1>13, <1>14
     DEF Next, Step

\* A stop, at whichever await: the child that runs is told, no other is started,
\* and the status is the stop's.
THEOREM StopsAreHonoured == Spec => StopHonoured
<1>1. Init => StopEndsIt BY DEF Init, StopEndsIt, Done
<1>2. StopEndsIt => StopTold BY DEF StopEndsIt, StopTold
<1>3. Spec => [](StopReachesGuest /\ StopTold)
  BY <1>1, <1>2, StopStep, StopsReachGuests, PTL DEF Spec
<1>4. /\ StopReachesGuest' /\ StopTold'
      /\ [StartsChild => signal = None]_vars
      => [StopReachesGuest' /\ StopTold' /\ (StartsChild => signal = None)]_vars
  OBVIOUS
<1> QED BY <1>3, <1>4, NothingStartsAfterStop, PTL DEF StopHonoured, NoChildAfterStop

------------------------------------------------------------------------------
(* Paths (LauncherPaths).                                                   *)

LEMMA PartIs ==
  ASSUME NEW s, IsSeq(s), NEW m \in Nat \ {0}, NEW n \in Nat, m <= n + 1, n <= Len(s)
  PROVE  LET t == SubSeq(s, m, n) IN
         /\ IsSeq(t) /\ Len(t) = n - m + 1 /\ DOMAIN t = 1..(n - m + 1)
         /\ \A i \in 1..(n - m + 1) : t[i] = s[m + i - 1]
<1> DEFINE t == SubSeq(s, m, n)
           k == n - m + 1
<1>1. Len(s) \in Nat /\ DOMAIN s = 1..Len(s) /\ k \in Nat BY SeqIs
<1>2. t = [i \in 1..k |-> s[i + m - 1]] OBVIOUS
<1>3. t = [i \in 1..k |-> t[i]] BY <1>2
<1>4. \A i \in 1..k : t[i] = s[m + i - 1]
  <2>1. \A i \in 1..k : m + i - 1 = i + m - 1 OBVIOUS
  <2> QED BY <1>2, <2>1
<1> HIDE DEF t, k
<1>5. IsSeq(t) /\ Len(t) = k /\ DOMAIN t = 1..k BY <1>1, <1>3, ListIs
<1> QED BY <1>4, <1>5 DEF t, k

LEMMA SameSequences ==
  ASSUME NEW s, IsSeq(s), NEW t, IsSeq(t), Len(s) = Len(t), \A i \in 1..Len(s) : s[i] = t[i]
  PROVE  s = t
<1>1. /\ Len(s) \in Nat /\ DOMAIN s = 1..Len(s) /\ DOMAIN t = 1..Len(s) BY SeqIs
<1>2. s \in Seq({s[i] : i \in DOMAIN s}) /\ t \in Seq({t[i] : i \in DOMAIN t}) BY DEF IsSeq
<1>3. s = [i \in DOMAIN s |-> s[i]] /\ t = [i \in DOMAIN t |-> t[i]] BY <1>2
<1> QED BY <1>1, <1>3

LEMMA LeastOf ==
  ASSUME NEW S \in SUBSET Nat, S # {}
  PROVE  Min(S) \in S /\ \A y \in S : Min(S) <= y
<1> DEFINE Low(m) == \A y \in S : m <= y
           T == {n \in Nat : n \notin S => \E x \in S : Low(x) \/ x < n}
<1>1. \E x \in S : Low(x)
  <2> SUFFICES ASSUME \A x \in S : ~Low(x) PROVE FALSE OBVIOUS
  <2> DEFINE U == {n \in Nat : \A x \in S : x >= n}
  <2>1. 0 \in U OBVIOUS
  <2>2. ASSUME NEW n \in U PROVE n + 1 \in U
    <3>1. n \notin S OBVIOUS
    <3> QED BY <3>1
  <2>3. U \in SUBSET Nat OBVIOUS
  <2> HIDE DEF U
  <2>4. U = Nat BY <2>1, <2>2, <2>3, SetInduction
  <2>5. PICK x \in S : TRUE OBVIOUS
  <2>6. x + 1 \in U BY <2>4
  <2> QED BY <2>6 DEF U
<1> QED BY <1>1 DEF Min

IsName(x) == x \notin {"", Here, Up}
\* A path of names only.
Clean(parts) == IsSeq(parts) /\ \A i \in DOMAIN parts : IsName(parts[i])

LEMMA IntoCases ==
  ASSUME NEW parts, NEW s
  PROVE  /\ s \in {"", Here} => Into(parts, s, TRUE) = parts
         /\ s = Up /\ parts = <<>> => Into(parts, s, TRUE) = parts
         /\ s = Up /\ parts # <<>> /\ Last(parts) # Up => Into(parts, s, TRUE) = Front(parts)
         /\ IsName(s) => Into(parts, s, TRUE) = Append(parts, s)
<1>1. Up # "" /\ Up # Here BY DEF Up, Here
<1> QED BY <1>1 DEF Into, IsName

LEMMA IntoIs ==
  ASSUME NEW parts, Clean(parts), NEW s
  PROVE  Clean(Into(parts, s, TRUE)) /\ (IsName(s) => Into(parts, s, TRUE) = Append(parts, s))
<1> DEFINE n == Len(parts)
           t == Into(parts, s, TRUE)
<1>1. n \in Nat /\ DOMAIN parts = 1..n /\ IsSeq(parts) /\ \A i \in 1..n : IsName(parts[i])
  BY SeqIs DEF Clean
<1>2. s \in {"", Here} \/ s = Up \/ IsName(s) BY DEF IsName
<1>3. CASE s \in {"", Here}
  <2>1. t = parts BY <1>3, IntoCases
  <2>2. ~IsName(s) BY <1>3 DEF IsName
  <2> QED BY <2>1, <2>2
<1>6. CASE s = Up /\ parts = <<>>
  <2>1. t = parts BY <1>6, IntoCases
  <2>2. ~IsName(s) BY <1>6 DEF IsName
  <2> QED BY <2>1, <2>2
<1>4. CASE s = Up /\ parts # <<>>
  <2>1. n # 0
    <3> SUFFICES ASSUME n = 0 PROVE FALSE OBVIOUS
    <3>1. parts = <<>> BY <1>1, EmptyIs, SameSequences
    <3> QED BY <1>4, <3>1
  <2> HIDE DEF n
  <2>2. n \in 1..n /\ n - 1 \in Nat /\ n - 1 - 1 + 1 = n - 1 /\ n - 1 <= n BY <1>1, <2>1
  <2>3. Last(parts) # Up
    <3>1. IsName(parts[n]) BY <1>1, <2>2
    <3> QED BY <3>1 DEF Last, IsName, n
  <2>4. t = SubSeq(parts, 1, n - 1) BY <1>4, <2>3, IntoCases DEF Front, n
  <2> HIDE DEF t
  <2>5. /\ IsSeq(t) /\ DOMAIN t = 1..(n - 1 - 1 + 1)
        /\ \A i \in 1..(n - 1 - 1 + 1) : t[i] = parts[1 + i - 1]
    BY <1>1, <2>2, <2>4, PartIs DEF n
  <2>6. \A i \in 1..(n - 1) : i \in 1..n /\ 1 + i - 1 = i BY <2>2
  <2>7. DOMAIN t = 1..(n - 1) /\ \A i \in 1..(n - 1) : IsName(t[i]) BY <1>1, <2>2, <2>5, <2>6
  <2>8. ~IsName(s) BY <1>4 DEF IsName
  <2>9. Clean(t) BY <2>5, <2>7 DEF Clean
  <2> QED BY <2>8, <2>9 DEF t
<1>5. CASE IsName(s)
  <2>1. t = Append(parts, s) BY <1>5, IntoCases
  <2> HIDE DEF t
  <2>2. /\ IsSeq(t) /\ DOMAIN t = 1..(n + 1) /\ \A i \in 1..n : t[i] = parts[i]
        /\ t[n + 1] = s
    BY <1>1, <2>1, AppendIs
  <2> HIDE DEF n
  <2>3. \A i \in 1..(n + 1) : i \in 1..n \/ i = n + 1 BY <1>1
  <2>4. \A i \in 1..(n + 1) : IsName(t[i]) BY <1>1, <1>5, <2>2, <2>3
  <2>5. Clean(t) BY <2>2, <2>4 DEF Clean
  <2> QED BY <2>1, <2>5 DEF t
<1>7. CASE s = Up BY <1>4, <1>6, <1>7
<1> QED BY <1>2, <1>3, <1>5, <1>7

LEMMA NormalRuns ==
  ASSUME NEW segs, IsSeq(segs), NEW rooted
  PROVE  \E u : /\ u[0] = <<>>
                /\ \A i \in 1..Len(segs) : u[i] = Into(u[i - 1], segs[i], rooted)
                /\ Normal(segs, rooted) = u[Len(segs)]
<1> DEFINE Def(g, n) == [i \in 0..n |-> IF i = 0 THEN <<>> ELSE Into(g[i - 1], segs[i], rooted)]
           S == {n \in Nat : \E g : g = Def(g, n)}
           w == CHOOSE g : g = Def(g, Len(segs))
<1>0. Len(segs) \in Nat BY SeqIs
<1>1. 0 \in S
  <2>1. [i \in 0..0 |-> <<>>] = Def([i \in 0..0 |-> <<>>], 0) OBVIOUS
  <2> QED BY <2>1
<1>2. ASSUME NEW n \in S PROVE n + 1 \in S
  <2>1. PICK g : g = Def(g, n) OBVIOUS
  <2> DEFINE h == Def(g, n + 1)
  <2>2. \A i \in 0..n : h[i] = g[i]
    <3>1. \A i \in 0..n : Def(g, n + 1)[i] = Def(g, n)[i] OBVIOUS
    <3> QED BY <2>1, <3>1
  <2>3. \A i \in 0..(n + 1) : i = 0 \/ i - 1 \in 0..n OBVIOUS
  <2>4. \A i \in 0..(n + 1) : h[i] = Def(h, n + 1)[i] BY <2>2, <2>3
  <2>5. h = [i \in 0..(n + 1) |-> h[i]] OBVIOUS
  <2>6. Def(h, n + 1) = [i \in 0..(n + 1) |-> Def(h, n + 1)[i]] OBVIOUS
  <2> HIDE DEF h, Def
  <2>7. h = Def(h, n + 1) BY <2>4, <2>5, <2>6
  <2> QED BY <2>7
<1>3. S = Nat
  <2>1. S \in SUBSET Nat OBVIOUS
  <2> HIDE DEF S
  <2> QED BY <1>1, <1>2, <2>1, SetInduction
<1>4. \E g : g = Def(g, Len(segs))
  <2>1. Len(segs) \in S
    <3> HIDE DEF S
    <3> QED BY <1>0, <1>3
  <2> QED BY <2>1
<1>5. w = Def(w, Len(segs)) BY <1>4, Zenon
<1>6. Normal(segs, rooted) = w[Len(segs)] BY DEF Normal
<1> HIDE DEF w
<1>7. \A i \in 0..Len(segs) : w[i] = Def(w, Len(segs))[i] BY <1>5
<1>8. w[0] = <<>> BY <1>0, <1>7
<1>9. \A i \in 1..Len(segs) : w[i] = Into(w[i - 1], segs[i], rooted) BY <1>0, <1>7
<1> QED BY <1>6, <1>8, <1>9

\* A rooted path is names only, and stays as it is when it is.
LEMMA NormalIs ==
  ASSUME NEW segs, IsSeq(segs)
  PROVE  Clean(Normal(segs, TRUE)) /\ (Clean(segs) => Normal(segs, TRUE) = segs)
<1> DEFINE N == Len(segs)
<1>0. N \in Nat /\ DOMAIN segs = 1..N BY SeqIs
<1>1. PICK u : /\ u[0] = <<>>
               /\ \A i \in 1..N : u[i] = Into(u[i - 1], segs[i], TRUE)
               /\ Normal(segs, TRUE) = u[N]
  BY NormalRuns
<1> DEFINE Steady(k) == /\ Clean(u[k])
                        /\ Clean(segs) => /\ Len(u[k]) = k
                                          /\ \A i \in 1..k : u[k][i] = segs[i]
           S == {k \in Nat : k <= N => Steady(k)}
<1>2. 0 \in S
  <2>1. Clean(<<>>) /\ Len(<<>>) = 0 BY EmptyIs DEF Clean
  <2> QED BY <1>1, <2>1
<1>3. ASSUME NEW k \in S PROVE k + 1 \in S
  <2> SUFFICES ASSUME k + 1 <= N PROVE Steady(k + 1) OBVIOUS
  <2>1. k + 1 \in 1..N /\ (k + 1) - 1 = k /\ Steady(k) BY <1>0
  <2>2. u[k + 1] = Into(u[k], segs[k + 1], TRUE) BY <1>1, <2>1
  <2>3. Clean(u[k + 1]) BY <2>1, <2>2, IntoIs
  <2>4. ASSUME Clean(segs) PROVE Len(u[k + 1]) = k + 1 /\ \A i \in 1..(k + 1) : u[k + 1][i] = segs[i]
    <3>1. IsName(segs[k + 1]) BY <1>0, <2>1, <2>4 DEF Clean
    <3>2. u[k + 1] = Append(u[k], segs[k + 1]) BY <2>1, <2>2, <3>1, IntoIs
    <3>3. /\ Len(u[k]) = k /\ IsSeq(u[k]) /\ DOMAIN u[k] = 1..k
          /\ \A i \in 1..k : u[k][i] = segs[i]
      BY <2>1, <2>4, SeqIs DEF Clean
    <3>4. /\ Len(u[k + 1]) = k + 1 /\ u[k + 1][k + 1] = segs[k + 1]
          /\ \A i \in 1..k : u[k + 1][i] = segs[i]
      BY <3>2, <3>3, AppendIs
    <3> QED BY <3>4
  <2> QED BY <2>3, <2>4
<1>4. S \in SUBSET Nat OBVIOUS
<1> HIDE DEF S
<1>5. S = Nat BY <1>2, <1>3, <1>4, SetInduction
<1>6. Steady(N) BY <1>0, <1>5 DEF S
<1>7. ASSUME Clean(segs) PROVE Normal(segs, TRUE) = segs
  <2>1. IsSeq(u[N]) /\ Len(u[N]) = N /\ \A i \in 1..N : u[N][i] = segs[i] BY <1>6, <1>7 DEF Clean
  <2>2. u[N] = segs BY <2>1, SameSequences
  <2> QED BY <1>1, <2>2
<1> QED BY <1>1, <1>6, <1>7

------------------------------------------------------------------------------
(* The root of a set of paths, and a path below it.                         *)

LEMMA MostOf ==
  ASSUME NEW n \in Nat, NEW S \in SUBSET (0..n), S # {}
  PROVE  Max(S) \in S /\ \A y \in S : y <= Max(S)
<1> DEFINE T == {n - y : y \in S}
<1>1. T \in SUBSET Nat /\ T # {}
  <2>1. \A y \in S : n - y \in Nat OBVIOUS
  <2>2. T \in SUBSET Nat BY <2>1
  <2> QED BY <2>2
<1>2. Min(T) \in T /\ \A y \in T : Min(T) <= y BY <1>1, LeastOf
<1>3. PICK x \in S : Min(T) = n - x BY <1>2
<1>4. \A y \in S : n - x <= n - y BY <1>2, <1>3
<1>5. \A y \in S : x >= y BY <1>4
<1>6. \E z \in S : \A y \in S : z >= y BY <1>5
<1>7. Max(S) \in S /\ \A y \in S : Max(S) >= y BY <1>6 DEF Max
<1> QED BY <1>7

LEMMA SameIs ==
  ASSUME NEW a, NEW b, NEW w
  PROVE  /\ Same(a, a, w)
         /\ Same(a, b, w) <=> Same(b, a, w)
         /\ Same(a, b, w) <=> (IF w THEN Fold(a) ELSE a) = (IF w THEN Fold(b) ELSE b)
BY DEF Same

LEMMA FoldedSame ==
  ASSUME NEW a, NEW b, IsSeq(a), IsSeq(b), NEW w, Len(a) = Len(b),
         \A i \in 1..Len(a) : Same(a[i], b[i], w)
  PROVE  Folded(a, w) = Folded(b, w)
<1>1. DOMAIN a = 1..Len(a) /\ DOMAIN b = 1..Len(a) BY SeqIs
<1>2. \A i \in 1..Len(a) : (IF w THEN Fold(a[i]) ELSE a[i]) = (IF w THEN Fold(b[i]) ELSE b[i])
  BY SameIs
<1> QED BY <1>1, <1>2 DEF Folded

\* The names two paths share from the top, and no more.
LEMMA SharedIs ==
  ASSUME NEW a, NEW b, IsSeq(a), IsSeq(b), NEW w
  PROVE  LET n == Shared(a, b, w) IN
         /\ n \in Nat /\ n <= Len(a) /\ n <= Len(b)
         /\ \A i \in 1..n : Same(a[i], b[i], w)
         /\ n < Len(a) /\ n < Len(b) => ~Same(a[n + 1], b[n + 1], w)
<1> DEFINE m == Min({Len(a), Len(b)})
           S == {k \in 0..m : \A i \in 1..k : Same(a[i], b[i], w)}
           n == Shared(a, b, w)
<1>1. Len(a) \in Nat /\ Len(b) \in Nat BY SeqIs
<1>2. m \in {Len(a), Len(b)} /\ m <= Len(a) /\ m <= Len(b)
  <2>1. {Len(a), Len(b)} \in SUBSET Nat /\ {Len(a), Len(b)} # {} BY <1>1
  <2> QED BY <2>1, LeastOf
<1>3. n = Max(S) BY DEF Shared
<1> HIDE DEF n, m
<1>4. m \in Nat BY <1>1, <1>2
<1>5. 0 \in S BY <1>4
<1>6. S \in SUBSET (0..m) /\ S # {} BY <1>5
<1>7. n \in S /\ \A y \in S : y <= n BY <1>3, <1>4, <1>6, MostOf
<1>8. ASSUME n < Len(a), n < Len(b), Same(a[n + 1], b[n + 1], w) PROVE FALSE
  <2>1. n \in Nat /\ n + 1 \in 0..m BY <1>1, <1>2, <1>4, <1>7, <1>8
  <2>2. \A i \in 1..(n + 1) : Same(a[i], b[i], w)
    <3>1. \A i \in 1..(n + 1) : i \in 1..n \/ i = n + 1 BY <2>1
    <3> QED BY <1>7, <1>8, <3>1
  <2>3. n + 1 \in S BY <2>1, <2>2
  <2> QED BY <1>7, <2>1, <2>3
<1> QED BY <1>1, <1>2, <1>4, <1>7, <1>8 DEF n

IsHost(d) ==
  d = [drive |-> d.drive, rooted |-> d.rooted, parts |-> d.parts] /\ IsSeq(d.parts)

\* One of ds shares n names with H.
StopsIn(H, ds, n, w) == \E d \in ds : n = Shared(H, d.parts, w)

\* The root is a directory above here and all of ds; no deeper one is.
LEMMA CommonIs ==
  ASSUME NEW here, IsHost(here), NEW ds, \A d \in ds : IsSeq(d.parts), NEW w
  PROVE  LET root == CommonPath(here, ds, w)
             n == Len(root.parts)
         IN  /\ IsHost(root) /\ root.drive = here.drive
             /\ n \in Nat /\ n <= Len(here.parts)
             /\ \A i \in 1..n : root.parts[i] = here.parts[i]
             /\ \A d \in ds : n <= Shared(here.parts, d.parts, w)
             /\ n < Len(here.parts) => StopsIn(here.parts, ds, n, w)
<1> DEFINE H == here.parts
           S == {Shared(H, d.parts, w) : d \in ds} \cup {Len(H)}
           n == Min(S)
           p == SubSeq(H, 1, n)
           root == CommonPath(here, ds, w)
<1>1. IsSeq(H) /\ Len(H) \in Nat BY SeqIs DEF IsHost
<1>2. S \in SUBSET Nat /\ S # {}
  <2>1. \A d \in ds : Shared(H, d.parts, w) \in Nat BY <1>1, SharedIs
  <2> QED BY <1>1, <2>1
<1>3. n \in S /\ \A y \in S : n <= y BY <1>2, LeastOf
<1>4. root = [here EXCEPT !.parts = p] BY DEF CommonPath
<1>5. root = [drive |-> here.drive, rooted |-> here.rooted, parts |-> p]
  <2>1. here = [drive |-> here.drive, rooted |-> here.rooted, parts |-> here.parts] BY DEF IsHost
  <2> HIDE DEF p
  <2> QED BY <1>4, <2>1
<1> HIDE DEF root
<1>6. n \in Nat /\ n <= Len(H)
  <2>1. Len(H) \in S OBVIOUS
  <2> QED BY <1>2, <1>3, <2>1
<1>7. IsSeq(p) /\ Len(p) = n /\ \A i \in 1..n : p[i] = H[i]
  <2> HIDE DEF n
  <2>1. 1 <= n + 1 /\ n - 1 + 1 = n /\ 1 \in Nat \ {0} /\ \A i \in 1..n : 1 + i - 1 = i BY <1>6
  <2> HIDE DEF H
  <2>2. IsSeq(p) /\ Len(p) = n - 1 + 1 /\ \A i \in 1..(n - 1 + 1) : p[i] = H[1 + i - 1]
    BY <1>1, <1>6, <2>1, PartIs
  <2> QED BY <2>1, <2>2
<1>8. n < Len(H) => \E d \in ds : n = Shared(H, d.parts, w) BY <1>3, <1>6
<1>9. \A d \in ds : n <= Shared(H, d.parts, w) BY <1>3
<1> HIDE DEF n, p
<1>10. root.parts = p /\ root.drive = here.drive /\ IsHost(root) BY <1>5, <1>7 DEF IsHost
<1> QED BY <1>6, <1>7, <1>8, <1>9, <1>10 DEF root, StopsIn

\* A path below the root, and the one it denotes there.
LEMMA BelowIs ==
  ASSUME NEW d, Clean(d.parts), NEW root, IsSeq(root.parts), NEW w,
         Len(root.parts) <= Len(d.parts),
         \A i \in 1..Len(root.parts) : Same(root.parts[i], d.parts[i], w)
  PROVE  LET g == GuestPath(d, root) IN
         /\ g # NoPath /\ IsSeq(g.segs) /\ Len(g.segs) = Len(d.parts) - Len(root.parts)
         /\ \A i \in 1..Len(g.segs) : g.segs[i] = d.parts[Len(root.parts) + i]
         /\ Denotes(root, g, w) = Folded(d.parts, w)
<1> DEFINE R == root.parts
           D == d.parts
           n == Len(R)
           m == Len(D)
           g == GuestPath(d, root)
           t == SubSeq(D, n + 1, m)
<1>1. /\ n \in Nat /\ m \in Nat /\ DOMAIN D = 1..m /\ IsSeq(D) /\ n <= m
      /\ DOMAIN R = 1..n
      /\ \A i \in 1..m : IsName(D[i])
  BY SeqIs DEF Clean
<1>2. g.segs = t /\ g # NoPath BY DEF GuestPath, NoPath
<1> HIDE DEF g
<1>3. /\ IsSeq(t) /\ Len(t) = m - n /\ DOMAIN t = 1..(m - n)
      /\ \A i \in 1..(m - n) : t[i] = D[n + i]
  <2> HIDE DEF n, m
  <2>0. n \in Nat /\ m \in Nat /\ n <= m BY <1>1
  <2>1. /\ n + 1 \in Nat \ {0} /\ n + 1 <= m + 1 /\ m <= m /\ m - (n + 1) + 1 = m - n
        /\ \A i \in 1..(m - n) : n + 1 + i - 1 = n + i
    BY <2>0
  <2>2. /\ IsSeq(t) /\ Len(t) = m - (n + 1) + 1 /\ DOMAIN t = 1..(m - (n + 1) + 1)
        /\ \A i \in 1..(m - (n + 1) + 1) : t[i] = D[n + 1 + i - 1]
    BY <1>1, <2>1, PartIs DEF m
  <2> QED BY <2>1, <2>2
<1> HIDE DEF n, m
<1>4. Clean(t)
  <2>1. \A i \in 1..(m - n) : n + i \in 1..m BY <1>1
  <2> HIDE DEF t
  <2> QED BY <1>1, <1>3, <2>1 DEF Clean
<1>5. Normal(t, TRUE) = t BY <1>3, <1>4, NormalIs
<1> HIDE DEF t
<1>6. Denotes(root, g, w) = Folded(R \o t, w) BY <1>2, <1>5 DEF Denotes
<1>7. /\ IsSeq(R \o t) /\ Len(R \o t) = n + (m - n)
      /\ \A i \in 1..n : (R \o t)[i] = R[i]
      /\ \A i \in 1..(m - n) : (R \o t)[n + i] = t[i]
  BY <1>1, <1>3, ConcatIs DEF n
<1>8. n + (m - n) = m BY <1>1
<1>9. \A i \in 1..m : Same((R \o t)[i], D[i], w)
  <2> SUFFICES ASSUME NEW i \in 1..m PROVE Same((R \o t)[i], D[i], w) OBVIOUS
  <2>1. CASE i <= n
    <3>1. i \in 1..n BY <1>1, <2>1
    <3>2. Same(R[i], D[i], w) BY <3>1 DEF n
    <3> QED BY <1>7, <3>1, <3>2
  <2>2. CASE ~(i <= n)
    <3>1. i - n \in 1..(m - n) /\ n + (i - n) = i BY <1>1, <2>2
    <3>2. (R \o t)[i] = t[i - n] /\ t[i - n] = D[i] BY <1>3, <1>7, <3>1
    <3> QED BY <3>2, SameIs
  <2> QED BY <2>1, <2>2
<1>10. Folded(R \o t, w) = Folded(D, w)
  <2> DEFINE q == R \o t
  <2>1. IsSeq(q) /\ Len(q) = m BY <1>7, <1>8
  <2>2. \A i \in 1..Len(q) : Same(q[i], D[i], w) BY <1>9, <2>1
  <2>3. Len(q) = Len(D) BY <2>1 DEF m
  <2> HIDE DEF q
  <2> QED BY <1>1, <2>1, <2>2, <2>3, FoldedSame DEF q
<1> QED BY <1>2, <1>3, <1>6, <1>10 DEF g, n, m

\* A directory of ds at which the root stops: its path below the root ends there,
\* or goes another way than the current directory.
LEMMA StopsAt ==
  ASSUME NEW H, IsSeq(H), NEW D, IsSeq(D), NEW w, NEW n \in Nat, NEW t, IsSeq(t),
         n < Len(H), n = Shared(H, D, w), Len(t) = Len(D) - n,
         \A i \in 1..Len(t) : t[i] = D[n + i]
  PROVE  t = <<>> \/ ~Same(t[1], H[n + 1], w)
<1>1. Len(H) \in Nat /\ Len(D) \in Nat /\ Len(t) \in Nat BY SeqIs
<1>2. CASE Len(t) = 0 BY <1>2, EmptyIs, SameSequences
<1>3. CASE Len(t) # 0
  <2>1. 1 \in 1..Len(t) /\ n < Len(D) BY <1>1, <1>3
  <2>2. t[1] = D[n + 1] BY <2>1
  <2>3. ~Same(H[n + 1], D[n + 1], w) BY <2>1, SharedIs
  <2> QED BY <2>2, <2>3, SameIs
<1> QED BY <1>2, <1>3

------------------------------------------------------------------------------
(* What the loop over the arguments finds, when one that changes nothing is *)
(* put before the end of the options.                                       *)

LEMMA EndIs ==
  ASSUME NEW args, IsSeq(args)
  PROVE  LET e == OptionsEnd(args) IN
         /\ e \in 1..(Len(args) + 1)
         /\ \A i \in 1..(e - 1) : args[i].kind # "--"
         /\ e <= Len(args) => args[e].kind = "--"
         /\ \A k \in 1..(Len(args) + 1) :
              (\A i \in 1..(k - 1) : args[i].kind # "--") /\ (k <= Len(args) => args[k].kind = "--")
              => k = e
<1> DEFINE n == Len(args)
           S == {i \in DOMAIN args : args[i].kind = "--"} \cup {n + 1}
           e == OptionsEnd(args)
<1>1. n \in Nat /\ DOMAIN args = 1..n BY SeqIs
<1>2. e = Min(S) BY DEF OptionsEnd
<1> HIDE DEF n, e
<1>3. S \in SUBSET (1..(n + 1)) /\ n + 1 \in S BY <1>1
<1>4. S \in SUBSET Nat /\ S # {} BY <1>1, <1>3
<1>5. e \in S /\ \A y \in S : e <= y BY <1>2, <1>4, LeastOf
<1>6. e \in 1..(n + 1) BY <1>3, <1>5
<1>7. \A i \in 1..(e - 1) : i \in 1..n /\ i < e BY <1>1, <1>6
<1>8. \A i \in 1..(e - 1) : args[i].kind # "--" BY <1>1, <1>5, <1>6, <1>7
<1>9. e <= n => args[e].kind = "--" BY <1>1, <1>5, <1>6
<1>10. ASSUME NEW k \in 1..(n + 1), \A i \in 1..(k - 1) : args[i].kind # "--",
              k <= n => args[k].kind = "--"
       PROVE  k = e
  <2>1. k \in S BY <1>1, <1>10
  <2>2. e <= k BY <1>5, <2>1
  <2>3. ~(e < k)
    <3> SUFFICES ASSUME e < k PROVE FALSE OBVIOUS
    <3>1. e \in 1..(k - 1) /\ e <= n BY <1>1, <1>6, <1>10
    <3> QED BY <1>9, <1>10, <3>1
  <2> QED BY <1>1, <1>6, <2>2, <2>3
<1> QED BY <1>6, <1>8, <1>9, <1>10 DEF e, n

\* line is args with x options more before the end of its options, as far as
\* their kinds go.
Extended(args, line, x) ==
  LET e == OptionsEnd(args) IN
  /\ IsSeq(args) /\ IsSeq(line) /\ x \in Nat /\ Len(line) = Len(args) + x
  /\ \A i \in 1..(e - 1) : line[i].kind = args[i].kind
  /\ \A i \in e..Len(args) : line[i + x].kind = args[i].kind
  /\ \A i \in e..(e + x - 1) : line[i].kind \in Dashed \ {"--"}

LEMMA ExtendedEnd ==
  ASSUME NEW args, NEW line, NEW x, Extended(args, line, x)
  PROVE  OptionsEnd(line) = OptionsEnd(args) + x
<1> DEFINE e == OptionsEnd(args)
           n == Len(args)
           k == e + x
<1>1. n \in Nat /\ x \in Nat /\ Len(line) = n + x /\ IsSeq(args) /\ IsSeq(line)
  BY SeqIs DEF Extended
<1>2. /\ \A i \in 1..(e - 1) : line[i].kind = args[i].kind
      /\ \A i \in e..n : line[i + x].kind = args[i].kind
      /\ \A i \in e..(e + x - 1) : line[i].kind \in Dashed \ {"--"}
  BY DEF Extended
<1>3. e \in 1..(n + 1) /\ (\A i \in 1..(e - 1) : args[i].kind # "--") /\ (e <= n => args[e].kind = "--")
  BY <1>1, EndIs
<1> HIDE DEF e, n
<1>4. k \in 1..(Len(line) + 1) BY <1>1, <1>3
<1>5. \A i \in 1..(k - 1) : line[i].kind # "--"
  <2> SUFFICES ASSUME NEW i \in 1..(k - 1) PROVE line[i].kind # "--" OBVIOUS
  <2>1. i \in 1..(e - 1) \/ i \in e..(e + x - 1) BY <1>1, <1>3
  <2>2. CASE i \in 1..(e - 1) BY <1>2, <1>3, <2>2
  <2>3. CASE i \in e..(e + x - 1) BY <1>2, <2>3
  <2> QED BY <2>1, <2>2, <2>3
<1>6. k <= Len(line) => line[k].kind = "--"
  <2> SUFFICES ASSUME k <= Len(line) PROVE line[k].kind = "--" OBVIOUS
  <2>1. e <= n /\ e \in e..n BY <1>1, <1>3
  <2> QED BY <1>2, <1>3, <2>1
<1> HIDE DEF k
<1>7. k = OptionsEnd(line) BY <1>1, <1>4, <1>5, <1>6, EndIs
<1> QED BY <1>7 DEF k, e

LEMMA ExtendedOperation ==
  ASSUME NEW args, NEW line, NEW x, Extended(args, line, x)
  PROVE  /\ Operation(line) = Operation(args) /\ OperationName(line) = OperationName(args)
         /\ Operation(args) \in Nat /\ Operation(args) < OptionsEnd(args)
<1> DEFINE e == OptionsEnd(args)
           f == OptionsEnd(line)
           n == Len(args)
           op == Operation(args)
           P == {i \in 1..(e - 1) : args[i].kind \notin Dashed}
           Q == {i \in 1..(f - 1) : line[i].kind \notin Dashed}
<1>1. f = e + x BY ExtendedEnd
<1>2. /\ x \in Nat /\ IsSeq(args)
      /\ \A i \in 1..(e - 1) : line[i].kind = args[i].kind
      /\ \A i \in e..(e + x - 1) : line[i].kind \in Dashed \ {"--"}
  BY DEF Extended
<1>3. e \in Nat /\ e >= 1
  <2>1. e \in 1..(n + 1) /\ n \in Nat BY <1>2, EndIs, SeqIs
  <2> HIDE DEF e, n
  <2> QED BY <2>1
<1>4. op = IF P # {} /\ args[Min(P)].kind \in Operations THEN Min(P) ELSE 0 BY DEF Operation
<1>5. Operation(line) = IF Q # {} /\ line[Min(Q)].kind \in Operations THEN Min(Q) ELSE 0
  BY DEF Operation
<1> HIDE DEF e, f, op
<1>6. Q = P
  <2>1. \A i \in 1..(f - 1) : i \in 1..(e - 1) \/ i \in e..(e + x - 1) BY <1>1, <1>2, <1>3
  <2>2. \A i \in 1..(e - 1) : i \in 1..(f - 1) BY <1>1, <1>2, <1>3
  <2>3. \A i \in Q : i \in P BY <1>2, <2>1
  <2>4. \A i \in P : i \in Q BY <1>2, <2>2
  <2> QED BY <2>3, <2>4
<1>7. P # {} => Min(P) \in P
  <2>1. P \in SUBSET Nat OBVIOUS
  <2> HIDE DEF P
  <2> QED BY <2>1, LeastOf
<1>8. P # {} => line[Min(P)].kind = args[Min(P)].kind BY <1>2, <1>7
<1>9. op \in Nat /\ op < e BY <1>3, <1>4, <1>7
<1> HIDE DEF P, Q
<1>10. Operation(line) = op BY <1>4, <1>5, <1>6, <1>8
<1>11. op # 0 => line[op].kind = args[op].kind BY <1>4, <1>8
<1>12. OperationName(line) = OperationName(args) BY <1>10, <1>11 DEF OperationName, op
<1> QED BY <1>9, <1>10, <1>12 DEF e, op

LEMMA ScanRuns ==
  ASSUME NEW args, Len(args) \in Nat, Operation(args) \in Nat, Operation(args) <= Len(args)
  PROVE  /\ Scanned(args)[Operation(args)] = AtOperation
         /\ \A i \in (Operation(args) + 1)..Len(args) :
              Scanned(args)[i] = Past(Scanned(args)[i - 1], args[i].kind)
<1> DEFINE op == Operation(args)
           Def(g, n) == [i \in op..n |-> IF i = op THEN AtOperation ELSE Past(g[i - 1], args[i].kind)]
           S == {k \in Nat : \E g : g = Def(g, op + k)}
           w == Scanned(args)
<1>1. 0 \in S
  <2>1. [i \in op..(op + 0) |-> AtOperation] = Def([i \in op..(op + 0) |-> AtOperation], op + 0)
    OBVIOUS
  <2> QED BY <2>1
<1>2. ASSUME NEW k \in S PROVE k + 1 \in S
  <2>1. PICK g : g = Def(g, op + k) OBVIOUS
  <2> DEFINE n == op + k
             h == Def(g, n + 1)
  <2>2. \A i \in op..n : h[i] = g[i]
    <3>1. \A i \in op..n : Def(g, n + 1)[i] = Def(g, n)[i] OBVIOUS
    <3> QED BY <2>1, <3>1
  <2>3. \A i \in op..(n + 1) : i = op \/ i - 1 \in op..n OBVIOUS
  <2>4. \A i \in op..(n + 1) : h[i] = Def(h, n + 1)[i] BY <2>2, <2>3
  <2>5. h = [i \in op..(n + 1) |-> h[i]] OBVIOUS
  <2>6. Def(h, n + 1) = [i \in op..(n + 1) |-> Def(h, n + 1)[i]] OBVIOUS
  <2> HIDE DEF h, Def
  <2>7. h = Def(h, n + 1) BY <2>4, <2>5, <2>6
  <2>8. n + 1 = op + (k + 1) OBVIOUS
  <2> HIDE DEF n
  <2> QED BY <2>7, <2>8
<1>3. S = Nat
  <2>1. S \in SUBSET Nat OBVIOUS
  <2> HIDE DEF S
  <2> QED BY <1>1, <1>2, <2>1, SetInduction
<1>4. \E g : g = Def(g, Len(args))
  <2>1. Len(args) - op \in Nat /\ op + (Len(args) - op) = Len(args) OBVIOUS
  <2>2. Len(args) - op \in S
    <3> HIDE DEF S
    <3> QED BY <1>3, <2>1
  <2>3. PICK g : g = Def(g, op + (Len(args) - op)) BY <2>2
  <2> HIDE DEF Def
  <2> QED BY <2>1, <2>3
<1>5. w = CHOOSE g : g = Def(g, Len(args)) BY DEF Scanned
<1> HIDE DEF w
<1>6. w = Def(w, Len(args)) BY <1>4, <1>5, Zenon
<1>7. \A i \in op..Len(args) : w[i] = Def(w, Len(args))[i] BY <1>6
<1>8. w[op] = AtOperation BY <1>7
<1>9. \A i \in (op + 1)..Len(args) : w[i] = Past(w[i - 1], args[i].kind)
  <2>1. \A i \in (op + 1)..Len(args) : i \in op..Len(args) /\ i # op OBVIOUS
  <2> QED BY <1>7, <2>1
<1> QED BY <1>8, <1>9 DEF w

------------------------------------------------------------------------------
(* What the loop knows, up to the end of the options and beyond.            *)

ScanStates == [next : {"any", "path", "value"}, options : BOOLEAN, position : Nat]

LEMMA PastIs ==
  ASSUME NEW s \in ScanStates, NEW kind
  PROVE  LET t == Past(s, kind) IN
         /\ t \in ScanStates
         /\ s.options /\ kind # "--" => t.options
         /\ t.next # "any" => s.options /\ kind \in TakesPath \cup {"-o"}
         /\ s.next = "any" /\ s.options /\ kind = "--src-prefix=" => t = s
<1> DEFINE t == Past(s, kind)
<1>0. /\ s.next \in {"any", "path", "value"} /\ s.options \in BOOLEAN /\ s.position \in Nat
      /\ s.position + 1 \in Nat
  BY DEF ScanStates
<1>1. CASE s.next # "any"
  <2>1. t = [s EXCEPT !.next = "any"] BY <1>1 DEF Past
  <2>2. t \in ScanStates /\ t.next = "any" /\ t.options = s.options BY <2>1 DEF ScanStates
  <2> QED BY <1>1, <2>2
<1>2. CASE IsPlain(s, kind)
  <2>1. s.next = "any" /\ ~(s.options /\ kind \in Dashed) BY <1>2 DEF IsPlain
  <2>2. t = [s EXCEPT !.position = @ + 1] BY <1>2, <2>1 DEF Past
  <2>3. t \in ScanStates /\ t.next = s.next /\ t.options = s.options
    BY <1>0, <2>2 DEF ScanStates
  <2>4. "--src-prefix=" \in Dashed BY DEF Dashed, HoldsPath
  <2> QED BY <2>1, <2>3, <2>4
<1>3. CASE s.next = "any" /\ ~IsPlain(s, kind)
  <2> DEFINE then == CASE kind \in TakesPath -> "path" [] kind = "-o" -> "value" [] OTHER -> "any"
  <2>1. s.options BY <1>3 DEF IsPlain
  <2>2. /\ then \in {"any", "path", "value"}
        /\ then # "any" => kind \in TakesPath \cup {"-o"}
        /\ kind = "--src-prefix=" => then = "any"
    BY DEF TakesPath
  <2>3. t = [s EXCEPT !.options = kind # "--", !.next = then] BY <1>3 DEF Past
  <2> HIDE DEF then, t
  <2>4. t.options = (kind # "--") /\ t.next = then BY <2>3 DEF ScanStates
  <2>5. t \in ScanStates BY <2>2, <2>3 DEF ScanStates
  <2>6. ASSUME kind = "--src-prefix=" PROVE t = s
    <3>1. kind # "--" /\ then = "any" BY <2>2, <2>6
    <3>2. [s EXCEPT !.options = TRUE, !.next = "any"] = s BY <1>3, <2>1 DEF ScanStates
    <3> QED BY <2>3, <3>1, <3>2
  <2> QED BY <2>1, <2>2, <2>4, <2>5, <2>6 DEF t
<1> QED BY <1>1, <1>2, <1>3

\* Up to the end of the options a dangling option was the last argument.
LEMMA ScanBefore ==
  ASSUME NEW args, IsSeq(args), NEW op, op = Operation(args), op \in 1..(OptionsEnd(args) - 1),
         NEW i \in op..(OptionsEnd(args) - 1)
  PROVE  LET s == Scanned(args)[i] IN
         /\ s \in ScanStates /\ s.options
         /\ s.next # "any" => args[i].kind \in TakesPath \cup {"-o"}
<1> DEFINE e == OptionsEnd(args)
           u == Scanned(args)
           Steady(j) == /\ u[j] \in ScanStates /\ u[j].options
                        /\ u[j].next # "any" => args[j].kind \in TakesPath \cup {"-o"}
           S == {k \in Nat : op + k < e => Steady(op + k)}
<1>1. Len(args) \in Nat /\ e \in 1..(Len(args) + 1) /\ \A j \in 1..(e - 1) : args[j].kind # "--"
  BY SeqIs, EndIs
<1> HIDE DEF e, u
<1>2. op \in Nat /\ op < e /\ op <= Len(args) /\ op >= 1 BY <1>1 DEF e
<1>3. u[op] = AtOperation /\ \A j \in (op + 1)..Len(args) : u[j] = Past(u[j - 1], args[j].kind)
  BY <1>1, <1>2, ScanRuns DEF u
<1>4. AtOperation \in ScanStates /\ AtOperation.options /\ AtOperation.next = "any"
  BY DEF AtOperation, ScanStates
<1>5. 0 \in S
  <2>1. op + 0 = op BY <1>2
  <2> QED BY <1>3, <1>4, <2>1
<1>6. ASSUME NEW k \in S PROVE k + 1 \in S
  <2> DEFINE j == op + k
  <2> SUFFICES ASSUME op + (k + 1) < e PROVE Steady(op + (k + 1)) OBVIOUS
  <2>1. /\ op + (k + 1) = j + 1 /\ j \in Nat /\ j < e /\ (j + 1) - 1 = j /\ j + 1 \in (op + 1)..Len(args)
        /\ j + 1 \in 1..(e - 1)
    BY <1>1, <1>2
  <2>2. Steady(j) BY <2>1
  <2> HIDE DEF j
  <2>3. u[j + 1] = Past(u[j], args[j + 1].kind) BY <1>3, <2>1
  <2>4. args[j + 1].kind # "--" BY <1>1, <2>1
  <2>5. Steady(j + 1) BY <2>2, <2>3, <2>4, PastIs
  <2> QED BY <2>1, <2>5
<1>7. S \in SUBSET Nat OBVIOUS
<1> HIDE DEF S
<1>8. S = Nat BY <1>5, <1>6, <1>7, SetInduction
<1>9. i - op \in Nat /\ op + (i - op) = i /\ i < e BY <1>1, <1>2 DEF e
<1>10. i - op \in S BY <1>8, <1>9
<1>11. Steady(i) BY <1>9, <1>10 DEF S
<1> QED BY <1>11 DEF u

\* So one more prefix there changes nothing of what follows.
LEMMA ScansAgree ==
  ASSUME NEW args, NEW line, NEW x \in {0, 1}, Extended(args, line, x), x = 1 => Settled(args),
         Operation(args) # 0,
         x = 1 => line[OptionsEnd(args)].kind = "--src-prefix="
  PROVE  LET op == Operation(args)
             e == OptionsEnd(args)
         IN  /\ \A i \in op..(e - 1) : Scanned(line)[i] = Scanned(args)[i]
             /\ \A i \in (e - 1)..Len(args) : Scanned(line)[i + x] = Scanned(args)[i]
             /\ x = 1 => Scanned(args)[e - 1].next = "any" /\ Scanned(args)[e - 1].options
<1> DEFINE op == Operation(args)
           e == OptionsEnd(args)
           n == Len(args)
           u == Scanned(args)
           v == Scanned(line)
<1>1. /\ IsSeq(args) /\ IsSeq(line) /\ Len(line) = n + x /\ n \in Nat
      /\ \A i \in 1..(e - 1) : line[i].kind = args[i].kind
      /\ \A i \in e..n : line[i + x].kind = args[i].kind
  BY SeqIs DEF Extended
<1>2. Operation(line) = op /\ op \in Nat /\ op # 0 /\ op < e BY ExtendedOperation
<1>3. e \in 1..(n + 1) BY <1>1, EndIs
<1>4. e - 1 \in op..(e - 1) /\ op \in 1..(e - 1) /\ op <= n BY <1>2, <1>3
<1>5. /\ u[op] = AtOperation
      /\ \A i \in (op + 1)..n : u[i] = Past(u[i - 1], args[i].kind)
  BY <1>1, <1>2, <1>4, ScanRuns
<1>6. /\ v[op] = AtOperation
      /\ \A i \in (op + 1)..(n + x) : v[i] = Past(v[i - 1], line[i].kind)
  <2>1. Len(line) \in Nat /\ op <= Len(line) BY <1>1, <1>4
  <2> QED BY <1>1, <1>2, <2>1, ScanRuns
<1>7. ASSUME x = 1 PROVE u[e - 1] \in ScanStates /\ u[e - 1].next = "any" /\ u[e - 1].options
  <2>0. Settled(args) BY <1>7
  <2>1. /\ u[e - 1] \in ScanStates /\ u[e - 1].options
        /\ u[e - 1].next # "any" => args[e - 1].kind \in TakesPath \cup {"-o"}
    BY <1>1, <1>4, ScanBefore
  <2>2. args[e - 1].kind \in TakesPath \cup {"-o"} => (e - 1) + 1 < e
    <3>1. e - 1 \in 1..(e - 1) BY <1>4
    <3> QED BY <2>0, <3>1 DEF Settled
  <2>3. ~((e - 1) + 1 < e) BY <1>3
  <2> QED BY <2>1, <2>2, <2>3
<1> HIDE DEF op, e, n, u, v
<1>8. \A i \in op..(e - 1) : v[i] = u[i]
  <2> DEFINE S == {k \in Nat : op + k < e => v[op + k] = u[op + k]}
  <2>1. 0 \in S
    <3>1. op + 0 = op BY <1>2
    <3> QED BY <1>5, <1>6, <3>1
  <2>2. ASSUME NEW k \in S PROVE k + 1 \in S
    <3> DEFINE j == op + k
    <3> SUFFICES ASSUME op + (k + 1) < e PROVE v[op + (k + 1)] = u[op + (k + 1)] OBVIOUS
    <3>1. /\ op + (k + 1) = j + 1 /\ j < e /\ (j + 1) - 1 = j /\ j + 1 \in (op + 1)..n
          /\ j + 1 \in (op + 1)..(n + x) /\ j + 1 \in 1..(e - 1)
      BY <1>1, <1>2, <1>3
    <3>2. v[j] = u[j] BY <3>1
    <3> HIDE DEF j
    <3>3. v[j + 1] = u[j + 1] BY <1>1, <1>5, <1>6, <3>1, <3>2
    <3> QED BY <3>1, <3>3
  <2>3. S \in SUBSET Nat OBVIOUS
  <2> HIDE DEF S
  <2>4. S = Nat BY <2>1, <2>2, <2>3, SetInduction
  <2> SUFFICES ASSUME NEW i \in op..(e - 1) PROVE v[i] = u[i] OBVIOUS
  <2>5. i - op \in Nat /\ op + (i - op) = i /\ i < e BY <1>2, <1>3
  <2>6. i - op \in S BY <2>4, <2>5
  <2> QED BY <2>5, <2>6 DEF S
<1>9. v[e - 1 + x] = u[e - 1]
  <2>1. v[e - 1] = u[e - 1] BY <1>4, <1>8
  <2>2. CASE x = 0
    <3>1. e - 1 + x = e - 1 BY <1>3, <2>2
    <3> QED BY <2>1, <3>1
  <2>3. CASE x = 1
    <3>1. e - 1 + x = e /\ e \in (op + 1)..(n + x) BY <1>2, <1>3, <2>3
    <3>2. v[e] = Past(v[e - 1], "--src-prefix=") BY <1>6, <2>3, <3>1 DEF e
    <3>3. v[e] = u[e - 1] BY <1>7, <2>1, <2>3, <3>2, PastIs
    <3> QED BY <3>1, <3>3
  <2> QED BY <2>2, <2>3
<1>10. \A i \in (e - 1)..n : v[i + x] = u[i]
  <2> DEFINE c == e - 1
             S == {k \in Nat : c + k <= n => v[c + k + x] = u[c + k]}
  <2>0. c \in Nat /\ c >= op BY <1>2, <1>3
  <2>1. 0 \in S
    <3>1. c + 0 = e - 1 /\ c + 0 + x = e - 1 + x BY <2>0
    <3> QED BY <1>9, <3>1
  <2>2. ASSUME NEW k \in S PROVE k + 1 \in S
    <3> DEFINE j == c + k
    <3> SUFFICES ASSUME c + (k + 1) <= n PROVE v[c + (k + 1) + x] = u[c + (k + 1)] OBVIOUS
    <3>1. /\ c + (k + 1) = j + 1 /\ c + (k + 1) + x = j + 1 + x /\ j <= n /\ (j + 1) - 1 = j
          /\ (j + 1 + x) - 1 = j + x /\ j + 1 \in (op + 1)..n
          /\ j + 1 + x \in (op + 1)..(n + x) /\ j + 1 \in e..n
      BY <1>1, <1>2, <1>3, <2>0
    <3>2. v[j + x] = u[j] BY <3>1
    <3> HIDE DEF j, c
    <3>3. v[j + 1 + x] = Past(v[j + x], line[j + 1 + x].kind) BY <1>6, <3>1
    <3>4. u[j + 1] = Past(u[j], args[j + 1].kind) BY <1>5, <3>1
    <3>5. line[j + 1 + x].kind = args[j + 1].kind BY <1>1, <3>1
    <3> QED BY <3>1, <3>2, <3>3, <3>4, <3>5
  <2>3. S \in SUBSET Nat OBVIOUS
  <2> HIDE DEF S
  <2>4. S = Nat BY <2>1, <2>2, <2>3, SetInduction
  <2> SUFFICES ASSUME NEW i \in (e - 1)..n PROVE v[i + x] = u[i] OBVIOUS
  <2>5. i - c \in Nat /\ c + (i - c) = i /\ c + (i - c) + x = i + x /\ i <= n BY <1>1, <1>3
  <2>6. i - c \in S BY <2>4, <2>5
  <2> QED BY <2>5, <2>6 DEF S
<1> QED BY <1>7, <1>8, <1>10 DEF op, e, n, u, v

------------------------------------------------------------------------------
(* The paths of a line to which a prefix is added.                          *)

LEMMA PlaceIs ==
  ASSUME NEW args, NEW line, NEW x, Extended(args, line, x), NEW i \in DOMAIN args
  PROVE  LET p == Place(args, line, i) IN
         /\ i < OptionsEnd(args) => p = i
         /\ ~(i < OptionsEnd(args)) => p = i + x
         /\ p \in DOMAIN line /\ line[p].kind = args[i].kind
<1> DEFINE e == OptionsEnd(args)
           n == Len(args)
<1>1. /\ n \in Nat /\ DOMAIN args = 1..n /\ x \in Nat /\ Len(line) = n + x
      /\ DOMAIN line = 1..(n + x) /\ e \in 1..(n + 1)
  BY SeqIs, EndIs DEF Extended
<1>2. /\ \A j \in 1..(e - 1) : line[j].kind = args[j].kind
      /\ \A j \in e..n : line[j + x].kind = args[j].kind
  BY DEF Extended
<1>3. Place(args, line, i) = IF i < e THEN i ELSE i + Len(line) - n BY DEF Place
<1> HIDE DEF e, n
<1>4. i \in Nat /\ i + Len(line) - n = i + x BY <1>1
<1>5. CASE i < e
  <2>1. i \in 1..(e - 1) /\ i \in 1..(n + x) BY <1>1, <1>5
  <2> QED BY <1>1, <1>2, <1>3, <1>5, <2>1 DEF e
<1>6. CASE ~(i < e)
  <2>1. i \in e..n /\ i + x \in 1..(n + x) BY <1>1, <1>6
  <2> QED BY <1>1, <1>2, <1>3, <1>4, <1>6, <2>1 DEF e
<1> QED BY <1>5, <1>6

PathRecords(args) ==
  [index : (Operation(args) + 1)..Len(args), attached : BOOLEAN, directory : BOOLEAN]

LEMMA PathsAre ==
  ASSUME NEW args, NEW a
  PROVE  a \in PathArguments(args) <=>
           /\ a \in PathRecords(args) /\ OperationName(args) # "none"
           /\ IsPathArgument(OperationName(args), Scanned(args)[a.index - 1], args[a.index].kind, a)
BY DEF PathArguments, PathRecords

LEMMA NamedIs ==
  ASSUME NEW args, OperationName(args) # "none" PROVE Operation(args) # 0
BY DEF OperationName

LEMMA IndexIs ==
  ASSUME NEW op, NEW s, NEW kind, NEW a, NEW b, b.attached = a.attached, b.directory = a.directory
  PROVE  IsPathArgument(op, s, kind, a) <=> IsPathArgument(op, s, kind, b)
BY DEF IsPathArgument

LEMMA PathsExtended ==
  ASSUME NEW args, NEW line, NEW x \in {0, 1}, Extended(args, line, x), x = 1 => Settled(args),
         x = 1 => Operation(args) # 0 /\ line[OptionsEnd(args)].kind = "--src-prefix="
  PROVE  /\ \A a \in PathArguments(args) :
              a.index \in DOMAIN args /\ Placed(args, line, a) \in PathArguments(line)
         /\ \A b \in PathArguments(line) :
              \/ \E a \in PathArguments(args) : b = Placed(args, line, a)
              \/ x = 1 /\ b.index = OptionsEnd(args) /\ b.attached
<1> DEFINE op == Operation(args)
           name == OperationName(args)
           e == OptionsEnd(args)
           n == Len(args)
           u == Scanned(args)
           v == Scanned(line)
<1>1. /\ n \in Nat /\ DOMAIN args = 1..n /\ Len(line) = n + x /\ e \in 1..(n + 1)
  BY SeqIs, EndIs DEF Extended
<1>2. Operation(line) = op /\ OperationName(line) = name /\ op \in Nat /\ op < e
  BY ExtendedOperation
<1>3. op # 0 => /\ \A i \in op..(e - 1) : v[i] = u[i]
                /\ \A i \in (e - 1)..n : v[i + x] = u[i]
                /\ x = 1 => u[e - 1].next = "any" /\ u[e - 1].options
  BY ScansAgree
<1>4. \A i \in DOMAIN args :
        /\ i < e => Place(args, line, i) = i
        /\ ~(i < e) => Place(args, line, i) = i + x
        /\ line[Place(args, line, i)].kind = args[i].kind
  BY PlaceIs
<1>5. name # "none" => op # 0 BY NamedIs
<1>6. x = 1 => line[e].kind = "--src-prefix=" OBVIOUS
<1> HIDE DEF op, name, e, n, u, v
<1>7. ASSUME NEW i \in (op + 1)..n, op # 0
      PROVE  LET p == Place(args, line, i) IN
             /\ p \in (op + 1)..(n + x) /\ v[p - 1] = u[i - 1] /\ line[p].kind = args[i].kind
  <2>1. i \in DOMAIN args BY <1>1, <1>2
  <2>2. CASE i < e
    <3>1. i \in (op + 1)..(n + x) /\ i - 1 \in op..(e - 1) BY <1>1, <1>2, <2>2
    <3> QED BY <1>3, <1>4, <1>7, <2>1, <2>2, <3>1
  <2>3. CASE ~(i < e)
    <3>1. /\ i + x \in (op + 1)..(n + x) /\ i - 1 \in (e - 1)..n /\ (i + x) - 1 = (i - 1) + x
      BY <1>1, <1>2, <2>3
    <3> QED BY <1>3, <1>4, <1>7, <2>1, <2>3, <3>1
  <2> QED BY <2>2, <2>3
<1>8. ASSUME NEW a \in PathArguments(args)
      PROVE  a.index \in DOMAIN args /\ Placed(args, line, a) \in PathArguments(line)
  <2> DEFINE i == a.index
             p == Place(args, line, i)
             b == Placed(args, line, a)
  <2>1. /\ a \in PathRecords(args) /\ name # "none" /\ IsPathArgument(name, u[i - 1], args[i].kind, a)
    BY PathsAre DEF name, u
  <2>2. i \in (op + 1)..n BY <2>1 DEF PathRecords, op, n
  <2>3. p \in (op + 1)..(n + x) /\ v[p - 1] = u[i - 1] /\ line[p].kind = args[i].kind
    BY <1>5, <1>7, <2>1, <2>2
  <2>4. b = [a EXCEPT !.index = p] BY DEF Placed
  <2> HIDE DEF b, p
  <2>5. b \in PathRecords(line) /\ b.index = p /\ b.attached = a.attached /\ b.directory = a.directory
    BY <1>1, <1>2, <2>1, <2>3, <2>4 DEF PathRecords
  <2>6. IsPathArgument(name, v[p - 1], line[p].kind, b) BY <2>1, <2>3, <2>5, IndexIs
  <2>7. b \in PathArguments(line) BY <1>2, <2>1, <2>5, <2>6, PathsAre DEF v
  <2>8. i \in DOMAIN args BY <1>1, <1>2, <2>2
  <2> QED BY <2>7, <2>8 DEF b
<1>9. ASSUME NEW b \in PathArguments(line)
      PROVE  \/ \E a \in PathArguments(args) : b = Placed(args, line, a)
             \/ x = 1 /\ b.index = e /\ b.attached
  <2> DEFINE j == b.index
  <2>1. /\ b \in PathRecords(line) /\ name # "none" /\ IsPathArgument(name, v[j - 1], line[j].kind, b)
    BY <1>2, PathsAre DEF v
  <2>2. j \in (op + 1)..(n + x) BY <1>1, <1>2, <2>1 DEF PathRecords
  <2>3. ASSUME NEW i \in (op + 1)..n, Place(args, line, i) = j
        PROVE  \E a \in PathArguments(args) : b = Placed(args, line, a)
    <3> DEFINE a == [b EXCEPT !.index = i]
    <3>1. v[j - 1] = u[i - 1] /\ line[j].kind = args[i].kind BY <1>5, <1>7, <2>1, <2>3
    <3>2. a \in PathRecords(args) /\ a.index = i /\ a.attached = b.attached /\ a.directory = b.directory
      BY <2>1, <2>3 DEF PathRecords, op, n
    <3>3. [a EXCEPT !.index = j] = b BY <2>1 DEF PathRecords
    <3> HIDE DEF a
    <3>4. IsPathArgument(name, u[i - 1], args[i].kind, a) BY <2>1, <3>1, <3>2, IndexIs
    <3>5. a \in PathArguments(args) BY <2>1, <3>2, <3>4, PathsAre DEF name, u
    <3>6. Placed(args, line, a) = b BY <2>3, <3>2, <3>3 DEF Placed
    <3> QED BY <3>5, <3>6
  <2>4. CASE j < e
    <3>1. j \in (op + 1)..n /\ j \in DOMAIN args BY <1>1, <1>2, <2>2, <2>4
    <3> QED BY <1>4, <2>3, <2>4, <3>1
  <2>5. CASE j >= e + x
    <3>1. j - x \in (op + 1)..n /\ j - x \in DOMAIN args /\ ~(j - x < e) /\ (j - x) + x = j
      BY <1>1, <1>2, <2>2, <2>5
    <3>2. Place(args, line, j - x) = j BY <1>4, <3>1
    <3> QED BY <2>3, <3>1, <3>2
  <2>6. CASE ~(j < e) /\ ~(j >= e + x)
    <3>1. x = 1 /\ j = e BY <1>1, <1>2, <2>2, <2>6
    <3>2. e - 1 \in op..(e - 1) BY <1>1, <1>2
    <3>3. v[e - 1].next = "any" /\ v[e - 1].options BY <1>3, <1>5, <2>1, <3>1, <3>2
    <3>4. "--src-prefix=" \in Dashed BY DEF Dashed, HoldsPath
    <3>5. ~IsPlain(v[e - 1], line[e].kind) /\ v[e - 1].next # "path" BY <1>6, <3>1, <3>3, <3>4 DEF IsPlain
    <3>6. b.attached BY <2>1, <3>1, <3>5 DEF IsPathArgument
    <3> QED BY <3>1, <3>6
  <2> QED BY <2>4, <2>5, <2>6
<1> QED BY <1>8, <1>9 DEF e

\* The prefix added is one of them.
LEMMA PrefixRead ==
  ASSUME NEW args, NEW line, Extended(args, line, 1), Settled(args), OperationName(args) # "none",
         line[OptionsEnd(args)].kind = "--src-prefix="
  PROVE  [index |-> OptionsEnd(args), attached |-> TRUE, directory |-> TRUE] \in PathArguments(line)
<1> DEFINE e == OptionsEnd(args)
           op == Operation(args)
           b == [index |-> e, attached |-> TRUE, directory |-> TRUE]
           v == Scanned(line)
<1>1. op # 0 BY NamedIs
<1>2. Operation(line) = op /\ OperationName(line) = OperationName(args) /\ op \in Nat /\ op < e
  BY ExtendedOperation
<1>3. Len(args) \in Nat /\ Len(line) = Len(args) + 1 /\ e \in 1..(Len(args) + 1)
  BY SeqIs, EndIs DEF Extended
<1>4. /\ \A i \in op..(e - 1) : v[i] = Scanned(args)[i]
      /\ Scanned(args)[e - 1].next = "any" /\ Scanned(args)[e - 1].options
  BY <1>1, ScansAgree
<1> HIDE DEF e, op, v
<1>5. e - 1 \in op..(e - 1) /\ e \in (op + 1)..Len(line) BY <1>2, <1>3
<1>6. v[e - 1].next = "any" /\ v[e - 1].options BY <1>4, <1>5
<1>7. "--src-prefix=" \in Dashed /\ "--src-prefix=" \in HoldsPath BY DEF Dashed, HoldsPath
<1>8. IsPathArgument(OperationName(line), v[e - 1], line[e].kind, b)
  BY <1>6, <1>7 DEF IsPathArgument, IsOption, e
<1>9. b \in PathRecords(line) BY <1>2, <1>5 DEF PathRecords
<1>10. b.index = e OBVIOUS
<1> HIDE DEF b
<1>11. b \in PathArguments(line) BY <1>2, <1>8, <1>9, <1>10, PathsAre DEF v
<1> QED BY <1>11 DEF b, e

------------------------------------------------------------------------------
(* Lines and their options.                                                 *)

IsArgs(args) ==
  /\ IsSeq(args)
  /\ \A i \in DOMAIN args :
       args[i] = [kind |-> args[i].kind, path |-> args[i].path] /\ IsText(args[i].path)

LEMMA LineIs ==
  ASSUME NEW args, IsLine(args) PROVE IsArgs(args)
BY DEF IsLine, IsArgs

LEMMA JoinSeq ==
  ASSUME NEW s, IsSeq(s), NEW t, IsSeq(t) PROVE IsSeq(s \o t)
BY ConcatIs

LEMMA JoinedIs ==
  ASSUME NEW s, IsSeq(s), NEW t, IsSeq(t), NEW w, w = s \o t
  PROVE  /\ Len(w) = Len(s) + Len(t)
         /\ \A i \in 1..Len(s) : w[i] = s[i]
         /\ \A i \in 1..Len(t) : w[Len(s) + i] = t[i]
<1>2. Len(s \o t) = Len(s) + Len(t) BY ConcatIs
<1>3. \A i \in DOMAIN s : (s \o t)[i] = s[i] BY ConcatIs
<1>4. \A i \in DOMAIN t : (s \o t)[Len(s) + i] = t[i] BY ConcatIs
<1>5. DOMAIN s = 1..Len(s) /\ DOMAIN t = 1..Len(t) BY SeqIs
<1> QED BY <1>2, <1>3, <1>4, <1>5

LEMMA JoinIs ==
  ASSUME NEW a, NEW b, NEW c, IsSeq(a), IsSeq(b), IsSeq(c)
  PROVE  LET t == (a \o b) \o c IN
         /\ IsSeq(t) /\ Len(t) = Len(a) + Len(b) + Len(c)
         /\ \A i \in 1..Len(a) : t[i] = a[i]
         /\ \A i \in 1..Len(b) : t[Len(a) + i] = b[i]
         /\ \A i \in 1..Len(c) : t[Len(a) + Len(b) + i] = c[i]
<1> DEFINE m == a \o b
           t == m \o c
<1>1. Len(a) \in Nat /\ Len(b) \in Nat /\ Len(c) \in Nat BY SeqIs
<1>2. /\ IsSeq(m) /\ Len(m) = Len(a) + Len(b)
      /\ \A i \in 1..Len(a) : m[i] = a[i]
      /\ \A i \in 1..Len(b) : m[Len(a) + i] = b[i]
  <2>1. IsSeq(m) BY JoinSeq
  <2>2. m = a \o b OBVIOUS
  <2> HIDE DEF m
  <2> QED BY <2>1, <2>2, JoinedIs
<1> HIDE DEF m
<1>3. /\ IsSeq(t) /\ Len(t) = Len(m) + Len(c)
      /\ \A i \in 1..Len(m) : t[i] = m[i]
      /\ \A i \in 1..Len(c) : t[Len(m) + i] = c[i]
  <2>1. IsSeq(m) BY <1>2
  <2>2. IsSeq(t) BY <2>1, JoinSeq
  <2>3. t = m \o c OBVIOUS
  <2> HIDE DEF t
  <2> QED BY <2>1, <2>2, <2>3, JoinedIs
<1> HIDE DEF t
<1>4. \A i \in 1..Len(a) : i \in 1..Len(m) BY <1>1, <1>2
<1>5. \A i \in 1..Len(b) : Len(a) + i \in 1..Len(m) BY <1>1, <1>2
<1>6. \A i \in 1..Len(a) : t[i] = a[i] BY <1>2, <1>3, <1>4
<1>7. \A i \in 1..Len(b) : t[Len(a) + i] = b[i] BY <1>2, <1>3, <1>5
<1>8. \A i \in 1..Len(c) : t[Len(a) + Len(b) + i] = c[i] BY <1>2, <1>3
<1> QED BY <1>2, <1>3, <1>6, <1>7, <1>8 DEF t, m

LEMMA SpliceIs ==
  ASSUME NEW args, IsSeq(args), NEW extra, IsSeq(extra),
         \A i \in DOMAIN extra : extra[i].kind \in Dashed \ {"--"}
  PROVE  LET line == Splice(args, extra)
             x == Len(extra)
         IN  /\ Extended(args, line, x)
             /\ \A i \in DOMAIN args : line[Place(args, line, i)] = args[i]
             /\ \A i \in 1..x : line[OptionsEnd(args) - 1 + i] = extra[i]
<1> DEFINE e == OptionsEnd(args)
           n == Len(args)
           x == Len(extra)
           A == SubSeq(args, 1, e - 1)
           B == SubSeq(args, e, n)
           line == Splice(args, extra)
<1>1. n \in Nat /\ x \in Nat /\ DOMAIN args = 1..n /\ DOMAIN extra = 1..x /\ e \in 1..(n + 1)
  BY SeqIs, EndIs
<1>2. line = (A \o extra) \o B BY DEF Splice
<1> HIDE DEF e, n, x, line
<1>3. /\ IsSeq(A) /\ Len(A) = e - 1 /\ DOMAIN A = 1..(e - 1)
      /\ \A i \in 1..(e - 1) : A[i] = args[i]
  <2>1. /\ e - 1 \in Nat /\ 1 <= (e - 1) + 1 /\ e - 1 <= n /\ (e - 1) - 1 + 1 = e - 1
        /\ \A i \in 1..(e - 1) : 1 + i - 1 = i
    BY <1>1
  <2>2. /\ IsSeq(A) /\ Len(A) = (e - 1) - 1 + 1 /\ DOMAIN A = 1..((e - 1) - 1 + 1)
        /\ \A i \in 1..((e - 1) - 1 + 1) : A[i] = args[1 + i - 1]
    BY <2>1, PartIs DEF n
  <2> HIDE DEF A
  <2> QED BY <2>1, <2>2
<1>4. /\ IsSeq(B) /\ Len(B) = n - e + 1 /\ DOMAIN B = 1..(n - e + 1)
      /\ \A i \in 1..(n - e + 1) : B[i] = args[e + i - 1]
  <2>1. e \in Nat \ {0} /\ n \in Nat /\ e <= n + 1 /\ n <= n BY <1>1
  <2> QED BY <2>1, PartIs DEF n
<1> HIDE DEF A, B
<1>5. /\ IsSeq(line) /\ Len(line) = (e - 1) + x + (n - e + 1)
      /\ \A i \in 1..(e - 1) : line[i] = A[i]
      /\ \A i \in 1..x : line[(e - 1) + i] = extra[i]
      /\ \A i \in 1..(n - e + 1) : line[(e - 1) + x + i] = B[i]
  <2>1. IsSeq(A) /\ IsSeq(B) /\ IsSeq(extra) BY <1>3, <1>4
  <2> HIDE DEF A, B
  <2>2. /\ IsSeq(line) /\ Len(line) = Len(A) + Len(extra) + Len(B)
        /\ \A i \in 1..Len(A) : line[i] = A[i]
        /\ \A i \in 1..Len(extra) : line[Len(A) + i] = extra[i]
        /\ \A i \in 1..Len(B) : line[Len(A) + Len(extra) + i] = B[i]
    BY <1>2, <2>1, JoinIs
  <2>3. Len(A) = e - 1 /\ Len(extra) = x /\ Len(B) = n - e + 1 BY <1>3, <1>4 DEF x
  <2> QED BY <2>2, <2>3
<1>6. \A i \in 1..(n - e + 1) : line[e - 1 + x + i] = args[e + i - 1] BY <1>4, <1>5
<1>7. Len(line) = n + x BY <1>1, <1>5
<1>8. \A i \in 1..(e - 1) : line[i] = args[i] BY <1>3, <1>5
<1>9. \A i \in 1..x : line[e - 1 + i] = extra[i] BY <1>5
<1>10. \A i \in e..n : line[i + x] = args[i]
  <2> SUFFICES ASSUME NEW i \in e..n PROVE line[i + x] = args[i] OBVIOUS
  <2>1. /\ i - e + 1 \in 1..(n - e + 1) /\ e - 1 + x + (i - e + 1) = i + x
        /\ e + (i - e + 1) - 1 = i
    BY <1>1
  <2> QED BY <1>6, <2>1
<1>11. \A i \in e..(e + x - 1) : line[i].kind \in Dashed \ {"--"}
  <2> SUFFICES ASSUME NEW i \in e..(e + x - 1) PROVE line[i].kind \in Dashed \ {"--"} OBVIOUS
  <2>1. i - e + 1 \in 1..x /\ e - 1 + (i - e + 1) = i BY <1>1
  <2> QED BY <1>1, <1>9, <2>1
<1>12. Extended(args, line, x)
  <2>1. /\ \A i \in 1..(e - 1) : line[i].kind = args[i].kind
        /\ \A i \in e..n : line[i + x].kind = args[i].kind
    BY <1>8, <1>10
  <2> QED BY <1>1, <1>5, <1>7, <1>11, <2>1 DEF Extended, e, n
<1>13. \A i \in DOMAIN args : line[Place(args, line, i)] = args[i]
  <2> SUFFICES ASSUME NEW i \in DOMAIN args PROVE line[Place(args, line, i)] = args[i] OBVIOUS
  <2>1. CASE i < e
    <3>1. Place(args, line, i) = i /\ i \in 1..(e - 1) BY <1>1, <1>12, <2>1, PlaceIs DEF e
    <3> QED BY <1>8, <3>1
  <2>2. CASE ~(i < e)
    <3>1. Place(args, line, i) = i + x /\ i \in e..n BY <1>1, <1>12, <2>2, PlaceIs DEF e
    <3> QED BY <1>10, <3>1
  <2> QED BY <2>1, <2>2
<1> QED BY <1>9, <1>12, <1>13 DEF e, x, line

LEMMA ExtendedThrough ==
  ASSUME NEW args, NEW mid, NEW line, NEW x, Extended(args, mid, 0), Extended(mid, line, x)
  PROVE  Extended(args, line, x)
<1> DEFINE e == OptionsEnd(args)
           n == Len(args)
<1>1. /\ IsSeq(args) /\ n \in Nat /\ Len(mid) = n /\ e \in 1..(n + 1)
      /\ \A i \in 1..(e - 1) : mid[i].kind = args[i].kind
      /\ \A i \in e..n : mid[i + 0].kind = args[i].kind
  <2>1. IsSeq(args) /\ Len(mid) = n + 0 BY DEF Extended
  <2>2. n \in Nat /\ e \in 1..(n + 1) BY <2>1, SeqIs, EndIs
  <2> QED BY <2>1, <2>2 DEF Extended
<1>2. OptionsEnd(mid) = e
  <2>1. OptionsEnd(mid) = e + 0 BY ExtendedEnd
  <2> HIDE DEF e, n
  <2> QED BY <1>1, <2>1
<1>3. /\ IsSeq(line) /\ x \in Nat /\ Len(line) = n + x
      /\ \A i \in 1..(e - 1) : line[i].kind = mid[i].kind
      /\ \A i \in e..n : line[i + x].kind = mid[i].kind
      /\ \A i \in e..(e + x - 1) : line[i].kind \in Dashed \ {"--"}
  BY <1>1, <1>2 DEF Extended
<1> HIDE DEF e, n
<1>4. \A i \in e..n : mid[i].kind = args[i].kind
  <2>1. \A i \in e..n : i + 0 = i BY <1>1
  <2> QED BY <1>1, <2>1
<1>5. /\ \A i \in 1..(e - 1) : line[i].kind = args[i].kind
      /\ \A i \in e..n : line[i + x].kind = args[i].kind
  BY <1>1, <1>3, <1>4
<1> QED BY <1>1, <1>3, <1>5 DEF Extended, e, n

LEMMA SettledExtended ==
  ASSUME NEW args, NEW line, NEW x, Extended(args, line, x), Settled(args),
         \A i \in OptionsEnd(args)..(OptionsEnd(args) + x - 1) :
            line[i].kind \notin TakesPath \cup {"-o"}
  PROVE  Settled(line)
<1> DEFINE e == OptionsEnd(args)
<1>1. OptionsEnd(line) = e + x BY ExtendedEnd
<1>2. x \in Nat /\ IsSeq(args) /\ \A i \in 1..(e - 1) : line[i].kind = args[i].kind BY DEF Extended
<1>3. Len(args) \in Nat /\ e \in 1..(Len(args) + 1) BY <1>2, SeqIs, EndIs
<1>4. \A i \in 1..(e - 1) : args[i].kind \in TakesPath \cup {"-o"} => i + 1 < e BY DEF Settled
<1>5. \A i \in e..(e + x - 1) : line[i].kind \notin TakesPath \cup {"-o"} OBVIOUS
<1> HIDE DEF e
<1>6. ASSUME NEW i \in 1..(e + x - 1), line[i].kind \in TakesPath \cup {"-o"} PROVE i + 1 < e + x
  <2>1. i \in 1..(e - 1) \/ i \in e..(e + x - 1) BY <1>2, <1>3
  <2>2. i \in 1..(e - 1) BY <1>5, <1>6, <2>1
  <2>3. i + 1 < e BY <1>2, <1>4, <1>6, <2>2
  <2> QED BY <1>2, <1>3, <2>3
<1> DEFINE f == OptionsEnd(line)
           Takes(k) == k \in TakesPath \cup {"-o"}
<1>7. f = e + x BY <1>1
<1>8. \A i \in 1..(e + x - 1) : Takes(line[i].kind) => i + 1 < e + x BY <1>6
<1> HIDE DEF f, Takes
<1>9. \A i \in 1..(f - 1) : Takes(line[i].kind) => i + 1 < f
  BY <1>2, <1>3, <1>7, <1>8
<1> QED BY <1>9 DEF Settled, f, Takes

\* Whether the compiler looks for the standard schemas.
LEMMA NeedsExtended ==
  ASSUME NEW args, NEW line, NEW x, Extended(args, line, x)
  PROVE  NeedsStandardImport(line) <=>
           /\ NeedsStandardImport(args)
           /\ \A i \in OptionsEnd(args)..(OptionsEnd(args) + x - 1) :
                line[i].kind \notin {"--no-standard-import", "--version"}
<1> DEFINE e == OptionsEnd(args)
           K == {"--no-standard-import", "--version"}
           op(a) == OperationName(a) \in Operations \ {"id"}
<1>1. OptionsEnd(line) = e + x /\ OperationName(line) = OperationName(args)
  BY ExtendedEnd, ExtendedOperation
<1>2. x \in Nat /\ IsSeq(args) /\ \A i \in 1..(e - 1) : line[i].kind = args[i].kind BY DEF Extended
<1>3. Len(args) \in Nat /\ e \in 1..(Len(args) + 1) BY <1>2, SeqIs, EndIs
<1>4. NeedsStandardImport(line) <=> op(args) /\ \A i \in 1..(e + x - 1) : line[i].kind \notin K
  <2> DEFINE f == OptionsEnd(line)
  <2>1. NeedsStandardImport(line) <=> op(line) /\ \A i \in 1..(f - 1) : line[i].kind \notin K
    BY DEF NeedsStandardImport
  <2>2. f = e + x /\ (op(line) <=> op(args)) BY <1>1
  <2> HIDE DEF e, f, K, op
  <2>3. f - 1 = e + x - 1 BY <1>2, <1>3, <2>2
  <2> QED BY <2>1, <2>2, <2>3
<1>5. NeedsStandardImport(args) <=> op(args) /\ \A i \in 1..(e - 1) : args[i].kind \notin K
  BY DEF NeedsStandardImport
<1> HIDE DEF e, K, op
<1>6. \A i \in 1..(e + x - 1) : i \in 1..(e - 1) \/ i \in e..(e + x - 1) BY <1>2, <1>3
<1>7. \A i \in 1..(e - 1) : i \in 1..(e + x - 1) BY <1>2, <1>3
<1>8. \A i \in e..(e + x - 1) : i \in 1..(e + x - 1) BY <1>2, <1>3
<1>9. (\A i \in 1..(e + x - 1) : line[i].kind \notin K) <=>
        /\ \A i \in 1..(e - 1) : args[i].kind \notin K
        /\ \A i \in e..(e + x - 1) : line[i].kind \notin K
  BY <1>2, <1>6, <1>7, <1>8
<1> QED BY <1>4, <1>5, <1>9 DEF e, K

------------------------------------------------------------------------------
(* The host paths of a command line.                                        *)

\* The current directory, a real path.
IsCwd(cwd, w) == IsText(cwd) /\ Absolute(cwd, w) /\ Format(Parse(cwd, w)) = cwd

LEMMA CwdIs ==
  ASSUME NEW w \in BOOLEAN, NEW cwd, IsCwd(cwd, w)
  PROVE  LET here == Parse(cwd, w) IN
         IsHost(here) /\ here.rooted = TRUE /\ here.drive = cwd.drive /\ Clean(here.parts)
<1> DEFINE rooted == cwd.lead \/ (w /\ cwd.drive \in UNC)
           segs == Normal(cwd.segs, rooted)
<1>1. Parse(cwd, w) = [drive |-> cwd.drive, rooted |-> rooted, parts |-> segs] BY DEF Parse
<1>2. rooted
  <2>1. Parse(cwd, w).rooted = rooted BY <1>1
  <2>2. Parse(cwd, w).rooted BY DEF IsCwd, Absolute
  <2> QED BY <2>1, <2>2
<1>3. rooted = TRUE BY <1>2
<1>4. IsSeq(cwd.segs) BY DEF IsCwd, IsText
<1>5. Clean(segs) BY <1>3, <1>4, NormalIs
<1> HIDE DEF rooted, segs
<1>6. IsSeq(segs) BY <1>5 DEF Clean
<1> QED BY <1>1, <1>3, <1>5, <1>6 DEF IsHost

LEMMA JoinText ==
  ASSUME NEW w \in BOOLEAN, NEW cwd, IsText(cwd), NEW p, IsText(p)
  PROVE  IsText(Join(cwd, p, w))
<1> DEFINE both == cwd.segs \o p.segs
           below == [cwd EXCEPT !.segs = @ \o p.segs]
           moved == [p EXCEPT !.drive = cwd.drive]
<1>1. IsSeq(cwd.segs) /\ IsSeq(p.segs) BY DEF IsText
<1>2. IsSeq(both) BY <1>1, JoinSeq
<1>3. /\ cwd = [drive |-> cwd.drive, lead |-> cwd.lead, segs |-> cwd.segs] /\ cwd.lead \in BOOLEAN
      /\ p = [drive |-> p.drive, lead |-> p.lead, segs |-> p.segs] /\ p.lead \in BOOLEAN
  BY DEF IsText
<1>4. below = [cwd EXCEPT !.segs = both] BY <1>3
<1> HIDE DEF both, below
<1>5. below = [drive |-> cwd.drive, lead |-> cwd.lead, segs |-> both] BY <1>3, <1>4
<1>6. IsText(below) BY <1>2, <1>3, <1>5 DEF IsText
<1>7. moved = [drive |-> cwd.drive, lead |-> p.lead, segs |-> p.segs] BY <1>3
<1> HIDE DEF moved
<1>8. IsText(moved) BY <1>1, <1>3, <1>7 DEF IsText
<1>9. Join(cwd, p, w) \in {p, below, moved} BY DEF Join, below, moved
<1> QED BY <1>6, <1>8, <1>9

LEMMA HostIs ==
  ASSUME NEW w \in BOOLEAN, NEW cwd, IsText(cwd), NEW p, IsText(p), Host(cwd, p, w).rooted = TRUE
  PROVE  LET d == Host(cwd, p, w) IN IsHost(d) /\ Clean(d.parts) /\ Parse(Format(d), w) = d
<1> DEFINE q == Join(cwd, p, w)
           rooted == q.lead \/ (w /\ q.drive \in UNC)
           segs == Normal(q.segs, rooted)
           d == Host(cwd, p, w)
           f == Format(d)
<1>1. IsText(q) BY JoinText
<1>2. d = [drive |-> q.drive, rooted |-> rooted, parts |-> segs] BY DEF Host, Parse
<1>3. IsSeq(q.segs) BY <1>1 DEF IsText
<1>4. rooted = TRUE
  <2>1. d.rooted = rooted BY <1>2
  <2> HIDE DEF d, rooted
  <2>2. d.rooted = TRUE BY DEF d
  <2> QED BY <2>1, <2>2
<1>5. Clean(segs) BY <1>3, <1>4, NormalIs
<1>6. IsSeq(segs) BY <1>5 DEF Clean
<1> HIDE DEF q, rooted, segs, d
<1>7. IsHost(d) /\ Clean(d.parts) BY <1>2, <1>5, <1>6 DEF IsHost
<1>8. d.drive = q.drive /\ d.rooted = TRUE /\ d.parts = segs BY <1>2, <1>4
<1>9. f = [drive |-> d.drive, lead |-> TRUE, segs |-> segs] BY <1>8 DEF Format
<1> HIDE DEF f
<1>10. Normal(segs, TRUE) = segs BY <1>5, <1>6, NormalIs
<1>11. Parse(f, w) = [drive |-> f.drive, rooted |-> f.lead \/ (w /\ f.drive \in UNC),
                      parts |-> Normal(f.segs, f.lead \/ (w /\ f.drive \in UNC))]
  BY DEF Parse
<1>12. f.drive = d.drive /\ f.segs = segs /\ (f.lead \/ (w /\ f.drive \in UNC)) = TRUE BY <1>9
<1>13. Parse(f, w) = [drive |-> d.drive, rooted |-> TRUE, parts |-> segs]
  BY <1>10, <1>11, <1>12
<1>14. d = [drive |-> d.drive, rooted |-> TRUE, parts |-> segs] BY <1>2, <1>4, <1>8
<1> QED BY <1>7, <1>13, <1>14 DEF d, f

\* The directory a path needs, above it.
RootOf(a, host) == IF a.directory THEN host ELSE Dirname(host)

LEMMA RootOfIs ==
  ASSUME NEW a, a.directory \in BOOLEAN, NEW host, IsHost(host)
  PROVE  LET r == RootOf(a, host) IN
         /\ r.drive = host.drive /\ r.rooted = host.rooted /\ IsSeq(r.parts)
         /\ Len(r.parts) = IF a.directory \/ host.parts = <<>> THEN Len(host.parts) ELSE Len(host.parts) - 1
         /\ \A i \in 1..Len(r.parts) : r.parts[i] = host.parts[i]
         /\ Len(r.parts) <= Len(host.parts)
<1> DEFINE D == host.parts
           m == Len(D)
           r == RootOf(a, host)
           t == SubSeq(D, 1, m - 1)
<1>1. IsSeq(D) /\ m \in Nat /\ host = [drive |-> host.drive, rooted |-> host.rooted, parts |-> D]
  BY SeqIs DEF IsHost
<1>2. CASE a.directory \/ D = <<>>
  <2>1. r = host
    <3>1. a.directory => r = host BY DEF RootOf
    <3>2. ASSUME ~a.directory, D = <<>> PROVE r = host
      <4>1. r = [host EXCEPT !.parts = D] BY <3>2 DEF RootOf, Dirname
      <4> HIDE DEF r, D
      <4> QED BY <1>1, <4>1
    <3> QED BY <1>2, <3>1, <3>2
  <2> HIDE DEF r
  <2> QED BY <1>1, <1>2, <2>1 DEF r
<1>3. CASE ~(a.directory \/ D = <<>>)
  <2>1. r = [host EXCEPT !.parts = t] BY <1>3 DEF RootOf, Dirname, Front
  <2>2. m # 0
    <3> SUFFICES ASSUME m = 0 PROVE FALSE OBVIOUS
    <3>1. D = <<>> BY <1>1, EmptyIs, SameSequences
    <3> QED BY <1>3, <3>1
  <2> HIDE DEF m, r, D
  <2>0. PICK k : k = m - 1 OBVIOUS
  <2>3. /\ k \in Nat /\ 1 \in Nat \ {0} /\ 1 <= k + 1 /\ k <= Len(D) /\ k - 1 + 1 = k
        /\ \A i \in 1..k : 1 + i - 1 = i
    BY <1>1, <2>0, <2>2 DEF m
  <2>4. /\ IsSeq(t) /\ Len(t) = k - 1 + 1 /\ \A i \in 1..(k - 1 + 1) : t[i] = D[1 + i - 1]
    <3> DEFINE c == SubSeq(D, 1, k)
    <3>1. t = c BY <2>0
    <3>2. IsSeq(c) /\ Len(c) = k - 1 + 1 /\ \A i \in 1..(k - 1 + 1) : c[i] = D[1 + i - 1]
      <4>1. IsSeq(D) BY <1>1
      <4> HIDE DEF c
      <4>2. k \in Nat /\ 1 \in Nat \ {0} /\ 1 <= k + 1 /\ k <= Len(D) BY <2>3
      <4> QED BY <4>1, <4>2, PartIs DEF c
    <3> HIDE DEF c, t
    <3> QED BY <3>1, <3>2
  <2> HIDE DEF t
  <2>5. r = [drive |-> host.drive, rooted |-> host.rooted, parts |-> t] BY <1>1, <2>1
  <2>6. IsSeq(t) /\ Len(t) = m - 1 /\ \A i \in 1..(m - 1) : t[i] = D[i] BY <2>0, <2>3, <2>4
  <2>7. r.drive = host.drive /\ r.rooted = host.rooted /\ r.parts = t BY <2>5
  <2> QED BY <1>1, <1>3, <2>3, <2>6, <2>7 DEF r, m, D
<1> QED BY <1>2, <1>3

------------------------------------------------------------------------------
(* The translated line.                                                     *)

LEMMA GuestPathIs ==
  ASSUME NEW d, NEW root PROVE GuestPath(d, root) # NoPath
BY DEF GuestPath, NoPath

LEMMA RelocatedIs ==
  ASSUME NEW args, IsArgs(args), NEW paths, NEW cwd, NEW root, NEW w
  PROVE  LET mid == Relocated(args, paths, cwd, root, w) IN
         /\ Extended(args, mid, 0)
         /\ \A i \in DOMAIN args :
              /\ mid[i].kind = args[i].kind
              /\ (\E a \in paths : a.index = i) =>
                   mid[i].path = GuestPath(Host(cwd, args[i].path, w), root)
              /\ ~(\E a \in paths : a.index = i) => mid[i] = args[i]
<1> DEFINE n == Len(args)
           e == OptionsEnd(args)
           Relocates(i) == \E a \in paths : a.index = i
           p(i) == GuestPath(Host(cwd, args[i].path, w), root)
           f(i) == IF Relocates(i) THEN [kind |-> args[i].kind, path |-> p(i)] ELSE args[i]
           mid == Relocated(args, paths, cwd, root, w)
           s == [i \in 1..n |-> f(i)]
<1>1. IsSeq(args) /\ n \in Nat /\ DOMAIN args = 1..n /\ e \in 1..(n + 1)
  BY SeqIs, EndIs DEF IsArgs
<1>2. \A i \in 1..n : args[i] = [kind |-> args[i].kind, path |-> args[i].path]
  BY <1>1 DEF IsArgs
<1>3. mid = [i \in DOMAIN args |->
               IF Relocates(i) THEN [args[i] EXCEPT !.path = GuestPath(Host(cwd, @, w), root)] ELSE args[i]]
  BY DEF Relocated
<1>4. ASSUME NEW i \in 1..n
      PROVE  [args[i] EXCEPT !.path = GuestPath(Host(cwd, @, w), root)]
               = [kind |-> args[i].kind, path |-> p(i)]
  <2>1. args[i] = [kind |-> args[i].kind, path |-> args[i].path] BY <1>2
  <2>2. [args[i] EXCEPT !.path = GuestPath(Host(cwd, @, w), root)] = [args[i] EXCEPT !.path = p(i)] OBVIOUS
  <2> HIDE DEF p
  <2> QED BY <2>1, <2>2
<1> HIDE DEF mid, p, Relocates, n, e
<1>5. mid = s BY <1>1, <1>3, <1>4
<1>6. IsSeq(s) /\ Len(s) = n /\ \A i \in 1..n : s[i] = f(i)
  <2> HIDE DEF f
  <2>1. s = [i \in 1..n |-> s[i]] /\ \A i \in 1..n : s[i] = f(i) OBVIOUS
  <2> HIDE DEF s
  <2> QED BY <1>1, <2>1, ListIs
<1> HIDE DEF s
<1>7. \A i \in 1..n : /\ mid[i].kind = args[i].kind
                      /\ Relocates(i) => mid[i].path = p(i)
                      /\ ~Relocates(i) => mid[i] = args[i]
  BY <1>5, <1>6
<1>8. IsSeq(mid) /\ Len(mid) = n + 0 BY <1>1, <1>5, <1>6
<1>9. \A i \in 1..(e - 1) : mid[i].kind = args[i].kind
  <2>1. \A i \in 1..(e - 1) : i \in 1..n BY <1>1
  <2> QED BY <1>7, <2>1
<1>10. \A i \in e..n : mid[i + 0].kind = args[i].kind
  <2>1. \A i \in e..n : i \in 1..n /\ i + 0 = i BY <1>1
  <2> QED BY <1>7, <2>1
<1>11. \A i \in e..(e + 0 - 1) : mid[i].kind \in Dashed \ {"--"} BY <1>1
<1>12. Extended(args, mid, 0) BY <1>1, <1>8, <1>9, <1>10, <1>11 DEF Extended, n, e
<1> QED BY <1>1, <1>7, <1>12 DEF mid, Relocates, p

\* The current directory's prefix, when it is added.
PrefixOf(cwd, root, w) == [kind |-> "--src-prefix=", path |-> GuestPath(Parse(cwd, w), root)]

LEMMA TranslatedLineIs ==
  ASSUME NEW args, IsArgs(args), NEW paths, NEW cwd, NEW root, NEW w
  PROVE  LET mid == Relocated(args, paths, cwd, root, w)
             line == Line(args, paths, cwd, root, w)
             added == OperationName(args) = "compile" /\ paths # {} /\ ~Covered(args, paths, cwd, w)
         IN  /\ added => Extended(args, line, 1) /\ line[OptionsEnd(args)] = PrefixOf(cwd, root, w)
             /\ ~added => Extended(args, line, 0)
             /\ \A i \in DOMAIN args : line[Place(args, line, i)] = mid[i]
<1> DEFINE mid == Relocated(args, paths, cwd, root, w)
           line == Line(args, paths, cwd, root, w)
           added == OperationName(args) = "compile" /\ paths # {} /\ ~Covered(args, paths, cwd, w)
           extra == <<PrefixOf(cwd, root, w)>>
           e == OptionsEnd(args)
<1>1. Extended(args, mid, 0) BY RelocatedIs
<1>2. line = IF added THEN Splice(mid, extra) ELSE mid BY DEF Line, PrefixOf
<1> HIDE DEF mid, line, added, e
<1>3. /\ IsSeq(args) /\ IsSeq(mid) /\ Len(mid) = Len(args) /\ Len(args) \in Nat
      /\ DOMAIN args = 1..Len(args) /\ DOMAIN mid = 1..Len(args)
  <2>1. IsSeq(args) /\ IsSeq(mid) /\ Len(mid) = Len(args) + 0 BY <1>1 DEF Extended
  <2> QED BY <2>1, SeqIs
<1>4. OptionsEnd(mid) = e /\ e \in Nat
  <2>1. OptionsEnd(mid) = e + 0 BY <1>1, ExtendedEnd DEF e
  <2>2. e \in 1..(Len(args) + 1) BY <1>3, EndIs DEF e
  <2> QED BY <2>1, <2>2
<1>5. CASE ~added
  <2>1. line = mid BY <1>2, <1>5
  <2>2. ASSUME NEW i \in DOMAIN args PROVE Place(args, mid, i) = i
    <3>1. Place(args, mid, i) = i \/ Place(args, mid, i) = i + 0 BY <1>1, PlaceIs
    <3> QED BY <1>3, <3>1
  <2> QED BY <1>1, <1>5, <2>1, <2>2 DEF mid, line, added
<1>6. CASE added
  <2>1. line = Splice(mid, extra) BY <1>2, <1>6
  <2>2. /\ IsSeq(extra) /\ Len(extra) = 1 /\ DOMAIN extra = 1..1
        /\ extra[1] = PrefixOf(cwd, root, w) /\ extra[1].kind = "--src-prefix="
    <3>1. extra = [i \in 1..1 |-> extra[i]] OBVIOUS
    <3>2. IsSeq(extra) /\ Len(extra) = 1 /\ DOMAIN extra = 1..1
      <4> HIDE DEF extra
      <4> QED BY <3>1, ListIs
    <3> QED BY <3>2 DEF PrefixOf
  <2> HIDE DEF extra
  <2>3. \A i \in DOMAIN extra : extra[i].kind \in Dashed \ {"--"}
    <3>1. "--src-prefix=" \in Dashed \ {"--"} BY DEF Dashed, HoldsPath
    <3> QED BY <2>2, <3>1
  <2>4. /\ Extended(mid, line, 1)
        /\ \A i \in DOMAIN mid : line[Place(mid, line, i)] = mid[i]
        /\ \A i \in 1..1 : line[e - 1 + i] = extra[i]
    <3>1. IsSeq(mid) /\ IsSeq(extra) BY <1>3, <2>2
    <3>2. /\ Extended(mid, line, Len(extra))
          /\ \A i \in DOMAIN mid : line[Place(mid, line, i)] = mid[i]
          /\ \A i \in 1..Len(extra) : line[OptionsEnd(mid) - 1 + i] = extra[i]
      BY <2>1, <2>3, <3>1, SpliceIs
    <3> QED BY <1>4, <2>2, <3>2
  <2>5. Extended(args, line, 1) BY <1>1, <2>4, ExtendedThrough
  <2>6. e - 1 + 1 = e /\ 1 \in 1..1 BY <1>4
  <2>7. line[e] = PrefixOf(cwd, root, w) BY <2>2, <2>4, <2>6
  <2>8. \A i \in DOMAIN args : Place(args, line, i) = Place(mid, line, i)
    BY <1>3, <1>4 DEF Place, e
  <2> QED BY <1>3, <1>6, <2>4, <2>5, <2>7, <2>8 DEF mid, line, added, e
<1> QED BY <1>5, <1>6

------------------------------------------------------------------------------
(* What the compiler reads on the translated line.                          *)

\* line is args, its paths relocated to root, with x prefixes added, which no
\* option takes for its value.
Reads(args, line, x, cwd, root, w) ==
  /\ IsArgs(args) /\ x \in {0, 1} /\ Extended(args, line, x)
  /\ x = 1 => Settled(args)
  /\ x = 1 <=> OperationName(args) = "compile" /\ PathsIn(args) # {} /\ ~Covered(args, PathsIn(args), cwd, w)
  /\ x = 1 => line[OptionsEnd(args)] = PrefixOf(cwd, root, w)
  /\ \A i \in DOMAIN args :
       LET c == line[Place(args, line, i)] IN
       /\ c.kind = args[i].kind
       /\ (\E a \in PathsIn(args) : a.index = i) => c.path = GuestPath(Host(cwd, args[i].path, w), root)
       /\ ~(\E a \in PathsIn(args) : a.index = i) => c = args[i]

LEMMA LineReads ==
  ASSUME NEW args, IsArgs(args), NEW cwd, NEW root, NEW w,
         Settled(args) \/ Len(Line(args, PathsIn(args), cwd, root, w)) = Len(args)
  PROVE  \E x \in {0, 1} : Reads(args, Line(args, PathsIn(args), cwd, root, w), x, cwd, root, w)
<1> DEFINE paths == PathsIn(args)
           mid == Relocated(args, paths, cwd, root, w)
           line == Line(args, paths, cwd, root, w)
           added == OperationName(args) = "compile" /\ paths # {} /\ ~Covered(args, paths, cwd, w)
           x == IF added THEN 1 ELSE 0
           Is(c, i) == /\ c.kind = args[i].kind
                       /\ (\E a \in paths : a.index = i) =>
                            c.path = GuestPath(Host(cwd, args[i].path, w), root)
                       /\ ~(\E a \in paths : a.index = i) => c = args[i]
<1>1. \A i \in DOMAIN args : Is(mid[i], i) BY RelocatedIs
<1>2. /\ added => Extended(args, line, 1) /\ line[OptionsEnd(args)] = PrefixOf(cwd, root, w)
      /\ ~added => Extended(args, line, 0)
      /\ \A i \in DOMAIN args : line[Place(args, line, i)] = mid[i]
  BY TranslatedLineIs
<1>a. added => Settled(args)
  <2>1. added => Len(line) = Len(args) + 1 /\ IsSeq(args) BY <1>2 DEF Extended
  <2>2. IsSeq(args) => Len(args) \in Nat BY SeqIs
  <2> QED BY <2>1, <2>2
<1> HIDE DEF Is, line, mid, added
<1>3. \A i \in DOMAIN args : Is(line[Place(args, line, i)], i) BY <1>1, <1>2
<1>4. x \in {0, 1} /\ Extended(args, line, x) /\ (x = 1 <=> added)
      /\ (x = 1 => line[OptionsEnd(args)] = PrefixOf(cwd, root, w))
  BY <1>2
<1> HIDE DEF x
<1>5. Reads(args, line, x, cwd, root, w) BY <1>a, <1>3, <1>4 DEF Reads, Is, added
<1> QED BY <1>4, <1>5 DEF line

\* A path of the translated line that is one of the caller's.
IsPlaced(args, line, b) == \E a \in PathsIn(args) : b = Placed(args, line, a)

\* A path a of the caller's is read where it was put, as p.
IsReadAs(args, line, a, p) ==
  LET b == Placed(args, line, a) IN
  /\ a.index \in DOMAIN args /\ b \in PathsIn(line)
  /\ b.index = Place(args, line, a.index)
  /\ b.attached = a.attached /\ b.directory = a.directory
  /\ line[b.index].path = p

LEMMA PathsRead ==
  ASSUME NEW args, NEW line, NEW x, NEW cwd, NEW root, NEW w, Reads(args, line, x, cwd, root, w)
  PROVE  /\ \A a \in PathsIn(args) :
              IsReadAs(args, line, a, GuestPath(Host(cwd, args[a.index].path, w), root))
         /\ \A b \in PathsIn(line) :
              \/ IsPlaced(args, line, b)
              \/ x = 1 /\ b.index = OptionsEnd(args) /\ b.attached
         /\ x = 1 => [index |-> OptionsEnd(args), attached |-> TRUE, directory |-> TRUE] \in PathsIn(line)
<1> DEFINE e == OptionsEnd(args)
           pre == [index |-> e, attached |-> TRUE, directory |-> TRUE]
<1>1. /\ IsArgs(args) /\ x \in {0, 1} /\ Extended(args, line, x) /\ (x = 1 => Settled(args))
      /\ x = 1 => OperationName(args) = "compile"
      /\ x = 1 => line[e] = PrefixOf(cwd, root, w)
      /\ \A i \in DOMAIN args :
           LET c == line[Place(args, line, i)] IN
           /\ (\E a \in PathsIn(args) : a.index = i) => c.path = GuestPath(Host(cwd, args[i].path, w), root)
           /\ ~(\E a \in PathsIn(args) : a.index = i) => c = args[i]
  BY DEF Reads
<1> HIDE DEF e
<1>2. x = 1 => /\ OperationName(args) # "none" /\ Operation(args) # 0
               /\ line[e].kind = "--src-prefix="
               /\ line[e].path = GuestPath(Parse(cwd, w), root)
  BY <1>1, NamedIs DEF PrefixOf
<1>3. /\ \A a \in PathArguments(args) :
              a.index \in DOMAIN args /\ Placed(args, line, a) \in PathArguments(line)
      /\ \A b \in PathArguments(line) :
              \/ \E a \in PathArguments(args) : b = Placed(args, line, a)
              \/ x = 1 /\ b.index = e /\ b.attached
  BY <1>1, <1>2, PathsExtended DEF e
<1>4. ASSUME NEW a \in PathArguments(args)
      PROVE  LET b == Placed(args, line, a) IN
             /\ b.index = Place(args, line, a.index)
             /\ b.attached = a.attached /\ b.directory = a.directory
  <2>1. a \in PathRecords(args) BY PathsAre
  <2> QED BY <2>1 DEF Placed, PathRecords
<1>5. ASSUME NEW a \in PathsIn(args)
      PROVE  LET b == Placed(args, line, a) IN
             /\ a.index \in DOMAIN args /\ b \in PathsIn(line)
             /\ b.index = Place(args, line, a.index)
             /\ b.attached = a.attached /\ b.directory = a.directory
             /\ line[b.index].path = GuestPath(Host(cwd, args[a.index].path, w), root)
  <2> DEFINE b == Placed(args, line, a)
  <2>1. a \in PathArguments(args) BY DEF PathsIn
  <2>2. /\ a.index \in DOMAIN args /\ b \in PathArguments(line)
        /\ b.index = Place(args, line, a.index)
        /\ b.attached = a.attached /\ b.directory = a.directory
    BY <1>3, <1>4, <2>1
  <2>3. line[b.index].path = GuestPath(Host(cwd, args[a.index].path, w), root) BY <1>1, <2>2
  <2>4. b \in PathsIn(line) BY <2>2, <2>3, GuestPathIs DEF PathsIn, Empty
  <2> QED BY <2>2, <2>3, <2>4
<1>6. ASSUME NEW b \in PathsIn(line)
      PROVE  \/ \E a \in PathsIn(args) : b = Placed(args, line, a)
             \/ x = 1 /\ b.index = e /\ b.attached
  <2>1. b \in PathArguments(line) /\ line[b.index].path # NoPath BY DEF PathsIn, Empty
  <2>2. ASSUME NEW a \in PathArguments(args), b = Placed(args, line, a) PROVE a \in PathsIn(args)
    <3> SUFFICES ASSUME args[a.index].path = NoPath PROVE FALSE BY DEF PathsIn, Empty
    <3>1. ~(\E c \in PathsIn(args) : c.index = a.index) BY DEF PathsIn, Empty
    <3>2. a.index \in DOMAIN args /\ b.index = Place(args, line, a.index) BY <1>3, <1>4, <2>2
    <3>3. line[b.index] = args[a.index] BY <1>1, <3>1, <3>2
    <3> QED BY <2>1, <3>3
  <2> QED BY <1>3, <2>1, <2>2
<1>7. ASSUME x = 1 PROVE pre \in PathsIn(line)
  <2>1. pre \in PathArguments(line) BY <1>1, <1>2, <1>7, PrefixRead DEF e
  <2>2. line[pre.index].path # NoPath BY <1>2, <1>7, GuestPathIs
  <2> QED BY <2>1, <2>2 DEF PathsIn, Empty
<1> QED BY <1>5, <1>6, <1>7 DEF e, IsPlaced, IsReadAs

LEMMA ArgumentsSame ==
  ASSUME NEW args, NEW line, NEW x, NEW cwd, NEW root, NEW w, Reads(args, line, x, cwd, root, w)
  PROVE  SameArguments(args, line)
<1> DEFINE e == OptionsEnd(args)
           n == Len(args)
<1>1. /\ x \in {0, 1} /\ IsSeq(args) /\ Len(line) = n + x
      /\ x = 1 => line[e].kind = "--src-prefix="
      /\ \A i \in DOMAIN args :
           LET c == line[Place(args, line, i)] IN
           /\ c.kind = args[i].kind
           /\ ~(\E a \in PathsIn(args) : a.index = i) => c = args[i]
  BY DEF Reads, Extended, PrefixOf
<1>2. n \in Nat BY <1>1, SeqIs
<1> HIDE DEF e, n
<1>3. Len(line) \in {n, n + 1} /\ (x = 1 => Len(line) > n) BY <1>1, <1>2
<1>4. \A a \in PathsIn(args) : Placed(args, line, a) \in PathsIn(line) BY PathsRead DEF IsReadAs
<1>6. \A b \in PathsIn(line) :
        \/ IsPlaced(args, line, b)
        \/ x = 1 /\ b.index = e /\ b.attached
  BY PathsRead DEF e
<1>5. \A b \in PathsIn(line) :
        \/ \E a \in PathsIn(args) : b = Placed(args, line, a)
        \/ Len(line) > n /\ b.index = e /\ GivesPrefix(line, b)
  BY <1>1, <1>3, <1>6 DEF GivesPrefix, IsPlaced
<1> QED BY <1>1, <1>3, <1>4, <1>5 DEF SameArguments, e, n

------------------------------------------------------------------------------
(* The host paths below their common root.                                  *)

LEMMA FrontIs ==
  ASSUME NEW s, IsSeq(s)
  PROVE  /\ s = <<>> => Front(s) = <<>>
         /\ Len(s) # 0 => /\ IsSeq(Front(s)) /\ Len(Front(s)) = Len(s) - 1
                          /\ \A i \in 1..Len(Front(s)) : Front(s)[i] = s[i]
<1>1. ASSUME s = <<>> PROVE Front(s) = <<>>
  <2>1. Front(s) = SubSeq(<<>>, 1, 0 - 1) BY <1>1, EmptyIs DEF Front
  <2> QED BY <2>1
<1>2. ASSUME Len(s) # 0
      PROVE  IsSeq(Front(s)) /\ Len(Front(s)) = Len(s) - 1 /\ \A i \in 1..Len(Front(s)) : Front(s)[i] = s[i]
  <2>1. Len(s) \in Nat BY SeqIs
  <2>2. PICK k : k = Len(s) - 1 OBVIOUS
  <2>3. /\ k \in Nat /\ 1 \in Nat \ {0} /\ 1 <= k + 1 /\ k <= Len(s) /\ k - 1 + 1 = k
        /\ \A i \in 1..k : 1 + i - 1 = i
    BY <1>2, <2>1, <2>2
  <2> DEFINE t == SubSeq(s, 1, k)
  <2>4. IsSeq(t) /\ Len(t) = k - 1 + 1 /\ \A i \in 1..(k - 1 + 1) : t[i] = s[1 + i - 1]
    <3>1. k \in Nat /\ 1 \in Nat \ {0} /\ 1 <= k + 1 /\ k <= Len(s) BY <2>3
    <3> HIDE DEF t
    <3> QED BY <3>1, PartIs DEF t
  <2>5. Front(s) = t BY <2>2 DEF Front
  <2> HIDE DEF t
  <2> QED BY <2>2, <2>3, <2>4, <2>5
<1> QED BY <1>1, <1>2

LEMMA FoldedPrefix ==
  ASSUME NEW s, NEW t, IsSeq(s), IsSeq(t), NEW w, Len(s) <= Len(t),
         \A i \in 1..Len(s) : Same(s[i], t[i], w)
  PROVE  IsPrefix(Folded(s, w), Folded(t, w))
<1> DEFINE f(x) == IF w THEN Fold(x) ELSE x
           m == Len(s)
           n == Len(t)
           S == Folded(s, w)
           T == Folded(t, w)
<1>1. m \in Nat /\ n \in Nat /\ DOMAIN s = 1..m /\ DOMAIN t = 1..n BY SeqIs
<1>2. S = [i \in 1..m |-> f(s[i])] /\ T = [i \in 1..n |-> f(t[i])] BY <1>1 DEF Folded
<1>3. \A i \in 1..m : f(s[i]) = f(t[i]) BY SameIs
<1> HIDE DEF S, T, m, n, f
<1>4. S = [i \in 1..m |-> S[i]] /\ T = [i \in 1..n |-> T[i]] BY <1>2
<1>5. IsSeq(S) /\ Len(S) = m /\ IsSeq(T) /\ Len(T) = n BY <1>1, <1>4, ListIs
<1>6. m <= n BY DEF m, n
<1>7. \A i \in 1..m : i \in 1..n /\ S[i] = T[i] BY <1>1, <1>2, <1>3, <1>6
<1> DEFINE A == SubSeq(S, 1, m)
           B == SubSeq(T, 1, m)
<1>8. m - 1 + 1 = m /\ 1 <= m + 1 /\ 1 \in Nat \ {0} /\ m \in Nat /\ \A i \in 1..m : 1 + i - 1 = i BY <1>1
<1>9. IsSeq(A) /\ Len(A) = m /\ \A i \in 1..m : A[i] = S[i]
  <2>1. m <= Len(S) BY <1>5, <1>8
  <2>2. IsSeq(A) /\ Len(A) = m - 1 + 1 /\ \A i \in 1..(m - 1 + 1) : A[i] = S[1 + i - 1]
    <3>1. IsSeq(S) BY <1>5
    <3> QED BY <3>1, <2>1, <1>8, PartIs
  <2> HIDE DEF A
  <2> QED BY <1>8, <2>2
<1>10. IsSeq(B) /\ Len(B) = m /\ \A i \in 1..m : B[i] = T[i]
  <2>1. m <= Len(T) BY <1>5, <1>6
  <2>2. IsSeq(B) /\ Len(B) = m - 1 + 1 /\ \A i \in 1..(m - 1 + 1) : B[i] = T[1 + i - 1]
    <3>1. IsSeq(T) BY <1>5
    <3> QED BY <3>1, <2>1, <1>8, PartIs
  <2> HIDE DEF B
  <2> QED BY <1>8, <2>2
<1> HIDE DEF A, B
<1>11. A = B
  <2>1. Len(A) = Len(B) /\ \A i \in 1..Len(A) : A[i] = B[i] BY <1>7, <1>9, <1>10
  <2>2. IsSeq(A) /\ IsSeq(B) BY <1>9, <1>10
  <2> QED BY <2>1, <2>2, SameSequences
<1>12. SubSeq(S, 1, Len(S)) = A /\ SubSeq(T, 1, Len(S)) = B BY <1>5 DEF A, B
<1> QED BY <1>5, <1>6, <1>11, <1>12 DEF IsPrefix, S, T

Roots(args, cwd, w) == RootsOf(args, PathsIn(args), cwd, w)
RootIn(args, cwd, w) == CommonPath(Parse(cwd, w), Roots(args, cwd, w), w)
OnVolume(args, cwd, w) == OneVolume(Parse(cwd, w), Roots(args, cwd, w), w)

LEMMA RootsAre ==
  ASSUME NEW args, NEW cwd, NEW w
  PROVE  /\ \A a \in PathsIn(args) : RootOf(a, Host(cwd, args[a.index].path, w)) \in Roots(args, cwd, w)
         /\ \A d \in Roots(args, cwd, w) :
              \E a \in PathsIn(args) : d = RootOf(a, Host(cwd, args[a.index].path, w))
BY DEF Roots, RootsOf, RootOf

\* One path, where it is and how the root lies above it.
LEMMA PathOnVolume ==
  ASSUME NEW w \in BOOLEAN, NEW args, IsArgs(args), NEW cwd, IsCwd(cwd, w), OnVolume(args, cwd, w),
         NEW a \in PathsIn(args), a.index \in DOMAIN args
  PROVE  LET host == Host(cwd, args[a.index].path, w)
             r == RootOf(a, host)
         IN  /\ IsHost(host) /\ Clean(host.parts) /\ Parse(Format(host), w) = host
             /\ Same(host.drive, Parse(cwd, w).drive, w)
             /\ IsSeq(r.parts) /\ Len(r.parts) <= Len(host.parts)
             /\ \A i \in 1..Len(r.parts) : r.parts[i] = host.parts[i]
             /\ Len(r.parts) = IF a.directory \/ host.parts = <<>>
                               THEN Len(host.parts) ELSE Len(host.parts) - 1
<1> DEFINE host == Host(cwd, args[a.index].path, w)
           r == RootOf(a, host)
           here == Parse(cwd, w)
<1>1. IsText(cwd) /\ IsText(args[a.index].path) BY DEF IsCwd, IsArgs
<1>2. here.rooted = TRUE BY CwdIs
<1>3. r \in Roots(args, cwd, w) BY RootsAre
<1> HIDE DEF here
<1>4. Same(r.drive, here.drive, w) /\ r.rooted = here.rooted BY <1>3 DEF OnVolume, OneVolume, here
<1>5. r.drive = host.drive /\ r.rooted = host.rooted
  <2>1. host = [drive |-> host.drive, rooted |-> host.rooted, parts |-> host.parts] BY DEF Host, Parse
  <2>2. r = host \/ r = Dirname(host) BY DEF RootOf
  <2> HIDE DEF host, r
  <2> QED BY <2>1, <2>2 DEF Dirname
<1>6. host.rooted = TRUE BY <1>2, <1>4, <1>5
<1>7. IsHost(host) /\ Clean(host.parts) /\ Parse(Format(host), w) = host BY <1>1, <1>6, HostIs
<1>8. a.directory \in BOOLEAN
  <2>1. a \in PathRecords(args) BY PathsAre DEF PathsIn
  <2> QED BY <2>1 DEF PathRecords
<1> HIDE DEF host, r
<1>9. /\ IsSeq(r.parts) /\ Len(r.parts) <= Len(host.parts)
      /\ \A i \in 1..Len(r.parts) : r.parts[i] = host.parts[i]
      /\ Len(r.parts) = IF a.directory \/ host.parts = <<>> THEN Len(host.parts) ELSE Len(host.parts) - 1
  BY <1>7, <1>8, RootOfIs DEF r
<1> QED BY <1>4, <1>5, <1>7, <1>9 DEF host, r, here

\* The root is above the current directory and above every path.
LEMMA RootIs ==
  ASSUME NEW w \in BOOLEAN, NEW args, IsArgs(args), NEW cwd, IsCwd(cwd, w), OnVolume(args, cwd, w),
         \A a \in PathsIn(args) : a.index \in DOMAIN args
  PROVE  LET here == Parse(cwd, w)
             root == RootIn(args, cwd, w)
             n == Len(root.parts)
         IN  /\ IsHost(here) /\ Clean(here.parts)
             /\ IsHost(root) /\ root.drive = here.drive
             /\ n \in Nat /\ n <= Len(here.parts)
             /\ \A i \in 1..n : root.parts[i] = here.parts[i]
             /\ \A d \in Roots(args, cwd, w) : n <= Shared(here.parts, d.parts, w)
             /\ n < Len(here.parts) => StopsIn(here.parts, Roots(args, cwd, w), n, w)
<1> DEFINE here == Parse(cwd, w)
           ds == Roots(args, cwd, w)
<1>1. IsHost(here) /\ Clean(here.parts) BY CwdIs
<1>2. \A d \in ds : IsSeq(d.parts)
  <2> SUFFICES ASSUME NEW d \in ds PROVE IsSeq(d.parts) OBVIOUS
  <2>1. PICK a \in PathsIn(args) : d = RootOf(a, Host(cwd, args[a.index].path, w)) BY RootsAre
  <2> QED BY <2>1, PathOnVolume
<1> HIDE DEF here, ds
<1>3. RootIn(args, cwd, w) = CommonPath(here, ds, w) BY DEF RootIn, here, ds
<1> DEFINE root == CommonPath(here, ds, w)
           n == Len(root.parts)
<1>4. /\ IsHost(root) /\ root.drive = here.drive
      /\ n \in Nat /\ n <= Len(here.parts)
      /\ \A i \in 1..n : root.parts[i] = here.parts[i]
      /\ \A d \in ds : n <= Shared(here.parts, d.parts, w)
      /\ n < Len(here.parts) => StopsIn(here.parts, ds, n, w)
  <2>1. IsHost(here) BY <1>1
  <2> QED BY <2>1, <1>2, CommonIs
<1> HIDE DEF root
<1>5. root = RootIn(args, cwd, w) BY <1>3 DEF root
<1> QED BY <1>1, <1>4, <1>5 DEF here, ds

------------------------------------------------------------------------------
(* What the translation owes.                                               *)

\* All that the translation below a root starts from, and the line it gives.
Translates(args, line, x, cwd, w) ==
  /\ IsCwd(cwd, w) /\ OnVolume(args, cwd, w)
  /\ Reads(args, line, x, cwd, RootIn(args, cwd, w), w)

LEMMA TranslatesIs ==
  ASSUME NEW w \in BOOLEAN, NEW args, NEW line, NEW x, NEW cwd, Translates(args, line, x, cwd, w)
  PROVE  LET here == Parse(cwd, w)
             root == RootIn(args, cwd, w)
             n == Len(root.parts)
         IN  /\ IsArgs(args) /\ IsHost(here) /\ Clean(here.parts) /\ IsHost(root) /\ root.drive = here.drive
             /\ n \in Nat /\ n <= Len(here.parts)
             /\ \A i \in 1..n : root.parts[i] = here.parts[i]
             /\ \A d \in Roots(args, cwd, w) : n <= Shared(here.parts, d.parts, w)
             /\ n < Len(here.parts) => StopsIn(here.parts, Roots(args, cwd, w), n, w)
             /\ \A a \in PathsIn(args) : a.index \in DOMAIN args
<1>1. IsCwd(cwd, w) /\ OnVolume(args, cwd, w) /\ Reads(args, line, x, cwd, RootIn(args, cwd, w), w)
  BY DEF Translates
<1>2. IsArgs(args) BY <1>1 DEF Reads
<1>3. \A a \in PathsIn(args) : a.index \in DOMAIN args BY <1>1, PathsRead DEF IsReadAs
<1> QED BY <1>1, <1>2, <1>3, RootIs

\* A host path below the root, and its guest path.
LiesBelow(d, root, w) ==
  LET g == GuestPath(d, root)
      n == Len(root.parts)
  IN  /\ IsSeq(g.segs) /\ Len(g.segs) = Len(d.parts) - n
      /\ \A i \in 1..Len(g.segs) : g.segs[i] = d.parts[n + i]
      /\ Denotes(root, g, w) = Folded(d.parts, w)

LEMMA HereBelow ==
  ASSUME NEW w \in BOOLEAN, NEW args, NEW line, NEW x, NEW cwd, Translates(args, line, x, cwd, w)
  PROVE  LiesBelow(Parse(cwd, w), RootIn(args, cwd, w), w)
<1> DEFINE here == Parse(cwd, w)
           root == RootIn(args, cwd, w)
           n == Len(root.parts)
<1>1. /\ Clean(here.parts) /\ IsHost(root) /\ n \in Nat /\ n <= Len(here.parts)
      /\ \A i \in 1..n : root.parts[i] = here.parts[i]
  BY TranslatesIs
<1> HIDE DEF here, root
<1>2. IsSeq(root.parts) BY <1>1 DEF IsHost
<1>3. \A i \in 1..Len(root.parts) : Same(root.parts[i], here.parts[i], w) BY <1>1, SameIs
<1> QED BY <1>1, <1>2, <1>3, BelowIs DEF here, root, LiesBelow

\* The guest path of one of the caller's.
LEMMA PathBelow ==
  ASSUME NEW w \in BOOLEAN, NEW args, NEW line, NEW x, NEW cwd, Translates(args, line, x, cwd, w),
         NEW a \in PathsIn(args)
  PROVE  LET host == Host(cwd, args[a.index].path, w)
             r == RootOf(a, host)
             root == RootIn(args, cwd, w)
         IN  /\ Len(root.parts) <= Len(r.parts) /\ LiesBelow(host, root, w)
             /\ Same(host.drive, root.drive, w)
             /\ Parse(Format(host), w) = host
<1> DEFINE here == Parse(cwd, w)
           host == Host(cwd, args[a.index].path, w)
           r == RootOf(a, host)
           root == RootIn(args, cwd, w)
           n == Len(root.parts)
           H == here.parts
<1>1. /\ IsArgs(args) /\ IsHost(here) /\ IsHost(root) /\ root.drive = here.drive
      /\ n \in Nat /\ n <= Len(H)
      /\ \A i \in 1..n : root.parts[i] = H[i]
      /\ \A d \in Roots(args, cwd, w) : n <= Shared(H, d.parts, w)
      /\ a.index \in DOMAIN args
  BY TranslatesIs
<1>2. IsCwd(cwd, w) /\ OnVolume(args, cwd, w) BY DEF Translates
<1>3. /\ IsHost(host) /\ Clean(host.parts) /\ Parse(Format(host), w) = host
      /\ Same(host.drive, here.drive, w)
      /\ IsSeq(r.parts) /\ Len(r.parts) <= Len(host.parts)
      /\ \A i \in 1..Len(r.parts) : r.parts[i] = host.parts[i]
  BY <1>1, <1>2, PathOnVolume
<1>4. r \in Roots(args, cwd, w) BY RootsAre
<1> HIDE DEF here, host, r, root
<1>5. IsSeq(H) /\ IsSeq(root.parts) /\ IsSeq(host.parts) BY <1>1, <1>3 DEF IsHost
<1>6. Len(r.parts) \in Nat /\ Len(host.parts) \in Nat
  <2>1. IsSeq(r.parts) /\ IsSeq(host.parts) BY <1>3, <1>5
  <2> QED BY <2>1, SeqIs
<1> DEFINE m == Shared(H, r.parts, w)
<1>7. m \in Nat /\ m <= Len(r.parts) /\ \A i \in 1..m : Same(H[i], r.parts[i], w)
  <2>1. IsSeq(H) /\ IsSeq(r.parts) BY <1>3, <1>5
  <2> QED BY <2>1, SharedIs
<1>8. n <= m BY <1>1, <1>4
<1> HIDE DEF m
<1>9. n <= Len(r.parts) /\ n <= Len(host.parts) BY <1>1, <1>3, <1>6, <1>7, <1>8
<1>10. \A i \in 1..n : i \in 1..m /\ i \in 1..Len(r.parts) BY <1>1, <1>6, <1>7, <1>8, <1>9
<1>11. \A i \in 1..n : Same(root.parts[i], host.parts[i], w) BY <1>1, <1>3, <1>7, <1>10
<1>12. LiesBelow(host, root, w)
  <2>1. IsSeq(root.parts) /\ Clean(host.parts) BY <1>3, <1>5
  <2> QED BY <2>1, <1>9, <1>11, BelowIs DEF LiesBelow
<1> QED BY <1>1, <1>3, <1>9, <1>12 DEF here, host, r, root

\* Each path names what it named.
LEMMA PathsSame ==
  ASSUME NEW w \in BOOLEAN, NEW args, NEW line, NEW x, NEW cwd, Translates(args, line, x, cwd, w),
         NEW result, result.root = RootIn(args, cwd, w), result.args = line
  PROVE  SamePaths(args, cwd, result, w)
<1> SUFFICES ASSUME NEW a \in PathsIn(args)
             PROVE  LET host == Host(cwd, args[a.index].path, w)
                        got == line[Place(args, line, a.index)].path
                    IN  /\ Denotes(result.root, got, w) = Folded(host.parts, w)
                        /\ Same(host.drive, result.root.drive, w)
                        /\ Parse(Format(host), w) = host
  BY DEF SamePaths
<1> DEFINE host == Host(cwd, args[a.index].path, w)
           root == RootIn(args, cwd, w)
<1>1. Reads(args, line, x, cwd, root, w) BY DEF Translates
<1>2. line[Place(args, line, a.index)].path = GuestPath(host, root)
  <2>1. IsReadAs(args, line, a, GuestPath(host, root)) BY <1>1, PathsRead
  <2> QED BY <2>1 DEF IsReadAs
<1>3. LiesBelow(host, root, w) /\ Same(host.drive, root.drive, w) /\ Parse(Format(host), w) = host
  BY PathBelow
<1> QED BY <1>2, <1>3 DEF LiesBelow

\* No deeper directory would do.
LEMMA RootIsTight ==
  ASSUME NEW w \in BOOLEAN, NEW args, NEW line, NEW x, NEW cwd, Translates(args, line, x, cwd, w),
         NEW result, result.root = RootIn(args, cwd, w), result.args = line,
         result.cwd = GuestPath(Parse(cwd, w), RootIn(args, cwd, w))
  PROVE  RootTight(result, Parse(cwd, w), w)
<1> DEFINE here == Parse(cwd, w)
           root == RootIn(args, cwd, w)
           n == Len(root.parts)
           H == here.parts
           gc == GuestPath(here, root)
<1>1. /\ IsArgs(args) /\ IsHost(here) /\ n \in Nat /\ n <= Len(H)
      /\ n < Len(H) => StopsIn(H, Roots(args, cwd, w), n, w)
      /\ \A a \in PathsIn(args) : a.index \in DOMAIN args
  BY TranslatesIs
<1>2. /\ IsSeq(gc.segs) /\ Len(gc.segs) = Len(H) - n
      /\ \A i \in 1..Len(gc.segs) : gc.segs[i] = H[n + i]
      /\ Denotes(root, gc, w) = Folded(H, w)
  <2>1. LiesBelow(here, root, w) BY HereBelow
  <2> QED BY <2>1 DEF LiesBelow
<1>3. IsCwd(cwd, w) /\ OnVolume(args, cwd, w) /\ Reads(args, line, x, cwd, root, w) BY DEF Translates
<1>4. ASSUME n < Len(H)
      PROVE  \E b \in PathsIn(line) :
               LET p == line[b.index].path
                   inside == IF b.directory THEN p.segs ELSE Front(p.segs)
               IN  inside = <<>> \/ ~Same(inside[1], gc.segs[1], w)
  <2>1. PICK d \in Roots(args, cwd, w) : n = Shared(H, d.parts, w) BY <1>1, <1>4 DEF StopsIn
  <2>2. PICK a \in PathsIn(args) : d = RootOf(a, Host(cwd, args[a.index].path, w)) BY RootsAre
  <2> DEFINE host == Host(cwd, args[a.index].path, w)
             r == RootOf(a, host)
             b == Placed(args, line, a)
             g == GuestPath(host, root)
             D == r.parts
             t == IF a.directory THEN g.segs ELSE Front(g.segs)
  <2>3. b \in PathsIn(line) /\ b.directory = a.directory /\ line[b.index].path = g
    <3>1. IsReadAs(args, line, a, g) BY <1>3, PathsRead
    <3> QED BY <3>1 DEF IsReadAs
  <2>4. /\ IsHost(host) /\ IsSeq(D) /\ Len(D) <= Len(host.parts)
        /\ \A i \in 1..Len(D) : D[i] = host.parts[i]
        /\ Len(D) = IF a.directory \/ host.parts = <<>> THEN Len(host.parts) ELSE Len(host.parts) - 1
    BY <1>1, <1>3, PathOnVolume
  <2>5. /\ n <= Len(D) /\ IsSeq(g.segs) /\ Len(g.segs) = Len(host.parts) - n
        /\ \A i \in 1..Len(g.segs) : g.segs[i] = host.parts[n + i]
    <3>1. n <= Len(D) /\ LiesBelow(host, root, w) BY PathBelow
    <3> QED BY <3>1 DEF LiesBelow
  <2>6. n = Shared(H, D, w) BY <2>1, <2>2
  <2> HIDE DEF here, root, host, r, b, g
  <2>7. IsSeq(H) /\ IsSeq(host.parts) BY <1>1, <2>4 DEF IsHost
  <2>8. Len(H) \in Nat /\ Len(D) \in Nat /\ Len(host.parts) \in Nat /\ Len(g.segs) \in Nat
    <3>1. IsSeq(D) /\ IsSeq(g.segs) BY <2>4, <2>5
    <3> QED BY <2>7, <3>1, SeqIs
  <2>9. t = <<>> \/ ~Same(t[1], H[n + 1], w)
    <3>1. CASE a.directory \/ Len(g.segs) # 0
      <4>1. IsSeq(t) /\ Len(t) = Len(D) - n /\ \A i \in 1..Len(t) : t[i] = g.segs[i]
        <5>1. CASE a.directory
          <6>1. t = g.segs BY <5>1
          <6>2. Len(D) = Len(host.parts) BY <2>4, <5>1
          <6> HIDE DEF t, D
          <6> QED BY <2>5, <6>1, <6>2
        <5>2. CASE ~a.directory /\ Len(g.segs) # 0
          <6>1. t = Front(g.segs) BY <5>2
          <6> DEFINE s == g.segs
          <6>2. IsSeq(s) BY <2>5
          <6> HIDE DEF s, t
          <6>3. Len(s) # 0 BY <5>2 DEF s
          <6>4. IsSeq(t) /\ Len(t) = Len(s) - 1 /\ \A i \in 1..Len(t) : t[i] = s[i]
            BY <6>1, <6>2, <6>3, FrontIs DEF s
          <6>5. host.parts # <<>> BY <2>5, <2>7, <2>8, <1>1, <6>3, EmptyIs DEF s
          <6>6. Len(s) = Len(D) + 1 - n BY <1>1, <2>4, <2>5, <2>8, <5>2, <6>5 DEF s
          <6>7. Len(t) = Len(D) - n BY <1>1, <2>8, <6>4, <6>6
          <6>8. IsSeq(t) /\ \A i \in 1..Len(t) : t[i] = g.segs[i] BY <6>4 DEF s
          <6> HIDE DEF n, D
          <6> QED BY <6>7, <6>8
        <5> QED BY <3>1, <5>1, <5>2
      <4> HIDE DEF t, D
      <4>2. \A i \in 1..Len(t) : i \in 1..Len(g.segs) /\ n + i \in 1..Len(D)
        BY <1>1, <2>4, <2>5, <2>8, <4>1
      <4>3. \A i \in 1..Len(t) : t[i] = D[n + i] BY <2>4, <2>5, <4>1, <4>2
      <4>4. IsSeq(t) /\ IsSeq(D) /\ IsSeq(H) /\ Len(t) = Len(D) - n BY <2>4, <2>7, <4>1
      <4> QED BY <1>1, <1>4, <2>6, <4>3, <4>4, StopsAt
    <3>2. CASE ~a.directory /\ Len(g.segs) = 0
      <4>1. g.segs = <<>>
        <5>1. IsSeq(g.segs) BY <2>5
        <5> QED BY <3>2, <5>1, EmptyIs, SameSequences
      <4>2. t = <<>> BY <3>2, <4>1, FrontIs, EmptyIs
      <4> QED BY <4>2
    <3> QED BY <3>1, <3>2
  <2>10. gc.segs[1] = H[n + 1]
    <3>1. 1 \in 1..Len(gc.segs) BY <1>1, <1>2, <1>4, <2>8
    <3> QED BY <1>2, <3>1
  <2>11. t = IF b.directory THEN line[b.index].path.segs ELSE Front(line[b.index].path.segs) BY <2>3
  <2> HIDE DEF t
  <2> QED BY <2>3, <2>9, <2>10, <2>11
<1> HIDE DEF here, root
<1> QED BY <1>2, <1>4 DEF RootTight, here, root

------------------------------------------------------------------------------
(* The prefix, the include directory, and all of it.                        *)

\* A prefix of the caller's is read as one when no prefix is added.
LEMMA PrefixKept ==
  ASSUME NEW args, NEW line, Extended(args, line, 0), NEW a, a.index \in DOMAIN args,
         NEW b, b.index = Place(args, line, a.index), b.attached = a.attached, GivesPrefix(args, a)
  PROVE  GivesPrefix(line, b)
<1>1. IsSeq(args) BY DEF Extended
<1>2. Len(args) \in Nat /\ DOMAIN args = 1..Len(args) BY <1>1, SeqIs
<1>3. ASSUME NEW i \in DOMAIN args
      PROVE  Place(args, line, i) = i /\ line[Place(args, line, i)].kind = args[i].kind
  <2>1. Place(args, line, i) \in {i, i + 0} /\ line[Place(args, line, i)].kind = args[i].kind BY PlaceIs
  <2> QED BY <1>2, <2>1
<1>4. b.index = a.index /\ line[a.index].kind = args[a.index].kind BY <1>3
<1>5. CASE a.attached BY <1>4, <1>5 DEF GivesPrefix
<1>6. CASE ~a.attached
  <2>1. a.index > 1 /\ args[a.index - 1].kind = "--src-prefix" BY <1>6 DEF GivesPrefix
  <2>2. a.index - 1 \in DOMAIN args BY <1>2, <2>1
  <2>3. line[a.index - 1].kind = args[a.index - 1].kind BY <1>3, <2>2
  <2> QED BY <1>4, <1>6, <2>1, <2>3 DEF GivesPrefix
<1> QED BY <1>5, <1>6

LEMMA PrefixIsAbove ==
  ASSUME NEW w \in BOOLEAN, NEW args, NEW line, NEW x, NEW cwd, Translates(args, line, x, cwd, w),
         OperationName(args) = "compile", PathsIn(args) # {},
         NEW result, result.args = line,
         result.cwd = GuestPath(Parse(cwd, w), RootIn(args, cwd, w))
  PROVE  PrefixAbove(result, w)
<1> DEFINE here == Parse(cwd, w)
           root == RootIn(args, cwd, w)
           n == Len(root.parts)
           H == here.parts
           gc == GuestPath(here, root)
<1>1. IsHost(here) /\ n \in Nat /\ n <= Len(H) BY TranslatesIs
<1>2. IsSeq(gc.segs) /\ Len(gc.segs) = Len(H) - n /\ \A i \in 1..Len(gc.segs) : gc.segs[i] = H[n + i]
  <2>1. LiesBelow(here, root, w) BY HereBelow
  <2> QED BY <2>1 DEF LiesBelow
<1>3. Reads(args, line, x, cwd, root, w) BY DEF Translates
<1>4. CASE x = 1
  <2> DEFINE b == [index |-> OptionsEnd(args), attached |-> TRUE, directory |-> TRUE]
  <2>1. b \in PathsIn(line) BY <1>3, <1>4, PathsRead
  <2>2. line[b.index].kind = "--src-prefix=" /\ line[b.index].path = gc
    BY <1>3, <1>4 DEF Reads, PrefixOf
  <2>3. GivesPrefix(line, b) BY <2>2 DEF GivesPrefix
  <2> HIDE DEF b, here, root
  <2>4. IsPrefix(Folded(gc.segs, w), Folded(gc.segs, w))
    <3> DEFINE s == gc.segs
    <3>1. \A i \in 1..Len(s) : Same(s[i], s[i], w) BY SameIs
    <3>2. IsSeq(s) BY <1>2
    <3> HIDE DEF s
    <3>3. Len(s) <= Len(s)
      <4>1. Len(s) \in Nat BY <3>2, SeqIs
      <4> QED BY <4>1
    <3>4. IsPrefix(Folded(s, w), Folded(s, w)) BY <3>1, <3>2, <3>3, FoldedPrefix
    <3> QED BY <3>4 DEF s
  <2> QED BY <2>1, <2>2, <2>3, <2>4 DEF PrefixAbove, here, root
<1>5. CASE x # 1
  <2>1. x = 0 /\ Covered(args, PathsIn(args), cwd, w) /\ Extended(args, line, 0)
    BY <1>3, <1>5 DEF Reads
  <2>2. PICK a \in PathsIn(args) :
          GivesPrefix(args, a) /\ Within(here, Host(cwd, args[a.index].path, w), w)
    BY <2>1 DEF Covered
  <2> DEFINE host == Host(cwd, args[a.index].path, w)
             b == Placed(args, line, a)
             g == GuestPath(host, root)
  <2>3. /\ a.index \in DOMAIN args /\ b \in PathsIn(line)
        /\ b.index = Place(args, line, a.index) /\ b.attached = a.attached
        /\ line[b.index].path = g
    <3>1. IsReadAs(args, line, a, g) BY <1>3, PathsRead
    <3> QED BY <3>1 DEF IsReadAs
  <2>4. GivesPrefix(line, b) BY <2>1, <2>2, <2>3, PrefixKept
  <2>5. /\ IsSeq(g.segs) /\ Len(g.segs) = Len(host.parts) - n
        /\ \A i \in 1..Len(g.segs) : g.segs[i] = host.parts[n + i]
    <3>1. LiesBelow(host, root, w) BY PathBelow
    <3> QED BY <3>1 DEF LiesBelow
  <2>6. IsHost(host) /\ Len(host.parts) <= Len(H) /\ \A i \in DOMAIN host.parts : Same(host.parts[i], H[i], w)
    <3>1. Len(host.parts) <= Len(H) /\ \A i \in DOMAIN host.parts : Same(host.parts[i], H[i], w)
      BY <2>2 DEF Within
    <3>2. IsCwd(cwd, w) /\ OnVolume(args, cwd, w) /\ IsArgs(args) BY <1>3 DEF Translates, Reads
    <3>3. IsHost(host) BY <2>3, <3>2, PathOnVolume
    <3> QED BY <3>1, <3>3
  <2> HIDE DEF here, root, host, b, g
  <2>7. IsSeq(host.parts) /\ IsSeq(H) BY <1>1, <2>6 DEF IsHost
  <2>8. /\ Len(H) \in Nat /\ Len(host.parts) \in Nat /\ DOMAIN host.parts = 1..Len(host.parts)
        /\ Len(g.segs) \in Nat
    <3>1. IsSeq(g.segs) BY <2>5
    <3> QED BY <2>7, <3>1, SeqIs
  <2>9. IsPrefix(Folded(g.segs, w), Folded(gc.segs, w))
    <3>1. Len(g.segs) <= Len(gc.segs) BY <1>1, <1>2, <2>5, <2>6, <2>8
    <3>2. ASSUME NEW i \in 1..Len(g.segs) PROVE Same(g.segs[i], gc.segs[i], w)
      <4>1. i \in 1..Len(gc.segs) /\ n + i \in 1..Len(host.parts)
        BY <1>1, <1>2, <2>5, <2>6, <2>8, <3>1
      <4>2. g.segs[i] = host.parts[n + i] /\ gc.segs[i] = H[n + i] BY <1>2, <2>5, <4>1
      <4> QED BY <2>6, <2>8, <4>1, <4>2
    <3>3. IsSeq(g.segs) /\ IsSeq(gc.segs) BY <1>2, <2>5
    <3> QED BY <3>1, <3>2, <3>3, FoldedPrefix
  <2> QED BY <2>3, <2>4, <2>9 DEF PrefixAbove, here, root, g
<1> QED BY <1>4, <1>5

\* What include does to a command line.
LEMMA IncludeIs ==
  ASSUME NEW given, IsLine(given), NEW include, IsText(include)
  PROVE  LET args == WithInclude(given, include) IN
         /\ IsArgs(args) /\ (Settled(given) => Settled(args))
         /\ args = given \/ Len(args) = Len(given) + 2
         /\ NeedsStandardImport(args) <=> NeedsStandardImport(given) /\ include = NoPath
<1> DEFINE args == WithInclude(given, include)
           named == [drive |-> "", lead |-> FALSE, segs |-> <<"--no-standard-import">>]
           alone == [kind |-> "--no-standard-import", path |-> named]
           from == [kind |-> "-I=", path |-> include]
           extra == <<alone, from>>
           e == OptionsEnd(given)
<1>1. IsArgs(given) BY LineIs
<1>2. CASE include = NoPath
  <2>1. args = given BY <1>2 DEF WithInclude
  <2> QED BY <1>1, <1>2, <2>1
<1>3. CASE include # NoPath
  <2>1. args = Splice(given, extra) BY <1>3 DEF WithInclude
  <2>2. IsText(named)
    <3> DEFINE s == <<"--no-standard-import">>
    <3>1. IsSeq(s)
      <4>1. s = [i \in 1..1 |-> s[i]] OBVIOUS
      <4> HIDE DEF s
      <4> QED BY <4>1, ListIs
    <3>2. named = [drive |-> "", lead |-> FALSE, segs |-> s] OBVIOUS
    <3> HIDE DEF s, named
    <3> QED BY <3>1, <3>2 DEF IsText
  <2>3. /\ IsSeq(extra) /\ Len(extra) = 2 /\ DOMAIN extra = 1..2
        /\ extra[1] = alone /\ extra[2] = from
    <3>1. extra = [i \in 1..2 |-> extra[i]] /\ extra[1] = alone /\ extra[2] = from OBVIOUS
    <3> HIDE DEF extra
    <3> QED BY <3>1, ListIs
  <2>4. \A i \in DOMAIN extra :
          /\ extra[i].kind \in {"--no-standard-import", "-I="}
          /\ extra[i] = [kind |-> extra[i].kind, path |-> extra[i].path] /\ IsText(extra[i].path)
    <3>1. /\ alone.kind = "--no-standard-import" /\ IsText(alone.path)
          /\ alone = [kind |-> alone.kind, path |-> alone.path]
      BY <2>2
    <3>2. from.kind = "-I=" /\ from = [kind |-> from.kind, path |-> from.path] /\ IsText(from.path)
      OBVIOUS
    <3> HIDE DEF extra, alone, from, named
    <3>3. \A i \in DOMAIN extra : extra[i] = alone \/ extra[i] = from BY <2>3
    <3> QED BY <3>1, <3>2, <3>3
  <2>20. alone.kind = "--no-standard-import" OBVIOUS
  <2> HIDE DEF args, extra, alone, from, named
  <2>5. {"--no-standard-import", "-I="} \subseteq Dashed \ {"--"} BY DEF Dashed, HoldsPath
  <2>6. IsSeq(given) BY <1>1 DEF IsArgs
  <2>7. \A i \in DOMAIN extra : extra[i].kind \in Dashed \ {"--"} BY <2>4, <2>5
  <2>8. /\ Extended(given, args, 2)
        /\ \A i \in DOMAIN given : args[Place(given, args, i)] = given[i]
        /\ \A i \in 1..2 : args[e - 1 + i] = extra[i]
    <3>1. IsSeq(extra) BY <2>3
    <3>2. /\ Extended(given, args, Len(extra))
          /\ \A i \in DOMAIN given : args[Place(given, args, i)] = given[i]
          /\ \A i \in 1..Len(extra) : args[e - 1 + i] = extra[i]
      BY <2>1, <2>6, <2>7, <3>1, SpliceIs
    <3> QED BY <2>3, <3>2
  <2>9. /\ Len(given) \in Nat /\ DOMAIN given = 1..Len(given) /\ e \in 1..(Len(given) + 1)
        /\ IsSeq(args) /\ Len(args) = Len(given) + 2 /\ DOMAIN args = 1..(Len(given) + 2)
    <3>1. IsSeq(args) /\ Len(args) = Len(given) + 2 BY <2>8 DEF Extended
    <3>2. Len(given) \in Nat /\ DOMAIN given = 1..Len(given) /\ e \in 1..(Len(given) + 1)
      BY <2>6, SeqIs, EndIs
    <3>3. DOMAIN args = 1..Len(args) BY <3>1, SeqIs
    <3> QED BY <3>1, <3>2, <3>3
  <2> HIDE DEF e
  <2>10. args[e] = extra[1] /\ args[e + 1] = extra[2]
    <3>1. e - 1 + 1 = e /\ e - 1 + 2 = e + 1 BY <2>9
    <3> QED BY <2>8, <3>1
  <2>11. IsArgs(args)
    <3> SUFFICES ASSUME NEW i \in DOMAIN args
                 PROVE  args[i] = [kind |-> args[i].kind, path |-> args[i].path] /\ IsText(args[i].path)
      BY <2>9 DEF IsArgs
    <3>1. \A j \in DOMAIN given :
            given[j] = [kind |-> given[j].kind, path |-> given[j].path] /\ IsText(given[j].path)
      BY <1>1 DEF IsArgs
    <3>2. \/ \E j \in DOMAIN given : i = Place(given, args, j)
          \/ i = e \/ i = e + 1
      <4>1. CASE i < e
        <5>1. i \in DOMAIN given /\ Place(given, args, i) = i BY <2>9, <4>1 DEF Place, e
        <5> QED BY <5>1
      <4>2. CASE i > e + 1
        <5>1. i - 2 \in DOMAIN given /\ ~(i - 2 < e) /\ (i - 2) + (Len(given) + 2) - Len(given) = i
          BY <2>9, <4>2
        <5>2. Place(given, args, i - 2) = i BY <2>9, <5>1 DEF Place, e
        <5> QED BY <5>1, <5>2
      <4> QED BY <2>9, <4>1, <4>2
    <3> QED BY <2>3, <2>4, <2>8, <2>10, <3>1, <3>2
  <2>12. \A i \in e..(e + 2 - 1) : i = e \/ i = e + 1 BY <2>9
  <2>13. /\ args[e].kind \in {"--no-standard-import", "-I="}
         /\ args[e + 1].kind \in {"--no-standard-import", "-I="}
    BY <2>3, <2>4, <2>10
  <2>14. Settled(given) => Settled(args)
    <3>1. \A i \in e..(e + 2 - 1) : args[i].kind \notin TakesPath \cup {"-o"}
      BY <2>12, <2>13 DEF TakesPath
    <3> QED BY <1>1, <2>8, <3>1, SettledExtended DEF e
  <2>15. ~NeedsStandardImport(args)
    <3>1. args[e].kind = "--no-standard-import" /\ e \in e..(e + 2 - 1)
      BY <2>3, <2>9, <2>10, <2>20
    <3> QED BY <2>8, <3>1, NeedsExtended DEF e
  <2> QED BY <1>3, <2>9, <2>11, <2>14, <2>15 DEF args
<1> QED BY <1>2, <1>3

------------------------------------------------------------------------------
(* The launcher's translation.                                              *)

\* A translation is of one of the command lines, from one of the directories.
TranslationInv ==
  call.of = "translate" =>
    /\ call.windows \in BOOLEAN /\ IsLine(call.given) /\ IsCwd(call.cwd, call.windows)
    /\ IsText(call.include)

LEMMA TranslationsKept == CallSpec => []TranslationInv
<1>1. CallInit => TranslationInv BY DEF CallInit, TranslationInv
<1>2. TranslationInv /\ [CallNext]_callVars => TranslationInv'
  <2> SUFFICES ASSUME TranslationInv, [CallNext]_callVars PROVE TranslationInv' OBVIOUS
  <2>1. CASE UNCHANGED callVars BY <2>1 DEF callVars, TranslationInv
  <2>2. CASE Translate
    <3>0. PICK windows \in BOOLEAN :
            \E given \in CommandLines[windows], cwd \in Cwds[windows], include \in Includes[windows] :
              call' = [of |-> "translate", given |-> given, cwd |-> cwd, include |-> include,
                       windows |-> windows]
      BY <2>2 DEF Translate
    <3>1. PICK given \in CommandLines[windows], cwd \in Cwds[windows], include \in Includes[windows] :
            call' = [of |-> "translate", given |-> given, cwd |-> cwd, include |-> include,
                     windows |-> windows]
      BY <3>0
    <3>2. IsLine(given) /\ IsText(include) BY LineAssumption
    <3>3. IsText(cwd) /\ Absolute(cwd, windows) /\ Format(Parse(cwd, windows)) = cwd
      BY LineAssumption
    <3>4. IsCwd(cwd, windows) BY <3>3 DEF IsCwd
    <3>5. /\ call'.windows = windows /\ call'.given = given /\ call'.cwd = cwd
          /\ call'.include = include
      BY <3>1
    <3> QED BY <3>2, <3>4, <3>5 DEF TranslationInv
  <2>3. CASE Compile BY <2>3 DEF Compile, TranslationInv
  <2>4. CASE Accept BY <2>4 DEF Accept, TranslationInv
  <2>5. CASE Import
    <3>1. call'.of = "import" BY <2>5 DEF Import
    <3> QED BY <3>1 DEF TranslationInv
  <2>6. CASE Instrument BY <2>6 DEF Instrument, TranslationInv
  <2>7. CASE Vectored BY <2>7 DEF Vectored, TranslationInv
  <2>8. CASE Audit
    <3>1. call'.of = "audit" BY <2>8 DEF Audit
    <3> QED BY <3>1 DEF TranslationInv
  <2> QED BY <2>1, <2>2, <2>3, <2>4, <2>5, <2>6, <2>7, <2>8 DEF CallNext
<1> QED BY <1>1, <1>2, PTL DEF CallSpec

LEMMA TranslatedIs ==
  ASSUME NEW w \in BOOLEAN, NEW given, IsLine(given), NEW cwd, IsCwd(cwd, w), NEW include, IsText(include)
  PROVE  Translated(given, cwd, include, w)
<1> DEFINE args == WithInclude(given, include)
           paths == PathsIn(args)
           here == Parse(cwd, w)
           root == RootIn(args, cwd, w)
           line == Line(args, paths, cwd, root, w)
           result == TranslatePaths(given, cwd, include, w)
           below == Below(args, paths, cwd, root, w)
<1>1. /\ IsArgs(args) /\ (Settled(given) => Settled(args))
      /\ args = given \/ Len(args) = Len(given) + 2
      /\ NeedsStandardImport(args) <=> NeedsStandardImport(given) /\ include = NoPath
  BY IncludeIs
<1>3. /\ below.ok = TRUE /\ below.root = root /\ below.cwd = GuestPath(here, root) /\ below.args = line
  BY DEF Below
<1>4. result = TranslateLine(args, paths, cwd, w) BY DEF TranslatePaths
<1>5. result = Untranslated \/ (OnVolume(args, cwd, w) /\ result = below)
  BY <1>4 DEF TranslateLine, OnVolume, RootIn, Roots
<1>6. ~Untranslated.ok BY DEF Untranslated
<1>7. SUFFICES ASSUME result.ok, Settled(given) \/ Len(result.args) = Len(given)
               PROVE TranslationOwed(given, args, cwd, include, result, w)
  BY DEF Translated, TranslationOwed
<1> HIDE DEF args, here, root, line, result, below
<1>8. OnVolume(args, cwd, w) /\ result = below BY <1>5, <1>6, <1>7
<1>9. result.root = root /\ result.cwd = GuestPath(here, root) /\ result.args = line BY <1>3, <1>8
<1>b. Settled(args) \/ Len(line) = Len(args)
  <2>1. Len(line) \in {Len(args), Len(args) + 1}
    <3>1. Extended(args, line, 0) \/ Extended(args, line, 1) BY <1>1, TranslatedLineIs DEF line
    <3>2. IsSeq(args) => Len(args) \in Nat BY SeqIs
    <3> QED BY <3>1, <3>2 DEF Extended
  <2>2. Len(given) \in Nat BY LineIs, SeqIs DEF IsArgs
  <2> QED BY <1>1, <1>7, <1>9, <2>1, <2>2
<1>2. PICK x \in {0, 1} : Reads(args, line, x, cwd, root, w) BY <1>1, <1>b, LineReads DEF line
<1>10. Translates(args, line, x, cwd, w) BY <1>2, <1>8 DEF Translates, root
<1>11. SameArguments(args, line) BY <1>2, ArgumentsSame
<1>12. SamePaths(args, cwd, result, w) BY <1>9, <1>10, PathsSame DEF root
<1>13. RootTight(result, Parse(cwd, w), w) BY <1>9, <1>10, RootIsTight DEF root, here
<1>14. OperationName(args) = "compile" /\ PathsIn(args) # {} => PrefixAbove(result, w)
  BY <1>9, <1>10, PrefixIsAbove DEF root, here
<1>15. NeedsStandardImport(line) <=> NeedsStandardImport(args)
  <2>1. /\ Extended(args, line, x) /\ IsSeq(args)
        /\ x = 1 => line[OptionsEnd(args)].kind = "--src-prefix="
    BY <1>2 DEF Reads, PrefixOf, IsArgs
  <2>2. OptionsEnd(args) \in 1..(Len(args) + 1) /\ Len(args) \in Nat BY <2>1, EndIs, SeqIs
  <2>3. \A i \in OptionsEnd(args)..(OptionsEnd(args) + x - 1) : x = 1 /\ i = OptionsEnd(args)
    BY <2>2
  <2>4. \A i \in OptionsEnd(args)..(OptionsEnd(args) + x - 1) :
          line[i].kind \notin {"--no-standard-import", "--version"}
    BY <2>1, <2>3
  <2> QED BY <2>1, <2>4, NeedsExtended
<1>16. NeedsStandardImport(line) = (NeedsStandardImport(given) /\ include = NoPath)
  <2>1. NeedsStandardImport(line) \in BOOLEAN BY DEF NeedsStandardImport
  <2> QED BY <1>1, <1>15, <2>1
<1> QED BY <1>9, <1>11, <1>12, <1>13, <1>14, <1>16 DEF TranslationOwed

\* Whatever the current directory, the include directory and the command line in
\* which no option has "--" for its value, what is translated at all means the same
\* below the root, unless the line's last option waits for its value and something
\* is added behind it: the compiler reads the same
\* arguments and files, the root is the deepest that holds them, a prefix lies above
\* the current directory, and standard schemas are looked for when they were:
\* capnp-wasm.ts, translatePaths.
THEOREM TranslationsAreFaithful == CallSpec => []TranslationFaithful
<1>1. TranslationInv => TranslationFaithful
  BY TranslatedIs DEF TranslationInv, TranslationFaithful
<1> QED BY <1>1, TranslationsKept, PTL

------------------------------------------------------------------------------
(* The record a stable release rests on.  A history is gone through from   *)
(* its newest run; CountInv relates what is counted after k runs to those  *)
(* k runs, so that at the end it is the whole of the history.               *)

\* The last day a streak may hold, and what a count is made of.
Latest(runs) == IF Of(runs, Today) # {} THEN Today ELSE Today - 1
RunKinds == {"missed", "conclusion", "rerun"}
Ran(runs) == {runs[i] : i \in DOMAIN runs}
Ends(runs) == [date : Int, kind : RunKinds, run : Ran(runs) \cup {Null}]
Tally(cycles, end, counted) == [cycles |-> cycles, end |-> end, counted |-> counted]
Tallies(runs) == [cycles : Seq(Ran(runs)), end : Ends(runs) \cup {Null}, counted : Nat]
History(runs) == InOrder(runs) /\ Null \notin Ends(runs) /\ Today \in Nat

\* The completed runs among the k newest.
Seen(runs, k) == {i \in DOMAIN runs : i > Len(runs) - k /\ Completed(runs[i])}

LEMMA HistoryIs ==
  ASSUME NEW runs, History(runs)
  PROVE  /\ Len(runs) \in Nat /\ DOMAIN runs = 1..Len(runs)
         /\ \A i \in DOMAIN runs : runs[i].date \in Int /\ 1 <= runs[i].date /\ runs[i].date <= Today
         /\ \A i, j \in DOMAIN runs : i <= j => runs[i].date <= runs[j].date
BY DEF History, InOrder

LEMMA TallyIs ==
  ASSUME NEW c, NEW e, NEW d
  PROVE  LET w == Tally(c, e, d) IN
         w.cycles = c /\ w.end = e /\ w.counted = d /\ w = Tally(w.cycles, w.end, w.counted)
BY DEF Tally

LEMMA SetTally ==
  ASSUME NEW s, s = Tally(s.cycles, s.end, s.counted), NEW x, NEW y
  PROVE  /\ [s EXCEPT !.end = x] = Tally(s.cycles, x, s.counted)
         /\ [s EXCEPT !.cycles = x, !.counted = y] = Tally(x, s.end, y)
<1>1. \A a, b, f : LET w == Tally(a, b, f) IN
        /\ [w EXCEPT !.end = x] = Tally(a, x, f)
        /\ [w EXCEPT !.cycles = x] = Tally(x, b, f)
        /\ [w EXCEPT !.counted = y] = Tally(a, b, y)
  BY DEF Tally
<1> DEFINE t == [s EXCEPT !.cycles = x]
<1>2. PICK c, e, d : s = Tally(c, e, d) OBVIOUS
<1>3. s.cycles = c /\ s.end = e /\ s.counted = d BY <1>2, TallyIs
<1>4. [s EXCEPT !.end = x] = Tally(c, x, d) BY <1>1, <1>2
<1>5. t = Tally(x, e, d) BY <1>1, <1>2
<1> HIDE DEF t
<1>6. [t EXCEPT !.counted = y] = Tally(x, e, y) BY <1>1, <1>5
<1> QED BY <1>3, <1>4, <1>6 DEF t

LEMMA InTallies ==
  ASSUME NEW runs, NEW s
  PROVE  s \in Tallies(runs) <=>
           /\ s = Tally(s.cycles, s.end, s.counted)
           /\ s.cycles \in Seq(Ran(runs)) /\ s.end \in Ends(runs) \cup {Null} /\ s.counted \in Nat
BY DEF Tallies, Tally

LEMMA Greatest ==
  ASSUME NEW n \in Nat, NEW P \in SUBSET (1..n), P # {}
  PROVE  \E i \in P : \A j \in P : j <= i
<1> DEFINE Topped(Q) == \E i \in Q : \A j \in Q : j <= i
           S == {m \in Nat : \A Q \in SUBSET (1..m) : Q # {} => Topped(Q)}
<1>1. 0 \in S
  <2>1. 1..0 = {} OBVIOUS
  <2> QED BY <2>1
<1>2. ASSUME NEW m \in S PROVE m + 1 \in S
  <2> SUFFICES ASSUME NEW Q \in SUBSET (1..(m + 1)), Q # {} PROVE Topped(Q) OBVIOUS
  <2>1. CASE m + 1 \in Q BY <2>1
  <2>2. CASE m + 1 \notin Q
    <3>1. Q \in SUBSET (1..m) BY <2>2
    <3> HIDE DEF Topped
    <3> QED BY <3>1
  <2> QED BY <2>1, <2>2
<1>3. S \in SUBSET Nat OBVIOUS
<1> HIDE DEF S
<1>4. n \in S BY <1>1, <1>2, <1>3, SetInduction
<1> QED BY <1>4 DEF S

LEMMA MissedIs ==
  ASSUME NEW runs, NEW due \in Int, History(runs)
  PROVE  Missed(runs, due) \in Ends(runs) /\ Missed(runs, due).date = due
<1> DEFINE pending == {i \in DOMAIN runs : /\ Scheduled(runs[i]) /\ ~Completed(runs[i])
                                           /\ runs[i].date = due}
           latest == CHOOSE i \in pending : \A j \in pending : j <= i
           night == IF pending = {} THEN Null ELSE runs[latest]
<1>1. Missed(runs, due) = End(due, "missed", night) BY DEF Missed
<1>2. night \in Ran(runs) \cup {Null}
  <2>1. CASE pending = {} BY <2>1
  <2>2. CASE pending # {}
    <3>1. \E i \in pending : \A j \in pending : j <= i
      <4>1. pending \subseteq 1..Len(runs) /\ Len(runs) \in Nat BY HistoryIs
      <4> HIDE DEF pending
      <4> QED BY <2>2, <4>1, Greatest
    <3>2. latest \in pending BY <3>1
    <3> QED BY <2>2, <3>2 DEF Ran
  <2> QED BY <2>1, <2>2
<1> HIDE DEF night
<1>3. Missed(runs, due) = [date |-> due, kind |-> "missed", run |-> night]
  BY <1>1 DEF End
<1> QED BY <1>2, <1>3 DEF Ends, RunKinds

\* What a run does to the count.
LEMMA NextIs ==
  ASSUME NEW runs, History(runs), NEW s \in Tallies(runs), NEW night \in Ran(runs)
  PROVE  LET e == NextCycle(s, night, runs, Today)
             due == (IF s.counted = 0 THEN Today ELSE s.counted) - 1
             late == night.date # s.counted /\ night.date < due
         IN
         \/ s.end # Null /\ e = s
         \/ s.end = Null /\ late /\ e = Tally(s.cycles, Missed(runs, due), s.counted)
         \/ /\ s.end = Null /\ ~late /\ ~Passed(night)
            /\ \E kind \in RunKinds : e = Tally(s.cycles, End(night.date, kind, night), s.counted)
         \/ s.end = Null /\ Passed(night) /\ night.date = s.counted /\ e = s
         \/ /\ s.end = Null /\ ~late /\ Passed(night) /\ night.date # s.counted
            /\ e = Tally(Append(s.cycles, night), s.end, night.date)
<1> DEFINE e == NextCycle(s, night, runs, Today)
           due == (IF s.counted = 0 THEN Today ELSE s.counted) - 1
           late == night.date # s.counted /\ night.date < due
           Closed(x) == [s EXCEPT !.end = x]
           more == [s EXCEPT !.cycles = Append(s.cycles, night), !.counted = night.date]
<1>1. s = Tally(s.cycles, s.end, s.counted) BY InTallies
<1>2. \A x : Closed(x) = Tally(s.cycles, x, s.counted) BY <1>1, SetTally
<1>3. more = Tally(Append(s.cycles, night), s.end, night.date)
  <2> DEFINE a == Append(s.cycles, night)
  <2> HIDE DEF a
  <2>1. [s EXCEPT !.cycles = a, !.counted = night.date] = Tally(a, s.end, night.date)
    BY <1>1, SetTally
  <2> QED BY <2>1 DEF a
<1>4. e = IF s.end # Null THEN s
          ELSE IF late THEN Closed(Missed(runs, due))
          ELSE IF night.conclusion # "success" THEN Closed(End(night.date, "conclusion", night))
          ELSE IF night.attempt # 1 THEN Closed(End(night.date, "rerun", night))
          ELSE IF night.date = s.counted THEN s ELSE more
  BY DEF NextCycle
<1> HIDE DEF e, due, Closed, more
<1>5. CASE s.end # Null BY <1>4, <1>5 DEF e, due
<1>6. CASE s.end = Null /\ late
  <2>1. e = Tally(s.cycles, Missed(runs, due), s.counted) BY <1>2, <1>4, <1>6
  <2> QED BY <1>6, <2>1 DEF e, due
<1>7. CASE s.end = Null /\ ~late /\ ~Passed(night)
  <2>1. PICK kind \in RunKinds : e = Closed(End(night.date, kind, night))
    BY <1>4, <1>7 DEF Passed, RunKinds
  <2>2. e = Tally(s.cycles, End(night.date, kind, night), s.counted) BY <1>2, <2>1
  <2> QED BY <1>7, <2>2 DEF e, due
<1>8. CASE s.end = Null /\ ~late /\ Passed(night)
  <2>1. e = IF night.date = s.counted THEN s ELSE more BY <1>4, <1>8 DEF Passed
  <2> QED BY <1>3, <1>8, <2>1 DEF e, due
<1> QED BY <1>5, <1>6, <1>7, <1>8

\* The k newest runs have been gone through.  The days counted end with the
\* last one that can count, and none is left out; while the count goes on every
\* run that was seen has passed; once it is over no day can be added.
Dated(runs, s) ==
  /\ s.counted = IF Len(s.cycles) = 0 THEN 0 ELSE Latest(runs) - Len(s.cycles) + 1
  /\ Len(s.cycles) > 0 => s.counted >= 1
  /\ \A i \in 1..Len(s.cycles) : /\ s.cycles[i].date = Latest(runs) - i + 1
                                 /\ s.cycles[i].attempt = 1
Rows(runs, s) ==
  /\ \A day \in (Latest(runs) - Len(s.cycles) + 1)..Latest(runs) : Newest(runs, day)
  /\ \A day \in (Latest(runs) - Len(s.cycles) + 2)..Latest(runs) : Whole(runs, day)
Open(runs, k, s) ==
  s.end = Null => /\ Len(s.cycles) = 0 => Seen(runs, k) = {}
                  /\ \A i \in Seen(runs, k) :
                       Passed(runs[i]) /\ runs[i].date >= s.counted
Over(runs, s) ==
  s.end # Null => /\ ~InARow(runs, Today, Len(s.cycles) + 1)
                  /\ Len(s.cycles) > 0 => s.end.date \in {s.counted, s.counted - 1}
Met(runs, k, s) == Len(s.cycles) > 0 => \E j \in Seen(runs, k) : runs[j].date = s.counted
CountInv(runs, k, s) ==
  /\ s \in Tallies(runs)
  /\ Len(s.cycles) <= k
  /\ Seen(runs, k) = {} => Len(s.cycles) = 0 /\ s.end = Null
  /\ Dated(runs, s) /\ Rows(runs, s) /\ Open(runs, k, s) /\ Over(runs, s)
  /\ Met(runs, k, s)

\* The days above are those that InARow asks for.
LEMMA InARowIs ==
  ASSUME NEW runs, NEW n
  PROVE  InARow(runs, Today, n) <=>
           (n > 0 => /\ \A day \in (Latest(runs) - n + 1)..Latest(runs) : Newest(runs, day)
                     /\ \A day \in (Latest(runs) - n + 2)..Latest(runs) : Whole(runs, day))
BY DEF InARow, Latest

\* One more is too many when its day has no newest run that passed, or the day
\* before it one that did not.
LEMMA TooMany ==
  ASSUME NEW runs, History(runs), NEW c \in Nat,
         \/ ~Newest(runs, Latest(runs) - c)
         \/ c > 0 /\ ~Whole(runs, Latest(runs) - c + 1)
  PROVE  ~InARow(runs, Today, c + 1)
<1>1. Latest(runs) \in Int BY DEF Latest, History
<1>2. CASE ~Newest(runs, Latest(runs) - c)
  <2>1. Latest(runs) - c \in (Latest(runs) - (c + 1) + 1)..Latest(runs) BY <1>1
  <2> QED BY <1>2, <2>1, InARowIs
<1>3. CASE c > 0 /\ ~Whole(runs, Latest(runs) - c + 1)
  <2>1. Latest(runs) - c + 1 \in (Latest(runs) - (c + 1) + 2)..Latest(runs) BY <1>1, <1>3
  <2> QED BY <1>3, <2>1, InARowIs
<1> QED BY <1>2, <1>3

\* The runs of a day, around the k-th newest, which has ended.
LEMMA SeenIs ==
  ASSUME NEW runs, History(runs), NEW k \in 1..Len(runs)
  PROVE  LET i == Len(runs) - k + 1 IN
         /\ i \in DOMAIN runs /\ runs[i] \in Ran(runs)
         /\ Completed(runs[i]) => Seen(runs, k) = Seen(runs, k - 1) \cup {i}
         /\ ~Completed(runs[i]) => Seen(runs, k) = Seen(runs, k - 1)
         /\ \A j \in DOMAIN runs : Completed(runs[j]) =>
              \/ j \in Seen(runs, k - 1) /\ j > i
              \/ j <= i /\ runs[j].date <= runs[i].date
<1> DEFINE i == Len(runs) - k + 1
<1>1. /\ Len(runs) \in Nat /\ DOMAIN runs = 1..Len(runs)
      /\ \A x, y \in DOMAIN runs : x <= y => runs[x].date <= runs[y].date
  BY HistoryIs
<1>2. i \in DOMAIN runs /\ i \in Int /\ k \in Int BY <1>1
<1>3. runs[i] \in Ran(runs) BY <1>2 DEF Ran
<1>4. \A j \in DOMAIN runs : (j > Len(runs) - k <=> j > Len(runs) - (k - 1) \/ j = i) BY <1>1, <1>2
<1>5. \A j \in DOMAIN runs : (j > Len(runs) - (k - 1) <=> j > i) /\ (j > i \/ j <= i) BY <1>1, <1>2
<1> HIDE DEF i
<1>6. Completed(runs[i]) => Seen(runs, k) = Seen(runs, k - 1) \cup {i}
  BY <1>2, <1>4 DEF Seen
<1>7. ~Completed(runs[i]) => Seen(runs, k) = Seen(runs, k - 1) BY <1>2, <1>4 DEF Seen
<1>8. \A j \in DOMAIN runs : Completed(runs[j]) =>
        \/ j \in Seen(runs, k - 1) /\ j > i
        \/ j <= i /\ runs[j].date <= runs[i].date
  BY <1>1, <1>2, <1>5 DEF Seen
<1> QED BY <1>2, <1>3, <1>6, <1>7, <1>8 DEF i

LEMMA DayIs ==
  ASSUME NEW runs, History(runs), NEW k \in 1..Len(runs), NEW i, i = Len(runs) - k + 1,
         Completed(runs[i])
  PROVE  \* no run of its day was seen: it is the newest
         /\ (\A j \in Seen(runs, k - 1) : runs[j].date # runs[i].date)
              => (Newest(runs, runs[i].date) <=> Passed(runs[i]))
         \* a later day of which none was seen has none
         /\ \A day \in Int : day > runs[i].date /\ (\A j \in Seen(runs, k - 1) : runs[j].date > day)
              => Of(runs, day) = {}
         \* of a later day all were seen
         /\ \A day \in Int : day > runs[i].date => Of(runs, day) \subseteq Seen(runs, k - 1)
         /\ i \in Of(runs, runs[i].date)
<1>1. /\ i \in DOMAIN runs
      /\ \A j \in DOMAIN runs : Completed(runs[j]) =>
           \/ j \in Seen(runs, k - 1) /\ j > i
           \/ j <= i /\ runs[j].date <= runs[i].date
  BY SeenIs
<1>2. DOMAIN runs = 1..Len(runs) /\ Len(runs) \in Nat /\ \A j \in DOMAIN runs : runs[j].date \in Int
  BY HistoryIs
<1>3. \A day : \A j : j \in Of(runs, day) <=>
                        j \in DOMAIN runs /\ Completed(runs[j]) /\ runs[j].date = day
  BY DEF Of
<1>4. i \in Of(runs, runs[i].date) BY <1>1, <1>3
<1>5. ASSUME \A j \in Seen(runs, k - 1) : runs[j].date # runs[i].date
      PROVE  Newest(runs, runs[i].date) <=> Passed(runs[i])
  <2>1. \A j \in Of(runs, runs[i].date) : j <= i BY <1>1, <1>3, <1>5
  <2>2. \A j \in Of(runs, runs[i].date) : i <= j => j = i BY <1>1, <1>2, <1>3, <2>1
  <2> QED BY <1>4, <2>1, <2>2 DEF Newest
<1>6. \A day \in Int : day > runs[i].date => Of(runs, day) \subseteq Seen(runs, k - 1)
  <2> SUFFICES ASSUME NEW day \in Int, day > runs[i].date, NEW j \in Of(runs, day)
               PROVE  j \in Seen(runs, k - 1)
      OBVIOUS
  <2>1. j \in DOMAIN runs /\ Completed(runs[j]) /\ runs[j].date = day BY <1>3
  <2> QED BY <1>1, <1>2, <2>1
<1>7. \A day \in Int : day > runs[i].date /\ (\A j \in Seen(runs, k - 1) : runs[j].date > day)
        => Of(runs, day) = {}
  <2> SUFFICES ASSUME NEW day \in Int, day > runs[i].date,
                      \A j \in Seen(runs, k - 1) : runs[j].date > day,
                      NEW j \in Of(runs, day)
               PROVE  FALSE
      OBVIOUS
  <2>1. runs[j].date = day /\ j \in Seen(runs, k - 1) BY <1>3, <1>6
  <2> QED BY <2>1
<1> QED BY <1>4, <1>5, <1>6, <1>7

Turn(runs, k, s) ==
  LET night == runs[Len(runs) - k + 1] IN
  IF Completed(night) THEN NextCycle(s, night, runs, Today) ELSE s

\* A run that is neither of the day counted last nor late is of the day before
\* it, and the first of its day that was seen.
LEMMA DueIs ==
  ASSUME NEW runs, History(runs), NEW k \in 1..Len(runs), NEW i, i = Len(runs) - k + 1,
         Completed(runs[i]), NEW s, CountInv(runs, k - 1, s), s.end = Null,
         runs[i].date # s.counted,
         ~(runs[i].date < (IF s.counted = 0 THEN Today ELSE s.counted) - 1)
  PROVE  /\ runs[i].date = Latest(runs) - Len(s.cycles)
         /\ \A j \in Seen(runs, k - 1) : runs[j].date > runs[i].date
         /\ Newest(runs, Latest(runs) - Len(s.cycles)) <=> Passed(runs[i])
<1> DEFINE c == Len(s.cycles)
           d == runs[i].date
<1>1. /\ i \in DOMAIN runs /\ d \in Int /\ 1 <= d /\ d <= Today /\ Today \in Nat
      /\ \A x, y \in DOMAIN runs : x <= y => runs[x].date <= runs[y].date
      /\ \A x \in DOMAIN runs : runs[x].date \in Int
  BY SeenIs, HistoryIs DEF History
<1>2. c \in Nat BY InTallies DEF CountInv
<1>3. /\ \A day \in Int : day > d /\ (\A j \in Seen(runs, k - 1) : runs[j].date > day)
           => Of(runs, day) = {}
      /\ i \in Of(runs, d)
      /\ (\A j \in Seen(runs, k - 1) : runs[j].date # d)
           => (Newest(runs, d) <=> Passed(runs[i]))
  BY DayIs
<1>4. s.counted = IF c = 0 THEN 0 ELSE Latest(runs) - c + 1 BY DEF CountInv, Dated
<1>5. d = Latest(runs) - c /\ \A j \in Seen(runs, k - 1) : runs[j].date > d
  <2>1. CASE c = 0
    <3>1. Seen(runs, k - 1) = {} BY <2>1 DEF CountInv, Open
    <3>2. d = Today \/ d = Today - 1 BY <1>1, <1>4, <2>1
    <3>3. d = Today => Latest(runs) = Today BY <1>3 DEF Latest
    <3>4. d = Today - 1 => Latest(runs) = Today - 1 BY <1>1, <1>3, <3>1 DEF Latest
    <3> QED BY <1>1, <2>1, <3>1, <3>2, <3>3, <3>4
  <2>2. CASE c > 0
    <3>1. s.counted >= 1 /\ s.counted = Latest(runs) - c + 1 /\ Latest(runs) \in Int
      <4>1. Latest(runs) \in Int BY <1>1 DEF Latest
      <4>2. c > 0 => s.counted >= 1 BY DEF CountInv, Dated
      <4> QED BY <1>4, <2>2, <4>1, <4>2
    <3>2. PICK j \in Seen(runs, k - 1) : runs[j].date = s.counted BY <2>2 DEF CountInv, Met
    <3>3. j \in DOMAIN runs /\ j > i
      <4>1. j \in DOMAIN runs /\ j > Len(runs) - (k - 1) BY <3>2 DEF Seen
      <4> QED BY <4>1, HistoryIs
    <3>4. d <= s.counted
      <4>1. i <= j BY <1>1, <3>3, HistoryIs
      <4> QED BY <1>1, <3>2, <3>3, <4>1
    <3>5. d = s.counted - 1
      <4>1. s.counted \in Int /\ s.counted # 0 BY <1>2, <3>1
      <4> QED BY <1>1, <3>4, <4>1
    <3>6. \A x \in Seen(runs, k - 1) : runs[x].date >= s.counted /\ runs[x].date \in Int
      BY <1>1 DEF CountInv, Open, Seen
    <3> QED BY <1>1, <1>2, <3>1, <3>5, <3>6
  <2> QED BY <1>2, <2>1, <2>2
<1>6. \A j \in Seen(runs, k - 1) : runs[j].date # d BY <1>1, <1>5
<1> QED BY <1>3, <1>5, <1>6

LEMMA CountKeeps ==
  ASSUME NEW runs, History(runs), NEW k \in 1..Len(runs), NEW s, CountInv(runs, k - 1, s)
  PROVE  CountInv(runs, k, Turn(runs, k, s))
<1> DEFINE i == Len(runs) - k + 1
           night == runs[i]
           c == Len(s.cycles)
           L == Latest(runs)
           due == (IF s.counted = 0 THEN Today ELSE s.counted) - 1
           late == night.date # s.counted /\ night.date < due
           e == Turn(runs, k, s)
           n == NextCycle(s, night, runs, Today)
<1>1. /\ i \in DOMAIN runs /\ night \in Ran(runs)
      /\ Completed(night) => Seen(runs, k) = Seen(runs, k - 1) \cup {i}
      /\ ~Completed(night) => Seen(runs, k) = Seen(runs, k - 1)
  BY SeenIs
<1>2. /\ night.date \in Int /\ 1 <= night.date /\ night.date <= Today /\ Today \in Nat
      /\ \A x \in DOMAIN runs : runs[x].date \in Int
      /\ Null \notin Ends(runs)
  BY <1>1, HistoryIs DEF History
<1>3. /\ s \in Tallies(runs) /\ s = Tally(s.cycles, s.end, s.counted) /\ s.cycles \in Seq(Ran(runs))
      /\ s.end \in Ends(runs) \cup {Null} /\ s.counted \in Nat /\ c \in Nat /\ k \in Nat /\ c <= k - 1
      /\ L \in Int
  <2>1. k \in Nat BY HistoryIs
  <2> QED BY <1>2, <2>1, InTallies DEF CountInv, Latest
<1>4. /\ s.counted = IF c = 0 THEN 0 ELSE L - c + 1
      /\ c > 0 => s.counted >= 1
      /\ Dated(runs, s) /\ Rows(runs, s) /\ Open(runs, k - 1, s) /\ Over(runs, s)
      /\ Met(runs, k - 1, s)
  BY DEF CountInv, Dated
<1>5. CASE ~Completed(night)
  <2>1. e = s /\ Seen(runs, k) = Seen(runs, k - 1) BY <1>1, <1>5 DEF Turn
  <2>2. Open(runs, k, s) /\ Met(runs, k, s) BY <1>4, <2>1 DEF Open, Met
  <2>3. c <= k BY <1>3
  <2>4. Seen(runs, k) = {} => c = 0 /\ s.end = Null BY <2>1 DEF CountInv
  <2> QED BY <1>3, <1>4, <2>1, <2>2, <2>3, <2>4 DEF CountInv
<1>6. CASE Completed(night)
  <2>1. e = n /\ Seen(runs, k) = Seen(runs, k - 1) \cup {i} BY <1>1, <1>6 DEF Turn
  <2>2. \/ s.end # Null /\ n = s
        \/ s.end = Null /\ late /\ n = Tally(s.cycles, Missed(runs, due), s.counted)
        \/ /\ s.end = Null /\ ~late /\ ~Passed(night)
           /\ \E kind \in RunKinds : n = Tally(s.cycles, End(night.date, kind, night), s.counted)
        \/ s.end = Null /\ Passed(night) /\ night.date = s.counted /\ n = s
        \/ /\ s.end = Null /\ ~late /\ Passed(night) /\ night.date # s.counted
           /\ n = Tally(Append(s.cycles, night), s.end, night.date)
    BY <1>1, <1>3, NextIs
  <2>3. /\ \A day \in Int : day > night.date /\ (\A j \in Seen(runs, k - 1) : runs[j].date > day)
             => Of(runs, day) = {}
        /\ \A day \in Int : day > night.date => Of(runs, day) \subseteq Seen(runs, k - 1)
        /\ i \in Of(runs, night.date)
    BY <1>6, DayIs
  <2>4. ASSUME s.end = Null, night.date # s.counted, ~(night.date < due)
        PROVE  /\ night.date = L - c
               /\ \A j \in Seen(runs, k - 1) : runs[j].date > night.date
               /\ Newest(runs, L - c) <=> Passed(night)
    BY <1>6, <2>4, DueIs
  <2>5. Seen(runs, k) # {} /\ i \in Seen(runs, k) BY <2>1
  <2> HIDE DEF e, n, i, c, L
  \* The streak has ended: it stays as long as it was.
  <2>6. ASSUME NEW end \in Ends(runs), ~InARow(runs, Today, c + 1),
               c > 0 => end.date \in {s.counted, s.counted - 1}, e = Tally(s.cycles, end, s.counted)
        PROVE  CountInv(runs, k, e)
    <3>1. e.cycles = s.cycles /\ e.end = end /\ e.counted = s.counted
          /\ e = Tally(e.cycles, e.end, e.counted)
      BY <2>6, TallyIs
    <3>2. e \in Tallies(runs) BY <1>3, <3>1, InTallies
    <3>3. Dated(runs, e) /\ Rows(runs, e) BY <1>4, <3>1 DEF Dated, Rows
    <3>4. e.end # Null BY <1>2, <3>1
    <3>5. Open(runs, k, e) BY <3>4 DEF Open
    <3>6. Over(runs, e) BY <2>6, <3>1 DEF Over, c
    <3>7. Met(runs, k, e) BY <1>4, <2>1, <3>1 DEF Met
    <3>8. Len(e.cycles) <= k BY <1>3, <3>1 DEF c
    <3> QED BY <2>5, <3>2, <3>3, <3>5, <3>6, <3>7, <3>8 DEF CountInv
  <2>7. CASE s.end # Null /\ n = s
    <3>1. s.end \in Ends(runs) /\ e = Tally(s.cycles, s.end, s.counted) BY <1>3, <2>1, <2>7
    <3>2. /\ ~InARow(runs, Today, c + 1)
          /\ c > 0 => s.end.date \in {s.counted, s.counted - 1}
      BY <1>4, <2>7 DEF Over, c
    <3> QED BY <2>6, <3>1, <3>2 DEF e
  <2>8. CASE s.end = Null /\ late /\ n = Tally(s.cycles, Missed(runs, due), s.counted)
    <3>1. due \in Int BY <1>2, <1>3
    <3>2. Missed(runs, due) \in Ends(runs) /\ Missed(runs, due).date = due
      BY <3>1, MissedIs
    <3>3. ~InARow(runs, Today, c + 1) /\ (c > 0 => due = s.counted - 1)
      <4>1. CASE c = 0
        <5>1. Seen(runs, k - 1) = {} BY <1>4, <2>8, <4>1 DEF Open, c
        <5>2. due = Today - 1 /\ night.date < Today - 1 BY <1>4, <2>8, <4>1
        <5>3. Of(runs, Today) = {} /\ Of(runs, Today - 1) = {}
          BY <1>2, <2>3, <5>1, <5>2
        <5>4. L - c = Today - 1 BY <1>2, <4>1, <5>3 DEF Latest, L
        <5>5. ~Newest(runs, L - c) BY <5>3, <5>4 DEF Newest
        <5> QED BY <1>3, <4>1, <5>5, TooMany DEF L
      <4>2. CASE c > 0
        <5>1. due = s.counted - 1 /\ due = L - c /\ night.date < due BY <1>3, <1>4, <2>8, <4>2
        <5>2. \A j \in Seen(runs, k - 1) : runs[j].date > due
          <6>1. \A j \in Seen(runs, k - 1) : runs[j].date >= s.counted /\ runs[j].date \in Int
            BY <1>2, <1>4, <2>8 DEF Open, Seen
          <6> QED BY <1>3, <5>1, <6>1
        <5>3. Of(runs, due) = {} BY <1>2, <2>3, <3>1, <5>1, <5>2
        <5>4. ~Newest(runs, L - c) BY <5>1, <5>3 DEF Newest
        <5> QED BY <1>3, <5>1, <5>4, TooMany DEF L
      <4> QED BY <1>3, <4>1, <4>2
    <3> HIDE DEF due
    <3> QED BY <2>1, <2>6, <2>8, <3>2, <3>3 DEF e
  <2>9. CASE /\ s.end = Null /\ ~late /\ ~Passed(night)
             /\ \E kind \in RunKinds : n = Tally(s.cycles, End(night.date, kind, night), s.counted)
    <3>1. PICK kind \in RunKinds : n = Tally(s.cycles, End(night.date, kind, night), s.counted)
      BY <2>9
    <3> DEFINE end == End(night.date, kind, night)
    <3>2. end \in Ends(runs) /\ end.date = night.date BY <1>1, <1>2 DEF End, Ends
    <3>3. ~InARow(runs, Today, c + 1) /\ (c > 0 => night.date \in {s.counted, s.counted - 1})
      <4>1. CASE night.date = s.counted
        <5>1. c > 0 /\ night.date = L - c + 1 BY <1>2, <1>3, <1>4, <4>1
        <5>2. ~Whole(runs, L - c + 1)
          <6>1. i \in Of(runs, L - c + 1) BY <2>3, <5>1
          <6> QED BY <2>9, <6>1 DEF Whole
        <5> QED BY <1>3, <4>1, <5>1, <5>2, TooMany DEF L
      <4>2. CASE night.date # s.counted
        <5>1. night.date = L - c /\ ~Newest(runs, L - c) BY <2>4, <2>9, <4>2
        <5>2. c > 0 => night.date = s.counted - 1 BY <1>3, <1>4, <5>1
        <5> QED BY <1>3, <5>1, <5>2, TooMany DEF L
      <4> QED BY <4>1, <4>2
    <3> HIDE DEF end
    <3> QED BY <2>1, <2>6, <3>1, <3>2, <3>3 DEF end, e
  <2>10. CASE s.end = Null /\ Passed(night) /\ night.date = s.counted /\ n = s
    <3>1. e = s BY <2>1, <2>10
    <3>2. c > 0 BY <1>2, <1>3, <1>4, <2>10
    <3>3. Open(runs, k, s)
      <4>1. Passed(runs[i]) /\ runs[i].date >= s.counted BY <1>2, <2>10
      <4>2. \A j \in Seen(runs, k) : Passed(runs[j]) /\ runs[j].date >= s.counted
        BY <1>4, <2>1, <2>10, <4>1 DEF Open
      <4> QED BY <3>2, <4>2 DEF Open, c
    <3>4. Met(runs, k, s) BY <1>4, <2>1 DEF Met
    <3>5. Len(s.cycles) <= k BY <1>3 DEF c
    <3> QED BY <1>3, <1>4, <2>5, <3>1, <3>3, <3>4, <3>5 DEF CountInv, e
  <2>11. CASE /\ s.end = Null /\ ~late /\ Passed(night) /\ night.date # s.counted
              /\ n = Tally(Append(s.cycles, night), s.end, night.date)
    <3>1. /\ night.date = L - c /\ Newest(runs, L - c)
          /\ \A j \in Seen(runs, k - 1) : runs[j].date > night.date
      BY <2>4, <2>11
    <3> DEFINE more == Append(s.cycles, night)
    <3>2. /\ more \in Seq(Ran(runs)) /\ Len(more) = c + 1 /\ more[c + 1] = night
          /\ \A x \in 1..c : more[x] = s.cycles[x]
      BY <1>1, <1>3 DEF c
    <3> HIDE DEF more
    <3>3. /\ e.cycles = more /\ e.end = Null /\ e.counted = night.date
          /\ e = Tally(e.cycles, e.end, e.counted)
      <4>1. e = Tally(more, Null, night.date) BY <2>1, <2>11 DEF more
      <4> QED BY <4>1, TallyIs
    <3>4. e \in Tallies(runs) BY <1>2, <3>2, <3>3, InTallies
    <3>5. Dated(runs, e)
      <4>1. ASSUME NEW x \in 1..(c + 1) PROVE more[x].date = L - x + 1 /\ more[x].attempt = 1
        <5>1. CASE x = c + 1 BY <1>3, <2>11, <3>1, <3>2, <5>1 DEF Passed
        <5>2. CASE x # c + 1
          <6>1. x \in 1..c BY <1>3, <5>2
          <6>2. s.cycles[x].date = L - x + 1 /\ s.cycles[x].attempt = 1
            BY <1>4, <6>1 DEF Dated, c, L
          <6> QED BY <3>2, <6>1, <6>2
        <5> QED BY <5>1, <5>2
      <4>2. night.date = L - (c + 1) + 1 /\ c + 1 # 0 BY <1>3, <3>1
      <4> QED BY <1>2, <3>2, <3>3, <4>1, <4>2 DEF Dated, L
    <3>6. Rows(runs, e)
      <4>1. ASSUME NEW day \in (L - (c + 1) + 1)..L PROVE Newest(runs, day)
        <5>1. day = L - c \/ day \in (L - c + 1)..L BY <1>3
        <5> QED BY <1>4, <3>1, <5>1 DEF Rows, c, L
      <4>2. ASSUME NEW day \in (L - (c + 1) + 2)..L PROVE Whole(runs, day)
        <5>1. day = L - c + 1 \/ day \in (L - c + 2)..L BY <1>3
        <5>2. CASE day \in (L - c + 2)..L BY <1>4, <5>2 DEF Rows, c, L
        <5>3. CASE day = L - c + 1
          <6>1. c > 0 /\ day \in (L - c + 1)..L /\ day \in Int /\ day > night.date
            BY <1>3, <3>1, <5>3
          <6>2. Newest(runs, day) BY <1>4, <6>1 DEF Rows, c, L
          <6>3. \A j \in Of(runs, day) : Passed(runs[j])
            BY <1>4, <2>3, <2>11, <6>1 DEF Open
          <6> QED BY <6>2, <6>3 DEF Newest, Whole
        <5> QED BY <5>1, <5>2, <5>3
      <4> QED BY <3>2, <3>3, <4>1, <4>2 DEF Rows, L
    <3>7. Open(runs, k, e)
      <4>1. \A j \in Seen(runs, k - 1) : Passed(runs[j]) /\ runs[j].date >= night.date
        <5>1. \A j \in Seen(runs, k - 1) : runs[j].date \in Int BY <1>2 DEF Seen
        <5> QED BY <1>2, <1>4, <2>11, <3>1, <5>1 DEF Open
      <4>2. \A j \in Seen(runs, k) : Passed(runs[j]) /\ runs[j].date >= night.date
        BY <1>2, <2>1, <2>11, <4>1
      <4>3. Len(e.cycles) # 0 BY <1>3, <3>2, <3>3
      <4> QED BY <3>3, <4>2, <4>3 DEF Open
    <3>8. Met(runs, k, e) BY <2>5, <3>3 DEF Met
    <3>9. Over(runs, e) BY <3>3 DEF Over
    <3>10. Len(e.cycles) <= k BY <1>3, <3>2, <3>3
    <3> QED BY <2>5, <3>4, <3>5, <3>6, <3>7, <3>8, <3>9, <3>10 DEF CountInv, e
  <2> QED BY <2>2, <2>7, <2>8, <2>9, <2>10, <2>11 DEF e
<1> QED BY <1>5, <1>6

LEMMA StepIs ==
  ASSUME NEW runs, History(runs), NEW k \in 1..Len(runs), NEW s \in Tallies(runs)
  PROVE  Turn(runs, k, s) \in Tallies(runs)
<1> DEFINE night == runs[Len(runs) - k + 1]
           due == (IF s.counted = 0 THEN Today ELSE s.counted) - 1
           e == Turn(runs, k, s)
<1>1. night \in Ran(runs) /\ night.date \in Int /\ 1 <= night.date
  <2>1. Len(runs) - k + 1 \in DOMAIN runs /\ night \in Ran(runs) BY SeenIs
  <2> QED BY <2>1, HistoryIs
<1>2. s.cycles \in Seq(Ran(runs)) /\ s.end \in Ends(runs) \cup {Null} /\ s.counted \in Nat
  BY InTallies
<1>3. due \in Int BY <1>2 DEF History
<1>4. \/ e = s
      \/ e = Tally(s.cycles, Missed(runs, due), s.counted)
      \/ \E kind \in RunKinds : e = Tally(s.cycles, End(night.date, kind, night), s.counted)
      \/ e = Tally(Append(s.cycles, night), s.end, night.date)
  BY <1>1, NextIs DEF Turn
<1>5. ASSUME NEW c \in Seq(Ran(runs)), NEW x \in Ends(runs) \cup {Null}, NEW d \in Nat
      PROVE  Tally(c, x, d) \in Tallies(runs)
  BY TallyIs, InTallies
<1>6. Missed(runs, due) \in Ends(runs) BY <1>3, MissedIs
<1>7. \A kind \in RunKinds : End(night.date, kind, night) \in Ends(runs)
  BY <1>1 DEF End, Ends
<1>8. Append(s.cycles, night) \in Seq(Ran(runs)) /\ night.date \in Nat BY <1>1, <1>2
<1> DEFINE more == Append(s.cycles, night)
           missed == Missed(runs, due)
<1> HIDE DEF e, night, due, more, missed
<1>9. CASE e = s BY <1>9 DEF e
<1>10. CASE e = Tally(s.cycles, missed, s.counted) BY <1>2, <1>5, <1>6, <1>10 DEF e, missed
<1>11. CASE \E kind \in RunKinds : e = Tally(s.cycles, End(night.date, kind, night), s.counted)
  BY <1>2, <1>5, <1>7, <1>11 DEF e
<1>12. CASE e = Tally(more, s.end, night.date) BY <1>2, <1>5, <1>8, <1>12 DEF e, more
<1> QED BY <1>4, <1>9, <1>10, <1>11, <1>12 DEF more, missed

LEMMA CountedIs ==
  ASSUME NEW runs, History(runs)
  PROVE  CountInv(runs, Len(runs), Counted(runs, Today)[Len(runs)])
<1> DEFINE A == Tallies(runs)
           N == Len(runs)
           b == [cycles |-> <<>>, end |-> Null, counted |-> 0]
           G == [k \in 1..N |-> [s \in A |-> Turn(runs, k, s)]]
           Def(g) == [k \in 0..N |-> IF k = 0 THEN b ELSE Turn(runs, k, g[k - 1])]
           W == Counted(runs, Today)
<1>1. N \in Nat /\ DOMAIN runs = 1..N BY HistoryIs
<1>2. b = Tally(<<>>, Null, 0) BY DEF Tally
<1>3. b \in A /\ b.cycles = <<>> /\ b.end = Null /\ b.counted = 0
  <2>1. b.cycles = <<>> /\ b.end = Null /\ b.counted = 0 BY <1>2, TallyIs
  <2>2. <<>> \in Seq(Ran(runs)) /\ Null \in Ends(runs) \cup {Null} /\ 0 \in Nat OBVIOUS
  <2>3. b \in A BY <2>2 DEF Tallies
  <2> QED BY <2>1, <2>3
<1>4. CountInv(runs, 0, b)
  <2>1. Seen(runs, 0) = {} BY <1>1 DEF Seen
  <2>2. Len(b.cycles) = 0 BY <1>3
  <2>3. Latest(runs) \in Int BY DEF Latest, History
  <2> HIDE DEF b
  <2>4. Dated(runs, b) BY <1>3, <2>2 DEF Dated
  <2>5. Rows(runs, b) BY <2>2, <2>3 DEF Rows
  <2>6. Open(runs, 0, b) /\ Over(runs, b) /\ Met(runs, 0, b)
    BY <1>3, <2>1, <2>2 DEF Open, Over, Met
  <2> QED BY <1>3, <2>1, <2>2, <2>4, <2>5, <2>6 DEF CountInv
<1>5. W = CHOOSE g : g = Def(g) BY DEF Counted, Turn
<1> HIDE DEF A, b, W
<1>6. G \in [1..N -> [A -> A]] BY StepIs DEF A
<1> HIDE DEF G
<1>7. PICK f \in [0..N -> A] : f[0] = b /\ \A k \in 1..N : f[k] = G[k][f[k - 1]]
  <2>1. Iterations(A, b, G, N) # {} BY <1>1, <1>3, <1>6, Iterates
  <2> QED BY <2>1 DEF Iterations
<1>8. f = Def(f)
  <2>1. \A k \in 0..N : f[k] = IF k = 0 THEN b ELSE Turn(runs, k, f[k - 1])
    <3> SUFFICES ASSUME NEW k \in 0..N, k # 0 PROVE f[k] = Turn(runs, k, f[k - 1]) BY <1>7
    <3>1. k \in 1..N /\ k - 1 \in 0..N BY <1>1
    <3>2. f[k] = G[k][f[k - 1]] /\ f[k - 1] \in A BY <1>7, <3>1
    <3> QED BY <3>1, <3>2 DEF G
  <2> QED BY <2>1
<1> HIDE DEF Def
<1>9. W = Def(W) BY <1>5, <1>8
<1>10. W[0] = b /\ \A k \in 1..N : W[k] = Turn(runs, k, W[k - 1])
  <2>1. \A k \in 0..N : W[k] = IF k = 0 THEN b ELSE Turn(runs, k, W[k - 1]) BY <1>9 DEF Def
  <2> QED BY <1>1, <2>1
<1> DEFINE S == {k \in Nat : k <= N => CountInv(runs, k, W[k])}
<1>11. 0 \in S BY <1>4, <1>10
<1>12. ASSUME NEW k \in S PROVE k + 1 \in S
  <2> SUFFICES ASSUME k + 1 <= N PROVE CountInv(runs, k + 1, W[k + 1]) OBVIOUS
  <2>1. k + 1 \in 1..N /\ (k + 1) - 1 = k /\ CountInv(runs, k, W[k]) BY <1>1
  <2>2. CountInv(runs, k + 1, Turn(runs, k + 1, W[k])) BY <2>1, CountKeeps
  <2> QED BY <1>10, <2>1, <2>2
<1>13. S \in SUBSET Nat OBVIOUS
<1> HIDE DEF S
<1>14. N \in S BY <1>1, <1>11, <1>12, <1>13, SetInduction
<1> QED BY <1>1, <1>14 DEF S, W

\* When the history has been gone through, no day more is in a row.
LEMMA RowEnds ==
  ASSUME NEW runs, History(runs), NEW s, CountInv(runs, Len(runs), s)
  PROVE  ~InARow(runs, Today, Len(s.cycles) + 1)
<1> DEFINE c == Len(s.cycles)
           N == Len(runs)
<1>1. c \in Nat /\ N \in Nat /\ Latest(runs) \in Int
  <2>1. N \in Nat BY HistoryIs
  <2> QED BY <2>1, InTallies DEF CountInv, Latest, History
<1>2. CASE s.end # Null BY <1>2 DEF CountInv, Over
<1>3. CASE s.end = Null
  <2>1. \A i \in DOMAIN runs : Completed(runs[i]) => i \in Seen(runs, N)
    BY HistoryIs DEF Seen
  <2>2. \A i \in DOMAIN runs : Completed(runs[i]) =>
          c > 0 /\ runs[i].date >= Latest(runs) - c + 1
    BY <1>1, <1>3, <2>1 DEF CountInv, Open, Dated
  <2>3. \A i \in DOMAIN runs : runs[i].date \in Int BY HistoryIs
  <2>4. Of(runs, Latest(runs) - c) = {}
    BY <1>1, <2>2, <2>3 DEF Of
  <2>5. ~Newest(runs, Latest(runs) - c) BY <2>4 DEF Newest
  <2> QED BY <1>1, <2>5, TooMany
<1> QED BY <1>2, <1>3

LEMMA StreakIs ==
  ASSUME NEW runs, History(runs), NEW s, CountInv(runs, Len(runs), s), NEW n \in Nat
  PROVE  InARow(runs, Today, n) <=> n <= Len(s.cycles)
<1> DEFINE c == Len(s.cycles)
           L == Latest(runs)
<1>1. c \in Nat /\ L \in Int BY InTallies DEF CountInv, Latest, History
<1>2. CASE n <= c
  <2>1. \A day \in (L - c + 1)..L : Newest(runs, day) BY DEF CountInv, Rows
  <2>2. \A day \in (L - c + 2)..L : Whole(runs, day) BY DEF CountInv, Rows
  <2> HIDE DEF c, L
  <2>3. (L - n + 1)..L \subseteq (L - c + 1)..L /\ (L - n + 2)..L \subseteq (L - c + 2)..L
    BY <1>1, <1>2
  <2> QED BY <1>2, <2>1, <2>2, <2>3, InARowIs DEF c, L
<1>3. CASE ~(n <= c)
  <2>1. ~InARow(runs, Today, c + 1) BY RowEnds
  <2> HIDE DEF c, L
  <2>2. /\ (L - (c + 1) + 1)..L \subseteq (L - n + 1)..L
        /\ (L - (c + 1) + 2)..L \subseteq (L - n + 2)..L
        /\ n > 0 /\ c + 1 > 0
    BY <1>1, <1>3
  <2>3. InARow(runs, Today, n) => InARow(runs, Today, c + 1)
    BY <2>2, InARowIs DEF L
  <2> QED BY <1>3, <2>1, <2>3 DEF c
<1> QED BY <1>2, <1>3

\* The ledger that is written is one its own check accepts.
LEMMA LedgerIs ==
  ASSUME NEW runs, History(runs), NEW hand
  PROVE  LET l == Ledger(runs, Today, hand)
             s == Counted(runs, Today)[Len(runs)]
         IN  /\ l.current = Len(s.cycles) /\ l.authorized = hand.authorized
             /\ LedgerProblems(l) = {}
<1> DEFINE l == Ledger(runs, Today, hand)
           s == Counted(runs, Today)[Len(runs)]
           older == /\ s.counted # 0
                    /\ \E i \in DOMAIN runs : /\ Scheduled(runs[i])
                                              /\ runs[i].date < s.counted
           end == IF s.end = Null /\ older THEN Missed(runs, s.counted - 1) ELSE s.end
           c == Len(s.cycles)
<1>1. CountInv(runs, Len(runs), s) BY CountedIs
<1>2. /\ l.cycles = s.cycles /\ l.end = end /\ l.current = Len(s.cycles)
      /\ l.status = IF \A i \in DOMAIN runs : ~Completed(runs[i])
                    THEN "no_scheduled_runs" ELSE "measured"
      /\ l.first = IF s.cycles = <<>> THEN Null ELSE Last(s.cycles).date
      /\ l.last = IF s.cycles = <<>> THEN Null ELSE Head(s.cycles).date
      /\ l.authorized = hand.authorized
  BY DEF Ledger, ComputeStreak
<1> HIDE DEF l, s
<1>3. /\ s.cycles \in Seq(Ran(runs)) /\ s.end \in Ends(runs) \cup {Null} /\ s.counted \in Nat
      /\ c \in Nat /\ (c = 0 <=> s.cycles = <<>>) /\ Null \notin Ends(runs)
      /\ Latest(runs) \in Int
  BY <1>1, InTallies DEF CountInv, History, Latest
<1>4. /\ s.counted = IF c = 0 THEN 0 ELSE Latest(runs) - c + 1
      /\ \A i \in 1..c : s.cycles[i].date = Latest(runs) - i + 1 /\ s.cycles[i].attempt = 1
  BY <1>1 DEF CountInv, Dated
<1>5. s.cycles # <<>> => Last(s.cycles).date = s.counted
  <2> SUFFICES ASSUME s.cycles # <<>> PROVE Last(s.cycles).date = s.counted OBVIOUS
  <2>1. c \in 1..c /\ c # 0 BY <1>3
  <2>2. Last(s.cycles) = s.cycles[c] BY DEF Last
  <2> QED BY <1>4, <2>1, <2>2
<1>6. s.cycles # <<>> /\ end # Null => end.date \in {s.counted, s.counted - 1}
  <2>1. Missed(runs, s.counted - 1).date = s.counted - 1 BY <1>3, MissedIs
  <2>2. s.cycles # <<>> /\ s.end # Null => s.end.date \in {s.counted, s.counted - 1}
    BY <1>1, <1>3 DEF CountInv, Over
  <2> QED BY <2>1, <2>2
<1>7. IF \A i \in DOMAIN runs : ~Completed(runs[i])
      THEN s.cycles = <<>> /\ end = Null ELSE ~(s.cycles = <<>> /\ end = Null)
  <2>1. \A i : i \in Seen(runs, Len(runs)) <=> i \in DOMAIN runs /\ Completed(runs[i])
    BY HistoryIs DEF Seen
  <2>2. Seen(runs, Len(runs)) = {} => s.cycles = <<>> /\ s.end = Null /\ s.counted = 0
    BY <1>1, <1>3, <1>4 DEF CountInv
  <2>3. s.end = Null /\ c = 0 => Seen(runs, Len(runs)) = {} BY <1>1 DEF CountInv, Open
  <2> QED BY <1>3, <2>1, <2>2, <2>3
<1> DEFINE date(i) == l.cycles[i].date
           oldest == IF l.cycles = <<>> THEN Null ELSE Last(l.cycles).date
           newest == IF l.cycles = <<>> THEN Null ELSE Head(l.cycles).date
           problem ==
             [count |-> l.current # Len(l.cycles),
              first |-> l.first # oldest,
              last |-> l.last # newest,
              attempts |-> \E i \in DOMAIN l.cycles : l.cycles[i].attempt # 1,
              dates |-> \E i \in 2..Len(l.cycles) : date(i) # date(i - 1) - 1,
              end |-> l.end # Null /\ oldest # Null /\ l.end.date \notin {oldest, oldest - 1},
              status |-> IF l.status = "measured" THEN l.cycles = <<>> /\ l.end = Null
                         ELSE l.cycles # <<>> \/ l.end # Null]
<1>8. LedgerProblems(l) = {p \in DOMAIN problem : problem[p]} BY DEF LedgerProblems
<1> HIDE DEF end, older, c
<1>9. /\ ~(l.current # Len(l.cycles)) /\ ~(l.first # oldest) /\ ~(l.last # newest) BY <1>2
<1>10. ~\E i \in DOMAIN l.cycles : l.cycles[i].attempt # 1
  <2>1. DOMAIN l.cycles = 1..c BY <1>2, <1>3 DEF c
  <2> QED BY <1>2, <1>4, <2>1
<1>11. ~\E i \in 2..Len(l.cycles) : date(i) # date(i - 1) - 1
  <2>1. \A i \in 2..c : i \in 1..c /\ i - 1 \in 1..c BY <1>3
  <2>2. \A i \in 2..c : s.cycles[i].date = s.cycles[i - 1].date - 1 BY <1>3, <1>4, <2>1
  <2> QED BY <1>2, <2>2 DEF c
<1>12. ~(l.end # Null /\ oldest # Null /\ l.end.date \notin {oldest, oldest - 1})
  BY <1>2, <1>5, <1>6
<1>13. IF l.status = "measured" THEN ~(l.cycles = <<>> /\ l.end = Null)
       ELSE ~(l.cycles # <<>> \/ l.end # Null)
  BY <1>2, <1>7
<1> HIDE DEF oldest, newest, date
<1>14. \A p \in DOMAIN problem : ~problem[p]
  <2>1. DOMAIN problem = {"count", "first", "last", "attempts", "dates", "end", "status"} OBVIOUS
  <2>2. ~problem["count"] /\ ~problem["first"] /\ ~problem["last"] BY <1>9
  <2>3. ~problem["attempts"] BY <1>10
  <2>4. ~problem["dates"] BY <1>11
  <2>5. ~problem["end"] BY <1>12
  <2>6. ~problem["status"] BY <1>13
  <2> HIDE DEF problem
  <2> QED BY <2>1, <2>2, <2>3, <2>4, <2>5, <2>6
<1> HIDE DEF problem
<1>15. LedgerProblems(l) = {} BY <1>8, <1>14
<1> QED BY <1>2, <1>15 DEF l, s

LEMMA StreaksExact ==
  ASSUME NEW runs, History(runs), NEW hand
  PROVE  StreakExact(runs, Today, hand)
<1> DEFINE l == Ledger(runs, Today, hand)
           s == Counted(runs, Today)[Len(runs)]
<1>1. CountInv(runs, Len(runs), s) BY CountedIs
<1>2. l.current = Len(s.cycles) /\ LedgerProblems(l) = {} BY LedgerIs
<1>3. \A n \in Nat : InARow(runs, Today, n) <=> n <= Len(s.cycles) BY <1>1, StreakIs
<1>4. 0..(Len(runs) + 1) \subseteq Nat BY HistoryIs
<1> HIDE DEF l, s
<1>5. \A n \in 0..(Len(runs) + 1) : InARow(runs, Today, n) <=> n <= l.current
  BY <1>2, <1>3, <1>4
<1> QED BY <1>2, <1>5 DEF StreakExact, l

LEMMA ReleasesOnStreak ==
  ASSUME NEW runs, History(runs), Required \in Nat, NEW committed
  PROVE  PublishesOnStreak(committed, runs, Today)
<1> DEFINE l == Ledger(runs, Today, committed)
           s == Counted(runs, Today)[Len(runs)]
<1> SUFFICES ASSUME CheckStableRelease(committed, runs, Today, TRUE)
             PROVE  InARow(runs, Today, Required) /\ committed.authorized
    BY DEF PublishesOnStreak
<1>1. StableReleaseProblems(committed, Today) = {} /\ committed = l
  BY DEF CheckStableRelease
<1>2. committed.authorized /\ committed.current >= Required
  BY <1>1 DEF StableReleaseProblems
<1>3. CountInv(runs, Len(runs), s) BY CountedIs
<1>4. l.current = Len(s.cycles) BY LedgerIs
<1>5. Len(s.cycles) \in Nat BY <1>3, InTallies DEF CountInv
<1> HIDE DEF l, s
<1>6. Required <= Len(s.cycles) BY <1>1, <1>2, <1>4, <1>5
<1> QED BY <1>2, <1>3, <1>6, StreakIs

\* The histories of a behaviour.
AuditInv == call.of = "audit" => call.runs \in Histories

LEMMA AuditKept == CallSpec => []AuditInv
<1>1. CallInit => AuditInv BY DEF CallInit, AuditInv
<1>2. AuditInv /\ [CallNext]_callVars => AuditInv'
  <2> SUFFICES ASSUME AuditInv, [CallNext]_callVars PROVE AuditInv' OBVIOUS
  <2>1. CASE UNCHANGED callVars BY <2>1 DEF callVars, AuditInv
  <2>2. CASE Translate BY <2>2 DEF Translate, AuditInv
  <2>3. CASE Compile BY <2>3 DEF Compile, AuditInv
  <2>4. CASE Accept BY <2>4 DEF Accept, AuditInv
  <2>5. CASE Import BY <2>5 DEF Import, AuditInv
  <2>6. CASE Instrument BY <2>6 DEF Instrument, AuditInv
  <2>7. CASE Vectored BY <2>7 DEF Vectored, AuditInv
  <2>8. CASE Audit
    <3>1. \E runs \in Histories : call'.runs = runs BY <2>8 DEF Audit
    <3> QED BY <3>1 DEF AuditInv
  <2> QED BY <2>1, <2>2, <2>3, <2>4, <2>5, <2>6, <2>7, <2>8 DEF CallNext
<1> QED BY <1>1, <1>2, PTL DEF CallSpec

\* The streak is as long as the history allows and no longer, the ledger
\* written from it passes its own check, and whatever ledger was committed a
\* stable release is published only on that many days in a row in the history
\* as it is now: audit-nightly.ts, stable-release.ts.
THEOREM ReleasesRestOnStreaks == CallSpec => []StreakHonest
<1>1. AuditInv => StreakHonest
  <2> SUFFICES ASSUME AuditInv, call.of = "audit"
               PROVE  /\ StreakExact(call.runs, Today, call.hand)
                      /\ PublishesOnStreak(call.committed, call.runs, Today)
      BY DEF StreakHonest
  <2>1. call.runs \in Histories BY DEF AuditInv
  <2>2. History(call.runs) /\ Required \in Nat
    BY <2>1, HistoryAssumption DEF History, Ends, RunKinds, Ran
  <2> QED BY <2>2, StreaksExact, ReleasesOnStreak
<1> QED BY <1>1, AuditKept, PTL

=============================================================================
