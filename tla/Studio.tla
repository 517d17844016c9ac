------------------------------- MODULE Studio -------------------------------
(***************************************************************************)
(* Schema Studio (examples/browser): the workspace and session transitions *)
(* of state.js, the event handlers of main.js that apply them and run      *)
(* jobs, and the one worker client compiler.js keeps for those jobs.       *)
(*                                                                         *)
(* The page is one JavaScript thread.  An action is one event with every   *)
(* microtask it leads to, so a run() that waited for a job resumes in the  *)
(* action that ends the job.  A modal dialog keeps the user from every     *)
(* other control, but not a job or an import from going on.                *)
(***************************************************************************)
EXTENDS Integers, Sequences, FiniteSets

CONSTANTS
  Paths,         \* the paths a file may have
  Schemas,       \* the ones isSchema accepts
  Contents,      \* what a file may hold
  Huge,          \* the content that makes a workspace too large
  Sources,       \* the file maps the presets and imports provide
  Languages, First, \* the output languages and the one shown first
  MaxFiles,      \* limits.entries
  MaxRevision, MaxWaiting, \* bounds on the changes and on the waiting runs
  None

FileMaps == UNION {[P -> Contents] : P \in SUBSET Paths}

\* validateFiles
Valid(files) ==
  /\ DOMAIN files # {} /\ Cardinality(DOMAIN files) <= MaxFiles
  /\ \A p \in DOMAIN files : files[p] # Huge

\* What a request or an output is made from, a session's job slot, and a job:
\* it has the request to reuse once phase work has compiled one.
Snapshots == [files : FileMaps, entrypoints : SUBSET Schemas]
Slots == [revision : 0..MaxRevision, targets : SUBSET Languages]
Jobs == [revision : 0..MaxRevision, targets : SUBSET Languages, snapshot : Snapshots,
         request : Snapshots \cup {None}, phase : {"load", "create", "work"},
         aborted : BOOLEAN]

ASSUME StudioAssumption ==
  /\ Schemas \subseteq Paths /\ First \in Languages /\ Sources # {}
  /\ \A files \in Sources : files \in FileMaps /\ Valid(files)
  /\ {MaxFiles, MaxRevision, MaxWaiting} \subseteq Nat
  /\ None \notin Slots /\ None \notin Jobs
  /\ \A some \in SUBSET Languages : some # None

VARIABLES
  ws,            \* the workspace
  session,       \* the cached request, the outputs by language, the job slot
  job,           \* main.js's job, with the snapshot execute() works on
  waiting,       \* the targets of the run() calls that await the job's end
  reading,       \* the files an import is still reading
  asking,        \* the questions the confirm dialog will answer, oldest first
  thrown,        \* a run() has thrown "A job is already running."
  client,        \* the generators of the worker client in use, if any
  live,          \* the clients not disposed, each by its generators
  disposed       \* the page is going away and the compiler was disposed

compiler == <<client, live, disposed>>
vars == <<ws, session, job, waiting, reading, asking, thrown, client, live, disposed>>

Snapshot(w) == [files |-> w.files, entrypoints |-> w.entrypoints]
Questions == [kind : {"delete"}, path : Paths]
             \cup [kind : {"replace"}, files : Sources, dirty : BOOLEAN]

\* Types, and what every workspace transition keeps: at least one file, the
\* shown file is one of them, and only schemas that exist are entrypoints.
TypeOK ==
  /\ ws \in [files : FileMaps, entrypoints : SUBSET Schemas, active : Paths,
             revision : 0..MaxRevision, dirty : BOOLEAN]
  /\ ws.active \in DOMAIN ws.files /\ ws.entrypoints \subseteq DOMAIN ws.files
  /\ session.request \in Snapshots \cup {None} /\ session.job \in Slots \cup {None}
  /\ session.requestRevision \in -1..MaxRevision
  /\ DOMAIN session.outputs \subseteq Languages
  /\ \A l \in DOMAIN session.outputs : session.outputs[l] \in Snapshots
  /\ session.language \in Languages
  /\ job \in Jobs \cup {None} /\ waiting \in Seq(SUBSET Languages)
  /\ reading \in Sources \cup {None} /\ asking \in Seq(Questions)
  /\ thrown \in BOOLEAN /\ disposed \in BOOLEAN
  /\ client \in (SUBSET Languages) \cup {None} /\ live \subseteq SUBSET Languages

-----------------------------------------------------------------------------
(* state.js: the workspace transitions.  A Map keeps its insertion order;  *)
(* which of several files is the first is left open.                       *)

\* Mutant: a replacement starts its revisions afresh.
OpenAtZero(files, revision, dirty) ==
  { [files |-> files, entrypoints |-> DOMAIN files \cap Schemas, active |-> p,
     revision |-> 0, dirty |-> dirty] :
    p \in IF DOMAIN files \cap Schemas # {} THEN DOMAIN files \cap Schemas ELSE DOMAIN files }

OpenWorkspace(files, revision, dirty) ==
  { [files |-> files, entrypoints |-> DOMAIN files \cap Schemas, active |-> p,
     revision |-> revision, dirty |-> dirty] :
    p \in IF DOMAIN files \cap Schemas # {} THEN DOMAIN files \cap Schemas ELSE DOMAIN files }

Changes(w, files, entrypoints, active) ==
  [files |-> files, entrypoints |-> entrypoints, active |-> active,
   revision |-> w.revision + 1, dirty |-> TRUE]

EditFile(w, bytes) ==
  Changes(w, [w.files EXCEPT ![w.active] = bytes], w.entrypoints, w.active)

With(files, path, bytes) ==
  [p \in DOMAIN files \cup {path} |-> IF p = path THEN bytes ELSE files[p]]
Without(files, path) == [p \in DOMAIN files \ {path} |-> files[p]]

AddFile(w, path, bytes) ==
  Changes(w, With(w.files, path, bytes), w.entrypoints \cup ({path} \cap Schemas), path)

\* The path renamed is the active one.
RenameFile(w, to) ==
  Changes(w, With(Without(w.files, w.active), to, w.files[w.active]),
          (w.entrypoints \ {w.active})
            \cup (IF w.active \in w.entrypoints THEN {to} \cap Schemas ELSE {}), to)

\* The workspaces a delete may leave; it throws for a missing or a last file.
DeleteFile(w, path) ==
  IF path \notin DOMAIN w.files \/ Cardinality(DOMAIN w.files) <= 1 THEN {w}
  ELSE { Changes(w, Without(w.files, path), w.entrypoints \ {path}, a) :
         a \in IF w.active = path THEN DOMAIN w.files \ {path} ELSE {w.active} }

SetEntrypoint(w, path) ==
  Changes(w, w.files, IF path \in w.entrypoints THEN w.entrypoints \ {path}
                      ELSE w.entrypoints \cup {path}, w.active)

-----------------------------------------------------------------------------
(* state.js: the session transitions.                                      *)

CreateSession(language) ==
  [request |-> None, requestRevision |-> -1, outputs |-> << >>,
   language |-> language, job |-> None]

Invalidate(s) == [s EXCEPT !.request = None, !.requestRevision = -1, !.outputs = << >>]

CanReuseRequest(s, revision) == s.request # None /\ s.requestRevision = revision

ShouldAutoRun(s, revision, language) ==
  s.job = None /\ CanReuseRequest(s, revision) /\ language \notin DOMAIN s.outputs

IsJobStale(s, revision) == s.job # None /\ s.job.revision # revision

\* The bytes generated for a language are stood for by the request they come from.
CompleteJob(s, revision, done) ==
  IF done.revision # revision THEN [s EXCEPT !.job = None]
  ELSE [s EXCEPT !.request = done.request, !.requestRevision = done.revision, !.job = None,
                 !.outputs = [l \in DOMAIN s.outputs \cup done.targets |->
                                IF l \in done.targets THEN done.request ELSE s.outputs[l]]]

FailJob(s, revision, failed) ==
  IF failed.revision # revision \/ failed.aborted THEN [s EXCEPT !.job = None]
  ELSE [s EXCEPT !.outputs = [l \in DOMAIN s.outputs \ failed.targets |-> s.outputs[l]],
                 !.job = None]

-----------------------------------------------------------------------------
(* main.js: the handlers that change the workspace.                        *)

Init ==
  /\ \E files \in Sources : ws \in OpenWorkspace(files, 0, FALSE)
  /\ session = CreateSession(First)
  /\ job = None /\ waiting = << >> /\ reading = None /\ asking = << >>
  /\ thrown = FALSE /\ client = None /\ live = {} /\ disposed = FALSE

Changed(w) ==
  /\ ws' = w
  /\ session' = IF w.revision = ws.revision THEN session ELSE Invalidate(session)
  /\ UNCHANGED <<job, waiting, thrown, compiler>>

\* The user can reach the controls.
Free == asking = << >> /\ ~disposed
CanChange == Free /\ ws.revision < MaxRevision

Edit ==
  /\ CanChange /\ UNCHANGED <<reading, asking>>
  /\ \E c \in Contents : Changed(EditFile(ws, c))

Submit ==
  /\ CanChange /\ UNCHANGED <<reading, asking>>
  /\ \E p \in Paths \ DOMAIN ws.files :
       \/ \E c \in Contents : Valid(With(ws.files, p, c)) /\ Changed(AddFile(ws, p, c))
       \/ Valid(RenameFile(ws, p).files) /\ Changed(RenameFile(ws, p))

Toggle ==
  /\ CanChange /\ UNCHANGED <<reading, asking>>
  /\ \E p \in DOMAIN ws.files \cap Schemas : Changed(SetEntrypoint(ws, p))

ShowFile ==
  /\ Free /\ \E p \in DOMAIN ws.files \ {ws.active} : ws' = [ws EXCEPT !.active = p]
  /\ UNCHANGED <<session, job, waiting, reading, asking, thrown, compiler>>

\* canReplace, then replaceWorkspace: a dirty workspace asks first.
Replace(files, dirty) ==
  \/ /\ ws.dirty
     /\ asking' = Append(asking, [kind |-> "replace", files |-> files, dirty |-> dirty])
     /\ UNCHANGED <<ws, session, job, waiting, thrown, compiler>>
  \/ /\ ~ws.dirty /\ UNCHANGED asking
     /\ \E w \in OpenWorkspace(files, ws.revision + 1, dirty) : Changed(w)

Example ==
  /\ CanChange /\ UNCHANGED reading
  /\ \E files \in Sources : Replace(files, FALSE)

OpenFiles ==
  /\ CanChange /\ reading = None /\ reading' \in Sources
  /\ UNCHANGED <<ws, session, job, waiting, asking, thrown, compiler>>

\* Mutant: whether to ask was settled before the files were read.
FilesReadUnasked ==
  /\ reading # None /\ ~disposed /\ ws.revision + Len(asking) < MaxRevision
  /\ reading' = None /\ UNCHANGED asking
  /\ \E w \in OpenWorkspace(reading, ws.revision + 1, TRUE) : Changed(w)

\* The files were read; the question comes now, or shares the open dialog.
FilesRead ==
  /\ reading # None /\ ~disposed /\ ws.revision + Len(asking) < MaxRevision
  /\ reading' = None
  /\ Replace(reading, TRUE)

AskDelete ==
  /\ CanChange /\ Cardinality(DOMAIN ws.files) > 1
  /\ asking' = << [kind |-> "delete", path |-> ws.active] >>
  /\ UNCHANGED <<ws, session, job, waiting, reading, thrown, compiler>>

\* The workspaces a confirmed question may leave.
Confirmed(w, question) ==
  IF question.kind = "delete" THEN DeleteFile(w, question.path)
  ELSE OpenWorkspace(question.files, w.revision + 1, question.dirty)

\* The dialog closes, which resolves every question waiting on it, in order: the
\* user's, and that of an import that was read meanwhile.
AllConfirmed(w, questions) ==
  UNION { IF Len(questions) = 1 THEN {x} ELSE Confirmed(x, questions[2]) :
          x \in Confirmed(w, questions[1]) }

Answer ==
  /\ asking # << >> /\ asking' = << >> /\ UNCHANGED reading
  /\ \/ UNCHANGED <<ws, session, job, waiting, thrown, compiler>>
     \/ \E w \in AllConfirmed(ws, asking) : Changed(w)

-----------------------------------------------------------------------------
(* main.js: run() and execute().                                           *)

\* The first call of execute(): generate with a request to reuse, or compile.
\* ensureClient answers at once when the client holds the generators.
Started(s, targets) ==
  [revision |-> ws.revision, targets |-> targets, snapshot |-> Snapshot(ws),
   request |-> IF CanReuseRequest(s, ws.revision) THEN s.request ELSE None,
   phase |-> IF client # None /\ targets \subseteq client THEN "work" ELSE "load",
   aborted |-> FALSE]

\* run() with no job in the way: it refuses an invalid workspace.
BeginJob(s, targets) ==
  IF Valid(ws.files) /\ ws.entrypoints # {} THEN
    /\ session' = [s EXCEPT !.job = [revision |-> ws.revision, targets |-> targets]]
    /\ job' = Started(s, targets)
  ELSE session' = s /\ job' = None

\* Mutant: a restart waits for the stale job without stopping it.
RunPatiently(s, targets) ==
  IF job = None THEN BeginJob(s, targets) /\ UNCHANGED <<waiting, thrown>>
  ELSE
    /\ session' = s /\ UNCHANGED <<thrown, job>>
    /\ waiting' = IF IsJobStale(s, ws.revision) THEN Append(waiting, targets) ELSE waiting

Run(s, targets) ==
  IF job = None THEN BeginJob(s, targets) /\ UNCHANGED <<waiting, thrown>>
  ELSE
    /\ session' = s /\ UNCHANGED thrown
    /\ IF ~IsJobStale(s, ws.revision) THEN UNCHANGED <<job, waiting>>
       ELSE /\ job' = [job EXCEPT !.aborted = TRUE]
            /\ waiting' = Append(waiting, targets)

Generate ==
  /\ Free /\ Len(waiting) < MaxWaiting
  /\ \E targets \in {{session.language}, Languages} : Run(session, targets)
  /\ UNCHANGED <<ws, reading, asking, compiler>>

SelectLanguage ==
  /\ Free
  /\ \E l \in Languages \ {session.language} :
       LET s == [session EXCEPT !.language = l] IN
       IF ShouldAutoRun(s, ws.revision, l) THEN Run(s, {l})
       ELSE session' = s /\ UNCHANGED <<job, waiting, thrown>>
  /\ UNCHANGED <<ws, reading, asking, compiler>>

Cancel ==
  /\ Free /\ job # None
  /\ job' = [job EXCEPT !.aborted = TRUE]
  /\ UNCHANGED <<ws, session, waiting, reading, asking, thrown, compiler>>

\* Mutant: the job's slot in the session is left taken.
EndKeepsSlot(s) ==
  /\ job' = None /\ session' = [s EXCEPT !.job = session.job]
  /\ waiting' = << >> /\ UNCHANGED thrown

\* The job's promise settles: the job is cleared and every run() that awaits
\* it goes on, the oldest first; once one has begun a job the others throw.
End(s) ==
  /\ waiting' = << >>
  /\ IF waiting = << >> THEN session' = s /\ job' = None /\ UNCHANGED thrown
     ELSE /\ BeginJob(s, Head(waiting))
          /\ thrown' = (thrown \/ (job' # None /\ Len(waiting) > 1))

-----------------------------------------------------------------------------
(* compiler.js under execute().                                            *)

Working(phase) == job # None /\ ~job.aborted /\ job.phase = phase
Goes(next) == job' = next /\ UNCHANGED <<session, waiting, thrown>>

\* ensureClient has the modules it fetches for the client's union.
Loaded ==
  /\ Working("load") /\ Goes([job EXCEPT !.phase = "create"])
  /\ UNCHANGED <<ws, reading, asking, compiler>>

Wanted == job.targets \cup (IF client = None THEN {} ELSE client)

\* Mutant: the replaced client is forgotten, not disposed.
CreatedKeepsOld ==
  /\ Working("create") /\ UNCHANGED <<ws, reading, asking, disposed>>
  /\ Goes([job EXCEPT !.phase = "work"])
  /\ client' = Wanted /\ live' = live \cup {Wanted}

\* createWorkerCompiler answers; on a disposed page the new client goes at once.
Created ==
  /\ Working("create") /\ UNCHANGED <<ws, reading, asking, disposed>>
  /\ IF disposed THEN End(FailJob(session, ws.revision, job)) /\ UNCHANGED <<client, live>>
     ELSE /\ Goes([job EXCEPT !.phase = "work"])
          /\ client' = Wanted /\ live' = (live \ {client}) \cup {Wanted}

Compiled ==
  /\ Working("work") /\ job.request = None
  /\ Goes([job EXCEPT !.request = job.snapshot])
  /\ UNCHANGED <<ws, reading, asking, compiler>>

Generated ==
  /\ Working("work") /\ job.request # None
  /\ End(CompleteJob(session, ws.revision, job))
  /\ UNCHANGED <<ws, reading, asking, compiler>>

\* A fetch, a start, a compilation or a generation fails.
Fails ==
  /\ job # None /\ ~job.aborted
  /\ End(FailJob(session, ws.revision, job))
  /\ UNCHANGED <<ws, reading, asking, compiler>>

\* Whatever an aborted job awaits rejects.
Aborted ==
  /\ job # None /\ job.aborted
  /\ End(FailJob(session, ws.revision, job))
  /\ UNCHANGED <<ws, reading, asking, compiler>>

\* The page is left for good: pagehide aborts the job and disposes the compiler.
PageHide ==
  /\ ~disposed /\ disposed' = TRUE
  /\ job' = IF job = None THEN None ELSE [job EXCEPT !.aborted = TRUE]
  /\ live' = live \ {client} /\ client' = None
  /\ UNCHANGED <<ws, session, waiting, reading, asking, thrown>>

-----------------------------------------------------------------------------
User == \/ Edit \/ Submit \/ Toggle \/ ShowFile \/ Example \/ OpenFiles \/ AskDelete
        \/ Answer \/ Generate \/ SelectLanguage \/ Cancel \/ PageHide
Next == \/ User \/ FilesRead \/ Loaded \/ Created \/ Compiled \/ Generated \/ Fails \/ Aborted

Spec == Init /\ [][Next]_vars

\* What an aborted job awaits rejects without fail; a download may hang, so
\* no other step of a job is fair, and the user need not do anything.
FairSpec == Spec /\ WF_vars(Aborted)

-----------------------------------------------------------------------------
(* Properties.                                                             *)

\* Every output on offer, whatever its language, and the request a further one
\* would reuse, come from the files and entrypoints the page shows now, through
\* edits, replacements and restarts during any job (main.js:109-126, 384-395).
OutputsCurrent ==
  /\ \A l \in DOMAIN session.outputs : session.outputs[l] = Snapshot(ws)
  /\ CanReuseRequest(session, ws.revision) => session.request = Snapshot(ws)

\* The job slot of the session and the job main.js can abort are taken and given
\* back together: a slot left behind would make every later run() return at once
\* or throw (main.js:461-495, 109-126).
SlotsAgree ==
  /\ (session.job = None) = (job = None)
  /\ job # None => session.job.revision = job.revision /\ session.job.targets = job.targets
  /\ job # None /\ ~job.aborted => waiting = << >>

\* The clients not disposed are the one in use, it holds every generator a
\* working job asks of it, and none outlives the page's dispose
\* (compiler.js:89-137, 157-164).
OneClient ==
  /\ live = {client} \ {None}
  /\ disposed => client = None
  /\ Working("work") => client # None /\ job.targets \subseteq client

\* A step that is not the user's answer to the dialog costs a workspace with
\* edits at most the one file it edits or renames, also when an import or an
\* example was chosen before the edits were made (main.js:541-556, 575-594).
EditsKept ==
  [][ws.dirty /\ asking = << >> =>
       Cardinality({p \in DOMAIN ws.files :
                      p \notin DOMAIN ws'.files \/ ws'.files[p] # ws.files[p]}) <= 1]_vars

\* A run() that found a stale job goes on, even while that job's download hangs:
\* the job is aborted, not waited out (main.js:456-467).
RestartServed == waiting # << >> ~> waiting = << >>

\* "A running job for the same snapshot is left alone" (main.js:457): when a
\* run() that waited goes on, a job another run() has begun meanwhile must not
\* make it throw.
RunLeavesJobAlone == ~thrown
=============================================================================
