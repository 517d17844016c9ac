---------------------------- MODULE StudioProofs ----------------------------
(***************************************************************************)
(* Theorems about Studio, for any paths, contents, languages and bounds.   *)
(***************************************************************************)
EXTENDS Studio, FiniteSetTheorems, SequenceTheorems, TLAPS

------------------------------------------------------------------------------
\* The workspace transitions.  Each keeps the workspace whole, and gives what
\* it changes a later revision.

Whole(w) ==
  /\ w \in [files : FileMaps, entrypoints : SUBSET Schemas, active : Paths,
            revision : 0..MaxRevision, dirty : BOOLEAN]
  /\ w.active \in DOMAIN w.files /\ w.entrypoints \subseteq DOMAIN w.files

LEMMA Maps ==
  \A f : f \in FileMaps <=> /\ f = [p \in DOMAIN f |-> f[p]]
                            /\ DOMAIN f \subseteq Paths
                            /\ \A p \in DOMAIN f : f[p] \in Contents
<1> SUFFICES ASSUME NEW f
             PROVE  f \in FileMaps <=> /\ f = [p \in DOMAIN f |-> f[p]]
                                       /\ DOMAIN f \subseteq Paths
                                       /\ \A p \in DOMAIN f : f[p] \in Contents
    OBVIOUS
<1>1. f \in FileMaps <=> \E P \in SUBSET Paths : f \in [P -> Contents]
  BY DEF FileMaps
<1>2. ASSUME f = [p \in DOMAIN f |-> f[p]], DOMAIN f \subseteq Paths,
             \A p \in DOMAIN f : f[p] \in Contents
      PROVE  \E P \in SUBSET Paths : f \in [P -> Contents]
  <2>1. f \in [DOMAIN f -> Contents] BY <1>2
  <2> QED BY <1>2, <2>1
<1> QED BY <1>1, <1>2

LEMMA WithMap ==
  ASSUME NEW files \in FileMaps, NEW path \in Paths, NEW bytes \in Contents
  PROVE  With(files, path, bytes) \in FileMaps /\ DOMAIN With(files, path, bytes) = DOMAIN files \cup {path}
<1>1. DOMAIN files \subseteq Paths /\ \A p \in DOMAIN files : files[p] \in Contents BY Maps
<1> DEFINE P == DOMAIN files \cup {path}
<1>2. With(files, path, bytes) \in [P -> Contents] BY <1>1 DEF With
<1> QED BY <1>1, <1>2 DEF FileMaps

LEMMA WithoutMap ==
  ASSUME NEW files \in FileMaps, NEW path
  PROVE  Without(files, path) \in FileMaps /\ DOMAIN Without(files, path) = DOMAIN files \ {path}
<1>1. DOMAIN files \subseteq Paths /\ \A p \in DOMAIN files : files[p] \in Contents BY Maps
<1> DEFINE P == DOMAIN files \ {path}
<1>2. Without(files, path) \in [P -> Contents] BY <1>1 DEF Without
<1> QED BY <1>1, <1>2 DEF FileMaps

LEMMA EditWhole ==
  ASSUME NEW w, Whole(w), w.revision < MaxRevision, NEW bytes \in Contents
  PROVE  Whole(EditFile(w, bytes)) /\ EditFile(w, bytes).revision = w.revision + 1
<1>1. w.files \in FileMaps /\ w.active \in Paths BY DEF Whole
<1>2. [w.files EXCEPT ![w.active] = bytes] \in FileMaps
      /\ DOMAIN [w.files EXCEPT ![w.active] = bytes] = DOMAIN w.files
  <2>1. DOMAIN w.files \subseteq Paths /\ w.files \in [DOMAIN w.files -> Contents] BY <1>1, Maps
  <2>2. [w.files EXCEPT ![w.active] = bytes] \in [DOMAIN w.files -> Contents] BY <2>1
  <2> QED BY <2>1, <2>2 DEF FileMaps
<1> QED BY <1>2, StudioAssumption DEF EditFile, Changes, Whole

LEMMA AddWhole ==
  ASSUME NEW w, Whole(w), w.revision < MaxRevision, NEW p \in Paths, NEW bytes \in Contents
  PROVE  Whole(AddFile(w, p, bytes)) /\ AddFile(w, p, bytes).revision = w.revision + 1
<1>1. w.files \in FileMaps BY DEF Whole
<1> DEFINE f == With(w.files, p, bytes)
          e == w.entrypoints \cup ({p} \cap Schemas)
<1>2. f \in FileMaps /\ DOMAIN f = DOMAIN w.files \cup {p} BY <1>1, WithMap
<1>3. AddFile(w, p, bytes) = Changes(w, f, e, p) BY DEF AddFile
<1> HIDE DEF f
<1>4. e \subseteq Schemas /\ e \subseteq DOMAIN f BY <1>2 DEF Whole
<1> HIDE DEF e
<1> QED BY <1>2, <1>3, <1>4, StudioAssumption DEF Changes, Whole

LEMMA RenameWhole ==
  ASSUME NEW w, Whole(w), w.revision < MaxRevision, NEW p \in Paths
  PROVE  Whole(RenameFile(w, p)) /\ RenameFile(w, p).revision = w.revision + 1
<1>1. w.files \in FileMaps /\ w.files[w.active] \in Contents BY Maps DEF Whole
<1>2. Without(w.files, w.active) \in FileMaps
      /\ DOMAIN Without(w.files, w.active) = DOMAIN w.files \ {w.active} BY <1>1, WithoutMap
<1> DEFINE f == With(Without(w.files, w.active), p, w.files[w.active])
<1>3. f \in FileMaps /\ DOMAIN f = (DOMAIN w.files \ {w.active}) \cup {p} BY <1>1, <1>2, WithMap
<1> HIDE DEF f
<1> DEFINE e == (w.entrypoints \ {w.active})
                  \cup (IF w.active \in w.entrypoints THEN {p} \cap Schemas ELSE {})
<1>4. RenameFile(w, p) = Changes(w, f, e, p) BY DEF RenameFile, f
<1>5. e \subseteq Schemas /\ e \subseteq DOMAIN f BY <1>3 DEF Whole
<1> HIDE DEF e
<1> QED BY <1>3, <1>4, <1>5, StudioAssumption DEF Changes, Whole

LEMMA ToggleWhole ==
  ASSUME NEW w, Whole(w), w.revision < MaxRevision, NEW p \in DOMAIN w.files \cap Schemas
  PROVE  Whole(SetEntrypoint(w, p)) /\ SetEntrypoint(w, p).revision = w.revision + 1
BY StudioAssumption DEF SetEntrypoint, Changes, Whole

LEMMA OpenWhole ==
  ASSUME NEW files \in Sources, NEW revision \in 0..MaxRevision, NEW dirty \in BOOLEAN,
         NEW w \in OpenWorkspace(files, revision, dirty)
  PROVE  Whole(w) /\ w.revision = revision
<1>1. files \in FileMaps /\ DOMAIN files \subseteq Paths BY StudioAssumption, Maps
<1> QED BY <1>1 DEF OpenWorkspace, Whole

\* The last file and a missing one are not deleted; else the revision is later.
LEMMA DeleteWhole ==
  ASSUME NEW w, Whole(w), w.revision < MaxRevision, NEW path, NEW x \in DeleteFile(w, path)
  PROVE  Whole(x) /\ (x = w \/ x.revision = w.revision + 1)
<1>1. CASE x = w BY <1>1
<1>2. CASE x # w
  <2>1. PICK a \in IF w.active = path THEN DOMAIN w.files \ {path} ELSE {w.active} :
          x = Changes(w, Without(w.files, path), w.entrypoints \ {path}, a)
    BY <1>2 DEF DeleteFile
  <2>2. w.files \in FileMaps /\ DOMAIN w.files \subseteq Paths BY Maps DEF Whole
  <2>3. Without(w.files, path) \in FileMaps
        /\ DOMAIN Without(w.files, path) = DOMAIN w.files \ {path} BY <2>2, WithoutMap
  <2>4. a \in DOMAIN w.files \ {path} BY <2>1 DEF Whole
  <2> QED BY <2>1, <2>2, <2>3, <2>4, StudioAssumption DEF Changes, Whole
<1> QED BY <1>1, <1>2

LEMMA ConfirmWhole ==
  ASSUME NEW w, Whole(w), w.revision < MaxRevision, NEW q \in Questions,
         NEW x \in Confirmed(w, q)
  PROVE  Whole(x) /\ (x = w \/ x.revision = w.revision + 1)
<1>0. w.revision + 1 \in 0..MaxRevision BY StudioAssumption DEF Whole
<1>1. CASE q.kind = "delete" BY <1>1, DeleteWhole DEF Confirmed
<1>2. CASE q.kind # "delete"
  <2>1. q.files \in Sources /\ q.dirty \in BOOLEAN BY <1>2 DEF Questions
  <2> QED BY <1>0, <1>2, <2>1, OpenWhole DEF Confirmed
<1> QED BY <1>1, <1>2

LEMMA AllWhole ==
  ASSUME NEW w, Whole(w), NEW qs \in Seq(Questions), Len(qs) \in 1..2,
         w.revision + Len(qs) <= MaxRevision, NEW x \in AllConfirmed(w, qs)
  PROVE  Whole(x) /\ (x = w \/ x.revision > w.revision)
<1>1. PICK y \in Confirmed(w, qs[1]) : x \in IF Len(qs) = 1 THEN {y} ELSE Confirmed(y, qs[2])
  BY DEF AllConfirmed
<1>2. qs[1] \in Questions /\ (Len(qs) = 2 => qs[2] \in Questions) BY ElementOfSeq
<1>3. w.revision \in Nat /\ MaxRevision \in Nat BY StudioAssumption DEF Whole
<1>4. Whole(y) /\ (y = w \/ y.revision = w.revision + 1)
  <2>1. w.revision < MaxRevision BY <1>3
  <2> QED BY <1>1, <1>2, <2>1, ConfirmWhole
<1>5. CASE Len(qs) = 1 BY <1>1, <1>3, <1>4, <1>5
<1>6. CASE Len(qs) = 2
  <2>1. y.revision < MaxRevision BY <1>3, <1>4, <1>6
  <2>2. Whole(x) /\ (x = y \/ x.revision = y.revision + 1)
    BY <1>1, <1>2, <1>4, <1>6, <2>1, ConfirmWhole
  <2> QED BY <1>3, <1>4, <2>2
<1> QED BY <1>5, <1>6

------------------------------------------------------------------------------
\* The invariant, by the variables it is about.

\* What a session holds is what the workspace w shows.
Current(s, w) ==
  /\ s = [request |-> s.request, requestRevision |-> s.requestRevision,
          outputs |-> s.outputs, language |-> s.language, job |-> s.job]
  /\ s.request \in Snapshots \cup {None} /\ s.requestRevision \in -1..MaxRevision
  /\ s.language \in Languages /\ DOMAIN s.outputs \subseteq Languages
  /\ \A l \in DOMAIN s.outputs : s.outputs[l] = Snapshot(w)
  /\ CanReuseRequest(s, w.revision) => s.request = Snapshot(w)

\* A job works on the workspace as it was at the job's revision, and never
\* without a client that holds its generators.
Traced(j, w, c) ==
  j # None =>
    /\ j \in Jobs /\ j.revision <= w.revision
    /\ j.revision = w.revision => j.snapshot = Snapshot(w)
    /\ j.request # None => j.request = j.snapshot
    /\ ~j.aborted /\ j.phase = "work" => c # None /\ j.targets \subseteq c

SlotOf(s, j) ==
  /\ s.job = None <=> j = None
  /\ j # None => s.job \in Slots /\ s.job.revision = j.revision /\ s.job.targets = j.targets

\* run() calls only wait for a job that has been aborted.
Queued ==
  /\ waiting \in Seq(SUBSET Languages) /\ thrown \in BOOLEAN
  /\ job = None => waiting = << >>
  /\ job # None /\ ~job.aborted => waiting = << >>

\* There is room for the revisions that the open questions may cost.
Room ==
  /\ asking \in Seq(Questions) /\ reading \in Sources \cup {None}
  /\ Len(asking) <= 2 /\ ws.revision + Len(asking) <= MaxRevision
  /\ reading # None => Len(asking) <= 1

Owned ==
  /\ client \in (SUBSET Languages) \cup {None} /\ disposed \in BOOLEAN
  /\ live = {client} \ {None} /\ (disposed => client = None)

IInv ==
  /\ Whole(ws) /\ Room /\ Queued /\ Owned
  /\ Current(session, ws) /\ Traced(job, ws, client) /\ SlotOf(session, job)

LEMMA Snapshots_ == \A w : Whole(w) => Snapshot(w) \in Snapshots
BY DEF Whole, Snapshot, Snapshots

LEMMA NoneIsNothing ==
  /\ None \notin Slots /\ None \notin Jobs /\ \A some \in SUBSET Languages : some # None
BY StudioAssumption

LEMMA InitInv == Init => IInv
<1> SUFFICES ASSUME Init PROVE IInv
    OBVIOUS
<1>1. Whole(ws) /\ ws.revision = 0
  <2>1. PICK files \in Sources : ws \in OpenWorkspace(files, 0, FALSE) BY DEF Init
  <2>2. 0 \in 0..MaxRevision BY StudioAssumption
  <2> QED BY <2>1, <2>2, OpenWhole
<1>2. Room
  <2>1. asking = << >> /\ Len(asking) = 0 /\ asking \in Seq(Questions) BY DEF Init
  <2> QED BY <1>1, <2>1, StudioAssumption DEF Init, Room
<1>3. Queued
  <2>1. waiting = << >> /\ waiting \in Seq(SUBSET Languages) BY DEF Init
  <2>2. thrown \in BOOLEAN BY DEF Init
  <2> QED BY <2>1, <2>2 DEF Queued
<1>6. Owned BY DEF Init, Owned
<1>4. Current(session, ws)
  <2>1. session.outputs = << >> /\ DOMAIN session.outputs = {} BY DEF Init, CreateSession
  <2> QED BY <2>1, StudioAssumption DEF Init, CreateSession, Current, CanReuseRequest
<1>5. Traced(job, ws, client) /\ SlotOf(session, job)
  BY DEF Init, CreateSession, Traced, SlotOf
<1> QED BY <1>1, <1>2, <1>3, <1>4, <1>5, <1>6 DEF IInv

------------------------------------------------------------------------------
\* What the steps are made of.

\* A workspace is put in place: the session forgets what it held when the
\* revision is new, and a running job is then of an older one.
LEMMA ChangedInv ==
  ASSUME IInv, NEW w, Whole(w), Changed(w), Room',
         \/ w.revision > ws.revision
         \/ w.revision = ws.revision /\ Snapshot(w) = Snapshot(ws)
  PROVE  IInv'
<1>1. ws' = w /\ UNCHANGED <<job, waiting, thrown, client, live, disposed>>
  BY DEF Changed, compiler
<1>2. w.revision \in Nat /\ ws.revision \in Nat BY StudioAssumption DEF IInv, Whole
<1>3. Traced(job, w, client)
  <2>1. CASE job = None BY <2>1 DEF Traced
  <2>2. CASE job # None
    <3>1. job \in Jobs /\ job.revision \in Nat /\ job.revision <= ws.revision
      BY <2>2, StudioAssumption DEF IInv, Traced, Jobs
    <3> QED BY <1>2, <2>2, <3>1 DEF IInv, Traced
  <2> QED BY <2>1, <2>2
<1>4. Current(session', w) /\ session'.job = session.job
  <2>1. CASE w.revision = ws.revision
    BY <1>2, <2>1 DEF Changed, IInv, Current, CanReuseRequest
  <2>2. CASE w.revision # ws.revision
    <3>1. session' = Invalidate(session) BY <2>2 DEF Changed
    <3>2. session' = [request |-> None, requestRevision |-> -1, outputs |-> << >>,
                      language |-> session.language, job |-> session.job]
      BY <3>1 DEF Invalidate, IInv, Current
    <3>3. session'.outputs = << >> /\ DOMAIN session'.outputs = {} BY <3>2
    <3> QED BY <3>2, <3>3, StudioAssumption DEF Current, CanReuseRequest, IInv
  <2> QED BY <2>1, <2>2
<1> QED BY <1>1, <1>3, <1>4 DEF IInv, Queued, Owned, SlotOf

\* A step that changes neither the workspace nor the questions.
LEMMA JobInv ==
  ASSUME IInv, UNCHANGED <<ws, reading, asking>>, Queued', Owned',
         Current(session', ws), Traced(job', ws, client'), SlotOf(session', job')
  PROVE  IInv'
BY DEF IInv, Room

LEMMA Begins ==
  ASSUME IInv, NEW s, Current(s, ws), s.job = None, NEW targets \in SUBSET Languages,
         BeginJob(s, targets)
  PROVE  /\ Current(session', ws) /\ Traced(job', ws, client) /\ SlotOf(session', job')
         /\ job' # None => ~job'.aborted
<1>1. CASE session' = s /\ job' = None BY <1>1 DEF Traced, SlotOf
<1>2. CASE /\ session' = [s EXCEPT !.job = [revision |-> ws.revision, targets |-> targets]]
           /\ job' = Started(s, targets)
  <2>1. ws.revision \in 0..MaxRevision /\ ws.revision \in Nat BY DEF IInv, Whole
  <2>2. [revision |-> ws.revision, targets |-> targets] \in Slots BY <2>1 DEF Slots
  <2>3. Snapshot(ws) \in Snapshots BY Snapshots_ DEF IInv
  <2>4. Started(s, targets).request \in Snapshots \cup {None}
        /\ (Started(s, targets).request # None => Started(s, targets).request = Snapshot(ws))
    BY <2>3 DEF Started, Current
  <2>5. Started(s, targets) \in Jobs BY <2>1, <2>3, <2>4 DEF Started, Jobs
  <2>6. session'.job = [revision |-> ws.revision, targets |-> targets] /\ Current(session', ws)
    BY <1>2 DEF Current, CanReuseRequest
  <2>7. Traced(job', ws, client) BY <1>2, <2>1, <2>4, <2>5 DEF Traced, Started
  <2>8. SlotOf(session', job')
    <3>1. job' \in Jobs BY <1>2, <2>5
    <3>2. job'.revision = ws.revision /\ job'.targets = targets BY <1>2 DEF Started
    <3> QED BY <2>2, <2>6, <3>1, <3>2, NoneIsNothing DEF SlotOf
  <2>9. job'.aborted = FALSE BY <1>2 DEF Started
  <2> QED BY <2>6, <2>7, <2>8, <2>9
<1> QED BY <1>1, <1>2 DEF BeginJob

\* run(): it begins a job, leaves one alone, or aborts a stale one.
LEMMA Runs ==
  ASSUME IInv, NEW s, Current(s, ws), s.job = session.job, NEW targets \in SUBSET Languages,
         Run(s, targets), UNCHANGED <<ws, reading, asking, compiler>>
  PROVE  IInv'
<1>1. CASE job = None
  <2>1. BeginJob(s, targets) /\ UNCHANGED <<waiting, thrown>> BY <1>1 DEF Run
  <2>2. s.job = None BY <1>1 DEF IInv, SlotOf
  <2>3. Queued' BY <1>1, <2>1 DEF IInv, Queued
  <2> QED BY <2>1, <2>2, <2>3, Begins, JobInv DEF compiler, IInv, Owned
<1>2. CASE job # None /\ UNCHANGED <<job, waiting, thrown>> /\ session' = s
  BY <1>2, JobInv DEF compiler, IInv, Owned, Queued, SlotOf
<1>3. CASE /\ job # None /\ job' = [job EXCEPT !.aborted = TRUE]
           /\ waiting' = Append(waiting, targets) /\ UNCHANGED thrown /\ session' = s
  <2>1. job \in Jobs BY <1>3 DEF IInv, Traced
  <2>2. job' \in Jobs /\ job'.aborted /\ job' # None BY <1>3, <2>1, NoneIsNothing DEF Jobs
  <2>3. Queued' BY <1>3, <2>2 DEF IInv, Queued
  <2>4. Traced(job', ws, client) BY <1>3, <2>1, <2>2 DEF IInv, Traced, Jobs
  <2>5. SlotOf(session', job') BY <1>3, <2>1, <2>2 DEF IInv, SlotOf, Jobs
  <2> QED BY <1>3, <2>3, <2>4, <2>5, JobInv DEF compiler, IInv, Owned
<1> QED BY <1>1, <1>2, <1>3 DEF Run

\* A job ends: the oldest run() that waited begins the next.
LEMMA Ends ==
  ASSUME IInv, NEW s, Current(s, ws), s.job = None, End(s),
         UNCHANGED <<ws, reading, asking, compiler>>
  PROVE  IInv'
<1>1. CASE waiting = << >>
  <2>1. session' = s /\ job' = None /\ UNCHANGED thrown /\ waiting' = << >> BY <1>1 DEF End
  <2> QED BY <2>1, JobInv DEF IInv, compiler, Owned, Queued, Traced, SlotOf
<1>2. CASE waiting # << >>
  <2>1. Head(waiting) \in SUBSET Languages BY <1>2, HeadTailProperties DEF IInv, Queued
  <2>2. BeginJob(s, Head(waiting)) /\ waiting' = << >> /\ thrown' \in BOOLEAN
    BY <1>2 DEF End, IInv, Queued
  <2>3. Queued' BY <2>2 DEF Queued
  <2> QED BY <2>1, <2>2, <2>3, Begins, JobInv DEF IInv, compiler, Owned
<1> QED BY <1>1, <1>2

LEMMA Fails_ ==
  ASSUME IInv, job # None
  PROVE  /\ Current(FailJob(session, ws.revision, job), ws)
         /\ FailJob(session, ws.revision, job).job = None
<1>1. CASE FailJob(session, ws.revision, job) = [session EXCEPT !.job = None]
  BY <1>1 DEF IInv, Current, CanReuseRequest
<1>2. CASE FailJob(session, ws.revision, job) =
             [session EXCEPT !.outputs = [l \in DOMAIN session.outputs \ job.targets |->
                                            session.outputs[l]],
                             !.job = None]
  <2> DEFINE o == [l \in DOMAIN session.outputs \ job.targets |-> session.outputs[l]]
  <2>1. FailJob(session, ws.revision, job) =
          [request |-> session.request, requestRevision |-> session.requestRevision,
           outputs |-> o, language |-> session.language, job |-> None]
    BY <1>2 DEF IInv, Current
  <2>2. DOMAIN o \subseteq Languages /\ \A l \in DOMAIN o : o[l] = Snapshot(ws)
    BY DEF IInv, Current
  <2> HIDE DEF o
  <2> QED BY <2>1, <2>2 DEF IInv, Current, CanReuseRequest
<1> QED BY <1>1, <1>2 DEF FailJob

LEMMA Completes ==
  ASSUME IInv, job # None, job.request # None
  PROVE  /\ Current(CompleteJob(session, ws.revision, job), ws)
         /\ CompleteJob(session, ws.revision, job).job = None
<1>1. CASE job.revision # ws.revision BY <1>1 DEF CompleteJob, IInv, Current, CanReuseRequest
<1>2. CASE job.revision = ws.revision
  <2>1. job.request = Snapshot(ws) /\ job \in Jobs BY <1>2 DEF IInv, Traced
  <2>2. job.request \in Snapshots /\ job.targets \subseteq Languages
        /\ job.revision \in -1..MaxRevision
    BY <2>1, StudioAssumption, Snapshots_ DEF Jobs, IInv
  <2> DEFINE o == [l \in DOMAIN session.outputs \cup job.targets |->
                     IF l \in job.targets THEN job.request ELSE session.outputs[l]]
  <2>3. CompleteJob(session, ws.revision, job) =
          [request |-> job.request, requestRevision |-> job.revision, outputs |-> o,
           language |-> session.language, job |-> None]
    BY <1>2 DEF CompleteJob, IInv, Current
  <2>4. DOMAIN o \subseteq Languages /\ \A l \in DOMAIN o : o[l] = Snapshot(ws)
    BY <2>1, <2>2 DEF IInv, Current
  <2> HIDE DEF o
  <2> QED BY <2>1, <2>2, <2>3, <2>4 DEF Current, CanReuseRequest, IInv
<1> QED BY <1>1, <1>2

------------------------------------------------------------------------------
\* The user, and the files that were read for an import.

LEMMA RoomFor ==
  ASSUME IInv
  PROVE  /\ ws.revision \in Nat /\ MaxRevision \in Nat /\ Len(asking) \in Nat
         /\ CanChange => ws.revision < MaxRevision /\ asking = << >>
BY StudioAssumption DEF IInv, Whole, Room, CanChange, Free

\* A later workspace within the bound leaves room, with no question open.
LEMMA LaterInv ==
  ASSUME IInv, CanChange, UNCHANGED <<reading, asking>>,
         NEW w, Whole(w), w.revision = ws.revision + 1, Changed(w)
  PROVE  IInv'
<1>1. ws' = w BY DEF Changed
<1>2. Room' BY <1>1, RoomFor DEF IInv, Room
<1> QED BY <1>2, ChangedInv, RoomFor

LEMMA EditSteps == ASSUME IInv, Edit \/ Submit \/ Toggle PROVE IInv'
<1>1. CanChange /\ UNCHANGED <<reading, asking>> /\ Whole(ws) /\ ws.revision < MaxRevision
  BY RoomFor DEF Edit, Submit, Toggle, IInv
<1>2. CASE Edit BY <1>1, <1>2, EditWhole, LaterInv DEF Edit
<1>3. CASE Submit BY <1>1, <1>3, AddWhole, RenameWhole, LaterInv DEF Submit
<1>4. CASE Toggle BY <1>1, <1>4, ToggleWhole, LaterInv DEF Toggle
<1> QED BY <1>2, <1>3, <1>4

LEMMA ShowStep == ASSUME IInv, ShowFile PROVE IInv'
<1>1. PICK p \in DOMAIN ws.files : ws' = [ws EXCEPT !.active = p] BY DEF ShowFile
<1>2. Whole(ws)' /\ Snapshot(ws') = Snapshot(ws) /\ ws'.revision = ws.revision
  BY <1>1, Maps DEF IInv, Whole, Snapshot
<1>3. UNCHANGED <<session, job, waiting, reading, asking, thrown, client, live, disposed>>
  BY DEF ShowFile, compiler
<1> QED
  BY <1>2, <1>3 DEF IInv, Room, Queued, Owned, Current, CanReuseRequest, Traced, SlotOf

\* canReplace: what is asked, or what is put in place, has room.
LEMMA ReplaceInv ==
  ASSUME IInv, NEW files \in Sources, NEW dirty \in BOOLEAN, Replace(files, dirty),
         ws.revision + Len(asking) < MaxRevision,
         reading' \in Sources \cup {None},
         reading' # None => asking = << >>, Len(asking) <= 1
  PROVE  IInv'
<1>0. asking \in Seq(Questions) /\ Whole(ws) BY DEF IInv, Room
<1>1. CASE /\ asking' = Append(asking, [kind |-> "replace", files |-> files, dirty |-> dirty])
           /\ UNCHANGED <<ws, session, job, waiting, thrown, compiler>>
  <2>1. [kind |-> "replace", files |-> files, dirty |-> dirty] \in Questions BY DEF Questions
  <2>2. asking' \in Seq(Questions) /\ Len(asking') = Len(asking) + 1
    BY <1>0, <1>1, <2>1, AppendProperties
  <2>3. Room'
    <3>1. asking = << >> => Len(asking) = 0 OBVIOUS
    <3> QED BY <1>1, <2>2, <3>1, RoomFor DEF IInv, Room
  <2> QED BY <1>1, <2>3 DEF IInv, Queued, Owned, compiler
<1>2. CASE UNCHANGED asking /\ \E w \in OpenWorkspace(files, ws.revision + 1, dirty) : Changed(w)
  <2>1. PICK w \in OpenWorkspace(files, ws.revision + 1, dirty) : Changed(w) BY <1>2
  <2>2. ws.revision + 1 \in 0..MaxRevision BY RoomFor
  <2>3. Whole(w) /\ w.revision = ws.revision + 1 BY <2>1, <2>2, OpenWhole
  <2>4. ws' = w BY <2>1 DEF Changed
  <2>5. Room'
    <3>1. asking = << >> => Len(asking) = 0 OBVIOUS
    <3> QED BY <1>2, <2>3, <2>4, <3>1, RoomFor DEF IInv, Room
  <2> QED BY <2>1, <2>3, <2>5, ChangedInv, RoomFor
<1> QED BY <1>1, <1>2 DEF Replace

LEMMA ReplaceSteps == ASSUME IInv, Example \/ OpenFiles \/ FilesRead PROVE IInv'
<1>1. CASE Example
  <2>1. PICK files \in Sources : Replace(files, FALSE) BY <1>1 DEF Example
  <2>2. asking = << >> /\ Len(asking) = 0 /\ UNCHANGED reading BY <1>1, RoomFor DEF Example
  <2>3. ws.revision + Len(asking) < MaxRevision /\ Len(asking) <= 1
    BY <1>1, <2>2, RoomFor DEF Example
  <2>4. reading' \in Sources \cup {None} BY <2>2 DEF IInv, Room
  <2> QED BY <2>1, <2>2, <2>3, <2>4, ReplaceInv
<1>2. CASE OpenFiles
  <2>1. asking = << >> /\ Len(asking) = 0 BY <1>2, RoomFor DEF OpenFiles
  <2>2. Room' BY <1>2, <2>1 DEF OpenFiles, IInv, Room
  <2> QED BY <1>2, <2>2 DEF OpenFiles, IInv, Queued, Owned, compiler
<1>3. CASE FilesRead
  <2>1. reading \in Sources /\ reading' = None /\ Len(asking) <= 1
    BY <1>3 DEF FilesRead, IInv, Room
  <2> QED BY <1>3, <2>1, ReplaceInv DEF FilesRead
<1> QED BY <1>1, <1>2, <1>3

LEMMA AskStep == ASSUME IInv, AskDelete PROVE IInv'
<1>1. asking' = << [kind |-> "delete", path |-> ws.active] >> /\ ws.active \in Paths
      /\ UNCHANGED <<ws, session, job, waiting, reading, thrown, client, live, disposed>>
  BY DEF AskDelete, compiler, IInv, Whole
<1>2. asking' \in Seq(Questions) /\ Len(asking') = 1 BY <1>1 DEF Questions
<1>3. Room' BY <1>1, <1>2, RoomFor DEF AskDelete, IInv, Room
<1> QED BY <1>1, <1>3 DEF IInv, Queued, Owned

LEMMA AnswerStep == ASSUME IInv, Answer PROVE IInv'
<1>1. asking' = << >> /\ Len(asking') = 0 /\ UNCHANGED reading /\ asking' \in Seq(Questions)
  BY DEF Answer
<1>2. Len(asking) \in 1..2 /\ asking \in Seq(Questions)
  <2>1. asking \in Seq(Questions) /\ asking # << >> /\ Len(asking) <= 2
    BY DEF Answer, IInv, Room
  <2>2. Len(asking) \in Nat \ {0} BY <2>1, EmptySeq
  <2>3. \A n \in Nat \ {0} : n <= 2 => n \in 1..2 OBVIOUS
  <2> QED BY <2>1, <2>2, <2>3
<1>3. CASE UNCHANGED <<ws, session, job, waiting, thrown, compiler>>
  <2>1. Room' BY <1>1, <1>2, <1>3, RoomFor DEF IInv, Room
  <2> QED BY <1>3, <2>1 DEF IInv, Queued, Owned, compiler
<1>4. CASE \E w \in AllConfirmed(ws, asking) : Changed(w)
  <2>1. PICK w \in AllConfirmed(ws, asking) : Changed(w) BY <1>4
  <2>2. Whole(w) /\ (w = ws \/ w.revision > ws.revision)
    BY <1>2, <2>1, AllWhole DEF IInv, Room
  <2>3. ws' = w /\ w.revision \in 0..MaxRevision BY <2>1, <2>2 DEF Changed, Whole
  <2>4. Room' BY <1>1, <2>3, StudioAssumption DEF IInv, Room
  <2> QED BY <2>1, <2>2, <2>4, ChangedInv
<1> QED BY <1>3, <1>4 DEF Answer

LEMMA RunSteps == ASSUME IInv, Generate \/ SelectLanguage PROVE IInv'
<1>1. CASE Generate
  <2>1. PICK targets \in {{session.language}, Languages} : Run(session, targets)
    BY <1>1 DEF Generate
  <2>2. targets \in SUBSET Languages /\ Current(session, ws) BY <2>1 DEF IInv, Current
  <2> QED BY <1>1, <2>1, <2>2, Runs DEF Generate
<1>2. CASE SelectLanguage
  <2>1. PICK l \in Languages :
          LET s == [session EXCEPT !.language = l] IN
          IF ShouldAutoRun(s, ws.revision, l) THEN Run(s, {l})
          ELSE session' = s /\ UNCHANGED <<job, waiting, thrown>>
    BY <1>2 DEF SelectLanguage
  <2> DEFINE s == [session EXCEPT !.language = l]
  <2>2. Current(s, ws) /\ s.job = session.job BY DEF IInv, Current, CanReuseRequest
  <2>3. UNCHANGED <<ws, reading, asking, compiler>> BY <1>2 DEF SelectLanguage
  <2>4. Run(s, {l}) \/ (session' = s /\ UNCHANGED <<job, waiting, thrown>>) BY <2>1
  <2> HIDE DEF s
  <2>5. CASE Run(s, {l}) BY <2>2, <2>3, <2>5, Runs
  <2>6. CASE session' = s /\ UNCHANGED <<job, waiting, thrown>>
    BY <2>2, <2>3, <2>6, JobInv DEF IInv, compiler, Owned, Queued, SlotOf
  <2> QED BY <2>4, <2>5, <2>6
<1> QED BY <1>1, <1>2

\* An aborted job stays what it was.
LEMMA AbortKeeps ==
  ASSUME IInv, job # None, job' = [job EXCEPT !.aborted = TRUE], NEW c
  PROVE  /\ Traced(job', ws, c) /\ SlotOf(session, job')
         /\ job' # None /\ job'.aborted
<1>1. job \in Jobs BY DEF IInv, Traced
<1>2. job' \in Jobs /\ job'.aborted /\ job' # None BY <1>1, NoneIsNothing DEF Jobs
<1> QED BY <1>1, <1>2 DEF IInv, Traced, SlotOf, Jobs

LEMMA StopSteps == ASSUME IInv, Cancel \/ PageHide PROVE IInv'
<1>1. CASE Cancel
  <2>1. job # None /\ job' = [job EXCEPT !.aborted = TRUE]
        /\ UNCHANGED <<ws, session, waiting, reading, asking, thrown, client, live, disposed>>
    BY <1>1 DEF Cancel, compiler
  <2>2. Queued' BY <2>1, AbortKeeps DEF IInv, Queued
  <2> QED BY <2>1, <2>2, AbortKeeps, JobInv DEF IInv, Owned
<1>2. CASE PageHide
  <2>1. Owned' BY <1>2 DEF PageHide, IInv, Owned
  <2>2. UNCHANGED <<ws, session, waiting, reading, asking, thrown>> BY <1>2 DEF PageHide
  <2>3. CASE job = None
    <3>1. job' = None BY <1>2, <2>3 DEF PageHide
    <3> QED BY <2>1, <2>2, <2>3, <3>1, JobInv DEF IInv, Queued, Traced
  <2>4. CASE job # None
    <3>1. job' = [job EXCEPT !.aborted = TRUE] BY <1>2, <2>4 DEF PageHide
    <3>2. Traced(job', ws, client') /\ SlotOf(session, job') /\ job' # None /\ job'.aborted
      BY <2>4, <3>1, AbortKeeps
    <3>3. Queued' BY <2>2, <3>2 DEF IInv, Queued
    <3> QED BY <2>1, <2>2, <3>2, <3>3, JobInv DEF IInv
  <2> QED BY <2>3, <2>4
<1> QED BY <1>1, <1>2

------------------------------------------------------------------------------
\* The job.

\* A phase is over: the job keeps its revision, targets and snapshot.
LEMMA Advances ==
  ASSUME IInv, job # None, ~job.aborted,
         NEW phase \in {"load", "create", "work"}, NEW request \in {job.request, job.snapshot},
         job' = [job EXCEPT !.phase = phase, !.request = request],
         UNCHANGED <<ws, session, waiting, reading, asking, thrown>>, Owned',
         phase = "work" => client' # None /\ job.targets \subseteq client'
  PROVE  IInv'
<1>1. job \in Jobs BY DEF IInv, Traced
<1>2. /\ job' \in Jobs /\ job'.aborted = job.aborted /\ job'.phase = phase
      /\ job'.request = request /\ job'.snapshot = job.snapshot
      /\ job'.targets = job.targets /\ job'.revision = job.revision
  BY <1>1 DEF Jobs
<1>3. job' # None BY <1>2, NoneIsNothing
<1>4. Traced(job', ws, client') BY <1>2 DEF IInv, Traced
<1>5. SlotOf(session, job') BY <1>2, <1>3 DEF IInv, SlotOf
<1>6. Queued' BY <1>2, <1>3 DEF IInv, Queued
<1> QED BY <1>4, <1>5, <1>6, JobInv DEF IInv

LEMMA PhaseSteps == ASSUME IInv, Loaded \/ Created \/ Compiled PROVE IInv'
<1>0. job # None /\ ~job.aborted /\ job \in Jobs
  BY DEF Loaded, Created, Compiled, Working, IInv, Traced
<1>1. CASE Loaded
  <2>1. job' = [job EXCEPT !.phase = "create", !.request = job.request]
    BY <1>0, <1>1 DEF Loaded, Goes, Jobs
  <2>2. Owned' BY <1>1 DEF Loaded, Goes, compiler, IInv, Owned
  <2> QED BY <1>0, <1>1, <2>1, <2>2, Advances DEF Loaded, Goes
<1>2. CASE Created /\ disposed
  <2>1. End(FailJob(session, ws.revision, job)) /\ UNCHANGED <<ws, reading, asking, compiler>>
    BY <1>2 DEF Created, compiler
  <2> QED BY <1>0, <2>1, Fails_, Ends
<1>3. CASE Created /\ ~disposed
  <2>1. job' = [job EXCEPT !.phase = "work", !.request = job.request]
    BY <1>0, <1>3 DEF Created, Goes, Jobs
  <2>2. Wanted \in SUBSET Languages /\ job.targets \subseteq Wanted
    BY <1>0 DEF Wanted, Jobs, IInv, Owned
  <2>3. client' = Wanted /\ live' = (live \ {client}) \cup {Wanted} /\ UNCHANGED disposed
    BY <1>3 DEF Created
  <2>4. Wanted # None BY <2>2, NoneIsNothing
  <2>5. Owned' BY <1>3, <2>2, <2>3, <2>4 DEF IInv, Owned
  <2> QED BY <1>0, <1>3, <2>1, <2>2, <2>3, <2>4, <2>5, Advances DEF Created, Goes
<1>4. CASE Compiled
  <2>1. job' = [job EXCEPT !.phase = job.phase, !.request = job.snapshot]
        /\ job.phase = "work"
    BY <1>0, <1>4 DEF Compiled, Goes, Jobs, Working
  <2>2. Owned' /\ client' = client BY <1>4 DEF Compiled, Goes, compiler, IInv, Owned
  <2>3. client # None /\ job.targets \subseteq client
    BY <1>0, <2>1 DEF IInv, Traced
  <2> QED BY <1>0, <1>4, <2>1, <2>2, <2>3, Advances DEF Compiled, Goes
<1> QED BY <1>1, <1>2, <1>3, <1>4

LEMMA EndSteps == ASSUME IInv, Generated \/ Fails \/ Aborted PROVE IInv'
<1>1. CASE Generated BY <1>1, Completes, Ends DEF Generated, Working
<1>2. CASE Fails \/ Aborted BY <1>2, Fails_, Ends DEF Fails, Aborted
<1> QED BY <1>1, <1>2

LEMMA NextInv == IInv /\ [Next]_vars => IInv'
<1> SUFFICES ASSUME IInv, [Next]_vars PROVE IInv'
    OBVIOUS
<1>1. CASE Next
  BY <1>1, EditSteps, ShowStep, ReplaceSteps, AskStep, AnswerStep, RunSteps, StopSteps,
     PhaseSteps, EndSteps DEF Next, User
<1>2. CASE UNCHANGED vars
  BY <1>2 DEF vars, IInv, Room, Queued, Owned
<1> QED BY <1>1, <1>2

LEMMA Invariant == Spec => []IInv
BY InitInv, NextInv, PTL DEF Spec

------------------------------------------------------------------------------
\* The theorems.

\* The variables keep their types, and the workspace stays whole.
THEOREM TypesAreKept == Spec => []TypeOK
<1>1. ASSUME IInv PROVE TypeOK
  <2>1. session.job \in Slots \cup {None} /\ job \in Jobs \cup {None}
    BY <1>1 DEF IInv, SlotOf, Traced
  <2>2. Snapshot(ws) \in Snapshots BY <1>1, Snapshots_ DEF IInv
  <2> QED BY <1>1, <2>1, <2>2 DEF IInv, TypeOK, Whole, Room, Queued, Owned, Current
<1> QED BY Invariant, <1>1, PTL

\* No output of an older workspace is ever on offer, and no request of one is
\* reused, for any number of languages, files, edits and restarts.
THEOREM OutputsAreCurrent == Spec => []OutputsCurrent
<1>1. IInv => OutputsCurrent BY DEF IInv, Current, OutputsCurrent
<1> QED BY Invariant, <1>1, PTL

\* The slot of the session and the page's job are one.
THEOREM SlotsAlwaysAgree == Spec => []SlotsAgree
<1>1. IInv => SlotsAgree BY DEF IInv, SlotOf, Queued, SlotsAgree
<1> QED BY Invariant, <1>1, PTL

\* At most one client is alive, and a working job's generators are its own.
THEOREM ClientIsOne == Spec => []OneClient
<1>1. IInv => OneClient BY DEF IInv, Owned, Traced, Working, OneClient
<1> QED BY Invariant, <1>1, PTL

\* Of a set with at most one element there is at most one.
LEMMA AtMostOne == \A S, x : S \subseteq {x} => Cardinality(S) <= 1
<1> SUFFICES ASSUME NEW S, NEW x, S \subseteq {x} PROVE Cardinality(S) <= 1
    OBVIOUS
<1>1. IsFiniteSet({x}) /\ Cardinality({x}) = 1 BY FS_Singleton
<1>2. Cardinality(S) <= Cardinality({x}) BY <1>1, FS_Subset
<1> QED BY <1>1, <1>2

\* The files a step loses or overwrites.
Lost(w, x) == {p \in DOMAIN w.files : p \notin DOMAIN x.files \/ x.files[p] # w.files[p]}

LEMMA NothingLost ==
  ASSUME NEW w, NEW x, x.files = w.files
  PROVE  Cardinality(Lost(w, x)) <= 1
<1>1. Lost(w, x) \subseteq {0} BY DEF Lost
<1> QED BY <1>1, AtMostOne

\* Edits nobody asked about cost one file at most, whatever was chosen before.
THEOREM NoEditIsLost == Spec => EditsKept
<1>1. ASSUME IInv, [Next]_vars, ws.dirty, asking = << >>
      PROVE  Cardinality(Lost(ws, ws')) <= 1
  <2>0. ws.files = [p \in DOMAIN ws.files |-> ws.files[p]]
    BY <1>1, Maps DEF IInv, Whole
  <2>1. CASE Edit
    <3>1. PICK c \in Contents : ws' = EditFile(ws, c) BY <2>1 DEF Edit, Changed
    <3>2. Lost(ws, ws') \subseteq {ws.active} BY <2>0, <3>1 DEF Lost, EditFile, Changes
    <3> QED BY <3>2, AtMostOne
  <2>2. CASE Submit
    <3>1. PICK p \in Paths \ DOMAIN ws.files :
            (\E c \in Contents : ws' = AddFile(ws, p, c)) \/ ws' = RenameFile(ws, p)
      BY <2>2 DEF Submit, Changed
    <3>2. Lost(ws, ws') \subseteq {ws.active}
      <4>1. CASE \E c \in Contents : ws' = AddFile(ws, p, c)
        <5>1. PICK c \in Contents : ws' = AddFile(ws, p, c) BY <4>1
        <5>2. ws'.files = With(ws.files, p, c) BY <5>1 DEF AddFile, Changes
        <5> QED BY <3>1, <5>2 DEF Lost, With
      <4>2. CASE ws' = RenameFile(ws, p)
        <5>1. ws'.files = With(Without(ws.files, ws.active), p, ws.files[ws.active])
          BY <4>2 DEF RenameFile, Changes
        <5> QED BY <3>1, <5>1 DEF Lost, With, Without
      <4> QED BY <3>1, <4>1, <4>2
    <3> QED BY <3>2, AtMostOne
  <2>3. CASE Toggle
    BY <2>3, NothingLost DEF Toggle, Changed, SetEntrypoint, Changes
  <2>4. CASE ShowFile
    <3>1. ws'.files = ws.files BY <1>1, <2>4 DEF ShowFile, IInv, Whole
    <3> QED BY <3>1, NothingLost
  <2>5. CASE Example \/ FilesRead
    BY <1>1, <2>5, NothingLost DEF Example, FilesRead, Replace
  <2>6. CASE Answer BY <1>1, <2>6 DEF Answer
  <2>7. CASE \/ OpenFiles \/ AskDelete \/ Generate \/ SelectLanguage \/ Cancel \/ PageHide
             \/ Loaded \/ Created \/ Compiled \/ Generated \/ Fails \/ Aborted
             \/ UNCHANGED vars
    BY <2>7, NothingLost
       DEF OpenFiles, AskDelete, Generate, SelectLanguage, Cancel, PageHide, Loaded, Created,
           Compiled, Generated, Fails, Aborted, vars
  <2> QED BY <1>1, <2>1, <2>2, <2>3, <2>4, <2>5, <2>6, <2>7 DEF Next, User
<1>2. IInv /\ [Next]_vars =>
        [ws.dirty /\ asking = << >> => Cardinality(Lost(ws, ws')) <= 1]_vars
  BY <1>1
<1> QED BY Invariant, <1>2, PTL DEF Spec, EditsKept, Lost
=============================================================================
