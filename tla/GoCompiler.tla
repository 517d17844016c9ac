----------------------------- MODULE GoCompiler -----------------------------
(***************************************************************************)
(* The life of the Go SDK's Compiler (sdk/go/compiler.go): concurrent      *)
(* Compile and Generate calls, the slots that bound them, and Close, which *)
(* may be called at any time, repeatedly, and may give up waiting.         *)
(*                                                                         *)
(* A call or a Close is a goroutine.  Each action is one section under the *)
(* mutex, one channel operation or one step of a guest: goroutines         *)
(* interleave between any two of them.  The mutex is never held across an  *)
(* action, so it is not a variable.                                        *)
(***************************************************************************)
EXTENDS Naturals, FiniteSets

CONSTANTS
  Calls,     \* Compile and Generate calls
  Closers,   \* Close calls
  MaxJobs    \* WithMaxConcurrentJobs; 0 when it is not set

ASSUME ConstantsAssumption == MaxJobs \in Nat /\ IsFiniteSet(Calls)

VARIABLES
  closed, jobs,   \* the fields mu guards
  idle,           \* the channel idle is closed
  panicked,       \* it was closed a second time, which panics
  slots,          \* tokens in the channel slots
  release,        \* the sync.Once: "none", "running" or "done"
  releaser,       \* the goroutine the last job leaves, `go closeRuntimes()`
  pc,             \* where each call is
  admitted,       \* begin's local: the call holds a slot
  cause,          \* why the call's context ended: "none", "caller" or "closed"
  result,         \* what the call returned
  closer,         \* where each Close is
  expired         \* the context of each Close has ended

callVars  == <<pc, admitted, cause, result>>
closeVars == <<closer, expired>>
vars == <<closed, jobs, idle, panicked, slots, release, releaser, callVars, closeVars>>

\* The Compiler's state keeps its type; slots never falls below zero, where
\* done() would block on an empty channel.
TypeOK ==
  /\ closed \in BOOLEAN /\ idle \in BOOLEAN /\ panicked \in BOOLEAN
  /\ jobs \subseteq Calls
  /\ slots \in Nat
  /\ release \in {"none", "running", "done"}
  /\ releaser \in {"none", "spawned", "running", "done"}
  /\ pc \in [Calls -> {"start", "admission", "check", "live", "stage", "guest", "exit",
                     "unregister", "returned"}]
  /\ admitted \in [Calls -> BOOLEAN]
  /\ cause \in [Calls -> {"none", "caller", "closed"}]
  /\ result \in [Calls -> {"none", "ok", "failed", "caller", "closed"}]
  /\ closer \in [Closers -> {"start", "poll", "wait", "release", "releasing", "expire",
                             "released", "gaveUp"}]
  /\ expired \in [Closers -> BOOLEAN]

Init ==
  /\ closed = FALSE /\ jobs = {} /\ idle = FALSE /\ panicked = FALSE
  /\ slots = 0 /\ release = "none" /\ releaser = "none"
  /\ pc = [c \in Calls |-> "start"]
  /\ admitted = [c \in Calls |-> FALSE]
  /\ cause = [c \in Calls |-> "none"]
  /\ result = [c \in Calls |-> "none"]
  /\ closer = [k \in Closers |-> "start"]
  /\ expired = [k \in Closers |-> FALSE]

-----------------------------------------------------------------------------
(* Compile and Generate.                                                   *)

Go(c, place) == pc' = [pc EXCEPT ![c] = place]

\* begin, under the mutex.  The caller's context may have ended before.
Begin(c) ==
  /\ pc[c] = "start"
  /\ IF closed
       THEN /\ Go(c, "returned") /\ result' = [result EXCEPT ![c] = "closed"]
            /\ UNCHANGED <<jobs, cause>>
       ELSE /\ jobs' = jobs \cup {c}
            /\ Go(c, IF MaxJobs = 0 THEN "check" ELSE "admission")
            /\ \E early \in {"none", "caller"} : cause' = [cause EXCEPT ![c] = early]
            /\ UNCHANGED result
  /\ UNCHANGED <<closed, idle, panicked, slots, release, releaser, admitted, closeVars>>

\* begin's select; when both are ready either may be chosen.
TakeSlot(c) ==
  /\ pc[c] = "admission" /\ slots < MaxJobs
  /\ slots' = slots + 1
  /\ admitted' = [admitted EXCEPT ![c] = TRUE]
  /\ Go(c, "check")
  /\ UNCHANGED <<closed, jobs, idle, panicked, release, releaser, cause, result, closeVars>>

\* A job that ends, before its done(), with the error it found: "caller" stands
\* for the context's own.  jobErr reads the cause and then the error of the
\* context.  In a select on Done() and in run(), which asks again once the answer
\* is an error, both are there by then, and one action reads them.
Leave(c, how) == Go(c, "exit") /\ result' = [result EXCEPT ![c] = how]

AdmissionEnds(c) ==
  /\ pc[c] = "admission" /\ cause[c] # "none"
  /\ Leave(c, cause[c])
  /\ UNCHANGED <<closed, jobs, idle, panicked, slots, release, releaser, admitted, cause, closeVars>>

\* The checks of Compile and Generate before any guest: the cause of the
\* context's end; its error, by when Close may have ended it; the request.
Check(c) ==
  /\ pc[c] = "check"
  /\ IF cause[c] = "closed"
       THEN Leave(c, "closed")
       ELSE Go(c, "live") /\ UNCHANGED result
  /\ UNCHANGED <<closed, jobs, idle, panicked, slots, release, releaser, admitted, cause, closeVars>>
CheckRequest(c) ==
  /\ pc[c] = "live"
  /\ IF cause[c] # "none"
       THEN Leave(c, "caller")
       ELSE Leave(c, "failed") \/ (Go(c, "stage") /\ UNCHANGED result)
  /\ UNCHANGED <<closed, jobs, idle, panicked, slots, release, releaser, admitted, cause, closeVars>>

\* run() starts a module on its runtime; it does not ask the context first.
StartGuest(c) ==
  /\ pc[c] = "stage"
  /\ Go(c, "guest")
  /\ UNCHANGED <<closed, jobs, idle, panicked, slots, release, releaser, admitted, cause, result, closeVars>>

\* run() returns, the context's error before the guest's: the job fails, goes
\* on to its next stage, or was at its last one.
GuestStops(c) ==
  /\ pc[c] = "guest"
  /\ IF cause[c] # "none"
       THEN Leave(c, cause[c])
       ELSE \/ \E how \in {"ok", "failed"} : Leave(c, how)
            \/ Go(c, "stage") /\ UNCHANGED result
  /\ UNCHANGED <<closed, jobs, idle, panicked, slots, release, releaser, admitted, cause, closeVars>>

\* Mutant: no slot is given back.
SlotsKept(c) == slots

SlotsAfter(c) == IF admitted[c] THEN slots - 1 ELSE slots

\* done(): cancel(nil), and the slot.
ReleaseSlot(c) ==
  /\ pc[c] = "exit"
  /\ slots' = SlotsAfter(c)
  /\ admitted' = [admitted EXCEPT ![c] = FALSE]
  /\ Go(c, "unregister")
  /\ UNCHANGED <<closed, jobs, idle, panicked, release, releaser, cause, result, closeVars>>

CloseIdle == idle' = TRUE /\ panicked' = (panicked \/ idle)

\* Mutants: any job that leaves a closed Compiler closes idle; the last one
\* leaves the release to a Close that may have given up.
AnyLeaves == closed
LeaveRuntimesToClose == CloseIdle /\ UNCHANGED releaser

LastLeaves == closed /\ jobs' = {}
LeaveRuntimes == CloseIdle /\ releaser' = "spawned"

\* done(): the section under the mutex.
Unregister(c) ==
  /\ pc[c] = "unregister"
  /\ jobs' = jobs \ {c}
  /\ Go(c, "returned")
  /\ IF LastLeaves
       THEN LeaveRuntimes
       ELSE UNCHANGED <<idle, panicked, releaser>>
  /\ UNCHANGED <<closed, slots, release, admitted, cause, result, closeVars>>

\* The caller's context ends; a cause once set stays.
CallerCancels(c) ==
  /\ c \in jobs /\ cause[c] = "none"
  /\ cause' = [cause EXCEPT ![c] = "caller"]
  /\ UNCHANGED <<closed, jobs, idle, panicked, slots, release, releaser, pc, admitted, result, closeVars>>

-----------------------------------------------------------------------------
(* Close.                                                                  *)

Close(k, place) == closer' = [closer EXCEPT ![k] = place]

\* The section under the mutex.
CloseBegin(k) ==
  /\ closer[k] = "start"
  /\ Close(k, "poll")
  /\ closed' = TRUE
  /\ IF ~closed /\ jobs = {} THEN CloseIdle ELSE UNCHANGED <<idle, panicked>>
  /\ UNCHANGED <<jobs, slots, release, releaser, callVars, expired>>

\* The first select, which prefers idle, and the second, which does not.
ClosePoll(k) ==
  /\ closer[k] = "poll"
  /\ Close(k, IF idle THEN "release" ELSE "wait")
  /\ UNCHANGED <<closed, jobs, idle, panicked, slots, release, releaser, callVars, expired>>

\* Mutant: Close waits for idle whatever its context says.
CloseWakesIdle(k) ==
  /\ closer[k] = "wait" /\ idle
  /\ Close(k, "release")
  /\ UNCHANGED <<closed, jobs, idle, panicked, slots, release, releaser, callVars, expired>>

CloseWakes(k) ==
  /\ closer[k] = "wait"
  /\ \/ idle /\ Close(k, "release")
     \/ expired[k] /\ Close(k, "expire")
  /\ UNCHANGED <<closed, jobs, idle, panicked, slots, release, releaser, callVars, expired>>

\* The second section under the mutex: cancel every job, and give up.
CloseTerminates(k) ==
  /\ closer[k] = "expire"
  /\ cause' = [c \in Calls |-> IF c \in jobs /\ cause[c] = "none" THEN "closed" ELSE cause[c]]
  /\ Close(k, "gaveUp")
  /\ UNCHANGED <<closed, jobs, idle, panicked, slots, release, releaser, pc, admitted, result, expired>>

ContextExpires(k) ==
  /\ ~expired[k] /\ closer[k] \notin {"released", "gaveUp"}
  /\ expired' = [expired EXCEPT ![k] = TRUE]
  /\ UNCHANGED <<closed, jobs, idle, panicked, slots, release, releaser, callVars, closer>>

\* closeRuntimes by a Close: the Once runs the release, or waits for the one
\* that does.
CloseReleases(k) ==
  /\ closer[k] = "release" /\ release # "running"
  /\ IF release = "none"
       THEN Close(k, "releasing") /\ release' = "running"
       ELSE Close(k, "released") /\ UNCHANGED release
  /\ UNCHANGED <<closed, jobs, idle, panicked, slots, releaser, callVars, expired>>

CloseReleased(k) ==
  /\ closer[k] = "releasing"
  /\ Close(k, "released") /\ release' = "done"
  /\ UNCHANGED <<closed, jobs, idle, panicked, slots, releaser, callVars, expired>>

\* closeRuntimes by the goroutine the last job leaves.
ReleaserRuns ==
  /\ releaser = "spawned" /\ release # "running"
  /\ IF release = "none"
       THEN releaser' = "running" /\ release' = "running"
       ELSE releaser' = "done" /\ UNCHANGED release
  /\ UNCHANGED <<closed, jobs, idle, panicked, slots, callVars, closeVars>>

ReleaserEnds ==
  /\ releaser = "running"
  /\ releaser' = "done" /\ release' = "done"
  /\ UNCHANGED <<closed, jobs, idle, panicked, slots, callVars, closeVars>>

-----------------------------------------------------------------------------
Goroutine(c) ==
  \/ Begin(c) \/ TakeSlot(c) \/ AdmissionEnds(c) \/ Check(c) \/ CheckRequest(c)
  \/ StartGuest(c) \/ GuestStops(c) \/ ReleaseSlot(c) \/ Unregister(c)
CloseStep(k) ==
  \/ CloseBegin(k) \/ ClosePoll(k) \/ CloseWakes(k) \/ CloseTerminates(k)
  \/ CloseReleases(k) \/ CloseReleased(k)

Next ==
  \/ \E c \in Calls : Goroutine(c) \/ CallerCancels(c)
  \/ \E k \in Closers : CloseStep(k) \/ ContextExpires(k)
  \/ ReleaserRuns \/ ReleaserEnds

Spec == Init /\ [][Next]_vars

\* Goroutines are scheduled, and a guest whose context ended stops (wazero's
\* WithCloseOnContextDone); any other guest may run for ever, and a context
\* may never end.
Fairness ==
  /\ \A c \in Calls : WF_vars((pc[c] = "guest" => cause[c] # "none") /\ Goroutine(c))
  /\ \A k \in Closers : WF_vars(CloseStep(k))
  /\ WF_vars(ReleaserRuns) /\ WF_vars(ReleaserEnds)
FairSpec == Spec /\ Fairness

-----------------------------------------------------------------------------
(* What the Compiler promises.                                             *)

\* The comment of closeRuntimes: a runtime is closed only after the last job
\* that uses it has stopped, whoever closes it and however Close ended.
RuntimesOutliveJobs ==
  release # "none" => jobs = {} /\ \A c \in Calls : pc[c] \notin {"check", "live", "stage", "guest"}

\* Two parties may close idle, Close and the last job; only one ever does.
IdleClosedOnce == ~panicked

\* WithMaxConcurrentJobs bounds the jobs that run guests, and a slot is never
\* lost, nor given back twice.
SlotsHeld == {c \in Calls : admitted[c]}
SlotsBoundGuests ==
  /\ slots = Cardinality(SlotsHeld)
  /\ MaxJobs > 0 => /\ slots <= MaxJobs
                    /\ \A c \in Calls : pc[c] \in {"check", "live", "stage", "guest"} => admitted[c]

\* Once a Close gave up, every job it left behind has been told to stop, and
\* no other can have joined.
GaveUpTerminates ==
  (\E k \in Closers : closer[k] = "gaveUp") => \A c \in jobs : cause[c] # "none"

\* A Close that did not give up returns only with the runtimes released, also
\* when another goroutine is releasing them.
CloseMeansReleased == \A k \in Closers : closer[k] = "released" => release = "done"

\* The comment on Close, whole: no runtime is freed under a job, idle is
\* closed once, giving up stops every job, and not giving up means released.
CloseIsSafe == RuntimesOutliveJobs /\ IdleClosedOnce /\ GaveUpTerminates /\ CloseMeansReleased

\* After a Close gave up the runtimes are still released, once the jobs stop.
GaveUpReleases == (\E k \in Closers : closer[k] = "gaveUp") ~> release = "done"

\* A Close whose context ends returns.
CloseReturns ==
  \A k \in Closers : closer[k] # "start" /\ expired[k] ~> closer[k] \in {"released", "gaveUp"}

-----------------------------------------------------------------------------
(* Why: an inductive invariant.                                            *)

Registered(c) == pc[c] \notin {"start", "returned"}

\* idle is closed exactly when the Compiler is closed and no job remains.
JobsInv ==
  /\ \A c \in Calls : c \in jobs <=> Registered(c)
  /\ idle <=> closed /\ jobs = {}
  /\ ~panicked

\* Whoever releases, and whoever is about to, found idle closed.
ReleaseInv ==
  /\ release # "none" => idle
  /\ releaser # "none" => idle
  /\ \A k \in Closers : closer[k] \in {"release", "releasing", "released"} => idle
  /\ \A k \in Closers : closer[k] \notin {"start"} => closed
  /\ \A k \in Closers : closer[k] = "released" => release = "done"
  /\ \A k \in Closers : closer[k] = "releasing" => release = "running"
  /\ releaser = "running" => release = "running"

\* The one that runs the release is alone.
OneReleaser ==
  \A k \in Closers : closer[k] = "releasing" =>
    releaser # "running" /\ \A l \in Closers : closer[l] = "releasing" => l = k

SlotsInv ==
  /\ SlotsBoundGuests
  /\ \A c \in Calls : admitted[c] => pc[c] \in {"check", "live", "stage", "guest", "exit"}

\* All of it: what every step of the calls and the Closes keeps.
IInv == TypeOK /\ JobsInv /\ ReleaseInv /\ OneReleaser /\ SlotsInv /\ GaveUpTerminates
=============================================================================
