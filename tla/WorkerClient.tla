---------------------------- MODULE WorkerClient ----------------------------
(***************************************************************************)
(* The worker compiler of the TypeScript SDK: createWorkerCompiler in      *)
(* sdk/typescript/worker-client.ts and the worker it drives, worker.ts.    *)
(*                                                                         *)
(* The client is one JavaScript event loop.  Callers start operations (a   *)
(* compile or generate call, and the creation of the client itself); each  *)
(* runs as a chain of microtasks between awaits, and exchanges messages    *)
(* with a worker thread.  An exchange is named <<kind, operation>>: an     *)
(* operation makes at most one "init" exchange and then at most one "job"  *)
(* exchange.  A session is named by the operation whose open() created it. *)
(*                                                                         *)
(* A microtask cannot be overtaken by a task (a timer, a worker event),    *)
(* only by other microtasks, and a caller's microtask may call compile,    *)
(* abort or dispose at any time.  The worker's steps interleave freely: it *)
(* is another thread, and nothing in it refuses a second message while a   *)
(* first one is awaiting an instantiation.                                 *)
(***************************************************************************)
EXTENDS Naturals, FiniteSets

CONSTANTS
  Jobs,        \* the compile() and generate() calls made of one client
  Creation,    \* the call of createWorkerCompiler that made it
  HasCell,     \* sharedCells(): a SharedArrayBuffer can reach the worker
  TokenRange,  \* 2^32 in the code: ids that differ by it share a token
  None

ASSUME ConstantsAssumption ==
  /\ Creation \notin Jobs
  /\ HasCell \in BOOLEAN
  /\ TokenRange \in Nat \ {0, 1}
  /\ None \notin Jobs \cup {Creation}
  /\ \A k \in {"init", "job", "wait"}, o \in Jobs \cup {Creation} : None # <<k, o>>

Ops       == Jobs \cup {Creation}
Exchanges == {"init", "job"} \X Ops
Waits     == {"wait"} \X Ops
InitOf(o) == <<"init", o>>
JobOf(o)  == <<"job", o>>
WaitOf(o) == <<"wait", o>>
Kind(x)   == x[1]
Op(x)     == x[2]
Tokens    == 0..(TokenRange - 1)

VARIABLES
  \* the client: createWorkerCompiler's local variables
  disposed, busy, session, cancel, sequence,
  \* one operation: where its async function is, how its promise settles,
  \* its AbortSignal, and the settling promise it waits for
  phase, outcome, aborted, waitsFor,
  \* one exchange: its state, session and token, and its message's progress
  state, sess, token, work,
  \* one session: its Worker, flags, unsettled exchange, cell and engine
  worker, ready, settle, cell, engine

clientVars   == <<disposed, busy, session, cancel, sequence>>
callVars     == <<phase, outcome, aborted, waitsFor>>
exchangeVars == <<state, sess, token, work>>
sessionVars  == <<worker, ready, settle, cell, engine>>
vars == <<clientVars, callVars, exchangeVars, sessionVars>>

\* An async function is suspended in an await, or a microtask will resume it.
Suspended == {"waiting", "initializing", "exchanging"}
Resumable == {"settled", "initDone", "initFailed", "ready", "unwinding"}
Answers   == {"result", "error", "cancelled", "timeout"}
Outcomes  == Answers \cup {"none", "aborted", "disposed", "busy", "failed"}

\* The client's state keeps its type; a token stays within the ids' Int32 range
\* however many exchanges were started.
TypeOK ==
  /\ disposed \in BOOLEAN /\ busy \in BOOLEAN
  /\ session \in Ops \cup {None}
  /\ cancel \in Exchanges \cup Waits \cup {None}
  /\ sequence \in Tokens
  /\ phase \in [Ops -> Suspended \cup Resumable \cup {"idle", "returned"}]
  /\ outcome \in [Ops -> Outcomes]
  /\ aborted \in [Ops -> BOOLEAN]
  /\ waitsFor \in [Ops -> Exchanges \cup {None}]
  /\ state \in [Exchanges -> {"none", "running", "stopping", "closed"}]
  /\ sess \in [Exchanges -> Ops \cup {None}]
  /\ token \in [Exchanges -> Tokens]
  /\ work \in [Exchanges -> {"none", "posted", "executing", "delivered"} \cup Answers]
  /\ worker \in [Ops -> {"none", "live", "terminated"}]
  /\ ready \in [Ops -> BOOLEAN]
  /\ settle \in [Ops -> Exchanges \cup {None}]
  /\ cell \in [Ops -> Tokens]
  /\ engine \in [Ops -> BOOLEAN]

Init ==
  /\ disposed = FALSE /\ busy = FALSE
  /\ session = None /\ cancel = None /\ sequence = 0
  /\ phase = [o \in Ops |-> "idle"]
  /\ outcome = [o \in Ops |-> "none"]
  /\ aborted = [o \in Ops |-> FALSE]
  /\ waitsFor = [o \in Ops |-> None]
  /\ state = [x \in Exchanges |-> "none"]
  /\ sess = [x \in Exchanges |-> None]
  /\ token = [x \in Exchanges |-> 0]
  /\ work = [x \in Exchanges |-> "none"]
  /\ worker = [s \in Ops |-> "none"]
  /\ ready = [s \in Ops |-> FALSE]
  /\ settle = [s \in Ops |-> None]
  /\ cell = [s \in Ops |-> 0]
  /\ engine = [s \in Ops |-> FALSE]

-----------------------------------------------------------------------------
(* The callbacks every path shares.                                        *)

\* Mutant: an id whose token is 0 is used.
NextIdWraps(n) == (n + 1) % TokenRange

\* nextId: the token of the id after one whose token is n.  An id is told from
\* every other by its full value; its token is its Int32 value, which wraps,
\* and ids whose token is 0 are skipped.
NextId(n) == IF n + 1 = TokenRange THEN 1 ELSE n + 1

\* close() of every exchange in X: stop listening to the worker and end the
\* wait for it, and stop listening to the caller.
CloseStates(X) ==
  /\ state' = [x \in Exchanges |-> IF x \in X THEN "closed" ELSE state[x]]
  /\ settle' = [s \in Ops |-> IF settle[s] \in X THEN None ELSE settle[s]]
Close(X) == CloseStates(X) /\ cancel' = IF cancel \in X THEN None ELSE cancel

\* The exchange current.settle closes, if one is stopping in session s.
Unsettled(s) == {x \in Exchanges : settle[s] = x /\ state[x] = "stopping"}

\* stop(s) but for the close of Unsettled(s), which the callers add.
StopWorker(s) ==
  /\ worker' = [worker EXCEPT ![s] = "terminated"]
  /\ ready' = [ready EXCEPT ![s] = FALSE]
  /\ session' = IF session = s THEN None ELSE session

\* The promise of exchange x rejects: a microtask
\* will resume initialize's catch or runJob's finally.
Reject(x, why) ==
  /\ phase' = [phase EXCEPT ![Op(x)] = IF Kind(x) = "init" THEN "initFailed" ELSE "unwinding"]
  /\ outcome' = [outcome EXCEPT ![Op(x)] = why]

\* terminate(reason) of a running exchange.
Terminate(x, why) ==
  /\ Close({x} \cup Unsettled(sess[x]))
  /\ StopWorker(sess[x])
  /\ Reject(x, why)

\* Mutant: every abort terminates the worker.
AbortUnreachable(x, timedOut) == Kind(x) = "init" \/ ~timedOut

\* Start-up runs no guest, and without a cell only the job's own deadline
\* reaches a guest.
Unreachable(x, timedOut) == Kind(x) = "init" \/ (~HasCell /\ ~timedOut)

\* The store that cancels exchange x's guest.
StoreToken(x) ==
  cell' = IF HasCell THEN [cell EXCEPT ![sess[x]] = token[x]] ELSE cell

\* interrupt's stop of a guest it reaches: from here on the exchange's reply
\* or its grace timer closes it.
StopGuest(x) ==
  /\ state' = [state EXCEPT ![x] = "stopping"]
  /\ cancel' = IF cancel = x THEN None ELSE cancel
  /\ settle' = [settle EXCEPT ![sess[x]] = x]
  /\ StoreToken(x)
  /\ UNCHANGED <<worker, ready, session>>

\* interrupt(reason, timedOut).
Interrupt(x, why, timedOut) ==
  /\ state[x] = "running"
  /\ IF Unreachable(x, timedOut)
       THEN Terminate(x, why) /\ UNCHANGED cell
       ELSE StopGuest(x) /\ Reject(x, why)

\* finish(error) of operation o's wait in settled(); "none" is no error.
Finish(o, why) ==
  /\ phase' = [phase EXCEPT ![o] = IF why = "none" THEN "settled" ELSE "unwinding"]
  /\ outcome' = [outcome EXCEPT ![o] = why]
  /\ cancel' = IF cancel = WaitOf(o) THEN None ELSE cancel

\* The exchange whose end operation o waits for has ended.
Woken(o) == phase[o] = "waiting" /\ state[waitsFor[o]] = "closed"

\* Tasks wait for the microtask queue to drain.
Drained == \A o \in Ops : phase[o] \notin Resumable /\ ~Woken(o)

-----------------------------------------------------------------------------
(* exchange(message, signal, timeoutMs) over session s.                    *)

ExchangeRefused(x) ==
  /\ disposed \/ aborted[Op(x)]
  /\ Reject(x, IF disposed THEN "disposed" ELSE "aborted")
  /\ UNCHANGED <<disposed, busy, cancel, sequence, aborted, waitsFor, state, token, work>>
  /\ UNCHANGED <<ready, settle, cell, engine>>

\* open(), and the exchange's id.
Start(x, s) ==
  /\ ~disposed /\ ~aborted[Op(x)]
  /\ sequence' = NextId(sequence)
  /\ token' = [token EXCEPT ![x] = NextId(sequence)]
  /\ sess' = [sess EXCEPT ![x] = s]
  /\ UNCHANGED <<disposed, busy, aborted, waitsFor, cell, engine>>

Opened(s) == IF session = None THEN [worker EXCEPT ![s] = "live"] ELSE worker

ExchangePosted(x, s) ==
  /\ Start(x, s)
  /\ session' = s /\ worker' = Opened(s)
  /\ state' = [state EXCEPT ![x] = "running"]
  /\ work' = [work EXCEPT ![x] = "posted"]
  /\ cancel' = x
  /\ phase' = [phase EXCEPT ![Op(x)] = IF Kind(x) = "init" THEN "initializing" ELSE "exchanging"]
  /\ UNCHANGED <<outcome, ready, settle>>

\* worker.postMessage throws: terminate(cause) within the same call.
PostFailed(x, s) ==
  /\ Start(x, s)
  /\ CloseStates({x} \cup Unsettled(s))
  /\ cancel' = None
  /\ StopWorker(s)
  /\ Reject(x, "failed")
  /\ UNCHANGED work

\* open(): the session, or a new one named after the operation.
Session(o) == IF session = None THEN o ELSE session

\* initialize: open() first, and only then the exchange's own checks.
Initialize(o) ==
  \/ /\ ExchangeRefused(InitOf(o))
     /\ session' = Session(o) /\ worker' = Opened(Session(o))
     /\ sess' = [sess EXCEPT ![InitOf(o)] = Session(o)]
  \/ ExchangePosted(InitOf(o), Session(o))
  \/ PostFailed(InitOf(o), Session(o))

\* runJob's last part: the remaining time, then the job's exchange.
SendJob(o) ==
  \/ /\ Reject(JobOf(o), "timeout")
     /\ UNCHANGED <<clientVars, aborted, waitsFor, exchangeVars, sessionVars>>
  \/ ExchangeRefused(JobOf(o)) /\ UNCHANGED <<session, worker, sess>>
  \/ ExchangePosted(JobOf(o), Session(o))
  \/ PostFailed(JobOf(o), Session(o))

-----------------------------------------------------------------------------
(* Operations of the callers: any microtask or task of theirs.             *)

\* createWorkerCompiler, after its argument checks and with initSignal not
\* aborted (then it throws, and there is no client).
Create == phase[Creation] = "idle" /\ Initialize(Creation)

Created == phase[Creation] = "returned" /\ outcome[Creation] = "result"

\* Why runJob refuses a call: the client's state first, then the call's own
\* options (its signal may have aborted before) and request.
Refusals == IF disposed THEN {"disposed"} ELSE IF busy THEN {"busy"} ELSE {"aborted", "failed"}

\* runJob up to its first await.
CallRefused(j) ==
  /\ Created /\ phase[j] = "idle"
  /\ phase' = [phase EXCEPT ![j] = "returned"]
  /\ \E why \in Refusals : outcome' = [outcome EXCEPT ![j] = why]
  /\ UNCHANGED <<clientVars, aborted, waitsFor, exchangeVars, sessionVars>>

\* Mutant: a job does not wait for the cancelled one before it.
NoPending == None

\* The exchange runJob waits for: the session's settling promise.
Pending == IF session = None THEN None ELSE settle[session]

CallAccepted(j) ==
  /\ Created /\ phase[j] = "idle"
  /\ ~disposed /\ ~busy
  /\ busy' = TRUE
  /\ \/ /\ Pending = None
        /\ phase' = [phase EXCEPT ![j] = "settled"]
        /\ UNCHANGED <<outcome, cancel, waitsFor>>
     \/ /\ Pending # None
        /\ waitsFor' = [waitsFor EXCEPT ![j] = Pending]
        /\ phase' = [phase EXCEPT ![j] = "waiting"]
        /\ cancel' = WaitOf(j)
        /\ UNCHANGED outcome
  /\ UNCHANGED <<disposed, session, sequence, aborted, exchangeVars, sessionVars>>

\* The caller's signal aborts during the operation: its listener, if one is
\* registered, runs now.
Abort(o) ==
  /\ phase[o] \notin {"idle", "returned"} /\ ~aborted[o]
  /\ aborted' = [aborted EXCEPT ![o] = TRUE]
  /\ \/ /\ phase[o] = "waiting"
        /\ Finish(o, "aborted")
        /\ UNCHANGED <<session, state, worker, ready, settle, cell>>
     \/ \E x \in Exchanges : Op(x) = o /\ Interrupt(x, "aborted", FALSE)
     \/ /\ phase[o] # "waiting"
        /\ \A x \in Exchanges : Op(x) = o => state[x] # "running"
        /\ UNCHANGED <<session, cancel, phase, outcome, state, worker, ready, settle, cell>>
  /\ UNCHANGED <<disposed, busy, sequence, waitsFor, sess, token, work, engine>>

\* dispose(): reject the pending operation through cancel, then stop the
\* session; a second call finds nothing left.
Dispose ==
  /\ Created
  /\ disposed' = TRUE
  /\ LET x == cancel
         X == {y \in Exchanges : y = x /\ state[y] = "running"} IN
     /\ \/ /\ cancel \in Waits /\ Finish(Op(x), "disposed")
        \/ /\ cancel \in Exchanges /\ cancel' = None
           /\ Reject(x, "disposed")
        \/ /\ cancel = None /\ UNCHANGED <<cancel, phase, outcome>>
     /\ IF X # {} /\ ~Unreachable(x, FALSE) THEN StoreToken(x) ELSE UNCHANGED cell
     /\ IF session = None
          THEN UNCHANGED <<session, state, settle, worker, ready>>
          ELSE CloseStates(X \cup Unsettled(session)) /\ StopWorker(session)
  /\ UNCHANGED <<busy, sequence, aborted, waitsFor, sess, token, work, engine>>

-----------------------------------------------------------------------------
(* Microtasks: the continuations of runJob, settled and initialize.        *)

\* pending.then(() => finish()).
Wake(o) ==
  /\ Woken(o)
  /\ Finish(o, "none")
  /\ UNCHANGED <<disposed, busy, session, sequence, aborted, waitsFor, exchangeVars, sessionVars>>

\* Mutant: dispose is only asked about before the wait.
AfterSettledUnchecked(o) ==
  /\ phase[o] = "settled"
  /\ \/ session # None /\ ready[session] /\ SendJob(o)
     \/ ~(session # None /\ ready[session]) /\ Initialize(o)

\* runJob after `await settled(...)`.
AfterSettled(o) ==
  /\ phase[o] = "settled"
  /\ \/ /\ disposed
        /\ Reject(JobOf(o), "disposed")
        /\ UNCHANGED <<clientVars, aborted, waitsFor, exchangeVars, sessionVars>>
     \/ /\ ~disposed /\ session # None /\ ready[session]
        /\ SendJob(o)
     \/ /\ ~disposed /\ ~(session # None /\ ready[session])
        /\ Initialize(o)

\* initialize after a successful exchange: current.ready = true.
AfterInit(o) ==
  /\ phase[o] = "initDone"
  /\ ready' = [ready EXCEPT ![sess[InitOf(o)]] = TRUE]
  /\ IF o = Creation
       THEN /\ phase' = [phase EXCEPT ![o] = "returned"]
            /\ outcome' = [outcome EXCEPT ![o] = "result"]
       ELSE phase' = [phase EXCEPT ![o] = "ready"] /\ UNCHANGED outcome
  /\ UNCHANGED <<clientVars, aborted, waitsFor, exchangeVars, worker, settle, cell, engine>>

\* initialize's catch: a worker that failed to start is stopped.
InitFailed(o) ==
  LET s == sess[InitOf(o)] IN
  /\ phase[o] = "initFailed"
  /\ Close(Unsettled(s))
  /\ StopWorker(s)
  /\ phase' = [phase EXCEPT ![o] = "unwinding"]
  /\ UNCHANGED <<disposed, busy, sequence, outcome, aborted, waitsFor, sess, token, work, cell, engine>>

\* runJob after `await initialize(...)`.
AfterReady(o) == phase[o] = "ready" /\ SendJob(o)

\* Mutant: the client stays busy after the call.
ReturnBusy(o) ==
  /\ phase[o] = "unwinding"
  /\ phase' = [phase EXCEPT ![o] = "returned"]
  /\ UNCHANGED <<clientVars, outcome, aborted, waitsFor, exchangeVars, sessionVars>>

\* runJob's finally, or the rejection leaving createWorkerCompiler.
Return(o) ==
  /\ phase[o] = "unwinding"
  /\ phase' = [phase EXCEPT ![o] = "returned"]
  /\ busy' = IF o = Creation THEN busy ELSE FALSE
  /\ UNCHANGED <<disposed, session, cancel, sequence, outcome, aborted, waitsFor, exchangeVars, sessionVars>>

-----------------------------------------------------------------------------
(* Tasks of the client's event loop.                                       *)

\* The exchange's timer.  A cleared timer may still fire (Deno); the state
\* is what refuses it, here and in GraceTimer.
Timer(x) ==
  /\ Drained
  /\ Interrupt(x, "timeout", TRUE)
  /\ UNCHANGED <<disposed, busy, sequence, aborted, waitsFor, sess, token, work, engine>>

\* The timer of settled().
WaitTimer(o) ==
  /\ Drained /\ phase[o] = "waiting"
  /\ Finish(o, "timeout")
  /\ UNCHANGED <<disposed, busy, session, sequence, aborted, waitsFor, exchangeVars, sessionVars>>

\* Mutant: no timer is set for the grace of a cancelled job.
GraceForever(x) == state[x] = "stopping" /\ FALSE

\* A cancelled job did not report within settleGraceMs.
GraceTimer(x) ==
  /\ Drained /\ state[x] = "stopping"
  /\ Close({x} \cup Unsettled(sess[x]))
  /\ StopWorker(sess[x])
  /\ UNCHANGED <<disposed, busy, sequence, callVars, sess, token, work, cell, engine>>

\* fail(event): an error or messageerror event of the exchange's worker.
Fail(x) ==
  /\ Drained /\ state[x] \in {"running", "stopping"}
  /\ Close({x} \cup Unsettled(sess[x]))
  /\ StopWorker(sess[x])
  /\ IF state[x] = "running"
       THEN Reject(x, "failed")
       ELSE UNCHANGED <<phase, outcome>>
  /\ UNCHANGED <<disposed, busy, sequence, aborted, waitsFor, sess, token, work, cell, engine>>

\* The worker has compiled its modules.
Started(x) == Kind(x) = "init" /\ work[x] = "result"

\* receive(event) with the reply to x; no other exchange answers to its id.
Receive(x) ==
  /\ Drained /\ work[x] \in Answers
  /\ state[x] \in {"running", "stopping"}
  /\ work' = [work EXCEPT ![x] = "delivered"]
  /\ Close({x})
  /\ \/ /\ state[x] = "stopping"
        /\ cell' = IF HasCell THEN [cell EXCEPT ![sess[x]] = 0] ELSE cell
        /\ UNCHANGED <<phase, outcome>>
     \/ /\ state[x] = "running" /\ Started(x)
        /\ phase' = [phase EXCEPT ![Op(x)] = "initDone"]
        /\ UNCHANGED <<outcome, cell>>
     \/ /\ state[x] = "running" /\ ~Started(x)
        /\ Reject(x, work[x])
        /\ UNCHANGED cell
  /\ UNCHANGED <<disposed, busy, session, sequence, aborted, waitsFor, sess, token, worker, ready, engine>>

-----------------------------------------------------------------------------
(* The worker thread: worker.ts and the JobControl of each message.        *)

\* onmessage begins; nothing keeps it from beginning during another one.
Execute(x) ==
  /\ work[x] = "posted" /\ worker[sess[x]] = "live"
  /\ work' = [work EXCEPT ![x] = "executing"]
  /\ UNCHANGED <<clientVars, callVars, state, sess, token, sessionVars>>

\* JobControl.cancelled() finds this job's token in the cell.
Cancelled(x) == HasCell /\ cell[sess[x]] = token[x]

\* A terminated worker may run on for a while (Deno), but answers nobody.
AnswerInit(x) ==
  /\ work[x] = "executing" /\ Kind(x) = "init" /\ worker[sess[x]] = "live"
  /\ \E a \in {"result", "error"} :
       /\ work' = [work EXCEPT ![x] = a]
       /\ engine' = IF a = "result" THEN [engine EXCEPT ![sess[x]] = TRUE] ELSE engine
  /\ UNCHANGED <<clientVars, callVars, state, sess, token, worker, ready, settle, cell>>

AnswerJob(x) ==
  /\ work[x] = "executing" /\ Kind(x) = "job" /\ worker[sess[x]] = "live"
  /\ \E a \in Answers :
       /\ a = "cancelled" => Cancelled(x)
       /\ a # "error" => engine[sess[x]]
       /\ work' = [work EXCEPT ![x] = a]
  /\ UNCHANGED <<clientVars, callVars, state, sess, token, sessionVars>>

-----------------------------------------------------------------------------
Microtask(o) ==
  Wake(o) \/ AfterSettled(o) \/ AfterInit(o) \/ InitFailed(o) \/ AfterReady(o) \/ Return(o)

Caller == Create \/ Dispose \/ (\E j \in Jobs : CallRefused(j) \/ CallAccepted(j))
            \/ \E o \in Ops : Abort(o)
Task   == (\E o \in Ops : WaitTimer(o))
            \/ \E x \in Exchanges : Timer(x) \/ GraceTimer(x) \/ Fail(x) \/ Receive(x)
WorkerThread == \E x \in Exchanges : Execute(x) \/ AnswerInit(x) \/ AnswerJob(x)

Next == Caller \/ (\E o \in Ops : Microtask(o)) \/ Task \/ WorkerThread

Spec == Init /\ [][Next]_vars

\* The event loop runs its microtasks and its timers.  Nothing is assumed of
\* the worker, which may never answer, nor of the callers.
Fairness ==
  /\ \A o \in Ops : WF_vars(Microtask(o)) /\ WF_vars(WaitTimer(o))
  /\ \A x \in Exchanges : WF_vars(Timer(x)) /\ WF_vars(GraceTimer(x))
FairSpec == Spec /\ Fairness

-----------------------------------------------------------------------------
(* What the client promises.                                               *)

\* Messages posted to a worker and not yet answered to the client.
Outstanding(x) == work[x] \in {"posted", "executing"} \cup Answers

\* A live worker never holds two messages at once, though nothing in it
\* would keep a second guest from starting while the first one awaits: the
\* next job is posted only once the cancelled one reported.
SerialWorker ==
  \A x, y \in Exchanges :
    /\ Outstanding(x) /\ Outstanding(y)
    /\ sess[x] = sess[y] /\ worker[sess[x]] = "live"
    => x = y

\* The cell never names a job its caller did not cancel, whatever tokens
\* collide after the id wraps: no innocent job is stopped.
NoStrayCancel ==
  \A x \in Exchanges : state[x] = "running" => ~Cancelled(x) /\ work[x] # "cancelled"

\* While the client waits for a cancelled job, that job still finds its
\* token in the cell: nothing overwrites the store its guest must see.
CancelStaysVisible ==
  \A x \in Exchanges : HasCell /\ state[x] = "stopping" => Cancelled(x)

\* Every worker that was not terminated is the one the client can still stop.
NoLeakedWorker == \A s \in Ops : worker[s] = "live" => session = s

\* Once dispose() returned, no worker is left, none is opened again, and no
\* call is left in an await that only a worker or a timer would end.
DisposeIsFinal ==
  disposed => session = None /\ \A o \in Ops : phase[o] \notin Suspended /\ worker[o] # "live"

\* A job reaches only workers that have compiled their modules.
JobsFindAnEngine ==
  \A x \in Exchanges :
    Kind(x) = "job" /\ work[x] \in {"posted", "executing"} => engine[sess[x]]

\* A cancellation reaches its own job for as long as the client waits for it,
\* and never reaches another one, whatever tokens collide.
CancelHitsItsJob == NoStrayCancel /\ CancelStaysVisible

\* Every live worker is the one the client can stop, also when a start-up or
\* a message failed half-way; a job resumed after dispose() opens none; and a
\* replacement worker is given a job only once it compiled its modules.
WorkersOwned == NoLeakedWorker /\ DisposeIsFinal /\ JobsFindAnEngine

\* A ready worker is terminated only as the fallback the comment on
\* createWorkerCompiler lists: for dispose, for a cancelled job that did not
\* report, for a failure, or for an abort that cannot reach the guest.  An
\* ordinary answer never costs the worker.
KeepsWorker ==
  \A s \in Ops :
    ready[s] /\ worker[s] = "live" /\ worker'[s] = "terminated" =>
      \/ disposed'
      \/ \E x \in Exchanges :
           /\ sess'[x] = s
           /\ \/ state[x] = "stopping"
              \/ outcome[Op(x)] = "none" /\ outcome'[Op(x)] = "failed"
              \/ ~HasCell /\ outcome[Op(x)] = "none" /\ outcome'[Op(x)] = "aborted"
WorkerKept == [][KeepsWorker]_vars

\* Every call settles, even one whose worker never answers.
EveryCallReturns == \A o \in Ops : phase[o] \in Suspended \cup Resumable ~> phase[o] = "returned"

\* A cancelled job never holds its worker for good: it reports or its
\* worker goes.
CancelledJobEnds == \A x \in Exchanges : state[x] = "stopping" ~> state[x] = "closed"

\* Both: nothing a worker or a caller does leaves a promise, or a cancelled
\* job's hold on the worker, pending for ever.
CallsEnd == EveryCallReturns /\ CancelledJobEnds

-----------------------------------------------------------------------------
(* Why the promises hold: an inductive invariant, in named parts.          *)

Open(x)    == state[x] \in {"running", "stopping"}
Active(o)  == phase[o] \notin {"idle", "returned"}
\* The phases of an operation that has not opened a session yet.
Unopened(o) == phase[o] \in {"idle", "waiting", "settled"}

\* One operation at a time: the creation first, then the job that holds busy.
OneActive ==
  /\ \A o, p \in Ops : Active(o) /\ Active(p) => o = p
  /\ \A j \in Jobs : Active(j) => busy
  /\ \A j \in Jobs : phase[j] # "idle" => Created

\* An exchange runs exactly while its operation awaits it, and start-up is
\* never left stopping.
RunningIsAwaited ==
  \A o \in Ops :
    /\ state[InitOf(o)] = "running" <=> phase[o] = "initializing"
    /\ state[JobOf(o)] = "running" <=> phase[o] = "exchanging"
    /\ state[InitOf(o)] # "stopping"

\* cancel rejects the operation that is suspended, and nothing else.
CancelIsPending ==
  /\ \A x \in Exchanges : state[x] = "running" <=> cancel = x
  /\ \A o \in Ops : phase[o] = "waiting" <=> cancel = WaitOf(o)

\* The only worker that lives is the session's.
LiveIsSession ==
  /\ NoLeakedWorker
  /\ session # None => worker[session] = "live"
  /\ disposed => session = None /\ cancel = None /\ Created

\* An open exchange belongs to the session, and the session's settle is the
\* one that is stopping.
OpenInSession ==
  /\ \A x \in Exchanges : Open(x) => session # None /\ sess[x] = session
  /\ \A x \in Exchanges : state[x] = "stopping" => settle[session] = x
  /\ \A s \in Ops : settle[s] # None => state[settle[s]] = "stopping" /\ session = s

\* Nothing is stopping but while an operation waits for it, or none runs.
NothingElseStopping ==
  \A o \in Ops : phase[o] \in {"waiting", "settled", "initializing", "initDone", "initFailed",
                              "ready", "exchanging"} =>
    \A x \in Exchanges : state[x] = "stopping" => phase[o] = "waiting" /\ x = waitsFor[o]

WaitsForExchange == \A o \in Ops : phase[o] = "waiting" => waitsFor[o] \in Exchanges

\* A message is out at a live worker only for an exchange that is open.
OutstandingIsOpen ==
  \A x \in Exchanges :
    /\ Outstanding(x) => sess[x] \in Ops
    /\ Outstanding(x) /\ worker[sess[x]] = "live" => Open(x)

\* No session bears the name of an operation that has not opened one.
FreshNames ==
  /\ \A s \in Ops : Unopened(s) =>
       worker[s] = "none" /\ work[InitOf(s)] = "none" /\ work[JobOf(s)] = "none"
  /\ \A s \in Ops : worker[s] = "none" =>
       cell[s] = 0 /\ ~ready[s] /\ \A x \in Exchanges : sess[x] # s

\* Between initialize and the job only a dispose can take the worker.
InitKeepsSession ==
  \A o \in Ops :
    /\ phase[o] \in {"initDone", "initFailed"} => sess[InitOf(o)] \in Ops
    /\ phase[o] \in {"initDone", "ready"} /\ ~disposed => session # None
    /\ phase[o] = "initDone" /\ ~disposed => sess[InitOf(o)] = session
    /\ phase[o] = "ready" /\ ~disposed => ready[session]

\* The cell is zero unless a job is stopping, and then it is its token.
CellInv ==
  /\ \A x \in Exchanges : Open(x) => token[x] # 0
  /\ ~HasCell => \A s \in Ops : cell[s] = 0
  /\ CancelStaysVisible
  /\ session # None /\ settle[session] = None => cell[session] = 0
  /\ \A x \in Exchanges : work[x] = "cancelled" => state[x] # "running"

\* Readiness is only ever claimed of a worker whose engine exists.
EngineInv ==
  /\ \A s \in Ops : ready[s] => engine[s]
  /\ \A o \in Ops :
       /\ work[InitOf(o)] = "result" => engine[sess[InitOf(o)]]
       /\ phase[o] = "initDone" => engine[sess[InitOf(o)]]
  /\ JobsFindAnEngine

\* All of it: what every step of the client, its worker and its callers keeps.
IInv ==
  /\ TypeOK /\ OneActive /\ RunningIsAwaited /\ CancelIsPending /\ LiveIsSession
  /\ OpenInSession /\ NothingElseStopping /\ WaitsForExchange /\ OutstandingIsOpen
  /\ FreshNames /\ InitKeepsSession /\ CellInv /\ EngineInv

-----------------------------------------------------------------------------
(* The client implements CompilerService.                                  *)

\* How a call that has returned ended.
Ended(j) == CASE outcome[j] = "busy"     -> "busy"
              [] outcome[j] = "disposed" -> "closed"
              [] OTHER                   -> "settled"
callBar == [j \in Jobs |->
  IF phase[j] = "idle" THEN "idle" ELSE IF phase[j] = "returned" THEN Ended(j) ELSE "active"]

\* The job whose message is out at the client's worker.
Guests   == {j \in Jobs : Outstanding(JobOf(j)) /\ worker[sess[JobOf(j)]] = "live"}
guestBar == IF Guests = {} THEN None ELSE CHOOSE j \in Guests : TRUE

Service == INSTANCE CompilerService WITH call <- callBar, guest <- guestBar, closed <- disposed

\* The client, its worker and its messages implement the service.
ImplementsService == Service!Spec
=============================================================================
