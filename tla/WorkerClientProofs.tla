------------------------- MODULE WorkerClientProofs -------------------------
(***************************************************************************)
(* Proofs about WorkerClient for every set of calls, with and without a    *)
(* shared cell, and for every range of tokens: type correctness, the       *)
(* inductive invariant IInv of that module, the promises it implies, what  *)
(* may cost a worker, and that every step is one of CompilerService.       *)
(* Each action preserves IInv by a lemma of its own; interrupt, initialize *)
(* and the end of runJob, which several actions share, are lemmas too.     *)
(***************************************************************************)
EXTENDS WorkerClient, TLAPS

-----------------------------------------------------------------------------
(* Facts about the constants.                                              *)

\* The three kinds of names an operation has are told apart from each other
\* and from None, so that cancel points to one thing only.
LEMMA Names ==
  /\ \A o \in Ops : /\ InitOf(o) \in Exchanges /\ Kind(InitOf(o)) = "init" /\ Op(InitOf(o)) = o
                    /\ JobOf(o) \in Exchanges /\ Kind(JobOf(o)) = "job" /\ Op(JobOf(o)) = o
                    /\ WaitOf(o) \in Waits /\ Op(WaitOf(o)) = o
                    /\ InitOf(o) # None /\ JobOf(o) # None /\ WaitOf(o) # None
  /\ \A x \in Exchanges : /\ Op(x) \in Ops /\ Kind(x) \in {"init", "job"}
                          /\ Kind(x) = "init" => x = InitOf(Op(x))
                          /\ Kind(x) = "job" => x = JobOf(Op(x))
                          /\ x # None /\ x \notin Waits
  /\ \A w \in Waits : Op(w) \in Ops /\ w = WaitOf(Op(w)) /\ w # None /\ w \notin Exchanges
  /\ None \notin Ops /\ Creation \in Ops /\ Jobs \subseteq Ops /\ Creation \notin Jobs
  /\ \A o \in Ops : o = Creation \/ o \in Jobs
  /\ None \notin Exchanges /\ None \notin Waits
BY ConstantsAssumption DEF Ops, Exchanges, Waits, InitOf, JobOf, WaitOf, Kind, Op

\* nextId yields a token, and never the 0 that cancels nobody.
LEMMA TokenFacts == 0 \in Tokens /\ \A n \in Tokens : NextId(n) \in Tokens /\ NextId(n) # 0
BY ConstantsAssumption DEF Tokens, NextId


-----------------------------------------------------------------------------
(* Steps that actions share.                                               *)

\* An active operation that moves to another of its phases leaves it the only
\* active one.
LEMMA OneActiveMove ==
  ASSUME TypeOK, OneActive, NEW o \in Ops, Active(o), NEW p, p \notin {"idle", "returned"},
         phase' = [phase EXCEPT ![o] = p], busy' = busy,
         NEW q, outcome' = outcome \/ outcome' = [outcome EXCEPT ![o] = q]
  PROVE  OneActive'
<1>1. \A j \in Ops : phase'[j] = IF j = o THEN p ELSE phase[j]
  BY DEF TypeOK
<1>2. \A j \in Ops : j # o => outcome'[j] = outcome[j]
  BY DEF TypeOK
<1>3. \A j \in Ops : Active(j)' <=> Active(j)
  BY <1>1 DEF Active
<1>4. o = Creation => \A j \in Jobs : phase'[j] = "idle"
  BY <1>1, Names DEF OneActive, Active, Created
<1>5. o # Creation => (Created' <=> Created)
  BY <1>1, <1>2, Names DEF Created
<1> QED BY <1>1, <1>3, <1>4, <1>5, Names DEF OneActive, Active

\* The creation before it starts: nothing has happened yet.
LEMMA CreationFirst ==
  ASSUME IInv, phase[Creation] = "idle"
  PROVE  session = None /\ \A j \in Ops : phase[j] = "idle"
<1>1. \A j \in Ops : phase[j] = "idle"
  BY Names DEF IInv, OneActive, Created
<1>2. session # None => session \in Ops
  BY DEF IInv, TypeOK
<1> QED BY <1>1, <1>2 DEF IInv, FreshNames, Unopened, LiveIsSession

\* Where an operation is about to start an exchange, none is open and nothing
\* is pending: the one before it has been answered or waited for.
LEMMA NothingOpen ==
  ASSUME IInv, NEW o \in Ops,
         phase[o] \in {"settled", "ready"} \/ (o = Creation /\ phase[o] = "idle")
  PROVE  /\ cancel = None
         /\ \A y \in Exchanges : ~Open(y)
         /\ \A s \in Ops : settle[s] = None
<1>1. \A p \in Ops : phase[p] \notin {"waiting", "initializing", "exchanging"}
  BY CreationFirst DEF IInv, OneActive, Active
<1>2. \A y \in Exchanges : state[y] # "running"
  BY <1>1, Names DEF IInv, RunningIsAwaited
<1>3. \A y \in Exchanges : state[y] # "stopping"
  BY CreationFirst DEF IInv, NothingElseStopping, OpenInSession, Open
<1>4. \A s \in Ops : settle[s] = None
  BY <1>3 DEF IInv, TypeOK, OpenInSession
<1>5. cancel = None
  BY <1>1, <1>2, Names DEF IInv, TypeOK, CancelIsPending
<1> QED BY <1>2, <1>3, <1>4, <1>5 DEF Open

-----------------------------------------------------------------------------
(* The types.                                                              *)

\* reject, close and stop keep the types of what they change.
LEMMA RejectType ==
  ASSUME TypeOK, NEW x \in Exchanges, NEW why \in Outcomes, Reject(x, why)
  PROVE  /\ phase' \in [Ops -> Suspended \cup Resumable \cup {"idle", "returned"}]
         /\ outcome' \in [Ops -> Outcomes]
BY Names DEF Reject, TypeOK, Resumable

LEMMA CloseType ==
  ASSUME TypeOK, NEW X, CloseStates(X)
  PROVE  /\ state' \in [Exchanges -> {"none", "running", "stopping", "closed"}]
         /\ settle' \in [Ops -> Exchanges \cup {None}]
BY DEF CloseStates, TypeOK

LEMMA StopType ==
  ASSUME TypeOK, NEW s, StopWorker(s)
  PROVE  /\ worker' \in [Ops -> {"none", "live", "terminated"}]
         /\ ready' \in [Ops -> BOOLEAN]
         /\ session' \in Ops \cup {None}
<1>1. worker' = [worker EXCEPT ![s] = "terminated"]
  BY DEF StopWorker
<1>2. ready' = [ready EXCEPT ![s] = FALSE]
  BY DEF StopWorker
<1>3. session' \in Ops \cup {None}
  BY DEF StopWorker, TypeOK
<1> QED BY <1>1, <1>2, <1>3 DEF TypeOK

LEMMA InterruptType ==
  ASSUME TypeOK, NEW x \in Exchanges, NEW why \in Outcomes, NEW timedOut,
         Interrupt(x, why, timedOut),
         UNCHANGED <<disposed, busy, sequence, waitsFor, sess, token, work, engine>>,
         aborted' \in [Ops -> BOOLEAN]
  PROVE  TypeOK'
<1>1. CASE Unreachable(x, timedOut)
  <2>1. Terminate(x, why) /\ UNCHANGED cell
    BY <1>1 DEF Interrupt
  <2>2. cancel' \in Exchanges \cup Waits \cup {None}
    BY <2>1 DEF Terminate, Close, TypeOK
  <2> QED BY <2>1, <2>2, RejectType, CloseType, StopType DEF Terminate, Close, TypeOK
<1>2. CASE ~Unreachable(x, timedOut)
  <2>1. StopGuest(x) /\ Reject(x, why)
    BY <1>2 DEF Interrupt
  <2>2. cancel' \in Exchanges \cup Waits \cup {None}
    BY <2>1 DEF StopGuest, TypeOK
  <2>3. cell' \in [Ops -> Tokens]
    BY <2>1 DEF StopGuest, StoreToken, TypeOK
  <2>4. state' \in [Exchanges -> {"none", "running", "stopping", "closed"}]
    BY <2>1 DEF StopGuest, TypeOK
  <2>5. settle' \in [Ops -> Exchanges \cup {None}]
    BY <2>1 DEF StopGuest, TypeOK
  <2> QED BY <2>1, <2>2, <2>3, <2>4, <2>5, RejectType DEF StopGuest, TypeOK
<1> QED BY <1>1, <1>2

LEMMA AbortType ==
  ASSUME TypeOK, NEW o \in Ops, Abort(o)
  PROVE  TypeOK'
<1>1. aborted' \in [Ops -> BOOLEAN]
  BY DEF Abort, TypeOK
<1>2. CASE Finish(o, "aborted") /\ UNCHANGED <<session, state, worker, ready, settle, cell>>
  BY <1>1, <1>2, Names DEF Abort, Finish, TypeOK, Suspended, Resumable, Outcomes
<1>3. ASSUME NEW x \in Exchanges, Interrupt(x, "aborted", FALSE)
      PROVE  TypeOK'
  BY <1>1, <1>3, InterruptType DEF Abort, Outcomes
<1>4. CASE UNCHANGED <<session, cancel, phase, outcome, state, worker, ready, settle, cell>>
  BY <1>1, <1>4 DEF Abort, TypeOK
<1> QED BY <1>2, <1>3, <1>4 DEF Abort

LEMMA TimerType ==
  ASSUME TypeOK, NEW x \in Exchanges, Timer(x)
  PROVE  TypeOK'
BY InterruptType DEF Timer, Outcomes, Answers, TypeOK

LEMMA DisposeType ==
  ASSUME TypeOK, Dispose
  PROVE  TypeOK'
<1>1. /\ phase' \in [Ops -> Suspended \cup Resumable \cup {"idle", "returned"}]
      /\ outcome' \in [Ops -> Outcomes]
      /\ cancel' \in Exchanges \cup Waits \cup {None}
  <2>1. CASE cancel \in Waits /\ Finish(Op(cancel), "disposed")
    BY <2>1, Names DEF Finish, TypeOK, Resumable, Outcomes
  <2>2. CASE cancel \in Exchanges /\ cancel' = None /\ Reject(cancel, "disposed")
    BY <2>2, RejectType DEF Outcomes
  <2>3. CASE UNCHANGED <<cancel, phase, outcome>>
    BY <2>3 DEF TypeOK
  <2> QED BY <2>1, <2>2, <2>3 DEF Dispose
<1>2. cell' \in [Ops -> Tokens]
  <2>1. CASE cancel \in Exchanges /\ StoreToken(cancel)
    BY <2>1 DEF StoreToken, TypeOK
  <2>2. CASE UNCHANGED cell
    BY <2>2 DEF TypeOK
  <2> QED BY <2>1, <2>2 DEF Dispose
<1>3. /\ state' \in [Exchanges -> {"none", "running", "stopping", "closed"}]
      /\ settle' \in [Ops -> Exchanges \cup {None}]
  BY CloseType DEF Dispose, TypeOK
<1>4. /\ worker' \in [Ops -> {"none", "live", "terminated"}]
      /\ ready' \in [Ops -> BOOLEAN]
      /\ session' \in Ops \cup {None}
  BY StopType DEF Dispose, TypeOK
<1> QED BY <1>1, <1>2, <1>3, <1>4 DEF Dispose, TypeOK

LEMMA AnswerInitType ==
  ASSUME TypeOK, NEW x \in Exchanges, AnswerInit(x)
  PROVE  TypeOK'
<1>1. work' \in [Exchanges -> {"none", "posted", "executing", "delivered"} \cup Answers]
  BY DEF AnswerInit, TypeOK, Answers
<1>2. engine' = engine \/ engine' = [engine EXCEPT ![sess[x]] = TRUE]
  BY DEF AnswerInit
<1>3. engine' \in [Ops -> BOOLEAN]
  BY <1>2 DEF TypeOK
<1> QED BY <1>1, <1>3 DEF AnswerInit, TypeOK, clientVars, callVars

\* exchange, over the session there is or a new one.
LEMMA ExchangeType ==
  ASSUME TypeOK, NEW x \in Exchanges, NEW s \in Ops,
         \/ ExchangePosted(x, s) \/ PostFailed(x, s)
         \/ /\ ExchangeRefused(x)
            /\ session' \in Ops \cup {None}
            /\ worker' = worker \/ worker' = Opened(s)
            /\ sess' = sess \/ sess' = [sess EXCEPT ![x] = s]
  PROVE  TypeOK'
<1>1. Opened(s) \in [Ops -> {"none", "live", "terminated"}]
  BY DEF Opened, TypeOK
<1>2. CASE ExchangePosted(x, s)
  BY <1>1, <1>2, Names, TokenFacts DEF ExchangePosted, Start, TypeOK, Suspended
<1>3. CASE PostFailed(x, s)
  <2>1. /\ sequence' \in Tokens
        /\ token' \in [Exchanges -> Tokens]
        /\ sess' \in [Exchanges -> Ops \cup {None}]
    BY <1>3, TokenFacts DEF PostFailed, Start, TypeOK
  <2> QED BY <1>3, <2>1, RejectType, CloseType, StopType DEF PostFailed, Start, TypeOK, Outcomes
<1>4. CASE /\ ExchangeRefused(x)
           /\ session' \in Ops \cup {None}
           /\ worker' = worker \/ worker' = Opened(s)
           /\ sess' = sess \/ sess' = [sess EXCEPT ![x] = s]
  <2>1. phase' \in [Ops -> Suspended \cup Resumable \cup {"idle", "returned"}]
        /\ outcome' \in [Ops -> Outcomes]
    BY <1>4, RejectType DEF ExchangeRefused, Outcomes
  <2>2. sess' \in [Exchanges -> Ops \cup {None}]
    BY <1>4 DEF TypeOK
  <2> QED BY <1>1, <1>4, <2>1, <2>2 DEF ExchangeRefused, TypeOK
<1> QED BY <1>2, <1>3, <1>4

LEMMA InitializeType ==
  ASSUME TypeOK, NEW o \in Ops, Initialize(o)
  PROVE  TypeOK'
<1>1. Session(o) \in Ops
  BY DEF Session, TypeOK
<1> QED BY <1>1, Names, ExchangeType DEF Initialize

LEMMA SendJobType ==
  ASSUME TypeOK, NEW o \in Ops, SendJob(o)
  PROVE  TypeOK'
<1>1. Session(o) \in Ops
  BY DEF Session, TypeOK
<1>2. CASE /\ Reject(JobOf(o), "timeout")
           /\ UNCHANGED <<clientVars, aborted, waitsFor, exchangeVars, sessionVars>>
  BY <1>2, Names, RejectType DEF TypeOK, Outcomes, Answers, clientVars, exchangeVars, sessionVars
<1>3. CASE ExchangeRefused(JobOf(o)) /\ UNCHANGED <<session, worker, sess>>
  BY <1>1, <1>3, Names, ExchangeType DEF TypeOK
<1>4. CASE ExchangePosted(JobOf(o), Session(o)) \/ PostFailed(JobOf(o), Session(o))
  BY <1>1, <1>4, Names, ExchangeType
<1> QED BY <1>2, <1>3, <1>4 DEF SendJob

\* Every step keeps the types.
LEMMA TypeStep ==
  ASSUME TypeOK, [Next]_vars
  PROVE  TypeOK'
<1>1. CASE Create
  BY <1>1, Names, InitializeType DEF Create
<1>2. ASSUME NEW j \in Jobs, CallRefused(j)
      PROVE  TypeOK'
  BY <1>2, Names
     DEF CallRefused, Refusals, TypeOK, Suspended, Resumable, Answers, Outcomes,
         clientVars, callVars, exchangeVars, sessionVars
<1>3. ASSUME NEW j \in Jobs, CallAccepted(j)
      PROVE  TypeOK'
  BY <1>3, Names
     DEF CallAccepted, Pending, Finish, TypeOK, Suspended, Resumable,
         Answers, Outcomes, clientVars, callVars, exchangeVars, sessionVars
<1>4. ASSUME NEW o \in Ops, Abort(o)
      PROVE  TypeOK'
  BY <1>4, AbortType
<1>5. CASE Dispose
  BY <1>5, DisposeType
<1>6. ASSUME NEW o \in Ops, Wake(o) \/ WaitTimer(o)
      PROVE  TypeOK'
  BY <1>6, Names
     DEF Wake, WaitTimer, Finish, TypeOK, Suspended, Resumable,
         Answers, Outcomes, clientVars, callVars, exchangeVars, sessionVars
<1>7. ASSUME NEW o \in Ops, AfterSettled(o)
      PROVE  TypeOK'
  <2>1. CASE /\ Reject(JobOf(o), "disposed")
             /\ UNCHANGED <<clientVars, aborted, waitsFor, exchangeVars, sessionVars>>
    BY <2>1, Names, RejectType DEF TypeOK, Outcomes, clientVars, exchangeVars, sessionVars
  <2> QED BY <1>7, <2>1, InitializeType, SendJobType DEF AfterSettled
<1>8. ASSUME NEW o \in Ops, AfterInit(o)
      PROVE  TypeOK'
  BY <1>8, Names
     DEF AfterInit, TypeOK, Suspended, Resumable, Answers, Outcomes,
         clientVars, callVars, exchangeVars, sessionVars
<1>9. ASSUME NEW o \in Ops, InitFailed(o)
      PROVE  TypeOK'
  BY <1>9, Names
     DEF InitFailed, Close, CloseStates, Unsettled, StopWorker, Reject,
         TypeOK, Suspended, Resumable, Answers, Outcomes, clientVars, callVars,
         exchangeVars, sessionVars
<1>10. ASSUME NEW o \in Ops, Return(o)
      PROVE  TypeOK'
  BY <1>10, Names
     DEF Return, TypeOK, Suspended, Resumable, Answers, Outcomes,
         clientVars, callVars, exchangeVars, sessionVars
<1>11. ASSUME NEW o \in Ops, AfterReady(o)
      PROVE  TypeOK'
  BY <1>11, SendJobType DEF AfterReady
<1>12. ASSUME NEW x \in Exchanges, Timer(x)
      PROVE  TypeOK'
  BY <1>12, TimerType
<1>13. ASSUME NEW x \in Exchanges, GraceTimer(x)
      PROVE  TypeOK'
  BY <1>13, Names, TokenFacts
     DEF GraceTimer, Close, CloseStates, Unsettled,
         StopWorker, Reject, TypeOK, Suspended, Resumable, Answers, Outcomes,
         clientVars, callVars, exchangeVars, sessionVars
<1>14. ASSUME NEW x \in Exchanges, Fail(x)
      PROVE  TypeOK'
  BY <1>14, Names, TokenFacts
     DEF Fail, Close, CloseStates, Unsettled, StopWorker,
         Reject, TypeOK, Suspended, Resumable, Answers, Outcomes, clientVars, callVars,
         exchangeVars, sessionVars
<1>15. ASSUME NEW x \in Exchanges, Receive(x)
      PROVE  TypeOK'
  BY <1>15, Names, TokenFacts
     DEF Receive, Started, Close, CloseStates, Reject,
         TypeOK, Suspended, Resumable, Answers, Outcomes, clientVars, callVars,
         exchangeVars, sessionVars
<1>16. ASSUME NEW x \in Exchanges, Execute(x) \/ AnswerJob(x)
      PROVE  TypeOK'
  BY <1>16
     DEF Execute, AnswerJob, TypeOK, Suspended, Resumable, Answers, Outcomes,
         clientVars, callVars, exchangeVars, sessionVars
<1>17. ASSUME NEW x \in Exchanges, AnswerInit(x)
      PROVE  TypeOK'
  BY <1>17, AnswerInitType
<1>18. CASE UNCHANGED vars
  BY <1>18
     DEF vars, TypeOK, Suspended, Resumable, Answers, Outcomes, clientVars,
         callVars, exchangeVars, sessionVars
<1> QED BY <1>1, <1>2, <1>3, <1>4, <1>5, <1>6, <1>7, <1>8, <1>9, <1>10, <1>11, <1>12,
          <1>13, <1>14, <1>15, <1>16, <1>17, <1>18, Names
       DEF Next, Caller, Microtask, Task, WorkerThread

-----------------------------------------------------------------------------
(* The inductive invariant, one lemma for each step.                       *)

\* A call that is refused changes nothing but itself.
LEMMA CallRefusedStep ==
  ASSUME IInv, TypeOK', NEW j \in Jobs, CallRefused(j)
  PROVE  IInv'
<1>1. OneActive' /\ RunningIsAwaited' /\ CancelIsPending' /\ LiveIsSession' /\
      OpenInSession' /\ NothingElseStopping' /\ WaitsForExchange' /\
      OutstandingIsOpen' /\ FreshNames' /\ InitKeepsSession' /\ CellInv' /\
      EngineInv'
  BY DEF CallRefused, Refusals, Created, IInv, OneActive, Active, RunningIsAwaited,
         CancelIsPending, LiveIsSession, NoLeakedWorker, OpenInSession, Open,
         NothingElseStopping, WaitsForExchange, OutstandingIsOpen, Outstanding, Answers,
         FreshNames, Unopened, InitKeepsSession, CellInv, CancelStaysVisible, Cancelled,
         EngineInv, JobsFindAnEngine, clientVars, callVars, exchangeVars, sessionVars
<1> QED BY <1>1 DEF IInv

\* A call that is accepted, with or without a wait for the job before it.
LEMMA CallAcceptedStep ==
  ASSUME IInv, TypeOK', NEW j \in Jobs, CallAccepted(j)
  PROVE  IInv'
<1>1. LiveIsSession' /\ OpenInSession' /\ OutstandingIsOpen' /\ CellInv'
  BY DEF CallAccepted, Finish, Created, Pending, IInv, LiveIsSession, NoLeakedWorker,
         OpenInSession, Open, OutstandingIsOpen, Outstanding, Answers, CellInv,
         CancelStaysVisible, Cancelled, clientVars, callVars, exchangeVars, sessionVars
<1>2. OneActive'
  BY Names
     DEF CallAccepted, Finish, Created, Pending, IInv, TypeOK, Suspended, Resumable,
         Answers, Outcomes, OneActive, Active, clientVars, callVars, exchangeVars,
         sessionVars
<1>3. RunningIsAwaited'
  BY DEF CallAccepted, Finish, Created, Pending, IInv, TypeOK, Suspended, Resumable,
         Answers, Outcomes, RunningIsAwaited, clientVars, callVars, exchangeVars,
         sessionVars
<1>4. CancelIsPending'
  BY Names
     DEF CallAccepted, Finish, Created, Pending, IInv, TypeOK, Suspended, Resumable,
         Answers, Outcomes, CancelIsPending, OneActive, Active, RunningIsAwaited,
         clientVars, callVars, exchangeVars, sessionVars
<1>5. NothingElseStopping'
  BY Names
     DEF CallAccepted, Finish, Created, Pending, IInv, TypeOK, Suspended, Resumable,
         Answers, Outcomes, NothingElseStopping, OpenInSession, Open, clientVars,
         callVars, exchangeVars, sessionVars
<1>6. WaitsForExchange'
  BY DEF CallAccepted, Finish, Created, Pending, IInv, TypeOK, Suspended, Resumable,
         Answers, Outcomes, WaitsForExchange, clientVars, callVars, exchangeVars,
         sessionVars
<1>7. FreshNames'
  BY DEF CallAccepted, Finish, Created, Pending, IInv, TypeOK, Suspended, Resumable,
         Answers, Outcomes, FreshNames, Unopened, clientVars, callVars, exchangeVars,
         sessionVars
<1>8. InitKeepsSession'
  BY DEF CallAccepted, Finish, Created, Pending, IInv, TypeOK, Suspended, Resumable,
         Answers, Outcomes, InitKeepsSession, clientVars, callVars, exchangeVars,
         sessionVars
<1>9. EngineInv'
  BY DEF CallAccepted, Finish, Created, Pending, IInv, TypeOK, Suspended, Resumable,
         Answers, Outcomes, EngineInv, JobsFindAnEngine, clientVars, callVars,
         exchangeVars, sessionVars
<1> QED BY <1>1, <1>2, <1>3, <1>4, <1>5, <1>6, <1>7, <1>8, <1>9 DEF IInv

\* finish(why) of a wait, by its signal, its timer or the end it waits for.
LEMMA FinishWaitStep ==
  ASSUME IInv, TypeOK', NEW o \in Ops, NEW why, phase[o] = "waiting", why = "none" => Woken(o), Finish(o, why),
         UNCHANGED <<disposed, busy, session, sequence, waitsFor, exchangeVars, sessionVars>>
  PROVE  IInv'
<1>1. OneActive' /\ RunningIsAwaited' /\ LiveIsSession' /\ OpenInSession' /\
      NothingElseStopping' /\ WaitsForExchange' /\ OutstandingIsOpen' /\
      FreshNames' /\ InitKeepsSession' /\ CellInv' /\ EngineInv'
  BY DEF Finish, Woken, IInv, OneActive, Active, Created, RunningIsAwaited,
         LiveIsSession, NoLeakedWorker, OpenInSession, Open, NothingElseStopping,
         WaitsForExchange, OutstandingIsOpen, Outstanding, Answers, FreshNames,
         Unopened, InitKeepsSession, CellInv, CancelStaysVisible, Cancelled, EngineInv,
         JobsFindAnEngine, clientVars, callVars, exchangeVars, sessionVars
<1>2. CancelIsPending'
  BY Names
     DEF Finish, Woken, IInv, TypeOK, Suspended, Resumable, Answers, Outcomes,
         CancelIsPending, clientVars, callVars, exchangeVars, sessionVars
<1> QED BY <1>1, <1>2 DEF IInv

\* interrupt() of a running exchange, by its signal or its timer.
LEMMA InterruptStep ==
  ASSUME IInv, TypeOK', NEW x \in Exchanges, NEW why, NEW timedOut, Interrupt(x, why, timedOut),
         UNCHANGED <<disposed, busy, sequence, waitsFor, sess, token, work, engine>>
  PROVE  IInv'
<1>1. OneActive'
  <2> DEFINE p == IF Kind(x) = "init" THEN "initFailed" ELSE "unwinding"
  <2>1. /\ phase' = [phase EXCEPT ![Op(x)] = p]
        /\ outcome' = [outcome EXCEPT ![Op(x)] = why]
    BY DEF Interrupt, Reject, Terminate
  <2>2. Op(x) \in Ops /\ Active(Op(x))
    BY Names DEF Interrupt, IInv, RunningIsAwaited, Active
  <2>3. TypeOK /\ OneActive /\ busy' = busy
    BY DEF IInv
  <2>4. p \notin {"idle", "returned"}
    OBVIOUS
  <2> QED BY <2>1, <2>2, <2>3, <2>4, OneActiveMove
<1>2. RunningIsAwaited'
  BY Names
     DEF Interrupt, Unreachable, Terminate, StoreToken, Close, CloseStates, Unsettled,
         StopWorker, Reject, StopGuest, IInv, TypeOK, Suspended, Resumable, Answers,
         Outcomes, RunningIsAwaited, clientVars, callVars, exchangeVars, sessionVars
<1>3. CancelIsPending'
  <2>1. cancel = x
    BY DEF Interrupt, IInv, CancelIsPending
  <2>2. cancel' = None
    BY <2>1 DEF Interrupt, StopGuest, Terminate, Close
  <2>3. \A y \in Exchanges : state'[y] # "running"
    BY <2>1, Names DEF Interrupt, StopGuest, Terminate, Close, CloseStates, IInv, TypeOK, CancelIsPending
  <2>4. phase' = [phase EXCEPT ![Op(x)] = IF Kind(x) = "init" THEN "initFailed" ELSE "unwinding"]
    BY DEF Interrupt, Reject, Terminate
  <2>5. \A o \in Ops : phase'[o] # "waiting"
    BY <2>1, <2>4, Names DEF IInv, TypeOK, CancelIsPending
  <2> QED BY <2>2, <2>3, <2>5, Names DEF CancelIsPending
<1>4. LiveIsSession'
  BY DEF Interrupt, Unreachable, Terminate, StoreToken, Close, CloseStates, Unsettled,
         StopWorker, Reject, StopGuest, IInv, TypeOK, Suspended, Resumable, Answers,
         Outcomes, LiveIsSession, NoLeakedWorker, Created, OpenInSession, Open,
         clientVars, callVars, exchangeVars, sessionVars
<1>5. OpenInSession'
  BY Names
     DEF Interrupt, Unreachable, Terminate, StoreToken, Close, CloseStates, Unsettled,
         StopWorker, Reject, StopGuest, IInv, TypeOK, Suspended, Resumable, Answers,
         Outcomes, OpenInSession, Open, RunningIsAwaited, CancelIsPending,
         NothingElseStopping, clientVars, callVars, exchangeVars, sessionVars
<1>6. NothingElseStopping'
  BY SMTT(30), Names
     DEF Interrupt, Unreachable, Terminate, StoreToken, Close, CloseStates, Unsettled,
         StopWorker, Reject, StopGuest, IInv, TypeOK, Suspended, Resumable, Answers,
         Outcomes, NothingElseStopping, OneActive, Active, Created, RunningIsAwaited,
         clientVars, callVars, exchangeVars, sessionVars
<1>7. WaitsForExchange'
  BY DEF Interrupt, Unreachable, Terminate, StoreToken, Close, CloseStates, Unsettled,
         StopWorker, Reject, StopGuest, IInv, TypeOK, Suspended, Resumable, Answers,
         Outcomes, WaitsForExchange, clientVars, callVars, exchangeVars, sessionVars
<1>8. OutstandingIsOpen'
  BY DEF Interrupt, Unreachable, Terminate, StoreToken, Close, CloseStates, Unsettled,
         StopWorker, Reject, StopGuest, IInv, TypeOK, Suspended, Resumable, Answers,
         Outcomes, OutstandingIsOpen, Outstanding, Open, OpenInSession, clientVars,
         callVars, exchangeVars, sessionVars
<1>9. FreshNames'
  BY DEF Interrupt, Unreachable, Terminate, StoreToken, Close, CloseStates, Unsettled,
         StopWorker, Reject, StopGuest, IInv, TypeOK, Suspended, Resumable, Answers,
         Outcomes, FreshNames, Unopened, clientVars, callVars, exchangeVars, sessionVars
<1>10. InitKeepsSession'
  BY Names
     DEF Interrupt, Unreachable, Terminate, StoreToken, Close, CloseStates, Unsettled,
         StopWorker, Reject, StopGuest, IInv, TypeOK, Suspended, Resumable, Answers,
         Outcomes, InitKeepsSession, OneActive, Active, Created, OpenInSession, Open,
         RunningIsAwaited, clientVars, callVars, exchangeVars, sessionVars
<1>11. CellInv'
  BY Names
     DEF Interrupt, Unreachable, Terminate, StoreToken, Close, CloseStates, Unsettled,
         StopWorker, Reject, StopGuest, IInv, TypeOK, Suspended, Resumable, Answers,
         Outcomes, RunningIsAwaited, OpenInSession, Open, NothingElseStopping, CellInv,
         CancelStaysVisible, Cancelled, clientVars, callVars, exchangeVars, sessionVars
<1>12. EngineInv'
  BY DEF Interrupt, Unreachable, Terminate, StoreToken, Close, CloseStates, Unsettled,
         StopWorker, Reject, StopGuest, IInv, TypeOK, Suspended, Resumable, Answers,
         Outcomes, EngineInv, JobsFindAnEngine, clientVars, callVars, exchangeVars,
         sessionVars
<1> QED BY <1>1, <1>2, <1>3, <1>4, <1>5, <1>6, <1>7, <1>8, <1>9, <1>10, <1>11, <1>12 DEF IInv

\* dispose() rejects the pending operation and stops the session.
LEMMA DisposeStep ==
  ASSUME IInv, TypeOK', Dispose
  PROVE  IInv'
<1>1. OneActive'
  <2>1. TypeOK /\ OneActive /\ busy' = busy
    BY DEF IInv, Dispose
  <2>2. CASE cancel \in Waits /\ Finish(Op(cancel), "disposed")
    <3>1. Op(cancel) \in Ops /\ Active(Op(cancel))
      BY <2>2, Names DEF IInv, CancelIsPending, Active
    <3>2. /\ phase' = [phase EXCEPT ![Op(cancel)] = "unwinding"]
          /\ outcome' = [outcome EXCEPT ![Op(cancel)] = "disposed"]
      BY <2>2 DEF Finish
    <3> QED BY <2>1, <3>1, <3>2, OneActiveMove
  <2>3. CASE cancel \in Exchanges /\ Reject(cancel, "disposed")
    <3> DEFINE p == IF Kind(cancel) = "init" THEN "initFailed" ELSE "unwinding"
    <3>1. Op(cancel) \in Ops /\ Active(Op(cancel))
      BY <2>3, Names DEF IInv, CancelIsPending, RunningIsAwaited, Active
    <3>2. /\ phase' = [phase EXCEPT ![Op(cancel)] = p]
          /\ outcome' = [outcome EXCEPT ![Op(cancel)] = "disposed"]
      BY <2>3 DEF Reject
    <3>3. p \notin {"idle", "returned"}
      OBVIOUS
    <3> QED BY <2>1, <3>1, <3>2, <3>3, OneActiveMove
  <2>4. CASE UNCHANGED <<phase, outcome>>
    BY <2>1, <2>4 DEF OneActive, Active, Created
  <2> QED BY <2>2, <2>3, <2>4 DEF Dispose
<1>2. RunningIsAwaited'
  BY Names
     DEF Dispose, Finish, Unreachable, StoreToken, Created, Close, CloseStates,
         Unsettled, StopWorker, Reject, IInv, TypeOK, Suspended, Resumable, Answers,
         Outcomes, RunningIsAwaited, CancelIsPending, OpenInSession, Open, clientVars,
         callVars, exchangeVars, sessionVars
<1>3. CancelIsPending'
  BY Names
     DEF Dispose, Finish, Unreachable, StoreToken, Created, Close, CloseStates,
         Unsettled, StopWorker, Reject, IInv, TypeOK, Suspended, Resumable, Answers,
         Outcomes, CancelIsPending, OpenInSession, Open, clientVars, callVars,
         exchangeVars, sessionVars
<1>4. LiveIsSession'
  BY Names
     DEF Dispose, Finish, Unreachable, StoreToken, Created, Close, CloseStates,
         Unsettled, StopWorker, Reject, IInv, TypeOK, Suspended, Resumable, Answers,
         Outcomes, RunningIsAwaited, CancelIsPending, LiveIsSession, NoLeakedWorker,
         clientVars, callVars, exchangeVars, sessionVars
<1>5. OpenInSession'
  BY DEF Dispose, Finish, Unreachable, StoreToken, Created, Close, CloseStates,
         Unsettled, StopWorker, Reject, IInv, TypeOK, Suspended, Resumable, Answers,
         Outcomes, OpenInSession, Open, CancelIsPending, clientVars, callVars,
         exchangeVars, sessionVars
<1>6. NothingElseStopping'
  BY DEF Dispose, Finish, Unreachable, StoreToken, Created, Close, CloseStates,
         Unsettled, StopWorker, Reject, IInv, NothingElseStopping, OpenInSession, Open,
         clientVars, callVars, exchangeVars, sessionVars
<1>7. WaitsForExchange'
  BY DEF Dispose, Finish, Unreachable, StoreToken, Created, Close, CloseStates,
         Unsettled, StopWorker, Reject, IInv, TypeOK, Suspended, Resumable, Answers,
         Outcomes, WaitsForExchange, clientVars, callVars, exchangeVars, sessionVars
<1>8. OutstandingIsOpen'
  BY DEF Dispose, Finish, Unreachable, StoreToken, Created, Close, CloseStates,
         Unsettled, StopWorker, Reject, IInv, TypeOK, Suspended, Resumable, Answers,
         Outcomes, OutstandingIsOpen, Outstanding, Open, LiveIsSession, NoLeakedWorker,
         clientVars, callVars, exchangeVars, sessionVars
<1>9. FreshNames'
  BY DEF Dispose, Finish, Unreachable, StoreToken, Created, Close, CloseStates,
         Unsettled, StopWorker, Reject, IInv, TypeOK, Suspended, Resumable, Answers,
         Outcomes, FreshNames, Unopened, LiveIsSession, NoLeakedWorker, clientVars,
         callVars, exchangeVars, sessionVars
<1>10. InitKeepsSession'
  BY Names
     DEF Dispose, Finish, Unreachable, StoreToken, Created, Close, CloseStates,
         Unsettled, StopWorker, Reject, IInv, TypeOK, Suspended, Resumable, Answers,
         Outcomes, CancelIsPending, OpenInSession, Open, InitKeepsSession, clientVars,
         callVars, exchangeVars, sessionVars
<1>11. CellInv'
  BY DEF Dispose, Finish, Unreachable, StoreToken, Created, Close, CloseStates,
         Unsettled, StopWorker, Reject, IInv, CellInv, CancelStaysVisible, Cancelled,
         Open, OpenInSession, clientVars, callVars, exchangeVars, sessionVars
<1>12. EngineInv'
  BY DEF Dispose, Finish, Unreachable, StoreToken, Created, Close, CloseStates,
         Unsettled, StopWorker, Reject, IInv, TypeOK, Suspended, Resumable, Answers,
         Outcomes, EngineInv, JobsFindAnEngine, clientVars, callVars, exchangeVars,
         sessionVars
<1> QED BY <1>1, <1>2, <1>3, <1>4, <1>5, <1>6, <1>7, <1>8, <1>9, <1>10, <1>11, <1>12 DEF IInv

\* The session becomes ready.
LEMMA AfterInitStep ==
  ASSUME IInv, TypeOK', NEW o \in Ops, AfterInit(o)
  PROVE  IInv'
<1>1. OpenInSession' /\ NothingElseStopping' /\ OutstandingIsOpen' /\ CellInv'
  BY DEF AfterInit, IInv, OpenInSession, Open, NothingElseStopping, OutstandingIsOpen,
         Outstanding, Answers, CellInv, CancelStaysVisible, Cancelled, clientVars,
         callVars, exchangeVars, sessionVars
<1>2. OneActive'
  BY Names, TokenFacts
     DEF AfterInit, IInv, TypeOK, Suspended, Resumable, Answers, Outcomes, OneActive,
         Active, Created, RunningIsAwaited, clientVars, callVars, exchangeVars,
         sessionVars
<1>3. RunningIsAwaited'
  BY DEF AfterInit, IInv, TypeOK, Suspended, Resumable, Answers, Outcomes,
         RunningIsAwaited, clientVars, callVars, exchangeVars, sessionVars
<1>4. CancelIsPending'
  BY DEF AfterInit, IInv, TypeOK, Suspended, Resumable, Answers, Outcomes,
         CancelIsPending, clientVars, callVars, exchangeVars, sessionVars
<1>5. LiveIsSession'
  BY Names
     DEF AfterInit, IInv, TypeOK, Suspended, Resumable, Answers, Outcomes,
         LiveIsSession, NoLeakedWorker, Created, clientVars, callVars, exchangeVars,
         sessionVars
<1>6. WaitsForExchange'
  BY DEF AfterInit, IInv, TypeOK, Suspended, Resumable, Answers, Outcomes,
         WaitsForExchange, clientVars, callVars, exchangeVars, sessionVars
<1>7. FreshNames'
  BY Names
     DEF AfterInit, IInv, TypeOK, Suspended, Resumable, Answers, Outcomes, FreshNames,
         Unopened, clientVars, callVars, exchangeVars, sessionVars
<1>8. InitKeepsSession'
  BY DEF AfterInit, IInv, TypeOK, Suspended, Resumable, Answers, Outcomes,
         InitKeepsSession, clientVars, callVars, exchangeVars, sessionVars
<1>9. EngineInv'
  BY DEF AfterInit, IInv, TypeOK, Suspended, Resumable, Answers, Outcomes, EngineInv,
         JobsFindAnEngine, clientVars, callVars, exchangeVars, sessionVars
<1> QED BY <1>1, <1>2, <1>3, <1>4, <1>5, <1>6, <1>7, <1>8, <1>9 DEF IInv

\* A worker that failed to start is stopped.
LEMMA InitFailedStep ==
  ASSUME IInv, TypeOK', NEW o \in Ops, InitFailed(o)
  PROVE  IInv'
<1>1. OneActive' /\ CancelIsPending' /\ NothingElseStopping' /\ WaitsForExchange' /\
      EngineInv'
  BY DEF InitFailed, Close, CloseStates, Unsettled, StopWorker, Reject, IInv, OneActive,
         Active, Created, CancelIsPending, NothingElseStopping, WaitsForExchange,
         EngineInv, JobsFindAnEngine, clientVars, callVars, exchangeVars, sessionVars
<1>2. RunningIsAwaited'
  BY Names
     DEF InitFailed, Close, CloseStates, Unsettled, StopWorker, Reject, IInv,
         RunningIsAwaited, clientVars, callVars, exchangeVars, sessionVars
<1>3. LiveIsSession'
  BY DEF InitFailed, Close, CloseStates, Unsettled, StopWorker, Reject, IInv, TypeOK,
         Suspended, Resumable, Answers, Outcomes, LiveIsSession, NoLeakedWorker,
         Created, clientVars, callVars, exchangeVars, sessionVars
<1>4. OpenInSession'
  BY Names, TokenFacts
     DEF InitFailed, Close, CloseStates, Unsettled, StopWorker, Reject, IInv, TypeOK,
         Suspended, Resumable, Answers, Outcomes, OpenInSession, Open, RunningIsAwaited,
         OneActive, Active, Created, clientVars, callVars, exchangeVars, sessionVars
<1>5. OutstandingIsOpen'
  BY Names
     DEF InitFailed, Close, CloseStates, Unsettled, StopWorker, Reject, IInv, TypeOK,
         Suspended, Resumable, Answers, Outcomes, OutstandingIsOpen, Outstanding, Open,
         OpenInSession, clientVars, callVars, exchangeVars, sessionVars
<1>6. FreshNames'
  BY Names
     DEF InitFailed, Close, CloseStates, Unsettled, StopWorker, Reject, IInv,
         FreshNames, Unopened, clientVars, callVars, exchangeVars, sessionVars
<1>7. InitKeepsSession'
  BY DEF InitFailed, Close, CloseStates, Unsettled, StopWorker, Reject, IInv,
         InitKeepsSession, OneActive, Active, Created, clientVars, callVars,
         exchangeVars, sessionVars
<1>8. CellInv'
  BY DEF InitFailed, Close, CloseStates, Unsettled, StopWorker, Reject, IInv, TypeOK,
         Suspended, Resumable, Answers, Outcomes, CellInv, CancelStaysVisible,
         Cancelled, Open, OpenInSession, clientVars, callVars, exchangeVars, sessionVars
<1> QED BY <1>1, <1>2, <1>3, <1>4, <1>5, <1>6, <1>7, <1>8 DEF IInv

\* A call returns and the client is free.
LEMMA ReturnStep ==
  ASSUME IInv, TypeOK', NEW o \in Ops, Return(o)
  PROVE  IInv'
<1>1. RunningIsAwaited' /\ CancelIsPending' /\ LiveIsSession' /\ OpenInSession' /\
      NothingElseStopping' /\ WaitsForExchange' /\ OutstandingIsOpen' /\
      FreshNames' /\ InitKeepsSession' /\ CellInv' /\ EngineInv'
  BY DEF Return, IInv, RunningIsAwaited, CancelIsPending, LiveIsSession, NoLeakedWorker,
         Created, OpenInSession, Open, NothingElseStopping, WaitsForExchange,
         OutstandingIsOpen, Outstanding, Answers, FreshNames, Unopened,
         InitKeepsSession, CellInv, CancelStaysVisible, Cancelled, EngineInv,
         JobsFindAnEngine, clientVars, callVars, exchangeVars, sessionVars
<1>2. OneActive'
  BY Names
     DEF Return, IInv, TypeOK, Suspended, Resumable, Answers, Outcomes, OneActive,
         Active, Created, clientVars, callVars, exchangeVars, sessionVars
<1> QED BY <1>1, <1>2 DEF IInv

\* A cancelled job that does not report costs its worker.
LEMMA GraceTimerStep ==
  ASSUME IInv, TypeOK', NEW x \in Exchanges, GraceTimer(x)
  PROVE  IInv'
<1>1. OneActive' /\ CancelIsPending' /\ NothingElseStopping' /\ WaitsForExchange' /\
      FreshNames' /\ InitKeepsSession' /\ EngineInv'
  BY DEF GraceTimer, Drained, Resumable, Close, CloseStates, Unsettled, StopWorker,
         Reject, IInv, OneActive, Active, Created, CancelIsPending, NothingElseStopping,
         WaitsForExchange, FreshNames, Unopened, InitKeepsSession, EngineInv,
         JobsFindAnEngine, clientVars, callVars, exchangeVars, sessionVars
<1>2. RunningIsAwaited'
  BY Names
     DEF GraceTimer, Drained, Resumable, Close, CloseStates, Unsettled, StopWorker,
         Reject, IInv, RunningIsAwaited, clientVars, callVars, exchangeVars, sessionVars
<1>3. LiveIsSession'
  BY DEF GraceTimer, Drained, Resumable, Close, CloseStates, Unsettled, StopWorker,
         Reject, IInv, TypeOK, Suspended, Answers, Outcomes, LiveIsSession,
         NoLeakedWorker, Created, clientVars, callVars, exchangeVars, sessionVars
<1>4. OpenInSession'
  BY Names
     DEF GraceTimer, Drained, Resumable, Close, CloseStates, Unsettled, StopWorker,
         Reject, IInv, OpenInSession, Open, RunningIsAwaited, NothingElseStopping,
         clientVars, callVars, exchangeVars, sessionVars
<1>5. OutstandingIsOpen'
  BY DEF GraceTimer, Drained, Resumable, Close, CloseStates, Unsettled, StopWorker,
         Reject, IInv, TypeOK, Suspended, Answers, Outcomes, OutstandingIsOpen,
         Outstanding, Open, OpenInSession, clientVars, callVars, exchangeVars,
         sessionVars
<1>6. CellInv'
  BY DEF GraceTimer, Drained, Resumable, Close, CloseStates, Unsettled, StopWorker,
         Reject, IInv, CellInv, CancelStaysVisible, Cancelled, Open, OpenInSession,
         clientVars, callVars, exchangeVars, sessionVars
<1> QED BY <1>1, <1>2, <1>3, <1>4, <1>5, <1>6 DEF IInv

\* A failing worker is stopped, whatever its exchange was doing.
LEMMA FailStep ==
  ASSUME IInv, TypeOK', NEW x \in Exchanges, Fail(x)
  PROVE  IInv'
<1>1. OneActive'
  BY Names
     DEF Fail, Drained, Resumable, Close, CloseStates, Unsettled, StopWorker, Reject,
         IInv, TypeOK, Suspended, Answers, Outcomes, OneActive, Active, Created,
         RunningIsAwaited, CancelIsPending, InitKeepsSession, clientVars, callVars,
         exchangeVars, sessionVars
<1>2. RunningIsAwaited'
  BY Names
     DEF Fail, Drained, Resumable, Close, CloseStates, Unsettled, StopWorker, Reject,
         IInv, TypeOK, Suspended, Answers, Outcomes, RunningIsAwaited, clientVars,
         callVars, exchangeVars, sessionVars
<1>3. CancelIsPending'
  BY Names
     DEF Fail, Drained, Resumable, Close, CloseStates, Unsettled, StopWorker, Reject,
         IInv, TypeOK, Suspended, Answers, Outcomes, CancelIsPending, clientVars,
         callVars, exchangeVars, sessionVars
<1>4. LiveIsSession'
  BY DEF Fail, Drained, Resumable, Close, CloseStates, Unsettled, StopWorker, Reject,
         IInv, TypeOK, Suspended, Answers, Outcomes, LiveIsSession, NoLeakedWorker,
         Created, OpenInSession, Open, clientVars, callVars, exchangeVars, sessionVars
<1>5. OpenInSession'
  BY Names
     DEF Fail, Drained, Resumable, Close, CloseStates, Unsettled, StopWorker, Reject,
         IInv, TypeOK, Suspended, Answers, Outcomes, OpenInSession, Open,
         RunningIsAwaited, NothingElseStopping, OneActive, Active, Created, clientVars,
         callVars, exchangeVars, sessionVars
<1>6. NothingElseStopping'
  BY Names
     DEF Fail, Drained, Resumable, Close, CloseStates, Unsettled, StopWorker, Reject,
         IInv, NothingElseStopping, RunningIsAwaited, clientVars, callVars,
         exchangeVars, sessionVars
<1>7. WaitsForExchange'
  BY DEF Fail, Drained, Resumable, Close, CloseStates, Unsettled, StopWorker, Reject,
         IInv, TypeOK, Suspended, Answers, Outcomes, WaitsForExchange, clientVars,
         callVars, exchangeVars, sessionVars
<1>8. OutstandingIsOpen'
  BY DEF Fail, Drained, Resumable, Close, CloseStates, Unsettled, StopWorker, Reject,
         IInv, TypeOK, Suspended, Answers, Outcomes, OutstandingIsOpen, Outstanding,
         Open, OpenInSession, clientVars, callVars, exchangeVars, sessionVars
<1>9. FreshNames'
  BY DEF Fail, Drained, Resumable, Close, CloseStates, Unsettled, StopWorker, Reject,
         IInv, TypeOK, Suspended, Answers, Outcomes, FreshNames, Unopened, clientVars,
         callVars, exchangeVars, sessionVars
<1>10. InitKeepsSession'
  BY Names
     DEF Fail, Drained, Resumable, Close, CloseStates, Unsettled, StopWorker, Reject,
         IInv, TypeOK, Suspended, Answers, Outcomes, InitKeepsSession, clientVars,
         callVars, exchangeVars, sessionVars
<1>11. CellInv'
  BY DEF Fail, Drained, Resumable, Close, CloseStates, Unsettled, StopWorker, Reject,
         IInv, CellInv, CancelStaysVisible, Cancelled, Open, OpenInSession, clientVars,
         callVars, exchangeVars, sessionVars
<1>12. EngineInv'
  BY DEF Fail, Drained, Resumable, Close, CloseStates, Unsettled, StopWorker, Reject,
         IInv, TypeOK, Suspended, Answers, Outcomes, EngineInv, JobsFindAnEngine,
         clientVars, callVars, exchangeVars, sessionVars
<1> QED BY <1>1, <1>2, <1>3, <1>4, <1>5, <1>6, <1>7, <1>8, <1>9, <1>10, <1>11, <1>12 DEF IInv

\* A reply closes its exchange, and a late one resets the cell.
LEMMA ReceiveStep ==
  ASSUME IInv, TypeOK', NEW x \in Exchanges, Receive(x)
  PROVE  IInv'
<1>1. OneActive'
  BY SMTT(60), Names, TokenFacts
     DEF Receive, Drained, Resumable, Close, CloseStates, Reject, Started, IInv, TypeOK,
         Suspended, Answers, Outcomes, OneActive, Active, Created, RunningIsAwaited,
         CancelIsPending, LiveIsSession, NoLeakedWorker, OpenInSession, Open,
         NothingElseStopping, FreshNames, Unopened, clientVars, callVars, exchangeVars,
         sessionVars
<1>2. RunningIsAwaited'
  BY Names
     DEF Receive, Drained, Resumable, Close, CloseStates, Reject, Started, IInv, TypeOK,
         Suspended, Answers, Outcomes, RunningIsAwaited, clientVars, callVars,
         exchangeVars, sessionVars
<1>3. CancelIsPending'
  BY Names
     DEF Receive, Drained, Resumable, Close, CloseStates, Reject, Started, IInv, TypeOK,
         Suspended, Answers, Outcomes, CancelIsPending, clientVars, callVars,
         exchangeVars, sessionVars
<1>4. LiveIsSession'
  BY DEF Receive, Drained, Resumable, Close, CloseStates, Reject, Started, IInv,
         LiveIsSession, NoLeakedWorker, Created, OpenInSession, Open, clientVars,
         callVars, exchangeVars, sessionVars
<1>5. OpenInSession'
  BY DEF Receive, Drained, Resumable, Close, CloseStates, Reject, Started, IInv, TypeOK,
         Suspended, Answers, Outcomes, OpenInSession, Open, clientVars, callVars,
         exchangeVars, sessionVars
<1>6. NothingElseStopping'
  BY Names
     DEF Receive, Drained, Resumable, Close, CloseStates, Reject, Started, IInv,
         NothingElseStopping, RunningIsAwaited, clientVars, callVars, exchangeVars,
         sessionVars
<1>7. WaitsForExchange'
  BY DEF Receive, Drained, Resumable, Close, CloseStates, Reject, Started, IInv, TypeOK,
         Suspended, Answers, Outcomes, WaitsForExchange, clientVars, callVars,
         exchangeVars, sessionVars
<1>8. OutstandingIsOpen'
  BY DEF Receive, Drained, Resumable, Close, CloseStates, Reject, Started, IInv, TypeOK,
         Suspended, Answers, Outcomes, OutstandingIsOpen, Outstanding, Open, clientVars,
         callVars, exchangeVars, sessionVars
<1>9. FreshNames'
  BY DEF Receive, Drained, Resumable, Close, CloseStates, Reject, Started, IInv, TypeOK,
         Suspended, Answers, Outcomes, FreshNames, Unopened, clientVars, callVars,
         exchangeVars, sessionVars
<1>10. InitKeepsSession'
  BY Names
     DEF Receive, Drained, Resumable, Close, CloseStates, Reject, Started, IInv, TypeOK,
         Suspended, Answers, Outcomes, InitKeepsSession, OpenInSession, Open,
         clientVars, callVars, exchangeVars, sessionVars
<1>11. CellInv'
  BY DEF Receive, Drained, Resumable, Close, CloseStates, Reject, Started, IInv, TypeOK,
         Suspended, Answers, Outcomes, CellInv, CancelStaysVisible, Cancelled, Open,
         OpenInSession, clientVars, callVars, exchangeVars, sessionVars
<1>12. EngineInv'
  BY Names
     DEF Receive, Drained, Resumable, Close, CloseStates, Reject, Started, IInv, TypeOK,
         Suspended, Answers, Outcomes, EngineInv, JobsFindAnEngine, clientVars,
         callVars, exchangeVars, sessionVars
<1> QED BY <1>1, <1>2, <1>3, <1>4, <1>5, <1>6, <1>7, <1>8, <1>9, <1>10, <1>11, <1>12 DEF IInv

\* A worker takes up a message.
LEMMA ExecuteStep ==
  ASSUME IInv, TypeOK', NEW x \in Exchanges, Execute(x)
  PROVE  IInv'
<1>1. OneActive' /\ RunningIsAwaited' /\ CancelIsPending' /\ LiveIsSession' /\
      OpenInSession' /\ NothingElseStopping' /\ WaitsForExchange' /\
      OutstandingIsOpen' /\ FreshNames' /\ InitKeepsSession' /\ CellInv' /\
      EngineInv'
  BY DEF Execute, IInv, OneActive, Active, Created, RunningIsAwaited, CancelIsPending,
         LiveIsSession, NoLeakedWorker, OpenInSession, Open, NothingElseStopping,
         WaitsForExchange, OutstandingIsOpen, Outstanding, Answers, FreshNames,
         Unopened, InitKeepsSession, CellInv, CancelStaysVisible, Cancelled, EngineInv,
         JobsFindAnEngine, clientVars, callVars, exchangeVars, sessionVars
<1> QED BY <1>1 DEF IInv

\* A worker answers start-up.
LEMMA AnswerInitStep ==
  ASSUME IInv, TypeOK', NEW x \in Exchanges, AnswerInit(x)
  PROVE  IInv'
<1>1. OneActive' /\ RunningIsAwaited' /\ CancelIsPending' /\ LiveIsSession' /\
      OpenInSession' /\ NothingElseStopping' /\ WaitsForExchange' /\
      OutstandingIsOpen' /\ FreshNames' /\ InitKeepsSession' /\ CellInv'
  BY DEF AnswerInit, IInv, OneActive, Active, Created, RunningIsAwaited,
         CancelIsPending, LiveIsSession, NoLeakedWorker, OpenInSession, Open,
         NothingElseStopping, WaitsForExchange, OutstandingIsOpen, Outstanding, Answers,
         FreshNames, Unopened, InitKeepsSession, CellInv, CancelStaysVisible, Cancelled,
         clientVars, callVars, exchangeVars, sessionVars
<1>2. EngineInv'
  BY DEF AnswerInit, IInv, TypeOK, Suspended, Resumable, Answers, Outcomes, EngineInv,
         JobsFindAnEngine, clientVars, callVars, exchangeVars, sessionVars
<1> QED BY <1>1, <1>2 DEF IInv

\* A worker answers a job.
LEMMA AnswerJobStep ==
  ASSUME IInv, TypeOK', NEW x \in Exchanges, AnswerJob(x)
  PROVE  IInv'
<1>1. OneActive' /\ RunningIsAwaited' /\ CancelIsPending' /\ LiveIsSession' /\
      OpenInSession' /\ NothingElseStopping' /\ WaitsForExchange' /\
      OutstandingIsOpen' /\ FreshNames' /\ InitKeepsSession' /\ EngineInv'
  BY DEF AnswerJob, IInv, OneActive, Active, Created, RunningIsAwaited, CancelIsPending,
         LiveIsSession, NoLeakedWorker, OpenInSession, Open, NothingElseStopping,
         WaitsForExchange, OutstandingIsOpen, Outstanding, Answers, FreshNames,
         Unopened, InitKeepsSession, EngineInv, JobsFindAnEngine, clientVars, callVars,
         exchangeVars, sessionVars
<1>2. CellInv'
  BY Names
     DEF AnswerJob, IInv, TypeOK, Suspended, Resumable, Answers, Outcomes,
         RunningIsAwaited, OpenInSession, Open, NothingElseStopping, CellInv,
         CancelStaysVisible, Cancelled, clientVars, callVars, exchangeVars, sessionVars
<1> QED BY <1>1, <1>2 DEF IInv

\* runJob finds the client disposed after its wait, or its time used up.
LEMMA DisposedStep ==
  ASSUME IInv, TypeOK', NEW o \in Ops, NEW why, phase[o] \in {"settled", "ready"}, Reject(JobOf(o), why),
         UNCHANGED <<clientVars, waitsFor, exchangeVars, sessionVars>>
  PROVE  IInv'
<1>1. OpenInSession' /\ NothingElseStopping' /\ WaitsForExchange' /\
      OutstandingIsOpen' /\ FreshNames' /\ CellInv' /\ EngineInv'
  BY DEF Reject, IInv, OpenInSession, Open, NothingElseStopping, WaitsForExchange,
         OutstandingIsOpen, Outstanding, Answers, FreshNames, Unopened, CellInv,
         CancelStaysVisible, Cancelled, EngineInv, JobsFindAnEngine, clientVars,
         callVars, exchangeVars, sessionVars
<1>2. OneActive'
  BY Names
     DEF Reject, IInv, OneActive, Active, Created, clientVars, callVars, exchangeVars,
         sessionVars
<1>3. RunningIsAwaited'
  BY Names
     DEF Reject, IInv, RunningIsAwaited, clientVars, callVars, exchangeVars, sessionVars
<1>4. CancelIsPending'
  BY Names
     DEF Reject, IInv, CancelIsPending, clientVars, callVars, exchangeVars, sessionVars
<1>5. LiveIsSession'
  BY Names
     DEF Reject, IInv, LiveIsSession, NoLeakedWorker, Created, clientVars, callVars,
         exchangeVars, sessionVars
<1>6. InitKeepsSession'
  BY Names
     DEF Reject, IInv, InitKeepsSession, clientVars, callVars, exchangeVars, sessionVars
<1> QED BY <1>1, <1>2, <1>3, <1>4, <1>5, <1>6 DEF IInv

\* initialize opens a session whose exchange is refused at once.
LEMMA RefusedInitStep ==
  ASSUME IInv, TypeOK', NEW o \in Ops, phase[o] = "settled" \/ (o = Creation /\ phase[o] = "idle"), ~disposed,
         session # None => ~ready[session], ExchangeRefused(InitOf(o)), session' = Session(o),
         worker' = Opened(Session(o)), sess' = [sess EXCEPT ![InitOf(o)] = Session(o)]
  PROVE  IInv'
<1>1. OneActive'
  BY Names
     DEF ExchangeRefused, Reject, Opened, Session, IInv, OneActive, Active, Created,
         clientVars, callVars, exchangeVars, sessionVars
<1>2. RunningIsAwaited'
  BY Names
     DEF ExchangeRefused, Reject, Opened, Session, IInv, RunningIsAwaited, clientVars,
         callVars, exchangeVars, sessionVars
<1>3. CancelIsPending'
  BY Names
     DEF ExchangeRefused, Reject, Opened, Session, IInv, CancelIsPending, clientVars,
         callVars, exchangeVars, sessionVars
<1>4. LiveIsSession'
  BY Names
     DEF ExchangeRefused, Reject, Opened, Session, IInv, TypeOK, Suspended, Resumable,
         Answers, Outcomes, LiveIsSession, NoLeakedWorker, Created, clientVars,
         callVars, exchangeVars, sessionVars
<1>5. OpenInSession'
  BY NothingOpen
     DEF ExchangeRefused, Reject, Opened, Session, IInv, OpenInSession, Open,
         clientVars, callVars, exchangeVars, sessionVars
<1>6. NothingElseStopping'
  BY CreationFirst
     DEF ExchangeRefused, Reject, Opened, Session, IInv, NothingElseStopping,
         OpenInSession, Open, clientVars, callVars, exchangeVars, sessionVars
<1>7. WaitsForExchange'
  BY DEF ExchangeRefused, Reject, Opened, Session, IInv, WaitsForExchange, clientVars,
         callVars, exchangeVars, sessionVars
<1>8. OutstandingIsOpen'
  BY DEF ExchangeRefused, Reject, Opened, Session, IInv, OutstandingIsOpen, Outstanding,
         Open, Answers, FreshNames, Unopened, clientVars, callVars, exchangeVars,
         sessionVars
<1>9. FreshNames'
  BY Names
     DEF ExchangeRefused, Reject, Opened, Session, IInv, TypeOK, Suspended, Resumable,
         Answers, Outcomes, FreshNames, Unopened, LiveIsSession, NoLeakedWorker,
         Created, clientVars, callVars, exchangeVars, sessionVars
<1>10. InitKeepsSession'
  BY Names
     DEF ExchangeRefused, Reject, Opened, Session, IInv, TypeOK, Suspended, Resumable,
         Answers, Outcomes, InitKeepsSession, clientVars, callVars, exchangeVars,
         sessionVars
<1>11. CellInv'
  BY NothingOpen
     DEF ExchangeRefused, Reject, Opened, Session, IInv, CellInv, CancelStaysVisible,
         Cancelled, Open, FreshNames, Unopened, clientVars, callVars, exchangeVars,
         sessionVars
<1>12. EngineInv'
  BY Names
     DEF ExchangeRefused, Reject, Opened, Session, IInv, EngineInv, JobsFindAnEngine,
         FreshNames, Unopened, clientVars, callVars, exchangeVars, sessionVars
<1> QED BY <1>1, <1>2, <1>3, <1>4, <1>5, <1>6, <1>7, <1>8, <1>9, <1>10, <1>11, <1>12 DEF IInv

\* An exchange is posted.
LEMMA PostedStep ==
  ASSUME IInv, TypeOK', NEW x \in Exchanges, NEW s \in Ops, s = Session(Op(x)), ~disposed,
         phase[Op(x)] \in {"settled", "ready"} \/ (Op(x) = Creation /\ phase[Op(x)] = "idle"),
         Kind(x) = "init" => phase[Op(x)] # "ready" /\ (session # None => ~ready[session]),
         Kind(x) = "job" => session # None /\ ready[session],
         ExchangePosted(x, s)
  PROVE  IInv'
<1>1. WaitsForExchange' /\ InitKeepsSession'
  BY DEF ExchangePosted, Start, Opened, Session, IInv, WaitsForExchange,
         InitKeepsSession, clientVars, callVars, exchangeVars, sessionVars
<1>2. OneActive'
  BY Names
     DEF ExchangePosted, Start, Opened, Session, IInv, OneActive, Active, Created,
         clientVars, callVars, exchangeVars, sessionVars
<1>3. RunningIsAwaited'
  BY Names
     DEF ExchangePosted, Start, Opened, Session, IInv, TypeOK, Suspended, Resumable,
         Answers, Outcomes, RunningIsAwaited, clientVars, callVars, exchangeVars,
         sessionVars
<1>4. CancelIsPending'
  BY Names, NothingOpen
     DEF ExchangePosted, Start, Opened, Session, IInv, TypeOK, Suspended, Resumable,
         Answers, Outcomes, CancelIsPending, clientVars, callVars, exchangeVars,
         sessionVars
<1>5. LiveIsSession'
  BY Names
     DEF ExchangePosted, Start, Opened, Session, IInv, TypeOK, Suspended, Resumable,
         Answers, Outcomes, LiveIsSession, NoLeakedWorker, Created, clientVars,
         callVars, exchangeVars, sessionVars
<1>6. OpenInSession'
  BY Names, NothingOpen
     DEF ExchangePosted, Start, Opened, Session, IInv, TypeOK, Suspended, Resumable,
         Answers, Outcomes, OpenInSession, Open, clientVars, callVars, exchangeVars,
         sessionVars
<1>7. NothingElseStopping'
  BY CreationFirst
     DEF ExchangePosted, Start, Opened, Session, IInv, NothingElseStopping,
         OpenInSession, Open, clientVars, callVars, exchangeVars, sessionVars
<1>8. OutstandingIsOpen'
  BY Names
     DEF ExchangePosted, Start, Opened, Session, IInv, TypeOK, Suspended, Resumable,
         Answers, Outcomes, OutstandingIsOpen, Outstanding, Open, FreshNames, Unopened,
         clientVars, callVars, exchangeVars, sessionVars
<1>9. FreshNames'
  BY Names
     DEF ExchangePosted, Start, Opened, Session, IInv, TypeOK, Suspended, Resumable,
         Answers, Outcomes, FreshNames, Unopened, LiveIsSession, NoLeakedWorker,
         Created, clientVars, callVars, exchangeVars, sessionVars
<1>10. CellInv'
  BY Names, TokenFacts
     DEF ExchangePosted, Start, Opened, Session, IInv, TypeOK, Suspended, Resumable,
         Answers, Outcomes, CellInv, CancelStaysVisible, Cancelled, Open, FreshNames,
         Unopened, clientVars, callVars, exchangeVars, sessionVars
<1>11. EngineInv'
  BY Names
     DEF ExchangePosted, Start, Opened, Session, IInv, TypeOK, Suspended, Resumable,
         Answers, Outcomes, EngineInv, JobsFindAnEngine, clientVars, callVars,
         exchangeVars, sessionVars
<1> QED BY <1>1, <1>2, <1>3, <1>4, <1>5, <1>6, <1>7, <1>8, <1>9, <1>10, <1>11 DEF IInv

\* An exchange cannot be posted, and its worker is terminated.
LEMMA PostFailedStep ==
  ASSUME IInv, TypeOK', NEW x \in Exchanges, NEW s \in Ops, s = Session(Op(x)), ~disposed,
         phase[Op(x)] \in {"settled", "ready"} \/ (Op(x) = Creation /\ phase[Op(x)] = "idle"),
         Kind(x) = "init" => phase[Op(x)] # "ready" /\ (session # None => ~ready[session]),
         Kind(x) = "job" => session # None /\ ready[session],
         PostFailed(x, s)
  PROVE  IInv'
<1>1. WaitsForExchange' /\ CellInv'
  BY DEF PostFailed, Start, Session, CloseStates, Unsettled, StopWorker, Reject, IInv,
         WaitsForExchange, CellInv, CancelStaysVisible, Cancelled, Open, clientVars,
         callVars, exchangeVars, sessionVars
<1>2. OneActive'
  BY Names
     DEF PostFailed, Start, Session, CloseStates, Unsettled, StopWorker, Reject, IInv,
         OneActive, Active, Created, clientVars, callVars, exchangeVars, sessionVars
<1>3. RunningIsAwaited'
  BY Names
     DEF PostFailed, Start, Session, CloseStates, Unsettled, StopWorker, Reject, IInv,
         RunningIsAwaited, clientVars, callVars, exchangeVars, sessionVars
<1>4. CancelIsPending'
  BY Names, NothingOpen
     DEF PostFailed, Start, Session, CloseStates, Unsettled, StopWorker, Reject, IInv,
         CancelIsPending, clientVars, callVars, exchangeVars, sessionVars
<1>5. LiveIsSession'
  BY DEF PostFailed, Start, Session, CloseStates, Unsettled, StopWorker, Reject, IInv,
         TypeOK, Suspended, Resumable, Answers, Outcomes, LiveIsSession, NoLeakedWorker,
         Created, clientVars, callVars, exchangeVars, sessionVars
<1>6. OpenInSession'
  BY Names, NothingOpen
     DEF PostFailed, Start, Session, CloseStates, Unsettled, StopWorker, Reject, IInv,
         OpenInSession, Open, clientVars, callVars, exchangeVars, sessionVars
<1>7. NothingElseStopping'
  BY DEF PostFailed, Start, Session, CloseStates, Unsettled, StopWorker, Reject, IInv,
         NothingElseStopping, OpenInSession, Open, clientVars, callVars, exchangeVars,
         sessionVars
<1>8. OutstandingIsOpen'
  BY NothingOpen
     DEF PostFailed, Start, Session, CloseStates, Unsettled, StopWorker, Reject, IInv,
         TypeOK, Suspended, Resumable, Answers, Outcomes, OutstandingIsOpen,
         Outstanding, Open, clientVars, callVars, exchangeVars, sessionVars
<1>9. FreshNames'
  BY DEF PostFailed, Start, Session, CloseStates, Unsettled, StopWorker, Reject, IInv,
         TypeOK, Suspended, Resumable, Answers, Outcomes, FreshNames, Unopened,
         LiveIsSession, NoLeakedWorker, Created, clientVars, callVars, exchangeVars,
         sessionVars
<1>10. InitKeepsSession'
  BY Names
     DEF PostFailed, Start, Session, CloseStates, Unsettled, StopWorker, Reject, IInv,
         TypeOK, Suspended, Resumable, Answers, Outcomes, InitKeepsSession, OneActive,
         Active, Created, clientVars, callVars, exchangeVars, sessionVars
<1>11. EngineInv'
  BY Names
     DEF PostFailed, Start, Session, CloseStates, Unsettled, StopWorker, Reject, IInv,
         EngineInv, JobsFindAnEngine, FreshNames, Unopened, clientVars, callVars,
         exchangeVars, sessionVars
<1> QED BY <1>1, <1>2, <1>3, <1>4, <1>5, <1>6, <1>7, <1>8, <1>9, <1>10, <1>11 DEF IInv

-----------------------------------------------------------------------------
(* Invariance.                                                             *)

\* Before anything happens.
LEMMA InitIInv == Init => IInv
<1> SUFFICES ASSUME Init
             PROVE  IInv
  OBVIOUS
<1>1. TypeOK
  BY Names, TokenFacts DEF Init, TypeOK, Suspended, Resumable, Answers, Outcomes
<1>2. OneActive
  BY Names, TokenFacts DEF Init, OneActive, Active, Created
<1>3. RunningIsAwaited
  BY Names, TokenFacts DEF Init, RunningIsAwaited
<1>4. CancelIsPending
  BY Names, TokenFacts DEF Init, CancelIsPending
<1>5. LiveIsSession
  BY Names, TokenFacts DEF Init, LiveIsSession, NoLeakedWorker, Created
<1>6. OpenInSession
  BY Names, TokenFacts DEF Init, OpenInSession, Open
<1>7. NothingElseStopping
  BY Names, TokenFacts DEF Init, NothingElseStopping
<1>8. WaitsForExchange
  BY Names, TokenFacts DEF Init, WaitsForExchange
<1>9. OutstandingIsOpen
  BY Names, TokenFacts DEF Init, OutstandingIsOpen, Outstanding, Open, Answers
<1>10. FreshNames
  BY Names, TokenFacts DEF Init, FreshNames, Unopened
<1>11. InitKeepsSession
  BY Names, TokenFacts DEF Init, InitKeepsSession
<1>12. CellInv
  BY Names, TokenFacts DEF Init, CellInv, CancelStaysVisible, Cancelled, Open
<1>13. EngineInv
  BY Names, TokenFacts DEF Init, EngineInv, JobsFindAnEngine
<1> QED BY <1>1, <1>2, <1>3, <1>4, <1>5, <1>6, <1>7, <1>8, <1>9, <1>10, <1>11, <1>12, <1>13 DEF IInv

\* A stuttering step.
LEMMA StutterStep ==
  ASSUME IInv, UNCHANGED vars
  PROVE  IInv'
BY DEF vars, clientVars, callVars, exchangeVars, sessionVars, IInv, TypeOK, OneActive, Active, Created,
       RunningIsAwaited, CancelIsPending, LiveIsSession, NoLeakedWorker, OpenInSession, Open,
       NothingElseStopping, WaitsForExchange, OutstandingIsOpen, Outstanding, FreshNames, Unopened,
       InitKeepsSession, CellInv, CancelStaysVisible, Cancelled, EngineInv, JobsFindAnEngine

\* An abort finds its operation waiting, its exchange running, or neither.
LEMMA AbortStep ==
  ASSUME IInv, TypeOK', NEW o \in Ops, Abort(o)
  PROVE  IInv'
<1>1. UNCHANGED <<disposed, busy, sequence, waitsFor, sess, token, work, engine>>
  BY DEF Abort
<1>2. CASE phase[o] = "waiting" /\ Finish(o, "aborted")
           /\ UNCHANGED <<session, state, worker, ready, settle, cell>>
  BY <1>1, <1>2, FinishWaitStep DEF exchangeVars, sessionVars
<1>3. ASSUME NEW x \in Exchanges, Interrupt(x, "aborted", FALSE)
      PROVE  IInv'
  BY <1>1, <1>3, InterruptStep
<1>4. CASE UNCHANGED <<session, cancel, phase, outcome, state, worker, ready, settle, cell>>
  BY <1>1, <1>4
     DEF IInv, OneActive, Active, Created, RunningIsAwaited, CancelIsPending, LiveIsSession,
         NoLeakedWorker, OpenInSession, Open, NothingElseStopping, WaitsForExchange,
         OutstandingIsOpen, Outstanding, FreshNames, Unopened, InitKeepsSession, CellInv,
         CancelStaysVisible, Cancelled, EngineInv, JobsFindAnEngine
<1> QED BY <1>2, <1>3, <1>4 DEF Abort

\* initialize, by the creation or by a call that found no ready session.
LEMMA InitializeStep ==
  ASSUME IInv, TypeOK', NEW o \in Ops, Initialize(o), ~disposed,
         phase[o] = "settled" \/ (o = Creation /\ phase[o] = "idle"),
         session # None => ~ready[session]
  PROVE  IInv'
<1>1. Session(o) \in Ops
  BY DEF IInv, TypeOK, Session
<1>2. /\ InitOf(o) \in Exchanges /\ Op(InitOf(o)) = o /\ Kind(InitOf(o)) = "init"
  BY Names
<1>3. CASE /\ ExchangeRefused(InitOf(o))
           /\ session' = Session(o) /\ worker' = Opened(Session(o))
           /\ sess' = [sess EXCEPT ![InitOf(o)] = Session(o)]
  BY <1>3, RefusedInitStep
<1>4. CASE ExchangePosted(InitOf(o), Session(o))
  BY <1>1, <1>2, <1>4, PostedStep
<1>5. CASE PostFailed(InitOf(o), Session(o))
  BY <1>1, <1>2, <1>5, PostFailedStep
<1> QED BY <1>3, <1>4, <1>5 DEF Initialize

\* runJob's last part, whatever became of the session.
LEMMA SendJobStep ==
  ASSUME IInv, TypeOK', NEW o \in Ops, SendJob(o), phase[o] \in {"settled", "ready"},
         phase[o] = "settled" => ~disposed /\ session # None /\ ready[session]
  PROVE  IInv'
<1>1. Session(o) \in Ops
  BY DEF IInv, TypeOK, Session
<1>2. JobOf(o) \in Exchanges /\ Op(JobOf(o)) = o /\ Kind(JobOf(o)) = "job"
  BY Names
<1>3. ~disposed => session # None /\ ready[session]
  BY DEF IInv, InitKeepsSession
<1>4. ASSUME NEW why, Reject(JobOf(o), why),
             UNCHANGED <<clientVars, waitsFor, exchangeVars, sessionVars>>
      PROVE  IInv'
  BY <1>4, DisposedStep
<1>5. CASE /\ Reject(JobOf(o), "timeout")
           /\ UNCHANGED <<clientVars, aborted, waitsFor, exchangeVars, sessionVars>>
  BY <1>4, <1>5
<1>6. CASE ExchangeRefused(JobOf(o)) /\ UNCHANGED <<session, worker, sess>>
  BY <1>4, <1>6 DEF ExchangeRefused, clientVars, exchangeVars, sessionVars
<1>7. CASE ExchangePosted(JobOf(o), Session(o))
  <2>1. ~disposed
    BY <1>7 DEF ExchangePosted, Start
  <2> QED BY <1>1, <1>2, <1>3, <1>7, <2>1, PostedStep
<1>8. CASE PostFailed(JobOf(o), Session(o))
  <2>1. ~disposed
    BY <1>8 DEF PostFailed, Start
  <2> QED BY <1>1, <1>2, <1>3, <1>8, <2>1, PostFailedStep
<1> QED BY <1>5, <1>6, <1>7, <1>8 DEF SendJob

\* The continuations of the async functions.
LEMMA MicrotaskStep ==
  ASSUME IInv, TypeOK', NEW o \in Ops, Microtask(o)
  PROVE  IInv'
<1>1. CASE Wake(o)
  BY <1>1, FinishWaitStep DEF Wake, Woken
<1>2. CASE AfterSettled(o)
  <2>1. phase[o] = "settled"
    BY <1>2 DEF AfterSettled
  <2>2. CASE /\ Reject(JobOf(o), "disposed")
             /\ UNCHANGED <<clientVars, aborted, waitsFor, exchangeVars, sessionVars>>
    BY <2>1, <2>2, DisposedStep
  <2>3. CASE ~disposed /\ session # None /\ ready[session] /\ SendJob(o)
    BY <2>1, <2>3, SendJobStep
  <2>4. CASE ~disposed /\ ~(session # None /\ ready[session]) /\ Initialize(o)
    BY <2>1, <2>4, InitializeStep
  <2> QED BY <1>2, <2>2, <2>3, <2>4 DEF AfterSettled
<1>3. CASE AfterInit(o)
  BY <1>3, AfterInitStep
<1>4. CASE InitFailed(o)
  BY <1>4, InitFailedStep
<1>5. CASE AfterReady(o)
  BY <1>5, SendJobStep DEF AfterReady
<1>6. CASE Return(o)
  BY <1>6, ReturnStep
<1> QED BY <1>1, <1>2, <1>3, <1>4, <1>5, <1>6 DEF Microtask

\* The creation is the first thing that happens.
LEMMA CreateStep ==
  ASSUME IInv, TypeOK', Create
  PROVE  IInv'
<1>1. phase[Creation] = "idle" /\ Initialize(Creation)
  BY DEF Create
<1>2. session = None
  BY <1>1, CreationFirst
<1>3. ~disposed
  BY <1>1 DEF IInv, LiveIsSession, Created
<1> QED BY <1>1, <1>2, <1>3, Names, InitializeStep

\* What callers, the event loop and the worker do.
LEMMA CallerStep ==
  ASSUME IInv, TypeOK', Caller
  PROVE  IInv'
BY CreateStep, DisposeStep, CallRefusedStep, CallAcceptedStep, AbortStep DEF Caller

LEMMA TaskStep ==
  ASSUME IInv, TypeOK', Task
  PROVE  IInv'
<1>1. ASSUME NEW o \in Ops, WaitTimer(o)
      PROVE  IInv'
  BY <1>1, FinishWaitStep DEF WaitTimer
<1>2. ASSUME NEW x \in Exchanges, Timer(x)
      PROVE  IInv'
  BY <1>2, InterruptStep DEF Timer
<1> QED BY <1>1, <1>2, GraceTimerStep, FailStep, ReceiveStep DEF Task

LEMMA WorkerThreadStep ==
  ASSUME IInv, TypeOK', WorkerThread
  PROVE  IInv'
BY ExecuteStep, AnswerInitStep, AnswerJobStep DEF WorkerThread

\* Every step keeps the invariant.
LEMMA StepIInv == IInv /\ [Next]_vars => IInv'
<1> SUFFICES ASSUME IInv, [Next]_vars
             PROVE  IInv'
  OBVIOUS
<1>1. TypeOK'
  BY TypeStep DEF IInv
<1> QED BY <1>1, StutterStep, CallerStep, MicrotaskStep, TaskStep, WorkerThreadStep DEF Next

\* The invariant of the client, its worker and the messages between them.
THEOREM Invariance == Spec => []IInv
BY InitIInv, StepIInv, PTL DEF Spec

\* Types are kept: tokens stay within the Int32 the cell holds.
THEOREM TypeCorrect == Spec => []TypeOK
<1>1. IInv => TypeOK
  BY DEF IInv
<1> QED BY <1>1, Invariance, PTL

\* Two messages at one live worker belong to one running and one stopping
\* exchange, and no operation is in a phase that allows both.
LEMMA Serial == IInv => SerialWorker
<1> SUFFICES ASSUME IInv, NEW x \in Exchanges, NEW y \in Exchanges,
                    Outstanding(x), Outstanding(y), sess[x] = sess[y], worker[sess[x]] = "live"
             PROVE  x = y
  BY DEF SerialWorker
<1>1. Open(x) /\ Open(y)
  BY DEF IInv, OutstandingIsOpen
<1>2. CASE state[x] = "stopping" /\ state[y] = "stopping"
  BY <1>2 DEF IInv, OpenInSession
<1>3. CASE state[x] = "running" /\ state[y] = "running"
  BY <1>3 DEF IInv, CancelIsPending
<1>4. ASSUME NEW u \in Exchanges, NEW v \in Exchanges, state[u] = "running", state[v] = "stopping"
      PROVE  FALSE
  BY <1>4, Names DEF IInv, RunningIsAwaited, NothingElseStopping
<1> QED BY <1>1, <1>2, <1>3, <1>4 DEF Open

\* createWorkerCompiler: no second message reaches a live worker before the
\* first one is answered.
THEOREM WorkersAreSerial == Spec => []SerialWorker
BY Serial, Invariance, PTL

\* worker.ts, interrupt.ts: the cell cancels the job it was stored for and no
\* other, for every range of tokens.
THEOREM CancelsDoNotStray == Spec => []NoStrayCancel
<1>1. IInv => NoStrayCancel
  <2> SUFFICES ASSUME IInv, NEW x \in Exchanges, state[x] = "running"
               PROVE  ~Cancelled(x) /\ work[x] # "cancelled"
    BY DEF NoStrayCancel
  <2>1. session # None /\ sess[x] = session /\ token[x] # 0
    BY DEF IInv, OpenInSession, CellInv, Open
  <2>2. \A y \in Exchanges : state[y] # "stopping"
    BY Names DEF IInv, RunningIsAwaited, NothingElseStopping
  <2>3. settle[session] = None
    BY <2>1, <2>2 DEF IInv, TypeOK, OpenInSession
  <2> QED BY <2>1, <2>3 DEF IInv, CellInv, Cancelled
<1> QED BY <1>1, Invariance, PTL

\* A cancelled job's token stays in the cell while the client waits for it.
THEOREM CancelsStayVisible == Spec => []CancelStaysVisible
<1>1. IInv => CancelStaysVisible
  BY DEF IInv, CellInv
<1> QED BY <1>1, Invariance, PTL

\* No worker outlives the client's reference to it.
THEOREM WorkersAreOwned == Spec => []NoLeakedWorker
<1>1. IInv => NoLeakedWorker
  BY DEF IInv, LiveIsSession
<1> QED BY <1>1, Invariance, PTL

\* dispose() leaves no worker and no call that only a worker could settle.
THEOREM DisposeEnds == Spec => []DisposeIsFinal
<1>1. IInv => DisposeIsFinal
  <2> SUFFICES ASSUME IInv, disposed, NEW o \in Ops
               PROVE  session = None /\ phase[o] \notin Suspended /\ worker[o] # "live"
    BY DEF DisposeIsFinal, IInv, LiveIsSession
  <2>1. session = None /\ cancel = None
    BY DEF IInv, LiveIsSession
  <2>2. phase[o] # "waiting" /\ state[InitOf(o)] # "running" /\ state[JobOf(o)] # "running"
    BY <2>1, Names DEF IInv, CancelIsPending
  <2>3. worker[o] # "live"
    BY <2>1, Names DEF IInv, LiveIsSession, NoLeakedWorker
  <2> QED BY <2>1, <2>2, <2>3 DEF IInv, RunningIsAwaited, Suspended
<1> QED BY <1>1, Invariance, PTL

\* A job is only ever given to a worker whose modules are compiled.
THEOREM EnginesAreReady == Spec => []JobsFindAnEngine
<1>1. IInv => JobsFindAnEngine
  BY DEF IInv, EngineInv
<1> QED BY <1>1, Invariance, PTL
\* A cancellation reaches its own job and no other.
THEOREM CancelsHit == Spec => []CancelHitsItsJob
<1> QED BY CancelsDoNotStray, CancelsStayVisible, PTL DEF CancelHitsItsJob

\* Live workers belong to the client, end with it, and are ready for jobs.
THEOREM WorkersAreTheClients == Spec => []WorkersOwned
<1> QED BY WorkersAreOwned, DisposeEnds, EnginesAreReady, PTL DEF WorkersOwned

-----------------------------------------------------------------------------
(* What a step may cost: a worker that is ready is kept.                   *)

\* An operation has no outcome until it is settled, and a session is not ready
\* while its own start-up is under way or has failed.
Undecided == \A o \in Ops :
  phase[o] \notin {"initFailed", "unwinding", "returned"} => outcome[o] = "none"
Unready == \A o \in Ops : phase[o] \in {"initializing", "initFailed"} => ~ready[sess[InitOf(o)]]
KeptInv == Undecided /\ Unready

LEMMA KeptInit == Init => KeptInv
BY DEF Init, KeptInv, Undecided, Unready

\* Nothing is terminated, and the operation that moves on is decided or waits.
LEMMA QuietKeeps ==
  ASSUME IInv, KeptInv, UNCHANGED <<sess, worker, ready>>,
         NEW o \in Ops, NEW p, p \notin {"initializing", "initFailed"}, NEW why,
         phase' = [phase EXCEPT ![o] = p], outcome' = [outcome EXCEPT ![o] = why],
         p \notin {"unwinding", "returned"} => why = "none"
  PROVE  KeptInv' /\ KeepsWorker
BY DEF IInv, TypeOK, KeptInv, Undecided, Unready, KeepsWorker

\* Nor where only the worker or the client's other variables move.
LEMMA StillKeeps ==
  ASSUME KeptInv, UNCHANGED <<sess, worker, ready, phase, outcome>>
  PROVE  KeptInv' /\ KeepsWorker
BY DEF KeptInv, Undecided, Unready, KeepsWorker

\* A stop makes no session ready.
LEMMA StopUnready ==
  ASSUME IInv, NEW s, StopWorker(s)
  PROVE  \A r \in Ops : ready'[r] => ready[r]
BY DEF IInv, TypeOK, StopWorker

\* interrupt() terminates the worker only in start-up, or for an abort that no
\* cell carries to the guest.
LEMMA InterruptKeeps ==
  ASSUME IInv, KeptInv, NEW x \in Exchanges, NEW why, NEW timedOut,
         Interrupt(x, why, timedOut), timedOut \/ why = "aborted", UNCHANGED sess
  PROVE  KeptInv' /\ KeepsWorker
<1>1. sess[x] \in Ops /\ Op(x) \in Ops
  BY Names DEF Interrupt, IInv, TypeOK, OpenInSession, Open
<1>2. /\ phase' = [phase EXCEPT ![Op(x)] = IF Kind(x) = "init" THEN "initFailed" ELSE "unwinding"]
      /\ outcome' = [outcome EXCEPT ![Op(x)] = why]
  BY DEF Interrupt, Reject, Terminate
<1>3. phase[Op(x)] = IF Kind(x) = "init" THEN "initializing" ELSE "exchanging"
  BY Names DEF Interrupt, IInv, RunningIsAwaited
<1>4. Kind(x) = "init" => ~ready[sess[x]]
  BY <1>1, <1>3, Names DEF KeptInv, Unready
<1>5. \A r \in Ops : ready'[r] => ready[r]
  BY StopUnready DEF Interrupt, Terminate, StopGuest
<1>6. Undecided'
  BY <1>1, <1>2 DEF IInv, TypeOK, KeptInv, Undecided
<1>7. Unready'
  <2> SUFFICES ASSUME NEW o \in Ops, phase'[o] \in {"initializing", "initFailed"}
               PROVE  ~ready'[sess[InitOf(o)]]
    BY DEF Unready
  <2>1. phase[o] \in {"initializing", "initFailed"}
    BY <1>1, <1>2, <1>3 DEF IInv, TypeOK
  <2>2. sess[InitOf(o)] \in Ops
    BY <2>1, Names DEF IInv, TypeOK, RunningIsAwaited, OpenInSession, Open, InitKeepsSession
  <2> QED BY <1>5, <2>1, <2>2 DEF KeptInv, Unready
<1>8. KeepsWorker
  <2> SUFFICES ASSUME NEW s \in Ops, ready[s], worker[s] = "live", worker'[s] = "terminated"
               PROVE  /\ sess'[x] = s /\ ~HasCell
                      /\ outcome[Op(x)] = "none" /\ outcome'[Op(x)] = "aborted"
    BY DEF KeepsWorker
  <2>1. Terminate(x, why) /\ Unreachable(x, timedOut)
    BY DEF Interrupt, StopGuest
  <2>2. sess[x] = s
    BY <1>1, <2>1 DEF Terminate, StopWorker, IInv, TypeOK
  <2>3. ~HasCell /\ ~timedOut
    BY <1>4, <2>1, <2>2 DEF Unreachable
  <2> QED BY <1>1, <1>2, <1>3, <2>2, <2>3 DEF IInv, TypeOK, KeptInv, Undecided
<1> QED BY <1>6, <1>7, <1>8 DEF KeptInv

\* An operation that opens an exchange: it is the only active one, and none is
\* decided; a message that cannot be posted is a failure.
LEMMA ExchangeKeeps ==
  ASSUME IInv, KeptInv, NEW o \in Ops, NEW x \in {InitOf(o), JobOf(o)}, NEW s \in Ops,
         phase[o] \in {"settled", "ready"} \/ (o = Creation /\ phase[o] = "idle"),
         x = InitOf(o) => ~ready[s],
         \/ ExchangeRefused(x) /\ worker' \in {worker, [worker EXCEPT ![s] = "live"]}
            /\ (IF x = InitOf(o) THEN sess' = [sess EXCEPT ![x] = s] ELSE UNCHANGED sess)
         \/ ExchangePosted(x, s)
         \/ PostFailed(x, s)
  PROVE  KeptInv' /\ KeepsWorker
<1>1. x \in Exchanges /\ Op(x) = o /\ (Kind(x) = "init" <=> x = InitOf(o))
  BY Names
<1>2. \A p \in Ops : phase[p] \notin {"initializing", "initFailed"}
  BY CreationFirst DEF IInv, OneActive, Active
<1>3. outcome[o] = "none"
  BY DEF KeptInv, Undecided
<1>4. CASE ExchangeRefused(x) /\ worker' \in {worker, [worker EXCEPT ![s] = "live"]}
           /\ (IF x = InitOf(o) THEN sess' = [sess EXCEPT ![x] = s] ELSE UNCHANGED sess)
  <2>1. Undecided'
    BY <1>1, <1>4 DEF ExchangeRefused, Reject, IInv, TypeOK, KeptInv, Undecided
  <2>2. Unready'
    BY <1>1, <1>2, <1>4 DEF ExchangeRefused, Reject, IInv, TypeOK, Unready
  <2>3. KeepsWorker
    BY <1>4 DEF KeepsWorker, IInv, TypeOK
  <2> QED BY <2>1, <2>2, <2>3 DEF KeptInv
<1>5. CASE ExchangePosted(x, s)
  <2>1. Undecided'
    BY <1>1, <1>3, <1>5 DEF ExchangePosted, IInv, TypeOK, KeptInv, Undecided
  <2>2. Unready'
    BY <1>1, <1>2, <1>5 DEF ExchangePosted, Start, IInv, TypeOK, Unready
  <2>3. KeepsWorker
    BY <1>5 DEF ExchangePosted, Opened, KeepsWorker, IInv, TypeOK
  <2> QED BY <2>1, <2>2, <2>3 DEF KeptInv
<1>6. CASE PostFailed(x, s)
  <2>1. Undecided'
    BY <1>1, <1>6 DEF PostFailed, Reject, IInv, TypeOK, KeptInv, Undecided
  <2>2. Unready'
    BY <1>1, <1>2, <1>6 DEF PostFailed, Start, StopWorker, Reject, IInv, TypeOK, Unready
  <2>3. KeepsWorker
    BY <1>1, <1>3, <1>6 DEF PostFailed, Start, StopWorker, Reject, KeepsWorker, IInv, TypeOK
  <2> QED BY <2>1, <2>2, <2>3 DEF KeptInv
<1> QED BY <1>4, <1>5, <1>6

LEMMA InitializeKeeps ==
  ASSUME IInv, KeptInv, NEW o \in Ops, Initialize(o),
         phase[o] = "settled" \/ (o = Creation /\ phase[o] = "idle"),
         ~(session # None /\ ready[session])
  PROVE  KeptInv' /\ KeepsWorker
<1>1. Session(o) \in Ops /\ ~ready[Session(o)]
  BY DEF Session, IInv, TypeOK, FreshNames, Unopened
<1>2. Opened(Session(o)) \in {worker, [worker EXCEPT ![Session(o)] = "live"]}
  BY DEF Opened
<1> QED BY <1>1, <1>2, ExchangeKeeps DEF Initialize

LEMMA SendJobKeeps ==
  ASSUME IInv, KeptInv, NEW o \in Ops, SendJob(o), phase[o] \in {"settled", "ready"}
  PROVE  KeptInv' /\ KeepsWorker
<1>1. CASE Reject(JobOf(o), "timeout") /\ UNCHANGED <<sess, worker, ready>>
  BY <1>1, QuietKeeps, Names DEF Reject
<1>2. CASE ~Reject(JobOf(o), "timeout") \/ ~UNCHANGED <<sess, worker, ready>>
  <2>1. Session(o) \in Ops /\ JobOf(o) # InitOf(o)
    BY Names DEF Session, IInv, TypeOK
  <2> QED BY <1>2, <2>1, ExchangeKeeps DEF SendJob, exchangeVars, sessionVars
<1> QED BY <1>1, <1>2

LEMMA AbortKeeps ==
  ASSUME IInv, KeptInv, NEW o \in Ops, Abort(o)
  PROVE  KeptInv' /\ KeepsWorker
<1>1. CASE Finish(o, "aborted") /\ UNCHANGED <<worker, ready>>
  BY <1>1, QuietKeeps DEF Abort, Finish
<1>2. ASSUME NEW x \in Exchanges, Interrupt(x, "aborted", FALSE)
      PROVE  KeptInv' /\ KeepsWorker
  BY <1>2, InterruptKeeps DEF Abort
<1>3. CASE UNCHANGED <<phase, outcome, worker, ready>>
  BY <1>3, StillKeeps DEF Abort
<1> QED BY <1>1, <1>2, <1>3 DEF Abort

LEMMA DisposeKeeps ==
  ASSUME IInv, KeptInv, Dispose
  PROVE  KeptInv' /\ KeepsWorker
<1>1. \A r \in Ops : ready'[r] => ready[r]
  BY StopUnready DEF Dispose
<1>2. PICK o \in Ops :
        \/ /\ outcome' = [outcome EXCEPT ![o] = "disposed"]
           /\ \/ phase' = [phase EXCEPT ![o] = "unwinding"]
              \/ phase' = [phase EXCEPT ![o] = "initFailed"] /\ phase[o] = "initializing"
        \/ UNCHANGED <<phase, outcome>>
  BY Names DEF Dispose, Finish, Reject, IInv, CancelIsPending, RunningIsAwaited
<1>3. Undecided'
  BY <1>2 DEF IInv, TypeOK, KeptInv, Undecided
<1>4. Unready'
  <2> SUFFICES ASSUME NEW p \in Ops, phase'[p] \in {"initializing", "initFailed"}
               PROVE  ~ready'[sess[InitOf(p)]]
    BY DEF Unready, Dispose
  <2>1. phase[p] \in {"initializing", "initFailed"}
    BY <1>2 DEF IInv, TypeOK
  <2>2. sess[InitOf(p)] \in Ops
    BY <2>1, Names DEF IInv, TypeOK, RunningIsAwaited, OpenInSession, Open, InitKeepsSession
  <2> QED BY <1>1, <2>1, <2>2 DEF KeptInv, Unready
<1> QED BY <1>3, <1>4 DEF KeptInv, KeepsWorker, Dispose

\* A session becomes ready when no other start-up is under way.
LEMMA AfterInitKeeps ==
  ASSUME IInv, KeptInv, NEW o \in Ops, AfterInit(o)
  PROVE  KeptInv' /\ KeepsWorker
<1>1. Undecided'
  BY DEF AfterInit, IInv, TypeOK, KeptInv, Undecided
<1>2. \A p \in Ops : phase'[p] \notin {"initializing", "initFailed"}
  BY DEF AfterInit, IInv, TypeOK, OneActive, Active
<1>3. KeepsWorker
  BY DEF AfterInit, KeepsWorker
<1> QED BY <1>1, <1>2, <1>3 DEF KeptInv, Unready

LEMMA InitFailedKeeps ==
  ASSUME IInv, KeptInv, NEW o \in Ops, InitFailed(o)
  PROVE  KeptInv' /\ KeepsWorker
<1>1. sess[InitOf(o)] \in Ops /\ ~ready[sess[InitOf(o)]]
  BY DEF InitFailed, IInv, InitKeepsSession, KeptInv, Unready
<1>2. Undecided'
  BY DEF InitFailed, IInv, TypeOK, KeptInv, Undecided
<1>3. \A p \in Ops : phase'[p] \notin {"initializing", "initFailed"}
  BY DEF InitFailed, IInv, TypeOK, OneActive, Active
<1>4. KeepsWorker
  BY <1>1 DEF InitFailed, StopWorker, KeepsWorker, IInv, TypeOK
<1> QED BY <1>2, <1>3, <1>4 DEF KeptInv, Unready

\* GraceTimer and Fail: the exchange was stopping, or its operation fails.
LEMMA FailKeeps ==
  ASSUME IInv, KeptInv, NEW x \in Exchanges, UNCHANGED sess, StopWorker(sess[x]),
         \/ state[x] = "stopping" /\ UNCHANGED <<phase, outcome>>
         \/ state[x] = "running" /\ Reject(x, "failed")
  PROVE  KeptInv' /\ KeepsWorker
<1>1. sess[x] \in Ops /\ Op(x) \in Ops
  BY Names DEF IInv, TypeOK, OpenInSession, Open
<1>2. \A r \in Ops : ready'[r] => ready[r]
  BY StopUnready
<1>3. state[x] = "running" =>
        phase[Op(x)] = IF Kind(x) = "init" THEN "initializing" ELSE "exchanging"
  BY Names DEF IInv, RunningIsAwaited
<1>4. Undecided'
  BY <1>1 DEF Reject, IInv, TypeOK, KeptInv, Undecided
<1>5. Unready'
  <2> SUFFICES ASSUME NEW o \in Ops, phase'[o] \in {"initializing", "initFailed"}
               PROVE  ~ready'[sess[InitOf(o)]]
    BY DEF Unready
  <2>1. phase[o] \in {"initializing", "initFailed"}
    BY <1>1, <1>3 DEF Reject, IInv, TypeOK
  <2>2. sess[InitOf(o)] \in Ops
    BY <2>1, Names DEF IInv, TypeOK, RunningIsAwaited, OpenInSession, Open, InitKeepsSession
  <2> QED BY <1>2, <2>1, <2>2 DEF KeptInv, Unready
<1>6. KeepsWorker
  <2> SUFFICES ASSUME NEW s \in Ops, worker[s] = "live", worker'[s] = "terminated"
               PROVE  /\ sess'[x] = s
                      /\ \/ state[x] = "stopping"
                         \/ outcome[Op(x)] = "none" /\ outcome'[Op(x)] = "failed"
    BY DEF KeepsWorker
  <2>1. sess[x] = s
    BY <1>1 DEF StopWorker, IInv, TypeOK
  <2> QED BY <1>1, <1>3, <2>1 DEF Reject, IInv, TypeOK, KeptInv, Undecided
<1> QED BY <1>4, <1>5, <1>6 DEF KeptInv

LEMMA ReceiveKeeps ==
  ASSUME IInv, KeptInv, NEW x \in Exchanges, Receive(x)
  PROVE  KeptInv' /\ KeepsWorker
<1>1. Op(x) \in Ops /\ UNCHANGED <<sess, worker, ready>>
  BY Names DEF Receive
<1>2. CASE UNCHANGED <<phase, outcome>>
  BY <1>1, <1>2, StillKeeps
<1>3. CASE state[x] = "running" /\ phase' = [phase EXCEPT ![Op(x)] = "initDone"] /\ UNCHANGED outcome
  BY <1>1, <1>3, Names DEF IInv, TypeOK, RunningIsAwaited, KeptInv, Undecided, Unready, KeepsWorker
<1>4. CASE state[x] = "running" /\ Reject(x, work[x])
  <2>1. Kind(x) = "init" => phase[Op(x)] = "initializing"
    BY <1>4, Names DEF IInv, RunningIsAwaited
  <2> QED BY <1>1, <1>4, <2>1 DEF Reject, IInv, TypeOK, KeptInv, Undecided, Unready, KeepsWorker
<1> QED BY <1>2, <1>3, <1>4 DEF Receive

LEMMA CallerKeeps ==
  ASSUME IInv, KeptInv, Caller
  PROVE  KeptInv' /\ KeepsWorker
<1>1. CASE Create
  BY <1>1, Names, CreationFirst, InitializeKeeps DEF Create
<1>2. ASSUME NEW j \in Jobs, CallRefused(j)
      PROVE  KeptInv' /\ KeepsWorker
  BY <1>2, QuietKeeps, Names DEF CallRefused, exchangeVars, sessionVars
<1>3. ASSUME NEW j \in Jobs, CallAccepted(j)
      PROVE  KeptInv' /\ KeepsWorker
  <2>1. UNCHANGED <<sess, worker, ready, outcome>> /\ j \in Ops /\ outcome[j] = "none"
    BY <1>3, Names DEF CallAccepted, exchangeVars, sessionVars, KeptInv, Undecided
  <2>2. outcome' = [outcome EXCEPT ![j] = "none"]
    BY <2>1 DEF IInv, TypeOK
  <2>3. \E p \in {"settled", "waiting"} : phase' = [phase EXCEPT ![j] = p]
    BY <1>3 DEF CallAccepted
  <2> QED BY <2>1, <2>2, <2>3, QuietKeeps
<1> QED BY <1>1, <1>2, <1>3, DisposeKeeps, AbortKeeps DEF Caller

LEMMA MicrotaskKeeps ==
  ASSUME IInv, KeptInv, NEW o \in Ops, Microtask(o)
  PROVE  KeptInv' /\ KeepsWorker
<1>1. CASE Wake(o)
  BY <1>1, QuietKeeps DEF Wake, Finish, exchangeVars, sessionVars
<1>2. CASE AfterSettled(o)
  <2>1. CASE Reject(JobOf(o), "disposed") /\ UNCHANGED <<sess, worker, ready>>
    BY <2>1, QuietKeeps, Names DEF Reject
  <2> QED BY <1>2, <2>1, SendJobKeeps, InitializeKeeps DEF AfterSettled, exchangeVars, sessionVars
<1>3. CASE Return(o)
  <2>1. outcome' = [outcome EXCEPT ![o] = outcome[o]]
    BY <1>3 DEF Return, IInv, TypeOK
  <2> QED BY <1>3, <2>1, QuietKeeps DEF Return, exchangeVars, sessionVars
<1>4. CASE AfterReady(o)
  BY <1>4, SendJobKeeps DEF AfterReady
<1> QED BY <1>1, <1>2, <1>3, <1>4, AfterInitKeeps, InitFailedKeeps DEF Microtask

LEMMA TaskKeeps ==
  ASSUME IInv, KeptInv, Task
  PROVE  KeptInv' /\ KeepsWorker
<1>1. ASSUME NEW o \in Ops, WaitTimer(o)
      PROVE  KeptInv' /\ KeepsWorker
  BY <1>1, QuietKeeps DEF WaitTimer, Finish, exchangeVars, sessionVars
<1>2. ASSUME NEW x \in Exchanges, Timer(x)
      PROVE  KeptInv' /\ KeepsWorker
  BY <1>2, InterruptKeeps DEF Timer
<1>3. ASSUME NEW x \in Exchanges, GraceTimer(x) \/ Fail(x)
      PROVE  KeptInv' /\ KeepsWorker
  BY <1>3, FailKeeps DEF GraceTimer, Fail, callVars
<1> QED BY <1>1, <1>2, <1>3, ReceiveKeeps DEF Task

LEMMA WorkerThreadKeeps ==
  ASSUME IInv, KeptInv, WorkerThread
  PROVE  KeptInv' /\ KeepsWorker
BY StillKeeps DEF WorkerThread, Execute, AnswerInit, AnswerJob, callVars, sessionVars

LEMMA StepKeeps == IInv /\ KeptInv /\ [Next]_vars => KeptInv' /\ [KeepsWorker]_vars
<1>1. CASE UNCHANGED vars
  BY <1>1, StillKeeps DEF vars, callVars, exchangeVars, sessionVars
<1> QED BY <1>1, CallerKeeps, MicrotaskKeeps, TaskKeeps, WorkerThreadKeeps DEF Next

\* A worker that compiled its modules is terminated only for dispose, a
\* cancelled job that did not report, a failure, or an abort no cell can carry.
THEOREM WorkersAreKept == Spec => WorkerKept
BY KeptInit, StepKeeps, Invariance, PTL DEF Spec, WorkerKept

-----------------------------------------------------------------------------
(* The client implements CompilerService.                                  *)

\* What the service's steps ask of the client beyond IInv: busy is some call's,
\* and a call is told "busy" only when refused, "disposed" only after dispose.
BusyIsServing == busy => \E j \in Jobs : Active(j)
ReasonsHold == \A o \in Ops :
  Active(o) => outcome[o] # "busy" /\ (outcome[o] = "disposed" => disposed)
ServiceInv == BusyIsServing /\ ReasonsHold

ServiceStep == [Service!Next]_(Service!vars)

LEMMA ServiceInit == Init => ServiceInv /\ Service!Init
BY DEF Init, ServiceInv, BusyIsServing, ReasonsHold, Active, Service!Init, callBar, guestBar,
       Guests, Outstanding, Answers, Ops, Exchanges, JobOf

\* At most one call has a message at the live worker.
LEMMA OneGuest ==
  ASSUME IInv
  PROVE  /\ \A i, j \in Guests : i = j
         /\ guestBar = None <=> Guests = {}
         /\ \A j \in Guests : guestBar = j
<1>1. \A i, j \in Guests : i = j
  <2> SUFFICES ASSUME NEW i \in Guests, NEW j \in Guests PROVE i = j
    OBVIOUS
  <2>1. /\ i \in Ops /\ JobOf(i) \in Exchanges /\ Op(JobOf(i)) = i
        /\ j \in Ops /\ JobOf(j) \in Exchanges /\ Op(JobOf(j)) = j
    BY Names DEF Guests
  <2>2. sess[JobOf(i)] = session /\ sess[JobOf(j)] = session
    BY <2>1 DEF Guests, IInv, OutstandingIsOpen, LiveIsSession, NoLeakedWorker
  <2> QED BY <2>1, <2>2, Serial DEF Guests, SerialWorker
<1>2. None \notin Jobs
  BY Names
<1> QED BY <1>1, <1>2 DEF guestBar, Guests

\* A step that starts no guest and moves no call stops a guest or none.
LEMMA GuestStep ==
  ASSUME IInv, Guests' \subseteq Guests, callBar' = callBar, UNCHANGED disposed
  PROVE  ServiceStep
<1>1. CASE Guests' = Guests
  BY <1>1 DEF ServiceStep, Service!vars, guestBar
<1>2. CASE Guests' # Guests
  <2>1. Guests # {} /\ Guests' = {}
    BY <1>2, OneGuest
  <2>2. guestBar # None /\ guestBar' = None
    BY <2>1, OneGuest DEF guestBar
  <2> QED BY <2>2 DEF ServiceStep, Service!Next, Service!GuestStops
<1> QED BY <1>1, <1>2

\* An operation that goes on is still active, and so is its call.
LEMMA MoveStep ==
  ASSUME IInv, KeptInv, ServiceInv, NEW o \in Ops, o = Creation \/ Active(o),
         NEW p, p \notin {"idle", "returned"} \/ o = Creation, NEW why,
         phase' = [phase EXCEPT ![o] = p], outcome' = [outcome EXCEPT ![o] = why],
         busy' = busy, disposed => disposed',
         why # "busy", why = "disposed" => disposed'
  PROVE  ServiceInv' /\ callBar' = callBar
<1>1. \A q \in Ops : phase'[q] = (IF q = o THEN p ELSE phase[q])
                    /\ outcome'[q] = (IF q = o THEN why ELSE outcome[q])
  BY DEF IInv, TypeOK
<1>2. ServiceInv'
  BY <1>1, Names DEF ServiceInv, BusyIsServing, ReasonsHold, Active
<1>3. \A j \in Jobs : callBar'[j] = callBar[j]
  BY <1>1, Names DEF callBar, Active, Ended
<1> QED BY <1>2, <1>3 DEF callBar

\* Nor does a step that moves no operation.
LEMMA RestStep ==
  ASSUME ServiceInv, UNCHANGED <<phase, outcome, busy>>, disposed => disposed'
  PROVE  ServiceInv' /\ callBar' = callBar
BY DEF ServiceInv, BusyIsServing, ReasonsHold, Active, callBar, Ended

\* What a step does to the messages at live workers.
LEMMA GuestsKept ==
  ASSUME UNCHANGED sess, \A x \in Exchanges : Outstanding(x)' => Outstanding(x),
         \A s : worker'[s] = "live" => worker[s] = "live"
  PROVE  Guests' \subseteq Guests
BY Names DEF Guests

LEMMA StopWorkerGuests ==
  ASSUME IInv, NEW x \in Exchanges, sess[x] \in Ops, StopWorker(sess[x]), UNCHANGED <<sess, work>>
  PROVE  Guests' \subseteq Guests
<1>1. \A s \in Ops : worker'[s] = "live" => worker[s] = "live"
  BY DEF StopWorker, IInv, TypeOK
<1>2. \A j \in Jobs : Outstanding(JobOf(j)) => sess[JobOf(j)] \in Ops
  BY Names DEF IInv, OutstandingIsOpen
<1> QED BY <1>1, <1>2 DEF Guests, Outstanding

\* interrupt(): the operation settles, and its worker may go.
LEMMA InterruptServes ==
  ASSUME IInv, KeptInv, ServiceInv, NEW x \in Exchanges, NEW why \in {"aborted", "timeout"},
         NEW timedOut, Interrupt(x, why, timedOut), UNCHANGED <<disposed, busy, sess, work>>
  PROVE  ServiceInv' /\ ServiceStep
<1>1. sess[x] \in Ops /\ Op(x) \in Ops /\ Active(Op(x))
  BY Names DEF Interrupt, IInv, TypeOK, OpenInSession, Open, RunningIsAwaited, Active
<1>2. \E p \in {"initFailed", "unwinding"} :
        phase' = [phase EXCEPT ![Op(x)] = p] /\ outcome' = [outcome EXCEPT ![Op(x)] = why]
  BY DEF Interrupt, Reject, Terminate
<1>3. ServiceInv' /\ callBar' = callBar
  BY <1>1, <1>2, MoveStep
<1>4. Guests' \subseteq Guests
  <2>1. CASE StopWorker(sess[x])
    BY <1>1, <2>1, StopWorkerGuests
  <2>2. CASE UNCHANGED worker
    BY <2>2 DEF Guests, Outstanding
  <2> QED BY <2>1, <2>2 DEF Interrupt, Terminate, StopGuest
<1> QED BY <1>3, <1>4, GuestStep

LEMMA AbortServes ==
  ASSUME IInv, KeptInv, ServiceInv, NEW o \in Ops, Abort(o)
  PROVE  ServiceInv' /\ ServiceStep
<1>1. CASE phase[o] = "waiting" /\ Finish(o, "aborted") /\ UNCHANGED worker
  <2>1. /\ phase' = [phase EXCEPT ![o] = "unwinding"] /\ Active(o)
        /\ outcome' = [outcome EXCEPT ![o] = "aborted"] /\ UNCHANGED <<disposed, busy>>
    BY <1>1 DEF Abort, Finish, Active
  <2>3. ServiceInv' /\ callBar' = callBar
    BY <2>1, MoveStep
  <2>2. Guests' \subseteq Guests
    BY <1>1 DEF Abort, Guests, Outstanding
  <2> QED BY <2>1, <2>2, <2>3, GuestStep
<1>2. ASSUME NEW x \in Exchanges, Interrupt(x, "aborted", FALSE)
      PROVE  ServiceInv' /\ ServiceStep
  BY <1>2, InterruptServes DEF Abort
<1>3. CASE UNCHANGED <<phase, outcome, worker>>
  <2>1. ServiceInv' /\ callBar' = callBar
    BY <1>3, RestStep DEF Abort
  <2>2. Guests' \subseteq Guests
    BY <1>3 DEF Abort, Guests, Outstanding
  <2> QED BY <2>1, <2>2, GuestStep DEF Abort
<1> QED BY <1>1, <1>2, <1>3 DEF Abort

\* dispose(): the service closes, and no worker is left for a guest.
LEMMA DisposeServes ==
  ASSUME IInv, KeptInv, ServiceInv, Dispose
  PROVE  ServiceInv' /\ ServiceStep
<1>1. ServiceInv' /\ callBar' = callBar
  <2>1. CASE cancel \in Waits /\ Finish(Op(cancel), "disposed")
    <3>1. Op(cancel) \in Ops /\ Active(Op(cancel))
      BY <2>1, Names DEF IInv, CancelIsPending, Active
    <3> QED BY <2>1, <3>1, MoveStep DEF Dispose, Finish
  <2>2. CASE cancel \in Exchanges /\ Reject(cancel, "disposed")
    <3>1. Op(cancel) \in Ops /\ Active(Op(cancel))
      BY <2>2, Names DEF IInv, CancelIsPending, RunningIsAwaited, Active
    <3>2. \E p \in {"initFailed", "unwinding"} : phase' = [phase EXCEPT ![Op(cancel)] = p]
      BY <2>2 DEF Reject
    <3> QED BY <2>2, <3>1, <3>2, MoveStep DEF Dispose, Reject
  <2>3. CASE UNCHANGED <<phase, outcome>>
    BY <2>3, RestStep DEF Dispose
  <2> QED BY <2>1, <2>2, <2>3 DEF Dispose
<1>2. \A s \in Ops : worker'[s] # "live"
  <2>1. CASE session = None
    BY <2>1, Names DEF Dispose, IInv, LiveIsSession, NoLeakedWorker
  <2>2. CASE session # None
    <3>1. worker' = [worker EXCEPT ![session] = "terminated"]
      BY <2>2 DEF Dispose, StopWorker
    <3> QED BY <3>1 DEF IInv, TypeOK, LiveIsSession, NoLeakedWorker
  <2> QED BY <2>1, <2>2
<1>3. \A j \in Jobs : Outstanding(JobOf(j)) => sess[JobOf(j)] \in Ops
  BY Names DEF IInv, OutstandingIsOpen
<1>4. Guests' = {}
  BY <1>2, <1>3 DEF Dispose, Guests, Outstanding
<1>5. Service!Dispose
  BY <1>1, <1>4 DEF Dispose, Service!Dispose, guestBar
<1> QED BY <1>1, <1>5 DEF ServiceStep, Service!Next

\* A call that is refused at once, and one that is accepted.
LEMMA CallServes ==
  ASSUME IInv, KeptInv, ServiceInv, NEW j \in Jobs, CallRefused(j) \/ CallAccepted(j)
  PROVE  ServiceInv' /\ ServiceStep
<1>1. guestBar' = guestBar /\ UNCHANGED disposed
  <2>1. UNCHANGED <<disposed, sess, work, worker>>
    BY DEF CallRefused, CallAccepted, clientVars, exchangeVars, sessionVars
  <2>2. Guests' = Guests
    BY <2>1 DEF Guests, Outstanding
  <2> QED BY <2>1, <2>2 DEF guestBar
<1>2. j \in Ops /\ callBar[j] = "idle"
  BY Names DEF CallRefused, CallAccepted, callBar
<1>3. CASE CallRefused(j)
  <2>1. PICK why \in Refusals : outcome' = [outcome EXCEPT ![j] = why]
    BY <1>3 DEF CallRefused
  <2>2. \A q \in Ops : phase'[q] = (IF q = j THEN "returned" ELSE phase[q])
                      /\ outcome'[q] = (IF q = j THEN why ELSE outcome[q])
    BY <1>3, <2>1 DEF CallRefused, IInv, TypeOK
  <2>3. ServiceInv'
    BY <1>3, <2>2, Names DEF CallRefused, clientVars, ServiceInv, BusyIsServing, ReasonsHold, Active
  <2>4. callBar' = [callBar EXCEPT ![j] = IF why = "busy" THEN "busy"
                                         ELSE IF why = "disposed" THEN "closed" ELSE "settled"]
    BY <2>2, Names DEF callBar, Ended
  <2>5. why = "disposed" => disposed
    BY DEF Refusals
  <2>6. CASE why = "busy"
    <3>1. Service!Busy
      BY <2>6 DEF Refusals, ServiceInv, BusyIsServing, Active, callBar, Service!Busy
    <3> QED BY <1>1, <1>2, <2>3, <2>4, <2>6, <3>1 DEF ServiceStep, Service!Next, Service!Refuse
  <2>7. CASE why # "busy"
    <3>1. Service!Settle(j)
      BY <1>1, <1>2, <2>4, <2>5, <2>7 DEF Service!Settle
    <3> QED BY <2>3, <3>1 DEF ServiceStep, Service!Next
  <2> QED BY <2>6, <2>7
<1>4. CASE CallAccepted(j)
  <2>1. \A q \in Ops : q # j => phase'[q] = phase[q]
    BY <1>4 DEF CallAccepted, IInv, TypeOK
  <2>2. phase'[j] \in {"settled", "waiting"} /\ UNCHANGED outcome
    BY <1>2, <1>4 DEF CallAccepted, IInv, TypeOK
  <2>3. ServiceInv'
    <3>1. Active(j)' /\ outcome[j] = "none"
      BY <1>2, <1>4, <2>2 DEF Active, CallAccepted, KeptInv, Undecided
    <3> QED BY <1>1, <2>1, <2>2, <3>1 DEF ServiceInv, BusyIsServing, ReasonsHold, Active
  <2>4. callBar' = [callBar EXCEPT ![j] = "active"]
    BY <2>1, <2>2, Names DEF callBar, Ended
  <2>5. ~Service!Busy
    BY <1>4, Names DEF CallAccepted, IInv, OneActive, Active, callBar, Ended, Service!Busy
  <2>6. Service!Accept(j)
    BY <1>1, <1>2, <1>4, <2>4, <2>5 DEF CallAccepted, Service!Accept
  <2> QED BY <2>3, <2>6 DEF ServiceStep, Service!Next
<1> QED BY <1>3, <1>4

\* initialize: a new session is nobody's yet, so no guest runs in it.
LEMMA InitializeServes ==
  ASSUME IInv, KeptInv, ServiceInv, NEW o \in Ops, Initialize(o),
         phase[o] = "settled" \/ (o = Creation /\ phase[o] = "idle")
  PROVE  ServiceInv' /\ ServiceStep
<1> DEFINE s == Session(o)
<1>1. s \in Ops /\ UNCHANGED <<disposed, busy>> /\ outcome[o] = "none" /\ (o = Creation \/ Active(o))
  BY DEF Initialize, ExchangeRefused, ExchangePosted, PostFailed, Start, Session, IInv, TypeOK,
         KeptInv, Undecided, Active
<1>2. Op(InitOf(o)) = o /\ Kind(InitOf(o)) = "init"
  BY Names
<1>3. ServiceInv' /\ callBar' = callBar
  <2>1. CASE ExchangeRefused(InitOf(o))
    <3>1. PICK why \in {"disposed", "aborted"} :
            /\ phase' = [phase EXCEPT ![o] = "initFailed"] /\ outcome' = [outcome EXCEPT ![o] = why]
            /\ why = "disposed" => disposed
      BY <1>2, <2>1 DEF ExchangeRefused, Reject
    <3> QED BY <1>1, <3>1, MoveStep
  <2>2. CASE ExchangePosted(InitOf(o), s)
    <3>1. /\ phase' = [phase EXCEPT ![o] = "initializing"]
          /\ outcome' = [outcome EXCEPT ![o] = "none"]
      BY <1>1, <1>2, <2>2 DEF ExchangePosted, IInv, TypeOK
    <3> QED BY <1>1, <3>1, MoveStep
  <2>3. CASE PostFailed(InitOf(o), s)
    <3>1. PICK why \in {"failed"} :
            phase' = [phase EXCEPT ![o] = "initFailed"] /\ outcome' = [outcome EXCEPT ![o] = why]
      BY <1>2, <2>3 DEF PostFailed, Reject
    <3> QED BY <1>1, <3>1, MoveStep
  <2> QED BY <2>1, <2>2, <2>3 DEF Initialize
<1>4. \A j \in Jobs : /\ sess'[JobOf(j)] = sess[JobOf(j)]
                     /\ work'[JobOf(j)] = work[JobOf(j)]
  BY Names DEF Initialize, ExchangeRefused, ExchangePosted, PostFailed, Start, IInv, TypeOK
<1>5. \A r \in Ops : worker'[r] = "live" => worker[r] = "live" \/ (session = None /\ r = s)
  BY <1>1 DEF Initialize, ExchangePosted, PostFailed, StopWorker, Opened, IInv, TypeOK
<1>6. session = None => \A x \in Exchanges : sess[x] # s
  BY DEF Session, IInv, FreshNames, Unopened
<1>7. \A j \in Jobs : Outstanding(JobOf(j)) => sess[JobOf(j)] \in Ops
  BY Names DEF IInv, OutstandingIsOpen
<1>8. Guests' \subseteq Guests
  BY <1>4, <1>5, <1>6, <1>7, Names DEF Guests, Outstanding
<1> QED BY <1>1, <1>3, <1>8, GuestStep

\* The job's message is posted to a worker that holds none.
LEMMA PostedServes ==
  ASSUME IInv, KeptInv, ServiceInv, NEW o \in Ops, phase[o] \in {"settled", "ready"}, session # None,
         ExchangePosted(JobOf(o), session)
  PROVE  ServiceInv' /\ ServiceStep
<1>1. /\ UNCHANGED <<disposed, busy, worker>> /\ ~disposed
      /\ phase' = [phase EXCEPT ![o] = "exchanging"]
      /\ outcome' = [outcome EXCEPT ![o] = "none"] /\ Active(o)
  <2>1. UNCHANGED <<disposed, busy, worker, outcome>> /\ ~disposed /\ Active(o)
    BY DEF ExchangePosted, Start, Opened, Active
  <2>2. outcome[o] = "none" /\ outcome' = [outcome EXCEPT ![o] = "none"]
    BY <2>1 DEF IInv, TypeOK, KeptInv, Undecided
  <2>3. phase' = [phase EXCEPT ![o] = "exchanging"]
    BY Names DEF ExchangePosted
  <2> QED BY <2>1, <2>2, <2>3
<1>2. ServiceInv' /\ callBar' = callBar
  BY <1>1, MoveStep
<1>3. Guests = {}
  BY NothingOpen, Names DEF IInv, OutstandingIsOpen, Guests
<1>4. \A j \in Jobs \ {o} : sess'[JobOf(j)] = sess[JobOf(j)] /\ work'[JobOf(j)] = work[JobOf(j)]
  BY Names DEF ExchangePosted, Start, IInv, TypeOK
<1>5. \A j \in Jobs \ {o} : j \notin Guests'
  BY <1>1, <1>3, <1>4 DEF Guests, Outstanding
<1>6. sess'[JobOf(o)] = session /\ work'[JobOf(o)] = "posted"
  BY Names DEF ExchangePosted, Start, IInv, TypeOK
<1>7. worker[session] = "live"
  BY DEF IInv, LiveIsSession
<1>8. CASE o \in Jobs
  <2>1. Guests' = {o}
    BY <1>1, <1>5, <1>6, <1>7, <1>8 DEF Guests, Outstanding
  <2>2. guestBar' = o /\ guestBar = None
    BY <1>3, <2>1 DEF guestBar
  <2>3. callBar[o] = "active"
    BY <1>8 DEF callBar
  <2>4. Service!StartGuest(o)
    BY <1>1, <1>2, <2>2, <2>3 DEF Service!StartGuest
  <2> QED BY <1>2, <1>8, <2>4 DEF ServiceStep, Service!Next
<1>9. CASE o \notin Jobs
  <2>1. Guests' \subseteq Guests
    BY <1>3, <1>5, <1>9 DEF Guests
  <2> QED BY <1>1, <1>2, <2>1, GuestStep
<1> QED BY <1>8, <1>9

LEMMA SendJobServes ==
  ASSUME IInv, KeptInv, ServiceInv, NEW o \in Ops, SendJob(o),
         (phase[o] = "settled" /\ session # None) \/ phase[o] = "ready"
  PROVE  ServiceInv' /\ ServiceStep
<1>1. Active(o) /\ Op(JobOf(o)) = o /\ Kind(JobOf(o)) = "job" /\ JobOf(o) \in Exchanges
  BY Names DEF Active
<1>2. ASSUME NEW why \in {"timeout", "disposed", "aborted"}, Reject(JobOf(o), why),
             why = "disposed" => disposed, UNCHANGED <<disposed, busy, sess, work, worker>>
      PROVE  ServiceInv' /\ ServiceStep
  <2>1. phase' = [phase EXCEPT ![o] = "unwinding"] /\ outcome' = [outcome EXCEPT ![o] = why]
    BY <1>1, <1>2 DEF Reject
  <2>2. ServiceInv' /\ callBar' = callBar
    BY <1>1, <1>2, <2>1, MoveStep
  <2>3. Guests' \subseteq Guests
    BY <1>2 DEF Guests, Outstanding
  <2> QED BY <1>2, <2>2, <2>3, GuestStep
<1>3. CASE ExchangeRefused(JobOf(o)) /\ UNCHANGED <<session, worker, sess>>
  BY <1>2, <1>3 DEF ExchangeRefused
<1>4. CASE ExchangePosted(JobOf(o), Session(o))
  <2>1. session # None
    BY <1>4 DEF ExchangePosted, Start, IInv, InitKeepsSession
  <2> QED BY <1>4, <2>1, PostedServes DEF Session
<1>5. CASE PostFailed(JobOf(o), Session(o))
  <2>1. Session(o) \in Ops
    BY DEF Session, IInv, TypeOK
  <2>2. UNCHANGED <<disposed, busy, work>>
    BY <1>5 DEF PostFailed, Start
  <2>3. PICK why \in {"failed"} :
          phase' = [phase EXCEPT ![o] = "unwinding"] /\ outcome' = [outcome EXCEPT ![o] = why]
    BY <1>1, <1>5 DEF PostFailed, Reject
  <2>4. ServiceInv' /\ callBar' = callBar
    BY <1>1, <2>2, <2>3, MoveStep
  <2>5. \A j \in Jobs \ {o} : sess'[JobOf(j)] = sess[JobOf(j)]
    BY <1>5, Names DEF PostFailed, Start, IInv, TypeOK
  <2>6. worker' = [worker EXCEPT ![Session(o)] = "terminated"] /\ sess'[JobOf(o)] = Session(o)
    BY <1>1, <1>5 DEF PostFailed, Start, StopWorker, IInv, TypeOK
  <2>7. \A j \in Jobs : Outstanding(JobOf(j)) => sess[JobOf(j)] \in Ops
    BY Names DEF IInv, OutstandingIsOpen
  <2>8. Guests' \subseteq Guests
    BY <2>1, <2>2, <2>5, <2>6, <2>7 DEF Guests, Outstanding, IInv, TypeOK
  <2> QED BY <2>2, <2>4, <2>8, GuestStep
<1> QED BY <1>2, <1>3, <1>4, <1>5 DEF SendJob, clientVars, exchangeVars, sessionVars

LEMMA AfterSettledServes ==
  ASSUME IInv, KeptInv, ServiceInv, NEW o \in Ops, AfterSettled(o)
  PROVE  ServiceInv' /\ ServiceStep
<1>1. CASE disposed /\ Reject(JobOf(o), "disposed")
           /\ UNCHANGED <<clientVars, aborted, waitsFor, exchangeVars, sessionVars>>
  <2>1. /\ phase' = [phase EXCEPT ![o] = "unwinding"] /\ outcome' = [outcome EXCEPT ![o] = "disposed"]
        /\ UNCHANGED <<disposed, busy, sess, work, worker>> /\ Active(o)
    BY <1>1, Names DEF AfterSettled, Reject, clientVars, exchangeVars, sessionVars, Active
  <2>2. ServiceInv' /\ callBar' = callBar
    BY <1>1, <2>1, MoveStep
  <2>3. Guests' \subseteq Guests
    BY <2>1 DEF Guests, Outstanding
  <2> QED BY <2>1, <2>2, <2>3, GuestStep
<1> QED BY <1>1, SendJobServes, InitializeServes DEF AfterSettled

\* The call returns what it was decided to return, and frees the client.
LEMMA ReturnServes ==
  ASSUME IInv, KeptInv, ServiceInv, NEW o \in Ops, Return(o)
  PROVE  ServiceInv' /\ ServiceStep
<1>1. /\ \A q \in Ops : phase'[q] = IF q = o THEN "returned" ELSE phase[q]
      /\ UNCHANGED <<disposed, outcome, sess, work, worker>> /\ Active(o)
  BY DEF Return, exchangeVars, sessionVars, IInv, TypeOK, Active
<1>2. Guests' = Guests
  BY <1>1 DEF Guests, Outstanding
<1>3. o = Creation => ~busy
  BY <1>1, Names DEF ServiceInv, BusyIsServing, IInv, OneActive, Active, Created
<1>4. ServiceInv'
  BY <1>1, <1>3 DEF Return, ServiceInv, BusyIsServing, ReasonsHold, Active
<1>5. CASE o = Creation
  <2>1. callBar' = callBar
    BY <1>1, <1>5, Names DEF callBar, Ended
  <2> QED BY <1>1, <1>2, <1>4, <2>1, GuestStep
<1>6. CASE o \in Jobs
  <2>1. callBar[o] = "active" /\ outcome[o] # "busy" /\ (outcome[o] = "disposed" => disposed)
    BY <1>1, <1>6 DEF callBar, Active, ServiceInv, ReasonsHold
  <2>2. callBar' = [callBar EXCEPT ![o] = IF outcome[o] = "disposed" THEN "closed" ELSE "settled"]
    BY <1>1, <1>6, <2>1, Names DEF callBar, Ended
  <2>3. UNCHANGED <<guestBar, disposed>>
    BY <1>1, <1>2 DEF guestBar
  <2>4. Service!Settle(o)
    BY <2>1, <2>2, <2>3 DEF Service!Settle
  <2> QED BY <1>4, <1>6, <2>4 DEF ServiceStep, Service!Next
<1> QED BY <1>5, <1>6, Names

LEMMA MicrotaskServes ==
  ASSUME IInv, KeptInv, ServiceInv, NEW o \in Ops, Microtask(o)
  PROVE  ServiceInv' /\ ServiceStep
<1>1. CASE Wake(o)
  <2>1. /\ phase' = [phase EXCEPT ![o] = "settled"] /\ outcome' = [outcome EXCEPT ![o] = "none"]
        /\ UNCHANGED <<disposed, busy, sess, work, worker>> /\ Active(o)
    BY <1>1 DEF Wake, Woken, Finish, exchangeVars, sessionVars, Active
  <2>2. ServiceInv' /\ callBar' = callBar
    BY <2>1, MoveStep
  <2>3. Guests' \subseteq Guests
    BY <2>1 DEF Guests, Outstanding
  <2> QED BY <2>1, <2>2, <2>3, GuestStep
<1>2. CASE AfterInit(o)
  <2>1. /\ \/ /\ o = Creation /\ phase' = [phase EXCEPT ![o] = "returned"]
           /\ outcome' = [outcome EXCEPT ![o] = "result"]
        \/ /\ phase' = [phase EXCEPT ![o] = "ready"]
           /\ outcome' = [outcome EXCEPT ![o] = "none"]
    BY <1>2 DEF AfterInit, IInv, TypeOK, KeptInv, Undecided
  <2>2. UNCHANGED <<disposed, busy, sess, work, worker>> /\ Active(o)
    BY <1>2 DEF AfterInit, clientVars, exchangeVars, Active
  <2>3. ServiceInv' /\ callBar' = callBar
    BY <2>1, <2>2, MoveStep
  <2>4. Guests' \subseteq Guests
    BY <2>2 DEF Guests, Outstanding
  <2> QED BY <2>2, <2>3, <2>4, GuestStep
<1>3. CASE InitFailed(o)
  <2>1. /\ phase' = [phase EXCEPT ![o] = "unwinding"] /\ outcome' = [outcome EXCEPT ![o] = outcome[o]]
        /\ UNCHANGED <<disposed, busy, sess, work>> /\ Active(o)
    BY <1>3 DEF InitFailed, Active, IInv, TypeOK
  <2>2. ServiceInv' /\ callBar' = callBar
    BY <2>1, MoveStep DEF ServiceInv, ReasonsHold
  <2>3. sess[InitOf(o)] \in Ops /\ StopWorker(sess[InitOf(o)]) /\ InitOf(o) \in Exchanges
    BY <1>3, Names DEF InitFailed, IInv, InitKeepsSession
  <2>4. Guests' \subseteq Guests
    BY <2>1, <2>3, StopWorkerGuests
  <2> QED BY <2>1, <2>2, <2>4, GuestStep
<1> QED BY <1>1, <1>2, <1>3, AfterSettledServes, SendJobServes, ReturnServes DEF Microtask, AfterReady

\* GraceTimer and Fail: the guest goes with its worker.
LEMMA FailServes ==
  ASSUME IInv, KeptInv, ServiceInv, NEW x \in Exchanges,
         UNCHANGED <<disposed, busy, sess, work>>, StopWorker(sess[x]),
         \/ state[x] = "stopping" /\ UNCHANGED <<phase, outcome>>
         \/ state[x] = "running" /\ Reject(x, "failed")
  PROVE  ServiceInv' /\ ServiceStep
<1>1. sess[x] \in Ops /\ Op(x) \in Ops
  BY Names DEF IInv, TypeOK, OpenInSession, Open
<1>2. ServiceInv' /\ callBar' = callBar
  <2>1. CASE UNCHANGED <<phase, outcome>>
    BY <2>1, RestStep
  <2>2. CASE state[x] = "running" /\ Reject(x, "failed")
    <3>1. Active(Op(x))
      BY <2>2, Names DEF IInv, RunningIsAwaited, Active
    <3>2. PICK p \in {"initFailed", "unwinding"} :
            /\ phase' = [phase EXCEPT ![Op(x)] = p]
            /\ outcome' = [outcome EXCEPT ![Op(x)] = "failed"]
      BY <2>2 DEF Reject
    <3>3. busy' = busy /\ (disposed => disposed')
      OBVIOUS
    <3>4. p \notin {"idle", "returned"} /\ "failed" \notin {"busy", "disposed"}
      OBVIOUS
    <3> QED BY <1>1, <3>1, <3>2, <3>3, <3>4, MoveStep
  <2> QED BY <2>1, <2>2
<1> QED BY <1>1, <1>2, StopWorkerGuests, GuestStep

LEMMA ReceiveServes ==
  ASSUME IInv, KeptInv, ServiceInv, NEW x \in Exchanges, Receive(x)
  PROVE  ServiceInv' /\ ServiceStep
<1>1. UNCHANGED <<disposed, busy, sess, worker>> /\ Op(x) \in Ops /\ work[x] \in Answers
  BY Names DEF Receive
<1>2. ServiceInv' /\ callBar' = callBar
  <2>1. CASE UNCHANGED <<phase, outcome>>
    BY <1>1, <2>1, RestStep
  <2>2. CASE state[x] = "running"
    <3>1. Active(Op(x)) /\ outcome[Op(x)] = "none"
      BY <2>2, Names DEF IInv, RunningIsAwaited, Active, KeptInv, Undecided
    <3>2. PICK p \in {"initDone", "initFailed", "unwinding"}, why \in Answers \cup {"none"} :
            phase' = [phase EXCEPT ![Op(x)] = p] /\ outcome' = [outcome EXCEPT ![Op(x)] = why]
      <4>1. CASE Reject(x, work[x])
        <5>1. /\ \E p \in {"initFailed", "unwinding"} : phase' = [phase EXCEPT ![Op(x)] = p]
              /\ outcome' = [outcome EXCEPT ![Op(x)] = work[x]]
          BY <4>1 DEF Reject
        <5> QED BY <1>1, <5>1
      <4>2. CASE phase' = [phase EXCEPT ![Op(x)] = "initDone"] /\ UNCHANGED outcome
        <5>1. outcome = [o \in Ops |-> outcome[o]]
          BY DEF IInv, TypeOK
        <5>2. outcome' = [outcome EXCEPT ![Op(x)] = "none"]
          BY <1>1, <3>1, <4>2, <5>1
        <5> QED BY <4>2, <5>2
      <4> QED BY <2>2, <4>1, <4>2 DEF Receive
    <3>3. p \notin {"idle", "returned"} /\ why \notin {"busy", "disposed"}
      BY DEF Answers
    <3>4. busy' = busy /\ (disposed => disposed')
      BY <1>1
    <3> QED BY <1>1, <3>1, <3>2, <3>3, <3>4, MoveStep
  <2> QED BY <2>1, <2>2 DEF Receive
<1>3. \A y \in Exchanges : Outstanding(y)' => Outstanding(y)
  BY DEF Receive, Outstanding, Answers, IInv, TypeOK
<1> QED BY <1>1, <1>2, <1>3, GuestsKept, GuestStep

LEMMA TaskServes ==
  ASSUME IInv, KeptInv, ServiceInv, Task
  PROVE  ServiceInv' /\ ServiceStep
<1>1. ASSUME NEW o \in Ops, WaitTimer(o)
      PROVE  ServiceInv' /\ ServiceStep
  <2>1. /\ phase' = [phase EXCEPT ![o] = "unwinding"] /\ outcome' = [outcome EXCEPT ![o] = "timeout"]
        /\ UNCHANGED <<disposed, busy, sess, work, worker>> /\ Active(o)
    BY <1>1 DEF WaitTimer, Finish, exchangeVars, sessionVars, Active
  <2>2. ServiceInv' /\ callBar' = callBar
    BY <2>1, MoveStep
  <2>3. Guests' \subseteq Guests
    BY <2>1 DEF Guests, Outstanding
  <2> QED BY <2>1, <2>2, <2>3, GuestStep
<1>2. ASSUME NEW x \in Exchanges, Timer(x)
      PROVE  ServiceInv' /\ ServiceStep
  BY <1>2, InterruptServes DEF Timer
<1>3. ASSUME NEW x \in Exchanges, GraceTimer(x) \/ Fail(x)
      PROVE  ServiceInv' /\ ServiceStep
  BY <1>3, FailServes DEF GraceTimer, Fail, callVars
<1> QED BY <1>1, <1>2, <1>3, ReceiveServes DEF Task

\* A message begun or answered is still its call's.
LEMMA WorkerThreadServes ==
  ASSUME IInv, KeptInv, ServiceInv, WorkerThread
  PROVE  ServiceInv' /\ ServiceStep
<1>1. UNCHANGED <<phase, outcome, busy, disposed, sess, worker>>
  BY DEF WorkerThread, Execute, AnswerInit, AnswerJob, clientVars, callVars, sessionVars
<1>2. \A y \in Exchanges : Outstanding(y)' => Outstanding(y)
  BY DEF WorkerThread, Execute, AnswerInit, AnswerJob, Outstanding, Answers, IInv, TypeOK
<1> QED BY <1>1, <1>2, RestStep, GuestsKept, GuestStep

LEMMA StepServes ==
  IInv /\ KeptInv /\ ServiceInv /\ [Next]_vars => ServiceInv' /\ ServiceStep
<1> SUFFICES ASSUME IInv, KeptInv, ServiceInv, [Next]_vars
             PROVE  ServiceInv' /\ ServiceStep
  OBVIOUS
<1>1. CASE UNCHANGED vars
  <2>1. UNCHANGED <<phase, outcome, busy, disposed, sess, work, worker>>
    BY <1>1 DEF vars, clientVars, callVars, exchangeVars, sessionVars
  <2>2. Guests' \subseteq Guests
    BY <2>1 DEF Guests, Outstanding
  <2> QED BY <2>1, <2>2, RestStep, GuestStep
<1>2. CASE Create
  BY <1>2, Names, InitializeServes DEF Create
<1>3. CASE Caller
  BY <1>2, <1>3, DisposeServes, CallServes, AbortServes DEF Caller
<1> QED BY <1>1, <1>3, MicrotaskServes, TaskServes, WorkerThreadServes DEF Next

\* createWorkerCompiler implements the abstract service: calls are served one at
\* a time, and no guest starts before the one before it stopped.
THEOREM ClientServes == Spec => ImplementsService
<1>1. Init => KeptInv /\ ServiceInv /\ Service!Init
  BY KeptInit, ServiceInit
<1>2. IInv /\ KeptInv /\ ServiceInv /\ [Next]_vars
        => KeptInv' /\ ServiceInv' /\ [Service!Next]_(Service!vars)
  BY StepKeeps, StepServes DEF ServiceStep
<1> QED BY <1>1, <1>2, Invariance, PTL DEF Spec, ImplementsService, Service!Spec
=============================================================================
