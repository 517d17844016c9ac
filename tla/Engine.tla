------------------------------- MODULE Engine -------------------------------
(***************************************************************************)
(* The execution core (sdk/typescript/engine.ts) over runCommand's guests: *)
(* a job runs the compiler and the selected generators one after another,  *)
(* each in a fresh filesystem, and ends in a result or in one error that   *)
(* says which stage failed and how.                                        *)
(***************************************************************************)
EXTENDS ResourceFS

CONSTANT Jobs    \* the stages of the jobs, in order

P == INSTANCE Protocol

\* The names of defaultLimits.
Limits == {"memoryPages", "workspaceBytes", "workspaceEntries", "pathBytes", "requestBytes",
           "outputBytes", "outputEntries", "stdoutBytes", "stderrBytes"}

\* What may come out of a guest, or of the host while it runs one: errors, by
\* name, or an exception of the guest's own, which is a value and no Error.
Traps == {"RuntimeError", "RangeError", "Error", "value"}

Reasons    == {"AbortError", "TimeoutError"}
Languages  == {"cpp", "go", "rust", "zig"}
StageNames == {"compiler"} \cup Languages

ASSUME EngineAssumption ==
  /\ Jobs \subseteq Seq(StageNames) \ {<< >>}
  /\ None \notin Limits \cup {"limit", "trap", "exit", "protocol"}

VARIABLES
  job,           \* the stages still to run
  phase,         \* execute: between guests, in one, or over
  due,           \* why control.cancelled() would answer that the job must stop
  diagnostics,   \* the stages that wrote to stderr, in order
  outputs,       \* the languages whose files were collected
  reply,         \* the result, or what was thrown
  exceeded       \* the budget a call of the last guest exceeded

engine == <<job, phase, diagnostics, outputs, reply>>
vars == <<fs, engine, due, exceeded>>

TypeOK ==
  /\ job \in Seq(StageNames) /\ outputs \subseteq Languages
  /\ phase \in {"between", "guest", "over"} /\ due \subseteq Reasons
  /\ readonly \in BOOLEAN /\ kind \in [Inodes -> {"free", "file", "dir"}]
  /\ size \in [Files -> Nat] /\ charged \in [Files -> Nat] /\ used \in [Budgets -> Nat]
  /\ entries \in Nat /\ fds \in Seq(Inodes \cup {None}) /\ live \in Nat
  /\ stop \in Limits \cup {None} /\ exceeded \in Limits \cup {None}

Init ==
  /\ InitFS
  /\ job \in Jobs /\ phase = "between" /\ due = {}
  /\ diagnostics = << >> /\ outputs = {} /\ reply = None /\ exceeded = None

Cancelled(reason) == P!Thrown("DOMException", reason, << >>)

Rejects(error) == phase' = "over" /\ reply' = error /\ UNCHANGED <<job, outputs>>

\* execute: throwIfCancelled, then runCommand stages a fresh filesystem.
Begin ==
  /\ phase = "between" /\ job # << >> /\ UNCHANGED <<diagnostics, exceeded>>
  /\ \/ due # {} /\ UNCHANGED <<fs, due>>
        /\ Rejects(Cancelled(IF "AbortError" \in due THEN "AbortError" ELSE "TimeoutError"))
     \/ due = {} /\ Stage(Head(job) = "compiler")
        /\ phase' = "guest" /\ UNCHANGED <<job, outputs, reply, due>>

GuestCalls == phase = "guest" /\ Call /\ UNCHANGED <<engine, due, exceeded>>

\* The deadline passes, or the client stores the job's token; what passes while
\* a guest runs and no poll of the guest sees is as if it passed after it.
Cancel ==
  /\ phase = "between" /\ \E reason \in Reasons \ due : due' = due \cup {reason}
  /\ UNCHANGED <<fs, engine, exceeded>>

\* collectFiles, which only a generator that exited 0 reaches.
Collect == IF readonly THEN {} ELSE CollectFails

\* The guest is over, and its filesystem with it.
Gone == Stage(TRUE) /\ exceeded' = stop

Fails(code, why, limit, cause) ==
  /\ Rejects(P!CompileError(Head(job), diagnostics', code, why, limit, cause))
  /\ Gone /\ UNCHANGED due

\* A poll of the guest, before a call or at a check, sees that the job must
\* stop: runCommand rejects with Cancelled, for the reason the poll saw, and
\* its stderr is kept from the diagnostics.
GuestCancelled ==
  /\ phase = "guest" /\ stop = None /\ Gone /\ UNCHANGED diagnostics
  /\ \E reason \in Reasons : due' = {reason} /\ Rejects(Cancelled(reason))

\* A diagnostic records the stage whose guest wrote to stderr.
Wrote == diagnostics' = IF size[Stderr] = 0 THEN diagnostics ELSE Append(diagnostics, Head(job))

\* The name of what a CommandError is caused by.
NameOf(cause) == IF cause \in Limits THEN "LimitError" ELSE IF cause \in Traps THEN cause ELSE "Error"

\* The guest trapped by itself, or after a call that exceeded a budget, or its
\* files could not be collected: a CommandError, whose cause names a limit.
GuestFails ==
  /\ phase = "guest" /\ Wrote
  /\ \E cause \in IF stop # None THEN {stop} ELSE Traps \cup Collect :
       Fails(None, IF cause \in Limits THEN "limit" ELSE "trap",
             IF cause \in Limits THEN cause ELSE None, <<"CommandError", NameOf(cause)>>)

\* The guest returned or called proc_exit with another status than 0.
GuestExits ==
  /\ phase = "guest" /\ stop = None /\ Wrote
  /\ Fails(1, None, None, << >>)

\* The guest returned 0: the compiler owes a request, a generator no stdout.
GuestReturns ==
  /\ phase = "guest" /\ stop = None /\ Wrote /\ Collect = {}
  /\ IF (size[Stdout] = 0) = readonly THEN Fails(None, "protocol", None, << >>)
     ELSE /\ phase' = "between" /\ job' = Tail(job) /\ UNCHANGED <<reply, due>> /\ Gone
          /\ outputs' = outputs \cup (IF readonly THEN {} ELSE {Head(job)})

\* The last stage is done: compileStaged or generateStaged answers.
Answer ==
  /\ phase = "between" /\ job = << >>
  /\ phase' = "over" /\ reply' = [outputs |-> outputs, diagnostics |-> diagnostics]
  /\ UNCHANGED <<fs, job, diagnostics, outputs, due, exceeded>>

Next == \/ Begin \/ GuestCalls \/ Cancel \/ GuestCancelled \/ GuestFails \/ GuestExits
        \/ GuestReturns \/ Answer

Spec == Init /\ [][Next]_vars

-----------------------------------------------------------------------------
Thrown == phase = "over" /\ "class" \in DOMAIN reply

\* A failure says what happened: a budget is named if and only if the guest
\* exceeded one or its files did, in the stage that ran; a cancellation has a
\* reason that was there; and the client of a worker is thrown the same error as
\* the caller of the direct compiler.  Only its causes may differ: each is
\* there, and an Error has its name, but an exception of the guest's arrives as
\* an Error (engine.ts:104-135, types.ts:144-149, protocol.ts:113-122).
Honest(error, stage, limit, reasons) ==
  /\ error.class = "CompileError" => error.stage = stage
  /\ error.class = "DOMException" => error.name \in reasons
  /\ limit # None => error.kind = "limit" /\ error.limit = limit
  /\ limit = None /\ error.kind = "limit" =>
       error.limit \in {"outputBytes", "pathBytes"} /\ error.stage # "compiler"
  /\ error.kind # "limit" => error.limit = None
  /\ error.exitCode # None => error.kind = "exit"
  /\ LET got == P!Decode(P!Encode(error), Limits) IN
       /\ [got EXCEPT !.cause = error.cause] = error
       /\ Len(got.cause) = Len(error.cause)
       /\ \A i \in DOMAIN error.cause :
            got.cause[i] = IF error.cause[i] = "value" THEN "Error" ELSE error.cause[i]

FailureNamesCause == Thrown => Honest(reply, Head(job), exceeded, due)
=============================================================================
