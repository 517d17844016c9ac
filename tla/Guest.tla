-------------------------------- MODULE Guest --------------------------------
(***************************************************************************)
(* One command run: a guest instrumented by the rewriter (Instrument), the *)
(* imports and the stop protocol of the host (sdk/typescript/runtime.ts,   *)
(* runCommand), and the job's cancellation (interrupt.ts, JobControl) that *)
(* another thread requests at any time.                                    *)
(*                                                                         *)
(* The guest runs on its own thread without yielding: an action is one     *)
(* instruction of the instrumented module, or one step of a sleep.  Beside *)
(* it, ghost runs the module the caller supplied: it takes the same step   *)
(* whenever the guest executes an instruction the rewriter did not add.    *)
(***************************************************************************)
EXTENDS Instrument

CONSTANTS
  Programs,     \* the modules a caller may supply
  Sleepers,     \* the imports that are poll_oneoff
  MaxDepth      \* frames the engine's stack holds

Stops   == {"exit", "failure", "cancel"}
Reasons == {"abort", "timeout"}
Naps    == {"poll", "load", "wait", "blocked", "woken"}

ASSUME GuestAssumption ==
  /\ MaxDepth \in Nat /\ None \notin Stops \cup Reasons \cup Naps
  /\ \A m \in Programs : Valid(m) /\ Sleepers \subseteq 0..(m.imports - 1)

VARIABLES
  program, code,        \* the caller's module and the one compiled
  phase,                \* "instantiate", "start", "main", "over"
  stack,                \* the guest's frames: function and next instruction
  ghost,                \* the frames of the caller's module
  countdown,
  known,                \* the host has found the countdown export
  stop,                 \* why the host stopped the guest
  answers,              \* the import answers seen: "acted", "refused" before an exit
  trapped,
  cell, late,           \* the token is in the shared cell; the deadline has passed
  notified,             \* Atomics.notify has followed the store
  reason,               \* JobControl.#reason
  nap                   \* where the thread is in JobControl.sleep

host == <<cell, late, notified>>
vars == <<program, code, phase, stack, ghost, countdown, known, stop, answers,
          trapped, cell, late, notified, reason, nap>>
static == <<program, code>>

Frame(f) == [fn |-> f, pc |-> 1]

\* The guest's frames and the countdown are the compiled module's own state, and
\* Faithful and HaltsAtOnce say what they may be; the rest is the host's.
TypeOK ==
  /\ program \in Programs /\ code = Instrumented(program)
  /\ phase \in {"instantiate", "start", "main", "over"}
  /\ {known, trapped, cell, late, notified} \subseteq BOOLEAN
  /\ stop \in Stops \cup {None}
  /\ answers \subseteq {"acted", "refused"}
  /\ reason \in Reasons \cup {None} /\ nap \in Naps \cup {None}

Init ==
  /\ program \in Programs /\ code = Instrumented(program)
  /\ phase = "instantiate" /\ stack = <<>> /\ ghost = <<>>
  /\ countdown = Interval /\ known = FALSE /\ stop = None /\ answers = {}
  /\ trapped = FALSE /\ cell = FALSE /\ late = FALSE /\ notified = FALSE
  /\ reason = None /\ nap = None

-----------------------------------------------------------------------------
(* WebAssembly: the frames of a module m.                                  *)

Now(m, frames) ==
  LET top == Last(frames) IN
  IF top.pc > Len(m.body[top.fn]) THEN Op("end", None) ELSE m.body[top.fn][top.pc]

Callee(m, i) == IF i.op \in TableCalls THEN m.table[i.arg] ELSE i.arg
Calling(i)   == i.op \in DirectCalls \cup TableCalls \cup RefCalls

Advance(frames) == Front(frames) \o <<[Last(frames) EXCEPT !.pc = @ + 1]>>
Leave(i, frames) == IF i.op \in Tails \cup {"end", "return"} THEN Front(frames) ELSE Advance(frames)

\* Continue the loop a br names.
Repeat(m, frames) ==
  LET top  == Last(frames)
      body == m.body[top.fn]
      loop == CHOOSE k \in DOMAIN body : body[k].op = "loop" /\ body[k].arg = body[top.pc].arg
  IN Front(frames) \o <<[top EXCEPT !.pc = loop + 1]>>

Instruction == Now(code, stack)
Original    == Now(program, ghost)
IsThunk     == Last(stack).fn \in code.thunks
Executing   == stack # <<>> /\ nap = None

-----------------------------------------------------------------------------
(* The host.                                                               *)

\* JobControl.cancelled: the cell before the deadline; the first reason stays.
Cancelled == reason # None \/ cell \/ late
Reason    == IF reason # None THEN reason ELSE IF cell THEN "abort" ELSE IF late THEN "timeout" ELSE None

\* halt: the first reason to stop counts; the countdown is zeroed if it exists.
Halt(why) ==
  /\ stop' = IF stop = None THEN why ELSE stop
  /\ countdown' = IF known THEN 0 ELSE countdown

\* A trap unwinds every frame; after a stop it is the stop itself.
Trap == stack' = <<>> /\ ghost' = <<>> /\ trapped' = TRUE

\* Mutant: an import acts whatever has been recorded.
AnswerAlways(f) ==
  /\ UNCHANGED reason
  /\ IF f = code.exit THEN stop' = "exit" /\ UNCHANGED <<countdown, answers>>
     ELSE answers' = answers \cup {"acted"} /\ UNCHANGED <<stop, countdown>>

\* An import, as the wrapper runs it: nothing acts once stopped; the job is
\* polled first; a host error (a budget, a throwing signal) is a failure.
Answer(f) ==
  \/ /\ stop # None
     /\ answers' = (IF stop = "exit" THEN answers ELSE answers \cup {"refused"})
     /\ UNCHANGED <<stop, countdown, reason>>
  \/ /\ stop = None /\ Cancelled
     /\ reason' = Reason /\ Halt("cancel") /\ answers' = answers \cup {"refused"}
  \/ /\ stop = None /\ Halt("failure")
     /\ answers' = answers \cup {"refused"} /\ UNCHANGED reason
  \/ /\ stop = None /\ ~Cancelled /\ UNCHANGED reason
     /\ IF f = code.exit THEN Halt("exit") /\ UNCHANGED answers
        ELSE answers' = answers \cup {"acted"} /\ UNCHANGED <<stop, countdown>>

\* interrupt, and what the check does with its answer: a nonzero answer traps,
\* zero reloads the countdown, less what the check itself costs.
Poll(rest) ==
  \/ stop # None /\ Trap /\ UNCHANGED <<countdown, stop, reason>>
  \/ stop = None /\ Cancelled /\ reason' = Reason /\ Halt("cancel") /\ Trap
  \/ stop = None /\ Halt("failure") /\ Trap /\ UNCHANGED reason
  \/ stop = None /\ ~Cancelled /\ countdown' = rest /\ stack' = Advance(stack)
     /\ UNCHANGED <<stop, reason, ghost, trapped>>

-----------------------------------------------------------------------------
(* Instructions the rewriter added.                                        *)

\* checkSequence.
RunCheck ==
  /\ Executing /\ Instruction.op = "check"
  /\ \/ countdown = 0 /\ Poll(Interval - 1)
     \/ countdown > 0 /\ countdown' = countdown - 1 /\ stack' = Advance(stack)
        /\ UNCHANGED <<stop, reason, ghost, trapped>>
  /\ UNCHANGED <<static, host, phase, known, answers, nap>>

\* chargeSequence: the poll comes when the ticks reach the countdown.
Charge(ticks) ==
  \/ ticks >= countdown /\ Poll(Interval)
  \/ ticks < countdown /\ countdown' = countdown - ticks /\ stack' = Advance(stack)
     /\ UNCHANGED <<stop, reason, ghost, trapped>>

RunCharge ==
  /\ Executing /\ Instruction.op = "charge" /\ Charge(Instruction.arg)
  /\ UNCHANGED <<static, host, phase, known, answers, nap>>

RunUnreachable ==
  /\ Executing /\ Instruction.op = "unreachable" /\ Trap
  /\ UNCHANGED <<static, host, phase, known, answers, nap, countdown, stop, reason>>

\* The return after a rewritten return_call, and the end of a thunk.
RunAddedReturn ==
  /\ Executing /\ (Instruction.op = "return" \/ (Instruction.op = "end" /\ IsThunk))
  /\ stack' = Front(stack)
  /\ UNCHANGED <<static, host, phase, known, answers, nap, countdown, stop, reason, ghost, trapped>>

\* A call that reaches a thunk.
RunThunk ==
  /\ Executing /\ Calling(Instruction) /\ Callee(code, Instruction) \in code.thunks
  /\ stack' = Leave(Instruction, stack) \o <<Frame(Callee(code, Instruction))>>
  /\ UNCHANGED <<static, host, phase, known, answers, nap, countdown, stop, reason, ghost, trapped>>

-----------------------------------------------------------------------------
(* Instructions of the caller's module.                                    *)

RunLocal ==
  /\ Executing /\ Instruction.op \in {"loop", "br", "bulk", "end"}
  /\ ~(Instruction.op = "end" /\ IsThunk)
  /\ \/ stack' = Leave(Instruction, stack) /\ ghost' = Leave(Original, ghost)
     \/ /\ Instruction.op = "br"
        /\ stack' = Repeat(code, stack) /\ ghost' = Repeat(program, ghost)
  /\ UNCHANGED <<static, host, phase, known, answers, nap, countdown, stop, reason, trapped>>

\* A call of a defined function; the engine traps when its stack is full.
RunCall ==
  /\ Executing /\ Calling(Instruction)
  /\ LET f == Callee(code, Instruction)
         rest == Leave(Instruction, stack) IN
     /\ f \in DOMAIN code.body \ code.thunks
     /\ IF Len(rest) >= MaxDepth THEN Trap
        ELSE /\ stack' = rest \o <<Frame(f)>>
             /\ ghost' = Leave(Original, ghost) \o <<Frame(Callee(program, Original))>>
             /\ UNCHANGED trapped
  /\ UNCHANGED <<static, host, phase, known, answers, nap, countdown, stop, reason>>

\* Calls of an import are direct in the rewritten code.
RunImport ==
  /\ Executing /\ Instruction.op = "call" /\ Instruction.arg \in 0..(code.imports - 2)
  /\ Instruction.arg \notin Sleepers
  /\ Answer(Instruction.arg)
  /\ stack' = Advance(stack) /\ ghost' = Leave(Original, ghost)
  /\ UNCHANGED <<static, host, phase, known, nap, trapped>>

-----------------------------------------------------------------------------
(* poll_oneoff.                                                            *)

\* The wrapper lets the sleep begin, or answers at once.
Sleep ==
  /\ Executing /\ Instruction.op = "call" /\ Instruction.arg \in Sleepers
  /\ \/ /\ stop = None /\ ~Cancelled /\ nap' = "poll"
        /\ UNCHANGED <<stack, ghost, stop, answers, countdown, reason>>
     \/ /\ stop # None \/ Cancelled
        /\ Answer(Instruction.arg)
        /\ stack' = Advance(stack) /\ ghost' = Leave(Original, ghost)
        /\ UNCHANGED nap
  /\ UNCHANGED <<static, host, phase, known, trapped>>

awake == <<static, phase, stack, ghost, countdown, known, stop, answers, trapped, cell, late>>

\* Mutant: the thread waits whatever the cell holds.
NapWaitBlind ==
  /\ nap = "wait" /\ nap' = "blocked" /\ UNCHANGED <<awake, reason, notified>>

\* The loop's head; the time asked for may have passed.
NapPoll ==
  /\ nap = "poll"
  /\ nap' \in (IF Cancelled THEN {"woken"} ELSE {"woken", "load"})
  /\ reason' = Reason /\ UNCHANGED <<awake, notified>>

\* The cell is read: the token in it is seen here, or by the poll.
NapLoad ==
  /\ nap = "load" /\ nap' = (IF cell THEN "poll" ELSE "wait")
  /\ UNCHANGED <<awake, reason, notified>>

\* Atomics.wait blocks only while the cell holds the value that was read.
NapWait ==
  /\ nap = "wait" /\ nap' = (IF cell THEN "poll" ELSE "blocked")
  /\ UNCHANGED <<awake, reason, notified>>

\* The wait ends at the deadline at the latest.
NapWake ==
  /\ nap = "blocked" /\ late /\ nap' = "poll" /\ UNCHANGED <<awake, reason, notified>>

\* The time the guest asked for is over (it may be longer than anyone waits).
NapTimer ==
  /\ nap = "blocked" /\ nap' = "poll" /\ UNCHANGED <<awake, reason, notified>>

\* After the sleep: EINTR and a recorded stop, or the event.
NapEnd ==
  /\ nap = "woken" /\ nap' = None /\ reason' = Reason
  /\ IF Cancelled THEN Halt("cancel") /\ answers' = answers \cup {"refused"}
     ELSE answers' = answers \cup {"acted"} /\ UNCHANGED <<stop, countdown>>
  /\ stack' = Advance(stack) /\ ghost' = Leave(Original, ghost)
  /\ UNCHANGED <<static, phase, known, trapped, host>>

-----------------------------------------------------------------------------
(* runCommand around the guest.                                            *)

\* The start function runs inside instantiate, before the host has the export.
Instantiate ==
  /\ phase = "instantiate" /\ phase' = "start"
  /\ IF program.start = None THEN UNCHANGED <<stack, ghost>>
     ELSE stack' = <<Frame(code.start)>> /\ ghost' = <<Frame(program.start)>>
  /\ UNCHANGED <<static, host, countdown, known, stop, answers, trapped, reason, nap>>

\* _start runs unless the start function trapped or a stop was recorded.
Main ==
  /\ phase = "start" /\ stack = <<>> /\ ~trapped /\ known' = TRUE
  /\ IF stop # None THEN phase' = "over" /\ UNCHANGED <<stack, ghost>>
     ELSE phase' = "main" /\ stack' = <<Frame(code.main)>> /\ ghost' = <<Frame(program.main)>>
  /\ UNCHANGED <<static, host, countdown, stop, answers, trapped, reason, nap>>

Over ==
  /\ stack = <<>> /\ (phase = "main" \/ (phase = "start" /\ trapped)) /\ phase' = "over"
  /\ UNCHANGED <<static, host, stack, ghost, countdown, known, stop, answers, trapped, reason, nap>>

\* What the caller gets: a cancellation, a failure, or the exit code (with the
\* collected files).
Outcome ==
  IF stop = "cancel" THEN "cancelled"
  ELSE IF stop = "failure" \/ (stop = None /\ trapped) THEN "failed" ELSE "exited"

-----------------------------------------------------------------------------
(* The thread that owns the job, and the clock.                            *)

guest == <<static, phase, stack, ghost, countdown, known, stop, answers, trapped, reason, nap>>

StoreToken == phase # "over" /\ ~cell /\ cell' = TRUE /\ UNCHANGED <<guest, late, notified>>
\* A notify wakes whoever waits at that moment, and nobody later.
Notify ==
  /\ cell /\ ~notified /\ notified' = TRUE
  /\ nap' = (IF nap = "blocked" THEN "poll" ELSE nap) /\ UNCHANGED <<awake, reason>>

Deadline   == phase # "over" /\ ~late /\ late' = TRUE /\ UNCHANGED <<guest, cell, notified>>

GuestStep ==
  \/ Instantiate \/ Main \/ Over
  \/ RunCheck \/ RunCharge \/ RunUnreachable \/ RunAddedReturn \/ RunThunk
  \/ RunLocal \/ RunCall \/ RunImport \/ Sleep
  \/ NapPoll \/ NapLoad \/ NapWait \/ NapWake \/ NapEnd

Next == GuestStep \/ NapTimer \/ StoreToken \/ Notify \/ Deadline

\* The guest's thread keeps running.  Nothing makes a guest return, a timer the
\* guest chose elapse, or anyone cancel; whoever stores the token goes on to notify.
Spec     == Init /\ [][Next]_vars
FairSpec == Spec /\ WF_vars(GuestStep) /\ WF_vars(Notify)

-----------------------------------------------------------------------------
(* Properties.                                                             *)

\* The instruction the guest is about to execute, unless the rewriter added
\* it, is the one the caller's module is about to execute, on the same
\* function: renumbering, thunks and inserted checks never change what a call,
\* a table entry or a reference reaches, nor where a branch or a return goes.
Meaning(m, i) ==
  IF Calling(i) THEN <<IF Callee(m, i) \in 0..(program.imports - 1) THEN "import" ELSE "enter",
                       Callee(m, i)>>
  ELSE <<i.op, i.arg>>
Renumbered(act) == IF act[1] = "enter" THEN <<"enter", act[2] - 1>> ELSE act
Added(i) ==
  \/ i.op \in {"check", "charge", "unreachable", "return"} \/ (i.op = "end" /\ IsThunk)
  \/ Calling(i) /\ Callee(code, i) \in code.thunks
Faithful ==
  stack # <<>> /\ ~Added(Instruction) =>
    /\ ghost # <<>> /\ Renumbered(Meaning(code, Instruction)) = Meaning(program, Original)
    /\ ~IsThunk => code.names[Last(stack).fn] = program.names[Last(ghost).fn]

\* After a stop the guest executes nothing more of its own: once the host has
\* the countdown no original instruction runs, _start is not entered, and even
\* a start function, which runs before that, reaches no import that acts.
RunsNothing   == known => ghost' \in {ghost, <<>>}
StartsNothing == phase' # "main" \/ phase = "main"
ActsNothing   == "acted" \in answers' => "acted" \in answers
HaltsAtOnce   == [][stop # None => RunsNothing /\ StartsNothing /\ ActsNothing]_vars

\* A result is honest: a run reported by its exit code saw no import refused
\* before that exit, so no output of a guest that was told EINTR by a stop is
\* passed on as a success.
HonestResult == phase = "over" /\ Outcome = "exited" => "refused" \notin answers

\* A job told to stop, by its cell or its deadline or by the host from inside
\* an import, is over in the end, whatever the guest does: loops, recursion
\* through tail calls and tables, bulk operations, sleeping.
StopEndsGuest == (cell \/ late \/ stop # None) ~> phase = "over"
=============================================================================
