------------------------------ MODULE Protocol ------------------------------
(***************************************************************************)
(* How a thrown value crosses from the worker to the client                *)
(* (sdk/typescript/protocol.ts): encodeError in the worker, decodeError in *)
(* the client.  A value is a record of its class and fields; its cause is  *)
(* the sequence of the names along the cause chain, a cause that is no     *)
(* Error ending it.  Messages and stderr are carried over unread.          *)
(***************************************************************************)
EXTENDS Integers, Sequences, SequencesExt

CONSTANT None

\* causeDepth and decodeDepth
CauseDepth  == 4
DecodeDepth == 8

FailureKinds == {"exit", "trap", "limit", "protocol"}

Thrown(class, name, cause) ==
  [class |-> class, name |-> name, cause |-> cause,
   stage |-> None, diagnostics |-> << >>, exitCode |-> None, kind |-> None, limit |-> None]

\* The constructor of CompileError: an exit when a status is given, else a trap.
CompileError(stage, diagnostics, exitCode, kind, limit, cause) ==
  [class |-> "CompileError", name |-> "CompileError", cause |-> cause, stage |-> stage,
   diagnostics |-> diagnostics, exitCode |-> exitCode, limit |-> limit,
   kind |-> IF kind # None THEN kind ELSE IF exitCode = None THEN "trap" ELSE "exit"]

\* summarize: the chain down to a depth; String() of a value gives it a name.
Summarize(cause) ==
  LET short == SubSeq(cause, 1, IF Len(cause) < CauseDepth THEN Len(cause) ELSE CauseDepth)
  IN [i \in DOMAIN short |-> IF short[i] = "value" THEN "Error" ELSE short[i]]

\* Mutant: the failure's budget is not put on the wire.
EncodeWithoutLimit(e) ==
  [kind |-> IF e.class = "CompileError" THEN "compile" ELSE "cancel", name |-> e.name,
   stage |-> e.stage, diagnostics |-> e.diagnostics, exitCode |-> e.exitCode,
   failure |-> e.kind, limit |-> None, cause |-> Summarize(e.cause)]

Encode(e) ==
  LET Wire(kind, name, cause) ==
        [kind |-> kind, name |-> name, stage |-> None, diagnostics |-> << >>,
         exitCode |-> None, failure |-> None, limit |-> None, cause |-> cause]
      cancelled == e.class = "DOMException" /\ e.name \in {"TimeoutError", "AbortError"}
  IN CASE e.class = "CompileError" ->
            [Wire("compile", None, Summarize(e.cause)) EXCEPT
               !.stage = e.stage, !.diagnostics = e.diagnostics, !.exitCode = e.exitCode,
               !.failure = e.kind, !.limit = e.limit]
       [] cancelled -> Wire("cancel", e.name, << >>)
       [] e.class = "TypeError"  -> Wire("type", None, Summarize(e.cause))
       [] e.class = "RangeError" -> Wire("range", None, Summarize(e.cause))
       [] e.class \in {"Error", "DOMException"} /\ ~cancelled -> Wire("error", e.name, Summarize(e.cause))
       [] OTHER -> Wire("error", "Error", << >>)

\* restore, as far as decoding goes
Restore(cause) ==
  SubSeq(cause, 1, IF Len(cause) < DecodeDepth THEN Len(cause) ELSE DecodeDepth)

\* What the client throws; limits are the names defaultLimits has.
Decode(w, limits) ==
  CASE w.kind = "compile" ->
         CompileError(w.stage, w.diagnostics, w.exitCode,
                      IF w.failure \in FailureKinds THEN w.failure ELSE None,
                      IF w.limit \in limits THEN w.limit ELSE None, Restore(w.cause))
    [] w.kind = "type"   -> Thrown("TypeError", "TypeError", Restore(w.cause))
    [] w.kind = "range"  -> Thrown("RangeError", "RangeError", Restore(w.cause))
    [] w.kind = "cancel" ->
         Thrown("DOMException", IF w.name = "AbortError" THEN "AbortError" ELSE "TimeoutError", << >>)
    [] OTHER -> Thrown("Error", w.name, Restore(w.cause))
=============================================================================
