----------------------------- MODULE Instrument -----------------------------
(***************************************************************************)
(* The interruption rewrite of a WASI command (sdk/typescript/rewriter.ts, *)
(* instrument) as operators on abstract modules.                           *)
(*                                                                         *)
(* A module is a record: imports is the number of imported functions, exit *)
(* the index of proc_exit among them (or None), body the instructions of   *)
(* each defined function, table what the element segments put in the       *)
(* table, exported the functions exports declare, start and main the start *)
(* function (or None) and _start, names the name section's function names. *)
(* The function index space is 0-based: imports first.  An instruction is  *)
(* [op, arg]; only control flow, calls and bulk operations are told apart, *)
(* a br names the loop it continues.  Encodings, types, data and the other *)
(* index spaces are left out: they are copied verbatim.                    *)
(***************************************************************************)
EXTENDS Integers, Sequences, FiniteSets, SequencesExt

CONSTANTS
  Interval,     \* pollInterval: checks between two polls
  None

ASSUME IntervalAssumption == Interval \in Nat \ {0} /\ None \notin Int

Op(op, arg)  == [op |-> op, arg |-> arg]
Check        == Op("check", None)
Unreachable  == Op("unreachable", None)
DirectCalls  == {"call", "return_call"}
TableCalls   == {"call_indirect", "return_call_indirect"}
RefCalls     == {"call_ref", "return_call_ref"}     \* of a ref.func
Tails        == {"return_call", "return_call_indirect", "return_call_ref"}

Defined(m)  == DOMAIN m.body
Functions(m) == 0..(m.imports - 1) \cup Defined(m)

\* shift: the added import takes the first defined function's index.
Shift(m, f) == IF f >= m.imports THEN f + 1 ELSE f

\* reference over exports and element segments, in section order.  Without
\* guest code nothing can call what they name.
Used(m) == IF Defined(m) = {} THEN <<>> ELSE m.exported \o m.table

\* The imports used as values, and those of them that were used before f was.
Escaping(m) == {f \in ToSet(Used(m)) : f < m.imports}
Sooner(m, f) ==
  {g \in Escaping(m) : \E i \in DOMAIN Used(m) :
                         Used(m)[i] = g /\ \A j \in 1..i : Used(m)[j] # f}

\* thunkOf: thunks follow the defined functions, in the order of first use.
ThunkOf(m, f) ==
  m.imports + 1 + Cardinality(Defined(m)) + Cardinality(Sooner(m, f))

\* Mutant: a defined function used as a value keeps its index.
ReferenceUnshifted(m, f) ==
  IF f >= m.imports \/ Defined(m) = {} THEN f ELSE ThunkOf(m, f)

\* reference: what a value naming f names afterwards.
Reference(m, f) ==
  IF f >= m.imports THEN f + 1 ELSE IF Defined(m) = {} THEN f ELSE ThunkOf(m, f)

\* Mutant: no poll after an import returns.
RewriteUnchecked(m, i) ==
  IF i.op = "loop" THEN <<i, Check>>
  ELSE IF i.op \in DirectCalls THEN <<[i EXCEPT !.arg = Shift(m, @)]>>
  ELSE IF i.op \in RefCalls THEN <<[i EXCEPT !.arg = Reference(m, @)]>>
  ELSE <<i>>

\* functionBody's switch: what replaces one instruction.  A bulk operation is
\* charged its ticks unless it is known to cost less than one.
Rewrite(m, i) ==
  CASE i.op = "loop" -> <<i, Check>>
    [] i.op \in DirectCalls /\ i.arg >= m.imports -> <<[i EXCEPT !.arg = Shift(m, @)]>>
    [] i.op \in DirectCalls /\ i.arg = m.exit -> <<Op("call", i.arg), Unreachable>>
    [] i.op = "call" /\ i.arg < m.imports /\ i.arg # m.exit -> <<i, Check>>
    [] i.op = "return_call" /\ i.arg < m.imports /\ i.arg # m.exit ->
         <<Op("call", i.arg), Check, Op("return", None)>>
    [] i.op \in RefCalls -> <<[i EXCEPT !.arg = Reference(m, @)]>>
    [] i.op = "bulk" /\ i.arg > 0 -> <<Op("charge", i.arg), i>>
    [] OTHER -> <<i>>

\* callsGuest: the function may enter guest code again.
CallsGuest(m, body) ==
  \E k \in DOMAIN body :
    \/ body[k].op \in DirectCalls /\ body[k].arg >= m.imports
    \/ body[k].op \in TableCalls \cup RefCalls

\* functionBody: the entry check, then the instructions.
Body(m, body) ==
  (IF CallsGuest(m, body) THEN <<Check>> ELSE <<>>)
    \o FlattenSeq([k \in DOMAIN body |-> Rewrite(m, body[k])])

\* A thunk calls its import and checks, or never returns from proc_exit.
Thunk(m, f) == <<Op("call", f), IF f = m.exit THEN Unreachable ELSE Check>>

Thunks(m) == {ThunkOf(m, f) : f \in Escaping(m)}
ThunkFor(m, t) == CHOOSE f \in Escaping(m) : ThunkOf(m, f) = t

\* instrument: the module that is compiled.
Instrumented(m) ==
  [imports |-> m.imports + 1, exit |-> m.exit,
   body |-> [g \in {f + 1 : f \in Defined(m)} \cup Thunks(m) |->
               IF g \in Thunks(m) THEN Thunk(m, ThunkFor(m, g)) ELSE Body(m, m.body[g - 1])],
   table |-> [k \in DOMAIN m.table |-> Reference(m, m.table[k])],
   start |-> IF m.start = None THEN None ELSE Shift(m, m.start),
   main |-> Shift(m, m.main),
   names |-> [g \in {Shift(m, f) : f \in DOMAIN m.names} |->
                m.names[CHOOSE f \in DOMAIN m.names : Shift(m, f) = g]],
   thunks |-> Thunks(m)]

-----------------------------------------------------------------------------
\* What the engine's validation and the pass itself demand of a module: calls
\* and values name functions it has, a br names one loop of its body, and a
\* reference is taken only to a function that exports or elements declare.
\* The start function and _start are the module's own.
ValidBody(m, body) ==
  /\ body \in Seq([op : {"loop", "br", "bulk"} \cup DirectCalls \cup TableCalls \cup RefCalls,
                   arg : Int])
  /\ \A k \in DOMAIN body :
       LET i == body[k] IN
       /\ i.op \in DirectCalls => i.arg \in Functions(m)
       /\ i.op \in TableCalls => i.arg \in DOMAIN m.table
       /\ i.op \in RefCalls => i.arg \in Defined(m) \cup ToSet(Used(m))
       /\ i.op \in {"loop", "br"} =>
            \E l \in DOMAIN body :
              \A j \in DOMAIN body : body[j].op = "loop" /\ body[j].arg = i.arg <=> j = l

Valid(m) ==
  /\ m.imports \in Nat /\ m.exit \in 0..(m.imports - 1) \cup {None}
  /\ IsFiniteSet(Defined(m))
  /\ Defined(m) = m.imports..(m.imports + Cardinality(Defined(m)) - 1)
  /\ \A f \in Defined(m) : ValidBody(m, m.body[f])
  /\ {m.table, m.exported} \subseteq Seq(Functions(m))
  /\ m.start \in Defined(m) \cup {None} /\ m.main \in Defined(m)
  /\ Defined(m) \subseteq DOMAIN m.names /\ DOMAIN m.names \subseteq Functions(m)
=============================================================================
