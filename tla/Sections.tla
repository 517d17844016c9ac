------------------------------ MODULE Sections ------------------------------
(***************************************************************************)
(* How a WASI command is taken in: the section by section pass of the      *)
(* interruption rewrite (src/sdk/typescript/rewriter.ts, instrument), the  *)
(* memory bound both factories check first (boundMemory), and the checks   *)
(* around them (wasm.ts).  Instrument.tla models what the pass does to the *)
(* instructions; here the added type, import, global and export, the       *)
(* thunks and the renumbering must leave a module the engine accepts.      *)
(*                                                                         *)
(* A module is a sequence of sections [id, entries]; a custom section also *)
(* has a name.  Of each entry only what the pass tells apart is kept:      *)
(*   1 types        "type" of a function, or another                       *)
(*   2 imports  [kind, type, known]    3 functions   a type's index        *)
(*   4 tables       "table", 32-bit and without initializer, or another    *)
(*   5 memories [initial, maximum, plain], plain: unshared and 32-bit      *)
(*   6 globals      the function a ref.func initializer names, or Void     *)
(*   7 exports  [name, kind, index]    8 start       a function's index    *)
(*   9 elements     the functions of a segment                             *)
(*   10 code    [calls, values, locals, charged]: the functions a body     *)
(*                  calls, those its ref.func name, its locals with its    *)
(*                  parameters, whether it has a bulk operation to charge  *)
(*   0 custom       the function indices that have a name                  *)
(* Sections 2, 6, 9, 10 and names also say whether the pass knows how all  *)
(* they hold is encoded (exact): every instruction, every form.            *)
(***************************************************************************)
EXTENDS Integers, Sequences, SequencesExt, FiniteSets, FiniteSetsExt

CONSTANTS
  Pages,   \* memoryPages, the ceiling
  Added,   \* the added import's type and the added entries' mark
  Void

AbsoluteMost == 65536
MaxLocals == 50000

\* The sections' required order; tags sit between memory and globals, the
\* data count before the code.
SectionIds == 1..13
OrderOf(id) ==
  CASE id <= 5 -> id
    [] id = 13 -> 6
    [] id \in 6..9 -> id + 1
    [] id = 12 -> 11
    [] id = 10 -> 12
    [] OTHER -> 13
KeptSections == {"producers", "target_features"}

Begun ==
  [ok |-> TRUE, last |-> 0, types |-> 0, imports |-> <<>>, globals |-> 0, defined |-> <<>>,
   memory |-> FALSE, code |-> FALSE, pending |-> {1, 2, 6, 7}, thunks |-> <<>>,
   elements |-> FALSE, sealed |-> FALSE, slot |-> 0, out |-> <<>>]

Reject(s) == [s EXCEPT !.ok = FALSE]
Emit(s, id, entries) == [s EXCEPT !.out = Append(@, [id |-> id, entries |-> entries])]
Imported(s) == Len(s.imports)
ShiftIndex(s, f) == IF f >= Imported(s) THEN f + 1 ELSE f

\* reference, in two halves: the imports a section uses as values get their
\* thunks, in order; then each value's number is known.
NeedsThunk(s, f) ==
  f # Void /\ f < Imported(s) /\ s.defined # <<>> /\ f \notin ToSet(s.thunks)
Reference(s, f) ==
  IF ~NeedsThunk(s, f) THEN s
  ELSE IF s.sealed THEN Reject(s)
  ELSE [s EXCEPT !.thunks = Append(@, f)]
Use(s, fs) ==
  LET used[i \in 0..Len(fs)] == IF i = 0 THEN s ELSE Reference(used[i - 1], fs[i])
  IN  used[Len(fs)]
UseAll(s, lists) ==
  LET used[i \in 0..Len(lists)] == IF i = 0 THEN s ELSE Use(used[i - 1], lists[i])
  IN  used[Len(lists)]
ValueOf(s, f) ==
  CASE f = Void -> Void
    [] f # Void /\ f >= Imported(s) -> f + 1
    [] f # Void /\ f < Imported(s) /\ s.defined = <<>> -> f
    [] OTHER -> Imported(s) + Len(s.defined)
                  + (CHOOSE i \in DOMAIN s.thunks : s.thunks[i] = f)
Values(s, fs) == [i \in DOMAIN fs |-> ValueOf(s, fs[i])]
ThunkValues(s) == Values(s, s.thunks)

\* seal: the thunks are final.  The function section waits in its slot for
\* them; without an element section they get one.
Seal(s) ==
  LET declared == IF s.elements \/ s.thunks = <<>> THEN s
                  ELSE [Emit(s, 9, <<ThunkValues(s)>>) EXCEPT !.elements = TRUE]
      types == s.defined \o [i \in DOMAIN s.thunks |-> s.imports[s.thunks[i] + 1].type]
  IN  IF s.sealed THEN s
      ELSE [declared EXCEPT !.sealed = TRUE,
                            !.out = IF s.slot = 0 THEN @
                                    ELSE [@ EXCEPT ![s.slot] = [id |-> 3, entries |-> types]]]

AddedEntry(s, id) ==
  CASE id = 1 -> "type"
    [] id = 2 -> [kind |-> "function", type |-> s.types, known |-> TRUE, name |-> Added]
    [] id = 6 -> Void
    [] id = 7 -> [name |-> Added, kind |-> "global", index |-> s.globals]

\* An added entry whose section the module lacks gets one, before order.
Single(s, id, order) ==
  IF id \in s.pending /\ order > OrderOf(id)
  THEN Emit([s EXCEPT !.pending = @ \ {id}], id, <<AddedEntry(s, id)>>) ELSE s
Singles(s, order) ==
  Single(Single(Single(Single(s, 1, order), 2, order), 6, order), 7, order)

\* Mutant: the thunks are only sealed with an element section.
SynthesizeSingles(s, order) == Singles(s, order)

\* synthesizeBefore: what must precede a section of that order.
SynthesizeBefore(s, order) ==
  IF order > OrderOf(9) THEN Seal(Singles(s, order)) ELSE Singles(s, order)

With(s, id, entries) == Emit([s EXCEPT !.pending = @ \ {id}], id, Append(entries, AddedEntry(s, id)))

Types(s, x) == With([s EXCEPT !.types = Len(x.entries)], 1, x.entries)

FunctionsOf(entries) ==
  LET upto[i \in 0..Len(entries)] ==
        IF i = 0 THEN <<>>
        ELSE IF entries[i].kind = "function" THEN Append(upto[i - 1], entries[i]) ELSE upto[i - 1]
  IN  upto[Len(entries)]
GlobalCount(entries) == Cardinality({ i \in DOMAIN entries : entries[i].kind = "global" })

Imports(s, x) ==
  LET functions == FunctionsOf(x.entries)
  IN  IF \E i \in DOMAIN functions : functions[i].type >= s.types THEN Reject(s)
      ELSE With([s EXCEPT !.imports = functions, !.globals = GlobalCount(x.entries)], 2, x.entries)

FunctionSection(s, x) ==
  IF \E i \in DOMAIN x.entries : x.entries[i] >= s.types THEN Reject(s)
  ELSE LET t == Emit(s, 3, <<>>) IN [t EXCEPT !.defined = x.entries, !.slot = Len(t.out)]

\* boundedMemory: one unshared memory, its maximum inserted or lowered.
BoundedMemory(entries) ==
  IF Len(entries) # 1 \/ ~entries[1].plain THEN <<>>
  ELSE LET m == entries[1]
           most == IF m.maximum = Void THEN AbsoluteMost ELSE m.maximum
       IN  IF m.initial > most \/ most > AbsoluteMost \/ m.initial > Pages THEN <<>>
           ELSE <<[initial |-> m.initial, maximum |-> Min({Pages, most}),
                  plain |-> TRUE]>>

Memory(s, x) ==
  LET bounded == BoundedMemory(x.entries)
  IN  IF bounded = <<>> THEN Reject(s) ELSE Emit([s EXCEPT !.memory = TRUE], 5, bounded)

Globals(s, x) ==
  LET used == Use(s, x.entries)
  IN  [With(used, 6, Values(used, x.entries)) EXCEPT !.globals = @ + Len(x.entries)]

\* An exported import stays the host's, but may be taken as a value.
Exports(s, x) ==
  LET functions == [i \in DOMAIN x.entries |->
                      IF x.entries[i].kind = "function" THEN x.entries[i].index ELSE Void]
      entries == [i \in DOMAIN x.entries |->
                    IF x.entries[i].kind = "function"
                    THEN [x.entries[i] EXCEPT !.index = ShiftIndex(s, @)] ELSE x.entries[i]]
  IN  IF \E i \in DOMAIN x.entries : x.entries[i].name = Added THEN Reject(s)
      ELSE With(Use(s, functions), 7, entries)

Elements(s, x) ==
  LET used == UseAll(s, x.entries)
      segments == [i \in DOMAIN x.entries |-> Values(used, x.entries[i])]
  IN  Seal(Emit([used EXCEPT !.elements = TRUE], 9,
                IF used.thunks = <<>> THEN segments ELSE Append(segments, ThunkValues(used))))

\* A thunk calls its import and declares no local.
ThunkBody(f) == [calls |-> <<f>>, values |-> <<>>, locals |-> 0]

\* The bodies, and after them the thunks'.  A body charged by size gains a
\* local for it; the calls and checks a body gains are Instrument's.
Code(s, x) ==
  LET used == UseAll(s, [i \in DOMAIN x.entries |-> x.entries[i].values])
      bodies == [i \in DOMAIN x.entries |->
                   [calls |-> [j \in DOMAIN x.entries[i].calls |->
                                 ShiftIndex(s, x.entries[i].calls[j])],
                    values |-> Values(used, x.entries[i].values),
                    locals |-> x.entries[i].locals + (IF x.entries[i].charged THEN 1 ELSE 0)]]
      thunks == [i \in DOMAIN used.thunks |-> ThunkBody(used.thunks[i])]
  IN  IF Len(x.entries) # Len(s.defined) \/ ~used.ok THEN Reject(s)
      ELSE Emit([used EXCEPT !.code = TRUE], 10, bodies \o thunks)

\* names: renumbered exactly, once the imports are known, else dropped.
Names(s, x) ==
  IF s.last < 2 \/ ~x.exact THEN s
  ELSE [s EXCEPT !.out = Append(@, [id |-> 0, name |-> "name",
          entries |-> [i \in DOMAIN x.entries |-> ShiftIndex(s, x.entries[i])]])]

Custom(s, x) ==
  IF x.name = "name" THEN Names(s, x)
  ELSE IF x.name \in KeptSections THEN [s EXCEPT !.out = Append(@, x)] ELSE s

\* The pass fails closed on what it cannot parse, and on a body that has no
\* local left.
HasLocal(body) == body.charged => body.locals < MaxLocals
Parses(x) ==
  /\ x.id = 1 => \A i \in DOMAIN x.entries : x.entries[i] = "type"
  /\ x.id = 4 => \A i \in DOMAIN x.entries : x.entries[i] = "table"
  /\ x.id \in {2, 6, 9, 10} => x.exact
  /\ x.id = 10 => \A i \in DOMAIN x.entries : HasLocal(x.entries[i])

\* A section of the module, what comes before it having been emitted.
Emitted(s, x) ==
  CASE ~Parses(x) -> Reject(s)
    [] Parses(x) /\ x.id = 1 -> Types(s, x)
    [] Parses(x) /\ x.id = 2 -> Imports(s, x)
    [] Parses(x) /\ x.id = 3 -> FunctionSection(s, x)
    [] Parses(x) /\ x.id = 5 -> Memory(s, x)
    [] Parses(x) /\ x.id = 6 -> Globals(s, x)
    [] Parses(x) /\ x.id = 7 -> Exports(s, x)
    [] Parses(x) /\ x.id = 8 -> Emit(s, 8, <<ShiftIndex(s, x.entries[1])>>)
    [] Parses(x) /\ x.id = 9 -> Elements(s, x)
    [] Parses(x) /\ x.id = 10 -> Code(s, x)
    [] OTHER -> Emit(s, x.id, x.entries)

\* instrument's loop over the sections.
Section(s, x) ==
  IF ~s.ok THEN s
  ELSE IF x.id = 0 THEN Custom(s, x)
  ELSE IF x.id \notin SectionIds \/ OrderOf(x.id) <= s.last THEN Reject(s)
  ELSE Emitted(SynthesizeBefore([s EXCEPT !.last = OrderOf(x.id)], OrderOf(x.id)), x)

\* An instrumented module, or Refused.
Refused == <<>>
Output(s) ==
  IF ~s.ok \/ ~s.memory \/ (s.defined # <<>> /\ ~s.code) THEN Refused ELSE s.out
Rewritten(m) ==
  LET after[i \in 0..Len(m)] == IF i = 0 THEN Begun ELSE Section(after[i - 1], m[i])
  IN  Output(SynthesizeBefore(after[Len(m)], Cardinality(SectionIds) + 1))

\* boundMemory: the one memory section is replaced, the rest is kept.
BoundMemory(m) ==
  LET memories == { i \in DOMAIN m : m[i].id = 5 }
  IN  IF Cardinality(memories) # 1 THEN Refused
      ELSE LET at == CHOOSE i \in memories : TRUE
               bounded == BoundedMemory(m[at].entries)
           IN  IF bounded = <<>> THEN Refused ELSE [m EXCEPT ![at].entries = bounded]

------------------------------------------------------------------------------
\* The engine, as the WebAssembly specification has it.

\* A module has one section of an id at the most.
EntriesOf(m, id) ==
  LET at == { i \in DOMAIN m : m[i].id = id }
  IN  IF at = {} THEN <<>> ELSE m[CHOOSE i \in at : TRUE].entries
FunctionImports(m) == FunctionsOf(EntriesOf(m, 2))
FunctionCount(m) == Len(FunctionImports(m)) + Len(EntriesOf(m, 3))
GlobalsOf(m) == GlobalCount(EntriesOf(m, 2)) + Len(EntriesOf(m, 6))
ExportedFunctions(m) ==
  { e.index : e \in { f \in ToSet(EntriesOf(m, 7)) : f.kind = "function" } }
Declared(m) ==
  ExportedFunctions(m) \cup (UNION { ToSet(segment) : segment \in ToSet(EntriesOf(m, 9)) })
    \cup (ToSet(EntriesOf(m, 6)) \ {Void})
Called(m) == UNION { ToSet(body.calls) : body \in ToSet(EntriesOf(m, 10)) }
Taken(m) == UNION { ToSet(body.values) : body \in ToSet(EntriesOf(m, 10)) }
TypesUsed(m) == ToSet(EntriesOf(m, 3)) \cup { e.type : e \in ToSet(FunctionImports(m)) }

InSectionOrder(m) ==
  /\ \A i \in DOMAIN m : m[i].id \in {0} \cup SectionIds
  /\ \A i, j \in DOMAIN m :
       i < j /\ m[i].id # 0 /\ m[j].id # 0 => OrderOf(m[i].id) < OrderOf(m[j].id)

Accepts(m) ==
  /\ InSectionOrder(m)
  /\ \A t \in TypesUsed(m) : t < Len(EntriesOf(m, 1))
  /\ Len(EntriesOf(m, 3)) = Len(EntriesOf(m, 10))
  /\ \A f \in Declared(m) \cup Called(m) \cup ToSet(EntriesOf(m, 8)) : f < FunctionCount(m)
  /\ Taken(m) \subseteq Declared(m)
  /\ \A i, j \in DOMAIN EntriesOf(m, 7) :
       EntriesOf(m, 7)[i].name = EntriesOf(m, 7)[j].name => i = j
  /\ Len(EntriesOf(m, 5)) <= 1
  /\ \A body \in ToSet(EntriesOf(m, 10)) : body.locals <= MaxLocals

\* What wasm.ts asks of a rewritten module's imports and exports.
Interface(imports, exports) ==
  /\ Last(imports).name = Added
  /\ \A i \in 1..(Len(imports) - 1) : imports[i].kind = "function" /\ imports[i].known
  /\ \A need \in {<<"memory", "memory">>, <<"_start", "function">>} :
       \E e \in exports : e.name = need[1] /\ e.kind = need[2]

\* compileBounded: the module that every job instantiates, or Refused.
CompileRewritten(m, rewritten) ==
  IF /\ Accepts(m) /\ rewritten # Refused /\ Accepts(rewritten)
     /\ Interface(EntriesOf(rewritten, 2), ToSet(EntriesOf(rewritten, 7)))
  THEN rewritten ELSE Refused
CompileBounded(m) == CompileRewritten(m, Rewritten(m))

------------------------------------------------------------------------------
\* What the pass owes.

\* Which function an index of the rewritten module names, as an index of the
\* original: a thunk stands for the import it calls, the added import for none.
Origin(m, out, g) ==
  LET imported == Len(FunctionImports(m))
  IN  CASE g < imported -> g
        [] g = imported -> Void
        [] g > imported /\ g <= imported + Len(EntriesOf(m, 3)) -> g - 1
        [] OTHER -> EntriesOf(out, 10)[g - imported].calls[1]

Origins(m, out, fs) == [i \in DOMAIN fs |-> IF fs[i] = Void THEN Void ELSE Origin(m, out, fs[i])]

\* A WASI command, as far as the SDK can tell.
Command(m) ==
  /\ \A e \in ToSet(EntriesOf(m, 2)) : e.kind = "function" /\ e.known
  /\ \A need \in {<<"memory", "memory">>, <<"_start", "function">>} :
       \E e \in ToSet(EntriesOf(m, 7)) : e.name = need[1] /\ e.kind = need[2]

\* Every export, start function, global, table entry and body still means its
\* functions, and so does every name of a function.
Meanings(m, out) ==
  /\ \A i \in DOMAIN EntriesOf(m, 7) :
       LET before == EntriesOf(m, 7)[i]
           after == EntriesOf(out, 7)[i]
       IN  /\ [after EXCEPT !.index = before.index] = before
           /\ before.kind = "function" => Origin(m, out, after.index) = before.index
           /\ before.kind # "function" \/ before.index < Len(FunctionImports(m)) => after = before
  /\ Origins(m, out, EntriesOf(out, 8)) = EntriesOf(m, 8)
  /\ Origins(m, out, Front(EntriesOf(out, 6))) = EntriesOf(m, 6)
  /\ \A i \in DOMAIN EntriesOf(m, 9) :
       Origins(m, out, EntriesOf(out, 9)[i]) = EntriesOf(m, 9)[i]
  /\ \A i \in DOMAIN EntriesOf(m, 10) :
       LET before == EntriesOf(m, 10)[i]
           after == EntriesOf(out, 10)[i]
       IN  /\ Origins(m, out, after.calls) = before.calls
           /\ Origins(m, out, after.values) = before.values
  /\ \A j \in DOMAIN out : out[j].id = 0 /\ out[j].name = "name" =>
       \E i \in DOMAIN m :
         /\ m[i].id = 0 /\ m[i].name = "name" /\ Len(m[i].entries) = Len(out[j].entries)
         /\ \A k \in DOMAIN m[i].entries : m[i].entries[k] < FunctionCount(m) =>
              Origin(m, out, out[j].entries[k]) = m[i].entries[k]

\* A function that is none of the module's calls an import, and has its type.
ThunksForward(m, out) ==
  \A i \in (Len(EntriesOf(m, 3)) + 1)..Len(EntriesOf(out, 3)) :
    \E f \in 0..(Len(FunctionImports(m)) - 1) :
      /\ EntriesOf(out, 10)[i] = ThunkBody(f)
      /\ EntriesOf(out, 3)[i] = FunctionImports(m)[f + 1].type

\* Each added entry is there once, at the end: a type, an import of that type,
\* a global, and an export of it.
AddsOnce(m, out) ==
  /\ \A id \in {1, 2, 6, 7} : Len(EntriesOf(out, id)) = Len(EntriesOf(m, id)) + 1
  /\ Last(EntriesOf(out, 2)).type = Len(EntriesOf(m, 1))
  /\ Last(EntriesOf(out, 7)) = [name |-> Added, kind |-> "global", index |-> GlobalsOf(out) - 1]

\* What comes out is a module the engine accepts: its rejection is never the
\* caller's fault, and a WASI command is never turned away afterwards.  Its
\* memory is the one the SDK's other rewrite makes, and cannot grow past the
\* ceiling.
RewriteOwed(m, out) ==
  /\ out # Refused
  /\ Accepts(out)
  /\ Command(m) => CompileRewritten(m, out) = out
  /\ EntriesOf(out, 5) = EntriesOf(BoundMemory(m), 5)
  /\ \A memory \in ToSet(EntriesOf(out, 5)) :
       memory.initial <= memory.maximum /\ memory.maximum <= Pages
  /\ AddsOnce(m, out)
  /\ ThunksForward(m, out)
  /\ Meanings(m, out)

\* What the pass takes: it knows all the module holds, the module's one memory
\* fits the ceiling, and no export has the reserved name.
Supported(m) ==
  /\ \A i \in DOMAIN m : Parses(m[i])
  /\ BoundMemory(m) # Refused
  /\ \A e \in ToSet(EntriesOf(m, 7)) : e.name # Added

\* A module the engine accepts is refused exactly when the pass does not take
\* it; it is never rewritten by guess, nor is one in support refused.
RewriteSound(m) ==
  Accepts(m) => IF Supported(m) THEN RewriteOwed(m, Rewritten(m)) ELSE Rewritten(m) = Refused
=============================================================================
