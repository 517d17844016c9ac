----------------------------- MODULE Algorithms -----------------------------
(***************************************************************************)
(* The pure parts of the system, each called once with every input of a    *)
(* bounded set: a state is a call, an action makes one, and an invariant   *)
(* says what the call owes.  The modules of the functions say what they    *)
(* model; the constants here are the inputs.                               *)
(***************************************************************************)
EXTENDS LauncherPaths, Workspace, Sections, GuestIO, Nightly

CONSTANTS
  CommandLines,   \* of the launcher: sequences of arguments, by flavor
  Cwds,           \* current directories and include directories, by flavor
  Includes,
  Sidebars,       \* workspaces the studio may hold
  Requests,       \* compile requests
  Pickings,       \* <<picked files, whether a folder was picked>>
  Limits, Languages,
  Guests, Module(_),   \* WebAssembly modules, by what tells them apart
  Memories,       \* guest memories
  Pointers,       \* signed words a guest passes
  Descriptors,
  Histories,      \* of the nightly runs
  Earlier,        \* what a run of today's history may have looked like before
  Today

\* A guest memory is its cells, which hold unsigned words; a guest passes words;
\* what a descriptor holds is cells.
ASSUME IOAssumption ==
  /\ \A memory \in Memories :
        /\ IsFiniteSet(DOMAIN memory)
        /\ memory \in [0..(Cardinality(DOMAIN memory) - 1) -> Nat]
  /\ Pointers \subseteq Int
  /\ \A fd \in Descriptors : fd.data \in Seq(Nat)
  /\ Word \in Nat \ {0} /\ Chunk \in Nat \ {0} /\ Inval # 0
  /\ Poll.in \in Nat /\ Poll.out \in Nat

\* The nightly runs of a history in the order they were created, which the
\* script sorts them by; none after the day it reads the clock, which it does
\* once GitHub has answered.
InOrder(runs) ==
  /\ runs \in Seq({runs[i] : i \in DOMAIN runs})
  /\ \A i \in DOMAIN runs : runs[i].date \in 1..Today
  /\ \A i, j \in DOMAIN runs : i <= j => runs[i].date <= runs[j].date

ASSUME HistoryAssumption ==
  /\ Today \in Nat /\ Required \in Nat
  /\ \A runs \in Histories :
        /\ InOrder(runs)
        /\ Null \notin [date : Int, kind : {"missed", "conclusion", "rerun"},
                        run : {runs[i] : i \in DOMAIN runs} \cup {Null}]

IsSeq(s) == s \in Seq({s[i] : i \in DOMAIN s})

\* A command line: no option has "--" for its value.  The current directory is a
\* real path.
IsText(p) ==
  /\ p = [drive |-> p.drive, lead |-> p.lead, segs |-> p.segs]
  /\ p.lead \in BOOLEAN /\ IsSeq(p.segs)
IsLine(args) ==
  /\ IsSeq(args)
  /\ \A i \in DOMAIN args :
       /\ args[i] = [kind |-> args[i].kind, path |-> args[i].path] /\ IsText(args[i].path)
       /\ args[i].kind \in TakesPath \cup {"-o"} /\ i + 1 = OptionsEnd(args) => i = Len(args)
ASSUME LineAssumption ==
  \A windows \in BOOLEAN :
    /\ \A args \in CommandLines[windows] : IsLine(args)
    /\ \A cwd \in Cwds[windows] :
         IsText(cwd) /\ Absolute(cwd, windows) /\ Format(Parse(cwd, windows)) = cwd
    /\ \A include \in Includes[windows] : IsText(include)

\* A path is a sequence of names, in which a UTF-16 unit takes at most three bytes
\* of UTF-8; a workspace is finite.
IsPath(p) ==
  /\ IsSeq(p)
  /\ \A i \in DOMAIN p : p[i].units \in Nat /\ p[i].bytes \in 0..(3 * p[i].units)
IsWorkspace(files) ==
  /\ IsFiniteSet(DOMAIN files)
  /\ \A p \in DOMAIN files : IsPath(p) /\ files[p] \in Nat

\* Picked files, and those an archive among them holds.
IsZip(zip) ==
  /\ IsSeq(zip)
  /\ \A i \in DOMAIN zip :
       /\ IsPath(zip[i].path) /\ zip[i].size \in Nat /\ zip[i].data \in Nat
       /\ zip[i].readable \in BOOLEAN
IsPicking(picked) ==
  IsSeq(picked) /\ \A i \in DOMAIN picked : picked[i].size \in Nat /\ IsZip(picked[i].zip)

ASSUME WorkspaceAssumption ==
  /\ IncludeName # SourceName
  /\ Limits.workspaceBytes \in Nat /\ Limits.pathBytes \in Nat
  /\ Studio.bytes \in Nat /\ Studio.entries \in Nat /\ Studio.nodes \in Nat /\ Studio.pathLength \in Nat
  /\ 3 * Studio.pathLength <= Limits.pathBytes
  /\ IsWorkspace(Standard)
  /\ \A p \in DOMAIN Standard : Utf8(p) <= Limits.pathBytes
  /\ \A files \in Sidebars : IsWorkspace(files)
  /\ \A p \in Pickings : IsPicking(p[1])
  /\ \A job \in Requests : IsWorkspace(job.files) /\ IsWorkspace(job.includeFiles)

\* A module as a decoder reads it: what stands in each kind of section.
IsExport(e) == e = [name |-> e.name, kind |-> e.kind, index |-> e.index] /\ e.index \in Nat
IsEntries(x) ==
  CASE x.id = 2 -> \A i \in DOMAIN x.entries : x.entries[i].type \in Nat
    [] x.id = 3 \/ (x.id = 0 /\ x.name = "name") -> \A i \in DOMAIN x.entries : x.entries[i] \in Nat
    [] x.id = 5 -> \A i \in DOMAIN x.entries :
                     x.entries[i].initial \in Nat /\ x.entries[i].maximum \in Nat \cup {Void}
    [] x.id = 6 -> \A i \in DOMAIN x.entries : x.entries[i] \in Nat \cup {Void}
    [] x.id = 7 -> \A i \in DOMAIN x.entries : IsExport(x.entries[i])
    [] x.id = 8 -> Len(x.entries) = 1 /\ x.entries[1] \in Nat
    [] x.id = 9 -> \A i \in DOMAIN x.entries : x.entries[i] \in Seq(Nat)
    [] x.id = 10 -> \A i \in DOMAIN x.entries :
                      /\ x.entries[i].calls \in Seq(Nat) /\ x.entries[i].values \in Seq(Nat)
                      /\ x.entries[i].locals \in Nat /\ x.entries[i].charged \in BOOLEAN
    [] OTHER -> TRUE
IsModule(m) ==
  Len(m) \in Nat /\ DOMAIN m = 1..Len(m) /\ \A i \in DOMAIN m :
    {"id", "entries"} \subseteq DOMAIN m[i] /\ m[i].id \in Nat /\ IsSeq(m[i].entries) /\ IsEntries(m[i])

ASSUME ModuleAssumption ==
  Void \notin Int /\ Pages \in Nat /\ \A x \in Guests : IsModule(Module(x))

VARIABLE call
callVars == <<call>>

CallInit == call = [of |-> "nothing"]

\* bin/capnp-wasm.ts, translatePaths
Translate ==
  \E windows \in BOOLEAN :
    \E given \in CommandLines[windows], cwd \in Cwds[windows],
       include \in Includes[windows] :
      call' = [of |-> "translate", given |-> given, cwd |-> cwd, include |-> include,
               windows |-> windows]

\* sdk/typescript/limits.ts, validateCompile, then worker.ts, stage
Compile == \E job \in Requests : call' = [of |-> "compile", job |-> job]

\* examples/browser/workspace.js, validateFiles and compileWorkspace, importFiles
Accept == \E files \in Sidebars : call' = [of |-> "accept", files |-> files]
Import == \E p \in Pickings : call' = [of |-> "import", picked |-> p[1], directory |-> p[2]]

\* sdk/typescript/rewriter.ts, instrument
Instrument == \E x \in Guests : call' = [of |-> "instrument", module |-> Module(x)]

\* sdk/typescript/resource-fs.ts, boundWasiIO
Vectored ==
  \E memory \in Memories, p \in Pointers, c \in Pointers, r \in Pointers, fd \in Descriptors :
    call' = [of |-> "vectored", memory |-> memory, p |-> p, c |-> c, r |-> r, fd |-> fd]

\* scripts/audit-nightly.ts, then scripts/stable-release.ts on a ledger that was
\* committed today or the day before
Audit ==
  \E runs \in Histories, day \in {Today - 1, Today}, authorized \in BOOLEAN :
    \E i \in DOMAIN runs \cup {0}, o \in Earlier :
      LET hand == [required |-> Required, authorized |-> authorized]
          seen == [k \in DOMAIN runs |-> IF k = i THEN [o EXCEPT !.date = runs[i].date] ELSE runs[k]]
          then == SelectSeq(seen, LAMBDA r : r.date <= day)
      IN  call' = [of |-> "audit", runs |-> runs, hand |-> hand,
                   committed |-> Ledger(then, day, hand)]

CallNext ==
  /\ call.of = "nothing"
  /\ Translate \/ Compile \/ Accept \/ Import \/ Instrument \/ Vectored \/ Audit

CallSpec == CallInit /\ [][CallNext]_callVars

------------------------------------------------------------------------------
\* The caller's files are the guest's: capnp-wasm.ts, translatePaths.
TranslationFaithful ==
  call.of = "translate" =>
    Translated(call.given, call.cwd, call.include, call.windows)

\* What the sidebar takes, the SDK takes; what the SDK takes is staged whole:
\* workspace.js, compiler.js (budget), limits.ts, worker.ts, runtime.ts.
WorkspacesAgree ==
  /\ call.of = "compile" => StagesWhole(call.job, Limits, Languages)
  /\ call.of = "accept" => SizeAgreed(call.files, Limits.pathBytes)
  /\ call.of = "import" => ImportWhole(call.picked, call.directory)

\* The rewrite of a module the engine accepts is refused exactly when the pass
\* fails closed on it; otherwise it is one the engine accepts, in which
\* everything still means its function: rewriter.ts, wasm.ts.
RewriteAccepted == call.of = "instrument" => RewriteSound(call.module)

\* A stable release is published only on the nightly runs it needs: audit-
\* nightly.ts, stable-release.ts.
StreakHonest ==
  call.of = "audit" =>
    /\ StreakExact(call.runs, Today, call.hand)
    /\ PublishesOnStreak(call.committed, call.runs, Today)

\* Whatever a guest passes, the host stays inside its memory and reports what
\* it moved: resource-fs.ts, boundWasiIO.
IOBounded ==
  call.of = "vectored" =>
    /\ WriteBounded(call.memory, call.p, call.c, call.r, call.fd)
    /\ ReadBounded(call.memory, call.p, call.c, call.r, call.fd)
    /\ RandomBounded(call.memory, call.p, call.c)
    /\ GuardedBounded(call.memory, call.p, call.c, call.r)
=============================================================================
