---------------------------- MODULE LauncherPaths ----------------------------
(***************************************************************************)
(* The launcher's path arithmetic, src/bin/capnp-wasm.ts: how a compiler   *)
(* command line written for the host's current directory becomes one for   *)
(* a guest that sees a single host directory as "/".                       *)
(*                                                                         *)
(* A path's text is [drive, lead, segs]: the drive ("" outside Windows),   *)
(* whether a separator follows it, and what lies between the separators.   *)
(* A parsed path is [drive, rooted, parts].  Names are data: Fold maps a   *)
(* name to the one Windows takes it for.  An argument is [kind, path]:     *)
(* its spelling, and the path it carries or is (NoPath when it has none).  *)
(***************************************************************************)
EXTENDS Naturals, Sequences, SequencesExt, FiniteSets, FiniteSetsExt

CONSTANTS
  Fold(_),     \* toLowerCase, of a name or a drive
  UNC          \* the drives of the form \\server\share, always rooted

Up == ".."
Here == "."
NoPath == [drive |-> "", lead |-> FALSE, segs |-> <<>>]
Operations == {"compile", "encode", "decode", "eval", "convert", "id"}

------------------------------------------------------------------------------
\* Paths: w says whether they are Windows paths.

Same(a, b, w) == IF w THEN Fold(a) = Fold(b) ELSE a = b

\* "" and "." vanish; ".." removes a name, is kept above a relative path's
\* start and lost above a root.
Into(parts, s, rooted) ==
  CASE s \in {"", Here} -> parts
    [] s = Up /\ parts # <<>> /\ Last(parts) # Up -> Front(parts)
    [] s = Up /\ rooted /\ parts = <<>> -> parts
    [] OTHER -> Append(parts, s)
Normal(segs, rooted) ==
  LET parts[n \in 0..Len(segs)] ==
        IF n = 0 THEN <<>> ELSE Into(parts[n - 1], segs[n], rooted)
  IN  parts[Len(segs)]

Parse(p, w) ==
  LET rooted == p.lead \/ (w /\ p.drive \in UNC)
  IN  [drive |-> p.drive, rooted |-> rooted, parts |-> Normal(p.segs, rooted)]

\* The text of a parsed path; Parse reads the same path back from it.
Format(d) == [drive |-> d.drive, lead |-> d.rooted, segs |-> d.parts]

Absolute(p, w) == Parse(p, w).rooted /\ (w => p.drive # "")

\* base is an absolute path.  A Windows path without a drive is taken on the
\* base's, one on the base's own drive is taken below the base.
Join(base, p, w) ==
  LET below == [base EXCEPT !.segs = @ \o p.segs]
  IN  IF ~w THEN IF p.lead THEN p ELSE below
      ELSE IF p.drive # ""
           THEN IF Absolute(p, w) \/ ~Same(p.drive, base.drive, w) THEN p ELSE below
           ELSE IF p.lead THEN [p EXCEPT !.drive = base.drive] ELSE below

Dirname(d) == [d EXCEPT !.parts = IF @ = <<>> THEN @ ELSE Front(@)]

\* The names two paths share from the top.
Shared(a, b, w) ==
  Max({ n \in 0..Min({Len(a), Len(b)}) : \A i \in 1..n : Same(a[i], b[i], w) })

OneVolume(here, ds, w) ==
  \A d \in ds : Same(d.drive, here.drive, w) /\ d.rooted = here.rooted

\* Mutant: the root's own name is kept.
GuestPathKeepsRoot(d, root) ==
  [drive |-> "", lead |-> TRUE,
   segs |-> SubSeq(d.parts, Max({1, Len(root.parts)}), Len(d.parts))]

\* The deepest directory holding here and all of ds, which are on one volume.
CommonPath(here, ds, w) ==
  [here EXCEPT !.parts =
     SubSeq(@, 1, Min({ Shared(@, d.parts, w) : d \in ds } \cup {Len(@)}))]

Within(inner, outer, w) ==
  /\ Same(inner.drive, outer.drive, w)
  /\ inner.rooted = outer.rooted
  /\ Len(outer.parts) <= Len(inner.parts)
  /\ \A i \in DOMAIN outer.parts : Same(outer.parts[i], inner.parts[i], w)

\* A host path inside root, which is the guest's "/".
GuestPath(d, root) ==
  [drive |-> "", lead |-> TRUE, segs |-> SubSeq(d.parts, Len(root.parts) + 1, Len(d.parts))]

------------------------------------------------------------------------------
\* The command line.

\* Where the options end: at "--", or at the end.
OptionsEnd(args) == Min({ i \in DOMAIN args : args[i].kind = "--" } \cup {Len(args) + 1})

\* "-I" and "--src-prefix" take the next argument, as do -o, --output and
\* --segment-size, whose value is no path; "-I=" and "--src-prefix=" stand for
\* the spellings that hold their path.
TakesPath == {"-I", "--src-prefix"}
HoldsPath == {"-I=", "--src-prefix="}
Dashed == TakesPath \cup HoldsPath \cup
            {"-o", "--", "flag", "--no-standard-import", "--version"}

\* The position of the operation, the first argument that is no option; 0
\* when it is none of the compiler's.
Operation(args) ==
  LET plain == { i \in 1..(OptionsEnd(args) - 1) : args[i].kind \notin Dashed }
  IN  IF plain # {} /\ args[Min(plain)].kind \in Operations THEN Min(plain) ELSE 0

OperationName(args) == IF Operation(args) = 0 THEN "none" ELSE args[Operation(args)].kind

NamesFile(op, position) ==
  \/ op = "compile"
  \/ op \in {"encode", "decode", "eval"} /\ position = 0
  \/ op = "convert" /\ position = 1

\* What the loop knows between two arguments: what the next one is taken for,
\* whether options may still follow, and how many plain arguments have.
AtOperation == [next |-> "any", options |-> TRUE, position |-> 0]
IsPlain(s, kind) == s.next = "any" /\ ~(s.options /\ kind \in Dashed)
IsOption(s, kind) == s.next = "any" /\ s.options /\ kind \in Dashed
Past(s, kind) ==
  IF s.next # "any" THEN [s EXCEPT !.next = "any"]
  ELSE IF IsPlain(s, kind) THEN [s EXCEPT !.position = @ + 1]
  ELSE [s EXCEPT !.options = kind # "--",
                 !.next = CASE kind \in TakesPath -> "path"
                            [] kind = "-o" -> "value"
                            [] OTHER -> "any"]
Scanned(args) ==
  LET after[i \in Operation(args)..Len(args)] ==
        IF i = Operation(args) THEN AtOperation ELSE Past(after[i - 1], args[i].kind)
  IN  after

\* The arguments that are paths, or hold one.
IsPathArgument(op, s, kind, a) ==
  \/ s.next = "path" /\ ~a.attached /\ a.directory
  \/ IsOption(s, kind) /\ kind \in HoldsPath /\ a.attached /\ a.directory
  \/ IsPlain(s, kind) /\ NamesFile(op, s.position) /\ ~a.attached /\ ~a.directory
PathArguments(args) ==
  LET op == OperationName(args)
      after == Scanned(args)
  IN  { a \in [index : (Operation(args) + 1)..Len(args), attached : BOOLEAN, directory : BOOLEAN] :
          op # "none" /\ IsPathArgument(op, after[a.index - 1], args[a.index].kind, a) }

\* The caller's options and then the extra ones, before any "--".
Splice(args, extra) ==
  SubSeq(args, 1, OptionsEnd(args) - 1) \o extra \o SubSeq(args, OptionsEnd(args), Len(args))

\* What include adds to a command line.  An option still waiting for its value
\* takes the first of them for it, and a path of that name.
WithInclude(args, include) ==
  IF include = NoPath THEN args
  ELSE Splice(args, <<[kind |-> "--no-standard-import",
                       path |-> [drive |-> "", lead |-> FALSE, segs |-> <<"--no-standard-import">>]],
                      [kind |-> "-I=", path |-> include]>>)

Empty(p) == p = NoPath
Host(cwd, p, w) == Parse(Join(cwd, p, w), w)
DriveRelative(p, w) == w /\ p.drive # "" /\ ~Absolute(p, w)

\* Whether a path argument gives the source prefix.
GivesPrefix(args, a) ==
  IF a.attached THEN args[a.index].kind = "--src-prefix="
  ELSE a.index > 1 /\ args[a.index - 1].kind = "--src-prefix"

Untranslated == [ok |-> FALSE]

\* The path arguments; an empty value is left to the compiler's own diagnostic.
PathsIn(args) == { a \in PathArguments(args) : ~Empty(args[a.index].path) }

\* The directories the guest must see, besides the current one.
RootsOf(args, paths, cwd, w) ==
  LET host(a) == Host(cwd, args[a.index].path, w)
  IN  { IF a.directory THEN host(a) ELSE Dirname(host(a)) : a \in paths }

\* The command line once root is the guest's "/".
Relocated(args, paths, cwd, root, w) ==
  [i \in DOMAIN args |->
     IF \E a \in paths : a.index = i
     THEN [args[i] EXCEPT !.path = GuestPath(Host(cwd, @, w), root)] ELSE args[i]]

Covered(args, paths, cwd, w) ==
  \E a \in paths :
    /\ GivesPrefix(args, a)
    /\ Within(Parse(cwd, w), Host(cwd, args[a.index].path, w), w)

Line(args, paths, cwd, root, w) ==
  LET line == Relocated(args, paths, cwd, root, w)
      prefix == <<[kind |-> "--src-prefix=", path |-> GuestPath(Parse(cwd, w), root)]>>
  IN  IF OperationName(args) = "compile" /\ paths # {} /\ ~Covered(args, paths, cwd, w)
      THEN Splice(line, prefix) ELSE line

\* translatePaths: cwd is the text of a normalized absolute path.
Below(args, paths, cwd, root, w) ==
  [ok |-> TRUE, root |-> root, cwd |-> GuestPath(Parse(cwd, w), root),
   args |-> Line(args, paths, cwd, root, w)]
TranslateLine(args, paths, cwd, w) ==
  LET ds == RootsOf(args, paths, cwd, w)
  IN  IF \/ \E a \in paths : DriveRelative(args[a.index].path, w)
         \/ ~OneVolume(Parse(cwd, w), ds, w)
      THEN Untranslated
      ELSE Below(args, paths, cwd, CommonPath(Parse(cwd, w), ds, w), w)
TranslatePaths(given, cwd, include, w) ==
  LET args == WithInclude(given, include) IN TranslateLine(args, PathsIn(args), cwd, w)

\* Whether the compiler will look for the standard schemas.
NeedsStandardImport(args) ==
  /\ OperationName(args) \in Operations \ {"id"}
  /\ \A i \in 1..(OptionsEnd(args) - 1) : args[i].kind \notin {"--no-standard-import", "--version"}

------------------------------------------------------------------------------
\* What the translation owes the caller, told without its steps.

Folded(parts, w) == [i \in DOMAIN parts |-> IF w THEN Fold(parts[i]) ELSE parts[i]]

\* The host directory or file a guest path names when root is the guest's "/".
Denotes(root, p, w) == Folded(root.parts \o Normal(p.segs, TRUE), w)

\* Where an argument of the caller's stands in the translated line.
Place(args, line, i) == IF i < OptionsEnd(args) THEN i ELSE i + Len(line) - Len(args)
Placed(args, line, a) == [a EXCEPT !.index = Place(args, line, a.index)]

\* Every option that takes a value has one before the options end.
Settled(args) ==
  \A i \in 1..(OptionsEnd(args) - 1) :
    args[i].kind \in TakesPath \cup {"-o"} => i + 1 < OptionsEnd(args)

\* The compiler reads the same arguments and paths, but for one prefix that may
\* be added.
SameArguments(args, line) ==
  LET paths == PathsIn(args)
      read == PathsIn(line)
  IN  /\ Len(line) \in {Len(args), Len(args) + 1}
      /\ \A i \in DOMAIN args :
           /\ line[Place(args, line, i)].kind = args[i].kind
           /\ line[Place(args, line, i)] # args[i] => \E a \in paths : a.index = i
      /\ \A a \in paths : Placed(args, line, a) \in read
      /\ \A b \in read :
           \/ \E a \in paths : b = Placed(args, line, a)
           \/ Len(line) > Len(args) /\ b.index = OptionsEnd(args) /\ GivesPrefix(line, b)

\* Each path names, below the root, what the caller's named on the host.
SamePaths(args, cwd, result, w) ==
  \A a \in PathsIn(args) :
    LET host == Host(cwd, args[a.index].path, w)
        got == result.args[Place(args, result.args, a.index)].path
    IN  /\ Denotes(result.root, got, w) = Folded(host.parts, w)
        /\ Same(host.drive, result.root.drive, w)
        /\ Parse(Format(host), w) = host

\* The root lies above the current directory, and no deeper directory lies
\* above everything.
RootTight(result, here, w) ==
  /\ Denotes(result.root, result.cwd, w) = Folded(here.parts, w)
  /\ Len(result.root.parts) < Len(here.parts) =>
       \E a \in PathsIn(result.args) :
         LET p == result.args[a.index].path
             inside == IF a.directory THEN p.segs ELSE Front(p.segs)
         IN  inside = <<>> \/ ~Same(inside[1], result.cwd.segs[1], w)

\* One of the prefixes is above the current directory.
PrefixAbove(result, w) ==
  \E a \in PathsIn(result.args) :
    /\ GivesPrefix(result.args, a)
    /\ IsPrefix(Folded(result.args[a.index].path.segs, w), Folded(result.cwd.segs, w))

\* All of it, unless the caller's last option still waits for its value and takes
\* what the launcher adds for it; a compile that names a path has a prefix above its current
\* directory, and the compiler looks for the standard schemas when the
\* caller's line made it, unless they are given.
TranslationOwed(given, args, cwd, include, result, w) ==
  result.ok /\ (Settled(given) \/ Len(result.args) = Len(given)) =>
    /\ SameArguments(args, result.args)
    /\ SamePaths(args, cwd, result, w)
    /\ RootTight(result, Parse(cwd, w), w)
    /\ NeedsStandardImport(result.args) = (NeedsStandardImport(given) /\ include = NoPath)
    /\ OperationName(args) = "compile" /\ PathsIn(args) # {} => PrefixAbove(result, w)

Translated(given, cwd, include, w) ==
  TranslationOwed(given, WithInclude(given, include), cwd, include,
                  TranslatePaths(given, cwd, include, w), w)
=============================================================================
