---------------------------- MODULE MCAlgorithms ----------------------------
EXTENDS Algorithms, TLC, SequencesExt, FiniteSetsExt

\* Paths: a current directory two levels down; arguments inside, beside and
\* above it, absolute, empty, with "." and ".." in them; on Windows a name in
\* another case, the own and another drive, a server's share.
Path(drive, lead, segs) == [drive |-> drive, lead |-> lead, segs |-> segs]
MCFold(s) == CASE s = "A" -> "a" [] s = "C:" -> "c:" [] OTHER -> s
MCUNC == {"//s/t"}
Relative == { Path("", FALSE, <<>>), Path("", FALSE, <<"x">>), Path("", FALSE, <<"..", "b">>),
              Path("", FALSE, <<"..", "..", "x", ".">>), Path("", TRUE, <<"a", "b", "x">>),
              Path("", TRUE, <<"..", "y">>) }
OnDrives == { Path("c:", TRUE, <<"A", "x">>), Path("c:", FALSE, <<"x">>),
              Path("D:", TRUE, <<"x">>), Path("//s/t", FALSE, <<"x">>) }
MCDirectories == [w \in BOOLEAN |->
  IF w THEN {Path("C:", TRUE, <<"a", "b">>), Path("//s/t", TRUE, <<"a">>)}
  ELSE {Path("", TRUE, <<"a", "b">>), Path("", TRUE, <<>>)}]
MCIncludes == [w \in BOOLEAN |->
  {Path("", FALSE, <<>>), Path(IF w THEN "C:" ELSE "", TRUE, <<"p", "include">>)}]

Arg(kind, path) == [kind |-> kind, path |-> path]
Bare(kind) == Arg(kind, Path("", FALSE, <<>>))
\* An operation and what may follow it: options that take or hold a path,
\* one whose value is none, the end of options, files; at the end of the line
\* also options without their value.
Tails(P) ==
  LET valued == { <<Arg(k, p)>> : k \in {"-I=", "--src-prefix=", "plain"}, p \in P }
                  \cup { <<Bare(k), Arg("plain", p)>> : k \in {"-I", "--src-prefix"}, p \in P }
      other == { <<Bare("flag")>>, <<Bare("--")>>, <<Bare("-o"), Arg("plain", Path("", FALSE, <<"x">>))>> }
      One == valued \cup other
  IN  { a \o b : a \in One, b \in { v \in One : v[1].kind \in {"plain", "--src-prefix=", "--src-prefix", "--"} } }
        \cup { a \o <<Bare("--")>> \o b : a \in valued, b \in { <<Arg("plain", p)>> : p \in P } }
        \cup { a \o <<Bare(k)>> : a \in valued, k \in {"-I", "--src-prefix", "-o"} }
MCCommandLines == [w \in BOOLEAN |->
  LET P == IF w THEN Relative \cup OnDrives ELSE Relative
  IN  { <<Bare("flag"), Bare(op)>> \o t : op \in {"compile", "convert"}, t \in Tails(P) }
        \cup { <<Bare("--version")>> }]

\* Workspaces: two names, one of them wide, and the folder "include".
Name(t, units, bytes) == [text |-> t, units |-> units, bytes |-> bytes]
a == Name("a", 1, 1)
wide == Name("wide", 1, 3)
include == Name("include", 1, 1)
MCSource == Name("src", 1, 1)
dots == Name("..", 2, 2)
dotfile == Name(".f", 2, 2)
MCStandard == (<<a, a>> :> 1)
MCStudio == [bytes |-> 2, entries |-> 2, nodes |-> 4, pathLength |-> 5]
MCLimits == [workspaceBytes |-> 3, workspaceEntries |-> 5, pathBytes |-> 15]
SomePaths == { <<a>>, <<wide>>, <<a, a>>, <<a, wide>>, <<a, a, wide>>, <<include>>,
               <<include, a>>, <<include, a, a>>, <<include, wide>>, <<dots, a>> }
Upto(S, n) == { s \in SUBSET S : Cardinality(s) <= n }
Workspaces(S, n) == UNION { [s -> {0, 1}] : s \in Upto(S, n) }
MCSidebars == Workspaces(SomePaths, 3)
MCRequests ==
  { [files |-> f, includeFiles |-> i, entrypoints |-> e, importPaths |-> m, sourcePrefix |-> p,
     generators |-> g] :
      f \in Workspaces({<<a>>, <<a, a>>, <<a, a, wide>>, <<wide>>}, 2),
      i \in Workspaces({<<a>>, <<a, a, wide>>}, 2),
      e \in {<<>>, <<<<a>>>>, <<<<a, a>>, <<wide>>>>},
      m \in {<<>>, <<<<>>, <<a>>>>, <<<<a, a>>>>},
      p \in {<<>>, <<a>>}, g \in {<<>>, <<"go">>} }
\* Archives of one or two entries: one folder or several, the root, a folder and a
\* name twice; compressed to less or as much as declared, stored with more.
none == Name("", 0, 0)
Zipped(p, size, data) == [path |-> p, size |-> size, data |-> data, readable |-> TRUE, dir |-> FALSE]
ZipEntries ==
  { Zipped(p, s[1], s[2]) : s \in {<<1, 1>>, <<2, 1>>, <<0, 2>>},
      p \in {<<a, wide>>, <<a, a>>, <<wide>>, <<a, dotfile>>, <<dots, a>>, <<none, a>>} }
  \cup { [Zipped(<<a>>, 0, 0) EXCEPT !.dir = TRUE], [Zipped(<<a, a>>, 1, 1) EXCEPT !.readable = FALSE],
         Zipped(<<none, wide>>, 1, 1) }
Zips == { <<x, y>> : x \in ZipEntries, y \in ZipEntries } \cup { <<x>> : x \in ZipEntries } \cup {<<>>}
Plain(p, n) == [path |-> p, size |-> n, archive |-> FALSE, zip |-> <<>>]
Archive(p, zip) == [path |-> p, size |-> 0, archive |-> TRUE, zip |-> zip]
MCPickings ==
  { << <<Archive(<<include>>, z), other>>, FALSE >> :
      z \in Zips, other \in {Plain(<<a>>, 1), Plain(<<dotfile>>, 1),
                             Archive(<<wide>>, <<Zipped(<<a, a>>, 2, 2)>>)} }
  \cup { << <<Plain(<<include>> \o p, 1), Plain(<<include>> \o q, n)>>, TRUE >> :
      p \in SomePaths, q \in SomePaths \cup {<<dotfile, a>>}, n \in {1, 2} }
  \cup { << <<Archive(<<include, a>>, z)>>, TRUE >> : z \in {<<>>, <<Zipped(<<a>>, 1, 1)>>} }

\* Modules: which sections there are, where the name section stands, what the
\* sections hold, and what is odd about one of them.
Fn(i) == [kind |-> "function", type |-> i, known |-> TRUE, name |-> "import"]
GlobalImport == [kind |-> "global", type |-> 0, known |-> FALSE, name |-> "import"]
Shape(imports, defined, ids, value, exported, at, odd) ==
  LET total == imports + defined
      entries(id) ==
        CASE id = 1 -> IF odd = "type" THEN <<"type", "type", "struct">> ELSE <<"type", "type">>
          [] id = 4 -> IF odd = "table" THEN <<"table", "initialized">> ELSE <<"table">>
          [] id = 2 -> [i \in 1..imports |-> Fn(i - 1)]
                       \o (IF imports = 1 THEN <<>> ELSE <<GlobalImport>>)
          [] id = 3 -> [i \in 1..defined |-> 1]
          [] id = 5 -> <<[initial |-> IF odd = "large" THEN 3 ELSE 1, maximum |-> Void,
                           plain |-> odd # "shared"]>>
          [] id = 6 -> <<Void, value>>
          [] id = 7 -> <<[name |-> "memory", kind |-> "memory", index |-> 0],
                         [name |-> IF odd = "reserved" THEN Added ELSE "_start", kind |-> "function", index |-> exported]>>
          [] id = 8 -> <<total - 1>>
          [] id = 9 -> << <<value>>, <<total - 1, 0>> >>
          [] id = 10 -> [i \in 1..defined |-> [calls |-> <<0, total - 1>>,
                                              values |-> IF i = 1 THEN <<exported>> ELSE <<>>,
                                              locals |-> MaxLocals - (IF odd = "few" THEN 1 ELSE 0),
                                              charged |-> odd \in {"few", "full"}]]
          [] OTHER -> <<"verbatim">>
      order == SelectSeq(<<1, 2, 3, 4, 5, 6, 7, 8, 9, 12, 10, 11>>, LAMBDA id : id \in ids)
      all == [i \in DOMAIN order |-> [id |-> order[i], entries |-> entries(order[i]), exact |-> odd # ToString(order[i])]]
      names == [id |-> 0, name |-> "name", entries |-> [i \in 1..total |-> i - 1],
                exact |-> odd # "0"]
  IN  SubSeq(all, 1, Min({at, Len(all)})) \o <<names>> \o SubSeq(all, at + 1, Len(all))
\* Sections that only come together: data count and data, functions and code.
\* A module may lack its memory.
Together(ids) == (12 \in ids <=> 11 \in ids) /\ (3 \in ids <=> 10 \in ids)
Modules ==
  { x \in [imports : 0..2, defined : 0..2,
           ids : { t \in SUBSET {1, 2, 3, 5, 6, 7, 8, 9, 10, 11, 12} : Together(t) },
           value : 0..3, exported : 0..3, at : {0, 1, 2, 4}, odd : {"nothing"}] :
      LET total == x.imports + x.defined IN
      /\ x.value < total /\ x.exported < total
      /\ 2 \notin x.ids => x.imports = 0
      /\ 3 \notin x.ids => x.defined = 0
      /\ 5 \notin x.ids => x.at = 0 }
Oddities ==
  {"0", "2", "6", "9", "10", "type", "table", "large", "shared", "reserved", "few", "full", "nothing"}
MCGuests ==
  Modules \cup { [x EXCEPT !.odd = o, !.ids = @ \cup {4}] :
                x \in { y \in Modules : y.at = 2 /\ y.value = 0 /\ {1, 5} \subseteq y.ids },
                o \in Oddities }
MCModule(x) == Shape(x.imports, x.defined, x.ids, x.value, x.exported, x.at, x.odd)

\* Guest memory: four cells of three-bit words.
MCMemories == [0..3 -> {0, 1, 3, 7}]
MCPointers == {-1, 0, 1, 2, 3}
MCDescriptors ==
  { [open |-> TRUE, data |-> d, ret |-> r] : d \in {<<>>, <<7>>, <<0, 2>>}, r \in {0, 5} }
    \cup { [open |-> FALSE, data |-> <<>>, ret |-> 0] }
MCPoll == [in |-> 3, out |-> 2]

\* Nightly runs over three days, oldest first; before, one of them was a first
\* attempt that had passed, or was not yet done.
Night(date, attempt, conclusion) ==
  [event |-> "schedule", date |-> date, attempt |-> attempt, conclusion |-> conclusion,
   status |-> IF conclusion = Null THEN "in_progress" ELSE "completed"]
Outcomes == {<<1, "success">>, <<2, "success">>, <<1, "failure">>, <<1, Null>>, <<2, Null>>}
Nights(days) == { Night(d, o[1], o[2]) : d \in days, o \in Outcomes }
Pushed == [event |-> "push", date |-> 2, attempt |-> 1, conclusion |-> "failure", status |-> "completed"]
MCHistories ==
  { runs \in UNION { [1..n -> Nights(1..3) \cup {Pushed}] : n \in 0..3 }
             \cup { <<Night(1, 1, "success")>> \o runs : runs \in [1..3 -> Nights(2..3)] } :
      \A i \in 2..Len(runs) : runs[i].date >= runs[i - 1].date }
MCEarlier == {Night(0, 1, "success"), Night(0, 1, Null)}
=============================================================================
