-------------------------- MODULE AlgorithmsProofs --------------------------
(***************************************************************************)
(* Theorems about the pure functions under Algorithms, for every input:    *)
(* the vectored reads and writes of a guest (GuestIO), for any memory, any *)
(* pointers and any descriptor; the paths from a workspace to a compile    *)
(* (Workspace), for any files, archive or request; and the rewrite of a    *)
(* WASI command (Sections), for any module.  The paths of a command line   *)
(* (LauncherPaths) and the nightly record (Nightly) are LauncherProofs'.   *)
(***************************************************************************)
EXTENDS Algorithms, FiniteSetTheorems, NaturalsInduction, SequenceTheorems, TLAPS

------------------------------------------------------------------------------
(* Induction and recursion over the naturals.                              *)

LEMMA SetInduction ==
  ASSUME NEW S \in SUBSET Nat, 0 \in S, \A n \in S : n + 1 \in S
  PROVE  S = Nat
<1> SUFFICES ASSUME Nat \ S # {} PROVE FALSE OBVIOUS
<1>1. PICK x \in Nat \ S : \A y \in Nat \ S : <<y, x>> \notin OpToRel(<, Nat)
  <2> DEFINE R == OpToRel(<, Nat)
             T == Nat \ S
  <2>1. IsWellFoundedOn(R, Nat) BY NatLessThanWellFounded
  <2> HIDE DEF R
  <2>2. \E x \in T : \A y \in T : ~(<<y, x>> \in R) BY <2>1, WFMin
  <2> QED BY <2>2 DEF R
<1>2. x # 0 /\ x - 1 \in Nat OBVIOUS
<1>3. x - 1 \notin S
  <2>1. (x - 1) + 1 = x OBVIOUS
  <2> QED BY <1>1, <2>1
<1>4. <<x - 1, x>> \in OpToRel(<, Nat)
  <2>1. x - 1 < x OBVIOUS
  <2> QED BY <1>2, <2>1 DEF OpToRel
<1> QED BY <1>1, <1>2, <1>3, <1>4

\* The values of a recursion whose k-th step is G[k].
Iterations(A, b, G, N) ==
  {f \in [0..N -> A] : f[0] = b /\ \A k \in 1..N : f[k] = G[k][f[k - 1]]}

LEMMA Iterates ==
  ASSUME NEW A, NEW b \in A, NEW M \in Nat, NEW G \in [1..M -> [A -> A]]
  PROVE  Iterations(A, b, G, M) # {}
<1> DEFINE Is(f, n) == f[0] = b /\ \A k \in 1..n : f[k] = G[k][f[k - 1]]
           S == {n \in Nat : n <= M => \E f \in [0..n -> A] : Is(f, n)}
<1>1. 0 \in S
  <2>1. [k \in 0..0 |-> b] \in [0..0 -> A] /\ Is([k \in 0..0 |-> b], 0) OBVIOUS
  <2> QED BY <2>1
<1>2. ASSUME NEW n \in S PROVE n + 1 \in S
  <2> SUFFICES ASSUME n + 1 <= M PROVE \E f \in [0..(n + 1) -> A] : Is(f, n + 1) OBVIOUS
  <2>0. n \in Nat /\ n <= M /\ n + 1 \in 1..M OBVIOUS
  <2>1. PICK f \in [0..n -> A] : Is(f, n) BY <2>0
  <2>2. f[n] \in A /\ G[n + 1][f[n]] \in A
    <3>1. f[n] \in A /\ G[n + 1] \in [A -> A] BY <2>0
    <3> QED BY <3>1
  <2> DEFINE w == G[n + 1][f[n]]
             g == [k \in 0..(n + 1) |-> IF k = n + 1 THEN w ELSE f[k]]
  <2> HIDE DEF w
  <2>3. g \in [0..(n + 1) -> A]
    <3>1. \A k \in 0..(n + 1) : k # n + 1 => k \in 0..n BY <2>0
    <3> QED BY <2>2, <3>1 DEF w
  <2>4. Is(g, n + 1)
    <3>1. g[0] = b BY <2>1, <2>0
    <3>2. ASSUME NEW k \in 1..(n + 1) PROVE g[k] = G[k][g[k - 1]]
      <4>1. CASE k = n + 1
        <5>1. g[k] = w /\ g[k - 1] = f[n] BY <2>0, <4>1
        <5> QED BY <4>1, <5>1 DEF w
      <4>2. CASE k # n + 1
        <5>1. k \in 1..n /\ k - 1 \in 0..n /\ k \in 0..n BY <2>0, <4>2
        <5>2. g[k] = f[k] /\ g[k - 1] = f[k - 1] BY <2>0, <5>1
        <5> QED BY <2>1, <5>1, <5>2
      <4> QED BY <4>1, <4>2
    <3> QED BY <3>1, <3>2
  <2> HIDE DEF g, Is
  <2> QED BY <2>3, <2>4
<1>3. S \in SUBSET Nat OBVIOUS
<1> HIDE DEF S
<1>4. M \in S BY <1>1, <1>2, <1>3, SetInduction
<1> HIDE DEF Is
<1>5. PICK f \in [0..M -> A] : Is(f, M) BY <1>4 DEF S
<1> QED BY <1>5 DEF Is, Iterations

------------------------------------------------------------------------------
(* A call of the guest under way: its memory has n cells, its descriptor    *)
(* moves most at the most and gives ret when it stops short.                *)

Cells(n) == 0..(n - 1)
Answers(ret) == {0, Inval, ret}
States(n, most, ret) ==
  [memory : [Cells(n) -> Nat], moved : 0..most, ret : Answers(ret), done : BOOLEAN,
   touched : SUBSET Cells(n)]

\* What holds of it as it goes.
Sound(s, memory, result) ==
  /\ s.touched = {} => s.memory = memory
  /\ s.done /\ s.ret # Inval => s.memory[result] = s.moved
OnlyReports(s, memory, result) == \A x \in DOMAIN memory : x # result => s.memory[x] = memory[x]

\* A field at a time.
Made(m, v, r, d, t) == [memory |-> m, moved |-> v, ret |-> r, done |-> d, touched |-> t]
Complete(s) == s = Made(s.memory, s.moved, s.ret, s.done, s.touched)

LEMMA SetField ==
  ASSUME NEW s, Complete(s), NEW x
  PROVE  /\ [s EXCEPT !.memory = x] = Made(x, s.moved, s.ret, s.done, s.touched)
         /\ [s EXCEPT !.moved = x] = Made(s.memory, x, s.ret, s.done, s.touched)
         /\ [s EXCEPT !.ret = x] = Made(s.memory, s.moved, x, s.done, s.touched)
         /\ [s EXCEPT !.done = x] = Made(s.memory, s.moved, s.ret, x, s.touched)
         /\ [s EXCEPT !.touched = x] = Made(s.memory, s.moved, s.ret, s.done, x)
<1>1. \A m, v, r, d, t : LET w == Made(m, v, r, d, t) IN
        /\ [w EXCEPT !.memory = x] = Made(x, v, r, d, t)
        /\ [w EXCEPT !.moved = x] = Made(m, x, r, d, t)
        /\ [w EXCEPT !.ret = x] = Made(m, v, x, d, t)
        /\ [w EXCEPT !.done = x] = Made(m, v, r, x, t)
        /\ [w EXCEPT !.touched = x] = Made(m, v, r, d, x)
  BY DEF Made
<1>2. PICK m, v, r, d, t : s = Made(m, v, r, d, t) BY DEF Complete
<1>3. s.memory = m /\ s.moved = v /\ s.ret = r /\ s.done = d /\ s.touched = t BY <1>2 DEF Made
<1>4. [s EXCEPT !.memory = x] = Made(x, v, r, d, t) BY <1>1, <1>2
<1>5. [s EXCEPT !.moved = x] = Made(m, x, r, d, t) BY <1>1, <1>2
<1>6. [s EXCEPT !.ret = x] = Made(m, v, x, d, t) BY <1>1, <1>2
<1>7. [s EXCEPT !.done = x] = Made(m, v, r, x, t) BY <1>1, <1>2
<1>8. [s EXCEPT !.touched = x] = Made(m, v, r, d, x) BY <1>1, <1>2
<1> QED BY <1>3, <1>4, <1>5, <1>6, <1>7, <1>8

LEMMA MadeIs ==
  ASSUME NEW m, NEW v, NEW r, NEW d, NEW t
  PROVE  LET w == Made(m, v, r, d, t) IN
         w.memory = m /\ w.moved = v /\ w.ret = r /\ w.done = d /\ w.touched = t /\ Complete(w)
BY DEF Made, Complete

LEMMA StateIs ==
  ASSUME NEW n, NEW most, NEW ret, NEW s
  PROVE  s \in States(n, most, ret) <=>
           /\ Complete(s) /\ s.memory \in [Cells(n) -> Nat] /\ s.moved \in 0..most
           /\ s.ret \in Answers(ret) /\ s.done \in BOOLEAN /\ s.touched \in SUBSET Cells(n)
BY DEF States, Complete, Made

LEMMA FitsIs ==
  ASSUME NEW n \in Nat, NEW memory \in [Cells(n) -> Nat], NEW a \in Int, NEW l \in Int
  PROVE  /\ Fits(memory, a, l) <=> a + l <= n
         /\ a >= 0 /\ Fits(memory, a, l) => Span(a, l) \subseteq Cells(n)
         /\ a >= 0 /\ l > 0 /\ Fits(memory, a, l) => a \in Cells(n)
<1>1. DOMAIN memory = 0..(n - 1) BY DEF Cells
<1>2. Cardinality(0..(n - 1)) = n
  <2>1. 0 \in Int /\ n - 1 \in Int OBVIOUS
  <2> QED BY <2>1, FS_Interval
<1>3. Fits(memory, a, l) <=> a + l <= n
  BY <1>1, <1>2 DEF Fits, CellsOf
<1> QED BY <1>3 DEF Span, Cells

LEMMA LeastIs ==
  ASSUME NEW a \in Int, NEW b \in Int
  PROVE  /\ Min({a, b}) \in {a, b} /\ Min({a, b}) \in Int
         /\ Min({a, b}) <= a /\ Min({a, b}) <= b
BY DEF Min

\* A call goes on: each of its fields.
LEMMA MemoryIs ==
  ASSUME NEW n \in Nat, NEW most \in Nat, NEW ret, NEW s \in States(n, most, ret), NEW m \in [Cells(n) -> Nat]
  PROVE  LET e == [s EXCEPT !.memory = m] IN
         /\ e \in States(n, most, ret)
         /\ e.memory = m /\ e.moved = s.moved /\ e.ret = s.ret /\ e.done = s.done /\ e.touched = s.touched
<1> DEFINE e == [s EXCEPT !.memory = m]
<1>1. Complete(s) /\ s.memory \in [Cells(n) -> Nat] /\ s.moved \in 0..most /\ s.ret \in Answers(ret)
      /\ s.done \in BOOLEAN /\ s.touched \in SUBSET Cells(n)
  BY StateIs
<1>2. e = Made(m, s.moved, s.ret, s.done, s.touched) BY <1>1, SetField
<1> HIDE DEF e
<1>3. Complete(e) /\ e.memory = m /\ e.moved = s.moved /\ e.ret = s.ret /\ e.done = s.done /\ e.touched = s.touched
  BY <1>2, MadeIs
<1>4. e \in States(n, most, ret) BY <1>1, <1>3, StateIs
<1> QED BY <1>3, <1>4 DEF e

LEMMA MovedIs ==
  ASSUME NEW n \in Nat, NEW most \in Nat, NEW ret, NEW s \in States(n, most, ret), NEW k \in 0..most
  PROVE  LET e == [s EXCEPT !.moved = k] IN
         /\ e \in States(n, most, ret)
         /\ e.memory = s.memory /\ e.moved = k /\ e.ret = s.ret /\ e.done = s.done /\ e.touched = s.touched
<1> DEFINE e == [s EXCEPT !.moved = k]
<1>1. Complete(s) /\ s.memory \in [Cells(n) -> Nat] /\ s.moved \in 0..most /\ s.ret \in Answers(ret)
      /\ s.done \in BOOLEAN /\ s.touched \in SUBSET Cells(n)
  BY StateIs
<1>2. e = Made(s.memory, k, s.ret, s.done, s.touched) BY <1>1, SetField
<1> HIDE DEF e
<1>3. Complete(e) /\ e.memory = s.memory /\ e.moved = k /\ e.ret = s.ret /\ e.done = s.done /\ e.touched = s.touched
  BY <1>2, MadeIs
<1>4. e \in States(n, most, ret) BY <1>1, <1>3, StateIs
<1> QED BY <1>3, <1>4 DEF e

LEMMA RetIs ==
  ASSUME NEW n \in Nat, NEW most \in Nat, NEW ret, NEW s \in States(n, most, ret), NEW r \in Answers(ret)
  PROVE  LET e == [s EXCEPT !.ret = r] IN
         /\ e \in States(n, most, ret)
         /\ e.memory = s.memory /\ e.moved = s.moved /\ e.ret = r /\ e.done = s.done /\ e.touched = s.touched
<1> DEFINE e == [s EXCEPT !.ret = r]
<1>1. Complete(s) /\ s.memory \in [Cells(n) -> Nat] /\ s.moved \in 0..most /\ s.ret \in Answers(ret)
      /\ s.done \in BOOLEAN /\ s.touched \in SUBSET Cells(n)
  BY StateIs
<1>2. e = Made(s.memory, s.moved, r, s.done, s.touched) BY <1>1, SetField
<1> HIDE DEF e
<1>3. Complete(e) /\ e.memory = s.memory /\ e.moved = s.moved /\ e.ret = r /\ e.done = s.done /\ e.touched = s.touched
  BY <1>2, MadeIs
<1>4. e \in States(n, most, ret) BY <1>1, <1>3, StateIs
<1> QED BY <1>3, <1>4 DEF e

LEMMA DoneIs ==
  ASSUME NEW n \in Nat, NEW most \in Nat, NEW ret, NEW s \in States(n, most, ret)
  PROVE  LET e == [s EXCEPT !.done = TRUE] IN
         /\ e \in States(n, most, ret)
         /\ e.memory = s.memory /\ e.moved = s.moved /\ e.ret = s.ret /\ e.done /\ e.touched = s.touched
<1> DEFINE e == [s EXCEPT !.done = TRUE]
<1>1. Complete(s) /\ s.memory \in [Cells(n) -> Nat] /\ s.moved \in 0..most /\ s.ret \in Answers(ret)
      /\ s.done \in BOOLEAN /\ s.touched \in SUBSET Cells(n)
  BY StateIs
<1>2. e = Made(s.memory, s.moved, s.ret, TRUE, s.touched) BY <1>1, SetField, Zenon
<1> HIDE DEF e
<1>3. /\ e.memory = s.memory /\ e.moved = s.moved /\ e.ret = s.ret /\ e.done
      /\ e.touched = s.touched
  BY <1>2 DEF Made
<1>4. Complete(e) BY <1>2 DEF Made, Complete
<1>5. e \in States(n, most, ret) BY <1>1, <1>3, <1>4, StateIs
<1> QED BY <1>3, <1>5 DEF e

LEMMA TouchedIs ==
  ASSUME NEW n \in Nat, NEW most \in Nat, NEW ret, NEW s \in States(n, most, ret), NEW C \in SUBSET Cells(n)
  PROVE  LET e == [s EXCEPT !.touched = C] IN
         /\ e \in States(n, most, ret)
         /\ e.memory = s.memory /\ e.moved = s.moved /\ e.ret = s.ret /\ e.done = s.done /\ e.touched = C
<1> DEFINE e == [s EXCEPT !.touched = C]
<1>1. Complete(s) /\ s.memory \in [Cells(n) -> Nat] /\ s.moved \in 0..most /\ s.ret \in Answers(ret)
      /\ s.done \in BOOLEAN /\ s.touched \in SUBSET Cells(n)
  BY StateIs
<1>2. e = Made(s.memory, s.moved, s.ret, s.done, C) BY <1>1, SetField
<1> HIDE DEF e
<1>3. Complete(e) /\ e.memory = s.memory /\ e.moved = s.moved /\ e.ret = s.ret /\ e.done = s.done /\ e.touched = C
  BY <1>2, MadeIs
<1>4. e \in States(n, most, ret) BY <1>1, <1>3, StateIs
<1> QED BY <1>3, <1>4 DEF e

\* What a report changes.
Reported(e, s, n, most, ret, result) ==
  /\ e \in States(n, most, ret) /\ e.touched # {} /\ e.moved = s.moved
  /\ e.memory[result] = s.moved /\ e.ret = s.ret /\ e.done = s.done
  /\ \A x \in Cells(n) : x # result => e.memory[x] = s.memory[x]

LEMMA ReportIs ==
  ASSUME NEW n \in Nat, NEW most \in Nat, NEW ret, NEW s \in States(n, most, ret),
         NEW result \in Cells(n)
  PROVE  Reported(Report(s, result), s, n, most, ret, result)
<1> DEFINE stored == Store(s.memory, result, s.moved)
           t == [s EXCEPT !.memory = stored]
           C == t.touched \cup {result}
           e == [t EXCEPT !.touched = C]
<1>1. s.memory \in [Cells(n) -> Nat] /\ s.moved \in 0..most /\ s.touched \in SUBSET Cells(n)
  BY StateIs
<1>2. stored \in [Cells(n) -> Nat] /\ stored[result] = s.moved
      /\ \A x \in Cells(n) : x # result => stored[x] = s.memory[x]
  BY <1>1 DEF Store
<1>3. Report(s, result) = e BY DEF Report
<1> HIDE DEF stored
<1>4. /\ t \in States(n, most, ret) /\ t.memory = stored /\ t.moved = s.moved
      /\ t.ret = s.ret /\ t.done = s.done /\ t.touched = s.touched
  BY <1>2, MemoryIs
<1> HIDE DEF t
<1>5. C \in SUBSET Cells(n) /\ C # {} BY <1>1, <1>4
<1> HIDE DEF C
<1>6. /\ e \in States(n, most, ret) /\ e.memory = t.memory /\ e.moved = t.moved
      /\ e.ret = t.ret /\ e.done = t.done /\ e.touched = C
  BY <1>4, <1>5, TouchedIs
<1> HIDE DEF e
<1> QED BY <1>2, <1>3, <1>4, <1>5, <1>6 DEF Reported

LEMMA AnswerIs ==
  ASSUME NEW n \in Nat, NEW most \in Nat, NEW ret, NEW s \in States(n, most, ret),
         NEW r \in Answers(ret)
  PROVE  LET e == Answer(s, r) IN
         /\ e \in States(n, most, ret) /\ e.touched = s.touched /\ e.moved = s.moved
         /\ e.memory = s.memory /\ e.ret = r /\ e.done
<1> DEFINE t == [s EXCEPT !.ret = r]
           e == [t EXCEPT !.done = TRUE]
<1>1. Answer(s, r) = e BY DEF Answer
<1>2. /\ t \in States(n, most, ret) /\ t.memory = s.memory /\ t.moved = s.moved
      /\ t.ret = r /\ t.touched = s.touched
  BY RetIs
<1> HIDE DEF t
<1>3. /\ e \in States(n, most, ret) /\ e.memory = t.memory /\ e.moved = t.moved
      /\ e.ret = t.ret /\ e.done /\ e.touched = t.touched
  BY <1>2, DoneIs
<1> HIDE DEF e
<1> QED BY <1>1, <1>2, <1>3

\* The entry of a vector: it is looked at, and nothing is moved yet.
LEMMA EntryIs ==
  ASSUME NEW n \in Nat, NEW most \in Nat, NEW ret, NEW s \in States(n, most, ret), ~s.done,
         NEW cell \in Cells(n), cell + 1 \in Cells(n)
  PROVE  LET e == Entry(s, cell)
             a == Load(s.memory, cell)
             l == Load(s.memory, cell + 1) IN
         /\ a \in Nat /\ l \in Nat
         /\ e \in States(n, most, ret) /\ e.memory = s.memory /\ e.moved = s.moved
         /\ e.touched # {} /\ (e.done => e.ret = Inval)
         /\ ~e.done => Span(a, l) \subseteq Cells(n) /\ e.ret = s.ret
<1> DEFINE e == Entry(s, cell)
           a == Load(s.memory, cell)
           l == Load(s.memory, cell + 1)
           C == s.touched \cup {cell, cell + 1}
           seen == [s EXCEPT !.touched = C]
           D == seen.touched \cup Span(a, l)
           whole == [seen EXCEPT !.touched = D]
<1>1. s.memory \in [Cells(n) -> Nat] /\ s.touched \in SUBSET Cells(n) BY StateIs
<1>2. a \in Nat /\ l \in Nat BY <1>1 DEF Load
<1>3. C \in SUBSET Cells(n) /\ C # {} BY <1>1
<1>4. e = IF ~Fits(s.memory, a, l) THEN Answer(seen, Inval) ELSE whole
  BY DEF Entry, EntryFits
<1> HIDE DEF e, a, l, C
<1>5. /\ seen \in States(n, most, ret) /\ seen.memory = s.memory /\ seen.moved = s.moved
      /\ seen.touched = C /\ seen.done = s.done /\ seen.ret = s.ret
  BY <1>3, TouchedIs
<1> HIDE DEF seen
<1>6. CASE ~Fits(s.memory, a, l)
  <2>1. e = Answer(seen, Inval) BY <1>4, <1>6
  <2>2. e \in States(n, most, ret) /\ e.touched = seen.touched /\ e.moved = seen.moved
        /\ e.memory = seen.memory /\ e.ret = Inval /\ e.done
    BY <1>5, <2>1, AnswerIs DEF Answers
  <2> QED BY <1>2, <1>3, <1>5, <2>2 DEF e, a, l
<1>7. CASE Fits(s.memory, a, l)
  <2>1. Span(a, l) \in SUBSET Cells(n) BY <1>1, <1>2, <1>7, FitsIs
  <2>2. D \in SUBSET Cells(n) /\ D # {} BY <1>1, <1>3, <1>5, <2>1
  <2>3. e = whole BY <1>4, <1>7
  <2> HIDE DEF D
  <2>4. /\ whole \in States(n, most, ret) /\ whole.memory = seen.memory
        /\ whole.moved = seen.moved /\ whole.touched = D /\ whole.done = seen.done
        /\ whole.ret = seen.ret
    BY <1>5, <2>2, TouchedIs
  <2> HIDE DEF whole
  <2> QED BY <1>2, <1>5, <2>1, <2>2, <2>3, <2>4 DEF e, a, l
<1> QED BY <1>6, <1>7

\* A call that is refused at once has gone nowhere; an answer other than EINVAL
\* comes with a report.
Accounted(n, memory, result, fd) ==
  {s \in States(n, Len(fd.data), fd.ret) : Sound(s, memory, result)}

LEMMA MovedBounded ==
  ASSUME NEW n \in Nat, NEW fd, fd.data \in Seq(Nat), NEW s \in States(n, Len(fd.data), fd.ret),
         NEW cell, Length(s, cell) \in Nat
  PROVE  LET k == Moved(s, cell, fd) IN
         k \in Nat /\ k <= Length(s, cell) /\ s.moved + k \in 0..Len(fd.data)
<1> DEFINE l == Length(s, cell)
           d == Len(fd.data) - s.moved
<1>1. s.moved \in 0..Len(fd.data) /\ Len(fd.data) \in Nat BY StateIs
<1>2. d \in Nat /\ s.moved + d = Len(fd.data) BY <1>1
<1>3. Moved(s, cell, fd) = Min({l, d}) /\ l \in Nat BY DEF Moved
<1> HIDE DEF l, d
<1>4. /\ Min({l, d}) \in {l, d} /\ Min({l, d}) <= l /\ Min({l, d}) <= d
  <2>1. l \in Int /\ d \in Int BY <1>2, <1>3
  <2> QED BY <2>1, LeastIs, Zenon
<1> QED BY <1>1, <1>2, <1>3, <1>4 DEF l

\* One entry of a vector that is written.
LEMMA WriteKeeps ==
  ASSUME NEW n \in Nat, NEW memory \in [Cells(n) -> Nat], NEW fd, fd.data \in Seq(Nat),
         NEW result \in Cells(n), NEW cell \in Cells(n), cell + 1 \in Cells(n),
         NEW s \in Accounted(n, memory, result, fd), OnlyReports(s, memory, result)
  PROVE  LET e == WriteEntry(s, cell, result, fd) IN
         e \in Accounted(n, memory, result, fd) /\ OnlyReports(e, memory, result)
<1> DEFINE most == Len(fd.data)
           ret == fd.ret
           e == WriteEntry(s, cell, result, fd)
           seen == Entry(s, cell)
           k == Moved(s, cell, fd)
           l == Length(s, cell)
           m == seen.moved + k
           t == [seen EXCEPT !.moved = m]
           moved == Report(t, result)
<1>1. s \in States(n, most, ret) /\ most \in Nat BY DEF Accounted
<1>2. e = IF seen.done THEN seen ELSE IF k # l THEN Answer(moved, ret) ELSE moved
  BY DEF WriteEntry
<1> HIDE DEF most, ret, e
<1>3. CASE s.done
  <2>1. e = s BY <1>2, <1>3 DEF Entry
  <2> QED BY <2>1 DEF e
<1>4. CASE ~s.done
  <2>1. /\ seen \in States(n, most, ret) /\ seen.memory = s.memory /\ seen.moved = s.moved
        /\ seen.touched # {} /\ (seen.done => seen.ret = Inval) /\ l \in Nat
    BY <1>1, <1>4, EntryIs DEF Length
  <2>2. m \in 0..most BY <1>1, <2>1, MovedBounded DEF most, ret
  <2> HIDE DEF seen, k, l, m
  <2>3. /\ t \in States(n, most, ret) /\ t.memory = seen.memory /\ t.moved = m
        /\ t.done = seen.done
    BY <1>1, <2>1, <2>2, MovedIs
  <2> HIDE DEF t
  <2>4. /\ moved \in States(n, most, ret) /\ moved.touched # {} /\ moved.moved = t.moved
        /\ moved.memory[result] = t.moved /\ moved.done = t.done
        /\ \A x \in Cells(n) : x # result => moved.memory[x] = t.memory[x]
    <3>1. Reported(moved, t, n, most, ret, result) BY <1>1, <2>3, ReportIs
    <3> QED BY <3>1 DEF Reported
  <2> HIDE DEF moved
  <2>5. \A x \in Cells(n) : x # result => s.memory[x] = memory[x] BY DEF OnlyReports
  <2>6. CASE seen.done
    <3>1. e = seen BY <1>2, <2>6
    <3>2. Sound(seen, memory, result) BY <2>1, <2>6 DEF Sound
    <3>3. OnlyReports(seen, memory, result) BY <2>1, <2>5 DEF OnlyReports
    <3> QED BY <2>1, <3>1, <3>2, <3>3 DEF Accounted, most, ret, e
  <2>7. ASSUME ~seen.done, NEW a \in States(n, most, ret), a.memory = moved.memory,
               a.moved = moved.moved, a.touched = moved.touched
        PROVE  a \in Accounted(n, memory, result, fd) /\ OnlyReports(a, memory, result)
    <3>1. Sound(a, memory, result) BY <2>4, <2>7 DEF Sound
    <3>2. OnlyReports(a, memory, result) BY <2>1, <2>3, <2>4, <2>5, <2>7 DEF OnlyReports
    <3> QED BY <3>1, <3>2 DEF Accounted, most, ret
  <2>8. CASE ~seen.done /\ k = l
    <3>1. e = moved BY <1>2, <2>8
    <3> QED BY <2>4, <2>7, <2>8, <3>1 DEF e
  <2>9. CASE ~seen.done /\ k # l
    <3>1. e = Answer(moved, ret) BY <1>2, <2>9
    <3>2. ret \in Answers(ret) BY DEF Answers
    <3>3. /\ e \in States(n, most, ret) /\ e.memory = moved.memory /\ e.moved = moved.moved
          /\ e.touched = moved.touched
      BY <1>1, <2>4, <3>1, <3>2, AnswerIs
    <3> QED BY <2>7, <2>9, <3>3 DEF e
  <2> QED BY <2>6, <2>8, <2>9
<1> QED BY <1>3, <1>4

LEMMA FilledIs ==
  ASSUME NEW n \in Nat, NEW memory \in [Cells(n) -> Nat], NEW data \in Seq(Nat),
         NEW a \in Nat, NEW k \in Nat, NEW first \in Nat \ {0}, first + k - 1 <= Len(data)
  PROVE  Filled(memory, a, k, data, first) \in [Cells(n) -> Nat]
<1>1. \A x \in Span(a, k) : first + x - a \in 1..Len(data) BY DEF Span
<1>2. \A x \in Span(a, k) : data[first + x - a] \in Nat BY <1>1
<1> QED BY <1>2 DEF Filled

\* One entry of a vector that is read into.
LEMMA ReadKeeps ==
  ASSUME NEW n \in Nat, NEW memory \in [Cells(n) -> Nat], NEW fd, fd.data \in Seq(Nat),
         NEW result \in Cells(n), NEW cell \in Cells(n), cell + 1 \in Cells(n),
         NEW s \in Accounted(n, memory, result, fd)
  PROVE  ReadEntry(s, cell, result, fd) \in Accounted(n, memory, result, fd)
<1> DEFINE most == Len(fd.data)
           ret == fd.ret
           e == ReadEntry(s, cell, result, fd)
           seen == Entry(s, cell)
           k == Moved(s, cell, fd)
           l == Length(s, cell)
           a == Load(s.memory, cell)
           m == seen.moved + k
           t == [seen EXCEPT !.moved = m]
           f == Filled(t.memory, a, k, fd.data, s.moved + 1)
           filled == [t EXCEPT !.memory = f]
<1>1. s \in States(n, most, ret) /\ most \in Nat BY DEF Accounted
<1>2. e = IF seen.done THEN seen ELSE IF k = l THEN filled
          ELSE IF ret # 0 THEN Answer(Report(seen, result), ret)
          ELSE Answer(Report(filled, result), 0)
  BY DEF ReadEntry
<1> HIDE DEF most, ret, e
<1>3. CASE s.done
  <2>1. e = s BY <1>2, <1>3 DEF Entry
  <2> QED BY <2>1 DEF e
<1>4. CASE ~s.done
  <2>1. /\ seen \in States(n, most, ret) /\ seen.memory = s.memory /\ seen.moved = s.moved
        /\ seen.touched # {} /\ (seen.done => seen.ret = Inval) /\ l \in Nat /\ a \in Nat
    BY <1>1, <1>4, EntryIs DEF Length
  <2>2. k \in Nat /\ m \in 0..most BY <1>1, <2>1, MovedBounded DEF most, ret
  <2>3. s.moved \in Nat BY <1>1, StateIs
  <2> HIDE DEF seen, k, l, a
  <2>4. m = s.moved + k BY <2>1
  <2> HIDE DEF m
  <2>5. /\ t \in States(n, most, ret) /\ t.memory = seen.memory /\ t.moved = m
        /\ t.done = seen.done /\ t.touched = seen.touched
    BY <1>1, <2>1, <2>2, MovedIs
  <2> HIDE DEF t
  <2>6. f \in [Cells(n) -> Nat]
    <3>1. t.memory \in [Cells(n) -> Nat] BY <2>5, StateIs
    <3>2. s.moved + 1 \in Nat \ {0} /\ (s.moved + 1) + k - 1 <= most BY <2>2, <2>3, <2>4, <1>1
    <3> QED BY <2>1, <2>2, <3>1, <3>2, FilledIs DEF most
  <2> HIDE DEF f
  <2>7. /\ filled \in States(n, most, ret) /\ filled.touched = seen.touched
        /\ filled.done = seen.done
    BY <1>1, <2>5, <2>6, MemoryIs
  <2> HIDE DEF filled
  <2>8. ASSUME NEW b \in States(n, most, ret), NEW r \in Answers(ret)
        PROVE  Answer(Report(b, result), r) \in Accounted(n, memory, result, fd)
    <3> DEFINE u == Report(b, result)
               w == Answer(u, r)
    <3>1. /\ u \in States(n, most, ret) /\ u.touched # {} /\ u.moved = b.moved
          /\ u.memory[result] = b.moved
      <4>1. Reported(u, b, n, most, ret, result) BY <1>1, ReportIs
      <4> QED BY <4>1 DEF Reported
    <3> HIDE DEF u
    <3>2. /\ w \in States(n, most, ret) /\ w.touched = u.touched /\ w.moved = u.moved
          /\ w.memory = u.memory
      BY <1>1, <3>1, AnswerIs
    <3> HIDE DEF w
    <3>3. Sound(w, memory, result) BY <3>1, <3>2 DEF Sound
    <3> QED BY <3>2, <3>3 DEF Accounted, most, ret, w, u
  <2>9. CASE seen.done
    <3>1. e = seen BY <1>2, <2>9
    <3>2. Sound(seen, memory, result) BY <2>1, <2>9 DEF Sound
    <3> QED BY <2>1, <3>1, <3>2 DEF Accounted, most, ret, e
  <2>10. CASE ~seen.done /\ k = l
    <3>1. e = filled BY <1>2, <2>10
    <3>2. Sound(filled, memory, result) BY <2>1, <2>7, <2>10 DEF Sound
    <3> QED BY <2>7, <3>1, <3>2 DEF Accounted, most, ret, e
  <2>11. CASE ~seen.done /\ k # l
    <3>1. 0 \in Answers(ret) /\ ret \in Answers(ret) BY DEF Answers
    <3>2. e = Answer(Report(seen, result), ret) \/ e = Answer(Report(filled, result), 0)
      BY <1>2, <2>11
    <3> QED BY <2>1, <2>7, <2>8, <3>1, <3>2 DEF e
  <2> QED BY <2>9, <2>10, <2>11
<1> QED BY <1>3, <1>4

------------------------------------------------------------------------------
(* The call after each entry of its vector.                                *)

LEMMA Throughout ==
  ASSUME NEW A, NEW M \in Nat, NEW W, W[0] \in A, \A k \in 1..M : W[k - 1] \in A => W[k] \in A
  PROVE  \A k \in 0..M : W[k] \in A
<1> DEFINE S == {k \in Nat : k <= M => W[k] \in A}
<1>1. 0 \in S OBVIOUS
<1>2. ASSUME NEW k \in S PROVE k + 1 \in S
  <2> SUFFICES ASSUME k + 1 <= M PROVE W[k + 1] \in A OBVIOUS
  <2>1. k + 1 \in 1..M /\ (k + 1) - 1 = k /\ W[k] \in A OBVIOUS
  <2> QED BY <2>1
<1>3. S \in SUBSET Nat OBVIOUS
<1> HIDE DEF S
<1>4. S = Nat BY <1>1, <1>2, <1>3, SetInduction
<1> QED BY <1>4 DEF S

LEMMA CallIs ==
  ASSUME NEW n \in Nat, NEW most \in Nat, NEW ret, NEW memory \in [Cells(n) -> Nat]
  PROVE  LET s == Call(memory) IN
         /\ s \in States(n, most, ret) /\ s.memory = memory /\ s.moved = 0 /\ s.ret = 0
         /\ ~s.done /\ s.touched = {}
BY DEF Call, States, Answers

LEMMA WrittenIs ==
  ASSUME NEW n \in Nat, NEW memory \in [Cells(n) -> Nat], NEW fd, fd.data \in Seq(Nat),
         NEW result \in Cells(n), NEW pointer \in Nat, NEW count \in Nat,
         pointer + 2 * count <= n
  PROVE  LET e == Written(memory, pointer, count, result, fd)[count] IN
         e \in Accounted(n, memory, result, fd) /\ OnlyReports(e, memory, result)
<1> DEFINE A == {s \in Accounted(n, memory, result, fd) : OnlyReports(s, memory, result)}
           b == Call(memory)
           After(k, s) == WriteEntry(s, pointer + 2 * (k - 1), result, fd)
           G == [k \in 1..count |-> [s \in A |-> After(k, s)]]
           Def(g) == [k \in 0..count |-> IF k = 0 THEN b ELSE After(k, g[k - 1])]
           W == Written(memory, pointer, count, result, fd)
<1>1. b \in A
  <2>1. Len(fd.data) \in Nat OBVIOUS
  <2>2. /\ b \in States(n, Len(fd.data), fd.ret) /\ b.memory = memory /\ ~b.done
    BY <2>1, CallIs
  <2> HIDE DEF b
  <2> QED BY <2>2 DEF Accounted, Sound, OnlyReports
<1>2. ASSUME NEW k \in 1..count, NEW s \in A PROVE After(k, s) \in A
  <2> DEFINE cell == pointer + 2 * (k - 1)
  <2>1. cell \in Cells(n) /\ cell + 1 \in Cells(n) BY DEF Cells
  <2> HIDE DEF cell
  <2> QED BY <2>1, WriteKeeps DEF cell
<1>3. W = CHOOSE g : g = Def(g) BY DEF Written
<1> HIDE DEF A, b, After, W
<1>4. G \in [1..count -> [A -> A]] BY <1>2
<1> HIDE DEF G
<1>5. PICK f \in [0..count -> A] : f[0] = b /\ \A k \in 1..count : f[k] = G[k][f[k - 1]]
  <2>1. Iterations(A, b, G, count) # {} BY <1>1, <1>4, Iterates
  <2> QED BY <2>1 DEF Iterations
<1>6. f = Def(f)
  <2>1. \A k \in 0..count : f[k] = IF k = 0 THEN b ELSE After(k, f[k - 1])
    <3> SUFFICES ASSUME NEW k \in 0..count, k # 0 PROVE f[k] = After(k, f[k - 1]) BY <1>5
    <3>1. k \in 1..count /\ k - 1 \in 0..count OBVIOUS
    <3>2. f[k] = G[k][f[k - 1]] /\ f[k - 1] \in A BY <1>5, <3>1
    <3> QED BY <3>1, <3>2 DEF G
  <2> QED BY <2>1
<1> HIDE DEF Def
<1>7. W = Def(W) BY <1>3, <1>6
<1>8. W[0] = b /\ \A k \in 1..count : W[k] = After(k, W[k - 1])
  <2>1. \A k \in 0..count : W[k] = IF k = 0 THEN b ELSE After(k, W[k - 1]) BY <1>7 DEF Def
  <2> QED BY <2>1
<1>9. \A k \in 0..count : W[k] \in A BY <1>1, <1>2, <1>8, Throughout
<1> QED BY <1>9 DEF A, W

LEMMA ReadInIs ==
  ASSUME NEW n \in Nat, NEW memory \in [Cells(n) -> Nat], NEW fd, fd.data \in Seq(Nat),
         NEW result \in Cells(n), NEW pointer \in Nat, NEW count \in Nat,
         pointer + 2 * count <= n
  PROVE  ReadIn(memory, pointer, count, result, fd)[count] \in Accounted(n, memory, result, fd)
<1> DEFINE A == Accounted(n, memory, result, fd)
           b == Call(memory)
           After(k, s) == ReadEntry(s, pointer + 2 * (k - 1), result, fd)
           G == [k \in 1..count |-> [s \in A |-> After(k, s)]]
           Def(g) == [k \in 0..count |-> IF k = 0 THEN b ELSE After(k, g[k - 1])]
           W == ReadIn(memory, pointer, count, result, fd)
<1>1. b \in A
  <2>1. Len(fd.data) \in Nat OBVIOUS
  <2>2. /\ b \in States(n, Len(fd.data), fd.ret) /\ b.memory = memory /\ ~b.done
    BY <2>1, CallIs
  <2> HIDE DEF b
  <2> QED BY <2>2 DEF Accounted, Sound
<1>2. ASSUME NEW k \in 1..count, NEW s \in A PROVE After(k, s) \in A
  <2> DEFINE cell == pointer + 2 * (k - 1)
  <2>1. cell \in Cells(n) /\ cell + 1 \in Cells(n) BY DEF Cells
  <2> HIDE DEF cell
  <2> QED BY <2>1, ReadKeeps DEF cell
<1>3. W = CHOOSE g : g = Def(g) BY DEF ReadIn
<1> HIDE DEF A, b, After, W
<1>4. G \in [1..count -> [A -> A]] BY <1>2
<1> HIDE DEF G
<1>5. PICK f \in [0..count -> A] : f[0] = b /\ \A k \in 1..count : f[k] = G[k][f[k - 1]]
  <2>1. Iterations(A, b, G, count) # {} BY <1>1, <1>4, Iterates
  <2> QED BY <2>1 DEF Iterations
<1>6. f = Def(f)
  <2>1. \A k \in 0..count : f[k] = IF k = 0 THEN b ELSE After(k, f[k - 1])
    <3> SUFFICES ASSUME NEW k \in 0..count, k # 0 PROVE f[k] = After(k, f[k - 1]) BY <1>5
    <3>1. k \in 1..count /\ k - 1 \in 0..count OBVIOUS
    <3>2. f[k] = G[k][f[k - 1]] /\ f[k - 1] \in A BY <1>5, <3>1
    <3> QED BY <3>1, <3>2 DEF G
  <2> QED BY <2>1
<1> HIDE DEF Def
<1>7. W = Def(W) BY <1>3, <1>6
<1>8. W[0] = b /\ \A k \in 1..count : W[k] = After(k, W[k - 1])
  <2>1. \A k \in 0..count : W[k] = IF k = 0 THEN b ELSE After(k, W[k - 1]) BY <1>7 DEF Def
  <2> QED BY <2>1
<1>9. \A k \in 0..count : W[k] \in A BY <1>1, <1>2, <1>8, Throughout
<1> QED BY <1>9 DEF A, W

------------------------------------------------------------------------------
(* What a call owes.  A descriptor that is not open answers EBADF, which the  *)
(* states of a call with a descriptor of their own do not hold.               *)

LEMMA RefusedAtOnce ==
  ASSUME NEW n \in Nat, NEW memory \in [Cells(n) -> Nat], NEW r
  PROVE  LET e == Answer(Call(memory), r) IN
         /\ e.memory = memory /\ e.moved = 0 /\ e.ret = r /\ e.done /\ e.touched = {}
<1> DEFINE s == Call(memory)
           e == Answer(s, r)
<1>1. s \in States(n, 0, r) /\ s.memory = memory /\ s.moved = 0 /\ s.touched = {} BY CallIs
<1> HIDE DEF s
<1>2. r \in Answers(r) BY DEF Answers
<1>3. /\ e.touched = s.touched /\ e.moved = s.moved /\ e.memory = s.memory /\ e.ret = r /\ e.done
  BY <1>1, <1>2, AnswerIs
<1> HIDE DEF e
<1> QED BY <1>1, <1>3 DEF e, s

LEMMA UnsignedIs == ASSUME NEW x \in Int, IOAssumption PROVE Unsigned(x) \in Nat
BY DEF Unsigned, IOAssumption

LEMMA CheckedIs ==
  ASSUME NEW n \in Nat, NEW memory \in [Cells(n) -> Nat], NEW pointer \in Nat, NEW count \in Nat,
         NEW result \in Nat, Checked(memory, pointer, count, result)
  PROVE  pointer + 2 * count <= n /\ result \in Cells(n)
<1>1. 2 * count \in Int OBVIOUS
<1>2. Fits(memory, pointer, 2 * count) <=> pointer + 2 * count <= n BY <1>1, FitsIs
<1>3. Fits(memory, result, 1) => result \in Cells(n) BY FitsIs
<1> QED BY <1>2, <1>3 DEF Checked

\* After the last entry a call that went well reports what it moved.
Outcomes(e, n, memory, pointer, count, result, fd, final) ==
  /\ e.touched \in SUBSET Cells(n) /\ e.done /\ (e.touched = {} => e.memory = memory)
  /\ e.ret \notin {Inval, Badf} => e.memory[result] = e.moved
  /\ e.moved <= Len(fd.data)
  /\ \/ e.memory = memory
     \/ /\ Checked(memory, pointer, count, result)
        /\ \A x \in Cells(n) : x # result => e.memory[x] = final.memory[x]

LEMMA OutcomeIs ==
  ASSUME NEW n \in Nat, NEW memory \in [Cells(n) -> Nat], NEW fd, fd.data \in Seq(Nat),
         NEW pointer, NEW count, NEW result,
         Checked(memory, pointer, count, result) => result \in Cells(n),
         NEW final,
         Checked(memory, pointer, count, result) => final \in Accounted(n, memory, result, fd)
  PROVE  Outcomes(Outcome(memory, pointer, count, result, fd, final),
                  n, memory, pointer, count, result, fd, final)
<1> DEFINE e == Outcome(memory, pointer, count, result, fd, final)
           refused(r) == Answer(Call(memory), r)
           u == Report(final, result)
           w == Answer(u, 0)
           checked == Checked(memory, pointer, count, result)
           most == Len(fd.data)
<1>1. most \in Nat OBVIOUS
<1>2. e = IF ~fd.open THEN refused(Badf) ELSE IF ~checked THEN refused(Inval)
          ELSE IF final.done THEN final ELSE w
  BY DEF Outcome
<1>3. \A r : /\ refused(r).memory = memory /\ refused(r).moved = 0 /\ refused(r).ret = r
             /\ refused(r).done /\ refused(r).touched = {}
  BY RefusedAtOnce
<1> HIDE DEF e, refused, checked
<1>4. CASE ~fd.open \/ ~checked
  <2>1. PICK r \in {Badf, Inval} : e = refused(r) BY <1>2, <1>4
  <2> QED BY <1>1, <1>3, <2>1 DEF e, checked, most, Outcomes
<1>5. CASE fd.open /\ checked
  <2>1. result \in Cells(n) /\ final \in States(n, most, fd.ret) /\ Sound(final, memory, result)
    BY <1>5 DEF checked, Accounted
  <2>2. CASE final.done
    <3>1. e = final BY <1>2, <1>5, <2>2
    <3>2. final.touched \in SUBSET Cells(n) /\ final.moved \in 0..most BY <2>1, StateIs
    <3> QED BY <1>1, <1>5, <2>1, <2>2, <3>1, <3>2 DEF e, checked, Sound, most, Outcomes
  <2>3. CASE ~final.done
    <3>1. e = w BY <1>2, <1>5, <2>3
    <3>2. 0 \in Answers(fd.ret) BY DEF Answers
    <3>3. /\ u \in States(n, most, fd.ret) /\ u.touched # {} /\ u.moved = final.moved
          /\ u.memory[result] = final.moved
          /\ \A x \in Cells(n) : x # result => u.memory[x] = final.memory[x]
      <4>1. Reported(u, final, n, most, fd.ret, result) BY <1>1, <2>1, ReportIs
      <4> QED BY <4>1 DEF Reported
    <3> HIDE DEF u
    <3>4. /\ w \in States(n, most, fd.ret) /\ w.touched = u.touched /\ w.moved = u.moved
          /\ w.memory = u.memory /\ w.done
      BY <1>1, <3>2, <3>3, AnswerIs
    <3> HIDE DEF w
    <3>5. w.touched \in SUBSET Cells(n) /\ w.moved \in 0..most BY <3>4, StateIs
    <3> QED BY <1>1, <1>5, <3>1, <3>3, <3>4, <3>5 DEF e, checked, most, Outcomes
  <2> QED BY <2>2, <2>3
<1> QED BY <1>4, <1>5

\* The inputs of a vectored call.
IsInput(memory, p, c, r, fd) ==
  /\ memory \in Memories /\ p \in Pointers /\ c \in Pointers /\ r \in Pointers
  /\ fd \in Descriptors

LEMMA InputIs ==
  ASSUME NEW memory, NEW p, NEW c, NEW r, NEW fd, IsInput(memory, p, c, r, fd), IOAssumption
  PROVE  /\ \E n \in Nat : memory \in [Cells(n) -> Nat]
         /\ Unsigned(p) \in Nat /\ Unsigned(c) \in Nat /\ Unsigned(r) \in Nat
         /\ fd.data \in Seq(Nat)
<1>1. p \in Int /\ c \in Int /\ r \in Int BY DEF IsInput, IOAssumption
<1>2. fd.data \in Seq(Nat) BY DEF IsInput, IOAssumption
<1>3. \E n \in Nat : memory \in [Cells(n) -> Nat]
  <2>1. /\ IsFiniteSet(DOMAIN memory)
        /\ memory \in [0..(Cardinality(DOMAIN memory) - 1) -> Nat]
    BY DEF IsInput, IOAssumption
  <2>2. Cardinality(DOMAIN memory) \in Nat BY <2>1, FS_CardinalityType
  <2> QED BY <2>1, <2>2 DEF Cells
<1> QED BY <1>1, <1>2, <1>3, UnsignedIs

\* IOBounded and the promise of a write, with the cell of the report named.
Owes(e, memory, result, fd) ==
  /\ e.touched \subseteq DOMAIN memory /\ e.done /\ (e.touched = {} => e.memory = memory)
  /\ e.ret \notin {Inval, Badf} => e.memory[result] = e.moved
  /\ e.moved <= Len(fd.data)
WriteOwes(e, memory, result, fd) ==
  /\ Owes(e, memory, result, fd)
  /\ \A x \in DOMAIN memory : x # result => e.memory[x] = memory[x]

LEMMA WritesBounded ==
  ASSUME NEW memory, NEW p, NEW c, NEW r, NEW fd, IsInput(memory, p, c, r, fd), IOAssumption
  PROVE  WriteBounded(memory, p, c, r, fd)
<1> DEFINE pointer == Unsigned(p)
           count == Unsigned(c)
           result == Unsigned(r)
           final == Written(memory, pointer, count, result, fd)[count]
           e == Write(memory, p, c, r, fd)
<1>1. PICK n \in Nat : memory \in [Cells(n) -> Nat] BY InputIs
<1>2. pointer \in Nat /\ count \in Nat /\ result \in Nat /\ fd.data \in Seq(Nat) BY InputIs
<1>3. e = Outcome(memory, pointer, count, result, fd, final) BY DEF Write
<1>4. WriteOwes(e, memory, result, fd)
        => WriteBounded(memory, p, c, r, fd)
  BY DEF WriteBounded, CallBounded, WriteOwes, Owes
<1> HIDE DEF pointer, count, result, e
<1>5. ASSUME Checked(memory, pointer, count, result)
      PROVE  /\ result \in Cells(n) /\ final \in Accounted(n, memory, result, fd)
             /\ OnlyReports(final, memory, result)
  <2>1. pointer + 2 * count <= n /\ result \in Cells(n) BY <1>1, <1>2, <1>5, CheckedIs
  <2> QED BY <1>1, <1>2, <2>1, WrittenIs
<1> HIDE DEF final
<1>6. /\ e.touched \in SUBSET Cells(n) /\ e.done /\ (e.touched = {} => e.memory = memory)
      /\ e.ret \notin {Inval, Badf} => e.memory[result] = e.moved
      /\ e.moved <= Len(fd.data)
      /\ \/ e.memory = memory
         \/ /\ Checked(memory, pointer, count, result)
            /\ \A x \in Cells(n) : x # result => e.memory[x] = final.memory[x]
  <2>1. Outcomes(e, n, memory, pointer, count, result, fd, final)
    BY <1>1, <1>2, <1>3, <1>5, OutcomeIs
  <2> QED BY <2>1 DEF Outcomes
<1>7. DOMAIN memory = Cells(n) BY <1>1
<1>8. \A x \in Cells(n) : x # result => e.memory[x] = memory[x]
  BY <1>5, <1>6, <1>7 DEF OnlyReports
<1> QED BY <1>4, <1>6, <1>7, <1>8 DEF WriteOwes, Owes

LEMMA ReadsBounded ==
  ASSUME NEW memory, NEW p, NEW c, NEW r, NEW fd, IsInput(memory, p, c, r, fd), IOAssumption
  PROVE  ReadBounded(memory, p, c, r, fd)
<1> DEFINE pointer == Unsigned(p)
           count == Unsigned(c)
           result == Unsigned(r)
           final == ReadIn(memory, pointer, count, result, fd)[count]
           e == Read(memory, p, c, r, fd)
<1>1. PICK n \in Nat : memory \in [Cells(n) -> Nat] BY InputIs
<1>2. pointer \in Nat /\ count \in Nat /\ result \in Nat /\ fd.data \in Seq(Nat) BY InputIs
<1>3. e = Outcome(memory, pointer, count, result, fd, final) BY DEF Read
<1>4. Owes(e, memory, result, fd) => ReadBounded(memory, p, c, r, fd)
  BY DEF ReadBounded, CallBounded, Owes
<1> HIDE DEF pointer, count, result, e
<1>5. ASSUME Checked(memory, pointer, count, result)
      PROVE  result \in Cells(n) /\ final \in Accounted(n, memory, result, fd)
  <2>1. pointer + 2 * count <= n /\ result \in Cells(n) BY <1>1, <1>2, <1>5, CheckedIs
  <2> QED BY <1>1, <1>2, <2>1, ReadInIs
<1> HIDE DEF final
<1>6. /\ e.touched \in SUBSET Cells(n) /\ e.done /\ (e.touched = {} => e.memory = memory)
      /\ e.ret \notin {Inval, Badf} => e.memory[result] = e.moved
      /\ e.moved <= Len(fd.data)
  <2>1. Outcomes(e, n, memory, pointer, count, result, fd, final)
    BY <1>1, <1>2, <1>3, <1>5, OutcomeIs
  <2> QED BY <2>1 DEF Outcomes
<1>7. DOMAIN memory = Cells(n) BY <1>1
<1> QED BY <1>4, <1>6, <1>7 DEF Owes

------------------------------------------------------------------------------
(* The calls that are left to the shim, and the random fill.               *)

LEMMA GuardedIs ==
  ASSUME NEW n \in Nat, NEW memory \in [Cells(n) -> Nat], NEW ranges,
         \A x \in ranges : x[1] \in Nat /\ x[2] \in Nat
  PROVE  Guarded(memory, ranges).touched \subseteq Cells(n)
<1> DEFINE refused == Answer(Call(memory), Inval)
           s == Answer(Call(memory), 0)
           C == UNION {Span(x[1], x[2]) : x \in ranges}
           e == [s EXCEPT !.touched = C]
<1>1. refused.touched = {} BY RefusedAtOnce
<1>2. s \in States(n, 0, 0)
  <2>1. Call(memory) \in States(n, 0, 0) BY CallIs
  <2>2. 0 \in Answers(0) BY DEF Answers
  <2> QED BY <2>1, <2>2, AnswerIs
<1>3. Guarded(memory, ranges) =
        IF \E x \in ranges : ~Fits(memory, x[1], x[2]) THEN refused ELSE e
  BY DEF Guarded
<1> HIDE DEF refused, s
<1>4. CASE \E x \in ranges : ~Fits(memory, x[1], x[2])
  <2> HIDE DEF e
  <2> QED BY <1>1, <1>3, <1>4
<1>5. CASE \A x \in ranges : Fits(memory, x[1], x[2])
  <2>1. \A x \in ranges : Span(x[1], x[2]) \subseteq Cells(n) BY <1>5, FitsIs
  <2>2. C \in SUBSET Cells(n) BY <2>1
  <2> HIDE DEF C
  <2>3. e.touched = C BY <1>2, <2>2, TouchedIs
  <2> HIDE DEF e
  <2> QED BY <1>3, <1>5, <2>2, <2>3
<1> QED BY <1>4, <1>5

LEMMA GuardsBounded ==
  ASSUME NEW memory, NEW p, NEW c, NEW r, NEW fd, IsInput(memory, p, c, r, fd), IOAssumption
  PROVE  GuardedBounded(memory, p, c, r)
<1>1. PICK n \in Nat : memory \in [Cells(n) -> Nat] BY InputIs
<1>2. DOMAIN memory = Cells(n) BY <1>1
<1>3. /\ Unsigned(p) \in Nat /\ Unsigned(c) \in Nat /\ Unsigned(r) \in Nat
      /\ Poll.in \in Nat /\ Poll.out \in Nat
  BY InputIs DEF IOAssumption
<1>4. ReadDir(memory, p, c, r).touched \subseteq Cells(n)
  <2> DEFINE ranges == {<<Unsigned(p), Unsigned(c)>>, <<Unsigned(r), 1>>}
  <2>1. \A x \in ranges : x[1] \in Nat /\ x[2] \in Nat BY <1>3
  <2>2. ReadDir(memory, p, c, r) = Guarded(memory, ranges) BY DEF ReadDir
  <2> HIDE DEF ranges
  <2> QED BY <1>1, <2>1, <2>2, GuardedIs
<1>5. PrestatName(memory, p, c).touched \subseteq Cells(n)
  <2> DEFINE ranges == {<<Unsigned(p), Unsigned(c)>>}
  <2>1. \A x \in ranges : x[1] \in Nat /\ x[2] \in Nat BY <1>3
  <2>2. PrestatName(memory, p, c) = Guarded(memory, ranges) BY DEF PrestatName
  <2> HIDE DEF ranges
  <2> QED BY <1>1, <2>1, <2>2, GuardedIs
<1>6. PollOneoff(memory, p, c, r).touched \subseteq Cells(n)
  <2> DEFINE ranges == {<<Unsigned(p), Poll.in>>, <<Unsigned(c), Poll.out>>}
             refused(x) == Answer(Call(memory), x)
  <2>1. \A x \in ranges : x[1] \in Nat /\ x[2] \in Nat BY <1>3
  <2>2. \/ PollOneoff(memory, p, c, r) = Guarded(memory, ranges)
        \/ \E x \in {Inval, NotSup} : PollOneoff(memory, p, c, r) = refused(x)
    BY DEF PollOneoff
  <2>3. \A x : refused(x).touched = {} BY <1>1, RefusedAtOnce
  <2> HIDE DEF ranges, refused
  <2>4. Guarded(memory, ranges).touched \subseteq Cells(n) BY <1>1, <2>1, GuardedIs
  <2> QED BY <2>2, <2>3, <2>4
<1> QED BY <1>2, <1>4, <1>5, <1>6 DEF GuardedBounded

\* Every number lies between two neighbouring multiples.
LEMMA Multiple ==
  ASSUME NEW C \in Nat \ {0}, NEW y \in Nat
  PROVE  \E k \in 0..y : k * C <= y /\ y < k * C + C
<1> DEFINE S == {x \in Nat : \E k \in 0..x : k * C <= x /\ x < k * C + C}
<1>1. 0 \in S
  <2>1. 0 * C = 0 OBVIOUS
  <2> QED BY <2>1
<1>2. ASSUME NEW x \in S PROVE x + 1 \in S
  <2>1. PICK k \in 0..x : k * C <= x /\ x < k * C + C OBVIOUS
  <2>2. k * C \in Int /\ (k + 1) * C = k * C + C OBVIOUS
  <2>3. CASE x + 1 < k * C + C
    <3>1. k \in 0..(x + 1) /\ k * C <= x + 1 BY <2>1, <2>2
    <3> QED BY <2>3, <3>1
  <2>4. CASE ~(x + 1 < k * C + C)
    <3> DEFINE j == k + 1
    <3>1. j \in 0..(x + 1) /\ j * C <= x + 1 /\ x + 1 < j * C + C BY <2>1, <2>2, <2>4
    <3> HIDE DEF j
    <3> QED BY <3>1
  <2> QED BY <2>3, <2>4
<1>3. S \in SUBSET Nat OBVIOUS
<1> HIDE DEF S
<1>4. y \in S BY <1>1, <1>2, <1>3, SetInduction
<1> QED BY <1>4 DEF S

\* The chunks cover the buffer and no more.
LEMMA ChunksIs ==
  ASSUME NEW buffer \in Nat, NEW length \in Nat, NEW C \in Nat \ {0}
  PROVE  UNION {(buffer + filled)..(buffer + Min({length, filled + C}) - 1) :
                filled \in {k * C : k \in {i \in 0..length : i * C < length}}}
           = Span(buffer, length)
<1> DEFINE ends(k) == Min({length, k * C + C})
           U == UNION {(buffer + k * C)..(buffer + ends(k) - 1) : k \in {i \in 0..length : i * C < length}}
<1>1. \A k \in Nat : /\ k * C \in Nat /\ ends(k) \in Int /\ ends(k) <= length
                     /\ ends(k) = length \/ ends(k) = k * C + C
  <2> TAKE k \in Nat
  <2>1. k * C \in Nat OBVIOUS
  <2>2. length \in Int /\ k * C + C \in Int BY <2>1
  <2>3. /\ ends(k) \in {length, k * C + C} /\ ends(k) \in Int /\ ends(k) <= length
    BY <2>2, LeastIs, Zenon
  <2> QED BY <2>1, <2>3
<1> HIDE DEF ends
<1>2. ASSUME NEW x \in U PROVE x \in buffer..(buffer + length - 1)
  <2>1. PICK k \in 0..length : x \in (buffer + k * C)..(buffer + ends(k) - 1) OBVIOUS
  <2>2. k * C \in Nat /\ ends(k) \in Int /\ ends(k) <= length BY <1>1
  <2> QED BY <2>1, <2>2
<1>3. ASSUME NEW x \in buffer..(buffer + length - 1) PROVE x \in U
  <2> DEFINE y == x - buffer
  <2>1. y \in Nat /\ y < length /\ x = buffer + y OBVIOUS
  <2> HIDE DEF y
  <2>2. PICK k \in 0..y : k * C <= y /\ y < k * C + C BY <2>1, Multiple
  <2>3. k * C \in Nat /\ ends(k) \in Int /\ (ends(k) = length \/ ends(k) = k * C + C)
    BY <1>1, <2>1
  <2>4. k \in 0..length /\ k * C < length BY <2>1, <2>2, <2>3
  <2>5. x \in (buffer + k * C)..(buffer + ends(k) - 1) BY <2>1, <2>2, <2>3
  <2> QED BY <2>4, <2>5
<1>4. U = buffer..(buffer + length - 1) BY <1>2, <1>3, Zenon
<1>5. UNION {(buffer + filled)..(buffer + Min({length, filled + C}) - 1) :
             filled \in {k * C : k \in {i \in 0..length : i * C < length}}} = U
  BY Zenon DEF ends
<1> QED BY <1>4, <1>5, Zenon DEF Span

LEMMA RandomsBounded ==
  ASSUME NEW memory, NEW p, NEW c, NEW r, NEW fd, IsInput(memory, p, c, r, fd), IOAssumption
  PROVE  RandomBounded(memory, p, c)
<1> DEFINE buffer == Unsigned(p)
           length == Unsigned(c)
           refused == Answer(Call(memory), Inval)
           s == Answer(Call(memory), 0)
           t == [s EXCEPT !.moved = length]
           C == UNION {(buffer + filled)..(buffer + Min({length, filled + Chunk}) - 1) :
                       filled \in {k * Chunk : k \in {i \in 0..length : i * Chunk < length}}}
           w == [t EXCEPT !.touched = C]
           e == RandomGet(memory, p, c)
<1>1. PICK n \in Nat : memory \in [Cells(n) -> Nat] BY InputIs
<1>2. DOMAIN memory = Cells(n) BY <1>1
<1>3. buffer \in Nat /\ length \in Nat BY InputIs
<1>4. e = IF ~Fits(memory, buffer, length) THEN refused ELSE w BY DEF RandomGet
<1>5. Chunk \in Nat \ {0} /\ Inval # 0 BY DEF IOAssumption
<1>6. refused.touched = {} /\ refused.ret = Inval BY <1>1, RefusedAtOnce
<1> HIDE DEF e, refused
<1>7. CASE ~Fits(memory, buffer, length)
  <2>1. e = refused BY <1>4, <1>7
  <2> QED BY <1>5, <1>6, <2>1 DEF RandomBounded, e
<1>8. CASE Fits(memory, buffer, length)
  <2>1. C = Span(buffer, length)
    <3> HIDE DEF buffer, length
    <3> QED BY <1>3, <1>5, ChunksIs
  <2>2. Span(buffer, length) \subseteq Cells(n) BY <1>1, <1>3, <1>8, FitsIs
  <2>3. s \in States(n, length, 0) /\ s.ret = 0
    <3>1. Call(memory) \in States(n, length, 0) BY <1>1, <1>3, CallIs
    <3>2. 0 \in Answers(0) BY DEF Answers
    <3> QED BY <1>1, <1>3, <3>1, <3>2, AnswerIs
  <2>4. e = w BY <1>4, <1>8
  <2> HIDE DEF s, C
  <2>5. t \in States(n, length, 0) /\ t.ret = 0
    <3>1. length \in 0..length BY <1>3
    <3> QED BY <1>3, <2>3, <3>1, MovedIs
  <2> HIDE DEF t
  <2>6. C \in SUBSET Cells(n) BY <2>1, <2>2
  <2>7. w.touched = C BY <1>3, <2>5, <2>6, TouchedIs
  <2> HIDE DEF w
  <2> QED BY <1>2, <2>1, <2>2, <2>4, <2>7 DEF RandomBounded, e
<1> QED BY <1>7, <1>8

------------------------------------------------------------------------------
(* The calls of a behaviour.                                               *)

InputInv == call.of = "vectored" => IsInput(call.memory, call.p, call.c, call.r, call.fd)

LEMMA InputKept == CallSpec => []InputInv
<1>1. CallInit => InputInv BY DEF CallInit, InputInv
<1>2. InputInv /\ [CallNext]_callVars => InputInv'
  <2> SUFFICES ASSUME InputInv, [CallNext]_callVars PROVE InputInv' OBVIOUS
  <2>1. CASE UNCHANGED callVars BY <2>1 DEF callVars, InputInv
  <2>2. CASE Translate BY <2>2 DEF Translate, InputInv
  <2>3. CASE Compile BY <2>3 DEF Compile, InputInv
  <2>4. CASE Accept BY <2>4 DEF Accept, InputInv
  <2>5. CASE Import BY <2>5 DEF Import, InputInv
  <2>6. CASE Instrument BY <2>6 DEF Instrument, InputInv
  <2>7. CASE Vectored
    <3>1. PICK memory \in Memories, p \in Pointers, c \in Pointers, r \in Pointers, fd \in Descriptors :
            call' = [of |-> "vectored", memory |-> memory, p |-> p, c |-> c, r |-> r, fd |-> fd]
      BY <2>7 DEF Vectored
    <3> QED BY <3>1 DEF InputInv, IsInput
  <2>8. CASE Audit
    <3>1. call'.of = "audit" BY <2>8 DEF Audit
    <3> QED BY <3>1 DEF InputInv
  <2> QED BY <2>1, <2>2, <2>3, <2>4, <2>5, <2>6, <2>7, <2>8 DEF CallNext
<1> QED BY <1>1, <1>2, PTL DEF CallSpec

\* Whatever a guest passes, whatever its memory holds and a read puts there, the
\* host stays inside the memory and reports what it moved: resource-fs.ts,
\* boundWasiIO.
THEOREM CallsStayInMemory == CallSpec => []IOBounded
<1>1. InputInv => IOBounded
  <2> SUFFICES ASSUME InputInv, call.of = "vectored"
               PROVE  /\ WriteBounded(call.memory, call.p, call.c, call.r, call.fd)
                      /\ ReadBounded(call.memory, call.p, call.c, call.r, call.fd)
                      /\ RandomBounded(call.memory, call.p, call.c)
                      /\ GuardedBounded(call.memory, call.p, call.c, call.r)
      BY DEF IOBounded
  <2>1. IsInput(call.memory, call.p, call.c, call.r, call.fd) BY DEF InputInv
  <2> QED BY <2>1, IOAssumption, WritesBounded, ReadsBounded, RandomsBounded, GuardsBounded
<1> QED BY <1>1, InputKept, PTL
------------------------------------------------------------------------------
(* Folds and sums over finite sets.                                         *)

\* What holds of a set when it holds of what is left without any one element.
LEMMA SubsetInduction ==
  ASSUME NEW S, IsFiniteSet(S), NEW Q \in SUBSET SUBSET S,
         \A s \in SUBSET S : (\A x \in s : s \ {x} \in Q) => s \in Q
  PROVE  Q = SUBSET S
<1> DEFINE N == {n \in Nat : \A s \in SUBSET S : Cardinality(s) = n => s \in Q}
<1>1. 0 \in N
  <2> SUFFICES ASSUME NEW s \in SUBSET S, Cardinality(s) = 0 PROVE s \in Q OBVIOUS
  <2>1. s = {} BY FS_EmptySet, FS_Subset
  <2> QED BY <2>1
<1>2. ASSUME NEW n \in N PROVE n + 1 \in N
  <2> SUFFICES ASSUME NEW s \in SUBSET S, Cardinality(s) = n + 1 PROVE s \in Q OBVIOUS
  <2>1. ASSUME NEW x \in s PROVE s \ {x} \in Q
    <3>1. IsFiniteSet(s) /\ n \in Nat BY FS_Subset
    <3>2. Cardinality(s \ {x}) = Cardinality(s) - 1 BY <3>1, FS_RemoveElement
    <3>3. Cardinality(s \ {x}) = n BY <3>1, <3>2
    <3> QED BY <3>3
  <2> QED BY <2>1
<1>3. N = Nat
  <2>1. N \in SUBSET Nat OBVIOUS
  <2> HIDE DEF N
  <2> QED BY <1>1, <1>2, <2>1, SetInduction
<1>4. ASSUME NEW s \in SUBSET S PROVE s \in Q
  <2>1. Cardinality(s) \in N BY <1>3, FS_Subset, FS_CardinalityType
  <2> QED BY <2>1
<1> QED BY <1>4

\* The values of a fold whose element after which C leaves s is C[s], and whose
\* step there is G.
Folding(A, b, G, C, S) ==
  {f \in [SUBSET S -> A] :
     /\ f[{}] = b
     /\ \A s \in SUBSET S : s # {} => f[s] = G[C[s]][f[s \ {C[s]}]]}
Chooses(C, S) == \A s \in SUBSET S : s # {} => C[s] \in s

LEMMA Folds ==
  ASSUME NEW S, IsFiniteSet(S), NEW A, NEW b \in A, NEW G \in [S -> [A -> A]],
         NEW C, Chooses(C, S)
  PROVE  Folding(A, b, G, C, S) # {}
<1> DEFINE D(n) == {s \in SUBSET S : Cardinality(s) <= n}
           Is(f, n) == /\ f[{}] = b
                       /\ \A s \in D(n) : s # {} => f[s] = G[C[s]][f[s \ {C[s]}]]
           N == {n \in Nat : \E f \in [D(n) -> A] : Is(f, n)}
<1>0. /\ \A s \in SUBSET S : IsFiniteSet(s) /\ Cardinality(s) \in Nat
      /\ \A s \in SUBSET S : Cardinality(s) = 0 <=> s = {}
  BY FS_Subset, FS_CardinalityType, FS_EmptySet
<1>a. ASSUME NEW n \in Nat, NEW s \in SUBSET S, s # {}, Cardinality(s) <= n + 1
      PROVE  C[s] \in s /\ C[s] \in S /\ s \ {C[s]} \in D(n)
  <2>1. C[s] \in s BY <1>a DEF Chooses
  <2>2. Cardinality(s \ {C[s]}) = Cardinality(s) - 1 BY <1>0, <2>1, FS_RemoveElement
  <2> QED BY <1>0, <1>a, <2>1, <2>2
<1>1. 0 \in N
  <2>1. D(0) = {{}} BY <1>0
  <2>2. [s \in D(0) |-> b] \in [D(0) -> A] /\ Is([s \in D(0) |-> b], 0) BY <2>1
  <2> HIDE DEF D, Is
  <2> QED BY <2>2
<1>2. ASSUME NEW n \in N PROVE n + 1 \in N
  <2>0. n \in Nat /\ D(n) \subseteq D(n + 1) /\ {} \in D(n) BY <1>0
  <2>1. PICK f \in [D(n) -> A] : Is(f, n) OBVIOUS
  <2> DEFINE g == [s \in D(n + 1) |-> IF s \in D(n) THEN f[s] ELSE G[C[s]][f[s \ {C[s]}]]]
  <2>2. ASSUME NEW s \in D(n + 1), s # {} PROVE C[s] \in S /\ s \ {C[s]} \in D(n)
    BY <1>a, <2>0, <2>2
  <2> HIDE DEF D
  <2>3. g \in [D(n + 1) -> A]
    <3>1. ASSUME NEW s \in D(n + 1), s \notin D(n) PROVE G[C[s]][f[s \ {C[s]}]] \in A
      <4>1. s # {} BY <2>0, <3>1
      <4>2. f[s \ {C[s]}] \in A /\ G[C[s]] \in [A -> A] BY <2>2, <4>1
      <4> QED BY <4>2
    <3> QED BY <3>1
  <2>4. Is(g, n + 1)
    <3>1. g[{}] = b BY <2>0, <2>1
    <3>2. ASSUME NEW s \in D(n + 1), s # {} PROVE g[s] = G[C[s]][g[s \ {C[s]}]]
      <4>1. g[s \ {C[s]}] = f[s \ {C[s]}] BY <2>0, <2>2, <3>2
      <4>2. CASE s \in D(n)
        <5>1. f[s] = G[C[s]][f[s \ {C[s]}]] /\ g[s] = f[s] BY <2>1, <3>2, <4>2
        <5> QED BY <4>1, <5>1
      <4>3. CASE s \notin D(n) BY <4>1, <4>3
      <4> QED BY <4>2, <4>3
    <3> HIDE DEF g, D
    <3> QED BY <3>1, <3>2
  <2> HIDE DEF Is, g
  <2> QED BY <2>0, <2>3, <2>4
<1>3. N = Nat
  <2>1. N \in SUBSET Nat OBVIOUS
  <2> HIDE DEF N
  <2> QED BY <1>1, <1>2, <2>1, SetInduction
<1>4. Cardinality(S) \in N /\ D(Cardinality(S)) = SUBSET S
  <2>1. \A s \in SUBSET S : Cardinality(s) <= Cardinality(S) BY FS_Subset
  <2> QED BY <1>0, <1>3, <2>1
<1>5. PICK f \in [SUBSET S -> A] : Is(f, Cardinality(S)) BY <1>4
<1> QED BY <1>4, <1>5 DEF Folding

\* Two folds of one step are one.
SameStep(f, w, C, S) ==
  /\ f[{}] = w[{}]
  /\ \A s \in SUBSET S : s # {} /\ f[s \ {C[s]}] = w[s \ {C[s]}] => f[s] = w[s]

LEMMA SameFold ==
  ASSUME NEW S, IsFiniteSet(S), NEW C, Chooses(C, S), NEW f, NEW w, SameStep(f, w, C, S)
  PROVE  \A s \in SUBSET S : f[s] = w[s]
<1> DEFINE Q == {s \in SUBSET S : f[s] = w[s]}
<1>1. ASSUME NEW s \in SUBSET S, \A x \in s : s \ {x} \in Q PROVE s \in Q
  <2>1. CASE s = {} BY <2>1 DEF SameStep
  <2>2. CASE s # {}
    <3>1. s \ {C[s]} \in Q BY <1>1, <2>2 DEF Chooses
    <3> QED BY <2>2, <3>1 DEF SameStep
  <2> QED BY <2>1, <2>2
<1>2. Q \in SUBSET SUBSET S OBVIOUS
<1> HIDE DEF Q
<1>3. Q = SUBSET S BY <1>1, <1>2, SubsetInduction
<1> QED BY <1>3 DEF Q

\* The places of a weight.
Places(g, S) == {q \in S \X Nat : 1 <= q[2] /\ q[2] <= g[q[1]]}
Weight(g, S) == Cardinality(Places(g, S))
Column(g, x) == {x} \X (1..g[x])

LEMMA PlacesSplit ==
  ASSUME NEW S, NEW g, NEW x \in S, g[x] \in Nat
  PROVE  /\ Places(g, S) = Places(g, S \ {x}) \cup Column(g, x)
         /\ Places(g, S \ {x}) \cap Column(g, x) = {}
         /\ IsFiniteSet(Column(g, x)) /\ Cardinality(Column(g, x)) = g[x]
<1>1. /\ Places(g, S) = Places(g, S \ {x}) \cup Column(g, x)
      /\ Places(g, S \ {x}) \cap Column(g, x) = {}
  BY DEF Places, Column
<1> DEFINE m == [k \in 1..g[x] |-> <<x, k>>]
<1>2. m \in Bijection(1..g[x], Column(g, x)) BY DEF Column, Bijection, Injection, Surjection, IsInjective
<1>3. ExistsBijection(1..g[x], Column(g, x)) BY <1>2 DEF ExistsBijection
<1>4. IsFiniteSet(1..g[x]) /\ Cardinality(1..g[x]) = g[x]
  <2> DEFINE n == g[x]
  <2>1. n \in Nat OBVIOUS
  <2> HIDE DEF n
  <2>2. IsFiniteSet(1..n) /\ Cardinality(1..n) = IF 1 > n THEN 0 ELSE n - 1 + 1
    BY <2>1, FS_Interval
  <2> QED BY <2>1, <2>2 DEF n
<1> QED BY <1>1, <1>3, <1>4, FS_Bijection

LEMMA PlacesFinite ==
  ASSUME NEW S, IsFiniteSet(S), NEW g, \A x \in S : g[x] \in Nat
  PROVE  IsFiniteSet(Places(g, S)) /\ Weight(g, S) \in Nat
<1> DEFINE Q == {s \in SUBSET S : IsFiniteSet(Places(g, s))}
<1>1. ASSUME NEW s \in SUBSET S, \A x \in s : s \ {x} \in Q PROVE s \in Q
  <2>1. CASE s = {}
    <3>1. Places(g, s) = {} BY <2>1 DEF Places
    <3> QED BY <3>1, FS_EmptySet
  <2>2. CASE s # {}
    <3>1. PICK x \in s : TRUE BY <2>2
    <3>2. g[x] \in Nat /\ IsFiniteSet(Places(g, s \ {x})) BY <1>1
    <3> DEFINE P == Places(g, s \ {x})
               K == Column(g, x)
    <3>3. Places(g, s) = P \cup K /\ IsFiniteSet(K) BY <3>2, PlacesSplit
    <3> HIDE DEF P, K
    <3>4. IsFiniteSet(P \cup K) BY <3>2, <3>3, FS_Union DEF P
    <3> QED BY <3>3, <3>4
  <2> QED BY <2>1, <2>2
<1>2. Q \in SUBSET SUBSET S OBVIOUS
<1> HIDE DEF Q
<1>3. Q = SUBSET S BY <1>1, <1>2, SubsetInduction
<1>4. S \in Q BY <1>3
<1>5. IsFiniteSet(Places(g, S)) BY <1>4 DEF Q
<1> QED BY <1>5, FS_CardinalityType DEF Weight

LEMMA WeightAdds ==
  ASSUME NEW S, IsFiniteSet(S), NEW g, \A x \in S : g[x] \in Nat
  PROVE  /\ Weight(g, {}) = 0
         /\ \A x \in S : Weight(g, S) = g[x] + Weight(g, S \ {x})
<1>1. Weight(g, {}) = 0
  <2>1. Places(g, {}) = {} BY DEF Places
  <2> QED BY <2>1, FS_EmptySet DEF Weight
<1>2. ASSUME NEW x \in S PROVE Weight(g, S) = g[x] + Weight(g, S \ {x})
  <2>1. IsFiniteSet(S \ {x}) BY FS_Subset
  <2>2. IsFiniteSet(Places(g, S \ {x})) BY <2>1, PlacesFinite
  <2>3. Cardinality(Places(g, S \ {x}) \cap Column(g, x)) = 0 BY PlacesSplit, FS_EmptySet
  <2>4. Cardinality(Places(g, S \ {x})) \in Nat BY <2>2, FS_CardinalityType
  <2> DEFINE P == Places(g, S \ {x})
             K == Column(g, x)
  <2>5. Places(g, S) = P \cup K /\ IsFiniteSet(K) /\ Cardinality(K) = g[x] BY PlacesSplit
  <2> HIDE DEF P, K
  <2>6. Cardinality(P \cup K) = Cardinality(P) + Cardinality(K) - Cardinality(P \cap K)
    BY <2>2, <2>5, FS_Union DEF P
  <2> QED BY <2>3, <2>4, <2>5, <2>6 DEF Weight, P, K
<1> QED BY <1>1, <1>2

\* A sum by any order of its terms.
AnyOf(S) == [s \in SUBSET S |-> CHOOSE x \in s : TRUE]
Sums(g, S) == [s \in SUBSET S |-> Weight(g, s)]

LEMMA AnyChooses == ASSUME NEW S PROVE Chooses(AnyOf(S), S)
BY DEF Chooses, AnyOf

LEMMA SumsIs ==
  ASSUME NEW S, IsFiniteSet(S), NEW g, \A x \in S : g[x] \in Nat, NEW s \in SUBSET S
  PROVE  Sums(g, S)[s] = IF s = {} THEN 0 ELSE g[AnyOf(S)[s]] + Sums(g, S)[s \ {AnyOf(S)[s]}]
<1> DEFINE x == AnyOf(S)[s]
<1>1. IsFiniteSet(s) BY FS_Subset
<1>2. s # {} => x \in s BY AnyChooses DEF Chooses
<1> HIDE DEF x
<1>3. s # {} => Weight(g, s) = g[x] + Weight(g, s \ {x}) BY <1>1, <1>2, WeightAdds
<1>4. s = {} => Weight(g, s) = 0 BY WeightAdds, FS_EmptySet
<1> QED BY <1>3, <1>4 DEF Sums, x

LEMMA SumIs ==
  ASSUME NEW S, IsFiniteSet(S), NEW g, \A x \in S : g[x] \in Nat, NEW w,
         \A s \in SUBSET S :
           w[s] = IF s = {} THEN 0 ELSE g[AnyOf(S)[s]] + w[s \ {AnyOf(S)[s]}]
  PROVE  w[S] = Weight(g, S)
<1> DEFINE f == Sums(g, S)
           C == AnyOf(S)
<1>1. Chooses(C, S) BY AnyChooses
<1>2. \A s \in SUBSET S : f[s] = IF s = {} THEN 0 ELSE g[C[s]] + f[s \ {C[s]}] BY SumsIs
<1> HIDE DEF f
<1>3. \A s \in SUBSET S : w[s] = IF s = {} THEN 0 ELSE g[C[s]] + w[s \ {C[s]}] OBVIOUS
<1> HIDE DEF C
<1>4. f[{}] = w[{}] BY <1>2, <1>3
<1>5. \A s \in SUBSET S : s # {} /\ f[s \ {C[s]}] = w[s \ {C[s]}] => f[s] = w[s] BY <1>2, <1>3
<1>6. SameStep(f, w, C, S) BY <1>4, <1>5 DEF SameStep
<1>7. \A s \in SUBSET S : f[s] = w[s] BY <1>1, <1>6, SameFold
<1> QED BY <1>7 DEF f, Sums

\* Terms that go into the terms of another sum, no two into one.
LEMMA WeightInto ==
  ASSUME NEW S, IsFiniteSet(S), NEW g, \A x \in S : g[x] \in Nat,
         NEW T, IsFiniteSet(T), NEW h, \A y \in T : h[y] \in Nat,
         NEW m \in [S -> T], \A x, y \in S : m[x] = m[y] => x = y,
         \A x \in S : g[x] <= h[m[x]]
  PROVE  Weight(g, S) <= Weight(h, T)
<1> DEFINE n == [q \in Places(g, S) |-> <<m[q[1]], q[2]>>]
<1>1. ASSUME NEW q \in Places(g, S)
      PROVE  /\ q[1] \in S /\ q[2] \in Nat /\ q = <<q[1], q[2]>>
             /\ <<m[q[1]], q[2]>> \in Places(h, T)
  <2>1. q[1] \in S /\ q[2] \in Nat /\ q = <<q[1], q[2]>> /\ 1 <= q[2] /\ q[2] <= g[q[1]]
    BY DEF Places
  <2>2. m[q[1]] \in T /\ g[q[1]] <= h[m[q[1]]] /\ g[q[1]] \in Nat /\ h[m[q[1]]] \in Nat BY <2>1
  <2>3. q[2] <= h[m[q[1]]] BY <2>1, <2>2
  <2> QED BY <2>1, <2>2, <2>3 DEF Places
<1>2. n \in Injection(Places(g, S), Places(h, T))
  <2>1. n \in [Places(g, S) -> Places(h, T)] BY <1>1
  <2>2. ASSUME NEW q \in Places(g, S), NEW r \in Places(g, S), n[q] = n[r] PROVE q = r
    <3>1. m[q[1]] = m[r[1]] /\ q[2] = r[2] BY <2>2
    <3> QED BY <1>1, <3>1
  <2> QED BY <2>1, <2>2 DEF Injection, IsInjective
<1>3. IsFiniteSet(Places(h, T)) BY PlacesFinite
<1> QED BY <1>2, <1>3, FS_Injection DEF Weight

LEMMA WeightUnion ==
  ASSUME NEW S, IsFiniteSet(S), NEW T, IsFiniteSet(T), S \cap T = {}, NEW g,
         \A x \in S \cup T : g[x] \in Nat
  PROVE  Weight(g, S \cup T) = Weight(g, S) + Weight(g, T)
<1> DEFINE P == Places(g, S)
           K == Places(g, T)
<1>1. Places(g, S \cup T) = P \cup K /\ P \cap K = {} BY DEF Places
<1>2. IsFiniteSet(P) /\ Cardinality(P) \in Nat /\ IsFiniteSet(K) /\ Cardinality(K) \in Nat
  BY PlacesFinite DEF Weight
<1> HIDE DEF P, K
<1>3. Cardinality(P \cap K) = 0 BY <1>1, FS_EmptySet
<1>4. Cardinality(P \cup K) = Cardinality(P) + Cardinality(K) - Cardinality(P \cap K)
  BY <1>2, FS_Union
<1> DEFINE p == Cardinality(P)
           k == Cardinality(K)
           none == Cardinality(P \cap K)
           both == Cardinality(P \cup K)
<1>5. both = p + k
  <2>1. p \in Nat /\ k \in Nat /\ none = 0 /\ both = p + k - none BY <1>2, <1>3, <1>4
  <2> HIDE DEF p, k, none, both
  <2> QED BY <2>1
<1>6. Weight(g, S \cup T) = both BY <1>1 DEF Weight
<1> QED BY <1>5, <1>6 DEF Weight, P, K

------------------------------------------------------------------------------
(* Paths and their prefixes.                                                *)

NamesIn(P) == UNION {{p[i] : i \in DOMAIN p} : p \in P}

\* Paths are sequences over the names they hold.
LEMMA PathsNamed ==
  ASSUME NEW P, \A p \in P : IsPath(p)
  PROVE  \A p \in P : p \in Seq(NamesIn(P))
<1> SUFFICES ASSUME NEW p \in P PROVE p \in Seq(NamesIn(P)) OBVIOUS
<1> DEFINE R == {p[i] : i \in DOMAIN p}
<1>1. p \in Seq(R) BY DEF IsPath, IsSeq
<1>2. R \subseteq NamesIn(P) BY DEF NamesIn
<1> HIDE DEF R
<1> QED BY <1>1, <1>2, SeqMonotonic

\* The first names of a path.
LEMMA PrefixIs ==
  ASSUME NEW S, NEW p \in Seq(S), NEW l \in 0..Len(p)
  PROVE  /\ SubSeq(p, 1, l) \in Seq(S) /\ Len(SubSeq(p, 1, l)) = l
         /\ \A i \in 1..l : SubSeq(p, 1, l)[i] = p[i]
BY SubSeqProperties, LenProperties

\* A path is above another that begins with its names and has more.
LEMMA AboveIs ==
  ASSUME NEW S, NEW p \in Seq(S), NEW x
  PROVE  x \in Above(p) <=>
           /\ x \in Seq(S) /\ 0 < Len(x) /\ Len(x) < Len(p)
           /\ \A i \in 1..Len(x) : x[i] = p[i]
<1>1. ASSUME x \in Above(p)
      PROVE  /\ x \in Seq(S) /\ 0 < Len(x) /\ Len(x) < Len(p)
             /\ \A i \in 1..Len(x) : x[i] = p[i]
  <2>1. PICK l \in 0..Len(p) : x = SubSeq(p, 1, l)
    BY <1>1 DEF Above, Prefixes
  <2>2. x # p /\ x # <<>> BY <1>1 DEF Above, EmptyPath
  <2>3. x \in Seq(S) /\ Len(x) = l /\ \A i \in 1..l : x[i] = p[i] BY <2>1, PrefixIs
  <2>4. l # 0 BY <2>2, <2>3, EmptySeq
  <2>5. l # Len(p)
    <3> SUFFICES ASSUME l = Len(p) PROVE FALSE OBVIOUS
    <3>1. Len(x) = Len(p) /\ \A i \in 1..Len(x) : x[i] = p[i] BY <2>3
    <3>2. x = p BY <2>3, <3>1, SeqEqual
    <3> QED BY <2>2, <3>2
  <2> QED BY <2>3, <2>4, <2>5, LenProperties
<1>2. ASSUME x \in Seq(S), 0 < Len(x), Len(x) < Len(p), \A i \in 1..Len(x) : x[i] = p[i]
      PROVE  x \in Above(p)
  <2>1. Len(x) \in 0..Len(p) BY <1>2, LenProperties
  <2>2. x = SubSeq(p, 1, Len(x))
    <3> DEFINE y == SubSeq(p, 1, Len(x))
    <3>1. y \in Seq(S) /\ Len(y) = Len(x) /\ \A i \in 1..Len(x) : y[i] = p[i] BY <2>1, PrefixIs
    <3> HIDE DEF y
    <3>2. x = y BY <1>2, <3>1, SeqEqual
    <3> QED BY <3>2 DEF y
  <2>3. x # p /\ x # <<>> BY <1>2, EmptySeq
  <2> QED BY <2>1, <2>2, <2>3 DEF Above, Prefixes, EmptyPath
<1> QED BY <1>1, <1>2

\* A path in a folder.
LEMMA InFolder ==
  ASSUME NEW S, NEW c \in S, NEW p \in Seq(S)
  PROVE  /\ <<c>> \o p \in Seq(S) /\ Len(<<c>> \o p) = Len(p) + 1
         /\ (<<c>> \o p)[1] = c
         /\ \A i \in 1..Len(p) : (<<c>> \o p)[i + 1] = p[i]
         /\ Tail(<<c>> \o p) = p
<1>1. <<c>> \in Seq(S) /\ Len(<<c>>) = 1 /\ <<c>>[1] = c OBVIOUS
<1> DEFINE f == <<c>> \o p
<1>2. /\ f \in Seq(S) /\ Len(f) = Len(p) + 1
      /\ \A i \in 1..Len(f) : f[i] = IF i <= 1 THEN <<c>>[i] ELSE p[i - 1]
  BY <1>1, ConcatProperties
<1> HIDE DEF f
<1>3. Len(p) \in Nat BY LenProperties
<1>4. f[1] = c BY <1>1, <1>2, <1>3
<1>5. \A i \in 1..Len(p) : f[i + 1] = p[i] BY <1>2, <1>3
<1>6. Tail(f) = p
  <2>1. f # <<>> BY <1>2, <1>3, EmptySeq
  <2> DEFINE t == Tail(f)
  <2>2. t \in Seq(S) /\ Len(t) = Len(f) - 1 /\ \A i \in 1..Len(t) : t[i] = f[i + 1]
    BY <1>2, <2>1, HeadTailProperties
  <2> HIDE DEF t
  <2>3. t = p BY <1>2, <1>3, <1>5, <2>2, SeqEqual
  <2> QED BY <2>3 DEF t
<1> QED BY <1>2, <1>4, <1>5, <1>6 DEF f

\* What is above a file of a folder.
LEMMA AboveInFolder ==
  ASSUME NEW S, NEW c \in S, NEW d \in S, NEW p \in Seq(S), NEW r \in Seq(S)
  PROVE  <<d>> \o r \in Above(<<c>> \o p) <=>
           d = c /\ (r \in Above(p) \/ (r = <<>> /\ p # <<>>))
<1> DEFINE f == <<c>> \o p
           x == <<d>> \o r
<1>1. /\ f \in Seq(S) /\ Len(f) = Len(p) + 1 /\ f[1] = c
      /\ \A i \in 1..Len(p) : f[i + 1] = p[i]
  BY InFolder
<1>2. /\ x \in Seq(S) /\ Len(x) = Len(r) + 1 /\ x[1] = d
      /\ \A i \in 1..Len(r) : x[i + 1] = r[i]
  BY InFolder
<1> HIDE DEF f, x
<1>3. Len(p) \in Nat /\ Len(r) \in Nat BY LenProperties
<1>4. x \in Above(f) <=> (Len(x) < Len(f) /\ \A i \in 1..Len(x) : x[i] = f[i])
  <2>1. x \in Above(f) <=>
          /\ x \in Seq(S) /\ 0 < Len(x) /\ Len(x) < Len(f)
          /\ \A i \in 1..Len(x) : x[i] = f[i]
    BY <1>1, AboveIs
  <2> QED BY <1>2, <1>3, <2>1
<1>5. (r \in Above(p) \/ (r = <<>> /\ p # <<>>)) <=>
        (Len(r) < Len(p) /\ \A i \in 1..Len(r) : r[i] = p[i])
  <2>1. r = <<>> <=> Len(r) = 0 BY EmptySeq
  <2>2. p = <<>> <=> Len(p) = 0 BY EmptySeq
  <2>3. r \in Above(p) <=>
          0 < Len(r) /\ Len(r) < Len(p) /\ \A i \in 1..Len(r) : r[i] = p[i]
    BY AboveIs
  <2> QED BY <1>3, <2>1, <2>2, <2>3
<1>6. Len(r) < Len(p) =>
        ((\A i \in 1..Len(x) : x[i] = f[i]) <=>
           (d = c /\ (\A i \in 1..Len(r) : r[i] = p[i])))
  <2>1. ASSUME \A i \in 1..Len(x) : x[i] = f[i], Len(r) < Len(p)
        PROVE  d = c /\ \A i \in 1..Len(r) : r[i] = p[i]
    <3>1. d = c BY <1>1, <1>2, <1>3, <2>1
    <3>2. ASSUME NEW i \in 1..Len(r) PROVE r[i] = p[i]
      <4>1. i + 1 \in 1..Len(x) /\ i \in 1..Len(p) BY <1>2, <1>3, <2>1
      <4> QED BY <1>1, <1>2, <2>1, <4>1
    <3> QED BY <3>1, <3>2
  <2>2. ASSUME d = c, \A i \in 1..Len(r) : r[i] = p[i], Len(r) < Len(p), NEW i \in 1..Len(x)
        PROVE  x[i] = f[i]
    <3>1. CASE i = 1 BY <1>1, <1>2, <2>2, <3>1
    <3>2. CASE i # 1
      <4>1. i - 1 \in 1..Len(r) /\ i - 1 \in 1..Len(p) /\ (i - 1) + 1 = i
        BY <1>2, <1>3, <2>2, <3>2
      <4>2. x[i] = r[i - 1] BY <1>2, <4>1
      <4>3. f[i] = p[i - 1] BY <1>1, <4>1
      <4> QED BY <2>2, <4>1, <4>2, <4>3
    <3> QED BY <3>1, <3>2
  <2> QED BY <2>1, <2>2
<1>7. Len(x) < Len(f) <=> Len(r) < Len(p) BY <1>1, <1>2, <1>3
<1>8. x \in Above(f) <=> (d = c /\ (r \in Above(p) \/ (r = <<>> /\ p # <<>>)))
  BY <1>4, <1>5, <1>6, <1>7
<1> QED BY <1>8 DEF f, x

------------------------------------------------------------------------------
(* The staging of a request.                                                *)

Mounts == {<<SourceName>>, <<IncludeName>>}

\* No file lies on the way of another, nor at a mount.
Apart(D) == \A p \in D : p \notin Mounts /\ \A x \in D : x \notin Above(p)

Grown(s) == [ok |-> TRUE, files |-> s, dirs |-> Mounts \cup UNION {Above(p) : p \in s}]

\* Staging a file that lies on no other's way adds it and its folders.
LEMMA PutGrows ==
  ASSUME NEW D, Apart(D), NEW s \in SUBSET D, NEW x \in s
  PROVE  Put(x, Grown(s \ {x})) = Grown(s)
<1> DEFINE t == Grown(s \ {x})
<1>1. /\ t.ok /\ t.files = s \ {x}
      /\ t.dirs = Mounts \cup UNION {Above(p) : p \in s \ {x}}
  BY DEF Grown
<1>2. Above(x) \cap t.files = {} BY <1>1 DEF Apart
<1>3. x \notin t.files \cup t.dirs
  <2>1. x \notin t.files BY <1>1
  <2>2. x \notin Mounts /\ \A p \in s : x \notin Above(p) BY DEF Apart
  <2> QED BY <1>1, <2>1, <2>2
<1>4. Put(x, t) = [t EXCEPT !.dirs = @ \cup Above(x), !.files = @ \cup {x}]
  BY <1>1, <1>2, <1>3 DEF Put
<1>5. t.dirs \cup Above(x) = Mounts \cup UNION {Above(p) : p \in s}
  BY <1>1
<1>6. t.files \cup {x} = s BY <1>1
<1> QED BY <1>4, <1>5, <1>6 DEF Grown

LEMMA StagedIs ==
  ASSUME NEW files, IsFiniteSet(DOMAIN files), Apart(DOMAIN files)
  PROVE  StageFiles(files) = Grown(DOMAIN files)
<1> DEFINE D == DOMAIN files
           C == AnyOf(D)
           f == [s \in SUBSET D |-> Grown(s)]
           b == [ok |-> TRUE, files |-> {}, dirs |-> {<<SourceName>>, <<IncludeName>>}]
           Def(g) == [s \in SUBSET D |->
                         IF s = {} THEN b
                         ELSE LET x == CHOOSE x \in s : TRUE IN Put(x, g[s \ {x}])]
           w == CHOOSE g : g = Def(g)
<1>1. StageFiles(files) = w[D]
  BY DEF StageFiles, FoldSet, MapThenFoldSet
<1>2. Chooses(C, D) BY AnyChooses
<1>3. f[{}] = b BY DEF Grown, Mounts
<1>4. ASSUME NEW s \in SUBSET D, s # {} PROVE f[s] = Put(C[s], f[s \ {C[s]}])
  <2>1. C[s] \in s BY <1>2, <1>4 DEF Chooses
  <2> HIDE DEF C, D
  <2>2. s \ {C[s]} \in SUBSET D OBVIOUS
  <2>3. Put(C[s], Grown(s \ {C[s]})) = Grown(s) BY <2>1, PutGrows DEF D
  <2> QED BY <2>2, <2>3
<1>5. ASSUME NEW s \in SUBSET D PROVE C[s] = CHOOSE x \in s : TRUE BY DEF AnyOf
<1> HIDE DEF C
<1>6. f = Def(f)
  <2>1. ASSUME NEW s \in SUBSET D
        PROVE  f[s] = IF s = {} THEN b ELSE LET x == CHOOSE x \in s : TRUE IN Put(x, f[s \ {x}])
    <3>1. CASE s = {} BY <1>3, <3>1
    <3>2. CASE s # {}
      <4> HIDE DEF f
      <4> QED BY <1>4, <1>5, <3>2
    <3> QED BY <3>1, <3>2
  <2> DEFINE h == f
  <2>2. h = [s \in SUBSET D |-> h[s]] OBVIOUS
  <2> HIDE DEF f
  <2>3. Def(f) = [s \in SUBSET D |-> f[s]] BY <2>1
  <2> QED BY <2>2, <2>3 DEF h
<1> HIDE DEF f
<1>7. w = Def(w) BY <1>6
<1> HIDE DEF w
<1>8. w[{}] = b
  <2>1. {} \in SUBSET D OBVIOUS
  <2> QED BY <1>7, <2>1
<1>9. ASSUME NEW s \in SUBSET D, s # {} PROVE w[s] = Put(C[s], w[s \ {C[s]}])
  <2>1. w[s] = Def(w)[s] BY <1>7
  <2>2. Def(w)[s] = Put(C[s], w[s \ {C[s]}]) BY <1>5, <1>9
  <2> QED BY <2>1, <2>2
<1>10. SameStep(f, w, C, D)
  <2>1. f[{}] = w[{}] BY <1>3, <1>8
  <2>2. ASSUME NEW s \in SUBSET D, s # {}, f[s \ {C[s]}] = w[s \ {C[s]}] PROVE f[s] = w[s]
    BY <1>4, <1>9, <2>2
  <2> QED BY <2>1, <2>2 DEF SameStep
<1>11. f[D] = w[D]
  <2>1. D \in SUBSET D OBVIOUS
  <2> QED BY <1>2, <1>10, <2>1, SameFold
<1>12. f[D] = Grown(D) BY DEF f
<1> QED BY <1>1, <1>11, <1>12

\* The sizes, units and bytes of the model are such sums.
LEMMA TotalIs ==
  ASSUME NEW files, IsFiniteSet(DOMAIN files), \A p \in DOMAIN files : files[p] \in Nat
  PROVE  Total(files) = Weight(files, DOMAIN files)
<1> DEFINE S == DOMAIN files
           f == Sums(files, S)
           Def(g) == [s \in SUBSET S |->
                         IF s = {} THEN 0
                         ELSE LET x == CHOOSE x \in s : TRUE IN files[x] + g[s \ {x}]]
           w == CHOOSE g : g = Def(g)
<1>1. Total(files) = w[S]
  BY DEF Total, MapThenSumSet, MapThenFoldSet
<1>2. ASSUME NEW s \in SUBSET S PROVE AnyOf(S)[s] = CHOOSE x \in s : TRUE BY DEF AnyOf
<1>3. f = Def(f)
  <2>1. ASSUME NEW s \in SUBSET S PROVE f[s] = Def(f)[s]
    <3>1. f[s] = IF s = {} THEN 0 ELSE files[AnyOf(S)[s]] + f[s \ {AnyOf(S)[s]}] BY SumsIs
    <3> HIDE DEF f
    <3> QED BY <1>2, <3>1
  <2>2. f = [s \in SUBSET S |-> f[s]] BY DEF Sums
  <2>3. Def(f) = [s \in SUBSET S |-> Def(f)[s]] OBVIOUS
  <2> HIDE DEF f, Def
  <2> QED BY <2>1, <2>2, <2>3
<1> HIDE DEF f
<1>4. w = Def(w) BY <1>3
<1> HIDE DEF w
<1>5. \A s \in SUBSET S : w[s] = IF s = {} THEN 0 ELSE files[AnyOf(S)[s]] + w[s \ {AnyOf(S)[s]}]
  BY <1>2, <1>4
<1>6. w[S] = Weight(files, S) BY <1>5, SumIs
<1> QED BY <1>1, <1>6

\* A workspace has finitely many files and a size.
LEMMA WorkspaceIs ==
  ASSUME NEW files, IsWorkspace(files)
  PROVE  /\ IsFiniteSet(DOMAIN files) /\ \A p \in DOMAIN files : files[p] \in Nat
         /\ Size(files) = Weight(files, DOMAIN files) /\ Size(files) \in Nat
         /\ \A p \in DOMAIN files : IsPath(p)
<1>1. IsFiniteSet(DOMAIN files) /\ \A p \in DOMAIN files : files[p] \in Nat BY DEF IsWorkspace
<1>2. Total(files) = Weight(files, DOMAIN files) BY <1>1, TotalIs
<1>3. Weight(files, DOMAIN files) \in Nat BY <1>1, PlacesFinite
<1> QED BY <1>1, <1>2, <1>3 DEF Size, IsWorkspace

\* The files of a folder.
Under(c, D) == {<<c>> \o p : p \in D}

\* The paths of a folder, and how many they are.
LEMMA FolderIs ==
  ASSUME NEW S, NEW c \in S, NEW D \in SUBSET Seq(S)
  PROVE  /\ Under(c, D) \in SUBSET Seq(S)
         /\ \A q \in Under(c, D) :
              /\ q[1] = c /\ Tail(q) \in D /\ q = <<c>> \o Tail(q) /\ Len(q) = Len(Tail(q)) + 1
<1>1. ASSUME NEW p \in D
      PROVE  /\ <<c>> \o p \in Seq(S) /\ (<<c>> \o p)[1] = c /\ Tail(<<c>> \o p) = p
             /\ Len(<<c>> \o p) = Len(p) + 1
  BY InFolder
<1> QED BY <1>1 DEF Under

LEMMA FolderCounts ==
  ASSUME NEW S, NEW c \in S, NEW D \in SUBSET Seq(S), IsFiniteSet(D)
  PROVE  IsFiniteSet(Under(c, D)) /\ Cardinality(Under(c, D)) = Cardinality(D)
<1> DEFINE m == [q \in Under(c, D) |-> Tail(q)]
<1>1. \A q \in Under(c, D) : Tail(q) \in D /\ q = <<c>> \o Tail(q) BY FolderIs
<1>2. m \in Injection(Under(c, D), D)
  <2>1. m \in [Under(c, D) -> D] BY <1>1
  <2>2. \A q, r \in Under(c, D) : m[q] = m[r] => q = r BY <1>1
  <2> HIDE DEF m
  <2> QED BY <2>1, <2>2 DEF Injection, IsInjective
<1>3. m \in Surjection(Under(c, D), D)
  <2>1. m \in [Under(c, D) -> D] BY <1>1
  <2>2. ASSUME NEW p \in D PROVE \E q \in Under(c, D) : m[q] = p
    <3>1. <<c>> \o p \in Under(c, D) BY DEF Under
    <3>2. m[<<c>> \o p] = p BY <3>1, InFolder
    <3> QED BY <3>1, <3>2
  <2> HIDE DEF m
  <2> QED BY <2>1, <2>2 DEF Surjection
<1> HIDE DEF m
<1> QED BY <1>2, <1>3, FS_Injection

\* What a mount of the staged tree holds.
LEMMA MountIs ==
  ASSUME NEW S, NEW c \in S, NEW files, IsWorkspace(files), DOMAIN files \subseteq Seq(S),
         NEW g, \A q \in Under(c, DOMAIN files) : g[q] = files[Tail(q)]
  PROVE  /\ \A q \in Under(c, DOMAIN files) : g[q] \in Nat
         /\ Weight(g, Under(c, DOMAIN files)) <= Size(files)
<1> DEFINE D == DOMAIN files
           U == Under(c, D)
           m == [q \in U |-> Tail(q)]
<1>1. /\ IsFiniteSet(U) /\ \A q \in U : Tail(q) \in D /\ q = <<c>> \o Tail(q)
      /\ IsFiniteSet(D) /\ \A p \in D : files[p] \in Nat
  BY WorkspaceIs, FolderIs, FolderCounts
<1>2. \A q \in U : g[q] \in Nat /\ m[q] \in D /\ g[q] = files[m[q]] BY <1>1
<1>3. m \in [U -> D] /\ \A q, r \in U : m[q] = m[r] => q = r BY <1>1
<1>4. \A q \in U : g[q] <= files[m[q]] BY <1>1, <1>2
<1> HIDE DEF m, U, D
<1>5. Weight(g, U) <= Weight(files, D) BY <1>1, <1>2, <1>3, <1>4, WeightInto
<1> QED BY <1>2, <1>5, WorkspaceIs DEF U, D

\* A request of the caller's.
IsJob(job) == IsWorkspace(job.files) /\ IsWorkspace(job.includeFiles)
JobNames(job) ==
  NamesIn(DOMAIN job.files \cup DOMAIN job.includeFiles) \cup {SourceName, IncludeName}

\* The paths of a request.
LEMMA JobPaths ==
  ASSUME NEW job, IsJob(job)
  PROVE  /\ DOMAIN job.files \subseteq Seq(JobNames(job))
         /\ DOMAIN job.includeFiles \subseteq Seq(JobNames(job))
         /\ SourceName \in JobNames(job) /\ IncludeName \in JobNames(job)
<1> DEFINE P == DOMAIN job.files \cup DOMAIN job.includeFiles
<1>1. \A p \in P : IsPath(p) BY WorkspaceIs DEF IsJob
<1> HIDE DEF P
<1>2. \A p \in P : p \in Seq(NamesIn(P)) BY <1>1, PathsNamed
<1>3. \A p \in P : p \in Seq(NamesIn(P) \cup {SourceName, IncludeName})
  <2> DEFINE N == NamesIn(P)
             M == N \cup {SourceName, IncludeName}
  <2>1. N \subseteq M OBVIOUS
  <2>2. \A p \in P : p \in Seq(N) BY <1>2
  <2> HIDE DEF N, M
  <2>3. \A p \in P : p \in Seq(M) BY <2>1, <2>2, SeqMonotonic
  <2> QED BY <2>3 DEF M, N
<1> QED BY <1>3 DEF P, JobNames

\* The staged tree holds what its two mounts hold, and is no larger.
LEMMA StageIs ==
  ASSUME NEW job, IsJob(job), IncludeName # SourceName
  PROVE  /\ DOMAIN Stage(job) =
              Under(SourceName, DOMAIN job.files) \cup Under(IncludeName, DOMAIN job.includeFiles)
         /\ IsFiniteSet(DOMAIN Stage(job))
         /\ Size(Stage(job)) \in Nat
         /\ Size(Stage(job)) <= Size(job.files) + Size(job.includeFiles)
<1> DEFINE S == JobNames(job)
           g == Stage(job)
           A == Under(SourceName, DOMAIN job.files)
           B == Under(IncludeName, DOMAIN job.includeFiles)
<1>1. /\ DOMAIN g = A \cup B
      /\ \A q \in A \cup B : g[q] = IF q[1] = SourceName THEN job.files[Tail(q)]
                                    ELSE job.includeFiles[Tail(q)]
  BY DEF Stage, Under
<1> HIDE DEF g
<1>2. /\ DOMAIN job.files \subseteq Seq(S) /\ DOMAIN job.includeFiles \subseteq Seq(S)
      /\ SourceName \in S /\ IncludeName \in S
  BY JobPaths
<1> HIDE DEF S
<1>a. IsWorkspace(job.files) /\ IsWorkspace(job.includeFiles) BY DEF IsJob
<1>b. IsFiniteSet(DOMAIN job.files) /\ IsFiniteSet(DOMAIN job.includeFiles) BY <1>a, WorkspaceIs
<1>3. IsFiniteSet(A) /\ \A q \in A : q[1] = SourceName BY <1>2, <1>b, FolderIs, FolderCounts
<1>4. IsFiniteSet(B) /\ \A q \in B : q[1] = IncludeName BY <1>2, <1>b, FolderIs, FolderCounts
<1>5. A \cap B = {} BY <1>3, <1>4
<1>6. (\A q \in A : g[q] \in Nat) /\ Weight(g, A) <= Size(job.files)
  <2>1. \A q \in A : g[q] = job.files[Tail(q)] BY <1>1, <1>3
  <2> QED BY <1>2, <1>a, <2>1, MountIs
<1>7. (\A q \in B : g[q] \in Nat) /\ Weight(g, B) <= Size(job.includeFiles)
  <2>1. \A q \in B : g[q] = job.includeFiles[Tail(q)] BY <1>1, <1>4
  <2> QED BY <1>2, <1>a, <2>1, MountIs
<1>8. Weight(g, A) \in Nat /\ Weight(g, B) \in Nat BY <1>3, <1>4, <1>6, <1>7, PlacesFinite
<1> HIDE DEF A, B
<1>9. IsFiniteSet(A \cup B) BY <1>3, <1>4, FS_Union
<1>10. Weight(g, A \cup B) = Weight(g, A) + Weight(g, B)
  BY <1>3, <1>4, <1>5, <1>6, <1>7, WeightUnion
<1>11. \A q \in DOMAIN g : g[q] \in Nat BY <1>1, <1>6, <1>7
<1>12. Size(g) = Weight(g, A \cup B)
  <2>1. Total(g) = Weight(g, DOMAIN g) BY <1>1, <1>9, <1>11, TotalIs
  <2> QED BY <1>1, <2>1 DEF Size
<1>13. Size(job.files) \in Nat /\ Size(job.includeFiles) \in Nat BY <1>a, WorkspaceIs
<1>14. Size(g) \in Nat /\ Size(g) <= Size(job.files) + Size(job.includeFiles)
  BY <1>6, <1>7, <1>8, <1>10, <1>12, <1>13
<1> QED BY <1>1, <1>9, <1>14 DEF g, A, B

\* What the validation of a request establishes.
LEMMA NoFaults ==
  ASSUME NEW job, NEW limits, NEW supplied, CompileFaults(job, limits, supplied) = {}
  PROVE  /\ \A p \in DOMAIN job.files \cup DOMAIN job.includeFiles : Canonical(p)
         /\ ~Collides(job.files) /\ ~Collides(job.includeFiles)
         /\ ToSet(job.entrypoints) \subseteq DOMAIN job.files
         /\ (ToSet(job.importPaths) \cup {job.sourcePrefix}) \ {<<>>}
              \subseteq Directories(job.files)
         /\ ~(Size(job.files) + Size(job.includeFiles) > limits.workspaceBytes)
<1> DEFINE mounts == <<job.files, job.includeFiles>>
           named == ToSet(job.importPaths) \cup {job.sourcePrefix}
           paths == (named \ {EmptyPath}) \cup ToSet(job.entrypoints)
                      \cup DOMAIN job.files \cup DOMAIN job.includeFiles
           fault ==
             [generators |-> GeneratorFault(job.generators, supplied),
              importCount |-> Len(job.importPaths) > limits.workspaceEntries,
              entrypointCount |-> Len(job.entrypoints) > limits.workspaceEntries,
              pathBytes |-> \E p \in paths : PathFault(p, limits),
              pathForm |-> \E p \in paths : ~Canonical(p),
              duplicates |-> Repeats(job.importPaths) \/ Repeats(job.entrypoints),
              noEntrypoint |-> job.entrypoints = <<>>,
              entries |-> CountNodes(DOMAIN job.files)
                            + CountNodes(DOMAIN job.includeFiles) > limits.workspaceEntries,
              bytes |-> Size(job.files) + Size(job.includeFiles)
                          > limits.workspaceBytes,
              collision |-> \E i \in DOMAIN mounts : Collides(mounts[i]),
              missing |-> ~(ToSet(job.entrypoints) \subseteq DOMAIN job.files),
              notDirectory |-> ~(named \ {EmptyPath} \subseteq Directories(job.files))]
<1>1. CompileFaults(job, limits, supplied) = {f \in DOMAIN fault : fault[f]}
  BY DEF CompileFaults
<1>2. \A f \in DOMAIN fault : ~fault[f]
  <2> HIDE DEF fault
  <2> QED BY <1>1
<1>3. "pathForm" \in DOMAIN fault /\ "collision" \in DOMAIN fault /\ "missing" \in DOMAIN fault
      /\ "notDirectory" \in DOMAIN fault /\ "bytes" \in DOMAIN fault
  OBVIOUS
<1>4. ~fault["pathForm"] /\ ~fault["collision"] /\ ~fault["missing"]
      /\ ~fault["notDirectory"] /\ ~fault["bytes"]
  <2> HIDE DEF fault
  <2> QED BY <1>2, <1>3
<1>5. \A p \in paths : Canonical(p)
  <2>1. fault["pathForm"] <=> \E p \in paths : ~Canonical(p)
    <3> HIDE DEF paths
    <3> QED OBVIOUS
  <2> QED BY <1>4, <2>1
<1>6. ~Collides(job.files) /\ ~Collides(job.includeFiles)
  <2>1. fault["collision"] <=> \E i \in DOMAIN mounts : Collides(mounts[i])
    <3> HIDE DEF mounts
    <3> QED OBVIOUS
  <2>2. 1 \in DOMAIN mounts /\ mounts[1] = job.files /\ 2 \in DOMAIN mounts
        /\ mounts[2] = job.includeFiles
    OBVIOUS
  <2> HIDE DEF fault, mounts
  <2> QED BY <1>4, <2>1, <2>2
<1>7. ToSet(job.entrypoints) \subseteq DOMAIN job.files
  <2>1. fault["missing"] <=> ~(ToSet(job.entrypoints) \subseteq DOMAIN job.files) OBVIOUS
  <2> HIDE DEF fault
  <2> QED BY <1>4, <2>1
<1>8. named \ {<<>>} \subseteq Directories(job.files)
  <2>1. fault["notDirectory"] <=>
          ~(named \ {EmptyPath} \subseteq Directories(job.files))
    <3> HIDE DEF named
    <3> QED OBVIOUS
  <2> HIDE DEF fault, named
  <2> QED BY <1>4, <2>1 DEF EmptyPath
<1>9. ~(Size(job.files) + Size(job.includeFiles) > limits.workspaceBytes)
  <2>1. fault["bytes"] <=>
          Size(job.files) + Size(job.includeFiles) > limits.workspaceBytes
    OBVIOUS
  <2> HIDE DEF fault
  <2> QED BY <1>4, <2>1
<1> QED BY <1>5, <1>6, <1>7, <1>8, <1>9

\* The files of a mount do not lie on each other's way.
LEMMA FolderApart ==
  ASSUME NEW S, NEW c \in S, NEW d \in S, NEW files, NEW others,
         DOMAIN files \subseteq Seq(S), DOMAIN others \subseteq Seq(S),
         \A p \in DOMAIN others : Canonical(p),
         c = d => files = others, ~Collides(files),
         NEW p \in DOMAIN files, NEW r \in DOMAIN others
  PROVE  <<d>> \o r \notin Above(<<c>> \o p)
<1>1. r # <<>> BY DEF Canonical, EmptyPath
<1>2. r \in Above(p) => c # d
  <2> SUFFICES ASSUME r \in Above(p), c = d PROVE FALSE OBVIOUS
  <2>1. r \in DOMAIN files OBVIOUS
  <2> QED BY <2>1 DEF Collides
<1> QED BY <1>1, <1>2, AboveInFolder

\* The staged files of a valid request do not lie on each other's way.
LEMMA StagedApart ==
  ASSUME NEW job, IsJob(job), IncludeName # SourceName,
         \A p \in DOMAIN job.files \cup DOMAIN job.includeFiles : Canonical(p),
         ~Collides(job.files), ~Collides(job.includeFiles)
  PROVE  Apart(DOMAIN Stage(job))
<1> DEFINE S == JobNames(job)
<1>2. /\ DOMAIN job.files \subseteq Seq(S) /\ DOMAIN job.includeFiles \subseteq Seq(S)
      /\ SourceName \in S /\ IncludeName \in S
  BY JobPaths
<1> HIDE DEF S
<1>3. DOMAIN Stage(job) =
        Under(SourceName, DOMAIN job.files) \cup Under(IncludeName, DOMAIN job.includeFiles)
  BY StageIs
<1>4. ASSUME NEW q \in DOMAIN Stage(job), NEW x \in DOMAIN Stage(job)
      PROVE  x \notin Above(q)
  <2>1. ASSUME NEW p \in DOMAIN job.files, NEW r \in DOMAIN job.files
        PROVE  <<SourceName>> \o r \notin Above(<<SourceName>> \o p)
    BY <1>2, FolderApart
  <2>2. ASSUME NEW p \in DOMAIN job.files, NEW r \in DOMAIN job.includeFiles
        PROVE  <<IncludeName>> \o r \notin Above(<<SourceName>> \o p)
    BY <1>2, FolderApart
  <2>3. ASSUME NEW p \in DOMAIN job.includeFiles, NEW r \in DOMAIN job.files
        PROVE  <<SourceName>> \o r \notin Above(<<IncludeName>> \o p)
    BY <1>2, FolderApart
  <2>4. ASSUME NEW p \in DOMAIN job.includeFiles, NEW r \in DOMAIN job.includeFiles
        PROVE  <<IncludeName>> \o r \notin Above(<<IncludeName>> \o p)
    BY <1>2, FolderApart
  <2>5. q \in Under(SourceName, DOMAIN job.files)
        \/ q \in Under(IncludeName, DOMAIN job.includeFiles)
    BY <1>3
  <2>6. x \in Under(SourceName, DOMAIN job.files)
        \/ x \in Under(IncludeName, DOMAIN job.includeFiles)
    BY <1>3
  <2> QED BY <2>1, <2>2, <2>3, <2>4, <2>5, <2>6 DEF Under
<1>5. ASSUME NEW c \in S, NEW D \in SUBSET Seq(S), \A p \in D : Canonical(p),
             NEW q \in Under(c, D)
      PROVE  q \notin Mounts
  <2>1. PICK p \in D : q = <<c>> \o p BY DEF Under
  <2>2. p \in Seq(S) /\ p # <<>> BY <1>5 DEF Canonical, EmptyPath
  <2>3. Len(q) = Len(p) + 1 /\ Len(p) # 0 /\ Len(p) \in Nat
    BY <2>1, <2>2, InFolder, EmptySeq, LenProperties
  <2>4. Len(<<SourceName>>) = 1 /\ Len(<<IncludeName>>) = 1 OBVIOUS
  <2>5. Len(q) # 1 BY <2>3
  <2>6. q # <<SourceName>> /\ q # <<IncludeName>> BY <2>4, <2>5
  <2> QED BY <2>6 DEF Mounts
<1>6. ASSUME NEW q \in DOMAIN Stage(job) PROVE q \notin Mounts
  BY <1>2, <1>3, <1>5
<1> QED BY <1>4, <1>6 DEF Apart

\* A request the SDK takes is staged whole and is as large as it was.
LEMMA StagedWhole ==
  ASSUME NEW job, IsJob(job), IncludeName # SourceName, NEW limits,
         limits.workspaceBytes \in Nat, NEW supplied
  PROVE  StagesWhole(job, limits, supplied)
<1> SUFFICES ASSUME CompileFaults(job, limits, supplied) = {}
    PROVE  LET tree == StageFiles(Stage(job)) IN
           /\ tree.ok
           /\ tree.files = DOMAIN Stage(job)
           /\ \A p \in ToSet(job.entrypoints) : <<SourceName>> \o p \in tree.files
           /\ \A p \in ToSet(job.importPaths) \cup {job.sourcePrefix} :
                <<SourceName>> \o p \in tree.dirs
           /\ Size(Stage(job)) <= limits.workspaceBytes
  BY DEF StagesWhole
<1> DEFINE D == DOMAIN Stage(job)
           S == JobNames(job)
           named == ToSet(job.importPaths) \cup {job.sourcePrefix}
           tree == StageFiles(Stage(job))
<1>1. /\ \A p \in DOMAIN job.files \cup DOMAIN job.includeFiles : Canonical(p)
      /\ ~Collides(job.files) /\ ~Collides(job.includeFiles)
      /\ ToSet(job.entrypoints) \subseteq DOMAIN job.files
      /\ named \ {<<>>} \subseteq Directories(job.files)
      /\ ~(Size(job.files) + Size(job.includeFiles) > limits.workspaceBytes)
  BY NoFaults
<1>2. IsFiniteSet(D) /\ Apart(D) BY <1>1, StageIs, StagedApart
<1>3. tree = Grown(D) BY <1>2, StagedIs
<1> HIDE DEF tree
<1>4. /\ tree.ok /\ tree.files = D
      /\ tree.dirs = Mounts \cup UNION {Above(p) : p \in D}
  BY <1>3 DEF Grown
<1>5. Under(SourceName, DOMAIN job.files) \subseteq D BY StageIs
<1>6. \A p \in ToSet(job.entrypoints) : <<SourceName>> \o p \in D
  BY <1>1, <1>5 DEF Under
<1>7. ASSUME NEW p \in named PROVE <<SourceName>> \o p \in tree.dirs
  <2>1. CASE p = <<>>
    <3>1. <<SourceName>> \o <<>> = <<SourceName>>
      <4>1. <<SourceName>> \in Seq({SourceName}) OBVIOUS
      <4> QED BY <4>1, ConcatEmptySeq
    <3> QED BY <1>4, <2>1, <3>1 DEF Mounts
  <2>2. CASE p # <<>>
    <3>1. p \in Nodes(DOMAIN job.files) \ DOMAIN job.files
      BY <1>1, <2>2 DEF Directories
    <3>2. PICK q \in DOMAIN job.files : p \in Prefixes(q) BY <3>1 DEF Nodes
    <3>3. p \in Above(q) BY <2>2, <3>1, <3>2 DEF Above, EmptyPath
    <3>4. q \in Seq(S) /\ SourceName \in S BY JobPaths
    <3>5. p \in Seq(S) BY <3>3, <3>4, AboveIs
    <3> HIDE DEF S
    <3>6. <<SourceName>> \o p \in Above(<<SourceName>> \o q)
      BY <3>3, <3>4, <3>5, AboveInFolder
    <3>7. <<SourceName>> \o q \in D BY <1>5 DEF Under
    <3> HIDE DEF D
    <3> QED BY <1>4, <3>6, <3>7
  <2> QED BY <2>1, <2>2
<1>8. Size(Stage(job)) <= limits.workspaceBytes
  <2>1. Size(Stage(job)) <= Size(job.files) + Size(job.includeFiles)
    BY StageIs
  <2>2. Size(job.files) \in Nat /\ Size(job.includeFiles) \in Nat
    BY WorkspaceIs DEF IsJob
  <2>3. Size(Stage(job)) \in Nat BY StageIs
  <2> QED BY <1>1, <2>1, <2>2, <2>3
<1> QED BY <1>4, <1>6, <1>7, <1>8 DEF tree

------------------------------------------------------------------------------
(* The studio's budget and the SDK's limits.                                *)

\* An image of a finite set is finite and no larger.
LEMMA ImageIs ==
  ASSUME NEW S, IsFiniteSet(S), NEW f, DOMAIN f = S
  PROVE  /\ IsFiniteSet({f[x] : x \in S}) /\ Cardinality({f[x] : x \in S}) <= Cardinality(S)
<1> DEFINE T == {f[x] : x \in S}
           g == [x \in S |-> f[x]]
<1>1. g \in Surjection(S, T)
  <2>1. g \in [S -> T] OBVIOUS
  <2>2. \A t \in T : \E x \in S : g[x] = t OBVIOUS
  <2> HIDE DEF g, T
  <2> QED BY <2>1, <2>2 DEF Surjection
<1> HIDE DEF g, T
<1>2. IsFiniteSet(T) /\ Cardinality(T) <= Cardinality(S) BY <1>1, FS_Surjection
<1> QED BY <1>2 DEF T

\* A path has finitely many prefixes, and a workspace finitely many nodes.
LEMMA PrefixesFinite ==
  ASSUME NEW S, NEW p \in Seq(S)
  PROVE  IsFiniteSet(Prefixes(p))
<1> DEFINE f == [l \in 0..Len(p) |-> SubSeq(p, 1, l)]
           I == 0..Len(p)
<1>1. IsFiniteSet(I)
  <2>1. Len(p) \in Int /\ 0 \in Int BY LenProperties
  <2> QED BY <2>1, FS_Interval
<1>2. {f[l] : l \in I} = Prefixes(p) BY DEF Prefixes
<1>3. DOMAIN f = I OBVIOUS
<1> HIDE DEF f, I
<1>4. IsFiniteSet({f[l] : l \in I}) BY <1>1, <1>3, ImageIs
<1> QED BY <1>2, <1>4

LEMMA NodesFinite ==
  ASSUME NEW S, NEW P \in SUBSET Seq(S), IsFiniteSet(P)
  PROVE  IsFiniteSet(Nodes(P)) /\ CountNodes(P) \in Nat
<1> DEFINE f == [p \in P |-> Prefixes(p)]
           F == {f[p] : p \in P}
<1>1. IsFiniteSet(F)
  <2>1. DOMAIN f = P OBVIOUS
  <2> HIDE DEF f
  <2> QED BY <2>1, ImageIs
<1>2. \A s \in F : IsFiniteSet(s) BY PrefixesFinite
<1>3. Nodes(P) \subseteq UNION F BY DEF Nodes
<1> HIDE DEF F
<1>4. IsFiniteSet(UNION F) BY <1>1, <1>2, FS_UNION
<1>5. IsFiniteSet(Nodes(P)) BY <1>3, <1>4, FS_Subset
<1> QED BY <1>5, FS_CardinalityType DEF CountNodes

\* The nodes of files: what begins one of their paths.
LEMMA NodesAre ==
  ASSUME NEW S, NEW P \in SUBSET Seq(S), NEW x
  PROVE  x \in Nodes(P) <=>
           /\ x \in Seq(S) /\ 0 < Len(x)
           /\ \E p \in P : Len(x) <= Len(p) /\ \A i \in 1..Len(x) : x[i] = p[i]
<1>1. ASSUME NEW p \in P
      PROVE  x \in Prefixes(p) \ {<<>>} <=>
               /\ x \in Seq(S) /\ 0 < Len(x)
               /\ Len(x) <= Len(p) /\ \A i \in 1..Len(x) : x[i] = p[i]
  <2>1. x \in Prefixes(p) \ {<<>>} <=> (x \in Above(p) \/ (x = p /\ x # <<>>))
    <3>1. p \in Prefixes(p)
      <4> DEFINE y == SubSeq(p, 1, Len(p))
      <4>1. y \in Prefixes(p) BY LenProperties DEF Prefixes
      <4>2. y = p BY SubSeqFull
      <4> HIDE DEF y
      <4> QED BY <4>1, <4>2
    <3>2. x \in Above(p) <=> x \in Prefixes(p) /\ x # p /\ x # <<>>
      BY DEF Above, EmptyPath
    <3> QED BY <3>1, <3>2
  <2>2. x = p <=> /\ x \in Seq(S) /\ Len(x) = Len(p) /\ \A i \in 1..Len(x) : x[i] = p[i]
    BY SeqEqual
  <2>3. x \in Seq(S) => (x # <<>> <=> 0 < Len(x)) BY EmptySeq, LenProperties
  <2>4. x \in Seq(S) => (Len(x) \in Nat /\ Len(p) \in Nat) BY LenProperties
  <2>5. x \in Above(p) <=>
          /\ x \in Seq(S) /\ 0 < Len(x) /\ Len(x) < Len(p)
          /\ \A i \in 1..Len(x) : x[i] = p[i]
    BY AboveIs
  <2> QED BY <2>1, <2>2, <2>3, <2>4, <2>5
<1>2. x \in Nodes(P) <=> \E p \in P : x \in Prefixes(p) \ {<<>>}
  BY DEF Nodes, EmptyPath
<1> QED BY <1>1, <1>2

\* A node begins a path, and what begins a path is a node.
LEMMA NodeBegins ==
  ASSUME NEW S, NEW P \in SUBSET Seq(S), NEW x \in Nodes(P)
  PROVE  /\ x \in Seq(S) /\ 0 < Len(x)
         /\ \E p \in P : Len(x) <= Len(p) /\ \A i \in 1..Len(x) : x[i] = p[i]
BY NodesAre

LEMMA NodeIn ==
  ASSUME NEW S, NEW P \in SUBSET Seq(S), NEW x \in Seq(S), 0 < Len(x), NEW p \in P,
         Len(x) <= Len(p), \A i \in 1..Len(x) : x[i] = p[i]
  PROVE  x \in Nodes(P)
<1>1. \E q \in P : Len(x) <= Len(q) /\ \A i \in 1..Len(x) : x[i] = q[i] OBVIOUS
<1> QED BY <1>1, NodesAre

\* A triple of each term bounds another sum.
LEMMA WeightTriple ==
  ASSUME NEW S, IsFiniteSet(S), NEW g, NEW h,
         \A x \in S : g[x] \in Nat /\ h[x] \in Nat /\ g[x] <= 3 * h[x]
  PROVE  Weight(g, S) <= 3 * Weight(h, S)
<1> DEFINE Q == {s \in SUBSET S : Weight(g, s) <= 3 * Weight(h, s)}
<1>1. ASSUME NEW s \in SUBSET S, \A x \in s : s \ {x} \in Q PROVE s \in Q
  <2>0. IsFiniteSet(s) BY FS_Subset
  <2>1. CASE s = {}
    <3>1. Weight(g, s) = 0 /\ Weight(h, s) = 0 BY <2>0, <2>1, WeightAdds
    <3> QED BY <3>1
  <2>2. CASE s # {}
    <3>1. PICK x \in s : TRUE BY <2>2
    <3>2. \A y \in s : g[y] \in Nat /\ h[y] \in Nat OBVIOUS
    <3>3. Weight(g, s) = g[x] + Weight(g, s \ {x}) BY <2>0, <3>2, WeightAdds
    <3>4. Weight(h, s) = h[x] + Weight(h, s \ {x}) BY <2>0, <3>2, WeightAdds
    <3>5. IsFiniteSet(s \ {x}) BY <2>0, FS_Subset
    <3>6. Weight(g, s \ {x}) \in Nat /\ Weight(h, s \ {x}) \in Nat
      BY <3>2, <3>5, PlacesFinite
    <3>7. Weight(g, s \ {x}) <= 3 * Weight(h, s \ {x}) BY <1>1
    <3>8. g[x] \in Nat /\ h[x] \in Nat /\ g[x] <= 3 * h[x] OBVIOUS
    <3> DEFINE gx == Weight(g, s \ {x})
               hx == Weight(h, s \ {x})
    <3> HIDE DEF gx, hx
    <3>9. g[x] + gx <= 3 * (h[x] + hx) BY <3>6, <3>7, <3>8 DEF gx, hx
    <3> QED BY <3>3, <3>4, <3>9 DEF gx, hx
  <2> QED BY <2>1, <2>2
<1>2. Q \in SUBSET SUBSET S OBVIOUS
<1> HIDE DEF Q
<1>3. Q = SUBSET S BY <1>1, <1>2, SubsetInduction
<1>4. S \in Q BY <1>3
<1> QED BY <1>4 DEF Q

\* The length of a path in either unit.
LEMMA LengthIs ==
  ASSUME NEW p, IsPath(p)
  PROVE  /\ Len(p) \in Nat /\ DOMAIN p = 1..Len(p) /\ IsFiniteSet(DOMAIN p)
         /\ Units(p) = Len(p) - 1 + Weight([i \in DOMAIN p |-> p[i].units], DOMAIN p)
         /\ Utf8(p) = Len(p) - 1 + Weight([i \in DOMAIN p |-> p[i].bytes], DOMAIN p)
         /\ Weight([i \in DOMAIN p |-> p[i].units], DOMAIN p) \in Nat
         /\ Weight([i \in DOMAIN p |-> p[i].bytes], DOMAIN p) \in Nat
<1> DEFINE u == [i \in DOMAIN p |-> p[i].units]
           b == [i \in DOMAIN p |-> p[i].bytes]
           D == DOMAIN p
           S == {p[i] : i \in DOMAIN p}
<1>1. p \in Seq(S) BY DEF IsPath, IsSeq
<1>2. Len(p) \in Nat /\ D = 1..Len(p)
  <2> HIDE DEF S
  <2> QED BY <1>1, LenProperties
<1>3. IsFiniteSet(D) BY <1>2, FS_Interval
<1>4. DOMAIN u = D /\ \A i \in D : u[i] \in Nat BY DEF IsPath, IsSeq
<1>5. DOMAIN b = D /\ \A i \in D : b[i] \in Nat BY DEF IsPath, IsSeq
<1>6. Units(p) = Len(p) - 1 + Total(u) /\ Utf8(p) = Len(p) - 1 + Total(b)
  BY DEF Units, Utf8
<1> HIDE DEF u, b, D
<1>7. Total(u) = Weight(u, D) /\ Total(b) = Weight(b, D)
  BY <1>3, <1>4, <1>5, TotalIs
<1>8. Weight(u, D) \in Nat /\ Weight(b, D) \in Nat BY <1>3, <1>4, <1>5, PlacesFinite
<1> QED BY <1>2, <1>3, <1>6, <1>7, <1>8 DEF u, b, D

LEMMA BytesOfUnits ==
  ASSUME NEW p, IsPath(p), p # <<>>, NEW n \in Nat, Units(p) <= n
  PROVE  Utf8(p) \in Nat /\ Utf8(p) <= 3 * n
<1> DEFINE u == [i \in DOMAIN p |-> p[i].units]
           b == [i \in DOMAIN p |-> p[i].bytes]
           D == DOMAIN p
           wu == Weight(u, D)
           wb == Weight(b, D)
<1>1. /\ Len(p) \in Nat /\ IsFiniteSet(D)
      /\ Units(p) = Len(p) - 1 + wu /\ Utf8(p) = Len(p) - 1 + wb
      /\ wu \in Nat /\ wb \in Nat
  BY LengthIs
<1>2. Len(p) >= 1
  <2>1. p \in Seq({p[i] : i \in DOMAIN p}) BY DEF IsPath, IsSeq
  <2>2. Len(p) # 0 BY <2>1, EmptySeq
  <2> QED BY <1>1, <2>2
<1>3. \A i \in D : u[i] \in Nat /\ b[i] \in Nat /\ b[i] <= 3 * u[i] BY DEF IsPath, IsSeq
<1> HIDE DEF u, b, D
<1>4. wb <= 3 * wu BY <1>1, <1>3, WeightTriple
<1> HIDE DEF wu, wb
<1> QED BY <1>1, <1>2, <1>4

\* A path has more units than what is below its first folder.
LEMMA TailShorter ==
  ASSUME NEW q, IsPath(q), Len(q) > 1
  PROVE  IsPath(Tail(q)) /\ Tail(q) # <<>> /\ Units(Tail(q)) <= Units(q)
<1> DEFINE p == Tail(q)
           S == {q[i] : i \in DOMAIN q}
<1>1. q \in Seq(S) BY DEF IsPath, IsSeq
<1>2. q # <<>> /\ Len(q) \in Nat /\ DOMAIN q = 1..Len(q)
  <2> HIDE DEF S
  <2> QED BY <1>1, EmptySeq, LenProperties
<1>3. p \in Seq(S) /\ Len(p) = Len(q) - 1 /\ \A i \in 1..Len(p) : p[i] = q[i + 1]
  <2> HIDE DEF S
  <2> QED BY <1>1, <1>2, HeadTailProperties
<1> HIDE DEF p
<1>4. DOMAIN p = 1..Len(p) /\ Len(p) \in Nat /\ Len(p) > 0
  <2> HIDE DEF S
  <2> QED BY <1>2, <1>3, LenProperties
<1>5. p # <<>>
  <2> HIDE DEF S
  <2> QED BY <1>3, <1>4, EmptySeq
<1>6. \A i \in DOMAIN p : i + 1 \in DOMAIN q /\ p[i] = q[i + 1] BY <1>2, <1>3, <1>4
<1>7. IsPath(p)
  <2>1. p \in Seq({p[i] : i \in DOMAIN p})
    <3> DEFINE R == {p[i] : i \in DOMAIN p}
    <3>1. \A i \in 1..Len(p) : p[i] \in R BY <1>4
    <3> HIDE DEF R
    <3>2. p = [i \in 1..Len(p) |-> p[i]]
      <4> HIDE DEF S
      <4> QED BY <1>3, LenProperties
    <3>3. p \in Seq(R) BY <1>4, <3>1, <3>2, IsASeq
    <3> QED BY <3>3 DEF R
  <2>2. \A i \in DOMAIN p : p[i].units \in Nat /\ p[i].bytes \in 0..(3 * p[i].units)
    BY <1>6 DEF IsPath, IsSeq
  <2> QED BY <2>1, <2>2 DEF IsPath, IsSeq
<1> DEFINE u == [i \in DOMAIN q |-> q[i].units]
           v == [i \in DOMAIN p |-> p[i].units]
           m == [i \in DOMAIN p |-> i + 1]
<1>8. /\ Units(q) = Len(q) - 1 + Weight(u, DOMAIN q) /\ Weight(u, DOMAIN q) \in Nat
      /\ IsFiniteSet(DOMAIN q)
  BY LengthIs
<1>9. /\ Units(p) = Len(p) - 1 + Weight(v, DOMAIN p) /\ Weight(v, DOMAIN p) \in Nat
      /\ IsFiniteSet(DOMAIN p)
  BY <1>7, LengthIs
<1>10. (\A i \in DOMAIN q : u[i] \in Nat) /\ (\A i \in DOMAIN p : v[i] \in Nat)
  BY <1>7 DEF IsPath, IsSeq
<1>11. m \in [DOMAIN p -> DOMAIN q] /\ \A i, j \in DOMAIN p : m[i] = m[j] => i = j
  BY <1>4, <1>6
<1>12. \A i \in DOMAIN p : v[i] <= u[m[i]]
  <2>1. \A i \in DOMAIN p : v[i] = u[m[i]] BY <1>6
  <2> HIDE DEF u, v, m
  <2> QED BY <1>10, <2>1
<1> HIDE DEF u, v, m
<1>13. Weight(v, DOMAIN p) <= Weight(u, DOMAIN q)
  BY <1>8, <1>9, <1>10, <1>11, <1>12, WeightInto
<1>14. Units(p) <= Units(q) BY <1>2, <1>3, <1>8, <1>9, <1>13
<1> QED BY <1>5, <1>7, <1>14 DEF p

\* The user's files in the include folder, by their paths in the workspace and in
\* the folder.
Own(files) == {p \in DOMAIN files : p[1] = IncludeName /\ Len(p) > 1}
Tails(P) == {Tail(q) : q \in P}

\* The files of a workspace that are the schemas it brings.
LEMMA OwnAre ==
  ASSUME NEW S, IncludeName \in S, NEW files, DOMAIN files \in SUBSET Seq(S),
         IsFiniteSet(DOMAIN files)
  PROVE  /\ Tails(Own(files)) \in SUBSET Seq(S) /\ IsFiniteSet(Tails(Own(files)))
         /\ IsFiniteSet(Own(files))
         /\ \A q \in Own(files) :
              /\ Tail(q) \in Seq(S) /\ q = <<IncludeName>> \o Tail(q)
              /\ Len(q) = Len(Tail(q)) + 1 /\ Len(q) \in Nat
              /\ \A i \in 1..Len(Tail(q)) : q[i + 1] = Tail(q)[i]
<1>1. ASSUME NEW q \in Own(files)
      PROVE  /\ Tail(q) \in Seq(S) /\ q = <<IncludeName>> \o Tail(q)
             /\ Len(q) = Len(Tail(q)) + 1 /\ Len(q) \in Nat
             /\ \A i \in 1..Len(Tail(q)) : q[i + 1] = Tail(q)[i]
  <2>1. q \in Seq(S) /\ q[1] = IncludeName /\ Len(q) > 1 BY DEF Own
  <2>2. q # <<>> BY <2>1, EmptySeq
  <2> DEFINE t == Tail(q)
  <2>3. t \in Seq(S) /\ Len(t) = Len(q) - 1 /\ \A i \in 1..Len(t) : t[i] = q[i + 1]
    BY <2>1, <2>2, HeadTailProperties
  <2> HIDE DEF t
  <2>4. Len(q) \in Nat /\ Len(t) \in Nat BY <2>1, <2>3, LenProperties
  <2> DEFINE f == <<IncludeName>> \o t
  <2>5. f \in Seq(S) /\ Len(f) = Len(t) + 1 /\ f[1] = IncludeName
        /\ \A i \in 1..Len(t) : f[i + 1] = t[i]
    BY <2>3, InFolder
  <2> HIDE DEF f
  <2>6. \A i \in 1..Len(q) : q[i] = f[i]
    <3>1. ASSUME NEW i \in 1..Len(q) PROVE q[i] = f[i]
      <4>1. CASE i = 1 BY <2>1, <2>5, <4>1
      <4>2. CASE i # 1
        <5>1. i - 1 \in 1..Len(t) /\ (i - 1) + 1 = i BY <2>3, <2>4, <4>2
        <5> QED BY <2>3, <2>5, <5>1
      <4> QED BY <4>1, <4>2
    <3> QED BY <3>1
  <2>a. Len(q) = Len(f) /\ q \in Seq(S) /\ f \in Seq(S) BY <2>1, <2>3, <2>4, <2>5
  <2>7. q = f BY <2>6, <2>a, SeqEqual
  <2> QED BY <2>3, <2>4, <2>7 DEF f, t
<1>2. IsFiniteSet(Own(files)) BY FS_Subset DEF Own
<1>3. IsFiniteSet(Tails(Own(files)))
  <2> DEFINE m == [q \in Own(files) |-> Tail(q)]
             O == Own(files)
  <2>1. DOMAIN m = O OBVIOUS
  <2>2. {m[q] : q \in O} = Tails(O) BY DEF Tails
  <2> HIDE DEF m, O
  <2>3. IsFiniteSet({m[q] : q \in O}) BY <1>2, <2>1, ImageIs DEF O
  <2> QED BY <2>2, <2>3 DEF O
<1>4. Tails(Own(files)) \in SUBSET Seq(S) BY <1>1 DEF Tails
<1> QED BY <1>1, <1>2, <1>3, <1>4

\* The two mounts have no more nodes than the workspace and the schemas.
LEMMA NodesFit ==
  ASSUME NEW S, IncludeName \in S, NEW files, DOMAIN files \in SUBSET Seq(S),
         IsFiniteSet(DOMAIN files), NEW P \in SUBSET Seq(S), IsFiniteSet(P)
  PROVE  CountNodes(DOMAIN files \ Own(files)) + CountNodes(Tails(Own(files)) \cup P)
           <= CountNodes(DOMAIN files) + CountNodes(P)
<1> DEFINE O == Own(files)
           A == Nodes(DOMAIN files \ O)
           T == Nodes(Tails(O))
           B == Under(IncludeName, T)
           N == Nodes(DOMAIN files)
           X == Nodes(P)
<1>1. /\ Tails(O) \in SUBSET Seq(S) /\ IsFiniteSet(Tails(O))
      /\ \A q \in O :
           /\ Tail(q) \in Seq(S) /\ Len(q) = Len(Tail(q)) + 1 /\ Len(q) \in Nat
           /\ \A i \in 1..Len(Tail(q)) : q[i + 1] = Tail(q)[i]
  BY OwnAre
<1>2. /\ \A q \in O : q \in DOMAIN files /\ q[1] = IncludeName /\ Len(q) > 1
      /\ \A p \in DOMAIN files \ O : ~(p[1] = IncludeName /\ Len(p) > 1)
      /\ O \subseteq DOMAIN files
  BY DEF Own
<1> HIDE DEF O
<1>3. DOMAIN files \ O \in SUBSET Seq(S) /\ IsFiniteSet(DOMAIN files \ O) BY FS_Subset
<1>4. /\ IsFiniteSet(A) /\ IsFiniteSet(T) /\ IsFiniteSet(N) /\ IsFiniteSet(X)
      /\ CountNodes(DOMAIN files \ O) = Cardinality(A)
      /\ CountNodes(DOMAIN files) = Cardinality(N)
      /\ CountNodes(P) = Cardinality(X)
  BY <1>1, <1>3, NodesFinite DEF CountNodes
<1>5. Nodes(Tails(O) \cup P) = T \cup X BY DEF Nodes
<1>6. CountNodes(Tails(O) \cup P) = Cardinality(T \cup X)
  BY <1>5 DEF CountNodes
<1>7. T \in SUBSET Seq(S) BY <1>1, NodeBegins
<1>8. /\ IsFiniteSet(B) /\ Cardinality(B) = Cardinality(T)
  <2>1. T \in SUBSET Seq(S) /\ IsFiniteSet(T) /\ IncludeName \in S BY <1>4, <1>7
  <2> DEFINE c == IncludeName
  <2> HIDE DEF T, A, N, X, c
  <2>2. T \in SUBSET Seq(S) /\ IsFiniteSet(T) /\ c \in S BY <2>1 DEF c
  <2>3. IsFiniteSet(Under(c, T)) /\ Cardinality(Under(c, T)) = Cardinality(T)
    BY ONLY <2>2, FolderCounts
  <2> QED BY <2>3 DEF c
<1>9. A \subseteq N BY DEF Nodes
<1>10. ASSUME NEW b \in B PROVE b \in N /\ b \notin A
  <2>1. PICK r \in T : b = <<IncludeName>> \o r BY DEF Under
  <2>2. PICK t \in Tails(O) : Len(r) <= Len(t) /\ \A i \in 1..Len(r) : r[i] = t[i]
    <3> DEFINE Q == Tails(O)
    <3>1. Q \in SUBSET Seq(S) /\ r \in Nodes(Q) BY <1>1
    <3> HIDE DEF Q
    <3>2. \E t \in Q : Len(r) <= Len(t) /\ \A i \in 1..Len(r) : r[i] = t[i] BY ONLY <3>1, NodeBegins
    <3> QED BY <3>2 DEF Q
  <2>3. r \in Seq(S) /\ 0 < Len(r) /\ Len(r) \in Nat BY <1>1, <1>7, NodeBegins, LenProperties
  <2>4. PICK q \in O : t = Tail(q) BY DEF Tails
  <2>5. /\ Len(q) = Len(t) + 1 /\ Len(q) \in Nat /\ q[1] = IncludeName /\ q \in DOMAIN files
        /\ \A i \in 1..Len(t) : q[i + 1] = t[i]
    BY <1>1, <1>2, <2>4
  <2>6. /\ b \in Seq(S) /\ Len(b) = Len(r) + 1 /\ b[1] = IncludeName
        /\ \A i \in 1..Len(r) : b[i + 1] = r[i]
    BY <2>1, <2>3, InFolder
  <2>7. Len(t) \in Nat BY <1>1, <2>4, LenProperties
  <2>8. \A i \in 1..Len(b) : b[i] = q[i]
    <3>1. ASSUME NEW i \in 1..Len(b) PROVE b[i] = q[i]
      <4>1. CASE i = 1 BY <2>5, <2>6, <4>1
      <4>2. CASE i # 1
        <5>1. i - 1 \in 1..Len(r) /\ i - 1 \in 1..Len(t) /\ (i - 1) + 1 = i
          BY <2>2, <2>3, <2>6, <2>7, <4>2
        <5>2. b[i] = r[i - 1] BY <2>6, <5>1
        <5>3. q[i] = t[i - 1] BY <2>5, <5>1
        <5>4. r[i - 1] = t[i - 1] BY <2>2, <5>1
        <5> QED BY <5>2, <5>3, <5>4
      <4> QED BY <4>1, <4>2
    <3> QED BY <3>1
  <2>9. Len(b) <= Len(q) /\ Len(b) > 1 BY <2>2, <2>3, <2>5, <2>6, <2>7
  <2>10. b \in N
    <3>1. 0 < Len(b) BY <2>3, <2>6
    <3> QED BY <2>5, <2>6, <2>8, <2>9, <3>1, NodeIn
  <2>11. b \notin A
    <3> SUFFICES ASSUME b \in A PROVE FALSE OBVIOUS
    <3>1. PICK p \in DOMAIN files \ O : Len(b) <= Len(p) /\ \A i \in 1..Len(b) : b[i] = p[i]
      BY <1>3, NodeBegins
    <3>2. 1 \in 1..Len(b) /\ Len(p) \in Nat BY <2>3, <2>6, <3>1, LenProperties
    <3>3. p[1] = IncludeName /\ Len(p) > 1 BY <2>3, <2>6, <2>9, <3>1, <3>2
    <3> QED BY <1>2, <3>3
  <2> QED BY <2>10, <2>11
<1> HIDE DEF A, B, T, N, X
<1>11. Cardinality(A) + Cardinality(B) <= Cardinality(N)
  <2>1. A \cup B \subseteq N /\ A \cap B = {} BY <1>9, <1>10
  <2>2. Cardinality(A \cup B) = Cardinality(A) + Cardinality(B) - Cardinality(A \cap B)
    BY <1>4, <1>8, FS_Union
  <2>3. Cardinality(A \cup B) <= Cardinality(N) BY <1>4, <2>1, FS_Subset
  <2>4. Cardinality(A \cap B) = 0 BY <2>1, FS_EmptySet
  <2>5. Cardinality(A) \in Nat /\ Cardinality(B) \in Nat BY <1>4, <1>8, FS_CardinalityType
  <2> QED BY <2>2, <2>3, <2>4, <2>5
<1>12. Cardinality(T \cup X) <= Cardinality(T) + Cardinality(X)
  <2>1. Cardinality(T \cup X) = Cardinality(T) + Cardinality(X) - Cardinality(T \cap X)
    BY <1>4, FS_Union
  <2>2. Cardinality(T \cap X) \in Nat
    <3>1. IsFiniteSet(T \cap X) BY <1>4, FS_Subset
    <3> QED BY <3>1, FS_CardinalityType
  <2>3. Cardinality(T) \in Nat /\ Cardinality(X) \in Nat BY <1>4, FS_CardinalityType
  <2> QED BY <2>1, <2>2, <2>3
<1>13. Cardinality(T \cup X) \in Nat
  <2>1. IsFiniteSet(T \cup X) BY <1>4, FS_Union
  <2> QED BY <2>1, FS_CardinalityType
<1>14. /\ Cardinality(A) \in Nat /\ Cardinality(B) \in Nat /\ Cardinality(N) \in Nat
       /\ Cardinality(T) \in Nat /\ Cardinality(X) \in Nat
  BY <1>4, <1>8, FS_CardinalityType
<1>15. Cardinality(A) + Cardinality(T \cup X) <= Cardinality(N) + Cardinality(X)
  BY <1>8, <1>11, <1>12, <1>13, <1>14
<1> QED BY <1>4, <1>6, <1>15 DEF O

\* The mounts' sizes.
LEMMA SizesFit ==
  ASSUME NEW S, IncludeName \in S, NEW files, IsWorkspace(files),
         DOMAIN files \in SUBSET Seq(S), IsWorkspace(Standard), DOMAIN Standard \in SUBSET Seq(S),
         NEW f, DOMAIN f = DOMAIN files \ Own(files), \A p \in DOMAIN f : f[p] = files[p],
         NEW g, DOMAIN g = Tails(Own(files)) \cup DOMAIN Standard,
         \A p \in DOMAIN g : g[p] = IF <<IncludeName>> \o p \in Own(files)
                                    THEN files[<<IncludeName>> \o p] ELSE Standard[p]
  PROVE  /\ Size(f) \in Nat /\ Size(g) \in Nat
         /\ Size(f) + Size(g) <= Size(files) + Size(Standard)
<1> DEFINE D == DOMAIN files
           O == Own(files)
           T == Tails(O)
           X == DOMAIN Standard \ T
<1>1. /\ IsFiniteSet(D) /\ \A p \in D : files[p] \in Nat
      /\ Size(files) = Weight(files, D)
  BY WorkspaceIs
<1>2. /\ IsFiniteSet(DOMAIN Standard) /\ \A p \in DOMAIN Standard : Standard[p] \in Nat
      /\ Size(Standard) = Weight(Standard, DOMAIN Standard)
  BY WorkspaceIs
<1>3. /\ T \in SUBSET Seq(S) /\ IsFiniteSet(T) /\ IsFiniteSet(O)
      /\ \A q \in O : Tail(q) \in Seq(S) /\ q = <<IncludeName>> \o Tail(q)
  BY <1>1, OwnAre
<1>4. O \subseteq D BY DEF Own
<1>5. \A p \in T : <<IncludeName>> \o p \in O /\ g[p] = files[<<IncludeName>> \o p]
  <2>1. ASSUME NEW p \in T PROVE <<IncludeName>> \o p \in O
    <3>1. PICK q \in O : p = Tail(q) BY DEF Tails
    <3> HIDE DEF O
    <3> QED BY <1>3, <3>1
  <2> QED BY <2>1
<1>6. \A p \in X : g[p] = Standard[p]
  <2>1. ASSUME NEW p \in X PROVE <<IncludeName>> \o p \notin O
    <3>1. p \in Seq(S) OBVIOUS
    <3>2. Tail(<<IncludeName>> \o p) = p BY <3>1, InFolder
    <3> QED BY <3>2 DEF Tails
  <2> QED BY <2>1
<1> HIDE DEF O, T
<1>7. IsFiniteSet(D \ O) /\ IsFiniteSet(X) /\ X \subseteq DOMAIN Standard
  BY <1>1, <1>2, FS_Subset
<1> DEFINE m == [p \in T |-> <<IncludeName>> \o p]
<1>8. Weight(g, T) <= Weight(files, O) /\ \A p \in T : g[p] \in Nat
  <2>1. \A p \in T : g[p] \in Nat /\ m[p] \in O /\ g[p] = files[m[p]] /\ files[m[p]] \in Nat
    BY <1>1, <1>4, <1>5
  <2>2. m \in [T -> O] BY <1>5
  <2>3. ASSUME NEW p \in T, NEW r \in T, m[p] = m[r] PROVE p = r
    <3>1. Tail(m[p]) = p /\ Tail(m[r]) = r BY <1>3, InFolder
    <3> QED BY <2>3, <3>1
  <2>4. \A q \in O : files[q] \in Nat BY <1>1, <1>4
  <2> HIDE DEF m
  <2>5. \A p \in T : g[p] <= files[m[p]] BY <2>1
  <2>6. Weight(g, T) <= Weight(files, O) BY <1>3, <2>1, <2>2, <2>3, <2>4, <2>5, WeightInto
  <2> QED BY <2>1, <2>6
<1>9. Weight(g, X) <= Weight(Standard, DOMAIN Standard) /\ \A p \in X : g[p] \in Nat
  <2> DEFINE n == [p \in X |-> p]
  <2>1. \A p \in X : g[p] \in Nat /\ Standard[n[p]] \in Nat /\ g[p] = Standard[n[p]]
    BY <1>2, <1>6
  <2>2. n \in [X -> DOMAIN Standard] /\ \A p, r \in X : n[p] = n[r] => p = r BY <1>7
  <2> HIDE DEF n, X
  <2>3. \A p \in X : g[p] <= Standard[n[p]] BY <2>1
  <2>4. Weight(g, X) <= Weight(Standard, DOMAIN Standard)
    BY <1>2, <1>7, <2>1, <2>2, <2>3, WeightInto
  <2> QED BY <2>1, <2>4
<1>10. Weight(f, D \ O) <= Weight(files, D \ O) /\ \A p \in D \ O : f[p] \in Nat
  <2> DEFINE C == D \ O
             n == [p \in C |-> p]
  <2>1. \A p \in C : f[p] \in Nat /\ f[p] = files[n[p]] /\ files[p] \in Nat BY <1>1 DEF O
  <2>2. n \in [C -> C] /\ \A p, r \in C : n[p] = n[r] => p = r OBVIOUS
  <2> HIDE DEF n
  <2>3. IsFiniteSet(C) BY <1>7
  <2> HIDE DEF C
  <2>4. \A p \in C : f[p] <= files[n[p]] BY <2>1
  <2>5. Weight(f, C) <= Weight(files, C) BY <2>1, <2>2, <2>3, <2>4, WeightInto
  <2> QED BY <2>1, <2>5 DEF C
<1>11. Weight(files, D) = Weight(files, D \ O) + Weight(files, O)
  <2>1. (D \ O) \cup O = D /\ (D \ O) \cap O = {} BY <1>4
  <2>2. \A p \in (D \ O) \cup O : files[p] \in Nat BY <1>1, <2>1
  <2> DEFINE C == D \ O
  <2> HIDE DEF C
  <2>3. Weight(files, C \cup O) = Weight(files, C) + Weight(files, O)
    BY <1>3, <1>7, <2>1, <2>2, WeightUnion DEF C
  <2> QED BY <2>1, <2>3 DEF C
<1>12. DOMAIN g = T \cup X BY DEF T, O
<1>13. Weight(g, T \cup X) = Weight(g, T) + Weight(g, X)
  <2>1. T \cap X = {} /\ \A p \in T \cup X : g[p] \in Nat BY <1>8, <1>9
  <2> HIDE DEF X
  <2> QED BY <1>3, <1>7, <2>1, WeightUnion
<1>14. Size(f) = Weight(f, D \ O) /\ Weight(f, D \ O) \in Nat
  <2>1. DOMAIN f = D \ O BY DEF O
  <2> QED BY <1>7, <1>10, <2>1, TotalIs, PlacesFinite DEF Size
<1>15. Size(g) = Weight(g, T \cup X) /\ Weight(g, T) \in Nat /\ Weight(g, X) \in Nat
  <2> HIDE DEF X
  <2>1. IsFiniteSet(T \cup X) BY <1>3, <1>7, FS_Union
  <2>2. \A p \in DOMAIN g : g[p] \in Nat BY <1>8, <1>9, <1>12
  <2>3. Total(g) = Weight(g, DOMAIN g) BY <1>12, <2>1, <2>2, TotalIs
  <2>4. Weight(g, T) \in Nat /\ Weight(g, X) \in Nat BY <1>3, <1>7, <1>8, <1>9, PlacesFinite
  <2> QED BY <1>12, <2>3, <2>4 DEF Size
<1>16. /\ Weight(files, D \ O) \in Nat /\ Weight(files, O) \in Nat
       /\ Weight(Standard, DOMAIN Standard) \in Nat
  BY <1>1, <1>2, <1>3, <1>4, <1>7, PlacesFinite
<1> HIDE DEF D, X
<1> QED BY <1>1, <1>2, <1>8, <1>9, <1>10, <1>11, <1>13, <1>14, <1>15, <1>16

\* The faults of a request's size.
LEMMA SizeFaultsAre ==
  ASSUME NEW job, NEW limits, NEW supplied,
         ~(Len(job.importPaths) > limits.workspaceEntries),
         ~(Len(job.entrypoints) > limits.workspaceEntries),
         \A p \in ((ToSet(job.importPaths) \cup {job.sourcePrefix}) \ {<<>>})
                    \cup ToSet(job.entrypoints) \cup DOMAIN job.files
                    \cup DOMAIN job.includeFiles : ~PathFault(p, limits),
         ~(CountNodes(DOMAIN job.files) + CountNodes(DOMAIN job.includeFiles)
             > limits.workspaceEntries),
         ~(Size(job.files) + Size(job.includeFiles) > limits.workspaceBytes)
  PROVE  CompileFaults(job, limits, supplied) \cap SizeFaults = {}
<1> DEFINE mounts == <<job.files, job.includeFiles>>
           named == ToSet(job.importPaths) \cup {job.sourcePrefix}
           paths == (named \ {EmptyPath}) \cup ToSet(job.entrypoints)
                      \cup DOMAIN job.files \cup DOMAIN job.includeFiles
           fault ==
             [generators |-> GeneratorFault(job.generators, supplied),
              importCount |-> Len(job.importPaths) > limits.workspaceEntries,
              entrypointCount |-> Len(job.entrypoints) > limits.workspaceEntries,
              pathBytes |-> \E p \in paths : PathFault(p, limits),
              pathForm |-> \E p \in paths : ~Canonical(p),
              duplicates |-> Repeats(job.importPaths) \/ Repeats(job.entrypoints),
              noEntrypoint |-> job.entrypoints = <<>>,
              entries |-> CountNodes(DOMAIN job.files)
                            + CountNodes(DOMAIN job.includeFiles) > limits.workspaceEntries,
              bytes |-> Size(job.files) + Size(job.includeFiles)
                          > limits.workspaceBytes,
              collision |-> \E i \in DOMAIN mounts : Collides(mounts[i]),
              missing |-> ~(ToSet(job.entrypoints) \subseteq DOMAIN job.files),
              notDirectory |-> ~(named \ {EmptyPath} \subseteq Directories(job.files))]
<1>1. CompileFaults(job, limits, supplied) = {f \in DOMAIN fault : fault[f]}
  BY DEF CompileFaults
<1>2. ~fault["importCount"] /\ ~fault["entrypointCount"] OBVIOUS
<1>3. ~fault["entries"] /\ ~fault["bytes"] OBVIOUS
<1>4. ~fault["pathBytes"]
  <2>1. \A p \in paths : ~PathFault(p, limits) BY DEF EmptyPath
  <2>2. fault["pathBytes"] <=> \E p \in paths : PathFault(p, limits)
    <3> HIDE DEF paths
    <3> QED OBVIOUS
  <2> QED BY <2>1, <2>2
<1> HIDE DEF fault
<1> QED BY <1>1, <1>2, <1>3, <1>4 DEF SizeFaults

\* A sequence of a set's elements has as many.
LEMMA SequenceOf ==
  ASSUME NEW E, IsFiniteSet(E)
  PROVE  ToSet(SetToSeq(E)) \subseteq E /\ Len(SetToSeq(E)) = Cardinality(E)
<1> DEFINE n == Cardinality(E)
           Is(f) == f \in [1..n -> E] /\ IsInjective(f)
           s == CHOOSE f \in [1..n -> E] : IsInjective(f)
<1>1. n \in Nat /\ ExistsBijection(1..n, E) BY FS_CardinalityType
<1>2. PICK f \in Bijection(1..n, E) : TRUE BY <1>1 DEF ExistsBijection
<1>3. f \in [1..n -> E] /\ IsInjective(f)
  BY <1>2 DEF Bijection, Injection, IsInjective, IsInjective
<1>4. SetToSeq(E) = s BY DEF SetToSeq
<1>5. s \in [1..n -> E] BY <1>3
<1> HIDE DEF s, n
<1>6. Len(s) = n
  <2>1. s \in Seq(E) BY <1>1, <1>5
  <2> QED BY <1>1, <1>5, <2>1
<1>7. ToSet(s) \subseteq E BY <1>5 DEF ToSet
<1> QED BY <1>4, <1>6, <1>7 DEF n

\* There is a node for each file.
LEMMA FilesAreNodes ==
  ASSUME NEW S, NEW P \in SUBSET Seq(S), IsFiniteSet(P), <<>> \notin P
  PROVE  P \subseteq Nodes(P) /\ Cardinality(P) <= CountNodes(P)
<1>1. ASSUME NEW p \in P PROVE p \in Nodes(P)
  <2>1. Len(p) \in Nat /\ Len(p) # 0 BY EmptySeq, LenProperties
  <2>2. p \in Nodes(P) <=>
          /\ p \in Seq(S) /\ 0 < Len(p)
          /\ \E q \in P : Len(p) <= Len(q) /\ \A i \in 1..Len(p) : p[i] = q[i]
    BY NodesAre
  <2> QED BY <2>1, <2>2
<1>2. IsFiniteSet(Nodes(P)) BY NodesFinite
<1> QED BY <1>1, <1>2, FS_Subset DEF CountNodes

\* The two lengths of a path are numbers.
LEMMA UnitsInt ==
  ASSUME NEW p, IsPath(p)
  PROVE  Units(p) \in Int /\ Utf8(p) \in Int
<1> DEFINE w == Weight([i \in DOMAIN p |-> p[i].units], DOMAIN p)
           b == Weight([i \in DOMAIN p |-> p[i].bytes], DOMAIN p)
<1>1. /\ Len(p) \in Nat /\ w \in Nat /\ Units(p) = Len(p) - 1 + w
      /\ b \in Nat /\ Utf8(p) = Len(p) - 1 + b
  BY LengthIs
<1> HIDE DEF w, b
<1> QED BY <1>1

\* A workspace the studio takes has the size the SDK takes.
LEMMA SizesAgree ==
  ASSUME NEW files, IsWorkspace(files), NEW pathBytes \in Nat,
         Studio.bytes \in Nat, Studio.nodes \in Nat, Studio.pathLength \in Nat,
         3 * Studio.pathLength <= pathBytes, IsWorkspace(Standard),
         \A p \in DOMAIN Standard : ~(Utf8(p) > pathBytes)
  PROVE  SizeAgreed(files, pathBytes)
<1> SUFFICES ASSUME ValidFiles(files), NEW E \in SUBSET DOMAIN files
    PROVE  CompileFaults(CompileWorkspace(files, E), Budget(pathBytes), {})
             \cap SizeFaults = {}
  BY DEF SizeAgreed
<1> DEFINE O == Own(files)
           T == Tails(O)
           job == CompileWorkspace(files, E)
           limits == Budget(pathBytes)
           P == DOMAIN files \cup DOMAIN Standard
           S == NamesIn(P) \cup {IncludeName}
<1>1. IncludeName \in S /\ DOMAIN files \in SUBSET Seq(S) /\ DOMAIN Standard \in SUBSET Seq(S)
  <2>1. \A p \in P : IsPath(p) BY WorkspaceIs
  <2> DEFINE N == NamesIn(P)
             M == N \cup {IncludeName}
  <2>2. \A p \in P : p \in Seq(N)
    <3> HIDE DEF P
    <3> QED BY <2>1, PathsNamed
  <2>3. N \subseteq M OBVIOUS
  <2> HIDE DEF N, P
  <2>4. \A p \in P : p \in Seq(M) BY <2>2, <2>3, SeqMonotonic
  <2> QED BY <2>4 DEF P, N
<1> HIDE DEF S
<1>2. IsFiniteSet(DOMAIN files) /\ IsFiniteSet(DOMAIN Standard)
      /\ Size(files) \in Nat /\ Size(Standard) \in Nat
  BY WorkspaceIs
<1>3. /\ \A p \in DOMAIN files : CheckPath(p)
      /\ Size(files) <= Studio.bytes /\ CountNodes(DOMAIN files) <= Studio.nodes
  BY DEF ValidFiles
<1>4. /\ job.importPaths = <<>> /\ job.sourcePrefix = <<>>
      /\ job.entrypoints = SetToSeq(E)
      /\ DOMAIN job.files = DOMAIN files \ O /\ \A p \in DOMAIN job.files : job.files[p] = files[p]
      /\ DOMAIN job.includeFiles = T \cup DOMAIN Standard
      /\ \A p \in DOMAIN job.includeFiles :
           job.includeFiles[p] = IF <<IncludeName>> \o p \in O
                                 THEN files[<<IncludeName>> \o p] ELSE Standard[p]
  BY DEF CompileWorkspace, Restrict, Own, Tails, EmptyPath
<1>5. /\ limits.workspaceBytes = Studio.bytes + Size(Standard)
      /\ limits.workspaceEntries = Studio.nodes + CountNodes(DOMAIN Standard)
      /\ limits.pathBytes = pathBytes
  BY DEF Budget
<1> HIDE DEF job, limits
<1>6. /\ CountNodes(DOMAIN files) \in Nat /\ CountNodes(DOMAIN Standard) \in Nat
  BY <1>1, <1>2, NodesFinite
<1>7. limits.workspaceEntries \in Nat /\ Studio.nodes <= limits.workspaceEntries
  BY <1>5, <1>6
<1>8. ~(Len(job.importPaths) > limits.workspaceEntries)
  <2>1. Len(<<>>) = 0 OBVIOUS
  <2> QED BY <1>4, <1>7, <2>1
<1>9. \A p \in DOMAIN files : p # <<>> /\ Units(p) <= Studio.pathLength
  BY <1>3 DEF CheckPath, Canonical, EmptyPath
<1>10. IsFiniteSet(E) /\ Cardinality(E) <= Cardinality(DOMAIN files)
       /\ Cardinality(E) \in Nat /\ Cardinality(DOMAIN files) \in Nat
  BY <1>2, FS_Subset, FS_CardinalityType
<1>11. ~(Len(job.entrypoints) > limits.workspaceEntries)
  <2>1. Len(job.entrypoints) = Cardinality(E) BY <1>4, <1>10, SequenceOf
  <2>2. Cardinality(DOMAIN files) <= CountNodes(DOMAIN files)
    BY <1>1, <1>2, <1>9, FilesAreNodes
  <2> QED BY <1>3, <1>6, <1>7, <1>10, <2>1, <2>2
<1>12. ASSUME NEW p \in DOMAIN files PROVE ~PathFault(p, limits)
  <2>1. IsPath(p) BY WorkspaceIs
  <2>2. Utf8(p) \in Nat /\ Utf8(p) <= 3 * Studio.pathLength
    BY <1>9, <2>1, BytesOfUnits
  <2> QED BY <1>5, <2>2 DEF PathFault
<1>13. ASSUME NEW p \in T PROVE ~PathFault(p, limits)
  <2>1. PICK q \in O : p = Tail(q) BY DEF Tails
  <2>2. q \in DOMAIN files /\ Len(q) > 1 BY DEF Own
  <2>3. IsPath(q) BY <2>2, WorkspaceIs
  <2>4. IsPath(p) /\ p # <<>> /\ Units(p) <= Units(q)
    BY <2>1, <2>2, <2>3, TailShorter
  <2>5. Units(p) <= Studio.pathLength
    <3>1. Units(p) \in Int BY <2>4, UnitsInt
    <3>2. Units(q) \in Int BY <2>3, UnitsInt
    <3> QED BY <1>9, <2>2, <2>4, <3>1, <3>2
  <2>6. Utf8(p) \in Nat /\ Utf8(p) <= 3 * Studio.pathLength
    BY <2>4, <2>5, BytesOfUnits
  <2> QED BY <1>5, <2>6 DEF PathFault
<1>14. ASSUME NEW p \in DOMAIN Standard PROVE ~PathFault(p, limits)
  BY <1>5 DEF PathFault
<1>15. \A p \in ((ToSet(job.importPaths) \cup {job.sourcePrefix}) \ {<<>>})
                  \cup ToSet(job.entrypoints) \cup DOMAIN job.files
                  \cup DOMAIN job.includeFiles : ~PathFault(p, limits)
  <2>1. ToSet(job.entrypoints) \subseteq DOMAIN files BY <1>4, <1>10, SequenceOf
  <2>2. ToSet(job.importPaths) = {}
    <3>1. DOMAIN <<>> = {} OBVIOUS
    <3> QED BY <1>4, <3>1 DEF ToSet
  <2> HIDE DEF T
  <2> QED BY <1>4, <1>12, <1>13, <1>14, <2>1, <2>2
<1>16. ~(CountNodes(DOMAIN job.files) + CountNodes(DOMAIN job.includeFiles)
           > limits.workspaceEntries)
  <2>1. CountNodes(DOMAIN files \ O) + CountNodes(T \cup DOMAIN Standard)
          <= CountNodes(DOMAIN files) + CountNodes(DOMAIN Standard)
    BY <1>1, <1>2, NodesFit
  <2>2. CountNodes(DOMAIN files \ O) \in Nat
    <3>1. DOMAIN files \ O \in SUBSET Seq(S) /\ IsFiniteSet(DOMAIN files \ O)
      BY <1>1, <1>2, FS_Subset
    <3> QED BY <3>1, NodesFinite
  <2>3. CountNodes(T \cup DOMAIN Standard) \in Nat
    <3>1. T \in SUBSET Seq(S) /\ IsFiniteSet(T) BY <1>1, <1>2, OwnAre
    <3> HIDE DEF T
    <3>2. T \cup DOMAIN Standard \in SUBSET Seq(S) /\ IsFiniteSet(T \cup DOMAIN Standard)
      BY <1>1, <1>2, <3>1, FS_Union
    <3> QED BY <3>2, NodesFinite
  <2> HIDE DEF T, O
  <2> QED BY <1>3, <1>4, <1>5, <1>6, <2>1, <2>2, <2>3
<1>17. ~(Size(job.files) + Size(job.includeFiles) > limits.workspaceBytes)
  <2> DEFINE f == job.files
             g == job.includeFiles
  <2>0. /\ DOMAIN f = DOMAIN files \ O /\ \A p \in DOMAIN f : f[p] = files[p]
        /\ DOMAIN g = T \cup DOMAIN Standard
        /\ \A p \in DOMAIN g : g[p] = IF <<IncludeName>> \o p \in O
                                      THEN files[<<IncludeName>> \o p] ELSE Standard[p]
    BY <1>4
  <2> HIDE DEF f, g
  <2>1. /\ Size(f) \in Nat /\ Size(g) \in Nat
        /\ Size(f) + Size(g) <= Size(files) + Size(Standard)
    BY <1>1, <2>0, SizesFit
  <2> QED BY <1>2, <1>3, <1>5, <2>1 DEF f, g
<1>18. CompileFaults(job, limits, {}) \cap SizeFaults = {}
  BY <1>8, <1>11, <1>15, <1>16, <1>17, SizeFaultsAre
<1> QED BY <1>18 DEF job, limits

------------------------------------------------------------------------------
(* The studio's imports.                                                    *)

Maps(P) == UNION {[S -> Nat] : S \in {T \in SUBSET P : IsFiniteSet(T)}}
ImportStates(P) ==
  {s \in [ok : BOOLEAN, entries : Int, bytes : Int, files : Maps(P), inflated : Nat] :
     s.bytes + s.inflated <= Studio.bytes /\ s.inflated <= Studio.bytes}

\* The states of an import hold a finite map of sizes.
LEMMA MapsAre ==
  ASSUME NEW P, NEW f
  PROVE  f \in Maps(P) <=>
           /\ DOMAIN f \in SUBSET P /\ IsFiniteSet(DOMAIN f)
           /\ f = [p \in DOMAIN f |-> f[p]] /\ \A p \in DOMAIN f : f[p] \in Nat
BY DEF Maps

\* A stopped import.
LEMMA HaltIn ==
  ASSUME NEW P, NEW s \in ImportStates(P)
  PROVE  /\ Halt(s) \in ImportStates(P) /\ ~Halt(s).ok
         /\ Halt(s).files = s.files
BY DEF Halt, ImportStates

\* A file added is new and is charged.
LEMMA AddIn ==
  ASSUME NEW P, NEW s \in ImportStates(P), NEW p \in P, NEW size \in Nat
  PROVE  /\ Add(s, p, size) \in ImportStates(P)
         /\ Add(s, p, size).ok =>
              /\ s.ok /\ p \notin DOMAIN s.files
              /\ DOMAIN Add(s, p, size).files = DOMAIN s.files \cup {p}
              /\ Add(s, p, size).files[p] = size
              /\ \A q \in DOMAIN s.files : Add(s, p, size).files[q] = s.files[q]
<1>1. CASE ~s.ok \/ p \in DOMAIN s.files BY <1>1, HaltIn DEF Add
<1>2. CASE ~(~s.ok \/ p \in DOMAIN s.files)
  <2> DEFINE f == [q \in DOMAIN s.files \cup {p} |-> IF q = p THEN size ELSE s.files[q]]
  <2>1. Add(s, p, size) = [s EXCEPT !.files = f] BY <1>2 DEF Add
  <2>2. s.files \in Maps(P) BY DEF ImportStates
  <2>3. /\ DOMAIN s.files \in SUBSET P /\ IsFiniteSet(DOMAIN s.files)
        /\ \A q \in DOMAIN s.files : s.files[q] \in Nat
    BY <2>2, MapsAre
  <2>4. /\ DOMAIN f = DOMAIN s.files \cup {p} /\ f[p] = size
        /\ \A q \in DOMAIN s.files : q # p => f[q] = s.files[q]
    OBVIOUS
  <2>5. IsFiniteSet(DOMAIN f) BY <2>3, <2>4, FS_AddElement
  <2>6. \A q \in DOMAIN f : f[q] \in Nat BY <2>3
  <2>7. f = [q \in DOMAIN f |-> f[q]] OBVIOUS
  <2> HIDE DEF f
  <2>8. f \in Maps(P) BY <2>3, <2>4, <2>5, <2>6, <2>7, MapsAre
  <2>9. [s EXCEPT !.files = f] \in ImportStates(P) /\ [s EXCEPT !.files = f].files = f
    BY <2>8 DEF ImportStates
  <2> QED BY <1>2, <2>1, <2>4, <2>9
<1> QED BY <1>1, <1>2

\* An entry is charged before it is inflated.
LEMMA InflateIn ==
  ASSUME NEW P, NEW s \in ImportStates(P), NEW e, e.size \in Nat, e.readable \in BOOLEAN
  PROVE  /\ Inflate(s, e) \in ImportStates(P) /\ Inflate(s, e).files = s.files
         /\ Inflate(s, e).ok => s.ok
<1>1. CASE ~s.ok \/ e.dir \/ IsHidden(e.path) BY <1>1 DEF Inflate
<1>2. CASE ~(~s.ok \/ e.dir \/ IsHidden(e.path)) /\ (s.entries <= 0 \/ e.size > s.bytes)
  BY <1>2, HaltIn DEF Inflate
<1>3. CASE ~(~s.ok \/ e.dir \/ IsHidden(e.path)) /\ ~(s.entries <= 0 \/ e.size > s.bytes)
  <2> DEFINE t == [s EXCEPT !.ok = e.readable, !.entries = @ - 1, !.bytes = @ - e.size,
                            !.inflated = @ + e.size]
  <2>1. Inflate(s, e) = t BY <1>3 DEF Inflate
  <2>2. /\ s \in [ok : BOOLEAN, entries : Int, bytes : Int, files : Maps(P), inflated : Nat]
        /\ s.bytes + s.inflated <= Studio.bytes
    BY DEF ImportStates
  <2>3. /\ t \in [ok : BOOLEAN, entries : Int, bytes : Int, files : Maps(P), inflated : Nat]
        /\ t.bytes = s.bytes - e.size /\ t.inflated = s.inflated + e.size
        /\ t.files = s.files
    <3> DEFINE n == s.entries - 1
               b == s.bytes - e.size
               i == s.inflated + e.size
    <3>1. n \in Int /\ b \in Int /\ i \in Nat BY <2>2
    <3>2. t = [s EXCEPT !.ok = e.readable, !.entries = n, !.bytes = b, !.inflated = i] OBVIOUS
    <3> HIDE DEF n, b, i, t
    <3>3. /\ t \in [ok : BOOLEAN, entries : Int, bytes : Int, files : Maps(P), inflated : Nat]
          /\ t.bytes = b /\ t.inflated = i /\ t.files = s.files
      BY <2>2, <3>1, <3>2
    <3> QED BY <3>3 DEF b, i
  <2> HIDE DEF t
  <2>4. s.bytes \in Int /\ s.inflated \in Nat BY <2>2
  <2>5. t.bytes + t.inflated = s.bytes + s.inflated BY <2>3, <2>4
  <2>6. e.size <= s.bytes BY <1>3, <2>4
  <2>7. s.inflated + e.size <= s.bytes + s.inflated BY <2>4, <2>6
  <2>8. t.inflated <= t.bytes + t.inflated BY <2>3, <2>5, <2>7
  <2>9. t \in ImportStates(P)
    <3>1. t.bytes + t.inflated <= Studio.bytes BY <2>2, <2>5
    <3>2. t.inflated <= Studio.bytes
      <4>1. t.inflated \in Int /\ t.bytes \in Int /\ Studio.bytes \in Int
        BY <2>3, WorkspaceAssumption
      <4> QED BY <2>8, <3>1, <4>1
    <3> QED BY <2>3, <3>1, <3>2 DEF ImportStates
  <2> QED BY <1>3, <2>1, <2>3, <2>9
<1> QED BY <1>1, <1>2, <1>3

\* A finite set of integers has a greatest.
LEMMA MaxIs ==
  ASSUME NEW S \in SUBSET Int, IsFiniteSet(S), S # {}
  PROVE  Max(S) \in S /\ \A y \in S : Max(S) >= y
<1> DEFINE Q == {s \in SUBSET S : s # {} => \E x \in s : \A y \in s : x >= y}
<1>1. ASSUME NEW s \in SUBSET S, \A x \in s : s \ {x} \in Q PROVE s \in Q
  <2> SUFFICES ASSUME s # {} PROVE \E x \in s : \A y \in s : x >= y OBVIOUS
  <2>1. PICK z \in s : TRUE OBVIOUS
  <2>2. s \ {z} \in Q BY <1>1
  <2>3. CASE s \ {z} = {} BY <2>3
  <2>4. CASE s \ {z} # {}
    <3>1. PICK x \in s \ {z} : \A y \in s \ {z} : x >= y BY <2>2, <2>4
    <3>2. CASE x >= z BY <3>1, <3>2
    <3>3. CASE ~(x >= z)
      <4>1. \A y \in s : z >= y BY <3>1, <3>3
      <4> QED BY <4>1
    <3> QED BY <3>2, <3>3
  <2> QED BY <2>3, <2>4
<1>2. Q \in SUBSET SUBSET S OBVIOUS
<1> HIDE DEF Q
<1>3. Q = SUBSET S BY <1>1, <1>2, SubsetInduction
<1>4. S \in Q BY <1>3
<1>5. \E x \in S : \A y \in S : x >= y BY <1>4 DEF Q
<1> QED BY <1>5 DEF Max

\* A fold over a sequence takes the last index last.
Highest(S) == [s \in SUBSET S |-> Max(s)]

LEMMA HighestChooses ==
  ASSUME NEW n \in Nat
  PROVE  Chooses(Highest(1..n), 1..n) /\ IsFiniteSet(1..n)
<1>1. IsFiniteSet(1..n) BY FS_Interval
<1>2. ASSUME NEW s \in SUBSET (1..n), s # {} PROVE Max(s) \in s /\ \A y \in s : Max(s) >= y
  <2>1. IsFiniteSet(s) BY <1>1, FS_Subset
  <2> QED BY <1>2, <2>1, MaxIs
<1> QED BY <1>1, <1>2 DEF Highest, Chooses

\* A sequence has a length, and its indices begin at one.
LEMMA SeqIs ==
  ASSUME NEW s, IsSeq(s)
  PROVE  Len(s) \in Nat /\ DOMAIN s = 1..Len(s)
<1> DEFINE R == {s[i] : i \in DOMAIN s}
<1>1. s \in Seq(R) BY DEF IsSeq
<1> HIDE DEF R
<1> QED BY <1>1, LenProperties

\* An archive's entries are charged.
LEMMA InflatedIn ==
  ASSUME NEW P, NEW s \in ImportStates(P), NEW zip, IsZip(zip)
  PROVE  /\ Inflated(s, zip) \in ImportStates(P) /\ Inflated(s, zip).files = s.files
         /\ Inflated(s, zip).ok => s.ok
<1> DEFINE D == DOMAIN zip
           C == Highest(D)
           A == {t \in ImportStates(P) : t.files = s.files /\ (t.ok => s.ok)}
           G == [i \in D |-> [t \in A |-> Inflate(t, zip[i])]]
           Def(g) == [x \in SUBSET D |->
                         IF x = {} THEN s
                         ELSE LET i == Max(x) IN Inflate(g[x \ {i}], zip[i])]
           w == CHOOSE g : g = Def(g)
<1>1. Inflated(s, zip) = w[D]
  BY DEF Inflated, FoldLeft, MapThenFoldSet
<1>2. Len(zip) \in Nat /\ D = 1..Len(zip) BY SeqIs DEF IsZip
<1>3. Chooses(C, D) /\ IsFiniteSet(D)
  <2> HIDE DEF D
  <2> QED BY <1>2, HighestChooses
<1>4. \A x \in SUBSET D : C[x] = Max(x) BY DEF Highest
<1>5. \A i \in D : zip[i].size \in Nat /\ zip[i].readable \in BOOLEAN BY DEF IsZip
<1> HIDE DEF C, D
<1>6. G \in [D -> [A -> A]]
  <2>1. ASSUME NEW i \in D, NEW t \in A PROVE Inflate(t, zip[i]) \in A
    BY <1>5, InflateIn
  <2> HIDE DEF A
  <2> QED BY <2>1
<1>7. s \in A OBVIOUS
<1>8. \A i \in D, t \in A : G[i][t] = Inflate(t, zip[i]) OBVIOUS
<1> HIDE DEF A, G
<1>9. PICK f \in Folding(A, s, G, C, D) : TRUE BY <1>3, <1>6, <1>7, Folds
<1>10. f \in [SUBSET D -> A] /\ f[{}] = s
       /\ \A x \in SUBSET D : x # {} => f[x] = G[C[x]][f[x \ {C[x]}]]
  BY <1>9 DEF Folding
<1>11. ASSUME NEW x \in SUBSET D, x # {} PROVE f[x] = Inflate(f[x \ {C[x]}], zip[C[x]])
  <2>1. C[x] \in D /\ f[x \ {C[x]}] \in A BY <1>3, <1>10, <1>11 DEF Chooses
  <2> QED BY <1>8, <1>10, <1>11, <2>1
<1>12. f = Def(f)
  <2>1. ASSUME NEW x \in SUBSET D PROVE f[x] = Def(f)[x] BY <1>4, <1>10, <1>11
  <2>2. f = [x \in SUBSET D |-> f[x]] BY <1>10
  <2>3. Def(f) = [x \in SUBSET D |-> Def(f)[x]] OBVIOUS
  <2> HIDE DEF Def
  <2> QED BY <2>1, <2>2, <2>3
<1>13. w = Def(w) BY <1>12
<1> HIDE DEF w
<1>14. w[{}] = s
  <2>1. {} \in SUBSET D OBVIOUS
  <2> QED BY <1>13, <2>1
<1>15. ASSUME NEW x \in SUBSET D, x # {} PROVE w[x] = Inflate(w[x \ {C[x]}], zip[C[x]])
  <2>1. w[x] = Def(w)[x] BY <1>13
  <2> QED BY <1>4, <1>15, <2>1
<1>16. SameStep(f, w, C, D)
  <2>1. f[{}] = w[{}] BY <1>10, <1>14
  <2>2. ASSUME NEW x \in SUBSET D, x # {}, f[x \ {C[x]}] = w[x \ {C[x]}] PROVE f[x] = w[x]
    BY <1>11, <1>15, <2>2
  <2> QED BY <2>1, <2>2 DEF SameStep
<1>17. w[D] \in A
  <2>1. D \in SUBSET D OBVIOUS
  <2>2. f[D] = w[D] BY <1>3, <1>16, <2>1, SameFold
  <2> QED BY <1>10, <2>1, <2>2
<1> QED BY <1>1, <1>17 DEF A

\* What an import gains: new files only, once, and as they are.
Gains(s, t, D, g) ==
  t.ok => /\ s.ok /\ DOMAIN s.files \cap D = {}
          /\ DOMAIN t.files = DOMAIN s.files \cup D
          /\ \A p \in D : t.files[p] = g[p]
          /\ \A p \in DOMAIN s.files : t.files[p] = s.files[p]

\* Adding the files of an archive adds each of them.
LEMMA AddAllIn ==
  ASSUME NEW P, NEW s \in ImportStates(P), NEW files, DOMAIN files \in SUBSET P,
         IsFiniteSet(DOMAIN files), \A p \in DOMAIN files : files[p] \in Nat
  PROVE  /\ AddAll(s, files) \in ImportStates(P)
         /\ Gains(s, AddAll(s, files), DOMAIN files, files)
<1> DEFINE D == DOMAIN files
           C == AnyOf(D)
           A == ImportStates(P)
           G == [p \in D |-> [t \in A |-> Add(t, p, files[p])]]
           Def(g) == [x \in SUBSET D |->
                         IF x = {} THEN s
                         ELSE LET p == CHOOSE p \in x : TRUE IN Add(g[x \ {p}], p, files[p])]
           w == CHOOSE g : g = Def(g)
<1>1. AddAll(s, files) = w[D]
  BY DEF AddAll, FoldSet, MapThenFoldSet
<1>2. IsFiniteSet(D) /\ D \in SUBSET P /\ \A p \in D : files[p] \in Nat OBVIOUS
<1>3. Chooses(C, D) BY AnyChooses
<1>4. \A x \in SUBSET D : C[x] = CHOOSE p \in x : TRUE BY DEF AnyOf
<1> HIDE DEF C, D, A
<1>5. \A p \in D, t \in A :
        /\ Add(t, p, files[p]) \in A
        /\ Gains(t, Add(t, p, files[p]), {p}, files)
  <2>1. ASSUME NEW p \in D, NEW t \in A
        PROVE  /\ Add(t, p, files[p]) \in A
               /\ Gains(t, Add(t, p, files[p]), {p}, files)
    <3>1. p \in P /\ files[p] \in Nat BY <1>2
    <3> DEFINE r == Add(t, p, files[p])
    <3>2. r \in A /\ (r.ok => /\ t.ok /\ p \notin DOMAIN t.files
                              /\ DOMAIN r.files = DOMAIN t.files \cup {p}
                              /\ r.files[p] = files[p]
                              /\ \A q \in DOMAIN t.files : r.files[q] = t.files[q])
      BY <3>1, AddIn DEF A
    <3> HIDE DEF r
    <3>3. Gains(t, r, {p}, files) BY <3>2 DEF Gains
    <3> QED BY <3>2, <3>3 DEF r
  <2> QED BY <2>1
<1>6. G \in [D -> [A -> A]] BY <1>5
<1>7. s \in A BY DEF A
<1>8. \A p \in D, t \in A : G[p][t] = Add(t, p, files[p]) OBVIOUS
<1> HIDE DEF G
<1>9. PICK f \in Folding(A, s, G, C, D) : TRUE BY <1>2, <1>3, <1>6, <1>7, Folds
<1>10. f \in [SUBSET D -> A] /\ f[{}] = s
       /\ \A x \in SUBSET D : x # {} => f[x] = G[C[x]][f[x \ {C[x]}]]
  BY <1>9 DEF Folding
<1>11. ASSUME NEW x \in SUBSET D, x # {}
       PROVE  f[x] = Add(f[x \ {C[x]}], C[x], files[C[x]])
  <2>1. C[x] \in D /\ f[x \ {C[x]}] \in A BY <1>3, <1>10, <1>11 DEF Chooses
  <2> QED BY <1>8, <1>10, <1>11, <2>1
<1>12. f = Def(f)
  <2>1. ASSUME NEW x \in SUBSET D PROVE f[x] = Def(f)[x] BY <1>4, <1>10, <1>11
  <2>2. f = [x \in SUBSET D |-> f[x]] BY <1>10
  <2>3. Def(f) = [x \in SUBSET D |-> Def(f)[x]] OBVIOUS
  <2> HIDE DEF Def
  <2> QED BY <2>1, <2>2, <2>3
<1>13. w = Def(w) BY <1>12
<1> HIDE DEF w
<1>14. w[{}] = s
  <2>1. {} \in SUBSET D OBVIOUS
  <2> QED BY <1>13, <2>1
<1>15. ASSUME NEW x \in SUBSET D, x # {}
       PROVE  w[x] = Add(w[x \ {C[x]}], C[x], files[C[x]])
  <2>1. w[x] = Def(w)[x] BY <1>13
  <2> QED BY <1>4, <1>15, <2>1
<1>16. SameStep(f, w, C, D)
  <2>1. f[{}] = w[{}] BY <1>10, <1>14
  <2>2. ASSUME NEW x \in SUBSET D, x # {}, f[x \ {C[x]}] = w[x \ {C[x]}] PROVE f[x] = w[x]
    BY <1>11, <1>15, <2>2
  <2> QED BY <2>1, <2>2 DEF SameStep
<1> DEFINE Q == {x \in SUBSET D : Gains(s, f[x], x, files)}
<1>17. ASSUME NEW x \in SUBSET D, \A p \in x : x \ {p} \in Q PROVE x \in Q
  <2>1. CASE x = {} BY <1>10, <2>1 DEF Gains
  <2>2. CASE x # {}
    <3> DEFINE p == C[x]
               t == f[x \ {p}]
    <3>1. p \in x /\ p \in D BY <1>3, <2>2 DEF Chooses
    <3>2. Gains(s, t, x \ {p}, files) BY <1>17, <3>1
    <3>3. t \in A BY <1>10
    <3>4. f[x] = Add(t, p, files[p]) BY <1>11, <2>2
    <3> HIDE DEF p, t
    <3>5. Gains(t, f[x], {p}, files) BY <1>5, <3>1, <3>3, <3>4
    <3>6. Gains(s, f[x], x, files) BY <3>1, <3>2, <3>5 DEF Gains
    <3> QED BY <3>6
  <2> QED BY <2>1, <2>2
<1>18. Q \in SUBSET SUBSET D OBVIOUS
<1> HIDE DEF Q
<1>19. Q = SUBSET D BY <1>2, <1>17, <1>18, SubsetInduction
<1>20. D \in SUBSET D OBVIOUS
<1>21. Gains(s, f[D], D, files) BY <1>19, <1>20 DEF Q
<1>22. f[D] = w[D] BY <1>2, <1>3, <1>16, <1>20, SameFold
<1>23. f[D] \in A BY <1>10, <1>20
<1> QED BY <1>1, <1>21, <1>22, <1>23 DEF A, D

\* Paths are the same that begin and go on alike.
LEMMA SameTail ==
  ASSUME NEW p, IsSeq(p), NEW q, IsSeq(q), Len(p) > 1, Len(q) > 1, p[1] = q[1], Tail(p) = Tail(q)
  PROVE  p = q
<1> DEFINE R == {p[i] : i \in DOMAIN p}
           S == {q[i] : i \in DOMAIN q}
<1>1. p \in Seq(R) /\ q \in Seq(S) /\ p # <<>> /\ q # <<>> BY DEF IsSeq
<1> HIDE DEF R, S
<1>2. /\ Len(p) = Len(q) /\ Len(p) \in Nat
      /\ \A i \in 1..(Len(p) - 1) : p[i + 1] = Tail(p)[i] /\ q[i + 1] = Tail(q)[i]
  BY <1>1
<1>3. ASSUME NEW i \in 1..Len(p) PROVE p[i] = q[i]
  <2>1. CASE i = 1 BY <2>1
  <2>2. CASE i # 1
    <3>1. i - 1 \in 1..(Len(p) - 1) /\ (i - 1) + 1 = i BY <1>2, <2>2
    <3> QED BY <1>2, <3>1
  <2> QED BY <2>1, <2>2
<1>4. p = [i \in 1..Len(p) |-> p[i]] /\ q = [i \in 1..Len(q) |-> q[i]] BY <1>1
<1> QED BY <1>2, <1>3, <1>4

\* The files of an archive are finitely many and have sizes, one for each name; and
\* a workspace that has them holds the archive.
LEMMA ExpandedIs ==
  ASSUME NEW f, IsZip(f.zip), NEW directory, IsArchive(f, directory)
  PROVE  LET g == Expanded(f.zip) IN
         /\ IsFiniteSet(DOMAIN g) /\ \A q \in DOMAIN g : g[q] \in Nat
         /\ Cardinality(DOMAIN g) = Cardinality(EntryNames(f, directory))
         /\ \A files : (\A q \in DOMAIN g : q \in DOMAIN files /\ files[q] = g[q])
                        => Stocks(files, f, directory)
<1> DEFINE zip == f.zip
           K == Kept(zip)
           paths == {zip[i].path : i \in K}
           strip == /\ \A p, q \in paths : Len(p) > 1 /\ p[1] = q[1]
                    /\ \A p \in paths : p[1].text \notin Forbidden \ {""}
           Name(p) == IF strip THEN Tail(p) ELSE p
           Alike(q) == {i \in K : Name(zip[i].path) = q}
           names == {Name(p) : p \in paths}
           g == [q \in names |-> zip[Max(Alike(q))].data]
<1>1. Expanded(zip) = g BY DEF Expanded
<1>2. /\ IsFiniteSet(DOMAIN zip) /\ DOMAIN zip \in SUBSET Int
      /\ \A i \in DOMAIN zip : zip[i].data \in Nat /\ IsSeq(zip[i].path)
  <2>1. DOMAIN zip = 1..Len(zip) /\ Len(zip) \in Nat BY SeqIs DEF IsZip
  <2>2. IsFiniteSet(1..Len(zip)) BY <2>1, FS_Interval
  <2> QED BY <2>1, <2>2 DEF IsZip, IsPath
<1>3. K \in SUBSET DOMAIN zip /\ IsFiniteSet(K) BY <1>2, FS_Subset DEF Kept
<1>4. ASSUME NEW i \in K, NEW j \in K, Name(zip[i].path) = Name(zip[j].path)
      PROVE  zip[i].path = zip[j].path
  <2>1. CASE ~strip BY <1>4, <2>1
  <2>2. CASE strip
    <3> DEFINE p == zip[i].path
               q == zip[j].path
    <3>0. p \in paths /\ q \in paths OBVIOUS
    <3>1. Len(p) > 1 /\ Len(q) > 1 /\ p[1] = q[1] BY <2>2, <3>0
    <3>3. Tail(p) = Tail(q) BY <1>4, <2>2
    <3>2. IsSeq(p) /\ IsSeq(q) BY <1>2, <1>3
    <3> HIDE DEF p, q
    <3>4. p = q BY <3>1, <3>2, <3>3, SameTail
    <3> QED BY <3>4 DEF p, q
  <2> QED BY <2>1, <2>2
<1>a. EntryNames(f, directory) = paths BY DEF EntryNames
<1>b. ASSUME NEW files,
             \E cut \in BOOLEAN : \A i \in K :
               (\A j \in K : j > i => zip[j].path # zip[i].path) =>
                  LET p == IF cut THEN Tail(zip[i].path) ELSE zip[i].path
                  IN  p \in DOMAIN files /\ files[p] = zip[i].data
      PROVE  Stocks(files, f, directory)
  BY <1>b DEF Stocks
<1> HIDE DEF K, strip, zip
<1>5. IsFiniteSet(paths)
  <2> DEFINE m == [i \in K |-> zip[i].path]
  <2>1. DOMAIN m = K /\ {m[i] : i \in K} = paths OBVIOUS
  <2> HIDE DEF m, paths
  <2>2. IsFiniteSet({m[i] : i \in K}) BY <1>3, <2>1, ImageIs
  <2> QED BY <2>1, <2>2
<1>6. IsFiniteSet(names) /\ Cardinality(names) = Cardinality(paths)
  <2> DEFINE m == [p \in paths |-> Name(p)]
  <2>1. \A p, q \in paths : m[p] = m[q] => p = q BY <1>4
  <2>2. m \in [paths -> names] /\ \A q \in names : \E p \in paths : m[p] = q OBVIOUS
  <2> HIDE DEF m, paths, names
  <2>3. m \in Bijection(paths, names)
    BY <2>1, <2>2 DEF Bijection, Injection, Surjection, IsInjective
  <2> QED BY <1>5, <2>3, FS_Bijection DEF ExistsBijection
<1>7. ASSUME NEW q \in names
      PROVE  Max(Alike(q)) \in Alike(q) /\ \A i \in Alike(q) : Max(Alike(q)) >= i
  <2> DEFINE M == Alike(q)
  <2>1. M # {} /\ M \subseteq K OBVIOUS
  <2>2. M \in SUBSET Int /\ IsFiniteSet(M) BY <1>2, <1>3, <2>1, FS_Subset
  <2> HIDE DEF M
  <2>3. Max(M) \in M /\ \A i \in M : Max(M) >= i BY <2>1, <2>2, MaxIs
  <2> QED BY <2>3 DEF M
<1>8. \A q \in names : g[q] \in Nat
  <2> SUFFICES ASSUME NEW q \in names PROVE g[q] \in Nat OBVIOUS
  <2> DEFINE m == Max(Alike(q))
  <2>1. m \in K BY <1>7
  <2>2. g[q] = zip[m].data OBVIOUS
  <2> HIDE DEF m, g
  <2> QED BY <1>2, <1>3, <2>1, <2>2
<1>9. ASSUME NEW files, \A q \in names : q \in DOMAIN files /\ files[q] = g[q]
      PROVE  Stocks(files, f, directory)
  <2>1. ASSUME NEW i \in K, \A j \in K : j > i => zip[j].path # zip[i].path
        PROVE  Name(zip[i].path) \in DOMAIN files /\ files[Name(zip[i].path)] = zip[i].data
    <3> DEFINE q == Name(zip[i].path)
               m == Max(Alike(q))
    <3>1. q \in names /\ i \in Alike(q) OBVIOUS
    <3>2. m \in Alike(q) /\ m >= i BY <1>7, <3>1
    <3>3. m \in K /\ zip[m].path = zip[i].path BY <1>4, <3>2
    <3>4. m \in Int /\ i \in Int BY <1>2, <1>3, <3>3
    <3>5. g[q] = zip[m].data BY <3>1
    <3> HIDE DEF m, g, q, names
    <3>6. m = i BY <2>1, <3>2, <3>3, <3>4
    <3> QED BY <1>9, <3>1, <3>5, <3>6 DEF q
  <2>2. strip \in BOOLEAN BY DEF strip
  <2> QED BY <1>b, <2>1, <2>2
<1> HIDE DEF names, g
<1>10. DOMAIN g = names BY DEF g
<1> QED BY <1>1, <1>a, <1>6, <1>8, <1>9, <1>10 DEF zip

\* The files one picked file brings, if it is not hidden.
FilesOf(f, directory) ==
  IF IsArchive(f, directory) THEN Expanded(f.zip) ELSE [p \in {PickedPath(f, directory)} |-> f.size]
Brings(f, directory) ==
  IF IsHidden(PickedPath(f, directory)) THEN {} ELSE DOMAIN FilesOf(f, directory)

\* They are finitely many, and a workspace that has them holds the file.
LEMMA BringsFinite ==
  ASSUME NEW f, f.size \in Nat, IsZip(f.zip), NEW directory
  PROVE  LET g == FilesOf(f, directory) IN
         /\ IsFiniteSet(Brings(f, directory)) /\ IsFiniteSet(DOMAIN g)
         /\ \A q \in DOMAIN g : g[q] \in Nat
         /\ Cardinality(DOMAIN g) = Cardinality(EntryNames(f, directory))
         /\ \A files : (\A q \in DOMAIN g : q \in DOMAIN files /\ files[q] = g[q])
                        => Stocks(files, f, directory)
<1> DEFINE g == FilesOf(f, directory)
<1>1. CASE IsArchive(f, directory)
  <2>1. g = Expanded(f.zip) BY <1>1 DEF FilesOf
  <2> HIDE DEF g
  <2> QED BY <1>1, <2>1, ExpandedIs, FS_EmptySet DEF Brings, g
<1>2. CASE ~IsArchive(f, directory)
  <2> DEFINE p == PickedPath(f, directory)
  <2>1. DOMAIN g = {p} /\ g[p] = f.size BY <1>2 DEF FilesOf
  <2>2. EntryNames(f, directory) = {p} BY <1>2 DEF EntryNames
  <2>3. \A files : p \in DOMAIN files /\ files[p] = f.size => Stocks(files, f, directory)
    BY <1>2 DEF Stocks
  <2>4. IsFiniteSet({p}) /\ IsFiniteSet({}) BY FS_Singleton, FS_EmptySet
  <2> HIDE DEF g, p
  <2>5. IsFiniteSet(Brings(f, directory)) BY <2>1, <2>4 DEF Brings, g, p
  <2> QED BY <2>1, <2>2, <2>3, <2>4, <2>5 DEF g
<1> QED BY <1>1, <1>2

\* An archive taken adds its files.
LEMMA UnzipIn ==
  ASSUME NEW P, NEW s \in ImportStates(P), NEW zip, IsZip(zip),
         DOMAIN Expanded(zip) \in SUBSET P, IsFiniteSet(DOMAIN Expanded(zip)),
         \A p \in DOMAIN Expanded(zip) : Expanded(zip)[p] \in Nat
  PROVE  /\ Unzip(s, zip) \in ImportStates(P)
         /\ Gains(s, Unzip(s, zip), DOMAIN Expanded(zip), Expanded(zip))
<1> DEFINE c == Inflated(s, zip)
           files == Expanded(zip)
           bad == ~c.ok \/ \E p \in DOMAIN files : ~CheckPath(p)
<1>1. Unzip(s, zip) = IF bad THEN Halt(c) ELSE AddAll(c, files)
  BY DEF Unzip
<1>2. c \in ImportStates(P) /\ c.files = s.files /\ (c.ok => s.ok) BY InflatedIn
<1>3. IsFiniteSet(DOMAIN files) /\ DOMAIN files \in SUBSET P /\ \A p \in DOMAIN files : files[p] \in Nat
  OBVIOUS
<1> HIDE DEF c, files, bad
<1>4. CASE bad
  <2>1. Halt(c) \in ImportStates(P) /\ ~Halt(c).ok BY <1>2, HaltIn
  <2> QED BY <1>1, <1>4, <2>1 DEF Gains
<1>5. CASE ~bad
  <2>1. AddAll(c, files) \in ImportStates(P) /\ Gains(c, AddAll(c, files), DOMAIN files, files)
    BY <1>2, <1>3, AddAllIn
  <2>2. Gains(s, AddAll(c, files), DOMAIN files, files) BY <1>2, <2>1 DEF Gains
  <2> QED BY <1>1, <1>5, <2>1, <2>2 DEF files
<1> QED BY <1>4, <1>5

\* A picked file taken adds what it brings.
LEMMA TakeIn ==
  ASSUME NEW P, NEW s \in ImportStates(P), NEW f, f.size \in Nat, IsZip(f.zip), NEW directory,
         Brings(f, directory) \in SUBSET P
  PROVE  /\ Take(s, f, directory) \in ImportStates(P)
         /\ Gains(s, Take(s, f, directory), Brings(f, directory), FilesOf(f, directory))
<1> DEFINE p == PickedPath(f, directory)
           t == [s EXCEPT !.bytes = @ - f.size, !.entries = @ - 1]
<1>1. CASE ~s.ok \/ IsHidden(p)
  <2>1. Take(s, f, directory) = s BY <1>1 DEF Take
  <2>2. Gains(s, s, Brings(f, directory), FilesOf(f, directory)) BY <1>1 DEF Gains, Brings
  <2> QED BY <2>1, <2>2
<1>2. CASE ~(~s.ok \/ IsHidden(p)) /\ IsArchive(f, directory)
  <2>1. Take(s, f, directory) = Unzip(s, f.zip) BY <1>2 DEF Take
  <2>2. Brings(f, directory) = DOMAIN Expanded(f.zip) /\ FilesOf(f, directory) = Expanded(f.zip)
    BY <1>2 DEF Brings, FilesOf
  <2> QED BY <1>2, <2>1, <2>2, ExpandedIs, UnzipIn
<1>3. CASE ~(~s.ok \/ IsHidden(p)) /\ ~IsArchive(f, directory)
  <2>1. Take(s, f, directory) = Add(t, p, f.size) BY <1>3 DEF Take
  <2>2. Brings(f, directory) = {p} /\ FilesOf(f, directory)[p] = f.size
    BY <1>3 DEF Brings, FilesOf
  <2>3. t \in ImportStates(P) /\ t.files = s.files /\ t.ok = s.ok
    <3> DEFINE n == s.entries - 1
               b == s.bytes - f.size
    <3>1. /\ s \in [ok : BOOLEAN, entries : Int, bytes : Int, files : Maps(P), inflated : Nat]
          /\ s.bytes + s.inflated <= Studio.bytes /\ s.inflated <= Studio.bytes
      BY DEF ImportStates
    <3>2. n \in Int /\ b \in Int /\ b <= s.bytes BY <3>1
    <3>3. t = [s EXCEPT !.entries = n, !.bytes = b] BY <3>1
    <3> HIDE DEF n, b, t
    <3>4. /\ t \in [ok : BOOLEAN, entries : Int, bytes : Int, files : Maps(P), inflated : Nat]
          /\ t.bytes = b /\ t.inflated = s.inflated /\ t.files = s.files /\ t.ok = s.ok
      BY <3>1, <3>2, <3>3
    <3>5. b + s.inflated <= Studio.bytes
      <4>1. s.bytes \in Int /\ s.inflated \in Int /\ Studio.bytes \in Int
        BY <3>1, WorkspaceAssumption
      <4> QED BY <3>1, <3>2, <4>1
    <3> QED BY <3>1, <3>4, <3>5 DEF ImportStates
  <2> HIDE DEF t, p
  <2>4. p \in P BY <2>2
  <2> DEFINE r == Add(t, p, f.size)
  <2>5. r \in ImportStates(P) /\ (r.ok => /\ t.ok /\ p \notin DOMAIN t.files
                                          /\ DOMAIN r.files = DOMAIN t.files \cup {p}
                                          /\ r.files[p] = f.size
                                          /\ \A q \in DOMAIN t.files : r.files[q] = t.files[q])
    BY <2>3, <2>4, AddIn
  <2> HIDE DEF r
  <2>6. Gains(s, r, {p}, FilesOf(f, directory)) BY <2>2, <2>3, <2>5 DEF Gains
  <2> QED BY <2>1, <2>2, <2>5, <2>6 DEF r
<1> QED BY <1>1, <1>2, <1>3

\* What all the picked files bring.
Brought(picked, directory) == UNION {Brings(picked[i], directory) : i \in DOMAIN picked}
Counts(picked, directory) ==
  [i \in Visible(picked, directory) |->
     Cardinality(EntryNames(picked[i], directory))]

\* An import that goes through holds what each picked file brings, none over another.
LEMMA TakeAllIn ==
  ASSUME NEW picked, IsPicking(picked), NEW directory
  PROVE  /\ TakeAll(picked, directory) \in ImportStates(Brought(picked, directory))
         /\ TakeAll(picked, directory).ok =>
              /\ \A i \in Visible(picked, directory) :
                   Stocks(TakeAll(picked, directory).files, picked[i], directory)
              /\ Cardinality(DOMAIN TakeAll(picked, directory).files)
                   = Total(Counts(picked, directory))
<1> DEFINE D == DOMAIN picked
           C == Highest(D)
           P == Brought(picked, directory)
           A == ImportStates(P)
           b == Started
           T(t, i) == Take(t, picked[i], directory)
           G == [i \in D |-> [t \in A |-> T(t, i)]]
           Def(g) == [x \in SUBSET D |->
                         IF x = {} THEN b
                         ELSE LET i == Max(x)
                              IN  Take(g[x \ {i}], picked[i], directory)]
           w == CHOOSE g : g = Def(g)
           V == Visible(picked, directory)
           c == Counts(picked, directory)
           B(i) == Brings(picked[i], directory)
           F(i) == FilesOf(picked[i], directory)
<1>1. TakeAll(picked, directory) = w[D]
  BY DEF TakeAll, FoldLeft, MapThenFoldSet
<1>2. Len(picked) \in Nat /\ D = 1..Len(picked) BY SeqIs DEF IsPicking
<1>3. Chooses(C, D) /\ IsFiniteSet(D)
  <2> HIDE DEF D
  <2> QED BY <1>2, HighestChooses
<1>4. \A x \in SUBSET D : C[x] = Max(x) BY DEF Highest
<1>5. \A i \in D : picked[i].size \in Nat /\ IsZip(picked[i].zip) BY DEF IsPicking
<1>6. \A i \in D : B(i) \in SUBSET P BY DEF Brought
<1>7. V \subseteq D /\ \A i \in D : B(i) = IF i \in V THEN DOMAIN F(i) ELSE {}
  BY DEF Visible, Brings
<1>8. DOMAIN c = V /\ \A i \in V : c[i] = Cardinality(B(i))
  <2>1. \A i \in V : c[i] = Cardinality(EntryNames(picked[i], directory)) BY DEF Counts
  <2>2. \A i \in V : Cardinality(DOMAIN F(i)) = Cardinality(EntryNames(picked[i], directory))
    BY <1>5, <1>7, BringsFinite
  <2> QED BY <1>7, <2>1, <2>2 DEF Counts
<1>a. \A i \in V : \A files :
        (\A q \in B(i) : q \in DOMAIN files /\ files[q] = F(i)[q]) => Stocks(files, picked[i], directory)
  <2> SUFFICES ASSUME NEW i \in V, NEW files, \A q \in B(i) : q \in DOMAIN files /\ files[q] = F(i)[q]
               PROVE  Stocks(files, picked[i], directory)
    OBVIOUS
  <2>1. i \in D /\ B(i) = DOMAIN F(i) BY <1>7
  <2>2. picked[i].size \in Nat /\ IsZip(picked[i].zip) BY <1>5, <2>1
  <2> QED BY <2>1, <2>2, BringsFinite
<1>9. \A i \in D : IsFiniteSet(B(i)) /\ Cardinality(B(i)) \in Nat
  <2>1. \A i \in D : IsFiniteSet(B(i)) BY <1>5, BringsFinite
  <2> QED BY <2>1, FS_CardinalityType
<1>10. b \in A /\ DOMAIN b.files = {}
  <2>1. NoFiles \in Maps(P) /\ DOMAIN NoFiles = {}
    <3> DEFINE z == NoFiles
    <3>1. DOMAIN z = {} /\ z = [q \in {} |-> 0] BY DEF NoFiles
    <3>2. z = [q \in DOMAIN z |-> z[q]] BY <3>1
    <3> HIDE DEF z, P
    <3>a. \A q \in DOMAIN z : z[q] \in Nat BY <3>1
    <3>b. DOMAIN z \in SUBSET P /\ IsFiniteSet(DOMAIN z) BY <3>1, FS_EmptySet
    <3>3. z \in Maps(P) BY <3>2, <3>a, <3>b, MapsAre
    <3> QED BY <3>1, <3>3 DEF z
  <2> QED BY <2>1, WorkspaceAssumption DEF Started, ImportStates
<1>11. \A i \in D, t \in A : T(t, i) \in A /\ Gains(t, T(t, i), B(i), F(i))
  <2>1. ASSUME NEW i \in D, NEW t \in A PROVE T(t, i) \in A /\ Gains(t, T(t, i), B(i), F(i))
    <3> DEFINE q == picked[i]
    <3>1. q.size \in Nat /\ IsZip(q.zip) /\ Brings(q, directory) \in SUBSET P BY <1>5, <1>6
    <3> HIDE DEF q, P
    <3>2. /\ Take(t, q, directory) \in ImportStates(P)
          /\ Gains(t, Take(t, q, directory), Brings(q, directory), FilesOf(q, directory))
      BY <3>1, TakeIn
    <3> QED BY <3>2 DEF q
  <2> QED BY <2>1
<1> HIDE DEF C, D, A, P, b, V, c, B, T, F
<1>12. G \in [D -> [A -> A]] BY <1>11
<1>13. \A i \in D, t \in A : G[i][t] = T(t, i) OBVIOUS
<1> HIDE DEF G
<1>14. PICK f \in Folding(A, b, G, C, D) : TRUE BY <1>3, <1>10, <1>12, Folds
<1>15. f \in [SUBSET D -> A] /\ f[{}] = b
       /\ \A x \in SUBSET D : x # {} => f[x] = G[C[x]][f[x \ {C[x]}]]
  BY <1>14 DEF Folding
<1>16. ASSUME NEW x \in SUBSET D, x # {} PROVE f[x] = T(f[x \ {C[x]}], C[x])
  <2>1. C[x] \in D /\ f[x \ {C[x]}] \in A BY <1>3, <1>15, <1>16 DEF Chooses
  <2> QED BY <1>13, <1>15, <1>16, <2>1
<1>17. f = Def(f)
  <2>1. ASSUME NEW x \in SUBSET D PROVE f[x] = Def(f)[x] BY <1>4, <1>15, <1>16 DEF T
  <2>2. f = [x \in SUBSET D |-> f[x]] BY <1>15
  <2>3. Def(f) = [x \in SUBSET D |-> Def(f)[x]] OBVIOUS
  <2> HIDE DEF Def
  <2> QED BY <2>1, <2>2, <2>3
<1>18. w = Def(w) BY <1>17
<1> HIDE DEF w
<1>19. w[{}] = b
  <2>1. {} \in SUBSET D OBVIOUS
  <2> QED BY <1>18, <2>1
<1>20. ASSUME NEW x \in SUBSET D, x # {} PROVE w[x] = T(w[x \ {C[x]}], C[x])
  <2>1. w[x] = Def(w)[x] BY <1>18
  <2> QED BY <1>4, <1>20, <2>1 DEF T
<1>21. SameStep(f, w, C, D)
  <2>1. f[{}] = w[{}] BY <1>15, <1>19
  <2>2. ASSUME NEW x \in SUBSET D, x # {}, f[x \ {C[x]}] = w[x \ {C[x]}] PROVE f[x] = w[x]
    BY <1>16, <1>20, <2>2
  <2> QED BY <2>1, <2>2 DEF SameStep
<1> DEFINE Q == {x \in SUBSET D : f[x].ok =>
                    /\ \A i \in x : \A q \in B(i) : q \in DOMAIN f[x].files /\ f[x].files[q] = F(i)[q]
                    /\ Cardinality(DOMAIN f[x].files) = Weight(c, V \cap x)}
<1>22. ASSUME NEW x \in SUBSET D, \A i \in x : x \ {i} \in Q PROVE x \in Q
  <2>1. CASE x = {}
    <3>1. V \cap x = {} /\ DOMAIN f[x].files = {} BY <1>10, <1>15, <2>1
    <3>2. Places(c, {}) = {} BY DEF Places
    <3> QED BY <2>1, <3>1, <3>2, FS_EmptySet DEF Weight
  <2>2. CASE x # {}
    <3> SUFFICES ASSUME f[x].ok
                 PROVE  /\ \A i \in x : \A q \in B(i) :
                              q \in DOMAIN f[x].files /\ f[x].files[q] = F(i)[q]
                        /\ Cardinality(DOMAIN f[x].files) = Weight(c, V \cap x)
      OBVIOUS
    <3> DEFINE i == C[x]
               t == f[x \ {i}]
               M == DOMAIN t.files
               N == V \cap x
    <3>1. i \in x /\ i \in D BY <1>3, <2>2 DEF Chooses
    <3>2. x \ {i} \in Q BY <1>22, <3>1
    <3>3. t \in A BY <1>15
    <3>4. f[x] = T(t, i) BY <1>16, <2>2
    <3>5. t.ok => /\ \A j \in x \ {i} : \A q \in B(j) : q \in DOMAIN t.files /\ t.files[q] = F(j)[q]
                  /\ Cardinality(M) = Weight(c, V \cap (x \ {i}))
      BY <3>2
    <3> HIDE DEF i, t
    <3>6. Gains(t, f[x], B(i), F(i)) BY <1>11, <3>1, <3>3, <3>4
    <3>a. \A j \in x : \A q \in B(j) : q \in DOMAIN f[x].files /\ f[x].files[q] = F(j)[q]
      BY <3>5, <3>6 DEF Gains
    <3>7. /\ Cardinality(M) = Weight(c, V \cap (x \ {i}))
          /\ M \cap B(i) = {} /\ DOMAIN f[x].files = M \cup B(i)
      BY <3>5, <3>6 DEF Gains
    <3>8. IsFiniteSet(M)
      <4>1. t.files \in Maps(P) BY <3>3 DEF A, ImportStates
      <4> QED BY <4>1, MapsAre
    <3>9. Cardinality(M \cup B(i)) = Cardinality(M) + Cardinality(B(i))
      <4>1. IsFiniteSet(B(i)) BY <1>9, <3>1
      <4> DEFINE Bi == B(i)
      <4> HIDE DEF M, Bi
      <4>2. Cardinality(M \cup Bi) = Cardinality(M) + Cardinality(Bi) - Cardinality(M \cap Bi)
        BY <3>8, <4>1, FS_Union DEF Bi
      <4>3. Cardinality(M \cap Bi) = 0 BY <3>7, FS_EmptySet DEF Bi
      <4>4. Cardinality(M) \in Nat /\ Cardinality(Bi) \in Nat
        BY <3>8, <4>1, FS_CardinalityType DEF Bi
      <4> QED BY <4>2, <4>3, <4>4 DEF Bi
    <3>10. IsFiniteSet(N) /\ \A j \in N : c[j] \in Nat
      <4>1. IsFiniteSet(x) BY <1>3, FS_Subset
      <4> QED BY <1>7, <1>8, <1>9, <4>1, FS_Subset
    <3>11. CASE i \in V
      <4>1. i \in N /\ V \cap (x \ {i}) = N \ {i} BY <3>1, <3>11
      <4>2. Weight(c, N) = c[i] + Weight(c, N \ {i}) BY <3>10, <4>1, WeightAdds
      <4>3. c[i] = Cardinality(B(i)) /\ c[i] \in Nat BY <1>8, <1>9, <3>1, <3>11
      <4>4. Weight(c, N \ {i}) \in Nat
        <5>1. IsFiniteSet(N \ {i}) BY <3>10, FS_Subset
        <5> QED BY <3>10, <5>1, PlacesFinite
      <4>5. Weight(c, N) = Cardinality(M \cup B(i))
        <5> HIDE DEF M, N
        <5>1. Cardinality(M) = Weight(c, N \ {i}) BY <3>7, <4>1 DEF N
        <5> QED BY <3>9, <4>2, <4>3, <4>4, <5>1
      <4> QED BY <3>7, <3>a, <4>5
    <3>12. CASE i \notin V
      <4>1. V \cap (x \ {i}) = N BY <3>12
      <4>2. B(i) = {} BY <1>7, <3>1, <3>12
      <4>3. M \cup B(i) = M BY <4>2
      <4> QED BY <3>7, <3>a, <4>1, <4>3
    <3> QED BY <3>11, <3>12
  <2> QED BY <2>1, <2>2
<1>23. Q \in SUBSET SUBSET D OBVIOUS
<1> HIDE DEF Q
<1>24. Q = SUBSET D BY <1>3, <1>22, <1>23, SubsetInduction
<1>25. D \in SUBSET D OBVIOUS
<1>26. f[D].ok => /\ \A i \in V : Stocks(f[D].files, picked[i], directory)
                  /\ Cardinality(DOMAIN f[D].files) = Weight(c, V \cap D)
  <2>1. f[D].ok => /\ \A i \in D : \A q \in B(i) : q \in DOMAIN f[D].files /\ f[D].files[q] = F(i)[q]
                   /\ Cardinality(DOMAIN f[D].files) = Weight(c, V \cap D)
    BY <1>24, <1>25 DEF Q
  <2> QED BY <1>7, <1>a, <2>1
<1>27. V \cap D = V BY <1>7
<1>28. Total(c) = Weight(c, V)
  <2>1. IsFiniteSet(V) BY <1>3, <1>7, FS_Subset
  <2>2. \A i \in DOMAIN c : c[i] \in Nat BY <1>7, <1>8, <1>9
  <2> QED BY <1>8, <2>1, <2>2, TotalIs
<1>29. f[D] = w[D] BY <1>3, <1>21, <1>25, SameFold
<1>30. f[D] \in A BY <1>15, <1>25
<1> QED BY <1>1, <1>26, <1>27, <1>28, <1>29, <1>30 DEF A, P, c, V

\* An import that succeeds holds every picked file, and inflates no more than a workspace.
LEMMA ImportedWhole ==
  ASSUME NEW picked, IsPicking(picked), NEW directory
  PROVE  ImportWhole(picked, directory)
<1> DEFINE taken == TakeAll(picked, directory)
           V == Visible(picked, directory)
           bad == \/ V = {}
                  \/ \E i \in V : ~CheckPath(PickedPath(picked[i], directory))
                  \/ Cardinality(V) > Studio.entries
                  \/ Total([i \in V |-> picked[i].size]) > Studio.bytes
           result == ImportFiles(picked, directory)
           P == Brought(picked, directory)
<1>1. result = IF bad THEN Halt(Started)
               ELSE [taken EXCEPT !.ok = taken.ok /\ ValidFiles(taken.files)]
  BY DEF ImportFiles
<1>2. /\ taken \in ImportStates(P)
      /\ taken.ok => /\ \A i \in V : Stocks(taken.files, picked[i], directory)
                     /\ Cardinality(DOMAIN taken.files) = Total(Counts(picked, directory))
  BY TakeAllIn
<1> HIDE DEF taken, bad
<1>3. CASE bad
  <2>1. result.inflated = 0 /\ ~result.ok BY <1>1, <1>3 DEF Halt, Started
  <2>2. 0 <= Studio.bytes BY WorkspaceAssumption
  <2> HIDE DEF result
  <2> QED BY <2>1, <2>2 DEF ImportWhole, result
<1>4. CASE ~bad
  <2>1. /\ taken \in [ok : BOOLEAN, entries : Int, bytes : Int, files : Maps(P), inflated : Nat]
        /\ taken.inflated <= Studio.bytes
    BY <1>2 DEF ImportStates
  <2>2. /\ result.ok = (taken.ok /\ ValidFiles(taken.files))
        /\ result.files = taken.files /\ result.inflated = taken.inflated
    BY <1>1, <1>4, <2>1
  <2> HIDE DEF result
  <2>3. result.ok => /\ ValidFiles(result.files)
                     /\ \A i \in V : Stocks(result.files, picked[i], directory)
                     /\ Cardinality(DOMAIN result.files) = Total(Counts(picked, directory))
    BY <1>2, <2>2
  <2>4. result.inflated <= Studio.bytes BY <2>1, <2>2
  <2> QED BY <2>3, <2>4 DEF ImportWhole, Counts, result
<1> QED BY <1>3, <1>4

\* The requests, workspaces and picked files of a behaviour.
FilesInv ==
  /\ call.of = "compile" => call.job \in Requests
  /\ call.of = "accept" => call.files \in Sidebars
  /\ call.of = "import" => \E p \in Pickings : call.picked = p[1]

\* The calls of a behaviour have inputs of the kind assumed.
LEMMA FilesKept == CallSpec => []FilesInv
<1>1. CallInit => FilesInv BY DEF CallInit, FilesInv
<1>2. FilesInv /\ [CallNext]_callVars => FilesInv'
  <2> SUFFICES ASSUME FilesInv, [CallNext]_callVars PROVE FilesInv' OBVIOUS
  <2>1. CASE UNCHANGED callVars BY <2>1 DEF callVars, FilesInv
  <2>2. CASE Translate BY <2>2 DEF Translate, FilesInv
  <2>3. CASE Compile BY <2>3 DEF Compile, FilesInv
  <2>4. CASE Accept BY <2>4 DEF Accept, FilesInv
  <2>5. CASE Import
    <3>1. PICK p \in Pickings :
            call' = [of |-> "import", picked |-> p[1], directory |-> p[2]]
      BY <2>5 DEF Import
    <3> QED BY <3>1 DEF FilesInv
  <2>6. CASE Instrument BY <2>6 DEF Instrument, FilesInv
  <2>7. CASE Vectored BY <2>7 DEF Vectored, FilesInv
  <2>8. CASE Audit
    <3>1. call'.of = "audit" BY <2>8 DEF Audit
    <3> QED BY <3>1 DEF FilesInv
  <2> QED BY <2>1, <2>2, <2>3, <2>4, <2>5, <2>6, <2>7, <2>8 DEF CallNext
<1> QED BY <1>1, <1>2, PTL DEF CallSpec

\* A workspace that the studio takes has the size the SDK takes, a request that
\* the SDK takes is staged whole, an import that succeeds holds every picked file
\* and nothing else, and archives are inflated into no more than a workspace:
\* workspace.js, compiler.js, limits.ts, worker.ts, runtime.ts.
THEOREM WorkspacesAreAgreed == CallSpec => []WorkspacesAgree
<1>1. FilesInv => WorkspacesAgree
  <2> SUFFICES ASSUME FilesInv PROVE WorkspacesAgree OBVIOUS
  <2>1. ASSUME call.of = "compile" PROVE StagesWhole(call.job, Limits, Languages)
    <3>1. IsJob(call.job) BY <2>1, WorkspaceAssumption DEF FilesInv, IsJob
    <3>2. IncludeName # SourceName /\ Limits.workspaceBytes \in Nat BY WorkspaceAssumption
    <3> QED BY <3>1, <3>2, StagedWhole
  <2>2. ASSUME call.of = "accept" PROVE SizeAgreed(call.files, Limits.pathBytes)
    <3>1. IsWorkspace(call.files) BY <2>2, WorkspaceAssumption DEF FilesInv
    <3>2. /\ Limits.pathBytes \in Nat /\ Studio.bytes \in Nat /\ Studio.nodes \in Nat
          /\ Studio.pathLength \in Nat /\ 3 * Studio.pathLength <= Limits.pathBytes
          /\ IsWorkspace(Standard)
      BY WorkspaceAssumption
    <3>3. ASSUME NEW p \in DOMAIN Standard PROVE ~(Utf8(p) > Limits.pathBytes)
      <4>1. IsPath(p) BY <3>2, WorkspaceIs
      <4>2. Utf8(p) \in Int BY <4>1, UnitsInt
      <4>3. Utf8(p) <= Limits.pathBytes BY WorkspaceAssumption
      <4> QED BY <3>2, <4>2, <4>3
    <3> QED BY <3>1, <3>2, <3>3, SizesAgree
  <2>3. ASSUME call.of = "import" PROVE ImportWhole(call.picked, call.directory)
    <3>1. IsPicking(call.picked) BY <2>3, WorkspaceAssumption DEF FilesInv
    <3> QED BY <3>1, ImportedWhole
  <2> QED BY <2>1, <2>2, <2>3 DEF WorkspacesAgree
<1> QED BY <1>1, FilesKept, PTL

------------------------------------------------------------------------------
(* Sequences of whatever values, built at the end.                          *)

LEMMA AppendIs ==
  ASSUME NEW s, IsSeq(s), NEW e
  PROVE  /\ IsSeq(Append(s, e)) /\ Append(s, e) # <<>>
         /\ Len(Append(s, e)) = Len(s) + 1 /\ DOMAIN Append(s, e) = 1..(Len(s) + 1)
         /\ \A i \in DOMAIN s : Append(s, e)[i] = s[i]
         /\ Append(s, e)[Len(s) + 1] = e
<1> DEFINE R == {s[i] : i \in DOMAIN s} \cup {e}
           t == Append(s, e)
<1>1. s \in Seq(R)
  <2>1. s \in Seq({s[i] : i \in DOMAIN s}) BY DEF IsSeq
  <2> QED BY <2>1
<1>2. e \in R OBVIOUS
<1> HIDE DEF R
<1>3. t \in Seq(R) /\ Len(t) = Len(s) + 1 /\ Len(s) \in Nat /\ DOMAIN s = 1..Len(s)
      /\ DOMAIN t = 1..(Len(s) + 1)
      /\ (\A i \in 1..Len(s) : t[i] = s[i]) /\ t[Len(s) + 1] = e
  BY <1>1, <1>2
<1> HIDE DEF t
<1>4. t \in Seq({t[i] : i \in DOMAIN t}) BY <1>3
<1>5. t # <<>> BY <1>3
<1> QED BY <1>3, <1>4, <1>5 DEF IsSeq, t

LEMMA ConcatIs ==
  ASSUME NEW s, IsSeq(s), NEW t, IsSeq(t)
  PROVE  /\ IsSeq(s \o t)
         /\ Len(s \o t) = Len(s) + Len(t) /\ DOMAIN (s \o t) = 1..(Len(s) + Len(t))
         /\ \A i \in DOMAIN s : (s \o t)[i] = s[i]
         /\ \A i \in DOMAIN t : (s \o t)[Len(s) + i] = t[i]
<1> DEFINE R == {s[i] : i \in DOMAIN s} \cup {t[i] : i \in DOMAIN t}
           w == s \o t
<1>1. s \in Seq(R) /\ t \in Seq(R)
  <2>1. s \in Seq({s[i] : i \in DOMAIN s}) /\ t \in Seq({t[i] : i \in DOMAIN t}) BY DEF IsSeq
  <2> QED BY <2>1
<1> HIDE DEF R
<1>2. w \in Seq(R) /\ Len(w) = Len(s) + Len(t) /\ Len(s) \in Nat /\ Len(t) \in Nat
      /\ DOMAIN s = 1..Len(s) /\ DOMAIN t = 1..Len(t) /\ DOMAIN w = 1..(Len(s) + Len(t))
  BY <1>1
<1>3. \A i \in 1..Len(s) : w[i] = s[i] BY <1>1, <1>2
<1>4. \A i \in 1..Len(t) : w[Len(s) + i] = t[i] BY <1>1, <1>2
<1> HIDE DEF w
<1>5. w \in Seq({w[i] : i \in DOMAIN w}) BY <1>2
<1> QED BY <1>2, <1>3, <1>4, <1>5 DEF IsSeq, w

LEMMA ConcatRight ==
  ASSUME NEW s, IsSeq(s), NEW t, IsSeq(t), NEW i \in DOMAIN t, NEW k, k = Len(s) + i
  PROVE  (s \o t)[k] = t[i]
<1> DEFINE R == {s[j] : j \in DOMAIN s} \cup {t[j] : j \in DOMAIN t}
           w == s \o t
<1>1. s \in Seq(R) /\ t \in Seq(R)
  <2>1. s \in Seq({s[j] : j \in DOMAIN s}) /\ t \in Seq({t[j] : j \in DOMAIN t}) BY DEF IsSeq
  <2> QED BY <2>1
<1> HIDE DEF R
<1>2. w \in Seq(R) /\ Len(w) = Len(s) + Len(t) /\ Len(s) \in Nat /\ Len(t) \in Nat
      /\ DOMAIN s = 1..Len(s) /\ DOMAIN t = 1..Len(t) /\ DOMAIN w = 1..(Len(s) + Len(t))
  BY <1>1
<1>3. i \in 1..Len(t) BY <1>2
<1>4. w[k] = t[i] BY <1>1, <1>2, <1>3
<1> QED BY <1>4

LEMMA ListIs ==
  ASSUME NEW n \in Nat, NEW s, s = [i \in 1..n |-> s[i]]
  PROVE  IsSeq(s) /\ Len(s) = n /\ DOMAIN s = 1..n
<1>1. s \in Seq({s[i] : i \in DOMAIN s}) BY SMT
<1>2. Len(s) = n BY <1>1, LenProperties
<1> QED BY <1>1, <1>2 DEF IsSeq

LEMMA EmptyIs == IsSeq(<<>>) /\ Len(<<>>) = 0 /\ DOMAIN <<>> = {}
BY DEF IsSeq

\* T is the beginning of U.
Extends(T, U) == Len(T) <= Len(U) /\ \A i \in DOMAIN T : U[i] = T[i]

------------------------------------------------------------------------------
(* The rewrite's state, a field at a time.                                  *)

Fields ==
  {"ok", "last", "types", "imports", "globals", "defined", "memory", "code", "pending", "thunks",
   "elements", "sealed", "slot", "out"}
\* t is s but for the fields of F.
Alters(s, t, F) == DOMAIN t = Fields /\ \A f \in Fields \ F : t[f] = s[f]

LEMMA FieldSet ==
  ASSUME NEW s, DOMAIN s = Fields, NEW a \in Fields, NEW x
  PROVE  /\ Alters(s, [s EXCEPT ![a] = x], {a})
         /\ [s EXCEPT ![a] = x][a] = x
BY DEF Alters

LEMMA AltersTwice ==
  ASSUME NEW s, NEW t, NEW u, NEW F, NEW G, Alters(s, t, F), Alters(t, u, G)
  PROVE  Alters(s, u, F \cup G)
BY DEF Alters

LEMMA FieldNames ==
  /\ "ok" \in Fields /\ "last" \in Fields /\ "types" \in Fields /\ "imports" \in Fields
  /\ "globals" \in Fields /\ "defined" \in Fields /\ "memory" \in Fields /\ "code" \in Fields
  /\ "pending" \in Fields /\ "thunks" \in Fields /\ "elements" \in Fields /\ "sealed" \in Fields
  /\ "slot" \in Fields /\ "out" \in Fields
BY DEF Fields

------------------------------------------------------------------------------
(* The thunks.                                                              *)

ThunksIn(s) ==
  /\ IsSeq(s.thunks)
  /\ \A i \in DOMAIN s.thunks : s.thunks[i] \in Nat /\ s.thunks[i] < Imported(s)
  /\ \A i, j \in DOMAIN s.thunks : s.thunks[i] = s.thunks[j] => i = j

\* The imports among F that get a thunk.
Escaping(s, F) == {f \in F : f # Void /\ f < Imported(s) /\ s.defined # <<>>}

\* t is s once the functions of F were used as values.
Uses(s, t, F) ==
  /\ Alters(s, t, {"thunks"}) /\ ThunksIn(t) /\ Extends(s.thunks, t.thunks)
  /\ ToSet(t.thunks) = ToSet(s.thunks) \cup Escaping(s, F)

\* Once the thunks are sealed no new one is needed.
Quiet(s, F) == ~s.sealed \/ Escaping(s, F) \subseteq ToSet(s.thunks)

Functions(F) == F \subseteq Nat \cup {Void}

LEMMA UsesTwice ==
  ASSUME NEW s, NEW t, NEW u, NEW F, NEW G, Uses(s, t, F), Uses(t, u, G), ThunksIn(s)
  PROVE  Uses(s, u, F \cup G)
<1>1. Alters(s, u, {"thunks"})
  <2>1. Alters(s, u, {"thunks"} \cup {"thunks"}) BY AltersTwice DEF Uses
  <2>2. {"thunks"} \cup {"thunks"} = {"thunks"} OBVIOUS
  <2> QED BY <2>1, <2>2
<1>2. t.imports = s.imports /\ t.defined = s.defined BY FieldNames DEF Uses, Alters
<1>3. Escaping(s, F) \cup Escaping(t, G) = Escaping(s, F \cup G) BY <1>2 DEF Escaping, Imported
<1>4. ToSet(u.thunks) = ToSet(s.thunks) \cup Escaping(s, F \cup G)
  <2>1. ToSet(u.thunks) = ToSet(t.thunks) \cup Escaping(t, G) BY DEF Uses
  <2>2. ToSet(t.thunks) = ToSet(s.thunks) \cup Escaping(s, F) BY DEF Uses
  <2> QED BY <1>3, <2>1, <2>2
<1>5. Extends(s.thunks, u.thunks)
  <2>1. IsSeq(s.thunks) /\ IsSeq(t.thunks) /\ IsSeq(u.thunks) BY DEF Uses, ThunksIn
  <2>2. /\ Len(s.thunks) \in Nat /\ DOMAIN s.thunks = 1..Len(s.thunks)
        /\ Len(t.thunks) \in Nat /\ DOMAIN t.thunks = 1..Len(t.thunks)
        /\ Len(u.thunks) \in Nat
    BY <2>1, SeqIs
  <2> QED BY <2>2 DEF Uses, Extends
<1> QED BY <1>1, <1>4, <1>5 DEF Uses

LEMMA UsesNone ==
  ASSUME NEW s, DOMAIN s = Fields, ThunksIn(s)
  PROVE  Uses(s, s, {})
<1>1. Len(s.thunks) \in Nat BY SeqIs DEF ThunksIn
<1>2. Escaping(s, {}) = {} BY DEF Escaping
<1> QED BY <1>1, <1>2 DEF Uses, Alters, Extends

LEMMA QuietStays ==
  ASSUME NEW s, NEW t, NEW F, NEW G, Uses(s, t, F), Quiet(s, G)
  PROVE  Quiet(t, G)
<1>1. t.imports = s.imports /\ t.defined = s.defined /\ t.sealed = s.sealed
  BY FieldNames DEF Uses, Alters
<1>2. Escaping(t, G) = Escaping(s, G) BY <1>1 DEF Escaping, Imported
<1> QED BY <1>1, <1>2 DEF Quiet, Uses

LEMMA QuietPart ==
  ASSUME NEW s, NEW F, NEW G, F \subseteq G, Quiet(s, G)
  PROVE  Quiet(s, F)
BY DEF Quiet, Escaping

LEMMA ReferenceIs ==
  ASSUME NEW s, DOMAIN s = Fields, Len(s.imports) \in Nat, ThunksIn(s),
         NEW f \in Nat \cup {Void}, Quiet(s, {f})
  PROVE  Uses(s, Reference(s, f), {f})
<1> DEFINE t == Append(s.thunks, f)
<1>1. IsSeq(s.thunks) /\ Len(s.thunks) \in Nat /\ DOMAIN s.thunks = 1..Len(s.thunks)
  BY SeqIs DEF ThunksIn
<1>2. CASE ~NeedsThunk(s, f)
  <2>1. Escaping(s, {f}) \subseteq ToSet(s.thunks) BY <1>2 DEF NeedsThunk, Escaping
  <2>2. Reference(s, f) = s BY <1>2 DEF Reference
  <2>3. Uses(s, s, {}) BY UsesNone
  <2>4. Escaping(s, {}) = {} BY DEF Escaping
  <2> QED BY <2>1, <2>2, <2>3, <2>4 DEF Uses
<1>3. CASE NeedsThunk(s, f)
  <2>1. f \in Escaping(s, {f}) /\ f \notin ToSet(s.thunks) BY <1>3 DEF NeedsThunk, Escaping
  <2>2. ~s.sealed BY <2>1 DEF Quiet
  <2>3. Reference(s, f) = [s EXCEPT !.thunks = t] BY <1>3, <2>2 DEF Reference
  <2>4. Alters(s, Reference(s, f), {"thunks"}) /\ Reference(s, f).thunks = t
    <3> DEFINE r == [s EXCEPT !.thunks = t]
    <3>1. Alters(s, r, {"thunks"}) /\ r.thunks = t BY FieldSet, FieldNames
    <3> HIDE DEF t
    <3> QED BY <2>3, <3>1
  <2>5. /\ IsSeq(t) /\ Len(t) = Len(s.thunks) + 1 /\ DOMAIN t = 1..(Len(s.thunks) + 1)
        /\ (\A i \in DOMAIN s.thunks : t[i] = s.thunks[i]) /\ t[Len(s.thunks) + 1] = f
    BY <1>1, AppendIs
  <2> HIDE DEF t
  <2>6. ToSet(t) = ToSet(s.thunks) \cup {f} BY <1>1, <2>5 DEF ToSet
  <2>7. f \in Nat /\ f < Imported(s) BY <1>3 DEF NeedsThunk
  <2>8. \A i \in DOMAIN s.thunks : s.thunks[i] # f BY <2>1 DEF ToSet
  <2>9. Reference(s, f).imports = s.imports BY <2>4, FieldNames DEF Alters
  <2>10. ThunksIn(Reference(s, f))
    <3>1. \A i \in DOMAIN t : i \in DOMAIN s.thunks \/ i = Len(s.thunks) + 1 BY <1>1, <2>5
    <3>2. \A i \in DOMAIN t : t[i] \in Nat /\ t[i] < Imported(s) BY <2>5, <2>7, <3>1 DEF ThunksIn
    <3>3. \A i, j \in DOMAIN t : t[i] = t[j] => i = j BY <2>5, <2>8, <3>1 DEF ThunksIn
    <3> QED BY <2>4, <2>5, <2>9, <3>2, <3>3 DEF ThunksIn, Imported
  <2>11. Extends(s.thunks, t) BY <1>1, <2>5 DEF Extends
  <2>12. Escaping(s, {f}) = {f} BY <2>1 DEF Escaping
  <2> QED BY <2>4, <2>6, <2>10, <2>11, <2>12 DEF Uses
<1> QED BY <1>2, <1>3

------------------------------------------------------------------------------
(* The recursions, step by step.                                            *)

LEMMA UseRuns ==
  ASSUME NEW s, NEW fs, Len(fs) \in Nat
  PROVE  \E u : /\ u[0] = s /\ \A i \in 1..Len(fs) : u[i] = Reference(u[i - 1], fs[i])
                /\ Use(s, fs) = u[Len(fs)]
<1> DEFINE Def(g, n) == [i \in 0..n |-> IF i = 0 THEN s ELSE Reference(g[i - 1], fs[i])]
           S == {n \in Nat : \E g : g = Def(g, n)}
           w == CHOOSE g : g = Def(g, Len(fs))
<1>1. 0 \in S
  <2>1. [i \in 0..0 |-> s] = Def([i \in 0..0 |-> s], 0) OBVIOUS
  <2> QED BY <2>1
<1>2. ASSUME NEW n \in S PROVE n + 1 \in S
  <2>1. PICK g : g = Def(g, n) OBVIOUS
  <2> DEFINE h == Def(g, n + 1)
  <2>2. \A i \in 0..n : h[i] = g[i]
    <3>1. \A i \in 0..n : Def(g, n + 1)[i] = Def(g, n)[i] OBVIOUS
    <3> QED BY <2>1, <3>1
  <2>3. \A i \in 0..(n + 1) : i = 0 \/ i - 1 \in 0..n OBVIOUS
  <2>4. \A i \in 0..(n + 1) : h[i] = Def(h, n + 1)[i] BY <2>2, <2>3
  <2>5. h = [i \in 0..(n + 1) |-> h[i]] OBVIOUS
  <2>6. Def(h, n + 1) = [i \in 0..(n + 1) |-> Def(h, n + 1)[i]] OBVIOUS
  <2> HIDE DEF h, Def
  <2>7. h = Def(h, n + 1) BY <2>4, <2>5, <2>6
  <2> QED BY <2>7
<1>3. S = Nat
  <2>1. S \in SUBSET Nat OBVIOUS
  <2> HIDE DEF S
  <2> QED BY <1>1, <1>2, <2>1, SetInduction
<1>4. \E g : g = Def(g, Len(fs))
  <2>1. Len(fs) \in S
    <3> HIDE DEF S
    <3> QED BY <1>3
  <2> QED BY <2>1
<1>5. w = Def(w, Len(fs)) BY <1>4, Zenon
<1>6. Use(s, fs) = w[Len(fs)] BY DEF Use
<1> HIDE DEF w
<1>7. \A i \in 0..Len(fs) : w[i] = Def(w, Len(fs))[i] BY <1>5
<1>8. w[0] = s BY <1>7
<1>9. \A i \in 1..Len(fs) : w[i] = Reference(w[i - 1], fs[i]) BY <1>7
<1> QED BY <1>6, <1>8, <1>9

LEMMA UseAllRuns ==
  ASSUME NEW s, NEW lists, Len(lists) \in Nat
  PROVE  \E u : /\ u[0] = s /\ \A i \in 1..Len(lists) : u[i] = Use(u[i - 1], lists[i])
                /\ UseAll(s, lists) = u[Len(lists)]
<1> DEFINE Def(g, n) == [i \in 0..n |-> IF i = 0 THEN s ELSE Use(g[i - 1], lists[i])]
           S == {n \in Nat : \E g : g = Def(g, n)}
           w == CHOOSE g : g = Def(g, Len(lists))
<1>1. 0 \in S
  <2>1. [i \in 0..0 |-> s] = Def([i \in 0..0 |-> s], 0) OBVIOUS
  <2> QED BY <2>1
<1>2. ASSUME NEW n \in S PROVE n + 1 \in S
  <2>1. PICK g : g = Def(g, n) OBVIOUS
  <2> DEFINE h == Def(g, n + 1)
  <2>2. \A i \in 0..n : h[i] = g[i]
    <3>1. \A i \in 0..n : Def(g, n + 1)[i] = Def(g, n)[i] OBVIOUS
    <3> QED BY <2>1, <3>1
  <2>3. \A i \in 0..(n + 1) : i = 0 \/ i - 1 \in 0..n OBVIOUS
  <2>4. \A i \in 0..(n + 1) : h[i] = Def(h, n + 1)[i] BY <2>2, <2>3
  <2>5. h = [i \in 0..(n + 1) |-> h[i]] OBVIOUS
  <2>6. Def(h, n + 1) = [i \in 0..(n + 1) |-> Def(h, n + 1)[i]] OBVIOUS
  <2> HIDE DEF h, Def
  <2>7. h = Def(h, n + 1) BY <2>4, <2>5, <2>6
  <2> QED BY <2>7
<1>3. S = Nat
  <2>1. S \in SUBSET Nat OBVIOUS
  <2> HIDE DEF S
  <2> QED BY <1>1, <1>2, <2>1, SetInduction
<1>4. \E g : g = Def(g, Len(lists))
  <2>1. Len(lists) \in S
    <3> HIDE DEF S
    <3> QED BY <1>3
  <2> QED BY <2>1
<1>5. w = Def(w, Len(lists)) BY <1>4, Zenon
<1>6. UseAll(s, lists) = w[Len(lists)] BY DEF UseAll
<1> HIDE DEF w
<1>7. \A i \in 0..Len(lists) : w[i] = Def(w, Len(lists))[i] BY <1>5
<1>8. w[0] = s BY <1>7
<1>9. \A i \in 1..Len(lists) : w[i] = Use(w[i - 1], lists[i]) BY <1>7
<1> QED BY <1>6, <1>8, <1>9

LEMMA FunctionsOfRuns ==
  ASSUME NEW es, Len(es) \in Nat
  PROVE  \E u : /\ u[0] = <<>>
                /\ \A i \in 1..Len(es) :
                     u[i] = (IF es[i].kind = "function" THEN Append(u[i - 1], es[i]) ELSE u[i - 1])
                /\ FunctionsOf(es) = u[Len(es)]
<1> DEFINE Def(g, n) ==
             [i \in 0..n |->
                IF i = 0 THEN <<>>
                ELSE (IF es[i].kind = "function" THEN Append(g[i - 1], es[i]) ELSE g[i - 1])]
           S == {n \in Nat : \E g : g = Def(g, n)}
           w == CHOOSE g : g = Def(g, Len(es))
<1>1. 0 \in S
  <2>1. [i \in 0..0 |-> <<>>] = Def([i \in 0..0 |-> <<>>], 0) OBVIOUS
  <2> QED BY <2>1
<1>2. ASSUME NEW n \in S PROVE n + 1 \in S
  <2>1. PICK g : g = Def(g, n) OBVIOUS
  <2> DEFINE h == Def(g, n + 1)
  <2>2. \A i \in 0..n : h[i] = g[i]
    <3>1. \A i \in 0..n : Def(g, n + 1)[i] = Def(g, n)[i] OBVIOUS
    <3> QED BY <2>1, <3>1
  <2>3. \A i \in 0..(n + 1) : i = 0 \/ i - 1 \in 0..n OBVIOUS
  <2>4. \A i \in 0..(n + 1) : h[i] = Def(h, n + 1)[i] BY <2>2, <2>3
  <2>5. h = [i \in 0..(n + 1) |-> h[i]] OBVIOUS
  <2>6. Def(h, n + 1) = [i \in 0..(n + 1) |-> Def(h, n + 1)[i]] OBVIOUS
  <2> HIDE DEF h, Def
  <2>7. h = Def(h, n + 1) BY <2>4, <2>5, <2>6
  <2> QED BY <2>7
<1>3. S = Nat
  <2>1. S \in SUBSET Nat OBVIOUS
  <2> HIDE DEF S
  <2> QED BY <1>1, <1>2, <2>1, SetInduction
<1>4. \E g : g = Def(g, Len(es))
  <2>1. Len(es) \in S
    <3> HIDE DEF S
    <3> QED BY <1>3
  <2> QED BY <2>1
<1>5. w = Def(w, Len(es)) BY <1>4, Zenon
<1>6. FunctionsOf(es) = w[Len(es)] BY DEF FunctionsOf
<1> HIDE DEF w
<1>7. \A i \in 0..Len(es) : w[i] = Def(w, Len(es))[i] BY <1>5
<1>8. w[0] = <<>> BY <1>7
<1>9. \A i \in 1..Len(es) :
        w[i] = (IF es[i].kind = "function" THEN Append(w[i - 1], es[i]) ELSE w[i - 1])
  BY <1>7
<1> QED BY <1>6, <1>8, <1>9

LEMMA RewrittenRuns ==
  ASSUME NEW m, Len(m) \in Nat
  PROVE  \E u : /\ u[0] = Begun /\ \A i \in 1..Len(m) : u[i] = Section(u[i - 1], m[i])
                /\ Rewritten(m) = Output(SynthesizeBefore(u[Len(m)], Cardinality(SectionIds) + 1))
<1> DEFINE Def(g, n) == [i \in 0..n |-> IF i = 0 THEN Begun ELSE Section(g[i - 1], m[i])]
           S == {n \in Nat : \E g : g = Def(g, n)}
           w == CHOOSE g : g = Def(g, Len(m))
<1>1. 0 \in S
  <2>1. [i \in 0..0 |-> Begun] = Def([i \in 0..0 |-> Begun], 0) OBVIOUS
  <2> QED BY <2>1
<1>2. ASSUME NEW n \in S PROVE n + 1 \in S
  <2>1. PICK g : g = Def(g, n) OBVIOUS
  <2> DEFINE h == Def(g, n + 1)
  <2>2. \A i \in 0..n : h[i] = g[i]
    <3>1. \A i \in 0..n : Def(g, n + 1)[i] = Def(g, n)[i] OBVIOUS
    <3> QED BY <2>1, <3>1
  <2>3. \A i \in 0..(n + 1) : i = 0 \/ i - 1 \in 0..n OBVIOUS
  <2>4. \A i \in 0..(n + 1) : h[i] = Def(h, n + 1)[i] BY <2>2, <2>3
  <2>5. h = [i \in 0..(n + 1) |-> h[i]] OBVIOUS
  <2>6. Def(h, n + 1) = [i \in 0..(n + 1) |-> Def(h, n + 1)[i]] OBVIOUS
  <2> HIDE DEF h, Def
  <2>7. h = Def(h, n + 1) BY <2>4, <2>5, <2>6
  <2> QED BY <2>7
<1>3. S = Nat
  <2>1. S \in SUBSET Nat OBVIOUS
  <2> HIDE DEF S
  <2> QED BY <1>1, <1>2, <2>1, SetInduction
<1>4. \E g : g = Def(g, Len(m))
  <2>1. Len(m) \in S
    <3> HIDE DEF S
    <3> QED BY <1>3
  <2> QED BY <2>1
<1>5. w = Def(w, Len(m)) BY <1>4, Zenon
<1>6. Rewritten(m) = Output(SynthesizeBefore(w[Len(m)], Cardinality(SectionIds) + 1))
  BY DEF Rewritten
<1> HIDE DEF w
<1>7. \A i \in 0..Len(m) : w[i] = Def(w, Len(m))[i] BY <1>5
<1>8. w[0] = Begun BY <1>7
<1>9. \A i \in 1..Len(m) : w[i] = Section(w[i - 1], m[i]) BY <1>7
<1> QED BY <1>6, <1>8, <1>9

LEMMA UseIs ==
  ASSUME NEW s, DOMAIN s = Fields, Len(s.imports) \in Nat, ThunksIn(s),
         NEW fs, IsSeq(fs), Functions(ToSet(fs)), Quiet(s, ToSet(fs))
  PROVE  Uses(s, Use(s, fs), ToSet(fs))
<1>1. Len(fs) \in Nat /\ DOMAIN fs = 1..Len(fs) BY SeqIs
<1>2. PICK u : /\ u[0] = s /\ \A i \in 1..Len(fs) : u[i] = Reference(u[i - 1], fs[i])
               /\ Use(s, fs) = u[Len(fs)]
  BY <1>1, UseRuns
<1> DEFINE B(i) == {fs[j] : j \in 1..i}
           S == {i \in Nat : i <= Len(fs) => Uses(s, u[i], B(i))}
<1>3. 0 \in S
  <2>1. B(0) = {} OBVIOUS
  <2>2. Uses(s, s, {}) BY UsesNone
  <2> QED BY <1>2, <2>1, <2>2
<1>4. ASSUME NEW i \in S PROVE i + 1 \in S
  <2> SUFFICES ASSUME i + 1 <= Len(fs) PROVE Uses(s, u[i + 1], B(i + 1)) OBVIOUS
  <2>1. i \in Nat /\ i <= Len(fs) /\ i + 1 \in 1..Len(fs) /\ (i + 1) - 1 = i BY <1>1
  <2> DEFINE t == u[i]
             f == fs[i + 1]
  <2>2. Uses(s, t, B(i)) BY <2>1
  <2>3. u[i + 1] = Reference(t, f) BY <1>2, <2>1
  <2>4. f \in ToSet(fs) /\ f \in Nat \cup {Void} BY <1>1, <2>1 DEF ToSet, Functions
  <2>5. DOMAIN t = Fields /\ t.imports = s.imports /\ ThunksIn(t)
    <3> HIDE DEF t
    <3> QED BY <2>2, FieldNames DEF Uses, Alters
  <2>6. Quiet(t, {f})
    <3> HIDE DEF t, f, B
    <3>1. Quiet(s, {f}) BY <2>4, QuietPart
    <3> QED BY <2>2, <3>1, QuietStays
  <2>7. Uses(t, u[i + 1], {f})
    <3> HIDE DEF t, f
    <3> QED BY <2>3, <2>4, <2>5, <2>6, ReferenceIs
  <2>8. B(i) \cup {f} = B(i + 1) BY <2>1
  <2> HIDE DEF t, B, f
  <2>9. Uses(s, u[i + 1], B(i) \cup {f}) BY <2>2, <2>7, UsesTwice
  <2> QED BY <2>8, <2>9
<1>5. S \in SUBSET Nat OBVIOUS
<1>6. B(Len(fs)) = ToSet(fs) BY <1>1 DEF ToSet
<1> HIDE DEF S
<1>7. Len(fs) \in S BY <1>1, <1>3, <1>4, <1>5, SetInduction
<1> HIDE DEF B
<1> QED BY <1>1, <1>2, <1>6, <1>7 DEF S

\* The functions that the lists hold.
Among(lists) == UNION {ToSet(list) : list \in ToSet(lists)}

LEMMA UseAllIs ==
  ASSUME NEW s, DOMAIN s = Fields, Len(s.imports) \in Nat, ThunksIn(s),
         NEW lists, IsSeq(lists), \A i \in DOMAIN lists : IsSeq(lists[i]),
         Functions(Among(lists)), Quiet(s, Among(lists))
  PROVE  Uses(s, UseAll(s, lists), Among(lists))
<1>1. Len(lists) \in Nat /\ DOMAIN lists = 1..Len(lists) BY SeqIs
<1>2. PICK u : /\ u[0] = s /\ \A i \in 1..Len(lists) : u[i] = Use(u[i - 1], lists[i])
               /\ UseAll(s, lists) = u[Len(lists)]
  BY <1>1, UseAllRuns
<1> DEFINE B(i) == UNION {ToSet(lists[j]) : j \in 1..i}
           S == {i \in Nat : i <= Len(lists) => Uses(s, u[i], B(i))}
<1>3. 0 \in S
  <2>1. B(0) = {} OBVIOUS
  <2>2. Uses(s, s, {}) BY UsesNone
  <2> QED BY <1>2, <2>1, <2>2
<1>4. ASSUME NEW i \in S PROVE i + 1 \in S
  <2> SUFFICES ASSUME i + 1 <= Len(lists) PROVE Uses(s, u[i + 1], B(i + 1)) OBVIOUS
  <2>1. i \in Nat /\ i <= Len(lists) /\ i + 1 \in 1..Len(lists) /\ (i + 1) - 1 = i BY <1>1
  <2> DEFINE t == u[i]
             fs == lists[i + 1]
             F == ToSet(fs)
  <2>2. Uses(s, t, B(i)) BY <2>1
  <2>3. u[i + 1] = Use(t, fs) BY <1>2, <2>1
  <2>4. F \subseteq Among(lists) /\ Functions(F) /\ IsSeq(fs)
    <3>1. lists[i + 1] \in ToSet(lists) BY <1>1, <2>1 DEF ToSet
    <3>2. F \subseteq Among(lists) BY <3>1 DEF Among
    <3> QED BY <1>1, <2>1, <3>2 DEF Functions
  <2>5. DOMAIN t = Fields /\ t.imports = s.imports /\ ThunksIn(t)
    <3> HIDE DEF t
    <3> QED BY <2>2, FieldNames DEF Uses, Alters
  <2>6. Quiet(t, F)
    <3> HIDE DEF t, F, B
    <3>1. Quiet(s, F) BY <2>4, QuietPart
    <3> QED BY <2>2, <3>1, QuietStays
  <2>7. Uses(t, u[i + 1], F)
    <3> HIDE DEF t, fs
    <3> QED BY <2>3, <2>4, <2>5, <2>6, UseIs
  <2>8. B(i) \cup F = B(i + 1)
    <3>1. 1..(i + 1) = 1..i \cup {i + 1} BY <2>1
    <3> QED BY <3>1
  <2> HIDE DEF t, B, F, fs
  <2>9. Uses(s, u[i + 1], B(i) \cup F) BY <2>2, <2>7, UsesTwice
  <2> QED BY <2>8, <2>9
<1>5. S \in SUBSET Nat OBVIOUS
<1>6. B(Len(lists)) = Among(lists) BY <1>1 DEF Among, ToSet
<1> HIDE DEF S
<1>7. Len(lists) \in S BY <1>1, <1>3, <1>4, <1>5, SetInduction
<1> HIDE DEF B
<1> QED BY <1>1, <1>2, <1>6, <1>7 DEF S

\* The function imports of a list of imports.
LEMMA FunctionsOfIs ==
  ASSUME NEW es, IsSeq(es)
  PROVE  /\ IsSeq(FunctionsOf(es))
         /\ ToSet(FunctionsOf(es)) = {e \in ToSet(es) : e.kind = "function"}
<1>1. Len(es) \in Nat /\ DOMAIN es = 1..Len(es) BY SeqIs
<1> DEFINE A(t, e) == IF e.kind = "function" THEN Append(t, e) ELSE t
<1>2. PICK u : /\ u[0] = <<>> /\ \A i \in 1..Len(es) : u[i] = A(u[i - 1], es[i])
               /\ FunctionsOf(es) = u[Len(es)]
  BY <1>1, FunctionsOfRuns
<1> DEFINE B(i) == {e \in {es[j] : j \in 1..i} : e.kind = "function"}
           S == {i \in Nat : i <= Len(es) => IsSeq(u[i]) /\ ToSet(u[i]) = B(i)}
<1>3. 0 \in S
  <2>1. B(0) = {} OBVIOUS
  <2>2. IsSeq(<<>>) /\ ToSet(<<>>) = {} BY EmptyIs DEF ToSet
  <2> QED BY <1>2, <2>1, <2>2
<1>4. ASSUME NEW i \in S PROVE i + 1 \in S
  <2> SUFFICES ASSUME i + 1 <= Len(es) PROVE IsSeq(u[i + 1]) /\ ToSet(u[i + 1]) = B(i + 1) OBVIOUS
  <2>1. i \in Nat /\ i <= Len(es) /\ i + 1 \in 1..Len(es) /\ (i + 1) - 1 = i BY <1>1
  <2> DEFINE t == u[i]
             e == es[i + 1]
  <2>2. IsSeq(t) /\ ToSet(t) = B(i) BY <2>1
  <2>3. u[i + 1] = A(t, e) BY <1>2, <2>1
  <2>4. 1..(i + 1) = 1..i \cup {i + 1} BY <2>1
  <2>5. CASE e.kind = "function"
    <3>1. B(i + 1) = B(i) \cup {e} BY <2>4, <2>5
    <3>2. u[i + 1] = Append(t, e) BY <2>3, <2>5
    <3> HIDE DEF t, e, B
    <3>3. /\ IsSeq(Append(t, e)) /\ DOMAIN Append(t, e) = 1..(Len(t) + 1)
          /\ \A j \in DOMAIN t : Append(t, e)[j] = t[j]
          /\ Append(t, e)[Len(t) + 1] = e /\ DOMAIN t = 1..Len(t) /\ Len(t) \in Nat
      BY <2>2, AppendIs, SeqIs
    <3> DEFINE v == Append(t, e)
    <3> HIDE DEF v
    <3>4. IsSeq(v) /\ DOMAIN v = 1..(Len(t) + 1) /\ (\A j \in DOMAIN t : v[j] = t[j])
          /\ v[Len(t) + 1] = e
      BY <3>3 DEF v
    <3>5. ToSet(v) = ToSet(t) \cup {e} BY <3>3, <3>4 DEF ToSet
    <3> QED BY <2>2, <3>1, <3>2, <3>4, <3>5 DEF v
  <2>6. CASE e.kind # "function"
    <3>1. B(i + 1) = B(i) BY <2>4, <2>6
    <3>2. u[i + 1] = t BY <2>3, <2>6
    <3> HIDE DEF t, e, B
    <3> QED BY <2>2, <3>1, <3>2
  <2> QED BY <2>5, <2>6
<1>5. S \in SUBSET Nat OBVIOUS
<1>6. B(Len(es)) = {e \in ToSet(es) : e.kind = "function"} BY <1>1 DEF ToSet
<1> HIDE DEF S
<1>7. Len(es) \in S BY <1>1, <1>3, <1>4, <1>5, SetInduction
<1> HIDE DEF B
<1> QED BY <1>1, <1>2, <1>6, <1>7 DEF S

LEMMA FunctionsOfAppend ==
  ASSUME NEW es, IsSeq(es), NEW e, e.kind = "function"
  PROVE  FunctionsOf(Append(es, e)) = Append(FunctionsOf(es), e)
<1> DEFINE ds == Append(es, e)
           A(t, d) == IF d.kind = "function" THEN Append(t, d) ELSE t
<1>1. Len(es) \in Nat /\ DOMAIN es = 1..Len(es) BY SeqIs
<1>2. Len(ds) = Len(es) + 1 /\ (\A i \in 1..Len(es) : ds[i] = es[i]) /\ ds[Len(es) + 1] = e
  BY <1>1, AppendIs
<1> HIDE DEF ds
<1>3. PICK u : /\ u[0] = <<>> /\ \A i \in 1..Len(es) : u[i] = A(u[i - 1], es[i])
               /\ FunctionsOf(es) = u[Len(es)]
  BY <1>1, FunctionsOfRuns
<1>4. Len(ds) \in Nat BY <1>1, <1>2
<1>5. PICK v : /\ v[0] = <<>> /\ \A i \in 1..Len(ds) : v[i] = A(v[i - 1], ds[i])
               /\ FunctionsOf(ds) = v[Len(ds)]
  BY <1>4, FunctionsOfRuns
<1> DEFINE S == {i \in Nat : i <= Len(es) => v[i] = u[i]}
<1>6. 0 \in S BY <1>3, <1>5
<1>7. ASSUME NEW i \in S PROVE i + 1 \in S
  <2> SUFFICES ASSUME i + 1 <= Len(es) PROVE v[i + 1] = u[i + 1] OBVIOUS
  <2>1. i \in Nat /\ i <= Len(es) /\ i + 1 \in 1..Len(es) /\ (i + 1) - 1 = i /\ i + 1 \in 1..Len(ds)
    BY <1>1, <1>2
  <2>2. v[i + 1] = A(v[i], ds[i + 1]) BY <1>5, <2>1
  <2>3. u[i + 1] = A(u[i], es[i + 1]) BY <1>3, <2>1
  <2>4. v[i] = u[i] /\ ds[i + 1] = es[i + 1] BY <1>2, <2>1
  <2> HIDE DEF A
  <2> QED BY <2>2, <2>3, <2>4
<1>8. S \in SUBSET Nat OBVIOUS
<1> HIDE DEF S
<1>9. Len(es) \in S BY <1>1, <1>6, <1>7, <1>8, SetInduction
<1>10. v[Len(es)] = u[Len(es)] BY <1>1, <1>9 DEF S
<1>11. Len(ds) \in 1..Len(ds) /\ Len(ds) - 1 = Len(es) BY <1>1, <1>2
<1>12. v[Len(ds)] = A(v[Len(es)], e) BY <1>2, <1>5, <1>11
<1>13. v[Len(ds)] = Append(u[Len(es)], e) BY <1>10, <1>12
<1> QED BY <1>3, <1>5, <1>13 DEF ds

------------------------------------------------------------------------------
(* A module the engine accepts and the pass takes.                          *)

Has(m, id) == \E i \in DOMAIN m : m[i].id = id

Suitable(m) ==
  /\ IsModule(m) /\ Accepts(m) /\ BoundMemory(m) # Refused
  /\ \A e \in ToSet(EntriesOf(m, 7)) : e.name # Added
  /\ \A i \in DOMAIN m : Parses(m[i])

LEMMA OrdersAre ==
  /\ OrderOf(1) = 1 /\ OrderOf(2) = 2 /\ OrderOf(3) = 3 /\ OrderOf(4) = 4 /\ OrderOf(5) = 5
  /\ OrderOf(13) = 6 /\ OrderOf(6) = 7 /\ OrderOf(7) = 8 /\ OrderOf(8) = 9 /\ OrderOf(9) = 10
  /\ OrderOf(12) = 11 /\ OrderOf(10) = 12 /\ OrderOf(11) = 13
  /\ \A a \in SectionIds : OrderOf(a) \in 1..13
  /\ \A a, b \in SectionIds : OrderOf(a) = OrderOf(b) => a = b
<1>1. /\ OrderOf(1) = 1 /\ OrderOf(2) = 2 /\ OrderOf(3) = 3 /\ OrderOf(4) = 4 /\ OrderOf(5) = 5
      /\ OrderOf(13) = 6 /\ OrderOf(6) = 7 /\ OrderOf(7) = 8 /\ OrderOf(8) = 9 /\ OrderOf(9) = 10
      /\ OrderOf(12) = 11 /\ OrderOf(10) = 12 /\ OrderOf(11) = 13
  BY DEF OrderOf
<1>2. \A a \in SectionIds : a \in {1, 2, 3, 4, 5, 6, 7, 8, 9, 10, 11, 12, 13} BY DEF SectionIds
<1>3. \A a \in SectionIds : OrderOf(a) \in 1..13 BY <1>1, <1>2
<1>4. \A a, b \in SectionIds : OrderOf(a) = OrderOf(b) => a = b BY <1>1, <1>2
<1> QED BY <1>1, <1>3, <1>4

LEMMA HasNone ==
  ASSUME NEW m, NEW id, ~Has(m, id)
  PROVE  EntriesOf(m, id) = <<>>
BY DEF Has, EntriesOf

\* In section order there is one section of an id.
LEMMA OneOfEach ==
  ASSUME NEW m, DOMAIN m \subseteq Nat, InSectionOrder(m), NEW i \in DOMAIN m, m[i].id # 0
  PROVE  EntriesOf(m, m[i].id) = m[i].entries
<1> DEFINE at == {j \in DOMAIN m : m[j].id = m[i].id}
<1>1. ASSUME NEW j \in at PROVE j = i
  <2>1. OrderOf(m[j].id) = OrderOf(m[i].id) /\ OrderOf(m[i].id) \in 1..13
    BY OrdersAre DEF InSectionOrder
  <2>2. ~(i < j) /\ ~(j < i) BY <2>1 DEF InSectionOrder
  <2> QED BY <2>2
<1>2. i \in at OBVIOUS
<1>3. (CHOOSE j \in at : TRUE) = i BY <1>1, <1>2
<1>4. at # {} BY <1>2
<1>5. EntriesOf(m, m[i].id) = m[CHOOSE j \in at : TRUE].entries BY <1>4 DEF EntriesOf
<1> HIDE DEF at
<1> QED BY <1>3, <1>5

LEMMA EntriesAt ==
  ASSUME NEW m, IsModule(m), NEW id
  PROVE  EntriesOf(m, id) = <<>>
         \/ \E i \in DOMAIN m : m[i].id = id /\ EntriesOf(m, id) = m[i].entries
<1> DEFINE at == {j \in DOMAIN m : m[j].id = id}
<1>1. CASE at = {} BY <1>1 DEF EntriesOf
<1>2. CASE at # {}
  <2>1. (CHOOSE j \in at : TRUE) \in at BY <1>2
  <2>2. EntriesOf(m, id) = m[CHOOSE j \in at : TRUE].entries BY <1>2 DEF EntriesOf
  <2> QED BY <2>1, <2>2
<1> QED BY <1>1, <1>2

LEMMA ModuleIs ==
  ASSUME NEW m, IsModule(m)
  PROVE  /\ Len(m) \in Nat /\ DOMAIN m = 1..Len(m) /\ DOMAIN m \subseteq Nat
         /\ \A i \in DOMAIN m : "id" \in DOMAIN m[i] /\ "entries" \in DOMAIN m[i]
                                 /\ m[i].id \in Nat /\ IsSeq(m[i].entries) /\ IsEntries(m[i])
BY DEF IsModule

\* What stands in each section.
LEMMA SectionsAre ==
  ASSUME NEW m, IsModule(m)
  PROVE  /\ \A id : IsSeq(EntriesOf(m, id))
         /\ \A i \in DOMAIN EntriesOf(m, 2) : EntriesOf(m, 2)[i].type \in Nat
         /\ \A i \in DOMAIN EntriesOf(m, 3) : EntriesOf(m, 3)[i] \in Nat
         /\ \A i \in DOMAIN EntriesOf(m, 6) : EntriesOf(m, 6)[i] \in Nat \cup {Void}
         /\ \A i \in DOMAIN EntriesOf(m, 7) : IsExport(EntriesOf(m, 7)[i])
         /\ Has(m, 8) => Len(EntriesOf(m, 8)) = 1
         /\ \A i \in DOMAIN EntriesOf(m, 8) : EntriesOf(m, 8)[i] \in Nat
         /\ \A i \in DOMAIN EntriesOf(m, 9) : EntriesOf(m, 9)[i] \in Seq(Nat)
         /\ \A i \in DOMAIN EntriesOf(m, 10) :
              /\ EntriesOf(m, 10)[i].calls \in Seq(Nat) /\ EntriesOf(m, 10)[i].values \in Seq(Nat)
              /\ EntriesOf(m, 10)[i].locals \in Nat /\ EntriesOf(m, 10)[i].charged \in BOOLEAN
<1>1. \A id : IsSeq(EntriesOf(m, id)) BY EntriesAt, EmptyIs, ModuleIs
<1>2. ASSUME NEW id PROVE \A i \in DOMAIN EntriesOf(m, id) :
        \E j \in DOMAIN m : m[j].id = id /\ EntriesOf(m, id) = m[j].entries
  <2>1. DOMAIN <<>> = {} BY EmptyIs
  <2> QED BY <2>1, EntriesAt
<1>3. \A i \in DOMAIN EntriesOf(m, 2) : EntriesOf(m, 2)[i].type \in Nat
  BY <1>2, ModuleIs DEF IsEntries
<1>4. \A i \in DOMAIN EntriesOf(m, 3) : EntriesOf(m, 3)[i] \in Nat
  BY <1>2, ModuleIs DEF IsEntries
<1>5. \A i \in DOMAIN EntriesOf(m, 6) : EntriesOf(m, 6)[i] \in Nat \cup {Void}
  BY <1>2, ModuleIs DEF IsEntries
<1>6. \A i \in DOMAIN EntriesOf(m, 7) : IsExport(EntriesOf(m, 7)[i])
  BY <1>2, ModuleIs DEF IsEntries
<1>7. Has(m, 8) => Len(EntriesOf(m, 8)) = 1
  <2> SUFFICES ASSUME Has(m, 8) PROVE Len(EntriesOf(m, 8)) = 1 OBVIOUS
  <2> DEFINE at == {j \in DOMAIN m : m[j].id = 8}
  <2>1. at # {} BY DEF Has
  <2>2. (CHOOSE j \in at : TRUE) \in at BY <2>1
  <2>3. EntriesOf(m, 8) = m[CHOOSE j \in at : TRUE].entries BY <2>1 DEF EntriesOf
  <2>4. PICK j \in DOMAIN m : m[j].id = 8 /\ EntriesOf(m, 8) = m[j].entries BY <2>2, <2>3
  <2>5. IsEntries(m[j]) BY ModuleIs
  <2> QED BY <2>4, <2>5 DEF IsEntries
<1>8. \A i \in DOMAIN EntriesOf(m, 8) : EntriesOf(m, 8)[i] \in Nat
  <2> SUFFICES ASSUME NEW i \in DOMAIN EntriesOf(m, 8) PROVE EntriesOf(m, 8)[i] \in Nat OBVIOUS
  <2>1. PICK j \in DOMAIN m : m[j].id = 8 /\ EntriesOf(m, 8) = m[j].entries BY <1>2
  <2>2. IsEntries(m[j]) /\ IsSeq(m[j].entries) BY ModuleIs
  <2>3. Len(m[j].entries) = 1 /\ m[j].entries[1] \in Nat BY <2>1, <2>2 DEF IsEntries
  <2>4. i = 1 BY <2>1, <2>2, <2>3, SeqIs
  <2> QED BY <2>1, <2>3, <2>4
<1>9. \A i \in DOMAIN EntriesOf(m, 9) : EntriesOf(m, 9)[i] \in Seq(Nat)
  BY <1>2, ModuleIs DEF IsEntries
<1>10. \A i \in DOMAIN EntriesOf(m, 10) :
         /\ EntriesOf(m, 10)[i].calls \in Seq(Nat) /\ EntriesOf(m, 10)[i].values \in Seq(Nat)
         /\ EntriesOf(m, 10)[i].locals \in Nat /\ EntriesOf(m, 10)[i].charged \in BOOLEAN
  BY <1>2, ModuleIs DEF IsEntries
<1> QED BY <1>1, <1>3, <1>4, <1>5, <1>6, <1>7, <1>8, <1>9, <1>10

\* It has one memory, which fits the ceiling; boundMemory changes no more.
LEMMA MemoryFits ==
  ASSUME NEW m, Suitable(m)
  PROVE  /\ Has(m, 5) /\ BoundedMemory(EntriesOf(m, 5)) # <<>>
         /\ EntriesOf(BoundMemory(m), 5) = BoundedMemory(EntriesOf(m, 5))
<1> DEFINE at == {i \in DOMAIN m : m[i].id = 5}
           a == CHOOSE i \in at : TRUE
           b == BoundedMemory(m[a].entries)
           n == [m EXCEPT ![a].entries = b]
<1>1. IsModule(m) /\ InSectionOrder(m) /\ BoundMemory(m) # <<>> BY DEF Suitable, Accepts, Refused
<1>2. Cardinality(at) = 1 /\ b # <<>> /\ BoundMemory(m) = n BY <1>1 DEF BoundMemory, Refused
<1>3. at # {}
  <2>1. Cardinality(at) = 1 BY <1>2
  <2> HIDE DEF at
  <2> QED BY <2>1, FS_EmptySet
<1>4. a \in at BY <1>3
<1>5. a \in DOMAIN m /\ m[a].id = 5 /\ Has(m, 5) BY <1>4 DEF Has
<1>6. EntriesOf(m, 5) = m[a].entries BY <1>3 DEF EntriesOf
<1>7. DOMAIN n = DOMAIN m /\ (\A i \in DOMAIN m : i # a => n[i] = m[i])
      /\ n[a] = [m[a] EXCEPT !.entries = b]
  <2> HIDE DEF b, a
  <2> QED BY <1>5
<1>8. n[a].id = m[a].id /\ n[a].entries = b
  <2> DEFINE r == m[a]
  <2>1. "id" \in DOMAIN r /\ "entries" \in DOMAIN r BY <1>1, <1>5, ModuleIs
  <2> HIDE DEF r, b
  <2>2. [r EXCEPT !.entries = b].id = r.id /\ [r EXCEPT !.entries = b].entries = b BY <2>1
  <2>3. n[a] = [r EXCEPT !.entries = b] BY <1>7 DEF r
  <2> QED BY <2>2, <2>3 DEF r
<1>9. {i \in DOMAIN n : n[i].id = 5} = at
  <2> HIDE DEF n, a
  <2> QED BY <1>5, <1>7, <1>8
<1>10. EntriesOf(n, 5) = n[a].entries
  <2> HIDE DEF n
  <2> QED BY <1>3, <1>9 DEF EntriesOf
<1> HIDE DEF n, b, a, at
<1> QED BY <1>2, <1>5, <1>6, <1>8, <1>10 DEF b

LEMMA BoundedIs ==
  ASSUME NEW m, Suitable(m), ModuleAssumption
  PROVE  /\ IsSeq(BoundedMemory(EntriesOf(m, 5))) /\ Len(BoundedMemory(EntriesOf(m, 5))) = 1
         /\ \A memory \in ToSet(BoundedMemory(EntriesOf(m, 5))) :
              memory.initial <= memory.maximum /\ memory.maximum <= Pages
<1> DEFINE es == EntriesOf(m, 5)
           e == es[1]
           most == IF e.maximum = Void THEN AbsoluteMost ELSE e.maximum
           least == Min({Pages, most})
           b == [initial |-> e.initial, maximum |-> least, plain |-> TRUE]
<1>1. BoundedMemory(es) # <<>> BY MemoryFits
<1>2. Len(es) = 1 /\ ~(e.initial > most) /\ ~(e.initial > Pages) /\ BoundedMemory(es) = <<b>>
  BY <1>1 DEF BoundedMemory
<1>3. e.initial \in Nat /\ most \in Nat
  <2>1. PICK i \in DOMAIN m : m[i].id = 5 /\ es = m[i].entries
    <3>1. es # <<>> BY <1>2, EmptyIs
    <3> QED BY <3>1, EntriesAt DEF Suitable
  <2>2. IsEntries(m[i]) /\ IsSeq(m[i].entries) BY ModuleIs DEF Suitable
  <2>3. 1 \in DOMAIN m[i].entries BY <1>2, <2>1, <2>2, SeqIs
  <2>4. m[i].entries[1].initial \in Nat /\ m[i].entries[1].maximum \in Nat \cup {Void}
    BY <2>1, <2>2, <2>3 DEF IsEntries
  <2> HIDE DEF es
  <2> QED BY <2>1, <2>4 DEF AbsoluteMost
<1>4. Pages \in Nat BY DEF ModuleAssumption
<1> HIDE DEF most, e, es
<1>5. least \in {Pages, most} /\ least <= Pages /\ (least = Pages \/ least = most)
  <2>1. \E x \in {Pages, most} : \A y \in {Pages, most} : x <= y BY <1>3, <1>4
  <2> QED BY <2>1 DEF Min
<1> HIDE DEF least
<1>6. e.initial <= least BY <1>2, <1>3, <1>4, <1>5
<1>7. IsSeq(<<b>>) /\ Len(<<b>>) = 1 /\ ToSet(<<b>>) = {b}
  <2>1. <<b>> \in Seq({b}) /\ Len(<<b>>) = 1 /\ DOMAIN <<b>> = {1} /\ <<b>>[1] = b OBVIOUS
  <2> HIDE DEF b
  <2>2. {<<b>>[i] : i \in DOMAIN <<b>>} = {b} BY <2>1
  <2> QED BY <2>1, <2>2 DEF IsSeq, ToSet
<1>8. b.initial = e.initial /\ b.maximum = least OBVIOUS
<1> HIDE DEF b
<1> QED BY <1>2, <1>5, <1>6, <1>7, <1>8 DEF es

LEMMA NoFunctions == FunctionsOf(<<>>) = <<>> /\ GlobalCount(<<>>) = 0
<1>1. IsSeq(<<>>) /\ ToSet(<<>>) = {} BY EmptyIs DEF ToSet
<1>2. IsSeq(FunctionsOf(<<>>)) /\ ToSet(FunctionsOf(<<>>)) = {} BY <1>1, FunctionsOfIs
<1> DEFINE f == FunctionsOf(<<>>)
<1> HIDE DEF f
<1>3. f = <<>>
  <2>1. IsSeq(f) /\ ToSet(f) = {} BY <1>2 DEF f
  <2>2. Len(f) \in Nat /\ DOMAIN f = 1..Len(f) BY <2>1, SeqIs
  <2>3. DOMAIN f = {} BY <2>1 DEF ToSet
  <2>4. Len(f) = 0
    <3>1. 1 \notin DOMAIN f BY <2>3
    <3> QED BY <2>2, <3>1
  <2>5. f \in Seq({f[i] : i \in DOMAIN f}) BY <2>1 DEF IsSeq
  <2> QED BY <2>4, <2>5, EmptySeq
<1>4. GlobalCount(<<>>) = 0
  <2>1. {i \in DOMAIN <<>> : <<>>[i].kind = "global"} = {} BY EmptyIs
  <2> QED BY <2>1, FS_EmptySet DEF GlobalCount
<1> QED BY <1>3, <1>4 DEF f

LEMMA GlobalsCounted ==
  ASSUME NEW es, IsSeq(es)
  PROVE  /\ GlobalCount(es) \in Nat
         /\ \A e : e.kind # "global" => GlobalCount(Append(es, e)) = GlobalCount(es)
<1>1. Len(es) \in Nat /\ DOMAIN es = 1..Len(es) BY SeqIs
<1>2. IsFiniteSet({i \in DOMAIN es : es[i].kind = "global"})
  <2>1. IsFiniteSet(DOMAIN es) BY <1>1, FS_Interval
  <2> QED BY <2>1, FS_Subset
<1>3. GlobalCount(es) \in Nat
  <2> DEFINE G == {i \in DOMAIN es : es[i].kind = "global"}
  <2>1. IsFiniteSet(G) BY <1>2
  <2>2. GlobalCount(es) = Cardinality(G) BY DEF GlobalCount
  <2> HIDE DEF G
  <2> QED BY <2>1, <2>2, FS_CardinalityType
<1>4. ASSUME NEW e, e.kind # "global" PROVE GlobalCount(Append(es, e)) = GlobalCount(es)
  <2> DEFINE w == Append(es, e)
  <2>1. DOMAIN w = 1..(Len(es) + 1) /\ (\A i \in DOMAIN es : w[i] = es[i]) /\ w[Len(es) + 1] = e
    BY AppendIs
  <2> HIDE DEF w
  <2>2. {i \in DOMAIN w : w[i].kind = "global"} = {i \in DOMAIN es : es[i].kind = "global"}
    BY <1>1, <1>4, <2>1
  <2>3. GlobalCount(w) = GlobalCount(es) BY <2>2 DEF GlobalCount
  <2> QED BY <2>3 DEF w
<1> QED BY <1>3, <1>4

------------------------------------------------------------------------------
(* What holds between two sections: what the pass knows of the module once  *)
(* it has passed order L, and what it has emitted by then.                  *)

Count(m) == Len(FunctionImports(m))
ImportAdded(m) ==
  [kind |-> "function", type |-> Len(EntriesOf(m, 1)), known |-> TRUE, name |-> Added]
ExportAdded(m) == [name |-> Added, kind |-> "global", index |-> GlobalsOf(m)]

\* The functions used as values in the sections up to order L.
UsedBy(m, L) ==
  (IF L >= 7 THEN ToSet(EntriesOf(m, 6)) ELSE {})
    \cup (IF L >= 8 THEN ExportedFunctions(m) ELSE {})
    \cup (IF L >= 10 THEN Among(EntriesOf(m, 9)) ELSE {})

Knows(m, L, s) ==
  /\ DOMAIN s = Fields /\ s.ok = TRUE
  /\ s.types = (IF L >= 1 THEN Len(EntriesOf(m, 1)) ELSE 0)
  /\ s.imports = (IF L >= 2 THEN FunctionImports(m) ELSE <<>>)
  /\ s.globals = (IF L >= 7 THEN GlobalsOf(m)
                  ELSE IF L >= 2 THEN GlobalCount(EntriesOf(m, 2)) ELSE 0)
  /\ s.defined = (IF L >= 3 THEN EntriesOf(m, 3) ELSE <<>>)
  /\ (s.memory <=> L >= 5)
  /\ (s.code <=> L >= 12 /\ Has(m, 10))
  /\ ThunksIn(s)
  /\ ToSet(s.thunks) = Escaping(s, UsedBy(m, L))

\* g is what a value f became, T being the thunks.
Stands(m, T, f, g) ==
  \/ f = Void /\ g = Void
  \/ f \in Nat /\ f >= Count(m) /\ g = f + 1
  \/ f \in Nat /\ f < Count(m) /\ EntriesOf(m, 3) = <<>> /\ g = f
  \/ /\ f \in Nat /\ f < Count(m) /\ EntriesOf(m, 3) # <<>>
     /\ \E i \in DOMAIN T : T[i] = f /\ g = Count(m) + Len(EntriesOf(m, 3)) + i
StandsAll(m, T, fs, gs) ==
  IsSeq(gs) /\ Len(gs) = Len(fs) /\ \A i \in DOMAIN fs : Stands(m, T, fs[i], gs[i])

Shifted(m, f) == IF f >= Count(m) THEN f + 1 ELSE f
ShiftedAll(m, fs) == [i \in DOMAIN fs |-> Shifted(m, fs[i])]
ExportShifted(m, e) ==
  IF e.kind = "function" THEN [name |-> e.name, kind |-> e.kind, index |-> Shifted(m, e.index)]
  ELSE e

\* The entries a section of the output holds.
Types1(m, es) == es = Append(EntriesOf(m, 1), "type")
Imports2(m, es) == es = Append(EntriesOf(m, 2), ImportAdded(m))
Functions3(m, T, es) ==
  LET d == EntriesOf(m, 3)
  IN  /\ IsSeq(es) /\ Len(es) = Len(d) + Len(T)
      /\ \A i \in DOMAIN d : es[i] = d[i]
      /\ \A i \in DOMAIN T : es[Len(d) + i] = FunctionImports(m)[T[i] + 1].type
Globals6(m, T, es) ==
  LET d == EntriesOf(m, 6)
  IN  /\ IsSeq(es) /\ Len(es) = Len(d) + 1 /\ es[Len(d) + 1] = Void
      /\ \A i \in DOMAIN d : Stands(m, T, d[i], es[i])
Exports7(m, es) ==
  es = Append([i \in DOMAIN EntriesOf(m, 7) |-> ExportShifted(m, EntriesOf(m, 7)[i])],
              ExportAdded(m))
Start8(m, es) == es = <<Shifted(m, EntriesOf(m, 8)[1])>>
Elements9(m, T, es) ==
  LET d == EntriesOf(m, 9)
  IN  /\ IsSeq(es) /\ Len(es) = Len(d) + (IF T = <<>> THEN 0 ELSE 1)
      /\ \A i \in DOMAIN d : StandsAll(m, T, d[i], es[i])
      /\ T # <<>> => StandsAll(m, T, T, es[Len(d) + 1])
LocalsOf(body) == body.locals + (IF body.charged THEN 1 ELSE 0)
Code10(m, T, es) ==
  LET d == EntriesOf(m, 10)
  IN  /\ IsSeq(es) /\ Len(es) = Len(d) + Len(T)
      /\ \A i \in DOMAIN d :
           /\ es[i].calls = ShiftedAll(m, d[i].calls)
           /\ StandsAll(m, T, d[i].values, es[i].values)
           /\ es[i].locals = LocalsOf(d[i])
      /\ \A i \in DOMAIN T : es[Len(d) + i] = ThunkBody(T[i])
Names0(m, x) ==
  x.name = "name" =>
    \E i \in DOMAIN m :
      /\ m[i].id = 0 /\ m[i].name = "name" /\ x.entries = ShiftedAll(m, m[i].entries)

Fine(m, T, sealed, x) ==
  /\ x.id = 0 => Names0(m, x)
  /\ x.id = 1 => Types1(m, x.entries)
  /\ x.id = 2 => Imports2(m, x.entries)
  /\ x.id = 3 => Has(m, 3) /\ (sealed => Functions3(m, T, x.entries))
  /\ x.id = 5 => x.entries = BoundedMemory(EntriesOf(m, 5))
  /\ x.id = 6 => Globals6(m, T, x.entries)
  /\ x.id = 7 => Exports7(m, x.entries)
  /\ x.id = 8 => Has(m, 8) /\ Start8(m, x.entries)
  /\ x.id = 9 => sealed /\ (Has(m, 9) \/ T # <<>>) /\ Elements9(m, T, x.entries)
  /\ x.id = 10 => sealed /\ Has(m, 10) /\ Code10(m, T, x.entries)

Ordered(out, B) ==
  /\ IsSeq(out)
  /\ \A j \in DOMAIN out :
       out[j].id \in {0} \cup SectionIds /\ (out[j].id # 0 => OrderOf(out[j].id) <= B)
  /\ \A i, j \in DOMAIN out :
       i < j /\ out[i].id # 0 /\ out[j].id # 0 => OrderOf(out[i].id) < OrderOf(out[j].id)
AllFine(m, s) == \A j \in DOMAIN s.out : Fine(m, s.thunks, s.sealed, s.out[j])
AddedIds == {1, 2, 6, 7}
Present(m, L, s) ==
  /\ \A id \in AddedIds \ s.pending : Has(s.out, id)
  /\ \A id \in SectionIds : Has(m, id) /\ OrderOf(id) <= L => Has(s.out, id)
  /\ s.sealed /\ s.thunks # <<>> => Has(s.out, 9)
Slotted(s) ==
  \/ s.slot = 0 /\ ~Has(s.out, 3)
  \/ s.slot \in DOMAIN s.out /\ s.slot # 0 /\ s.out[s.slot].id = 3

Holds(m, L, B, s) ==
  /\ Knows(m, L, s) /\ Ordered(s.out, B) /\ AllFine(m, s) /\ Present(m, L, s) /\ Slotted(s)
  /\ s.pending \subseteq AddedIds
PassedTo(m, L, s) ==
  /\ Holds(m, L, L, s)
  /\ s.pending = {id \in AddedIds : OrderOf(id) > L}
  /\ s.sealed = (IF L >= 10 THEN TRUE ELSE FALSE) /\ (s.elements => s.sealed)

------------------------------------------------------------------------------
(* Emitting a section, and learning nothing new.                            *)

LEMMA HasAppend ==
  ASSUME NEW out, IsSeq(out), NEW x, NEW id
  PROVE  Has(Append(out, x), id) <=> Has(out, id) \/ x.id = id
<1> DEFINE w == Append(out, x)
<1>1. Len(out) \in Nat /\ DOMAIN out = 1..Len(out) BY SeqIs
<1>2. DOMAIN w = 1..(Len(out) + 1) /\ (\A i \in DOMAIN out : w[i] = out[i]) /\ w[Len(out) + 1] = x
  BY AppendIs
<1> HIDE DEF w
<1>3. Has(w, id) <=> Has(out, id) \/ x.id = id BY <1>1, <1>2 DEF Has
<1> QED BY <1>3 DEF w

LEMMA OrderedAppend ==
  ASSUME NEW out, NEW B \in Nat, Ordered(out, B), NEW x,
         x.id = 0 \/ (x.id \in SectionIds /\ OrderOf(x.id) > B)
  PROVE  Ordered(Append(out, x), IF x.id = 0 THEN B ELSE OrderOf(x.id))
<1> DEFINE w == Append(out, x)
           C == IF x.id = 0 THEN B ELSE OrderOf(x.id)
<1>1. Len(out) \in Nat /\ DOMAIN out = 1..Len(out) BY SeqIs DEF Ordered
<1>2. IsSeq(w) /\ DOMAIN w = 1..(Len(out) + 1) /\ (\A i \in DOMAIN out : w[i] = out[i])
      /\ w[Len(out) + 1] = x
  BY AppendIs DEF Ordered
<1>3. \A id \in SectionIds : OrderOf(id) \in Nat BY OrdersAre
<1>4. C \in Nat /\ B <= C BY <1>3
<1> HIDE DEF w
<1>5. ASSUME NEW j \in DOMAIN w
      PROVE  w[j].id \in {0} \cup SectionIds /\ (w[j].id # 0 => OrderOf(w[j].id) <= C)
  <2>1. CASE j \in DOMAIN out
    <3>1. w[j] = out[j] BY <1>2, <2>1
    <3>2. out[j].id \in {0} \cup SectionIds /\ (out[j].id # 0 => OrderOf(out[j].id) <= B)
      BY <2>1 DEF Ordered
    <3> HIDE DEF C
    <3> QED BY <1>3, <1>4, <3>1, <3>2
  <2>2. CASE j = Len(out) + 1 BY <1>2, <1>3, <2>2
  <2> QED BY <1>1, <1>2, <2>1, <2>2
<1>6. ASSUME NEW i \in DOMAIN w, NEW j \in DOMAIN w, i < j, w[i].id # 0, w[j].id # 0
      PROVE  OrderOf(w[i].id) < OrderOf(w[j].id)
  <2>1. i \in DOMAIN out /\ w[i] = out[i] BY <1>1, <1>2, <1>6
  <2>2. CASE j \in DOMAIN out
    <3>1. w[j] = out[j] BY <1>2, <2>2
    <3> QED BY <1>6, <2>1, <2>2, <3>1 DEF Ordered
  <2>3. CASE j = Len(out) + 1
    <3>1. w[j] = x BY <1>2, <2>3
    <3>2. out[i].id \in SectionIds /\ OrderOf(out[i].id) <= B BY <1>6, <2>1 DEF Ordered
    <3>3. x.id \in SectionIds /\ OrderOf(x.id) > B BY <1>6, <3>1
    <3> QED BY <1>3, <2>1, <3>1, <3>2, <3>3
  <2> QED BY <1>1, <1>2, <2>2, <2>3
<1>7. Ordered(w, C) BY <1>2, <1>5, <1>6 DEF Ordered
<1> QED BY <1>7 DEF w

LEMMA OrderedMore ==
  ASSUME NEW out, NEW B \in Nat, Ordered(out, B), NEW C \in Nat, B <= C
  PROVE  Ordered(out, C)
<1>1. \A id \in SectionIds : OrderOf(id) \in Nat BY OrdersAre
<1>2. \A j \in DOMAIN out : out[j].id # 0 => OrderOf(out[j].id) <= C
  <2> SUFFICES ASSUME NEW j \in DOMAIN out, out[j].id # 0 PROVE OrderOf(out[j].id) <= C OBVIOUS
  <2>1. out[j].id \in SectionIds /\ OrderOf(out[j].id) <= B BY DEF Ordered
  <2> QED BY <1>1, <2>1
<1> QED BY <1>2 DEF Ordered

\* A value that had a number keeps it.
LEMMA StandsStay ==
  ASSUME NEW m, NEW T, IsSeq(T), NEW U, IsSeq(U), Extends(T, U)
  PROVE  \A f, g : Stands(m, T, f, g) => Stands(m, U, f, g)
<1>1. \A i \in DOMAIN T : i \in DOMAIN U /\ U[i] = T[i] BY SeqIs DEF Extends
<1> QED BY <1>1 DEF Stands

LEMMA FineStays ==
  ASSUME NEW m, NEW T, IsSeq(T), NEW U, IsSeq(U), Extends(T, U), NEW x, Fine(m, T, FALSE, x)
  PROVE  Fine(m, U, FALSE, x)
<1>1. \A f, g : Stands(m, T, f, g) => Stands(m, U, f, g) BY StandsStay
<1>2. Globals6(m, T, x.entries) => Globals6(m, U, x.entries) BY <1>1 DEF Globals6
<1> QED BY <1>2 DEF Fine

\* What has been emitted stays when a section is emitted.
LEMMA AllFineAppend ==
  ASSUME NEW m, NEW s, AllFine(m, s), IsSeq(s.out), NEW t, NEW x, t.out = Append(s.out, x),
         t.sealed = s.sealed, IsSeq(s.thunks), IsSeq(t.thunks),
         t.thunks = s.thunks \/ (s.sealed = FALSE /\ Extends(s.thunks, t.thunks)),
         Fine(m, t.thunks, t.sealed, x)
  PROVE  AllFine(m, t)
<1> DEFINE w == Append(s.out, x)
<1>1. Len(s.out) \in Nat /\ DOMAIN s.out = 1..Len(s.out) BY SeqIs
<1>2. DOMAIN w = 1..(Len(s.out) + 1) /\ (\A i \in DOMAIN s.out : w[i] = s.out[i])
      /\ w[Len(s.out) + 1] = x
  BY AppendIs
<1> HIDE DEF w
<1>3. \A j \in DOMAIN s.out : Fine(m, t.thunks, t.sealed, s.out[j])
  <2>1. CASE t.thunks = s.thunks BY <2>1 DEF AllFine
  <2>2. CASE s.sealed = FALSE /\ Extends(s.thunks, t.thunks) BY <2>2, FineStays DEF AllFine
  <2> QED BY <2>1, <2>2
<1>4. \A j \in DOMAIN w : Fine(m, t.thunks, t.sealed, w[j])
  <2> SUFFICES ASSUME NEW j \in DOMAIN w PROVE Fine(m, t.thunks, t.sealed, w[j]) OBVIOUS
  <2>1. CASE j \in DOMAIN s.out BY <1>2, <1>3, <2>1
  <2>2. CASE j = Len(s.out) + 1 BY <1>2, <2>2
  <2> QED BY <1>1, <1>2, <2>1, <2>2
<1> QED BY <1>4 DEF AllFine, w

LEMMA SlottedAppend ==
  ASSUME NEW s, Slotted(s), IsSeq(s.out), NEW t, NEW x, t.out = Append(s.out, x),
         t.slot = s.slot, x.id # 3
  PROVE  Slotted(t)
<1>1. Len(s.out) \in Nat /\ DOMAIN s.out = 1..Len(s.out) BY SeqIs
<1>2. DOMAIN t.out = 1..(Len(s.out) + 1) /\ (\A i \in DOMAIN s.out : t.out[i] = s.out[i])
  BY AppendIs
<1>3. Has(t.out, 3) <=> Has(s.out, 3) BY HasAppend
<1>4. CASE s.slot = 0 /\ ~Has(s.out, 3) BY <1>3, <1>4 DEF Slotted
<1>5. CASE s.slot \in DOMAIN s.out /\ s.slot # 0 /\ s.out[s.slot].id = 3
  <2>1. s.slot \in DOMAIN t.out /\ t.out[s.slot] = s.out[s.slot] BY <1>1, <1>2, <1>5
  <2> QED BY <1>5, <2>1 DEF Slotted
<1> QED BY <1>4, <1>5 DEF Slotted

LEMMA KnowsStill ==
  ASSUME NEW m, NEW L, NEW s, Knows(m, L, s), NEW t,
         Alters(s, t, {"last", "pending", "slot", "out", "elements", "sealed"})
  PROVE  Knows(m, L, t)
<1>1. /\ t.ok = s.ok /\ t.types = s.types /\ t.imports = s.imports /\ t.globals = s.globals
      /\ t.defined = s.defined /\ t.memory = s.memory /\ t.code = s.code /\ t.thunks = s.thunks
      /\ DOMAIN t = Fields
  BY DEF Alters, Fields
<1>2. ThunksIn(t)
  <2>1. ThunksIn(s) BY DEF Knows
  <2> QED BY <1>1, <2>1 DEF ThunksIn, Imported
<1>3. \A F : Escaping(t, F) = Escaping(s, F) BY <1>1 DEF Escaping, Imported
<1> QED BY <1>1, <1>2, <1>3 DEF Knows

\* Orders without a section teach nothing.
LEMMA KnowsMore ==
  ASSUME NEW m, IsModule(m), Has(m, 5), NEW L \in Nat, NEW N \in Nat, L <= N, NEW s, Knows(m, L, s),
         \A id \in SectionIds : Has(m, id) => OrderOf(id) <= L \/ OrderOf(id) > N
  PROVE  Knows(m, N, s)
<1>1. \A id \in SectionIds : L < OrderOf(id) /\ OrderOf(id) <= N => EntriesOf(m, id) = <<>>
  <2>1. \A id \in SectionIds : OrderOf(id) \in Nat BY OrdersAre
  <2> QED BY <2>1, HasNone
<1>2. 1 \in SectionIds /\ 2 \in SectionIds /\ 3 \in SectionIds /\ 5 \in SectionIds /\ 6 \in SectionIds
      /\ 7 \in SectionIds /\ 9 \in SectionIds /\ 10 \in SectionIds
  BY DEF SectionIds
<1>3. /\ L < 1 /\ 1 <= N => EntriesOf(m, 1) = <<>>
      /\ L < 2 /\ 2 <= N => EntriesOf(m, 2) = <<>>
      /\ L < 3 /\ 3 <= N => EntriesOf(m, 3) = <<>>
      /\ L < 7 /\ 7 <= N => EntriesOf(m, 6) = <<>>
      /\ L < 8 /\ 8 <= N => EntriesOf(m, 7) = <<>>
      /\ L < 10 /\ 10 <= N => EntriesOf(m, 9) = <<>>
      /\ L < 12 /\ 12 <= N => ~Has(m, 10)
      /\ L >= 5 \/ N < 5
  BY <1>1, <1>2, OrdersAre
<1>4. Len(<<>>) = 0 /\ ToSet(<<>>) = {} BY EmptyIs DEF ToSet
<1>5. s.types = (IF N >= 1 THEN Len(EntriesOf(m, 1)) ELSE 0) BY <1>3, <1>4 DEF Knows
<1>6. s.imports = (IF N >= 2 THEN FunctionImports(m) ELSE <<>>)
  BY <1>3, NoFunctions DEF Knows, FunctionImports
<1>7. s.globals = (IF N >= 7 THEN GlobalsOf(m)
                   ELSE IF N >= 2 THEN GlobalCount(EntriesOf(m, 2)) ELSE 0)
  <2>1. L < 7 /\ 7 <= N => GlobalsOf(m) = GlobalCount(EntriesOf(m, 2)) + 0
    BY <1>3, <1>4 DEF GlobalsOf
  <2>2. L < 2 /\ 2 <= N => GlobalCount(EntriesOf(m, 2)) = 0 BY <1>3, NoFunctions
  <2>3. L < 7 /\ 7 <= N => L >= 2 BY <1>3
  <2>4. CASE L < 7 /\ 7 <= N
    <3>1. s.globals = GlobalCount(EntriesOf(m, 2)) BY <2>3, <2>4 DEF Knows
    <3>2. GlobalCount(EntriesOf(m, 2)) + 0 = GlobalCount(EntriesOf(m, 2))
      BY SectionsAre, GlobalsCounted
    <3> QED BY <2>1, <2>4, <3>1, <3>2
  <2>5. CASE ~(L < 7 /\ 7 <= N) BY <2>2, <2>5 DEF Knows
  <2> QED BY <2>4, <2>5
<1>8. s.defined = (IF N >= 3 THEN EntriesOf(m, 3) ELSE <<>>) BY <1>3 DEF Knows
<1>9. s.memory <=> N >= 5 BY <1>3 DEF Knows
<1>10. s.code <=> N >= 12 /\ Has(m, 10) BY <1>3 DEF Knows
<1>11. UsedBy(m, N) = UsedBy(m, L)
  <2>1. L < 8 /\ 8 <= N => ExportedFunctions(m) = {} BY <1>3, <1>4 DEF ExportedFunctions
  <2>2. L < 10 /\ 10 <= N => Among(EntriesOf(m, 9)) = {} BY <1>3, <1>4 DEF Among
  <2>3. L < 7 /\ 7 <= N => ToSet(EntriesOf(m, 6)) = {} BY <1>3, <1>4
  <2> QED BY <2>1, <2>2, <2>3 DEF UsedBy
<1> QED BY <1>5, <1>6, <1>7, <1>8, <1>9, <1>10, <1>11 DEF Knows

LEMMA EmitIs ==
  ASSUME NEW s, DOMAIN s = Fields, NEW id, NEW es
  PROVE  /\ Alters(s, Emit(s, id, es), {"out"})
         /\ Emit(s, id, es).out = Append(s.out, [id |-> id, entries |-> es])
<1> DEFINE w == Append(s.out, [id |-> id, entries |-> es])
           r == [s EXCEPT !.out = w]
<1>1. Alters(s, r, {"out"}) /\ r.out = w BY FieldSet, FieldNames
<1>2. Emit(s, id, es) = r BY DEF Emit
<1> QED BY <1>1, <1>2

LEMMA NoCustomId == 0 \notin SectionIds BY DEF SectionIds

\* A section is emitted, any but the functions', which are filled in later.
LEMMA EmitHolds ==
  ASSUME NEW m, NEW N \in Nat, NEW M \in Nat, NEW b \in Nat, NEW s, Holds(m, N, b, s),
         NEW t, Knows(m, M, t), NEW x, x.id \in SectionIds \ {3}, OrderOf(x.id) > b,
         t.out = Append(s.out, x), t.slot = s.slot, t.sealed = s.sealed,
         t.thunks = s.thunks \/ (s.sealed = FALSE /\ Extends(s.thunks, t.thunks)),
         Fine(m, t.thunks, t.sealed, x),
         t.pending \subseteq AddedIds, s.pending \subseteq t.pending \cup {x.id},
         \A id \in SectionIds : Has(m, id) /\ OrderOf(id) <= M => OrderOf(id) <= N \/ id = x.id
  PROVE  Holds(m, M, OrderOf(x.id), t)
<1>1. IsSeq(s.out) /\ IsSeq(s.thunks) /\ IsSeq(t.thunks) BY DEF Holds, Knows, Ordered, ThunksIn
<1>2. \A id : Has(t.out, id) <=> Has(s.out, id) \/ x.id = id BY <1>1, HasAppend
<1>3. Ordered(t.out, OrderOf(x.id))
  <2>1. x.id # 0 BY NoCustomId, Zenon
  <2>2. Ordered(s.out, b) BY DEF Holds
  <2>3. Ordered(Append(s.out, x), IF x.id = 0 THEN b ELSE OrderOf(x.id)) BY <2>2, OrderedAppend
  <2> QED BY <2>1, <2>3
<1>4. AllFine(m, t) BY <1>1, AllFineAppend DEF Holds
<1>5. Slotted(t) BY <1>1, SlottedAppend DEF Holds
<1>6. Present(m, M, t)
  <2>1. \A id \in AddedIds \ t.pending : Has(t.out, id) BY <1>2 DEF Holds, Present
  <2>2. \A id \in SectionIds : Has(m, id) /\ OrderOf(id) <= M => Has(t.out, id)
    BY <1>2 DEF Holds, Present
  <2>3. t.sealed /\ t.thunks # <<>> => Has(t.out, 9) BY <1>2 DEF Holds, Present
  <2> QED BY <2>1, <2>2, <2>3 DEF Present
<1> QED BY <1>3, <1>4, <1>5, <1>6 DEF Holds

\* No section of the module stands between the orders L and N.
Gap(m, L, N) == \A id \in SectionIds : Has(m, id) => OrderOf(id) <= L \/ OrderOf(id) > N

LEMMA HoldsMore ==
  ASSUME NEW m, IsModule(m), Has(m, 5), NEW L \in Nat, NEW N \in Nat, L <= N, Gap(m, L, N),
         NEW b, NEW s, Holds(m, L, b, s)
  PROVE  Holds(m, N, b, s)
<1>1. Knows(m, N, s) BY KnowsMore DEF Holds, Gap
<1>2. Present(m, N, s)
  <2>1. \A id \in SectionIds : OrderOf(id) \in Nat BY OrdersAre
  <2>2. \A id \in SectionIds : Has(m, id) /\ OrderOf(id) <= N => OrderOf(id) <= L BY <2>1 DEF Gap
  <2> QED BY <2>2 DEF Holds, Present
<1> QED BY <1>1, <1>2 DEF Holds

\* Between L and N the added sections below order c are there.
Before(m, L, N, c, s) ==
  /\ \E b \in Nat :
       /\ b <= N /\ Holds(m, N, b, s)
       /\ \A p \in s.pending : OrderOf(p) > b
       /\ s.sealed = TRUE \/ b < 10
  /\ \A p \in s.pending : OrderOf(p) > L /\ (OrderOf(p) <= N => OrderOf(p) >= c)
  /\ \A p \in AddedIds : OrderOf(p) > N => p \in s.pending
  /\ s.sealed = (IF L >= 10 THEN TRUE ELSE FALSE) /\ (s.elements => s.sealed)

LEMMA AddedFine ==
  ASSUME NEW m, NEW N \in Nat, NEW s, Knows(m, N, s), NEW id \in AddedIds, OrderOf(id) <= N,
         ~Has(m, id), NEW T, NEW z
  PROVE  Fine(m, T, z, [id |-> id, entries |-> <<AddedEntry(s, id)>>])
<1> DEFINE x == [id |-> id, entries |-> <<AddedEntry(s, id)>>]
<1>1. EntriesOf(m, id) = <<>> BY HasNone
<1>2. x.id = id /\ x.entries = <<AddedEntry(s, id)>> OBVIOUS
<1>3. \A e : Append(<<>>, e) = <<e>> OBVIOUS
<1> HIDE DEF x
<1>4. CASE id = 1
  <2>1. AddedEntry(s, id) = "type" BY <1>4 DEF AddedEntry
  <2>2. Types1(m, x.entries) BY <1>1, <1>2, <1>3, <1>4, <2>1 DEF Types1
  <2> QED BY <1>2, <1>4, <2>2 DEF Fine, x
<1>5. CASE id = 2
  <2>1. s.types = Len(EntriesOf(m, 1)) BY <1>5, OrdersAre DEF Knows
  <2>2. AddedEntry(s, id) = ImportAdded(m) BY <1>5, <2>1 DEF AddedEntry, ImportAdded
  <2>3. Imports2(m, x.entries) BY <1>1, <1>2, <1>3, <1>5, <2>2 DEF Imports2
  <2> QED BY <1>2, <1>5, <2>3 DEF Fine, x
<1>6. CASE id = 6
  <2>1. AddedEntry(s, id) = Void BY <1>6 DEF AddedEntry
  <2>2. x.entries = Append(<<>>, Void) BY <1>2, <1>3, <2>1
  <2>3. IsSeq(x.entries) /\ Len(x.entries) = 1 /\ x.entries[1] = Void
    <3> DEFINE w == Append(<<>>, Void)
    <3>1. IsSeq(w) /\ Len(w) = Len(<<>>) + 1 /\ w[Len(<<>>) + 1] = Void BY AppendIs, EmptyIs
    <3> HIDE DEF w
    <3>2. IsSeq(w) /\ Len(w) = 1 /\ w[1] = Void BY <3>1, EmptyIs
    <3> QED BY <2>2, <3>2 DEF w
  <2>4. Globals6(m, T, x.entries) BY <1>1, <1>6, <2>3, EmptyIs DEF Globals6
  <2> QED BY <1>2, <1>6, <2>4 DEF Fine, x
<1>7. CASE id = 7
  <2>1. s.globals = GlobalsOf(m) BY <1>7, OrdersAre DEF Knows
  <2>2. AddedEntry(s, id) = ExportAdded(m) BY <1>7, <2>1 DEF AddedEntry, ExportAdded
  <2>3. [i \in DOMAIN EntriesOf(m, 7) |-> ExportShifted(m, EntriesOf(m, 7)[i])] = <<>>
    BY <1>1, <1>7, EmptyIs
  <2>4. Exports7(m, x.entries) BY <1>2, <1>3, <2>2, <2>3 DEF Exports7
  <2> QED BY <1>2, <1>7, <2>4 DEF Fine, x
<1> QED BY <1>4, <1>5, <1>6, <1>7 DEF AddedIds

LEMMA SingleIs ==
  ASSUME NEW m, NEW L \in Nat, NEW N \in Nat, L <= N, Gap(m, L, N), NEW id \in AddedIds,
         NEW s, Before(m, L, N, OrderOf(id), s)
  PROVE  /\ Before(m, L, N, OrderOf(id) + 1, Single(s, id, N + 1))
         /\ Single(s, id, N + 1).last = s.last
<1> DEFINE t == Single(s, id, N + 1)
<1>0. /\ AddedIds \subseteq SectionIds /\ 3 \notin AddedIds
      /\ (\A p \in AddedIds : OrderOf(p) \in Nat /\ OrderOf(p) < 10)
      /\ (\A p \in SectionIds : OrderOf(p) \in Nat)
      /\ \A p, q \in AddedIds : OrderOf(p) = OrderOf(q) => p = q
  BY OrdersAre DEF AddedIds, SectionIds
<1>1. PICK b \in Nat : /\ b <= N /\ Holds(m, N, b, s)
                       /\ \A p \in s.pending : OrderOf(p) > b
                       /\ s.sealed = TRUE \/ b < 10
  BY DEF Before
<1>2. s.pending \subseteq AddedIds /\ DOMAIN s = Fields BY <1>1 DEF Holds, Knows
<1>3. CASE ~(id \in s.pending /\ N + 1 > OrderOf(id))
  <2>1. t = s BY <1>3 DEF Single
  <2>2. \A p \in s.pending : OrderOf(p) <= N => OrderOf(p) >= OrderOf(id) + 1
    <3> SUFFICES ASSUME NEW p \in s.pending, OrderOf(p) <= N PROVE OrderOf(p) >= OrderOf(id) + 1
      OBVIOUS
    <3>1. OrderOf(p) >= OrderOf(id) BY DEF Before
    <3>2. p # id BY <1>0, <1>3
    <3> QED BY <1>0, <1>2, <3>1, <3>2
  <2> HIDE DEF t
  <2>3. Before(m, L, N, OrderOf(id) + 1, s) BY <2>2 DEF Before
  <2> QED BY <2>1, <2>3 DEF t
<1>4. CASE id \in s.pending /\ N + 1 > OrderOf(id)
  <2> DEFINE r == [s EXCEPT !.pending = @ \ {id}]
             es == <<AddedEntry(s, id)>>
             x == [id |-> id, entries |-> es]
  <2>1. t = Emit(r, id, es) BY <1>4 DEF Single
  <2>2. Alters(s, r, {"pending"}) /\ r.pending = s.pending \ {id}
    <3> DEFINE P == s.pending \ {id}
    <3>1. r = [s EXCEPT !.pending = P] OBVIOUS
    <3> HIDE DEF P, r
    <3>2. Alters(s, r, {"pending"}) /\ r.pending = P BY <1>2, <3>1, FieldSet, FieldNames
    <3> QED BY <3>2 DEF P
  <2> HIDE DEF r
  <2>3. Alters(r, t, {"out"}) /\ t.out = Append(r.out, x) BY <2>1, <2>2, EmitIs DEF Alters
  <2> HIDE DEF t, es
  <2>4. Alters(s, t, {"pending"} \cup {"out"}) BY <2>2, <2>3, AltersTwice
  <2>5. /\ t.out = Append(s.out, x) /\ t.pending = s.pending \ {id} /\ t.slot = s.slot
        /\ t.sealed = s.sealed /\ t.thunks = s.thunks /\ t.last = s.last /\ t.elements = s.elements
    BY <2>2, <2>3, <2>4, FieldNames DEF Alters
  <2>6. Knows(m, N, t)
    <3>1. Alters(s, t, {"last", "pending", "slot", "out", "elements", "sealed"})
      BY <2>4 DEF Alters
    <3>2. Knows(m, N, s) BY <1>1 DEF Holds
    <3> QED BY <3>1, <3>2, KnowsStill
  <2>7. ~Has(m, id)
    <3>1. OrderOf(id) > L BY <1>4 DEF Before
    <3> QED BY <1>0, <1>4, <3>1 DEF Gap
  <2>8. OrderOf(id) <= N BY <1>0, <1>4
  <2>9. Fine(m, t.thunks, t.sealed, x)
    <3>1. Knows(m, N, s) BY <1>1 DEF Holds
    <3> QED BY <2>7, <2>8, <3>1, AddedFine DEF es
  <2>10. x.id = id OBVIOUS
  <2>11. OrderOf(id) > b BY <1>1, <1>4
  <2> HIDE DEF x
  <2>12. Holds(m, N, OrderOf(id), t)
    <3>1. t.pending \subseteq AddedIds /\ s.pending \subseteq t.pending \cup {x.id}
      BY <1>2, <2>5, <2>10
    <3>2. x.id \in SectionIds \ {3} BY <1>0, <2>10
    <3> QED BY <1>1, <2>5, <2>6, <2>9, <2>10, <2>11, <3>1, <3>2, EmitHolds
  <2>13. \A p \in t.pending : OrderOf(p) > OrderOf(id) \/ OrderOf(p) > N
    <3> SUFFICES ASSUME NEW p \in t.pending PROVE OrderOf(p) > OrderOf(id) \/ OrderOf(p) > N OBVIOUS
    <3>1. p \in s.pending /\ p # id BY <2>5
    <3>2. OrderOf(p) <= N => OrderOf(p) >= OrderOf(id) BY <3>1 DEF Before
    <3> QED BY <1>0, <1>2, <3>1, <3>2
  <2>14. Before(m, L, N, OrderOf(id) + 1, t)
    <3>1. \A p \in t.pending : OrderOf(p) > OrderOf(id) BY <1>0, <1>2, <2>5, <2>8, <2>13
    <3>2. \A p \in t.pending : OrderOf(p) > L /\ (OrderOf(p) <= N => OrderOf(p) >= OrderOf(id) + 1)
      <4> SUFFICES ASSUME NEW p \in t.pending
                   PROVE OrderOf(p) > L /\ (OrderOf(p) <= N => OrderOf(p) >= OrderOf(id) + 1)
        OBVIOUS
      <4>1. p \in s.pending /\ p \in AddedIds BY <1>2, <2>5
      <4> QED BY <1>0, <3>1, <4>1 DEF Before
    <3>3. \A p \in AddedIds : OrderOf(p) > N => p \in t.pending
      <4>1. \A p \in AddedIds : OrderOf(p) > N => p \in s.pending BY DEF Before
      <4> QED BY <1>0, <2>5, <2>8, <4>1
    <3>4. OrderOf(id) \in Nat /\ OrderOf(id) < 10 BY <1>0
    <3>5. t.sealed = (IF L >= 10 THEN TRUE ELSE FALSE) /\ (t.elements => t.sealed)
      BY <2>5 DEF Before
    <3> QED BY <2>8, <2>12, <3>1, <3>2, <3>3, <3>4, <3>5 DEF Before
  <2> QED BY <2>5, <2>14 DEF t
<1> QED BY <1>3, <1>4

LEMMA CountIs ==
  ASSUME NEW m, IsModule(m)
  PROVE  /\ Count(m) \in Nat /\ IsSeq(FunctionImports(m)) /\ Len(EntriesOf(m, 3)) \in Nat
         /\ \A i \in DOMAIN FunctionImports(m) : FunctionImports(m)[i].type \in Nat
<1>1. IsSeq(EntriesOf(m, 2)) /\ IsSeq(EntriesOf(m, 3)) BY SectionsAre
<1>2. IsSeq(FunctionImports(m))
      /\ ToSet(FunctionImports(m)) = {e \in ToSet(EntriesOf(m, 2)) : e.kind = "function"}
  BY <1>1, FunctionsOfIs DEF FunctionImports
<1>3. ASSUME NEW i \in DOMAIN FunctionImports(m) PROVE FunctionImports(m)[i].type \in Nat
  <2>1. FunctionImports(m)[i] \in ToSet(EntriesOf(m, 2)) BY <1>2 DEF ToSet
  <2> QED BY <2>1, SectionsAre DEF ToSet
<1> QED BY <1>1, <1>2, <1>3, SeqIs DEF Count

\* A value's number, once the imports and the functions are known.
LEMMA ValueIs ==
  ASSUME NEW m, IsModule(m), ModuleAssumption, NEW L \in Nat, L >= 3, NEW s, Knows(m, L, s),
         NEW f \in Nat \cup {Void}, Escaping(s, {f}) \subseteq ToSet(s.thunks)
  PROVE  Stands(m, s.thunks, f, ValueOf(s, f))
<1>1. Imported(s) = Count(m) /\ s.defined = EntriesOf(m, 3) /\ Count(m) \in Nat
  BY CountIs DEF Knows, Imported, Count
<1>2. Void \notin Nat BY DEF ModuleAssumption
<1>3. CASE f = Void BY <1>3 DEF ValueOf, Stands
<1>4. CASE f # Void /\ f >= Imported(s)
  <2>0. ~(f < Imported(s)) BY <1>1, <1>4
  <2>1. ValueOf(s, f) = f + 1 BY <1>4, <2>0 DEF ValueOf
  <2> QED BY <1>1, <1>4, <2>1 DEF Stands
<1>5. CASE f # Void /\ f < Imported(s) /\ s.defined = <<>>
  <2>1. ~(f >= Imported(s)) BY <1>1, <1>5
  <2>2. ValueOf(s, f) = f BY <1>5, <2>1 DEF ValueOf
  <2> QED BY <1>1, <1>5, <2>2 DEF Stands
<1>6. CASE f # Void /\ f < Imported(s) /\ s.defined # <<>>
  <2> DEFINE at == CHOOSE i \in DOMAIN s.thunks : s.thunks[i] = f
  <2>1. ~(f >= Imported(s)) BY <1>1, <1>6
  <2>2. ValueOf(s, f) = Imported(s) + Len(s.defined) + at BY <1>6, <2>1 DEF ValueOf
  <2>3. f \in ToSet(s.thunks) BY <1>6 DEF Escaping
  <2>4. at \in DOMAIN s.thunks /\ s.thunks[at] = f BY <2>3 DEF ToSet
  <2> HIDE DEF at
  <2> QED BY <1>1, <1>6, <2>2, <2>4 DEF Stands
<1>7. f >= Imported(s) \/ f < Imported(s) \/ f = Void BY <1>1
<1> QED BY <1>3, <1>4, <1>5, <1>6, <1>7

LEMMA ValuesAre ==
  ASSUME NEW m, IsModule(m), ModuleAssumption, NEW L \in Nat, L >= 3, NEW s, Knows(m, L, s),
         NEW fs, IsSeq(fs), Functions(ToSet(fs)), Escaping(s, ToSet(fs)) \subseteq ToSet(s.thunks)
  PROVE  StandsAll(m, s.thunks, fs, Values(s, fs))
<1> DEFINE w == Values(s, fs)
<1>1. Len(fs) \in Nat /\ DOMAIN fs = 1..Len(fs) BY SeqIs
<1>2. w = [i \in 1..Len(fs) |-> ValueOf(s, fs[i])] BY <1>1 DEF Values
<1> HIDE DEF w
<1>3. IsSeq(w) /\ Len(w) = Len(fs) BY <1>1, <1>2, ListIs
<1>4. ASSUME NEW i \in DOMAIN fs PROVE Stands(m, s.thunks, fs[i], w[i])
  <2>1. fs[i] \in ToSet(fs) BY DEF ToSet
  <2>2. fs[i] \in Nat \cup {Void} BY <2>1 DEF Functions
  <2>3. Escaping(s, {fs[i]}) \subseteq ToSet(s.thunks) BY <2>1 DEF Escaping
  <2>4. w[i] = ValueOf(s, fs[i]) BY <1>1, <1>2
  <2> QED BY <2>2, <2>3, <2>4, ValueIs
<1> QED BY <1>3, <1>4 DEF StandsAll, w

LEMMA ThunksStand ==
  ASSUME NEW m, IsModule(m), ModuleAssumption, NEW L \in Nat, L >= 3, NEW s, Knows(m, L, s)
  PROVE  StandsAll(m, s.thunks, s.thunks, ThunkValues(s))
<1>1. ThunksIn(s) BY DEF Knows
<1>2. IsSeq(s.thunks) /\ Functions(ToSet(s.thunks)) BY <1>1 DEF ThunksIn, Functions, ToSet
<1>3. Escaping(s, ToSet(s.thunks)) \subseteq ToSet(s.thunks) BY DEF Escaping
<1> QED BY <1>2, <1>3, ValuesAre DEF ThunkValues

------------------------------------------------------------------------------
(* The added sections, and the function section's entries.                  *)

LEMMA BeforeMore ==
  ASSUME NEW m, NEW L, NEW N, NEW c, NEW d, NEW s, Before(m, L, N, c, s),
         \A p \in AddedIds : OrderOf(p) >= c => OrderOf(p) >= d
  PROVE  Before(m, L, N, d, s)
<1>1. s.pending \subseteq AddedIds BY DEF Before, Holds
<1> QED BY <1>1 DEF Before

LEMMA SinglesAre ==
  ASSUME NEW m, NEW L \in Nat, NEW N \in Nat, L <= N, Gap(m, L, N),
         NEW s, Before(m, L, N, 1, s)
  PROVE  Before(m, L, N, 9, Singles(s, N + 1)) /\ Singles(s, N + 1).last = s.last
<1> DEFINE a == Single(s, 1, N + 1)
           b == Single(a, 2, N + 1)
           c == Single(b, 6, N + 1)
           d == Single(c, 7, N + 1)
<1>0. OrderOf(1) = 1 /\ OrderOf(2) = 2 /\ OrderOf(6) = 7 /\ OrderOf(7) = 8 BY OrdersAre
<1>1. Before(m, L, N, OrderOf(1) + 1, a) /\ a.last = s.last BY <1>0, SingleIs DEF AddedIds
<1> HIDE DEF a
<1>2. Before(m, L, N, OrderOf(2), a) BY <1>0, <1>1, BeforeMore DEF AddedIds
<1>3. Before(m, L, N, OrderOf(2) + 1, b) /\ b.last = a.last BY <1>2, SingleIs DEF AddedIds
<1> HIDE DEF b
<1>4. Before(m, L, N, OrderOf(6), b) BY <1>0, <1>3, BeforeMore DEF AddedIds
<1>5. Before(m, L, N, OrderOf(6) + 1, c) /\ c.last = b.last BY <1>4, SingleIs DEF AddedIds
<1> HIDE DEF c
<1>6. Before(m, L, N, OrderOf(7), c) BY <1>0, <1>5, BeforeMore DEF AddedIds
<1>7. Before(m, L, N, OrderOf(7) + 1, d) /\ d.last = c.last BY <1>6, SingleIs DEF AddedIds
<1> HIDE DEF d
<1>8. Before(m, L, N, 9, d) BY <1>0, <1>7, BeforeMore DEF AddedIds
<1>9. Singles(s, N + 1) = d BY DEF Singles, a, b, c, d
<1> QED BY <1>1, <1>3, <1>5, <1>7, <1>8, <1>9

LEMMA OrderedReplace ==
  ASSUME NEW out, NEW B, Ordered(out, B), NEW w, IsSeq(w), DOMAIN w = DOMAIN out,
         \A j \in DOMAIN out : w[j].id = out[j].id
  PROVE  Ordered(w, B)
BY DEF Ordered

\* Everything is there but the function section's entries.
Ready(m, N, b, d) ==
  /\ Knows(m, N, d) /\ Ordered(d.out, b) /\ Slotted(d) /\ d.pending \subseteq AddedIds
  /\ \A j \in DOMAIN d.out :
       /\ d.out[j].id = 3 => Has(m, 3)
       /\ d.out[j].id # 3 => Fine(m, d.thunks, TRUE, d.out[j])
  /\ \A id \in AddedIds \ d.pending : Has(d.out, id)
  /\ \A id \in SectionIds : Has(m, id) /\ OrderOf(id) <= N => Has(d.out, id)
  /\ d.thunks # <<>> => Has(d.out, 9)

ThunkTypes(s) ==
  s.defined \o [i \in DOMAIN s.thunks |-> s.imports[s.thunks[i] + 1].type]
FillIn(d) ==
  [d EXCEPT !.sealed = TRUE,
            !.out = IF d.slot = 0 THEN @
                    ELSE [@ EXCEPT ![d.slot] = [id |-> 3, entries |-> ThunkTypes(d)]]]

LEMMA FillInAlters ==
  ASSUME NEW d, DOMAIN d = Fields
  PROVE  /\ Alters(d, FillIn(d), {"sealed", "out"}) /\ FillIn(d).sealed = TRUE
         /\ FillIn(d).out = IF d.slot = 0 THEN d.out
                           ELSE [d.out EXCEPT ![d.slot] = [id |-> 3, entries |-> ThunkTypes(d)]]
<1> DEFINE x == [id |-> 3, entries |-> ThunkTypes(d)]
           w == IF d.slot = 0 THEN d.out ELSE [d.out EXCEPT ![d.slot] = x]
           r == [d EXCEPT !.sealed = TRUE]
           t == [r EXCEPT !.out = w]
<1>1. Alters(d, r, {"sealed"}) /\ r.sealed = TRUE BY FieldSet, FieldNames
<1>2. FillIn(d) = t
  <2>1. r.out = d.out BY <1>1, FieldNames DEF Alters
  <2>2. FillIn(d) = [[d EXCEPT !.sealed = TRUE] EXCEPT
                       !.out = IF d.slot = 0 THEN @ ELSE [@ EXCEPT ![d.slot] = x]]
    BY DEF FillIn
  <2> QED BY <2>1, <2>2
<1> HIDE DEF r, x
<1>3. Alters(r, t, {"out"}) /\ t.out = w BY <1>1, FieldSet, FieldNames DEF Alters
<1> HIDE DEF t
<1>4. Alters(d, t, {"sealed"} \cup {"out"}) BY <1>1, <1>3, AltersTwice
<1>5. {"sealed"} \cup {"out"} = {"sealed", "out"} OBVIOUS
<1>6. t.sealed = TRUE BY <1>1, <1>3, FieldNames DEF Alters
<1> QED BY <1>2, <1>3, <1>4, <1>5, <1>6 DEF x

LEMMA FillInIs ==
  ASSUME NEW m, IsModule(m), NEW N \in Nat, N >= 3, NEW b \in Nat, NEW d, Ready(m, N, b, d)
  PROVE  Holds(m, N, b, FillIn(d))
<1> DEFINE es == ThunkTypes(d)
           x == [id |-> 3, entries |-> es]
           w == IF d.slot = 0 THEN d.out ELSE [d.out EXCEPT ![d.slot] = x]
           t == FillIn(d)
           T == d.thunks
<1>0. DOMAIN d = Fields /\ IsSeq(d.out) /\ IsSeq(T) /\ ThunksIn(d)
  BY DEF Ready, Knows, Ordered, ThunksIn
<1>1. Alters(d, t, {"sealed", "out"}) /\ t.sealed = TRUE /\ t.out = w BY <1>0, FillInAlters
<1> HIDE DEF t, w, x
<1>5. t.out = w /\ t.sealed = TRUE /\ t.thunks = T /\ t.slot = d.slot /\ t.pending = d.pending
  BY <1>1, FieldNames DEF Alters
<1>6. Knows(m, N, t)
  <2>1. Alters(d, t, {"last", "pending", "slot", "out", "elements", "sealed"}) BY <1>1 DEF Alters
  <2> QED BY <2>1, KnowsStill DEF Ready
<1>7. Functions3(m, T, es)
  <2>1. d.defined = EntriesOf(m, 3) /\ d.imports = FunctionImports(m) BY DEF Ready, Knows
  <2> DEFINE u == [i \in DOMAIN T |-> d.imports[T[i] + 1].type]
  <2>2. Len(T) \in Nat /\ DOMAIN T = 1..Len(T) BY <1>0, SeqIs
  <2>3. IsSeq(u) /\ Len(u) = Len(T)
    <3>1. u = [i \in 1..Len(T) |-> u[i]] BY <2>2
    <3> HIDE DEF u
    <3> QED BY <2>2, <3>1, ListIs
  <2>4. \A i \in DOMAIN T : i \in DOMAIN u /\ u[i] = FunctionImports(m)[T[i] + 1].type BY <2>1
  <2>5. es = EntriesOf(m, 3) \o u BY <2>1 DEF ThunkTypes
  <2>6. IsSeq(EntriesOf(m, 3)) BY SectionsAre
  <2> HIDE DEF u, es, T
  <2> DEFINE v == EntriesOf(m, 3)
             c == v \o u
  <2>7. IsSeq(v) BY <2>6
  <2> HIDE DEF v
  <2>8. /\ IsSeq(c) /\ Len(c) = Len(v) + Len(u) /\ (\A i \in DOMAIN v : c[i] = v[i])
        /\ \A i \in DOMAIN u : c[Len(v) + i] = u[i]
    <3>1. IsSeq(u) BY <2>3
    <3>2. IsSeq(c) /\ Len(c) = Len(v) + Len(u) /\ (\A i \in DOMAIN v : c[i] = v[i])
      BY <2>7, <3>1, ConcatIs
    <3>3. ASSUME NEW i \in DOMAIN u PROVE c[Len(v) + i] = u[i]
      <4> DEFINE k == Len(v) + i
      <4>1. k = Len(v) + i OBVIOUS
      <4>2. c = v \o u OBVIOUS
      <4> HIDE DEF k, c
      <4>3. c[k] = u[i] BY <2>7, <3>1, <4>1, <4>2, ConcatRight
      <4> QED BY <4>1, <4>3
    <3> QED BY <3>2, <3>3
  <2> HIDE DEF c
  <2>9. es = c BY <2>5 DEF c, v
  <2>10. \A i \in DOMAIN T : c[Len(v) + i] = FunctionImports(m)[T[i] + 1].type BY <2>4, <2>8
  <2> QED BY <2>3, <2>8, <2>9, <2>10 DEF Functions3, v
<1>8. /\ IsSeq(w) /\ DOMAIN w = DOMAIN d.out
      /\ \A j \in DOMAIN d.out :
           /\ w[j].id = d.out[j].id
           /\ IF d.out[j].id = 3 THEN w[j] = x ELSE w[j] = d.out[j]
  <2>0. Len(d.out) \in Nat /\ DOMAIN d.out = 1..Len(d.out) BY <1>0, SeqIs
  <2>1. CASE d.slot = 0 /\ ~Has(d.out, 3) BY <1>0, <2>1 DEF w, Has
  <2>2. CASE d.slot \in DOMAIN d.out /\ d.slot # 0 /\ d.out[d.slot].id = 3
    <3>1. w = [d.out EXCEPT ![d.slot] = x] BY <2>2 DEF w
    <3>2. DOMAIN w = DOMAIN d.out /\ w[d.slot] = x /\ (\A j \in DOMAIN d.out : j # d.slot => w[j] = d.out[j])
      BY <2>2, <3>1
    <3>3. w = [j \in 1..Len(d.out) |-> w[j]] BY <2>0, <3>1
    <3>4. IsSeq(w) BY <2>0, <3>3, ListIs
    <3>5. \A j \in DOMAIN d.out : d.out[j].id = 3 => j = d.slot
      <4>1. Ordered(d.out, b) BY DEF Ready
      <4>2. OrderOf(3) = 3 BY OrdersAre
      <4> QED BY <2>0, <2>2, <4>1, <4>2 DEF Ordered
    <3>6. x.id = 3 BY DEF x
    <3> QED BY <2>2, <3>2, <3>4, <3>5, <3>6
  <2> QED BY <2>1, <2>2 DEF Ready, Slotted
<1>9. Ordered(t.out, b) BY <1>5, <1>8, OrderedReplace DEF Ready
<1>10. \A id : Has(t.out, id) <=> Has(d.out, id) BY <1>5, <1>8 DEF Has
<1>11. AllFine(m, t)
  <2> SUFFICES ASSUME NEW j \in DOMAIN w PROVE Fine(m, T, TRUE, w[j]) BY <1>5 DEF AllFine
  <2>1. CASE d.out[j].id = 3
    <3>1. w[j] = x /\ Has(m, 3) BY <1>8, <2>1 DEF Ready
    <3>2. x.id = 3 /\ x.entries = es BY DEF x
    <3> HIDE DEF es, T
    <3>3. Fine(m, T, TRUE, x) BY <1>7, <3>1, <3>2 DEF Fine
    <3> QED BY <3>1, <3>3
  <2>2. CASE d.out[j].id # 3
    <3>1. w[j] = d.out[j] BY <1>8, <2>2
    <3> QED BY <1>8, <2>2, <3>1 DEF Ready
  <2> QED BY <2>1, <2>2
<1>12. Present(m, N, t) BY <1>5, <1>10 DEF Present, Ready
<1>13. Slotted(t)
  <2>1. CASE d.slot = 0 /\ ~Has(d.out, 3) BY <1>5, <1>10, <2>1 DEF Slotted
  <2>2. CASE d.slot \in DOMAIN d.out /\ d.slot # 0 /\ d.out[d.slot].id = 3
    BY <1>5, <1>8, <2>2 DEF Slotted
  <2> QED BY <2>1, <2>2 DEF Ready, Slotted
<1>14. t.pending \subseteq AddedIds BY <1>5 DEF Ready
<1> HIDE DEF T
<1> QED BY <1>6, <1>9, <1>11, <1>12, <1>13, <1>14 DEF Holds, t

------------------------------------------------------------------------------
(* What comes before a section of a given order.                            *)

LEMMA HoldsWider ==
  ASSUME NEW m, NEW N, NEW b \in Nat, NEW s, Holds(m, N, b, s), NEW c \in Nat, b <= c
  PROVE  Holds(m, N, c, s)
BY OrderedMore DEF Holds

LEMMA SealFills ==
  ASSUME NEW s, s.sealed = FALSE, NEW d, Alters(s, d, {"out", "elements"}),
         d = IF s.elements \/ s.thunks = <<>> THEN s
             ELSE [Emit(s, 9, <<ThunkValues(s)>>) EXCEPT !.elements = TRUE]
  PROVE  Seal(s) = FillIn(d)
<1>1. d.slot = s.slot /\ d.defined = s.defined /\ d.thunks = s.thunks /\ d.imports = s.imports
  BY FieldNames DEF Alters
<1>2. ThunkTypes(d) = ThunkTypes(s)
  <2> DEFINE G(a, b, c) == a \o [i \in DOMAIN b |-> c[b[i] + 1].type]
  <2>1. ThunkTypes(d) = G(d.defined, d.thunks, d.imports)
        /\ ThunkTypes(s) = G(s.defined, s.thunks, s.imports)
    BY DEF ThunkTypes
  <2> HIDE DEF G
  <2> QED BY <1>1, <2>1
<1>3. Seal(s) = [d EXCEPT !.sealed = TRUE,
                          !.out = IF s.slot = 0 THEN @
                                  ELSE [@ EXCEPT ![s.slot] = [id |-> 3, entries |-> ThunkTypes(s)]]]
  BY DEF Seal, ThunkTypes
<1> QED BY <1>1, <1>2, <1>3 DEF FillIn

LEMMA FineSealed ==
  ASSUME NEW m, NEW T, NEW x, Fine(m, T, FALSE, x), x.id # 3
  PROVE  Fine(m, T, TRUE, x)
BY DEF Fine

\* The thunks get an element section where the module has none.
LEMMA DeclaredIs ==
  ASSUME NEW m, IsModule(m), ModuleAssumption, NEW N \in Nat, N >= 3, NEW b \in Nat, b < 10,
         NEW s, Holds(m, N, b, s), s.sealed = FALSE, s.elements = FALSE, s.thunks # <<>>, ~Has(m, 9),
         NEW d, d = [Emit(s, 9, <<ThunkValues(s)>>) EXCEPT !.elements = TRUE]
  PROVE  Alters(s, d, {"out", "elements"}) /\ Ready(m, N, 10, d)
<1> DEFINE es == <<ThunkValues(s)>>
           x == [id |-> 9, entries |-> es]
           e == Emit(s, 9, es)
           T == s.thunks
           w == Append(s.out, x)
<1>0. Knows(m, N, s) /\ DOMAIN s = Fields /\ Ordered(s.out, b) /\ IsSeq(s.out) /\ IsSeq(T)
      /\ AllFine(m, s) /\ Slotted(s) /\ Present(m, N, s) /\ s.pending \subseteq AddedIds
  BY DEF Holds, Knows, Ordered, ThunksIn
<1>1. StandsAll(m, T, T, ThunkValues(s)) BY <1>0, ThunksStand
<1>2. x.id = 9 /\ x.entries = es OBVIOUS
<1>3. IsSeq(es) /\ Len(es) = 1 /\ es[1] = ThunkValues(s)
  <2> DEFINE v == ThunkValues(s)
  <2> HIDE DEF v
  <2>1. <<v>> = [i \in 1..1 |-> <<v>>[i]] /\ <<v>>[1] = v OBVIOUS
  <2>2. IsSeq(<<v>>) /\ Len(<<v>>) = 1 BY <2>1, ListIs
  <2> QED BY <2>1, <2>2 DEF v
<1>18. d = [e EXCEPT !.elements = TRUE] OBVIOUS
<1> HIDE DEF es
<1>4. Alters(s, e, {"out"}) /\ e.out = w BY <1>0, EmitIs
<1> HIDE DEF e
<1>5. Alters(e, d, {"elements"}) /\ d.elements = TRUE
  BY <1>4, <1>18, FieldSet, FieldNames DEF Alters
<1> HIDE DEF x
<1>6. Alters(s, d, {"out", "elements"})
  <2>1. Alters(s, d, {"out"} \cup {"elements"}) BY <1>4, <1>5, AltersTwice
  <2>2. {"out"} \cup {"elements"} = {"out", "elements"} OBVIOUS
  <2> QED BY <2>1, <2>2
<1>7. d.out = w /\ d.thunks = T /\ d.slot = s.slot /\ d.pending = s.pending
  BY <1>4, <1>5, <1>6, FieldNames DEF Alters
<1>8. Knows(m, N, d)
  <2>1. Alters(s, d, {"last", "pending", "slot", "out", "elements", "sealed"}) BY <1>6 DEF Alters
  <2> QED BY <1>0, <2>1, KnowsStill
<1>9. Ordered(w, 10)
  <2>1. x.id \in SectionIds /\ OrderOf(x.id) = 10 /\ x.id # 0 BY <1>2, OrdersAre DEF SectionIds
  <2>2. OrderOf(x.id) > b BY <2>1
  <2>3. Ordered(w, IF x.id = 0 THEN b ELSE OrderOf(x.id)) BY <1>0, <2>1, <2>2, OrderedAppend
  <2> QED BY <2>1, <2>3
<1>10. Slotted(d)
  <2>1. d.out = Append(s.out, x) /\ x.id # 3 BY <1>2, <1>7
  <2> HIDE DEF w
  <2> QED BY <1>0, <1>7, <2>1, SlottedAppend
<1>11. \A id : Has(w, id) <=> Has(s.out, id) \/ x.id = id BY <1>0, HasAppend
<1>12. Fine(m, T, TRUE, x)
  <2>1. EntriesOf(m, 9) = <<>> BY HasNone
  <2> HIDE DEF T
  <2>2. Elements9(m, T, es) BY <1>1, <1>3, <2>1, EmptyIs DEF Elements9, T
  <2> QED BY <1>2, <2>2 DEF Fine, T
<1>13. \A j \in DOMAIN w : (w[j].id = 3 => Has(m, 3)) /\ (w[j].id # 3 => Fine(m, T, TRUE, w[j]))
  <2>0. Len(s.out) \in Nat /\ DOMAIN s.out = 1..Len(s.out) BY <1>0, SeqIs
  <2>1. DOMAIN w = 1..(Len(s.out) + 1) /\ (\A j \in DOMAIN s.out : w[j] = s.out[j])
        /\ w[Len(s.out) + 1] = x
    BY <1>0, AppendIs
  <2> HIDE DEF w, T
  <2>2. \A j \in DOMAIN s.out : Fine(m, T, FALSE, s.out[j]) BY <1>0 DEF AllFine, T
  <2> SUFFICES ASSUME NEW j \in DOMAIN w
               PROVE (w[j].id = 3 => Has(m, 3)) /\ (w[j].id # 3 => Fine(m, T, TRUE, w[j]))
    OBVIOUS
  <2>3. CASE j \in DOMAIN s.out
    <3>1. w[j] = s.out[j] /\ Fine(m, T, FALSE, w[j]) BY <2>1, <2>2, <2>3
    <3>2. w[j].id = 3 => Has(m, 3) BY <3>1 DEF Fine
    <3>3. w[j].id # 3 => Fine(m, T, TRUE, w[j]) BY <3>1, FineSealed
    <3> QED BY <3>2, <3>3
  <2>4. CASE j = Len(s.out) + 1
    <3>1. w[j] = x BY <2>1, <2>4
    <3>2. Fine(m, T, TRUE, w[j]) BY <1>12, <3>1
    <3>3. w[j].id # 3 BY <1>2, <3>1
    <3> QED BY <3>2, <3>3
  <2>5. j \in DOMAIN s.out \/ j = Len(s.out) + 1 BY <2>0, <2>1
  <2> QED BY <2>3, <2>4, <2>5
<1> HIDE DEF w, T
<1>14. \A id \in AddedIds \ d.pending : Has(d.out, id) BY <1>0, <1>7, <1>11 DEF Present
<1>15. \A id \in SectionIds : Has(m, id) /\ OrderOf(id) <= N => Has(d.out, id)
  BY <1>0, <1>7, <1>11 DEF Present
<1>16. Has(d.out, 9) BY <1>2, <1>7, <1>11
<1>17. Ready(m, N, 10, d) BY <1>0, <1>7, <1>8, <1>9, <1>10, <1>13, <1>14, <1>15, <1>16 DEF Ready
<1> QED BY <1>6, <1>17

LEMMA FilledIn ==
  ASSUME NEW m, IsModule(m), NEW N \in Nat, N >= 10, NEW c \in Nat, c <= N, NEW d, Ready(m, N, c, d),
         d.pending = {}
  PROVE  PassedTo(m, N, FillIn(d)) /\ FillIn(d).last = d.last
<1>0. N >= 3 /\ \A p \in AddedIds : OrderOf(p) < 9 /\ OrderOf(p) \in Nat
  BY OrdersAre DEF AddedIds
<1>1. Holds(m, N, c, FillIn(d)) BY <1>0, FillInIs
<1>2. DOMAIN d = Fields BY DEF Ready, Knows
<1>3. Alters(d, FillIn(d), {"sealed", "out"}) /\ FillIn(d).sealed = TRUE BY <1>2, FillInAlters
<1>4. FillIn(d).pending = d.pending /\ FillIn(d).last = d.last BY <1>3, FieldNames DEF Alters
<1>5. Holds(m, N, N, FillIn(d)) BY <1>1, HoldsWider
<1>6. {id \in AddedIds : OrderOf(id) > N} = {} BY <1>0
<1> QED BY <1>3, <1>4, <1>5, <1>6 DEF PassedTo

LEMMA SealIs ==
  ASSUME NEW m, IsModule(m), ModuleAssumption, NEW L \in Nat, NEW N \in Nat, L <= N, N >= 10,
         Gap(m, L, N), NEW s, Before(m, L, N, 9, s)
  PROVE  PassedTo(m, N, Seal(s)) /\ Seal(s).last = s.last
<1>0. N >= 3 /\ \A p \in AddedIds : OrderOf(p) < 9 /\ OrderOf(p) \in Nat
  BY OrdersAre DEF AddedIds
<1>1. PICK b \in Nat : /\ b <= N /\ Holds(m, N, b, s)
                       /\ \A p \in s.pending : OrderOf(p) > b
                       /\ s.sealed = TRUE \/ b < 10
  BY DEF Before
<1>2. s.pending = {} /\ {id \in AddedIds : OrderOf(id) > N} = {}
  <2>1. s.pending \subseteq AddedIds BY <1>1 DEF Holds
  <2>2. \A p \in s.pending : OrderOf(p) <= N => OrderOf(p) >= 9 BY DEF Before
  <2> QED BY <1>0, <2>1, <2>2
<1>3. CASE L >= 10
  <2>1. s.sealed = TRUE BY <1>3 DEF Before
  <2>2. Seal(s) = s BY <2>1 DEF Seal
  <2>3. Holds(m, N, N, s) BY <1>1, HoldsWider
  <2> QED BY <1>2, <2>1, <2>2, <2>3 DEF PassedTo
<1>4. CASE L < 10
  <2>1. s.sealed = FALSE /\ b < 10
    <3>1. s.sealed = (IF L >= 10 THEN TRUE ELSE FALSE) BY DEF Before
    <3>2. ~(L >= 10) BY <1>4
    <3>3. s.sealed = FALSE BY <3>1, <3>2
    <3>4. s.sealed = TRUE \/ b < 10 BY <1>1
    <3> QED BY <3>3, <3>4
  <2>2. ~Has(m, 9) BY <1>4, OrdersAre DEF Gap, SectionIds
  <2>3. \E d : \E c \in Nat :
          /\ c <= N /\ Ready(m, N, c, d) /\ Alters(s, d, {"out", "elements"})
          /\ Seal(s) = FillIn(d)
    <3>1. CASE s.thunks = <<>>
      <4>1. Alters(s, s, {"out", "elements"}) BY <1>1 DEF Holds, Knows, Alters
      <4>2. Ready(m, N, b, s)
        <5>1. /\ Knows(m, N, s) /\ Ordered(s.out, b) /\ Slotted(s) /\ s.pending \subseteq AddedIds
              /\ AllFine(m, s) /\ Present(m, N, s)
          BY <1>1 DEF Holds
        <5>2. ASSUME NEW j \in DOMAIN s.out
              PROVE  /\ s.out[j].id = 3 => Has(m, 3)
                     /\ s.out[j].id # 3 => Fine(m, s.thunks, TRUE, s.out[j])
          <6>1. Fine(m, s.thunks, FALSE, s.out[j]) BY <2>1, <5>1 DEF AllFine
          <6>2. s.out[j].id = 3 => Has(m, 3) BY <6>1 DEF Fine
          <6>3. s.out[j].id # 3 => Fine(m, s.thunks, TRUE, s.out[j]) BY <6>1, FineSealed
          <6> QED BY <6>2, <6>3
        <5> QED BY <3>1, <5>1, <5>2 DEF Ready, Present
      <4>3. Seal(s) = FillIn(s) BY <2>1, <3>1, <4>1, SealFills
      <4> QED BY <1>1, <4>1, <4>2, <4>3
    <3>2. CASE s.thunks # <<>>
      <4>9. PICK d : d = [Emit(s, 9, <<ThunkValues(s)>>) EXCEPT !.elements = TRUE] OBVIOUS
      <4>0. s.elements = FALSE
        <5>1. s.elements => s.sealed BY DEF Before
        <5> QED BY <2>1 DEF Before
      <4>1. Alters(s, d, {"out", "elements"}) /\ Ready(m, N, 10, d)
        BY <1>0, <1>1, <2>1, <2>2, <3>2, <4>0, <4>9, DeclaredIs
      <4>2. d = IF s.elements \/ s.thunks = <<>> THEN s
                ELSE [Emit(s, 9, <<ThunkValues(s)>>) EXCEPT !.elements = TRUE]
        BY <3>2, <4>0, <4>9
      <4>3. Seal(s) = FillIn(d) BY <2>1, <4>1, <4>2, SealFills
      <4> QED BY <4>1, <4>3
    <3> QED BY <3>1, <3>2
  <2>30. PICK d : \E c \in Nat :
          /\ c <= N /\ Ready(m, N, c, d) /\ Alters(s, d, {"out", "elements"})
          /\ Seal(s) = FillIn(d)
    BY <2>3
  <2>4. PICK c \in Nat : /\ c <= N /\ Ready(m, N, c, d) /\ Alters(s, d, {"out", "elements"})
                         /\ Seal(s) = FillIn(d)
    BY <2>30
  <2>5. d.pending = s.pending /\ d.last = s.last BY <2>4, FieldNames DEF Alters
  <2>6. PassedTo(m, N, FillIn(d)) /\ FillIn(d).last = d.last BY <1>2, <2>4, <2>5, FilledIn
  <2> QED BY <2>4, <2>5, <2>6
<1> QED BY <1>3, <1>4

LEMMA SynthesizeIs ==
  ASSUME NEW m, IsModule(m), ModuleAssumption, Has(m, 5), NEW L \in Nat, NEW N \in Nat, L <= N,
         Gap(m, L, N), NEW s, PassedTo(m, L, s)
  PROVE  PassedTo(m, N, SynthesizeBefore(s, N + 1)) /\ SynthesizeBefore(s, N + 1).last = s.last
<1>0. \A p \in AddedIds : OrderOf(p) < 9 /\ OrderOf(p) >= 1 /\ OrderOf(p) \in Nat
  BY OrdersAre DEF AddedIds
<1>1. Holds(m, N, L, s) BY HoldsMore DEF PassedTo
<1>2. s.pending = {id \in AddedIds : OrderOf(id) > L} /\ s.sealed = (IF L >= 10 THEN TRUE ELSE FALSE)
      /\ (s.elements => s.sealed)
  BY DEF PassedTo
<1>3. Before(m, L, N, 1, s)
  <2>1. \A p \in s.pending : OrderOf(p) > L /\ (OrderOf(p) <= N => OrderOf(p) >= 1)
    BY <1>0, <1>2
  <2>2. \A p \in AddedIds : OrderOf(p) > N => p \in s.pending BY <1>0, <1>2
  <2>3. s.sealed = TRUE \/ L < 10
    <3>1. L >= 10 \/ L < 10 OBVIOUS
    <3> QED BY <1>2, <3>1
  <2> QED BY <1>1, <1>2, <2>1, <2>2, <2>3 DEF Before
<1> DEFINE t == Singles(s, N + 1)
<1>4. Before(m, L, N, 9, t) /\ t.last = s.last BY <1>3, SinglesAre
<1>5. SynthesizeBefore(s, N + 1) = IF N + 1 > 10 THEN Seal(t) ELSE t
  BY OrdersAre DEF SynthesizeBefore
<1> HIDE DEF t
<1>6. CASE N >= 10
  <2>1. PassedTo(m, N, Seal(t)) /\ Seal(t).last = t.last BY <1>4, <1>6, SealIs
  <2> QED BY <1>4, <1>5, <1>6, <2>1
<1>7. CASE N < 10
  <2>1. SynthesizeBefore(s, N + 1) = t BY <1>5, <1>7
  <2>2. PICK b \in Nat : b <= N /\ Holds(m, N, b, t) BY <1>4 DEF Before
  <2>3. Holds(m, N, N, t) BY <2>2, HoldsWider
  <2>4. t.pending = {id \in AddedIds : OrderOf(id) > N}
    <3>1. t.pending \subseteq AddedIds BY <2>2 DEF Holds
    <3>2. \A p \in t.pending : OrderOf(p) <= N => OrderOf(p) >= 9 BY <1>4 DEF Before
    <3>3. \A p \in AddedIds : OrderOf(p) > N => p \in t.pending BY <1>4 DEF Before
    <3> QED BY <1>0, <3>1, <3>2, <3>3
  <2>5. t.sealed = (IF N >= 10 THEN TRUE ELSE FALSE) /\ (t.elements => t.sealed)
    BY <1>4, <1>7 DEF Before
  <2>6. PassedTo(m, N, t) BY <2>3, <2>4, <2>5 DEF PassedTo
  <2> QED BY <1>4, <2>1, <2>6
<1> QED BY <1>6, <1>7

------------------------------------------------------------------------------
(* A section at a time.                                                     *)

\* The pass is at section i, and what comes before it has been emitted.
At(m, i, s) ==
  /\ Suitable(m) /\ ModuleAssumption /\ i \in DOMAIN m /\ m[i].id \in SectionIds
  /\ PassedTo(m, OrderOf(m[i].id) - 1, s)

LEMMA AtIs ==
  ASSUME NEW m, NEW i, NEW s, At(m, i, s)
  PROVE  /\ IsModule(m) /\ Accepts(m) /\ Has(m, 5) /\ Has(m, m[i].id) /\ m[i].id # 0
         /\ m[i].id \in 1..13 /\ OrderOf(m[i].id) \in 1..13
         /\ EntriesOf(m, m[i].id) = m[i].entries /\ IsSeq(m[i].entries)
         /\ DOMAIN s = Fields /\ IsSeq(s.out) /\ IsSeq(s.thunks) /\ ThunksIn(s)
         /\ Knows(m, OrderOf(m[i].id) - 1, s)
<1>1. IsModule(m) /\ Accepts(m) /\ InSectionOrder(m) /\ i \in DOMAIN m /\ m[i].id \in SectionIds
  BY DEF At, Suitable, Accepts
<1>2. Has(m, 5) BY MemoryFits DEF At
<1>3. Has(m, m[i].id) BY <1>1 DEF Has
<1>4. m[i].id # 0 /\ m[i].id \in 1..13 BY <1>1 DEF SectionIds
<1>5. OrderOf(m[i].id) \in 1..13 BY <1>1, OrdersAre
<1>6. EntriesOf(m, m[i].id) = m[i].entries BY <1>1, <1>4, ModuleIs, OneOfEach
<1>7. IsSeq(m[i].entries) BY <1>1, ModuleIs
<1>8. Holds(m, OrderOf(m[i].id) - 1, OrderOf(m[i].id) - 1, s) BY DEF At, PassedTo
<1>9. DOMAIN s = Fields /\ IsSeq(s.out) /\ IsSeq(s.thunks) /\ ThunksIn(s)
      /\ Knows(m, OrderOf(m[i].id) - 1, s)
  BY <1>8 DEF Holds, Knows, Ordered, ThunksIn
<1> QED BY <1>1, <1>2, <1>3, <1>4, <1>5, <1>6, <1>7, <1>9

\* The section is emitted; the elements' also fill the functions' in.
LEMMA SectionPassed ==
  ASSUME NEW m, NEW i, NEW s, At(m, i, s), m[i].id \notin {3, 9}, NEW t, NEW es,
         Knows(m, OrderOf(m[i].id), t), t.out = Append(s.out, [id |-> m[i].id, entries |-> es]),
         t.slot = s.slot, t.sealed = s.sealed, t.elements = s.elements,
         t.thunks = s.thunks \/ (s.sealed = FALSE /\ Extends(s.thunks, t.thunks)),
         Fine(m, t.thunks, t.sealed, [id |-> m[i].id, entries |-> es]),
         t.pending = s.pending \ {m[i].id}
  PROVE  PassedTo(m, OrderOf(m[i].id), t)
<1> DEFINE o == OrderOf(m[i].id)
           x == [id |-> m[i].id, entries |-> es]
<1>1. o \in 1..13 /\ m[i].id \in SectionIds \ {3} /\ m[i].id \in SectionIds BY AtIs DEF At
<1>2. PassedTo(m, o - 1, s) BY DEF At
<1>3. x.id = m[i].id OBVIOUS
<1>4. o # 10 BY <1>1, OrdersAre DEF SectionIds
<1>5. \A id \in SectionIds : OrderOf(id) \in Nat /\ (OrderOf(id) = o => id = m[i].id)
  BY <1>1, OrdersAre
<1>6. AddedIds \subseteq SectionIds BY DEF AddedIds, SectionIds
<1>7. t.out = Append(s.out, x) /\ Fine(m, t.thunks, t.sealed, x) /\ Knows(m, o, t) OBVIOUS
<1>8. s.pending = {id \in AddedIds : OrderOf(id) > o - 1}
      /\ s.sealed = (IF o - 1 >= 10 THEN TRUE ELSE FALSE) /\ (s.elements => s.sealed)
      /\ Holds(m, o - 1, o - 1, s)
  BY <1>2 DEF PassedTo
<1>9. OrderOf(x.id) = o BY <1>3
<1> HIDE DEF o, x
<1>10. \A id \in SectionIds : Has(m, id) /\ OrderOf(id) <= o => OrderOf(id) <= o - 1 \/ id = x.id
  BY <1>1, <1>3, <1>5
<1>11. t.pending = {id \in AddedIds : OrderOf(id) > o}
  <2>1. \A id \in AddedIds : OrderOf(id) > o - 1 /\ id # m[i].id <=> OrderOf(id) > o
    <3> SUFFICES ASSUME NEW id \in AddedIds
                 PROVE OrderOf(id) > o - 1 /\ id # m[i].id <=> OrderOf(id) > o
      OBVIOUS
    <3>1. id \in SectionIds BY <1>6
    <3>2. OrderOf(id) \in Nat /\ (OrderOf(id) = o => id = m[i].id) BY <1>5, <3>1
    <3>3. id = m[i].id => OrderOf(id) = o BY <1>3, <1>9
    <3> QED BY <1>1, <3>2, <3>3
  <2> QED BY <1>8, <2>1
<1>12. Holds(m, o, OrderOf(x.id), t)
  <2>1. o - 1 \in Nat /\ o \in Nat /\ OrderOf(x.id) > o - 1 BY <1>1, <1>9
  <2>2. x.id \in SectionIds \ {3} BY <1>1, <1>3
  <2>3. t.pending \subseteq AddedIds /\ s.pending \subseteq t.pending \cup {x.id}
    BY <1>3, <1>8
  <2> QED BY <1>7, <1>8, <1>10, <2>1, <2>2, <2>3, EmitHolds
<1>13. t.sealed = (IF o >= 10 THEN TRUE ELSE FALSE)
  <2>1. o - 1 >= 10 <=> o >= 10 BY <1>1, <1>4
  <2> QED BY <1>8, <2>1
<1> QED BY <1>8, <1>9, <1>11, <1>12, <1>13 DEF PassedTo, o

LEMMA WithIs ==
  ASSUME NEW s, DOMAIN s = Fields, NEW id, NEW entries
  PROVE  /\ Alters(s, With(s, id, entries), {"pending", "out"})
         /\ With(s, id, entries).pending = s.pending \ {id}
         /\ With(s, id, entries).out
              = Append(s.out, [id |-> id, entries |-> Append(entries, AddedEntry(s, id))])
<1> DEFINE P == s.pending \ {id}
           r == [s EXCEPT !.pending = P]
           es == Append(entries, AddedEntry(s, id))
           t == Emit(r, id, es)
<1>1. With(s, id, entries) = t BY DEF With
<1> HIDE DEF P
<1>2. Alters(s, r, {"pending"}) /\ r.pending = P BY FieldSet, FieldNames
<1> HIDE DEF r, es
<1>3. Alters(r, t, {"out"}) /\ t.out = Append(r.out, [id |-> id, entries |-> es])
  BY <1>2, EmitIs DEF Alters
<1> HIDE DEF t
<1>4. Alters(s, t, {"pending"} \cup {"out"}) BY <1>2, <1>3, AltersTwice
<1>5. {"pending"} \cup {"out"} = {"pending", "out"} OBVIOUS
<1>6. t.pending = P /\ r.out = s.out BY <1>2, <1>3, FieldNames DEF Alters
<1> QED BY <1>1, <1>3, <1>4, <1>5, <1>6 DEF P, es

\* The orders of the sections that teach nothing.
LEMMA KnowsPlain ==
  ASSUME NEW m, NEW o \in {4, 6, 9, 11, 13}, NEW s, Knows(m, o - 1, s)
  PROVE  Knows(m, o, s)
<1>1. /\ o >= 1 <=> o - 1 >= 1
      /\ o >= 2 <=> o - 1 >= 2
      /\ o >= 3 <=> o - 1 >= 3
      /\ o >= 5 <=> o - 1 >= 5
      /\ o >= 7 <=> o - 1 >= 7
      /\ o >= 8 <=> o - 1 >= 8
      /\ o >= 10 <=> o - 1 >= 10
      /\ o >= 12 <=> o - 1 >= 12
  OBVIOUS
<1>2. UsedBy(m, o) = UsedBy(m, o - 1) BY <1>1 DEF UsedBy
<1> QED BY <1>1, <1>2 DEF Knows

LEMMA EmittedPlain ==
  ASSUME NEW m, NEW i, NEW s, At(m, i, s), m[i].id \in {4, 8, 11, 12, 13}, NEW es,
         m[i].id = 8 => Start8(m, es)
  PROVE  /\ PassedTo(m, OrderOf(m[i].id), Emit(s, m[i].id, es))
         /\ Emit(s, m[i].id, es).last = s.last
<1> DEFINE o == OrderOf(m[i].id)
           x == [id |-> m[i].id, entries |-> es]
           t == Emit(s, m[i].id, es)
<1>1. DOMAIN s = Fields /\ Knows(m, o - 1, s) /\ Has(m, m[i].id) BY AtIs
<1>2. Alters(s, t, {"out"}) /\ t.out = Append(s.out, x) BY <1>1, EmitIs
<1>3. x.id = m[i].id /\ x.entries = es OBVIOUS
<1> HIDE DEF t, x
<1>4. /\ t.slot = s.slot /\ t.sealed = s.sealed /\ t.elements = s.elements /\ t.thunks = s.thunks
      /\ t.pending = s.pending /\ t.last = s.last
  BY <1>2, FieldNames DEF Alters
<1>5. o \in {4, 6, 9, 11, 13} BY OrdersAre
<1> HIDE DEF o
<1>6. Knows(m, o, t)
  <2>1. Knows(m, o, s) BY <1>1, <1>5, KnowsPlain
  <2>2. Alters(s, t, {"last", "pending", "slot", "out", "elements", "sealed"}) BY <1>2 DEF Alters
  <2> QED BY <2>1, <2>2, KnowsStill
<1>7. Fine(m, t.thunks, t.sealed, x) BY <1>1, <1>3 DEF Fine
<1>8. t.pending = s.pending \ {m[i].id}
  <2>1. s.pending \subseteq AddedIds BY DEF At, PassedTo
  <2> QED BY <1>4, <2>1 DEF AddedIds
<1>9. PassedTo(m, o, t)
  <2>1. m[i].id \notin {3, 9} OBVIOUS
  <2>2. t.out = Append(s.out, [id |-> m[i].id, entries |-> es]) BY <1>2 DEF x
  <2>3. Fine(m, t.thunks, t.sealed, [id |-> m[i].id, entries |-> es]) BY <1>7 DEF x
  <2>4. Knows(m, OrderOf(m[i].id), t) BY <1>6 DEF o
  <2>5. PassedTo(m, OrderOf(m[i].id), t) BY <1>4, <1>8, <2>1, <2>2, <2>3, <2>4, SectionPassed
  <2> QED BY <2>5 DEF o
<1> QED BY <1>4, <1>9 DEF o, t

\* The engine's checks on the module, as its entries' lengths bound them.
LEMMA TypesFit ==
  ASSUME NEW m, IsModule(m), Accepts(m)
  PROVE  /\ \A i \in DOMAIN FunctionImports(m) : FunctionImports(m)[i].type < Len(EntriesOf(m, 1))
         /\ \A i \in DOMAIN EntriesOf(m, 3) : EntriesOf(m, 3)[i] < Len(EntriesOf(m, 1))
BY DEF Accepts, TypesUsed, ToSet

LEMMA EmittedTypes ==
  ASSUME NEW m, NEW i, NEW s, At(m, i, s), m[i].id = 1
  PROVE  PassedTo(m, 1, Types(s, m[i])) /\ Types(s, m[i]).last = s.last
<1> DEFINE n == Len(m[i].entries)
           r == [s EXCEPT !.types = n]
           es == Append(m[i].entries, AddedEntry(r, 1))
           t == Types(s, m[i])
<1>0. DOMAIN s = Fields /\ Knows(m, 0, s) /\ OrderOf(1) = 1 /\ EntriesOf(m, 1) = m[i].entries
  BY AtIs, OrdersAre
<1>1. t = With(r, 1, m[i].entries) BY DEF Types
<1> HIDE DEF n
<1>2. Alters(s, r, {"types"}) /\ r.types = n BY <1>0, FieldSet, FieldNames
<1> HIDE DEF r, t
<1>3. Alters(r, t, {"pending", "out"}) /\ t.pending = r.pending \ {1}
      /\ t.out = Append(r.out, [id |-> 1, entries |-> es])
  BY <1>1, <1>2, WithIs DEF Alters
<1>4. Alters(s, t, {"types"} \cup {"pending", "out"}) BY <1>2, <1>3, AltersTwice
<1>5. /\ t.slot = s.slot /\ t.sealed = s.sealed /\ t.elements = s.elements /\ t.thunks = s.thunks
      /\ t.last = s.last /\ t.ok = s.ok /\ t.imports = s.imports /\ t.globals = s.globals
      /\ t.defined = s.defined /\ t.memory = s.memory /\ t.code = s.code /\ DOMAIN t = Fields
  BY <1>4, FieldNames DEF Alters
<1>6. t.types = n /\ r.pending = s.pending /\ r.out = s.out BY <1>2, <1>3, FieldNames DEF Alters
<1>7. t.pending = s.pending \ {1} /\ t.out = Append(s.out, [id |-> 1, entries |-> es])
  BY <1>3, <1>6
<1>8. Knows(m, 1, t)
  <2>1. ThunksIn(t) BY <1>0, <1>5 DEF Knows, ThunksIn, Imported
  <2>2. UsedBy(m, 1) = UsedBy(m, 0) BY DEF UsedBy
  <2>3. \A F : Escaping(t, F) = Escaping(s, F) BY <1>5 DEF Escaping, Imported
  <2>4. ToSet(t.thunks) = Escaping(t, UsedBy(m, 1)) BY <1>0, <1>5, <2>2, <2>3 DEF Knows
  <2> QED BY <1>0, <1>5, <1>6, <2>1, <2>4 DEF Knows, n
<1>9. Fine(m, t.thunks, t.sealed, [id |-> 1, entries |-> es])
  <2>1. AddedEntry(r, 1) = "type" BY DEF AddedEntry
  <2>2. Types1(m, es) BY <1>0, <2>1 DEF Types1
  <2> HIDE DEF es
  <2> QED BY <2>2 DEF Fine
<1> HIDE DEF es
<1>10. PassedTo(m, OrderOf(m[i].id), t)
  <2>1. m[i].id \notin {3, 9} OBVIOUS
  <2>2. Knows(m, OrderOf(m[i].id), t) BY <1>0, <1>8
  <2>3. t.out = Append(s.out, [id |-> m[i].id, entries |-> es]) BY <1>7
  <2>4. Fine(m, t.thunks, t.sealed, [id |-> m[i].id, entries |-> es]) BY <1>9
  <2>5. t.pending = s.pending \ {m[i].id} BY <1>7
  <2> QED BY <1>5, <2>1, <2>2, <2>3, <2>4, <2>5, SectionPassed
<1> QED BY <1>0, <1>5, <1>10 DEF t

LEMMA EmittedImports ==
  ASSUME NEW m, NEW i, NEW s, At(m, i, s), m[i].id = 2
  PROVE  PassedTo(m, 2, Imports(s, m[i])) /\ Imports(s, m[i]).last = s.last
<1> DEFINE fs == FunctionsOf(m[i].entries)
           n == GlobalCount(m[i].entries)
           q == [s EXCEPT !.imports = fs]
           r == [q EXCEPT !.globals = n]
           es == Append(m[i].entries, AddedEntry(r, 2))
           t == Imports(s, m[i])
<1>0. DOMAIN s = Fields /\ Knows(m, 1, s) /\ OrderOf(2) = 2 /\ EntriesOf(m, 2) = m[i].entries
      /\ IsModule(m) /\ Accepts(m)
  BY AtIs, OrdersAre
<1>1. fs = FunctionImports(m) /\ n = GlobalCount(EntriesOf(m, 2)) /\ s.types = Len(EntriesOf(m, 1))
  BY <1>0 DEF FunctionImports, Knows
<1>2. t = With(r, 2, m[i].entries)
  <2>1. \A j \in DOMAIN fs : fs[j].type < s.types BY <1>0, <1>1, TypesFit
  <2>2. \A j \in DOMAIN fs : fs[j].type \in Nat /\ s.types \in Nat
    <3>1. IsSeq(EntriesOf(m, 1)) BY <1>0, SectionsAre
    <3>2. s.types \in Nat BY <1>1, <3>1, SeqIs
    <3> QED BY <1>0, <1>1, <3>2, CountIs
  <2>3. ~ \E j \in DOMAIN fs : fs[j].type >= s.types BY <2>1, <2>2
  <2>4. t = IF \E j \in DOMAIN fs : fs[j].type >= s.types THEN Reject(s)
            ELSE With([s EXCEPT !.imports = fs, !.globals = n], 2, m[i].entries)
    BY DEF Imports
  <2>5. r = [s EXCEPT !.imports = fs, !.globals = n] OBVIOUS
  <2> HIDE DEF fs, r, t
  <2> QED BY <2>3, <2>4, <2>5
<1> HIDE DEF fs, n
<1>3. Alters(s, q, {"imports"}) /\ q.imports = fs BY <1>0, FieldSet, FieldNames
<1> HIDE DEF q
<1>4. Alters(q, r, {"globals"}) /\ r.globals = n BY <1>3, FieldSet, FieldNames DEF Alters
<1> HIDE DEF r, t
<1>5. Alters(r, t, {"pending", "out"}) /\ t.pending = r.pending \ {2}
      /\ t.out = Append(r.out, [id |-> 2, entries |-> es])
  BY <1>2, <1>4, WithIs DEF Alters
<1>6. Alters(s, t, ({"imports"} \cup {"globals"}) \cup {"pending", "out"})
  BY <1>3, <1>4, <1>5, AltersTwice
<1>7. /\ t.slot = s.slot /\ t.sealed = s.sealed /\ t.elements = s.elements /\ t.thunks = s.thunks
      /\ t.last = s.last /\ t.ok = s.ok /\ t.types = s.types
      /\ t.defined = s.defined /\ t.memory = s.memory /\ t.code = s.code /\ DOMAIN t = Fields
  BY <1>6, FieldNames DEF Alters
<1>8. t.imports = fs /\ t.globals = n /\ r.pending = s.pending /\ r.out = s.out /\ r.types = s.types
  BY <1>3, <1>4, <1>5, FieldNames DEF Alters
<1>9. t.pending = s.pending \ {2} /\ t.out = Append(s.out, [id |-> 2, entries |-> es])
  BY <1>5, <1>8
<1>10. Knows(m, 2, t)
  <2>1. UsedBy(m, 1) = {} /\ UsedBy(m, 2) = {} BY DEF UsedBy
  <2>2. ToSet(t.thunks) = {} BY <1>0, <1>7, <2>1 DEF Knows, Escaping
  <2>3. Escaping(t, UsedBy(m, 2)) = {} BY <2>1 DEF Escaping
  <2>4. ThunksIn(t)
    <3>1. DOMAIN t.thunks = {} BY <2>2 DEF ToSet
    <3>2. IsSeq(t.thunks) BY <1>0, <1>7 DEF Knows, ThunksIn
    <3> QED BY <3>1, <3>2 DEF ThunksIn
  <2> QED BY <1>0, <1>1, <1>7, <1>8, <2>2, <2>3, <2>4 DEF Knows
<1>11. Fine(m, t.thunks, t.sealed, [id |-> 2, entries |-> es])
  <2>1. AddedEntry(r, 2) = ImportAdded(m) BY <1>1, <1>8 DEF AddedEntry, ImportAdded
  <2>2. Imports2(m, es) BY <1>0, <2>1 DEF Imports2
  <2> HIDE DEF es
  <2> QED BY <2>2 DEF Fine
<1> HIDE DEF es
<1>12. PassedTo(m, OrderOf(m[i].id), t)
  <2>1. m[i].id \notin {3, 9} OBVIOUS
  <2>2. Knows(m, OrderOf(m[i].id), t) BY <1>0, <1>10
  <2>3. t.out = Append(s.out, [id |-> m[i].id, entries |-> es]) BY <1>9
  <2>4. Fine(m, t.thunks, t.sealed, [id |-> m[i].id, entries |-> es]) BY <1>11
  <2>5. t.pending = s.pending \ {m[i].id} BY <1>9
  <2> QED BY <1>7, <2>1, <2>2, <2>3, <2>4, <2>5, SectionPassed
<1> QED BY <1>0, <1>7, <1>12 DEF t

LEMMA EmittedMemory ==
  ASSUME NEW m, NEW i, NEW s, At(m, i, s), m[i].id = 5
  PROVE  PassedTo(m, 5, Memory(s, m[i])) /\ Memory(s, m[i]).last = s.last
<1> DEFINE es == BoundedMemory(m[i].entries)
           r == [s EXCEPT !.memory = TRUE]
           t == Memory(s, m[i])
<1>0. DOMAIN s = Fields /\ Knows(m, 4, s) /\ OrderOf(5) = 5 /\ EntriesOf(m, 5) = m[i].entries
  BY AtIs, OrdersAre
<1>1. es # <<>> BY <1>0, MemoryFits DEF At
<1>2. t = Emit(r, 5, es) BY <1>1 DEF Memory
<1> HIDE DEF es
<1>3. Alters(s, r, {"memory"}) /\ r.memory = TRUE BY <1>0, FieldSet, FieldNames
<1> HIDE DEF r, t
<1>4. Alters(r, t, {"out"}) /\ t.out = Append(r.out, [id |-> 5, entries |-> es])
  BY <1>2, <1>3, EmitIs DEF Alters
<1>5. Alters(s, t, {"memory"} \cup {"out"}) BY <1>3, <1>4, AltersTwice
<1>6. /\ t.slot = s.slot /\ t.sealed = s.sealed /\ t.elements = s.elements /\ t.thunks = s.thunks
      /\ t.last = s.last /\ t.ok = s.ok /\ t.imports = s.imports /\ t.globals = s.globals
      /\ t.defined = s.defined /\ t.types = s.types /\ t.code = s.code /\ DOMAIN t = Fields
      /\ t.pending = s.pending
  BY <1>5, FieldNames DEF Alters
<1>7. t.memory = TRUE /\ r.out = s.out BY <1>3, <1>4, FieldNames DEF Alters
<1>8. Knows(m, 5, t)
  <2>1. ThunksIn(t) BY <1>0, <1>6 DEF Knows, ThunksIn, Imported
  <2>2. UsedBy(m, 5) = UsedBy(m, 4) BY DEF UsedBy
  <2>3. \A F : Escaping(t, F) = Escaping(s, F) BY <1>6 DEF Escaping, Imported
  <2>4. ToSet(t.thunks) = Escaping(t, UsedBy(m, 5)) BY <1>0, <1>6, <2>2, <2>3 DEF Knows
  <2>5. t.memory <=> 5 >= 5 BY <1>7
  <2>6. t.code <=> 5 >= 12 /\ Has(m, 10) BY <1>0, <1>6 DEF Knows
  <2> QED BY <1>0, <1>6, <2>1, <2>4, <2>5, <2>6 DEF Knows
<1>9. Fine(m, t.thunks, t.sealed, [id |-> 5, entries |-> es])
  <2>1. es = BoundedMemory(EntriesOf(m, 5)) BY <1>0 DEF es
  <2> QED BY <2>1 DEF Fine
<1>10. PassedTo(m, OrderOf(m[i].id), t)
  <2>1. m[i].id \notin {3, 9} OBVIOUS
  <2>2. Knows(m, OrderOf(m[i].id), t) BY <1>0, <1>8
  <2>3. t.out = Append(s.out, [id |-> m[i].id, entries |-> es]) BY <1>4, <1>7
  <2>4. Fine(m, t.thunks, t.sealed, [id |-> m[i].id, entries |-> es]) BY <1>9
  <2>5. t.pending = s.pending \ {m[i].id}
    <3>1. s.pending \subseteq AddedIds BY DEF At, PassedTo
    <3> QED BY <1>6, <3>1 DEF AddedIds
  <2> QED BY <1>6, <2>1, <2>2, <2>3, <2>4, <2>5, SectionPassed
<1> QED BY <1>0, <1>6, <1>10 DEF t

LEMMA EmittedFunctions ==
  ASSUME NEW m, NEW i, NEW s, At(m, i, s), m[i].id = 3
  PROVE  PassedTo(m, 3, FunctionSection(s, m[i])) /\ FunctionSection(s, m[i]).last = s.last
<1> DEFINE x == [id |-> 3, entries |-> <<>>]
           u == Emit(s, 3, <<>>)
           q == [u EXCEPT !.defined = m[i].entries]
           n == Len(u.out)
           r == [q EXCEPT !.slot = n]
           t == FunctionSection(s, m[i])
<1>0. DOMAIN s = Fields /\ Knows(m, 2, s) /\ OrderOf(3) = 3 /\ EntriesOf(m, 3) = m[i].entries
      /\ IsModule(m) /\ Accepts(m) /\ IsSeq(s.out) /\ Has(m, 3) /\ IsSeq(s.thunks)
      /\ PassedTo(m, 2, s)
  BY AtIs, OrdersAre DEF At
<1>1. t = r
  <2>1. s.types = Len(EntriesOf(m, 1)) BY <1>0 DEF Knows
  <2>2. IsSeq(EntriesOf(m, 1)) BY <1>0, SectionsAre
  <2>3. s.types \in Nat BY <2>1, <2>2, SeqIs
  <2>4. \A j \in DOMAIN m[i].entries : m[i].entries[j] \in Nat /\ m[i].entries[j] < s.types
    BY <1>0, <2>1, SectionsAre, TypesFit
  <2>5. ~ \E j \in DOMAIN m[i].entries : m[i].entries[j] >= s.types BY <2>3, <2>4
  <2>6. t = [u EXCEPT !.defined = m[i].entries, !.slot = Len(u.out)] BY <2>5 DEF FunctionSection
  <2> HIDE DEF t, u
  <2> QED BY <2>6
<1>2. Alters(s, u, {"out"}) /\ u.out = Append(s.out, x) BY <1>0, EmitIs
<1>3. x.id = 3 OBVIOUS
<1> HIDE DEF x, u
<1>4. Alters(u, q, {"defined"}) /\ q.defined = m[i].entries
  BY <1>2, FieldSet, FieldNames DEF Alters
<1> HIDE DEF q, n
<1>5. Alters(q, r, {"slot"}) /\ r.slot = n BY <1>4, FieldSet, FieldNames DEF Alters
<1> HIDE DEF r, t
<1>6. Alters(s, t, ({"out"} \cup {"defined"}) \cup {"slot"})
  BY <1>1, <1>2, <1>4, <1>5, AltersTwice
<1>7. /\ t.sealed = s.sealed /\ t.elements = s.elements /\ t.thunks = s.thunks
      /\ t.last = s.last /\ t.ok = s.ok /\ t.types = s.types /\ t.imports = s.imports
      /\ t.globals = s.globals /\ t.memory = s.memory /\ t.code = s.code /\ DOMAIN t = Fields
      /\ t.pending = s.pending
  BY <1>6, FieldNames DEF Alters
<1>8. t.defined = EntriesOf(m, 3) /\ t.out = Append(s.out, x) /\ t.slot = n
  BY <1>0, <1>1, <1>2, <1>4, <1>5, FieldNames DEF Alters
<1>9. Knows(m, 3, t)
  <2>1. UsedBy(m, 2) = {} /\ UsedBy(m, 3) = {} BY DEF UsedBy
  <2>2. ToSet(t.thunks) = {} BY <1>0, <1>7, <2>1 DEF Knows, Escaping
  <2>3. Escaping(t, UsedBy(m, 3)) = {} BY <2>1 DEF Escaping
  <2>4. ThunksIn(t) BY <1>0, <1>7 DEF Knows, ThunksIn, Imported
  <2> QED BY <1>0, <1>7, <1>8, <2>2, <2>3, <2>4 DEF Knows
<1>10. /\ Len(s.out) \in Nat /\ DOMAIN s.out = 1..Len(s.out) /\ DOMAIN t.out = 1..(Len(s.out) + 1)
       /\ Len(t.out) = Len(s.out) + 1 /\ t.out[Len(s.out) + 1] = x
       /\ \A j \in DOMAIN s.out : t.out[j] = s.out[j]
  BY <1>0, <1>8, SeqIs, AppendIs
<1>11. n = Len(s.out) + 1 BY <1>2, <1>8, <1>10 DEF n
<1>12. Holds(m, 2, 2, s) /\ s.pending = {id \in AddedIds : OrderOf(id) > 2}
       /\ s.sealed = FALSE /\ ~s.elements
  BY <1>0 DEF PassedTo
<1>13. Ordered(t.out, 3)
  <2>1. x.id \in SectionIds /\ OrderOf(x.id) = 3 /\ x.id # 0 BY <1>0, <1>3 DEF SectionIds
  <2>2. OrderOf(x.id) > 2 BY <2>1
  <2>3. Ordered(s.out, 2) BY <1>12 DEF Holds
  <2>4. Ordered(Append(s.out, x), IF x.id = 0 THEN 2 ELSE OrderOf(x.id))
    BY <2>1, <2>2, <2>3, OrderedAppend
  <2> QED BY <1>8, <2>1, <2>4
<1>14. AllFine(m, t)
  <2>1. Fine(m, t.thunks, t.sealed, x)
    <3>1. t.sealed = FALSE BY <1>7, <1>12
    <3> QED BY <1>0, <1>3, <3>1 DEF Fine
  <2>2. AllFine(m, s) BY <1>12 DEF Holds
  <2> QED BY <1>0, <1>7, <1>8, <2>1, <2>2, AllFineAppend
<1>15. \A id : Has(t.out, id) <=> Has(s.out, id) \/ x.id = id BY <1>0, <1>8, HasAppend
<1>16. Present(m, 3, t)
  <2>1. Present(m, 2, s) BY <1>12 DEF Holds
  <2>2. \A id \in SectionIds : OrderOf(id) <= 3 => OrderOf(id) <= 2 \/ id = 3
    <3>1. \A id \in SectionIds : OrderOf(id) \in 1..13 /\ (OrderOf(id) = OrderOf(3) => id = 3)
      BY OrdersAre DEF SectionIds
    <3> QED BY <1>0, <3>1
  <2>3. \A id \in SectionIds : Has(m, id) /\ OrderOf(id) <= 3 => Has(t.out, id)
    BY <1>3, <1>15, <2>1, <2>2 DEF Present
  <2>4. \A id \in AddedIds \ t.pending : Has(t.out, id) BY <1>7, <1>15, <2>1 DEF Present
  <2>5. ~t.sealed BY <1>7, <1>12
  <2> QED BY <2>3, <2>4, <2>5 DEF Present
<1>17. Slotted(t) BY <1>3, <1>8, <1>10, <1>11 DEF Slotted
<1>18. t.pending = {id \in AddedIds : OrderOf(id) > 3}
  <2>1. \A id \in AddedIds : OrderOf(id) > 2 <=> OrderOf(id) > 3 BY OrdersAre DEF AddedIds
  <2> QED BY <1>7, <1>12, <2>1
<1>19. Holds(m, 3, 3, t) BY <1>9, <1>13, <1>14, <1>16, <1>17, <1>18 DEF Holds
<1>20. t.sealed = (IF 3 >= 10 THEN TRUE ELSE FALSE) /\ (t.elements => t.sealed)
  <2>1. t.sealed = s.sealed /\ s.sealed = FALSE /\ ~(3 >= 10) BY <1>7, <1>12
  <2>2. ~t.elements BY <1>7, <1>12
  <2>3. t.sealed = (IF 3 >= 10 THEN TRUE ELSE FALSE) BY <2>1
  <2> QED BY <2>2, <2>3
<1> QED BY <1>7, <1>18, <1>19, <1>20 DEF PassedTo, t

\* Functions used as values, before the thunks are sealed: what it leaves.
LEMMA UsedKnows ==
  ASSUME NEW m, NEW L, NEW s, Knows(m, L, s), NEW F, NEW t, Uses(s, t, F)
  PROVE  /\ t.slot = s.slot /\ t.sealed = s.sealed /\ t.elements = s.elements
         /\ t.last = s.last /\ t.ok = s.ok /\ t.types = s.types /\ t.imports = s.imports
         /\ t.globals = s.globals /\ t.defined = s.defined /\ t.memory = s.memory
         /\ t.code = s.code /\ t.pending = s.pending /\ t.out = s.out /\ DOMAIN t = Fields
         /\ ThunksIn(t) /\ IsSeq(t.thunks) /\ Extends(s.thunks, t.thunks)
         /\ ToSet(t.thunks) = Escaping(t, UsedBy(m, L) \cup F)
         /\ Escaping(t, F) \subseteq ToSet(t.thunks)
<1>1. Alters(s, t, {"thunks"}) /\ ThunksIn(t) /\ Extends(s.thunks, t.thunks)
      /\ ToSet(t.thunks) = ToSet(s.thunks) \cup Escaping(s, F)
  BY DEF Uses
<1>2. /\ t.slot = s.slot /\ t.sealed = s.sealed /\ t.elements = s.elements
      /\ t.last = s.last /\ t.ok = s.ok /\ t.types = s.types /\ t.imports = s.imports
      /\ t.globals = s.globals /\ t.defined = s.defined /\ t.memory = s.memory
      /\ t.code = s.code /\ t.pending = s.pending /\ t.out = s.out /\ DOMAIN t = Fields
  BY <1>1, FieldNames DEF Alters
<1>3. \A G : Escaping(t, G) = Escaping(s, G) BY <1>2 DEF Escaping, Imported
<1>4. ToSet(s.thunks) = Escaping(s, UsedBy(m, L)) BY DEF Knows
<1>5. Escaping(t, UsedBy(m, L) \cup F) = Escaping(t, UsedBy(m, L)) \cup Escaping(t, F)
  BY DEF Escaping
<1>6. ToSet(t.thunks) = Escaping(t, UsedBy(m, L)) \cup Escaping(t, F) BY <1>1, <1>3, <1>4
<1>7. IsSeq(t.thunks) BY <1>1 DEF ThunksIn
<1> QED BY <1>1, <1>2, <1>5, <1>6, <1>7

LEMMA EmittedGlobals ==
  ASSUME NEW m, NEW i, NEW s, At(m, i, s), m[i].id = 6
  PROVE  PassedTo(m, 7, Globals(s, m[i])) /\ Globals(s, m[i]).last = s.last
<1> DEFINE fs == m[i].entries
           u == Use(s, fs)
           vs == Values(u, fs)
           es == Append(vs, AddedEntry(u, 6))
           w == With(u, 6, vs)
           n == w.globals + Len(fs)
           t == Globals(s, m[i])
<1>0. DOMAIN s = Fields /\ Knows(m, 6, s) /\ OrderOf(6) = 7 /\ EntriesOf(m, 6) = fs
      /\ IsModule(m) /\ Accepts(m) /\ ThunksIn(s) /\ IsSeq(fs) /\ ModuleAssumption
  BY AtIs, OrdersAre DEF At
<1>1. t = [w EXCEPT !.globals = n] BY DEF Globals
<1>2. s.sealed = FALSE /\ ~s.elements
  <2>1. PassedTo(m, 6, s) BY <1>0 DEF At
  <2> QED BY <2>1 DEF PassedTo
<1>3. Functions(ToSet(fs)) BY <1>0, SectionsAre DEF Functions, ToSet
<1>4. Len(s.imports) \in Nat
  <2>1. s.imports = FunctionImports(m) BY <1>0 DEF Knows
  <2> QED BY <1>0, <2>1, CountIs DEF Count
<1> HIDE DEF fs
<1>5. Uses(s, u, ToSet(fs))
  <2>1. Quiet(s, ToSet(fs)) BY <1>2 DEF Quiet
  <2> QED BY <1>0, <1>3, <1>4, <2>1, UseIs
<1> HIDE DEF u
<1>6. /\ u.slot = s.slot /\ u.sealed = s.sealed /\ u.elements = s.elements
      /\ u.last = s.last /\ u.ok = s.ok /\ u.types = s.types /\ u.imports = s.imports
      /\ u.globals = s.globals /\ u.defined = s.defined /\ u.memory = s.memory
      /\ u.code = s.code /\ u.pending = s.pending /\ u.out = s.out /\ DOMAIN u = Fields
      /\ ThunksIn(u) /\ IsSeq(u.thunks) /\ Extends(s.thunks, u.thunks)
      /\ ToSet(u.thunks) = Escaping(u, UsedBy(m, 6) \cup ToSet(fs))
      /\ Escaping(u, ToSet(fs)) \subseteq ToSet(u.thunks)
  BY <1>0, <1>5, UsedKnows
<1> HIDE DEF vs, w, n
<1>7. /\ Alters(u, w, {"pending", "out"}) /\ w.pending = u.pending \ {6}
      /\ w.out = Append(u.out, [id |-> 6, entries |-> es])
  BY <1>6, WithIs DEF w
<1>8. Alters(w, t, {"globals"}) /\ t.globals = n BY <1>1, <1>7, FieldSet, FieldNames DEF Alters
<1> HIDE DEF t
<1>9. Alters(u, t, {"pending", "out"} \cup {"globals"}) BY <1>7, <1>8, AltersTwice
<1>10. /\ t.slot = u.slot /\ t.sealed = u.sealed /\ t.elements = u.elements
       /\ t.last = u.last /\ t.ok = u.ok /\ t.types = u.types /\ t.imports = u.imports
       /\ t.defined = u.defined /\ t.memory = u.memory
       /\ t.code = u.code /\ t.thunks = u.thunks /\ DOMAIN t = Fields
  BY <1>9, FieldNames DEF Alters
<1>11. t.pending = w.pending /\ t.out = w.out /\ w.globals = u.globals
  BY <1>7, <1>8, FieldNames DEF Alters
<1>12. Knows(m, 7, t)
  <2>1. t.globals = GlobalsOf(m)
    <3>1. s.globals = GlobalCount(EntriesOf(m, 2)) BY <1>0 DEF Knows
    <3> QED BY <1>0, <1>6, <1>8, <1>11, <3>1 DEF GlobalsOf, n
  <2>2. UsedBy(m, 7) = UsedBy(m, 6) \cup ToSet(fs) BY <1>0 DEF UsedBy
  <2>3. ThunksIn(t) BY <1>6, <1>10 DEF ThunksIn, Imported
  <2>4. \A F : Escaping(t, F) = Escaping(u, F) BY <1>10 DEF Escaping, Imported
  <2>5. ToSet(t.thunks) = Escaping(t, UsedBy(m, 7)) BY <1>6, <1>10, <2>2, <2>4
  <2> QED BY <1>0, <1>6, <1>10, <2>1, <2>3, <2>5 DEF Knows
<1>13. Fine(m, t.thunks, t.sealed, [id |-> 6, entries |-> es])
  <2>1. Knows(m, 7, t) /\ Escaping(t, ToSet(fs)) \subseteq ToSet(t.thunks)
    BY <1>6, <1>10, <1>12 DEF Escaping, Imported
  <2>2. StandsAll(m, t.thunks, fs, vs)
    <3>1. StandsAll(m, t.thunks, fs, Values(t, fs)) BY <1>0, <1>3, <2>1, ValuesAre
    <3>2. \A f : ValueOf(t, f) = ValueOf(u, f)
      <4> SUFFICES ASSUME NEW f PROVE ValueOf(t, f) = ValueOf(u, f) OBVIOUS
      <4> QED BY <1>10 DEF ValueOf, Imported
    <3>3. Values(t, fs) = vs BY <3>2 DEF Values, vs
    <3> QED BY <3>1, <3>3
  <2>3. AddedEntry(u, 6) = Void BY DEF AddedEntry
  <2>4. IsSeq(vs) /\ Len(vs) = Len(fs) /\ DOMAIN fs = 1..Len(fs) /\ DOMAIN vs = 1..Len(fs)
        /\ \A j \in DOMAIN fs : Stands(m, t.thunks, fs[j], vs[j])
    BY <1>0, <2>2, SeqIs DEF StandsAll
  <2>5. IsSeq(es) /\ Len(es) = Len(fs) + 1 /\ (\A j \in DOMAIN fs : es[j] = vs[j])
        /\ es[Len(fs) + 1] = Void
    BY <2>3, <2>4, AppendIs
  <2> HIDE DEF es
  <2>6. Globals6(m, t.thunks, es) BY <1>0, <2>4, <2>5 DEF Globals6
  <2> QED BY <2>6 DEF Fine
<1> HIDE DEF es
<1>14. PassedTo(m, OrderOf(m[i].id), t)
  <2>1. m[i].id \notin {3, 9} OBVIOUS
  <2>2. Knows(m, OrderOf(m[i].id), t) BY <1>0, <1>12
  <2>3. t.out = Append(s.out, [id |-> m[i].id, entries |-> es]) BY <1>6, <1>7, <1>11
  <2>4. Fine(m, t.thunks, t.sealed, [id |-> m[i].id, entries |-> es]) BY <1>13
  <2>5. t.pending = s.pending \ {m[i].id} BY <1>6, <1>7, <1>11
  <2>6. t.thunks = s.thunks \/ (s.sealed = FALSE /\ Extends(s.thunks, t.thunks))
    BY <1>2, <1>6, <1>10
  <2>7. t.slot = s.slot /\ t.sealed = s.sealed /\ t.elements = s.elements BY <1>6, <1>10
  <2> QED BY <2>1, <2>2, <2>3, <2>4, <2>5, <2>6, <2>7, SectionPassed
<1> QED BY <1>0, <1>6, <1>10, <1>14 DEF t

\* The functions of the exports, the others' place being empty.
LEMMA ExportsUse ==
  ASSUME NEW m, IsModule(m), ModuleAssumption, NEW es, es = EntriesOf(m, 7), NEW fs,
         fs = [j \in DOMAIN es |-> IF es[j].kind = "function" THEN es[j].index ELSE Void]
  PROVE  /\ IsSeq(fs) /\ Functions(ToSet(fs))
         /\ ToSet(fs) \ {Void} = ExportedFunctions(m)
<1>1. IsSeq(es) /\ Len(es) \in Nat /\ DOMAIN es = 1..Len(es) BY SectionsAre, SeqIs
<1>2. IsSeq(fs) /\ DOMAIN fs = DOMAIN es
  <2>1. fs = [j \in 1..Len(es) |-> fs[j]] BY <1>1
  <2> QED BY <1>1, <2>1, ListIs
<1>3. \A j \in DOMAIN es : es[j].index \in Nat BY SectionsAre DEF IsExport
<1>4. \A j \in DOMAIN es : fs[j] = IF es[j].kind = "function" THEN es[j].index ELSE Void
  OBVIOUS
<1>5. Functions(ToSet(fs)) BY <1>2, <1>3, <1>4 DEF Functions, ToSet
<1>6. Void \notin Nat BY DEF ModuleAssumption
<1>7. ToSet(fs) \ {Void} = ExportedFunctions(m)
  <2>1. ExportedFunctions(m) = {e.index : e \in {f \in ToSet(es) : f.kind = "function"}}
    BY DEF ExportedFunctions
  <2>2. ASSUME NEW f \in ToSet(fs) \ {Void} PROVE f \in ExportedFunctions(m)
    <3>1. PICK j \in DOMAIN es : f = fs[j] BY <1>2 DEF ToSet
    <3>2. es[j].kind = "function" /\ f = es[j].index BY <1>4, <3>1
    <3> QED BY <2>1, <3>1, <3>2 DEF ToSet
  <2>3. ASSUME NEW f \in ExportedFunctions(m) PROVE f \in ToSet(fs) \ {Void}
    <3>1. PICK j \in DOMAIN es : es[j].kind = "function" /\ f = es[j].index
      BY <2>1 DEF ToSet
    <3>2. fs[j] = f /\ f # Void BY <1>3, <1>4, <1>6, <3>1
    <3> QED BY <1>2, <3>2 DEF ToSet
  <2> QED BY <2>2, <2>3
<1> QED BY <1>2, <1>5, <1>7

LEMMA EmittedExports ==
  ASSUME NEW m, NEW i, NEW s, At(m, i, s), m[i].id = 7
  PROVE  PassedTo(m, 8, Exports(s, m[i])) /\ Exports(s, m[i]).last = s.last
<1> DEFINE ds == m[i].entries
           fs == [j \in DOMAIN ds |-> IF ds[j].kind = "function" THEN ds[j].index ELSE Void]
           vs == [j \in DOMAIN ds |-> IF ds[j].kind = "function"
                                     THEN [ds[j] EXCEPT !.index = ShiftIndex(s, @)] ELSE ds[j]]
           u == Use(s, fs)
           es == Append(vs, AddedEntry(u, 7))
           t == Exports(s, m[i])
<1>0. DOMAIN s = Fields /\ Knows(m, 7, s) /\ OrderOf(7) = 8 /\ EntriesOf(m, 7) = ds
      /\ IsModule(m) /\ Accepts(m) /\ ThunksIn(s) /\ IsSeq(ds) /\ ModuleAssumption /\ Suitable(m)
  BY AtIs, OrdersAre DEF At
<1>1. t = With(u, 7, vs)
  <2>1. \A e \in ToSet(ds) : e.name # Added BY <1>0 DEF Suitable
  <2>2. ~ \E j \in DOMAIN ds : ds[j].name = Added BY <2>1 DEF ToSet
  <2> QED BY <2>2 DEF Exports
<1>2. s.sealed = FALSE /\ ~s.elements
  <2>1. PassedTo(m, 7, s) BY <1>0 DEF At
  <2> QED BY <2>1 DEF PassedTo
<1>3. IsSeq(fs) /\ Functions(ToSet(fs)) /\ ToSet(fs) \ {Void} = ExportedFunctions(m)
  BY <1>0, ExportsUse
<1>4. Imported(s) = Count(m) /\ Len(s.imports) \in Nat
  <2>1. s.imports = FunctionImports(m) BY <1>0 DEF Knows
  <2> QED BY <1>0, <2>1, CountIs DEF Count, Imported
<1>5. vs = [j \in DOMAIN ds |-> ExportShifted(m, ds[j])]
  <2>1. \A j \in DOMAIN ds : IsExport(ds[j]) BY <1>0, SectionsAre
  <2>2. ASSUME NEW j \in DOMAIN ds PROVE vs[j] = ExportShifted(m, ds[j])
    <3> DEFINE e == ds[j]
               g == ShiftIndex(s, e.index)
    <3>1. e = [name |-> e.name, kind |-> e.kind, index |-> e.index] BY <2>1 DEF IsExport
    <3>2. g = Shifted(m, e.index) BY <1>4 DEF ShiftIndex, Shifted
    <3>3. vs[j] = IF e.kind = "function" THEN [e EXCEPT !.index = g] ELSE e OBVIOUS
    <3> HIDE DEF e, g
    <3>4. [e EXCEPT !.index = g] = [name |-> e.name, kind |-> e.kind, index |-> g] BY <3>1
    <3>5. vs[j] = IF e.kind = "function" THEN [name |-> e.name, kind |-> e.kind, index |-> g] ELSE e
      BY <3>3, <3>4
    <3> QED BY <3>2, <3>5 DEF ExportShifted, e
  <2>3. vs = [j \in DOMAIN ds |-> vs[j]] OBVIOUS
  <2> HIDE DEF vs
  <2> QED BY <2>2, <2>3
<1> HIDE DEF ds, fs, vs
<1>6. Uses(s, u, ToSet(fs))
  <2>1. Quiet(s, ToSet(fs)) BY <1>2 DEF Quiet
  <2> QED BY <1>0, <1>3, <1>4, <2>1, UseIs
<1> HIDE DEF u
<1>7. /\ u.slot = s.slot /\ u.sealed = s.sealed /\ u.elements = s.elements
      /\ u.last = s.last /\ u.ok = s.ok /\ u.types = s.types /\ u.imports = s.imports
      /\ u.globals = s.globals /\ u.defined = s.defined /\ u.memory = s.memory
      /\ u.code = s.code /\ u.pending = s.pending /\ u.out = s.out /\ DOMAIN u = Fields
      /\ ThunksIn(u) /\ IsSeq(u.thunks) /\ Extends(s.thunks, u.thunks)
      /\ ToSet(u.thunks) = Escaping(u, UsedBy(m, 7) \cup ToSet(fs))
      /\ Escaping(u, ToSet(fs)) \subseteq ToSet(u.thunks)
  BY <1>0, <1>6, UsedKnows
<1> HIDE DEF t
<1>8. /\ Alters(u, t, {"pending", "out"}) /\ t.pending = u.pending \ {7}
      /\ t.out = Append(u.out, [id |-> 7, entries |-> es])
  <2>1. DOMAIN u = Fields BY <1>7
  <2> QED BY <1>1, <2>1, WithIs
<1>9. /\ t.slot = u.slot /\ t.sealed = u.sealed /\ t.elements = u.elements
      /\ t.last = u.last /\ t.ok = u.ok /\ t.types = u.types /\ t.imports = u.imports
      /\ t.defined = u.defined /\ t.memory = u.memory /\ t.globals = u.globals
      /\ t.code = u.code /\ t.thunks = u.thunks /\ DOMAIN t = Fields
  BY <1>8, FieldNames DEF Alters
<1>10. Knows(m, 8, t)
  <2>1. UsedBy(m, 8) = UsedBy(m, 7) \cup ExportedFunctions(m) BY DEF UsedBy
  <2>2. \A F, G : F \ {Void} = G \ {Void} => Escaping(t, F) = Escaping(t, G) BY DEF Escaping
  <2>3. Void \notin ExportedFunctions(m) BY <1>3
  <2>4. (UsedBy(m, 7) \cup ToSet(fs)) \ {Void} = UsedBy(m, 8) \ {Void} BY <1>3, <2>1, <2>3
  <2>5. Escaping(t, UsedBy(m, 7) \cup ToSet(fs)) = Escaping(t, UsedBy(m, 8)) BY <2>2, <2>4
  <2>6. ThunksIn(t) BY <1>7, <1>9 DEF ThunksIn, Imported
  <2>7. \A F : Escaping(t, F) = Escaping(u, F) BY <1>9 DEF Escaping, Imported
  <2>8. ToSet(t.thunks) = Escaping(t, UsedBy(m, 8)) BY <1>7, <1>9, <2>5, <2>7
  <2> QED BY <1>0, <1>7, <1>9, <2>6, <2>8 DEF Knows
<1>11. Fine(m, t.thunks, t.sealed, [id |-> 7, entries |-> es])
  <2>1. u.globals = GlobalsOf(m) BY <1>0, <1>7 DEF Knows
  <2>2. AddedEntry(u, 7) = ExportAdded(m) BY <2>1 DEF AddedEntry, ExportAdded
  <2>3. Exports7(m, es) BY <1>0, <1>5, <2>2 DEF Exports7
  <2> HIDE DEF es
  <2> QED BY <2>3 DEF Fine
<1> HIDE DEF es
<1>12. PassedTo(m, OrderOf(m[i].id), t)
  <2>1. m[i].id \notin {3, 9} OBVIOUS
  <2>2. Knows(m, OrderOf(m[i].id), t) BY <1>0, <1>10
  <2>3. t.out = Append(s.out, [id |-> m[i].id, entries |-> es]) BY <1>7, <1>8
  <2>4. Fine(m, t.thunks, t.sealed, [id |-> m[i].id, entries |-> es]) BY <1>11
  <2>5. t.pending = s.pending \ {m[i].id} BY <1>7, <1>8
  <2>6. t.thunks = s.thunks \/ (s.sealed = FALSE /\ Extends(s.thunks, t.thunks))
    BY <1>2, <1>7, <1>9
  <2>7. t.slot = s.slot /\ t.sealed = s.sealed /\ t.elements = s.elements BY <1>7, <1>9
  <2> QED BY <2>1, <2>2, <2>3, <2>4, <2>5, <2>6, <2>7, SectionPassed
<1> QED BY <1>0, <1>7, <1>9, <1>12 DEF t

LEMMA InSeq ==
  ASSUME NEW S, NEW l \in Seq(S)
  PROVE  IsSeq(l) /\ ToSet(l) \subseteq S
<1>1. l \in Seq({l[i] : i \in DOMAIN l}) OBVIOUS
<1>2. \A i \in DOMAIN l : l[i] \in S OBVIOUS
<1> QED BY <1>1, <1>2 DEF IsSeq, ToSet

LEMMA ValuesSame ==
  ASSUME NEW s, NEW t, t.imports = s.imports, t.defined = s.defined, t.thunks = s.thunks
  PROVE  \A fs : Values(t, fs) = Values(s, fs)
<1>1. \A f : ValueOf(t, f) = ValueOf(s, f)
  <2> SUFFICES ASSUME NEW f PROVE ValueOf(t, f) = ValueOf(s, f) OBVIOUS
  <2> QED BY DEF ValueOf, Imported
<1> QED BY <1>1 DEF Values

LEMMA EmittedElements ==
  ASSUME NEW m, NEW i, NEW s, At(m, i, s), m[i].id = 9
  PROVE  PassedTo(m, 10, Elements(s, m[i])) /\ Elements(s, m[i]).last = s.last
<1> DEFINE ls == m[i].entries
           u == UseAll(s, ls)
           r == [u EXCEPT !.elements = TRUE]
           vs == [j \in DOMAIN ls |-> Values(u, ls[j])]
           es == IF u.thunks = <<>> THEN vs ELSE Append(vs, ThunkValues(u))
           x == [id |-> 9, entries |-> es]
           d == Emit(r, 9, es)
           t == Elements(s, m[i])
           T == u.thunks
           w == Append(s.out, x)
<1>0. DOMAIN s = Fields /\ Knows(m, 9, s) /\ OrderOf(9) = 10 /\ EntriesOf(m, 9) = ls
      /\ IsModule(m) /\ Accepts(m) /\ ThunksIn(s) /\ IsSeq(ls) /\ ModuleAssumption
      /\ IsSeq(s.out) /\ Has(m, 9) /\ IsSeq(s.thunks) /\ PassedTo(m, 9, s)
  BY AtIs, OrdersAre DEF At
<1>1. t = Seal(d) BY DEF Elements
<1>2. /\ s.sealed = FALSE /\ ~s.elements /\ Holds(m, 9, 9, s)
      /\ s.pending = {}
  <2>1. s.pending = {id \in AddedIds : OrderOf(id) > 9} BY <1>0 DEF PassedTo
  <2>2. \A id \in AddedIds : ~(OrderOf(id) > 9) BY OrdersAre DEF AddedIds
  <2>3. s.pending = {} BY <2>1, <2>2
  <2> QED BY <1>0, <2>3 DEF PassedTo
<1>3. \A j \in DOMAIN ls : IsSeq(ls[j]) /\ ToSet(ls[j]) \subseteq Nat BY <1>0, SectionsAre, InSeq
<1>4. Functions(Among(ls)) BY <1>3 DEF Functions, Among, ToSet
<1>5. Len(s.imports) \in Nat
  <2>1. s.imports = FunctionImports(m) BY <1>0 DEF Knows
  <2> QED BY <1>0, <2>1, CountIs DEF Count
<1> HIDE DEF ls
<1>6. Uses(s, u, Among(ls))
  <2>1. Quiet(s, Among(ls)) BY <1>2 DEF Quiet
  <2> QED BY <1>0, <1>3, <1>4, <1>5, <2>1, UseAllIs
<1> HIDE DEF u
<1>7. /\ u.slot = s.slot /\ u.sealed = s.sealed /\ u.elements = s.elements
      /\ u.last = s.last /\ u.ok = s.ok /\ u.types = s.types /\ u.imports = s.imports
      /\ u.globals = s.globals /\ u.defined = s.defined /\ u.memory = s.memory
      /\ u.code = s.code /\ u.pending = s.pending /\ u.out = s.out /\ DOMAIN u = Fields
      /\ ThunksIn(u) /\ IsSeq(u.thunks) /\ Extends(s.thunks, u.thunks)
      /\ ToSet(u.thunks) = Escaping(u, UsedBy(m, 9) \cup Among(ls))
      /\ Escaping(u, Among(ls)) \subseteq ToSet(u.thunks)
  BY <1>0, <1>6, UsedKnows
<1>8. x.id = 9 /\ x.entries = es OBVIOUS
<1>9. Alters(u, r, {"elements"}) /\ r.elements = TRUE
  <2>1. DOMAIN u = Fields BY <1>7
  <2> QED BY <2>1, FieldSet, FieldNames
<1> HIDE DEF es, r
<1>10. Alters(r, d, {"out"}) /\ d.out = Append(r.out, x)
  <2>1. DOMAIN r = Fields BY <1>9 DEF Alters
  <2> QED BY <2>1, EmitIs
<1> HIDE DEF d, x
<1>11. Alters(u, d, {"elements"} \cup {"out"}) BY <1>9, <1>10, AltersTwice
<1>12. /\ d.slot = u.slot /\ d.sealed = u.sealed /\ d.thunks = u.thunks /\ d.last = u.last
       /\ d.imports = u.imports /\ d.defined = u.defined /\ d.pending = u.pending /\ DOMAIN d = Fields
       /\ d.ok = u.ok /\ d.types = u.types /\ d.globals = u.globals /\ d.memory = u.memory
       /\ d.code = u.code
  BY <1>11, FieldNames DEF Alters
<1>13. d.elements = TRUE /\ d.out = w
  <2>1. r.out = u.out /\ d.elements = r.elements BY <1>9, <1>10, FieldNames DEF Alters
  <2> QED BY <1>7, <1>9, <1>10, <2>1
<1>14. Seal(d) = FillIn(d)
  <2>1. d.sealed = FALSE BY <1>2, <1>7, <1>12
  <2>2. Alters(d, d, {"out", "elements"}) BY <1>12 DEF Alters
  <2> QED BY <1>13, <2>1, <2>2, SealFills
<1>15. Knows(m, 10, d)
  <2>1. UsedBy(m, 10) = UsedBy(m, 9) \cup Among(ls) BY <1>0 DEF UsedBy
  <2>2. ThunksIn(d) BY <1>7, <1>12 DEF ThunksIn, Imported
  <2>3. \A F : Escaping(d, F) = Escaping(u, F) BY <1>12 DEF Escaping, Imported
  <2>4. ToSet(d.thunks) = Escaping(d, UsedBy(m, 10)) BY <1>7, <1>12, <2>1, <2>3
  <2> QED BY <1>0, <1>7, <1>12, <2>2, <2>4 DEF Knows
<1>16. Ordered(w, 10)
  <2>1. x.id \in SectionIds /\ OrderOf(x.id) = 10 /\ x.id # 0 BY <1>0, <1>8 DEF SectionIds
  <2>2. OrderOf(x.id) > 9 BY <2>1
  <2>3. Ordered(s.out, 9) BY <1>2 DEF Holds
  <2>4. Ordered(w, IF x.id = 0 THEN 9 ELSE OrderOf(x.id)) BY <2>1, <2>2, <2>3, OrderedAppend
  <2> QED BY <2>1, <2>4
<1>17. Slotted(d)
  <2>1. d.out = Append(s.out, x) /\ x.id # 3 /\ d.slot = s.slot BY <1>7, <1>8, <1>12, <1>13
  <2>2. Slotted(s) BY <1>2 DEF Holds
  <2> HIDE DEF w
  <2> QED BY <1>0, <2>1, <2>2, SlottedAppend
<1>18. \A id : Has(w, id) <=> Has(s.out, id) \/ x.id = id BY <1>0, HasAppend
<1>19. Fine(m, T, TRUE, x)
  <2>1. IsSeq(vs) /\ Len(vs) = Len(ls) /\ DOMAIN ls = 1..Len(ls) /\ Len(ls) \in Nat
    <3>1. Len(ls) \in Nat /\ DOMAIN ls = 1..Len(ls) BY <1>0, SeqIs
    <3>2. vs = [j \in 1..Len(ls) |-> vs[j]] BY <3>1
    <3> HIDE DEF vs
    <3> QED BY <3>1, <3>2, ListIs
  <2>2. ASSUME NEW j \in DOMAIN ls PROVE StandsAll(m, T, ls[j], vs[j])
    <3>1. ls[j] \in ToSet(ls) BY DEF ToSet
    <3>2. ToSet(ls[j]) \subseteq Among(ls) BY <3>1 DEF Among
    <3>3. Functions(ToSet(ls[j])) BY <1>4, <3>2 DEF Functions
    <3>4. Escaping(d, ToSet(ls[j])) \subseteq ToSet(d.thunks)
      <4>1. Escaping(d, ToSet(ls[j])) \subseteq Escaping(u, Among(ls))
        BY <1>12, <3>2 DEF Escaping, Imported
      <4> QED BY <1>7, <1>12, <4>1
    <3>5. StandsAll(m, d.thunks, ls[j], Values(d, ls[j]))
      BY <1>0, <1>3, <1>15, <3>3, <3>4, ValuesAre
    <3>6. Values(d, ls[j]) = Values(u, ls[j]) BY <1>12, ValuesSame
    <3>7. vs[j] = Values(u, ls[j]) OBVIOUS
    <3> QED BY <1>12, <3>5, <3>6, <3>7
  <2>3. StandsAll(m, T, T, ThunkValues(u))
    <3>1. StandsAll(m, d.thunks, d.thunks, ThunkValues(d)) BY <1>0, <1>15, ThunksStand
    <3>2. ThunkValues(d) = ThunkValues(u) BY <1>12, ValuesSame DEF ThunkValues
    <3> QED BY <1>12, <3>1, <3>2
  <2> HIDE DEF vs
  <2> DEFINE z == ThunkValues(u)
  <2> HIDE DEF z
  <2>4. Elements9(m, T, es)
    <3>1. CASE T = <<>>
      <4>1. es = vs BY <3>1 DEF es
      <4>2. Len(vs) = Len(ls) + 0 BY <2>1
      <4> HIDE DEF T
      <4> QED BY <1>0, <2>1, <2>2, <3>1, <4>1, <4>2 DEF Elements9
    <3>2. CASE T # <<>>
      <4>1. es = Append(vs, z) BY <3>2 DEF es, z
      <4>2. IsSeq(es) /\ Len(es) = Len(ls) + 1 /\ es[Len(ls) + 1] = z
            /\ \A j \in DOMAIN ls : es[j] = vs[j]
        BY <2>1, <4>1, AppendIs, SeqIs
      <4>3. StandsAll(m, T, T, z) BY <2>3 DEF z
      <4> HIDE DEF T
      <4> QED BY <1>0, <2>2, <3>2, <4>2, <4>3 DEF Elements9
    <3> QED BY <3>1, <3>2
  <2> HIDE DEF T
  <2> QED BY <1>0, <1>8, <2>4 DEF Fine
<1>20. \A j \in DOMAIN w : (w[j].id = 3 => Has(m, 3)) /\ (w[j].id # 3 => Fine(m, T, TRUE, w[j]))
  <2>0. Len(s.out) \in Nat /\ DOMAIN s.out = 1..Len(s.out) BY <1>0, SeqIs
  <2>1. DOMAIN w = 1..(Len(s.out) + 1) /\ (\A j \in DOMAIN s.out : w[j] = s.out[j])
        /\ w[Len(s.out) + 1] = x
    BY <1>0, AppendIs
  <2>2. \A j \in DOMAIN s.out : Fine(m, T, FALSE, s.out[j])
    <3>1. AllFine(m, s) BY <1>2 DEF Holds
    <3>2. \A j \in DOMAIN s.out : Fine(m, s.thunks, FALSE, s.out[j]) BY <1>2, <3>1 DEF AllFine
    <3>3. IsSeq(T) /\ Extends(s.thunks, T) BY <1>7
    <3> HIDE DEF T
    <3> QED BY <1>0, <3>2, <3>3, FineStays
  <2> HIDE DEF w, T
  <2> SUFFICES ASSUME NEW j \in DOMAIN w
               PROVE (w[j].id = 3 => Has(m, 3)) /\ (w[j].id # 3 => Fine(m, T, TRUE, w[j]))
    OBVIOUS
  <2>3. CASE j \in DOMAIN s.out
    <3>1. w[j] = s.out[j] /\ Fine(m, T, FALSE, w[j]) BY <2>1, <2>2, <2>3
    <3>2. w[j].id = 3 => Has(m, 3) BY <3>1 DEF Fine
    <3>3. w[j].id # 3 => Fine(m, T, TRUE, w[j]) BY <3>1, FineSealed
    <3> QED BY <3>2, <3>3
  <2>4. CASE j = Len(s.out) + 1
    <3>1. w[j] = x BY <2>1, <2>4
    <3>2. Fine(m, T, TRUE, w[j]) BY <1>19, <3>1
    <3>3. w[j].id # 3 BY <1>8, <3>1
    <3> QED BY <3>2, <3>3
  <2>5. j \in DOMAIN s.out \/ j = Len(s.out) + 1 BY <2>0, <2>1
  <2> QED BY <2>3, <2>4, <2>5
<1> HIDE DEF w, T
<1>21. Ready(m, 10, 10, d)
  <2>1. d.thunks = T /\ d.pending = {} BY <1>2, <1>7, <1>12 DEF T
  <2>2. Present(m, 9, s) BY <1>2 DEF Holds
  <2>3. \A id \in AddedIds \ d.pending : Has(d.out, id)
    <3>1. d.pending = s.pending BY <1>2, <2>1
    <3> QED BY <1>13, <1>18, <2>2, <3>1 DEF Present
  <2>4. \A id \in SectionIds : OrderOf(id) <= 10 => OrderOf(id) <= 9 \/ id = 9
    <3>1. \A id \in SectionIds : OrderOf(id) \in 1..13 /\ (OrderOf(id) = OrderOf(9) => id = 9)
      BY OrdersAre DEF SectionIds
    <3> QED BY <1>0, <3>1
  <2>5. \A id \in SectionIds : Has(m, id) /\ OrderOf(id) <= 10 => Has(d.out, id)
    BY <1>8, <1>13, <1>18, <2>2, <2>4 DEF Present
  <2>6. Has(d.out, 9) BY <1>8, <1>13, <1>18
  <2> QED BY <1>13, <1>15, <1>16, <1>17, <1>20, <2>1, <2>3, <2>5, <2>6 DEF Ready
<1>22. PassedTo(m, 10, FillIn(d)) /\ FillIn(d).last = d.last
  <2>1. d.pending = {} BY <1>2, <1>7, <1>12
  <2> QED BY <1>0, <1>21, <2>1, FilledIn
<1> QED BY <1>1, <1>7, <1>12, <1>14, <1>22

Distinct(s) == \A i, j \in DOMAIN s : s[i] = s[j] => i = j

\* A list without repetitions that gains no member gains no entry.
LEMMA SameThunks ==
  ASSUME NEW v, IsSeq(v), NEW w, IsSeq(w), Extends(v, w), ToSet(w) \subseteq ToSet(v),
         Distinct(w)
  PROVE  w = v
<1>1. PICK k \in Nat : k = Len(v) BY SeqIs
<1>2. PICK n \in Nat : n = Len(w) BY SeqIs
<1>3. DOMAIN v = 1..k /\ DOMAIN w = 1..n BY <1>1, <1>2, SeqIs
<1>4. k <= n BY <1>1, <1>2 DEF Extends
<1>5. \A i \in DOMAIN v : w[i] = v[i] BY DEF Extends
<1>6. ASSUME k < n PROVE FALSE
  <2>1. n \in 1..n /\ n \notin 1..k BY <1>6
  <2>2. n \in DOMAIN w /\ n \notin DOMAIN v BY <1>3, <2>1
  <2>3. w[n] \in ToSet(v) BY <2>2 DEF ToSet
  <2>4. PICK i \in DOMAIN v : w[n] = v[i] BY <2>3 DEF ToSet
  <2>5. w[i] = w[n] BY <1>5, <2>4
  <2>6. 1..k \subseteq 1..n BY <1>4
  <2>7. i \in DOMAIN w BY <1>3, <2>4, <2>6
  <2> QED BY <2>2, <2>4, <2>5, <2>7 DEF Distinct
<1>7. n = k BY <1>4, <1>6
<1>8. v = [i \in 1..Len(v) |-> v[i]] /\ w = [i \in 1..Len(w) |-> w[i]]
  <2>1. \A S : IsSeq(S) => S = [i \in 1..Len(S) |-> S[i]]
    <3> SUFFICES ASSUME NEW S, IsSeq(S) PROVE S = [i \in 1..Len(S) |-> S[i]] OBVIOUS
    <3>1. S \in Seq({S[i] : i \in DOMAIN S}) BY DEF IsSeq
    <3> QED BY <3>1
  <2> QED BY <2>1
<1> QED
  <2>1. v = [i \in 1..k |-> v[i]] /\ w = [i \in 1..k |-> w[i]] BY <1>1, <1>2, <1>7, <1>8
  <2>2. \A i \in 1..k : w[i] = v[i] BY <1>3, <1>5
  <2> QED BY <2>1, <2>2

LEMMA EmittedCode ==
  ASSUME NEW m, NEW i, NEW s, At(m, i, s), m[i].id = 10
  PROVE  PassedTo(m, 12, Code(s, m[i])) /\ Code(s, m[i]).last = s.last
<1> DEFINE ds == m[i].entries
           ls == [j \in DOMAIN ds |-> ds[j].values]
           u == UseAll(s, ls)
           bs == [j \in DOMAIN ds |->
                    [calls |-> [k \in DOMAIN ds[j].calls |-> ShiftIndex(s, ds[j].calls[k])],
                     values |-> Values(u, ds[j].values),
                     locals |-> ds[j].locals + (IF ds[j].charged THEN 1 ELSE 0)]]
           ts == [j \in DOMAIN u.thunks |-> ThunkBody(u.thunks[j])]
           es == bs \o ts
           r == [u EXCEPT !.code = TRUE]
           t == Code(s, m[i])
           T == s.thunks
<1>0. DOMAIN s = Fields /\ Knows(m, 11, s) /\ OrderOf(10) = 12 /\ EntriesOf(m, 10) = ds
      /\ IsModule(m) /\ Accepts(m) /\ ThunksIn(s) /\ IsSeq(ds) /\ ModuleAssumption
      /\ IsSeq(s.out) /\ Has(m, 10) /\ IsSeq(s.thunks) /\ PassedTo(m, 11, s)
  BY AtIs, OrdersAre DEF At
<1>1. t = IF Len(ds) # Len(s.defined) \/ ~u.ok THEN Reject(s) ELSE Emit(r, 10, es) BY DEF Code
<1>2. s.sealed = TRUE BY <1>0 DEF PassedTo
<1>3. \A j \in DOMAIN ds : ds[j].calls \in Seq(Nat) /\ IsSeq(ds[j].values)
                            /\ ToSet(ds[j].values) \subseteq Nat
  BY <1>0, SectionsAre, InSeq
<1>4. Len(ds) \in Nat /\ DOMAIN ds = 1..Len(ds) BY <1>0, SeqIs
<1>5. IsSeq(ls) /\ DOMAIN ls = DOMAIN ds
  <2>1. ls = [j \in 1..Len(ds) |-> ls[j]] BY <1>4
  <2> QED BY <1>4, <2>1, ListIs
<1>6. Among(ls) = Taken(m)
  <2>1. Taken(m) = UNION {ToSet(body.values) : body \in ToSet(ds)} BY <1>0 DEF Taken
  <2>2. ToSet(ls) = {ds[j].values : j \in DOMAIN ds} BY <1>5 DEF ToSet
  <2>3. ToSet(ds) = {ds[j] : j \in DOMAIN ds} BY DEF ToSet
  <2> HIDE DEF ls, ds
  <2> QED BY <2>1, <2>2, <2>3 DEF Among
<1>7. Functions(Among(ls))
  <2>1. \A j \in DOMAIN ls : ToSet(ls[j]) \subseteq Nat BY <1>3, <1>5
  <2> HIDE DEF ls
  <2> QED BY <2>1 DEF Functions, Among, ToSet
<1>8. Len(s.imports) \in Nat /\ Imported(s) = Count(m) /\ s.defined = EntriesOf(m, 3)
  <2>1. s.imports = FunctionImports(m) /\ s.defined = EntriesOf(m, 3) BY <1>0 DEF Knows
  <2> QED BY <1>0, <2>1, CountIs DEF Count, Imported
<1>9. \A j \in DOMAIN ls : IsSeq(ls[j]) BY <1>3, <1>5
<1> HIDE DEF ds, ls
<1>10. Escaping(s, Among(ls)) \subseteq ToSet(s.thunks)
  <2>1. Among(ls) \subseteq Declared(m) BY <1>0, <1>6 DEF Accepts
  <2>2. UsedBy(m, 11) = ToSet(EntriesOf(m, 6)) \cup ExportedFunctions(m) \cup Among(EntriesOf(m, 9))
    BY DEF UsedBy
  <2>3. Declared(m) \subseteq UsedBy(m, 11) BY <2>2 DEF Declared, Among
  <2>4. ToSet(s.thunks) = Escaping(s, UsedBy(m, 11)) BY <1>0 DEF Knows
  <2> QED BY <2>1, <2>3, <2>4 DEF Escaping
<1>11. Uses(s, u, Among(ls))
  <2>1. Quiet(s, Among(ls)) BY <1>10 DEF Quiet
  <2> QED BY <1>0, <1>5, <1>7, <1>8, <1>9, <2>1, UseAllIs
<1> HIDE DEF u
<1>12. /\ u.slot = s.slot /\ u.sealed = s.sealed /\ u.elements = s.elements
       /\ u.last = s.last /\ u.ok = s.ok /\ u.types = s.types /\ u.imports = s.imports
       /\ u.globals = s.globals /\ u.defined = s.defined /\ u.memory = s.memory
       /\ u.code = s.code /\ u.pending = s.pending /\ u.out = s.out /\ DOMAIN u = Fields
       /\ ThunksIn(u) /\ IsSeq(u.thunks) /\ Extends(s.thunks, u.thunks)
       /\ ToSet(u.thunks) = Escaping(u, UsedBy(m, 11) \cup Among(ls))
       /\ Escaping(u, Among(ls)) \subseteq ToSet(u.thunks)
  BY <1>0, <1>11, UsedKnows
<1>13. u.thunks = T
  <2>1. ToSet(u.thunks) \subseteq ToSet(s.thunks) BY <1>10, <1>11 DEF Uses
  <2>2. Distinct(u.thunks) BY <1>12 DEF ThunksIn, Distinct
  <2> QED BY <1>0, <1>12, <2>1, <2>2, SameThunks
<1>14. t = Emit(r, 10, es)
  <2>1. Len(ds) = Len(s.defined) BY <1>0, <1>8 DEF Accepts
  <2>2. u.ok = TRUE BY <1>0, <1>12 DEF Knows
  <2> HIDE DEF t, r, es
  <2> QED BY <1>1, <2>1, <2>2
<1> HIDE DEF es, t
<1>15. Alters(u, r, {"code"}) /\ r.code = TRUE
  <2>1. DOMAIN u = Fields BY <1>12
  <2> QED BY <2>1, FieldSet, FieldNames
<1> HIDE DEF r
<1>16. Alters(r, t, {"out"}) /\ t.out = Append(r.out, [id |-> 10, entries |-> es])
  <2>1. DOMAIN r = Fields BY <1>15 DEF Alters
  <2> QED BY <1>14, <2>1, EmitIs
<1>17. Alters(u, t, {"code"} \cup {"out"}) BY <1>15, <1>16, AltersTwice
<1>18. /\ t.slot = u.slot /\ t.sealed = u.sealed /\ t.thunks = u.thunks /\ t.last = u.last
       /\ t.imports = u.imports /\ t.defined = u.defined /\ t.pending = u.pending /\ DOMAIN t = Fields
       /\ t.ok = u.ok /\ t.types = u.types /\ t.globals = u.globals /\ t.memory = u.memory
       /\ t.elements = u.elements
  BY <1>17, FieldNames DEF Alters
<1>19. t.code = TRUE /\ t.out = Append(s.out, [id |-> 10, entries |-> es])
  <2>1. r.out = u.out /\ t.code = r.code BY <1>15, <1>16, FieldNames DEF Alters
  <2> QED BY <1>12, <1>15, <1>16, <2>1
<1>20. Knows(m, 12, t)
  <2>1. UsedBy(m, 12) = UsedBy(m, 11) BY DEF UsedBy
  <2>2. ThunksIn(t) BY <1>12, <1>18 DEF ThunksIn, Imported
  <2>3. \A F : Escaping(t, F) = Escaping(s, F) BY <1>12, <1>18 DEF Escaping, Imported
  <2>4. ToSet(t.thunks) = Escaping(t, UsedBy(m, 12)) BY <1>0, <1>13, <1>18, <2>1, <2>3 DEF Knows
  <2>5. t.code <=> 12 >= 12 /\ Has(m, 10) BY <1>0, <1>19
  <2>6. t.memory <=> 12 >= 5 BY <1>0, <1>12, <1>18 DEF Knows
  <2> QED BY <1>0, <1>12, <1>18, <2>2, <2>4, <2>5, <2>6 DEF Knows
<1>21. Code10(m, T, es)
  <2>0. Len(T) \in Nat /\ DOMAIN T = 1..Len(T) BY <1>0, SeqIs
  <2>1. IsSeq(bs) /\ Len(bs) = Len(ds) /\ DOMAIN bs = DOMAIN ds
    <3>1. bs = [j \in 1..Len(ds) |-> bs[j]] BY <1>4
    <3> HIDE DEF bs
    <3> QED BY <1>4, <3>1, ListIs
  <2>2. IsSeq(ts) /\ Len(ts) = Len(T) /\ DOMAIN ts = DOMAIN T
    <3>1. ts = [j \in 1..Len(T) |-> ts[j]] BY <1>13, <2>0
    <3> HIDE DEF ts
    <3> QED BY <2>0, <3>1, ListIs
  <2>3. ASSUME NEW j \in DOMAIN ds
        PROVE  /\ bs[j].calls = ShiftedAll(m, ds[j].calls)
               /\ StandsAll(m, T, ds[j].values, bs[j].values)
               /\ bs[j].locals = LocalsOf(ds[j])
    <3>1. bs[j].calls = [k \in DOMAIN ds[j].calls |-> ShiftIndex(s, ds[j].calls[k])]
          /\ bs[j].values = Values(u, ds[j].values) /\ bs[j].locals = LocalsOf(ds[j])
      BY DEF LocalsOf
    <3> HIDE DEF bs
    <3>2. \A f : ShiftIndex(s, f) = Shifted(m, f) BY <1>8 DEF ShiftIndex, Shifted
    <3>3. bs[j].calls = ShiftedAll(m, ds[j].calls) BY <3>1, <3>2 DEF ShiftedAll
    <3>4. ls[j] = ds[j].values /\ ls[j] \in ToSet(ls) BY <1>5 DEF ToSet, ls
    <3>5. ToSet(ls[j]) \subseteq Among(ls) BY <3>4 DEF Among
    <3>6. Functions(ToSet(ls[j])) BY <1>7, <3>5 DEF Functions
    <3>7. Escaping(t, ToSet(ls[j])) \subseteq ToSet(t.thunks)
      <4>1. Escaping(t, ToSet(ls[j])) \subseteq Escaping(u, Among(ls))
        BY <1>18, <3>5 DEF Escaping, Imported
      <4> QED BY <1>12, <1>18, <4>1
    <3>8. StandsAll(m, t.thunks, ls[j], Values(t, ls[j]))
      BY <1>0, <1>5, <1>9, <1>20, <3>6, <3>7, ValuesAre
    <3>9. Values(t, ls[j]) = Values(u, ls[j]) BY <1>18, ValuesSame
    <3> QED BY <1>13, <1>18, <3>1, <3>3, <3>4, <3>8, <3>9
  <2>4. \A j \in DOMAIN T : ts[j] = ThunkBody(T[j]) BY <1>13
  <2> HIDE DEF bs, ts
  <2>5. es = bs \o ts BY DEF es
  <2>6. IsSeq(es) /\ Len(es) = Len(ds) + Len(T) /\ \A j \in DOMAIN ds : es[j] = bs[j]
    <3> DEFINE c == bs \o ts
    <3>1. IsSeq(c) /\ Len(c) = Len(bs) + Len(ts) /\ \A j \in DOMAIN bs : c[j] = bs[j]
      <4>1. IsSeq(bs) /\ IsSeq(ts) BY <2>1, <2>2
      <4>2. IsSeq(bs \o ts) BY <4>1, ConcatIs
      <4>3. Len(bs \o ts) = Len(bs) + Len(ts) BY <4>1, ConcatIs
      <4>4. \A j \in DOMAIN bs : (bs \o ts)[j] = bs[j] BY <4>1, ConcatIs
      <4> QED BY <4>2, <4>3, <4>4, Zenon
    <3> HIDE DEF c
    <3>2. es = c BY <2>5 DEF c
    <3> QED BY <2>1, <2>2, <3>1, <3>2
  <2>7. ASSUME NEW j \in DOMAIN T PROVE es[Len(ds) + j] = ThunkBody(T[j])
    <3> DEFINE k == Len(ds) + j
    <3>1. k = Len(bs) + j BY <2>1
    <3> HIDE DEF k
    <3>2. es[k] = ts[j] BY <2>1, <2>2, <2>5, <3>1, ConcatRight
    <3> QED BY <2>4, <3>2 DEF k
  <2> HIDE DEF T
  <2> QED BY <1>0, <2>3, <2>6, <2>7 DEF Code10
<1> HIDE DEF T
<1>22. Fine(m, t.thunks, t.sealed, [id |-> 10, entries |-> es])
  <2>1. t.thunks = T /\ t.sealed = TRUE BY <1>2, <1>12, <1>13, <1>18
  <2> QED BY <1>0, <1>21, <2>1 DEF Fine
<1>23. PassedTo(m, OrderOf(m[i].id), t)
  <2>1. m[i].id \notin {3, 9} OBVIOUS
  <2>2. Knows(m, OrderOf(m[i].id), t) BY <1>0, <1>20
  <2>3. t.out = Append(s.out, [id |-> m[i].id, entries |-> es]) BY <1>19
  <2>4. Fine(m, t.thunks, t.sealed, [id |-> m[i].id, entries |-> es]) BY <1>22
  <2>5. t.pending = s.pending \ {m[i].id}
    <3>1. s.pending \subseteq AddedIds BY <1>0 DEF PassedTo
    <3> QED BY <1>12, <1>18, <3>1 DEF AddedIds
  <2>6. t.thunks = s.thunks BY <1>13, <1>18 DEF T
  <2>7. t.slot = s.slot /\ t.sealed = s.sealed /\ t.elements = s.elements BY <1>12, <1>18
  <2> QED BY <2>1, <2>2, <2>3, <2>4, <2>5, <2>6, <2>7, SectionPassed
<1> QED BY <1>0, <1>12, <1>18, <1>23 DEF t

\* The start function is renumbered.
LEMMA EmittedStart ==
  ASSUME NEW m, NEW i, NEW s, At(m, i, s), m[i].id = 8
  PROVE  /\ PassedTo(m, 9, Emit(s, 8, <<ShiftIndex(s, m[i].entries[1])>>))
         /\ Emit(s, 8, <<ShiftIndex(s, m[i].entries[1])>>).last = s.last
<1> DEFINE es == <<ShiftIndex(s, m[i].entries[1])>>
<1>1. IsModule(m) /\ Knows(m, 8, s) /\ OrderOf(8) = 9 /\ EntriesOf(m, 8) = m[i].entries
  BY AtIs, OrdersAre
<1>2. Imported(s) = Count(m) BY <1>1 DEF Knows, Imported, Count
<1>3. Start8(m, es) BY <1>1, <1>2 DEF Start8, ShiftIndex, Shifted
<1> HIDE DEF es
<1>4. m[i].id \in {4, 8, 11, 12, 13} OBVIOUS
<1>5. PassedTo(m, OrderOf(m[i].id), Emit(s, m[i].id, es)) /\ Emit(s, m[i].id, es).last = s.last
  BY <1>3, <1>4, EmittedPlain
<1> QED BY <1>1, <1>5 DEF es

\* A section of the module: the pass goes on to its order.
LEMMA EmittedStep ==
  ASSUME NEW m, NEW i, NEW s, At(m, i, s)
  PROVE  PassedTo(m, OrderOf(m[i].id), Emitted(s, m[i])) /\ Emitted(s, m[i]).last = s.last
<1> DEFINE x == m[i]
           t == Emitted(s, x)
<1>1. x.id \in 1..13 BY AtIs
<1>0. Parses(x) BY DEF At, Suitable
<1>2. CASE x.id = 1
  <2>1. t = Types(s, x) BY <1>0, <1>2 DEF Emitted
  <2> QED BY <1>2, <2>1, EmittedTypes, OrdersAre
<1>3. CASE x.id = 2
  <2>1. t = Imports(s, x) BY <1>0, <1>3 DEF Emitted
  <2> QED BY <1>3, <2>1, EmittedImports, OrdersAre
<1>4. CASE x.id = 3
  <2>1. t = FunctionSection(s, x) BY <1>0, <1>4 DEF Emitted
  <2> QED BY <1>4, <2>1, EmittedFunctions, OrdersAre
<1>5. CASE x.id = 5
  <2>1. t = Memory(s, x) BY <1>0, <1>5 DEF Emitted
  <2> QED BY <1>5, <2>1, EmittedMemory, OrdersAre
<1>6. CASE x.id = 6
  <2>1. t = Globals(s, x) BY <1>0, <1>6 DEF Emitted
  <2> QED BY <1>6, <2>1, EmittedGlobals, OrdersAre
<1>7. CASE x.id = 7
  <2>1. t = Exports(s, x) BY <1>0, <1>7 DEF Emitted
  <2> QED BY <1>7, <2>1, EmittedExports, OrdersAre
<1>8. CASE x.id = 8
  <2>1. t = Emit(s, 8, <<ShiftIndex(s, x.entries[1])>>) BY <1>0, <1>8 DEF Emitted
  <2> QED BY <1>8, <2>1, EmittedStart, OrdersAre
<1>9. CASE x.id = 9
  <2>1. t = Elements(s, x) BY <1>0, <1>9 DEF Emitted
  <2> QED BY <1>9, <2>1, EmittedElements, OrdersAre
<1>10. CASE x.id = 10
  <2>1. t = Code(s, x) BY <1>0, <1>10 DEF Emitted
  <2> QED BY <1>10, <2>1, EmittedCode, OrdersAre
<1>11. CASE x.id \in {4, 11, 12, 13}
  <2>1. t = Emit(s, x.id, x.entries) BY <1>0, <1>11 DEF Emitted
  <2>2. x.id \in {4, 8, 11, 12, 13} /\ x.id # 8 BY <1>11
  <2>3. PassedTo(m, OrderOf(m[i].id), Emit(s, m[i].id, m[i].entries))
        /\ Emit(s, m[i].id, m[i].entries).last = s.last
    BY <2>2, EmittedPlain
  <2> QED BY <2>1, <2>3
<1> QED BY <1>1, <1>2, <1>3, <1>4, <1>5, <1>6, <1>7, <1>8, <1>9, <1>10, <1>11

\* A custom section is dropped, or appended where it stands.
LEMMA CustomAppended ==
  ASSUME NEW m, NEW L \in Nat, NEW s, PassedTo(m, L, s), NEW x, x.id = 0, Names0(m, x),
         NEW t, Alters(s, t, {"out"}), t.out = Append(s.out, x)
  PROVE  PassedTo(m, L, t)
<1>1. /\ Knows(m, L, s) /\ Ordered(s.out, L) /\ AllFine(m, s) /\ Present(m, L, s) /\ Slotted(s)
      /\ s.pending \subseteq AddedIds
  BY DEF PassedTo, Holds
<1>2. IsSeq(s.out) /\ IsSeq(s.thunks) BY <1>1 DEF Ordered, Knows, ThunksIn
<1>3. /\ t.slot = s.slot /\ t.sealed = s.sealed /\ t.elements = s.elements /\ t.thunks = s.thunks
      /\ t.pending = s.pending
  BY FieldNames DEF Alters
<1>4. Knows(m, L, t)
  <2>1. Alters(s, t, {"last", "pending", "slot", "out", "elements", "sealed"}) BY DEF Alters
  <2> QED BY <1>1, <2>1, KnowsStill
<1>5. Ordered(t.out, L)
  <2>1. Ordered(Append(s.out, x), IF x.id = 0 THEN L ELSE OrderOf(x.id)) BY <1>1, OrderedAppend
  <2> QED BY <2>1
<1>6. AllFine(m, t)
  <2>1. Fine(m, t.thunks, t.sealed, x) BY DEF Fine
  <2> QED BY <1>1, <1>2, <1>3, <2>1, AllFineAppend
<1>7. Present(m, L, t)
  <2>1. \A id : Has(s.out, id) => Has(t.out, id) BY <1>2, HasAppend
  <2> QED BY <1>1, <1>3, <2>1 DEF Present
<1>8. Slotted(t)
  <2>1. x.id # 3 OBVIOUS
  <2> QED BY <1>1, <1>2, <1>3, <2>1, SlottedAppend
<1>9. Holds(m, L, L, t) BY <1>1, <1>3, <1>4, <1>5, <1>6, <1>7, <1>8 DEF Holds
<1> QED BY <1>3, <1>9 DEF PassedTo

LEMMA CustomStep ==
  ASSUME NEW m, NEW L \in Nat, NEW s, PassedTo(m, L, s), s.last = L, NEW i \in DOMAIN m, m[i].id = 0
  PROVE  PassedTo(m, L, Custom(s, m[i])) /\ Custom(s, m[i]).last = L
<1> DEFINE x == m[i]
           es == [j \in DOMAIN x.entries |-> ShiftIndex(s, x.entries[j])]
           y == [id |-> 0, name |-> "name", entries |-> es]
           t == Custom(s, x)
<1>1. Knows(m, L, s) /\ DOMAIN s = Fields BY DEF PassedTo, Holds, Knows
<1>2. ASSUME NEW z, z.id = 0, Names0(m, z), t = [s EXCEPT !.out = Append(@, z)]
      PROVE  PassedTo(m, L, t) /\ t.last = L
  <2> DEFINE w == Append(s.out, z)
  <2>1. t = [s EXCEPT !["out"] = w] BY <1>2
  <2> HIDE DEF w, t
  <2>2. Alters(s, t, {"out"}) /\ t.out = w BY <1>1, <2>1, FieldSet, FieldNames
  <2>3. t.last = s.last BY <2>2, FieldNames DEF Alters
  <2>4. t.out = Append(s.out, z) BY <2>2 DEF w
  <2> QED BY <1>2, <2>2, <2>3, <2>4, CustomAppended
<1>3. CASE x.name = "name" /\ ~(s.last < 2 \/ ~x.exact)
  <2>1. t = [s EXCEPT !.out = Append(@, y)] BY <1>3 DEF Custom, Names
  <2>2. L >= 2 BY <1>3
  <2>3. Imported(s) = Count(m) BY <1>1, <2>2 DEF Knows, Imported, Count
  <2>4. es = ShiftedAll(m, x.entries) BY <2>3 DEF ShiftedAll, ShiftIndex, Shifted
  <2>5. y.id = 0 /\ y.name = "name" /\ y.entries = es OBVIOUS
  <2> HIDE DEF y, es, t
  <2>6. Names0(m, y) BY <1>3, <2>4, <2>5 DEF Names0
  <2>7. PassedTo(m, L, t) /\ t.last = L BY <1>2, <2>1, <2>5, <2>6
  <2> QED BY <2>7 DEF t
<1>4. CASE x.name = "name" /\ (s.last < 2 \/ ~x.exact)
  <2>1. t = s BY <1>4 DEF Custom, Names
  <2> HIDE DEF t
  <2>2. PassedTo(m, L, t) /\ t.last = L BY <2>1
  <2> QED BY <2>2 DEF t
<1>5. CASE x.name # "name" /\ x.name \in KeptSections
  <2>1. t = [s EXCEPT !.out = Append(@, x)] BY <1>5 DEF Custom
  <2>2. Names0(m, x) BY <1>5 DEF Names0
  <2> HIDE DEF t
  <2>3. PassedTo(m, L, t) /\ t.last = L BY <1>2, <2>1, <2>2
  <2> QED BY <2>3 DEF t
<1>6. CASE x.name # "name" /\ x.name \notin KeptSections
  <2>1. t = s BY <1>6 DEF Custom
  <2> HIDE DEF t
  <2>2. PassedTo(m, L, t) /\ t.last = L BY <2>1
  <2> QED BY <2>2 DEF t
<1> QED BY <1>3, <1>4, <1>5, <1>6

------------------------------------------------------------------------------
(* The pass over the whole module.                                          *)

\* After k sections of the module.
Passing(m, k, s) ==
  /\ s.last \in 0..13 /\ PassedTo(m, s.last, s)
  /\ \A i \in DOMAIN m : m[i].id # 0 => (i <= k <=> OrderOf(m[i].id) <= s.last)

LEMMA BegunPasses ==
  ASSUME NEW m, Suitable(m)
  PROVE  Passing(m, 0, Begun)
<1> DEFINE s == Begun
<1>1. IsModule(m) /\ InSectionOrder(m) BY DEF Suitable, Accepts
<1>2. DOMAIN m \subseteq Nat /\ \A i \in DOMAIN m : i > 0
  BY <1>1, ModuleIs
<1>3. \A i \in DOMAIN m : m[i].id # 0 => OrderOf(m[i].id) \in 1..13
  BY <1>1, OrdersAre DEF InSectionOrder
<1>4. /\ s.ok = TRUE /\ s.last = 0 /\ s.types = 0 /\ s.imports = <<>> /\ s.globals = 0
      /\ s.defined = <<>> /\ s.memory = FALSE /\ s.code = FALSE /\ s.pending = AddedIds
      /\ s.thunks = <<>> /\ s.elements = FALSE /\ s.sealed = FALSE /\ s.slot = 0 /\ s.out = <<>>
      /\ DOMAIN s = Fields
  BY DEF Begun, AddedIds, Fields
<1> HIDE DEF s
<1>5. IsSeq(s.thunks) /\ IsSeq(s.out) /\ DOMAIN s.thunks = {} /\ DOMAIN s.out = {}
  BY <1>4, EmptyIs
<1>6. ThunksIn(s) BY <1>5 DEF ThunksIn
<1>7. ToSet(s.thunks) = Escaping(s, UsedBy(m, 0))
  <2>1. ToSet(s.thunks) = {} BY <1>5 DEF ToSet
  <2>2. Escaping(s, UsedBy(m, 0)) = {} BY <1>4 DEF Escaping
  <2> QED BY <2>1, <2>2
<1>8. Knows(m, 0, s) BY <1>4, <1>6, <1>7 DEF Knows
<1>9. Ordered(s.out, 0) /\ AllFine(m, s) BY <1>5 DEF Ordered, AllFine
<1>10. \A id : ~Has(s.out, id) BY <1>5 DEF Has
<1>11. Slotted(s) BY <1>4, <1>10 DEF Slotted
<1>12. Present(m, 0, s)
  <2>1. \A id \in SectionIds : ~(OrderOf(id) <= 0) BY OrdersAre
  <2> QED BY <1>4, <2>1 DEF Present
<1>13. Holds(m, 0, 0, s) BY <1>4, <1>8, <1>9, <1>11, <1>12 DEF Holds
<1>14. \A id \in AddedIds : OrderOf(id) > 0
  <2>1. AddedIds \subseteq SectionIds BY DEF AddedIds, SectionIds
  <2> QED BY <2>1, OrdersAre
<1>15. s.pending = {id \in AddedIds : OrderOf(id) > 0} BY <1>4, <1>14
<1>16. PassedTo(m, 0, s)
  <2>1. s.sealed = (IF 0 >= 10 THEN TRUE ELSE FALSE)
    <3>1. (IF 0 >= 10 THEN TRUE ELSE FALSE) = FALSE OBVIOUS
    <3>2. s.sealed = FALSE BY <1>4
    <3> QED BY <3>1, <3>2, Zenon
  <2>2. s.elements => s.sealed BY <1>4
  <2> QED BY <1>13, <1>15, <2>1, <2>2 DEF PassedTo
<1>17. \A i \in DOMAIN m : m[i].id # 0 => (i <= 0 <=> OrderOf(m[i].id) <= s.last)
  <2> SUFFICES ASSUME NEW i \in DOMAIN m, m[i].id # 0
               PROVE  i <= 0 <=> OrderOf(m[i].id) <= s.last
    OBVIOUS
  <2>1. i \in Nat /\ i > 0 BY <1>2
  <2>2. OrderOf(m[i].id) \in 1..13 BY <1>3
  <2> QED BY <1>4, <2>1, <2>2
<1> QED BY <1>4, <1>16, <1>17 DEF Passing, s

LEMMA LastSet ==
  ASSUME NEW m, NEW L, NEW s, PassedTo(m, L, s), NEW o, NEW t, t = [s EXCEPT !.last = o]
  PROVE  PassedTo(m, L, t) /\ t.last = o
<1>1. Knows(m, L, s) /\ DOMAIN s = Fields BY DEF PassedTo, Holds, Knows
<1>2. Alters(s, t, {"last"}) /\ t.last = o BY <1>1, FieldSet, FieldNames
<1>3. /\ t.slot = s.slot /\ t.sealed = s.sealed /\ t.elements = s.elements /\ t.thunks = s.thunks
      /\ t.pending = s.pending /\ t.out = s.out
  BY <1>2, FieldNames DEF Alters
<1>4. Knows(m, L, t)
  <2>1. Alters(s, t, {"last", "pending", "slot", "out", "elements", "sealed"}) BY <1>2 DEF Alters
  <2> QED BY <1>1, <2>1, KnowsStill
<1>5. Holds(m, L, L, s) BY DEF PassedTo
<1>6. Holds(m, L, L, t)
  <2>1. Ordered(t.out, L) /\ t.pending \subseteq AddedIds BY <1>3, <1>5 DEF Holds
  <2>2. AllFine(m, t) BY <1>3, <1>5 DEF Holds, AllFine
  <2>3. Present(m, L, t) BY <1>3, <1>5 DEF Holds, Present
  <2>4. Slotted(t) BY <1>3, <1>5 DEF Holds, Slotted
  <2> QED BY <1>4, <2>1, <2>2, <2>3, <2>4 DEF Holds
<1> QED BY <1>2, <1>3, <1>6 DEF PassedTo

LEMMA PassOn ==
  ASSUME NEW m, Suitable(m), ModuleAssumption, NEW k \in Nat, k + 1 \in DOMAIN m,
         NEW s, Passing(m, k, s)
  PROVE  Passing(m, k + 1, Section(s, m[k + 1]))
<1> DEFINE i == k + 1
           L == s.last
           x == m[i]
           t == Section(s, x)
           o == OrderOf(x.id)
<1>0. i \in DOMAIN m /\ i = k + 1 OBVIOUS
<1>1. IsModule(m) /\ InSectionOrder(m) /\ Has(m, 5) /\ DOMAIN m \subseteq Nat
  BY ModuleIs, MemoryFits DEF Suitable, Accepts
<1>2. L \in Nat /\ L \in 0..13 /\ PassedTo(m, L, s) /\ s.ok = TRUE
  BY DEF Passing, PassedTo, Holds, Knows
<1>3. \A j \in DOMAIN m : m[j].id # 0 => (j <= k <=> OrderOf(m[j].id) <= L) BY DEF Passing
<1> HIDE DEF i, L
<1>4. CASE x.id = 0
  <2>1. t = Custom(s, m[i]) BY <1>2, <1>4 DEF Section
  <2> HIDE DEF t
  <2>2. s.last = L BY DEF L
  <2>3. PassedTo(m, L, Custom(s, m[i])) /\ Custom(s, m[i]).last = L
    BY <1>0, <1>2, <1>4, <2>2, CustomStep
  <2>4. \A j \in DOMAIN m : m[j].id # 0 => (j <= i <=> j <= k)
    <3> SUFFICES ASSUME NEW j \in DOMAIN m, m[j].id # 0 PROVE j <= i <=> j <= k OBVIOUS
    <3>1. j # i BY <1>4
    <3>2. j \in Nat BY <1>1
    <3> QED BY <1>0, <3>1, <3>2
  <2>5. Passing(m, i, t) BY <1>2, <1>3, <2>1, <2>3, <2>4 DEF Passing
  <2> QED BY <2>5 DEF t, i
<1>5. CASE x.id # 0
  <2>1. x.id \in SectionIds BY <1>0, <1>1, <1>5 DEF InSectionOrder
  <2>2. o \in 1..13 BY <2>1, OrdersAre
  <2>3. ~(i <= k) BY <1>0
  <2>4. ~(o <= L) BY <1>0, <1>3, <1>5, <2>3
  <2> DEFINE r == [s EXCEPT !.last = o]
             u == SynthesizeBefore(r, o)
  <2>5. t = Emitted(u, x) BY <1>2, <1>5, <2>1, <2>4 DEF Section, L
  <2>6. \A j \in DOMAIN m : m[j].id # 0 /\ j > i => OrderOf(m[j].id) > o
    BY <1>0, <1>1, <1>5 DEF InSectionOrder
  <2> HIDE DEF o, t
  <2>7. PassedTo(m, L, r) /\ r.last = o
    <3>1. r = [s EXCEPT !.last = o] OBVIOUS
    <3> HIDE DEF r
    <3> QED BY <1>2, <3>1, LastSet
  <2> HIDE DEF r
  <2>8. \A id \in SectionIds : OrderOf(id) \in 1..13 /\ id # 0 BY OrdersAre DEF SectionIds
  <2>9. \A j \in DOMAIN m : m[j].id # 0 =>
          \/ OrderOf(m[j].id) <= L /\ j <= k
          \/ OrderOf(m[j].id) = o /\ j = i
          \/ OrderOf(m[j].id) > o /\ j > i
    <3> SUFFICES ASSUME NEW j \in DOMAIN m, m[j].id # 0
                 PROVE  \/ OrderOf(m[j].id) <= L /\ j <= k
                        \/ OrderOf(m[j].id) = o /\ j = i
                        \/ OrderOf(m[j].id) > o /\ j > i
      OBVIOUS
    <3>1. j \in Nat BY <1>1
    <3>2. CASE j <= k BY <1>3, <3>2
    <3>3. CASE j = i BY <3>3 DEF o
    <3>4. CASE j > i BY <2>6, <3>4
    <3> QED BY <1>0, <3>1, <3>2, <3>3, <3>4
  <2>10. Gap(m, L, o - 1)
    <3> SUFFICES ASSUME NEW id \in SectionIds, Has(m, id)
                 PROVE  OrderOf(id) <= L \/ OrderOf(id) > o - 1
      BY DEF Gap
    <3>1. PICK j \in DOMAIN m : m[j].id = id BY DEF Has
    <3>2. OrderOf(id) <= L \/ OrderOf(id) = o \/ OrderOf(id) > o BY <2>8, <2>9, <3>1
    <3> QED BY <2>2, <2>8, <3>2
  <2>11. PassedTo(m, o - 1, u) /\ u.last = o
    <3>1. o - 1 \in Nat /\ L <= o - 1 /\ (o - 1) + 1 = o BY <1>2, <2>2, <2>4
    <3> DEFINE N == o - 1
    <3>2. N \in Nat /\ L <= N /\ Gap(m, L, N) /\ N + 1 = o BY <2>10, <3>1
    <3> HIDE DEF N, u
    <3>3. PassedTo(m, N, SynthesizeBefore(r, N + 1)) /\ SynthesizeBefore(r, N + 1).last = r.last
      BY <1>1, <1>2, <2>7, <3>2, SynthesizeIs
    <3>4. u = SynthesizeBefore(r, N + 1) BY <3>2 DEF u
    <3> QED BY <2>7, <3>3, <3>4 DEF N
  <2> HIDE DEF u
  <2>12. At(m, i, u) BY <1>0, <2>1, <2>11 DEF At, o
  <2>13. PassedTo(m, o, t) /\ t.last = o BY <2>5, <2>11, <2>12, EmittedStep DEF o
  <2>14. \A j \in DOMAIN m : m[j].id # 0 => (j <= i <=> OrderOf(m[j].id) <= o)
    <3> SUFFICES ASSUME NEW j \in DOMAIN m, m[j].id # 0 PROVE j <= i <=> OrderOf(m[j].id) <= o
      OBVIOUS
    <3>1. j \in Nat BY <1>1
    <3>2. OrderOf(m[j].id) \in 1..13 BY <1>1, <2>8 DEF InSectionOrder
    <3>3. \/ OrderOf(m[j].id) <= L /\ j <= k
          \/ OrderOf(m[j].id) = o /\ j = i
          \/ OrderOf(m[j].id) > o /\ j > i
      BY <2>9
    <3> QED BY <1>0, <1>2, <2>2, <2>4, <3>1, <3>2, <3>3
  <2>15. o \in 0..13 BY <2>2
  <2>16. Passing(m, i, t) BY <2>13, <2>14, <2>15 DEF Passing
  <2> QED BY <2>16 DEF t, i
<1> QED BY <1>4, <1>5

\* A suitable module is not refused, and its output has passed every order.
LEMMA PassEnds ==
  ASSUME NEW m, Suitable(m), ModuleAssumption
  PROVE  \E s : PassedTo(m, 13, s) /\ Rewritten(m) = s.out
<1>1. IsModule(m) /\ Accepts(m) /\ InSectionOrder(m) /\ Has(m, 5) /\ Len(m) \in Nat /\ DOMAIN m = 1..Len(m)
  BY ModuleIs, MemoryFits DEF Suitable, Accepts
<1>2. PICK u : /\ u[0] = Begun /\ \A i \in 1..Len(m) : u[i] = Section(u[i - 1], m[i])
               /\ Rewritten(m) = Output(SynthesizeBefore(u[Len(m)], Cardinality(SectionIds) + 1))
  BY <1>1, RewrittenRuns
<1> DEFINE S == {k \in Nat : k <= Len(m) => Passing(m, k, u[k])}
<1>3. 0 \in S BY <1>2, BegunPasses
<1>4. ASSUME NEW k \in S PROVE k + 1 \in S
  <2> SUFFICES ASSUME k + 1 <= Len(m) PROVE Passing(m, k + 1, u[k + 1]) OBVIOUS
  <2>1. k \in Nat /\ k <= Len(m) /\ k + 1 \in 1..Len(m) /\ (k + 1) - 1 = k BY <1>1
  <2>2. Passing(m, k, u[k]) BY <2>1
  <2>3. u[k + 1] = Section(u[k], m[k + 1]) BY <1>2, <2>1
  <2>4. k + 1 \in DOMAIN m BY <1>1, <2>1
  <2>5. Passing(m, k + 1, Section(u[k], m[k + 1])) BY <2>1, <2>2, <2>4, PassOn
  <2> QED BY <2>3, <2>5
<1>5. S = Nat BY <1>3, <1>4, SetInduction
<1> DEFINE s == u[Len(m)]
           L == s.last
           t == SynthesizeBefore(s, 14)
<1>6. Passing(m, Len(m), s) BY <1>1, <1>5
<1> HIDE DEF S, s
<1>7. L \in 0..13 /\ PassedTo(m, L, s) BY <1>6 DEF Passing
<1>8. Gap(m, L, 13)
  <2> SUFFICES ASSUME NEW id \in SectionIds, Has(m, id) PROVE OrderOf(id) <= L BY DEF Gap
  <2>1. PICK j \in DOMAIN m : m[j].id = id BY DEF Has
  <2>2. id # 0 BY DEF SectionIds
  <2>3. j <= Len(m) BY <1>1
  <2> QED BY <1>6, <2>1, <2>2, <2>3 DEF Passing
<1> HIDE DEF L
<1>9. PassedTo(m, 13, t)
  <2>1. L \in Nat /\ 13 \in Nat /\ L <= 13 /\ 13 + 1 = 14 BY <1>7
  <2> DEFINE N == 13
  <2>2. N \in Nat /\ L <= N /\ Gap(m, L, N) /\ N + 1 = 14 BY <1>8, <2>1
  <2> HIDE DEF N, t
  <2>3. PassedTo(m, N, SynthesizeBefore(s, N + 1)) BY <1>1, <1>7, <2>1, <2>2, SynthesizeIs
  <2>4. t = SynthesizeBefore(s, N + 1) BY <2>2 DEF t
  <2> QED BY <2>3, <2>4 DEF N
<1>10. Cardinality(SectionIds) + 1 = 14
  <2> DEFINE a == 1
             b == 13
  <2>0. a \in Int /\ b \in Int /\ a <= b /\ b - a + 1 = 13 OBVIOUS
  <2> HIDE DEF a, b
  <2>1. Cardinality(a..b) = 13 BY <2>0, FS_Interval
  <2> QED BY <2>1 DEF SectionIds, a, b
<1>11. Rewritten(m) = Output(t) BY <1>2, <1>10 DEF s
<1> HIDE DEF t
<1>12. Knows(m, 13, t) BY <1>9 DEF PassedTo, Holds
<1>13. t.ok = TRUE /\ t.memory /\ t.defined = EntriesOf(m, 3) /\ (t.code <=> Has(m, 10))
  BY <1>12 DEF Knows
<1>14. ~Has(m, 10) => EntriesOf(m, 3) = <<>>
  <2>1. IsSeq(EntriesOf(m, 3)) /\ Len(EntriesOf(m, 3)) = Len(EntriesOf(m, 10))
    BY <1>1, SectionsAre DEF Accepts
  <2>2. ASSUME ~Has(m, 10) PROVE EntriesOf(m, 3) = <<>>
    <3>1. EntriesOf(m, 10) = <<>> BY <2>2, HasNone
    <3>2. Len(EntriesOf(m, 3)) = 0 BY <2>1, <3>1, EmptyIs
    <3> QED BY <2>1, <3>2 DEF IsSeq
  <2> QED BY <2>2
<1>15. Rewritten(m) = t.out
  <2>1. ~(~t.ok \/ ~t.memory \/ (t.defined # <<>> /\ ~t.code)) BY <1>13, <1>14
  <2> QED BY <1>11, <2>1 DEF Output
<1> QED BY <1>9, <1>15

------------------------------------------------------------------------------
(* The module that comes out, T being its thunks.                           *)

ThunksOf(m, T) ==
  /\ IsSeq(T)
  /\ \A i \in DOMAIN T : T[i] \in Nat /\ T[i] < Count(m)
  /\ \A i, j \in DOMAIN T : T[i] = T[j] => i = j
  /\ T # <<>> => EntriesOf(m, 3) # <<>>

Result(m, T, out) ==
  /\ ThunksOf(m, T) /\ IsSeq(out) /\ InSectionOrder(out)
  /\ \A j \in DOMAIN out : out[j].id = 0 => Names0(m, out[j])
  /\ Types1(m, EntriesOf(out, 1))
  /\ Imports2(m, EntriesOf(out, 2))
  /\ Functions3(m, T, EntriesOf(out, 3))
  /\ EntriesOf(out, 5) = BoundedMemory(EntriesOf(m, 5))
  /\ Globals6(m, T, EntriesOf(out, 6))
  /\ Exports7(m, EntriesOf(out, 7))
  /\ IF Has(m, 8) THEN Start8(m, EntriesOf(out, 8)) ELSE EntriesOf(out, 8) = <<>>
  /\ Elements9(m, T, EntriesOf(out, 9))
  /\ Code10(m, T, EntriesOf(out, 10))

LEMMA OutputIs ==
  ASSUME NEW m, Suitable(m), ModuleAssumption, NEW s, PassedTo(m, 13, s)
  PROVE  Result(m, s.thunks, s.out)
<1> DEFINE out == s.out
           T == s.thunks
<1>1. IsModule(m) /\ Accepts(m) /\ Has(m, 5) BY MemoryFits DEF Suitable
<1>2. /\ Knows(m, 13, s) /\ Ordered(out, 13) /\ AllFine(m, s) /\ Present(m, 13, s)
      /\ s.pending = {id \in AddedIds : OrderOf(id) > 13}
      /\ s.sealed = (IF 13 >= 10 THEN TRUE ELSE FALSE)
  BY DEF PassedTo, Holds
<1>3. s.sealed = TRUE
  <2>1. (IF 13 >= 10 THEN TRUE ELSE FALSE) = TRUE OBVIOUS
  <2> QED BY <1>2, <2>1, Zenon
<1>4. AddedIds \subseteq SectionIds /\ \A id \in SectionIds : OrderOf(id) \in 1..13 /\ id # 0
  BY OrdersAre DEF AddedIds, SectionIds
<1>5. s.pending = {} BY <1>2, <1>4
<1>6. (\A id \in AddedIds : Has(out, id)) /\ (T # <<>> => Has(out, 9))
  BY <1>2, <1>3, <1>5 DEF Present
<1>7. \A id \in SectionIds : Has(m, id) => Has(out, id) BY <1>2, <1>4 DEF Present
<1>8. IsSeq(out) /\ InSectionOrder(out) BY <1>2 DEF Ordered, InSectionOrder
<1>9. DOMAIN out \subseteq Nat
  <2>1. Len(out) \in Nat /\ DOMAIN out = 1..Len(out) BY <1>8, SeqIs
  <2> HIDE DEF out
  <2> QED BY <2>1
<1>10. \A j \in DOMAIN out : Fine(m, T, TRUE, out[j]) BY <1>2, <1>3 DEF AllFine
<1>11. ThunksIn(s) /\ s.imports = FunctionImports(m) /\ s.defined = EntriesOf(m, 3)
       /\ ToSet(T) = Escaping(s, UsedBy(m, 13))
  BY <1>2 DEF Knows
<1>12. Imported(s) = Count(m) BY <1>11 DEF Imported, Count
<1>13. EntriesOf(m, 3) = <<>> => T = <<>>
  <2> SUFFICES ASSUME EntriesOf(m, 3) = <<>> PROVE T = <<>> OBVIOUS
  <2>1. Escaping(s, UsedBy(m, 13)) = {} BY <1>11 DEF Escaping
  <2>2. DOMAIN T = {} BY <1>11, <2>1 DEF ToSet
  <2>3. IsSeq(T) BY <1>11 DEF ThunksIn
  <2> HIDE DEF T
  <2>4. Len(T) \in Nat /\ DOMAIN T = 1..Len(T) BY <2>3, SeqIs
  <2>5. Len(T) = 0 BY <2>2, <2>4
  <2> QED BY <2>3, <2>5 DEF IsSeq
<1>14. ThunksOf(m, T) BY <1>11, <1>12, <1>13 DEF ThunksOf, ThunksIn
<1> HIDE DEF out, T
<1>15. ASSUME NEW id \in SectionIds, Has(out, id)
       PROVE  \E x : x.id = id /\ EntriesOf(out, id) = x.entries /\ Fine(m, T, TRUE, x)
  <2>1. PICK j \in DOMAIN out : out[j].id = id BY <1>15 DEF Has
  <2>2. out[j].id # 0 BY <1>4, <2>1
  <2>3. EntriesOf(out, out[j].id) = out[j].entries BY <1>8, <1>9, <2>2, OneOfEach
  <2> QED BY <1>10, <2>1, <2>3
<1>16. /\ 1 \in AddedIds /\ 2 \in AddedIds /\ 6 \in AddedIds /\ 7 \in AddedIds
       /\ 3 \in SectionIds /\ 5 \in SectionIds /\ 8 \in SectionIds /\ 9 \in SectionIds
       /\ 10 \in SectionIds
  BY DEF AddedIds, SectionIds
<1>17. Types1(m, EntriesOf(out, 1))
  <2>1. PICK x : x.id = 1 /\ EntriesOf(out, 1) = x.entries /\ Fine(m, T, TRUE, x)
    BY <1>4, <1>6, <1>15, <1>16
  <2> QED BY <2>1 DEF Fine
<1>18. Imports2(m, EntriesOf(out, 2))
  <2>1. PICK x : x.id = 2 /\ EntriesOf(out, 2) = x.entries /\ Fine(m, T, TRUE, x)
    BY <1>4, <1>6, <1>15, <1>16
  <2> QED BY <2>1 DEF Fine
<1>19. Globals6(m, T, EntriesOf(out, 6))
  <2>1. PICK x : x.id = 6 /\ EntriesOf(out, 6) = x.entries /\ Fine(m, T, TRUE, x)
    BY <1>4, <1>6, <1>15, <1>16
  <2> QED BY <2>1 DEF Fine
<1>20. Exports7(m, EntriesOf(out, 7))
  <2>1. PICK x : x.id = 7 /\ EntriesOf(out, 7) = x.entries /\ Fine(m, T, TRUE, x)
    BY <1>4, <1>6, <1>15, <1>16
  <2> QED BY <2>1 DEF Fine
<1>21. EntriesOf(out, 5) = BoundedMemory(EntriesOf(m, 5))
  <2>1. PICK x : x.id = 5 /\ EntriesOf(out, 5) = x.entries /\ Fine(m, T, TRUE, x)
    BY <1>1, <1>7, <1>15, <1>16
  <2> QED BY <2>1 DEF Fine
<1>22. Functions3(m, T, EntriesOf(out, 3))
  <2>1. CASE Has(out, 3)
    <3>1. PICK x : x.id = 3 /\ EntriesOf(out, 3) = x.entries /\ Fine(m, T, TRUE, x)
      BY <1>15, <1>16, <2>1
    <3> QED BY <3>1 DEF Fine
  <2>2. CASE ~Has(out, 3)
    <3>1. EntriesOf(out, 3) = <<>> /\ EntriesOf(m, 3) = <<>> BY <1>7, <1>16, <2>2, HasNone
    <3>2. T = <<>> BY <1>13, <3>1
    <3> QED BY <3>1, <3>2, EmptyIs DEF Functions3
  <2> QED BY <2>1, <2>2
<1>23. IF Has(m, 8) THEN Start8(m, EntriesOf(out, 8)) ELSE EntriesOf(out, 8) = <<>>
  <2>1. CASE Has(out, 8)
    <3>1. PICK x : x.id = 8 /\ EntriesOf(out, 8) = x.entries /\ Fine(m, T, TRUE, x)
      BY <1>15, <1>16, <2>1
    <3> QED BY <3>1 DEF Fine
  <2>2. CASE ~Has(out, 8)
    <3>1. EntriesOf(out, 8) = <<>> /\ ~Has(m, 8) BY <1>7, <1>16, <2>2, HasNone
    <3> QED BY <3>1
  <2> QED BY <2>1, <2>2
<1>24. Elements9(m, T, EntriesOf(out, 9))
  <2>1. CASE Has(out, 9)
    <3>1. PICK x : x.id = 9 /\ EntriesOf(out, 9) = x.entries /\ Fine(m, T, TRUE, x)
      BY <1>15, <1>16, <2>1
    <3> QED BY <3>1 DEF Fine
  <2>2. CASE ~Has(out, 9)
    <3>1. EntriesOf(out, 9) = <<>> /\ EntriesOf(m, 9) = <<>> BY <1>7, <1>16, <2>2, HasNone
    <3>2. T = <<>> BY <1>6, <2>2 DEF T
    <3> QED BY <3>1, <3>2, EmptyIs DEF Elements9
  <2> QED BY <2>1, <2>2
<1>25. Code10(m, T, EntriesOf(out, 10))
  <2>1. CASE Has(out, 10)
    <3>1. PICK x : x.id = 10 /\ EntriesOf(out, 10) = x.entries /\ Fine(m, T, TRUE, x)
      BY <1>15, <1>16, <2>1
    <3> QED BY <3>1 DEF Fine
  <2>2. CASE ~Has(out, 10)
    <3>1. EntriesOf(out, 10) = <<>> /\ EntriesOf(m, 10) = <<>> BY <1>7, <1>16, <2>2, HasNone
    <3>2. EntriesOf(m, 3) = <<>>
      <4>1. Len(EntriesOf(m, 3)) = Len(EntriesOf(m, 10)) BY <1>1 DEF Accepts
      <4>2. IsSeq(EntriesOf(m, 3)) /\ Len(EntriesOf(m, 3)) = 0
        BY <1>1, <3>1, <4>1, SectionsAre, EmptyIs
      <4> QED BY <4>2 DEF IsSeq
    <3>3. T = <<>> BY <1>13, <3>2
    <3> QED BY <3>1, <3>3, EmptyIs DEF Code10
  <2> QED BY <2>1, <2>2
<1>26. \A j \in DOMAIN out : out[j].id = 0 => Names0(m, out[j]) BY <1>10 DEF Fine
<1>27. Result(m, T, out)
  BY <1>8, <1>14, <1>17, <1>18, <1>19, <1>20, <1>21, <1>22, <1>23, <1>24, <1>25, <1>26 DEF Result
<1> QED BY <1>27 DEF out, T

LEMMA CountsOut ==
  ASSUME NEW m, IsModule(m), Accepts(m), NEW T, NEW out, Result(m, T, out)
  PROVE  /\ FunctionImports(out) = Append(FunctionImports(m), ImportAdded(m))
         /\ Count(m) \in Nat /\ Len(EntriesOf(m, 3)) \in Nat /\ Len(T) \in Nat
         /\ Len(EntriesOf(m, 1)) \in Nat
         /\ Len(FunctionImports(out)) = Count(m) + 1
         /\ Len(EntriesOf(out, 3)) = Len(EntriesOf(m, 3)) + Len(T)
         /\ Len(EntriesOf(out, 10)) = Len(EntriesOf(m, 3)) + Len(T)
         /\ Len(EntriesOf(m, 10)) = Len(EntriesOf(m, 3))
         /\ FunctionCount(m) = Count(m) + Len(EntriesOf(m, 3))
         /\ FunctionCount(out) = Count(m) + 1 + Len(EntriesOf(m, 3)) + Len(T)
         /\ Len(EntriesOf(out, 1)) = Len(EntriesOf(m, 1)) + 1
<1>1. /\ IsSeq(EntriesOf(m, 1)) /\ IsSeq(EntriesOf(m, 2)) /\ IsSeq(EntriesOf(m, 3))
      /\ Count(m) \in Nat /\ IsSeq(FunctionImports(m)) /\ IsSeq(T)
  BY SectionsAre, CountIs DEF Result, ThunksOf
<1>2. Len(EntriesOf(m, 1)) \in Nat /\ Len(EntriesOf(m, 3)) \in Nat /\ Len(T) \in Nat
  BY <1>1, SeqIs
<1>3. FunctionImports(out) = Append(FunctionImports(m), ImportAdded(m))
  <2>1. EntriesOf(out, 2) = Append(EntriesOf(m, 2), ImportAdded(m)) BY DEF Result, Imports2
  <2>2. ImportAdded(m).kind = "function" BY DEF ImportAdded
  <2>3. FunctionsOf(Append(EntriesOf(m, 2), ImportAdded(m)))
          = Append(FunctionsOf(EntriesOf(m, 2)), ImportAdded(m))
    BY <1>1, <2>2, FunctionsOfAppend
  <2> QED BY <2>1, <2>3 DEF FunctionImports
<1>4. Len(FunctionImports(out)) = Count(m) + 1 BY <1>1, <1>3, AppendIs DEF Count
<1>5. Len(EntriesOf(out, 3)) = Len(EntriesOf(m, 3)) + Len(T) BY DEF Result, Functions3
<1>6. Len(EntriesOf(m, 10)) = Len(EntriesOf(m, 3)) BY DEF Accepts
<1>7. Len(EntriesOf(out, 10)) = Len(EntriesOf(m, 10)) + Len(T) BY DEF Result, Code10
<1>8. Len(EntriesOf(out, 1)) = Len(EntriesOf(m, 1)) + 1
  <2>1. EntriesOf(out, 1) = Append(EntriesOf(m, 1), "type") BY DEF Result, Types1
  <2> QED BY <1>1, <2>1, AppendIs
<1>9. FunctionCount(m) = Count(m) + Len(EntriesOf(m, 3)) BY DEF FunctionCount, Count
<1>10. FunctionCount(out) = Len(FunctionImports(out)) + Len(EntriesOf(out, 3))
  BY DEF FunctionCount
<1>11. FunctionCount(out) = Count(m) + 1 + Len(EntriesOf(m, 3)) + Len(T)
  <2> DEFINE c == Count(m)
             n == Len(EntriesOf(m, 3))
             k == Len(T)
             p == Len(FunctionImports(out))
             q == Len(EntriesOf(out, 3))
  <2>1. c \in Nat /\ n \in Nat /\ k \in Nat /\ p = c + 1 /\ q = n + k BY <1>1, <1>2, <1>4, <1>5
  <2> HIDE DEF c, n, k, p, q
  <2>2. p + q = c + 1 + n + k BY <2>1
  <2> QED BY <1>10, <2>2 DEF c, n, k, p, q
<1> QED BY <1>1, <1>2, <1>3, <1>4, <1>5, <1>6, <1>7, <1>8, <1>9, <1>11

\* The thunk of an import follows the module's functions, and calls it.
LEMMA ThunkAt ==
  ASSUME NEW m, IsModule(m), Accepts(m), NEW T, NEW out, Result(m, T, out), NEW i \in DOMAIN T
  PROVE  /\ EntriesOf(out, 10)[Len(EntriesOf(m, 3)) + i] = ThunkBody(T[i])
         /\ i \in Nat /\ i >= 1 /\ i <= Len(T)
<1>1. IsSeq(T) BY DEF Result, ThunksOf
<1>2. i \in Nat /\ i >= 1 /\ i <= Len(T)
  <2>1. Len(T) \in Nat /\ DOMAIN T = 1..Len(T) BY <1>1, SeqIs
  <2> QED BY <2>1
<1>3. EntriesOf(out, 10)[Len(EntriesOf(m, 10)) + i] = ThunkBody(T[i])
  BY DEF Result, Code10
<1>4. Len(EntriesOf(m, 10)) = Len(EntriesOf(m, 3)) BY DEF Accepts
<1> QED BY <1>2, <1>3, <1>4

\* A value's number is a function's, and names the function the value named.
LEMMA StandsFor ==
  ASSUME NEW m, IsModule(m), Accepts(m), ModuleAssumption, NEW T, NEW out, Result(m, T, out),
         NEW f \in Nat, f < FunctionCount(m), NEW g, Stands(m, T, f, g)
  PROVE  g \in Nat /\ g < FunctionCount(out) /\ Origin(m, out, g) = f
<1> DEFINE c == Count(m)
           n == Len(EntriesOf(m, 3))
           k == Len(T)
<1>0. f # Void BY DEF ModuleAssumption
<1>1. /\ c \in Nat /\ n \in Nat /\ k \in Nat /\ FunctionCount(m) = c + n
      /\ FunctionCount(out) = c + 1 + n + k
  BY CountsOut
<1>2. Origin(m, out, g) = CASE g < c -> g
                            [] g = c -> Void
                            [] g > c /\ g <= c + n -> g - 1
                            [] OTHER -> EntriesOf(out, 10)[g - c].calls[1]
  BY DEF Origin, Count
<1> HIDE DEF c, n, k
<1>3. CASE f >= c /\ g = f + 1
  <2>1. g \in Nat /\ g > c /\ g <= c + n /\ g - 1 = f BY <1>1, <1>3
  <2>2. ~(g < c) /\ g # c BY <1>1, <2>1
  <2>3. Origin(m, out, g) = g - 1 BY <1>2, <2>1, <2>2
  <2> QED BY <1>1, <2>1, <2>3
<1>4. CASE f < c /\ g = f
  <2>1. Origin(m, out, g) = g
    <3>1. g < c BY <1>4
    <3>2. g # c /\ ~(g > c) BY <1>1, <1>4
    <3> QED BY <1>2, <3>1, <3>2
  <2> QED BY <1>1, <1>4, <2>1
<1>5. ASSUME NEW i \in DOMAIN T, T[i] = f, g = c + n + i
      PROVE  g \in Nat /\ g < FunctionCount(out) /\ Origin(m, out, g) = f
  <2>1. i \in Nat /\ i >= 1 /\ i <= k BY ThunkAt DEF k
  <2>2. EntriesOf(out, 10)[n + i] = ThunkBody(T[i]) BY ThunkAt DEF n
  <2>3. g \in Nat /\ g > c /\ ~(g <= c + n) /\ ~(g < c) /\ g # c /\ g - c = n + i
    BY <1>1, <1>5, <2>1
  <2>4. Origin(m, out, g) = EntriesOf(out, 10)[g - c].calls[1] BY <1>2, <2>3
  <2>5. EntriesOf(out, 10)[g - c] = ThunkBody(T[i]) BY <2>2, <2>3
  <2>6. Origin(m, out, g) = T[i] BY <2>4, <2>5 DEF ThunkBody
  <2> QED BY <1>1, <1>5, <2>1, <2>3, <2>6
<1> QED BY <1>0, <1>3, <1>4, <1>5 DEF Stands, c, n

\* So does a function's number where it is called, exported or started.
LEMMA ShiftedFor ==
  ASSUME NEW m, IsModule(m), Accepts(m), NEW T, NEW out, Result(m, T, out),
         NEW f \in Nat, f < FunctionCount(m)
  PROVE  /\ Shifted(m, f) \in Nat /\ Shifted(m, f) < FunctionCount(out)
         /\ Origin(m, out, Shifted(m, f)) = f
<1> DEFINE c == Count(m)
           n == Len(EntriesOf(m, 3))
           k == Len(T)
           g == Shifted(m, f)
<1>1. /\ c \in Nat /\ n \in Nat /\ k \in Nat /\ FunctionCount(m) = c + n
      /\ FunctionCount(out) = c + 1 + n + k
  BY CountsOut
<1>2. Origin(m, out, g) = CASE g < c -> g
                            [] g = c -> Void
                            [] g > c /\ g <= c + n -> g - 1
                            [] OTHER -> EntriesOf(out, 10)[g - c].calls[1]
  BY DEF Origin, Count
<1>3. g = IF f >= c THEN f + 1 ELSE f BY DEF Shifted
<1> HIDE DEF c, n, k, g
<1>4. CASE f >= c
  <2>1. g \in Nat /\ g > c /\ g <= c + n /\ g - 1 = f BY <1>1, <1>3, <1>4
  <2>2. ~(g < c) /\ g # c BY <1>1, <2>1
  <2>3. Origin(m, out, g) = g - 1 BY <1>2, <2>1, <2>2
  <2>4. g \in Nat /\ g < FunctionCount(out) /\ Origin(m, out, g) = f BY <1>1, <2>1, <2>3
  <2> QED BY <2>4 DEF g
<1>5. CASE ~(f >= c)
  <2>1. g = f BY <1>3, <1>5
  <2>2. g < c /\ g # c /\ ~(g > c) BY <1>1, <1>5, <2>1
  <2>3. Origin(m, out, g) = g BY <1>2, <2>2
  <2>4. g \in Nat /\ g < FunctionCount(out) /\ Origin(m, out, g) = f BY <1>1, <2>1, <2>2, <2>3
  <2> QED BY <2>4 DEF g
<1> QED BY <1>4, <1>5

\* The exports that come out.
LEMMA ExportsOut ==
  ASSUME NEW m, IsModule(m), NEW T, NEW out, Result(m, T, out)
  PROVE  LET d == EntriesOf(m, 7)
             e == EntriesOf(out, 7)
         IN  /\ Len(d) \in Nat /\ DOMAIN d = 1..Len(d)
             /\ IsSeq(e) /\ Len(e) = Len(d) + 1 /\ DOMAIN e = 1..(Len(d) + 1)
             /\ \A i \in DOMAIN d : e[i] = ExportShifted(m, d[i])
             /\ e[Len(d) + 1] = ExportAdded(m)
<1> DEFINE d == EntriesOf(m, 7)
           v == [i \in DOMAIN d |-> ExportShifted(m, d[i])]
           e == EntriesOf(out, 7)
<1>1. e = Append(v, ExportAdded(m)) BY DEF Result, Exports7
<1>2. Len(d) \in Nat /\ DOMAIN d = 1..Len(d) BY SectionsAre, SeqIs
<1>3. IsSeq(v) /\ Len(v) = Len(d) /\ DOMAIN v = 1..Len(d)
  <2>1. v = [i \in 1..Len(d) |-> v[i]] BY <1>2
  <2> HIDE DEF v
  <2> QED BY <1>2, <2>1, ListIs
<1>4. \A i \in DOMAIN d : v[i] = ExportShifted(m, d[i]) OBVIOUS
<1> HIDE DEF v
<1> DEFINE w == Append(v, ExportAdded(m))
<1>5. /\ IsSeq(w) /\ Len(w) = Len(v) + 1 /\ DOMAIN w = 1..(Len(v) + 1)
      /\ \A i \in DOMAIN v : w[i] = v[i]
      /\ w[Len(v) + 1] = ExportAdded(m)
  BY <1>3, AppendIs
<1> HIDE DEF w
<1>6. e = w BY <1>1 DEF w
<1> HIDE DEF e, d
<1>7. /\ Len(d) \in Nat /\ DOMAIN d = 1..Len(d)
      /\ IsSeq(e) /\ Len(e) = Len(d) + 1 /\ DOMAIN e = 1..(Len(d) + 1)
      /\ (\A i \in DOMAIN d : e[i] = ExportShifted(m, d[i]))
      /\ e[Len(d) + 1] = ExportAdded(m)
  BY <1>2, <1>3, <1>4, <1>5, <1>6
<1> QED BY <1>7 DEF d, e

LEMMA ExportFields ==
  ASSUME NEW m, NEW e, IsExport(e)
  PROVE  /\ ExportShifted(m, e).name = e.name /\ ExportShifted(m, e).kind = e.kind
         /\ e.kind = "function" => ExportShifted(m, e).index = Shifted(m, e.index)
         /\ e.kind # "function" => ExportShifted(m, e) = e
BY DEF ExportShifted

LEMMA TypesUsedFit ==
  ASSUME NEW m, IsModule(m), Accepts(m), NEW T, NEW out, Result(m, T, out)
  PROVE  \A t \in TypesUsed(out) : t < Len(EntriesOf(out, 1))
<1> DEFINE n == Len(EntriesOf(m, 1))
           d == EntriesOf(m, 3)
           e == EntriesOf(out, 3)
           is == FunctionImports(m)
           os == FunctionImports(out)
<1>1. n \in Nat /\ Len(EntriesOf(out, 1)) = n + 1 /\ os = Append(is, ImportAdded(m)) BY CountsOut
<1>2. IsSeq(d) /\ IsSeq(is) /\ Len(d) \in Nat /\ DOMAIN d = 1..Len(d) /\ Len(T) \in Nat
      /\ DOMAIN T = 1..Len(T) /\ Len(is) \in Nat /\ DOMAIN is = 1..Len(is)
      /\ (\A i \in DOMAIN d : d[i] \in Nat) /\ (\A i \in DOMAIN is : is[i].type \in Nat)
  BY SectionsAre, CountIs, SeqIs DEF Result, ThunksOf
<1>3. (\A i \in DOMAIN d : d[i] < n) /\ (\A i \in DOMAIN is : is[i].type < n)
  BY DEF Accepts, TypesUsed, ToSet
<1>4. IsSeq(e) /\ Len(e) = Len(d) + Len(T) /\ (\A i \in DOMAIN d : e[i] = d[i])
      /\ \A i \in DOMAIN T : e[Len(d) + i] = is[T[i] + 1].type
  BY DEF Result, Functions3
<1>5. DOMAIN e = 1..(Len(d) + Len(T)) BY <1>4, SeqIs
<1>6. \A i \in DOMAIN T : T[i] \in Nat /\ T[i] < Len(is) BY DEF Result, ThunksOf, Count
<1>7. ImportAdded(m).type = n BY DEF ImportAdded
<1>8. TypesUsed(out) = ToSet(e) \cup {x.type : x \in ToSet(os)} BY DEF TypesUsed
<1> HIDE DEF d, e, is, n, os
<1>9. ASSUME NEW i \in DOMAIN e PROVE e[i] < n + 1
  <2>1. CASE i <= Len(d)
    <3>1. i \in DOMAIN d BY <1>2, <1>5, <2>1
    <3>2. e[i] = d[i] /\ d[i] < n /\ d[i] \in Nat BY <1>2, <1>3, <1>4, <3>1
    <3> QED BY <1>1, <3>2
  <2>2. CASE i > Len(d)
    <3> DEFINE j == i - Len(d)
    <3>1. j \in DOMAIN T /\ Len(d) + j = i BY <1>2, <1>5, <2>2
    <3> HIDE DEF j
    <3>2. e[i] = is[T[j] + 1].type BY <1>4, <3>1
    <3>3. T[j] + 1 \in DOMAIN is BY <1>2, <1>6, <3>1
    <3>4. is[T[j] + 1].type < n /\ is[T[j] + 1].type \in Nat BY <1>2, <1>3, <3>3
    <3> QED BY <1>1, <3>2, <3>4
  <2>3. i \in Nat BY <1>5
  <2> QED BY <1>2, <2>1, <2>2, <2>3
<1>10. ASSUME NEW i \in DOMAIN os PROVE os[i].type < n + 1
  <2>1. /\ DOMAIN os = 1..(Len(is) + 1) /\ \A j \in DOMAIN is : os[j] = is[j]
        /\ os[Len(is) + 1] = ImportAdded(m)
    BY <1>1, <1>2, AppendIs
  <2>2. i \in DOMAIN is \/ i = Len(is) + 1 BY <1>2, <2>1
  <2>3. CASE i \in DOMAIN is
    <3>1. os[i].type = is[i].type BY <2>1, <2>3
    <3>2. is[i].type < n /\ is[i].type \in Nat BY <1>2, <1>3, <2>3
    <3> QED BY <1>1, <3>1, <3>2
  <2>4. CASE i = Len(is) + 1
    <3>1. os[i].type = n BY <1>7, <2>1, <2>4
    <3> QED BY <1>1, <3>1
  <2> QED BY <2>2, <2>3, <2>4
<1> QED BY <1>1, <1>8, <1>9, <1>10 DEF ToSet

\* What the exports, the elements and the globals name.
LEMMA DeclaredOut ==
  ASSUME NEW m, IsModule(m), Accepts(m), ModuleAssumption, NEW T, NEW out, Result(m, T, out),
         NEW g \in Declared(out)
  PROVE  g \in Nat /\ g < FunctionCount(out)
<1>1. (\A f \in Declared(m) : f < FunctionCount(m)) /\ Void \notin Int
  BY DEF Accepts, ModuleAssumption
<1>2. CASE g \in ExportedFunctions(out)
  <2> DEFINE d == EntriesOf(m, 7)
             e == EntriesOf(out, 7)
  <2>1. PICK i \in DOMAIN e : e[i].kind = "function" /\ e[i].index = g
    BY <1>2 DEF ExportedFunctions, ToSet
  <2>2. /\ Len(d) \in Nat /\ DOMAIN d = 1..Len(d) /\ DOMAIN e = 1..(Len(d) + 1)
        /\ \A j \in DOMAIN d : e[j] = ExportShifted(m, d[j])
        /\ e[Len(d) + 1] = ExportAdded(m)
    BY ExportsOut
  <2>3. \A j \in DOMAIN d : IsExport(d[j]) BY SectionsAre
  <2>4. \A j \in DOMAIN d : d[j].kind = "function" => d[j].index \in Declared(m)
    BY DEF Declared, ExportedFunctions, ToSet
  <2>5. ExportAdded(m).kind # "function" BY DEF ExportAdded
  <2> HIDE DEF d, e
  <2>6. i \in DOMAIN d BY <2>1, <2>2, <2>5
  <2>7. d[i].kind = "function" /\ g = Shifted(m, d[i].index)
    BY <2>1, <2>2, <2>3, <2>6, ExportFields
  <2>8. d[i].index \in Nat BY <2>3, <2>6 DEF IsExport
  <2>9. d[i].index < FunctionCount(m) BY <1>1, <2>4, <2>6, <2>7
  <2> QED BY <2>7, <2>8, <2>9, ShiftedFor
<1>3. CASE g \in UNION {ToSet(segment) : segment \in ToSet(EntriesOf(out, 9))}
  <2> DEFINE d == EntriesOf(m, 9)
             e == EntriesOf(out, 9)
  <2>1. PICK i \in DOMAIN e : g \in ToSet(e[i]) BY <1>3 DEF ToSet
  <2>2. PICK l \in DOMAIN e[i] : g = e[i][l] BY <2>1 DEF ToSet
  <2>3. /\ IsSeq(e) /\ Len(e) = Len(d) + (IF T = <<>> THEN 0 ELSE 1)
        /\ \A j \in DOMAIN d : StandsAll(m, T, d[j], e[j])
        /\ T # <<>> => StandsAll(m, T, T, e[Len(d) + 1])
    BY DEF Result, Elements9
  <2>4. Len(d) \in Nat /\ DOMAIN d = 1..Len(d) BY SectionsAre, SeqIs
  <2>5. DOMAIN e = 1..Len(e) BY <2>3, SeqIs
  <2>6. \A j \in DOMAIN d : d[j] \in Seq(Nat) BY SectionsAre
  <2>7. \A j \in DOMAIN d : ToSet(d[j]) \subseteq Declared(m) BY DEF Declared, ToSet
  <2> HIDE DEF d, e
  <2>8. \E fs : StandsAll(m, T, fs, e[i]) /\ IsSeq(fs)
                /\ \A j \in DOMAIN fs : fs[j] \in Nat /\ fs[j] < FunctionCount(m)
    <3>1. CASE i \in DOMAIN d
      <4>1. StandsAll(m, T, d[i], e[i]) BY <2>3, <3>1
      <4>2. d[i] \in Seq(Nat) /\ ToSet(d[i]) \subseteq Declared(m) BY <2>6, <2>7, <3>1
      <4>3. IsSeq(d[i]) /\ ToSet(d[i]) \subseteq Nat BY <4>2, InSeq
      <4>4. \A j \in DOMAIN d[i] : d[i][j] \in Nat /\ d[i][j] < FunctionCount(m)
        BY <1>1, <4>2, <4>3 DEF ToSet
      <4> QED BY <4>1, <4>3, <4>4
    <3>2. CASE i \notin DOMAIN d
      <4>1. T # <<>> /\ i = Len(d) + 1
        <5>1. CASE T = <<>>
          <6>1. Len(e) = Len(d) BY <2>3, <2>4, <5>1
          <6> QED BY <2>4, <2>5, <3>2, <6>1
        <5>2. CASE T # <<>>
          <6>1. Len(e) = Len(d) + 1 BY <2>3, <5>2
          <6> QED BY <2>4, <2>5, <3>2, <5>2, <6>1
        <5> QED BY <5>1, <5>2
      <4>2. StandsAll(m, T, T, e[i]) BY <2>3, <4>1
      <4>3. IsSeq(T) /\ \A j \in DOMAIN T : T[j] \in Nat /\ T[j] < Count(m)
        BY DEF Result, ThunksOf
      <4>4. Count(m) \in Nat /\ Len(EntriesOf(m, 3)) \in Nat
            /\ FunctionCount(m) = Count(m) + Len(EntriesOf(m, 3))
        BY CountsOut
      <4>5. \A j \in DOMAIN T : T[j] \in Nat /\ T[j] < FunctionCount(m) BY <4>3, <4>4
      <4> QED BY <4>2, <4>3, <4>5
    <3> QED BY <3>1, <3>2
  <2>9. PICK fs : StandsAll(m, T, fs, e[i]) /\ IsSeq(fs)
                  /\ \A j \in DOMAIN fs : fs[j] \in Nat /\ fs[j] < FunctionCount(m)
    BY <2>8
  <2>10. l \in DOMAIN fs
    <3>1. IsSeq(e[i]) /\ Len(e[i]) = Len(fs) BY <2>9 DEF StandsAll
    <3>2. DOMAIN e[i] = 1..Len(e[i]) /\ DOMAIN fs = 1..Len(fs) BY <2>9, <3>1, SeqIs
    <3> QED BY <3>1, <3>2
  <2>11. Stands(m, T, fs[l], g) BY <2>2, <2>9, <2>10 DEF StandsAll
  <2> QED BY <2>9, <2>10, <2>11, StandsFor
<1>4. CASE g \in ToSet(EntriesOf(out, 6)) \ {Void}
  <2> DEFINE d == EntriesOf(m, 6)
             e == EntriesOf(out, 6)
  <2>1. PICK i \in DOMAIN e : g = e[i] /\ g # Void BY <1>4 DEF ToSet
  <2>2. /\ IsSeq(e) /\ Len(e) = Len(d) + 1 /\ e[Len(d) + 1] = Void
        /\ \A j \in DOMAIN d : Stands(m, T, d[j], e[j])
    BY DEF Result, Globals6
  <2>3. Len(d) \in Nat /\ DOMAIN d = 1..Len(d) BY SectionsAre, SeqIs
  <2>4. DOMAIN e = 1..Len(e) BY <2>2, SeqIs
  <2>5. \A j \in DOMAIN d : d[j] \in Nat \cup {Void} BY SectionsAre
  <2>6. \A j \in DOMAIN d : d[j] # Void => d[j] \in Declared(m) BY DEF Declared, ToSet
  <2> HIDE DEF d, e
  <2>7. i \in DOMAIN d BY <2>1, <2>2, <2>3, <2>4
  <2>8. Stands(m, T, d[i], g) BY <2>1, <2>2, <2>7
  <2>9. d[i] # Void BY <1>1, <2>1, <2>8 DEF Stands
  <2>10. d[i] \in Nat /\ d[i] < FunctionCount(m) BY <1>1, <2>5, <2>6, <2>7, <2>9
  <2> QED BY <2>8, <2>10, StandsFor
<1> QED BY <1>2, <1>3, <1>4 DEF Declared

\* The bodies that come out: those of the module, then a thunk's each.
LEMMA BodiesOut ==
  ASSUME NEW m, IsModule(m), Accepts(m), NEW T, NEW out, Result(m, T, out),
         NEW i \in DOMAIN EntriesOf(out, 10)
  PROVE  \/ /\ i \in DOMAIN EntriesOf(m, 10)
            /\ EntriesOf(out, 10)[i].calls = ShiftedAll(m, EntriesOf(m, 10)[i].calls)
            /\ StandsAll(m, T, EntriesOf(m, 10)[i].values, EntriesOf(out, 10)[i].values)
            /\ IsSeq(EntriesOf(m, 10)[i].calls) /\ ToSet(EntriesOf(m, 10)[i].calls) \subseteq Nat
            /\ IsSeq(EntriesOf(m, 10)[i].values) /\ ToSet(EntriesOf(m, 10)[i].values) \subseteq Nat
         \/ \E j \in DOMAIN T : EntriesOf(out, 10)[i] = ThunkBody(T[j])
<1> DEFINE d == EntriesOf(m, 10)
           e == EntriesOf(out, 10)
<1>1. /\ IsSeq(e) /\ Len(e) = Len(d) + Len(T)
      /\ \A j \in DOMAIN d : /\ e[j].calls = ShiftedAll(m, d[j].calls)
                             /\ StandsAll(m, T, d[j].values, e[j].values)
      /\ \A j \in DOMAIN T : e[Len(d) + j] = ThunkBody(T[j])
  BY DEF Result, Code10
<1>2. Len(d) \in Nat /\ DOMAIN d = 1..Len(d) BY SectionsAre, SeqIs
<1>3. Len(T) \in Nat /\ DOMAIN T = 1..Len(T) BY SeqIs DEF Result, ThunksOf
<1>4. DOMAIN e = 1..Len(e) BY <1>1, SeqIs
<1>5. \A j \in DOMAIN d : d[j].calls \in Seq(Nat) /\ d[j].values \in Seq(Nat) BY SectionsAre
<1>6. i \in DOMAIN e OBVIOUS
<1> HIDE DEF d, e
<1>7. CASE i \in DOMAIN d
  <2>1. d[i].calls \in Seq(Nat) /\ d[i].values \in Seq(Nat) BY <1>5, <1>7
  <2>2. /\ IsSeq(d[i].calls) /\ ToSet(d[i].calls) \subseteq Nat
        /\ IsSeq(d[i].values) /\ ToSet(d[i].values) \subseteq Nat
    BY <2>1, InSeq
  <2>3. e[i].calls = ShiftedAll(m, d[i].calls) /\ StandsAll(m, T, d[i].values, e[i].values)
    BY <1>1, <1>7
  <2> QED BY <1>7, <2>2, <2>3 DEF d, e
<1>8. CASE i \notin DOMAIN d
  <2> DEFINE j == i - Len(d)
  <2>1. j \in DOMAIN T /\ Len(d) + j = i BY <1>1, <1>2, <1>3, <1>4, <1>6, <1>8
  <2> HIDE DEF j
  <2>2. e[i] = ThunkBody(T[j]) BY <1>1, <2>1
  <2> QED BY <2>1, <2>2 DEF e
<1> QED BY <1>7, <1>8

LEMMA CalledOut ==
  ASSUME NEW m, IsModule(m), Accepts(m), NEW T, NEW out, Result(m, T, out), NEW g \in Called(out)
  PROVE  g < FunctionCount(out)
<1> DEFINE d == EntriesOf(m, 10)
           e == EntriesOf(out, 10)
<1>1. PICK i \in DOMAIN e : g \in ToSet(e[i].calls) BY DEF Called, ToSet
<1>2. CASE i \in DOMAIN d /\ e[i].calls = ShiftedAll(m, d[i].calls)
           /\ IsSeq(d[i].calls) /\ ToSet(d[i].calls) \subseteq Nat
  <2>1. PICK l \in DOMAIN d[i].calls : g = Shifted(m, d[i].calls[l])
    BY <1>1, <1>2 DEF ShiftedAll, ToSet
  <2>2. d[i].calls[l] \in Called(m) BY <1>2, <2>1 DEF Called, ToSet
  <2>3. d[i].calls[l] \in Nat /\ d[i].calls[l] < FunctionCount(m)
    BY <1>2, <2>1, <2>2 DEF ToSet, Accepts
  <2> HIDE DEF d
  <2> QED BY <2>1, <2>3, ShiftedFor
<1>3. ASSUME NEW j \in DOMAIN T, e[i] = ThunkBody(T[j])
      PROVE  g < FunctionCount(out)
  <2>1. e[i].calls = <<T[j]>> BY <1>3 DEF ThunkBody
  <2>2. g = T[j] BY <1>1, <2>1 DEF ToSet
  <2>3. T[j] \in Nat /\ T[j] < Count(m) BY DEF Result, ThunksOf
  <2>4. /\ Count(m) \in Nat /\ Len(EntriesOf(m, 3)) \in Nat /\ Len(T) \in Nat
        /\ FunctionCount(out) = Count(m) + 1 + Len(EntriesOf(m, 3)) + Len(T)
    BY CountsOut
  <2> QED BY <2>2, <2>3, <2>4
<1> QED BY <1>1, <1>2, <1>3, BodiesOut

LEMMA StartOut ==
  ASSUME NEW m, IsModule(m), Accepts(m), NEW T, NEW out, Result(m, T, out),
         NEW g \in ToSet(EntriesOf(out, 8))
  PROVE  g < FunctionCount(out)
<1>1. CASE ~Has(m, 8)
  <2>1. EntriesOf(out, 8) = <<>> BY <1>1 DEF Result
  <2> QED BY <2>1, EmptyIs DEF ToSet
<1>2. CASE Has(m, 8)
  <2> DEFINE d == EntriesOf(m, 8)
             f == d[1]
  <2>1. EntriesOf(out, 8) = <<Shifted(m, f)>> BY <1>2 DEF Result, Start8
  <2>2. IsSeq(d) /\ Len(d) = 1 /\ \A i \in DOMAIN d : d[i] \in Nat BY <1>2, SectionsAre
  <2>3. 1 \in DOMAIN d BY <2>2, SeqIs
  <2>4. f \in ToSet(EntriesOf(m, 8)) /\ f \in Nat BY <2>2, <2>3 DEF ToSet
  <2>5. f < FunctionCount(m) BY <2>4 DEF Accepts
  <2> HIDE DEF f
  <2>6. g = Shifted(m, f) BY <2>1 DEF ToSet
  <2> QED BY <2>4, <2>5, <2>6, ShiftedFor
<1> QED BY <1>1, <1>2

\* Two numbers of one function are one.
LEMMA StandsOnce ==
  ASSUME NEW m, IsModule(m), ModuleAssumption, NEW T, ThunksOf(m, T),
         NEW f \in Nat, NEW g, NEW h, Stands(m, T, f, g), Stands(m, T, f, h)
  PROVE  g = h
<1>1. f # Void /\ Count(m) \in Nat BY CountIs DEF ModuleAssumption
<1>2. \A i, j \in DOMAIN T : T[i] = T[j] => i = j BY DEF ThunksOf
<1> QED BY <1>1, <1>2 DEF Stands

\* A value a body takes is declared outside the bodies.
LEMMA TakenOut ==
  ASSUME NEW m, IsModule(m), Accepts(m), ModuleAssumption, NEW T, NEW out, Result(m, T, out),
         NEW g \in Taken(out)
  PROVE  g \in Declared(out)
<1> DEFINE d == EntriesOf(m, 10)
           e == EntriesOf(out, 10)
<1>0. ThunksOf(m, T) /\ Count(m) \in Nat /\ Len(EntriesOf(m, 3)) \in Nat
      /\ Len(d) = Len(EntriesOf(m, 3))
  BY CountsOut DEF Result
<1>1. PICK i \in DOMAIN e : g \in ToSet(e[i].values) BY DEF Taken, ToSet
<1>2. ~(\E j \in DOMAIN T : e[i] = ThunkBody(T[j]))
  <2> SUFFICES ASSUME NEW j \in DOMAIN T, e[i] = ThunkBody(T[j]) PROVE FALSE
    OBVIOUS
  <2>1. e[i].values = <<>> BY DEF ThunkBody
  <2> QED BY <1>1, <2>1, EmptyIs DEF ToSet
<1>3. /\ i \in DOMAIN d /\ StandsAll(m, T, d[i].values, e[i].values)
      /\ IsSeq(d[i].values) /\ ToSet(d[i].values) \subseteq Nat
  BY <1>2, BodiesOut
<1>4. PICK l \in DOMAIN e[i].values : g = e[i].values[l] BY <1>1 DEF ToSet
<1> DEFINE f == d[i].values[l]
<1>5. l \in DOMAIN d[i].values
  <2>1. IsSeq(e[i].values) /\ Len(e[i].values) = Len(d[i].values) BY <1>3 DEF StandsAll
  <2>2. DOMAIN e[i].values = 1..Len(e[i].values) /\ DOMAIN d[i].values = 1..Len(d[i].values)
    BY <1>3, <2>1, SeqIs
  <2> QED BY <1>4, <2>1, <2>2
<1>6. Stands(m, T, f, g) BY <1>3, <1>4, <1>5 DEF StandsAll
<1>7. f \in Nat /\ f \in Taken(m) BY <1>3, <1>5 DEF Taken, ToSet
<1>8. f \in Declared(m) BY <1>7 DEF Accepts
<1>9. EntriesOf(m, 3) # <<>>
  <2>1. DOMAIN d = 1..Len(d) BY SectionsAre, SeqIs
  <2>2. Len(d) # 0 BY <1>3, <2>1
  <2> QED BY <1>0, <2>2, EmptyIs
<1> HIDE DEF d, e, f
<1>10. CASE f < Count(m)
  <2>1. PICK j \in DOMAIN T : T[j] = f
    BY <1>0, <1>6, <1>7, <1>9, <1>10 DEF Stands, ModuleAssumption
  <2> DEFINE n == Len(EntriesOf(m, 9)) + 1
             v == EntriesOf(out, 9)
  <2>2. T # <<>> BY <2>1, EmptyIs
  <2>3. StandsAll(m, T, T, v[n]) /\ IsSeq(v) /\ Len(v) = n BY <2>2 DEF Result, Elements9
  <2>4. n \in DOMAIN v
    <3>1. Len(EntriesOf(m, 9)) \in Nat BY SectionsAre, SeqIs
    <3>2. DOMAIN v = 1..Len(v) BY <2>3, SeqIs
    <3> HIDE DEF v
    <3> QED BY <2>3, <3>1, <3>2
  <2> HIDE DEF n
  <2>5. IsSeq(v[n]) /\ Len(v[n]) = Len(T) /\ Stands(m, T, T[j], v[n][j]) BY <2>3 DEF StandsAll
  <2>6. j \in DOMAIN v[n]
    <3>1. DOMAIN v[n] = 1..Len(v[n]) /\ DOMAIN T = 1..Len(T) BY <1>0, <2>5, SeqIs DEF ThunksOf
    <3> QED BY <2>5, <3>1
  <2>7. v[n][j] = g BY <1>0, <1>6, <1>7, <2>1, <2>5, StandsOnce
  <2>8. g \in ToSet(v[n]) /\ v[n] \in ToSet(v) BY <2>4, <2>6, <2>7 DEF ToSet
  <2> QED BY <2>8 DEF Declared
<1>11. CASE f >= Count(m)
  <2>1. Stands(m, T, f, f + 1) BY <1>7, <1>11 DEF Stands
  <2>2. g = f + 1 BY <1>0, <1>6, <1>7, <2>1, StandsOnce
  <2>3. CASE f \in ExportedFunctions(m)
    <3> DEFINE a == EntriesOf(m, 7)
               b == EntriesOf(out, 7)
    <3>1. PICK j \in DOMAIN a : a[j].kind = "function" /\ a[j].index = f
      BY <2>3 DEF ExportedFunctions, ToSet
    <3>2. b[j] = ExportShifted(m, a[j]) BY ExportsOut
    <3>3. j \in DOMAIN b
      <4>1. Len(a) \in Nat /\ DOMAIN a = 1..Len(a) /\ DOMAIN b = 1..(Len(a) + 1) BY ExportsOut
      <4> HIDE DEF a, b
      <4> QED BY <4>1
    <3>4. IsExport(a[j]) BY SectionsAre
    <3> HIDE DEF a, b
    <3>5. b[j].kind = "function" /\ b[j].index = Shifted(m, f) BY <3>1, <3>2, <3>4, ExportFields
    <3>6. Shifted(m, f) = g BY <1>11, <2>2 DEF Shifted
    <3>7. b[j] \in ToSet(b) BY <3>3 DEF ToSet
    <3>8. g \in ExportedFunctions(out) BY <3>5, <3>6, <3>7 DEF ExportedFunctions, b
    <3> QED BY <3>8 DEF Declared
  <2>4. CASE f \in UNION {ToSet(segment) : segment \in ToSet(EntriesOf(m, 9))}
    <3> DEFINE a == EntriesOf(m, 9)
               b == EntriesOf(out, 9)
    <3>1. PICK j \in DOMAIN a : f \in ToSet(a[j]) BY <2>4 DEF ToSet
    <3>2. PICK k \in DOMAIN a[j] : f = a[j][k] BY <3>1 DEF ToSet
    <3>3. IsSeq(b) /\ Len(b) = Len(a) + (IF T = <<>> THEN 0 ELSE 1) /\ StandsAll(m, T, a[j], b[j])
      BY DEF Result, Elements9
    <3>4. j \in DOMAIN b
      <4>1. Len(a) \in Nat /\ DOMAIN a = 1..Len(a) BY SectionsAre, SeqIs
      <4>2. DOMAIN b = 1..Len(b) BY <3>3, SeqIs
      <4> HIDE DEF a, b
      <4> QED BY <3>3, <4>1, <4>2
    <3>5. a[j] \in Seq(Nat) BY SectionsAre
    <3> HIDE DEF a, b
    <3>6. IsSeq(a[j]) BY <3>5, InSeq
    <3>7. IsSeq(b[j]) /\ Len(b[j]) = Len(a[j]) /\ Stands(m, T, f, b[j][k])
      BY <3>2, <3>3 DEF StandsAll
    <3>8. k \in DOMAIN b[j]
      <4>1. DOMAIN b[j] = 1..Len(b[j]) /\ DOMAIN a[j] = 1..Len(a[j]) BY <3>6, <3>7, SeqIs
      <4> QED BY <3>7, <4>1
    <3>9. b[j][k] = g BY <1>0, <1>6, <1>7, <3>7, StandsOnce
    <3>10. g \in ToSet(b[j]) /\ b[j] \in ToSet(b) BY <3>4, <3>8, <3>9 DEF ToSet
    <3> QED BY <3>10 DEF Declared, b
  <2>5. CASE f \in ToSet(EntriesOf(m, 6)) \ {Void}
    <3> DEFINE a == EntriesOf(m, 6)
               b == EntriesOf(out, 6)
    <3>1. PICK j \in DOMAIN a : f = a[j] BY <2>5 DEF ToSet
    <3>2. IsSeq(b) /\ Len(b) = Len(a) + 1 /\ Stands(m, T, a[j], b[j]) BY DEF Result, Globals6
    <3>3. j \in DOMAIN b
      <4>1. Len(a) \in Nat /\ DOMAIN a = 1..Len(a) BY SectionsAre, SeqIs
      <4>2. DOMAIN b = 1..Len(b) BY <3>2, SeqIs
      <4> HIDE DEF a, b
      <4> QED BY <3>2, <4>1, <4>2
    <3> HIDE DEF a, b
    <3>4. b[j] = g BY <1>0, <1>6, <1>7, <3>1, <3>2, StandsOnce
    <3>5. g \in ToSet(b) BY <3>3, <3>4 DEF ToSet
    <3>6. g # Void BY <1>7, <2>2 DEF ModuleAssumption
    <3> QED BY <3>5, <3>6 DEF Declared, b
  <2> QED BY <1>8, <2>3, <2>4, <2>5 DEF Declared
<1> QED BY <1>0, <1>7, <1>10, <1>11

LEMMA AcceptsOut ==
  ASSUME NEW m, Suitable(m), ModuleAssumption, NEW T, NEW out, Result(m, T, out)
  PROVE  Accepts(out)
<1>0. IsModule(m) /\ Accepts(m) BY DEF Suitable
<1>1. InSectionOrder(out) BY DEF Result
<1>2. \A t \in TypesUsed(out) : t < Len(EntriesOf(out, 1)) BY <1>0, TypesUsedFit
<1>3. Len(EntriesOf(out, 3)) = Len(EntriesOf(out, 10)) BY <1>0, CountsOut
<1>4. \A f \in Declared(out) \cup Called(out) \cup ToSet(EntriesOf(out, 8)) : f < FunctionCount(out)
  BY <1>0, DeclaredOut, CalledOut, StartOut
<1>5. Taken(out) \subseteq Declared(out) BY <1>0, TakenOut
<1>6. ASSUME NEW i \in DOMAIN EntriesOf(out, 7), NEW j \in DOMAIN EntriesOf(out, 7),
             EntriesOf(out, 7)[i].name = EntriesOf(out, 7)[j].name
      PROVE  i = j
  <2> DEFINE d == EntriesOf(m, 7)
             e == EntriesOf(out, 7)
  <2>1. /\ Len(d) \in Nat /\ DOMAIN d = 1..Len(d) /\ DOMAIN e = 1..(Len(d) + 1)
        /\ (\A k \in DOMAIN d : e[k] = ExportShifted(m, d[k]))
        /\ e[Len(d) + 1] = ExportAdded(m)
    BY <1>0, ExportsOut
  <2>2. \A k \in DOMAIN d : IsExport(d[k]) /\ d[k].name # Added
    BY <1>0, SectionsAre DEF Suitable, ToSet
  <2>3. \A k, l \in DOMAIN d : d[k].name = d[l].name => k = l BY <1>0 DEF Accepts
  <2>4. ExportAdded(m).name = Added BY DEF ExportAdded
  <2>5. i \in DOMAIN e /\ j \in DOMAIN e /\ e[i].name = e[j].name BY <1>6
  <2> HIDE DEF d, e
  <2>6. \A k \in DOMAIN d : e[k].name = d[k].name /\ d[k].name # Added BY <2>1, <2>2, ExportFields
  <2>7. \A k \in DOMAIN e : k \in DOMAIN d \/ k = Len(d) + 1 BY <2>1
  <2>8. e[Len(d) + 1].name = Added BY <2>1, <2>4
  <2> QED BY <2>3, <2>5, <2>6, <2>7, <2>8
<1>7. Len(EntriesOf(out, 5)) <= 1
  <2>1. EntriesOf(out, 5) = BoundedMemory(EntriesOf(m, 5)) BY DEF Result
  <2>2. Len(EntriesOf(out, 5)) = 1 BY <2>1, BoundedIs
  <2>3. 1 <= 1 OBVIOUS
  <2> QED BY <2>2, <2>3, Zenon
<1>8. ASSUME NEW i \in DOMAIN EntriesOf(out, 10) PROVE EntriesOf(out, 10)[i].locals <= MaxLocals
  <2> DEFINE d == EntriesOf(m, 10)
             e == EntriesOf(out, 10)
  <2>1. CASE i \in DOMAIN d
    <3>1. e[i].locals = LocalsOf(d[i]) BY <2>1 DEF Result, Code10
    <3>2. d[i].locals \in Nat /\ d[i].locals <= MaxLocals BY <1>0, <2>1, SectionsAre DEF Accepts, ToSet
    <3>3. HasLocal(d[i])
      <4>1. PICK j \in DOMAIN m : m[j].id = 10 /\ d = m[j].entries
        <5>1. d # <<>> BY <2>1, EmptyIs
        <5> QED BY <1>0, <5>1, EntriesAt
      <4>2. Parses(m[j]) BY DEF Suitable
      <4> QED BY <2>1, <4>1, <4>2 DEF Parses
    <3> QED BY <3>1, <3>2, <3>3 DEF LocalsOf, HasLocal, MaxLocals
  <2>2. CASE i \notin DOMAIN d
    <3>1. PICK j \in DOMAIN T : e[i] = ThunkBody(T[j]) BY <1>0, <2>2, BodiesOut
    <3> QED BY <3>1 DEF ThunkBody, MaxLocals
  <2> QED BY <2>1, <2>2
<1>9. \A body \in ToSet(EntriesOf(out, 10)) : body.locals <= MaxLocals BY <1>8 DEF ToSet
<1> QED BY <1>1, <1>2, <1>3, <1>4, <1>5, <1>6, <1>7, <1>9 DEF Accepts

\* The imports that come out.
LEMMA ImportsOut ==
  ASSUME NEW m, IsModule(m), NEW T, NEW out, Result(m, T, out)
  PROVE  LET d == EntriesOf(m, 2)
             e == EntriesOf(out, 2)
         IN  /\ Len(d) \in Nat /\ DOMAIN d = 1..Len(d) /\ Len(e) = Len(d) + 1
             /\ \A i \in DOMAIN d : e[i] = d[i]
             /\ e[Len(d) + 1] = ImportAdded(m) /\ Last(e) = ImportAdded(m)
<1> DEFINE d == EntriesOf(m, 2)
           e == EntriesOf(out, 2)
<1>1. IsSeq(d) /\ Len(d) \in Nat /\ DOMAIN d = 1..Len(d) BY SectionsAre, SeqIs
<1>2. e = Append(d, ImportAdded(m)) BY DEF Result, Imports2
<1> HIDE DEF d, e
<1>3. Len(e) = Len(d) + 1 /\ (\A i \in DOMAIN d : e[i] = d[i]) /\ e[Len(d) + 1] = ImportAdded(m)
  BY <1>1, <1>2, AppendIs
<1>4. Last(e) = ImportAdded(m) BY <1>3 DEF Last
<1> QED BY <1>1, <1>3, <1>4 DEF d, e

LEMMA AddsOnceOut ==
  ASSUME NEW m, IsModule(m), Accepts(m), NEW T, NEW out, Result(m, T, out)
  PROVE  AddsOnce(m, out)
<1>1. Len(EntriesOf(out, 1)) = Len(EntriesOf(m, 1)) + 1 BY CountsOut
<1>2. Len(EntriesOf(out, 2)) = Len(EntriesOf(m, 2)) + 1 /\ Last(EntriesOf(out, 2)) = ImportAdded(m)
  BY ImportsOut
<1>3. Len(EntriesOf(out, 6)) = Len(EntriesOf(m, 6)) + 1 BY DEF Result, Globals6
<1>4. Len(EntriesOf(out, 7)) = Len(EntriesOf(m, 7)) + 1 BY ExportsOut
<1>5. Last(EntriesOf(out, 2)).type = Len(EntriesOf(m, 1)) BY <1>2 DEF ImportAdded
<1>6. Last(EntriesOf(out, 7)) = ExportAdded(m)
  <2>1. EntriesOf(out, 7)[Len(EntriesOf(m, 7)) + 1] = ExportAdded(m) BY ExportsOut
  <2> QED BY <1>4, <2>1 DEF Last
<1>7. GlobalsOf(m) = GlobalsOf(out) - 1
  <2> DEFINE a == GlobalCount(EntriesOf(m, 2))
             b == Len(EntriesOf(m, 6))
  <2>1. a \in Nat /\ b \in Nat BY SectionsAre, SeqIs, GlobalsCounted
  <2>2. GlobalCount(EntriesOf(out, 2)) = a
    <3>1. EntriesOf(out, 2) = Append(EntriesOf(m, 2), ImportAdded(m)) BY DEF Result, Imports2
    <3>2. ImportAdded(m).kind # "global" BY DEF ImportAdded
    <3>3. IsSeq(EntriesOf(m, 2)) BY SectionsAre
    <3>4. GlobalCount(Append(EntriesOf(m, 2), ImportAdded(m))) = GlobalCount(EntriesOf(m, 2))
      BY <3>2, <3>3, GlobalsCounted
    <3> QED BY <3>1, <3>4
  <2>3. GlobalsOf(m) = a + b /\ GlobalsOf(out) = a + (b + 1) BY <1>3, <2>2 DEF GlobalsOf
  <2> HIDE DEF a, b
  <2> QED BY <2>1, <2>3
<1>8. Last(EntriesOf(out, 7)) = [name |-> Added, kind |-> "global", index |-> GlobalsOf(out) - 1]
  BY <1>6, <1>7 DEF ExportAdded
<1> QED BY <1>1, <1>2, <1>3, <1>4, <1>5, <1>8 DEF AddsOnce

LEMMA ForwardOut ==
  ASSUME NEW m, IsModule(m), Accepts(m), NEW T, NEW out, Result(m, T, out)
  PROVE  ThunksForward(m, out)
<1> DEFINE n == Len(EntriesOf(m, 3))
           c == Count(m)
<1>1. n \in Nat /\ c \in Nat /\ Len(T) \in Nat /\ Len(EntriesOf(out, 3)) = n + Len(T) BY CountsOut
<1>2. DOMAIN T = 1..Len(T) /\ \A j \in DOMAIN T : T[j] \in Nat /\ T[j] < c
  BY SeqIs DEF Result, ThunksOf
<1> SUFFICES ASSUME NEW i \in (n + 1)..Len(EntriesOf(out, 3))
             PROVE  \E f \in 0..(c - 1) :
                      /\ EntriesOf(out, 10)[i] = ThunkBody(f)
                      /\ EntriesOf(out, 3)[i] = FunctionImports(m)[f + 1].type
  BY DEF ThunksForward, Count
<1> DEFINE j == i - n
<1> HIDE DEF n, c
<1>3. j \in DOMAIN T /\ n + j = i BY <1>1, <1>2
<1> HIDE DEF j
<1>4. EntriesOf(out, 10)[n + j] = ThunkBody(T[j]) BY <1>3, ThunkAt DEF n
<1>5. EntriesOf(out, 3)[n + j] = FunctionImports(m)[T[j] + 1].type
  BY <1>3 DEF Result, Functions3, n
<1>6. T[j] \in 0..(c - 1) BY <1>1, <1>2, <1>3
<1> QED BY <1>3, <1>4, <1>5, <1>6

\* A WASI command stays one.
LEMMA CommandOut ==
  ASSUME NEW m, Suitable(m), ModuleAssumption, NEW T, NEW out, Result(m, T, out), out # Refused,
         Command(m)
  PROVE  CompileRewritten(m, out) = out
<1>0. IsModule(m) /\ Accepts(m) /\ Accepts(out) BY AcceptsOut DEF Suitable
<1> DEFINE d == EntriesOf(m, 2)
           e == EntriesOf(out, 2)
           a == EntriesOf(m, 7)
           b == EntriesOf(out, 7)
<1>1. /\ Len(d) \in Nat /\ DOMAIN d = 1..Len(d) /\ Len(e) = Len(d) + 1
      /\ (\A i \in DOMAIN d : e[i] = d[i]) /\ Last(e) = ImportAdded(m)
  BY <1>0, ImportsOut
<1>2. Last(e).name = Added BY <1>1 DEF ImportAdded
<1>3. \A i \in DOMAIN d : d[i].kind = "function" /\ d[i].known BY DEF Command, ToSet
<1>4. \A i \in 1..(Len(e) - 1) : e[i].kind = "function" /\ e[i].known
  <2> HIDE DEF d, e
  <2>1. \A i \in 1..(Len(e) - 1) : i \in DOMAIN d BY <1>1
  <2> QED BY <1>1, <1>3, <2>1
<1>5. ASSUME NEW need \in {<<"memory", "memory">>, <<"_start", "function">>}
      PROVE  \E x \in ToSet(b) : x.name = need[1] /\ x.kind = need[2]
  <2>1. PICK i \in DOMAIN a : a[i].name = need[1] /\ a[i].kind = need[2] BY DEF Command, ToSet
  <2>2. Len(a) \in Nat /\ DOMAIN a = 1..Len(a) /\ DOMAIN b = 1..(Len(a) + 1)
        /\ \A k \in DOMAIN a : b[k] = ExportShifted(m, a[k])
    BY <1>0, ExportsOut
  <2>3. IsExport(a[i]) BY <1>0, SectionsAre
  <2> HIDE DEF a, b
  <2>4. i \in DOMAIN b BY <2>2
  <2>5. b[i].name = need[1] /\ b[i].kind = need[2] BY <2>1, <2>2, <2>3, ExportFields
  <2> QED BY <2>4, <2>5 DEF ToSet
<1>6. Interface(e, ToSet(b)) BY <1>2, <1>4, <1>5 DEF Interface
<1> QED BY <1>0, <1>6 DEF CompileRewritten

LEMMA FunctionIs ==
  ASSUME NEW s, IsSeq(s)
  PROVE  s = [i \in DOMAIN s |-> s[i]]
<1>1. s \in Seq({s[i] : i \in DOMAIN s}) BY DEF IsSeq
<1> QED BY <1>1

LEMMA StandAllFor ==
  ASSUME NEW m, IsModule(m), Accepts(m), ModuleAssumption, NEW T, NEW out, Result(m, T, out),
         NEW fs, IsSeq(fs),
         \A i \in DOMAIN fs : fs[i] = Void \/ (fs[i] \in Nat /\ fs[i] < FunctionCount(m)),
         NEW gs, StandsAll(m, T, fs, gs)
  PROVE  Origins(m, out, gs) = fs
<1>1. Void \notin Nat BY DEF ModuleAssumption
<1>2. IsSeq(gs) /\ Len(gs) = Len(fs) /\ \A i \in DOMAIN fs : Stands(m, T, fs[i], gs[i])
  BY DEF StandsAll
<1>3. DOMAIN gs = DOMAIN fs BY <1>2, SeqIs
<1>4. ASSUME NEW i \in DOMAIN fs
      PROVE  (IF gs[i] = Void THEN Void ELSE Origin(m, out, gs[i])) = fs[i]
  <2>1. CASE fs[i] = Void
    <3>1. gs[i] = Void BY <1>1, <1>2, <2>1 DEF Stands
    <3> QED BY <2>1, <3>1
  <2>2. CASE fs[i] # Void
    <3>1. fs[i] \in Nat /\ fs[i] < FunctionCount(m) BY <2>2
    <3>2. Stands(m, T, fs[i], gs[i]) BY <1>2
    <3>3. gs[i] \in Nat /\ Origin(m, out, gs[i]) = fs[i] BY <3>1, <3>2, StandsFor
    <3>4. gs[i] # Void BY <1>1, <3>3
    <3> QED BY <3>3, <3>4
  <2> QED BY <2>1, <2>2
<1>5. fs = [i \in DOMAIN fs |-> fs[i]] BY FunctionIs
<1>6. Origins(m, out, gs)
        = [i \in DOMAIN fs |-> IF gs[i] = Void THEN Void ELSE Origin(m, out, gs[i])]
  BY <1>3 DEF Origins
<1> QED BY <1>4, <1>5, <1>6

LEMMA ShiftedAllFor ==
  ASSUME NEW m, IsModule(m), Accepts(m), ModuleAssumption, NEW T, NEW out, Result(m, T, out),
         NEW fs, IsSeq(fs), \A i \in DOMAIN fs : fs[i] \in Nat /\ fs[i] < FunctionCount(m)
  PROVE  Origins(m, out, ShiftedAll(m, fs)) = fs
<1> DEFINE gs == ShiftedAll(m, fs)
<1>1. Void \notin Nat BY DEF ModuleAssumption
<1>2. DOMAIN gs = DOMAIN fs /\ \A i \in DOMAIN fs : gs[i] = Shifted(m, fs[i]) BY DEF ShiftedAll
<1> HIDE DEF gs
<1>3. ASSUME NEW i \in DOMAIN fs
      PROVE  (IF gs[i] = Void THEN Void ELSE Origin(m, out, gs[i])) = fs[i]
  <2>1. fs[i] \in Nat /\ fs[i] < FunctionCount(m) OBVIOUS
  <2>2. Shifted(m, fs[i]) \in Nat /\ Origin(m, out, Shifted(m, fs[i])) = fs[i] BY <2>1, ShiftedFor
  <2>3. gs[i] # Void BY <1>1, <1>2, <2>2
  <2> QED BY <1>2, <2>2, <2>3
<1>4. fs = [i \in DOMAIN fs |-> fs[i]] BY FunctionIs
<1>5. Origins(m, out, gs)
        = [i \in DOMAIN fs |-> IF gs[i] = Void THEN Void ELSE Origin(m, out, gs[i])]
  BY <1>2 DEF Origins
<1>6. Origins(m, out, gs) = fs BY <1>3, <1>4, <1>5
<1> QED BY <1>6 DEF gs

\* The exports, the start function and the globals mean what they meant.
LEMMA ExportMeans ==
  ASSUME NEW m, IsModule(m), Accepts(m), NEW T, NEW out, Result(m, T, out),
         NEW i \in DOMAIN EntriesOf(m, 7)
  PROVE  LET before == EntriesOf(m, 7)[i]
             after == EntriesOf(out, 7)[i]
         IN  /\ [after EXCEPT !.index = before.index] = before
             /\ before.kind = "function" => Origin(m, out, after.index) = before.index
             /\ before.kind # "function" \/ before.index < Len(FunctionImports(m)) => after = before
<1> DEFINE e == EntriesOf(m, 7)[i]
           a == EntriesOf(out, 7)[i]
<1>1. a = ExportShifted(m, e) BY ExportsOut
<1>2. IsExport(e) BY SectionsAre
<1>3. e.kind = "function" => e.index < FunctionCount(m)
  BY DEF Accepts, Declared, ExportedFunctions, ToSet
<1> HIDE DEF e, a
<1>4. e = [name |-> e.name, kind |-> e.kind, index |-> e.index] /\ e.index \in Nat
  BY <1>2 DEF IsExport
<1>5. CASE e.kind # "function"
  <2>1. a = e BY <1>1, <1>5 DEF ExportShifted
  <2>2. [e EXCEPT !.index = e.index] = e BY <1>4
  <2> QED BY <1>5, <2>1, <2>2 DEF e, a
<1>6. CASE e.kind = "function"
  <2>1. a = [name |-> e.name, kind |-> e.kind, index |-> Shifted(m, e.index)]
    BY <1>1, <1>6 DEF ExportShifted
  <2>2. [a EXCEPT !.index = e.index] = [name |-> e.name, kind |-> e.kind, index |-> e.index]
    BY <2>1
  <2>3. [a EXCEPT !.index = e.index] = e BY <1>4, <2>2
  <2>4. Origin(m, out, a.index) = e.index
    <3>1. a.index = Shifted(m, e.index) BY <2>1
    <3>2. e.index < FunctionCount(m) BY <1>3, <1>6
    <3> QED BY <1>4, <3>1, <3>2, ShiftedFor
  <2>5. e.index < Len(FunctionImports(m)) => a = e
    <3> SUFFICES ASSUME e.index < Count(m) PROVE a = e BY DEF Count
    <3>1. Count(m) \in Nat BY CountIs
    <3>2. ~(e.index >= Count(m)) BY <1>4, <3>1
    <3>3. Shifted(m, e.index) = e.index BY <3>2 DEF Shifted
    <3> QED BY <1>4, <2>1, <3>3
  <2> QED BY <1>6, <2>3, <2>4, <2>5 DEF e, a
<1> QED BY <1>5, <1>6

LEMMA StartMeans ==
  ASSUME NEW m, IsModule(m), Accepts(m), ModuleAssumption, NEW T, NEW out, Result(m, T, out)
  PROVE  Origins(m, out, EntriesOf(out, 8)) = EntriesOf(m, 8)
<1>1. CASE ~Has(m, 8)
  <2>1. EntriesOf(out, 8) = <<>> /\ EntriesOf(m, 8) = <<>> BY <1>1, HasNone DEF Result
  <2>2. Origins(m, out, <<>>) = <<>> BY DEF Origins
  <2> QED BY <2>1, <2>2
<1>2. CASE Has(m, 8)
  <2> DEFINE d == EntriesOf(m, 8)
  <2>1. EntriesOf(out, 8) = <<Shifted(m, d[1])>> BY <1>2 DEF Result, Start8
  <2>2. IsSeq(d) /\ Len(d) = 1 /\ \A i \in DOMAIN d : d[i] \in Nat BY <1>2, SectionsAre
  <2>3. DOMAIN d = 1..1 BY <2>2, SeqIs
  <2>4. \A i \in DOMAIN d : d[i] \in Nat /\ d[i] < FunctionCount(m) BY <2>2 DEF Accepts, ToSet
  <2> HIDE DEF d
  <2>5. ShiftedAll(m, d) = <<Shifted(m, d[1])>> BY <2>3 DEF ShiftedAll
  <2>6. Origins(m, out, ShiftedAll(m, d)) = d BY <2>2, <2>4, ShiftedAllFor
  <2> QED BY <2>1, <2>5, <2>6 DEF d
<1> QED BY <1>1, <1>2

LEMMA GlobalsMean ==
  ASSUME NEW m, IsModule(m), Accepts(m), ModuleAssumption, NEW T, NEW out, Result(m, T, out)
  PROVE  Origins(m, out, Front(EntriesOf(out, 6))) = EntriesOf(m, 6)
<1> DEFINE d == EntriesOf(m, 6)
           e == EntriesOf(out, 6)
           f == Front(e)
<1>1. /\ IsSeq(e) /\ Len(e) = Len(d) + 1 /\ \A i \in DOMAIN d : Stands(m, T, d[i], e[i])
  BY DEF Result, Globals6
<1>2. IsSeq(d) /\ Len(d) \in Nat /\ DOMAIN d = 1..Len(d) /\ \A i \in DOMAIN d : d[i] \in Nat \cup {Void}
  BY SectionsAre, SeqIs
<1>3. \A i \in DOMAIN d : d[i] = Void \/ (d[i] \in Nat /\ d[i] < FunctionCount(m))
  BY <1>2 DEF Accepts, Declared, ToSet
<1> HIDE DEF d, e
<1>4. IsSeq(f) /\ Len(f) = Len(d) /\ \A i \in 1..Len(d) : f[i] = e[i]
  <2>1. f = SubSeq(e, 1, Len(d)) BY <1>1, <1>2 DEF Front
  <2>2. e \in Seq({e[i] : i \in DOMAIN e}) BY <1>1 DEF IsSeq
  <2>3. DOMAIN e = 1..(Len(d) + 1) BY <1>1, SeqIs
  <2>4. SubSeq(e, 1, Len(d)) = [i \in 1..Len(d) |-> e[i]] BY <1>2, <2>2, <2>3, <1>1
  <2>5. f = [i \in 1..Len(d) |-> f[i]] /\ \A i \in 1..Len(d) : f[i] = e[i] BY <2>1, <2>4
  <2> HIDE DEF f
  <2> QED BY <1>2, <2>5, ListIs
<1> HIDE DEF f
<1>5. StandsAll(m, T, d, f) BY <1>1, <1>2, <1>4 DEF StandsAll
<1>6. Origins(m, out, f) = d BY <1>2, <1>3, <1>5, StandAllFor
<1> QED BY <1>6 DEF d, f, e

LEMMA ElementsMean ==
  ASSUME NEW m, IsModule(m), Accepts(m), ModuleAssumption, NEW T, NEW out, Result(m, T, out),
         NEW i \in DOMAIN EntriesOf(m, 9)
  PROVE  Origins(m, out, EntriesOf(out, 9)[i]) = EntriesOf(m, 9)[i]
<1> DEFINE d == EntriesOf(m, 9)[i]
<1>1. StandsAll(m, T, d, EntriesOf(out, 9)[i]) BY DEF Result, Elements9
<1>2. d \in Seq(Nat) /\ \A f \in ToSet(d) : f < FunctionCount(m)
  BY SectionsAre DEF Accepts, Declared, ToSet
<1> HIDE DEF d
<1>3. IsSeq(d) /\ ToSet(d) \subseteq Nat BY <1>2, InSeq
<1>4. \A j \in DOMAIN d : d[j] = Void \/ (d[j] \in Nat /\ d[j] < FunctionCount(m))
  BY <1>2, <1>3 DEF ToSet
<1> QED BY <1>1, <1>3, <1>4, StandAllFor DEF d

LEMMA BodiesMean ==
  ASSUME NEW m, IsModule(m), Accepts(m), ModuleAssumption, NEW T, NEW out, Result(m, T, out),
         NEW i \in DOMAIN EntriesOf(m, 10)
  PROVE  /\ Origins(m, out, EntriesOf(out, 10)[i].calls) = EntriesOf(m, 10)[i].calls
         /\ Origins(m, out, EntriesOf(out, 10)[i].values) = EntriesOf(m, 10)[i].values
<1> DEFINE d == EntriesOf(m, 10)[i]
           e == EntriesOf(out, 10)[i]
<1>1. e.calls = ShiftedAll(m, d.calls) /\ StandsAll(m, T, d.values, e.values)
  BY DEF Result, Code10
<1>2. d.calls \in Seq(Nat) /\ d.values \in Seq(Nat) BY SectionsAre
<1>3. \A f \in ToSet(d.calls) : f < FunctionCount(m) BY DEF Accepts, Called, ToSet
<1>4. \A f \in ToSet(d.values) : f < FunctionCount(m)
  <2>1. ToSet(d.values) \subseteq Taken(m) BY DEF Taken, ToSet
  <2> QED BY <2>1 DEF Accepts
<1> HIDE DEF d, e
<1>5. IsSeq(d.calls) /\ IsSeq(d.values) /\ ToSet(d.calls) \subseteq Nat /\ ToSet(d.values) \subseteq Nat
  BY <1>2, InSeq
<1>6. \A j \in DOMAIN d.calls : d.calls[j] \in Nat /\ d.calls[j] < FunctionCount(m)
  BY <1>3, <1>5 DEF ToSet
<1>7. \A j \in DOMAIN d.values :
        d.values[j] = Void \/ (d.values[j] \in Nat /\ d.values[j] < FunctionCount(m))
  BY <1>4, <1>5 DEF ToSet
<1>8. Origins(m, out, e.calls) = d.calls BY <1>1, <1>5, <1>6, ShiftedAllFor
<1>9. Origins(m, out, e.values) = d.values BY <1>1, <1>5, <1>7, StandAllFor
<1> QED BY <1>8, <1>9 DEF d, e

LEMMA NamesMean ==
  ASSUME NEW m, IsModule(m), Accepts(m), NEW T, NEW out, Result(m, T, out),
         NEW j \in DOMAIN out, out[j].id = 0, out[j].name = "name"
  PROVE  \E i \in DOMAIN m :
           /\ m[i].id = 0 /\ m[i].name = "name" /\ Len(m[i].entries) = Len(out[j].entries)
           /\ \A k \in DOMAIN m[i].entries : m[i].entries[k] < FunctionCount(m) =>
                Origin(m, out, out[j].entries[k]) = m[i].entries[k]
<1>1. PICK i \in DOMAIN m : m[i].id = 0 /\ m[i].name = "name"
                            /\ out[j].entries = ShiftedAll(m, m[i].entries)
  BY DEF Result, Names0
<1> DEFINE d == m[i].entries
           e == out[j].entries
<1>2. IsSeq(d) /\ IsEntries(m[i]) BY ModuleIs
<1>3. \A k \in DOMAIN d : d[k] \in Nat BY <1>1, <1>2 DEF IsEntries
<1>4. e = ShiftedAll(m, d) BY <1>1
<1> HIDE DEF d, e
<1>5. Len(d) \in Nat /\ DOMAIN d = 1..Len(d) BY <1>2, SeqIs
<1>6. DOMAIN e = DOMAIN d /\ \A k \in DOMAIN d : e[k] = Shifted(m, d[k]) BY <1>4 DEF ShiftedAll
<1>7. Len(e) = Len(d)
  <2>1. e = [k \in 1..Len(d) |-> e[k]] BY <1>4, <1>5 DEF ShiftedAll
  <2> QED BY <1>5, <2>1, ListIs
<1>8. \A k \in DOMAIN d : d[k] < FunctionCount(m) => Origin(m, out, e[k]) = d[k]
  BY <1>3, <1>6, ShiftedFor
<1> QED BY <1>1, <1>7, <1>8 DEF d, e

LEMMA MeaningsOut ==
  ASSUME NEW m, IsModule(m), Accepts(m), ModuleAssumption, NEW T, NEW out, Result(m, T, out)
  PROVE  Meanings(m, out)
<1>1. \A i \in DOMAIN EntriesOf(m, 7) :
        LET before == EntriesOf(m, 7)[i]
            after == EntriesOf(out, 7)[i]
        IN  /\ [after EXCEPT !.index = before.index] = before
            /\ before.kind = "function" => Origin(m, out, after.index) = before.index
            /\ before.kind # "function" \/ before.index < Len(FunctionImports(m)) => after = before
  BY ExportMeans
<1>2. Origins(m, out, EntriesOf(out, 8)) = EntriesOf(m, 8) BY StartMeans
<1>3. Origins(m, out, Front(EntriesOf(out, 6))) = EntriesOf(m, 6) BY GlobalsMean
<1>4. \A i \in DOMAIN EntriesOf(m, 9) :
        Origins(m, out, EntriesOf(out, 9)[i]) = EntriesOf(m, 9)[i]
  BY ElementsMean
<1>5. \A i \in DOMAIN EntriesOf(m, 10) :
        /\ Origins(m, out, EntriesOf(out, 10)[i].calls) = EntriesOf(m, 10)[i].calls
        /\ Origins(m, out, EntriesOf(out, 10)[i].values) = EntriesOf(m, 10)[i].values
  BY BodiesMean
<1>6. \A j \in DOMAIN out : out[j].id = 0 /\ out[j].name = "name" =>
        \E i \in DOMAIN m :
          /\ m[i].id = 0 /\ m[i].name = "name" /\ Len(m[i].entries) = Len(out[j].entries)
          /\ \A k \in DOMAIN m[i].entries : m[i].entries[k] < FunctionCount(m) =>
               Origin(m, out, out[j].entries[k]) = m[i].entries[k]
  BY NamesMean
<1> QED BY <1>1, <1>2, <1>3, <1>4, <1>5, <1>6 DEF Meanings

------------------------------------------------------------------------------
(* What the pass does not take, it refuses: whatever it has kept so far, it *)
(* stays a pass, and learns of no memory but from the memory section.       *)

Preserves(s, t) == DOMAIN t = Fields /\ t.memory = s.memory

LEMMA AltersKeeps ==
  ASSUME NEW s, NEW t, NEW F, Alters(s, t, F), "memory" \notin F
  PROVE  Preserves(s, t)
BY FieldNames DEF Alters, Preserves

\* A change of one field.
LEMMA FieldKeeps ==
  ASSUME NEW s, DOMAIN s = Fields, NEW a \in Fields \ {"memory"}, NEW x
  PROVE  Preserves(s, [s EXCEPT ![a] = x]) /\ (a # "ok" => [s EXCEPT ![a] = x].ok = s.ok)
BY FieldNames DEF Preserves

LEMMA EmitKeeps ==
  ASSUME NEW s, DOMAIN s = Fields, NEW id, NEW es
  PROVE  Preserves(s, Emit(s, id, es)) /\ Emit(s, id, es).ok = s.ok
<1>1. Alters(s, Emit(s, id, es), {"out"}) BY EmitIs
<1> QED BY <1>1, FieldNames DEF Alters, Preserves

LEMMA RejectKeeps ==
  ASSUME NEW s, DOMAIN s = Fields
  PROVE  Preserves(s, Reject(s)) /\ Reject(s).ok = FALSE
BY FieldNames DEF Preserves, Reject

LEMMA ReferenceKeeps ==
  ASSUME NEW s, DOMAIN s = Fields, NEW f
  PROVE  Preserves(s, Reference(s, f))
<1> DEFINE t == Append(s.thunks, f)
<1>1. Preserves(s, [s EXCEPT !.thunks = t]) BY FieldKeeps, FieldNames
<1>2. Preserves(s, Reject(s)) /\ Preserves(s, s) BY RejectKeeps DEF Preserves
<1>3. Reference(s, f) \in {s, Reject(s), [s EXCEPT !.thunks = t]} BY DEF Reference
<1> HIDE DEF t
<1> QED BY <1>1, <1>2, <1>3

LEMMA UseKeeps ==
  ASSUME NEW s, DOMAIN s = Fields, NEW fs, Len(fs) \in Nat
  PROVE  Preserves(s, Use(s, fs))
<1>1. PICK u : /\ u[0] = s /\ \A i \in 1..Len(fs) : u[i] = Reference(u[i - 1], fs[i])
               /\ Use(s, fs) = u[Len(fs)]
  BY UseRuns
<1> DEFINE S == {i \in Nat : i <= Len(fs) => Preserves(s, u[i])}
<1>2. 0 \in S BY <1>1 DEF Preserves
<1>3. ASSUME NEW i \in S PROVE i + 1 \in S
  <2> SUFFICES ASSUME i + 1 <= Len(fs) PROVE Preserves(s, u[i + 1]) OBVIOUS
  <2>1. i \in Nat /\ i <= Len(fs) /\ i + 1 \in 1..Len(fs) /\ (i + 1) - 1 = i OBVIOUS
  <2>2. Preserves(s, u[i]) /\ u[i + 1] = Reference(u[i], fs[i + 1]) BY <1>1, <2>1
  <2>3. DOMAIN u[i] = Fields BY <2>2 DEF Preserves
  <2>4. Preserves(u[i], Reference(u[i], fs[i + 1])) BY <2>3, ReferenceKeeps
  <2> QED BY <2>2, <2>4 DEF Preserves
<1>4. S = Nat BY <1>2, <1>3, SetInduction
<1> QED BY <1>1, <1>4

LEMMA UseAllKeeps ==
  ASSUME NEW s, DOMAIN s = Fields, NEW lists, Len(lists) \in Nat,
         \A i \in 1..Len(lists) : Len(lists[i]) \in Nat
  PROVE  Preserves(s, UseAll(s, lists))
<1>1. PICK u : /\ u[0] = s /\ \A i \in 1..Len(lists) : u[i] = Use(u[i - 1], lists[i])
               /\ UseAll(s, lists) = u[Len(lists)]
  BY UseAllRuns
<1> DEFINE S == {i \in Nat : i <= Len(lists) => Preserves(s, u[i])}
<1>2. 0 \in S BY <1>1 DEF Preserves
<1>3. ASSUME NEW i \in S PROVE i + 1 \in S
  <2> SUFFICES ASSUME i + 1 <= Len(lists) PROVE Preserves(s, u[i + 1]) OBVIOUS
  <2>1. i \in Nat /\ i <= Len(lists) /\ i + 1 \in 1..Len(lists) /\ (i + 1) - 1 = i OBVIOUS
  <2>2. Preserves(s, u[i]) /\ u[i + 1] = Use(u[i], lists[i + 1]) BY <1>1, <2>1
  <2>3. DOMAIN u[i] = Fields /\ Len(lists[i + 1]) \in Nat BY <2>1, <2>2 DEF Preserves
  <2>4. Preserves(u[i], Use(u[i], lists[i + 1])) BY <2>3, UseKeeps
  <2> QED BY <2>2, <2>4 DEF Preserves
<1>4. S = Nat BY <1>2, <1>3, SetInduction
<1> QED BY <1>1, <1>4

LEMMA SealKeeps ==
  ASSUME NEW s, DOMAIN s = Fields
  PROVE  Preserves(s, Seal(s)) /\ Seal(s).ok = s.ok
<1> DEFINE a == Emit(s, 9, <<ThunkValues(s)>>)
           b == [a EXCEPT !.elements = TRUE]
           d == IF s.elements \/ s.thunks = <<>> THEN s ELSE b
           w == IF s.slot = 0 THEN d.out
                ELSE [d.out EXCEPT ![s.slot] =
                       [id |-> 3, entries |->
                          s.defined \o [i \in DOMAIN s.thunks |-> s.imports[s.thunks[i] + 1].type]]]
           e == [d EXCEPT !.sealed = TRUE]
           f == [e EXCEPT !.out = w]
<1>1. Preserves(s, a) /\ a.ok = s.ok BY EmitKeeps
<1>2. Preserves(a, b) /\ b.ok = a.ok
  <2> HIDE DEF a
  <2>1. DOMAIN a = Fields BY <1>1 DEF Preserves
  <2> QED BY <2>1, FieldKeeps, FieldNames
<1> HIDE DEF b
<1>3. Preserves(s, d) /\ d.ok = s.ok BY <1>1, <1>2 DEF Preserves
<1> HIDE DEF d, w
<1>4. Preserves(d, e) /\ e.ok = d.ok
  <2>1. DOMAIN d = Fields BY <1>3 DEF Preserves
  <2> QED BY <2>1, FieldKeeps, FieldNames
<1>5. Preserves(e, f) /\ f.ok = e.ok
  <2>1. DOMAIN e = Fields BY <1>4 DEF Preserves
  <2> HIDE DEF e
  <2> QED BY <2>1, FieldKeeps, FieldNames
<1>6. Seal(s) = IF s.sealed THEN s ELSE f
  <2>1. f = [d EXCEPT !.sealed = TRUE, !.out = w] OBVIOUS
  <2> QED BY <2>1 DEF Seal, d, b, w
<1> HIDE DEF e, f
<1> QED BY <1>3, <1>4, <1>5, <1>6 DEF Preserves

LEMMA SingleKeeps ==
  ASSUME NEW s, DOMAIN s = Fields, NEW id, NEW order
  PROVE  Preserves(s, Single(s, id, order)) /\ Single(s, id, order).ok = s.ok
<1> DEFINE p == s.pending \ {id}
           r == [s EXCEPT !.pending = p]
           t == Emit(r, id, <<AddedEntry(s, id)>>)
<1>1. Preserves(s, r) /\ r.ok = s.ok BY FieldKeeps, FieldNames
<1>2. Single(s, id, order) = t \/ Single(s, id, order) = s BY DEF Single
<1> HIDE DEF r
<1>3. Preserves(r, t) /\ t.ok = r.ok BY <1>1, EmitKeeps DEF Preserves
<1> HIDE DEF t
<1> QED BY <1>1, <1>2, <1>3 DEF Preserves

LEMMA SynthesizeKeeps ==
  ASSUME NEW s, DOMAIN s = Fields, NEW order
  PROVE  Preserves(s, SynthesizeBefore(s, order)) /\ SynthesizeBefore(s, order).ok = s.ok
<1> DEFINE a == Single(s, 1, order)
           b == Single(a, 2, order)
           c == Single(b, 6, order)
           d == Single(c, 7, order)
<1>1. Singles(s, order) = d BY DEF Singles
<1>2. Preserves(s, a) /\ a.ok = s.ok BY SingleKeeps
<1> HIDE DEF a
<1>3. Preserves(a, b) /\ b.ok = a.ok BY <1>2, SingleKeeps DEF Preserves
<1> HIDE DEF b
<1>4. Preserves(b, c) /\ c.ok = b.ok BY <1>3, SingleKeeps DEF Preserves
<1> HIDE DEF c
<1>5. Preserves(c, d) /\ d.ok = c.ok BY <1>4, SingleKeeps DEF Preserves
<1> HIDE DEF d
<1>6. Preserves(d, Seal(d)) /\ Seal(d).ok = d.ok BY <1>5, SealKeeps DEF Preserves
<1>7. SynthesizeBefore(s, order) = d \/ SynthesizeBefore(s, order) = Seal(d)
  BY <1>1 DEF SynthesizeBefore
<1> QED BY <1>2, <1>3, <1>4, <1>5, <1>6, <1>7 DEF Preserves

LEMMA WithKeeps ==
  ASSUME NEW s, DOMAIN s = Fields, NEW id, NEW es
  PROVE  Preserves(s, With(s, id, es))
<1> DEFINE p == s.pending \ {id}
           r == [s EXCEPT !.pending = p]
<1>1. Preserves(s, r) BY FieldKeeps, FieldNames
<1>2. With(s, id, es) = Emit(r, id, Append(es, AddedEntry(s, id))) BY DEF With
<1> HIDE DEF r
<1>3. Preserves(r, With(s, id, es)) BY <1>1, <1>2, EmitKeeps DEF Preserves
<1> QED BY <1>1, <1>3 DEF Preserves

------------------------------------------------------------------------------
\* A section that is emitted.
LEMMA EmittedKeeps ==
  ASSUME NEW s, DOMAIN s = Fields, NEW x, x.id # 5, Len(x.entries) \in Nat,
         DOMAIN x.entries = 1..Len(x.entries), IsEntries(x)
  PROVE  Preserves(s, Emitted(s, x))
<1> DEFINE t == Emitted(s, x)
           n == Len(x.entries)
<1>0. Preserves(s, Reject(s)) BY RejectKeeps
<1>1. CASE t = Reject(s) BY <1>0, <1>1
<1>2. CASE t = Types(s, x)
  <2> DEFINE r == [s EXCEPT !.types = n]
  <2>1. Preserves(s, r) BY FieldKeeps, FieldNames
  <2>2. t = With(r, 1, x.entries) BY <1>2 DEF Types
  <2> HIDE DEF r, t
  <2>3. Preserves(r, t) BY <2>1, <2>2, WithKeeps DEF Preserves
  <2> QED BY <2>1, <2>3 DEF Preserves, t
<1>3. CASE t = Imports(s, x)
  <2> DEFINE fs == FunctionsOf(x.entries)
             g == GlobalCount(x.entries)
             q == [s EXCEPT !.imports = fs]
             r == [q EXCEPT !.globals = g]
  <2>1. Preserves(s, q) BY FieldKeeps, FieldNames
  <2>2. t = Reject(s) \/ t = With(r, 2, x.entries) BY <1>3 DEF Imports
  <2> HIDE DEF q, t
  <2>3. Preserves(q, r)
    <3>1. DOMAIN q = Fields BY <2>1 DEF Preserves
    <3> HIDE DEF g
    <3> QED BY <3>1, FieldKeeps, FieldNames
  <2> HIDE DEF r
  <2>4. Preserves(r, With(r, 2, x.entries)) BY <2>3, WithKeeps DEF Preserves
  <2> QED BY <1>0, <2>1, <2>2, <2>3, <2>4 DEF Preserves, t
<1>4. CASE t = FunctionSection(s, x)
  <2> DEFINE a == Emit(s, 3, <<>>)
             q == [a EXCEPT !.defined = x.entries]
             k == Len(a.out)
             r == [q EXCEPT !.slot = k]
  <2>1. Preserves(s, a) BY EmitKeeps
  <2>2. t = Reject(s) \/ t = r BY <1>4 DEF FunctionSection
  <2> HIDE DEF a, t, k
  <2>3. Preserves(a, q)
    <3>1. DOMAIN a = Fields BY <2>1 DEF Preserves
    <3> QED BY <3>1, FieldKeeps, FieldNames
  <2> HIDE DEF q
  <2>4. Preserves(q, r)
    <3>1. DOMAIN q = Fields BY <2>3 DEF Preserves
    <3> QED BY <3>1, FieldKeeps, FieldNames
  <2> QED BY <1>0, <2>1, <2>2, <2>3, <2>4 DEF Preserves, t
<1>5. CASE t = Globals(s, x)
  <2> DEFINE u == Use(s, x.entries)
             r == With(u, 6, Values(u, x.entries))
             g == r.globals + n
  <2>1. Preserves(s, u) BY UseKeeps
  <2>2. t = [r EXCEPT !.globals = g] BY <1>5 DEF Globals
  <2> HIDE DEF u, t
  <2>3. Preserves(u, r) BY <2>1, WithKeeps DEF Preserves
  <2> HIDE DEF r, g
  <2>4. Preserves(r, t)
    <3>1. DOMAIN r = Fields BY <2>3 DEF Preserves
    <3> QED BY <2>2, <3>1, FieldKeeps, FieldNames
  <2> QED BY <2>1, <2>3, <2>4 DEF Preserves, t
<1>6. CASE t = Exports(s, x)
  <2> DEFINE fs == [i \in DOMAIN x.entries |->
                      IF x.entries[i].kind = "function" THEN x.entries[i].index ELSE Void]
             u == Use(s, fs)
  <2>1. Len(fs) = n
    <3>1. fs = [i \in 1..n |-> fs[i]] OBVIOUS
    <3> HIDE DEF fs
    <3> QED BY <3>1, ListIs
  <2>2. Preserves(s, u) BY <2>1, UseKeeps
  <2>3. t = Reject(s) \/ \E es : t = With(u, 7, es) BY <1>6 DEF Exports
  <2> HIDE DEF u, t
  <2>4. \A es : Preserves(u, With(u, 7, es)) BY <2>2, WithKeeps DEF Preserves
  <2> QED BY <1>0, <2>2, <2>3, <2>4 DEF Preserves, t
<1>7. CASE t = Emit(s, 8, <<ShiftIndex(s, x.entries[1])>>) BY <1>7, EmitKeeps
<1>8. CASE t = Elements(s, x) /\ x.id = 9
  <2> DEFINE u == UseAll(s, x.entries)
             q == [u EXCEPT !.elements = TRUE]
  <2>1. \A i \in 1..n : Len(x.entries[i]) \in Nat BY <1>8 DEF IsEntries
  <2>2. Preserves(s, u) BY <2>1, UseAllKeeps
  <2>3. \E es : t = Seal(Emit(q, 9, es)) BY <1>8 DEF Elements
  <2> HIDE DEF u, t
  <2>4. Preserves(u, q)
    <3>1. DOMAIN u = Fields BY <2>2 DEF Preserves
    <3> QED BY <3>1, FieldKeeps, FieldNames
  <2> HIDE DEF q
  <2>5. \A es : Preserves(q, Emit(q, 9, es)) BY <2>4, EmitKeeps DEF Preserves
  <2>6. \A es : Preserves(Emit(q, 9, es), Seal(Emit(q, 9, es))) BY <2>5, SealKeeps DEF Preserves
  <2> QED BY <2>2, <2>3, <2>4, <2>5, <2>6 DEF Preserves, t
<1>9. CASE t = Code(s, x) /\ x.id = 10
  <2> DEFINE ls == [i \in DOMAIN x.entries |-> x.entries[i].values]
             u == UseAll(s, ls)
             q == [u EXCEPT !.code = TRUE]
  <2>1. Len(ls) = n /\ \A i \in 1..n : Len(ls[i]) \in Nat
    <3>1. ls = [i \in 1..n |-> ls[i]] /\ \A i \in 1..n : ls[i] = x.entries[i].values OBVIOUS
    <3>2. \A i \in 1..n : x.entries[i].values \in Seq(Nat) BY <1>9 DEF IsEntries
    <3> HIDE DEF ls
    <3> QED BY <3>1, <3>2, ListIs
  <2>2. Preserves(s, u) BY <2>1, UseAllKeeps
  <2>3. t = Reject(s) \/ \E es : t = Emit(q, 10, es) BY <1>9 DEF Code
  <2> HIDE DEF u, t
  <2>4. Preserves(u, q)
    <3>1. DOMAIN u = Fields BY <2>2 DEF Preserves
    <3> QED BY <3>1, FieldKeeps, FieldNames
  <2> HIDE DEF q
  <2>5. \A es : Preserves(q, Emit(q, 10, es)) BY <2>4, EmitKeeps DEF Preserves
  <2> QED BY <1>0, <2>2, <2>3, <2>4, <2>5 DEF Preserves, t
<1>10. CASE t = Emit(s, x.id, x.entries) BY <1>10, EmitKeeps
<1>11. CASE ~Parses(x)
  <2>1. t = Reject(s) BY <1>11 DEF Emitted
  <2> QED BY <1>1, <2>1
<1>12. CASE Parses(x) /\ x.id = 1
  <2>1. t = Types(s, x) BY <1>12 DEF Emitted
  <2> QED BY <1>2, <1>12, <2>1
<1>13. CASE Parses(x) /\ x.id = 2
  <2>1. t = Imports(s, x) BY <1>13 DEF Emitted
  <2> QED BY <1>3, <1>13, <2>1
<1>14. CASE Parses(x) /\ x.id = 3
  <2>1. t = FunctionSection(s, x) BY <1>14 DEF Emitted
  <2> QED BY <1>4, <1>14, <2>1
<1>15. CASE Parses(x) /\ x.id = 6
  <2>1. t = Globals(s, x) BY <1>15 DEF Emitted
  <2> QED BY <1>5, <1>15, <2>1
<1>16. CASE Parses(x) /\ x.id = 7
  <2>1. t = Exports(s, x) BY <1>16 DEF Emitted
  <2> QED BY <1>6, <1>16, <2>1
<1>17. CASE Parses(x) /\ x.id = 8
  <2>1. t = Emit(s, 8, <<ShiftIndex(s, x.entries[1])>>) BY <1>17 DEF Emitted
  <2> QED BY <1>7, <1>17, <2>1
<1>18. CASE Parses(x) /\ x.id = 9
  <2>1. t = Elements(s, x) BY <1>18 DEF Emitted
  <2> QED BY <1>8, <1>18, <2>1
<1>19. CASE Parses(x) /\ x.id = 10
  <2>1. t = Code(s, x) BY <1>19 DEF Emitted
  <2> QED BY <1>9, <1>19, <2>1
<1>20. CASE Parses(x) /\ x.id \notin {1, 2, 3, 5, 6, 7, 8, 9, 10}
  <2>1. t = Emit(s, x.id, x.entries) BY <1>20 DEF Emitted
  <2> QED BY <1>10, <2>1
<1> HIDE DEF t
<1> QED BY <1>11, <1>12, <1>13, <1>14, <1>15, <1>16, <1>17, <1>18, <1>19, <1>20 DEF t

\* The memory's, too, leaves a pass.
LEMMA MemoryKeeps ==
  ASSUME NEW s, DOMAIN s = Fields, NEW x
  PROVE  DOMAIN Memory(s, x) = Fields
<1> DEFINE r == [s EXCEPT !.memory = TRUE]
<1>1. DOMAIN r = Fields OBVIOUS
<1>2. Memory(s, x) = Reject(s) \/ Memory(s, x) = Emit(r, 5, BoundedMemory(x.entries))
  BY DEF Memory
<1> HIDE DEF r
<1>3. Preserves(s, Reject(s)) BY RejectKeeps
<1>4. \A es : Preserves(r, Emit(r, 5, es)) BY <1>1, EmitKeeps
<1> QED BY <1>2, <1>3, <1>4 DEF Preserves

LEMMA CustomKeeps ==
  ASSUME NEW s, DOMAIN s = Fields, NEW x
  PROVE  Preserves(s, Custom(s, x))
<1>1. Custom(s, x) = s \/ \E y : Custom(s, x) = [s EXCEPT !.out = Append(@, y)]
  BY DEF Custom, Names
<1>2. \A y : Preserves(s, [s EXCEPT !.out = Append(@, y)])
  <2> SUFFICES ASSUME NEW y PROVE Preserves(s, [s EXCEPT !.out = Append(@, y)]) OBVIOUS
  <2> DEFINE w == Append(s.out, y)
  <2>1. Preserves(s, [s EXCEPT !.out = w]) BY FieldKeeps, FieldNames
  <2> QED BY <2>1
<1> QED BY <1>1, <1>2 DEF Preserves

\* What the pass does not take of a section.
Fails(x) ==
  /\ x.id \in SectionIds
  /\ \/ ~Parses(x)
     \/ x.id = 7 /\ \E i \in DOMAIN x.entries : x.entries[i].name = Added
     \/ x.id = 5 /\ BoundedMemory(x.entries) = <<>>

LEMMA SectionKeeps ==
  ASSUME NEW s, DOMAIN s = Fields, NEW x, Len(x.entries) \in Nat,
         DOMAIN x.entries = 1..Len(x.entries), IsEntries(x)
  PROVE  /\ DOMAIN Section(s, x) = Fields
         /\ x.id # 5 => Section(s, x).memory = s.memory
         /\ ~s.ok => ~Section(s, x).ok
         /\ Fails(x) => ~Section(s, x).ok
<1> DEFINE o == OrderOf(x.id)
           r == [s EXCEPT !.last = o]
           u == SynthesizeBefore(r, o)
           t == Section(s, x)
<1>1. CASE ~s.ok
  <2>1. t = s BY <1>1 DEF Section
  <2> QED BY <1>1, <2>1
<1>2. CASE s.ok /\ x.id = 0
  <2>1. t = Custom(s, x) BY <1>2 DEF Section
  <2>2. ~Fails(x) BY <1>2 DEF Fails, SectionIds
  <2> QED BY <1>2, <2>1, <2>2, CustomKeeps DEF Preserves
<1>3. CASE s.ok /\ x.id # 0 /\ (x.id \notin SectionIds \/ o <= s.last)
  <2>1. t = Reject(s) BY <1>3 DEF Section
  <2> QED BY <1>3, <2>1, RejectKeeps DEF Preserves
<1>4. CASE s.ok /\ x.id # 0 /\ ~(x.id \notin SectionIds \/ o <= s.last)
  <2>1. t = Emitted(u, x) BY <1>4 DEF Section
  <2>2. Preserves(s, r)
    <3> HIDE DEF o
    <3> QED BY FieldKeeps, FieldNames
  <2> HIDE DEF r, t
  <2>3. Preserves(r, u) BY <2>2, SynthesizeKeeps DEF Preserves
  <2> HIDE DEF u
  <2>4. DOMAIN u = Fields /\ u.memory = s.memory BY <2>2, <2>3 DEF Preserves
  <2>5. CASE x.id = 5
    <3>1. t = Reject(u) \/ t = Memory(u, x) BY <2>1, <2>5 DEF Emitted
    <3>2. DOMAIN t = Fields
      <4>1. Preserves(u, Reject(u)) /\ DOMAIN Memory(u, x) = Fields BY <2>4, MemoryKeeps, RejectKeeps
      <4> QED BY <3>1, <4>1 DEF Preserves
    <3>3. Fails(x) => t = Reject(u) BY <2>5, <3>1 DEF Fails, Parses, Memory
    <3> QED BY <1>4, <2>4, <2>5, <3>2, <3>3, RejectKeeps DEF t
  <2>6. CASE x.id # 5
    <3>1. Preserves(u, t) BY <2>1, <2>4, <2>6, EmittedKeeps
    <3>2. ASSUME Fails(x) PROVE t = Reject(u)
      <4>1. CASE ~Parses(x) BY <2>1, <4>1 DEF Emitted
      <4>2. CASE Parses(x)
        <5>1. x.id = 7 /\ \E i \in DOMAIN x.entries : x.entries[i].name = Added
          BY <2>6, <3>2, <4>2 DEF Fails
        <5>2. t = Exports(u, x) BY <2>1, <4>2, <5>1 DEF Emitted
        <5> QED BY <5>1, <5>2 DEF Exports
      <4> QED BY <4>1, <4>2
    <3> QED BY <1>4, <2>4, <3>1, <3>2, RejectKeeps DEF Preserves, t
  <2> QED BY <2>5, <2>6
<1> QED BY <1>1, <1>2, <1>3, <1>4

\* A module the engine accepts that the pass does not take has no memory, or a
\* section that fails.
LEMMA Unsuited ==
  ASSUME NEW m, IsModule(m), Accepts(m), ~Supported(m)
  PROVE  ~Has(m, 5) \/ \E i \in DOMAIN m : Fails(m[i])
<1>0. InSectionOrder(m) /\ DOMAIN m \subseteq Nat /\ DOMAIN m = 1..Len(m) /\ Len(m) \in Nat
  BY ModuleIs DEF Accepts
<1>1. ASSUME NEW i \in DOMAIN m, ~Parses(m[i]) PROVE Fails(m[i])
  BY <1>1 DEF Fails, Parses, SectionIds
<1>2. ASSUME NEW e \in ToSet(EntriesOf(m, 7)), e.name = Added
      PROVE  \E i \in DOMAIN m : Fails(m[i])
  <2>1. PICK k \in DOMAIN EntriesOf(m, 7) : EntriesOf(m, 7)[k] = e BY DEF ToSet
  <2>2. EntriesOf(m, 7) # <<>> BY <2>1, EmptyIs
  <2>3. PICK i \in DOMAIN m : m[i].id = 7 /\ EntriesOf(m, 7) = m[i].entries BY <2>2, EntriesAt
  <2> QED BY <1>2, <2>1, <2>3 DEF Fails, SectionIds
<1>3. ASSUME BoundMemory(m) = Refused, NEW i \in DOMAIN m, m[i].id = 5
      PROVE  Fails(m[i])
  <2> DEFINE at == {j \in DOMAIN m : m[j].id = 5}
             a == CHOOSE j \in at : TRUE
             b == BoundedMemory(m[a].entries)
             n == [m EXCEPT ![a].entries = b]
  <2>1. ASSUME NEW j \in at PROVE j = i
    <3>1. OrderOf(m[j].id) = OrderOf(m[i].id) /\ OrderOf(m[i].id) = 5 BY <1>3, OrdersAre
    <3>2. ~(i < j) /\ ~(j < i)
      BY <1>0, <1>3, <3>1 DEF InSectionOrder
    <3> QED BY <1>0, <3>2
  <2>2. at = {i} BY <1>3, <2>1
  <2>3. a = i BY <2>2
  <2>4. Cardinality(at) = 1
    <3> HIDE DEF at
    <3> QED BY <2>2, FS_Singleton
  <2>5. b = <<>> \/ n = <<>>
    <3>1. BoundMemory(m) = IF b = <<>> THEN Refused ELSE n BY <2>4 DEF BoundMemory
    <3> QED BY <1>3, <3>1 DEF Refused
  <2>6. n # <<>>
    <3>1. DOMAIN n = DOMAIN m
      <4> HIDE DEF b, a
      <4> QED OBVIOUS
    <3> HIDE DEF n
    <3> QED BY <1>3, <3>1, EmptyIs
  <2>7. BoundedMemory(m[i].entries) = <<>> BY <2>3, <2>5, <2>6
  <2> QED BY <1>3, <2>7 DEF Fails, SectionIds
<1> QED BY <1>1, <1>2, <1>3 DEF Supported, Has

\* The pass refuses it.
LEMMA UnsuitedRefused ==
  ASSUME NEW m, IsModule(m), Accepts(m), ~Supported(m)
  PROVE  Rewritten(m) = Refused
<1>0. Len(m) \in Nat /\ DOMAIN m = 1..Len(m) BY ModuleIs
<1>1. PICK u : /\ u[0] = Begun /\ \A i \in 1..Len(m) : u[i] = Section(u[i - 1], m[i])
               /\ Rewritten(m) = Output(SynthesizeBefore(u[Len(m)], Cardinality(SectionIds) + 1))
  BY <1>0, RewrittenRuns
<1> DEFINE Refusing(k) ==
             /\ DOMAIN u[k] = Fields
             /\ ~Has(m, 5) => u[k].memory = FALSE
             /\ (\E i \in 1..k : Fails(m[i])) => ~u[k].ok
           S == {k \in Nat : k <= Len(m) => Refusing(k)}
<1>2. 0 \in S
  <2>1. DOMAIN Begun = Fields /\ Begun.memory = FALSE BY DEF Begun, Fields
  <2>2. 1..0 = {} OBVIOUS
  <2> QED BY <1>1, <2>1, <2>2
<1>3. ASSUME NEW k \in S PROVE k + 1 \in S
  <2> SUFFICES ASSUME k + 1 <= Len(m) PROVE Refusing(k + 1)
    <3> HIDE DEF Refusing
    <3> QED OBVIOUS
  <2>1. k \in Nat /\ k <= Len(m) /\ k + 1 \in 1..Len(m) /\ (k + 1) - 1 = k BY <1>0
  <2>2. Refusing(k) BY <2>1
  <2> DEFINE s == u[k]
             x == m[k + 1]
  <2>3. u[k + 1] = Section(s, x) BY <1>1, <2>1
  <2>4. IsSeq(x.entries) /\ IsEntries(x) BY <1>0, <2>1, ModuleIs
  <2>5. Len(x.entries) \in Nat /\ DOMAIN x.entries = 1..Len(x.entries) BY <2>4, SeqIs
  <2>6. ~Has(m, 5) => x.id # 5 BY <1>0, <2>1 DEF Has
  <2>7. \A i \in 1..(k + 1) : i \in 1..k \/ i = k + 1 BY <2>1
  <2> HIDE DEF s, x
  <2>8. /\ DOMAIN Section(s, x) = Fields
        /\ x.id # 5 => Section(s, x).memory = s.memory
        /\ ~s.ok => ~Section(s, x).ok
        /\ Fails(x) => ~Section(s, x).ok
    BY <2>2, <2>4, <2>5, SectionKeeps DEF s
  <2>9. DOMAIN u[k + 1] = Fields /\ (~Has(m, 5) => u[k + 1].memory = FALSE)
    BY <2>2, <2>3, <2>6, <2>8 DEF s
  <2>10. ASSUME NEW i \in 1..(k + 1), Fails(m[i]) PROVE ~u[k + 1].ok
    BY <2>2, <2>3, <2>7, <2>8, <2>10 DEF s, x
  <2> QED BY <2>9, <2>10
<1>4. S = Nat BY <1>2, <1>3, SetInduction
<1> DEFINE N == Len(m)
           o == Cardinality(SectionIds) + 1
           t == SynthesizeBefore(u[N], o)
<1>5. Refusing(N) BY <1>0, <1>4
<1>6. DOMAIN u[N] = Fields BY <1>5
<1>7. Preserves(u[N], t) /\ t.ok = u[N].ok BY <1>6, SynthesizeKeeps
<1>8. Rewritten(m) = Output(t) BY <1>1
<1>9. ~t.ok \/ ~t.memory BY <1>0, <1>5, <1>7, Unsuited DEF Preserves
<1> HIDE DEF t
<1> QED BY <1>8, <1>9 DEF Output

\* What the pass owes, it gives.
LEMMA RewriteIsSound ==
  ASSUME NEW m, IsModule(m), ModuleAssumption
  PROVE  RewriteSound(m)
<1> SUFFICES ASSUME Suitable(m) PROVE RewriteOwed(m, Rewritten(m))
  BY UnsuitedRefused DEF RewriteSound, Suitable, Supported
<1>1. PICK s : PassedTo(m, 13, s) /\ Rewritten(m) = s.out BY PassEnds
<1> DEFINE out == s.out
           T == s.thunks
<1>2. IsModule(m) /\ Accepts(m) BY DEF Suitable
<1>3. Result(m, T, out) BY <1>1, OutputIs
<1> HIDE DEF out, T
<1>4. Accepts(out) BY <1>3, AcceptsOut
<1>5. out # Refused
  <2>1. EntriesOf(<<>>, 1) = <<>> BY EmptyIs, HasNone DEF Has
  <2>2. Len(EntriesOf(out, 1)) = Len(EntriesOf(m, 1)) + 1 /\ Len(EntriesOf(m, 1)) \in Nat
    BY <1>2, <1>3, CountsOut
  <2>3. Len(EntriesOf(out, 1)) # 0 BY <2>2
  <2> QED BY <2>1, <2>3, EmptyIs DEF Refused
<1>6. Command(m) => CompileRewritten(m, out) = out BY <1>3, <1>5, CommandOut
<1>7. EntriesOf(out, 5) = BoundedMemory(EntriesOf(m, 5)) BY <1>3 DEF Result
<1>8. EntriesOf(out, 5) = EntriesOf(BoundMemory(m), 5) BY <1>7, MemoryFits
<1>9. \A memory \in ToSet(EntriesOf(out, 5)) :
        memory.initial <= memory.maximum /\ memory.maximum <= Pages
  BY <1>7, BoundedIs
<1>10. AddsOnce(m, out) BY <1>2, <1>3, AddsOnceOut
<1>11. ThunksForward(m, out) BY <1>2, <1>3, ForwardOut
<1>12. Meanings(m, out) BY <1>2, <1>3, MeaningsOut
<1>13. RewriteOwed(m, out)
  BY <1>4, <1>5, <1>6, <1>8, <1>9, <1>10, <1>11, <1>12 DEF RewriteOwed
<1> QED BY <1>1, <1>13 DEF out

\* The modules of a behaviour.
ModuleInv == call.of = "instrument" => \E x \in Guests : call.module = Module(x)

\* A module that is rewritten is one that a decoder reads.
LEMMA ModulesKept == CallSpec => []ModuleInv
<1>1. CallInit => ModuleInv BY DEF CallInit, ModuleInv
<1>2. ModuleInv /\ [CallNext]_callVars => ModuleInv'
  <2> SUFFICES ASSUME ModuleInv, [CallNext]_callVars PROVE ModuleInv' OBVIOUS
  <2>1. CASE UNCHANGED callVars BY <2>1 DEF callVars, ModuleInv
  <2>2. CASE Translate BY <2>2 DEF Translate, ModuleInv
  <2>3. CASE Compile BY <2>3 DEF Compile, ModuleInv
  <2>4. CASE Accept BY <2>4 DEF Accept, ModuleInv
  <2>5. CASE Import
    <3>1. call'.of = "import" BY <2>5 DEF Import
    <3> QED BY <3>1 DEF ModuleInv
  <2>6. CASE Instrument BY <2>6 DEF Instrument, ModuleInv
  <2>7. CASE Vectored BY <2>7 DEF Vectored, ModuleInv
  <2>8. CASE Audit
    <3>1. call'.of = "audit" BY <2>8 DEF Audit
    <3> QED BY <3>1 DEF ModuleInv
  <2> QED BY <2>1, <2>2, <2>3, <2>4, <2>5, <2>6, <2>7, <2>8 DEF CallNext
<1> QED BY <1>1, <1>2, PTL DEF CallSpec

\* A module that the engine accepts is refused exactly when the pass cannot parse
\* part of it, its memory does not fit the ceiling or it has the reserved export
\* name.  Every other is rewritten to one the engine accepts: a command stays a
\* command, the memory cannot outgrow the ceiling, what is added is there once, a
\* thunk forwards to its import, and every export, call, table entry, global, start
\* and name means the function it meant: rewriter.ts, wasm.ts.
THEOREM RewritesAreAccepted == CallSpec => []RewriteAccepted
<1>1. ModuleInv => RewriteAccepted
  <2> SUFFICES ASSUME ModuleInv, call.of = "instrument" PROVE RewriteSound(call.module)
    BY DEF RewriteAccepted
  <2>1. PICK x \in Guests : call.module = Module(x) BY DEF ModuleInv
  <2>2. IsModule(Module(x)) BY ModuleAssumption
  <2>3. RewriteSound(Module(x)) BY <2>2, ModuleAssumption, RewriteIsSound
  <2> QED BY <2>1, <2>3
<1> QED BY <1>1, ModulesKept, PTL

=============================================================================
