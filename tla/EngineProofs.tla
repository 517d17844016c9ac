----------------------------- MODULE EngineProofs -----------------------------
(***************************************************************************)
(* Theorems about Engine and the filesystem its guests run over, for any   *)
(* names, inodes, budgets, descriptor limit and jobs.                      *)
(***************************************************************************)
EXTENDS Engine, FiniteSetTheorems, SequenceTheorems, WellFoundedInduction, TLAPS

-----------------------------------------------------------------------------
(* Induction and recursion.                                                *)

\* Induction, over a set of numbers.
LEMMA SetInduction ==
  ASSUME NEW S \in SUBSET Nat, 0 \in S, \A n \in S : n + 1 \in S
  PROVE  S = Nat
<1> SUFFICES ASSUME Nat \ S # {} PROVE FALSE OBVIOUS
<1>1. PICK x \in Nat \ S : \A y \in Nat \ S : <<y, x>> \notin OpToRel(<, Nat)
  <2> DEFINE R == OpToRel(<, Nat)
             T == Nat \ S
  <2>1. IsWellFoundedOn(R, Nat) BY NatLessThanWellFounded
  <2> HIDE DEF R
  <2>2. \E x \in T : \A y \in T : ~(<<y, x>> \in R) BY <2>1, WFMin
  <2> QED BY <2>2 DEF R
<1>2. x # 0 /\ x - 1 \in Nat OBVIOUS
<1>3. x - 1 \notin S
  <2>1. (x - 1) + 1 = x OBVIOUS
  <2> QED BY <1>1, <2>1
<1>4. <<x - 1, x>> \in OpToRel(<, Nat)
  <2>1. x - 1 < x OBVIOUS
  <2> QED BY <1>2, <2>1 DEF OpToRel
<1> QED BY <1>1, <1>2, <1>3, <1>4

\* What comes of a value by steps, each from the one before.
Iterations(A, b, G, N) ==
  {f \in [0..N -> A] : f[0] = b /\ \A k \in 1..N : f[k] = G[f[k - 1]]}

LEMMA Iterates ==
  ASSUME NEW A, NEW b \in A, NEW G \in [A -> A], NEW N \in Nat
  PROVE  Iterations(A, b, G, N) # {}
<1> DEFINE Is(f, n) == f[0] = b /\ \A k \in 1..n : f[k] = G[f[k - 1]]
           S == {n \in Nat : \E f \in [0..n -> A] : Is(f, n)}
<1>1. 0 \in S
  <2>1. [k \in 0..0 |-> b] \in [0..0 -> A] /\ Is([k \in 0..0 |-> b], 0) OBVIOUS
  <2> QED BY <2>1
<1>2. ASSUME NEW n \in S PROVE n + 1 \in S
  <2>1. PICK f \in [0..n -> A] : Is(f, n) OBVIOUS
  <2>2. n \in Nat /\ f[n] \in A OBVIOUS
  <2> DEFINE g == [k \in 0..(n + 1) |-> IF k = n + 1 THEN G[f[n]] ELSE f[k]]
  <2>3. g \in [0..(n + 1) -> A] BY <2>2
  <2>4. Is(g, n + 1)
    <3>1. g[0] = b BY <2>1, <2>2
    <3>2. ASSUME NEW k \in 1..(n + 1) PROVE g[k] = G[g[k - 1]]
      <4>1. CASE k = n + 1 BY <2>2, <4>1
      <4>2. CASE k # n + 1
        <5>1. k \in 1..n /\ k - 1 \in 0..n /\ k \in 0..n BY <2>2, <4>2
        <5> QED BY <2>1, <2>2, <4>2, <5>1
      <4> QED BY <4>1, <4>2
    <3> QED BY <3>1, <3>2
  <2> HIDE DEF g, Is
  <2> QED BY <2>2, <2>3, <2>4
<1>3. S \in SUBSET Nat OBVIOUS
<1> HIDE DEF S
<1>4. S = Nat BY <1>1, <1>2, <1>3, SetInduction
<1> QED BY <1>4 DEF S, Iterations

-----------------------------------------------------------------------------
(* Counting bytes.                                                         *)

LEMMA FilesFinite == IsFiniteSet(Files)
<1>1. IsFiniteSet({Stdin} \cup {Source})
  <2>1. IsFiniteSet({Stdin}) BY FS_Singleton
  <2> QED BY <2>1, FS_AddElement
<1>2. IsFiniteSet((({Stdin} \cup {Source}) \cup {Stdout}) \cup {Stderr}) BY <1>1, FS_AddElement
<1>3. Inputs \cup {Stdout, Stderr} = (({Stdin} \cup {Source}) \cup {Stdout}) \cup {Stderr} BY DEF Inputs
<1> QED BY <1>2, <1>3, ResourceAssumption, FS_Union DEF Files

LEMMA UpTo == ASSUME NEW n \in Nat PROVE IsFiniteSet(1..n) /\ Cardinality(1..n) = n
<1>1. 1 \in Int /\ n \in Int OBVIOUS
<1>2. /\ IsFiniteSet(1..n)
      /\ Cardinality(1..n) = IF 1 > n THEN 0 ELSE n - 1 + 1
  BY <1>1, FS_Interval
<1> QED BY <1>2

LEMMA BytesFinite ==
  ASSUME NEW M \in Nat, NEW len \in [Files -> 0..M], NEW S \in SUBSET Files
  PROVE  IsFiniteSet(BytesOf(len, S)) /\ Cardinality(BytesOf(len, S)) \in Nat
<1>1. IsFiniteSet(Files \X (1..M))
  <2>1. IsFiniteSet(1..M) BY UpTo
  <2> QED BY <2>1, FilesFinite, FS_Product
<1>2. BytesOf(len, S) \subseteq Files \X (1..M)
  <2>1. \A f \in S : len[f] \in 0..M OBVIOUS
  <2>2. \A f \in S : {f} \X (1..len[f]) \subseteq Files \X (1..M) BY <2>1
  <2> QED BY <2>2 DEF BytesOf
<1> QED BY <1>1, <1>2, FS_Subset, FS_CardinalityType

\* The bytes of one file, and those of the others.
LEMMA BytesSplit ==
  ASSUME NEW M \in Nat, NEW len \in [Files -> 0..M], NEW S \in SUBSET Files, NEW f \in S
  PROVE  Cardinality(BytesOf(len, S)) = Cardinality(BytesOf(len, S \ {f})) + len[f]
<1> DEFINE Rest == BytesOf(len, S \ {f})
           One == {f}
           Own == One \X (1..len[f])
<1>1. IsFiniteSet(Rest) /\ Cardinality(Rest) \in Nat BY BytesFinite
<1>2. IsFiniteSet(Own) /\ Cardinality(Own) = len[f] /\ len[f] \in Nat
  <2>1. IsFiniteSet(One) /\ Cardinality(One) = 1 BY FS_Singleton
  <2>2. len[f] \in Nat OBVIOUS
  <2>3. IsFiniteSet(1..len[f]) /\ Cardinality(1..len[f]) = len[f] BY <2>2, UpTo
  <2> HIDE DEF One
  <2>4. IsFiniteSet(Own) /\ Cardinality(Own) = Cardinality(One) * Cardinality(1..len[f])
    BY <2>1, <2>3, FS_Product
  <2> QED BY <2>1, <2>2, <2>3, <2>4
<1>3. BytesOf(len, S) = Rest \cup Own BY DEF BytesOf
<1>4. Cardinality(Rest \cap Own) = 0
  <2>1. Rest \cap Own = {} BY DEF BytesOf
  <2> QED BY <2>1, FS_EmptySet
<1> HIDE DEF Rest, Own
<1>5. Cardinality(Rest \cup Own) = Cardinality(Rest) + Cardinality(Own) - 0
  BY <1>1, <1>2, <1>4, FS_Union
<1> QED BY <1>1, <1>2, <1>3, <1>5 DEF Rest

\* A file resized changes the bytes of the files it is among by the difference.
LEMMA Resized ==
  ASSUME NEW M \in Nat, NEW len \in [Files -> 0..M], NEW S \in SUBSET Files,
         NEW f \in Files, NEW new \in [Files -> 0..M], \A g \in Files \ {f} : new[g] = len[g]
  PROVE  /\ Cardinality(BytesOf(new, S)) =
              IF f \in S THEN Cardinality(BytesOf(len, S)) + new[f] - len[f]
              ELSE Cardinality(BytesOf(len, S))
         /\ Cardinality(BytesOf(len, S)) \in Nat
         /\ f \in S => len[f] <= Cardinality(BytesOf(len, S))
<1>1. new[f] \in Nat /\ len[f] \in Nat OBVIOUS
<1>2. BytesOf(new, S \ {f}) = BytesOf(len, S \ {f}) BY DEF BytesOf
<1>3. /\ Cardinality(BytesOf(len, S \ {f})) \in Nat
      /\ Cardinality(BytesOf(len, S)) \in Nat
  BY BytesFinite
<1>4. CASE f \in S
  <2>1. Cardinality(BytesOf(len, S)) = Cardinality(BytesOf(len, S \ {f})) + len[f]
    BY <1>4, BytesSplit
  <2>2. Cardinality(BytesOf(new, S)) = Cardinality(BytesOf(new, S \ {f})) + new[f]
    BY <1>1, <1>4, BytesSplit
  <2> QED BY <1>1, <1>2, <1>3, <1>4, <2>1, <2>2
<1>5. CASE f \notin S
  <2>1. BytesOf(new, S) = BytesOf(len, S) BY <1>5 DEF BytesOf
  <2> QED BY <1>3, <1>5, <2>1
<1> QED BY <1>4, <1>5

-----------------------------------------------------------------------------
(* The invariant of the filesystem, in the parts a call disturbs.          *)

\* No file outgrows the largest budget; the inputs hold one byte.
Bound == MaxOutput + MaxStdout + MaxRequest + MaxStderr + 1

BytesPart ==
  /\ size \in [Files -> 0..Bound] /\ charged \in [Files -> Nat] /\ used \in [Budgets -> Nat]
  /\ \A f \in Inputs : size[f] = 1
  /\ \A f \in Files \ Inputs : charged[f] = size[f]
  /\ \A b \in Budgets : used[b] = Cardinality(BytesOf(size, FilesOf(b))) /\ used[b] <= Maximum(b)
  /\ readonly => used["outputBytes"] = 0

NamesPart ==
  /\ kind \in [Inodes -> {"free", "file", "dir"}] /\ kind[Root] = "dir"
  /\ entries \in Nat /\ (entries <= MaxEntries \/ stop = "outputEntries")
  /\ readonly => tree = Staged(TRUE).tree
  /\ ~readonly => /\ IsFiniteSet(DOMAIN tree) /\ Cardinality(DOMAIN tree) <= entries
                  /\ \A x \in DOMAIN tree : tree[x] \in NewInodes

FdsPart ==
  /\ fds \in Seq(Inodes \cup {None}) /\ live \in Nat
  /\ live = Cardinality(Open) /\ live <= MaxFds
  /\ readonly => \A k \in DOMAIN fds : fds[k] \notin NewInodes

FSInv ==
  /\ readonly \in BOOLEAN /\ stop \in Limits \cup {None}
  /\ BytesPart /\ NamesPart /\ FdsPart

LEMMA Apart ==
  /\ None \notin Inodes /\ Inputs \subseteq Files /\ NewInodes \subseteq Files \ Inputs
  /\ NewInodes \cap {Root, Stdin, Stdout, Source, Stderr} = {} /\ {Stdout, Stderr} \subseteq Files \ Inputs
  /\ Root \notin Files /\ Inodes \subseteq Int
<1>1. \A i \in NewInodes : i \in Int /\ i > 0 BY ResourceAssumption
<1>2. {Root, Stdin, Stdout, Source, Stderr} \subseteq Int /\ Stdout \notin Inputs /\ Stderr \notin Inputs
      /\ \A i \in {Root, Stdin, Stdout, Source, Stderr} : ~(i > 0)
  BY DEF Inputs, Root, Stdin, Stdout, Source, Stderr
<1>3. NewInodes \cap {Root, Stdin, Stdout, Source, Stderr} = {} BY <1>1, <1>2
<1>4. Inodes \subseteq Int BY <1>1, <1>2 DEF Inodes, Files, Inputs
<1>5. None \notin Inodes BY <1>4, ResourceAssumption
<1>6. Root \notin {Stdin, Stdout, Source, Stderr} BY DEF Root, Stdin, Stdout, Source, Stderr
<1>7. Root \notin Files BY <1>3, <1>6 DEF Files, Inputs
<1>8. Inputs \subseteq Files /\ NewInodes \subseteq Files \ Inputs
      /\ {Stdout, Stderr} \subseteq Files \ Inputs
  BY <1>2, <1>3 DEF Files, Inputs
<1> QED BY <1>3, <1>4, <1>5, <1>7, <1>8

LEMMA Bounded == Bound \in Nat /\ \A b \in Budgets : Maximum(b) \in 0..Bound
BY ResourceAssumption DEF Bound, Maximum, Budgets

\* What two numbers' maximum is.
LEMMA MaxOfTwo == ASSUME NEW a \in Int, NEW b \in Int
                  PROVE  Max({a, b}) \in Int /\ Max({a, b}) >= a /\ Max({a, b}) >= b
<1>1. \E x \in {a, b} : \A y \in {a, b} : x >= y OBVIOUS
<1> QED BY <1>1 DEF Max

\* The files of a budget are those of the guest's kind.
LEMMA SameFiles == UNCHANGED readonly => \A b : FilesOf(b)' = FilesOf(b)
<1> SUFFICES ASSUME UNCHANGED readonly, NEW b PROVE FilesOf(b)' = FilesOf(b) OBVIOUS
<1>1. \A f : BudgetOf(f)' = BudgetOf(f) BY DEF BudgetOf
<1> QED BY <1>1 DEF FilesOf

LEMMA SameBytes ==
  ASSUME BytesPart, UNCHANGED <<readonly, size, charged, used>>
  PROVE  BytesPart'
<1>1. \A b : FilesOf(b)' = FilesOf(b) BY SameFiles
<1> QED BY <1>1 DEF BytesPart

LEMMA OpenFinite == ASSUME FdsPart PROVE IsFiniteSet(Open)
<1>1. DOMAIN fds = 1..Len(fds) /\ Len(fds) \in Nat BY DEF FdsPart
<1>2. IsFiniteSet(1..Len(fds)) BY <1>1, UpTo
<1>3. Open \in SUBSET (1..Len(fds)) BY <1>1 DEF Open
<1> QED BY <1>2, <1>3, FS_Subset

-----------------------------------------------------------------------------
(* A staged filesystem.                                                    *)

LEMMA StagedBytes ==
  ASSUME NEW ro \in BOOLEAN, NEW S \in SUBSET (Files \ Inputs)
  PROVE  Cardinality(BytesOf(Staged(ro).size, S)) = 0
<1>1. \A f \in S : Staged(ro).size[f] = 0 BY DEF Staged
<1>2. BytesOf(Staged(ro).size, S) = {} BY <1>1 DEF BytesOf
<1> QED BY <1>2, FS_EmptySet

LEMMA StagedOpen ==
  LET fd == <<Stdin, Stdout, Stderr, Root>> IN
  /\ Cardinality({k \in DOMAIN fd : fd[k] # None}) = 4 /\ Len(fd) = 4
  /\ fd \in Seq(Inodes \cup {None}) /\ \A k \in DOMAIN fd : fd[k] \notin NewInodes
<1> DEFINE fd == <<Stdin, Stdout, Stderr, Root>>
<1>1. Len(fd) = 4 /\ DOMAIN fd = 1..4 OBVIOUS
<1>2. fd[1] = Stdin /\ fd[2] = Stdout /\ fd[3] = Stderr /\ fd[4] = Root OBVIOUS
<1>3. {Stdin, Stdout, Stderr, Root} \subseteq Inodes BY DEF Inodes, Files, Inputs
<1>4. \A k \in 1..4 : fd[k] \in Inodes /\ fd[k] # None /\ fd[k] \notin NewInodes
  <2>1. \A k \in 1..4 : k = 1 \/ k = 2 \/ k = 3 \/ k = 4 OBVIOUS
  <2> QED BY <1>2, <1>3, <2>1, Apart
<1>5. {k \in DOMAIN fd : fd[k] # None} = 1..4 BY <1>1, <1>4
<1>6. Cardinality(1..4) = 4 BY UpTo, 4 \in Nat
<1>7. fd \in Seq(Inodes \cup {None}) BY <1>3
<1> QED BY <1>1, <1>4, <1>5, <1>6, <1>7

LEMMA StagedParts ==
  ASSUME NEW ro \in BOOLEAN
  PROVE  /\ Staged(ro).size \in [Files -> 0..Bound]
         /\ \A f \in Inputs : Staged(ro).size[f] = 1
         /\ \A f \in Files \ Inputs : Staged(ro).size[f] = 0
         /\ \A S \in SUBSET (Files \ Inputs) : 0 = Cardinality(BytesOf(Staged(ro).size, S))
         /\ Staged(ro).kind \in [Inodes -> {"free", "file", "dir"}] /\ Staged(ro).kind[Root] = "dir"
         /\ ~ro => DOMAIN Staged(ro).tree = {}
         /\ Staged(ro).fds = <<Stdin, Stdout, Stderr, Root>>
<1> DEFINE sizes == [f \in Files |-> IF f \in Inputs THEN 1 ELSE 0]
           kinds == [i \in Inodes |-> IF i \in NewInodes THEN "free"
                                      ELSE IF i = Root THEN "dir" ELSE "file"]
<1>1. Staged(ro).size = sizes /\ Staged(ro).kind = kinds /\ Staged(ro).fds = <<Stdin, Stdout, Stderr, Root>>
  BY DEF Staged
<1>2. 0 \in 0..Bound /\ 1 \in 0..Bound BY ResourceAssumption DEF Bound
<1>3. sizes \in [Files -> 0..Bound] BY <1>2
<1>4. \A f \in Inputs : sizes[f] = 1 BY Apart
<1>5. \A f \in Files \ Inputs : sizes[f] = 0 OBVIOUS
<1>6. kinds \in [Inodes -> {"free", "file", "dir"}] OBVIOUS
<1>7. kinds[Root] = "dir"
  <2>1. Root \in Inodes BY DEF Inodes
  <2> QED BY <2>1, Apart
<1>8. \A S \in SUBSET (Files \ Inputs) : 0 = Cardinality(BytesOf(Staged(ro).size, S))
  BY StagedBytes
<1>9. ~ro => DOMAIN Staged(ro).tree = {} BY DEF Staged
<1> QED BY <1>1, <1>3, <1>4, <1>5, <1>6, <1>7, <1>8, <1>9

LEMMA StageInv == ASSUME NEW ro \in BOOLEAN, Stage(ro) PROVE FSInv' /\ readonly' = ro
<1>1. readonly' = ro /\ size' = Staged(ro).size /\ charged' = [f \in Files |-> 0]
      /\ used' = [b \in Budgets |-> 0]
  BY DEF Stage, Staged
<1>2. readonly' = ro /\ kind' = Staged(ro).kind /\ tree' = Staged(ro).tree /\ entries' = 0
  BY DEF Stage, Staged
<1>3. readonly' = ro /\ fds' = <<Stdin, Stdout, Stderr, Root>> /\ live' = 4 /\ stop' = None
  BY StagedOpen, StagedParts DEF Stage, Staged
<1>4. BytesPart'
  <2>1. \A b \in Budgets : FilesOf(b)' \in SUBSET (Files \ Inputs) BY DEF FilesOf
  <2>2. "outputBytes" \in Budgets BY DEF Budgets
  <2>3. \A b \in Budgets : used'[b] = 0 /\ 0 = Cardinality(BytesOf(size', FilesOf(b)')) /\ 0 <= Maximum(b)
    BY <1>1, <2>1, StagedParts, Bounded
  <2> QED BY <1>1, <2>2, <2>3, StagedParts DEF BytesPart
<1>5. NamesPart'
  <2>1. ro => Staged(ro).tree = Staged(TRUE).tree OBVIOUS
  <2>2. IsFiniteSet({}) /\ Cardinality({}) = 0 BY FS_EmptySet
  <2>3. kind' \in [Inodes -> {"free", "file", "dir"}] /\ kind'[Root] = "dir" BY <1>2, StagedParts
  <2>4. ~readonly' => DOMAIN tree' = {} BY <1>2, StagedParts
  <2>5. entries' \in Nat /\ entries' <= MaxEntries BY <1>2, ResourceAssumption
  <2>6. readonly' => tree' = Staged(TRUE).tree BY <1>2, <2>1
  <2>7. ~readonly' => /\ IsFiniteSet(DOMAIN tree') /\ Cardinality(DOMAIN tree') <= entries'
                      /\ \A x \in DOMAIN tree' : tree'[x] \in NewInodes
    BY <1>2, <2>2, <2>4
  <2> HIDE <1>2
  <2> QED BY <2>3, <2>5, <2>6, <2>7 DEF NamesPart
<1>6. FdsPart' BY <1>3, StagedOpen, ResourceAssumption DEF FdsPart, Open
<1> QED BY <1>3, <1>4, <1>5, <1>6 DEF FSInv

LEMMA InitInvFS == ASSUME InitFS PROVE FSInv /\ readonly = TRUE
<1>0. TRUE \in BOOLEAN OBVIOUS
<1>1. readonly = TRUE /\ size = Staged(TRUE).size /\ charged = [f \in Files |-> 0]
      /\ used = [b \in Budgets |-> 0]
  BY DEF InitFS, Staged
<1>2. readonly = TRUE /\ kind = Staged(TRUE).kind /\ tree = Staged(TRUE).tree /\ entries = 0
  BY DEF InitFS, Staged
<1>3. readonly = TRUE /\ fds = <<Stdin, Stdout, Stderr, Root>> /\ live = 4 /\ stop = None
  BY StagedOpen, StagedParts, <1>0 DEF InitFS, Staged
<1>4. BytesPart
  <2>1. \A b \in Budgets : FilesOf(b) \in SUBSET (Files \ Inputs) BY DEF FilesOf
  <2>2. "outputBytes" \in Budgets BY DEF Budgets
  <2>3. \A b \in Budgets : used[b] = 0 /\ 0 = Cardinality(BytesOf(size, FilesOf(b))) /\ 0 <= Maximum(b)
    <3>1. used = [b \in Budgets |-> 0] BY <1>1
    <3>2. \A S \in SUBSET (Files \ Inputs) : 0 = Cardinality(BytesOf(size, S))
      BY <1>0, <1>1, StagedParts
    <3>3. \A b \in Budgets : 0 <= Maximum(b) BY Bounded
    <3> HIDE <1>1
    <3> QED BY <2>1, <3>1, <3>2, <3>3
  <2>4. charged = [f \in Files |-> 0] /\ used \in [Budgets -> Nat] BY <1>1
  <2>5. size \in [Files -> 0..Bound] /\ (\A f \in Inputs : size[f] = 1)
        /\ \A f \in Files \ Inputs : size[f] = 0
    BY <1>0, <1>1, StagedParts
  <2>6. charged \in [Files -> Nat] /\ \A f \in Files \ Inputs : charged[f] = size[f]
    BY <2>4, <2>5
  <2>7. \A b \in Budgets : used[b] = Cardinality(BytesOf(size, FilesOf(b))) /\ used[b] <= Maximum(b)
    BY <2>3
  <2>8. used["outputBytes"] = 0 BY <2>2, <2>3
  <2> HIDE <1>1, <2>3
  <2> QED BY <2>4, <2>5, <2>6, <2>7, <2>8 DEF BytesPart
<1>5. NamesPart
  <2>1. kind \in [Inodes -> {"free", "file", "dir"}] /\ kind[Root] = "dir" BY <1>0, <1>2, StagedParts
  <2>2. entries \in Nat /\ entries <= MaxEntries BY <1>2, ResourceAssumption
  <2> QED BY <1>2, <2>1, <2>2 DEF NamesPart
<1>6. FdsPart BY <1>3, StagedOpen, ResourceAssumption DEF FdsPart, Open
<1> QED BY <1>3, <1>4, <1>5, <1>6 DEF FSInv

-----------------------------------------------------------------------------
(* Bytes.                                                                  *)

LEMMA SetDataInv ==
  ASSUME BytesPart, NEW f \in Files \ Inputs, NEW n \in Nat, SetData(f, n),
         n <= Maximum(BudgetOf(f)) - used[BudgetOf(f)] + size[f],
         UNCHANGED readonly, readonly => f \in {Stdout, Stderr}
  PROVE  BytesPart'
<1> DEFINE b == BudgetOf(f)
<1>1. b \in Budgets /\ f \in FilesOf(b) /\ \A c \in Budgets \ {b} : f \notin FilesOf(c)
  BY DEF BudgetOf, Budgets, FilesOf
<1>2. size[f] \in Nat /\ charged[f] = size[f] /\ used[b] \in Nat
      /\ used[b] = Cardinality(BytesOf(size, FilesOf(b)))
  BY <1>1 DEF BytesPart
<1>3. \A c : FilesOf(c) \in SUBSET Files BY DEF FilesOf
<1>4. size[f] <= used[b]
  <2>1. Bound \in Nat /\ size \in [Files -> 0..Bound] /\ f \in Files /\ FilesOf(b) \in SUBSET Files
    BY <1>3, Bounded DEF BytesPart
  <2>2. Cardinality(BytesOf(size, FilesOf(b) \ {f})) \in Nat BY <2>1, BytesFinite
  <2> QED BY <1>1, <1>2, <2>1, <2>2, BytesSplit
<1>5. n <= Maximum(b) /\ n \in 0..Bound BY <1>1, <1>2, <1>4, Bounded
<1>6. \A c \in Budgets : Cardinality(BytesOf(size', FilesOf(c))) =
        IF c = b THEN used[c] + n - size[f] ELSE used[c]
  <2> SUFFICES ASSUME NEW c \in Budgets
               PROVE  Cardinality(BytesOf(size', FilesOf(c))) =
                        IF c = b THEN used[c] + n - size[f] ELSE used[c]
      OBVIOUS
  <2>1. size' = [size EXCEPT ![f] = n] BY DEF SetData
  <2>2. Cardinality(BytesOf(size', FilesOf(c))) =
          IF f \in FilesOf(c) THEN Cardinality(BytesOf(size, FilesOf(c))) + n - size[f]
          ELSE Cardinality(BytesOf(size, FilesOf(c)))
    <3>1. Bound \in Nat /\ size \in [Files -> 0..Bound] BY Bounded DEF BytesPart
    <3>2. FilesOf(c) \in SUBSET Files /\ f \in Files /\ n \in 0..Bound BY <1>3, <1>5
    <3> DEFINE S == FilesOf(c)
               new == size'
    <3>3. S \in SUBSET Files /\ new \in [Files -> 0..Bound] /\ new[f] = n
          /\ \A g \in Files \ {f} : new[g] = size[g]
      BY <2>1, <3>1, <3>2
    <3> HIDE DEF S, new
    <3>4. Cardinality(BytesOf(new, S)) =
            IF f \in S THEN Cardinality(BytesOf(size, S)) + n - size[f]
            ELSE Cardinality(BytesOf(size, S))
      BY <3>1, <3>2, <3>3, Resized
    <3> QED BY <3>4 DEF S, new
  <2>3. used[c] = Cardinality(BytesOf(size, FilesOf(c))) BY DEF BytesPart
  <2> QED BY <1>1, <2>1, <2>2, <2>3
<1>7. used' = [used EXCEPT ![b] = used[b] + n - size[f]] BY <1>2 DEF SetData
<1>8. used[b] + n - size[f] \in Nat /\ used[b] + n - size[f] <= Maximum(b)
  BY <1>1, <1>2, <1>4, <1>5, Bounded
<1>9. used' \in [Budgets -> Nat]
      /\ \A c \in Budgets : used'[c] = Cardinality(BytesOf(size', FilesOf(c))) /\ used'[c] <= Maximum(c)
  BY <1>1, <1>6, <1>7, <1>8 DEF BytesPart
<1>10. size' = [size EXCEPT ![f] = n] /\ charged' = [charged EXCEPT ![f] = n] BY DEF SetData
<1>11. size' \in [Files -> 0..Bound] /\ charged' \in [Files -> Nat]
       /\ (\A g \in Inputs : size'[g] = 1) /\ \A g \in Files \ Inputs : charged'[g] = size'[g]
  BY <1>5, <1>10 DEF BytesPart
<1>12. readonly' => used'["outputBytes"] = 0
  BY <1>1, <1>7 DEF BytesPart, BudgetOf, Budgets
<1> QED BY <1>9, <1>11, <1>12, SameFiles DEF BytesPart

\* A resize of a file a guest may write, and every other variable.
LEMMA ResizeInv ==
  ASSUME FSInv, stop = None, NEW f \in Files \ Inputs, NEW n \in Nat, Resize(f, n),
         readonly => f \in {Stdout, Stderr}
  PROVE  FSInv'
<1>1. CASE Fits(f, n)
  <2>1. SetData(f, n) /\ UNCHANGED <<readonly, kind, tree, entries, fds, live, stop>>
    BY <1>1 DEF Resize
  <2>2. n <= Maximum(BudgetOf(f)) - used[BudgetOf(f)] + size[f] BY <1>1 DEF Fits
  <2>3. BytesPart' BY <2>1, <2>2, SetDataInv DEF FSInv
  <2>4. NamesPart' /\ FdsPart' BY <2>1 DEF FSInv, NamesPart, FdsPart, Open
  <2> QED BY <2>1, <2>3, <2>4 DEF FSInv
<1>2. CASE ~Fits(f, n)
  <2>1. stop' = BudgetOf(f) /\ UNCHANGED <<readonly, kind, tree, size, charged, used, fds, live, entries>>
    BY <1>2 DEF Resize, Exceeds
  <2>2. BudgetOf(f) \in Limits BY DEF BudgetOf, Limits, Budgets
  <2>3. entries <= MaxEntries BY EngineAssumption DEF FSInv, NamesPart, Limits
  <2>4. BytesPart' /\ NamesPart' /\ FdsPart'
    BY <2>1, <2>3, SameBytes DEF FSInv, NamesPart, FdsPart, Open
  <2> QED BY <2>1, <2>2, <2>4 DEF FSInv
<1> QED BY <1>1, <1>2

\* What a descriptor that is no directory and no input may be.
LEMMA Writable ==
  ASSUME FSInv, NEW k \in Open, ~IsDir(fds[k]), ~Protected(k)
  PROVE  fds[k] \in Files \ Inputs /\ (readonly => fds[k] \in {Stdout, Stderr})
<1>1. fds[k] \in Inodes BY DEF FSInv, FdsPart, Open
<1>2. fds[k] # Root BY DEF FSInv, NamesPart, IsDir
<1>3. fds[k] \in Files \ Inputs BY <1>1, <1>2 DEF Inodes, Protected
<1>4. readonly => fds[k] \notin NewInodes BY DEF FSInv, FdsPart, Open
<1> QED BY <1>3, <1>4 DEF Files

LEMMA WriteInv == ASSUME FSInv, Write \/ SetSize PROVE FSInv'
<1>0. \A n \in Lengths : n \in Nat BY DEF Lengths
<1>1. CASE Write
  <2>1. PICK k \in Open, end \in Lengths :
          ~IsDir(fds[k]) /\ ~Protected(k) /\ Resize(fds[k], Max({end, size[fds[k]]}))
    BY <1>1 DEF Write
  <2>2. fds[k] \in Files \ Inputs /\ (readonly => fds[k] \in {Stdout, Stderr}) BY <2>1, Writable
  <2>3. size[fds[k]] \in Nat BY <2>2, Bounded DEF FSInv, BytesPart
  <2>4. Max({end, size[fds[k]]}) \in Nat
    <3>1. end \in Int /\ end >= 0 /\ size[fds[k]] \in Int BY <1>0, <2>1, <2>3
    <3>2. Max({end, size[fds[k]]}) \in Int /\ Max({end, size[fds[k]]}) >= end BY <3>1, MaxOfTwo
    <3> QED BY <3>1, <3>2
  <2>5. stop = None BY <1>1 DEF Write, Running
  <2> QED BY <2>1, <2>2, <2>4, <2>5, ResizeInv
<1>2. CASE SetSize
  <2>1. PICK k \in Open, n \in Lengths : ~IsDir(fds[k]) /\ ~Protected(k) /\ Resize(fds[k], n)
    BY <1>2 DEF SetSize
  <2>2. fds[k] \in Files \ Inputs /\ (readonly => fds[k] \in {Stdout, Stderr}) BY <2>1, Writable
  <2>3. stop = None /\ n \in Nat BY <1>0, <1>2, <2>1 DEF SetSize, Running
  <2> QED BY <2>1, <2>2, <2>3, ResizeInv
<1> QED BY <1>1, <1>2

-----------------------------------------------------------------------------
(* Descriptors.                                                            *)

LEMMA PushInv ==
  ASSUME FdsPart, NEW i \in Inodes, Push(i), UNCHANGED readonly, live < MaxFds,
         readonly => i \notin NewInodes
  PROVE  FdsPart'
<1>1. fds \in Seq(Inodes \cup {None}) /\ live \in Nat BY DEF FdsPart
<1>2. fds' = Append(fds, i) /\ live' = live + 1 BY DEF Push
<1> DEFINE m == Len(fds) + 1
<1>3. /\ fds' \in Seq(Inodes \cup {None}) /\ DOMAIN fds' = 1..m /\ fds'[m] = i
      /\ DOMAIN fds = 1..Len(fds) /\ \A k \in 1..Len(fds) : fds'[k] = fds[k]
  BY <1>1, <1>2
<1>4. 1..m = (1..Len(fds)) \cup {m} /\ m \notin 1..Len(fds) BY <1>1
<1>5. i # None BY Apart
<1> HIDE DEF m
<1>6. Open' = Open \cup {m} /\ m \notin Open BY <1>3, <1>4, <1>5 DEF Open
<1>7. IsFiniteSet(Open) BY OpenFinite
<1>8. Cardinality(Open') = Cardinality(Open) + 1 BY <1>6, <1>7, FS_AddElement
<1>9. readonly' => \A k \in DOMAIN fds' : fds'[k] \notin NewInodes
  BY <1>3, <1>4 DEF FdsPart
<1>10. live' \in Nat /\ live' = Cardinality(Open') /\ live' <= MaxFds
  <2>1. live = Cardinality(Open) /\ live \in Nat BY DEF FdsPart
  <2>2. MaxFds \in Nat BY ResourceAssumption
  <2> QED BY <1>1, <1>2, <1>8, <2>1, <2>2
<1> QED BY <1>3, <1>9, <1>10 DEF FdsPart

LEMMA FdsInv == ASSUME FSInv, Close \/ Renumber PROVE FSInv'
<1>1. UNCHANGED <<readonly, kind, tree, size, charged, used, entries, stop>>
  BY DEF Close, Renumber
<1>2. PICK k \in Open, to \in Open :
        /\ fds' = [fds EXCEPT ![to] = fds[k], ![k] = None]
        /\ live' = Released(k, fds')
  <2>1. CASE Close
    <3>1. PICK k \in Open : fds' = [fds EXCEPT ![k] = None] /\ live' = Released(k, fds')
      BY <2>1 DEF Close
    <3>2. [fds EXCEPT ![k] = None] = [fds EXCEPT ![k] = fds[k], ![k] = None]
      BY <3>1 DEF Open, FSInv, FdsPart
    <3> QED BY <3>1, <3>2
  <2>2. CASE Renumber
    BY <2>2 DEF Renumber
  <2> QED BY <2>1, <2>2
<1>3. fds \in Seq(Inodes \cup {None}) /\ DOMAIN fds = 1..Len(fds) /\ k \in DOMAIN fds /\ to \in DOMAIN fds
  BY DEF Open, FSInv, FdsPart
<1>4. fds' \in Seq(Inodes \cup {None}) /\ DOMAIN fds' = DOMAIN fds /\ fds'[k] = None
      /\ \A j \in DOMAIN fds \ {k} : fds'[j] = IF j = to THEN fds[k] ELSE fds[j]
  BY <1>2, <1>3
<1>5. Open' = Open \ {k} BY <1>2, <1>3, <1>4 DEF Open
<1>6. IsFiniteSet(Open) BY OpenFinite DEF FSInv
<1>7. Cardinality(Open') = Cardinality(Open) - 1 /\ Cardinality(Open) > 0
  <2>1. Cardinality(Open') = Cardinality(Open) - 1 BY <1>5, <1>6, FS_RemoveElement
  <2>2. Cardinality(Open) \in Nat /\ Cardinality(Open') \in Nat
    <3>1. IsFiniteSet(Open') BY <1>5, <1>6, FS_RemoveElement
    <3> QED BY <1>6, <3>1, FS_CardinalityType
  <2> QED BY <2>1, <2>2
<1>8. live = Cardinality(Open) /\ live \in Nat /\ live <= MaxFds BY DEF FSInv, FdsPart
<1>9. live' = live - 1 BY <1>2, <1>4, <1>7, <1>8 DEF Released
<1>10. readonly' => \A j \in DOMAIN fds' : fds'[j] \notin NewInodes
  <2>1. None \notin NewInodes BY Apart DEF Inodes, Files
  <2> QED BY <1>1, <1>3, <1>4, <2>1 DEF FSInv, FdsPart
<1>11. FdsPart' BY <1>4, <1>7, <1>8, <1>9, <1>10, ResourceAssumption DEF FdsPart
<1>12. BytesPart' /\ NamesPart' BY <1>1, SameBytes DEF FSInv, NamesPart
<1> QED BY <1>1, <1>11, <1>12 DEF FSInv

-----------------------------------------------------------------------------
(* Names.                                                                  *)

KindType == kind \in [Inodes -> {"free", "file", "dir"}] /\ kind[Root] = "dir"

\* What a name leads to.
LEMMA EntryOf ==
  ASSUME FSInv, NEW d, NEW n, Entry(tree, d, n) # None
  PROVE  /\ <<d, n>> \in DOMAIN tree /\ Entry(tree, d, n) = tree[<<d, n>>]
         /\ readonly => Entry(tree, d, n) = Source
         /\ ~readonly => Entry(tree, d, n) \in NewInodes
<1>1. <<d, n>> \in DOMAIN tree /\ Entry(tree, d, n) = tree[<<d, n>>] BY DEF Entry
<1>2. readonly => tree[<<d, n>>] = Source
  <2>1. \A x \in DOMAIN Staged(TRUE).tree : Staged(TRUE).tree[x] = Source BY DEF Staged
  <2> QED BY <1>1, <2>1 DEF FSInv, NamesPart
<1> QED BY <1>1, <1>2 DEF FSInv, NamesPart

\* Taking a name away.
LEMMA Dropped ==
  ASSUME FSInv, ~readonly, NEW d, NEW n
  PROVE  LET t == Drop(tree, d, n) IN
         /\ IsFiniteSet(DOMAIN t) /\ Cardinality(DOMAIN t) <= entries
         /\ \A x \in DOMAIN t : t[x] \in NewInodes
<1> DEFINE t == Drop(tree, d, n)
           x == <<d, n>>
<1>1. DOMAIN t = DOMAIN tree \ {x} /\ \A y \in DOMAIN t : t[y] = tree[y] BY DEF Drop
<1>2. IsFiniteSet(DOMAIN tree) /\ Cardinality(DOMAIN tree) <= entries /\ entries \in Nat
      /\ \A y \in DOMAIN tree : tree[y] \in NewInodes
  BY DEF FSInv, NamesPart
<1> HIDE DEF t, x
<1>3. IsFiniteSet(DOMAIN t) /\ Cardinality(DOMAIN t) <= Cardinality(DOMAIN tree)
  BY <1>1, <1>2, FS_Subset
<1>4. Cardinality(DOMAIN t) \in Nat /\ Cardinality(DOMAIN tree) \in Nat BY <1>2, <1>3, FS_CardinalityType
<1>5. Cardinality(DOMAIN t) <= entries BY <1>2, <1>3, <1>4
<1> QED BY <1>1, <1>2, <1>3, <1>5 DEF t

\* A name entered is counted before it is there; one too many ends the guest.
LEMMA EnterInv ==
  ASSUME FSInv, stop = None, ~readonly, NEW t, NEW d, NEW n, NEW i \in NewInodes,
         IsFiniteSet(DOMAIN t), Cardinality(DOMAIN t) <= entries,
         \A x \in DOMAIN t : t[x] \in NewInodes, Enter(t, d, n, i)
  PROVE  /\ BytesPart' /\ readonly' = readonly /\ stop' \in Limits \cup {None}
         /\ stop' # None => UNCHANGED <<kind, fds, live>>
         /\ KindType' => NamesPart'
<1> DEFINE x == <<d, n>>
<1>1. entries' = (IF x \in DOMAIN t THEN entries ELSE entries + 1) BY DEF Enter, Counted
<1>2. entries \in Nat /\ Cardinality(DOMAIN t) \in Nat BY FS_CardinalityType DEF FSInv, NamesPart
<1>3. entries' \in Nat /\ entries <= entries' BY <1>1, <1>2
<1>4. CASE entries' > MaxEntries
  <2>1. stop' = "outputEntries" /\ UNCHANGED <<readonly, kind, tree, size, charged, used, fds, live>>
    BY <1>4 DEF Enter, Exceeds
  <2>2. BytesPart' BY <2>1, SameBytes DEF FSInv
  <2>3. Cardinality(DOMAIN tree) <= entries'
    <3>1. IsFiniteSet(DOMAIN tree) /\ Cardinality(DOMAIN tree) <= entries BY DEF FSInv, NamesPart
    <3>2. Cardinality(DOMAIN tree) \in Nat BY <3>1, FS_CardinalityType
    <3> QED BY <1>2, <1>3, <3>1, <3>2
  <2>4. NamesPart' BY <1>3, <2>1, <2>3 DEF FSInv, NamesPart
  <2> QED BY <2>1, <2>2, <2>4 DEF Limits
<1>5. CASE ~(entries' > MaxEntries)
  <2>1. tree' = Put(t, d, n, i) /\ UNCHANGED <<readonly, size, charged, used, stop>>
    BY <1>5 DEF Enter
  <2>2. BytesPart' BY <2>1, SameBytes DEF FSInv
  <2>3. DOMAIN tree' = DOMAIN t \cup {x} /\ \A y \in DOMAIN tree' : tree'[y] \in NewInodes
    BY <2>1 DEF Put
  <2> HIDE DEF x
  <2>4. IsFiniteSet(DOMAIN tree')
        /\ Cardinality(DOMAIN tree') =
             IF x \in DOMAIN t THEN Cardinality(DOMAIN t) ELSE Cardinality(DOMAIN t) + 1
    BY <2>3, FS_AddElement
  <2>5. Cardinality(DOMAIN tree') <= entries' BY <1>1, <1>2, <2>4 DEF x
  <2>6. entries' <= MaxEntries BY <1>3, <1>5, ResourceAssumption
  <2>7. KindType' => NamesPart' BY <1>3, <2>1, <2>3, <2>4, <2>5, <2>6 DEF NamesPart, KindType
  <2> QED BY <2>1, <2>2, <2>7 DEF FSInv
<1> QED BY <1>4, <1>5

\* The names as they are.
LEMMA TreeNow ==
  ASSUME FSInv, ~readonly
  PROVE  /\ IsFiniteSet(DOMAIN tree) /\ Cardinality(DOMAIN tree) <= entries
         /\ \A x \in DOMAIN tree : tree[x] \in NewInodes
BY DEF FSInv, NamesPart

LEMMA FreshInode == ASSUME CanCreate PROVE Fresh \in NewInodes
BY DEF CanCreate, Fresh

LEMMA MakesKind ==
  ASSUME FSInv, CanCreate, NEW what \in {"file", "dir"}, Makes(what)
  PROVE  KindType'
<1>1. Fresh \in NewInodes /\ Root \notin NewInodes BY FreshInode, Apart
<1>2. kind \in [Inodes -> {"free", "file", "dir"}] /\ kind[Root] = "dir" /\ Root \in Inodes
  BY DEF FSInv, NamesPart, Inodes
<1>3. kind' = [kind EXCEPT ![Fresh] = what] BY DEF Makes
<1> QED BY <1>1, <1>2, <1>3 DEF KindType

LEMMA MkdirInv == ASSUME FSInv, Mkdir PROVE FSInv'
<1>1. stop = None /\ ~readonly /\ CanCreate BY DEF Mkdir, Running
<1>2. PICK d, n : Enter(tree, d, n, Fresh) /\ (stop' = None => Makes("dir") /\ UNCHANGED <<fds, live>>)
  BY DEF Mkdir
<1>3. /\ BytesPart' /\ readonly' = readonly /\ stop' \in Limits \cup {None}
      /\ stop' # None => UNCHANGED <<kind, fds, live>>
      /\ KindType' => NamesPart'
  BY <1>1, <1>2, TreeNow, FreshInode, EnterInv
<1>4. KindType' BY <1>1, <1>2, <1>3, MakesKind DEF KindType, FSInv, NamesPart
<1>5. UNCHANGED <<fds, live>> BY <1>2, <1>3
<1>6. FdsPart' BY <1>3, <1>5 DEF FSInv, FdsPart, Open
<1> QED BY <1>3, <1>4, <1>6 DEF FSInv

\* Link and Rename enter a file or directory the guest has made.
LEMMA MovedInv ==
  ASSUME FSInv, stop = None, ~readonly, NEW t, NEW d, NEW n, NEW i \in NewInodes,
         IsFiniteSet(DOMAIN t), Cardinality(DOMAIN t) <= entries,
         \A x \in DOMAIN t : t[x] \in NewInodes, Enter(t, d, n, i),
         stop' = None => UNCHANGED <<kind, fds, live>>
  PROVE  FSInv'
<1>1. /\ BytesPart' /\ readonly' = readonly /\ stop' \in Limits \cup {None}
      /\ stop' # None => UNCHANGED <<kind, fds, live>>
      /\ KindType' => NamesPart'
  BY EnterInv
<1>2. UNCHANGED <<kind, fds, live>> BY <1>1
<1>3. KindType' /\ FdsPart' BY <1>1, <1>2 DEF KindType, FSInv, NamesPart, FdsPart, Open
<1> QED BY <1>1, <1>3 DEF FSInv

LEMMA LinkInv == ASSUME FSInv, Link PROVE FSInv'
<1>1. stop = None /\ ~readonly BY DEF Link, Running
<1>2. PICK d, e, n, m :
        /\ Entry(tree, d, n) # None /\ Enter(tree, e, m, Entry(tree, d, n))
        /\ stop' = None => UNCHANGED <<kind, fds, live>>
  BY DEF Link
<1>3. Entry(tree, d, n) \in NewInodes BY <1>1, <1>2, EntryOf
<1> QED BY <1>1, <1>2, <1>3, TreeNow, MovedInv

LEMMA RenameInv == ASSUME FSInv, Rename PROVE FSInv'
<1>1. stop = None /\ ~readonly BY DEF Rename, Running
<1>2. PICK d, n, e, m :
        /\ Entry(tree, d, n) # None /\ Enter(Drop(tree, d, n), e, m, Entry(tree, d, n))
        /\ stop' = None => UNCHANGED <<kind, fds, live>>
  BY DEF Rename
<1>3. Entry(tree, d, n) \in NewInodes BY <1>1, <1>2, EntryOf
<1> DEFINE t == Drop(tree, d, n)
<1>4. /\ IsFiniteSet(DOMAIN t) /\ Cardinality(DOMAIN t) <= entries
      /\ \A x \in DOMAIN t : t[x] \in NewInodes
  BY <1>1, Dropped
<1>5. Enter(t, e, m, Entry(tree, d, n)) BY <1>2
<1> HIDE DEF t
<1> QED BY <1>1, <1>2, <1>3, <1>4, <1>5, MovedInv

LEMMA UnlinkInv == ASSUME FSInv, Unlink PROVE FSInv'
<1>1. ~readonly /\ UNCHANGED <<readonly, kind, size, charged, used, entries, fds, live, stop>>
  BY DEF Unlink
<1>2. PICK d, n : tree' = Drop(tree, d, n) BY DEF Unlink
<1>3. /\ IsFiniteSet(DOMAIN tree') /\ Cardinality(DOMAIN tree') <= entries
      /\ \A x \in DOMAIN tree' : tree'[x] \in NewInodes
  BY <1>1, <1>2, Dropped
<1>4. NamesPart' BY <1>1, <1>3 DEF FSInv, NamesPart
<1>5. BytesPart' /\ FdsPart' BY <1>1, SameBytes DEF FSInv, FdsPart, Open
<1> QED BY <1>1, <1>4, <1>5 DEF FSInv

LEMMA PathOpenInv == ASSUME FSInv, PathOpen PROVE FSInv'
<1>1. stop = None /\ live < MaxFds /\ NewInodes \subseteq Inodes /\ Source \in Inodes
  BY DEF PathOpen, Running, Inodes, Files, Inputs
<1>2. ASSUME NEW d, NEW n, Entry(tree, d, n) # None, Push(Entry(tree, d, n)),
             UNCHANGED <<readonly, kind, tree, size, charged, used, entries, stop>>
      PROVE  FSInv'
  <2>1. Entry(tree, d, n) \in Inodes /\ (readonly => Entry(tree, d, n) \notin NewInodes)
    BY <1>1, <1>2, EntryOf, Apart DEF FSInv
  <2>2. FdsPart' BY <1>1, <1>2, <2>1, PushInv DEF FSInv
  <2>3. BytesPart' /\ NamesPart' BY <1>2, SameBytes DEF FSInv, NamesPart
  <2> QED BY <1>2, <2>2, <2>3 DEF FSInv
<1>3. ASSUME NEW d, NEW n, ~readonly, Entry(tree, d, n) # None, Push(Entry(tree, d, n)),
             SetData(Entry(tree, d, n), 0), UNCHANGED <<readonly, kind, tree, entries, stop>>
      PROVE  FSInv'
  <2> DEFINE i == Entry(tree, d, n)
  <2>1. i \in NewInodes BY <1>3, EntryOf
  <2>2. i \in Files \ Inputs /\ i \in Inodes BY <1>1, <2>1, Apart
  <2>3. FdsPart' BY <1>1, <1>3, <2>2, PushInv DEF FSInv
  <2>4. 0 <= Maximum(BudgetOf(i)) - used[BudgetOf(i)] + size[i]
    <3>1. BudgetOf(i) \in Budgets BY DEF BudgetOf, Budgets
    <3>2. used[BudgetOf(i)] \in Nat /\ used[BudgetOf(i)] <= Maximum(BudgetOf(i)) /\ size[i] \in Nat
          /\ Maximum(BudgetOf(i)) \in Nat
      BY <2>2, <3>1, Bounded DEF FSInv, BytesPart
    <3> QED BY <3>2
  <2>5. BytesPart' BY <1>3, <2>2, <2>4, SetDataInv DEF FSInv
  <2>6. NamesPart' BY <1>3 DEF FSInv, NamesPart
  <2> QED BY <1>3, <2>3, <2>5, <2>6 DEF FSInv
<1>4. ASSUME NEW d, NEW n, ~readonly, CanCreate, Enter(tree, d, n, Fresh),
             stop' = None => Makes("file") /\ Push(Fresh)
      PROVE  FSInv'
  <2>1. Fresh \in NewInodes /\ Fresh \in Inodes BY <1>1, <1>4, FreshInode
  <2>2. /\ BytesPart' /\ readonly' = readonly /\ stop' \in Limits \cup {None}
        /\ stop' # None => UNCHANGED <<kind, fds, live>>
        /\ KindType' => NamesPart'
    BY <1>1, <1>4, <2>1, TreeNow, EnterInv
  <2>3. KindType' BY <1>4, <2>2, MakesKind DEF KindType, FSInv, NamesPart
  <2>4. FdsPart'
    <3>1. CASE stop' = None BY <1>1, <1>4, <2>1, <2>2, <3>1, PushInv DEF FSInv
    <3>2. CASE stop' # None BY <2>2, <3>2 DEF FSInv, FdsPart, Open
    <3> QED BY <3>1, <3>2
  <2> QED BY <2>2, <2>3, <2>4 DEF FSInv
<1> QED BY <1>2, <1>3, <1>4 DEF PathOpen

LEMMA PathTooLongInv == ASSUME FSInv, PathTooLong PROVE FSInv'
<1>1. stop = None /\ stop' = "pathBytes"
      /\ UNCHANGED <<readonly, kind, tree, size, charged, used, fds, live, entries>>
  BY DEF PathTooLong, Running, Exceeds
<1>2. BytesPart' /\ NamesPart' /\ FdsPart'
  <2>1. BytesPart' BY <1>1, SameBytes DEF FSInv
  <2>2. entries <= MaxEntries BY <1>1, EngineAssumption DEF FSInv, NamesPart, Limits
  <2>3. NamesPart' BY <1>1, <2>2 DEF FSInv, NamesPart, Staged
  <2> QED BY <1>1, <2>1, <2>3 DEF FSInv, FdsPart, Open
<1> QED BY <1>1, <1>2 DEF FSInv, Limits

LEMMA CallInv == ASSUME FSInv, Call PROVE FSInv'
BY PathTooLongInv, PathOpenInv, MkdirInv, LinkInv, UnlinkInv, RenameInv, WriteInv, FdsInv DEF Call

LEMMA FSSame == ASSUME FSInv, UNCHANGED fs PROVE FSInv'
BY SameBytes DEF FSInv, NamesPart, FdsPart, Open, fs

-----------------------------------------------------------------------------
(* The names make a forest: every name leads to an inode that was made, and *)
(* no two names to one directory.                                          *)

Forest(t, kinds) ==
  \A x \in DOMAIN t :
    /\ kinds[t[x]] # "free"
    /\ kinds[t[x]] = "dir" => \A y \in DOMAIN t : t[y] = t[x] => y = x

ForestInv == ~readonly => Forest(tree, kind)

LEMMA PutForest ==
  ASSUME NEW t, NEW d, NEW n, NEW i, NEW k, NEW l, Forest(t, k),
         \A x \in DOMAIN t : t[x] # i => l[t[x]] = k[t[x]],
         l[i] # "free", l[i] = "dir" => \A x \in DOMAIN t : t[x] # i
  PROVE  Forest(Put(t, d, n, i), l)
<1> DEFINE p == Put(t, d, n, i)
           e == <<d, n>>
<1>1. /\ DOMAIN p = DOMAIN t \cup {e} /\ p[e] = i
      /\ \A x \in DOMAIN t : x # e => p[x] = t[x]
  BY DEF Put
<1> HIDE DEF p, e
<1>2. ASSUME NEW x \in DOMAIN p
      PROVE  /\ l[p[x]] # "free"
             /\ l[p[x]] = "dir" => \A y \in DOMAIN p : p[y] = p[x] => y = x
  <2>1. CASE x = e BY <1>1, <2>1
  <2>2. CASE x # e
    <3>1. x \in DOMAIN t /\ p[x] = t[x] BY <1>1, <2>2
    <3>2. CASE t[x] = i BY <1>1, <3>1, <3>2
    <3>3. CASE t[x] # i
      <4>1. l[t[x]] = k[t[x]] BY <3>1, <3>3
      <4> QED BY <1>1, <3>1, <3>3, <4>1 DEF Forest
    <3> QED BY <3>2, <3>3
  <2> QED BY <2>1, <2>2
<1>3. Forest(p, l) BY <1>2 DEF Forest
<1> QED BY <1>3 DEF p

LEMMA DropForest ==
  ASSUME NEW t, NEW d, NEW n, NEW k, Forest(t, k)
  PROVE  Forest(Drop(t, d, n), k)
<1>1. DOMAIN Drop(t, d, n) = DOMAIN t \ {<<d, n>>}
      /\ \A x \in DOMAIN Drop(t, d, n) : Drop(t, d, n)[x] = t[x]
  BY DEF Drop
<1> QED BY <1>1 DEF Forest

\* A new file or directory has no name but the one it is made under.
LEMMA MadeForest ==
  ASSUME FSInv, ~readonly, Forest(tree, kind), CanCreate, NEW d, NEW n, Enter(tree, d, n, Fresh),
         NEW what \in {"file", "dir"}, stop = None, stop' = None => Makes(what)
  PROVE  Forest(tree', kind')
<1>1. CASE entries' > MaxEntries
  <2>1. UNCHANGED <<tree, kind>> BY <1>1 DEF Enter, Exceeds
  <2> QED BY <2>1
<1>2. CASE ~(entries' > MaxEntries)
  <2>1. tree' = Put(tree, d, n, Fresh) /\ kind' = [kind EXCEPT ![Fresh] = what]
    BY <1>2 DEF Enter, Makes
  <2>2. Fresh \in NewInodes /\ kind[Fresh] = "free" BY DEF CanCreate, Fresh
  <2>3. Fresh \in DOMAIN kind BY <2>2 DEF FSInv, NamesPart, Inodes, Files
  <2>4. kind'[Fresh] = what /\ \A i : i # Fresh /\ i \in Inodes => kind'[i] = kind[i]
    BY <2>1, <2>3
  <2>5. \A x \in DOMAIN tree : tree[x] # Fresh /\ tree[x] \in Inodes
    BY <2>2, TreeNow DEF Forest, Inodes, Files

  <2>6. kind'[Fresh] # "free" BY <2>4
  <2>7. \A x \in DOMAIN tree : tree[x] # Fresh /\ kind'[tree[x]] = kind[tree[x]] BY <2>4, <2>5
  <2>8. Forest(Put(tree, d, n, Fresh), kind') BY <2>6, <2>7, PutForest
  <2> QED BY <2>1, <2>8
<1> QED BY <1>1, <1>2

\* A name for a file or directory there is already: a directory's old one is gone.
LEMMA NamedForest ==
  ASSUME NEW t, Forest(t, kind), NEW d, NEW n, NEW i, Enter(t, d, n, i), kind[i] # "free",
         kind[i] = "dir" => \A x \in DOMAIN t : t[x] # i, Forest(tree, kind),
         stop = None, stop' = None => UNCHANGED kind
  PROVE  Forest(tree', kind')
<1>1. CASE entries' > MaxEntries
  <2>1. UNCHANGED <<tree, kind>> BY <1>1 DEF Enter, Exceeds
  <2> QED BY <2>1
<1>2. CASE ~(entries' > MaxEntries)
  <2>1. tree' = Put(t, d, n, i) /\ kind' = kind BY <1>2 DEF Enter
  <2> QED BY <2>1, PutForest
<1> QED BY <1>1, <1>2

\* A guest's filesystem is a compiler's or a generator's for as long as it is its.
LEMMA CallKeepsKind == ASSUME Call PROVE readonly' = readonly
<1>1. \A limit : Exceeds(limit) => readonly' = readonly BY DEF Exceeds
<1>2. \A t, d, n, i : Enter(t, d, n, i) => readonly' = readonly BY <1>1 DEF Enter
<1>3. \A f, n : Resize(f, n) => readonly' = readonly BY <1>1 DEF Resize
<1>4. PathOpen => readonly' = readonly BY <1>2 DEF PathOpen
<1>5. Mkdir => readonly' = readonly BY <1>2 DEF Mkdir
<1>6. Link => readonly' = readonly BY <1>2 DEF Link
<1>7. Unlink => readonly' = readonly BY DEF Unlink
<1>8. Rename => readonly' = readonly BY <1>2 DEF Rename
<1>9. Write \/ SetSize => readonly' = readonly BY <1>3 DEF Write, SetSize
<1>10. Close \/ Renumber => readonly' = readonly BY DEF Close, Renumber
<1>11. PathTooLong => readonly' = readonly BY <1>1 DEF PathTooLong
<1> QED BY <1>4, <1>5, <1>6, <1>7, <1>8, <1>9, <1>10, <1>11 DEF Call

LEMMA CallForest == ASSUME FSInv, ForestInv, Call PROVE ForestInv'
<1> SUFFICES ASSUME ~readonly PROVE Forest(tree', kind')
  BY CallKeepsKind DEF ForestInv
<1>1. Forest(tree, kind) BY DEF ForestInv
<1>2. CASE PathOpen
  <2>1. stop = None BY <1>2 DEF PathOpen, Running
  <2>2. UNCHANGED <<tree, kind>> \/ \E d, n : CanCreate /\ Enter(tree, d, n, Fresh) /\ (stop' = None => Makes("file"))
    BY <1>2 DEF PathOpen, SetData
  <2> QED BY <1>1, <2>1, <2>2, MadeForest
<1>3. CASE Mkdir
  <2>1. stop = None /\ CanCreate /\ \E d, n : Enter(tree, d, n, Fresh) /\ (stop' = None => Makes("dir"))
    BY <1>3 DEF Mkdir, Running
  <2> QED BY <1>1, <2>1, MadeForest
<1>4. CASE Link
  <2>1. PICK d, n, e, m :
          /\ Entry(tree, d, n) # None /\ kind[Entry(tree, d, n)] # "dir"
          /\ Enter(tree, e, m, Entry(tree, d, n)) /\ stop = None /\ (stop' = None => UNCHANGED kind)
    BY <1>4 DEF Link, Running, IsDir
  <2>2. kind[Entry(tree, d, n)] # "free" BY <1>1, <2>1, EntryOf DEF Forest
  <2> QED BY <1>1, <2>1, <2>2, NamedForest
<1>5. CASE Unlink
  <2>1. kind' = kind /\ \E d, n : tree' = Drop(tree, d, n) BY <1>5 DEF Unlink
  <2> QED BY <1>1, <2>1, DropForest
<1>6. CASE Rename
  <2>1. PICK d, n, e, m :
          /\ Entry(tree, d, n) # None /\ stop = None /\ (stop' = None => UNCHANGED kind)
          /\ Enter(Drop(tree, d, n), e, m, Entry(tree, d, n))
    BY <1>6 DEF Rename, Running
  <2> DEFINE i == Entry(tree, d, n)
             t == Drop(tree, d, n)
  <2>2. <<d, n>> \in DOMAIN tree /\ i = tree[<<d, n>>] BY <2>1, EntryOf
  <2>3. kind[i] # "free" BY <1>1, <2>2 DEF Forest
  <2>4. kind[i] = "dir" => \A x \in DOMAIN t : t[x] # i
    <3>1. DOMAIN t = DOMAIN tree \ {<<d, n>>} /\ \A x \in DOMAIN t : t[x] = tree[x] BY DEF Drop
    <3> HIDE DEF t, i
    <3> QED BY <1>1, <2>2, <3>1 DEF Forest
  <2>5. Forest(t, kind) BY <1>1, DropForest
  <2>6. Enter(t, e, m, i) BY <2>1
  <2> HIDE DEF t, i
  <2> QED BY <1>1, <2>1, <2>3, <2>4, <2>5, <2>6, NamedForest
<1>7. CASE Write \/ SetSize
  <2>1. UNCHANGED <<tree, kind>> BY <1>7 DEF Write, SetSize, Resize, Exceeds
  <2> QED BY <1>1, <2>1
<1>8. CASE Close \/ Renumber
  <2>1. UNCHANGED <<tree, kind>> BY <1>8 DEF Close, Renumber
  <2> QED BY <1>1, <2>1
<1>9. CASE PathTooLong
  <2>1. UNCHANGED <<tree, kind>> BY <1>9 DEF PathTooLong, Exceeds
  <2> QED BY <1>1, <2>1
<1> QED BY <1>2, <1>3, <1>4, <1>5, <1>6, <1>7, <1>8, <1>9 DEF Call

LEMMA ForestSame == ASSUME ForestInv, UNCHANGED fs PROVE ForestInv'
BY DEF ForestInv, Forest, fs

LEMMA StageForest == ASSUME NEW ro \in BOOLEAN, Stage(ro) PROVE ForestInv'
BY StagedParts DEF Stage, Staged, ForestInv, Forest

-----------------------------------------------------------------------------
(* The walk.                                                               *)

\* Level is defined by recursion: there is a function that is as it says.
LEMMA LevelIs ==
  /\ Depth \in Nat
  /\ Level[0] = {[path |-> << >>, inode |-> Root]}
  /\ \A k \in 1..Depth : Level[k] = UNION {Below(at) : at \in {a \in Level[k - 1] : IsDir(a.inode)}}
<1> DEFINE U == [path : Seq({x[2] : x \in DOMAIN tree}),
                 inode : {tree[x] : x \in DOMAIN tree} \cup {Root}]
           Top == {[path |-> << >>, inode |-> Root]}
           After(L) == UNION {Below(at) : at \in {a \in L : IsDir(a.inode)}}
           G == [L \in SUBSET U |-> After(L)]
           Def(g) == [k \in 0..Depth |-> IF k = 0 THEN Top ELSE After(g[k - 1])]
<1>1. Depth \in Nat BY FS_CardinalityType, ResourceAssumption DEF Depth
<1>2. Top \in SUBSET U OBVIOUS
<1>3. ASSUME NEW L \in SUBSET U PROVE After(L) \in SUBSET U
  <2>1. ASSUME NEW at \in U, NEW x \in DOMAIN tree
        PROVE  [path |-> Append(at.path, x[2]), inode |-> tree[x]] \in U
    <3> DEFINE S == {y[2] : y \in DOMAIN tree}
    <3>1. at.path \in Seq(S) /\ x[2] \in S OBVIOUS
    <3> HIDE DEF S
    <3>2. Append(at.path, x[2]) \in Seq(S) BY <3>1
    <3>3. tree[x] \in {tree[y] : y \in DOMAIN tree} \cup {Root} OBVIOUS
    <3> QED BY <3>2, <3>3 DEF S
  <2> HIDE DEF U
  <2>2. \A at \in U : Below(at) \subseteq U BY <2>1 DEF Below
  <2> QED BY <2>2
<1> HIDE DEF U, Top, After
<1>4. G \in [SUBSET U -> SUBSET U] BY <1>3
<1> HIDE DEF G
<1>5. PICK f \in [0..Depth -> SUBSET U] : f[0] = Top /\ \A k \in 1..Depth : f[k] = G[f[k - 1]]
  <2>1. Iterations(SUBSET U, Top, G, Depth) # {} BY <1>1, <1>2, <1>4, Iterates
  <2> QED BY <2>1 DEF Iterations
<1>6. f = Def(f)
  <2>1. \A k \in 0..Depth : f[k] = IF k = 0 THEN Top ELSE After(f[k - 1])
    <3> SUFFICES ASSUME NEW k \in 0..Depth, k # 0 PROVE f[k] = After(f[k - 1]) BY <1>5
    <3>1. k \in 1..Depth /\ k - 1 \in 0..Depth BY <1>1
    <3>2. f[k] = G[f[k - 1]] /\ f[k - 1] \in SUBSET U BY <1>5, <3>1
    <3> QED BY <3>2 DEF G
  <2> QED BY <2>1
<1>7. Level = CHOOSE g : g = Def(g) BY DEF Level, Top, After
<1> HIDE DEF Def
<1>8. Level = Def(Level) BY <1>6, <1>7
<1>9. Level[0] = Top /\ \A k \in 1..Depth : Level[k] = After(Level[k - 1])
  <2>1. 0 \in 0..Depth /\ \A k \in 1..Depth : k \in 0..Depth /\ k # 0 BY <1>1
  <2> DEFINE F == Level
  <2>2. F = [k \in 0..Depth |-> IF k = 0 THEN Top ELSE After(F[k - 1])] BY <1>8 DEF Def
  <2> HIDE DEF F
  <2>3. F[0] = Top /\ \A k \in 1..Depth : F[k] = After(F[k - 1]) BY <2>1, <2>2
  <2> QED BY <2>3 DEF F
<1> QED BY <1>1, <1>9 DEF Top, After

\* What the walk finds below a level is an entry of a directory of the level.
Via(p, x, a) ==
  /\ IsDir(p.inode) /\ x \in DOMAIN tree /\ x[1] = p.inode
  /\ a = [path |-> Append(p.path, x[2]), inode |-> tree[x]]

LEMMA FoundVia ==
  ASSUME NEW k \in 1..Depth, NEW a \in Level[k]
  PROVE  \E p \in Level[k - 1], x \in DOMAIN tree : Via(p, x, a)
<1>1. a \in UNION {Below(at) : at \in {b \in Level[k - 1] : IsDir(b.inode)}} BY LevelIs
<1>2. PICK p \in Level[k - 1] : IsDir(p.inode) /\ a \in Below(p) BY <1>1
<1> QED BY <1>2 DEF Below, Via

\* A directory is met once.
Once(k) == \A j \in 0..Depth : \A a \in Level[j], b \in Level[k] :
             IsDir(a.inode) /\ a.inode = b.inode => a = b

LEMMA MetOnce ==
  ASSUME ~readonly, FSInv, ForestInv
  PROVE  \A k \in 0..Depth : Once(k)
<1>1. ASSUME NEW k \in 1..Depth, NEW a \in Level[k] PROVE a.inode # Root
  <2>1. PICK p \in Level[k - 1], x \in DOMAIN tree : Via(p, x, a) BY FoundVia
  <2> QED BY <2>1, TreeNow, Apart DEF Via
<1>2. \A a \in Level[0] : a = [path |-> << >>, inode |-> Root] BY LevelIs
<1>3. Depth \in Nat BY LevelIs
<1> DEFINE S == {k \in Nat : k <= Depth => Once(k)}
<1>4. 0 \in S
  <2> SUFFICES ASSUME NEW j \in 0..Depth, NEW a \in Level[j], NEW b \in Level[0], a.inode = b.inode
               PROVE  a = b
      BY DEF Once
  <2>1. j = 0 \/ j \in 1..Depth BY <1>3
  <2> QED BY <1>1, <1>2, <2>1
<1>5. ASSUME NEW k \in S PROVE k + 1 \in S
  <2> SUFFICES ASSUME k + 1 <= Depth, NEW j \in 0..Depth, NEW a \in Level[j], NEW b \in Level[k + 1],
                      IsDir(a.inode), a.inode = b.inode
               PROVE  a = b
      BY DEF Once
  <2>1. k \in Nat /\ Once(k) /\ k + 1 \in 1..Depth /\ (k + 1) - 1 = k BY <1>3
  <2>2. j \in 1..Depth /\ j - 1 \in 0..Depth BY <1>1, <1>2, <1>3, <2>1
  <2>3. PICK p \in Level[j - 1], x \in DOMAIN tree : Via(p, x, a) BY <2>2, FoundVia
  <2>4. PICK q \in Level[k], y \in DOMAIN tree : Via(q, y, b) BY <2>1, FoundVia
  <2>5. tree[x] = tree[y] /\ kind[tree[x]] = "dir" BY <2>3, <2>4 DEF Via, IsDir
  <2>6. x = y BY <2>5 DEF ForestInv, Forest
  <2>7. p = q BY <2>1, <2>2, <2>3, <2>4, <2>6 DEF Once, Via
  <2> QED BY <2>3, <2>4, <2>6, <2>7 DEF Via
<1>6. S = Nat
  <2>1. S \in SUBSET Nat OBVIOUS
  <2> HIDE DEF S
  <2> QED BY <1>4, <1>5, <2>1, SetInduction
<1> QED BY <1>3, <1>6

\* Each entry is found once, through one directory.
LEMMA FoundOnce ==
  ASSUME ~readonly, FSInv, ForestInv
  PROVE  IsFiniteSet(Listing) /\ Cardinality(Listing) <= Cardinality(DOMAIN tree)
<1> DEFINE At(a, x) == \E k \in 1..Depth : \E p \in Level[k - 1] : Via(p, x, a)
           f == [a \in Listing |-> CHOOSE x \in DOMAIN tree : At(a, x)]
<1>1. ASSUME NEW a \in Listing PROVE f[a] \in DOMAIN tree /\ At(a, f[a])
  <2>1. PICK k \in 1..Depth : a \in Level[k] BY DEF Listing
  <2>2. \E x \in DOMAIN tree : At(a, x) BY <2>1, FoundVia
  <2> HIDE DEF At
  <2> QED BY <2>2
<1>2. ASSUME NEW a \in Listing, NEW b \in Listing, f[a] = f[b] PROVE a = b
  <2> HIDE DEF f
  <2>1. PICK j \in 1..Depth : \E p \in Level[j - 1] : Via(p, f[a], a) BY <1>1
  <2>2. PICK p \in Level[j - 1] : Via(p, f[a], a) BY <2>1
  <2>3. PICK k \in 1..Depth : \E q \in Level[k - 1] : Via(q, f[a], b) BY <1>1, <1>2
  <2>4. PICK q \in Level[k - 1] : Via(q, f[a], b) BY <2>3
  <2>5. j - 1 \in 0..Depth /\ k - 1 \in 0..Depth BY LevelIs
  <2>6. p = q BY <2>2, <2>4, <2>5, MetOnce DEF Once, Via
  <2> QED BY <2>2, <2>4, <2>6 DEF Via
<1>3. f \in Injection(Listing, DOMAIN tree)
  <2>1. f \in [Listing -> DOMAIN tree] BY <1>1
  <2> HIDE DEF f
  <2> QED BY <1>2, <2>1 DEF Injection, IsInjective
<1> HIDE DEF f
<1> QED BY <1>3, TreeNow, FS_Injection

LEMMA Agrees == ASSUME FSInv, ForestInv PROVE WalkAgrees
<1> SUFFICES ASSUME ~readonly, stop = None PROVE CollectFails \cap {"cycle", "outputEntries"} = {}
    BY DEF WalkAgrees
<1>1. ~\E a, b \in Listing : a # b /\ a.inode = b.inode /\ IsDir(a.inode)
  <2> SUFFICES ASSUME NEW a \in Listing, NEW b \in Listing, a.inode = b.inode, IsDir(a.inode)
               PROVE  a = b
      OBVIOUS
  <2>1. PICK j \in 1..Depth : a \in Level[j] BY DEF Listing
  <2>2. PICK k \in 1..Depth : b \in Level[k] BY DEF Listing
  <2>3. j \in 0..Depth /\ k \in 0..Depth BY LevelIs
  <2> QED BY <2>1, <2>2, <2>3, MetOnce DEF Once
<1>2. ~(Cardinality(Listing) > MaxEntries)
  <2>1. Cardinality(Listing) <= Cardinality(DOMAIN tree) /\ Cardinality(Listing) \in Nat
    BY FoundOnce, FS_CardinalityType
  <2>2. Cardinality(DOMAIN tree) <= entries /\ Cardinality(DOMAIN tree) \in Nat
    BY TreeNow, FS_CardinalityType
  <2>3. entries \in Nat /\ entries <= MaxEntries BY EngineAssumption DEF FSInv, NamesPart, Limits
  <2> QED BY <2>1, <2>2, <2>3, ResourceAssumption
<1> QED BY <1>1, <1>2 DEF CollectFails

-----------------------------------------------------------------------------
(* What crosses the wire.                                                  *)

\* A cause chain within the depths of the protocol.
Causes == {"CommandError", "LimitError"} \cup Traps
Chain(cause) == cause \in Seq(Causes) /\ Len(cause) <= 2

\* What is left of a chain on the other side: its Errors' names.
Crossed(cause) == [i \in DOMAIN cause |-> IF cause[i] = "value" THEN "Error" ELSE cause[i]]

LEMMA CauseCrosses ==
  ASSUME NEW cause, Chain(cause)
  PROVE  /\ P!Restore(P!Summarize(cause)) = Crossed(cause)
         /\ Len(Crossed(cause)) = Len(cause)
<1>1. cause \in Seq(Causes) /\ Len(cause) \in Nat /\ Len(cause) <= 2 BY DEF Chain
<1>2. SubSeq(cause, 1, Len(cause)) = cause BY <1>1, SubSeqFull
<1>3. P!Summarize(cause) = Crossed(cause)
  BY <1>1, <1>2 DEF P!Summarize, P!CauseDepth, Crossed
<1>4. Crossed(cause) \in Seq(Causes \cup {"Error"}) /\ Len(Crossed(cause)) = Len(cause)
  <2> DEFINE n == Len(cause)
             A == Causes \cup {"Error"}
             x == Crossed(cause)
  <2>1. n \in Nat /\ DOMAIN cause = 1..n /\ \A i \in 1..n : cause[i] \in A BY <1>1
  <2>2. x = [i \in 1..n |-> IF cause[i] = "value" THEN "Error" ELSE cause[i]] BY <2>1 DEF Crossed
  <2>3. "Error" \in A OBVIOUS
  <2> HIDE DEF A, x, n
  <2>4. x \in [1..n -> A] BY <2>1, <2>2, <2>3
  <2>5. x \in Seq(A) /\ Len(x) = n BY <2>1, <2>4
  <2> QED BY <2>5 DEF A, x, n
<1>5. SubSeq(Crossed(cause), 1, Len(Crossed(cause))) = Crossed(cause) BY <1>4, SubSeqFull
<1>6. P!Restore(Crossed(cause)) = Crossed(cause) BY <1>1, <1>4, <1>5 DEF P!Restore, P!DecodeDepth
<1> QED BY <1>3, <1>4, <1>6

\* A CompileError the engine throws comes back as it was: its kind, the budget
\* it names, its stage, its diagnostics and what crosses of its causes.
LEMMA ErrorCrosses ==
  ASSUME NEW stage, NEW diags, NEW code, NEW why, NEW limit, NEW cause, Chain(cause),
         why \in {None, "limit", "trap", "protocol"}, limit \in Limits \cup {None}
  PROVE  P!Decode(P!Encode(P!CompileError(stage, diags, code, why, limit, cause)), Limits) =
           P!CompileError(stage, diags, code, why, limit, Crossed(cause))
<1> DEFINE e == P!CompileError(stage, diags, code, why, limit, cause)
           kd == IF why # None THEN why ELSE IF code = None THEN "trap" ELSE "exit"
<1>1. e = [class |-> "CompileError", name |-> "CompileError", cause |-> cause, stage |-> stage,
           diagnostics |-> diags, exitCode |-> code, limit |-> limit, kind |-> kd]
  BY DEF P!CompileError
<1>2. kd \in P!FailureKinds /\ kd # None BY EngineAssumption DEF P!FailureKinds
<1>3. P!CompileError(stage, diags, code, kd, limit, Crossed(cause)) =
        P!CompileError(stage, diags, code, why, limit, Crossed(cause))
  BY <1>2 DEF P!CompileError
<1> HIDE DEF kd
<1>4. P!Encode(e) = [kind |-> "compile", name |-> None, stage |-> stage, diagnostics |-> diags,
                     exitCode |-> code, failure |-> kd, limit |-> limit,
                     cause |-> P!Summarize(cause)]
  <2> DEFINE w == [kind |-> "compile", name |-> None, stage |-> None, diagnostics |-> << >>,
                   exitCode |-> None, failure |-> None, limit |-> None, cause |-> P!Summarize(cause)]
  <2>1. e.class = "CompileError" /\ e.stage = stage /\ e.diagnostics = diags /\ e.exitCode = code
        /\ e.kind = kd /\ e.limit = limit /\ e.cause = cause
    BY <1>1
  <2> HIDE DEF e
  <2>2. P!Encode(e) = [w EXCEPT !.stage = stage, !.diagnostics = diags, !.exitCode = code,
                                !.failure = kd, !.limit = limit]
    BY <2>1 DEF P!Encode
  <2> QED BY <2>2
<1> HIDE DEF e
<1>5. P!Decode(P!Encode(e), Limits) =
        P!CompileError(stage, diags, code, IF kd \in P!FailureKinds THEN kd ELSE None,
                       IF limit \in Limits THEN limit ELSE None, P!Restore(P!Summarize(cause)))
  BY <1>4 DEF P!Decode
<1>6. (IF limit \in Limits THEN limit ELSE None) = limit OBVIOUS
<1>7. P!Decode(P!Encode(e), Limits) = P!CompileError(stage, diags, code, kd, limit, Crossed(cause))
  BY <1>2, <1>5, <1>6, CauseCrosses
<1> QED BY <1>3, <1>7 DEF e

LEMMA CancelledCrosses ==
  ASSUME NEW reason \in Reasons
  PROVE  P!Decode(P!Encode(Cancelled(reason)), Limits) = Cancelled(reason)
<1> DEFINE e == Cancelled(reason)
<1>1. e = [class |-> "DOMException", name |-> reason, cause |-> << >>, stage |-> None,
           diagnostics |-> << >>, exitCode |-> None, kind |-> None, limit |-> None]
  BY DEF Cancelled, P!Thrown
<1>2. e.class = "DOMException" /\ e.name = reason /\ reason \in {"TimeoutError", "AbortError"}
  BY <1>1 DEF Reasons
<1> HIDE DEF e
<1>3. P!Encode(e) = [kind |-> "cancel", name |-> reason, stage |-> None, diagnostics |-> << >>,
                     exitCode |-> None, failure |-> None, limit |-> None, cause |-> << >>]
  BY <1>2 DEF P!Encode
<1>4. P!Decode(P!Encode(e), Limits) = P!Thrown("DOMException", reason, << >>)
  BY <1>2, <1>3 DEF P!Decode
<1> QED BY <1>4 DEF e, Cancelled

-----------------------------------------------------------------------------
(* The engine.                                                             *)

\* A guest runs in the stage its filesystem was made for; a budget is reported
\* only with the end of the job.
JobInv ==
  /\ job \in Seq(StageNames) /\ outputs \subseteq Languages /\ due \subseteq Reasons
  /\ phase \in {"between", "guest", "over"} /\ exceeded \in Limits \cup {None}
  /\ phase # "over" => exceeded = None
  /\ phase = "guest" => job # << >> /\ readonly = (Head(job) = "compiler")

IInv == FSInv /\ ForestInv /\ JobInv

LEMMA InitInv == Init => IInv
<1> SUFFICES ASSUME Init PROVE IInv OBVIOUS
<1>1. FSInv BY InitInvFS DEF Init
<1>2. ForestInv BY InitInvFS DEF Init, ForestInv
<1>3. JobInv BY EngineAssumption DEF Init, JobInv
<1> QED BY <1>1, <1>2, <1>3 DEF IInv

LEMMA GoneInv == ASSUME Gone PROVE FSInv' /\ ForestInv' /\ exceeded' = stop
BY StageInv, StageForest, TRUE \in BOOLEAN DEF Gone

LEMMA StepInv == ASSUME IInv, Next PROVE IInv'
<1>1. CASE Begin
  <2>1. CASE UNCHANGED <<fs, due>> /\ phase' = "over"
    <3>1. FSInv' /\ ForestInv' BY <2>1, FSSame, ForestSame DEF IInv
    <3>2. UNCHANGED <<job, outputs, due, exceeded>>
      <4>1. "over" # "guest" OBVIOUS
      <4> QED BY <1>1, <2>1, <4>1 DEF Begin, Rejects
    <3>3. JobInv' BY <2>1, <3>2 DEF IInv, JobInv
    <3> QED BY <3>1, <3>3 DEF IInv
  <2>2. CASE phase' = "guest" /\ Stage(Head(job) = "compiler")
    <3>1. job # << >> /\ UNCHANGED <<job, outputs, due, exceeded>> /\ phase = "between"
      <4>1. "over" # "guest" OBVIOUS
      <4> QED BY <1>1, <2>2, <4>1 DEF Begin, Rejects
    <3>2. FSInv' /\ ForestInv' /\ readonly' = (Head(job) = "compiler")
      <4> DEFINE ro == (Head(job) = "compiler")
      <4>1. ro \in BOOLEAN OBVIOUS
      <4>2. Stage(ro) BY <2>2
      <4> HIDE DEF ro
      <4>3. FSInv' /\ ForestInv' /\ readonly' = ro BY <4>1, <4>2, StageInv, StageForest
      <4> QED BY <4>3 DEF ro
    <3>3. JobInv' BY <2>2, <3>1, <3>2 DEF IInv, JobInv
    <3> QED BY <3>2, <3>3 DEF IInv
  <2> QED BY <1>1, <2>1, <2>2 DEF Begin, Rejects
<1>2. CASE GuestCalls
  <2>1. FSInv' /\ ForestInv' BY <1>2, CallInv, CallForest DEF GuestCalls, IInv
  <2>2. readonly' = readonly BY <1>2, CallKeepsKind DEF GuestCalls
  <2>3. JobInv' BY <1>2, <2>2 DEF GuestCalls, engine, IInv, JobInv
  <2> QED BY <1>2, <2>1, <2>3 DEF IInv, GuestCalls
<1>3. CASE Cancel
  <2>1. FSInv' /\ ForestInv' BY <1>3, FSSame, ForestSame DEF Cancel, IInv
  <2>2. due' \subseteq Reasons BY <1>3 DEF Cancel, IInv, JobInv
  <2>3. JobInv' BY <1>3, <2>2 DEF Cancel, engine, fs, IInv, JobInv
  <2> QED BY <2>1, <2>3 DEF IInv
<1>4. CASE GuestCancelled \/ GuestFails \/ GuestExits
  <2>1. Gone /\ phase' = "over" /\ UNCHANGED <<job, outputs>> /\ due' \subseteq Reasons
    BY <1>4 DEF GuestCancelled, GuestFails, GuestExits, Fails, Rejects, IInv, JobInv
  <2>2. FSInv' /\ ForestInv' /\ exceeded' = stop BY <2>1, GoneInv
  <2>3. JobInv' BY <2>1, <2>2 DEF IInv, JobInv, FSInv
  <2> QED BY <2>1, <2>2, <2>3 DEF IInv
<1>5. CASE GuestReturns
  <2>1. /\ phase = "guest" /\ stop = None /\ Gone
        /\ \/ phase' = "over" /\ UNCHANGED <<job, outputs, due>>
           \/ /\ phase' = "between" /\ job' = Tail(job) /\ UNCHANGED due
              /\ outputs' = outputs \cup (IF readonly THEN {} ELSE {Head(job)})
    BY <1>5 DEF GuestReturns, Fails, Rejects
  <2>2. FSInv' /\ ForestInv' /\ exceeded' = None BY <2>1, GoneInv
  <2>3. job \in Seq(StageNames) /\ job # << >> /\ readonly = (Head(job) = "compiler")
    BY <2>1 DEF IInv, JobInv
  <2>4. Tail(job) \in Seq(StageNames) /\ Head(job) \in StageNames BY <2>3
  <2>5. ~readonly => Head(job) \in Languages BY <2>3, <2>4 DEF StageNames
  <2>6. JobInv' BY <2>1, <2>2, <2>4, <2>5 DEF IInv, JobInv
  <2> QED BY <2>1, <2>2, <2>6 DEF IInv
<1>6. CASE Answer
  <2>1. FSInv' /\ ForestInv' BY <1>6, FSSame, ForestSame DEF Answer, IInv
  <2>2. JobInv' BY <1>6 DEF Answer, IInv, JobInv
  <2> QED BY <1>6, <2>1, <2>2 DEF IInv, Answer
<1> QED BY <1>1, <1>2, <1>3, <1>4, <1>5, <1>6 DEF Next

LEMMA NextInv == IInv /\ [Next]_vars => IInv'
<1> SUFFICES ASSUME IInv, UNCHANGED vars PROVE IInv' BY StepInv
<1>1. FSInv' /\ ForestInv' BY FSSame, ForestSame DEF IInv, vars
<1>2. JobInv' BY DEF IInv, JobInv, vars, engine, fs
<1> QED BY <1>1, <1>2 DEF IInv

LEMMA Invariance == Spec => []IInv
BY InitInv, NextInv, PTL DEF Spec

-----------------------------------------------------------------------------
(* Errors.                                                                 *)

LEMMA CancelledHonest ==
  ASSUME NEW stage, NEW reason \in Reasons, NEW reasons, reason \in reasons
  PROVE  Honest(Cancelled(reason), stage, None, reasons)
<1> DEFINE e == Cancelled(reason)
<1>1. e.class = "DOMException" /\ e.kind = None /\ e.limit = None /\ e.exitCode = None
      /\ e.name = reason /\ e.cause = << >> /\ [e EXCEPT !.cause = e.cause] = e
  BY DEF Cancelled, P!Thrown
<1>2. P!Decode(P!Encode(e), Limits) = e BY CancelledCrosses
<1> HIDE DEF e
<1>3. Honest(e, stage, None, reasons)
  BY <1>1, <1>2, EngineAssumption DEF Honest
<1> QED BY <1>3 DEF e

\* A CompileError is honest if its budget is named with its kind, and is the
\* one exceeded or one only the collection of a generator's files meets.
LEMMA ErrorHonest ==
  ASSUME NEW stage, NEW diags, NEW code \in {None, 1}, NEW why \in {None, "limit", "trap", "protocol"},
         NEW limit \in Limits \cup {None}, NEW cause, Chain(cause), NEW over \in Limits \cup {None},
         NEW reasons, why = "limit" <=> limit # None, code = 1 => why = None,
         over # None => limit = over,
         over = None /\ limit # None => limit \in {"outputBytes", "pathBytes"} /\ stage # "compiler"
  PROVE  Honest(P!CompileError(stage, diags, code, why, limit, cause), stage, over, reasons)
<1> DEFINE e == P!CompileError(stage, diags, code, why, limit, cause)
           got == P!CompileError(stage, diags, code, why, limit, Crossed(cause))
<1>1. None # 1 BY ResourceAssumption
<1>2. /\ e.class = "CompileError" /\ e.stage = stage /\ e.limit = limit /\ e.exitCode = code
      /\ e.kind = IF why # None THEN why ELSE IF code = None THEN "trap" ELSE "exit"
      /\ e.cause = cause
  BY DEF P!CompileError
<1>3. P!Decode(P!Encode(e), Limits) = got BY ErrorCrosses
<1>4. [got EXCEPT !.cause = cause] = e /\ got.cause = Crossed(cause) BY DEF P!CompileError
<1> HIDE DEF e, got
<1>5. /\ [got EXCEPT !.cause = e.cause] = e /\ Len(got.cause) = Len(e.cause)
      /\ \A i \in DOMAIN e.cause : got.cause[i] = IF e.cause[i] = "value" THEN "Error" ELSE e.cause[i]
  BY <1>2, <1>4, CauseCrosses DEF Crossed
<1>6. e.kind = "limit" <=> limit # None BY <1>2, EngineAssumption
<1>7. Honest(e, stage, over, reasons) BY <1>1, <1>2, <1>3, <1>5, <1>6, EngineAssumption DEF Honest
<1> QED BY <1>7 DEF e

\* What ends a job in an error, for any guest.
LEMMA FailsHonest ==
  ASSUME IInv, NEW code \in {None, 1}, NEW why \in {None, "limit", "trap", "protocol"},
         NEW limit \in Limits \cup {None}, NEW cause, Chain(cause), Fails(code, why, limit, cause),
         why = "limit" <=> limit # None, code = 1 => why = None,
         stop # None => limit = stop,
         stop = None /\ limit # None => limit \in {"outputBytes", "pathBytes"} /\ Head(job) # "compiler"
  PROVE  FailureNamesCause'
<1>1. /\ reply' = P!CompileError(Head(job), diagnostics', code, why, limit, cause)
      /\ job' = job /\ exceeded' = stop
  BY GoneInv DEF Fails, Rejects
<1> DEFINE e == P!CompileError(Head(job), diagnostics', code, why, limit, cause)
<1>2. stop \in Limits \cup {None} BY DEF IInv, FSInv
<1>3. Honest(e, Head(job), stop, due') BY <1>2, ErrorHonest
<1> HIDE DEF e
<1>4. reply' = e /\ job' = job /\ exceeded' = stop BY <1>1 DEF e
<1> QED BY <1>3, <1>4 DEF FailureNamesCause, Thrown, Honest

LEMMA Chains ==
  /\ Chain(<< >>)
  /\ \A x \in {"LimitError"} \cup Traps : Chain(<<"CommandError", x>>)
<1>1. Chain(<< >>)
  <2>1. << >> \in Seq(Causes) /\ Len(<< >>) = 0 OBVIOUS
  <2> QED BY <2>1 DEF Chain
<1>2. ASSUME NEW x \in {"LimitError"} \cup Traps PROVE Chain(<<"CommandError", x>>)
  <2>1. x \in Causes /\ "CommandError" \in Causes BY DEF Causes
  <2> HIDE DEF Causes
  <2>2. <<"CommandError", x>> \in Seq(Causes) /\ Len(<<"CommandError", x>>) = 2 BY <2>1
  <2> QED BY <2>2 DEF Chain
<1> QED BY <1>1, <1>2

\* A cancellation has one of the reasons that were due.
LEMMA RejectedHonest ==
  ASSUME NEW reason \in Reasons, reply' = Cancelled(reason), reason \in due', exceeded' = None
  PROVE  FailureNamesCause'
<1>1. Honest(Cancelled(reason), Head(job'), None, due') BY CancelledHonest
<1> QED BY <1>1 DEF FailureNamesCause

LEMMA GuestFailsHonest == ASSUME IInv, GuestFails PROVE FailureNamesCause'
<1>1. PICK cause \in IF stop # None THEN {stop} ELSE Traps \cup Collect :
        Fails(None, IF cause \in Limits THEN "limit" ELSE "trap",
              IF cause \in Limits THEN cause ELSE None, <<"CommandError", NameOf(cause)>>)
  BY DEF GuestFails
<1>2. stop \in Limits \cup {None} /\ phase = "guest" BY DEF GuestFails, IInv, FSInv
<1>3. Collect \subseteq {"name", "pathBytes", "outputBytes"} \/ stop # None
  BY Agrees DEF IInv, Collect, CollectFails, WalkAgrees
<1>4. readonly => Collect = {} BY DEF Collect
<1>5. readonly = (Head(job) = "compiler") BY <1>2 DEF IInv, JobInv
<1>6. NameOf(cause) \in {"LimitError"} \cup Traps BY DEF NameOf, Traps
<1>7. Chain(<<"CommandError", NameOf(cause)>>) BY <1>6, Chains
<1> DEFINE limit == IF cause \in Limits THEN cause ELSE None
           why == IF cause \in Limits THEN "limit" ELSE "trap"
           chain == <<"CommandError", NameOf(cause)>>
<1>8. limit \in Limits \cup {None} /\ why \in {None, "limit", "trap", "protocol"}
      /\ (why = "limit" <=> limit # None)
  BY EngineAssumption
<1>9. stop # None => limit = stop BY <1>1, <1>2
<1>10. ASSUME stop = None, limit # None
       PROVE  limit \in {"outputBytes", "pathBytes"} /\ Head(job) # "compiler"
  <2>1. cause \in Limits BY <1>10
  <2>2. cause \notin Traps /\ cause # "name" BY <2>1 DEF Traps, Limits
  <2>3. cause \in Collect BY <1>1, <1>10, <2>2
  <2> QED BY <1>3, <1>4, <1>5, <1>10, <2>1, <2>2, <2>3
<1>11. Fails(None, why, limit, chain) /\ Chain(chain) BY <1>1, <1>7
<1> HIDE DEF limit, why, chain
<1> QED BY <1>8, <1>9, <1>10, <1>11, FailsHonest, ResourceAssumption

LEMMA NamesInv == FailureNamesCause /\ IInv /\ [Next]_vars => FailureNamesCause'
<1> SUFFICES ASSUME FailureNamesCause, IInv, [Next]_vars PROVE FailureNamesCause' OBVIOUS
<1>1. CASE UNCHANGED vars
  BY <1>1 DEF FailureNamesCause, Thrown, Honest, vars, engine
<1>2. CASE Begin
  <2>1. CASE phase' = "guest" BY <2>1 DEF FailureNamesCause, Thrown
  <2>2. CASE due # {} /\ UNCHANGED due
             /\ reply' = Cancelled(IF "AbortError" \in due THEN "AbortError" ELSE "TimeoutError")
    <3> DEFINE reason == IF "AbortError" \in due THEN "AbortError" ELSE "TimeoutError"
    <3>1. reason \in due /\ reason \in Reasons BY <2>2 DEF IInv, JobInv, Reasons
    <3>2. exceeded' = None BY <1>2 DEF Begin, IInv, JobInv
    <3>3. reply' = Cancelled(reason) /\ due' = due BY <2>2
    <3> HIDE DEF reason
    <3> QED BY <3>1, <3>2, <3>3, RejectedHonest
  <2> QED BY <1>2, <2>1, <2>2 DEF Begin, Rejects
<1>3. CASE GuestCalls \/ Cancel
  BY <1>3 DEF GuestCalls, Cancel, engine, FailureNamesCause, Thrown
<1>4. CASE GuestCancelled
  <2>1. PICK reason \in Reasons : due' = {reason} /\ reply' = Cancelled(reason)
    BY <1>4 DEF GuestCancelled, Rejects
  <2>2. exceeded' = None BY <1>4, GoneInv DEF GuestCancelled
  <2> QED BY <2>1, <2>2, RejectedHonest
<1>5. CASE GuestFails BY <1>5, GuestFailsHonest
<1>6. CASE GuestExits
  <2>1. Fails(1, None, None, << >>) /\ stop = None BY <1>6 DEF GuestExits
  <2>2. None # "limit" BY EngineAssumption
  <2> QED BY <2>1, <2>2, Chains, FailsHonest
<1>7. CASE GuestReturns
  <2>1. CASE Fails(None, "protocol", None, << >>)
    <3>1. stop = None /\ None # 1 BY <1>7, ResourceAssumption DEF GuestReturns
    <3> QED BY <2>1, <3>1, Chains, FailsHonest
  <2>2. CASE phase' = "between" BY <2>2 DEF FailureNamesCause, Thrown
  <2> QED BY <1>7, <2>1, <2>2 DEF GuestReturns
<1>8. CASE Answer
  <2>1. DOMAIN reply' = {"outputs", "diagnostics"} BY <1>8 DEF Answer
  <2> QED BY <2>1 DEF FailureNamesCause, Thrown
<1> QED BY <1>1, <1>2, <1>3, <1>4, <1>5, <1>6, <1>7, <1>8 DEF Next

-----------------------------------------------------------------------------
(* The theorems.                                                           *)

\* The variables keep their types.
THEOREM TypesAreKept == Spec => []TypeOK
<1>1. IInv => TypeOK
  <2> SUFFICES ASSUME IInv PROVE TypeOK OBVIOUS
  <2>1. size \in [Files -> Nat] BY Bounded DEF IInv, FSInv, BytesPart
  <2> QED BY <2>1 DEF IInv, FSInv, BytesPart, NamesPart, FdsPart, JobInv, TypeOK
<1> QED BY <1>1, Invariance, PTL

\* What the host counts is what the guest holds, within every budget, after any
\* sequence of calls and for any number of names, files and descriptors
\* (ByteBudget.attach, boundFilesystem and boundWasiIO in resource-fs.ts).
THEOREM ResourcesAreExact == Spec => []ResourcesExact
<1>1. IInv => ResourcesExact
  BY DEF IInv, FSInv, BytesPart, NamesPart, FdsPart, ResourcesExact
<1> QED BY <1>1, Invariance, PTL

\* No call changes what a guest was given, nor a compiler's filesystem.
THEOREM InputsAreKept == Spec => []InputsKept
<1>1. IInv => InputsKept
  BY DEF IInv, FSInv, BytesPart, NamesPart, InputsKept
<1> QED BY <1>1, Invariance, PTL

\* The walk over a generator's files never refuses what the budgets let the guest
\* make: no directory is met twice, whatever was linked, moved or removed, and
\* every name the walk counts was counted when it was made (collectFiles in
\* runtime.ts, boundFilesystem in resource-fs.ts).
THEOREM WalksAgree == Spec => []WalkAgrees
<1>1. IInv => WalkAgrees BY Agrees DEF IInv
<1> QED BY <1>1, Invariance, PTL

\* An error tells the stage that ran and the budget exceeded, and no other, and
\* reaches the client of a worker as it was thrown, but for a cause that is no
\* Error and becomes one on the way (execute in engine.ts, encodeError,
\* summarize and decodeError in protocol.ts).
THEOREM FailuresAreHonest == Spec => []FailureNamesCause
<1>1. Init => FailureNamesCause BY DEF Init, FailureNamesCause, Thrown
<1> QED BY <1>1, NamesInv, Invariance, PTL DEF Spec
===============================================================================
