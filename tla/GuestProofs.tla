----------------------------- MODULE GuestProofs -----------------------------
(***************************************************************************)
(* Theorems about Guest, for any valid programs, poll interval and stack.  *)
(*                                                                         *)
(* First the host's side of a stop, whatever the guest's code does (IInv). *)
(* Then what the code does: how the rewriter lays out a body (Laid), which *)
(* places of it stand for which place of the original (Match), and that    *)
(* the frames of the guest stand for those of its ghost after every step   *)
(* (Sim).  With it the guest executes what its caller's module would       *)
(* (Faithful), and a stop is in force at the next poll (HaltsAtOnce).      *)
(* That a stopped guest comes to an end stays with TLC: it is liveness.    *)
(***************************************************************************)
EXTENDS Guest, FiniteSetTheorems, WellFoundedInduction, TLAPS

\* A refusal before an exit comes with the stop that will be reported, and a
\* thread sleeps only while no stop is recorded.
IInv ==
  /\ TypeOK
  /\ "refused" \in answers => stop \in {"cancel", "failure"}
  /\ nap # None => stop = None

LEMMA InitInv == Init => IInv
BY GuestAssumption DEF Init, IInv, TypeOK, Stops, Reasons, Naps

-----------------------------------------------------------------------------
(* What the host's operators do to the variables the invariant is about.   *)

LEMMA ReasonType ==
  ASSUME TypeOK
  PROVE  Reason \in Reasons \cup {None} /\ (Cancelled => Reason \in Reasons)
BY GuestAssumption DEF TypeOK, Reason, Cancelled, Reasons

\* An import's answer, the first stop staying.
LEMMA AnswerKeeps ==
  ASSUME IInv, nap = None, NEW f, Answer(f)
  PROVE  /\ stop' \in Stops \cup {None} /\ reason' \in Reasons \cup {None}
         /\ answers' \subseteq {"acted", "refused"}
         /\ "refused" \in answers' => stop' \in {"cancel", "failure"}
         /\ stop # None => stop' = stop /\ ActsNothing
<1>1. CASE stop # None
  <2>1. stop' = stop /\ reason' = reason
        /\ answers' = IF stop = "exit" THEN answers ELSE answers \cup {"refused"}
    BY <1>1 DEF Answer
  <2>2. stop \in Stops BY <1>1 DEF IInv, TypeOK
  <2> QED BY <2>1, <2>2 DEF IInv, TypeOK, Stops, ActsNothing
<1>2. CASE stop = None
  <2>1. CASE /\ Cancelled /\ reason' = Reason /\ Halt("cancel")
             /\ answers' = answers \cup {"refused"}
    <3>1. stop' = "cancel" BY <1>2, <2>1 DEF Halt
    <3> QED BY <1>2, <2>1, <3>1, ReasonType DEF IInv, TypeOK, Stops
  <2>2. CASE /\ Halt("failure") /\ answers' = answers \cup {"refused"}
             /\ UNCHANGED reason
    <3>1. stop' = "failure" BY <1>2, <2>2 DEF Halt
    <3> QED BY <1>2, <2>2, <3>1 DEF IInv, TypeOK, Stops
  <2>3. CASE /\ ~Cancelled /\ UNCHANGED reason
             /\ IF f = code.exit THEN Halt("exit") /\ UNCHANGED answers
                ELSE answers' = answers \cup {"acted"} /\ UNCHANGED <<stop, countdown>>
    <3>1. "refused" \notin answers BY <1>2, GuestAssumption DEF IInv, Stops
    <3>2. stop' \in {"exit", None} BY <1>2, <2>3 DEF Halt
    <3>3. answers' \in {answers, answers \cup {"acted"}} BY <2>3
    <3> QED BY <1>2, <2>3, <3>1, <3>2, <3>3 DEF IInv, TypeOK, Stops
  <2> QED BY <1>2, <2>1, <2>2, <2>3 DEF Answer
<1> QED BY <1>1, <1>2

\* A poll from the guest's code; it acts on nothing.
LEMMA PollKeeps ==
  ASSUME IInv, NEW rest, Poll(rest)
  PROVE  /\ stop' \in Stops \cup {None} /\ reason' \in Reasons \cup {None}
         /\ trapped' \in BOOLEAN
         /\ stop # None => stop' = stop
<1>1. CASE stop # None
  BY <1>1 DEF Poll, Trap, IInv, TypeOK
<1>2. CASE stop = None /\ Cancelled /\ reason' = Reason /\ Halt("cancel") /\ Trap
  <2>1. stop' = "cancel" BY <1>2 DEF Halt
  <2> QED BY <1>2, <2>1, ReasonType DEF IInv, Trap, Stops
<1>3. CASE stop = None /\ Halt("failure") /\ Trap /\ UNCHANGED reason
  <2>1. stop' = "failure" BY <1>3 DEF Halt
  <2> QED BY <1>3, <2>1 DEF IInv, TypeOK, Trap, Stops
<1>4. CASE UNCHANGED <<stop, reason, ghost, trapped>>
  BY <1>4 DEF IInv, TypeOK
<1> QED BY <1>1, <1>2, <1>3, <1>4 DEF Poll

\* Steps that leave the host's side of the run as it is.
LEMMA Kept ==
  ASSUME IInv,
         UNCHANGED <<static, known, stop, answers>>,
         phase' \in {"instantiate", "start", "main", "over"}, trapped' \in BOOLEAN,
         {cell', late', notified'} \subseteq BOOLEAN, reason' \in Reasons \cup {None},
         nap' \in Naps \cup {None}, nap' # None => stop = None
  PROVE  IInv'
BY DEF IInv, TypeOK, static

-----------------------------------------------------------------------------
(* Every step.  What it keeps of the stop protocol is stated with the      *)
(* invariant, since the same cases give both.                              *)

StopKept == stop # None => stop' = stop /\ StartsNothing /\ ActsNothing

LEMMA CodeSteps ==
  ASSUME IInv,
         \/ RunCheck \/ RunCharge \/ RunUnreachable \/ RunAddedReturn \/ RunThunk
         \/ RunLocal \/ RunCall
  PROVE  IInv' /\ StopKept
<1>1. CASE RunCheck \/ RunCharge
  <2>1. /\ UNCHANGED <<static, host, phase, known, answers, nap>>
        /\ (\E rest : Poll(rest)) \/ UNCHANGED <<stop, reason, ghost, trapped>>
    BY <1>1 DEF RunCheck, RunCharge, Charge
  <2>2. CASE \E rest : Poll(rest)
    <3>1. PICK rest : Poll(rest) BY <2>2
    <3>2. /\ stop' \in Stops \cup {None} /\ reason' \in Reasons \cup {None}
          /\ trapped' \in BOOLEAN
          /\ stop # None => stop' = stop
      BY <3>1, PollKeeps
    <3>3. nap = None BY <1>1 DEF RunCheck, RunCharge, Executing
    <3>4. UNCHANGED <<static, host, phase, known, answers, nap>> BY <2>1
    <3>5. TypeOK' BY <3>2, <3>4 DEF IInv, TypeOK, static, host
    <3>6. "refused" \in answers' => stop' \in {"cancel", "failure"}
      BY <3>2, <3>4, GuestAssumption DEF IInv, Stops
    <3> QED BY <3>2, <3>3, <3>4, <3>5, <3>6
        DEF IInv, StopKept, StartsNothing, ActsNothing
  <2>3. CASE UNCHANGED <<stop, reason, ghost, trapped>>
    <3>1. IInv' BY <2>1, <2>3, Kept DEF IInv, TypeOK, static, host
    <3> QED BY <2>1, <2>3, <3>1 DEF StopKept, StartsNothing, ActsNothing
  <2> QED BY <2>1, <2>2, <2>3
<1>2. CASE RunUnreachable \/ RunAddedReturn \/ RunThunk \/ RunLocal \/ RunCall
  <2>1. UNCHANGED <<static, host, phase, known, answers, nap, stop, reason>>
    BY <1>2 DEF RunUnreachable, RunAddedReturn, RunThunk, RunLocal, RunCall
  <2>2. trapped' \in BOOLEAN
    BY <1>2 DEF RunUnreachable, RunAddedReturn, RunThunk, RunLocal, RunCall, Trap, IInv, TypeOK
  <2>3. IInv' BY <2>1, <2>2, Kept DEF IInv, TypeOK, static, host
  <2> QED BY <2>1, <2>3 DEF StopKept, StartsNothing, ActsNothing
<1> QED BY <1>1, <1>2

LEMMA ImportSteps ==
  ASSUME IInv, RunImport \/ Sleep
  PROVE  IInv' /\ StopKept
<1>1. nap = None /\ UNCHANGED <<static, host, phase, known, trapped>>
  BY DEF RunImport, Sleep, Executing
<1>2. CASE (\E f : Answer(f)) /\ UNCHANGED nap
  <2>1. PICK f : Answer(f) BY <1>2
  <2>2. /\ stop' \in Stops \cup {None} /\ reason' \in Reasons \cup {None}
        /\ answers' \subseteq {"acted", "refused"}
        /\ "refused" \in answers' => stop' \in {"cancel", "failure"}
        /\ stop # None => stop' = stop /\ ActsNothing
    BY <1>1, <2>1, AnswerKeeps
  <2>3. TypeOK' BY <1>1, <1>2, <2>2 DEF IInv, TypeOK, static, host
  <2> QED BY <1>1, <1>2, <2>2, <2>3 DEF IInv, StopKept, StartsNothing
<1>3. CASE stop = None /\ nap' = "poll" /\ UNCHANGED <<stop, answers, reason>>
  <2>1. IInv' BY <1>1, <1>3, Kept DEF IInv, TypeOK, static, host, Naps
  <2> QED BY <1>3, <2>1 DEF StopKept
<1> QED BY <1>2, <1>3 DEF RunImport, Sleep

LEMMA NapSteps ==
  ASSUME IInv, NapPoll \/ NapLoad \/ NapWait \/ NapWake \/ NapTimer \/ NapEnd
  PROVE  IInv' /\ StopKept
<1>1. nap # None /\ stop = None
  BY GuestAssumption DEF IInv, NapPoll, NapLoad, NapWait, NapWake, NapTimer, NapEnd, Naps
<1>2. CASE NapPoll \/ NapLoad \/ NapWait \/ NapWake \/ NapTimer
  <2>1. nap' \in Naps /\ UNCHANGED awake /\ UNCHANGED notified /\ reason' \in Reasons \cup {None}
    BY <1>2, ReasonType DEF NapPoll, NapLoad, NapWait, NapWake, NapTimer, Naps, IInv, TypeOK
  <2>2. IInv' BY <1>1, <2>1, Kept DEF IInv, TypeOK, static, awake
  <2> QED BY <1>1, <2>2 DEF StopKept
<1>3. CASE NapEnd
  <2>1. /\ nap' = None /\ reason' \in Reasons \cup {None}
        /\ UNCHANGED <<static, phase, known, trapped, host>>
    BY <1>3, ReasonType DEF NapEnd, IInv
  <2>2. "refused" \notin answers BY <1>1, GuestAssumption DEF IInv, Stops
  <2>3. \/ stop' = "cancel" /\ answers' = answers \cup {"refused"}
        \/ stop' = None /\ answers' = answers \cup {"acted"}
    BY <1>1, <1>3 DEF NapEnd, Halt
  <2>4. TypeOK' BY <2>1, <2>3 DEF IInv, TypeOK, static, host, Stops
  <2> QED BY <1>1, <2>1, <2>2, <2>3, <2>4 DEF IInv, StopKept
<1> QED BY <1>2, <1>3

LEMMA RunSteps ==
  ASSUME IInv, Instantiate \/ Main \/ Over \/ StoreToken \/ Notify \/ Deadline
  PROVE  IInv' /\ StopKept
<1>1. CASE Instantiate \/ Main \/ Over
  <2>1. /\ UNCHANGED <<static, host, stop, answers, trapped, reason, nap>>
        /\ known' \in BOOLEAN /\ phase' \in {"start", "main", "over"}
        /\ stop # None => StartsNothing
    BY <1>1 DEF Instantiate, Main, Over, IInv, TypeOK, StartsNothing
  <2>2. IInv' BY <2>1 DEF IInv, TypeOK, static, host
  <2> QED BY <2>1, <2>2 DEF StopKept, ActsNothing
<1>2. CASE StoreToken \/ Deadline
  <2>1. UNCHANGED guest /\ {cell', late', notified'} \subseteq BOOLEAN
    BY <1>2 DEF StoreToken, Deadline, IInv, TypeOK
  <2>2. IInv' BY <2>1, Kept DEF IInv, TypeOK, guest, static
  <2> QED BY <2>1, <2>2 DEF StopKept, StartsNothing, ActsNothing, guest
<1>3. CASE Notify
  <2>1. UNCHANGED <<awake, reason>> /\ notified' = TRUE
        /\ nap' \in {nap, IF nap = "blocked" THEN "poll" ELSE nap}
    BY <1>3 DEF Notify
  <2>2. nap' \in Naps \cup {None} /\ (nap' # None => nap # None)
    BY <2>1, GuestAssumption DEF IInv, TypeOK, Naps
  <2>3. IInv' BY <2>1, <2>2, Kept DEF IInv, TypeOK, awake, static
  <2> QED BY <2>1, <2>3 DEF StopKept, StartsNothing, ActsNothing, awake
<1> QED BY <1>1, <1>2, <1>3

LEMMA NextInv == IInv /\ [Next]_vars => IInv' /\ StopKept
<1> SUFFICES ASSUME IInv, [Next]_vars PROVE IInv' /\ StopKept OBVIOUS
<1>1. CASE UNCHANGED vars
  BY <1>1 DEF IInv, TypeOK, vars, StopKept, StartsNothing, ActsNothing
<1>2. CASE Next
  BY <1>2, CodeSteps, ImportSteps, NapSteps, RunSteps DEF Next, GuestStep
<1> QED BY <1>1, <1>2

-----------------------------------------------------------------------------
(* Sequences put together from others.                                     *)

\* Induction, over a set of numbers.
LEMMA SetInduction ==
  ASSUME NEW S \in SUBSET Nat, 0 \in S, \A n \in S : n + 1 \in S
  PROVE  S = Nat
<1> SUFFICES ASSUME Nat \ S # {} PROVE FALSE OBVIOUS
<1>1. PICK x \in Nat \ S : \A y \in Nat \ S : <<y, x>> \notin OpToRel(<, Nat)
  <2> DEFINE R == OpToRel(<, Nat)
             T == Nat \ S
  <2>1. IsWellFoundedOn(R, Nat) BY NatLessThanWellFounded
  <2> HIDE DEF R
  <2>2. \E x \in T : \A y \in T : ~(<<y, x>> \in R) BY <2>1, WFMin
  <2> QED BY <2>2 DEF R
<1>2. x # 0 /\ x - 1 \in Nat OBVIOUS
<1>3. x - 1 \notin S
  <2>1. (x - 1) + 1 = x OBVIOUS
  <2> QED BY <1>1, <2>1
<1>4. <<x - 1, x>> \in OpToRel(<, Nat)
  <2>1. x - 1 < x OBVIOUS
  <2> QED BY <1>2, <2>1 DEF OpToRel
<1> QED BY <1>1, <1>2, <1>3, <1>4

LEMMA ConcatIs ==
  ASSUME NEW A, NEW a \in Seq(A), NEW b \in Seq(A)
  PROVE  /\ a \o b \in Seq(A)
         /\ Len(a) \in Nat /\ Len(b) \in Nat /\ Len(a \o b) = Len(a) + Len(b)
         /\ \A i \in 1..Len(a) : (a \o b)[i] = a[i]
         /\ \A i \in 1..Len(b) : (a \o b)[Len(a) + i] = b[i]
OBVIOUS

\* Sequences put end to end, one after the other.
Joins(A, s, n) ==
  {flat \in [0..n -> Seq(A)] :
     flat[0] = <<>> /\ \A k \in 1..n : flat[k] = flat[k - 1] \o s[k]}

LEMMA JoinsExist ==
  ASSUME NEW A, NEW N \in Nat, NEW s \in [1..N -> Seq(A)] PROVE Joins(A, s, N) # {}
<1> DEFINE Is(f, n) == f[0] = <<>> /\ \A k \in 1..n : f[k] = f[k - 1] \o s[k]
           Exists(n) == \E f \in [0..n -> Seq(A)] : Is(f, n)
           S == {n \in Nat : n <= N => Exists(n)}
<1>1. Exists(0)
  <2> DEFINE g == [k \in 0..0 |-> <<>>]
  <2>1. <<>> \in Seq(A) OBVIOUS
  <2>2. g \in [0..0 -> Seq(A)] /\ Is(g, 0) BY <2>1
  <2> HIDE DEF Is, g
  <2> QED BY <2>2
<1>2. ASSUME NEW n \in Nat, n + 1 <= N, Exists(n) PROVE Exists(n + 1)
  <2>0. n \in 0..n /\ n + 1 \in 1..N BY <1>2
  <2>1. PICK f \in [0..n -> Seq(A)] : Is(f, n) BY <1>2
  <2>2. f[n] \in Seq(A) /\ s[n + 1] \in Seq(A) BY <2>0
  <2> DEFINE w == f[n] \o s[n + 1]
  <2>3. w \in Seq(A) BY <2>2, ConcatIs
  <2> HIDE DEF w
  <2> DEFINE g == [k \in 0..(n + 1) |-> IF k = n + 1 THEN w ELSE f[k]]
  <2>4. g \in [0..(n + 1) -> Seq(A)]
    <3>1. \A k \in 0..(n + 1) : k # n + 1 => k \in 0..n OBVIOUS
    <3> QED BY <2>3, <3>1
  <2>5. g[0] = <<>> BY <2>1
  <2>6. ASSUME NEW k \in 1..(n + 1) PROVE g[k] = g[k - 1] \o s[k]
    <3>1. CASE k = n + 1
      <4>1. g[k] = w /\ g[k - 1] = f[n] BY <3>1
      <4> QED BY <3>1, <4>1 DEF w
    <3>2. CASE k # n + 1
      <4>1. k \in 1..n BY <3>2
      <4>2. g[k] = f[k] /\ g[k - 1] = f[k - 1] BY <4>1
      <4> QED BY <2>1, <4>1, <4>2
    <3> QED BY <3>1, <3>2
  <2> HIDE DEF g
  <2>7. Is(g, n + 1) BY <2>5, <2>6
  <2> HIDE DEF Is
  <2> QED BY <2>4, <2>7
<1> HIDE DEF Exists
<1>3. 0 \in S /\ S \in SUBSET Nat BY <1>1
<1>4. ASSUME NEW n \in S PROVE n + 1 \in S BY <1>2
<1> HIDE DEF S
<1>5. S = Nat BY <1>3, <1>4, SetInduction
<1>6. Exists(N) BY <1>5 DEF S
<1> QED BY <1>6 DEF Joins, Exists

LEMMA FlattenIs ==
  ASSUME NEW A, NEW n \in Nat, NEW s \in [1..n -> Seq(A)], NEW flat \in Joins(A, s, n)
  PROVE  FlattenSeq(s) = flat[n]
<1> DEFINE Step(f) == [i \in 1..n |-> IF i = 1 THEN s[i] ELSE f[i - 1] \o s[i]]
           joined == CHOOSE f : f = Step(f)
           B == Seq(A)
<1>0. s \in Seq(B) /\ Len(s) = n OBVIOUS
<1>1. /\ flat \in [0..n -> B] /\ flat[0] = <<>>
      /\ \A k \in 1..n : flat[k] = flat[k - 1] \o s[k]
  BY DEF Joins
<1>2. CASE n = 0
  <2> HIDE DEF B
  <2>1. s = <<>> BY <1>0, <1>2
  <2> QED BY <1>0, <1>1, <1>2, <2>1 DEF FlattenSeq
<1>3. CASE n # 0
  <2> DEFINE g == [i \in 1..n |-> flat[i]]
  <2>1. \A i \in 1..n : i = 1 => flat[i] = s[i]
    <3>1. 1 \in 1..n BY <1>3
    <3>2. flat[1] = <<>> \o s[1]
      <4>1. flat[1] = flat[1 - 1] \o s[1] BY <1>1, <3>1
      <4>2. 1 - 1 = 0 OBVIOUS
      <4> QED BY <1>1, <4>1, <4>2
    <3>3. s[1] \in Seq(A) BY <3>1
    <3>4. <<>> \o s[1] = s[1] BY <3>3
    <3> QED BY <3>2, <3>4
  <2> HIDE DEF B
  <2>2. \A i \in 1..n : i # 1 => i - 1 \in 1..n OBVIOUS
  <2>3. g = Step(g)
    <3>1. \A i \in 1..n : g[i] = IF i = 1 THEN s[i] ELSE g[i - 1] \o s[i]
      <4>1. ASSUME NEW i \in 1..n, i # 1 PROVE g[i] = g[i - 1] \o s[i]
        <5>1. i - 1 \in 1..n BY <2>2, <4>1
        <5>2. flat[i] = flat[i - 1] \o s[i] BY <1>1
        <5> QED BY <5>1, <5>2, Zenon
      <4>2. ASSUME NEW i \in 1..n, i = 1 PROVE g[i] = s[i] BY <2>1, <4>2, Zenon
      <4> QED BY <4>1, <4>2, Zenon
    <3>2. g = [i \in 1..n |-> g[i]] OBVIOUS
    <3> HIDE DEF g
    <3> QED BY <3>1, <3>2, Zenon
  <2>4. joined = Step(joined)
    <3> HIDE DEF g
    <3> QED BY <2>3, Zenon
  <2> HIDE DEF joined
  <2>5. ASSUME NEW i \in 1..n PROVE joined[i] = IF i = 1 THEN s[i] ELSE joined[i - 1] \o s[i]
    <3>1. Step(joined)[i] = IF i = 1 THEN s[i] ELSE joined[i - 1] \o s[i] OBVIOUS
    <3> HIDE DEF Step
    <3> QED BY <2>4, <3>1
  <2> DEFINE S == {i \in Nat : i + 1 <= n => joined[i + 1] = flat[i + 1]}
  <2>6. 0 \in S
    <3>1. 1 \in 1..n BY <1>3
    <3> QED BY <2>1, <2>5, <3>1
  <2>7. ASSUME NEW i \in S PROVE i + 1 \in S
    <3>1. CASE i + 2 <= n
      <4>1. i \in Nat /\ i + 2 \in 1..n /\ i + 2 # 1 /\ (i + 2) - 1 = i + 1 /\ i + 1 <= n
        BY <3>1
      <4>2. joined[i + 1] = flat[i + 1] BY <4>1
      <4>3. joined[i + 2] = joined[i + 1] \o s[i + 2] BY <2>5, <4>1
      <4>4. flat[i + 2] = flat[i + 1] \o s[i + 2] BY <1>1, <4>1
      <4>5. (i + 1) + 1 = i + 2 /\ i + 1 \in Nat BY <4>1
      <4> QED BY <4>2, <4>3, <4>4, <4>5
    <3>2. CASE ~(i + 2 <= n) BY <3>2
    <3> QED BY <3>1, <3>2
  <2>8. S \in SUBSET Nat OBVIOUS
  <2> HIDE DEF S
  <2>9. S = Nat BY <2>6, <2>7, <2>8, SetInduction
  <2>10. joined[n] = flat[n]
    <3>1. n - 1 \in S /\ (n - 1) + 1 = n BY <1>3, <2>9
    <3>2. joined[(n - 1) + 1] = flat[(n - 1) + 1] BY <3>1 DEF S
    <3> QED BY <3>1, <3>2
  <2>11. FlattenSeq(s) = joined[n] BY <1>0, <1>3 DEF FlattenSeq, joined
  <2> QED BY <2>10, <2>11
<1> QED BY <1>2, <1>3

\* Each piece is found in the whole where the ones before it end, and the whole
\* has nothing else.
LEMMA JoinsLaid ==
  ASSUME NEW A, NEW n \in Nat, NEW s \in [1..n -> Seq(A)], NEW flat \in Joins(A, s, n)
  PROVE  /\ \A k \in 0..n : flat[k] \in Seq(A) /\ Len(flat[k]) \in Nat
         /\ Len(flat[0]) = 0
         /\ \A k \in 1..n :
              /\ Len(flat[k]) = Len(flat[k - 1]) + Len(s[k])
              /\ Len(flat[k]) <= Len(flat[n])
              /\ \A i \in 1..Len(s[k]) : flat[n][Len(flat[k - 1]) + i] = s[k][i]
         /\ \A p \in 1..Len(flat[n]) :
              \E k \in 1..n : p \in (Len(flat[k - 1]) + 1)..Len(flat[k])
<1>1. /\ flat \in [0..n -> Seq(A)] /\ flat[0] = <<>>
      /\ \A k \in 1..n : flat[k] = flat[k - 1] \o s[k]
  BY DEF Joins
<1>2. ASSUME NEW k \in 0..n PROVE flat[k] \in Seq(A) /\ Len(flat[k]) \in Nat
  <2>1. flat[k] \in Seq(A) BY <1>1
  <2> QED BY <2>1
<1>3. ASSUME NEW k \in 1..n
      PROVE  /\ k - 1 \in 0..n /\ k \in 0..n
             /\ Len(s[k]) \in Nat
             /\ Len(flat[k]) = Len(flat[k - 1]) + Len(s[k])
             /\ \A i \in 1..Len(flat[k - 1]) : flat[k][i] = flat[k - 1][i]
             /\ \A i \in 1..Len(s[k]) : flat[k][Len(flat[k - 1]) + i] = s[k][i]
  <2>1. k - 1 \in 0..n /\ k \in 0..n OBVIOUS
  <2>2. flat[k - 1] \in Seq(A) BY <1>2, <2>1
  <2>3. s[k] \in Seq(A) OBVIOUS
  <2>4. flat[k] = flat[k - 1] \o s[k] BY <1>1
  <2> QED BY <2>1, <2>2, <2>3, <2>4, ConcatIs
<1> DEFINE Prefix(j) == /\ Len(flat[j]) <= Len(flat[n])
                        /\ \A i \in 1..Len(flat[j]) : flat[n][i] = flat[j][i]
           S == {d \in Nat : d <= n => Prefix(n - d)}
<1>4. 0 \in S
  <2>1. n - 0 = n /\ n \in 0..n OBVIOUS
  <2>2. Prefix(n) BY <1>2, <2>1
  <2> HIDE DEF Prefix
  <2> QED BY <2>1, <2>2
<1>5. ASSUME NEW k \in 1..n, Prefix(k) PROVE Prefix(k - 1)
  <2>1. Len(flat[k - 1]) \in Nat /\ Len(flat[k]) \in Nat /\ Len(flat[n]) \in Nat
    <3>1. n \in 0..n OBVIOUS
    <3> QED BY <1>2, <1>3, <3>1
  <2>2. Len(flat[k - 1]) <= Len(flat[k]) BY <1>3, <2>1
  <2>3. ASSUME NEW i \in 1..Len(flat[k - 1]) PROVE flat[n][i] = flat[k - 1][i]
    <3>1. i \in 1..Len(flat[k]) BY <2>1, <2>2
    <3>2. flat[n][i] = flat[k][i] BY <1>5, <3>1
    <3>3. flat[k][i] = flat[k - 1][i] BY <1>3
    <3> QED BY <3>2, <3>3
  <2>4. Len(flat[k - 1]) <= Len(flat[n]) BY <1>5, <2>1, <2>2
  <2> QED BY <2>3, <2>4
<1>6. ASSUME NEW d \in S PROVE d + 1 \in S
  <2> HIDE DEF Prefix
  <2>1. CASE d + 1 <= n
    <3>1. n - d \in 1..n /\ n - (d + 1) = (n - d) - 1 /\ d <= n BY <2>1
    <3>2. Prefix((n - d) - 1) BY <1>5, <3>1
    <3> QED BY <3>1, <3>2
  <2>2. CASE ~(d + 1 <= n) BY <2>2
  <2> QED BY <2>1, <2>2
<1>7. S \in SUBSET Nat OBVIOUS
<1> HIDE DEF S
<1>8. S = Nat BY <1>4, <1>6, <1>7, SetInduction
<1>9. ASSUME NEW k \in 1..n PROVE Prefix(k)
  <2>1. n - k \in Nat /\ n - k <= n /\ n - (n - k) = k OBVIOUS
  <2> HIDE DEF Prefix
  <2> QED BY <1>8, <2>1 DEF S
<1> DEFINE Found(j, p) == \E k \in 1..j : p \in (Len(flat[k - 1]) + 1)..Len(flat[k])
           T == {j \in Nat : j <= n => \A p \in 1..Len(flat[j]) : Found(j, p)}
<1>10. 0 \in T BY <1>1
<1>11. ASSUME NEW j \in T PROVE j + 1 \in T
  <2>1. CASE j + 1 <= n
    <3>1. j + 1 \in 1..n /\ j \in 0..n /\ j + 1 \in 0..n /\ (j + 1) - 1 = j /\ j <= n /\ j \in Nat
      BY <2>1
    <3>2. Len(flat[j]) \in Nat /\ Len(flat[j + 1]) \in Nat BY <1>2, <3>1
    <3>3. ASSUME NEW p \in 1..Len(flat[j + 1]) PROVE Found(j + 1, p)
      <4>1. CASE p <= Len(flat[j])
        <5>1. p \in 1..Len(flat[j]) BY <3>2, <4>1
        <5>2. Found(j, p) BY <3>1, <5>1
        <5> QED BY <3>1, <5>2
      <4>2. CASE ~(p <= Len(flat[j]))
        <5>1. p \in (Len(flat[(j + 1) - 1]) + 1)..Len(flat[j + 1]) BY <3>1, <3>2, <4>2
        <5>2. j + 1 \in 1..(j + 1) BY <3>1
        <5> QED BY <5>1, <5>2
      <4> QED BY <4>1, <4>2
    <3> HIDE DEF Found
    <3> QED BY <3>1, <3>3
  <2>2. CASE ~(j + 1 <= n) BY <2>2
  <2> QED BY <2>1, <2>2
<1>12. T \in SUBSET Nat OBVIOUS
<1> HIDE DEF T
<1>13. T = Nat BY <1>10, <1>11, <1>12, SetInduction
<1>14. \A p \in 1..Len(flat[n]) : Found(n, p) BY <1>13 DEF T
<1>15. ASSUME NEW k \in 1..n, NEW i \in 1..Len(s[k])
       PROVE  flat[n][Len(flat[k - 1]) + i] = s[k][i]
  <2>1. Len(flat[k - 1]) \in Nat /\ Len(flat[k]) \in Nat BY <1>2, <1>3
  <2>2. Len(flat[k - 1]) + i \in 1..Len(flat[k]) BY <1>3, <2>1
  <2>3. flat[n][Len(flat[k - 1]) + i] = flat[k][Len(flat[k - 1]) + i] BY <1>9, <2>2
  <2> QED BY <1>3, <2>3
<1>16. Len(flat[0]) = 0 BY <1>1
<1> QED BY <1>2, <1>3, <1>9, <1>14, <1>15, <1>16

-----------------------------------------------------------------------------
(* Instructions, and what replaces them.                                   *)

Originals == [op : {"loop", "br", "bulk"} \cup DirectCalls \cup TableCalls \cup RefCalls,
              arg : Int]
Ops == {"loop", "br", "bulk", "check", "charge", "unreachable", "return", "end"}
         \cup DirectCalls \cup TableCalls \cup RefCalls
Instructions == [op : Ops, arg : Int \cup {None}]

LEMMA OpIs ==
  ASSUME NEW o, NEW a
  PROVE  /\ Op(o, a).op = o /\ Op(o, a).arg = a
         /\ o \in Ops /\ a \in Int \cup {None} => Op(o, a) \in Instructions
BY DEF Op, Instructions

LEMMA AddedAre ==
  /\ Check \in Instructions /\ Check.op = "check"
  /\ Unreachable \in Instructions /\ Unreachable.op = "unreachable"
  /\ Op("return", None) \in Instructions
BY OpIs DEF Check, Unreachable, Ops

LEMMA OriginalIs ==
  ASSUME NEW i \in Originals, NEW a \in Int \cup {None}
  PROVE  /\ i \in Instructions /\ i.arg \in Int /\ i = Op(i.op, i.arg)
         /\ [i EXCEPT !.arg = a] = Op(i.op, a)
         /\ i.op \in Ops
         /\ i.op \notin {"check", "charge", "unreachable", "return", "end"}
<1>1. i.op \in {"loop", "br", "bulk"} \cup DirectCalls \cup TableCalls \cup RefCalls
      /\ i.arg \in Int
  BY DEF Originals
<1>2. i = Op(i.op, i.arg) /\ [i EXCEPT !.arg = a] = Op(i.op, a) BY DEF Originals, Op
<1>3. i.op \in Ops BY <1>1 DEF Ops
<1>4. i \in Instructions BY <1>1, <1>2, <1>3, OpIs
<1>5. i.op \notin {"check", "charge", "unreachable", "return", "end"}
  BY <1>1 DEF DirectCalls, TableCalls, RefCalls
<1> QED BY <1>1, <1>2, <1>3, <1>4, <1>5

\* What replaces an instruction, case by case.
LEMMA RewriteCases ==
  ASSUME NEW m, Valid(m), NEW i \in Originals
  PROVE  /\ i.op = "loop" => Rewrite(m, i) = <<i, Check>>
         /\ i.op \in DirectCalls /\ i.arg >= m.imports
              => Rewrite(m, i) = <<Op(i.op, i.arg + 1)>>
         /\ i.op \in DirectCalls /\ i.arg < m.imports /\ i.arg = m.exit
              => Rewrite(m, i) = <<Op("call", i.arg), Unreachable>>
         /\ i.op = "call" /\ i.arg < m.imports /\ i.arg # m.exit
              => Rewrite(m, i) = <<Op("call", i.arg), Check>>
         /\ i.op = "return_call" /\ i.arg < m.imports /\ i.arg # m.exit
              => Rewrite(m, i) = <<Op("call", i.arg), Check, Op("return", None)>>
         /\ i.op \in RefCalls => Rewrite(m, i) = <<[i EXCEPT !.arg = Reference(m, @)]>>
         /\ i.op = "bulk" /\ i.arg > 0 => Rewrite(m, i) = <<Op("charge", i.arg), i>>
         /\ i.op \in {"br"} \cup TableCalls \/ (i.op = "bulk" /\ ~(i.arg > 0))
              => Rewrite(m, i) = <<i>>
<1>1. m.imports \in Nat /\ i.arg \in Int /\ (m.exit \in Int => m.exit < m.imports)
  BY IntervalAssumption DEF Valid, Originals
<1>2. i = Op(i.op, i.arg) BY OriginalIs
<1>3. i.op = "loop" => Rewrite(m, i) = <<i, Check>>
  BY DEF Rewrite, DirectCalls, TableCalls, RefCalls
<1>4. ASSUME i.op \in DirectCalls, i.arg >= m.imports
      PROVE  Rewrite(m, i) = <<Op(i.op, i.arg + 1)>>
  <2>1. i.arg # m.exit /\ ~(i.arg < m.imports) BY <1>1, <1>4
  <2>2. [i EXCEPT !.arg = Shift(m, @)] = Op(i.op, i.arg + 1)
    <3>1. Shift(m, i.arg) = i.arg + 1 BY <1>4 DEF Shift
    <3>2. i.arg + 1 \in Int BY <1>1
    <3> QED BY <3>1, <3>2, OriginalIs
  <2>3. i.op \in {"call", "return_call"} BY <1>4 DEF DirectCalls
  <2>4. Rewrite(m, i) = <<[i EXCEPT !.arg = Shift(m, @)]>>
    BY <1>4, <2>1, <2>3 DEF Rewrite, DirectCalls, RefCalls
  <2> QED BY <2>2, <2>4
<1>5. ASSUME i.op \in DirectCalls, i.arg < m.imports, i.arg = m.exit
      PROVE  Rewrite(m, i) = <<Op("call", i.arg), Unreachable>>
  <2>1. ~(i.arg >= m.imports) BY <1>1, <1>5
  <2>2. i.op \in {"call", "return_call"} BY <1>5 DEF DirectCalls
  <2> QED BY <1>5, <2>1, <2>2 DEF Rewrite, DirectCalls, RefCalls
<1>6. ASSUME i.op = "call", i.arg < m.imports, i.arg # m.exit
      PROVE  Rewrite(m, i) = <<Op("call", i.arg), Check>>
  <2>1. ~(i.arg >= m.imports) BY <1>1, <1>6
  <2>2. Rewrite(m, i) = <<i, Check>> BY <1>6, <2>1 DEF Rewrite, DirectCalls, RefCalls
  <2> QED BY <1>2, <1>6, <2>2
<1>7. ASSUME i.op = "return_call", i.arg < m.imports, i.arg # m.exit
      PROVE  Rewrite(m, i) = <<Op("call", i.arg), Check, Op("return", None)>>
  <2>1. ~(i.arg >= m.imports) BY <1>1, <1>7
  <2> QED BY <1>7, <2>1 DEF Rewrite, DirectCalls, RefCalls
<1>8. i.op \in RefCalls => Rewrite(m, i) = <<[i EXCEPT !.arg = Reference(m, @)]>>
  BY DEF Rewrite, DirectCalls, RefCalls
<1>9. i.op = "bulk" /\ i.arg > 0 => Rewrite(m, i) = <<Op("charge", i.arg), i>>
  BY DEF Rewrite, DirectCalls, RefCalls
<1>10. i.op \in {"br"} \cup TableCalls \/ (i.op = "bulk" /\ ~(i.arg > 0))
         => Rewrite(m, i) = <<i>>
  BY DEF Rewrite, DirectCalls, TableCalls, RefCalls
<1> QED BY <1>3, <1>4, <1>5, <1>6, <1>7, <1>8, <1>9, <1>10

-----------------------------------------------------------------------------
(* The functions of the compiled module.                                   *)

LEMMA DefinedAre ==
  ASSUME NEW m, Valid(m)
  PROVE  /\ m.imports \in Nat /\ Cardinality(Defined(m)) \in Nat
         /\ \A f \in Defined(m) :
              f \in Int /\ m.imports <= f /\ f < m.imports + Cardinality(Defined(m))
         /\ \A f \in Functions(m) : f \in Int /\ 0 <= f /\ (f < m.imports \/ f \in Defined(m))
<1>1. Cardinality(Defined(m)) \in Nat BY FS_CardinalityType DEF Valid
<1>2. /\ m.imports \in Nat
      /\ Defined(m) = m.imports..(m.imports + Cardinality(Defined(m)) - 1)
  BY DEF Valid
<1> DEFINE n == Cardinality(Defined(m))
<1> HIDE DEF n
<1>3. n \in Nat /\ Defined(m) = m.imports..(m.imports + n - 1) BY <1>1, <1>2 DEF n
<1>4. \A f \in Defined(m) : f \in Int /\ m.imports <= f /\ f < m.imports + n
  BY <1>2, <1>3
<1>5. \A f \in Functions(m) : f \in Int /\ 0 <= f /\ (f < m.imports \/ f \in Defined(m))
  BY <1>2, <1>3 DEF Functions
<1> QED BY <1>2, <1>3, <1>4, <1>5 DEF n

LEMMA EscapingAre ==
  ASSUME NEW m, Valid(m)
  PROVE  /\ \E n \in Nat : DOMAIN Used(m) = 1..n
         /\ ToSet(Used(m)) \subseteq Functions(m)
         /\ Escaping(m) \subseteq 0..(m.imports - 1)
         /\ IsFiniteSet(Escaping(m))
         /\ Escaping(m) # {} => Defined(m) # {}
<1>1. m.imports \in Nat /\ \A f \in Functions(m) : f \in Int /\ 0 <= f BY DefinedAre
<1>2. Used(m) \in Seq(Functions(m))
  <2>1. m.table \in Seq(Functions(m)) /\ m.exported \in Seq(Functions(m)) BY DEF Valid
  <2>2. m.exported \o m.table \in Seq(Functions(m)) BY <2>1
  <2> QED BY <2>2 DEF Used
<1>3. ToSet(Used(m)) \subseteq Functions(m) BY <1>2 DEF ToSet
<1>4. Escaping(m) \subseteq 0..(m.imports - 1) BY <1>1, <1>3 DEF Escaping
<1>5. IsFiniteSet(Escaping(m))
  <2> DEFINE last == m.imports - 1
  <2>0. 0 \in Int /\ last \in Int BY <1>1
  <2> HIDE DEF last
  <2>1. IsFiniteSet(0..last) BY <2>0, FS_Interval
  <2> USE DEF last
  <2> QED BY <1>4, <2>1, FS_Subset
<1>6. \E n \in Nat : DOMAIN Used(m) = 1..n
  <2>1. Len(Used(m)) \in Nat /\ DOMAIN Used(m) = 1..Len(Used(m)) BY <1>2
  <2> QED BY <2>1
<1>7. Escaping(m) # {} => Defined(m) # {}
  <2> SUFFICES ASSUME Defined(m) = {} PROVE Escaping(m) = {} OBVIOUS
  <2>1. Used(m) = <<>> BY DEF Used
  <2> QED BY <2>1 DEF Escaping, ToSet
<1> QED BY <1>3, <1>4, <1>5, <1>6, <1>7

LEMMA SoonerAre ==
  ASSUME NEW m, Valid(m), NEW f
  PROVE  /\ Sooner(m, f) \subseteq Escaping(m) /\ IsFiniteSet(Sooner(m, f))
         /\ Cardinality(Sooner(m, f)) \in Nat
<1>1. Sooner(m, f) \subseteq Escaping(m) BY DEF Sooner
<1>2. IsFiniteSet(Sooner(m, f)) BY <1>1, EscapingAre, FS_Subset
<1> QED BY <1>1, <1>2, FS_CardinalityType

\* The place of the first use of f or g.
LEMMA FirstUse ==
  ASSUME NEW m, Valid(m), NEW f \in Escaping(m), NEW g
  PROVE  \E i \in DOMAIN Used(m) :
           /\ Used(m)[i] \in {f, g}
           /\ \A j \in 1..i : Used(m)[j] \in {f, g} => j = i
<1> DEFINE u == Used(m)
           S == {k \in Nat : \A j \in 1..k : j \in DOMAIN u => u[j] \notin {f, g}}
<1>0. PICK n \in Nat : DOMAIN u = 1..n BY EscapingAre
<1> SUFFICES ASSUME \A i \in DOMAIN u : u[i] \in {f, g} =>
                      \E j \in 1..i : u[j] \in {f, g} /\ j # i
             PROVE  FALSE
  <2> HIDE DEF u
  <2> QED BY DEF u
<1>1. 0 \in S OBVIOUS
<1>2. ASSUME NEW k \in S PROVE k + 1 \in S
  <2>1. ASSUME k + 1 \in DOMAIN u, u[k + 1] \in {f, g} PROVE FALSE
    <3>1. PICK j \in 1..(k + 1) : u[j] \in {f, g} /\ j # k + 1 BY <2>1
    <3>2. j \in 1..k /\ j \in DOMAIN u BY <1>0, <2>1, <3>1
    <3> QED BY <3>1, <3>2
  <2>2. \A j \in 1..(k + 1) : j = k + 1 \/ j \in 1..k OBVIOUS
  <2> QED BY <2>1, <2>2
<1>3. S \in SUBSET Nat OBVIOUS
<1>4. f \in ToSet(u) BY DEF Escaping
<1> HIDE DEF S
<1>5. S = Nat BY <1>1, <1>2, <1>3, SetInduction
<1>6. PICK i \in DOMAIN u : u[i] = f BY <1>4 DEF ToSet
<1>7. i \in S /\ i \in 1..i BY <1>0, <1>5, <1>6
<1> QED BY <1>6, <1>7 DEF S

\* Thunks are told apart by the import they call.
LEMMA ThunksDiffer ==
  ASSUME NEW m, Valid(m), NEW f \in Escaping(m), NEW g \in Escaping(m),
         ThunkOf(m, f) = ThunkOf(m, g)
  PROVE  f = g
<1>1. ASSUME NEW a \in Escaping(m), NEW b \in Escaping(m), a # b, NEW i \in DOMAIN Used(m),
             Used(m)[i] = a, \A j \in 1..i : Used(m)[j] \in {a, b} => j = i
      PROVE  Cardinality(Sooner(m, a)) < Cardinality(Sooner(m, b))
  <2>0. PICK n \in Nat : DOMAIN Used(m) = 1..n BY EscapingAre
  <2>1. a \in Sooner(m, b)
    <3>1. \A j \in 1..i : Used(m)[j] # b BY <1>1
    <3> QED BY <1>1, <3>1 DEF Sooner
  <2>2. a \notin Sooner(m, a)
    <3> SUFFICES ASSUME NEW k \in DOMAIN Used(m), Used(m)[k] = a PROVE k \in 1..k
      BY DEF Sooner
    <3> QED BY <2>0
  <2>3. Sooner(m, a) \subseteq Sooner(m, b)
    <3> SUFFICES ASSUME NEW h \in Sooner(m, a) PROVE h \in Sooner(m, b) OBVIOUS
    <3>1. h \in Escaping(m) BY DEF Sooner
    <3>2. PICK k \in DOMAIN Used(m) : Used(m)[k] = h /\ \A j \in 1..k : Used(m)[j] # a
      BY DEF Sooner
    <3>3. k < i
      <4>1. ~(i <= k)
        <5> SUFFICES ASSUME i <= k PROVE FALSE OBVIOUS
        <5>1. i \in 1..k BY <2>0
        <5> QED BY <1>1, <3>2, <5>1
      <4> QED BY <2>0, <4>1
    <3>4. \A j \in 1..k : j \in 1..i /\ j # i BY <2>0, <3>3
    <3>5. \A j \in 1..k : Used(m)[j] # b BY <1>1, <3>4
    <3> QED BY <3>1, <3>2, <3>5 DEF Sooner
  <2>4. /\ IsFiniteSet(Sooner(m, b))
        /\ Cardinality(Sooner(m, a)) \in Nat /\ Cardinality(Sooner(m, b)) \in Nat
    BY SoonerAre
  <2>5. /\ Cardinality(Sooner(m, a)) <= Cardinality(Sooner(m, b))
        /\ Cardinality(Sooner(m, a)) = Cardinality(Sooner(m, b)) => Sooner(m, a) = Sooner(m, b)
    BY <2>3, <2>4, FS_Subset
  <2> QED BY <2>1, <2>2, <2>4, <2>5
<1>2. Cardinality(Sooner(m, f)) = Cardinality(Sooner(m, g))
  <2>1. /\ m.imports \in Nat /\ Cardinality(Defined(m)) \in Nat
        /\ Cardinality(Sooner(m, f)) \in Nat /\ Cardinality(Sooner(m, g)) \in Nat
    BY DefinedAre, SoonerAre
  <2> QED BY <2>1 DEF ThunkOf
<1>3. PICK i \in DOMAIN Used(m) :
           /\ Used(m)[i] \in {f, g}
           /\ \A j \in 1..i : Used(m)[j] \in {f, g} => j = i
  BY FirstUse
<1>4. Cardinality(Sooner(m, f)) \in Nat /\ Cardinality(Sooner(m, g)) \in Nat BY SoonerAre
<1>5. ASSUME f # g, Used(m)[i] = f PROVE FALSE
  <2>1. Cardinality(Sooner(m, f)) < Cardinality(Sooner(m, g)) BY <1>1, <1>3, <1>5
  <2> QED BY <1>2, <1>4, <2>1
<1>6. ASSUME f # g, Used(m)[i] = g PROVE FALSE
  <2>1. Cardinality(Sooner(m, g)) < Cardinality(Sooner(m, f)) BY <1>1, <1>3, <1>6
  <2> QED BY <1>2, <1>4, <2>1
<1> QED BY <1>3, <1>5, <1>6
LEMMA CompiledAre ==
  ASSUME NEW m, Valid(m), NEW c, c = Instrumented(m)
  PROVE  /\ c.imports = m.imports + 1 /\ c.exit = m.exit
         /\ DOMAIN c.body = {f + 1 : f \in Defined(m)} \cup c.thunks
         /\ \A f \in Defined(m) : /\ f + 1 \in DOMAIN c.body \ c.thunks
                                  /\ c.body[f + 1] = Body(m, m.body[f])
                                  /\ c.names[f + 1] = m.names[f]
         /\ \A f \in Escaping(m) : /\ ThunkOf(m, f) \in c.thunks
                                   /\ c.body[ThunkOf(m, f)] = Thunk(m, f)
         /\ \A t \in c.thunks : /\ t \in Int /\ t > m.imports
                                /\ \E f \in Escaping(m) : t = ThunkOf(m, f)
         /\ \A k \in DOMAIN m.table : c.table[k] = Reference(m, m.table[k])
         /\ m.start # None => c.start = m.start + 1
         /\ m.start = None => c.start = None
         /\ c.main = m.main + 1
<1>1. /\ m.imports \in Nat /\ Cardinality(Defined(m)) \in Nat
      /\ \A f \in Defined(m) :
              f \in Int /\ m.imports <= f /\ f < m.imports + Cardinality(Defined(m))
      /\ \A f \in Functions(m) : f \in Int /\ 0 <= f /\ (f < m.imports \/ f \in Defined(m))
  BY DefinedAre
<1>2. \A f \in Escaping(m) : Cardinality(Sooner(m, f)) \in Nat BY SoonerAre
<1>3. \A f \in Escaping(m) :
        /\ ThunkOf(m, f) \in Int
        /\ ThunkOf(m, f) >= m.imports + 1 + Cardinality(Defined(m))
  BY <1>1, <1>2 DEF ThunkOf
<1>4. \A t \in Thunks(m) : \E f \in Escaping(m) : t = ThunkOf(m, f) BY DEF Thunks
<1>5. \A f \in Defined(m) : f + 1 \notin Thunks(m)
  <2> SUFFICES ASSUME NEW f \in Defined(m), NEW g \in Escaping(m), f + 1 = ThunkOf(m, g)
               PROVE  FALSE
    BY <1>4
  <2> QED BY <1>1, <1>3
<1>6. \A f \in Escaping(m) : ThunkOf(m, f) \in Thunks(m) /\ ThunkFor(m, ThunkOf(m, f)) = f
  <2> TAKE f \in Escaping(m)
  <2>1. ThunkOf(m, f) \in Thunks(m) BY DEF Thunks
  <2>2. \A g \in Escaping(m) : ThunkOf(m, g) = ThunkOf(m, f) => g = f BY ThunksDiffer
  <2> QED BY <2>1, <2>2 DEF ThunkFor
<1> DEFINE D == {f + 1 : f \in Defined(m)} \cup Thunks(m)
           B == [g \in D |-> IF g \in Thunks(m) THEN Thunk(m, ThunkFor(m, g))
                             ELSE Body(m, m.body[g - 1])]
<1>7. /\ c.imports = m.imports + 1 /\ c.exit = m.exit /\ c.thunks = Thunks(m) /\ c.body = B
      /\ c.table = [k \in DOMAIN m.table |-> Reference(m, m.table[k])]
      /\ c.start = IF m.start = None THEN None ELSE Shift(m, m.start)
      /\ c.main = Shift(m, m.main)
      /\ c.names = [g \in {Shift(m, f) : f \in DOMAIN m.names} |->
                      m.names[CHOOSE f \in DOMAIN m.names : Shift(m, f) = g]]
  BY DEF Instrumented
<1>8. \A f \in Defined(m) : Shift(m, f) = f + 1 BY <1>1 DEF Shift
<1>9. ASSUME NEW f \in Defined(m)
      PROVE  f + 1 \in D /\ B[f + 1] = Body(m, m.body[f])
  <2>1. f + 1 \in D OBVIOUS
  <2>2. f + 1 \notin Thunks(m) /\ (f + 1) - 1 = f BY <1>1, <1>5
  <2> HIDE DEF D
  <2> QED BY <2>1, <2>2
<1>10. ASSUME NEW f \in Escaping(m)
       PROVE  B[ThunkOf(m, f)] = Thunk(m, f)
  <2>1. ThunkOf(m, f) \in D BY <1>6
  <2> HIDE DEF D
  <2> QED BY <1>6, <2>1
<1>11. ASSUME NEW f \in Defined(m) PROVE c.names[f + 1] = m.names[f]
  <2>1. f \in DOMAIN m.names /\ DOMAIN m.names \subseteq Functions(m) BY DEF Valid
  <2>2. \A g \in DOMAIN m.names : Shift(m, g) = f + 1 => g = f
    <3> TAKE g \in DOMAIN m.names
    <3>1. g \in Int /\ f \in Int /\ m.imports <= f BY <1>1, <2>1
    <3> QED BY <1>1, <3>1 DEF Shift
  <2>3. (CHOOSE g \in DOMAIN m.names : Shift(m, g) = f + 1) = f BY <1>8, <2>1, <2>2
  <2>4. f + 1 \in {Shift(m, g) : g \in DOMAIN m.names} BY <1>8, <2>1
  <2> DEFINE names == [g \in {Shift(m, h) : h \in DOMAIN m.names} |->
                         m.names[CHOOSE h \in DOMAIN m.names : Shift(m, h) = g]]
  <2>5. names[f + 1] = m.names[CHOOSE h \in DOMAIN m.names : Shift(m, h) = f + 1] BY <2>4
  <2>6. c.names = names BY <1>7
  <2> HIDE DEF names
  <2> QED BY <2>3, <2>5, <2>6
<1>12. \A t \in Thunks(m) : t \in Int /\ t > m.imports
  <2> TAKE t \in Thunks(m)
  <2>1. PICK f \in Escaping(m) : t = ThunkOf(m, f) BY <1>4
  <2> QED BY <1>1, <1>3, <2>1
<1>13. /\ m.start # None => m.start \in Defined(m)
       /\ m.main \in Defined(m)
  BY DEF Valid
<1>14. DOMAIN B = D OBVIOUS
<1>15. \A k \in DOMAIN m.table : c.table[k] = Reference(m, m.table[k]) BY <1>7
<1> HIDE DEF B
<1>16. DOMAIN c.body = {f + 1 : f \in Defined(m)} \cup c.thunks BY <1>7, <1>14 DEF D
<1> HIDE DEF D
<1>17. c.main = m.main + 1 /\ (m.start # None => c.start = m.start + 1)
       /\ (m.start = None => c.start = None)
  BY <1>7, <1>8, <1>13
<1>18. \A f \in Defined(m) : /\ f + 1 \in DOMAIN c.body \ c.thunks
                             /\ c.body[f + 1] = Body(m, m.body[f])
                             /\ c.names[f + 1] = m.names[f]
  BY <1>5, <1>7, <1>9, <1>11, <1>14
<1>19. \A f \in Escaping(m) : /\ ThunkOf(m, f) \in c.thunks
                              /\ c.body[ThunkOf(m, f)] = Thunk(m, f)
  BY <1>6, <1>7, <1>10
<1> QED BY <1>4, <1>7, <1>12, <1>15, <1>16, <1>17, <1>18, <1>19

-----------------------------------------------------------------------------
(* The instructions of a compiled body.                                    *)

\* Where a body's instructions, and its end, stand in the compiled body.
Laid(m, body, at) ==
  LET new == Body(m, body) IN
  /\ new \in Seq(Instructions) /\ Len(new) \in Nat
  /\ at \in [1..(Len(body) + 1) -> Nat \ {0}]
  /\ at[1] = IF CallsGuest(m, body) THEN 2 ELSE 1
  /\ CallsGuest(m, body) => new[1] = Check
  /\ at[Len(body) + 1] = Len(new) + 1
  /\ \A k \in 1..Len(body) :
       /\ at[k + 1] = at[k] + Len(Rewrite(m, body[k])) /\ at[k + 1] <= Len(new) + 1
       /\ \A i \in 1..Len(Rewrite(m, body[k])) : new[at[k] + i - 1] = Rewrite(m, body[k])[i]
  /\ \A p \in 1..Len(new) :
       p < at[1] \/ \E k \in 1..Len(body) : p \in at[k]..(at[k + 1] - 1)

At(m, body) == CHOOSE at : Laid(m, body, at)

\* An original instruction of a body.
LEMMA InstructionIs ==
  ASSUME NEW m, NEW body, ValidBody(m, body), NEW k \in 1..Len(body)
  PROVE  /\ Len(body) \in Nat /\ DOMAIN body = 1..Len(body)
         /\ body[k] \in Originals
         /\ body[k].op \in DirectCalls => body[k].arg \in Functions(m)
         /\ body[k].op \in TableCalls => body[k].arg \in DOMAIN m.table
         /\ body[k].op \in RefCalls => body[k].arg \in Defined(m) \cup ToSet(Used(m))
<1>1. body \in Seq(Originals) BY DEF ValidBody, Originals
<1>2. Len(body) \in Nat /\ DOMAIN body = 1..Len(body) /\ body[k] \in Originals BY <1>1
<1> QED BY <1>2 DEF ValidBody

LEMMA ReferenceIs ==
  ASSUME NEW m, Valid(m), NEW f \in Defined(m) \cup ToSet(Used(m)), Defined(m) # {}
  PROVE  /\ Reference(m, f) \in Int
         /\ f \in Defined(m) => Reference(m, f) = f + 1
         /\ f \notin Defined(m) => f \in Escaping(m) /\ Reference(m, f) = ThunkOf(m, f)
<1>1. /\ m.imports \in Nat /\ Cardinality(Defined(m)) \in Nat
      /\ Cardinality(Sooner(m, f)) \in Nat
  BY DefinedAre, SoonerAre
<1>2. CASE f \in Defined(m)
  <2>1. f \in Int /\ f >= m.imports BY <1>1, <1>2, DefinedAre
  <2> QED BY <1>2, <2>1 DEF Reference
<1>3. CASE f \notin Defined(m)
  <2>1. f \in ToSet(Used(m)) /\ f \in Functions(m) BY <1>3, EscapingAre
  <2>2. f \in Int /\ f < m.imports BY <1>3, <2>1, DefinedAre
  <2>3. f \in Escaping(m) BY <2>1, <2>2 DEF Escaping
  <2>4. ~(f >= m.imports) BY <1>1, <2>2
  <2>5. Reference(m, f) = ThunkOf(m, f) BY <2>4 DEF Reference
  <2>6. ThunkOf(m, f) \in Int BY <1>1 DEF ThunkOf
  <2> QED BY <1>3, <2>3, <2>5, <2>6
<1> QED BY <1>2, <1>3

LEMMA TableIs ==
  ASSUME NEW m, Valid(m), NEW k \in DOMAIN m.table, Defined(m) # {}
  PROVE  m.table[k] \in Defined(m) \cup ToSet(Used(m))
<1>1. m.exported \in Seq(Functions(m)) /\ m.table \in Seq(Functions(m)) BY DEF Valid
<1>2. DOMAIN m.table = 1..Len(m.table) BY <1>1
<1> DEFINE s == m.exported \o m.table
<1>3. /\ Len(m.exported) \in Nat /\ Len(m.table) \in Nat
      /\ s \in Seq(Functions(m)) /\ Len(s) = Len(m.exported) + Len(m.table)
      /\ \A i \in 1..Len(m.table) : s[Len(m.exported) + i] = m.table[i]
  <2> DEFINE a == m.exported  b == m.table  A == Functions(m)
  <2>1. a \in Seq(A) /\ b \in Seq(A) BY <1>1
  <2> HIDE DEF a, b, A
  <2>2. /\ a \o b \in Seq(A)
        /\ Len(a) \in Nat /\ Len(b) \in Nat /\ Len(a \o b) = Len(a) + Len(b)
        /\ \A i \in 1..Len(b) : (a \o b)[Len(a) + i] = b[i]
    BY <2>1, ConcatIs
  <2> QED BY <2>2 DEF a, b, A
<1>4. Len(m.exported) + k \in DOMAIN s /\ s[Len(m.exported) + k] = m.table[k]
  <2> HIDE DEF s
  <2>1. DOMAIN s = 1..Len(s) BY <1>3
  <2>2. k \in 1..Len(m.table) BY <1>2
  <2>3. s[Len(m.exported) + k] = m.table[k] BY <1>3, <2>2
  <2> DEFINE x == Len(m.exported)  y == Len(m.table)
  <2>5. x \in Nat /\ y \in Nat /\ k \in 1..y /\ Len(s) = x + y BY <1>3, <2>2
  <2> HIDE DEF x, y
  <2>6. x + k \in 1..Len(s) BY <2>5
  <2>4. Len(m.exported) + k \in 1..Len(s) BY <2>6 DEF x
  <2> QED BY <2>1, <2>3, <2>4
<1>5. Used(m) = s BY DEF Used
<1> HIDE DEF s
<1> QED BY <1>3, <1>4, <1>5 DEF ToSet

LEMMA TupleIs ==
  ASSUME NEW A, NEW a \in A, NEW b \in A, NEW d \in A
  PROVE  {<<a>>, <<a, b>>, <<a, b, d>>} \subseteq Seq(A)
OBVIOUS

LEMMA RewriteType ==
  ASSUME NEW m, Valid(m), NEW i \in Originals, Defined(m) # {},
         i.op \in DirectCalls => i.arg \in Functions(m),
         i.op \in RefCalls => i.arg \in Defined(m) \cup ToSet(Used(m))
  PROVE  Rewrite(m, i) \in Seq(Instructions)
<1>1. /\ i \in Instructions /\ i.arg \in Int /\ i = Op(i.op, i.arg)
      /\ i.op \in Ops
  BY OriginalIs
<1>2. Check \in Instructions /\ Unreachable \in Instructions
      /\ Op("return", None) \in Instructions
  BY AddedAre
<1>3. Op("call", i.arg) \in Instructions /\ Op("charge", i.arg) \in Instructions
      /\ Op(i.op, i.arg + 1) \in Instructions
  <2>1. "call" \in Ops /\ "charge" \in Ops BY DEF Ops, DirectCalls
  <2>2. i.arg + 1 \in Int BY <1>1
  <2> QED BY <1>1, <2>1, <2>2, OpIs
<1>4. CASE i.op \in RefCalls
  <2>1. Reference(m, i.arg) \in Int BY <1>4, ReferenceIs
  <2>2. [i EXCEPT !.arg = Reference(m, @)] = Op(i.op, Reference(m, i.arg))
    BY <2>1, OriginalIs
  <2>3. Op(i.op, Reference(m, i.arg)) \in Instructions BY <1>1, <2>1, OpIs
  <2>4. Rewrite(m, i) = <<Op(i.op, Reference(m, i.arg))>> BY <1>4, <2>2, RewriteCases
  <2> QED BY <2>3, <2>4, TupleIs
<1>5. CASE i.op \notin RefCalls
  <2>1. i.op \in {"loop", "br", "bulk"} \cup DirectCalls \cup TableCalls
    BY <1>5 DEF Originals
  <2>2. i.arg \in Int /\ m.imports \in Int BY <1>1, DefinedAre
  <2>3. CASE i.op = "loop"
    <3>1. Rewrite(m, i) = <<i, Check>> BY <2>3, RewriteCases
    <3> QED BY <1>1, <1>2, <3>1, TupleIs
  <2>4. CASE i.op = "bulk" \/ i.op = "br" \/ i.op \in TableCalls
    <3>1. Rewrite(m, i) = <<i>> \/ Rewrite(m, i) = <<Op("charge", i.arg), i>>
      BY <2>4, RewriteCases
    <3> QED BY <1>1, <1>3, <3>1, TupleIs
  <2>5. CASE i.op \in DirectCalls
    <3>1. i.op = "call" \/ i.op = "return_call" BY <2>5 DEF DirectCalls
    <3>2. i.arg >= m.imports \/ i.arg < m.imports BY <2>2
    <3>3. \/ Rewrite(m, i) = <<Op(i.op, i.arg + 1)>>
          \/ Rewrite(m, i) = <<Op("call", i.arg), Unreachable>>
          \/ Rewrite(m, i) = <<Op("call", i.arg), Check>>
          \/ Rewrite(m, i) = <<Op("call", i.arg), Check, Op("return", None)>>
      BY <2>5, <3>1, <3>2, RewriteCases
    <3> QED BY <1>2, <1>3, <3>3, TupleIs
  <2> QED BY <2>1, <2>3, <2>4, <2>5
<1> QED BY <1>4, <1>5

LEMMA BodyLaid ==
  ASSUME NEW m, Valid(m), NEW f \in Defined(m)
  PROVE  Laid(m, m.body[f], At(m, m.body[f]))
<1> DEFINE body == m.body[f]
           n == Len(body)
           s == [k \in DOMAIN body |-> Rewrite(m, body[k])]
           first == IF CallsGuest(m, body) THEN <<Check>> ELSE <<>>
           h == IF CallsGuest(m, body) THEN 1 ELSE 0
<1>1. ValidBody(m, body) BY DEF Valid
<1>2. n \in Nat /\ DOMAIN body = 1..n
  <2>1. body \in Seq(Originals) BY <1>1 DEF ValidBody, Originals
  <2> HIDE DEF body
  <2> QED BY <2>1
<1>3. \A k \in 1..n : Rewrite(m, body[k]) \in Seq(Instructions)
  <2> TAKE k \in 1..n
  <2> HIDE DEF body
  <2>1. /\ body[k] \in Originals
        /\ body[k].op \in DirectCalls => body[k].arg \in Functions(m)
        /\ body[k].op \in RefCalls => body[k].arg \in Defined(m) \cup ToSet(Used(m))
    BY <1>1, InstructionIs
  <2> QED BY <2>1, RewriteType
<1> HIDE DEF body
<1> HIDE DEF n
<1>4. s \in [1..n -> Seq(Instructions)] BY <1>2, <1>3
<1>5. \A k \in 1..n : s[k] = Rewrite(m, body[k]) BY <1>2
<1>6. PICK flat : flat \in Joins(Instructions, s, n) BY <1>2, <1>4, JoinsExist
<1>7. Body(m, body) = first \o FlattenSeq(s) BY DEF Body
<1> HIDE DEF s
<1>8. FlattenSeq(s) = flat[n] BY <1>2, <1>4, <1>6, FlattenIs
<1>9. /\ \A k \in 0..n : flat[k] \in Seq(Instructions) /\ Len(flat[k]) \in Nat
      /\ Len(flat[0]) = 0
      /\ \A k \in 1..n :
           /\ Len(flat[k]) = Len(flat[k - 1]) + Len(s[k])
           /\ Len(flat[k]) <= Len(flat[n])
           /\ \A i \in 1..Len(s[k]) : flat[n][Len(flat[k - 1]) + i] = s[k][i]
      /\ \A p \in 1..Len(flat[n]) :
           \E k \in 1..n : p \in (Len(flat[k - 1]) + 1)..Len(flat[k])
  BY <1>2, <1>4, <1>6, JoinsLaid
<1>10. first \in Seq(Instructions) /\ Len(first) = h /\ (CallsGuest(m, body) => first[1] = Check)
  BY AddedAre
<1> DEFINE new == first \o flat[n]
<1>11. /\ new \in Seq(Instructions) /\ Body(m, body) = new /\ Len(new) = h + Len(flat[n]) /\ Len(new) \in Nat
       /\ \A i \in 1..h : new[i] = first[i]
       /\ \A i \in 1..Len(flat[n]) : new[h + i] = flat[n][i]
  <2>1. flat[n] \in Seq(Instructions) /\ Len(flat[n]) \in Nat BY <1>2, <1>9
  <2>2. Body(m, body) = first \o flat[n] BY <1>7, <1>8
  <2>3. h \in Nat OBVIOUS
  <2> DEFINE rest == flat[n]
  <2> HIDE DEF first, h, rest
  <2>4. /\ first \o rest \in Seq(Instructions) /\ Len(first) \in Nat
        /\ Len(first \o rest) = Len(first) + Len(rest)
        /\ \A i \in 1..Len(first) : (first \o rest)[i] = first[i]
        /\ \A i \in 1..Len(rest) : (first \o rest)[Len(first) + i] = rest[i]
    <3>1. first \in Seq(Instructions) /\ rest \in Seq(Instructions) BY <1>10, <2>1 DEF rest
    <3> QED BY <3>1, ConcatIs
  <2>5. new = first \o rest /\ Len(first) = h BY <1>10 DEF rest
  <2> HIDE DEF new
  <2>6. Len(new) = h + Len(rest) BY <2>4, <2>5
  <2>7. Len(new) \in Nat BY <2>1, <2>3, <2>6 DEF rest
  <2> QED BY <2>2, <2>4, <2>5, <2>6, <2>7 DEF rest, new
<1> HIDE DEF new, first
<1> DEFINE at == [k \in 1..(n + 1) |-> h + Len(flat[k - 1]) + 1]
<1>12. h \in {0, 1} OBVIOUS
<1>13. \A k \in 1..(n + 1) : k - 1 \in 0..n BY <1>2
<1>14. at \in [1..(n + 1) -> Nat \ {0}]
  <2>1. \A k \in 1..(n + 1) : Len(flat[k - 1]) \in Nat BY <1>9, <1>13
  <2> HIDE DEF h
  <2> QED BY <1>12, <2>1
<1>15. at[1] = IF CallsGuest(m, body) THEN 2 ELSE 1
  <2>1. 1 \in 1..(n + 1) /\ 1 - 1 = 0 BY <1>2
  <2>2. at[1] = h + Len(flat[1 - 1]) + 1 BY <2>1
  <2>3. at[1] = h + 1
    <3> HIDE DEF at, h
    <3> QED BY <1>9, <1>12, <2>1, <2>2
  <2> HIDE DEF at
  <2> QED BY <2>3
<1>16. CallsGuest(m, body) => new[1] = Check BY <1>10, <1>11
<1> HIDE DEF h
<1>17. at[n + 1] = Len(new) + 1
  <2>1. n + 1 \in 1..(n + 1) /\ (n + 1) - 1 = n /\ Len(flat[n]) \in Nat BY <1>2, <1>9
  <2> QED BY <1>11, <1>12, <2>1
<1>18. ASSUME NEW k \in 1..n
       PROVE  /\ at[k + 1] = at[k] + Len(Rewrite(m, body[k])) /\ at[k + 1] <= Len(new) + 1
              /\ \A i \in 1..Len(Rewrite(m, body[k])) : new[at[k] + i - 1] = Rewrite(m, body[k])[i]
  <2>1. /\ k \in 1..(n + 1) /\ k + 1 \in 1..(n + 1) /\ k - 1 \in 0..n /\ k \in 0..n
        /\ (k + 1) - 1 = k /\ n \in 0..n
    BY <1>2
  <2>2. at[k] = h + Len(flat[k - 1]) + 1 /\ at[k + 1] = h + Len(flat[k]) + 1 BY <2>1
  <2>3. Len(flat[k - 1]) \in Nat /\ Len(flat[k]) \in Nat /\ Len(flat[n]) \in Nat BY <1>9, <2>1
  <2>4. Len(s[k]) \in Nat /\ s[k] = Rewrite(m, body[k])
    <3>1. s[k] \in Seq(Instructions) BY <1>4
    <3> QED BY <1>5, <3>1
  <2>5. Len(flat[k]) = Len(flat[k - 1]) + Len(s[k]) /\ Len(flat[k]) <= Len(flat[n]) BY <1>9
  <2> HIDE DEF at
  <2> DEFINE x == Len(flat[k - 1])  y == Len(flat[k])  z == Len(flat[n])  w == Len(s[k])
  <2>8. /\ x \in Nat /\ y \in Nat /\ z \in Nat /\ w \in Nat /\ h \in Nat
        /\ at[k] = h + x + 1 /\ at[k + 1] = h + y + 1 /\ y = x + w /\ y <= z
        /\ Len(new) = h + z
    <3>1. h \in Nat BY <1>12
    <3>2. Len(new) = h + z BY <1>11
    <3> QED BY <2>2, <2>3, <2>4, <2>5, <3>1, <3>2
  <2>9. \A i \in 1..z : new[h + i] = flat[n][i] BY <1>11
  <2>10. \A i \in 1..w : flat[n][x + i] = s[k][i] BY <1>9
  <2> HIDE DEF x, y, z, w
  <2>6. at[k + 1] = at[k] + w /\ at[k + 1] <= Len(new) + 1 BY <2>8
  <2>7. ASSUME NEW i \in 1..Len(s[k]) PROVE new[at[k] + i - 1] = s[k][i]
    <3>0. i \in 1..w BY DEF w
    <3>1. at[k] + i - 1 = h + (x + i) /\ x + i \in 1..z BY <2>8, <3>0
    <3>2. new[h + (x + i)] = flat[n][x + i] BY <2>9, <3>1
    <3> QED BY <2>10, <3>0, <3>1, <3>2
  <2> QED BY <2>4, <2>6, <2>7 DEF w
<1>19. ASSUME NEW p \in 1..Len(new)
       PROVE  p < at[1] \/ \E k \in 1..n : p \in at[k]..(at[k + 1] - 1)
  <2>1. at[1] = h + 1
    <3>1. 1 \in 1..(n + 1) /\ 1 - 1 = 0 BY <1>2
    <3> QED BY <1>9, <1>12, <3>1
  <2>2. CASE p <= h
    <3> HIDE DEF at
    <3> QED BY <1>12, <2>1, <2>2
  <2>3. CASE ~(p <= h)
    <3>1. p - h \in 1..Len(flat[n])
      <4>1. Len(flat[n]) \in Nat BY <1>2, <1>9
      <4> QED BY <1>11, <1>12, <2>3, <4>1
    <3>2. PICK k \in 1..n : p - h \in (Len(flat[k - 1]) + 1)..Len(flat[k]) BY <1>9, <3>1
    <3>3. k \in 1..(n + 1) /\ k + 1 \in 1..(n + 1) /\ (k + 1) - 1 = k /\ k - 1 \in 0..n
          /\ k \in 0..n
      BY <1>2
    <3>4. at[k] = h + Len(flat[k - 1]) + 1 /\ at[k + 1] = h + Len(flat[k]) + 1 BY <3>3
    <3>5. Len(flat[k - 1]) \in Nat /\ Len(flat[k]) \in Nat BY <1>9, <3>3
    <3> HIDE DEF at
    <3>6. p \in at[k]..(at[k + 1] - 1) BY <1>12, <3>2, <3>4, <3>5
    <3> QED BY <3>6
  <2> QED BY <2>2, <2>3
<1> HIDE DEF at
<1>20. Laid(m, body, at)
  BY <1>11, <1>14, <1>15, <1>16, <1>17, <1>18, <1>19 DEF Laid, n
<1>21. Laid(m, body, At(m, body))
  <2> HIDE DEF Laid
  <2> QED BY <1>20 DEF At
<1> QED BY <1>21 DEF body
\* What replaces an instruction of a body: one, two or three instructions.
Shaped(m, i, R) ==
  \/ i.op = "loop" /\ R = <<i, Check>>
  \/ i.op = "br" /\ R = <<i>>
  \/ i.op = "bulk" /\ ~(i.arg > 0) /\ R = <<i>>
  \/ i.op = "bulk" /\ i.arg > 0 /\ R = <<Op("charge", i.arg), i>>
  \/ i.op \in TableCalls /\ R = <<i>>
  \/ i.op \in RefCalls /\ R = <<[i EXCEPT !.arg = Reference(m, @)]>>
  \/ i.op \in DirectCalls /\ i.arg \in Defined(m) /\ R = <<Op(i.op, i.arg + 1)>>
  \/ /\ i.op \in DirectCalls /\ i.arg \in 0..(m.imports - 1)
     /\ R = <<Op("call", i.arg), Unreachable>>
  \/ i.op = "call" /\ i.arg \in 0..(m.imports - 1) /\ R = <<Op("call", i.arg), Check>>
  \/ /\ i.op = "return_call" /\ i.arg \in 0..(m.imports - 1)
     /\ R = <<Op("call", i.arg), Check, Op("return", None)>>

LEMMA RewriteShapes ==
  ASSUME NEW m, Valid(m), NEW i \in Originals,
         i.op \in DirectCalls => i.arg \in Functions(m)
  PROVE  Shaped(m, i, Rewrite(m, i))
<1>1. i.op \in {"loop", "br", "bulk"} \cup DirectCalls \cup TableCalls \cup RefCalls
  BY DEF Originals
<1>2. CASE i.op \in {"loop", "br", "bulk"} \cup TableCalls \cup RefCalls
  BY <1>2, RewriteCases DEF Shaped
<1>3. CASE i.op \in DirectCalls
  <2>1. /\ i.arg \in Int /\ m.imports \in Int /\ 0 <= i.arg
        /\ i.arg < m.imports \/ i.arg \in Defined(m)
        /\ i.arg \in Defined(m) => i.arg >= m.imports
    BY <1>3, DefinedAre
  <2>2. i.op = "call" \/ i.op = "return_call" BY <1>3 DEF DirectCalls
  <2>3. CASE i.arg \in Defined(m) BY <1>3, <2>1, <2>3, RewriteCases DEF Shaped
  <2>4. CASE i.arg < m.imports
    <3>1. i.arg \in 0..(m.imports - 1) BY <2>1, <2>4
    <3>2. CASE i.arg = m.exit BY <1>3, <2>4, <3>1, <3>2, RewriteCases DEF Shaped
    <3>3. CASE i.arg # m.exit BY <1>3, <2>2, <2>4, <3>1, <3>3, RewriteCases DEF Shaped
    <3> QED BY <3>2, <3>3
  <2> QED BY <2>1, <2>3, <2>4
<1> QED BY <1>1, <1>2, <1>3

\* Where the instructions that replace one stand.
Placed(new, at, k, R) ==
  /\ Len(new) \in Nat /\ at[k] \in Nat \ {0} /\ at[k + 1] \in Nat
  /\ Len(R) \in 1..3
  /\ at[k + 1] = at[k] + Len(R) /\ at[k + 1] <= Len(new) + 1
  /\ new[at[k]] = R[1]
  /\ Len(R) > 1 => new[at[k] + 1] = R[2]
  /\ Len(R) > 2 => new[at[k] + 2] = R[3]

LEMMA PlaceIs ==
  ASSUME NEW m, Valid(m), NEW f \in Defined(m), NEW k \in 1..Len(m.body[f])
  PROVE  Placed(Body(m, m.body[f]), At(m, m.body[f]), k, Rewrite(m, m.body[f][k]))
<1> DEFINE at == At(m, m.body[f])
           new == Body(m, m.body[f])
           R == Rewrite(m, m.body[f][k])
<1> DEFINE body == m.body[f]
<1>1. ValidBody(m, body) BY DEF Valid
<1>2. Laid(m, body, at) BY BodyLaid
<1>3. R = Rewrite(m, body[k]) /\ new = Body(m, body) /\ k \in 1..Len(body) OBVIOUS
<1> HIDE DEF body, at, new, R
<1>4. /\ Len(body) \in Nat /\ body[k] \in Originals
      /\ body[k].op \in DirectCalls => body[k].arg \in Functions(m)
  BY <1>1, <1>3, InstructionIs
<1>5. Len(R) \in 1..3
  <2>1. \/ \E a : R = <<a>>
        \/ \E a, b : R = <<a, b>>
        \/ \E a, b, d : R = <<a, b, d>>
    BY <1>3, <1>4, RewriteShapes DEF Shaped
  <2> QED BY <2>1
<1>6. /\ Len(new) \in Nat
      /\ at \in [1..(Len(body) + 1) -> Nat \ {0}]
      /\ at[k + 1] = at[k] + Len(R) /\ at[k + 1] <= Len(new) + 1
      /\ \A i \in 1..Len(R) : new[at[k] + i - 1] = R[i]
  BY <1>2, <1>3 DEF Laid
<1>7. k \in 1..(Len(body) + 1) /\ k + 1 \in 1..(Len(body) + 1) BY <1>3, <1>4
<1>8. at[k] \in Nat \ {0} /\ at[k + 1] \in Nat BY <1>6, <1>7
<1>9. new[at[k]] = R[1]
  <2> DEFINE n == Len(R)
  <2>0. n \in 1..3 BY <1>5
  <2> HIDE DEF n
  <2>1. 1 \in 1..n BY <2>0
  <2>2. at[k] + 1 - 1 = at[k] BY <1>8
  <2>3. new[at[k] + 1 - 1] = R[1] BY <1>6, <2>1 DEF n
  <2> QED BY <2>2, <2>3
<1>10. Len(R) > 1 => new[at[k] + 1] = R[2]
  <2>1. Len(R) > 1 => 2 \in 1..Len(R) BY <1>5
  <2>2. at[k] + 2 - 1 = at[k] + 1 BY <1>8
  <2> QED BY <1>6, <2>1, <2>2
<1>11. Len(R) > 2 => new[at[k] + 2] = R[3]
  <2>1. Len(R) > 2 => 3 \in 1..Len(R) BY <1>5
  <2>2. at[k] + 3 - 1 = at[k] + 2 BY <1>8
  <2> QED BY <1>6, <2>1, <2>2
<1>12. Placed(new, at, k, R) BY <1>5, <1>6, <1>8, <1>9, <1>10, <1>11 DEF Placed
<1> QED BY <1>12 DEF new, at, R

\* The ends of a compiled body.
LEMMA EndsAre ==
  ASSUME NEW m, Valid(m), NEW f \in Defined(m)
  PROVE  /\ Len(m.body[f]) \in Nat /\ Len(Body(m, m.body[f])) \in Nat
         /\ At(m, m.body[f])[1] = IF CallsGuest(m, m.body[f]) THEN 2 ELSE 1
         /\ CallsGuest(m, m.body[f]) => Body(m, m.body[f])[1] = Check
         /\ At(m, m.body[f])[1] <= Len(Body(m, m.body[f])) + 1
         /\ At(m, m.body[f])[Len(m.body[f]) + 1] = Len(Body(m, m.body[f])) + 1
<1> DEFINE body == m.body[f]  at == At(m, body)  new == Body(m, body)
<1>1. Laid(m, body, at) BY BodyLaid
<1>2. body \in Seq(Originals) BY DEF Valid, ValidBody, Originals
<1> HIDE DEF body, at
<1>3. Len(body) \in Nat /\ Len(new) \in Nat BY <1>1, <1>2 DEF Laid
<1>4. /\ at[1] = IF CallsGuest(m, body) THEN 2 ELSE 1
      /\ CallsGuest(m, body) => new[1] = Check
      /\ at[Len(body) + 1] = Len(new) + 1
  BY <1>1 DEF Laid
<1>5. at[1] <= Len(new) + 1
  <2>1. CASE Len(body) = 0
    <3>1. Len(body) + 1 = 1 BY <2>1
    <3> QED BY <1>3, <1>4, <3>1
  <2>2. CASE Len(body) # 0
    <3>1. 1 \in 1..Len(body) BY <1>3, <2>2
    <3>2. at[1] \in Nat /\ at[1 + 1] = at[1] + Len(Rewrite(m, body[1])) /\ at[1 + 1] <= Len(new) + 1
          /\ Len(Rewrite(m, body[1])) \in 1..3
      <4>1. Placed(new, at, 1, Rewrite(m, body[1])) BY <3>1, PlaceIs DEF body, at
      <4> QED BY <4>1 DEF Placed
    <3> HIDE DEF new
    <3> QED BY <1>3, <3>2
  <2> QED BY <2>1, <2>2
<1> QED BY <1>3, <1>4, <1>5 DEF body, at

-----------------------------------------------------------------------------
(* A frame of the compiled module and the one of the caller's module that  *)
(* it stands for: at the same place, at an added check before it, or past  *)
(* the charge of a bulk operation.                                         *)

Frames == [fn : Int, pc : Int]
Moved(s) == [s EXCEPT !.pc = @ + 1]

Match(m, s, g) ==
  LET old == m.body[g.fn]
      new == Body(m, old)
      at == At(m, old) IN
  /\ g.fn \in Defined(m) /\ s.fn = g.fn + 1
  /\ g.pc \in 1..(Len(old) + 1)
  /\ \/ s.pc = at[g.pc]
     \/ /\ s.pc + 1 = at[g.pc] /\ s.pc \in 1..Len(new)
        /\ new[s.pc].op \in {"check", "unreachable"}
     \/ /\ s.pc = at[g.pc] + 1 /\ g.pc <= Len(old)
        /\ old[g.pc].op = "bulk" /\ old[g.pc].arg > 0

\* A frame with nothing left to do but to return, that stands for none.
Left(m, s) ==
  \/ s.fn \in Thunks(m) /\ s.pc \in {2, 3}
  \/ \E f \in Defined(m) :
       LET new == Body(m, m.body[f]) IN
       /\ s.fn = f + 1 /\ s.pc \in 1..Len(new)
       /\ \/ new[s.pc].op \in {"unreachable", "return"}
          \/ /\ new[s.pc].op = "check" /\ s.pc + 1 \in 1..Len(new)
             /\ new[s.pc + 1].op = "return"

\* What the two are about to execute, and where that leads.
Pair(m, s, g, here, was) ==
  \/ here.op \in {"check", "unreachable"} /\ Match(m, Moved(s), g)
  \/ here = Op("end", None) /\ was = here
  \/ here.op = "charge" /\ Match(m, Moved(s), g)
  \/ /\ here = was /\ was.op \in {"loop", "br", "bulk"}
     /\ Match(m, Moved(s), Moved(g))
  \/ /\ was.op \in DirectCalls /\ was.arg \in Defined(m) /\ here = Op(was.op, was.arg + 1)
     /\ Match(m, Moved(s), Moved(g))
  \/ /\ was.op \in DirectCalls /\ was.arg \in 0..(m.imports - 1) /\ here = Op("call", was.arg)
     /\ s.pc + 1 \in 1..Len(Body(m, m.body[g.fn]))
     /\ Body(m, m.body[g.fn])[s.pc + 1].op \in {"check", "unreachable"}
     /\ IF was.op = "call" THEN Match(m, Moved(s), Moved(g)) ELSE Left(m, Moved(s))
  \/ /\ was.op \in TableCalls /\ was.arg \in DOMAIN m.table /\ here = was
     /\ Match(m, Moved(s), Moved(g))
  \/ /\ was.op \in RefCalls /\ was.arg \in Defined(m) \cup ToSet(Used(m))
     /\ here = Op(was.op, Reference(m, was.arg))
     /\ Match(m, Moved(s), Moved(g))

LEMMA MovedIs ==
  ASSUME NEW s \in Frames
  PROVE  /\ s.fn \in Int /\ s.pc \in Int /\ Moved(s) \in Frames
         /\ Moved(s).fn = s.fn /\ Moved(s).pc = s.pc + 1
BY DEF Frames, Moved

\* What a frame at pc of a body is about to execute.
Read(body, pc) == IF pc > Len(body) THEN Op("end", None) ELSE body[pc]

\* What a sequence of one, two or three written-out elements holds.
LEMMA OneIs ==
  ASSUME NEW r, NEW a, r = <<a>>
  PROVE  Len(r) = 1 /\ r[1] = a
OBVIOUS

LEMMA TwoAre ==
  ASSUME NEW r, NEW a, NEW b, r = <<a, b>>
  PROVE  Len(r) = 2 /\ r[1] = a /\ r[2] = b
OBVIOUS

LEMMA ThreeAre ==
  ASSUME NEW r, NEW a, NEW b, NEW c, r = <<a, b, c>>
  PROVE  Len(r) = 3 /\ r[1] = a /\ r[2] = b /\ r[3] = c
OBVIOUS

\* What the two are about to execute when neither has begun the instruction.
LEMMA PairAt ==
  ASSUME NEW m, NEW s, NEW g, NEW i \in Originals, NEW R, NEW new, new = Body(m, m.body[g.fn]),
         Shaped(m, i, R),
         i.op \in TableCalls => i.arg \in DOMAIN m.table,
         i.op \in RefCalls => /\ i.arg \in Defined(m) \cup ToSet(Used(m))
                              /\ Reference(m, i.arg) \in Int,
         Len(R) = 1 => Match(m, Moved(s), Moved(g)),
         Len(R) = 2 /\ R[2].op \in {"check", "unreachable"}
           => /\ s.pc + 1 \in 1..Len(new) /\ new[s.pc + 1].op \in {"check", "unreachable"}
              /\ Match(m, Moved(s), Moved(g)),
         Len(R) = 2 /\ R[2].op = "unreachable" => Left(m, Moved(s)),
         Len(R) = 3 /\ R[2].op = "check" /\ R[3].op = "return"
           => /\ s.pc + 1 \in 1..Len(new) /\ new[s.pc + 1].op \in {"check", "unreachable"}
              /\ Left(m, Moved(s)),
         i.op = "bulk" /\ i.arg > 0 => Match(m, Moved(s), g)
  PROVE  Pair(m, s, g, R[1], i)
<1>1. CASE i.op = "loop" /\ R = <<i, Check>>
  <2>1. Len(R) = 2 /\ R[1] = i /\ R[2] = Check BY <1>1, TwoAre, Zenon
  <2>2. R[2].op \in {"check", "unreachable"} BY <2>1, AddedAre, Zenon
  <2> QED BY <1>1, <2>1, <2>2, Zenon DEF Pair
<1>2. CASE (i.op = "br" \/ (i.op = "bulk" /\ ~(i.arg > 0))) /\ R = <<i>>
  <2>1. Len(R) = 1 /\ R[1] = i BY <1>2, OneIs, Zenon
  <2> QED BY <1>2, <2>1, Zenon DEF Pair
<1>3. CASE i.op = "bulk" /\ i.arg > 0 /\ R = <<Op("charge", i.arg), i>>
  <2>1. R[1].op = "charge" BY <1>3, TwoAre, OpIs, Zenon
  <2> QED BY <1>3, <2>1, Zenon DEF Pair
<1>4. CASE i.op \in TableCalls /\ R = <<i>>
  <2>1. Len(R) = 1 /\ R[1] = i BY <1>4, OneIs, Zenon
  <2> QED BY <1>4, <2>1, Zenon DEF Pair
<1>5. CASE i.op \in RefCalls /\ R = <<[i EXCEPT !.arg = Reference(m, @)]>>
  <2>1. Len(R) = 1 /\ R[1] = [i EXCEPT !.arg = Reference(m, @)] BY <1>5, OneIs, Zenon
  <2>2. R[1] = Op(i.op, Reference(m, i.arg))
    <3>1. Reference(m, i.arg) \in Int \cup {None} BY <1>5, Zenon
    <3> QED BY <2>1, <3>1, OriginalIs, Zenon
  <2> QED BY <1>5, <2>1, <2>2, Zenon DEF Pair
<1>6. CASE i.op \in DirectCalls /\ i.arg \in Defined(m) /\ R = <<Op(i.op, i.arg + 1)>>
  <2>1. Len(R) = 1 /\ R[1] = Op(i.op, i.arg + 1) BY <1>6, OneIs, Zenon
  <2> QED BY <1>6, <2>1, Zenon DEF Pair
<1>7. CASE /\ i.op \in DirectCalls /\ i.arg \in 0..(m.imports - 1)
           /\ R = <<Op("call", i.arg), Unreachable>>
  <2>1. Len(R) = 2 /\ R[1] = Op("call", i.arg) /\ R[2].op = "unreachable"
    BY <1>7, TwoAre, AddedAre, Zenon
  <2> QED BY <1>7, <2>1, Zenon DEF Pair
<1>8. CASE i.op = "call" /\ i.arg \in 0..(m.imports - 1) /\ R = <<Op("call", i.arg), Check>>
  <2>1. Len(R) = 2 /\ R[1] = Op("call", i.arg) /\ R[2].op = "check"
    BY <1>8, TwoAre, AddedAre, Zenon
  <2>2. i.op \in DirectCalls BY <1>8 DEF DirectCalls
  <2> QED BY <1>8, <2>1, <2>2, Zenon DEF Pair
<1>9. CASE /\ i.op = "return_call" /\ i.arg \in 0..(m.imports - 1)
           /\ R = <<Op("call", i.arg), Check, Op("return", None)>>
  <2>1. /\ Len(R) = 3 /\ R[1] = Op("call", i.arg) /\ R[2].op = "check"
        /\ R[3].op = "return"
    BY <1>9, ThreeAre, AddedAre, OpIs, Zenon
  <2>2. i.op \in DirectCalls /\ i.op # "call" BY <1>9 DEF DirectCalls
  <2> QED BY <1>9, <2>1, <2>2, Zenon DEF Pair
<1> QED BY <1>1, <1>2, <1>3, <1>4, <1>5, <1>6, <1>7, <1>8, <1>9, Zenon DEF Shaped

LEMMA PairIs ==
  ASSUME NEW m, Valid(m), NEW s \in Frames, NEW g \in Frames, Match(m, s, g),
         NEW old, old = m.body[g.fn], NEW new, new = Body(m, old),
         NEW here, here = Read(new, s.pc), NEW was, was = Read(old, g.pc)
  PROVE  Pair(m, s, g, here, was)
<1> DEFINE at == At(m, old)
           k == g.pc
           R == Rewrite(m, old[k])
<1>0. /\ g.fn \in Defined(m) /\ s.fn = g.fn + 1 /\ k \in 1..(Len(old) + 1)
      /\ s.pc \in Int /\ k \in Int
      /\ Len(old) \in Nat /\ Len(new) \in Nat
      /\ at[Len(old) + 1] = Len(new) + 1
  <2>1. g.fn \in Defined(m) BY DEF Match
  <2>2. Len(old) \in Nat /\ Len(new) \in Nat /\ at[Len(old) + 1] = Len(new) + 1
    BY <2>1, EndsAre
  <2> QED BY <2>1, <2>2, MovedIs DEF Match
<1>1. /\ Moved(s).fn = s.fn /\ Moved(s).pc = s.pc + 1
      /\ Moved(g).fn = g.fn /\ Moved(g).pc = k + 1
  BY MovedIs
<1>2. CASE /\ s.pc + 1 = at[k] /\ s.pc \in 1..Len(new)
           /\ new[s.pc].op \in {"check", "unreachable"}
  <2>1. here = new[s.pc]
    <3>1. ~(s.pc > Len(new)) BY <1>0, <1>2
    <3> QED BY <3>1 DEF Read
  <2>2. Match(m, Moved(s), g)
    <3> HIDE DEF at, k
    <3> QED BY <1>0, <1>1, <1>2 DEF Match, at, k
  <2> QED BY <1>2, <2>1, <2>2 DEF Pair
<1>3. CASE s.pc = at[k] /\ k = Len(old) + 1
  <2>1. s.pc > Len(new) /\ k > Len(old) BY <1>0, <1>3
  <2>2. here = Op("end", None) /\ was = here BY <2>1 DEF Read
  <2> QED BY <2>2 DEF Pair
<1> SUFFICES ASSUME k <= Len(old),
                    \/ s.pc = at[k]
                    \/ s.pc = at[k] + 1 /\ old[k].op = "bulk" /\ old[k].arg > 0
             PROVE  Pair(m, s, g, here, was)
  BY <1>0, <1>2, <1>3 DEF Match
<1>4. k \in 1..Len(old) /\ was = old[k] /\ k + 1 \in 1..(Len(old) + 1)
  <2>1. k \in 1..Len(old) /\ k + 1 \in 1..(Len(old) + 1) /\ ~(k > Len(old)) BY <1>0
  <2> QED BY <2>1 DEF Read
<1>5. /\ at[k] \in Nat \ {0} /\ at[k + 1] \in Nat
      /\ Len(R) \in 1..3
      /\ at[k + 1] = at[k] + Len(R) /\ at[k + 1] <= Len(new) + 1
      /\ new[at[k]] = R[1]
      /\ Len(R) > 1 => new[at[k] + 1] = R[2]
      /\ Len(R) > 2 => new[at[k] + 2] = R[3]
  <2>1. Placed(Body(m, m.body[g.fn]), At(m, m.body[g.fn]), k, Rewrite(m, m.body[g.fn][k]))
    BY <1>0, <1>4, PlaceIs
  <2>2. Placed(new, at, k, R) BY <2>1
  <2> HIDE DEF k, at, R
  <2> QED BY <2>2 DEF Placed
<1>6. /\ old[k] \in Originals
      /\ old[k].op \in DirectCalls => old[k].arg \in Functions(m)
      /\ old[k].op \in TableCalls => old[k].arg \in DOMAIN m.table
      /\ old[k].op \in RefCalls => old[k].arg \in Defined(m) \cup ToSet(Used(m))
  <2>1. ValidBody(m, old) BY <1>0 DEF Valid
  <2> QED BY <1>4, <2>1, InstructionIs
<1> HIDE DEF at, k, R
\* Past the instruction: at the next one, or at an added check before it.
<1>7. ASSUME s.pc + 1 = at[k + 1] PROVE Match(m, Moved(s), Moved(g))
  BY <1>0, <1>1, <1>4, <1>7 DEF Match, at, k
<1>8. ASSUME s.pc = at[k], Len(R) = 2, R[2].op \in {"check", "unreachable"}
      PROVE  /\ s.pc + 1 \in 1..Len(new) /\ new[s.pc + 1].op \in {"check", "unreachable"}
             /\ Match(m, Moved(s), Moved(g))
  <2>1. s.pc + 1 \in 1..Len(new) /\ (s.pc + 1) + 1 = at[k + 1]
    <3> DEFINE x == at[k]  y == at[k + 1]
    <3>1. x \in Nat \ {0} /\ y \in Nat /\ y = x + 2 /\ y <= Len(new) + 1 /\ s.pc = x
      BY <1>5, <1>8
    <3> HIDE DEF x, y
    <3> QED BY <1>0, <3>1 DEF y
  <2>2. new[s.pc + 1] = R[2] BY <1>5, <1>8
  <2>3. Match(m, Moved(s), Moved(g))
    BY <1>0, <1>1, <1>4, <1>8, <2>1, <2>2 DEF Match, at, k
  <2> QED BY <1>8, <2>1, <2>2, <2>3
<1>9. CASE s.pc = at[k] + 1 /\ old[k].op = "bulk" /\ old[k].arg > 0
  <2>1. R = <<Op("charge", old[k].arg), old[k]>> BY <1>6, <1>9, RewriteCases DEF R
  <2>2. Len(R) = 2 /\ R[2] = old[k] BY <2>1, TwoAre, Zenon
  <2>3. s.pc + 1 = at[k + 1] /\ new[s.pc] = old[k] /\ ~(s.pc > Len(new))
    <3> DEFINE x == at[k]  y == at[k + 1]
    <3>1. x \in Nat /\ y = x + 2 /\ y <= Len(new) + 1 /\ s.pc = x + 1
      BY <1>5, <1>9, <2>2
    <3>2. new[x + 1] = R[2] BY <1>5, <2>2
    <3> HIDE DEF x, y
    <3>3. s.pc + 1 = y /\ ~(s.pc > Len(new)) BY <1>0, <3>1
    <3>4. new[s.pc] = old[k] BY <2>2, <3>1, <3>2, Zenon
    <3> QED BY <3>3, <3>4, Zenon DEF y
  <2>4. here = was BY <1>4, <2>3 DEF Read
  <2> QED BY <1>4, <1>7, <1>9, <2>3, <2>4 DEF Pair
<1>10. CASE s.pc = at[k]
  <2>1. here = R[1]
    <3>1. ~(s.pc > Len(new)) BY <1>0, <1>5, <1>10
    <3> QED BY <1>5, <1>10, <3>1 DEF Read
  <2>2. ASSUME Len(R) = 1 PROVE Match(m, Moved(s), Moved(g))
    <3>1. s.pc + 1 = at[k + 1] BY <1>5, <1>10, <2>2
    <3> QED BY <1>7, <3>1
  <2>3. ASSUME old[k].op = "bulk", old[k].arg > 0 PROVE Match(m, Moved(s), g)
    BY <1>0, <1>1, <1>4, <1>10, <2>3 DEF Match, at, k
  <2>4. ASSUME Len(R) = 2, R[2].op = "unreachable" PROVE Left(m, Moved(s))
    <3>1. s.pc + 1 \in 1..Len(new) BY <1>8, <1>10, <2>4
    <3>2. new[s.pc + 1] = R[2] BY <1>5, <1>10, <2>4
    <3> QED BY <1>0, <1>1, <2>4, <3>1, <3>2 DEF Left
  <2>5. ASSUME Len(R) = 3, R[2].op = "check", R[3].op = "return"
        PROVE  /\ s.pc + 1 \in 1..Len(new) /\ new[s.pc + 1].op \in {"check", "unreachable"}
               /\ Left(m, Moved(s))
    <3> DEFINE x == at[k]  y == at[k + 1]
    <3>1. x \in Nat \ {0} /\ y \in Nat /\ y = x + 3 /\ y <= Len(new) + 1 /\ s.pc = x
      BY <1>5, <1>10, <2>5
    <3>2. new[x + 1] = R[2] /\ new[x + 2] = R[3] BY <1>5, <2>5
    <3> HIDE DEF x, y
    <3>3. s.pc + 1 \in 1..Len(new) /\ (s.pc + 1) + 1 \in 1..Len(new)
          /\ s.pc + 1 = x + 1 /\ (s.pc + 1) + 1 = x + 2
      BY <1>0, <3>1
    <3>4. new[s.pc + 1].op = "check" /\ new[(s.pc + 1) + 1].op = "return"
      BY <2>5, <3>2, <3>3, Zenon
    <3> QED BY <1>0, <1>1, <3>3, <3>4 DEF Left
  <2>6. Shaped(m, old[k], R) BY <1>6, RewriteShapes DEF R
  <2>7. ASSUME old[k].op \in RefCalls PROVE Reference(m, old[k].arg) \in Int
    <3>1. Defined(m) # {} BY <1>0
    <3> QED BY <1>6, <2>7, <3>1, ReferenceIs
  <2>8. /\ old[k] \in Originals
        /\ old[k].op \in TableCalls => old[k].arg \in DOMAIN m.table
        /\ old[k].op \in RefCalls => /\ old[k].arg \in Defined(m) \cup ToSet(Used(m))
                                     /\ Reference(m, old[k].arg) \in Int
    BY <1>6, <2>7, Zenon
  <2>9. Len(R) = 2 /\ R[2].op \in {"check", "unreachable"}
           => /\ s.pc + 1 \in 1..Len(new) /\ new[s.pc + 1].op \in {"check", "unreachable"}
              /\ Match(m, Moved(s), Moved(g))
    BY <1>8, <1>10, Zenon
  <2>10. new = Body(m, m.body[g.fn]) OBVIOUS
  <2>11. Pair(m, s, g, R[1], old[k])
    BY <2>2, <2>3, <2>4, <2>5, <2>6, <2>8, <2>9, <2>10, PairAt, Zenon
  <2> QED BY <1>4, <2>1, <2>11, Zenon
<1> QED BY <1>9, <1>10
\* A function is entered at its first instruction, or at the check before it.
LEMMA EntryIs ==
  ASSUME NEW m, Valid(m), NEW f \in Defined(m)
  PROVE  Frame(f) \in Frames /\ Frame(f + 1) \in Frames /\ Match(m, Frame(f + 1), Frame(f))
<1> DEFINE old == m.body[f]  new == Body(m, old)  at == At(m, old)
<1>1. f \in Int BY DefinedAre
<1>2. /\ Frame(f) \in Frames /\ Frame(f).fn = f /\ Frame(f).pc = 1
      /\ Frame(f + 1) \in Frames /\ Frame(f + 1).fn = f + 1 /\ Frame(f + 1).pc = 1
  BY <1>1 DEF Frame, Frames
<1>3. /\ Len(old) \in Nat /\ Len(new) \in Nat
      /\ at[1] = IF CallsGuest(m, old) THEN 2 ELSE 1
      /\ CallsGuest(m, old) => new[1] = Check
      /\ at[1] <= Len(new) + 1
  BY EndsAre
<1>4. CASE CallsGuest(m, old)
  <2>1. at[1] = 1 + 1 /\ 1 \in 1..Len(new) /\ new[1].op = "check" BY <1>3, <1>4, AddedAre
  <2>2. 1 \in 1..(Len(old) + 1) BY <1>3
  <2> HIDE DEF at, new
  <2> QED BY <1>2, <2>1, <2>2 DEF Match, at, new
<1>5. CASE ~CallsGuest(m, old)
  <2>1. at[1] = 1 BY <1>3, <1>5
  <2>2. 1 \in 1..(Len(old) + 1) BY <1>3
  <2> HIDE DEF at, new
  <2> QED BY <1>2, <2>1, <2>2 DEF Match, at, new
<1> QED BY <1>4, <1>5

\* A br continues the same loop in both.
LoopFor(body, pc) ==
  CHOOSE k \in DOMAIN body : body[k].op = "loop" /\ body[k].arg = body[pc].arg

LEMMA LoopsAre ==
  ASSUME NEW m, Valid(m), NEW f \in Defined(m), NEW k \in 1..Len(m.body[f]),
         m.body[f][k].op = "br", NEW p,
         Body(m, m.body[f])[p] = m.body[f][k]
  PROVE  \E l \in 1..Len(m.body[f]) :
           /\ LoopFor(m.body[f], k) = l
           /\ LoopFor(Body(m, m.body[f]), p) = At(m, m.body[f])[l]
           /\ At(m, m.body[f])[l] \in Int
           /\ Match(m, [fn |-> f + 1, pc |-> At(m, m.body[f])[l] + 1], [fn |-> f, pc |-> l + 1])
<1> DEFINE old == m.body[f]  new == Body(m, old)  at == At(m, old)
<1>1. ValidBody(m, old) /\ f \in Int BY DefinedAre DEF Valid
<1>2. /\ Laid(m, old, at) /\ new \in Seq(Instructions) /\ Len(new) \in Nat
      /\ at[1] = IF CallsGuest(m, old) THEN 2 ELSE 1
      /\ CallsGuest(m, old) => new[1] = Check
      /\ \A q \in 1..Len(new) :
           q < at[1] \/ \E j \in 1..Len(old) : q \in at[j]..(at[j + 1] - 1)
  <2>1. Laid(m, old, at) BY BodyLaid
  <2> HIDE DEF old, at
  <2> QED BY <2>1 DEF Laid
<1>3. DOMAIN new = 1..Len(new)
  <2> HIDE DEF new
  <2> QED BY <1>2
<1>4. Len(old) \in Nat /\ DOMAIN old = 1..Len(old)
  <2> HIDE DEF old
  <2>1. k \in 1..Len(old) BY DEF old
  <2> QED BY <1>1, <2>1, InstructionIs
<1>5. k \in DOMAIN old BY <1>4
<1>6. PICK l \in DOMAIN old :
        \A j \in DOMAIN old : old[j].op = "loop" /\ old[j].arg = old[k].arg <=> j = l
  <2> HIDE DEF old
  <2> QED BY <1>1, <1>5 DEF ValidBody, old
<1>7. l \in 1..Len(old) /\ old[l].op = "loop" /\ old[l].arg = old[k].arg BY <1>4, <1>6
<1>8. LoopFor(old, k) = l
  <2> HIDE DEF old
  <2> QED BY <1>6, <1>7, <1>4 DEF LoopFor
<1>9. ASSUME NEW j \in 1..Len(old)
      PROVE  /\ Placed(new, at, j, Rewrite(m, old[j]))
             /\ old[j] \in Originals
             /\ old[j].op \in DirectCalls => old[j].arg \in Functions(m)
  <2>1. Placed(new, at, j, Rewrite(m, old[j])) BY PlaceIs
  <2>2. /\ old[j] \in Originals
        /\ old[j].op \in DirectCalls => old[j].arg \in Functions(m)
    <3> HIDE DEF old
    <3> QED BY <1>1, InstructionIs
  <2> QED BY <2>1, <2>2
<1> HIDE DEF old, new, at
\* Only a loop is replaced by something with a loop in it.
<1>10. ASSUME NEW q \in 1..Len(new), new[q].op = "loop", new[q].arg = old[k].arg
       PROVE  q = at[l]
  <2>1. ~(q < at[1])
    <3> SUFFICES ASSUME q < at[1] PROVE FALSE OBVIOUS
    <3>1. q = 1 /\ CallsGuest(m, old) BY <1>2
    <3> QED BY <1>2, <1>10, <3>1, AddedAre
  <2>2. PICK j \in 1..Len(old) : q \in at[j]..(at[j + 1] - 1) BY <1>2, <2>1
  <2> DEFINE R == Rewrite(m, old[j])
  <2>3. /\ at[j] \in Nat \ {0} /\ at[j + 1] \in Nat /\ Len(R) \in 1..3
        /\ at[j + 1] = at[j] + Len(R)
        /\ new[at[j]] = R[1]
        /\ Len(R) > 1 => new[at[j] + 1] = R[2]
        /\ Len(R) > 2 => new[at[j] + 2] = R[3]
    <3>1. Placed(new, at, j, R) BY <1>9
    <3> HIDE DEF R
    <3> QED BY <3>1 DEF Placed
  <2>4. \/ q = at[j] \/ (Len(R) > 1 /\ q = at[j] + 1) \/ (Len(R) > 2 /\ q = at[j] + 2)
    <3> DEFINE n == Len(R)  x == at[j]  y == at[j + 1]
    <3>1. n \in 1..3 /\ x \in Nat /\ y = x + n /\ q \in x..(y - 1) BY <2>2, <2>3
    <3> HIDE DEF n, x, y
    <3>2. \/ q = x \/ (n > 1 /\ q = x + 1) \/ (n > 2 /\ q = x + 2) BY <3>1
    <3> QED BY <3>2 DEF n, x
  <2>5. \/ q = at[j] /\ R[1].op = "loop" /\ R[1].arg = old[k].arg
        \/ Len(R) > 1 /\ R[2].op = "loop"
        \/ Len(R) > 2 /\ R[3].op = "loop"
    <3> HIDE DEF R
    <3> QED BY <1>10, <2>3, <2>4
  <2>6. /\ R[1].op = "loop" => R[1] = old[j]
        /\ Len(R) > 1 => R[2].op # "loop"
        /\ Len(R) > 2 => R[3].op # "loop"
    <3> DEFINE i == old[j]
    <3>0. /\ i \in Originals /\ (i.op \in DirectCalls => i.arg \in Functions(m))
          /\ R = Rewrite(m, i)
      BY <1>9
    <3>1. Check.op = "check" /\ Unreachable.op = "unreachable" BY AddedAre
    <3> HIDE DEF i, R
    <3>2. \/ R = <<i, Check>> \/ R = <<i>>
          \/ R = <<Op("charge", i.arg), i>> /\ i.op = "bulk"
          \/ i.op \in RefCalls /\ R = <<[i EXCEPT !.arg = Reference(m, @)]>>
          \/ i.op \in DirectCalls /\ R = <<Op(i.op, i.arg + 1)>>
          \/ R = <<Op("call", i.arg), Unreachable>>
          \/ R = <<Op("call", i.arg), Check>>
          \/ R = <<Op("call", i.arg), Check, Op("return", None)>>
      BY <3>0, RewriteShapes DEF Shaped
    <3>3. /\ i.op \in DirectCalls \cup RefCalls => i.op # "loop" BY DEF DirectCalls, RefCalls
    <3>4. [i EXCEPT !.arg = Reference(m, @)].op = i.op
      BY <3>0 DEF Originals
    <3>5. CASE R = <<i, Check>> \/ R = <<i>> BY <3>1, <3>5 DEF i
    <3>6. CASE R = <<Op("charge", i.arg), i>> /\ i.op = "bulk" BY <3>6, OpIs
    <3>7. CASE i.op \in RefCalls /\ R = <<[i EXCEPT !.arg = Reference(m, @)]>>
      <4> DEFINE b == [i EXCEPT !.arg = Reference(m, @)]
      <4>1. b.op # "loop" /\ R = <<b>> BY <3>3, <3>4, <3>7
      <4> HIDE DEF b
      <4> QED BY <4>1
    <3>8. CASE i.op \in DirectCalls /\ R = <<Op(i.op, i.arg + 1)>> BY <3>3, <3>8, OpIs
    <3>9. CASE R = <<Op("call", i.arg), Unreachable>> \/ R = <<Op("call", i.arg), Check>>
      BY <3>1, <3>9, OpIs
    <3>10. CASE R = <<Op("call", i.arg), Check, Op("return", None)>> BY <3>1, <3>10, OpIs
    <3> QED BY <3>2, <3>5, <3>6, <3>7, <3>8, <3>9, <3>10
  <2>7. q = at[j] /\ old[j].op = "loop" /\ old[j].arg = old[k].arg
    <3> HIDE DEF R
    <3> QED BY <2>5, <2>6
  <2>8. j = l BY <1>4, <1>6, <2>7
  <2> QED BY <2>7, <2>8
<1>11. /\ at[l] \in 1..Len(new) /\ at[l] \in Int /\ new[at[l]] = old[l]
       /\ at[l + 1] = (at[l] + 1) + 1 /\ at[l] + 1 \in 1..Len(new)
       /\ new[at[l] + 1].op = "check"
  <2> DEFINE R == Rewrite(m, old[l])
  <2>1. R = <<old[l], Check>> BY <1>7, <1>9, RewriteCases
  <2>2. Len(R) = 2 /\ R[1] = old[l] /\ R[2].op = "check" BY <2>1, AddedAre
  <2>3. Placed(new, at, l, R) BY <1>7, <1>9
  <2> HIDE DEF R
  <2> QED BY <2>2, <2>3 DEF Placed
<1>12. LoopFor(new, p) = at[l]
  <2>1. new[p] = old[k] BY DEF new, old
  <2>2. at[l] \in DOMAIN new /\ new[at[l]].op = "loop" /\ new[at[l]].arg = new[p].arg
    BY <1>3, <1>7, <1>11, <2>1
  <2>3. \A q \in DOMAIN new : new[q].op = "loop" /\ new[q].arg = new[p].arg => q = at[l]
    BY <1>3, <1>10, <2>1
  <2> QED BY <2>2, <2>3 DEF LoopFor
<1>13. Match(m, [fn |-> f + 1, pc |-> at[l] + 1], [fn |-> f, pc |-> l + 1])
  <2>1. l + 1 \in 1..(Len(old) + 1) BY <1>4, <1>7
  <2> QED BY <1>11, <2>1 DEF Match, old, new, at
<1> QED BY <1>7, <1>8, <1>11, <1>12, <1>13 DEF old, new, at
-----------------------------------------------------------------------------
(* Stacks.                                                                 *)

LEMMA PopIs ==
  ASSUME NEW F, NEW S \in Seq(F), S # <<>>
  PROVE  /\ Len(S) \in Nat \ {0} /\ Last(S) \in F
         /\ Front(S) \in Seq(F) /\ Len(Front(S)) = Len(S) - 1
         /\ \A i \in 1..(Len(S) - 1) : Front(S)[i] = S[i]
         /\ S = Front(S) \o <<Last(S)>>
<1>1. Len(S) \in Nat \ {0} OBVIOUS
<1>2. Last(S) \in F BY <1>1 DEF Last
<1>3. /\ Front(S) \in Seq(F) /\ Len(Front(S)) = Len(S) - 1
      /\ \A i \in 1..(Len(S) - 1) : Front(S)[i] = S[i]
  <2> DEFINE n == Len(S)
  <2>1. n \in Nat /\ n # 0 /\ n = Len(S) BY <1>1
  <2> HIDE DEF n
  <2>2. Front(S) = SubSeq(S, 1, n - 1) BY <2>1 DEF Front
  <2>3. SubSeq(S, 1, n - 1) \in Seq(F) BY <2>1
  <2>4. Len(SubSeq(S, 1, n - 1)) = n - 1 BY <2>1
  <2>5. \A i \in 1..(n - 1) : SubSeq(S, 1, n - 1)[i] = S[i] BY <2>1
  <2> QED BY <2>1, <2>2, <2>3, <2>4, <2>5
<1> HIDE DEF Front
<1>4. S = Front(S) \o <<Last(S)>> BY <1>1, <1>2, <1>3 DEF Last
<1> QED BY <1>1, <1>2, <1>3, <1>4

LEMMA PushIs ==
  ASSUME NEW F, NEW S \in Seq(F), NEW x \in F
  PROVE  /\ S \o <<x>> \in Seq(F) /\ S \o <<x>> # <<>>
         /\ Len(S) \in Nat /\ Len(S \o <<x>>) = Len(S) + 1
         /\ \A i \in 1..Len(S) : (S \o <<x>>)[i] = S[i]
         /\ (S \o <<x>>)[Len(S) + 1] = x
         /\ Last(S \o <<x>>) = x /\ Front(S \o <<x>>) = S
<1> DEFINE T == S \o <<x>>
<1>1. /\ T \in Seq(F) /\ Len(S) \in Nat /\ Len(T) = Len(S) + 1
      /\ \A i \in 1..Len(S) : T[i] = S[i]
      /\ T[Len(S) + 1] = x
  OBVIOUS
<1> HIDE DEF T
<1>2. T # <<>> BY <1>1
<1>3. Last(T) = x BY <1>1 DEF Last
<1>4. Front(T) = S BY <1>1 DEF Front
<1> QED BY <1>1, <1>2, <1>3, <1>4 DEF T

Matched(m, S, G) ==
  /\ S \in Seq(Frames) /\ G \in Seq(Frames) /\ Len(S) = Len(G)
  /\ \A i \in 1..Len(S) : Match(m, S[i], G[i])

LEMMA MatchedPush ==
  ASSUME NEW m, NEW S, NEW G, Matched(m, S, G), NEW s \in Frames, NEW g \in Frames,
         Match(m, s, g)
  PROVE  Matched(m, S \o <<s>>, G \o <<g>>)
<1>1. /\ S \in Seq(Frames) /\ G \in Seq(Frames) /\ Len(S) = Len(G)
      /\ \A i \in 1..Len(S) : Match(m, S[i], G[i])
  BY DEF Matched
<1> DEFINE A == S \o <<s>>  B == G \o <<g>>
<1>2. /\ A \in Seq(Frames) /\ Len(S) \in Nat /\ Len(A) = Len(S) + 1
      /\ \A i \in 1..Len(S) : A[i] = S[i]
      /\ A[Len(S) + 1] = s
  BY <1>1, PushIs
<1>3. /\ B \in Seq(Frames) /\ Len(B) = Len(G) + 1
      /\ \A i \in 1..Len(G) : B[i] = G[i]
      /\ B[Len(G) + 1] = g
  BY <1>1, PushIs
<1> HIDE DEF A, B
<1>4. ASSUME NEW i \in 1..Len(A) PROVE Match(m, A[i], B[i])
  <2>1. CASE i = Len(S) + 1 BY <1>1, <1>2, <1>3, <2>1
  <2>2. CASE i # Len(S) + 1
    <3>1. i \in 1..Len(S) /\ i \in 1..Len(G) BY <1>1, <1>2, <2>2
    <3>2. A[i] = S[i] /\ B[i] = G[i] /\ Match(m, S[i], G[i]) BY <1>1, <1>2, <1>3, <3>1
    <3> QED BY <3>2
  <2> QED BY <2>1, <2>2
<1>5. Len(A) = Len(B) BY <1>1, <1>2, <1>3
<1>6. Matched(m, A, B) BY <1>2, <1>3, <1>4, <1>5 DEF Matched
<1> QED BY <1>6 DEF A, B

\* The tops of two stacks that match.
Tops(m, S, s, G, g) ==
  Matched(m, S, G) /\ s \in Frames /\ g \in Frames /\ Match(m, s, g)

LEMMA MatchedPop ==
  ASSUME NEW m, NEW S, NEW G, Matched(m, S, G), S # <<>>
  PROVE  /\ Tops(m, Front(S), Last(S), Front(G), Last(G)) /\ G # <<>>
         /\ S = Front(S) \o <<Last(S)>> /\ G = Front(G) \o <<Last(G)>>
<1>1. /\ S \in Seq(Frames) /\ G \in Seq(Frames) /\ Len(S) = Len(G)
      /\ \A i \in 1..Len(S) : Match(m, S[i], G[i])
  BY DEF Matched
<1>2. /\ Len(S) \in Nat \ {0} /\ Last(S) \in Frames
      /\ Front(S) \in Seq(Frames) /\ Len(Front(S)) = Len(S) - 1
      /\ \A i \in 1..(Len(S) - 1) : Front(S)[i] = S[i]
      /\ S = Front(S) \o <<Last(S)>>
  BY <1>1, PopIs
<1>3. G # <<>> BY <1>1, <1>2
<1>4. /\ Last(G) \in Frames
      /\ Front(G) \in Seq(Frames) /\ Len(Front(G)) = Len(G) - 1
      /\ \A i \in 1..(Len(G) - 1) : Front(G)[i] = G[i]
      /\ G = Front(G) \o <<Last(G)>>
  BY <1>1, <1>3, PopIs
<1>5. Match(m, Last(S), Last(G)) BY <1>1, <1>2 DEF Last
<1>6. Matched(m, Front(S), Front(G))
  <2>1. \A i \in 1..(Len(S) - 1) : i \in 1..Len(S) /\ i \in 1..(Len(G) - 1) BY <1>1, <1>2
  <2>2. \A i \in 1..(Len(S) - 1) : Match(m, Front(S)[i], Front(G)[i])
    BY <1>1, <1>2, <1>4, <2>1
  <2> QED BY <1>1, <1>2, <1>4, <2>2 DEF Matched
<1> QED BY <1>2, <1>3, <1>4, <1>5, <1>6 DEF Tops

LEMMA MatchedNone == ASSUME NEW m PROVE Matched(m, <<>>, <<>>)
BY DEF Matched

\* What Advance does to a stack.
LEMMA AdvanceIs ==
  ASSUME NEW S \in Seq(Frames), NEW s \in Frames
  PROVE  Advance(S \o <<s>>) = S \o <<Moved(s)>>
<1> DEFINE T == S \o <<s>>
<1>1. Last(T) = s /\ Front(T) = S BY PushIs
<1> HIDE DEF T
<1>2. Advance(T) = S \o <<Moved(s)>> BY <1>1 DEF Advance, Moved
<1> QED BY <1>2 DEF T

-----------------------------------------------------------------------------
(* A guest's frames T and the ghost's frames G.                            *)

\* The import a call has reached through a thunk has not been called yet; or it
\* has, and what is left of the thunk, or of a tail call, stands for no frame.
Through(m, T, G) ==
  LET o == Now(m, G) IN
  /\ G # <<>> /\ Calling(o) /\ Callee(m, o) \in Escaping(m)
  /\ \E S : /\ T = S \o <<Frame(ThunkOf(m, Callee(m, o)))>>
            /\ Matched(m, S, Leave(o, G))
Leaving(m, T, G) ==
  \E S : \E x \in Frames : T = S \o <<x>> /\ Left(m, x) /\ Matched(m, S, G)
Sim(m, T, G) == Matched(m, T, G) \/ Through(m, T, G) \/ Leaving(m, T, G)

\* The two instructions, when the frames match.
LEMMA MatchedIs ==
  ASSUME NEW m, Valid(m), NEW c, c = Instrumented(m), NEW T, NEW G,
         Matched(m, T, G), T # <<>>
  PROVE  LET S == Front(T)  s == Last(T)  H == Front(G)  g == Last(G) IN
         /\ T = S \o <<s>> /\ G = H \o <<g>> /\ Tops(m, S, s, H, g)
         /\ G # <<>>
         /\ Pair(m, s, g, Now(c, T), Now(m, G))
         /\ s.fn \notin c.thunks /\ c.names[s.fn] = m.names[g.fn]
         /\ c.body[s.fn] = Body(m, m.body[g.fn])
         /\ s \in Frames /\ g \in Frames /\ g.fn \in Defined(m) /\ s.fn = g.fn + 1
<1> DEFINE S == Front(T)  s == Last(T)  H == Front(G)  g == Last(G)
<1>1. T = S \o <<s>> /\ G = H \o <<g>> /\ Tops(m, S, s, H, g) /\ G # <<>>
  BY MatchedPop
<1>2. g.fn \in Defined(m) /\ s.fn = g.fn + 1 /\ s \in Frames /\ g \in Frames
      /\ Match(m, s, g)
  BY <1>1 DEF Tops, Match
<1>3. /\ s.fn \notin c.thunks
      /\ c.body[s.fn] = Body(m, m.body[g.fn])
      /\ c.names[s.fn] = m.names[g.fn]
  BY <1>2, CompiledAre
<1> DEFINE old == m.body[g.fn]  new == Body(m, old)
<1>4. Now(c, T) = Read(new, s.pc) BY <1>3 DEF Now, Read
<1>5. Now(m, G) = Read(old, g.pc) BY DEF Now, Read
<1>6. Pair(m, s, g, Now(c, T), Now(m, G))
  <2> HIDE DEF old, new, s, g
  <2>1. old = m.body[g.fn] /\ new = Body(m, old) BY DEF old, new
  <2> QED BY <1>2, <1>4, <1>5, <2>1, PairIs
<1> QED BY <1>1, <1>2, <1>3, <1>4, <1>5, <1>6

\* Once the thunk on top has called, the rest stands for G.
Resumes(m, T, G, t) ==
  \E S : Matched(m, S, G) /\ S \in Seq(Frames) /\ Advance(T) = S \o <<Moved(t)>>

\* What a thunk of the import f runs first, and what is left of it then, t being
\* its frame and o the original call.
Entered(m, c, T, G, o, f, t) ==
  /\ T # <<>> /\ G # <<>> /\ Last(T) = t /\ t.fn \in c.thunks
  /\ Calling(o) /\ Callee(m, o) = f /\ f \in Escaping(m) /\ f \in 0..(m.imports - 1)
  /\ Now(c, T) = Op("call", f) /\ Now(c, T).op = "call" /\ Now(c, T).arg = f
  /\ Resumes(m, T, Leave(o, G), t)
  /\ t \in Frames /\ Moved(t) \in Frames /\ Left(m, Moved(t))
  /\ c.body[t.fn] = Thunk(m, f) /\ Moved(t).fn = t.fn /\ Moved(t).pc = 2

LEMMA ThunkIs ==
  ASSUME NEW m, NEW f
  PROVE  /\ Len(Thunk(m, f)) = 2 /\ Thunk(m, f)[1] = Op("call", f)
         /\ Thunk(m, f)[2].op \in {"check", "unreachable"}
BY AddedAre DEF Thunk

LEMMA ThroughIs ==
  ASSUME NEW m, Valid(m), NEW c, c = Instrumented(m), NEW T, NEW G, Through(m, T, G)
  PROVE  Entered(m, c, T, G, Now(m, G), Callee(m, Now(m, G)),
                 Frame(ThunkOf(m, Callee(m, Now(m, G)))))
<1> DEFINE o == Now(m, G)
           f == Callee(m, o)
           t == Frame(ThunkOf(m, f))
<1>1. PICK S : T = S \o <<t>> /\ Matched(m, S, Leave(o, G)) BY DEF Through
<1>2. G # <<>> /\ Calling(o) /\ f \in Escaping(m) BY DEF Through
<1> HIDE DEF o, f
<1>3. f \in 0..(m.imports - 1) BY <1>2, EscapingAre
<1>4. /\ ThunkOf(m, f) \in c.thunks /\ c.body[ThunkOf(m, f)] = Thunk(m, f)
      /\ ThunkOf(m, f) \in Int
  BY <1>2, CompiledAre
<1>5. t \in Frames /\ t.fn = ThunkOf(m, f) /\ t.pc = 1 BY <1>4 DEF Frame, Frames
<1>6. /\ Moved(t) \in Frames /\ Moved(t).fn = ThunkOf(m, f) /\ Moved(t).pc = 2
  BY <1>5, MovedIs
<1>7. Left(m, Moved(t))
  <2>1. ThunkOf(m, f) \in Thunks(m) BY <1>2 DEF Thunks
  <2> QED BY <1>6, <2>1 DEF Left
<1> HIDE DEF t
<1>8. S \in Seq(Frames) BY <1>1 DEF Matched
<1>9. T # <<>> /\ Last(T) = t /\ Advance(T) = S \o <<Moved(t)>>
  <2> DEFINE V == S \o <<t>>  W == S \o <<Moved(t)>>
  <2>1. T = V BY <1>1
  <2>2. V # <<>> /\ Last(V) = t BY <1>5, <1>8, PushIs
  <2>3. Advance(V) = W BY <1>5, <1>8, AdvanceIs
  <2> HIDE DEF V, W
  <2>4. T # <<>> /\ Last(T) = t /\ Advance(T) = W BY <2>1, <2>2, <2>3
  <2> QED BY <2>4 DEF W
<1>10. c.body[t.fn] = Thunk(m, f) BY <1>4, <1>5
<1>11. Now(c, T) = Op("call", f)
  <2> DEFINE b == Thunk(m, f)
  <2>1. Len(b) = 2 /\ b[1] = Op("call", f) BY ThunkIs
  <2> HIDE DEF b
  <2>2. ~(t.pc > Len(b)) BY <1>5, <2>1
  <2>3. c.body[t.fn] = b BY <1>10 DEF b
  <2>4. Now(c, T) = IF t.pc > Len(b) THEN Op("end", None) ELSE b[t.pc]
    BY <1>9, <2>3, Zenon DEF Now
  <2> QED BY <1>5, <2>1, <2>2, <2>4, Zenon
<1>12. Now(c, T).op = "call" /\ Now(c, T).arg = f BY <1>11, OpIs
<1>13. Resumes(m, T, Leave(o, G), t) BY <1>1, <1>8, <1>9, Zenon DEF Resumes
<1>14. Callee(m, o) = f /\ t.fn \in c.thunks /\ Moved(t).fn = t.fn BY <1>4, <1>5, <1>6 DEF f
<1>15. Entered(m, c, T, G, o, f, t)
  <2>1. /\ T # <<>> /\ G # <<>> /\ Last(T) = t /\ t.fn \in c.thunks
        /\ Calling(o) /\ Callee(m, o) = f /\ f \in Escaping(m) /\ f \in 0..(m.imports - 1)
    BY <1>2, <1>3, <1>9, <1>14
  <2>2. /\ t \in Frames /\ Moved(t) \in Frames /\ Left(m, Moved(t))
        /\ c.body[t.fn] = Thunk(m, f) /\ Moved(t).fn = t.fn /\ Moved(t).pc = 2
    BY <1>5, <1>6, <1>7, <1>10, <1>14, Zenon
  <2> QED BY <1>11, <1>12, <1>13, <2>1, <2>2, Zenon DEF Entered
<1> QED BY <1>15 DEF t, f, o

\* What is left of a thunk or of a tail call of an import.
LEMMA LeavingIs ==
  ASSUME NEW m, Valid(m), NEW c, c = Instrumented(m), NEW T, NEW G, Leaving(m, T, G)
  PROVE  /\ T # <<>> /\ Matched(m, Front(T), G)
         /\ \/ Now(c, T).op = "unreachable"
            \/ Now(c, T).op = "check" /\ Leaving(m, Advance(T), G)
            \/ Now(c, T).op = "return"
            \/ Now(c, T).op = "end" /\ Last(T).fn \in c.thunks
<1>1. PICK S : \E x \in Frames : T = S \o <<x>> /\ Left(m, x) /\ Matched(m, S, G)
  BY DEF Leaving
<1>2. PICK x \in Frames : T = S \o <<x>> /\ Left(m, x) /\ Matched(m, S, G) BY <1>1
<1>3. S \in Seq(Frames) BY <1>2 DEF Matched
<1>4. /\ T # <<>> /\ Last(T) = x /\ Front(T) = S /\ Advance(T) = S \o <<Moved(x)>>
  BY <1>2, <1>3, PushIs, AdvanceIs
<1>5. /\ x.fn \in Int /\ x.pc \in Int /\ Moved(x) \in Frames
      /\ Moved(x).fn = x.fn /\ Moved(x).pc = x.pc + 1
  BY MovedIs
<1>6. Now(c, T) = IF x.pc > Len(c.body[x.fn]) THEN Op("end", None) ELSE c.body[x.fn][x.pc]
  BY <1>4 DEF Now
<1>7. Left(m, Moved(x)) => Leaving(m, Advance(T), G) BY <1>2, <1>4, <1>5 DEF Leaving
<1>8. CASE x.fn \in Thunks(m) /\ x.pc \in {2, 3}
  <2>1. PICK f \in Escaping(m) : x.fn = ThunkOf(m, f) BY <1>8 DEF Thunks
  <2>2. x.fn \in c.thunks /\ c.body[x.fn] = Thunk(m, f) BY <2>1, CompiledAre
  <2> DEFINE b == Thunk(m, f)
  <2>3. Len(b) = 2 /\ b[2].op \in {"check", "unreachable"} BY ThunkIs
  <2> HIDE DEF b
  <2>4. c.body[x.fn] = b BY <2>2 DEF b
  <2>5. CASE x.pc = 2
    <3>1. Now(c, T) = b[2]
      <4>1. ~(x.pc > Len(b)) BY <2>3, <2>5
      <4> QED BY <1>6, <2>4, <2>5, <4>1
    <3>2. Left(m, Moved(x))
      <4>1. Moved(x).pc = 3 BY <1>5, <2>5
      <4> QED BY <1>5, <1>8, <4>1 DEF Left
    <3> QED BY <1>2, <1>4, <1>7, <2>3, <3>1, <3>2
  <2>6. CASE x.pc = 3
    <3>1. x.pc > Len(b) BY <2>3, <2>6
    <3>2. Now(c, T).op = "end" BY <1>6, <2>4, <3>1, OpIs
    <3> QED BY <1>2, <1>4, <2>2, <3>2
  <2> QED BY <1>8, <2>5, <2>6
<1>9. ASSUME NEW f \in Defined(m), NEW new, new = Body(m, m.body[f]),
             x.fn = f + 1, x.pc \in 1..Len(new),
             \/ new[x.pc].op \in {"unreachable", "return"}
             \/ /\ new[x.pc].op = "check" /\ x.pc + 1 \in 1..Len(new)
                /\ new[x.pc + 1].op = "return"
      PROVE  /\ Now(c, T).op \in {"unreachable", "return"}
                \/ (Now(c, T).op = "check" /\ Left(m, Moved(x)))
  <2>1. c.body[x.fn] = new BY <1>9, CompiledAre
  <2>2. Len(new) \in Nat BY <1>9, EndsAre
  <2>3. Now(c, T) = new[x.pc]
    <3>1. ~(x.pc > Len(new)) BY <1>9, <2>2
    <3> QED BY <1>6, <2>1, <3>1
  <2>4. ASSUME new[x.pc].op = "check", x.pc + 1 \in 1..Len(new), new[x.pc + 1].op = "return"
        PROVE  Left(m, Moved(x))
    BY <1>5, <1>9, <2>4 DEF Left
  <2> QED BY <1>9, <2>3, <2>4
<1> QED BY <1>2, <1>4, <1>7, <1>8, <1>9 DEF Left

\* Both go on to their next instructions.
LEMMA BothMove ==
  ASSUME NEW m, NEW T, NEW G, Matched(m, T, G), T # <<>>
  PROVE  LET S == Front(T)  s == Last(T)  H == Front(G)  g == Last(G) IN
         /\ S \in Seq(Frames) /\ H \in Seq(Frames) /\ Matched(m, S, H)
         /\ Moved(s) \in Frames /\ Moved(g) \in Frames
         /\ Advance(T) = S \o <<Moved(s)>> /\ Advance(G) = H \o <<Moved(g)>>
         /\ Match(m, Moved(s), g) => Matched(m, Advance(T), G)
         /\ Match(m, Moved(s), Moved(g)) => Matched(m, Advance(T), Advance(G))
<1> DEFINE S == Front(T)  s == Last(T)  H == Front(G)  g == Last(G)
<1>1. T = S \o <<s>> /\ G = H \o <<g>> /\ Tops(m, S, s, H, g) BY MatchedPop
<1> HIDE DEF S, s, H, g
<1>2. Matched(m, S, H) /\ s \in Frames /\ g \in Frames BY <1>1 DEF Tops
<1>3. /\ S \in Seq(Frames) /\ H \in Seq(Frames)
      /\ Advance(S \o <<s>>) = S \o <<Moved(s)>>
      /\ Advance(H \o <<g>>) = H \o <<Moved(g)>>
      /\ Moved(s) \in Frames /\ Moved(g) \in Frames
  <2>1. S \in Seq(Frames) /\ H \in Seq(Frames) BY <1>2 DEF Matched
  <2>2. Moved(s) \in Frames /\ Moved(g) \in Frames BY <1>2, MovedIs
  <2> QED BY <1>2, <2>1, <2>2, AdvanceIs
<1>4. Advance(T) = S \o <<Moved(s)>> /\ Advance(G) = H \o <<Moved(g)>>
  BY <1>1, <1>3
<1>5. /\ Match(m, Moved(s), g) => Matched(m, Advance(T), G)
      /\ Match(m, Moved(s), Moved(g)) => Matched(m, Advance(T), Advance(G))
  BY <1>1, <1>2, <1>3, <1>4, MatchedPush
<1> QED BY <1>2, <1>3, <1>4, <1>5 DEF S, s, H, g
-----------------------------------------------------------------------------
(* What each instruction of the guest does to the frames.                  *)

LEMMA CallsAre ==
  ASSUME NEW m, Valid(m), NEW c, c = Instrumented(m), NEW i
  PROVE  /\ Calling(i) <=> i.op \in DirectCalls \cup TableCalls \cup RefCalls
         /\ i.op \in DirectCalls \cup RefCalls => Callee(m, i) = i.arg /\ Callee(c, i) = i.arg
         /\ i.op \in TableCalls => Callee(m, i) = m.table[i.arg] /\ Callee(c, i) = c.table[i.arg]
         /\ Calling(i) => i.op \notin {"check", "charge", "unreachable", "return", "end",
                                       "loop", "br", "bulk"}
BY DEF Calling, Callee, DirectCalls, TableCalls, RefCalls

\* No import of the caller's module has the index of a function in the code.
LEMMA BodiesAre ==
  ASSUME NEW m, Valid(m), NEW c, c = Instrumented(m), NEW f \in DOMAIN c.body
  PROVE  f \in Int /\ f > m.imports /\ f \notin 0..(m.imports - 1)
<1>1. m.imports \in Nat /\ \A g \in Defined(m) : g \in Int /\ m.imports <= g BY DefinedAre
<1>2. f \in Int /\ f > m.imports
  <2>1. CASE f \in c.thunks BY <2>1, CompiledAre
  <2>2. CASE f \notin c.thunks
    <3>1. PICK g \in Defined(m) : f = g + 1 BY <2>2, CompiledAre
    <3> QED BY <1>1, <3>1
  <2> QED BY <2>1, <2>2
<1> QED BY <1>1, <1>2

\* checkSequence, when the countdown is not over or the poll lets the guest go on.
LEMMA CheckKeeps ==
  ASSUME NEW m, Valid(m), NEW c, c = Instrumented(m), NEW T, NEW G, Sim(m, T, G),
         T # <<>>, Now(c, T).op \in {"check", "charge"}
  PROVE  Sim(m, Advance(T), G)
<1>1. CASE Matched(m, T, G)
  <2> DEFINE i == Now(c, T)  o == Now(m, G)  s == Last(T)  g == Last(G)
  <2>1. Pair(m, s, g, i, o) /\ i.op \in {"check", "charge"} BY <1>1, MatchedIs
  <2>2. \A a, b : Op(a, b).op = a BY OpIs
  <2> HIDE DEF i, o, s, g
  <2>3. Match(m, Moved(s), g) BY <2>1, <2>2 DEF Pair, DirectCalls, TableCalls, RefCalls
  <2>4. Matched(m, Advance(T), G) BY <1>1, <2>3, BothMove DEF s, g
  <2> QED BY <2>4 DEF Sim
<1>2. CASE Through(m, T, G)
  <2>1. Now(c, T).op = "call" BY <1>2, ThroughIs DEF Entered
  <2> QED BY <2>1
<1>3. CASE Leaving(m, T, G)
  BY <1>3, LeavingIs DEF Sim
<1> QED BY <1>1, <1>2, <1>3 DEF Sim

\* The return after a rewritten tail call, and the end of a thunk.
LEMMA ReturnKeeps ==
  ASSUME NEW m, Valid(m), NEW c, c = Instrumented(m), NEW T, NEW G, Sim(m, T, G),
         T # <<>>,
         Now(c, T).op = "return" \/ (Now(c, T).op = "end" /\ Last(T).fn \in c.thunks)
  PROVE  Matched(m, Front(T), G)
<1>1. CASE Matched(m, T, G)
  <2> DEFINE i == Now(c, T)  o == Now(m, G)  s == Last(T)  g == Last(G)
  <2>1. Pair(m, s, g, i, o) /\ s.fn \notin c.thunks BY <1>1, MatchedIs
  <2>2. i.op = "return" BY <2>1
  <2>3. \A a, b : Op(a, b).op = a BY OpIs
  <2> HIDE DEF i, o, s, g
  <2>4. FALSE BY <2>1, <2>2, <2>3 DEF Pair, DirectCalls, TableCalls, RefCalls
  <2> QED BY <2>4
<1>2. CASE Through(m, T, G)
  <2>1. Now(c, T).op = "call" BY <1>2, ThroughIs DEF Entered
  <2> QED BY <2>1
<1>3. CASE Leaving(m, T, G) BY <1>3, LeavingIs
<1> QED BY <1>1, <1>2, <1>3 DEF Sim

\* A loop, a branch, a bulk operation or the end of a function is at the same
\* place in both, and leads to the same place.
LEMMA LocalKeeps ==
  ASSUME NEW m, Valid(m), NEW c, c = Instrumented(m), NEW T, NEW G, Sim(m, T, G),
         T # <<>>, Now(c, T).op \in {"loop", "br", "bulk", "end"},
         ~(Now(c, T).op = "end" /\ Last(T).fn \in c.thunks)
  PROVE  /\ Matched(m, T, G) /\ Now(m, G) = Now(c, T)
         /\ Matched(m, Leave(Now(c, T), T), Leave(Now(m, G), G))
         /\ Now(c, T).op = "br" => Matched(m, Repeat(c, T), Repeat(m, G))
<1> DEFINE i == Now(c, T)  o == Now(m, G)
<1>1. CASE Matched(m, T, G)
  <2> DEFINE S == Front(T)  s == Last(T)  H == Front(G)  g == Last(G)
  <2>11. Pair(m, s, g, i, o) BY <1>1, MatchedIs
  <2>12. Tops(m, S, s, H, g) BY <1>1, MatchedPop
  <2>13. s \in Frames /\ g \in Frames /\ g.fn \in Defined(m) /\ s.fn = g.fn + 1
    BY <2>12 DEF Tops, Match
  <2>14. c.body[s.fn] = Body(m, m.body[g.fn]) BY <2>13, CompiledAre
  <2>1. /\ Tops(m, S, s, H, g) /\ Pair(m, s, g, i, o)
        /\ c.body[s.fn] = Body(m, m.body[g.fn])
        /\ s \in Frames /\ g \in Frames /\ g.fn \in Defined(m) /\ s.fn = g.fn + 1
    BY <2>11, <2>12, <2>13, <2>14
  <2>10. /\ i = IF s.pc > Len(c.body[s.fn]) THEN Op("end", None) ELSE c.body[s.fn][s.pc]
         /\ o = IF g.pc > Len(m.body[g.fn]) THEN Op("end", None) ELSE m.body[g.fn][g.pc]
    BY DEF Now
  <2>5. /\ S \in Seq(Frames) /\ H \in Seq(Frames) /\ Matched(m, S, H)
        /\ Match(m, Moved(s), Moved(g)) => Matched(m, Advance(T), Advance(G))
    BY <1>1, BothMove
  <2>2. \A a, b : Op(a, b).op = a BY OpIs
  <2>3. i.op \in {"loop", "br", "bulk", "end"} /\ Pair(m, s, g, i, o) BY <2>1
  <2>9. Front(T) = S /\ Front(G) = H /\ Last(T) = s /\ Last(G) = g OBVIOUS
  <2> HIDE DEF i, o, S, s, H, g
  <2>4. \/ i.op = "end" /\ o = i
        \/ i = o /\ i.op \in {"loop", "br", "bulk"} /\ Match(m, Moved(s), Moved(g))
    BY <2>2, <2>3 DEF Pair, DirectCalls, TableCalls, RefCalls
  <2>6. Matched(m, Leave(i, T), Leave(o, G))
    <3>1. CASE i.op = "end" /\ o = i
      <4>1. Leave(i, T) = Front(T) /\ Leave(o, G) = Front(G) BY <3>1 DEF Leave
      <4> QED BY <2>5, <2>9, <4>1
    <3>2. CASE i = o /\ i.op \in {"loop", "br", "bulk"} /\ Match(m, Moved(s), Moved(g))
      <4>1. Leave(i, T) = Advance(T) /\ Leave(o, G) = Advance(G) BY <3>2 DEF Leave, Tails
      <4> QED BY <2>5, <3>2, <4>1
    <3> QED BY <2>4, <3>1, <3>2
  <2>7. ASSUME i.op = "br" PROVE Matched(m, Repeat(c, T), Repeat(m, G))
    <3> DEFINE f == g.fn  k == g.pc  old == m.body[f]  new == Body(m, old)
    <3>1. i = o /\ o.op = "br" BY <2>4, <2>7
    <3>2. ~(k > Len(old)) /\ o = old[k] BY <2>2, <2>10, <3>1
    <3>3. i = new[s.pc]
      <4>1. ~(s.pc > Len(new)) BY <2>1, <2>2, <2>7, <2>10
      <4> QED BY <2>1, <2>10, <4>1
    <3>4. k \in 1..Len(old)
      <4>1. k \in 1..(Len(old) + 1) BY <2>1 DEF Tops, Match
      <4>2. Len(old) \in Nat BY <2>1, EndsAre
      <4> QED BY <3>2, <4>1, <4>2
    <3>5. PICK l \in 1..Len(old) :
            /\ LoopFor(old, k) = l
            /\ LoopFor(new, s.pc) = At(m, old)[l]
            /\ At(m, old)[l] \in Int
            /\ Match(m, [fn |-> f + 1, pc |-> At(m, old)[l] + 1], [fn |-> f, pc |-> l + 1])
      <4>1. f \in Defined(m) /\ m.body[f][k].op = "br" /\ Body(m, m.body[f])[s.pc] = m.body[f][k]
        BY <2>1, <3>1, <3>2, <3>3
      <4> QED BY <3>4, <4>1, LoopsAre
    <3> DEFINE t == [fn |-> f + 1, pc |-> At(m, old)[l] + 1]
               u == [fn |-> f, pc |-> l + 1]
    <3>6. Repeat(c, T) = S \o <<t>>
      <4>1. [s EXCEPT !.pc = At(m, old)[l] + 1] = t BY <2>1 DEF Frames
      <4>2. Repeat(c, T) = S \o <<[s EXCEPT !.pc = LoopFor(new, s.pc) + 1]>>
        <5> HIDE DEF new
        <5>1. c.body[s.fn] = new BY <2>1 DEF new
        <5> QED BY <2>9, <5>1 DEF Repeat, LoopFor
      <4> QED BY <3>5, <4>1, <4>2
    <3>7. Repeat(m, G) = H \o <<u>>
      <4>1. [g EXCEPT !.pc = l + 1] = u BY <2>1 DEF Frames
      <4>2. Repeat(m, G) = H \o <<[g EXCEPT !.pc = LoopFor(old, k) + 1]>>
        BY <2>9 DEF Repeat, LoopFor
      <4> QED BY <3>5, <4>1, <4>2
    <3>8. t \in Frames /\ u \in Frames
      <4>1. f \in Int BY <2>1 DEF Frames
      <4> QED BY <3>5, <4>1 DEF Frames
    <3> HIDE DEF old, new, t, u
    <3> QED BY <2>5, <3>5, <3>6, <3>7, <3>8, MatchedPush DEF t, u, old
  <2>8. o = i BY <2>4
  <2> QED BY <1>1, <2>6, <2>7, <2>8 DEF i, o
<1>2. CASE Through(m, T, G)
  <2>1. Now(c, T).op = "call" BY <1>2, ThroughIs DEF Entered
  <2> QED BY <2>1
<1>3. CASE Leaving(m, T, G)
  <2>1. FALSE BY <1>3, LeavingIs
  <2> QED BY <2>1
<1> QED BY <1>1, <1>2, <1>3 DEF Sim

\* A call that matches its original reaches the function the original reaches,
\* at its new index, or that import, directly or through its thunk.
Reaches(m, c, T, G, i, o) ==
  \/ /\ Callee(m, o) \in Defined(m) /\ Callee(c, i) = Callee(m, o) + 1
     /\ Matched(m, Leave(i, T), Leave(o, G))
  \/ /\ Callee(m, o) \in Escaping(m) /\ Callee(c, i) = ThunkOf(m, Callee(m, o))
     /\ Matched(m, Leave(i, T), Leave(o, G))
  \/ /\ i = Op("call", Callee(m, o)) /\ Callee(m, o) \in 0..(m.imports - 1)
     /\ Last(T).pc + 1 \in 1..Len(c.body[Last(T).fn])
     /\ c.body[Last(T).fn][Last(T).pc + 1].op \in {"check", "unreachable"}
     /\ \/ Matched(m, Advance(T), Leave(o, G))
        \/ Leaving(m, Advance(T), Leave(o, G))

LEMMA CalleesAre ==
  ASSUME NEW m, Valid(m), NEW c, c = Instrumented(m), NEW T, NEW G, Matched(m, T, G),
         T # <<>>, Calling(Now(c, T))
  PROVE  Calling(Now(m, G)) /\ Reaches(m, c, T, G, Now(c, T), Now(m, G))
<1> DEFINE i == Now(c, T)  o == Now(m, G)
           S == Front(T)  s == Last(T)  H == Front(G)  g == Last(G)
<1>1. Pair(m, s, g, i, o) BY MatchedIs
<1>2. Tops(m, S, s, H, g) BY MatchedPop
<1>3. s \in Frames /\ g \in Frames /\ g.fn \in Defined(m) /\ s.fn = g.fn + 1
      /\ Matched(m, S, H)
  BY <1>2 DEF Tops, Match
<1>4. c.body[s.fn] = Body(m, m.body[g.fn]) BY <1>3, CompiledAre
<1>5. /\ S \in Seq(Frames) /\ H \in Seq(Frames)
      /\ Moved(s) \in Frames /\ Moved(g) \in Frames
      /\ Advance(T) = S \o <<Moved(s)>> /\ Advance(G) = H \o <<Moved(g)>>
      /\ Match(m, Moved(s), Moved(g)) => Matched(m, Advance(T), Advance(G))
  BY BothMove
<1>6. Front(T) = S /\ Front(G) = H /\ Last(T) = s /\ Last(G) = g /\ Calling(i) OBVIOUS
<1>7. \A a, b : Op(a, b).op = a /\ Op(a, b).arg = b BY OpIs
<1>8. Defined(m) # {} BY <1>3
<1>9. ASSUME NEW f \in Defined(m) \cup ToSet(Used(m))
      PROVE  \/ f \in Defined(m) /\ Reference(m, f) = f + 1
             \/ f \in Escaping(m) /\ Reference(m, f) = ThunkOf(m, f)
  BY <1>8, ReferenceIs
<1> HIDE DEF i, o, S, s, H, g
\* A call of the same kind.
<1>10. ASSUME i.op = o.op, Match(m, Moved(s), Moved(g))
       PROVE  Matched(m, Leave(i, T), Leave(o, G))
  <2>1. i.op \notin {"end", "return"}
    BY <1>6 DEF Calling, DirectCalls, TableCalls, RefCalls
  <2>2. CASE i.op \in Tails
    <3>1. Leave(i, T) = S /\ Leave(o, G) = H BY <1>6, <1>10, <2>2 DEF Leave
    <3> QED BY <1>3, <3>1
  <2>3. CASE i.op \notin Tails
    <3>1. Leave(i, T) = Advance(T) /\ Leave(o, G) = Advance(G)
      BY <1>10, <2>1, <2>3 DEF Leave
    <3> QED BY <1>5, <1>10, <3>1
  <2> QED BY <2>2, <2>3
<1>11. \/ /\ o.op \in DirectCalls /\ o.arg \in Defined(m) /\ i = Op(o.op, o.arg + 1)
          /\ Match(m, Moved(s), Moved(g))
       \/ /\ o.op \in DirectCalls /\ o.arg \in 0..(m.imports - 1) /\ i = Op("call", o.arg)
          /\ s.pc + 1 \in 1..Len(Body(m, m.body[g.fn]))
          /\ Body(m, m.body[g.fn])[s.pc + 1].op \in {"check", "unreachable"}
          /\ IF o.op = "call" THEN Match(m, Moved(s), Moved(g)) ELSE Left(m, Moved(s))
       \/ /\ o.op \in TableCalls /\ o.arg \in DOMAIN m.table /\ i = o
          /\ Match(m, Moved(s), Moved(g))
       \/ /\ o.op \in RefCalls /\ o.arg \in Defined(m) \cup ToSet(Used(m))
          /\ i = Op(o.op, Reference(m, o.arg))
          /\ Match(m, Moved(s), Moved(g))
  <2>1. i.op \notin {"check", "charge", "unreachable", "return", "end", "loop", "br", "bulk"}
    BY <1>6 DEF Calling, DirectCalls, TableCalls, RefCalls
  <2> QED BY <1>1, <1>7, <2>1 DEF Pair
<1>12. CASE /\ o.op \in DirectCalls /\ o.arg \in Defined(m) /\ i = Op(o.op, o.arg + 1)
            /\ Match(m, Moved(s), Moved(g))
  <2>1. i.op = o.op /\ i.arg = o.arg + 1 BY <1>7, <1>12
  <2>2. Calling(o) BY <1>12 DEF Calling
  <2>3. Callee(m, o) = o.arg /\ Callee(c, i) = i.arg BY <1>12, <2>1, CallsAre
  <2> QED BY <1>10, <1>12, <2>1, <2>2, <2>3 DEF Reaches, i, o
<1>13. CASE /\ o.op \in DirectCalls /\ o.arg \in 0..(m.imports - 1) /\ i = Op("call", o.arg)
            /\ s.pc + 1 \in 1..Len(Body(m, m.body[g.fn]))
            /\ Body(m, m.body[g.fn])[s.pc + 1].op \in {"check", "unreachable"}
            /\ IF o.op = "call" THEN Match(m, Moved(s), Moved(g)) ELSE Left(m, Moved(s))
  <2>1. Calling(o) BY <1>13 DEF Calling
  <2>2. Callee(m, o) = o.arg BY <1>13, CallsAre
  <2>3. Matched(m, Advance(T), Leave(o, G)) \/ Leaving(m, Advance(T), Leave(o, G))
    <3>1. CASE o.op = "call"
      <4>1. Leave(o, G) = Advance(G) BY <3>1 DEF Leave, Tails
      <4> QED BY <1>5, <1>13, <3>1, <4>1
    <3>2. CASE o.op # "call"
      <4>1. o.op = "return_call" BY <1>13, <3>2 DEF DirectCalls
      <4>2. Leave(o, G) = H BY <1>6, <4>1 DEF Leave, Tails
      <4>3. Left(m, Moved(s)) BY <1>13, <3>2
      <4> QED BY <1>3, <1>5, <4>2, <4>3 DEF Leaving
    <3> QED BY <3>1, <3>2
  <2>4. /\ Last(T).pc + 1 \in 1..Len(c.body[Last(T).fn])
        /\ c.body[Last(T).fn][Last(T).pc + 1].op \in {"check", "unreachable"}
    BY <1>4, <1>6, <1>13
  <2>5. i = Op("call", Callee(m, o)) /\ Callee(m, o) \in 0..(m.imports - 1)
    BY <1>13, <2>2
  <2>6. Reaches(m, c, T, G, i, o) BY <2>3, <2>4, <2>5 DEF Reaches
  <2> QED BY <2>1, <2>6 DEF i, o
<1>14. CASE /\ o.op \in TableCalls /\ o.arg \in DOMAIN m.table /\ i = o
            /\ Match(m, Moved(s), Moved(g))
  <2>1. Calling(o) BY <1>14 DEF Calling
  <2>2. Callee(m, o) = m.table[o.arg] /\ Callee(c, i) = c.table[o.arg] BY <1>14, CallsAre
  <2>3. c.table[o.arg] = Reference(m, m.table[o.arg]) BY <1>14, CompiledAre
  <2>4. m.table[o.arg] \in Defined(m) \cup ToSet(Used(m)) BY <1>8, <1>14, TableIs
  <2>5. Matched(m, Leave(i, T), Leave(o, G)) BY <1>10, <1>14
  <2>6. Reaches(m, c, T, G, i, o) BY <1>9, <2>2, <2>3, <2>4, <2>5 DEF Reaches
  <2> QED BY <2>1, <2>6 DEF i, o
<1>15. CASE /\ o.op \in RefCalls /\ o.arg \in Defined(m) \cup ToSet(Used(m))
            /\ i = Op(o.op, Reference(m, o.arg)) /\ Match(m, Moved(s), Moved(g))
  <2>1. i.op = o.op /\ i.arg = Reference(m, o.arg) BY <1>7, <1>15
  <2>2. Calling(o) BY <1>15 DEF Calling
  <2>3. Callee(m, o) = o.arg /\ Callee(c, i) = i.arg BY <1>15, <2>1, CallsAre
  <2>4. Matched(m, Leave(i, T), Leave(o, G)) BY <1>10, <1>15, <2>1
  <2>5. Reaches(m, c, T, G, i, o) BY <1>9, <1>15, <2>1, <2>3, <2>4 DEF Reaches
  <2> QED BY <2>2, <2>5 DEF i, o
<1> QED BY <1>11, <1>12, <1>13, <1>14, <1>15

\* A call that reaches a function of the code other than a thunk: both enter it.
LEMMA CallKeeps ==
  ASSUME NEW m, Valid(m), NEW c, c = Instrumented(m), NEW T, NEW G, Sim(m, T, G),
         T # <<>>, Calling(Now(c, T)),
         Callee(c, Now(c, T)) \in DOMAIN c.body \ c.thunks
  PROVE  LET i == Now(c, T)  o == Now(m, G) IN
         Matched(m, Leave(i, T) \o <<Frame(Callee(c, i))>>,
                    Leave(o, G) \o <<Frame(Callee(m, o))>>)
<1> DEFINE i == Now(c, T)  o == Now(m, G)  f == Callee(m, o)
<1>1. Callee(c, i) \notin c.thunks /\ Callee(c, i) \notin 0..(m.imports - 1) BY BodiesAre
<1>2. CASE Matched(m, T, G)
  <2>1. Reaches(m, c, T, G, i, o) BY <1>2, CalleesAre
  <2>2. \A a : Callee(c, Op("call", a)) = a BY OpIs DEF Callee, TableCalls
  <2>3. \A a \in Escaping(m) : ThunkOf(m, a) \in c.thunks BY CompiledAre
  <2> HIDE DEF i, o
  <2>4. /\ f \in Defined(m) /\ Callee(c, i) = f + 1
        /\ Matched(m, Leave(i, T), Leave(o, G))
    BY <1>1, <2>1, <2>2, <2>3 DEF Reaches
  <2> HIDE DEF f
  <2>5. Frame(f) \in Frames /\ Frame(f + 1) \in Frames /\ Match(m, Frame(f + 1), Frame(f))
    BY <2>4, EntryIs
  <2>6. Matched(m, Leave(i, T) \o <<Frame(f + 1)>>, Leave(o, G) \o <<Frame(f)>>)
    BY <2>4, <2>5, MatchedPush
  <2> QED BY <2>4, <2>6 DEF i, o, f
<1>3. CASE Through(m, T, G)
  <2>0. Entered(m, c, T, G, o, f, Frame(ThunkOf(m, f))) BY <1>3, ThroughIs
  <2>1. i = Op("call", f) /\ f \in 0..(m.imports - 1) BY <2>0 DEF Entered
  <2>2. Callee(c, i) = f BY <2>1, OpIs DEF Callee, TableCalls
  <2> QED BY <1>1, <2>1, <2>2
<1>4. CASE Leaving(m, T, G)
  <2>1. FALSE BY <1>4, LeavingIs, CallsAre
  <2> QED BY <2>1
<1> QED BY <1>2, <1>3, <1>4 DEF Sim

\* A call that reaches a thunk stands before the call of its import.
LEMMA ThunkKeeps ==
  ASSUME NEW m, Valid(m), NEW c, c = Instrumented(m), NEW T, NEW G, Sim(m, T, G),
         T # <<>>, Calling(Now(c, T)), Callee(c, Now(c, T)) \in c.thunks
  PROVE  Through(m, Leave(Now(c, T), T) \o <<Frame(Callee(c, Now(c, T)))>>, G)
<1> DEFINE i == Now(c, T)  o == Now(m, G)  f == Callee(m, o)
<1>1. /\ Callee(c, i) \notin 0..(m.imports - 1)
      /\ \A g \in Defined(m) : g + 1 \notin c.thunks
  <2>1. Callee(c, i) \in DOMAIN c.body BY CompiledAre
  <2>2. \A g \in Defined(m) : g + 1 \notin c.thunks BY CompiledAre
  <2> QED BY <2>1, <2>2, BodiesAre
<1>2. CASE Matched(m, T, G)
  <2>1. Calling(o) /\ Reaches(m, c, T, G, i, o) BY <1>2, CalleesAre
  <2>2. \A a : Callee(c, Op("call", a)) = a BY OpIs DEF Callee, TableCalls
  <2>3. G # <<>> BY <1>2, MatchedPop
  <2> HIDE DEF i
  <2>4. Callee(c, i) \in c.thunks BY DEF i
  <2>5. /\ f \in Escaping(m) /\ Callee(c, i) = ThunkOf(m, f)
        /\ Matched(m, Leave(i, T), Leave(o, G))
    BY <1>1, <2>1, <2>2, <2>4 DEF Reaches
  <2>6. Through(m, Leave(i, T) \o <<Frame(Callee(c, i))>>, G)
    BY <2>1, <2>3, <2>5 DEF Through
  <2> QED BY <2>6 DEF i
<1>3. CASE Through(m, T, G)
  <2>0. Entered(m, c, T, G, o, f, Frame(ThunkOf(m, f))) BY <1>3, ThroughIs
  <2>1. i = Op("call", f) /\ f \in 0..(m.imports - 1) BY <2>0 DEF Entered
  <2>2. Callee(c, i) = f BY <2>1, OpIs DEF Callee, TableCalls
  <2> QED BY <1>1, <2>1, <2>2
<1>4. CASE Leaving(m, T, G)
  <2>1. FALSE BY <1>4, LeavingIs, CallsAre
  <2> QED BY <2>1
<1> QED BY <1>2, <1>3, <1>4 DEF Sim

\* A call of an import is the original's call, and the next instruction polls,
\* or is never reached.
LEMMA ImportKeeps ==
  ASSUME NEW m, Valid(m), NEW c, c = Instrumented(m), NEW T, NEW G, Sim(m, T, G),
         T # <<>>, Now(c, T).op = "call", Now(c, T).arg \in 0..(m.imports - 1)
  PROVE  /\ Calling(Now(m, G)) /\ Callee(m, Now(m, G)) = Now(c, T).arg
         /\ Sim(m, Advance(T), Leave(Now(m, G), G)) /\ Advance(T) # <<>>
         /\ Now(c, Advance(T)).op \in {"check", "unreachable"}
<1> DEFINE i == Now(c, T)  o == Now(m, G)  f == Callee(m, o)
<1>0. /\ Calling(i) /\ Callee(c, i) = i.arg BY DEF Calling, Callee, DirectCalls, TableCalls
\* What stands where Advance leads.
<1>1. ASSUME NEW S \in Seq(Frames), NEW t \in Frames, Advance(T) = S \o <<t>>,
             t.pc \in 1..Len(c.body[t.fn]), Len(c.body[t.fn]) \in Nat,
             c.body[t.fn][t.pc].op \in {"check", "unreachable"}
      PROVE  Advance(T) # <<>> /\ Now(c, Advance(T)).op \in {"check", "unreachable"}
  <2>1. S \o <<t>> # <<>> /\ Last(S \o <<t>>) = t BY PushIs
  <2> DEFINE A == Advance(T)
  <2>2. A # <<>> /\ Last(A) = t BY <1>1, <2>1
  <2> HIDE DEF A
  <2>3. ~(t.pc > Len(c.body[t.fn])) BY <1>1
  <2>4. Now(c, A) = c.body[t.fn][t.pc] BY <2>2, <2>3 DEF Now
  <2> QED BY <1>1, <2>2, <2>4 DEF A
<1>2. CASE Matched(m, T, G)
  <2> DEFINE s == Last(T)
  <2>1. Calling(o) /\ Reaches(m, c, T, G, i, o) BY <1>0, <1>2, CalleesAre
  <2>2. Callee(c, i) \in 0..(m.imports - 1) BY <1>0
  <2>3. \A g \in Defined(m) : g + 1 \notin 0..(m.imports - 1)
    <3>1. \A g \in Defined(m) : g + 1 \in DOMAIN c.body BY CompiledAre
    <3> QED BY <3>1, BodiesAre
  <2>4. \A g \in Escaping(m) : ThunkOf(m, g) \notin 0..(m.imports - 1)
    <3>1. \A g \in Escaping(m) : ThunkOf(m, g) \in DOMAIN c.body BY CompiledAre
    <3> QED BY <3>1, BodiesAre
  <2> HIDE DEF i, o
  <2>5. /\ i = Op("call", f)
        /\ s.pc + 1 \in 1..Len(c.body[s.fn])
        /\ c.body[s.fn][s.pc + 1].op \in {"check", "unreachable"}
        /\ Matched(m, Advance(T), Leave(o, G)) \/ Leaving(m, Advance(T), Leave(o, G))
    BY <2>1, <2>2, <2>3, <2>4 DEF Reaches
  <2>6. i.arg = f BY <2>5, OpIs
  <2>7. /\ Front(T) \in Seq(Frames) /\ Moved(s) \in Frames
        /\ Advance(T) = Front(T) \o <<Moved(s)>>
    BY <1>2, BothMove
  <2>8. s \in Frames /\ Last(G).fn \in Defined(m) /\ s.fn = Last(G).fn + 1
    BY <1>2, MatchedPop DEF Tops, Match
  <2>9. Len(c.body[s.fn]) \in Nat
    <3>1. c.body[s.fn] = Body(m, m.body[Last(G).fn]) BY <2>8, CompiledAre
    <3>2. Len(Body(m, m.body[Last(G).fn])) \in Nat BY <2>8, EndsAre
    <3> QED BY <3>1, <3>2
  <2>10. Moved(s).fn = s.fn /\ Moved(s).pc = s.pc + 1 BY <2>8, MovedIs
  <2> HIDE DEF s
  <2>11. Advance(T) # <<>> /\ Now(c, Advance(T)).op \in {"check", "unreachable"}
    BY <1>1, <2>5, <2>7, <2>9, <2>10
  <2>12. Sim(m, Advance(T), Leave(o, G)) BY <2>5 DEF Sim
  <2> QED BY <2>1, <2>6, <2>11, <2>12 DEF i, o
<1>3. CASE Through(m, T, G)
  <2> DEFINE t == Frame(ThunkOf(m, f))  b == Thunk(m, f)
  <2>1. Entered(m, c, T, G, o, f, t) BY <1>3, ThroughIs
  <2> HIDE DEF i, o, f, t
  <2>2. PICK S : Matched(m, S, Leave(o, G)) /\ S \in Seq(Frames) /\ Advance(T) = S \o <<Moved(t)>>
    BY <2>1 DEF Entered, Resumes
  <2>3. /\ Calling(o) /\ Callee(m, o) = f /\ i.arg = f
        /\ Moved(t) \in Frames /\ Left(m, Moved(t)) /\ Moved(t).fn = t.fn
        /\ Moved(t).pc = 2 /\ c.body[t.fn] = b
    BY <2>1 DEF Entered, i
  <2>4. Len(b) = 2 /\ b[2].op \in {"check", "unreachable"} BY ThunkIs
  <2> HIDE DEF b
  <2>5. /\ Moved(t).pc \in 1..Len(c.body[Moved(t).fn]) /\ Len(c.body[Moved(t).fn]) \in Nat
        /\ c.body[Moved(t).fn][Moved(t).pc].op \in {"check", "unreachable"}
    BY <2>3, <2>4
  <2>6. Leaving(m, Advance(T), Leave(o, G)) BY <2>2, <2>3 DEF Leaving
  <2>7. Advance(T) # <<>> /\ Now(c, Advance(T)).op \in {"check", "unreachable"}
    BY <1>1, <2>2, <2>3, <2>5
  <2> QED BY <2>3, <2>6, <2>7 DEF Sim, i, o, f
<1>4. CASE Leaving(m, T, G)
  <2>1. FALSE BY <1>4, LeavingIs
  <2> QED BY <2>1
<1> QED BY <1>2, <1>3, <1>4 DEF Sim

\* The start function and _start are entered together.
LEMMA BothEnter ==
  ASSUME NEW m, Valid(m), NEW f \in Defined(m)
  PROVE  Matched(m, <<Frame(f + 1)>>, <<Frame(f)>>)
<1>1. Frame(f) \in Frames /\ Frame(f + 1) \in Frames /\ Match(m, Frame(f + 1), Frame(f))
  BY EntryIs
<1>2. Matched(m, <<>> \o <<Frame(f + 1)>>, <<>> \o <<Frame(f)>>)
  BY <1>1, MatchedNone, MatchedPush
<1>3. <<>> \o <<Frame(f + 1)>> = <<Frame(f + 1)>> /\ <<>> \o <<Frame(f)>> = <<Frame(f)>>
  BY <1>1
<1> QED BY <1>2, <1>3
-----------------------------------------------------------------------------
(* The guest follows its ghost, and a stop is at the next poll.            *)

\* A sleeping thread is inside a call of an import.
NapInv ==
  nap # None => stack # <<>> /\ Instruction.op = "call" /\ Instruction.arg \in 0..(program.imports - 1)

\* Once the host has the countdown, a recorded stop has zeroed it and the guest
\* is at a poll, or after a proc_exit that does not return.
Stopped ==
  /\ phase = "instantiate" => stack = <<>>
  /\ phase \in {"instantiate", "start"} => ~known
  /\ stop # None /\ known /\ stack # <<>> =>
       countdown = 0 /\ Instruction.op \in {"check", "unreachable"}

SimInv == IInv /\ Sim(program, stack, ghost) /\ NapInv /\ Stopped

\* What a step of the guest must show besides IInv'.
Follows ==
  /\ UNCHANGED static /\ Sim(program, stack', ghost') /\ NapInv' /\ Stopped'
  /\ stop # None => RunsNothing

LEMMA CompiledIs ==
  ASSUME TypeOK
  PROVE  /\ Valid(program) /\ code = Instrumented(program)
         /\ program.imports \in Nat /\ code.imports = program.imports + 1
         /\ Sleepers \subseteq 0..(program.imports - 1)
<1>1. Valid(program) /\ code = Instrumented(program) /\ Sleepers \subseteq 0..(program.imports - 1)
  BY GuestAssumption DEF TypeOK
<1> QED BY <1>1, CompiledAre DEF Valid

LEMMA EmptySim == ASSUME NEW m PROVE Sim(m, <<>>, <<>>)
BY MatchedNone DEF Sim

\* A step of an awake guest that records no stop, while none is in force that
\* the guest has to obey.
LEMMA RunsOn ==
  ASSUME SimInv, stack # <<>>, nap = None, UNCHANGED <<static, phase, known, nap, stop>>,
         stop = None \/ ~known, Sim(program, stack', ghost')
  PROVE  Follows
<1>1. phase # "instantiate" BY DEF SimInv, Stopped
<1>2. NapInv' BY DEF NapInv
<1>3. stop' # None /\ known' => FALSE OBVIOUS
<1>4. Stopped' BY <1>1, <1>3 DEF SimInv, Stopped
<1> QED BY <1>2, <1>4 DEF Follows, RunsNothing

\* A trap.
LEMMA TrapFollows ==
  ASSUME SimInv, stack # <<>>, nap = None, UNCHANGED <<static, phase, known, nap>>, Trap
  PROVE  Follows
<1>1. phase # "instantiate" BY DEF SimInv, Stopped
<1>2. stack' = <<>> /\ ghost' = <<>> BY DEF Trap
<1>3. NapInv' BY DEF NapInv
<1>4. Stopped' BY <1>1, <1>2 DEF SimInv, Stopped
<1>5. Sim(program, stack', ghost') BY <1>2, EmptySim
<1>6. RunsNothing BY <1>2 DEF RunsNothing
<1> QED BY <1>3, <1>4, <1>5, <1>6 DEF Follows

\* Only a poll, or the end of the run, is left of a guest that must stop.
LEMMA MustStop ==
  ASSUME SimInv, stack # <<>>, ~(stop = None \/ ~known)
  PROVE  countdown = 0 /\ Instruction.op \in {"check", "unreachable"}
BY DEF SimInv, Stopped

LEMMA FollowsCheck ==
  ASSUME SimInv, RunCheck \/ RunCharge
  PROVE  Follows
<1>1. /\ stack # <<>> /\ nap = None /\ UNCHANGED <<static, phase, known, nap>>
      /\ Instruction.op \in {"check", "charge"}
      /\ \/ \E rest : Poll(rest) /\ (countdown = 0 \/ Instruction.op = "charge")
         \/ /\ countdown > 0 \/ Instruction.op = "charge"
            /\ stack' = Advance(stack) /\ UNCHANGED <<stop, ghost>>
  BY DEF RunCheck, RunCharge, Charge, Executing
<1>2. Sim(program, Advance(stack), ghost)
  BY <1>1, CheckKeeps, CompiledIs DEF SimInv, IInv, Instruction
<1>3. CASE Trap BY <1>1, <1>3, TrapFollows
<1>4. CASE stop = None /\ stack' = Advance(stack) /\ UNCHANGED <<stop, ghost>>
  <2>1. Sim(program, stack', ghost') BY <1>2, <1>4
  <2> QED BY <1>1, <1>4, <2>1, RunsOn
<1>5. CASE /\ countdown > 0 \/ Instruction.op = "charge"
           /\ stack' = Advance(stack) /\ UNCHANGED <<stop, ghost>>
  <2>1. stop = None \/ ~known
    <3>1. ~(0 > 0) OBVIOUS
    <3> QED BY <1>1, <1>5, <3>1, MustStop
  <2>2. Sim(program, stack', ghost') BY <1>2, <1>5
  <2> QED BY <1>1, <1>5, <2>1, <2>2, RunsOn
<1>6. ASSUME NEW rest, Poll(rest)
      PROVE  Trap \/ (stop = None /\ stack' = Advance(stack) /\ UNCHANGED <<stop, ghost>>)
  BY <1>6 DEF Poll
<1> QED BY <1>1, <1>3, <1>4, <1>5, <1>6

LEMMA FollowsCode ==
  ASSUME SimInv, RunUnreachable \/ RunAddedReturn \/ RunThunk \/ RunLocal \/ RunCall
  PROVE  Follows
<1> USE CompiledIs DEF SimInv, IInv
<1>1. CASE RunUnreachable
  <2>1. /\ stack # <<>> /\ nap = None /\ UNCHANGED <<static, phase, known, nap>> /\ Trap
    BY <1>1 DEF RunUnreachable, Executing
  <2> QED BY <2>1, TrapFollows
<1>2. CASE RunAddedReturn
  <2>1. /\ stack # <<>> /\ nap = None /\ UNCHANGED <<static, phase, known, nap, stop, ghost>>
        /\ Instruction.op = "return" \/ (Instruction.op = "end" /\ IsThunk)
        /\ stack' = Front(stack)
    BY <1>2 DEF RunAddedReturn, Executing
  <2>2. Matched(program, Front(stack), ghost)
    BY <2>1, ReturnKeeps DEF Instruction, IsThunk
  <2>3. Sim(program, stack', ghost') BY <2>1, <2>2 DEF Sim
  <2>4. stop = None \/ ~known BY <2>1, MustStop
  <2> QED BY <2>1, <2>3, <2>4, RunsOn
<1>3. CASE RunThunk
  <2>1. /\ stack # <<>> /\ nap = None /\ UNCHANGED <<static, phase, known, nap, stop, ghost>>
        /\ Calling(Instruction) /\ Callee(code, Instruction) \in code.thunks
        /\ stack' = Leave(Instruction, stack) \o <<Frame(Callee(code, Instruction))>>
    BY <1>3 DEF RunThunk, Executing
  <2>2. Through(program, stack', ghost')
    BY <2>1, ThunkKeeps DEF Instruction
  <2>3. Sim(program, stack', ghost') BY <2>2 DEF Sim
  <2>4. stop = None \/ ~known BY <2>1, MustStop, CallsAre
  <2> QED BY <2>1, <2>3, <2>4, RunsOn
<1>4. CASE RunLocal
  <2>1. /\ stack # <<>> /\ nap = None /\ UNCHANGED <<static, phase, known, nap, stop>>
        /\ Instruction.op \in {"loop", "br", "bulk", "end"}
        /\ ~(Instruction.op = "end" /\ IsThunk)
        /\ \/ stack' = Leave(Instruction, stack) /\ ghost' = Leave(Original, ghost)
           \/ /\ Instruction.op = "br"
              /\ stack' = Repeat(code, stack) /\ ghost' = Repeat(program, ghost)
    BY <1>4 DEF RunLocal, Executing
  <2>2. /\ Matched(program, Leave(Instruction, stack), Leave(Original, ghost))
        /\ Instruction.op = "br" => Matched(program, Repeat(code, stack), Repeat(program, ghost))
    BY <2>1, LocalKeeps DEF Instruction, IsThunk, Original
  <2>3. Sim(program, stack', ghost') BY <2>1, <2>2 DEF Sim
  <2>4. stop = None \/ ~known BY <2>1, MustStop
  <2> QED BY <2>1, <2>3, <2>4, RunsOn
<1>5. CASE RunCall
  <2>1. /\ stack # <<>> /\ nap = None /\ UNCHANGED <<static, phase, known, nap, stop>>
        /\ Calling(Instruction) /\ Callee(code, Instruction) \in DOMAIN code.body \ code.thunks
        /\ \/ Trap
           \/ /\ stack' = Leave(Instruction, stack) \o <<Frame(Callee(code, Instruction))>>
              /\ ghost' = Leave(Original, ghost) \o <<Frame(Callee(program, Original))>>
    BY <1>5 DEF RunCall, Executing
  <2>2. CASE Trap BY <2>1, <2>2, TrapFollows
  <2>3. CASE /\ stack' = Leave(Instruction, stack) \o <<Frame(Callee(code, Instruction))>>
             /\ ghost' = Leave(Original, ghost) \o <<Frame(Callee(program, Original))>>
    <3>1. Matched(program, stack', ghost')
      BY <2>1, <2>3, CallKeeps DEF Instruction, Original
    <3>2. Sim(program, stack', ghost') BY <3>1 DEF Sim
    <3>3. stop = None \/ ~known BY <2>1, MustStop, CallsAre
    <3> QED BY <2>1, <3>2, <3>3, RunsOn
  <2> QED BY <2>1, <2>2, <2>3
<1> QED BY <1>1, <1>2, <1>3, <1>4, <1>5

\* An import's answer: a stop it records is in force for the guest at once.
LEMMA AnswerStops ==
  ASSUME NEW f, Answer(f), stop = None
  PROVE  stop' # None /\ known => countdown' = 0
BY DEF Answer, Halt

\* An import returns.
LEMMA Returns ==
  ASSUME SimInv, stack # <<>>, UNCHANGED <<static, phase, known>>, nap' = None,
         Instruction.op = "call", Instruction.arg \in 0..(program.imports - 1),
         stack' = Advance(stack), ghost' = Leave(Original, ghost),
         stop = None /\ stop' # None /\ known => countdown' = 0,
         stop # None => stop' = stop
  PROVE  Follows
<1>1. stop = None \/ ~known BY MustStop
<1>2. /\ Sim(program, stack', ghost') /\ stack' # <<>>
      /\ Now(code, stack').op \in {"check", "unreachable"}
  BY ImportKeeps, CompiledIs DEF SimInv, IInv, Instruction, Original
<1>3. Instruction'.op \in {"check", "unreachable"} BY <1>2 DEF Instruction, static
<1>4. phase # "instantiate" BY DEF SimInv, Stopped
<1>5. NapInv' BY DEF NapInv
<1>6. stop' # None /\ known' => countdown' = 0 BY <1>1
<1>7. Stopped' BY <1>3, <1>4, <1>6 DEF SimInv, Stopped
<1> QED BY <1>1, <1>2, <1>5, <1>7 DEF Follows, RunsNothing

\* A step that leaves the guest where it is.
LEMMA Stays ==
  ASSUME SimInv, UNCHANGED <<static, phase, known, stack, ghost, countdown, stop>>,
         nap' # None => nap # None
  PROVE  Follows
<1>1. Instruction' = Instruction BY DEF Instruction, static
<1>2. NapInv' BY <1>1 DEF SimInv, NapInv, static
<1>3. Stopped' BY <1>1 DEF SimInv, Stopped
<1> QED BY <1>2, <1>3 DEF SimInv, Follows, RunsNothing, static

LEMMA FollowsImport ==
  ASSUME SimInv, RunImport \/ Sleep
  PROVE  Follows
<1>1. /\ stack # <<>> /\ nap = None /\ UNCHANGED <<static, phase, known>>
      /\ Instruction.op = "call" /\ Instruction.arg \in 0..(program.imports - 1)
  <2>1. CASE RunImport
    <3>1. Instruction.arg \in 0..(program.imports - 1)
      <4>1. code.imports - 2 = program.imports - 1 BY CompiledIs DEF SimInv, IInv
      <4> QED BY <2>1, <4>1 DEF RunImport
    <3> QED BY <2>1, <3>1 DEF RunImport, Executing
  <2>2. CASE Sleep BY <2>2, CompiledIs DEF Sleep, Executing, SimInv, IInv
  <2> QED BY <2>1, <2>2
<1>2. CASE /\ \E f : Answer(f)
           /\ stack' = Advance(stack) /\ ghost' = Leave(Original, ghost) /\ UNCHANGED nap
  <2>1. PICK f : Answer(f) BY <1>2
  <2>2. stop = None /\ stop' # None /\ known => countdown' = 0 BY <2>1, AnswerStops
  <2>3. stop # None => stop' = stop BY <1>1, <2>1, AnswerKeeps DEF SimInv
  <2> QED BY <1>1, <1>2, <2>2, <2>3, Returns
<1>3. CASE stop = None /\ UNCHANGED <<stack, ghost, stop, countdown>>
  <2>1. Instruction' = Instruction BY <1>1, <1>3 DEF Instruction, static
  <2>2. NapInv' BY <1>1, <1>3, <2>1 DEF NapInv, static
  <2>3. Stopped' BY <1>1, <1>3 DEF SimInv, Stopped
  <2>4. Sim(program, stack', ghost') BY <1>3 DEF SimInv
  <2> QED BY <1>1, <1>3, <2>2, <2>3, <2>4 DEF Follows
<1> QED BY <1>2, <1>3 DEF RunImport, Sleep

LEMMA FollowsNap ==
  ASSUME SimInv, NapPoll \/ NapLoad \/ NapWait \/ NapWake \/ NapTimer \/ NapEnd
  PROVE  Follows
<1>1. nap # None /\ stop = None
  BY GuestAssumption DEF SimInv, IInv, NapPoll, NapLoad, NapWait, NapWake, NapTimer, NapEnd, Naps
<1>2. CASE NapPoll \/ NapLoad \/ NapWait \/ NapWake \/ NapTimer
  <2>1. UNCHANGED awake BY <1>2 DEF NapPoll, NapLoad, NapWait, NapWake, NapTimer
  <2>2. UNCHANGED <<static, phase, known, stack, ghost, countdown, stop>> BY <2>1 DEF awake
  <2> QED BY <1>1, <2>2, Stays
<1>3. CASE NapEnd
  <2>1. /\ UNCHANGED <<static, phase, known>> /\ nap' = None
        /\ stack' = Advance(stack) /\ ghost' = Leave(Original, ghost)
        /\ stop' # None /\ known => countdown' = 0
    BY <1>1, <1>3 DEF NapEnd, Halt
  <2>2. /\ stack # <<>> /\ Instruction.op = "call" /\ Instruction.arg \in 0..(program.imports - 1)
    BY <1>1 DEF SimInv, NapInv
  <2> QED BY <1>1, <2>1, <2>2, Returns
<1> QED BY <1>2, <1>3

LEMMA FollowsRun ==
  ASSUME SimInv, Instantiate \/ Main \/ Over \/ StoreToken \/ Notify \/ Deadline
  PROVE  Follows
<1>1. CASE Instantiate
  <2>1. /\ phase = "instantiate" /\ phase' = "start" /\ UNCHANGED <<static, known, stop, nap>>
    BY <1>1 DEF Instantiate
  <2>2. ~known /\ stack = <<>> /\ nap = None BY <2>1 DEF SimInv, Stopped, NapInv
  <2>3. Sim(program, stack', ghost')
    <3>1. CASE program.start = None
      <4>1. UNCHANGED <<stack, ghost>> BY <1>1, <3>1 DEF Instantiate
      <4> QED BY <4>1 DEF SimInv
    <3>2. CASE program.start # None
      <4>1. Valid(program) /\ code = Instrumented(program) BY CompiledIs DEF SimInv, IInv
      <4>2. program.start \in Defined(program) BY <3>2, <4>1 DEF Valid
      <4>3. code.start = program.start + 1 BY <3>2, <4>1, CompiledAre
      <4>4. stack' = <<Frame(code.start)>> /\ ghost' = <<Frame(program.start)>>
        BY <1>1, <3>2 DEF Instantiate
      <4> QED BY <4>1, <4>2, <4>3, <4>4, BothEnter DEF Sim
    <3> QED BY <3>1, <3>2
  <2>4. NapInv' BY <2>1, <2>2 DEF NapInv
  <2>5. Stopped' BY <2>1, <2>2 DEF Stopped
  <2> QED BY <2>1, <2>2, <2>3, <2>4, <2>5 DEF Follows, RunsNothing
<1>2. CASE Main
  <2>1. /\ phase = "start" /\ stack = <<>> /\ UNCHANGED <<static, nap, stop>>
        /\ phase' \in {"main", "over"}
    BY <1>2 DEF Main
  <2>2. ~known /\ nap = None BY <2>1 DEF SimInv, Stopped, NapInv
  <2>3. Sim(program, stack', ghost')
    <3>1. CASE stop # None
      <4>1. UNCHANGED <<stack, ghost>> BY <1>2, <3>1 DEF Main
      <4> QED BY <4>1 DEF SimInv
    <3>2. CASE stop = None
      <4>1. Valid(program) /\ code = Instrumented(program) BY CompiledIs DEF SimInv, IInv
      <4>2. program.main \in Defined(program) BY <4>1 DEF Valid
      <4>3. code.main = program.main + 1 BY <4>1, CompiledAre
      <4>4. stack' = <<Frame(code.main)>> /\ ghost' = <<Frame(program.main)>>
        BY <1>2, <3>2 DEF Main
      <4> QED BY <4>1, <4>2, <4>3, <4>4, BothEnter DEF Sim
    <3> QED BY <3>1, <3>2
  <2>4. NapInv' BY <2>1, <2>2 DEF NapInv
  <2>5. stop' # None => stack' = <<>> BY <1>2, <2>1 DEF Main
  <2>6. Stopped' BY <2>1, <2>5 DEF Stopped
  <2> QED BY <2>1, <2>2, <2>3, <2>4, <2>6 DEF Follows, RunsNothing
<1>3. CASE Over
  <2>1. /\ stack = <<>> /\ phase' = "over" /\ UNCHANGED <<static, stack, ghost, nap>>
    BY <1>3 DEF Over
  <2>2. nap = None BY <2>1 DEF SimInv, NapInv
  <2>3. NapInv' BY <2>1, <2>2 DEF NapInv
  <2>4. Stopped' BY <2>1 DEF Stopped
  <2> QED BY <2>1, <2>3, <2>4 DEF Follows, RunsNothing, SimInv
<1>4. CASE StoreToken \/ Deadline
  <2>1. UNCHANGED guest BY <1>4 DEF StoreToken, Deadline
  <2>2. UNCHANGED <<static, phase, known, stack, ghost, countdown, stop, nap>>
    BY <2>1 DEF guest
  <2> QED BY <2>2, Stays
<1>5. CASE Notify
  <2>1. UNCHANGED awake BY <1>5 DEF Notify
  <2>2. UNCHANGED <<static, phase, known, stack, ghost, countdown, stop>> BY <2>1 DEF awake
  <2>3. nap' # None => nap # None BY <1>5, GuestAssumption DEF Notify, Naps
  <2> QED BY <2>2, <2>3, Stays
<1> QED BY <1>1, <1>2, <1>3, <1>4, <1>5

LEMMA SimInit == Init => SimInv
<1> SUFFICES ASSUME Init PROVE SimInv OBVIOUS
<1>1. IInv BY InitInv
<1>2. stack = <<>> /\ ghost = <<>> /\ nap = None /\ ~known /\ stop = None BY DEF Init
<1>3. Sim(program, stack, ghost) BY <1>2, EmptySim
<1>4. NapInv /\ Stopped BY <1>2 DEF NapInv, Stopped
<1> QED BY <1>1, <1>3, <1>4 DEF SimInv

LEMMA SimNext == SimInv /\ [Next]_vars => SimInv' /\ (stop # None => RunsNothing)
<1> SUFFICES ASSUME SimInv, [Next]_vars PROVE SimInv' /\ (stop # None => RunsNothing)
    OBVIOUS
<1>1. IInv' BY NextInv DEF SimInv
<1>2. CASE UNCHANGED vars
  <2>1. /\ UNCHANGED <<static, phase, known, stack, ghost, countdown, stop, nap>>
    BY <1>2 DEF vars, static
  <2>2. Follows BY <2>1, Stays
  <2> QED BY <1>1, <2>2 DEF Follows, SimInv, static
<1>3. CASE Next
  <2>1. Follows
    BY <1>3, FollowsCheck, FollowsCode, FollowsImport, FollowsNap, FollowsRun
       DEF Next, GuestStep
  <2> QED BY <1>1, <2>1 DEF Follows, SimInv, static
<1> QED BY <1>2, <1>3

-----------------------------------------------------------------------------
(* The theorems.                                                           *)

\* The host's invariant, and the guest's with it, along every behaviour.
LEMMA Invariance == Spec => []IInv
BY InitInv, NextInv, PTL DEF Spec

LEMMA Simulation == Spec => []SimInv
BY SimInit, SimNext, PTL DEF Spec

\* The host's variables keep their types, and the code compiled for a run is
\* the program its caller supplied, instrumented.
THEOREM TypesAreKept == Spec => []TypeOK
<1>1. IInv => TypeOK BY DEF IInv
<1> QED BY <1>1, Invariance, PTL

\* A run reported by its exit code saw no import refused before that exit
\* (the wrapped imports and the outcome in runCommand).
THEOREM ResultsAreHonest == Spec => []HonestResult
<1>1. IInv => HonestResult
  <2> SUFFICES ASSUME IInv, Outcome = "exited" PROVE "refused" \notin answers
      BY DEF HonestResult
  <2>1. stop \notin {"cancel", "failure"} BY DEF Outcome
  <2> QED BY <2>1 DEF IInv
<1> QED BY <1>1, Invariance, PTL

\* The first stop is the one reported: no later exit, budget or cancellation
\* replaces it, _start is not entered and no import acts once it is recorded.
THEOREM FirstStopStays ==
  Spec => [][stop # None => stop' = stop /\ StartsNothing /\ ActsNothing]_vars
<1>1. IInv /\ [Next]_vars => [stop # None => stop' = stop /\ StartsNothing /\ ActsNothing]_vars
  BY NextInv DEF StopKept
<1> QED BY <1>1, Invariance, PTL DEF Spec

\* The code compiled for a run does what its caller's module does: whenever the
\* guest is about to execute an instruction the rewriter did not add, it is the
\* one the caller's module would execute there, reaching the same function
\* (functionBody, reference, shift and the thunks of the rewriter).
THEOREM RewritesAreFaithful == Spec => []Faithful
<1>1. SimInv => Faithful
  <2> SUFFICES ASSUME SimInv, stack # <<>>, ~Added(Instruction)
               PROVE  /\ ghost # <<>>
                      /\ Renumbered(Meaning(code, Instruction)) = Meaning(program, Original)
                      /\ ~IsThunk => code.names[Last(stack).fn] = program.names[Last(ghost).fn]
      BY DEF Faithful
  <2> DEFINE m == program  c == code  i == Instruction  o == Original  f == Callee(m, o)
  <2>1. Valid(m) /\ c = Instrumented(m) BY CompiledIs DEF SimInv, IInv
  <2>2. i = Now(c, stack) /\ o = Now(m, ghost) BY DEF Instruction, Original
  <2>3. /\ i.op \notin {"check", "charge", "unreachable", "return"}
        /\ ~(i.op = "end" /\ Last(stack).fn \in c.thunks)
        /\ Calling(i) => Callee(c, i) \notin c.thunks
    BY DEF Added, IsThunk
  <2>4. Sim(m, stack, ghost) BY DEF SimInv
  \* What an import called directly means is the same in both.
  <2>5. ASSUME i = Op("call", f), f \in 0..(m.imports - 1), Calling(o)
        PROVE  Renumbered(Meaning(c, i)) = Meaning(m, o)
    <3>1. Calling(i) /\ Callee(c, i) = f
      <4>1. i.op = "call" /\ i.arg = f BY <2>5, OpIs
      <4> QED BY <4>1 DEF Calling, Callee, DirectCalls, TableCalls
    <3>2. Meaning(c, i) = <<"import", f>> /\ Meaning(m, o) = <<"import", f>>
      BY <2>5, <3>1 DEF Meaning
    <3> QED BY <3>2 DEF Renumbered
  <2>6. CASE Matched(m, stack, ghost)
    <3>1. ghost # <<>> /\ c.names[Last(stack).fn] = m.names[Last(ghost).fn]
      <4> DEFINE s == Last(stack)  g == Last(ghost)
      <4>1. ghost # <<>> /\ Tops(m, Front(stack), s, Front(ghost), g) BY <2>6, MatchedPop
      <4>2. g.fn \in Defined(m) /\ s.fn = g.fn + 1 BY <4>1 DEF Tops, Match
      <4> QED BY <2>1, <4>1, <4>2, CompiledAre
    <3>2. CASE Calling(i)
      <4>1. Calling(o) /\ Reaches(m, c, stack, ghost, i, o)
        BY <2>1, <2>2, <2>6, <3>2, CalleesAre
      <4>2. \A g \in Escaping(m) : ThunkOf(m, g) \in c.thunks BY <2>1, CompiledAre
      <4>3. CASE f \in Defined(m) /\ Callee(c, i) = f + 1
        <5>1. f \notin 0..(m.imports - 1) /\ f + 1 \notin 0..(m.imports - 1) /\ (f + 1) - 1 = f
          <6>1. m.imports \in Nat /\ f \in Int /\ m.imports <= f BY <2>1, <4>3, DefinedAre
          <6> HIDE DEF f, m
          <6> QED BY <6>1
        <5>2. Meaning(c, i) = <<"enter", f + 1>> /\ Meaning(m, o) = <<"enter", f>>
          BY <3>2, <4>1, <4>3, <5>1 DEF Meaning
        <5>3. Renumbered(<<"enter", f + 1>>) = <<"enter", f>> BY <5>1 DEF Renumbered
        <5> QED BY <3>1, <5>2, <5>3
      <4>4. CASE i = Op("call", f) /\ f \in 0..(m.imports - 1)
        BY <2>5, <3>1, <4>1, <4>4
      <4> QED BY <2>3, <3>2, <4>1, <4>2, <4>3, <4>4 DEF Reaches
    <3>3. CASE ~Calling(i)
      <4>1. Pair(m, Last(stack), Last(ghost), i, o) BY <2>1, <2>2, <2>6, MatchedIs
      <4>2. \A a, b : Op(a, b).op = a BY OpIs
      <4>3. i = o
        <5> HIDE DEF i, o
        <5> QED BY <2>3, <3>3, <4>1, <4>2 DEF Pair, Calling, DirectCalls
      <4>4. i.op # "enter"
        <5> HIDE DEF i, o
        <5> QED BY <2>3, <3>3, <4>1, <4>2, <4>3
                DEF Pair, Calling, DirectCalls, TableCalls, RefCalls
      <4>5. Meaning(c, i) = <<i.op, i.arg>> /\ Meaning(m, o) = <<i.op, i.arg>>
        BY <3>3, <4>3 DEF Meaning
      <4>6. Renumbered(<<i.op, i.arg>>) = <<i.op, i.arg>> BY <4>4 DEF Renumbered
      <4> QED BY <3>1, <4>5, <4>6
    <3> QED BY <3>2, <3>3
  <2>7. CASE Through(m, stack, ghost)
    <3> DEFINE t == Frame(ThunkOf(m, f))
    <3>1. Entered(m, c, stack, ghost, o, f, t) BY <2>1, <2>2, <2>7, ThroughIs
    <3> HIDE DEF t
    <3>2. /\ ghost # <<>> /\ Calling(o) /\ f \in 0..(m.imports - 1) /\ i = Op("call", f)
          /\ Last(stack).fn \in c.thunks
      BY <2>2, <3>1 DEF Entered
    <3>3. IsThunk BY <3>2 DEF IsThunk
    <3> QED BY <2>5, <3>2, <3>3
  <2>8. CASE Leaving(m, stack, ghost)
    <3>1. FALSE BY <2>1, <2>2, <2>3, <2>8, LeavingIs
    <3> QED BY <3>1
  <2> QED BY <2>4, <2>6, <2>7, <2>8 DEF Sim
<1> QED BY <1>1, Simulation, PTL

\* A stop is in force at the next poll: once the host has the countdown, no
\* instruction of the caller's module runs after a stop is recorded (halt and
\* the wrapped imports of runCommand, the checks after every import).
THEOREM StopsAtOnce == Spec => HaltsAtOnce
<1>1. SimInv /\ [Next]_vars => [stop # None => RunsNothing /\ StartsNothing /\ ActsNothing]_vars
  BY NextInv, SimNext DEF SimInv, StopKept
<1> QED BY <1>1, Simulation, PTL DEF Spec, HaltsAtOnce
=============================================================================
