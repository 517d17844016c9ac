----------------------------- MODULE GoSdkProofs -----------------------------
(***************************************************************************)
(* Proofs about the Go SDK: its Compiler's life cycle (GoCompiler), for    *)
(* every finite set of calls, every set of Closes and every bound on       *)
(* concurrent jobs; and the filesystem a generator writes to (MemoryFS),   *)
(* for every set of names, every tree they form, all budgets, and any set  *)
(* of descriptors.                                                         *)
(***************************************************************************)
EXTENDS GoCompiler, MemoryFS, FiniteSetTheorems, TLAPS

------------------------------------------------------------------------------
(* The Compiler.                                                           *)

\* The slots in use change by one with the call that takes or returns one.
LEMMA SlotsChange ==
  ASSUME NEW S \in SUBSET Calls, NEW c \in Calls
  PROVE  /\ c \notin S => Cardinality(S \cup {c}) = Cardinality(S) + 1
         /\ c \in S => Cardinality(S \ {c}) = Cardinality(S) - 1
         /\ Cardinality(S) \in Nat
<1>1. IsFiniteSet(S)
  BY ConstantsAssumption, FS_Subset
<1> QED BY <1>1, FS_AddElement, FS_RemoveElement, FS_CardinalityType

LEMMA InitInv == Init => IInv
<1> SUFFICES ASSUME Init PROVE IInv
  OBVIOUS
<1>1. TypeOK /\ JobsInv /\ ReleaseInv /\ OneReleaser /\ GaveUpTerminates
  BY DEF Init, TypeOK, JobsInv, Registered, ReleaseInv, OneReleaser, GaveUpTerminates
<1>2. SlotsHeld = {}
  BY DEF Init, SlotsHeld
<1>3. SlotsInv
  BY <1>2, FS_EmptySet, ConstantsAssumption DEF Init, SlotsInv, SlotsBoundGuests
<1> QED BY <1>1, <1>3 DEF IInv

\* Every step preserves the invariant.
LEMMA StepInv == IInv /\ [Next]_vars => IInv'
<1> SUFFICES ASSUME IInv, [Next]_vars PROVE IInv'
  OBVIOUS
<1>1. ASSUME NEW c \in Calls, Begin(c)
      PROVE  IInv'
  <2>1. TypeOK' /\ JobsInv' /\ ReleaseInv' /\ OneReleaser' /\ GaveUpTerminates'
    BY <1>1 DEF Begin, Go, IInv, TypeOK, JobsInv, Registered, ReleaseInv,
       OneReleaser, GaveUpTerminates, callVars, closeVars
  <2>2. SlotsInv'
    BY <1>1 DEF Begin, Go, IInv, TypeOK, SlotsInv, SlotsBoundGuests, SlotsHeld,
       callVars, closeVars
  <2> QED BY <2>1, <2>2 DEF IInv
<1>2. ASSUME NEW c \in Calls, TakeSlot(c)
      PROVE  IInv'
  <2>1. JobsInv' /\ ReleaseInv' /\ OneReleaser' /\ GaveUpTerminates'
    BY <1>2 DEF TakeSlot, Go, IInv, TypeOK, JobsInv, Registered, ReleaseInv,
       OneReleaser, GaveUpTerminates, callVars, closeVars
  <2>2. ~admitted[c] /\ SlotsHeld' = SlotsHeld \cup {c}
    BY <1>2 DEF TakeSlot, IInv, TypeOK, SlotsInv, SlotsHeld
  <2>3. /\ SlotsHeld \in SUBSET Calls /\ (c \in SlotsHeld <=> admitted[c])
        /\ slots = Cardinality(SlotsHeld) /\ slots' = Cardinality(SlotsHeld')
    BY <1>2, <2>2, SlotsChange DEF TakeSlot, IInv, SlotsInv, SlotsBoundGuests, SlotsHeld
  <2>4. SlotsInv'
    BY <1>2, <2>3, SlotsChange, ConstantsAssumption
       DEF TakeSlot, Go, IInv, TypeOK, SlotsInv, SlotsBoundGuests
  <2>5. TypeOK'
    BY <1>2, <2>3, SlotsChange DEF TakeSlot, Go, IInv, TypeOK, callVars, closeVars
  <2> QED BY <2>1, <2>4, <2>5 DEF IInv
<1>3. ASSUME NEW c \in Calls, AdmissionEnds(c)
      PROVE  IInv'
  <2>1. TypeOK' /\ JobsInv' /\ ReleaseInv' /\ OneReleaser' /\ GaveUpTerminates'
    BY <1>3 DEF AdmissionEnds, Leave, Go, IInv, TypeOK, JobsInv, Registered,
       ReleaseInv, OneReleaser, GaveUpTerminates, callVars, closeVars
  <2>2. SlotsInv'
    BY <1>3 DEF AdmissionEnds, Leave, Go, IInv, TypeOK, SlotsInv, SlotsBoundGuests,
       SlotsHeld, callVars, closeVars
  <2> QED BY <2>1, <2>2 DEF IInv
<1>4. ASSUME NEW c \in Calls, Check(c)
      PROVE  IInv'
  <2>1. TypeOK' /\ JobsInv' /\ ReleaseInv' /\ OneReleaser' /\ GaveUpTerminates'
    BY <1>4 DEF Check, Leave, Go, IInv, TypeOK, JobsInv, Registered, ReleaseInv,
       OneReleaser, GaveUpTerminates, callVars, closeVars
  <2>2. SlotsInv'
    BY <1>4 DEF Check, Leave, Go, IInv, TypeOK, SlotsInv, SlotsBoundGuests,
       SlotsHeld, callVars, closeVars
  <2> QED BY <2>1, <2>2 DEF IInv
<1>4a. ASSUME NEW c \in Calls, CheckRequest(c)
      PROVE  IInv'
  <2>1. TypeOK' /\ JobsInv' /\ ReleaseInv' /\ OneReleaser' /\ GaveUpTerminates'
    BY <1>4a DEF CheckRequest, Leave, Go, IInv, TypeOK, JobsInv, Registered, ReleaseInv,
       OneReleaser, GaveUpTerminates, callVars, closeVars
  <2>2. SlotsInv'
    BY <1>4a DEF CheckRequest, Leave, Go, IInv, TypeOK, SlotsInv, SlotsBoundGuests,
       SlotsHeld, callVars, closeVars
  <2> QED BY <2>1, <2>2 DEF IInv
<1>5. ASSUME NEW c \in Calls, StartGuest(c)
      PROVE  IInv'
  <2>1. TypeOK' /\ JobsInv' /\ ReleaseInv' /\ OneReleaser' /\ GaveUpTerminates'
    BY <1>5 DEF StartGuest, Go, IInv, TypeOK, JobsInv, Registered, ReleaseInv,
       OneReleaser, GaveUpTerminates, callVars, closeVars
  <2>2. SlotsInv'
    BY <1>5 DEF StartGuest, Go, IInv, TypeOK, SlotsInv, SlotsBoundGuests, SlotsHeld,
       callVars, closeVars
  <2> QED BY <2>1, <2>2 DEF IInv
<1>6. ASSUME NEW c \in Calls, GuestStops(c)
      PROVE  IInv'
  <2>1. TypeOK' /\ JobsInv' /\ ReleaseInv' /\ OneReleaser' /\ GaveUpTerminates'
    BY <1>6 DEF GuestStops, Leave, Go, IInv, TypeOK, JobsInv, Registered,
       ReleaseInv, OneReleaser, GaveUpTerminates, callVars, closeVars
  <2>2. SlotsInv'
    BY <1>6 DEF GuestStops, Leave, Go, IInv, TypeOK, SlotsInv, SlotsBoundGuests,
       SlotsHeld, callVars, closeVars
  <2> QED BY <2>1, <2>2 DEF IInv
<1>7. ASSUME NEW c \in Calls, ReleaseSlot(c)
      PROVE  IInv'
  <2>1. JobsInv' /\ ReleaseInv' /\ OneReleaser' /\ GaveUpTerminates'
    BY <1>7 DEF ReleaseSlot, SlotsAfter, Go, IInv, TypeOK, JobsInv, Registered, ReleaseInv,
       OneReleaser, GaveUpTerminates, callVars, closeVars
  <2>2. SlotsHeld' = IF admitted[c] THEN SlotsHeld \ {c} ELSE SlotsHeld
    BY <1>7 DEF ReleaseSlot, SlotsAfter, IInv, TypeOK, SlotsHeld
  <2>3. /\ SlotsHeld \in SUBSET Calls /\ (c \in SlotsHeld <=> admitted[c])
        /\ slots = Cardinality(SlotsHeld) /\ slots' = Cardinality(SlotsHeld')
    BY <1>7, <2>2, SlotsChange DEF ReleaseSlot, SlotsAfter, IInv, SlotsInv, SlotsBoundGuests, SlotsHeld
  <2>4. SlotsInv'
    BY <1>7, <2>3, SlotsChange, ConstantsAssumption
       DEF ReleaseSlot, SlotsAfter, Go, IInv, TypeOK, SlotsInv, SlotsBoundGuests
  <2>5. slots' \in Nat
    BY <2>2, <2>3, SlotsChange
  <2>6. admitted' \in [Calls -> BOOLEAN]
    BY <1>7 DEF ReleaseSlot, SlotsAfter, IInv, TypeOK
  <2>7. TypeOK'
    BY <1>7, <2>5, <2>6 DEF ReleaseSlot, SlotsAfter, Go, IInv, TypeOK, callVars, closeVars
  <2> QED BY <2>1, <2>4, <2>7 DEF IInv
<1>8. ASSUME NEW c \in Calls, Unregister(c)
      PROVE  IInv'
  <2>1. TypeOK' /\ JobsInv' /\ ReleaseInv' /\ OneReleaser' /\ GaveUpTerminates'
    BY <1>8 DEF Unregister, LastLeaves, LeaveRuntimes, Go, CloseIdle, IInv, TypeOK, JobsInv, Registered,
       ReleaseInv, OneReleaser, GaveUpTerminates, callVars, closeVars
  <2>2. SlotsInv'
    BY <1>8 DEF Unregister, LastLeaves, LeaveRuntimes, Go, CloseIdle, IInv, TypeOK, SlotsInv, SlotsBoundGuests,
       SlotsHeld, callVars, closeVars
  <2> QED BY <2>1, <2>2 DEF IInv
<1>9. ASSUME NEW c \in Calls, CallerCancels(c)
      PROVE  IInv'
  <2>1. TypeOK' /\ JobsInv' /\ ReleaseInv' /\ OneReleaser' /\ GaveUpTerminates'
    BY <1>9 DEF CallerCancels, IInv, TypeOK, JobsInv, Registered, ReleaseInv,
       OneReleaser, GaveUpTerminates, callVars, closeVars
  <2>2. SlotsInv'
    BY <1>9 DEF CallerCancels, IInv, TypeOK, SlotsInv, SlotsBoundGuests, SlotsHeld,
       callVars, closeVars
  <2> QED BY <2>1, <2>2 DEF IInv
<1>10. ASSUME NEW k \in Closers, CloseBegin(k)
       PROVE  IInv'
  <2>1. TypeOK' /\ GaveUpTerminates'
    BY <1>10 DEF CloseBegin, Close, CloseIdle, IInv, TypeOK, GaveUpTerminates, callVars, closeVars
  <2>2. JobsInv'
    BY <1>10 DEF CloseBegin, Close, CloseIdle, IInv, TypeOK, JobsInv, Registered, callVars,
       closeVars
  <2>3. ReleaseInv' /\ OneReleaser'
    BY <1>10 DEF CloseBegin, Close, CloseIdle, IInv, TypeOK, ReleaseInv, OneReleaser, callVars,
       closeVars
  <2>4. SlotsInv'
    BY <1>10 DEF CloseBegin, Close, CloseIdle, IInv, TypeOK, SlotsInv,
       SlotsBoundGuests, SlotsHeld, callVars, closeVars
  <2> QED BY <2>1, <2>2, <2>3, <2>4 DEF IInv
<1>11. ASSUME NEW k \in Closers, ClosePoll(k)
       PROVE  IInv'
  <2>1. TypeOK' /\ JobsInv' /\ ReleaseInv' /\ OneReleaser' /\ GaveUpTerminates'
    BY <1>11 DEF ClosePoll, Close, IInv, TypeOK, JobsInv, Registered, ReleaseInv,
       OneReleaser, GaveUpTerminates, callVars, closeVars
  <2>2. SlotsInv'
    BY <1>11 DEF ClosePoll, Close, IInv, TypeOK, SlotsInv, SlotsBoundGuests,
       SlotsHeld, callVars, closeVars
  <2> QED BY <2>1, <2>2 DEF IInv
<1>12. ASSUME NEW k \in Closers, CloseWakes(k)
       PROVE  IInv'
  <2>1. TypeOK' /\ JobsInv' /\ ReleaseInv' /\ OneReleaser' /\ GaveUpTerminates'
    BY <1>12 DEF CloseWakes, Close, IInv, TypeOK, JobsInv, Registered, ReleaseInv,
       OneReleaser, GaveUpTerminates, callVars, closeVars
  <2>2. SlotsInv'
    BY <1>12 DEF CloseWakes, Close, IInv, TypeOK, SlotsInv, SlotsBoundGuests,
       SlotsHeld, callVars, closeVars
  <2> QED BY <2>1, <2>2 DEF IInv
<1>13. ASSUME NEW k \in Closers, CloseTerminates(k)
       PROVE  IInv'
  <2>1. TypeOK' /\ JobsInv' /\ ReleaseInv' /\ OneReleaser' /\ GaveUpTerminates'
    BY <1>13 DEF CloseTerminates, Close, IInv, TypeOK, JobsInv, Registered,
       ReleaseInv, OneReleaser, GaveUpTerminates, callVars, closeVars
  <2>2. SlotsInv'
    BY <1>13 DEF CloseTerminates, Close, IInv, TypeOK, SlotsInv, SlotsBoundGuests,
       SlotsHeld, callVars, closeVars
  <2> QED BY <2>1, <2>2 DEF IInv
<1>14. ASSUME NEW k \in Closers, ContextExpires(k)
       PROVE  IInv'
  <2>1. TypeOK' /\ JobsInv' /\ ReleaseInv' /\ OneReleaser' /\ GaveUpTerminates'
    BY <1>14 DEF ContextExpires, IInv, TypeOK, JobsInv, Registered, ReleaseInv,
       OneReleaser, GaveUpTerminates, callVars, closeVars
  <2>2. SlotsInv'
    BY <1>14 DEF ContextExpires, IInv, TypeOK, SlotsInv, SlotsBoundGuests,
       SlotsHeld, callVars, closeVars
  <2> QED BY <2>1, <2>2 DEF IInv
<1>15. ASSUME NEW k \in Closers, CloseReleases(k)
       PROVE  IInv'
  <2>1. TypeOK' /\ JobsInv' /\ ReleaseInv' /\ OneReleaser' /\ GaveUpTerminates'
    BY <1>15 DEF CloseReleases, Close, IInv, TypeOK, JobsInv, Registered,
       ReleaseInv, OneReleaser, GaveUpTerminates, callVars, closeVars
  <2>2. SlotsInv'
    BY <1>15 DEF CloseReleases, Close, IInv, TypeOK, SlotsInv, SlotsBoundGuests,
       SlotsHeld, callVars, closeVars
  <2> QED BY <2>1, <2>2 DEF IInv
<1>16. ASSUME NEW k \in Closers, CloseReleased(k)
       PROVE  IInv'
  <2>1. TypeOK' /\ JobsInv' /\ ReleaseInv' /\ OneReleaser' /\ GaveUpTerminates'
    BY <1>16 DEF CloseReleased, Close, IInv, TypeOK, JobsInv, Registered,
       ReleaseInv, OneReleaser, GaveUpTerminates, callVars, closeVars
  <2>2. SlotsInv'
    BY <1>16 DEF CloseReleased, Close, IInv, TypeOK, SlotsInv, SlotsBoundGuests,
       SlotsHeld, callVars, closeVars
  <2> QED BY <2>1, <2>2 DEF IInv
<1>17. CASE ReleaserRuns
  <2>1. TypeOK' /\ JobsInv' /\ ReleaseInv' /\ OneReleaser' /\ GaveUpTerminates'
    BY <1>17 DEF ReleaserRuns, IInv, TypeOK, JobsInv, Registered, ReleaseInv,
       OneReleaser, GaveUpTerminates, callVars, closeVars
  <2>2. SlotsInv'
    BY <1>17 DEF ReleaserRuns, IInv, TypeOK, SlotsInv, SlotsBoundGuests, SlotsHeld,
       callVars, closeVars
  <2> QED BY <2>1, <2>2 DEF IInv
<1>18. CASE ReleaserEnds
  <2>1. TypeOK' /\ JobsInv' /\ ReleaseInv' /\ OneReleaser' /\ GaveUpTerminates'
    BY <1>18 DEF ReleaserEnds, IInv, TypeOK, JobsInv, Registered, ReleaseInv,
       OneReleaser, GaveUpTerminates, callVars, closeVars
  <2>2. SlotsInv'
    BY <1>18 DEF ReleaserEnds, IInv, TypeOK, SlotsInv, SlotsBoundGuests, SlotsHeld,
       callVars, closeVars
  <2> QED BY <2>1, <2>2 DEF IInv
<1>19. CASE UNCHANGED vars
  <2>1. TypeOK' /\ JobsInv' /\ ReleaseInv' /\ OneReleaser' /\ GaveUpTerminates'
    BY <1>19 DEF vars, IInv, TypeOK, JobsInv, Registered, ReleaseInv, OneReleaser,
       GaveUpTerminates, callVars, closeVars
  <2>2. SlotsInv'
    BY <1>19 DEF vars, IInv, TypeOK, SlotsInv, SlotsBoundGuests, SlotsHeld,
       callVars, closeVars
  <2> QED BY <2>1, <2>2 DEF IInv
<1> QED BY <1>1, <1>2, <1>3, <1>4, <1>4a, <1>5, <1>6, <1>7, <1>8, <1>9, <1>10, <1>11,
  <1>12, <1>13, <1>14, <1>15, <1>16, <1>17, <1>18, <1>19
  DEF Next, Goroutine, CloseStep

\* IInv is an invariant of the Compiler.
THEOREM Invariance == Spec => []IInv
<1>1. Init => IInv
  BY InitInv
<1>2. IInv /\ [Next]_vars => IInv'
  BY StepInv
<1> QED BY <1>1, <1>2, PTL DEF Spec

\* Every variable keeps its type; in particular the slot count is never negative.
THEOREM TypeCorrect == Spec => []TypeOK
<1>1. IInv => TypeOK
  BY DEF IInv
<1> QED BY <1>1, Invariance, PTL

\* closeRuntimes' comment: a runtime is closed only after the last job that
\* uses it has stopped, for any number of calls and of Closes that race.
THEOREM RuntimesAreSafe == Spec => []RuntimesOutliveJobs
<1>1. IInv => RuntimesOutliveJobs
  BY DEF IInv, TypeOK, JobsInv, ReleaseInv, Registered, RuntimesOutliveJobs
<1> QED BY <1>1, Invariance, PTL

\* The channel idle is closed at most once, so done() and Close never panic.
THEOREM IdleIsSafe == Spec => []IdleClosedOnce
<1>1. IInv => IdleClosedOnce
  BY DEF IInv, JobsInv, IdleClosedOnce
<1> QED BY <1>1, Invariance, PTL

\* WithMaxConcurrentJobs holds for every bound, and no slot leaks.
THEOREM SlotsAreSafe == Spec => []SlotsBoundGuests
<1>1. IInv => SlotsBoundGuests
  BY DEF IInv, SlotsInv
<1> QED BY <1>1, Invariance, PTL

\* A Close that gave up has told every job it left behind to stop.
THEOREM GaveUpIsTerminal == Spec => []GaveUpTerminates
<1>1. IInv => GaveUpTerminates
  BY DEF IInv
<1> QED BY <1>1, Invariance, PTL

\* A Close that returned without giving up found the runtimes released.
THEOREM CloseIsComplete == Spec => []CloseMeansReleased
<1>1. IInv => CloseMeansReleased
  BY DEF IInv, ReleaseInv, CloseMeansReleased
<1> QED BY <1>1, Invariance, PTL
\* Close frees no runtime under a job and means what its result says.
THEOREM ClosesAreSafe == Spec => []CloseIsSafe
<1> QED BY RuntimesAreSafe, IdleIsSafe, GaveUpIsTerminal, CloseIsComplete, PTL DEF CloseIsSafe

-----------------------------------------------------------------------------
(* The filesystem.  Counting bytes first.                                  *)

\* The bytes of one inode are as many as its length.
LEMMA Column ==
  ASSUME NEW i \in Inodes, NEW n \in Nat
  PROVE  IsFiniteSet({i} \X (1..n)) /\ Cardinality({i} \X (1..n)) = n
<1> DEFINE S == {i}
           T == 1..n
<1>1. IsFiniteSet(S) /\ Cardinality(S) = 1
  BY FS_Singleton
<1>2. IsFiniteSet(T) /\ Cardinality(T) = n
  BY FS_Interval
<1> HIDE DEF S, T
<1>3. IsFiniteSet(S \X T) /\ Cardinality(S \X T) = Cardinality(S) * Cardinality(T)
  BY <1>1, <1>2, FS_Product
<1>4. Cardinality(S \X T) = n
  BY <1>1, <1>2, <1>3
<1> QED BY <1>3, <1>4 DEF S, T

LEMMA BytesFinite ==
  ASSUME NEW M \in Nat, NEW len \in [Inodes -> 0..M], NEW S \in SUBSET Inodes
  PROVE  IsFiniteSet(BytesOf(len, S)) /\ Cardinality(BytesOf(len, S)) \in Nat
<1>1. IsFiniteSet(Inodes) /\ IsFiniteSet(1..M)
  BY FS_Interval, FSAssumption DEF Inodes
<1>2. IsFiniteSet(Inodes \X (1..M))
  BY <1>1, FS_Product
<1>3. BytesOf(len, S) \subseteq Inodes \X (1..M)
  <2>1. \A i \in S : len[i] \in 0..M
    OBVIOUS
  <2>2. \A i \in S : {i} \X (1..len[i]) \subseteq Inodes \X (1..M)
    BY <2>1
  <2> QED BY <2>2 DEF BytesOf
<1> QED BY <1>2, <1>3, FS_Subset, FS_CardinalityType

\* One inode's bytes, and those of all others.
LEMMA BytesSplit ==
  ASSUME NEW M \in Nat, NEW len \in [Inodes -> 0..M], NEW i \in Inodes
  PROVE  Cardinality(BytesOf(len, Inodes)) =
           Cardinality(BytesOf(len, Inodes \ {i})) + len[i]
<1> DEFINE Rest == BytesOf(len, Inodes \ {i})
           Own  == {i} \X (1..len[i])
<1>1. IsFiniteSet(Rest) /\ Cardinality(Rest) \in Nat
  BY BytesFinite
<1>2. len[i] \in Nat /\ IsFiniteSet(Own) /\ Cardinality(Own) = len[i]
  BY Column
<1>3. BytesOf(len, Inodes) = Rest \cup Own
  BY DEF BytesOf
<1>4. Rest \cap Own = {}
  BY DEF BytesOf
<1>5. Cardinality(Rest \cap Own) = 0
  BY <1>4, FS_EmptySet
<1> HIDE DEF Rest, Own
<1>6. Cardinality(Rest \cup Own) = Cardinality(Rest) + Cardinality(Own) - 0
  BY <1>1, <1>2, <1>5, FS_Union
<1>7. Cardinality(BytesOf(len, Inodes)) = Cardinality(Rest) + len[i]
  BY <1>1, <1>2, <1>3, <1>6
<1> QED BY <1>7 DEF Rest

\* Resizing one inode changes the count by the difference of its lengths.
LEMMA Resized ==
  ASSUME NEW M \in Nat, NEW len \in [Inodes -> 0..M], NEW i \in Inodes, NEW n \in Nat
  PROVE  /\ Cardinality(BytesOf([len EXCEPT ![i] = n], Inodes)) =
              Cardinality(BytesOf(len, Inodes)) + n - len[i]
         /\ Cardinality(BytesOf(len, Inodes)) \in Nat
         /\ len[i] <= Cardinality(BytesOf(len, Inodes))
<1> DEFINE new == [len EXCEPT ![i] = n]
<1>1. new \in [Inodes -> 0..(M + n)] /\ new[i] = n /\ len[i] \in Nat
  OBVIOUS
<1>2. BytesOf(new, Inodes \ {i}) = BytesOf(len, Inodes \ {i})
  BY DEF BytesOf
<1>3. Cardinality(BytesOf(len, Inodes \ {i})) \in Nat
  BY BytesFinite
<1>4. Cardinality(BytesOf(len, Inodes)) = Cardinality(BytesOf(len, Inodes \ {i})) + len[i]
  BY BytesSplit
<1>5. Cardinality(BytesOf(new, Inodes)) = Cardinality(BytesOf(new, Inodes \ {i})) + new[i]
  BY <1>1, BytesSplit, M + n \in Nat
<1> QED BY <1>1, <1>2, <1>3, <1>4, <1>5

-----------------------------------------------------------------------------
(* The invariant in the parts that a call disturbs one by one.             *)

NamesPart ==
  /\ nodes \in [Paths -> Inodes \cup {None}] /\ nodes[Root] = 0
  /\ nextIno \in 1..(OutputEntries + 1)
  /\ isDir \in [Inodes -> BOOLEAN] /\ isDir[0]
  /\ created \in Nat
  /\ \A n \in Paths : nodes[n] # None => nodes[n] < nextIno
  /\ \A i \in Inodes : i >= nextIno => ~isDir[i]
  /\ NamesFormTree /\ NamesAreShort
  /\ IsFiniteSet(Linked) /\ EntriesBounded

BytesPart ==
  /\ length \in [Inodes -> 0..OutputBytes] /\ used \in Int
  /\ ChargeIsExact /\ used <= OutputBytes

LimitPart == limit \in {"none", "pathBytes", "outputEntries", "outputBytes"}

FilesPart ==
  /\ files \in [Handles -> OpenFiles \cup {Closed}]
  /\ \A h \in Handles : IsOpen(h) => Node(h) < nextIno

FreshPart == \A i \in Inodes : i >= nextIno => length[i] = 0

LEMMA Parts == FSInv <=> NamesPart /\ BytesPart /\ LimitPart /\ FilesPart /\ FreshPart
BY DEF FSInv, FSTypeOK, InodesAreMade, NamesPart, BytesPart, LimitPart, FilesPart, FreshPart

LEMMA PartsNext ==
  FSInv' <=> NamesPart' /\ BytesPart' /\ LimitPart' /\ FilesPart' /\ FreshPart'
BY DEF FSInv, FSTypeOK, InodesAreMade, NamesPart, BytesPart, LimitPart, FilesPart, FreshPart

LEMMA SameNames ==
  ASSUME NamesPart, UNCHANGED <<nodes, nextIno, isDir, created>>
  PROVE  NamesPart'
BY DEF NamesPart, NamesFormTree, NamesAreShort, EntriesBounded, Linked

LEMMA SameBytes ==
  ASSUME BytesPart, UNCHANGED <<length, used>>
  PROVE  BytesPart'
BY DEF BytesPart, ChargeIsExact, Bytes

LEMMA SameFiles ==
  ASSUME FilesPart, UNCHANGED <<files, nextIno>>
  PROVE  FilesPart'
BY DEF FilesPart, IsOpen, Node

LEMMA ExceededLimit ==
  ASSUME LimitPart, NEW what \in {"pathBytes", "outputEntries", "outputBytes"}, Exceeded(what)
  PROVE  LimitPart'
BY DEF LimitPart, Exceeded

-----------------------------------------------------------------------------
(* Calls that change bytes.                                                *)

\* A file whose bytes fit after truncation to `size` keeps the charge exact.
LEMMA TruncateStep ==
  ASSUME BytesPart, NEW i \in Inodes, NEW size \in Nat, BytesFit(i, size), Truncate(i, size)
  PROVE  BytesPart'
<1>1. length \in [Inodes -> 0..OutputBytes] /\ OutputBytes \in Nat /\ used \in Int
  BY FSAssumption DEF BytesPart
<1>2. length[i] \in 0..OutputBytes /\ used = Cardinality(BytesOf(length, Inodes)) /\ used <= OutputBytes
  BY <1>1 DEF BytesPart, ChargeIsExact, Bytes
<1>3. /\ Cardinality(BytesOf([length EXCEPT ![i] = size], Inodes)) = used + size - length[i]
      /\ length[i] <= used
  BY <1>1, <1>2, Resized
<1>4. size <= OutputBytes /\ used + size - length[i] <= OutputBytes
  BY <1>1, <1>2, <1>3 DEF BytesFit
<1>5. length' = [length EXCEPT ![i] = size] /\ used' = used + size - length[i]
  BY DEF Truncate
<1>6. length' \in [Inodes -> 0..OutputBytes] /\ used' \in Int /\ used' <= OutputBytes
  BY <1>1, <1>2, <1>4, <1>5
<1>7. ChargeIsExact'
  BY <1>3, <1>5 DEF ChargeIsExact, Bytes
<1> QED BY <1>6, <1>7 DEF BytesPart

\* Whatever a truncation does, inodes that are not made yet stay empty.
LEMMA TruncateFresh ==
  ASSUME FreshPart, BytesPart, NEW i \in Inodes, i < nextIno, nextIno \in Nat,
         NEW size \in Nat, Truncate(i, size), UNCHANGED nextIno
  PROVE  FreshPart'
<1>1. \A j \in Inodes : j \in Int /\ (j >= nextIno => j # i)
  BY FSAssumption DEF Inodes
<1>2. \A j \in Inodes : j # i => length'[j] = length[j]
  BY DEF Truncate, BytesPart
<1> QED BY <1>1, <1>2 DEF FreshPart

LEMMA PutStep ==
  ASSUME BytesPart, FreshPart, LimitPart, NEW i \in Inodes, i < nextIno, nextIno \in Nat,
         NEW at \in Nat, NEW k \in Nat, Put(i, at, k), UNCHANGED nextIno
  PROVE  BytesPart' /\ FreshPart' /\ LimitPart'
<1>1. CASE PutRefused(i, at, k)
  <2>1. Exceeded("outputBytes") /\ UNCHANGED <<length, used>>
    BY <1>1 DEF Put
  <2>2. LimitPart'
    BY <2>1, ExceededLimit
  <2> QED BY <2>1, <2>2, SameBytes DEF FreshPart
<1>2. CASE ~PutRefused(i, at, k) /\ at + k > length[i]
  <2>1. BytesFit(i, at + k) /\ Truncate(i, at + k) /\ UNCHANGED limit
    BY <1>2 DEF Put, PutRefused
  <2>2. at + k \in Nat
    OBVIOUS
  <2> QED BY <2>1, <2>2, TruncateStep, TruncateFresh DEF LimitPart
<1>3. CASE ~PutRefused(i, at, k) /\ ~(at + k > length[i])
  <2>1. UNCHANGED <<length, used, limit>>
    BY <1>3 DEF Put
  <2> QED BY <2>1, SameBytes DEF FreshPart, LimitPart
<1> QED BY <1>1, <1>2, <1>3

\* What an open handle holds.
LEMMA Held ==
  ASSUME FilesPart, NEW h \in Handles, IsOpen(h)
  PROVE  /\ files[h] \in OpenFiles
         /\ Node(h) \in Inodes /\ Node(h) < nextIno
         /\ files[h].offset \in 0..OutputBytes
BY DEF FilesPart, IsOpen, Node, OpenFiles, Closed

LEMMA WriteStep ==
  ASSUME FSInv, NEW h \in Handles, NEW k \in 0..MaxWrite, Write(h, k)
  PROVE  FSInv'
<1> DEFINE i  == Node(h)
           at == IF files[h].append THEN length[i] ELSE files[h].offset
<1>1. NamesPart /\ BytesPart /\ LimitPart /\ FilesPart /\ FreshPart
  BY Parts
<1>2. /\ IsOpen(h) /\ Put(i, at, k)
      /\ files' = [files EXCEPT ![h].offset = Advanced(i, at, k)]
      /\ UNCHANGED <<nodes, nextIno, isDir, created>>
  BY DEF Write, WritableFile
<1>3. files[h] \in OpenFiles /\ i \in Inodes /\ i < nextIno /\ files[h].offset \in 0..OutputBytes
  BY <1>1, <1>2, Held
<1>4. OutputBytes \in Nat /\ MaxWrite \in Nat /\ nextIno \in Nat
  BY <1>1, FSAssumption DEF NamesPart
<1>5. length[i] \in 0..OutputBytes
  BY <1>1, <1>3 DEF BytesPart
<1>6. at \in 0..OutputBytes /\ k \in Nat
  BY <1>3, <1>4, <1>5
<1>7. Advanced(i, at, k) \in 0..OutputBytes
  BY <1>4, <1>6 DEF Advanced, PutRefused
<1> HIDE DEF i, at
<1>8. BytesPart' /\ FreshPart' /\ LimitPart'
  BY <1>1, <1>2, <1>3, <1>4, <1>6, PutStep
<1>9. [files[h] EXCEPT !.offset = Advanced(i, at, k)] \in OpenFiles
  BY <1>3, <1>7 DEF OpenFiles
<1>10. FilesPart'
  <2>1. files' = [files EXCEPT ![h] = [files[h] EXCEPT !.offset = Advanced(i, at, k)]]
    BY <1>2
  <2>2. files' \in [Handles -> OpenFiles \cup {Closed}]
    BY <1>1, <1>9, <2>1 DEF FilesPart
  <2>3. \A g \in Handles : files'[g] # Closed => files[g] # Closed /\ files'[g].node = files[g].node
    BY <1>1, <1>2, <1>3, <2>1 DEF FilesPart, IsOpen, OpenFiles
  <2> QED BY <1>1, <1>2, <2>2, <2>3 DEF FilesPart, IsOpen, Node
<1>11. NamesPart'
  BY <1>1, <1>2, SameNames
<1> QED BY <1>8, <1>10, <1>11, PartsNext

LEMMA PwriteStep ==
  ASSUME FSInv, NEW h \in Handles, NEW at \in 0..(OutputBytes + 1), NEW k \in 0..MaxWrite,
         Pwrite(h, at, k)
  PROVE  FSInv'
<1>1. NamesPart /\ BytesPart /\ LimitPart /\ FilesPart /\ FreshPart
  BY Parts
<1>2. IsOpen(h) /\ Put(Node(h), at, k) /\ UNCHANGED <<nodes, nextIno, isDir, created, files>>
  BY DEF Pwrite, WritableFile
<1>3. Node(h) \in Inodes /\ Node(h) < nextIno /\ nextIno \in Nat /\ at \in Nat /\ k \in Nat
  BY <1>1, <1>2, Held, FSAssumption DEF NamesPart
<1>4. BytesPart' /\ FreshPart' /\ LimitPart'
  BY <1>1, <1>2, <1>3, PutStep
<1> QED BY <1>1, <1>2, <1>4, SameNames, SameFiles, PartsNext

LEMMA SetSizeStep ==
  ASSUME FSInv, NEW h \in Handles, NEW size \in 0..(OutputBytes + 1), SetSize(h, size)
  PROVE  FSInv'
<1>1. NamesPart /\ BytesPart /\ LimitPart /\ FilesPart /\ FreshPart
  BY Parts
<1>2. IsOpen(h) /\ UNCHANGED <<nodes, nextIno, isDir, created, files>>
  BY DEF SetSize, WritableFile
<1>3. Node(h) \in Inodes /\ Node(h) < nextIno /\ nextIno \in Nat /\ size \in Nat
  BY <1>1, <1>2, Held, FSAssumption DEF NamesPart
<1>4. CASE BytesFit(Node(h), size)
  <2>1. Truncate(Node(h), size) /\ UNCHANGED limit
    BY <1>4 DEF SetSize
  <2>2. BytesPart' /\ FreshPart' /\ LimitPart'
    BY <1>1, <1>2, <1>3, <1>4, <2>1, TruncateStep, TruncateFresh DEF LimitPart
  <2> QED BY <1>1, <1>2, <2>2, SameNames, SameFiles, PartsNext
<1>5. CASE ~BytesFit(Node(h), size)
  <2>1. Exceeded("outputBytes") /\ UNCHANGED <<length, used>>
    BY <1>5 DEF SetSize
  <2>2. BytesPart' /\ FreshPart' /\ LimitPart'
    BY <1>1, <1>2, <2>1, SameBytes, ExceededLimit DEF FreshPart
  <2> QED BY <1>1, <1>2, <2>2, SameNames, SameFiles, PartsNext
<1> QED BY <1>4, <1>5

-----------------------------------------------------------------------------
(* Calls that change names.                                                *)

\* A new name, below a directory that is there, for the next inode.
LEMMA CreateStep ==
  ASSUME NamesPart, BytesPart, FreshPart, NEW n \in Names, NEW dir \in BOOLEAN, Create(n, dir)
  PROVE  NamesPart' /\ BytesPart' /\ FreshPart' /\ nextIno \in Inodes /\ nextIno' = nextIno + 1
<1>1. /\ nodes[n] = None /\ n \notin Overlong /\ n \notin Long /\ created < OutputEntries
      /\ nodes[Parent[n]] # None /\ isDir[nodes[Parent[n]]]
      /\ nodes' = [nodes EXCEPT ![n] = nextIno]
      /\ isDir' = [isDir EXCEPT ![nextIno] = dir]
      /\ nextIno' = nextIno + 1 /\ created' = created + 1
      /\ UNCHANGED <<length, used>>
  BY DEF Create, Add, ParentIsDir, EntryFits
<1>2. /\ OutputEntries \in Nat /\ None \notin Inodes /\ Root \notin Names /\ Root \in Paths
      /\ n \in Paths /\ Names \subseteq Paths /\ \A m \in Names : Parent[m] \in Paths
  BY FSAssumption DEF Inodes, Paths
<1>3. /\ nodes \in [Paths -> Inodes \cup {None}] /\ nodes[Root] = 0
      /\ nextIno \in 1..(OutputEntries + 1) /\ created \in Nat
      /\ isDir \in [Inodes -> BOOLEAN] /\ isDir[0]
      /\ nextIno - 1 <= created /\ created <= OutputEntries
      /\ Cardinality(Linked) <= created /\ IsFiniteSet(Linked)
  BY DEF NamesPart, EntriesBounded
<1>4. nextIno \in Inodes /\ nextIno # 0 /\ nextIno # None
  BY <1>1, <1>2, <1>3 DEF Inodes
<1>5. /\ nodes' \in [Paths -> Inodes \cup {None}] /\ nodes'[Root] = 0
      /\ nextIno' \in 1..(OutputEntries + 1) /\ created' \in Nat
      /\ isDir' \in [Inodes -> BOOLEAN] /\ isDir'[0]
  <2>1. nodes' \in [Paths -> Inodes \cup {None}] /\ nodes'[Root] = 0
    BY <1>1, <1>2, <1>3, <1>4
  <2>2. nextIno' \in 1..(OutputEntries + 1) /\ created' \in Nat
    BY <1>1, <1>2, <1>3
  <2>3. 0 \in Inodes
    BY <1>2 DEF Inodes
  <2>4. isDir' \in [Inodes -> BOOLEAN] /\ isDir'[0]
    BY <1>1, <1>3, <1>4, <2>3
  <2> QED BY <2>1, <2>2, <2>4
<1>6. Linked' = Linked \cup {n} /\ n \notin Linked
  BY <1>1, <1>2, <1>3, <1>4 DEF Linked
<1>7. IsFiniteSet(Linked') /\ Cardinality(Linked') = Cardinality(Linked) + 1 /\ Cardinality(Linked) \in Nat
  BY <1>3, <1>6, FS_AddElement, FS_CardinalityType
<1>8. EntriesBounded'
  BY <1>1, <1>2, <1>3, <1>7 DEF EntriesBounded
<1>9. \A m \in Paths : nodes'[m] # None => nodes'[m] < nextIno'
  <2>1. \A m \in Paths : nodes[m] # None => nodes[m] < nextIno /\ nodes[m] \in Int
    BY <1>3 DEF NamesPart, Inodes
  <2> QED BY <1>1, <1>2, <1>3, <2>1
<1>10. \A i \in Inodes : i >= nextIno' => ~isDir'[i]
  <2>1. \A i \in Inodes : i \in Int /\ (i >= nextIno' => i # nextIno /\ i >= nextIno)
    BY <1>1, <1>3 DEF Inodes
  <2> QED BY <1>1, <1>3, <1>4, <2>1 DEF NamesPart
<1>11. NamesFormTree'
  <2>1. \A m \in Paths : nodes[m] # None => nodes[m] \in Inodes /\ nodes[m] # nextIno
    BY <1>3 DEF NamesPart, Inodes
  <2>2. SUFFICES ASSUME NEW m \in Names, nodes'[m] # None
                 PROVE  nodes'[Parent[m]] # None /\ nodes'[Parent[m]] \in Inodes /\ isDir'[nodes'[Parent[m]]]
    BY DEF NamesFormTree
  <2>3. nodes[Parent[m]] # None /\ isDir[nodes[Parent[m]]]
    <3>1. CASE m = n
      BY <1>1, <3>1
    <3>2. CASE m # n
      <4>1. nodes[m] # None
        BY <1>1, <1>2, <1>3, <2>2, <3>2
      <4>2. PICK i \in Inodes : nodes[Parent[m]] = i /\ isDir[i]
        BY <4>1 DEF NamesPart, NamesFormTree
      <4> QED BY <1>2, <4>2
    <3> QED BY <3>1, <3>2
  <2>4. Parent[m] # n
    BY <1>1, <2>3
  <2>5. nodes'[Parent[m]] = nodes[Parent[m]] /\ nodes[Parent[m]] \in Inodes /\ nodes[Parent[m]] # nextIno
    BY <1>1, <1>2, <1>3, <2>1, <2>3, <2>4
  <2> QED BY <1>1, <1>2, <1>3, <2>3, <2>5
<1>12. NamesAreShort'
  BY <1>1, <1>2, <1>3, FSAssumption DEF NamesPart, NamesAreShort
<1>13. NamesPart'
  BY <1>5, <1>7, <1>8, <1>9, <1>10, <1>11, <1>12 DEF NamesPart
<1>14. FreshPart'
  <2>1. \A i \in Inodes : i \in Int /\ (i >= nextIno' => i >= nextIno)
    BY <1>1, <1>3 DEF Inodes
  <2> QED BY <1>1, <2>1 DEF FreshPart
<1> QED BY <1>1, <1>4, <1>13, <1>14, SameBytes

\* A refused call changes nothing but the limit.
LEMMA RefusedStep ==
  ASSUME FSInv, NEW n \in Names, TooLong(n) \/ CreateRefused(n)
  PROVE  FSInv'
<1>1. /\ UNCHANGED <<nodes, nextIno, isDir, length, used, created, files>>
      /\ \E what \in {"pathBytes", "outputEntries", "outputBytes"} : Exceeded(what)
  BY DEF TooLong, CreateRefused, EntryRefused
<1> QED BY <1>1, Parts, PartsNext, SameNames, SameBytes, SameFiles, ExceededLimit DEF FreshPart

\* A descriptor is replaced by one of an inode that has been made.
LEMMA FilesStep ==
  ASSUME FilesPart, NEW h \in Handles, NEW f \in OpenFiles, nextIno \in Nat, nextIno' \in Nat,
         nextIno <= nextIno', f.node < nextIno', \A i \in Inodes : i \in Nat,
         files' = [files EXCEPT ![h] = f]
  PROVE  FilesPart'
<1>1. files' \in [Handles -> OpenFiles \cup {Closed}]
  BY DEF FilesPart
<1>2. ASSUME NEW g \in Handles, files'[g] # Closed
      PROVE  files'[g].node < nextIno'
  <2>1. CASE g = h
    BY <2>1 DEF FilesPart
  <2>2. CASE g # h
    <3>1. files'[g] = files[g] /\ files[g] # Closed
      BY <1>2, <2>2 DEF FilesPart
    <3>2. files[g].node \in Inodes /\ files[g].node < nextIno
      BY <3>1 DEF FilesPart, OpenFiles, IsOpen, Node
    <3> QED BY <3>1, <3>2
  <2> QED BY <2>1, <2>2
<1> QED BY <1>1, <1>2 DEF FilesPart, IsOpen, Node

LEMMA InodesAreNumbers == \A i \in Inodes : i \in Nat
BY FSAssumption DEF Inodes

\* What a new descriptor is.
LEMMA NewFile ==
  ASSUME NEW i \in Inodes, NEW write \in BOOLEAN, NEW append \in BOOLEAN
  PROVE  File(i, write, append) \in OpenFiles /\ File(i, write, append).node = i
BY FSAssumption DEF File, OpenFiles

LEMMA OpenNewStep ==
  ASSUME FSInv, NEW h \in Handles, NEW n \in Names,
         NEW write \in BOOLEAN, NEW append \in BOOLEAN, NEW trunc \in BOOLEAN,
         OpenNew(h, n, write, append, trunc)
  PROVE  FSInv'
<1>1. NamesPart /\ BytesPart /\ LimitPart /\ FilesPart /\ FreshPart
  BY Parts
<1>2. CASE TooLong(n) \/ CreateRefused(n)
  BY <1>2, RefusedStep
<1>3. CASE /\ Create(n, FALSE)
           /\ files' = IF trunc /\ ~write THEN files
                       ELSE [files EXCEPT ![h] = File(nextIno, write, append)]
           /\ UNCHANGED limit
  <2>1. NamesPart' /\ BytesPart' /\ FreshPart' /\ nextIno \in Inodes /\ nextIno' = nextIno + 1
    BY <1>1, <1>3, CreateStep
  <2>2. nextIno \in Nat /\ nextIno' \in Nat /\ nextIno < nextIno'
    BY <2>1, InodesAreNumbers
  <2>3. CASE trunc /\ ~write
    <3>1. files' = files
      BY <1>3, <2>3
    <3>2. \A g \in Handles : IsOpen(g) => Node(g) \in Nat
      BY <1>1, Held, InodesAreNumbers
    <3>3. FilesPart'
      BY <1>1, <2>2, <3>1, <3>2 DEF FilesPart, IsOpen, Node
    <3> QED BY <1>1, <1>3, <2>1, <3>3, PartsNext DEF LimitPart
  <2>4. CASE ~(trunc /\ ~write)
    <3>1. files' = [files EXCEPT ![h] = File(nextIno, write, append)]
      BY <1>3, <2>4
    <3>2. File(nextIno, write, append) \in OpenFiles /\ File(nextIno, write, append).node < nextIno'
      BY <2>1, <2>2, NewFile
    <3>3. nextIno <= nextIno'
      BY <2>2
    <3>4. FilesPart'
      BY <1>1, <2>2, <3>1, <3>2, <3>3, FilesStep, InodesAreNumbers
    <3> QED BY <1>1, <1>3, <2>1, <3>4, PartsNext DEF LimitPart
  <2> QED BY <2>3, <2>4
<1> QED BY <1>2, <1>3 DEF OpenNew

LEMMA OpenOldStep ==
  ASSUME FSInv, NEW h \in Handles, NEW n \in Paths,
         NEW write \in BOOLEAN, NEW append \in BOOLEAN, NEW trunc \in BOOLEAN,
         OpenOld(h, n, write, append, trunc)
  PROVE  FSInv'
<1>1. NamesPart /\ BytesPart /\ LimitPart /\ FilesPart /\ FreshPart
  BY Parts
<1>2. /\ nodes[n] # None
      /\ files' = [files EXCEPT ![h] = File(nodes[n], write, append)]
      /\ IF trunc THEN Truncate(nodes[n], 0) ELSE UNCHANGED <<length, used>>
      /\ UNCHANGED <<nodes, nextIno, isDir, created, limit>>
  BY DEF OpenOld
<1>3. nodes[n] \in Inodes /\ nodes[n] < nextIno /\ nextIno \in Nat
  BY <1>1, <1>2, FSAssumption DEF NamesPart
<1>4. FilesPart'
  <2>1. File(nodes[n], write, append) \in OpenFiles /\ File(nodes[n], write, append).node < nextIno'
    BY <1>2, <1>3, NewFile
  <2>2. nextIno <= nextIno' /\ nextIno' \in Nat
    BY <1>2, <1>3
  <2> QED BY <1>1, <1>2, <1>3, <2>1, <2>2, FilesStep, InodesAreNumbers
<1>5. BytesPart' /\ FreshPart'
  <2>1. CASE trunc
    <3>1. length[nodes[n]] \in Nat /\ used \in Int /\ used <= OutputBytes /\ OutputBytes \in Nat
      BY <1>1, <1>3, FSAssumption DEF BytesPart
    <3>2. BytesFit(nodes[n], 0)
      BY <3>1 DEF BytesFit
    <3> QED BY <1>1, <1>2, <1>3, <2>1, <3>2, TruncateStep, TruncateFresh
  <2>2. CASE ~trunc
    BY <1>1, <1>2, <2>2, SameBytes DEF FreshPart
  <2> QED BY <2>1, <2>2
<1> QED BY <1>1, <1>2, <1>4, <1>5, SameNames, PartsNext DEF LimitPart

LEMMA MkdirStep ==
  ASSUME FSInv, NEW n \in Names, Mkdir(n)
  PROVE  FSInv'
<1>1. NamesPart /\ BytesPart /\ LimitPart /\ FilesPart /\ FreshPart
  BY Parts
<1>2. CASE TooLong(n) \/ CreateRefused(n)
  BY <1>2, RefusedStep
<1>3. CASE Create(n, TRUE) /\ UNCHANGED <<limit, files>>
  <2>1. NamesPart' /\ BytesPart' /\ FreshPart' /\ nextIno \in Inodes /\ nextIno' = nextIno + 1
    BY <1>1, <1>3, CreateStep
  <2>2. \A g \in Handles : IsOpen(g) => Node(g) \in Nat
    BY <1>1, Held, InodesAreNumbers
  <2>3. FilesPart'
    BY <1>1, <1>3, <2>1, <2>2, InodesAreNumbers DEF FilesPart, IsOpen, Node
  <2> QED BY <1>1, <1>3, <2>1, <2>3, PartsNext DEF LimitPart
<1> QED BY <1>2, <1>3 DEF Mkdir

\* No name is below a file, so a file's name can go.
LEMMA UnlinkStep ==
  ASSUME FSInv, NEW n \in Names, Unlink(n)
  PROVE  FSInv'
<1>1. NamesPart /\ BytesPart /\ LimitPart /\ FilesPart /\ FreshPart
  BY Parts
<1>2. /\ nodes[n] # None /\ ~isDir[nodes[n]]
      /\ nodes' = [nodes EXCEPT ![n] = None]
      /\ UNCHANGED <<nextIno, isDir, length, used, created, limit, files>>
  BY DEF Unlink, IsFile
<1>3. n \in Paths /\ n # Root /\ Root \in Paths /\ \A m \in Names : m \in Paths /\ Parent[m] \in Paths
  BY FSAssumption DEF Paths
<1>4. nodes \in [Paths -> Inodes \cup {None}]
  BY <1>1 DEF NamesPart
<1>5. Linked' = Linked \ {n} /\ n \in Linked
  BY <1>2, <1>3, <1>4 DEF Linked
<1>6. IsFiniteSet(Linked') /\ Cardinality(Linked') = Cardinality(Linked) - 1 /\ Cardinality(Linked) \in Nat
  BY <1>1, <1>5, FS_RemoveElement, FS_CardinalityType DEF NamesPart
<1>7. EntriesBounded'
  BY <1>1, <1>2, <1>6 DEF NamesPart, EntriesBounded
<1>8. NamesFormTree'
  <2>1. SUFFICES ASSUME NEW m \in Names, nodes'[m] # None
                 PROVE  \E i \in Inodes : nodes'[Parent[m]] = i /\ isDir[i]
    BY <1>2 DEF NamesFormTree
  <2>2. nodes[m] # None
    BY <1>2, <1>3, <1>4, <2>1
  <2>3. PICK i \in Inodes : nodes[Parent[m]] = i /\ isDir[i]
    BY <1>1, <2>2 DEF NamesPart, NamesFormTree
  <2> QED BY <1>2, <1>3, <1>4, <2>3
<1>9. NamesPart'
  BY <1>1, <1>2, <1>3, <1>4, <1>6, <1>7, <1>8, FSAssumption DEF NamesPart, NamesAreShort
<1> QED BY <1>1, <1>2, <1>9, SameBytes, SameFiles, PartsNext DEF LimitPart, FreshPart

\* A file's name moves to where no directory is.
LEMMA RenameStep ==
  ASSUME FSInv, NEW from \in Names, NEW to \in Names, Rename(from, to)
  PROVE  FSInv'
<1>1. NamesPart /\ BytesPart /\ LimitPart /\ FilesPart /\ FreshPart
  BY Parts
<1>2. /\ nodes[from] # None /\ ~isDir[nodes[from]] /\ from # to /\ to \notin Overlong
      /\ nodes[Parent[to]] # None /\ isDir[nodes[Parent[to]]]
      /\ nodes[to] # None => ~isDir[nodes[to]]
      /\ nodes[to] = None => to \notin Long /\ created < OutputEntries
      /\ created' = IF nodes[to] = None THEN created + 1 ELSE created
      /\ nodes' = [nodes EXCEPT ![from] = None, ![to] = nodes[from]]
      /\ UNCHANGED <<nextIno, isDir, length, used, limit, files>>
  BY DEF Rename, IsFile, ParentIsDir, EntryFits, Charged
<1>3. /\ from \in Paths /\ to \in Paths /\ from # Root /\ to # Root /\ Root \in Paths
      /\ \A m \in Names : m \in Paths /\ Parent[m] \in Paths
  BY FSAssumption DEF Paths
<1>4. nodes \in [Paths -> Inodes \cup {None}] /\ created \in Nat /\ OutputEntries \in Nat
  BY <1>1, FSAssumption DEF NamesPart
<1>5. \A m \in Paths : nodes'[m] = IF m = to THEN nodes[from] ELSE IF m = from THEN None ELSE nodes[m]
  <2> DEFINE gone == [nodes EXCEPT ![from] = None]
  <2>1. gone \in [Paths -> Inodes \cup {None}]
    BY <1>4
  <2>2. \A m \in Paths : gone[m] = IF m = from THEN None ELSE nodes[m]
    BY <1>4
  <2>3. nodes' = [gone EXCEPT ![to] = nodes[from]]
    BY <1>2
  <2> HIDE DEF gone
  <2> QED BY <1>3, <2>1, <2>2, <2>3
<1>6. from \in Linked /\ (to \in Linked <=> nodes[to] # None) /\ Linked' = (Linked \ {from}) \cup {to}
  <2>1. from \in Linked /\ (to \in Linked <=> nodes[to] # None)
    BY <1>2 DEF Linked
  <2>2. \A m \in Names : nodes'[m] # None <=> (m # from /\ nodes[m] # None) \/ m = to
    BY <1>2, <1>3, <1>5
  <2>3. \A m : m \in Linked' <=> m \in (Linked \ {from}) \cup {to}
    BY <2>2 DEF Linked
  <2> QED BY <2>1, <2>3
<1>7. /\ IsFiniteSet(Linked') /\ Cardinality(Linked) \in Nat
      /\ Cardinality(Linked') = IF nodes[to] = None THEN Cardinality(Linked) ELSE Cardinality(Linked) - 1
  <2>1. IsFiniteSet(Linked) /\ Cardinality(Linked) \in Nat
    BY <1>1, FS_CardinalityType DEF NamesPart
  <2>2. IsFiniteSet(Linked \ {from}) /\ Cardinality(Linked \ {from}) = Cardinality(Linked) - 1
    BY <1>6, <2>1, FS_RemoveElement
  <2>3. to \in Linked \ {from} <=> nodes[to] # None
    BY <1>2, <1>6
  <2>4. /\ IsFiniteSet((Linked \ {from}) \cup {to})
        /\ Cardinality((Linked \ {from}) \cup {to}) =
             IF to \in Linked \ {from} THEN Cardinality(Linked \ {from}) ELSE Cardinality(Linked \ {from}) + 1
    BY <2>2, FS_AddElement
  <2> QED BY <1>6, <2>1, <2>2, <2>3, <2>4
<1>8. EntriesBounded' /\ created' \in Nat
  BY <1>1, <1>2, <1>4, <1>7, FSAssumption DEF NamesPart, EntriesBounded
<1>9. NamesFormTree'
  <2>1. SUFFICES ASSUME NEW m \in Names, nodes'[m] # None
                 PROVE  \E i \in Inodes : nodes'[Parent[m]] = i /\ isDir[i]
    BY <1>2 DEF NamesFormTree
  <2>2. PICK i \in Inodes : nodes[Parent[m]] = i /\ isDir[i]
    <3>1. CASE m = to
      BY <1>2, <1>3, <1>4, <3>1
    <3>2. CASE m # to
      BY <1>1, <1>3, <1>5, <2>1, <3>2 DEF NamesPart, NamesFormTree
    <3> QED BY <3>1, <3>2
  <2>3. i # None
    BY FSAssumption DEF Inodes
  <2>4. Parent[m] # from /\ Parent[m] # to
    BY <1>2, <2>2, <2>3
  <2> QED BY <1>3, <1>5, <2>2, <2>4
<1>10. NamesAreShort'
  <2>1. to \notin Long
    BY <1>1, <1>2 DEF NamesPart, NamesAreShort
  <2> QED BY <1>1, <1>2, <1>3, <1>5, <2>1, FSAssumption DEF NamesPart, NamesAreShort
<1>11. /\ nodes' \in [Paths -> Inodes \cup {None}] /\ nodes'[Root] = 0
       /\ \A m \in Paths : nodes'[m] # None => nodes'[m] < nextIno
  BY <1>1, <1>2, <1>3, <1>4, <1>5 DEF NamesPart
<1>12. NamesPart'
  BY <1>1, <1>2, <1>7, <1>8, <1>9, <1>10, <1>11 DEF NamesPart
<1> QED BY <1>1, <1>2, <1>12, SameBytes, SameFiles, PartsNext DEF LimitPart, FreshPart

-----------------------------------------------------------------------------
(* Calls that change nothing but descriptors.                              *)

LEMMA HandleStep ==
  ASSUME FSInv, NEW h \in Handles,
         \/ \E to \in 0..OutputBytes : Move(h, to)
         \/ \E on \in BOOLEAN : SetAppend(h, on)
         \/ CloseFile(h)
  PROVE  FSInv'
<1>1. NamesPart /\ BytesPart /\ LimitPart /\ FilesPart /\ FreshPart
  BY Parts
<1>2. IsOpen(h) /\ UNCHANGED <<nodes, nextIno, isDir, length, used, created, limit>>
  BY DEF Move, SetAppend, CloseFile
<1>3. files[h] \in OpenFiles /\ nextIno \in Nat /\ files[h].node < nextIno
  BY <1>1, <1>2, Held, FSAssumption DEF NamesPart, Node
<1>4. FilesPart'
  <2>1. CASE \E to \in 0..OutputBytes : Move(h, to)
    <3>1. PICK to \in 0..OutputBytes : files' = [files EXCEPT ![h] = [files[h] EXCEPT !.offset = to]]
      BY <2>1 DEF Move
    <3> DEFINE f == [files[h] EXCEPT !.offset = to]
    <3>2. f \in OpenFiles /\ f.node = files[h].node
      BY <1>3 DEF OpenFiles
    <3>3. files' = [files EXCEPT ![h] = f]
      BY <3>1
    <3> HIDE DEF f
    <3>4. f.node < nextIno' /\ nextIno <= nextIno' /\ nextIno' \in Nat
      BY <1>2, <1>3, <3>2
    <3> QED BY <1>1, <1>3, <3>2, <3>3, <3>4, FilesStep, InodesAreNumbers
  <2>2. CASE \E on \in BOOLEAN : SetAppend(h, on)
    <3>1. PICK on \in BOOLEAN : files' = [files EXCEPT ![h] = [files[h] EXCEPT !.append = on]]
      BY <2>2 DEF SetAppend
    <3> DEFINE f == [files[h] EXCEPT !.append = on]
    <3>2. f \in OpenFiles /\ f.node = files[h].node
      BY <1>3 DEF OpenFiles
    <3>3. files' = [files EXCEPT ![h] = f]
      BY <3>1
    <3> HIDE DEF f
    <3>4. f.node < nextIno' /\ nextIno <= nextIno' /\ nextIno' \in Nat
      BY <1>2, <1>3, <3>2
    <3> QED BY <1>1, <1>3, <3>2, <3>3, <3>4, FilesStep, InodesAreNumbers
  <2>3. CASE CloseFile(h)
    BY <1>1, <1>2, <2>3 DEF CloseFile, FilesPart, IsOpen, Node
  <2> QED BY <2>1, <2>2, <2>3
<1> QED BY <1>1, <1>2, <1>4, SameNames, SameBytes, PartsNext DEF LimitPart, FreshPart

-----------------------------------------------------------------------------
(* The invariant holds.                                                    *)

LEMMA FSInitInv == FSInit => FSInv
<1> SUFFICES ASSUME FSInit PROVE FSInv
  OBVIOUS
<1>1. OutputEntries \in Nat /\ OutputBytes \in Nat /\ None \notin Inodes /\ 0 \in Inodes /\ Root \notin Names
  BY FSAssumption DEF Inodes
<1>2. Linked = {}
  BY <1>1 DEF FSInit, Linked, Paths
<1>3. IsFiniteSet(Linked) /\ Cardinality(Linked) = 0
  BY <1>2, FS_EmptySet
<1>4. NamesPart
  <2>1. \A n \in Paths : nodes[n] # None => n = Root /\ nodes[n] = 0
    BY DEF FSInit
  <2>2. NamesFormTree /\ NamesAreShort
    BY <1>1, <2>1, FSAssumption DEF NamesFormTree, NamesAreShort, Paths
  <2>3. EntriesBounded
    BY <1>1, <1>3 DEF FSInit, EntriesBounded
  <2>4. isDir = [i \in Inodes |-> i = 0] /\ nextIno = 1
    BY DEF FSInit
  <2>5. \A i \in Inodes : isDir[i] <=> i = 0
    BY <2>4
  <2>6. \A i \in Inodes : i >= nextIno => ~isDir[i]
    BY <2>4, <2>5, InodesAreNumbers
  <2>7. isDir \in [Inodes -> BOOLEAN] /\ isDir[0]
    BY <1>1, <2>4, <2>5
  <2>8. nodes \in [Paths -> Inodes \cup {None}] /\ nodes[Root] = 0
    BY <1>1 DEF FSInit, Paths
  <2>9. nextIno \in 1..(OutputEntries + 1) /\ created \in Nat
    BY <1>1 DEF FSInit
  <2> QED BY <1>3, <2>1, <2>2, <2>3, <2>4, <2>6, <2>7, <2>8, <2>9 DEF NamesPart
<1>5. BytesPart
  <2>1. BytesOf(length, Inodes) = {}
    BY DEF FSInit, BytesOf
  <2>2. ChargeIsExact
    BY <2>1, FS_EmptySet DEF FSInit, ChargeIsExact, Bytes
  <2> QED BY <1>1, <2>2 DEF FSInit, BytesPart
<1>6. LimitPart /\ FilesPart /\ FreshPart
  BY DEF FSInit, LimitPart, FilesPart, FreshPart, IsOpen, Closed
<1> QED BY <1>4, <1>5, <1>6, Parts

LEMMA OpenFileStep ==
  ASSUME FSInv, NEW h \in Handles, OpenFile(h)
  PROVE  FSInv'
BY OpenNewStep, OpenOldStep DEF OpenFile

LEMMA FSStepInv == FSInv /\ [FSNext]_fsVars => FSInv'
<1> SUFFICES ASSUME FSInv, [FSNext]_fsVars PROVE FSInv'
  OBVIOUS
<1>1. CASE \E h \in Handles : Descriptor(h)
  <2>1. PICK h \in Handles : Descriptor(h)
    BY <1>1
  <2>2. CASE OpenFile(h)
    BY <2>2, OpenFileStep
  <2>3. CASE \E k \in 0..MaxWrite : Write(h, k)
    BY <2>3, WriteStep
  <2>4. CASE \E k \in 0..MaxWrite, at \in 0..(OutputBytes + 1) : Pwrite(h, at, k)
    BY <2>4, PwriteStep
  <2>5. CASE \E size \in 0..(OutputBytes + 1) : SetSize(h, size)
    BY <2>5, SetSizeStep
  <2>6. CASE \/ \E to \in 0..OutputBytes : Move(h, to)
             \/ \E on \in BOOLEAN : SetAppend(h, on)
             \/ CloseFile(h)
    BY <2>6, HandleStep
  <2> QED BY <2>1, <2>2, <2>3, <2>4, <2>5, <2>6 DEF Descriptor
<1>2. CASE \E n \in Names : Mkdir(n) \/ Unlink(n)
  BY <1>2, MkdirStep, UnlinkStep
<1>3. CASE \E from, to \in Names : Rename(from, to) \/ RenameRefused(from, to)
  <2>1. PICK from \in Names, to \in Names : Rename(from, to) \/ RenameRefused(from, to)
    BY <1>3
  <2>2. CASE Rename(from, to)
    BY <2>2, RenameStep
  <2>3. CASE RenameRefused(from, to)
    BY <2>3, RefusedStep DEF RenameRefused
  <2> QED BY <2>1, <2>2, <2>3
<1>4. CASE UNCHANGED fsVars
  BY <1>4, Parts, PartsNext, SameNames, SameBytes, SameFiles DEF fsVars, LimitPart, FreshPart
<1> QED BY <1>1, <1>2, <1>3, <1>4 DEF FSNext

\* The inductive invariant holds of every guest, whatever it calls.
THEOREM FSInvariance == FSSpec => []FSInv
<1>1. FSInit => FSInv
  BY FSInitInv
<1>2. FSInv /\ [FSNext]_fsVars => FSInv'
  BY FSStepInv
<1> QED BY <1>1, <1>2, PTL DEF FSSpec

\* Every variable keeps its type; offsets and lengths stay within the budget,
\* so budget-offset in Pwrite is never negative.
THEOREM FSTypeCorrect == FSSpec => []FSTypeOK
<1>1. FSInv => FSTypeOK
  BY DEF FSInv
<1> QED BY <1>1, FSInvariance, PTL

\* The charge is exactly the bytes of every inode ever made.
THEOREM ChargesAreExact == FSSpec => []ChargeIsExact
<1>1. FSInv => ChargeIsExact
  BY DEF FSInv
<1> QED BY <1>1, FSInvariance, PTL

\* What a guest can reach by name or through a descriptor fits the budget.
THEOREM BytesAreBounded == FSSpec => []BytesBounded
<1>1. FSInv => BytesBounded
  <2> SUFFICES ASSUME FSInv PROVE BytesBounded
    OBVIOUS
  <2>1. NamesPart /\ BytesPart /\ FilesPart
    BY Parts
  <2>2. Reachable \subseteq Inodes
    BY <2>1, Held DEF Reachable, NamesPart, Node
  <2>3. length \in [Inodes -> 0..OutputBytes] /\ OutputBytes \in Nat /\ used \in Int /\ used <= OutputBytes
    BY <2>1, FSAssumption DEF BytesPart
  <2>4. BytesOf(length, Reachable) \subseteq BytesOf(length, Inodes)
    BY <2>2 DEF BytesOf
  <2>5. /\ IsFiniteSet(BytesOf(length, Inodes)) /\ Cardinality(BytesOf(length, Inodes)) \in Nat
        /\ Cardinality(BytesOf(length, Reachable)) \in Nat
    BY <2>2, <2>3, BytesFinite
  <2>6. Cardinality(BytesOf(length, Reachable)) <= Cardinality(BytesOf(length, Inodes))
    BY <2>4, <2>5, FS_Subset
  <2> QED BY <2>1, <2>3, <2>5, <2>6 DEF BytesBounded, BytesPart, ChargeIsExact, Bytes
<1> QED BY <1>1, FSInvariance, PTL

\* Neither inodes nor names outgrow the entry budget.
THEOREM EntriesAreBounded == FSSpec => []EntriesBounded
<1>1. FSInv => EntriesBounded
  BY DEF FSInv
<1> QED BY <1>1, FSInvariance, PTL

\* The names are a tree at every moment a snapshot can be taken.
THEOREM NamesAreATree == FSSpec => []NamesFormTree
<1>1. FSInv => NamesFormTree
  BY DEF FSInv
<1> QED BY <1>1, FSInvariance, PTL

\* No name over PathBytes is ever made.
THEOREM NamesStayShort == FSSpec => []NamesAreShort
<1>1. FSInv => NamesAreShort
  BY DEF FSInv
<1> QED BY <1>1, FSInvariance, PTL

-----------------------------------------------------------------------------
(* What a single call may do.                                              *)

\* The names a call makes.
NamesMade == {n \in Names : nodes[n] = None /\ nodes'[n] # None}

LEMMA NoNameMade ==
  ASSUME \A n \in Names : nodes'[n] = nodes[n] \/ nodes'[n] = None, created' = created, created \in Nat
  PROVE  created' - created = Cardinality(NamesMade)
<1>1. NamesMade = {}
  BY DEF NamesMade
<1> QED BY <1>1, FS_EmptySet

LEMMA CreateMakesOne ==
  ASSUME FSInv, NEW n \in Names, NEW dir \in BOOLEAN, Create(n, dir)
  PROVE  created' - created = Cardinality(NamesMade)
<1>1. nodes' = [nodes EXCEPT ![n] = nextIno] /\ created' = created + 1 /\ nodes[n] = None
  BY DEF Create, Add
<1>2. nodes \in [Paths -> Inodes \cup {None}] /\ created \in Nat
  BY Parts DEF NamesPart
<1>3. nextIno # None /\ Names \subseteq Paths
  <2>1. NamesPart /\ BytesPart /\ FreshPart
    BY Parts
  <2>2. nextIno \in Inodes
    BY <2>1, CreateStep
  <2> QED BY <2>2, FSAssumption DEF Inodes, Paths
<1>4. NamesMade = {n}
  BY <1>1, <1>2, <1>3 DEF NamesMade
<1>5. Cardinality({n}) = 1
  BY FS_Singleton
<1>6. Cardinality(NamesMade) = 1
  BY <1>4, <1>5
<1> QED BY <1>1, <1>2, <1>6

LEMMA RenameMakesItsName ==
  ASSUME FSInv, NEW from \in Names, NEW to \in Names, Rename(from, to)
  PROVE  created' - created = Cardinality(NamesMade)
<1>1. /\ nodes[from] # None /\ from # to
      /\ created' = IF nodes[to] = None THEN created + 1 ELSE created
      /\ nodes' = [nodes EXCEPT ![from] = None, ![to] = nodes[from]]
  BY DEF Rename, IsFile, Charged
<1>2. nodes \in [Paths -> Inodes \cup {None}] /\ created \in Nat /\ Names \subseteq Paths
  BY Parts DEF NamesPart, Paths
<1>3. \A n \in Names : nodes'[n] = IF n = to THEN nodes[from] ELSE IF n = from THEN None ELSE nodes[n]
  <2> DEFINE gone == [nodes EXCEPT ![from] = None]
  <2>1. gone \in [Paths -> Inodes \cup {None}] /\ \A n \in Paths : gone[n] = IF n = from THEN None ELSE nodes[n]
    BY <1>2
  <2>2. nodes' = [gone EXCEPT ![to] = nodes[from]]
    BY <1>1
  <2> HIDE DEF gone
  <2> QED BY <1>2, <2>1, <2>2
<1>4. CASE nodes[to] = None
  <2>1. NamesMade = {to}
    BY <1>1, <1>3, <1>4 DEF NamesMade
  <2>2. Cardinality({to}) = 1
    BY FS_Singleton
  <2>3. created' = created + 1
    BY <1>1, <1>4
  <2> QED BY <1>2, <2>1, <2>2, <2>3
<1>5. CASE nodes[to] # None
  <2>1. NamesMade = {}
    BY <1>1, <1>3, <1>5 DEF NamesMade
  <2> QED BY <1>1, <1>2, <1>5, <2>1, FS_EmptySet
<1> QED BY <1>4, <1>5

\* Every step charges exactly the names it makes: a rename to a new name is
\* charged, a rename over a file, an unlink and a refused call are not.
THEOREM NamesCharged == FSSpec => NamesAreCharged
<1>1. FSInv /\ [FSNext]_fsVars => [created' - created = Cardinality(NamesMade)]_fsVars
  <2> SUFFICES ASSUME FSInv, FSNext PROVE created' - created = Cardinality(NamesMade)
    OBVIOUS
  <2>1. created \in Nat
    BY Parts DEF NamesPart
  <2>2. ASSUME UNCHANGED <<nodes, created>>
        PROVE  created' - created = Cardinality(NamesMade)
    BY <2>1, <2>2, NoNameMade
  <2>3. CASE \E n \in Names, dir \in BOOLEAN : Create(n, dir)
    BY <2>3, CreateMakesOne
  <2>4. CASE \E h \in Handles : Descriptor(h)
    <3> DEFINE Made == \E n \in Names, dir \in BOOLEAN : Create(n, dir)
    <3>1. PICK h \in Handles : Descriptor(h) BY <2>4
    <3>2. OpenFile(h) => UNCHANGED <<nodes, created>> \/ Made
      <4>1. ASSUME NEW n \in Names, NEW write, NEW append, NEW trunc,
                   OpenNew(h, n, write, append, trunc)
            PROVE  UNCHANGED <<nodes, created>> \/ Made
        <5>1. TooLong(n) \/ CreateRefused(n) \/ Create(n, FALSE) BY <4>1 DEF OpenNew
        <5>2. TooLong(n) \/ CreateRefused(n) => UNCHANGED <<nodes, created>>
          BY DEF TooLong, CreateRefused
        <5>3. FALSE \in BOOLEAN OBVIOUS
        <5> QED BY <5>1, <5>2, <5>3
      <4>2. ASSUME NEW n, NEW write, NEW append, NEW trunc, OpenOld(h, n, write, append, trunc)
            PROVE  UNCHANGED <<nodes, created>>
        BY <4>2 DEF OpenOld
      <4> HIDE DEF Made
      <4> QED BY <4>1, <4>2 DEF OpenFile
    <3>3. ~OpenFile(h) => UNCHANGED <<nodes, created>>
      BY <3>1 DEF Descriptor, Write, Pwrite, SetSize, Move, SetAppend, CloseFile
    <3> QED BY <2>2, <2>3, <3>2, <3>3
  <2>5. CASE \E n \in Names : Mkdir(n)
    <3>1. UNCHANGED <<nodes, created>> \/ \E n \in Names, dir \in BOOLEAN : Create(n, dir)
      BY <2>5 DEF Mkdir, TooLong, CreateRefused
    <3> QED BY <2>2, <2>3, <3>1
  <2>6. CASE \E n \in Names : Unlink(n)
    <3>1. PICK n \in Names : nodes' = [nodes EXCEPT ![n] = None] /\ created' = created
      BY <2>6 DEF Unlink
    <3>2. nodes \in [Paths -> Inodes \cup {None}] /\ Names \subseteq Paths
      BY Parts DEF NamesPart, Paths
    <3>3. \A m \in Names : nodes'[m] = nodes[m] \/ nodes'[m] = None
      BY <3>1, <3>2
    <3> QED BY <2>1, <3>1, <3>3, NoNameMade
  <2>7. CASE \E from, to \in Names : Rename(from, to)
    BY <2>7, RenameMakesItsName
  <2>8. CASE \E from, to \in Names : RenameRefused(from, to)
    <3>1. UNCHANGED <<nodes, created>>
      BY <2>8 DEF RenameRefused, TooLong, CreateRefused
    <3> QED BY <2>2, <3>1
  <2> QED BY <2>4, <2>5, <2>6, <2>7, <2>8 DEF FSNext
<1> QED BY <1>1, FSInvariance, PTL DEF FSSpec, NamesAreCharged, NamesMade

\* The first budget exceeded stays the one reported, and the call that exceeds
\* it changes no name, byte or entry.
THEOREM FirstLimitIsFinal == FSSpec => FirstLimitStays
<1>1. [FSNext]_fsVars =>
        [limit' # limit => limit = "none" /\ UNCHANGED <<nodes, length, used, created>>]_fsVars
  <2> SUFFICES ASSUME FSNext, limit' # limit
               PROVE  limit = "none" /\ UNCHANGED <<nodes, length, used, created>>
    OBVIOUS
  <2>1. ASSUME NEW what, Exceeded(what)
        PROVE  limit = "none"
    BY <2>1 DEF Exceeded
  <2>2. ASSUME NEW n \in Names, TooLong(n) \/ CreateRefused(n)
        PROVE  limit = "none" /\ UNCHANGED <<nodes, length, used, created>>
    BY <2>1, <2>2 DEF TooLong, CreateRefused, EntryRefused
  <2>3. ASSUME NEW i, NEW at, NEW k, Put(i, at, k)
        PROVE  limit = "none" /\ UNCHANGED <<length, used>>
    BY <2>1, <2>3 DEF Put
  <2>4. CASE \E h \in Handles : Descriptor(h)
    <3>1. PICK h \in Handles : Descriptor(h) BY <2>4
    <3>2. CASE OpenFile(h)
      BY <2>1, <2>2, <3>2 DEF OpenFile, OpenNew, OpenOld
    <3>3. CASE ~OpenFile(h)
      BY <2>1, <2>3, <3>1, <3>3 DEF Descriptor, Write, Pwrite, SetSize, Move, SetAppend, CloseFile
    <3> QED BY <3>2, <3>3
  <2>5. CASE \E n \in Names : Mkdir(n) \/ Unlink(n)
    BY <2>2, <2>5 DEF Mkdir, Unlink
  <2>6. CASE \E from, to \in Names : Rename(from, to) \/ RenameRefused(from, to)
    BY <2>2, <2>6 DEF Rename, RenameRefused
  <2> QED BY <2>4, <2>5, <2>6 DEF FSNext
<1> QED BY <1>1, PTL DEF FSSpec, FirstLimitStays
\* Bytes, inodes and names stay within their budgets, for every budget.
THEOREM BudgetsAreKept == FSSpec => []BudgetsHold
<1> QED BY ChargesAreExact, BytesAreBounded, EntriesAreBounded, PTL DEF BudgetsHold

\* The names are a tree of short names.
THEOREM NamesAreWellFormed == FSSpec => []NamesWellFormed
<1> QED BY NamesAreATree, NamesStayShort, PTL DEF NamesWellFormed

\* Every call charges the names it makes and reports the first limit only.
THEOREM StepsAreAccounted == FSSpec => StepsAccounted
<1> QED BY NamesCharged, FirstLimitIsFinal, PTL DEF StepsAccounted
=============================================================================
