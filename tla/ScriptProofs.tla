----------------------------- MODULE ScriptProofs ----------------------------
(***************************************************************************)
(* Theorems about the scripts: a release's preparation (Release), for any  *)
(* flavors, files and commits, any number of runs and any interleaving     *)
(* with the maintainer; and the build lock (BuildLock), for any number of  *)
(* scripts.                                                                *)
(***************************************************************************)
EXTENDS Release, BuildLock, TLAPS

------------------------------------------------------------------------------
\* Where the variables lie.

Steps == {"head", "status", "tags", "begin", "copy", "place", "rename"}

TypeOK ==
  /\ head \in Commits
  /\ edited \in BOOLEAN /\ moved \in BOOLEAN
  /\ tags \in [Tags -> Commits \cup {0}]
  /\ staging = [f \in Flavors |-> staging[f]]
  /\ dest = [f \in Flavors |-> dest[f]]
  /\ run # None =>
       /\ run = [pc |-> run.pc, flavor |-> run.flavor, publish |-> run.publish,
                 commit |-> run.commit, dirty |-> run.dirty, allowDirty |-> run.allowDirty,
                 allowTag |-> run.allowTag, left |-> run.left, listed |-> run.listed]
       /\ run.pc \in Steps /\ run.flavor \in Flavors /\ run.publish \in BOOLEAN
       /\ run.dirty \in BOOLEAN /\ run.allowDirty \in BOOLEAN /\ run.allowTag \in BOOLEAN

LEMMA TypeInit == Init => TypeOK
BY Constants DEF Init, TypeOK

LEMMA TypeNext == TypeOK /\ [Next]_vars => TypeOK'
<1> SUFFICES ASSUME TypeOK, [Next]_vars PROVE TypeOK'
    OBVIOUS
<1> USE DEF TypeOK, Steps, tree, At, Go
<1>1. CASE Edit BY <1>1 DEF Edit, TreeMoves
<1>2. CASE Checkout BY <1>2 DEF Checkout, TreeMoves
<1>3. CASE Tag BY <1>3 DEF Tag
<1>4. CASE Discard BY <1>4 DEF Discard
<1>5. CASE Start
  <2>1. PICK flavor \in Flavors, publish, allowDirty, allowTag \in BOOLEAN :
          run' = [pc |-> "head", flavor |-> flavor, publish |-> publish, commit |-> 0,
                  dirty |-> FALSE, allowDirty |-> allowDirty, allowTag |-> allowTag,
                  left |-> {}, listed |-> Empty]
    BY <1>5 DEF Start
  <2>2. /\ run' = [pc |-> run'.pc, flavor |-> run'.flavor, publish |-> run'.publish,
                   commit |-> run'.commit, dirty |-> run'.dirty,
                   allowDirty |-> run'.allowDirty, allowTag |-> run'.allowTag,
                   left |-> run'.left, listed |-> run'.listed]
        /\ run'.pc \in Steps /\ run'.flavor \in Flavors /\ run'.publish \in BOOLEAN
        /\ run'.dirty \in BOOLEAN /\ run'.allowDirty \in BOOLEAN /\ run'.allowTag \in BOOLEAN
    BY <2>1
  <2> QED BY <1>5, <2>2 DEF Start
<1>6. CASE ReadHead BY <1>6 DEF ReadHead
<1>7. CASE ReadStatus BY <1>7 DEF ReadStatus
<1>8. CASE Decide BY <1>8 DEF Decide
<1>9. CASE Begin BY <1>9 DEF Begin
<1>10. CASE Copy BY <1>10 DEF Copy
<1>11. CASE Pack BY <1>11 DEF Pack
<1>12. CASE Place BY <1>12 DEF Place
<1>13. CASE Rename BY <1>13 DEF Rename
<1>14. CASE Fail BY <1>14 DEF Fail
<1>15. CASE Killed BY <1>15 DEF Killed
<1>16. CASE UNCHANGED vars BY <1>16 DEF vars
<1> QED BY <1>1, <1>2, <1>3, <1>4, <1>5, <1>6, <1>7, <1>8, <1>9, <1>10, <1>11, <1>12, <1>13,
           <1>14, <1>15, <1>16 DEF Next

------------------------------------------------------------------------------
\* The archive: unless it moved, the tree a run copies from is the one it
\* judged, and the staging directory holds the part of it copied so far.

After(steps) == run # None /\ run.pc \in steps
Copying == After({"copy", "place", "rename"})
Staged == staging[run.flavor]
Judged == [commit |-> run.commit, edited |-> run.dirty]
Owed == Tracked[run.flavor][run.commit]

StagedSoFar ==
  Copying /\ ~moved =>
    /\ Staged = [file \in Owed \ run.left |-> Judged]
    /\ run.left \subseteq Owed
    /\ run.left # {} => Content = Judged

StagedAll ==
  After({"place", "rename"}) => run.listed = Staged /\ run.left = {}

ArchiveInv == TypeOK /\ StagedSoFar /\ StagedAll /\ ArchiveWhole

LEMMA ArchiveInit == Init => ArchiveInv
BY TypeInit DEF Init, ArchiveInv, StagedSoFar, StagedAll, ArchiveWhole, Copying, After

\* A step that leaves what a run owns alone cannot disturb it, unless it
\* touches the tree under the copies and says so.
LEMMA ArchiveTree ==
  ASSUME ArchiveInv, TypeOK', UNCHANGED <<staging, dest, run>>,
         moved' = moved,
         Copying /\ ~moved /\ run.left # {} => UNCHANGED <<head, edited>>
  PROVE  ArchiveInv'
<1>1. StagedSoFar'
  BY DEF ArchiveInv, TypeOK, StagedSoFar, Copying, After, Staged, Judged, Owed, Content
<1>2. StagedAll' /\ ArchiveWhole'
  BY DEF ArchiveInv, StagedAll, ArchiveWhole, After, Staged
<1> QED BY <1>1, <1>2 DEF ArchiveInv

\* The maintainer's moves.
LEMMA ArchiveMoves ==
  ASSUME ArchiveInv, TypeOK', TreeMoves
  PROVE  ArchiveInv'
<1>1. StagedSoFar'
  <2> SUFFICES ASSUME Copying', ~moved' PROVE
        /\ Staged' = [file \in Owed' \ run'.left |-> Judged']
        /\ run'.left \subseteq Owed'
        /\ run'.left # {} => Content' = Judged'
      BY DEF StagedSoFar
  <2>1. run' = run /\ staging' = staging BY DEF TreeMoves
  <2>2. Copying BY <2>1 DEF Copying, After
  <2>3. ~moved /\ ~(run.pc = "copy" /\ run.left # {}) BY <2>2 DEF TreeMoves, At, Copying, After
  <2>4. run.left = {}
    BY <2>2, <2>3 DEF Copying, After, ArchiveInv, StagedAll
  <2> QED BY <2>1, <2>2, <2>3, <2>4 DEF ArchiveInv, StagedSoFar, Staged, Owed, Judged
<1>2. StagedAll' /\ ArchiveWhole'
  BY DEF TreeMoves, ArchiveInv, StagedAll, ArchiveWhole, After, Staged
<1> QED BY <1>1, <1>2 DEF ArchiveInv

\* A run that is over holds nothing.
LEMMA ArchiveOver ==
  ASSUME ArchiveInv, TypeOK', run' = None, UNCHANGED dest
  PROVE  ArchiveInv'
BY DEF ArchiveInv, StagedSoFar, StagedAll, ArchiveWhole, Copying, After

\* A step before the copies claims nothing.
LEMMA ArchiveEarly ==
  ASSUME ArchiveInv, TypeOK', UNCHANGED dest, ~Copying'
  PROVE  ArchiveInv'
BY DEF ArchiveInv, StagedSoFar, StagedAll, ArchiveWhole, Copying, After

LEMMA ArchiveNext == ArchiveInv /\ [Next]_vars => ArchiveInv'
<1> SUFFICES ASSUME ArchiveInv, [Next]_vars PROVE ArchiveInv'
    OBVIOUS
<1>0. TypeOK /\ TypeOK'
    BY TypeNext DEF ArchiveInv
<1>1. CASE Edit \/ Checkout BY <1>0, <1>1, ArchiveMoves DEF Edit, Checkout
<1>2. CASE Tag BY <1>0, <1>2, ArchiveTree DEF Tag
<1>3. CASE Discard
  <2>1. run' = None BY <1>3 DEF Discard
  <2>2. PICK f \in Flavors : dest' = [dest EXCEPT ![f] = None]
    BY <1>3 DEF Discard
  <2>3. ArchiveWhole'
    <3>1. ASSUME NEW g \in Flavors, dest'[g] # None PROVE dest'[g] = dest[g]
      BY <1>0, <2>2, <3>1 DEF TypeOK
    <3> QED BY <3>1 DEF ArchiveInv, ArchiveWhole
  <2>4. StagedSoFar' /\ StagedAll'
    BY <2>1 DEF StagedSoFar, StagedAll, Copying, After
  <2> QED BY <1>0, <2>3, <2>4 DEF ArchiveInv
<1>4. CASE Start \/ ReadHead \/ ReadStatus \/ Decide
  <2>1. UNCHANGED dest BY <1>4 DEF Start, ReadHead, ReadStatus, Decide
  <2>2. ~Copying'
    <3>1. CASE Start BY <3>1 DEF Start, Copying, After
    <3>2. CASE ReadHead \/ ReadStatus \/ Decide
      BY <1>0, <3>2 DEF ReadHead, ReadStatus, Decide, At, Copying, After, TypeOK
    <3> QED BY <1>4, <3>1, <3>2
  <2> QED BY <1>0, <2>1, <2>2, ArchiveEarly
<1>5. CASE Begin
  <2> USE <1>0, <1>5 DEF Begin, At, TypeOK
  <2>1. /\ run'.flavor = run.flavor /\ run'.commit = run.commit /\ run'.dirty = run.dirty
        /\ run'.pc = "copy" /\ run'.left = Tracked[run.flavor][head]
        /\ staging'[run.flavor] = Empty /\ UNCHANGED <<head, edited>>
    BY DEF tree, Cleared
  <2>2. StagedSoFar'
    <3> SUFFICES ASSUME ~moved' PROVE
          /\ Staged' = [file \in Owed' \ run'.left |-> Judged']
          /\ run'.left \subseteq Owed' /\ Content' = Judged'
        BY DEF StagedSoFar
    <3>1. Content = [commit |-> run.commit, edited |-> run.dirty] OBVIOUS
    <3>2. head = run.commit /\ edited = run.dirty BY <3>1 DEF Content
    <3>3. Owed' = run'.left BY <2>1, <3>2 DEF Owed
    <3>4. Staged' = Empty BY <2>1 DEF Staged
    <3> QED BY <2>1, <3>2, <3>3, <3>4 DEF Judged, Content, Empty
  <2>3. StagedAll' /\ ArchiveWhole'
    BY <2>1 DEF After, StagedAll, ArchiveInv, ArchiveWhole
  <2> QED BY <2>2, <2>3 DEF ArchiveInv
<1>6. CASE Copy
  <2>1. PICK f \in run.left \cap Tracked[run.flavor][head] :
          /\ staging' = [staging EXCEPT ![run.flavor] =
                           [g \in DOMAIN @ \cup {f} |-> IF g = f THEN Content ELSE @[g]]]
          /\ run' = [run EXCEPT !.left = @ \ {f}]
    BY <1>6 DEF Copy
  <2>2. UNCHANGED <<tree, dest, moved>> /\ At("copy") BY <1>6 DEF Copy
  <2>3. /\ run'.flavor = run.flavor /\ run'.commit = run.commit /\ run'.dirty = run.dirty
        /\ run'.pc = "copy" /\ run'.left = run.left \ {f} /\ UNCHANGED <<head, edited>>
        /\ Staged' = [g \in DOMAIN Staged \cup {f} |-> IF g = f THEN Content ELSE Staged[g]]
    BY <1>0, <2>1, <2>2 DEF At, TypeOK, Staged, tree
  <2>4. StagedSoFar'
    <3> SUFFICES ASSUME ~moved' PROVE
          /\ Staged' = [file \in Owed' \ run'.left |-> Judged']
          /\ run'.left \subseteq Owed' /\ Content' = Judged'
        BY DEF StagedSoFar
    <3>1. /\ Staged = [file \in Owed \ run.left |-> Judged]
          /\ run.left \subseteq Owed /\ Content = Judged
      BY <2>1, <2>2 DEF ArchiveInv, StagedSoFar, Copying, After, At
    <3>2. Owed' = Owed /\ Judged' = Judged /\ Content' = Content
      BY <2>3 DEF Owed, Judged, Content
    <3>3. DOMAIN Staged \cup {f} = Owed \ run'.left BY <2>1, <2>3, <3>1
    <3>4. Staged' = [file \in Owed \ run'.left |-> Judged]
      BY <2>3, <3>1, <3>3
    <3> QED BY <2>3, <3>1, <3>2, <3>4
  <2>5. StagedAll' /\ ArchiveWhole'
    BY <2>2, <2>3 DEF After, StagedAll, ArchiveInv, ArchiveWhole
  <2> QED BY <1>0, <2>4, <2>5 DEF ArchiveInv
<1>7. CASE Pack
  <2> USE <1>0, <1>7 DEF Pack, At, TypeOK
  <2>1. /\ run'.flavor = run.flavor /\ run'.commit = run.commit /\ run'.dirty = run.dirty
        /\ run.pc = "copy" /\ run'.left = {} /\ run.left = {} /\ UNCHANGED <<staging, dest, moved>>
        /\ run'.listed = staging[run.flavor]
    OBVIOUS
  <2>2. StagedSoFar'
    <3> SUFFICES ASSUME ~moved' PROVE Staged' = [file \in Owed' \ run'.left |-> Judged']
        BY <2>1 DEF StagedSoFar
    <3>1. Staged = [file \in Owed \ run.left |-> Judged]
      BY <2>1 DEF ArchiveInv, StagedSoFar, Copying, After
    <3>2. Staged' = Staged /\ Owed' = Owed /\ Judged' = Judged
      BY <2>1 DEF Staged, Owed, Judged
    <3> QED BY <2>1, <3>1, <3>2
  <2>3. StagedAll' /\ ArchiveWhole'
    BY <2>1 DEF After, StagedAll, Staged, ArchiveInv, ArchiveWhole
  <2> QED BY <2>2, <2>3 DEF ArchiveInv
<1>8. CASE Place
  <2>0. dest' = [dest EXCEPT ![run.flavor] = None] BY <1>8 DEF Place
  <2>4. ArchiveWhole'
    <3>1. ASSUME NEW g \in Flavors, dest'[g] # None PROVE dest'[g] = dest[g]
      BY <1>0, <2>0, <3>1 DEF TypeOK
    <3> QED BY <3>1 DEF ArchiveInv, ArchiveWhole
  <2>1. /\ run # None /\ run.pc = "place" /\ UNCHANGED <<staging, moved>>
        /\ run'.flavor = run.flavor /\ run'.commit = run.commit /\ run'.dirty = run.dirty
        /\ run'.left = run.left /\ run'.listed = run.listed
    BY <1>0, <1>8 DEF Place, At, Go, TypeOK
  <2>2. Staged' = Staged /\ Owed' = Owed /\ Judged' = Judged
    BY <2>1 DEF Staged, Owed, Judged
  <2>3. run.left = {} /\ run.listed = Staged BY <2>1 DEF ArchiveInv, StagedAll, After
  <2>5. StagedSoFar'
    BY <2>1, <2>2, <2>3 DEF ArchiveInv, StagedSoFar, Copying, After
  <2>6. StagedAll'
    BY <2>1, <2>2, <2>3 DEF StagedAll
  <2> QED BY <1>0, <2>4, <2>5, <2>6 DEF ArchiveInv
<1>9. CASE Rename
  <2> USE <1>0, <1>9 DEF Rename, At, TypeOK
  <2>1. StagedSoFar' /\ StagedAll' BY DEF Copying, After, StagedSoFar, StagedAll
  <2>2. After({"rename"}) /\ Copying BY DEF After, Copying
  <2>3. run.listed = Staged /\ run.left = {} BY <2>2 DEF After, ArchiveInv, StagedAll
  <2>4. ~moved => Staged = [file \in Owed |-> Judged]
    BY <2>2, <2>3 DEF ArchiveInv, StagedSoFar
  <2>5. ArchiveWhole'
    <3> SUFFICES ASSUME NEW f \in Flavors, dest'[f] # None
                 PROVE  /\ dest'[f].files = dest'[f].listed
                        /\ ~dest'[f].moved =>
                             /\ DOMAIN dest'[f].files = Tracked[f][dest'[f].commit]
                             /\ \A file \in DOMAIN dest'[f].files :
                                  dest'[f].files[file] = [commit |-> dest'[f].commit,
                                                          edited |-> dest'[f].dirty]
        BY DEF ArchiveWhole
    <3>1. CASE f = run.flavor BY <2>3, <2>4, <3>1 DEF Staged, Judged, Owed
    <3>2. CASE f # run.flavor BY <3>2, ZenonT(30) DEF ArchiveInv, ArchiveWhole
    <3> QED BY <3>1, <3>2
  <2> QED BY <2>1, <2>5 DEF ArchiveInv
<1>10. CASE Fail \/ Killed BY <1>0, <1>10, ArchiveOver DEF Fail, Killed
<1>11. CASE UNCHANGED vars BY <1>0, <1>11, ArchiveTree DEF vars
<1> QED BY <1>1, <1>2, <1>3, <1>4, <1>5, <1>6, <1>7, <1>8, <1>9, <1>10, <1>11 DEF Next

\* An archive in place is one run's, whole, however runs end and whatever an
\* earlier one left: main in release.ts clears the staging directory, copies,
\* lists and renames once.
THEOREM ArchivesAreWhole == Spec => []ArchiveWhole
<1>1. ArchiveInv => ArchiveWhole BY DEF ArchiveInv
<1> QED BY ArchiveInit, ArchiveNext, <1>1, PTL DEF Spec

------------------------------------------------------------------------------
\* The version: a run that may publish got past its tag, and a tag stays.

Admitted ==
  After({"begin", "copy", "place", "rename"}) /\ run.publish =>
    run.commit # 0 /\ tags[run.flavor] = run.commit /\ ~run.dirty

\* What the judged trees gave a publication.
CleanFiles(a) == [file \in Tracked[a.flavor][a.commit] |-> [commit |-> a.commit, edited |-> FALSE]]

Published ==
  \A a \in history :
    /\ a.flavor \in Flavors /\ a.commit # 0 /\ tags[a.flavor] = a.commit
    /\ a.files \in {None, CleanFiles(a)}

SourceInv == ArchiveInv /\ Admitted /\ Published

LEMMA SourceInit == Init => SourceInv
BY ArchiveInit DEF Init, SourceInv, Admitted, Published, After

\* A step that gives no tag a second meaning and publishes nothing.
LEMMA SourceTags ==
  ASSUME SourceInv, ArchiveInv', UNCHANGED history,
         \A t \in Tags : tags[t] # 0 => tags'[t] = tags[t],
         After({"begin", "copy", "place", "rename"})' /\ run'.publish =>
           /\ After({"begin", "copy", "place", "rename"}) /\ run.publish
           /\ run'.flavor = run.flavor /\ run'.commit = run.commit /\ run'.dirty = run.dirty
  PROVE  SourceInv'
<1>1. Admitted' BY DEF SourceInv, ArchiveInv, TypeOK, Admitted, After, Tags
<1>2. Published' BY DEF SourceInv, Published, Tags, CleanFiles
<1> QED BY <1>1, <1>2 DEF SourceInv

LEMMA SourceNext == SourceInv /\ [Next]_vars => SourceInv'
<1> SUFFICES ASSUME SourceInv, [Next]_vars PROVE SourceInv'
    OBVIOUS
<1>0. ArchiveInv' /\ TypeOK /\ TypeOK'
    BY ArchiveNext, TypeNext DEF SourceInv, ArchiveInv
<1>1. CASE Tag BY <1>0, <1>1, SourceTags DEF Tag, TypeOK, After
<1>2. CASE Edit \/ Checkout \/ Discard \/ UNCHANGED vars
  BY <1>0, <1>2, SourceTags DEF Edit, Checkout, TreeMoves, Discard, tree, vars, After
<1>3. CASE Start \/ ReadHead \/ ReadStatus
  <2>1. UNCHANGED <<tags, history>> BY <1>3 DEF Start, ReadHead, ReadStatus, tree
  <2>2. ~After({"begin", "copy", "place", "rename"})'
    <3>1. CASE Start BY <3>1 DEF Start, After
    <3>2. CASE ReadHead BY <1>0, <3>2 DEF ReadHead, At, After, TypeOK
    <3>3. CASE ReadStatus BY <1>0, <3>3 DEF ReadStatus, At, After, TypeOK
    <3> QED BY <1>3, <3>1, <3>2, <3>3
  <2> QED BY <1>0, <2>1, <2>2, SourceTags
<1>4. CASE Begin \/ Copy \/ Pack \/ Place \/ Fail \/ Killed
  <2>1. UNCHANGED <<tags, history>>
    BY <1>4 DEF Begin, Copy, Pack, Place, Fail, Killed, tree
  <2>2. After({"begin", "copy", "place", "rename"})' =>
          /\ After({"begin", "copy", "place", "rename"})
          /\ run'.publish = run.publish /\ run'.flavor = run.flavor /\ run'.commit = run.commit
          /\ run'.dirty = run.dirty
    <3>1. CASE Begin BY <1>0, <3>1 DEF Begin, At, After, TypeOK
    <3>2. CASE Copy BY <1>0, <3>2 DEF Copy, At, After, TypeOK
    <3>3. CASE Pack BY <1>0, <3>3 DEF Pack, At, After, TypeOK
    <3>4. CASE Place BY <1>0, <3>4 DEF Place, At, Go, After, TypeOK
    <3>5. CASE Fail \/ Killed BY <3>5 DEF Fail, Killed, After
    <3> QED BY <1>4, <3>1, <3>2, <3>3, <3>4, <3>5
  <2> QED BY <1>0, <2>1, <2>2, SourceTags
<1>5. CASE Decide
  <2> USE <1>0, <1>5 DEF Decide, At, Go, tree
  <2>1. run.publish => tags[run.flavor] # 0 /\ tags[run.flavor] \in {0, run.commit} /\ ~run.dirty
    BY DEF Refusal, Restrict, VersionTags, TypeOK
  <2>2. Admitted' BY <2>1 DEF Admitted, After, TypeOK
  <2>3. Published' BY DEF SourceInv, Published
  <2> QED BY <2>2, <2>3 DEF SourceInv
<1>6. CASE Rename
  <2> USE <1>0, <1>6 DEF Rename, At, tree
  <2>1. Admitted' BY DEF Admitted, After
  <2>2. run.publish => run.commit # 0 /\ tags[run.flavor] = run.commit /\ ~run.dirty
    BY DEF SourceInv, Admitted, After
  <2>3. run.publish /\ ~moved => Staged = [file \in Owed |-> Judged]
    <3>1. Copying /\ After({"place", "rename"}) BY DEF Copying, After
    <3>2. run.left = {} BY <3>1 DEF SourceInv, ArchiveInv, StagedAll
    <3> QED BY <3>1, <3>2 DEF SourceInv, ArchiveInv, StagedSoFar
  <2>4. Published'
    <3>1. CASE ~run.publish BY <3>1 DEF SourceInv, Published, CleanFiles
    <3>2. CASE run.publish
      <4> DEFINE new == [flavor |-> run.flavor, commit |-> run.commit,
                         files |-> IF moved THEN None ELSE staging[run.flavor]]
      <4>1. history' = history \cup {new} BY <3>2
      <4>2. run.dirty = FALSE BY <2>2, <3>2 DEF TypeOK
      <4>3. new.files \in {None, CleanFiles(new)}
        BY <2>3, <3>2, <4>2 DEF Staged, Owed, Judged, CleanFiles
      <4>4. new.flavor \in Flavors /\ new.commit # 0 /\ tags'[new.flavor] = new.commit
        BY <2>2, <3>2 DEF TypeOK
      <4> HIDE DEF new
      <4> QED BY <4>1, <4>3, <4>4 DEF SourceInv, Published, CleanFiles
    <3> QED BY <3>1, <3>2
  <2> QED BY <2>1, <2>4 DEF SourceInv
<1> QED BY <1>1, <1>2, <1>3, <1>4, <1>5, <1>6 DEF Next

\* A version names one set of bytes (refusal in release.ts), for any number of
\* flavors, preparations and tags: whatever moved, a publication names its tag's
\* commit, and what was copied from the judged trees is the same each time.
THEOREM VersionsHaveOneSource == Spec => []OneSource
<1>1. ASSUME SourceInv PROVE OneSource
  <2>1. \A a \in history : tags[a.flavor] = a.commit BY <1>1 DEF SourceInv, Published
  <2>2. ASSUME NEW a \in history, NEW b \in history, a.flavor = b.flavor,
               a.files # None, b.files # None
        PROVE  a.files = b.files
    <3>1. a.commit = b.commit BY <2>1, <2>2
    <3>2. a.files = CleanFiles(a) /\ b.files = CleanFiles(b) BY <1>1, <2>2 DEF SourceInv, Published
    <3> QED BY <2>2, <3>1, <3>2 DEF CleanFiles
  <2> QED BY <2>1, <2>2 DEF OneSource
<1> QED BY SourceInit, SourceNext, <1>1, PTL DEF Spec

\* The variables keep their types.
THEOREM TypesAreKept == Spec => []TypeOK
BY TypeInit, TypeNext, PTL DEF Spec

------------------------------------------------------------------------------
(* The build lock.                                                          *)

Commands == {"look", "place", "confirm", "clean", "read", "judge", "take", "mark", "tidy",
             "reclaim", "inspect", "held", "empty", "remove", "gone"}

LockTypes ==
  /\ pc \in [Scripts -> Commands] /\ owner = [p \in Scripts |-> owner[p]]
  /\ late \in BOOLEAN

\* From its marker on until it removes it, the lock is a script's.
Owns == {"tidy", "held", "empty"}

\* A lock has one marker at the most, and is not old without one.
OneMarker ==
  /\ lock \in Directories \cup {NoDirectory}
  /\ Locked => /\ \A o, u \in lock.owners : o = u
               /\ lock.old => lock.owners # {}

\* What a script's place in the program says of the lock and of what it has read:
\* a takeover is of a process that is gone, and its own entry holds the directory
\* until its marker does.
Placed(p) ==
  /\ pc[p] \notin {"reclaim", "inspect"}
  /\ pc[p] \in Owns => Locked /\ lock.owners = {p}
  /\ pc[p] = "mark" => Locked /\ lock.owners = {} /\ <<"dead", p>> \in lock.rest
  /\ Marked(p) => pc[p] \in Owns \cup {"confirm", "gone"}
  /\ pc[p] = "take" => owner[p] # {} /\ \A o \in owner[p] : ~Alive(o)
  /\ pc[p] = "judge" /\ owner[p] = {} => ~(Locked /\ lock.old)
  /\ p \notin owner[p] /\ \A o, u \in owner[p] : o = u
  /\ pc[p] \notin {"judge", "take"} => owner[p] = {}

OneTakeover == \A p, q \in Scripts : pc[p] = "mark" /\ pc[q] = "mark" => p = q

TurnsInv == OneMarker /\ (\A p \in Scripts : Placed(p)) /\ OneTakeover

LockInv == LockTypes /\ (~late => TurnsInv)

LEMMA FreshIs ==
  ASSUME NEW owners \in SUBSET (Scripts \cup Departed), NEW rest \in SUBSET Entries
  PROVE  /\ Fresh(owners, rest) \in Directories /\ Fresh(owners, rest) # NoDirectory
         /\ Fresh(owners, rest).owners = owners /\ Fresh(owners, rest).rest = rest
         /\ ~Fresh(owners, rest).old
<1>1. Fresh(owners, rest) \in Directories
  <2>1. FALSE \in BOOLEAN OBVIOUS
  <2> QED BY <2>1, Zenon DEF Fresh, Directories
<1>2. Fresh(owners, rest).owners = owners /\ Fresh(owners, rest).rest = rest BY DEF Fresh
<1>3. ~Fresh(owners, rest).old BY DEF Fresh
<1> QED BY <1>1, <1>2, <1>3, LockAssumption

LEMMA LockInitInv == LockInit => LockInv
<1> SUFFICES ASSUME LockInit PROVE LockInv OBVIOUS
<1>1. LockTypes BY DEF LockInit, LockTypes, Commands, Unmarked, Locked
<1>2. ASSUME ~late PROVE TurnsInv
  <2>1. lock = NoDirectory \/ \E o \in Departed : lock = Fresh({o}, {})
    <3>1. lock # [Fresh({}, {}) EXCEPT !.old = TRUE]
      <4>1. [Fresh({}, {}) EXCEPT !.old = TRUE] \in Directories
        BY DEF Fresh, Directories
      <4>2. [Fresh({}, {}) EXCEPT !.old = TRUE].owners = {} BY DEF Fresh
      <4> QED BY <1>2, <4>1, <4>2, LockAssumption DEF LockInit, Unmarked, Locked
    <3> QED BY <3>1 DEF LockInit, Leftovers
  <2>2. OneMarker /\ ~(Locked /\ lock.old) /\ \A p \in Scripts : ~Marked(p)
    <3>1. CASE lock = NoDirectory BY <3>1 DEF OneMarker, Locked, Marked
    <3>2. ASSUME NEW o \in Departed, lock = Fresh({o}, {})
          PROVE  OneMarker /\ ~(Locked /\ lock.old) /\ \A p \in Scripts : ~Marked(p)
      <4>1. {o} \in SUBSET (Scripts \cup Departed) /\ {} \in SUBSET Entries OBVIOUS
      <4>2. lock \in Directories /\ lock.owners = {o} /\ ~lock.old BY <3>2, <4>1, FreshIs
      <4> QED BY <4>2, LockAssumption DEF OneMarker, Locked, Marked
    <3> QED BY <2>1, <3>1, <3>2
  <2>3. \A p \in Scripts : pc[p] = "look" /\ owner[p] = {} BY DEF LockInit
  <2> QED BY <2>2, <2>3 DEF TurnsInv, Placed, Owns, OneTakeover
<1> QED BY <1>1, <1>2 DEF LockInv

\* A step of p that leaves the markers of the lock alone, and what others put in it.
Kept(p) ==
  \/ lock' = lock
  \/ /\ Locked /\ lock' \in Directories /\ lock'.owners = lock.owners /\ ~lock'.old
     /\ \A q \in Scripts \ {p} : <<"dead", q>> \in lock.rest => <<"dead", q>> \in lock'.rest

LEMMA KeptInv ==
  ASSUME LockTypes, TurnsInv, NEW p \in Scripts, Alive(p), NEW c \in Commands \ {"mark"}, Goto(p, c),
         Kept(p), \A q \in Scripts \ {p} : owner'[q] = owner[q], Placed(p)'
  PROVE  TurnsInv'
<1>1. OneMarker /\ \A q \in Scripts : Placed(q) BY DEF TurnsInv
<1>2. pc'[p] = c /\ \A q \in Scripts \ {p} : pc'[q] = pc[q] BY DEF Goto, LockTypes
<1>3. lock' = lock \/ Locked' BY LockAssumption DEF Kept, Locked
<1>4. OneMarker' BY <1>1, <1>3 DEF Kept, OneMarker, Locked
<1>5. OneTakeover' BY <1>2 DEF TurnsInv, OneTakeover
<1>6. ASSUME NEW q \in Scripts \ {p} PROVE Placed(q)'
  <2>1. Placed(q) /\ pc'[q] = pc[q] /\ owner'[q] = owner[q] BY <1>1, <1>2
  <2>2. \A o : ~Alive(o) => ~Alive(o)' BY <1>2 DEF Alive
  <2>3. Locked /\ lock.owners = {q} => Locked' /\ lock'.owners = {q} BY <1>3 DEF Kept, Locked
  <2>4. Locked /\ lock.owners = {} /\ <<"dead", q>> \in lock.rest =>
          Locked' /\ lock'.owners = {} /\ <<"dead", q>> \in lock'.rest
    BY <1>3 DEF Kept, Locked
  <2>5. Marked(q)' => Marked(q) BY DEF Kept, Marked, Locked
  <2>6. ~(Locked /\ lock.old) => ~(Locked' /\ lock'.old) BY DEF Kept, Locked
  <2> QED BY <2>1, <2>2, <2>3, <2>4, <2>5, <2>6 DEF Placed
<1> QED BY <1>4, <1>5, <1>6 DEF TurnsInv

\* A step of p that leaves no marker but its own, where the lock was no other script's.
Freed(p) ==
  /\ \A q \in Scripts \ {p} : pc[q] \notin Owns \cup {"mark"}
  /\ lock' \in Directories \cup {NoDirectory}
  /\ Locked' => lock'.owners \subseteq {p} /\ ~lock'.old

LEMMA FreedInv ==
  ASSUME LockTypes, TurnsInv, NEW p \in Scripts, Alive(p), NEW c \in Commands, Goto(p, c),
         Freed(p), \A q \in Scripts \ {p} : owner'[q] = owner[q], Placed(p)'
  PROVE  TurnsInv'
<1>1. OneMarker /\ \A q \in Scripts : Placed(q) BY DEF TurnsInv
<1>2. pc'[p] = c /\ \A q \in Scripts \ {p} : pc'[q] = pc[q] BY DEF Goto, LockTypes
<1>3. OneMarker' BY DEF Freed, OneMarker
<1>4. OneTakeover' BY <1>2 DEF Freed, OneTakeover
<1>5. ASSUME NEW q \in Scripts \ {p} PROVE Placed(q)'
  <2>1. Placed(q) /\ pc'[q] = pc[q] /\ owner'[q] = owner[q] BY <1>1, <1>2
  <2>2. \A o : ~Alive(o) => ~Alive(o)' BY <1>2 DEF Alive
  <2>3. pc[q] \notin Owns \cup {"mark"} /\ ~Marked(q)' /\ ~(Locked' /\ lock'.old) BY DEF Freed, Marked
  <2> QED BY <2>1, <2>2, <2>3 DEF Placed
<1> QED BY <1>3, <1>4, <1>5 DEF TurnsInv

\* The lock is another's neither before its marker is in it nor once it is gone.
LEMMA Unowned ==
  ASSUME TurnsInv, Unmarked \/ ~Locked \/ lock.owners \cap {o \in Scripts : Alive(o)} = {}
  PROVE  \A q \in Scripts : pc[q] \notin Owns
<1> SUFFICES ASSUME NEW q \in Scripts, pc[q] \in Owns PROVE FALSE OBVIOUS
<1>1. Locked /\ lock.owners = {q} BY DEF TurnsInv, Placed
<1>2. Alive(q) BY DEF Alive, Owns
<1> QED BY <1>1, <1>2 DEF Unmarked

\* rm of an entry of p's own.
LEMMA WithoutKept ==
  ASSUME TurnsInv, NEW p \in Scripts, NEW what \in {"new", "dead"}, lock' = Without(<<what, p>>)
  PROVE  Kept(p) /\ (Locked' <=> Locked) /\ (Locked => lock'.owners = lock.owners)
<1> DEFINE e == <<what, p>>
           rest == lock.rest \ {e}
<1>1. CASE Locked /\ e \in lock.rest
  <2>1. lock \in Directories BY <1>1 DEF TurnsInv, OneMarker, Locked
  <2>2. lock.owners \in SUBSET (Scripts \cup Departed) /\ rest \in SUBSET Entries
    BY <2>1 DEF Directories
  <2>3. lock' = Fresh(lock.owners, rest) BY <1>1 DEF Without
  <2> HIDE DEF e, rest
  <2>4. /\ lock' \in Directories /\ lock' # NoDirectory
        /\ lock'.owners = lock.owners /\ lock'.rest = rest /\ ~lock'.old
    BY <2>2, <2>3, FreshIs
  <2>5. \A q \in Scripts \ {p} : <<"dead", q>> # e BY DEF e
  <2> QED BY <1>1, <2>4, <2>5 DEF Kept, Locked, rest
<1>2. CASE ~(Locked /\ e \in lock.rest)
  <2>1. lock' = lock BY <1>2 DEF Without
  <2> QED BY <2>1 DEF Kept, Locked
<1> QED BY <1>1, <1>2

LEMMA LookInv == ASSUME LockTypes, TurnsInv, NEW p \in Scripts, Look(p) PROVE TurnsInv'
<1>1. Alive(p) /\ Placed(p) BY DEF Look, Due, Alive, TurnsInv
<1>2. PICK c \in {"read", "place"} : Goto(p, c) BY DEF Look
<1>3. lock' = lock /\ owner' = owner /\ pc[p] = "look" /\ pc'[p] = c
  BY <1>2 DEF Look, Due, Goto, LockTypes
<1>4. Placed(p)' BY <1>1, <1>2, <1>3 DEF Placed, Marked, Locked, Owns
<1> QED BY <1>1, <1>2, <1>3, <1>4, KeptInv DEF Kept, Commands

LEMMA MoveInInv == ASSUME LockTypes, TurnsInv, NEW p \in Scripts, MoveIn(p) PROVE TurnsInv'
<1>1. Alive(p) /\ Placed(p) /\ pc[p] = "place" BY DEF MoveIn, Due, Alive, TurnsInv
<1>2. PICK m \in Moves(Fresh({p}, {}), <<"new", p>>) :
        lock' = m.lock /\ Goto(p, IF m.moved THEN "confirm" ELSE "clean")
  BY DEF MoveIn
<1>3. owner' = owner BY DEF MoveIn
<1>4. ~Marked(p) /\ owner[p] = {} BY <1>1 DEF Placed, Owns
<1>5. ASSUME ~Locked \/ lock.owners \cup lock.rest = {}, lock' = Fresh({p}, {}), Goto(p, "confirm")
      PROVE  TurnsInv'
  <2>1. {p} \in SUBSET (Scripts \cup Departed) /\ {} \in SUBSET Entries OBVIOUS
  <2>2. lock' \in Directories /\ Locked' /\ lock'.owners = {p} /\ ~lock'.old
    BY <1>5, <2>1, FreshIs DEF Locked
  <2>3. \A q \in Scripts : pc[q] \notin Owns BY <1>5, Unowned DEF Unmarked
  <2>4. \A q \in Scripts : pc[q] # "mark" BY <1>5 DEF TurnsInv, Placed
  <2>5. Freed(p) BY <2>2, <2>3, <2>4 DEF Freed
  <2>6. pc'[p] = "confirm" /\ "confirm" \in Commands BY <1>5 DEF Goto, LockTypes, Commands
  <2>7. Placed(p)' BY <1>3, <1>4, <2>6 DEF Placed, Owns
  <2> QED BY <1>1, <1>3, <1>5, <2>5, <2>6, <2>7, FreedInv
<1>6. ASSUME Locked, lock' = Fresh(lock.owners, lock.rest \cup {<<"new", p>>}), Goto(p, "confirm")
      PROVE  TurnsInv'
  <2>1. lock \in Directories BY <1>6 DEF TurnsInv, OneMarker, Locked
  <2> DEFINE more == lock.rest \cup {<<"new", p>>}
  <2>2. lock.owners \in SUBSET (Scripts \cup Departed) /\ more \in SUBSET Entries
    <3>1. <<"new", p>> \in Entries BY DEF Entries
    <3> QED BY <2>1, <3>1 DEF Directories
  <2>3. lock.rest \subseteq more /\ lock' = Fresh(lock.owners, more) BY <1>6
  <2> HIDE DEF more
  <2>4. lock' \in Directories /\ lock'.owners = lock.owners /\ lock'.rest = more /\ ~lock'.old
    BY <2>2, <2>3, FreshIs
  <2>5. Kept(p) BY <1>6, <2>3, <2>4 DEF Kept
  <2>6. pc'[p] = "confirm" /\ "confirm" \in Commands \ {"mark"} BY <1>6 DEF Goto, LockTypes, Commands
  <2>7. ~Marked(p)' BY <1>4, <1>6, <2>4 DEF Marked
  <2>8. Placed(p)' BY <1>3, <1>4, <2>6, <2>7 DEF Placed, Owns
  <2> QED BY <1>1, <1>3, <1>6, <2>5, <2>6, <2>8, KeptInv
<1>7. ASSUME lock' = lock, Goto(p, "clean") PROVE TurnsInv'
  <2>1. pc'[p] = "clean" /\ "clean" \in Commands \ {"mark"} BY <1>7 DEF Goto, LockTypes, Commands
  <2>2. ~Marked(p)' /\ Kept(p) BY <1>4, <1>7 DEF Marked, Locked, Kept
  <2>3. Placed(p)' BY <1>3, <1>4, <2>1, <2>2 DEF Placed, Owns
  <2> QED BY <1>1, <1>3, <1>7, <2>1, <2>2, <2>3, KeptInv
<1>8. \/ m = Becomes(Fresh({p}, {})) /\ (~Locked \/ lock.owners \cup lock.rest = {})
      \/ Locked /\ m = Becomes(Fresh(lock.owners, lock.rest \cup {<<"new", p>>}))
      \/ m = [lock |-> lock, moved |-> FALSE]
  BY <1>2 DEF Moves
<1> QED BY <1>2, <1>5, <1>6, <1>7, <1>8 DEF Becomes

\* The steps that only look, or only wait.
LEMMA LooksInv ==
  ASSUME LockTypes, TurnsInv, NEW p \in Scripts, Confirm(p) \/ Release(p)
  PROVE  TurnsInv'
<1>1. PICK c \in {"held", "clean", "empty", "gone"} :
        /\ Goto(p, c)
        /\ c \in {"held", "empty"} => Marked(p)
        /\ ~Marked(p) \/ c \in {"held", "empty"}
        /\ UNCHANGED <<lock, dead, owner, late>> /\ pc[p] \in {"confirm", "held"}
  BY DEF Confirm, Release, Due
<1>2. Alive(p) /\ Placed(p) BY <1>1 DEF Alive, TurnsInv
<1>3. pc'[p] = c BY <1>1 DEF Goto, LockTypes
<1>4. Marked(p) => lock.owners = {p} BY DEF Marked, TurnsInv, OneMarker
<1>5. Placed(p)' BY <1>1, <1>2, <1>3, <1>4 DEF Placed, Marked, Locked, Owns
<1> QED BY <1>1, <1>2, <1>5, KeptInv DEF Kept, Commands

LEMMA ReadInv == ASSUME LockTypes, TurnsInv, NEW p \in Scripts, Read(p) PROVE TurnsInv'
<1>1. Goto(p, "judge") /\ pc[p] = "read" /\ lock' = lock BY DEF Read, Due
<1>2. Alive(p) /\ Placed(p) /\ ~Marked(p) /\ owner[p] = {} BY <1>1 DEF Alive, TurnsInv, Placed, Owns
<1>3. pc'[p] = "judge" /\ pc' = [pc EXCEPT ![p] = "judge"] BY <1>1 DEF Goto, LockTypes
<1>4. /\ \A q \in Scripts \ {p} : owner'[q] = owner[q]
      /\ \/ Locked /\ ~Unmarked /\ \E o \in lock.owners : owner'[p] = {o}
         \/ ~(Locked /\ ~Unmarked) /\ owner'[p] = {}
  BY <1>2 DEF Read, LockTypes
<1>5. p \notin owner'[p] /\ \A o, u \in owner'[p] : o = u BY <1>2, <1>4 DEF Marked
<1>6. owner'[p] = {} => ~(Locked' /\ lock'.old)
  BY <1>1, <1>4 DEF TurnsInv, OneMarker, Unmarked, Locked
<1>7. ~Marked(p)' BY <1>1, <1>2 DEF Marked, Locked
<1>8. Placed(p)' BY <1>3, <1>5, <1>6, <1>7 DEF Placed, Owns
<1>9. Kept(p) /\ "judge" \in Commands \ {"mark"} BY <1>1 DEF Kept, Commands
<1> QED BY <1>1, <1>2, <1>4, <1>8, <1>9, KeptInv

LEMMA JudgeInv == ASSUME LockTypes, TurnsInv, NEW p \in Scripts, Judge(p) PROVE TurnsInv'
<1> DEFINE gone == \E o \in owner[p] : ~Alive(o)
<1>1. pc[p] = "judge" /\ lock' = lock BY DEF Judge, Due
<1>2. Alive(p) /\ Placed(p) /\ ~Marked(p) BY <1>1 DEF Alive, TurnsInv, Placed, Owns
<1>3. ~Reclaimable(p) BY <1>1, <1>2 DEF Placed, Reclaimable
<1>4. /\ \A q \in Scripts \ {p} : owner'[q] = owner[q]
      /\ \/ gone /\ Goto(p, "take") /\ owner' = owner
         \/ ~gone /\ Goto(p, "look") /\ owner'[p] = {}
  BY <1>3 DEF Judge, LockTypes
<1>5. Kept(p) /\ ~Marked(p)' BY <1>1, <1>2 DEF Kept, Marked, Locked
<1>6. CASE gone /\ Goto(p, "take") /\ owner' = owner
  <2>1. pc'[p] = "take" /\ \A q \in Scripts \ {p} : pc'[q] = pc[q] BY <1>6 DEF Goto, LockTypes
  <2>2. \A o, u \in owner[p] : o = u BY <1>2 DEF Placed
  <2>3. \A o : ~Alive(o) => ~Alive(o)' BY <1>2, <2>1 DEF Alive
  <2>4. Placed(p)' BY <1>2, <1>5, <1>6, <2>1, <2>2, <2>3 DEF Placed, Owns
  <2> QED BY <1>2, <1>4, <1>5, <1>6, <2>4, KeptInv DEF Commands
<1>7. CASE Goto(p, "look") /\ owner'[p] = {}
  <2>1. pc'[p] = "look" BY <1>7 DEF Goto, LockTypes
  <2>2. Placed(p)' BY <1>5, <1>7, <2>1 DEF Placed, Owns
  <2> QED BY <1>2, <1>4, <1>5, <1>7, <2>2, KeptInv DEF Commands
<1> QED BY <1>4, <1>6, <1>7

\* The steps that take an entry of the script's own away.
LEMMA TidiesInv ==
  ASSUME LockTypes, TurnsInv, NEW p \in Scripts, Clean(p) \/ Tidy(p)
  PROVE  TurnsInv'
<1>1. \/ pc[p] = "clean" /\ Goto(p, "read") /\ lock' = Without(<<"new", p>>)
      \/ pc[p] = "tidy" /\ Goto(p, "held") /\ lock' = Without(<<"dead", p>>)
  BY DEF Clean, Tidy, Due
<1>2. owner' = owner BY DEF Clean, Tidy
<1>3. Alive(p) /\ Placed(p) BY <1>1 DEF Alive, TurnsInv
<1>4. Kept(p) /\ (Locked' <=> Locked) /\ (Locked => lock'.owners = lock.owners)
  BY <1>1, WithoutKept
<1>5. PICK c \in {"read", "held"} : Goto(p, c) /\ pc[p] = IF c = "read" THEN "clean" ELSE "tidy"
  BY <1>1
<1>6. pc'[p] = c BY <1>5 DEF Goto, LockTypes
<1>7. Marked(p)' => Marked(p) BY <1>4 DEF Marked
<1>8. Placed(p)' BY <1>2, <1>3, <1>4, <1>5, <1>6, <1>7 DEF Placed, Owns
<1> QED BY <1>2, <1>3, <1>4, <1>5, <1>8, KeptInv DEF Commands

\* A takeover moves the marker of a process that is gone: the lock was nobody's.
LEMMA TakeInv == ASSUME LockTypes, TurnsInv, NEW p \in Scripts, Take(p) PROVE TurnsInv'
<1>1. pc[p] = "take" /\ owner' = [owner EXCEPT ![p] = {}] BY DEF Take, Due
<1>2. Alive(p) /\ Placed(p) /\ ~Marked(p) BY <1>1 DEF Alive, TurnsInv, Placed, Owns
<1>3. owner'[p] = {} /\ \A q \in Scripts \ {p} : owner'[q] = owner[q] BY <1>1 DEF LockTypes
<1>4. CASE Takeable(p)
  <2>1. Locked /\ owner[p] \subseteq lock.owners /\ owner[p] # {} /\ (\A o \in owner[p] : ~Alive(o))
        /\ Goto(p, "mark")
    BY <1>1, <1>2, <1>4 DEF Takeable, Placed, Take
  <2>2. lock \in Directories /\ \A o, u \in lock.owners : o = u
    BY <2>1 DEF TurnsInv, OneMarker, Locked
  <2>3. lock.owners \ owner[p] = {} /\ lock.owners # {} /\ \A o \in lock.owners : ~Alive(o)
    BY <2>1, <2>2
  <2> DEFINE more == lock.rest \cup {<<"dead", p>>}
             none == {}
  <2>4. more \in SUBSET Entries /\ none \in SUBSET (Scripts \cup Departed)
    <3>1. <<"dead", p>> \in Entries BY DEF Entries
    <3> QED BY <2>2, <3>1 DEF Directories
  <2>5. <<"dead", p>> \in more /\ lock' = Fresh(none, more) BY <1>4, <2>3 DEF Take
  <2> HIDE DEF more, none
  <2>6. lock' \in Directories /\ Locked' /\ lock'.owners = none /\ lock'.rest = more /\ ~lock'.old
    BY <2>4, <2>5, FreshIs DEF Locked
  <2>7. none = {} BY DEF none
  <2>8. \A q \in Scripts : pc[q] # "mark" BY <2>3 DEF TurnsInv, Placed
  <2>9. \A q \in Scripts : pc[q] \notin Owns
    <3>1. lock.owners \cap {o \in Scripts : Alive(o)} = {} BY <2>3
    <3> QED BY <3>1, Unowned
  <2>10. Freed(p) BY <2>6, <2>7, <2>8, <2>9 DEF Freed
  <2>11. pc'[p] = "mark" BY <2>1 DEF Goto, LockTypes
  <2>12. Placed(p)' BY <1>3, <2>5, <2>6, <2>7, <2>11 DEF Placed, Marked, Owns
  <2> QED BY <1>2, <1>3, <2>1, <2>10, <2>12, FreedInv DEF Commands
<1>5. CASE ~Takeable(p)
  <2>1. Goto(p, "look") /\ lock' = lock BY <1>5 DEF Take
  <2>2. pc'[p] = "look" BY <2>1 DEF Goto, LockTypes
  <2>3. Kept(p) /\ ~Marked(p)' BY <1>2, <2>1 DEF Kept, Marked, Locked
  <2>4. Placed(p)' BY <1>3, <2>2, <2>3 DEF Placed, Owns
  <2> QED BY <1>2, <1>3, <2>1, <2>3, <2>4, KeptInv DEF Commands
<1> QED BY <1>4, <1>5

LEMMA MarkInv == ASSUME LockTypes, TurnsInv, NEW p \in Scripts, Mark(p) PROVE TurnsInv'
<1>1. pc[p] = "mark" /\ owner' = owner BY DEF Mark, Due
<1>2. Alive(p) /\ Placed(p) BY <1>1 DEF Alive, TurnsInv
<1>3. Locked /\ lock.owners = {} /\ owner[p] = {} BY <1>1, <1>2 DEF Placed
<1>4. lock \in Directories BY <1>3 DEF TurnsInv, OneMarker, Locked
<1>5. Goto(p, "tidy") /\ lock' = Fresh({p}, lock.rest) BY <1>3 DEF Mark
<1> DEFINE own == {p}
<1>6. own \in SUBSET (Scripts \cup Departed) /\ lock.rest \in SUBSET Entries /\ p \in own
  BY <1>4 DEF Directories
<1>7. lock' = Fresh(own, lock.rest) BY <1>5
<1> HIDE DEF own
<1>8. lock' \in Directories /\ Locked' /\ lock'.owners = own /\ ~lock'.old
  BY <1>6, <1>7, FreshIs DEF Locked
<1>9. \A q \in Scripts : pc[q] \notin Owns BY <1>3, Unowned DEF Unmarked
<1>10. \A q \in Scripts \ {p} : pc[q] # "mark" BY <1>1 DEF TurnsInv, OneTakeover
<1>11. Freed(p) BY <1>8, <1>9, <1>10 DEF Freed, own
<1>12. pc'[p] = "tidy" BY <1>5 DEF Goto, LockTypes
<1>13. Placed(p)' BY <1>1, <1>3, <1>8, <1>12 DEF Placed, Owns, own
<1> QED BY <1>1, <1>2, <1>5, <1>11, <1>13, FreedInv DEF Commands

LEMMA RemovesInv ==
  ASSUME LockTypes, TurnsInv, NEW p \in Scripts, RemoveEntries(p) \/ RemoveDirectory(p)
  PROVE  TurnsInv'
<1>1. PICK c \in {"remove", "gone"} : Goto(p, c) /\ pc[p] = (IF c = "remove" THEN "empty" ELSE "remove")
  BY DEF RemoveEntries, RemoveDirectory, Due
<1>2. owner' = owner /\ Alive(p) /\ Placed(p) /\ owner[p] = {} /\ pc'[p] = c
  <2>1. owner' = owner BY DEF RemoveEntries, RemoveDirectory
  <2>2. Alive(p) /\ pc[p] \notin {"judge", "take"} BY <1>1 DEF Alive
  <2>3. Placed(p) BY DEF TurnsInv
  <2>4. owner[p] = {} BY <2>2, <2>3 DEF Placed
  <2>5. pc'[p] = c BY <1>1 DEF Goto, LockTypes
  <2> QED BY <2>1, <2>2, <2>3, <2>4, <2>5
<1>3. CASE RemoveEntries(p)
  <2>1. pc[p] = "empty" /\ Locked /\ lock.owners = {p} BY <1>2, <1>3 DEF RemoveEntries, Due, Placed, Owns
  <2> DEFINE none == {}
  <2>2. none \in SUBSET (Scripts \cup Departed) /\ none \in SUBSET Entries OBVIOUS
  <2>3. lock' = Fresh(none, none) BY <1>3, <2>1 DEF RemoveEntries
  <2>4. none = {} OBVIOUS
  <2> HIDE DEF none
  <2>5. lock' \in Directories /\ Locked' /\ lock'.owners = none /\ ~lock'.old
    BY <2>2, <2>3, FreshIs DEF Locked
  <2>6. \A q \in Scripts \ {p} : pc[q] \notin Owns \cup {"mark"}
    <3> SUFFICES ASSUME NEW q \in Scripts \ {p}, pc[q] \in Owns \cup {"mark"} PROVE FALSE OBVIOUS
    <3>1. lock.owners = {q} \/ lock.owners = {} BY DEF TurnsInv, Placed
    <3> QED BY <2>1, <3>1
  <2>7. Freed(p) BY <2>4, <2>5, <2>6 DEF Freed
  <2>8. Placed(p)' BY <1>1, <1>2, <2>1, <2>4, <2>5 DEF Placed, Marked, Owns
  <2> QED BY <1>1, <1>2, <2>7, <2>8, FreedInv DEF Commands
<1>4. CASE RemoveDirectory(p) /\ Unmarked /\ lock.rest = {}
  <2>1. lock' = NoDirectory BY <1>4 DEF RemoveDirectory
  <2>2. \A q \in Scripts : pc[q] \notin Owns BY <1>4, Unowned
  <2>3. \A q \in Scripts : pc[q] # "mark" BY <1>4 DEF TurnsInv, Placed
  <2>4. Freed(p) /\ ~Locked' BY <2>1, <2>2, <2>3 DEF Freed, Locked
  <2>5. pc'[p] = "gone" BY <1>1, <1>2, <1>4 DEF RemoveDirectory, Due
  <2>6. Placed(p)' BY <1>2, <2>4, <2>5 DEF Placed, Marked, Owns
  <2> QED BY <1>1, <1>2, <2>4, <2>6, FreedInv DEF Commands
<1>5. CASE RemoveDirectory(p) /\ ~(Unmarked /\ lock.rest = {})
  <2>1. lock' = lock /\ pc[p] = "remove" BY <1>5 DEF RemoveDirectory, Due
  <2>2. ~Marked(p) /\ Kept(p) BY <1>2, <2>1 DEF Kept, Placed, Owns
  <2>3. pc'[p] = "gone" BY <1>1, <1>2, <2>1
  <2>4. Placed(p)' BY <1>2, <2>1, <2>2, <2>3 DEF Placed, Marked, Locked, Owns
  <2> QED BY <1>1, <1>2, <2>2, <2>3, <2>4, KeptInv DEF Commands
<1> QED BY <1>3, <1>4, <1>5

LEMMA EndInv == ASSUME LockTypes, TurnsInv, NEW p \in Scripts, End(p) PROVE TurnsInv'
<1>1. Alive(p) /\ Goto(p, "gone") /\ owner' = [owner EXCEPT ![p] = {}] /\ lock' = lock BY DEF End
<1>2. owner'[p] = {} /\ \A q \in Scripts \ {p} : owner'[q] = owner[q] BY <1>1 DEF LockTypes
<1>3. pc'[p] = "gone" /\ Kept(p) BY <1>1 DEF Goto, LockTypes, Kept
<1>4. Placed(p)' BY <1>2, <1>3 DEF Placed, Owns
<1> QED BY <1>1, <1>2, <1>3, <1>4, KeptInv DEF Commands

LEMMA MinuteInv == ASSUME LockTypes, TurnsInv, Minute, ~late' PROVE TurnsInv'
<1>1. Locked /\ lock.owners # {} /\ lock' = [lock EXCEPT !.old = TRUE]
  BY DEF Minute, Unmarked
<1>2. lock \in Directories BY <1>1 DEF TurnsInv, OneMarker, Locked
<1>3. lock' \in Directories /\ lock'.owners = lock.owners /\ lock'.rest = lock.rest
  <2>1. TRUE \in BOOLEAN OBVIOUS
  <2> QED BY <1>1, <1>2, <2>1 DEF Directories
<1>4. Locked' BY <1>3, LockAssumption DEF Locked
<1>5. OneMarker' BY <1>1, <1>3, <1>4 DEF TurnsInv, OneMarker
<1>6. UNCHANGED <<pc, owner>> /\ \A q \in Scripts : pc[q] \in {"look", "held", "gone"}
  BY DEF Minute, AtRest
<1>7. \A q \in Scripts : Placed(q)'
  BY <1>1, <1>3, <1>4, <1>6 DEF TurnsInv, Placed, Marked, Alive, Owns
<1> QED BY <1>5, <1>6, <1>7 DEF TurnsInv, OneTakeover

LEMMA StepTurns ==
  ASSUME LockTypes, TurnsInv, NEW p \in Scripts, Step(p) \/ End(p)
  PROVE  TurnsInv'
<1>1. ~Reclaim(p) /\ ~Restore(p) /\ ~DropDead(p)
  BY DEF TurnsInv, Placed, Reclaim, Restore, DropDead, Due
<1> QED BY <1>1, LookInv, MoveInInv, LooksInv, TidiesInv, ReadInv, JudgeInv, TakeInv, MarkInv,
           RemovesInv, EndInv DEF Step

LEMMA TypesNext == LockTypes /\ [LockNext]_lockVars => LockTypes'
<1> SUFFICES ASSUME LockTypes, [LockNext]_lockVars PROVE LockTypes' OBVIOUS
<1>1. CASE UNCHANGED lockVars BY <1>1 DEF lockVars, LockTypes
<1>2. CASE Minute BY <1>2 DEF Minute, LockTypes, Unmarked, Locked
<1>3. ASSUME NEW p \in Scripts, Step(p) \/ End(p) PROVE LockTypes'
  <2>1. \E c \in Commands : Goto(p, c)
    BY <1>3 DEF Commands, Step, Look, MoveIn, Confirm, Clean, Read, Judge, Take, Mark, Tidy,
                Reclaim, Restore, DropDead, Release, RemoveEntries, RemoveDirectory, End
  <2>2. late' = late /\ (owner' = owner \/ \E o : owner' = [owner EXCEPT ![p] = o])
    BY <1>3 DEF Step, Look, MoveIn, Confirm, Clean, Read, Judge, Take, Mark, Tidy, Reclaim, Restore,
                DropDead, Release, RemoveEntries, RemoveDirectory, End
  <2>3. pc' \in [Scripts -> Commands] BY <2>1 DEF LockTypes, Goto
  <2>4. owner' = [q \in Scripts |-> owner'[q]] BY <2>2 DEF LockTypes
  <2>5. late' \in BOOLEAN BY <2>2 DEF LockTypes
  <2> QED BY <2>3, <2>4, <2>5 DEF LockTypes
<1> QED BY <1>1, <1>2, <1>3 DEF LockNext

\* Time only ever runs on: what is not late was never late.
LEMMA LateStays == LockTypes /\ [LockNext]_lockVars /\ late => late'
<1> SUFFICES ASSUME LockTypes, [LockNext]_lockVars, late PROVE late' OBVIOUS
<1>1. CASE UNCHANGED lockVars BY <1>1 DEF lockVars
<1>2. CASE Minute BY <1>2 DEF Minute
<1>3. ASSUME NEW p \in Scripts, Step(p) \/ End(p) PROVE late' = late
  BY <1>3 DEF Step, Look, MoveIn, Confirm, Clean, Read, Judge, Take, Mark, Tidy, Reclaim, Restore,
              DropDead, Release, RemoveEntries, RemoveDirectory, End
<1> QED BY <1>1, <1>2, <1>3 DEF LockNext

LEMMA LockNextInv == LockInv /\ [LockNext]_lockVars => LockInv'
<1> SUFFICES ASSUME LockInv, [LockNext]_lockVars PROVE LockInv' OBVIOUS
<1>1. LockTypes /\ LockTypes' BY TypesNext DEF LockInv
<1>2. ASSUME ~late' PROVE TurnsInv'
  <2>1. TurnsInv BY <1>1, <1>2, LateStays DEF LockInv
  <2>2. CASE UNCHANGED lockVars
    BY <2>1, <2>2 DEF lockVars, TurnsInv, OneMarker, OneTakeover, Placed, Marked, Locked, Alive
  <2>3. CASE Minute BY <1>1, <1>2, <2>1, <2>3, MinuteInv
  <2>4. ASSUME NEW p \in Scripts, Step(p) \/ End(p) PROVE TurnsInv'
    BY <1>1, <2>1, <2>4, StepTurns
  <2> QED BY <2>2, <2>3, <2>4 DEF LockNext
<1> QED BY <1>1, <1>2 DEF LockInv

\* As long as no lock stood without a marker for a minute, two scripts never build
\* at once and the holder's is the one marker of the lock, for any number of
\* scripts, whichever of them are killed between any two commands
\* (acquire_build_lock and release_build_lock in lock.sh).
THEOREM ScriptsTakeTurns == LockSpec => []TakeTurns
<1>1. LockInv => TakeTurns
  <2> SUFFICES ASSUME LockInv, ~late PROVE TakeTurns BY DEF TakeTurns
  <2>1. \A p \in Scripts : Placed(p) BY DEF LockInv, TurnsInv
  <2>2. \A p \in Holders : Locked /\ lock.owners = {p} BY <2>1 DEF Holders, Placed, Owns
  <2>3. MutualExclusion BY <2>2 DEF MutualExclusion
  <2> QED BY <2>1, <2>2, <2>3 DEF TakeTurns, Placed
<1> QED BY <1>1, LockInitInv, LockNextInv, PTL DEF LockSpec
==============================================================================
