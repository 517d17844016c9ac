------------------------------- MODULE Release -------------------------------
(***************************************************************************)
(* Preparing a release archive, src/scripts/release.ts: a script that      *)
(* looks at the working tree, decides, copies for a while, and puts the    *)
(* result in place with one rename, while the tree belongs to somebody     *)
(* else.  A run may fail or be killed at any step; the next one finds what *)
(* it left.                                                                *)
(*                                                                         *)
(* A flavor has one version throughout: what matters is that a version     *)
(* names one set of bytes.  One run is made at a time.  A file's content   *)
(* is [commit, edited]: the commit checked out when it was copied, and     *)
(* whether the tree had been changed since.  The script judges the tree    *)
(* once, by HEAD, then the status, then the tags, and copies later without *)
(* looking again: `moved` says whether what it copied is still what it     *)
(* judged, so that the properties can say what holds if it is, and what    *)
(* holds even if it is not.                                                *)
(***************************************************************************)
EXTENDS Naturals, FiniteSets, Functions

CONSTANTS
  Flavors,
  GoSdk,       \* the flavors whose version also names the Go module
  GoTag,       \* the Go module's tag; a flavor's release tag is the flavor
  Files,       \* what archives may hold
  Commits,
  Tracked,     \* what a flavor takes of a commit: of the checkout and what is built from it
  MaxStarts,   \* bound: the runs ever started
  MaxMoves,    \* bound: the edits and checkouts
  None

ASSUME Constants == /\ GoSdk \subseteq Flavors
                    /\ GoTag \notin Flavors
                    /\ Commits \subseteq Nat \ {0}
                    /\ Tracked \in [Flavors -> [Commits -> SUBSET Files]]
                    /\ MaxStarts \in Nat /\ MaxMoves \in Nat

VARIABLES
  head,      \* the commit checked out
  edited,    \* whether the tree holds uncommitted changes
  tags,      \* the commit each tag names, 0 for none
  staging,   \* per flavor, the staging directory: file to content, or None
  dest,      \* per flavor, the finished release: [files, listed, commit, dirty, moved], or None
  run,       \* the run under way, or None
  moved,     \* whether the run copied from a tree that was not the one it judged
  history,   \* every publication: [flavor, commit, files], its files None if the tree moved
  starts,    \* how many runs there have been
  moves      \* how often the tree has changed

vars == <<head, edited, tags, staging, dest, run, moved, history, starts, moves>>
tree == <<head, edited, tags, moves>>

Tags == Flavors \cup {GoTag}
Empty == [f \in {} |-> None]
Content == [commit |-> head, edited |-> edited]
VersionTags(flavor) == {flavor} \cup (IF flavor \in GoSdk THEN {GoTag} ELSE {})

Init ==
  /\ head \in Commits /\ edited \in BOOLEAN
  /\ tags = [t \in Tags |-> 0]
  /\ staging = [f \in Flavors |-> None]
  /\ dest = [f \in Flavors |-> None]
  /\ run = None /\ moved = FALSE /\ history = {}
  /\ starts = 0 /\ moves = 0

------------------------------------------------------------------------------
At(pc) == run # None /\ run.pc = pc
Go(pc) == run' = [run EXCEPT !.pc = pc]

\* The maintainer, at any time.  A tag is made once, at the commit checked out.

TreeMoves == /\ moves < MaxMoves /\ moves' = moves + 1
             /\ moved' = (moved \/ (At("copy") /\ run.left # {}))
             /\ UNCHANGED <<tags, staging, dest, run, history, starts>>

Edit == TreeMoves /\ edited' = ~edited /\ UNCHANGED head
Checkout == TreeMoves /\ head' \in Commits \ {head} /\ edited' = FALSE
Tag == /\ \E t \in Tags : tags[t] = 0 /\ tags' = [tags EXCEPT ![t] = head]
       /\ UNCHANGED <<head, edited, moves, staging, dest, run, moved, history, starts>>
\* A release directory may be removed by hand, between runs.
Discard == /\ run = None
           /\ \E f \in Flavors : dest[f] # None /\ dest' = [dest EXCEPT ![f] = None]
           /\ UNCHANGED <<tree, staging, run, moved, history, starts>>

------------------------------------------------------------------------------
\* A run.

\* parseArguments, readMetadata.  A stable version also asks for --stable and
\* for the guard of Nightly.tla, without which there is no run.
Start ==
  /\ run = None
  /\ starts < MaxStarts /\ starts' = starts + 1
  /\ \E flavor \in Flavors, publish, allowDirty, allowTag \in BOOLEAN :
          run' = [pc |-> "head", flavor |-> flavor, publish |-> publish, commit |-> 0,
                  dirty |-> FALSE, allowDirty |-> allowDirty, allowTag |-> allowTag,
                  left |-> {}, listed |-> Empty]
  /\ UNCHANGED <<tree, staging, dest, moved, history>>

ReadHead == /\ At("head") /\ run' = [run EXCEPT !.pc = "status", !.commit = head]
            /\ UNCHANGED <<tree, staging, dest, moved, history, starts>>
ReadStatus == /\ At("status") /\ run' = [run EXCEPT !.pc = "tags", !.dirty = edited]
              /\ UNCHANGED <<tree, staging, dest, moved, history, starts>>

\* Mutant: publishing does not ask for a clean tree.
RefusalAnyTree(r, named) ==
  \/ r.publish /\ (r.allowDirty \/ r.allowTag \/ named[r.flavor] = 0)
  \/ ~r.publish /\ r.dirty /\ ~r.allowDirty
  \/ (r.publish \/ ~r.allowTag) /\ \E t \in DOMAIN named : named[t] \notin {0, r.commit}

\* refusal: publishing takes a clean tree at its tag, and no override; a
\* candidate takes a clean tree whose version was not tagged elsewhere, or an
\* override.
Refusal(r, named) ==
  \/ r.publish /\ (r.allowDirty \/ r.allowTag \/ r.dirty \/ named[r.flavor] = 0)
  \/ ~r.publish /\ r.dirty /\ ~r.allowDirty
  \/ (r.publish \/ ~r.allowTag) /\ \E t \in DOMAIN named : named[t] \notin {0, r.commit}

\* The tags, the decision, the changelog (which only a candidate may lack).
\* The overrides have no further say.
Decide ==
  /\ At("tags")
  /\ ~Refusal(run, Restrict(tags, VersionTags(run.flavor)))
  /\ run' = [run EXCEPT !.pc = "begin", !.allowDirty = FALSE, !.allowTag = FALSE]
  /\ UNCHANGED <<tree, staging, dest, moved, history, starts>>

\* Mutant: what an earlier run left is kept.
ClearedNever(old) == IF old = None THEN Empty ELSE old

\* removeIfPresent(staging), mkdir.
Cleared(old) == Empty

\* The tree is not looked at again: what is copied is what is there by now.
Begin ==
  /\ At("begin") /\ ~(run.publish /\ dest[run.flavor] # None)
  /\ staging' = [staging EXCEPT ![run.flavor] = Cleared(@)]
  /\ run' = [run EXCEPT !.pc = "copy", !.left = Tracked[run.flavor][head]]
  /\ moved' = (Content # [commit |-> run.commit, edited |-> run.dirty])
  /\ UNCHANGED <<tree, dest, history, starts>>

\* copy, copyTree, write: one file at a time, from the tree as it is by then.
Copy ==
  /\ At("copy")
  /\ \E f \in run.left \cap Tracked[run.flavor][head] :
       /\ staging' = [staging EXCEPT ![run.flavor] =
                        [g \in DOMAIN @ \cup {f} |-> IF g = f THEN Content ELSE @[g]]]
       /\ run' = [run EXCEPT !.left = @ \ {f}]
  /\ UNCHANGED <<tree, dest, moved, history, starts>>

\* packageFiles, the manifest over all of them, verifyRelease, the archive.
Pack ==
  /\ At("copy") /\ run.left = {}
  /\ run' = [run EXCEPT !.pc = "place", !.listed = staging[run.flavor]]
  /\ UNCHANGED <<tree, staging, dest, moved, history, starts>>

\* The destination is looked at once more; a candidate's is removed.
Place ==
  /\ At("place") /\ ~(run.publish /\ dest[run.flavor] # None)
  /\ dest' = [dest EXCEPT ![run.flavor] = None]
  /\ Go("rename") /\ UNCHANGED <<tree, staging, moved, history, starts>>

Rename ==
  /\ At("rename")
  /\ dest' = [dest EXCEPT ![run.flavor] =
                [files |-> staging[run.flavor], listed |-> run.listed, commit |-> run.commit,
                 dirty |-> run.dirty, moved |-> moved]]
  /\ staging' = [staging EXCEPT ![run.flavor] = None]
  /\ history' = IF run.publish
                THEN history \cup {[flavor |-> run.flavor, commit |-> run.commit,
                                    files |-> IF moved THEN None ELSE staging[run.flavor]]}
                ELSE history
  /\ run' = None /\ moved' = FALSE /\ UNCHANGED <<tree, starts>>

\* An error: before the try nothing is undone, after it the staging directory
\* is removed, if that works.  A run that is killed undoes nothing.
Fail ==
  /\ run # None
  /\ run' = None /\ moved' = FALSE
  /\ staging' = IF run.pc \in {"copy", "place", "rename"}
                THEN [staging EXCEPT ![run.flavor] = None] ELSE staging
  /\ UNCHANGED <<tree, dest, history, starts>>
Killed == /\ run # None /\ run' = None /\ moved' = FALSE
          /\ UNCHANGED <<tree, staging, dest, history, starts>>

Next == \/ Edit \/ Checkout \/ Tag \/ Discard
        \/ Start \/ ReadHead \/ ReadStatus \/ Decide \/ Begin \/ Copy \/ Pack \/ Place \/ Rename
        \/ Fail \/ Killed

Spec == Init /\ [][Next]_vars

------------------------------------------------------------------------------
\* What is in place is one run's work, whole: its manifest lists every file,
\* and it holds exactly what its flavor takes of the commit it records, as the
\* status it records found it, unless the tree the files were copied from was
\* no longer that one.  Whatever the maintainer did before the copies began and
\* undid again, or did after the last of them, changes nothing (release.ts: "An
\* archive is tied to one clean commit").
ArchiveWhole ==
  \A f \in Flavors : dest[f] # None =>
    LET d == dest[f] IN
    /\ d.files = d.listed
    /\ ~d.moved => /\ DOMAIN d.files = Tracked[f][d.commit]
                   /\ \A file \in DOMAIN d.files :
                        d.files[file] = [commit |-> d.commit, edited |-> d.dirty]

\* Everything ever published under a version names its tag's commit, also if
\* HEAD, the tree or the tags changed between the script's looks at them; and
\* any two publications copied from the trees that were judged hold the same
\* files, byte for byte, however often the version is prepared again (refusal's
\* "a version names one set of bytes").
OneSource ==
  /\ \A a \in history : tags[a.flavor] = a.commit
  /\ \A a, b \in history :
       a.flavor = b.flavor /\ None \notin {a.files, b.files} => a.files = b.files
==============================================================================
