------------------------------ MODULE BuildLock ------------------------------
(***************************************************************************)
(* The lock of a build's outputs, src/scripts/lib/lock.sh: a directory     *)
(* that holds its owner's marker, owner.<pid>.  A script waits for it,     *)
(* takes it over from a process that is gone, moves it away once it has    *)
(* stood without a marker for a minute, and removes it on exit.  Every     *)
(* command of the shell is a step, and other scripts run between any two;  *)
(* a script may end at any of them.                                        *)
(*                                                                         *)
(* A directory is [owners, rest, old]: the pids of its markers, the other  *)
(* entries it holds, and whether it was last changed over a minute ago.    *)
(* A pid is used once, and every script may write the directory.           *)
(***************************************************************************)
EXTENDS Naturals, FiniteSets

CONSTANTS
  Scripts,     \* the pids of the scripts that want the lock
  Departed,    \* pids of processes that ended before the first of them began
  NoDirectory

\* What may lie in the directory apart from markers, each with the script it came from.
Entries == {"new", "dead", "lock", "dead lock"} \X Scripts

Directories == [owners : SUBSET (Scripts \cup Departed), rest : SUBSET Entries, old : BOOLEAN]

ASSUME LockAssumption ==
  /\ Scripts \cap Departed = {}
  /\ NoDirectory \notin Directories

VARIABLES
  lock,    \* the lock directory, or NoDirectory
  dead,    \* per script, what is at <lock>.dead.<pid>
  pc,      \* per script, its next command
  owner,   \* per script, the owner it has read and not yet acted on
  late     \* whether a lock has ever stood without a marker for a minute

lockVars == <<lock, dead, pc, owner, late>>

Locked == lock # NoDirectory
Fresh(owners, rest) == [owners |-> owners, rest |-> rest, old |-> FALSE]
Unmarked == Locked /\ lock.owners = {}

\* What builds before these may have left: nothing, the lock of a process that is
\* gone, a takeover that was cut short or a lock of the older layout.
Leftovers == {NoDirectory, [Fresh({}, {}) EXCEPT !.old = TRUE]}
             \cup {Fresh({o}, {}) : o \in Departed}

LockInit ==
  /\ lock \in Leftovers
  /\ dead = [p \in Scripts |-> NoDirectory]
  /\ pc = [p \in Scripts |-> "look"]
  /\ owner = [p \in Scripts |-> {}]
  /\ late = Unmarked

------------------------------------------------------------------------------
Due(p, command) == pc[p] = command
Goto(p, command) == pc' = [pc EXCEPT ![p] = command]

\* build_lock_process_alive, [[ -f "$dir/owner.$$" ]].
Alive(pid) == pid \in Scripts /\ pc[pid] # "gone"
Marked(p) == Locked /\ p \in lock.owners

\* mv of a directory to <lock>: it becomes the lock if there is none, or if mv saw
\* none and an empty one has appeared; otherwise it lands inside the lock there
\* is, or the rename is refused.
Becomes(directory) == [lock |-> directory, moved |-> TRUE]
Moves(directory, name) ==
  IF ~Locked THEN {Becomes(directory)}
  ELSE {Becomes(Fresh(lock.owners, lock.rest \cup {name})), [lock |-> lock, moved |-> FALSE]}
       \cup {m \in {Becomes(directory)} : lock.owners \cup lock.rest = {}}

\* rm of one entry: nothing happens when it is not there.
Without(entry) == IF Locked /\ entry \in lock.rest
                  THEN Fresh(lock.owners, lock.rest \ {entry}) ELSE lock

Look(p) == /\ Due(p, "look") /\ Goto(p, IF Locked THEN "read" ELSE "place")
           /\ UNCHANGED <<lock, dead, owner, late>>

\* mv "$staging" "$dir", the staging directory complete with its marker.
MoveIn(p) ==
  /\ Due(p, "place")
  /\ \E m \in Moves(Fresh({p}, {}), <<"new", p>>) :
       lock' = m.lock /\ Goto(p, IF m.moved THEN "confirm" ELSE "clean")
  /\ UNCHANGED <<dead, owner, late>>

Confirm(p) == /\ Due(p, "confirm") /\ Goto(p, IF Marked(p) THEN "held" ELSE "clean")
              /\ UNCHANGED <<lock, dead, owner, late>>

Clean(p) == /\ Due(p, "clean") /\ Goto(p, "read")
            /\ lock' = Without(<<"new", p>>)
            /\ UNCHANGED <<dead, owner, late>>

\* build_lock_owner: the first marker there is, or nothing.
Read(p) == /\ Due(p, "read") /\ Goto(p, "judge")
           /\ IF Locked /\ ~Unmarked
              THEN \E o \in lock.owners : owner' = [owner EXCEPT ![p] = {o}]
              ELSE UNCHANGED owner
           /\ UNCHANGED <<lock, dead, late>>

\* Mutant: a lock without a marker is waited for like any other.
ReclaimableNever(p) == FALSE

Reclaimable(p) == owner[p] = {} /\ Locked /\ lock.old

\* A script that does neither sleeps a second and looks again.
Judge(p) ==
  /\ Due(p, "judge")
  /\ LET gone == \E o \in owner[p] : ~Alive(o)
     IN /\ Goto(p, CASE gone -> "take" [] Reclaimable(p) -> "reclaim" [] OTHER -> "look")
        /\ owner' = IF gone THEN owner ELSE [owner EXCEPT ![p] = {}]
  /\ UNCHANGED <<lock, dead, late>>

\* Mutant: the takeover does not depend on the marker that was read.
TakeableAny(p) == Locked

\* mv "$dir/owner.$owner": that very marker, or none.
Takeable(p) == Locked /\ owner[p] \subseteq lock.owners

Take(p) ==
  /\ Due(p, "take")
  /\ IF Takeable(p)
     THEN /\ lock' = Fresh(lock.owners \ owner[p], lock.rest \cup {<<"dead", p>>})
          /\ Goto(p, "mark")
     ELSE Goto(p, "look") /\ UNCHANGED lock
  /\ owner' = [owner EXCEPT ![p] = {}]
  /\ UNCHANGED <<dead, late>>

\* Without a directory to write its marker in, the script fails.
Mark(p) ==
  /\ Due(p, "mark")
  /\ IF Locked THEN lock' = Fresh(lock.owners \cup {p}, lock.rest) /\ Goto(p, "tidy")
     ELSE Goto(p, "gone") /\ UNCHANGED lock
  /\ UNCHANGED <<dead, owner, late>>

Tidy(p) == /\ Due(p, "tidy") /\ Goto(p, "held")
           /\ lock' = Without(<<"dead", p>>)
           /\ UNCHANGED <<dead, owner, late>>

\* mv "$dir" "$dir.dead.$$", into what an earlier pass could not put back.
Reclaim(p) ==
  /\ Due(p, "reclaim")
  /\ IF Locked
     THEN /\ lock' = NoDirectory /\ Goto(p, "inspect")
          /\ dead' = [dead EXCEPT ![p] = IF @ = NoDirectory THEN lock
                                         ELSE Fresh(@.owners, @.rest \cup {<<"lock", p>>})]
     ELSE Goto(p, "look") /\ UNCHANGED <<lock, dead>>
  /\ UNCHANGED <<owner, late>>

\* A lock with a marker is put back; one that cannot be is left where it is.
Restore(p) ==
  /\ Due(p, "inspect") /\ dead[p].owners # {}
  /\ \E m \in Moves(dead[p], <<"dead lock", p>>) :
       /\ lock' = m.lock
       /\ dead' = IF m.moved THEN [dead EXCEPT ![p] = NoDirectory] ELSE dead
  /\ Goto(p, "look") /\ UNCHANGED <<owner, late>>

DropDead(p) == /\ Due(p, "inspect") /\ dead[p].owners = {}
               /\ dead' = [dead EXCEPT ![p] = NoDirectory]
               /\ Goto(p, "look") /\ UNCHANGED <<lock, owner, late>>

\* release_build_lock: the marker is looked for, then rm -rf removes what it
\* finds in the directory, and the directory if nothing came in meanwhile.
Release(p) == /\ Due(p, "held") /\ Goto(p, IF Marked(p) THEN "empty" ELSE "gone")
              /\ UNCHANGED <<lock, dead, owner, late>>
RemoveEntries(p) == /\ Due(p, "empty") /\ Goto(p, "remove")
                    /\ lock' = IF Locked THEN Fresh({}, {}) ELSE lock
                    /\ UNCHANGED <<dead, owner, late>>
RemoveDirectory(p) == /\ Due(p, "remove") /\ Goto(p, "gone")
                      /\ lock' = IF Unmarked /\ lock.rest = {} THEN NoDirectory ELSE lock
                      /\ UNCHANGED <<dead, owner, late>>

\* The script is killed, or gives up waiting.  Nobody looks at the directory it
\* may have moved away.
End(p) == /\ Alive(p) /\ Goto(p, "gone")
          /\ owner' = [owner EXCEPT ![p] = {}]
          /\ dead' = [dead EXCEPT ![p] = NoDirectory]
          /\ UNCHANGED <<lock, late>>

\* No command takes a minute: it passes while every script sleeps, builds or is
\* done.
AtRest == \A p \in Scripts : pc[p] \in {"look", "held", "gone"}

Minute ==
  /\ AtRest /\ Locked /\ ~lock.old
  /\ lock' = [lock EXCEPT !.old = TRUE]
  /\ late' = (late \/ Unmarked)
  /\ UNCHANGED <<dead, pc, owner>>

Step(p) ==
  \/ Look(p) \/ MoveIn(p) \/ Confirm(p) \/ Clean(p) \/ Read(p) \/ Judge(p)
  \/ Take(p) \/ Mark(p) \/ Tidy(p) \/ Reclaim(p) \/ Restore(p) \/ DropDead(p)
  \/ Release(p) \/ RemoveEntries(p) \/ RemoveDirectory(p)

LockNext == Minute \/ \E p \in Scripts : Step(p) \/ End(p)

LockSpec == LockInit /\ [][LockNext]_lockVars

\* A script that runs goes on and its build ends, time passes, and scripts that
\* sleep a second between passes of a few commands all sleep at times.
FairSpec ==
  /\ LockSpec /\ SF_lockVars(Minute) /\ []<>AtRest
  /\ \A p \in Scripts : WF_lockVars(Step(p))

------------------------------------------------------------------------------
Holders == {p \in Scripts : pc[p] \in {"held", "empty"}}

\* lock.sh:4-7, "two invocations of the same script take turns".
MutualExclusion == \A p, q \in Holders : p = q

\* As long as no lock stood without a marker for a minute: scripts take turns,
\* whoever is killed in between, whatever arrives while a release removes the
\* directory, and whoever else takes over a departed owner's lock; the holder's
\* is the one marker in it (lock.sh:9, "always holds exactly one owner marker");
\* and no script waits for itself.
TakeTurns ==
  ~late =>
    /\ MutualExclusion
    /\ \A p \in Holders : Locked /\ lock.owners = {p}
    /\ \A p \in Scripts : p \notin owner[p]

Waiting == \E p \in Scripts : Alive(p) /\ pc[p] \notin {"held", "empty", "remove"}
Free == ~Locked \/ \A o \in lock.owners : ~Alive(o)

\* No lock is stuck: one that no live process owns, left by a killed holder, by
\* a takeover or a release that was cut short, or put back after its owner died,
\* does not stay so while a script waits for it; and as long as no lock stood
\* without a marker for a minute, one of the scripts that wait gets it.
WaitersServed ==
  /\ Waiting /\ Free ~> ~(Waiting /\ Free)
  /\ Waiting /\ Holders = {} /\ ~late ~> ~Waiting \/ Holders # {} \/ late
==============================================================================
