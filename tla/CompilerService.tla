-------------------------- MODULE CompilerService --------------------------
(***************************************************************************)
(* What WorkerCompiler (sdk/typescript/types.ts and the comment on         *)
(* createWorkerCompiler) promises its callers, without workers, messages,  *)
(* cells or timers: calls are served one at a time and refused while one   *)
(* is active; a call may settle while its guest still runs, but no other   *)
(* guest starts before that one has stopped; a closed service starts       *)
(* nothing more.                                                           *)
(***************************************************************************)
CONSTANTS Jobs, None

VARIABLES
  call,    \* of each call: "idle", "active", or how it ended
  guest,   \* the call whose guest may be running, or None
  closed

vars == <<call, guest, closed>>

TypeOK ==
  /\ call \in [Jobs -> {"idle", "active", "busy", "closed", "settled"}]
  /\ guest \in Jobs \cup {None}
  /\ closed \in BOOLEAN

Init ==
  /\ call = [j \in Jobs |-> "idle"]
  /\ guest = None
  /\ closed = FALSE

Busy == \E j \in Jobs : call[j] = "active"

\* A call is refused as busy only while another is active.
Refuse(j) ==
  /\ call[j] = "idle" /\ Busy
  /\ call' = [call EXCEPT ![j] = "busy"]
  /\ UNCHANGED <<guest, closed>>

Accept(j) ==
  /\ call[j] = "idle" /\ ~closed /\ ~Busy
  /\ call' = [call EXCEPT ![j] = "active"]
  /\ UNCHANGED <<guest, closed>>

StartGuest(j) ==
  /\ call[j] = "active" /\ guest = None /\ ~closed
  /\ guest' = j
  /\ UNCHANGED <<call, closed>>

\* The guest exited, stopped at its deadline or cell, or its worker went.
GuestStops ==
  /\ guest # None
  /\ guest' = None
  /\ UNCHANGED <<call, closed>>

\* A call ends with its result or its own failure, at once when its arguments
\* are refused; it fails as closed only if the service is.
Settle(j) ==
  /\ call[j] \in {"idle", "active"}
  /\ \E how \in {"settled", "closed"} :
       /\ how = "closed" => closed
       /\ call' = [call EXCEPT ![j] = how]
  /\ UNCHANGED <<guest, closed>>

Dispose ==
  /\ closed' = TRUE /\ guest' = None
  /\ UNCHANGED call

Next ==
  \/ GuestStops \/ Dispose
  \/ \E j \in Jobs : Refuse(j) \/ Accept(j) \/ StartGuest(j) \/ Settle(j)

Spec == Init /\ [][Next]_vars
=============================================================================
