------------------------------ MODULE TurnTaking ------------------------------
(***************************************************************************)
(* What the runs of a chat session promise, without rows, locks, claims or *)
(* heartbeats: they take turns.  At most one is open, it ends once, only a *)
(* run that a worker has started can be answered, and a new run may push   *)
(* the open one aside as interrupted but never undo an end.                *)
(***************************************************************************)
CONSTANTS
  Runs,
  NoRun             \* no run is open

VARIABLES
  turn,             \* the open run
  phase             \* how far each run has come

vars == <<turn, phase>>

Open == {"queued", "running"}
Ended == {"completed", "failed", "interrupted", "cancelled"}

Init ==
  /\ turn = NoRun
  /\ phase = [r \in Runs |-> "none"]

Take(r) ==
  /\ phase[r] = "none"
  /\ turn' = r
  /\ phase' = [s \in Runs |->
       IF s = r THEN "queued" ELSE IF s = turn THEN "interrupted" ELSE phase[s]]

Start ==
  /\ turn # NoRun
  /\ phase[turn] = "queued"
  /\ phase' = [phase EXCEPT ![turn] = "running"]
  /\ UNCHANGED turn

End(outcome) ==
  /\ turn # NoRun
  /\ outcome \in {"completed", "failed"} => phase[turn] = "running"
  /\ phase' = [phase EXCEPT ![turn] = outcome]
  /\ turn' = NoRun

Next == Start \/ (\E r \in Runs : Take(r)) \/ \E outcome \in Ended : End(outcome)

Spec == Init /\ [][Next]_vars
=============================================================================
