-------------------------- MODULE LastWriterRegister --------------------------
(***************************************************************************)
(* What the server promises about one card, without requests, batches in   *)
(* progress, retries, clocks or devices: a register and the pushed         *)
(* snapshots it has taken into account.  Each counts once; several at a    *)
(* time count as if they had come in any order; and the register moves     *)
(* only to the last of them, unless an agent writes past the rule.         *)
(***************************************************************************)
EXTENDS Integers

CONSTANT Initial    \* the first snapshot

VARIABLES
  value,            \* the snapshot the register holds
  counted           \* the pushed snapshots taken into account

vars == <<value, counted>>

\* The order of writers: time, then the writer's number, then the operation's.
Later(v, w) ==
  \/ v.at > w.at
  \/ v.at = w.at /\ (v.by > w.by \/ (v.by = w.by /\ v.op > w.op))

Init ==
  /\ value = Initial
  /\ counted = {}

\* A batch is taken into account at once; what has counted already counts no more.
Absorb ==
  LET new == counted' \ counted IN
  /\ counted \subseteq counted'
  /\ value' \in {value} \union new
  /\ \A v \in {value} \union new : ~Later(v, value')

\* An agent stores a snapshot that nobody has pushed.
Replace ==
  /\ value' \notin counted
  /\ UNCHANGED counted

Next == Absorb \/ Replace

Spec == Init /\ [][Next]_vars
=============================================================================
