-------------------------- MODULE CardSyncInvariant --------------------------
(***************************************************************************)
(* The inductive invariant of CardSync.  A snapshot never loses its maker: *)
(* wherever one travels (edit, outbox, request, batch, ledger, row,        *)
(* answer), its time is what its maker's clock said at that edit, so two   *)
(* snapshots with the same maker and operation id are the same one.  That  *)
(* is what lets the ledger, which stores names only, stand for snapshots.  *)
(***************************************************************************)
EXTENDS CardSync

\* v is a snapshot that c made.
MadeBy(c, v) ==
  /\ v.by = c
  /\ v.op \in 1 .. now
  /\ v.at = v.op + Skew[c]

SnapshotsMade ==
  /\ \A v \in ledger : v.by \in Devices /\ MadeBy(v.by, v)
  /\ \A req \in net : \A v \in req.ops : MadeBy(req.by, v)
  /\ tx # NoTx => tx.req \in Request
  /\ \A v \in tx.req.ops : MadeBy(tx.req.by, v)
  /\ \A c \in Devices :
       /\ \A v \in outbox[c] : MadeBy(c, v)
       /\ \A v \in sent[c].ops : MadeBy(c, v)
       /\ edit[c].at # "none" => MadeBy(c, edit[c].v)
       /\ edit[c].at = "none" => edit[c] = NoEdit
       /\ edit[c].at = "put" => c \in Web

\* What a batch leaves to do belongs to its request, and what it stores in the
\* row is either what it found or one of its operations no batch processed before.
BatchSound ==
  /\ tx.todo \subseteq tx.req.ops
  /\ tx # NoTx /\ tx.row # row => tx.row \in tx.req.ops /\ Fresh(tx.row)

\* Of the row and the new operations it has processed, a batch holds the last.
BatchHoldsLast ==
  tx # NoTx =>
    \A v \in {row} \union {o \in tx.req.ops \ tx.todo : Fresh(o)} : ~Beats(v, tx.row)

\* A device's snapshot reaches the row, an answer or an acknowledgement only
\* through the ledger.
ThroughLedger ==
  /\ row.by \in Devices => row \in ledger
  /\ \A c \in Devices :
       /\ answer[c].by \in Devices => answer[c] \in ledger
       /\ acks[c] \subseteq ledger

\* No agent's clock is behind a device's.
AgentsNotBehind == \A a \in Agents, c \in Devices : Skew[c] <= Skew[a]

\* The last writer is kept inside a batch too, operation by operation.
LastWriterHeld ==
  AgentsNotBehind =>
    /\ LastWriterKept
    /\ tx # NoTx =>
         \A v \in ledger \union (tx.req.ops \ tx.todo) : ~Beats(v, tx.row)

\* What a device may show once it has seen the last change.
MayShow(c, v) == v = row \/ v.by = c \/ (c \in Ios /\ Beats(v, row))

\* A device's cursor stops short of any change it does not show, at each stage of
\* a pull, and a copy of another's snapshot carries that one's replica id.
InStep(c) ==
  /\ cursor[c] <= change
  /\ cursor[c] = change => MayShow(c, local[c])
  /\ phase[c] \in {"pulled", "merged"} => cursor[c] <= upto[c] /\ upto[c] <= change
  /\ phase[c] = "pulled" /\ upto[c] = change =>
       answer[c] = row \/ (answer[c] = None /\ cursor[c] = change)
  /\ phase[c] = "merged" /\ upto[c] = change => MayShow(c, local[c])
  /\ c \in Ios /\ local[c].by # c => stamp[c] = local[c].by

AllInStep == \A c \in Devices : InStep(c)

\* The inductive invariant: where snapshots come from, and what follows.
IInv ==
  /\ TypeOK
  /\ SnapshotsMade
  /\ BatchSound
  /\ BatchHoldsLast
  /\ ThroughLedger
  /\ LastWriterHeld
  /\ IosShowsLastEdit
  /\ OwnEditsTravel
  /\ AllInStep
=============================================================================
