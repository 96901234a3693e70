--------------------------- MODULE ChatRunsInvariant ---------------------------
(***************************************************************************)
(* The inductive invariant of ChatRuns: a turn is about a run, and what it *)
(* remembers of its claim is what its transactions carry; the session      *)
(* points to the one open run.  Locks are no part of IInv: what keeps its  *)
(* facts is that every transaction checks the rows it holds.  That a row   *)
(* is checked only once, when it is locked, is LockInv.                    *)
(***************************************************************************)
EXTENDS ChatRuns

Ops ==
  {"none", "prepare", "recover", "stop", "dispatchFailed", "interrupt", "claim",
   "heartbeat", "stream", "finish"}

\* Operations that name their run.
OpsOfRun == Ops \ {"none", "recover", "stop"}

TxnSound(t) ==
  /\ t = [op |-> t.op, run |-> t.run, token |-> t.token, held |-> t.held]
  /\ t.op \in Ops
  /\ t.run \in Runs \cup {NoRun}
  /\ t.token \in Nat
  /\ t.op \in OpsOfRun => t.run \in Runs

TxnsSound ==
  /\ txn = [p \in Procs |-> txn[p]]
  /\ \A p \in Procs : TxnSound(txn[p])

TurnsSound ==
  /\ \A c \in Clients : client[c].stage # "idle" => client[c].run \in Runs
  /\ \A w \in Workers :
       /\ worker[w].stage # "off" => worker[w].run \in Runs
       /\ worker[w].stage = "ending" => worker[w].end \in Ended
       /\ Active(Main(w)) => worker[w].stage # "off"
       /\ txn[Main(w)].op = "finish" =>
            /\ worker[w].stage = "ending"
            /\ txn[Main(w)].run = worker[w].run
            /\ txn[Main(w)].token = worker[w].token

RunningMeansActive ==
  /\ session.state = "running" => session.active \in Runs
  /\ session.state # "running" => session.active = NoRun

\* The conjuncts of the inductive invariant.
IInv == TypeOK /\ TxnsSound /\ TurnsSound /\ RunningMeansActive /\ SessionTracksOpenRun

-----------------------------------------------------------------------------
(* Locks *)

\* The session was locked first and is as it was then.
SessionChecked(t) ==
  \/ t.op = "prepare" /\ run[t.run].status = "none" /\ SessionIsStale
  \/ t.op = "recover" /\ SessionIsStale
  \/ t.op = "stop" /\ StopApplies(t.run)

\* The run was locked first and is as it was then.
RunChecked(t) ==
  \/ t.op = "dispatchFailed" /\ run[t.run].status = "queued"
  \/ t.op = "interrupt" /\ run[t.run].status \in Open

\* A transaction holds the rows it has locked so far, in its order, and what it
\* decided on their contents still stands.
HeldSound(t) ==
  \/ t.held = {}
  \/ SessionChecked(t) /\ t.held = {SessionRow}
  \/ /\ SessionChecked(t) /\ t.held = {SessionRow, RunRow(session.active)}
     /\ t.op = "stop" => run[session.active].status = "queued"
  \/ RunChecked(t) /\ t.held = {RunRow(t.run)}
  \/ RunChecked(t) /\ t.held = {RunRow(t.run), ItemRow(t.run)}
  \/ t.op = "claim" /\ t.held = {RunRow(t.run)}
  \/ t.op = "heartbeat" /\ TokenHolds(t) /\ t.held = {RunRow(t.run)}
  \/ t.op = "finish" /\ t.held = {RunRow(t.run)}
  \/ t.op = "finish" /\ ClaimHolds(t) /\ t.held = {RunRow(t.run), SessionRow}
  \/ t.op = "stream" /\ t.held = {ItemRow(t.run)}

\* A row is locked by one transaction at most.
LocksExclude ==
  \A p, q \in Procs : txn[p].held \cap txn[q].held # {} => p = q

\* A row is read once, when it is locked, and not again before the commit: no
\* other transaction can make a check of this one false in between
\* (FOR UPDATE throughout chat/store/repository.ts and chat/runs/repository.ts).
LockInv == (\A p \in Procs : HeldSound(txn[p])) /\ LocksExclude

-----------------------------------------------------------------------------
(* Claims *)

\* The transaction of a turn is the one its stage asks for, about its run.
TurnFollowed(w) ==
  /\ txn[Main(w)].op = "claim" =>
       worker[w].stage = "delivered" /\ txn[Main(w)].run = worker[w].run
  /\ txn[Main(w)].op \in {"heartbeat", "stream"} =>
       worker[w].stage \in Turn /\ txn[Main(w)].run = worker[w].run

\* Only the turn of a worker claims, streams and finishes.
TurnsOnMain ==
  \A p \in Procs :
    txn[p].op \in {"claim", "stream", "finish"} => \E w \in Workers : p = Main(w)

\* A turn holds a claim that its run has had.
TokenKnown(w) ==
  worker[w].stage \in Turn => worker[w].token \in 1 .. run[worker[w].run].claim

\* Two turns of one run hold different claims.
TokensDiffer ==
  \A v, w \in Workers :
    /\ worker[v].stage \in Turn /\ worker[w].stage \in Turn
    /\ worker[v].run = worker[w].run /\ worker[v].token = worker[w].token
    => v = w

ClaimInv ==
  /\ \A w \in Workers : TurnFollowed(w) /\ TokenKnown(w)
  /\ \A r \in Runs : run[r].status = "none" => run[r].claim = 0
  /\ TokensDiffer
=============================================================================
