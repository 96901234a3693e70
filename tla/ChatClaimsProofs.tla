--------------------------- MODULE ChatClaimsProofs ---------------------------
(***************************************************************************)
(* Proofs that the claims of a run tell its workers apart.  Claim alone    *)
(* writes the claim of a run, and writes one that no turn holds yet; every *)
(* other step leaves claims, and what turns hold of them, as they are.     *)
(***************************************************************************)
EXTENDS ChatRunsProofs

\* No claim is made and no run is forgotten.
ClaimsKept ==
  \A r \in Runs :
    /\ run'[r].claim = run[r].claim
    /\ run'[r].status = "none" => run[r].status = "none"

\* The turn of w is over, or goes on with its run and its claim.
HoldsSame(w) ==
  worker'[w].stage \in Turn =>
    /\ worker[w].stage \in Turn
    /\ worker'[w].run = worker[w].run
    /\ worker'[w].token = worker[w].token

SameWorker(w) == worker'[w] = worker[w] /\ txn'[Main(w)] = txn[Main(w)]

-----------------------------------------------------------------------------
(* Steps that claim nothing *)

\* The invariant survives a step that keeps all claims and makes no turn.
LEMMA ClaimInvKept ==
  ASSUME IInv, ClaimInv, ClaimsKept,
         \A w \in Workers : HoldsSame(w) /\ TurnFollowed(w)'
  PROVE  ClaimInv'
  <1>1. \A w \in Workers : worker[w].stage \in Turn => worker[w].run \in Runs
    BY DEF IInv, TurnsSound, Turn
  <1>2. ASSUME NEW w \in Workers PROVE TokenKnown(w)'
    BY <1>1 DEF ClaimInv, TokenKnown, ClaimsKept, HoldsSame
  <1>3. \A r \in Runs : run'[r].status = "none" => run'[r].claim = 0
    BY DEF ClaimInv, ClaimsKept
  <1>4. TokensDiffer'
    BY DEF ClaimInv, TokensDiffer, HoldsSame
  <1>5. QED
    BY <1>2, <1>3, <1>4 DEF ClaimInv

\* A step of one worker needs a look at that worker only.
LEMMA OneWorkerKeeps ==
  ASSUME IInv, ClaimInv, ClaimsKept, NEW w \in Workers,
         \A v \in Workers : v # w => SameWorker(v),
         HoldsSame(w), TurnFollowed(w)'
  PROVE  ClaimInv'
  <1>1. ASSUME NEW v \in Workers, v # w PROVE HoldsSame(v) /\ TurnFollowed(v)'
    BY <1>1 DEF SameWorker, HoldsSame, ClaimInv, TurnFollowed
  <1>2. QED
    BY <1>1, ClaimInvKept

\* Other processes keep the claims of all workers.
LEMMA NoWorkerKeeps ==
  ASSUME IInv, ClaimInv, ClaimsKept, \A w \in Workers : SameWorker(w)
  PROVE  ClaimInv'
  <1>1. ASSUME NEW w \in Workers PROVE HoldsSame(w) /\ TurnFollowed(w)'
    BY <1>1 DEF SameWorker, HoldsSame, ClaimInv, TurnFollowed
  <1>2. QED
    BY <1>1, ClaimInvKept

-----------------------------------------------------------------------------
(* Rows *)

\* A run that ends keeps its claim.
LEMMA EndRunKeepsClaims ==
  ASSUME RowsTyped, NEW r \in Runs, NEW end \in Ended, EndRun(r, end)
  PROVE  ClaimsKept
  BY DEF EndRun, RunEndedAs, RowsTyped, ClaimsKept, Ended

\* A mark on a run keeps its claim.
LEMMA MarkKeepsClaims ==
  ASSUME RowsTyped, NEW r \in Runs, NEW b \in BOOLEAN,
         \/ run' = [run EXCEPT ![r].fresh = b]
         \/ run' = [run EXCEPT ![r].cancel = b]
  PROVE  ClaimsKept
  BY DEF RowsTyped, ClaimsKept

\* No request claims a run; one that prepares a run starts from no claim.
LEMMA ClientKeepsClaims ==
  ASSUME IInv, ClaimInv, NEW c \in Clients, ClientStep(c)
  PROVE  ClaimsKept
  <1>r. RowsTyped
    BY DEF IInv, TypeOK
  <1>u. CASE UNCHANGED run
    BY <1>u DEF ClaimsKept
  <1>1. CASE Dispatch(c)
    BY <1>1, <1>u DEF Dispatch, db
  <1>2. CASE ClientCommit(c)
    <2>1. PICK t \in Current(c, ClientTxns(c)) :
            \/ PrepareAgain(c, t) \/ Prepare(c, t) \/ DispatchFailed(c, t)
            \/ Read(c, t) \/ Interrupt(c, t) \/ Stop(c, t)
      BY <1>2 DEF ClientCommit
    <2>2. t.op \in OpsOfRun => t.run \in Runs
      BY ClientTxnSound DEF TxnSound
    <2>3. session.state = "running" => session.active \in Runs
      BY DEF IInv, RunningMeansActive
    <2>4. CASE PrepareAgain(c, t)
      BY <2>4, <1>u DEF PrepareAgain, db
    <2>5. CASE Prepare(c, t)
      <3>1. t.run \in Runs /\ run[t.run].claim = 0 /\ run[t.run].status = "none"
        BY <2>2, <2>5 DEF Prepare, Commits, OpsOfRun, Ops, ClaimInv
      <3>2. QED
        BY <2>5, <3>1, <1>r DEF Prepare, ClaimsKept, RowsTyped
    <2>6. CASE DispatchFailed(c, t)
      BY <2>2, <2>6, <1>r, <1>u, EndRunKeepsClaims
      DEF DispatchFailed, Commits, OpsOfRun, Ops, Ended, db
    <2>7. CASE Read(c, t)
      BY <2>3, <2>7, <1>r, <1>u, EndRunKeepsClaims
      DEF Read, RecoverStaleRun, SessionIsStale, Ended, db
    <2>8. CASE Interrupt(c, t)
      BY <2>2, <2>8, <1>r, <1>u, EndRunKeepsClaims
      DEF Interrupt, Commits, OpsOfRun, Ops, Ended, db
    <2>9. CASE Stop(c, t)
      BY <2>3, <2>9, <1>r, EndRunKeepsClaims, MarkKeepsClaims DEF Stop, StopApplies, Ended
    <2>10. QED
      BY <2>1, <2>4, <2>5, <2>6, <2>7, <2>8, <2>9
  <1>3. QED
    BY <1>1, <1>2 DEF ClientStep

\* Nor does a heartbeat.
LEMMA HeartbeatKeepsClaims ==
  ASSUME IInv, NEW w, NEW p, NEW t, TxnSound(t), Heartbeat(w, p, t)
  PROVE  ClaimsKept
  <1>1. t.run \in Runs
    BY DEF Heartbeat, Commits, TxnSound, OpsOfRun, Ops
  <1>2. CASE run' = [run EXCEPT ![t.run].fresh = TRUE]
    BY <1>1, <1>2, MarkKeepsClaims DEF IInv, TypeOK
  <1>3. CASE UNCHANGED run
    BY <1>3 DEF ClaimsKept
  <1>4. QED
    BY <1>2, <1>3 DEF Heartbeat

-----------------------------------------------------------------------------
(* Workers *)

\* A turn is in, or starts, the transaction its stage asks for, about its run.
LEMMA TurnTxnFollowed ==
  ASSUME ClaimInv, NEW w \in Workers, NEW t \in Current(Main(w), TurnTxns(w))
  PROVE  /\ t.op = "claim" => worker[w].stage = "delivered" /\ t.run = worker[w].run
         /\ t.op \in {"heartbeat", "stream"} =>
              worker[w].stage \in Turn /\ t.run = worker[w].run
  <1>1. CASE Active(Main(w))
    BY <1>1 DEF Current, ClaimInv, TurnFollowed
  <1>2. CASE ~Active(Main(w))
    BY <1>2 DEF Current, TurnTxns, OwnTxn, Txn, Turn
  <1>3. QED
    BY <1>1, <1>2

\* A worker that leaves or ends its turn makes no turn.
LEMMA EndHoldsSame ==
  ASSUME IInv, NEW w \in Workers,
         Leaves(w) \/ (worker[w].stage \in Turn /\ \E end : Finishes(w, end))
  PROVE  HoldsSame(w) /\ (\A v \in Workers : v # w => worker'[v] = worker[v])
  <1>0. worker \in [Workers -> [stage : {"off", "delivered"} \cup Turn,
                                run : Runs \cup {NoRun}, token : Nat,
                                reason : {"none", "stop", "deadline", "lost"},
                                end : {"none"} \cup Ended]]
    BY DEF IInv, TypeOK, KnowledgeTyped
  <1>1. CASE Leaves(w)
    BY <1>0, <1>1 DEF Leaves, NoWorker, HoldsSame, Turn
  <1>2. ASSUME NEW end, Finishes(w, end), worker[w].stage \in Turn
        PROVE  HoldsSame(w) /\ (\A v \in Workers : v # w => worker'[v] = worker[v])
    <2>1. PICK k : k = [worker[w] EXCEPT !.stage = "ending", !.end = end, !.reason = "none"]
      OBVIOUS
    <2>2. worker' = [worker EXCEPT ![w] = k]
      BY <1>2, <2>1 DEF Finishes
    <2>3. k.run = worker[w].run /\ k.token = worker[w].token
      BY <1>0, <2>1
    <2>4. QED
      BY <1>0, <1>2, <2>2, <2>3 DEF HoldsSame
  <1>3. QED
    BY <1>1, <1>2

\* The claim: a run that is free gets a claim above all that turns hold.
LEMMA ClaimKeepsClaims ==
  ASSUME IInv, ClaimInv, NEW w \in Workers,
         NEW t \in Current(Main(w), TurnTxns(w)), Claim(w, t)
  PROVE  ClaimInv'
  <1>1. /\ txn'[Main(w)].op = "none"
        /\ \A v \in Workers : v # w => txn'[Main(v)] = txn[Main(v)]
    BY CommitSound, ProcKinds DEF Claim, Commits, IInv
  <1>2. TurnFollowed(w)'
    BY <1>1 DEF TurnFollowed
  <1>3. CASE ~Claimable(t.run)
    <2>1. HoldsSame(w) /\ ClaimsKept /\ \A v \in Workers : v # w => SameWorker(v)
      BY <1>1, <1>3, EndHoldsSame DEF Claim, ClaimsKept, SameWorker
    <2>2. QED
      BY <1>2, <2>1, OneWorkerKeeps
  <1>4. CASE Claimable(t.run)
    <2>1. t.run \in Runs /\ t.run = worker[w].run
      BY TurnTxnSound, TurnTxnFollowed DEF Claim, Commits, TxnSound, OpsOfRun, Ops
    <2>2. /\ run[t.run].claim \in Nat /\ run'[t.run].claim = run[t.run].claim + 1
          /\ run'[t.run].status = "running"
          /\ \A r \in Runs : r # t.run => run'[r] = run[r]
      BY <1>4, <2>1 DEF Claim, NextToken, IInv, TypeOK, RowsTyped
    <2>3. /\ worker'[w].run = t.run /\ worker'[w].token = run[t.run].claim + 1
          /\ \A v \in Workers : v # w => worker'[v] = worker[v]
      BY <1>4, <2>1 DEF Claim, NextToken, IInv, TypeOK, KnowledgeTyped
    <2>4. ASSUME NEW v \in Workers, v # w
          PROVE  /\ TurnFollowed(v)' /\ TokenKnown(v)'
                 /\ worker'[v].stage \in Turn /\ worker'[v].run = t.run =>
                      worker'[v].token \in 1 .. run[t.run].claim
      <3>1. worker[v].stage \in Turn => worker[v].run \in Runs
        BY DEF IInv, TurnsSound, Turn
      <3>2. worker[v].token \in Nat
        BY DEF IInv, TypeOK, KnowledgeTyped
      <3>3. TurnFollowed(v)'
        BY <1>1, <2>3, <2>4 DEF ClaimInv, TurnFollowed
      <3>4. QED
        BY <2>2, <2>3, <2>4, <3>1, <3>2, <3>3 DEF ClaimInv, TokenKnown
    <2>5. TokenKnown(w)'
      BY <2>2, <2>3 DEF TokenKnown
    <2>6. \A r \in Runs : run'[r].status = "none" => run'[r].claim = 0
      BY <2>2 DEF ClaimInv
    <2>7. TokensDiffer'
      <3>1. ASSUME NEW u \in Workers, NEW v \in Workers, u # v,
                   worker'[u].stage \in Turn, worker'[v].stage \in Turn,
                   worker'[u].run = worker'[v].run, worker'[u].token = worker'[v].token
            PROVE  FALSE
        <4>1. CASE u # w /\ v # w
          BY <2>3, <3>1, <4>1 DEF ClaimInv, TokensDiffer
        <4>2. CASE u = w \/ v = w
          BY <2>2, <2>3, <2>4, <3>1, <4>2
        <4>3. QED
          BY <4>1, <4>2
      <3>2. QED
        BY <3>1 DEF TokensDiffer
    <2>8. QED
      BY <1>2, <2>4, <2>5, <2>6, <2>7 DEF ClaimInv
  <1>5. QED
    BY <1>3, <1>4

\* The other commits of a turn.
LEMMA TurnCommitKeepsClaims ==
  ASSUME IInv, ClaimInv, NEW w \in Workers, TurnCommit(w)
  PROVE  ClaimInv'
  <1>t. PICK t \in Current(Main(w), TurnTxns(w)) :
          Claim(w, t) \/ Heartbeat(w, Main(w), t) \/ Stream(w, t) \/ Finish(w, t)
    BY DEF TurnCommit
  <1>1. CASE Claim(w, t)
    BY <1>1, ClaimKeepsClaims
  <1>2. ASSUME ClaimsKept, HoldsSame(w), \A v \in Workers : v # w => worker'[v] = worker[v],
               txn' = [txn EXCEPT ![Main(w)] = NoTxn]
        PROVE  ClaimInv'
    <2>1. /\ txn'[Main(w)].op = "none"
          /\ \A v \in Workers : v # w => txn'[Main(v)] = txn[Main(v)]
      BY <1>2, CommitSound, ProcKinds DEF IInv
    <2>2. TurnFollowed(w)' /\ \A v \in Workers : v # w => SameWorker(v)
      BY <1>2, <2>1 DEF TurnFollowed, SameWorker
    <2>3. QED
      BY <1>2, <2>2, OneWorkerKeeps
  <1>3. CASE Heartbeat(w, Main(w), t)
    <2>1. ClaimsKept
      BY <1>3, TurnTxnSound, HeartbeatKeepsClaims
    <2>2. worker[w].stage \in Turn /\ txn' = [txn EXCEPT ![Main(w)] = NoTxn]
      BY <1>3, TurnTxnFollowed DEF Heartbeat, Commits
    <2>3. CASE worker' = [worker EXCEPT ![w].stage = "model"]
      <3>1. HoldsSame(w) /\ \A v \in Workers : v # w => worker'[v] = worker[v]
        BY <2>2, <2>3 DEF IInv, TypeOK, KnowledgeTyped, HoldsSame
      <3>2. QED
        BY <1>2, <2>1, <2>2, <3>1
    <2>4. CASE Leaves(w) \/ \E end : Finishes(w, end)
      BY <1>2, <2>1, <2>2, <2>4, EndHoldsSame
    <2>5. QED
      BY <1>3, <2>3, <2>4, ProcKinds DEF Heartbeat
  <1>4. CASE Stream(w, t)
    <2>1. ClaimsKept /\ HoldsSame(w)
      BY <1>4 DEF Stream, ClaimsKept, HoldsSame
    <2>2. QED
      BY <1>2, <1>4, <2>1 DEF Stream, Commits
  <1>5. CASE Finish(w, t)
    <2>1. t.run \in Runs /\ worker[w].stage = "ending"
      BY <1>5, TurnTxnSound DEF Finish, Commits, TxnSound, OpsOfRun, Ops
    <2>2. worker[w].end \in Ended
      BY <2>1 DEF IInv, TurnsSound
    <2>3. ClaimsKept
      BY <1>5, <2>1, <2>2, EndRunKeepsClaims DEF Finish, ClaimsKept, db, IInv, TypeOK
    <2>4. QED
      BY <1>2, <1>5, <2>3, EndHoldsSame DEF Finish, Commits
  <1>6. QED
    BY <1>t, <1>1, <1>3, <1>4, <1>5

\* The heartbeat timer changes only why a turn has to stop.
LEMMA TimerKeepsClaims ==
  ASSUME IInv, ClaimInv, NEW w \in Workers, TimerCommit(w)
  PROVE  ClaimInv'
  <1>t. PICK t \in Current(Heart(w), TimerTxns(w)) : Heartbeat(w, Heart(w), t)
    BY DEF TimerCommit
  <1>1. ClaimsKept
    BY <1>t, TimerTxnSound, HeartbeatKeepsClaims
  <1>2. \A v \in Workers : txn'[Main(v)] = txn[Main(v)]
    BY <1>t, CommitSound, ProcKinds DEF Heartbeat, Commits, IInv
  <1>3. CASE UNCHANGED worker
    BY <1>1, <1>2, <1>3, NoWorkerKeeps DEF SameWorker
  <1>4. ASSUME NEW reason, worker' = [worker EXCEPT ![w].reason = reason] PROVE ClaimInv'
    <2>1. /\ worker'[w].stage = worker[w].stage
          /\ worker'[w].run = worker[w].run /\ worker'[w].token = worker[w].token
          /\ \A v \in Workers : v # w => worker'[v] = worker[v]
      BY <1>4 DEF IInv, TypeOK, KnowledgeTyped
    <2>2. HoldsSame(w) /\ TurnFollowed(w)' /\ \A v \in Workers : v # w => SameWorker(v)
      BY <1>2, <2>1 DEF HoldsSame, ClaimInv, TurnFollowed, SameWorker
    <2>3. QED
      BY <1>1, <2>2, OneWorkerKeeps
  <1>5. ASSUME NEW found, worker' = [worker EXCEPT ![w].reason = ReasonAfter(@, found)]
        PROVE  ClaimInv'
    BY <1>4, <1>5
  <1>6. QED
    BY <1>t, <1>3, <1>5, ProcKinds DEF Heartbeat

\* All a worker does keeps the claims.
LEMMA WorkerKeepsClaims ==
  ASSUME IInv, ClaimInv, NEW w \in Workers, WorkerStep(w)
  PROVE  ClaimInv'
  <1>1. CASE TurnCommit(w)
    BY <1>1, TurnCommitKeepsClaims
  <1>2. CASE TimerCommit(w)
    BY <1>2, TimerKeepsClaims
  <1>3. CASE Deliver(w)
    <2>1. txn[Main(w)].op = "none"
      BY <1>3 DEF Deliver, IInv, TurnsSound, Active
    <2>2. /\ worker'[w].stage = "delivered"
          /\ \A v \in Workers : v # w => worker'[v] = worker[v]
      BY <1>3 DEF Deliver, IInv, TypeOK, KnowledgeTyped
    <2>3. HoldsSame(w) /\ TurnFollowed(w)' /\ \A v \in Workers : v # w => SameWorker(v)
      BY <1>3, <2>1, <2>2 DEF Deliver, HoldsSame, TurnFollowed, SameWorker, Turn
    <2>4. ClaimsKept
      BY <1>3 DEF Deliver, ClaimsKept, db
    <2>5. QED
      BY <2>3, <2>4, OneWorkerKeeps
  <1>4. CASE Deadline(w)
    <2>1. /\ worker'[w].stage = worker[w].stage
          /\ worker'[w].run = worker[w].run /\ worker'[w].token = worker[w].token
          /\ \A v \in Workers : v # w => worker'[v] = worker[v]
      BY <1>4 DEF Deadline, IInv, TypeOK, KnowledgeTyped
    <2>2. HoldsSame(w) /\ TurnFollowed(w)' /\ \A v \in Workers : v # w => SameWorker(v)
      BY <1>4, <2>1 DEF Deadline, HoldsSame, ClaimInv, TurnFollowed, SameWorker
    <2>3. ClaimsKept
      BY <1>4 DEF Deadline, ClaimsKept, db
    <2>4. QED
      BY <2>2, <2>3, OneWorkerKeeps
  <1>5. CASE EndTurn(w)
    <2>1. HoldsSame(w) /\ \A v \in Workers : v # w => worker'[v] = worker[v]
      BY <1>5, EndHoldsSame DEF EndTurn, Turn
    <2>2. TurnFollowed(w)' /\ \A v \in Workers : v # w => SameWorker(v)
      BY <1>5, <2>1 DEF EndTurn, TurnFollowed, SameWorker, Active
    <2>3. ClaimsKept
      BY <1>5 DEF EndTurn, ClaimsKept, db
    <2>4. QED
      BY <2>1, <2>2, <2>3, OneWorkerKeeps
  <1>6. CASE Crash(w)
    <2>1. /\ txn'[Main(w)].op = "none"
          /\ \A v \in Workers : v # w => txn'[Main(v)] = txn[Main(v)]
      BY <1>6, ProcKinds DEF Crash, IInv, TxnsSound, NoTxn
    <2>2. HoldsSame(w) /\ \A v \in Workers : v # w => worker'[v] = worker[v]
      BY <1>6, EndHoldsSame DEF Crash
    <2>3. TurnFollowed(w)' /\ \A v \in Workers : v # w => SameWorker(v)
      BY <2>1, <2>2 DEF TurnFollowed, SameWorker
    <2>4. ClaimsKept
      BY <1>6 DEF Crash, ClaimsKept, db
    <2>5. QED
      BY <2>2, <2>3, <2>4, OneWorkerKeeps
  <1>7. QED
    BY <1>1, <1>2, <1>3, <1>4, <1>5, <1>6 DEF WorkerStep

-----------------------------------------------------------------------------
(* Locks and aborts *)

\* A transaction that locks a row is still the one its turn asks for.
LEMMA LockKeepsClaims ==
  ASSUME IInv, ClaimInv, NEW p \in Procs, Lock(p)
  PROVE  ClaimInv'
  <1>1. ClaimsKept /\ UNCHANGED worker
    BY DEF Lock, LockNext, ClaimsKept
  <1>2. CASE p \in Clients \/ \E w \in Workers : p = Heart(w)
    <2>1. \A w \in Workers : p # Main(w)
      BY <1>2, ProcKinds
    <2>2. \A q \in Procs : q # p => txn'[q] = txn[q]
      BY LockNextSound DEF Lock, IInv
    <2>3. QED
      BY <1>1, <2>1, <2>2, NoWorkerKeeps, ProcKinds DEF SameWorker
  <1>3. ASSUME NEW w \in Workers, p = Main(w), LockNext(p, TurnTxns(w)) PROVE ClaimInv'
    <2>1. PICK t \in Current(Main(w), TurnTxns(w)) :
            /\ TxnSound(t) => txn'[Main(w)].op = t.op /\ txn'[Main(w)].run = t.run
            /\ \A q \in Procs : q # Main(w) => txn'[q] = txn[q]
      BY <1>3, LockNextSound DEF IInv
    <2>2. txn'[Main(w)].op = t.op /\ txn'[Main(w)].run = t.run
      BY <2>1, TurnTxnSound
    <2>3. TurnFollowed(w)' /\ HoldsSame(w)
      BY <1>1, <2>2, TurnTxnFollowed DEF TurnFollowed, HoldsSame
    <2>4. \A v \in Workers : v # w => SameWorker(v)
      BY <1>1, <2>1, ProcKinds DEF SameWorker
    <2>5. QED
      BY <1>1, <2>3, <2>4, OneWorkerKeeps
  <1>4. QED
    BY <1>2, <1>3 DEF Lock

\* A turn whose transaction is aborted fails or is over.
LEMMA AbortKeepsClaims ==
  ASSUME IInv, ClaimInv, NEW p \in Procs, Abort(p)
  PROVE  ClaimInv'
  <1>1. ClaimsKept
    BY DEF Abort, ClaimsKept, db
  <1>2. txn'[p].op = "none" /\ \A q \in Procs : q # p => txn'[q] = txn[q]
    BY CommitSound DEF Abort, IInv
  <1>3. CASE UNCHANGED worker /\ \A w \in Workers : p # Main(w)
    BY <1>1, <1>2, <1>3, NoWorkerKeeps, ProcKinds DEF SameWorker
  <1>4. ASSUME NEW w \in Workers, p = Main(w),
               IF txn[p].op \in {"heartbeat", "stream"} /\ worker[w].reason # "lost"
               THEN Finishes(w, "failed") ELSE Leaves(w)
        PROVE  ClaimInv'
    <2>1. HoldsSame(w) /\ \A v \in Workers : v # w => worker'[v] = worker[v]
      BY <1>4, EndHoldsSame DEF ClaimInv, TurnFollowed
    <2>2. TurnFollowed(w)' /\ \A v \in Workers : v # w => SameWorker(v)
      BY <1>2, <1>4, <2>1, ProcKinds DEF TurnFollowed, SameWorker
    <2>3. QED
      BY <1>1, <2>1, <2>2, OneWorkerKeeps
  <1>5. QED
    BY <1>3, <1>4, ProcKinds DEF Abort

-----------------------------------------------------------------------------
(* The theorems *)

\* Every step keeps the claims apart.
LEMMA ClaimStepSound ==
  ASSUME IInv, ClaimInv, [Next]_vars
  PROVE  ClaimInv'
  <1>1. ASSUME NEW c \in Clients, ClientStep(c) PROVE ClaimInv'
    <2>1. ClaimsKept
      BY <1>1, ClientKeepsClaims
    <2>2. UNCHANGED worker
      BY <1>1 DEF ClientStep, Dispatch, ClientCommit, PrepareAgain, Prepare, DispatchFailed,
                  Read, Interrupt, Stop
    <2>3. txn' = txn \/ txn' = [txn EXCEPT ![c] = NoTxn]
      BY <1>1 DEF ClientStep, Dispatch, ClientCommit, PrepareAgain, Prepare, DispatchFailed,
                  Read, Interrupt, Stop, Commits
    <2>4. \A w \in Workers : SameWorker(w)
      BY <2>2, <2>3, CommitSound, ProcKinds DEF SameWorker, IInv
    <2>5. QED
      BY <2>1, <2>4, NoWorkerKeeps
  <1>2. ASSUME NEW w \in Workers, WorkerStep(w) PROVE ClaimInv'
    BY <1>2, WorkerKeepsClaims
  <1>3. ASSUME NEW p \in Procs, Lock(p) \/ Abort(p) PROVE ClaimInv'
    BY <1>3, LockKeepsClaims, AbortKeepsClaims
  <1>4. CASE Age
    <2>1. ClaimsKept
      <3>1. CASE UNCHANGED run
        BY <3>1 DEF ClaimsKept
      <3>2. QED
        BY <1>4, <3>1, MarkKeepsClaims DEF Age, IInv, TypeOK
    <2>2. QED
      BY <1>4, <2>1, NoWorkerKeeps DEF Age, SameWorker
  <1>5. CASE UNCHANGED vars
    BY <1>5, NoWorkerKeeps DEF vars, SameWorker, ClaimsKept
  <1>6. QED
    BY <1>1, <1>2, <1>3, <1>4, <1>5 DEF Next

\* Turns that have the same run hold different claims of it, however many
\* workers, crashes and repeated deliveries there are (claimChatRun).
THEOREM ClaimsTellTurnsApart == Spec => []ClaimInv
  <1>1. Init => ClaimInv
    BY ProcKinds
    DEF Init, ClaimInv, TurnFollowed, TokenKnown, TokensDiffer, NoWorker, NoTxn, Turn
  <1>2. QED
    BY <1>1, ClaimStepSound, ChatRunsInductive, PTL DEF Spec

\* At most one worker passes the fence of a run, and so at most one stores its
\* outcome or keeps it alive (assertClaimedRunStillActive, claimFence.ts).
THEOREM OneWorkerOwnsTheRun == Spec => []OneOwner
  <1>1. ClaimInv => OneOwner
    <2>1. ASSUME ClaimInv, NEW v \in Workers, NEW w \in Workers, Owns(v), Owns(w)
          PROVE  v = w
      <3>1. worker[v].run = worker[w].run /\ worker[v].token = worker[w].token
        BY <2>1 DEF Owns, ClaimHolds, TokenHolds, OwnTxn, Txn
      <3>2. QED
        BY <2>1, <3>1 DEF ClaimInv, TokensDiffer, Owns
    <2>2. QED
      BY <2>1 DEF OneOwner
  <1>2. QED
    BY <1>1, ClaimsTellTurnsApart, PTL
=============================================================================
