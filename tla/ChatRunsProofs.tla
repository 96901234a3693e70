---------------------------- MODULE ChatRunsProofs ----------------------------
(***************************************************************************)
(* Proofs about ChatRuns.  The rows are treated apart from what processes  *)
(* know: every commit leaves the rows alone, ends the active run, starts   *)
(* it, puts a new one in its place, or only marks it; each of these keeps  *)
(* the session and its runs together and is a step of TurnTaking.          *)
(***************************************************************************)
EXTENDS ChatRunsInvariant, TLAPS

\* What the rows keep among themselves.
RowsInv == RowsTyped /\ RunningMeansActive /\ SessionTracksOpenRun

TurnStep == [Turns!Next]_Turns!vars

-----------------------------------------------------------------------------
(* Processes *)

\* Every process is one of the three kinds.
LEMMA ProcKinds ==
  /\ \A c \in Clients : c \in Procs
  /\ \A w \in Workers : Main(w) \in Procs /\ Heart(w) \in Procs
  /\ \A c \in Clients, w \in Workers : c # Main(w) /\ c # Heart(w)
  /\ \A v, w \in Workers : Main(v) # Heart(w) /\ (Main(v) = Main(w) => v = w)
  BY ProcsAssumption DEF Procs, WorkerProcs, Main, Heart

\* A transaction that a request is in or starts is well formed.
LEMMA ClientTxnSound ==
  ASSUME IInv, NEW c \in Clients, NEW t \in Current(c, ClientTxns(c))
  PROVE  TxnSound(t)
  <1>1. CASE Active(c)
    BY <1>1, ProcKinds DEF Current, IInv, TxnsSound
  <1>2. CASE ~Active(c)
    <2>1. t \in ClientTxns(c)
      BY <1>2 DEF Current
    <2>2. \A s \in Runs \cup {NoRun} :
            /\ TxnSound(Txn("recover", s, 0)) /\ TxnSound(Txn("stop", s, 0))
            /\ s \in Runs => /\ TxnSound(Txn("prepare", s, 0))
                             /\ TxnSound(Txn("dispatchFailed", s, 0))
                             /\ TxnSound(Txn("interrupt", s, 0))
      BY DEF TxnSound, Txn, Ops, OpsOfRun
    <2>3. client[c].stage # "idle" => client[c].run \in Runs
      BY DEF IInv, TurnsSound
    <2>4. QED
      BY <2>1, <2>2, <2>3 DEF ClientTxns
  <1>3. QED
    BY <1>1, <1>2

\* A transaction that a turn is in or starts is well formed, and one that ends
\* the turn carries the turn's own run and token.
LEMMA TurnTxnSound ==
  ASSUME IInv, NEW w \in Workers, NEW t \in Current(Main(w), TurnTxns(w))
  PROVE  /\ TxnSound(t)
         /\ t.op = "finish" => /\ worker[w].stage = "ending"
                               /\ worker[w].run = t.run
                               /\ worker[w].token = t.token
  <1>1. CASE Active(Main(w))
    BY <1>1, ProcKinds DEF Current, IInv, TxnsSound, TurnsSound
  <1>2. CASE ~Active(Main(w))
    <2>1. t \in TurnTxns(w)
      BY <1>2 DEF Current
    <2>2. worker[w].token \in Nat /\ (worker[w].stage # "off" => worker[w].run \in Runs)
      BY DEF IInv, TurnsSound, TypeOK, KnowledgeTyped
    <2>3. QED
      BY <2>1, <2>2 DEF TurnTxns, OwnTxn, TxnSound, Txn, Ops, OpsOfRun
  <1>3. QED
    BY <1>1, <1>2

\* The same for the heartbeat timer, which starts nothing but heartbeats.
LEMMA TimerTxnSound ==
  ASSUME IInv, NEW w \in Workers, NEW t \in Current(Heart(w), TimerTxns(w))
  PROVE  TxnSound(t)
  <1>1. CASE Active(Heart(w))
    BY <1>1, ProcKinds DEF Current, IInv, TxnsSound
  <1>2. CASE ~Active(Heart(w))
    <2>1. t \in TimerTxns(w)
      BY <1>2 DEF Current
    <2>2. worker[w].token \in Nat /\ (worker[w].stage # "off" => worker[w].run \in Runs)
      BY DEF IInv, TurnsSound, TypeOK, KnowledgeTyped
    <2>3. QED
      BY <2>1, <2>2 DEF TimerTxns, OwnTxn, TxnSound, Txn, Ops, OpsOfRun, Turn
  <1>3. QED
    BY <1>1, <1>2

\* A commit or a rollback leaves only well-formed transactions.
LEMMA CommitSound ==
  ASSUME TxnsSound, NEW p \in Procs, txn' = [txn EXCEPT ![p] = NoTxn]
  PROVE  /\ TxnsSound'
         /\ \A q \in Procs : q # p => txn'[q] = txn[q]
         /\ txn'[p].op = "none"
  BY DEF TxnsSound, TxnSound, NoTxn, Ops, OpsOfRun

-----------------------------------------------------------------------------
(* Rows *)

\* The active run, and only it, is open.
LEMMA OpenIsActive ==
  ASSUME RowsInv, NEW r \in Runs, run[r].status \in Open
  PROVE  session.state = "running" /\ session.active = r /\ r # NoRun
  BY NoRunAssumption DEF RowsInv, SessionTracksOpenRun

\* Rows that do not change stay sound.
LEMMA RowsUntouched ==
  ASSUME RowsInv, UNCHANGED db
  PROVE  RowsInv' /\ TurnStep
  BY DEF RowsInv, RowsTyped, RunningMeansActive, SessionTracksOpenRun, db,
         TurnStep, Turns!vars

\* Ending an open run ends the turn of the session.
LEMMA EndRunTurns ==
  ASSUME RowsInv, NEW r \in Runs, NEW end \in Ended, run[r].status \in Open,
         end \in {"completed", "failed"} => run[r].status = "running",
         EndRun(r, end)
  PROVE  RowsInv' /\ TurnStep
  <1>1. session.state = "running" /\ session.active = r /\ r # NoRun
    BY OpenIsActive
  <1>2. \A s \in Runs : s # r => run[s].status \notin Open
    BY <1>1, OpenIsActive
  <1>3. /\ run' \in [Runs -> [status : Statuses, claim : Nat, fresh : BOOLEAN,
                              cancel : BOOLEAN]]
        /\ \A s \in Runs : run'[s].status = IF s = r THEN end ELSE run[s].status
    BY DEF EndRun, RunEndedAs, RowsInv, RowsTyped, Statuses
  <1>4. session' = [state |-> IF end = "interrupted" THEN "interrupted" ELSE "idle",
                    active |-> NoRun, fresh |-> FALSE]
    BY <1>1 DEF EndRun, SessionAfter
  <1>5. RowsTyped'
    <2>1. item' \in [Runs -> {"none", "in_progress", "final"}]
      BY DEF EndRun, RowsInv, RowsTyped
    <2>2. session' \in [state : {"idle", "running", "interrupted"},
                        active : Runs \cup {NoRun}, fresh : BOOLEAN]
      BY <1>4
    <2>3. QED
      BY <1>3, <2>1, <2>2 DEF RowsTyped
  <1>6. RunningMeansActive'
    BY <1>4 DEF RunningMeansActive
  <1>7. SessionTracksOpenRun'
    <2>1. session'.state # "running" /\ (\A s \in Runs : run'[s].status \notin Open)
      BY <1>2, <1>3, <1>4 DEF Open, Ended
    <2>2. QED
      BY <2>1 DEF SessionTracksOpenRun
  <1>8. Turns!End(end)
    <2>1. [s \in Runs |-> run'[s].status]
            = [[s \in Runs |-> run[s].status] EXCEPT ![session.active] = end]
      BY <1>1, <1>3
    <2>2. QED
      BY <1>1, <1>4, <2>1 DEF Turns!End
  <1>9. QED
    BY <1>5, <1>6, <1>7, <1>8 DEF RowsInv, TurnStep, Turns!Next, Turns!Ended, Ended

\* Recovering a stale session interrupts its run, which is always still open.
LEMMA RecoveryTurns ==
  ASSUME RowsInv, SessionIsStale, RecoverStaleRun
  PROVE  RowsInv' /\ TurnStep
  <1>1. session.active \in Runs /\ run[session.active].status \in Open
    BY DEF RowsInv, RunningMeansActive, SessionTracksOpenRun, SessionIsStale
  <1>2. EndRun(session.active, "interrupted")
    BY <1>1 DEF RecoverStaleRun
  <1>3. QED
    BY <1>1, <1>2, EndRunTurns DEF Ended

\* Renewing or ageing a heartbeat, or asking for cancellation, keeps the type of
\* a run and its status.
LEMMA RunMarked ==
  ASSUME RowsTyped, NEW r \in Runs, NEW b \in BOOLEAN,
         \/ run' = [run EXCEPT ![r].fresh = b]
         \/ run' = [run EXCEPT ![r].cancel = b]
  PROVE  /\ run' \in [Runs -> [status : Statuses, claim : Nat, fresh : BOOLEAN,
                               cancel : BOOLEAN]]
         /\ \A s \in Runs : run'[s].status = run[s].status
  <1>1. run[r] \in [status : Statuses, claim : Nat, fresh : BOOLEAN, cancel : BOOLEAN]
    BY DEF RowsTyped
  <1>2. PICK mark : /\ run' = [run EXCEPT ![r] = mark]
                    /\ \/ mark = [run[r] EXCEPT !.fresh = b]
                       \/ mark = [run[r] EXCEPT !.cancel = b]
    OBVIOUS
  <1>3. /\ mark \in [status : Statuses, claim : Nat, fresh : BOOLEAN, cancel : BOOLEAN]
        /\ mark.status = run[r].status
    BY <1>1, <1>2
  <1>4. QED
    BY <1>2, <1>3 DEF RowsTyped

\* A change of the runs and the session that keeps every status and the active
\* run keeps the rows sound.
LEMMA MarkTurns ==
  ASSUME RowsInv, UNCHANGED item,
         run' \in [Runs -> [status : Statuses, claim : Nat, fresh : BOOLEAN,
                            cancel : BOOLEAN]],
         \A r \in Runs : run'[r].status = run[r].status,
         session' \in [state : {"idle", "running", "interrupted"},
                       active : Runs \cup {NoRun}, fresh : BOOLEAN],
         session'.state = session.state, session'.active = session.active
  PROVE  RowsInv' /\ TurnStep
  <1>1. [r \in Runs |-> run'[r].status] = [r \in Runs |-> run[r].status]
    OBVIOUS
  <1>2. TurnStep
    BY <1>1 DEF TurnStep, Turns!vars
  <1>3. QED
    BY <1>2 DEF RowsInv, RowsTyped, RunningMeansActive, SessionTracksOpenRun

-----------------------------------------------------------------------------
(* What each commit does to the rows *)

\* A prepared run takes the turn, of nobody or of the stale run.
LEMMA PrepareTurns ==
  ASSUME RowsInv, NEW c, NEW t, TxnSound(t), Prepare(c, t)
  PROVE  RowsInv' /\ TurnStep
  <1>1. t.run \in Runs /\ run[t.run].status = "none"
    BY DEF Prepare, Commits, TxnSound, OpsOfRun, Ops
  <1>2. \A s \in Runs : run[s].status \in Open <=> session.active = s
    BY NoRunAssumption DEF RowsInv, RunningMeansActive, SessionTracksOpenRun
  <1>3. /\ run' \in [Runs -> [status : Statuses, claim : Nat, fresh : BOOLEAN,
                              cancel : BOOLEAN]]
        /\ \A s \in Runs : run'[s].status =
             IF s = t.run THEN "queued"
             ELSE IF s = session.active THEN "interrupted" ELSE run[s].status
    BY <1>1, <1>2 DEF Prepare, RowsInv, RowsTyped, Statuses, Open, Ended
  <1>4. item' \in [Runs -> {"none", "in_progress", "final"}]
    BY DEF Prepare, RowsInv, RowsTyped
  <1>5. session' = [state |-> "running", active |-> t.run, fresh |-> TRUE]
    BY DEF Prepare
  <1>6. RowsTyped' /\ RunningMeansActive'
    BY <1>1, <1>3, <1>4, <1>5 DEF RowsTyped, RunningMeansActive
  <1>7. SessionTracksOpenRun'
    BY <1>1, <1>2, <1>3, <1>5 DEF SessionTracksOpenRun, Open
  <1>8. Turns!Take(t.run)
    BY <1>1, <1>3, <1>5 DEF Turns!Take
  <1>9. QED
    BY <1>1, <1>6, <1>7, <1>8 DEF RowsInv, TurnStep, Turns!Next

\* What API requests do to the rows.
LEMMA ClientCommitTurns ==
  ASSUME IInv, NEW c \in Clients, ClientCommit(c)
  PROVE  RowsInv' /\ TurnStep
  <1>r. RowsInv
    BY DEF IInv, TypeOK, RowsInv
  <1>t. PICK t \in Current(c, ClientTxns(c)) :
          \/ PrepareAgain(c, t) \/ Prepare(c, t) \/ DispatchFailed(c, t)
          \/ Read(c, t) \/ Interrupt(c, t) \/ Stop(c, t)
    BY DEF ClientCommit
  <1>s. TxnSound(t)
    BY ClientTxnSound
  <1>1. CASE PrepareAgain(c, t)
    BY <1>1, <1>r, RowsUntouched DEF PrepareAgain
  <1>2. CASE Prepare(c, t)
    BY <1>2, <1>r, <1>s, PrepareTurns
  <1>3. CASE DispatchFailed(c, t)
    <2>1. t.run \in Runs
      BY <1>3, <1>s DEF DispatchFailed, Commits, TxnSound, OpsOfRun, Ops
    <2>2. CASE run[t.run].status = "queued"
      BY <1>3, <1>r, <2>1, <2>2, EndRunTurns DEF DispatchFailed, Open, Ended
    <2>3. CASE run[t.run].status # "queued"
      BY <1>3, <1>r, <2>3, RowsUntouched DEF DispatchFailed
    <2>4. QED
      BY <2>2, <2>3
  <1>4. CASE Read(c, t)
    BY <1>4, <1>r, RecoveryTurns, RowsUntouched DEF Read
  <1>5. CASE Interrupt(c, t)
    <2>1. t.run \in Runs
      BY <1>5, <1>s DEF Interrupt, Commits, TxnSound, OpsOfRun, Ops
    <2>2. CASE run[t.run].status \in Open
      BY <1>5, <1>r, <2>1, <2>2, EndRunTurns DEF Interrupt, Ended
    <2>3. CASE run[t.run].status \notin Open
      BY <1>5, <1>r, <2>3, RowsUntouched DEF Interrupt
    <2>4. QED
      BY <2>2, <2>3
  <1>6. CASE Stop(c, t)
    <2>1. session.active \in Runs
      BY <1>6, <1>r DEF Stop, StopApplies, RowsInv, RunningMeansActive
    <2>2. CASE run[session.active].status = "queued" /\ EndRun(session.active, "cancelled")
      BY <1>r, <2>1, <2>2, EndRunTurns DEF Open, Ended
    <2>3. CASE /\ run' = [run EXCEPT ![session.active].cancel = TRUE]
               /\ UNCHANGED <<session, item>>
      <3>a. /\ run' \in [Runs -> [status : Statuses, claim : Nat, fresh : BOOLEAN,
                                  cancel : BOOLEAN]]
            /\ \A s \in Runs : run'[s].status = run[s].status
        BY <1>r, <2>1, <2>3, RunMarked DEF RowsInv
      <3>b. QED
        BY <1>r, <2>1, <2>3, <3>a, MarkTurns DEF RowsInv, RowsTyped
    <2>4. QED
      BY <1>6, <2>2, <2>3 DEF Stop
  <1>7. QED
    BY <1>t, <1>1, <1>2, <1>3, <1>4, <1>5, <1>6

\* A claim starts the run, or takes over a running one.
LEMMA ClaimTurns ==
  ASSUME RowsInv, NEW w, NEW t, TxnSound(t), Claim(w, t)
  PROVE  RowsInv' /\ TurnStep
  <1>1. t.run \in Runs
    BY DEF Claim, Commits, TxnSound, OpsOfRun, Ops
  <1>2. CASE ~Claimable(t.run)
    BY <1>2, RowsUntouched DEF Claim, db
  <1>3. CASE Claimable(t.run)
    <2>1. run[t.run].status \in Open /\ session.active = t.run
      BY <1>3 DEF Claimable, Open
    <2>2. session.state = "running" /\ t.run # NoRun
      BY <1>1, <2>1, OpenIsActive
    <2>3. session' = [state |-> "running", active |-> t.run, fresh |-> TRUE]
      BY <1>3 DEF Claim
    <2>4. /\ run' \in [Runs -> [status : Statuses, claim : Nat, fresh : BOOLEAN,
                                cancel : BOOLEAN]]
          /\ \A s \in Runs : run'[s].status =
               IF s = t.run THEN "running" ELSE run[s].status
      BY <1>1, <1>3 DEF Claim, NextToken, RowsInv, RowsTyped, Statuses, Open
    <2>5. RowsInv'
      <3>1. RowsTyped' /\ RunningMeansActive'
        BY <1>1, <2>3, <2>4 DEF Claim, RowsInv, RowsTyped, RunningMeansActive
      <3>2. SessionTracksOpenRun'
        BY <1>1, <2>1, <2>2, <2>3, <2>4 DEF RowsInv, SessionTracksOpenRun, Open
      <3>3. QED
        BY <3>1, <3>2 DEF RowsInv
    <2>6. [s \in Runs |-> run'[s].status]
            = [[s \in Runs |-> run[s].status] EXCEPT ![session.active] = "running"]
      BY <1>1, <2>1, <2>4
    <2>7. CASE run[t.run].status = "queued"
      <3>1. Turns!Start
        BY <1>1, <2>1, <2>2, <2>3, <2>6, <2>7 DEF Turns!Start
      <3>2. QED
        BY <2>5, <3>1 DEF TurnStep, Turns!Next
    <2>8. CASE run[t.run].status = "running"
      <3>1. [s \in Runs |-> run'[s].status] = [s \in Runs |-> run[s].status]
        BY <2>4, <2>8
      <3>2. QED
        BY <2>1, <2>3, <2>5, <3>1 DEF TurnStep, Turns!vars
    <2>9. QED
      BY <2>1, <2>7, <2>8 DEF Open
  <1>4. QED
    BY <1>2, <1>3

\* A heartbeat changes no status.
LEMMA HeartbeatTurns ==
  ASSUME RowsInv, NEW w, NEW p, NEW t, TxnSound(t), Heartbeat(w, p, t)
  PROVE  RowsInv' /\ TurnStep
  <1>1. t.run \in Runs
    BY DEF Heartbeat, Commits, TxnSound, OpsOfRun, Ops
  <1>2. CASE TokenHolds(t) /\ session.active = t.run
    <2>a. /\ run' \in [Runs -> [status : Statuses, claim : Nat, fresh : BOOLEAN,
                                cancel : BOOLEAN]]
          /\ \A s \in Runs : run'[s].status = run[s].status
      BY <1>1, <1>2, RunMarked DEF RowsInv, Heartbeat
    <2>b. session' = [session EXCEPT !.fresh = TRUE] /\ UNCHANGED item
      BY <1>2 DEF Heartbeat
    <2>c. session' \in [state : {"idle", "running", "interrupted"},
                        active : Runs \cup {NoRun}, fresh : BOOLEAN]
      BY <2>b DEF RowsInv, RowsTyped
    <2>d. session'.state = session.state /\ session'.active = session.active
      BY <2>b DEF RowsInv, RowsTyped
    <2>e. QED
      BY <2>a, <2>b, <2>c, <2>d, MarkTurns
  <1>3. CASE ~(TokenHolds(t) /\ session.active = t.run)
    BY <1>3, RowsUntouched DEF Heartbeat, db
  <1>4. QED
    BY <1>2, <1>3

\* Streaming touches no run and no session.
LEMMA StreamTurns ==
  ASSUME RowsInv, NEW w, NEW t, Stream(w, t)
  PROVE  RowsInv' /\ TurnStep
  <1>1. item' \in [Runs -> {"none", "in_progress", "final"}]
    BY DEF Stream, RowsInv, RowsTyped
  <1>2. QED
    BY <1>1 DEF Stream, RowsInv, RowsTyped, RunningMeansActive, SessionTracksOpenRun,
                TurnStep, Turns!vars

\* A terminal write ends the run it has claimed, or nothing.
LEMMA FinishTurns ==
  ASSUME IInv, NEW w \in Workers, NEW t \in Current(Main(w), TurnTxns(w)), Finish(w, t)
  PROVE  RowsInv' /\ TurnStep
  <1>r. RowsInv
    BY DEF IInv, TypeOK, RowsInv
  <1>1. t.run \in Runs /\ t.op = "finish"
    BY TurnTxnSound DEF Finish, Commits, TxnSound, OpsOfRun, Ops
  <1>2. CASE ClaimHolds(t)
    <2>1. worker[w].end \in Ended
      BY <1>1, TurnTxnSound DEF IInv, TurnsSound
    <2>2. run[t.run].status = "running"
      BY <1>2 DEF ClaimHolds, TokenHolds
    <2>3. EndRun(t.run, worker[w].end)
      BY <1>2 DEF Finish
    <2>4. QED
      BY <1>r, <1>1, <2>1, <2>2, <2>3, EndRunTurns DEF Open
  <1>3. CASE ~ClaimHolds(t)
    BY <1>r, <1>3, RowsUntouched DEF Finish
  <1>4. QED
    BY <1>2, <1>3

\* Every step keeps the rows sound and is a step of TurnTaking, or none.
LEMMA RowsKept ==
  ASSUME IInv, [Next]_vars
  PROVE  RowsInv' /\ TurnStep
  <1>r. RowsInv
    BY DEF IInv, TypeOK, RowsInv
  <1>1. ASSUME NEW c \in Clients, ClientStep(c) PROVE RowsInv' /\ TurnStep
    BY <1>1, <1>r, ClientCommitTurns, RowsUntouched DEF ClientStep, Dispatch
  <1>2. ASSUME NEW w \in Workers, WorkerStep(w) PROVE RowsInv' /\ TurnStep
    <2>1. CASE TurnCommit(w)
      BY <2>1, <1>r, TurnTxnSound, ClaimTurns, HeartbeatTurns, StreamTurns, FinishTurns
      DEF TurnCommit
    <2>2. CASE TimerCommit(w)
      BY <2>2, <1>r, TimerTxnSound, HeartbeatTurns DEF TimerCommit
    <2>3. CASE Deliver(w) \/ Deadline(w) \/ EndTurn(w) \/ Crash(w)
      BY <2>3, <1>r, RowsUntouched DEF Deliver, Deadline, EndTurn, Crash
    <2>4. QED
      BY <1>2, <2>1, <2>2, <2>3 DEF WorkerStep
  <1>3. ASSUME NEW p \in Procs, Lock(p) \/ Abort(p) PROVE RowsInv' /\ TurnStep
    <2>1. UNCHANGED db
      BY <1>3 DEF Lock, LockNext, Abort, db
    <2>2. QED
      BY <1>r, <2>1, RowsUntouched
  <1>4. CASE Age
    <2>1. CASE session' = [session EXCEPT !.fresh = FALSE] /\ UNCHANGED <<run, item>>
      BY <1>r, <2>1, MarkTurns DEF RowsInv, RowsTyped
    <2>2. ASSUME NEW r \in Runs, run' = [run EXCEPT ![r].fresh = FALSE],
                 UNCHANGED <<session, item>>
          PROVE  RowsInv' /\ TurnStep
      <3>a. /\ run' \in [Runs -> [status : Statuses, claim : Nat, fresh : BOOLEAN,
                                  cancel : BOOLEAN]]
            /\ \A s \in Runs : run'[s].status = run[s].status
        BY <1>r, <2>2, RunMarked DEF RowsInv
      <3>b. QED
        BY <1>r, <2>2, <3>a, MarkTurns DEF RowsInv, RowsTyped
    <2>3. QED
      BY <1>4, <2>1, <2>2 DEF Age
  <1>5. CASE UNCHANGED vars
    BY <1>5, <1>r, RowsUntouched DEF vars, db
  <1>6. QED
    BY <1>1, <1>2, <1>3, <1>4, <1>5 DEF Next

-----------------------------------------------------------------------------
(* What processes know *)

KnowledgeInv == KnowledgeTyped /\ TxnsSound /\ TurnsSound

\* A request moves on to another stage with its run.
LEMMA BecomesSound ==
  ASSUME KnowledgeInv, NEW c \in Clients, NEW r \in Runs \cup {NoRun},
         NEW stage \in {"idle", "dispatch", "undispatched", "respond", "detached"},
         stage # "idle" => r \in Runs,
         Becomes(c, stage, r)
  PROVE  /\ client' \in [Clients -> [stage : {"idle", "dispatch", "undispatched",
                                             "respond", "detached"},
                                    run : Runs \cup {NoRun}]]
         /\ \A d \in Clients : client'[d].stage # "idle" => client'[d].run \in Runs
  BY DEF KnowledgeInv, KnowledgeTyped, TurnsSound, Becomes

\* A step that leaves workers and turns' transactions alone, and moves requests
\* on as they may be, keeps what is known.
LEMMA ClientKeeps ==
  ASSUME KnowledgeInv, TxnsSound',
         client' \in [Clients -> [stage : {"idle", "dispatch", "undispatched",
                                          "respond", "detached"},
                                 run : Runs \cup {NoRun}]],
         \A c \in Clients : client'[c].stage # "idle" => client'[c].run \in Runs,
         \A w \in Workers : txn'[Main(w)] = txn[Main(w)],
         invoked' \subseteq Runs,
         UNCHANGED <<deliveries, worker>>
  PROVE  KnowledgeInv'
  BY DEF KnowledgeInv, KnowledgeTyped, TurnsSound, Active

\* A step of a worker keeps what is known if its own turn and transaction agree
\* afterwards.
LEMMA WorkerKeeps ==
  ASSUME KnowledgeInv, TxnsSound', NEW w \in Workers,
         NEW k \in [stage : {"off", "delivered"} \cup Turn, run : Runs \cup {NoRun},
                    token : Nat, reason : {"none", "stop", "deadline", "lost"},
                    end : {"none"} \cup Ended],
         worker' = [worker EXCEPT ![w] = k],
         k.stage # "off" => k.run \in Runs,
         k.stage = "ending" => k.end \in Ended,
         txn'[Main(w)].op # "none" => k.stage # "off",
         txn'[Main(w)].op = "finish" => /\ k.stage = "ending"
                                        /\ txn'[Main(w)].run = k.run
                                        /\ txn'[Main(w)].token = k.token,
         \A v \in Workers : v # w => txn'[Main(v)] = txn[Main(v)],
         deliveries' \in 0 .. MaxDeliveries,
         UNCHANGED <<invoked, client>>
  PROVE  KnowledgeInv'
  <1>1. KnowledgeTyped'
    BY DEF KnowledgeInv, KnowledgeTyped
  <1>2. worker'[w] = k /\ \A v \in Workers : v # w => worker'[v] = worker[v]
    BY DEF KnowledgeInv, KnowledgeTyped
  <1>3. TurnsSound'
    BY <1>2 DEF KnowledgeInv, TurnsSound, Active
  <1>4. QED
    BY <1>1, <1>3 DEF KnowledgeInv

\* API requests keep what is known.
LEMMA ClientKnows ==
  ASSUME IInv, RowsInv', NEW c \in Clients, ClientStep(c)
  PROVE  KnowledgeInv'
  <1>k. KnowledgeInv
    BY DEF IInv, TypeOK, KnowledgeInv
  <1>1. CASE Dispatch(c)
    <2>1. client[c].run \in Runs
      BY <1>1 DEF Dispatch, IInv, TurnsSound
    <2>2. PICK stage \in {"idle", "undispatched", "respond"}, r \in Runs \cup {NoRun} :
            (stage # "idle" => r \in Runs) /\ Becomes(c, stage, r)
      BY <1>1, <2>1 DEF Dispatch
    <2>3. invoked' \subseteq Runs
      BY <1>1, <1>k, <2>1 DEF Dispatch, KnowledgeInv, KnowledgeTyped
    <2>4. UNCHANGED <<deliveries, worker, txn>>
      BY <1>1 DEF Dispatch
    <2>5. TxnsSound'
      BY <1>k, <2>4 DEF KnowledgeInv, TxnsSound
    <2>6. QED
      BY <1>k, <2>2, <2>3, <2>4, <2>5, BecomesSound, ClientKeeps
  <1>2. CASE ClientCommit(c)
    <2>t. PICK t \in Current(c, ClientTxns(c)) :
            \/ PrepareAgain(c, t) \/ Prepare(c, t) \/ DispatchFailed(c, t)
            \/ Read(c, t) \/ Interrupt(c, t) \/ Stop(c, t)
      BY <1>2 DEF ClientCommit
    <2>s. TxnSound(t)
      BY ClientTxnSound
    <2>1. txn' = [txn EXCEPT ![c] = NoTxn] /\ UNCHANGED <<invoked, deliveries, worker>>
      BY <2>t DEF PrepareAgain, Prepare, DispatchFailed, Read, Interrupt, Stop, Commits
    <2>2. TxnsSound' /\ \A w \in Workers : txn'[Main(w)] = txn[Main(w)]
      BY <1>k, <2>1, CommitSound, ProcKinds DEF KnowledgeInv
    <2>3. invoked' \subseteq Runs
      BY <1>k, <2>1 DEF KnowledgeInv, KnowledgeTyped
    <2>4. CASE UNCHANGED client
      BY <1>k, <2>1, <2>2, <2>3, <2>4, ClientKeeps
         DEF KnowledgeInv, KnowledgeTyped, TurnsSound
    <2>5. ASSUME NEW stage \in {"idle", "dispatch", "respond", "detached"},
                 NEW r \in Runs \cup {NoRun}, stage # "idle" => r \in Runs,
                 Becomes(c, stage, r)
          PROVE  KnowledgeInv'
      BY <1>k, <2>1, <2>2, <2>3, <2>5, BecomesSound, ClientKeeps
    <2>6. CASE PrepareAgain(c, t) \/ Prepare(c, t)
      <3>1. t.run \in Runs
        BY <2>6, <2>s DEF PrepareAgain, Prepare, Commits, TxnSound, OpsOfRun, Ops
      <3>2. QED
        BY <2>5, <2>6, <3>1 DEF PrepareAgain, Prepare
    <2>7. CASE DispatchFailed(c, t) \/ Interrupt(c, t)
      BY <2>5, <2>7 DEF DispatchFailed, Interrupt
    <2>8. CASE Read(c, t)
      <3>1. session'.active \in Runs \cup {NoRun}
        BY DEF RowsInv, RowsTyped
      <3>2. CASE t.run = NoRun
        BY <2>4, <2>8, <3>2 DEF Read
      <3>3. CASE t.run # NoRun
        <4>1. t.run \in Runs
          BY <2>s, <3>3 DEF TxnSound
        <4>2. \/ Becomes(c, "idle", NoRun)
              \/ \E r \in Runs : Becomes(c, "detached", r)
          BY <2>8, <3>1, <3>3, <4>1 DEF Read
        <4>3. QED
          BY <2>5, <4>2
      <3>4. QED
        BY <3>2, <3>3
    <2>9. CASE Stop(c, t)
      BY <2>4, <2>9 DEF Stop
    <2>10. QED
      BY <2>t, <2>6, <2>7, <2>8, <2>9
  <1>3. QED
    BY <1>1, <1>2 DEF ClientStep

\* What a worker is to know after a step of its own.
KnowledgeOf(w, k) ==
  /\ k \in [stage : {"off", "delivered"} \cup Turn, run : Runs \cup {NoRun},
            token : Nat, reason : {"none", "stop", "deadline", "lost"},
            end : {"none"} \cup Ended]
  /\ worker' = [worker EXCEPT ![w] = k]
  /\ k.stage # "off" => k.run \in Runs
  /\ k.stage = "ending" => k.end \in Ended

\* Leaving a turn, or ending it with an outcome, is sound.
LEMMA TurnEnds ==
  ASSUME KnowledgeInv, NEW w \in Workers, worker[w].stage # "off",
         Leaves(w) \/ \E end \in Ended : Finishes(w, end)
  PROVE  \E k : KnowledgeOf(w, k)
  <1>0. /\ worker[w] \in [stage : {"off", "delivered"} \cup Turn, run : Runs \cup {NoRun},
                          token : Nat, reason : {"none", "stop", "deadline", "lost"},
                          end : {"none"} \cup Ended]
        /\ worker[w].run \in Runs
    BY DEF KnowledgeInv, KnowledgeTyped, TurnsSound
  <1>1. CASE Leaves(w)
    <2>1. KnowledgeOf(w, NoWorker)
      BY <1>1 DEF Leaves, NoWorker, KnowledgeOf
    <2>2. QED
      BY <2>1
  <1>2. ASSUME NEW end \in Ended, Finishes(w, end) PROVE \E k : KnowledgeOf(w, k)
    <2>1. PICK k : k = [worker[w] EXCEPT !.stage = "ending", !.end = end, !.reason = "none"]
      OBVIOUS
    <2>2. worker' = [worker EXCEPT ![w] = k]
      BY <1>2, <2>1 DEF Finishes
    <2>3. KnowledgeOf(w, k)
      BY <1>0, <2>1, <2>2 DEF KnowledgeOf, Turn
    <2>4. QED
      BY <2>3
  <1>3. QED
    BY <1>1, <1>2

\* A turn's commit leaves its worker with sound knowledge.
LEMMA TurnCommitKnows ==
  ASSUME IInv, NEW w \in Workers, NEW t \in Current(Main(w), TurnTxns(w)),
         worker[w].stage # "off",
         \/ Claim(w, t) \/ Heartbeat(w, Main(w), t) \/ Stream(w, t) \/ Finish(w, t)
  PROVE  \E k : KnowledgeOf(w, k)
  <1>k. KnowledgeInv
    BY DEF IInv, TypeOK, KnowledgeInv
  <1>0. /\ worker[w] \in [stage : {"off", "delivered"} \cup Turn, run : Runs \cup {NoRun},
                          token : Nat, reason : {"none", "stop", "deadline", "lost"},
                          end : {"none"} \cup Ended]
        /\ worker[w].run \in Runs
        /\ worker[w].stage = "ending" => worker[w].end \in Ended
    BY <1>k DEF KnowledgeInv, KnowledgeTyped, TurnsSound
  <1>1. CASE Leaves(w) \/ \E end \in Ended : Finishes(w, end)
    BY <1>k, <1>1, TurnEnds
  <1>2. CASE UNCHANGED worker
    <2>1. KnowledgeOf(w, worker[w])
      BY <1>0, <1>2, <1>k DEF KnowledgeOf, KnowledgeInv, KnowledgeTyped
    <2>2. QED
      BY <2>1
  <1>3. ASSUME NEW token \in Nat,
               worker' = [worker EXCEPT ![w].stage = "starting", ![w].token = token]
        PROVE  \E k : KnowledgeOf(w, k)
    <2>1. PICK k : k = [worker[w] EXCEPT !.stage = "starting", !.token = token]
      OBVIOUS
    <2>2. worker' = [worker EXCEPT ![w] = k]
      BY <1>3, <2>1
    <2>3. KnowledgeOf(w, k)
      BY <1>0, <2>1, <2>2 DEF KnowledgeOf, Turn
    <2>4. QED
      BY <2>3
  <1>4. CASE worker' = [worker EXCEPT ![w].stage = "model"]
    <2>1. PICK k : k = [worker[w] EXCEPT !.stage = "model"]
      OBVIOUS
    <2>2. worker' = [worker EXCEPT ![w] = k]
      BY <1>4, <2>1
    <2>3. KnowledgeOf(w, k)
      BY <1>0, <2>1, <2>2 DEF KnowledgeOf, Turn
    <2>4. QED
      BY <2>3
  <1>5. CASE Claim(w, t)
    <2>1. t.run \in Runs
      BY <1>5, TurnTxnSound DEF Claim, Commits, TxnSound, OpsOfRun, Ops
    <2>2. NextToken(t.run) \in Nat
      BY <2>1 DEF NextToken, IInv, TypeOK, RowsTyped
    <2>3. QED
      BY <1>1, <1>3, <1>5, <2>2 DEF Claim
  <1>6. CASE Heartbeat(w, Main(w), t)
    BY <1>1, <1>4, <1>6, ProcKinds DEF Heartbeat, Ended
  <1>7. CASE Stream(w, t)
    BY <1>2, <1>7 DEF Stream
  <1>8. CASE Finish(w, t)
    BY <1>1, <1>8 DEF Finish
  <1>9. QED
    BY <1>5, <1>6, <1>7, <1>8

\* Workers keep what is known.
LEMMA WorkerKnows ==
  ASSUME IInv, NEW w \in Workers, WorkerStep(w)
  PROVE  KnowledgeInv'
  <1>k. KnowledgeInv
    BY DEF IInv, TypeOK, KnowledgeInv
  <1>0. worker[w] \in [stage : {"off", "delivered"} \cup Turn, run : Runs \cup {NoRun},
                       token : Nat, reason : {"none", "stop", "deadline", "lost"},
                       end : {"none"} \cup Ended]
    BY <1>k DEF KnowledgeInv, KnowledgeTyped
  <1>a. ASSUME NEW k, KnowledgeOf(w, k), TxnsSound',
               txn'[Main(w)].op # "finish",
               txn'[Main(w)].op # "none" => k.stage # "off",
               \A v \in Workers : v # w => txn'[Main(v)] = txn[Main(v)],
               deliveries' \in 0 .. MaxDeliveries,
               UNCHANGED <<invoked, client>>
        PROVE  KnowledgeInv'
    BY <1>a, <1>k, WorkerKeeps DEF KnowledgeOf
  <1>b. deliveries \in 0 .. MaxDeliveries
    BY <1>k DEF KnowledgeInv, KnowledgeTyped
  <1>1. CASE Deliver(w)
    <2>1. PICK r \in Runs :
            worker' = [worker EXCEPT ![w].stage = "delivered", ![w].run = r]
      BY <1>1, <1>k DEF Deliver, KnowledgeInv, KnowledgeTyped
    <2>2. PICK k : k = [worker[w] EXCEPT !.stage = "delivered", !.run = r]
      OBVIOUS
    <2>3. worker' = [worker EXCEPT ![w] = k]
      BY <2>1, <2>2
    <2>4. KnowledgeOf(w, k)
      BY <1>0, <2>2, <2>3 DEF KnowledgeOf
    <2>5. TxnsSound' /\ UNCHANGED <<txn, invoked, client>>
      BY <1>1, <1>k DEF Deliver, KnowledgeInv, TxnsSound
    <2>6. worker[w].stage = "off" /\ deliveries' \in 0 .. MaxDeliveries
      BY <1>1, <1>b, DeliveryAssumption DEF Deliver
    <2>7. txn'[Main(w)].op = "none"
      BY <1>k, <2>5, <2>6 DEF KnowledgeInv, TurnsSound, Active
    <2>8. QED
      BY <1>a, <2>4, <2>5, <2>6, <2>7
  <1>2. CASE Deadline(w)
    <2>1. PICK k : k = [worker[w] EXCEPT !.reason = "deadline"]
      OBVIOUS
    <2>2. worker' = [worker EXCEPT ![w] = k] /\ worker[w].stage = "model"
      BY <1>2, <2>1 DEF Deadline
    <2>3. KnowledgeOf(w, k)
      BY <1>0, <1>k, <2>1, <2>2 DEF KnowledgeOf, KnowledgeInv, TurnsSound
    <2>4. TxnsSound' /\ UNCHANGED <<txn, invoked, client, deliveries>>
      BY <1>2, <1>k DEF Deadline, KnowledgeInv, TxnsSound
    <2>5. txn'[Main(w)].op # "finish" /\ k.stage # "off"
      BY <1>k, <1>0, <2>1, <2>2, <2>4 DEF KnowledgeInv, TurnsSound
    <2>6. QED
      BY <1>a, <1>b, <2>3, <2>4, <2>5
  <1>3. CASE EndTurn(w)
    <2>1. worker[w].stage = "model" /\ (Leaves(w) \/ \E end \in Ended : Finishes(w, end))
      BY <1>3 DEF EndTurn, Ended
    <2>2. PICK k : KnowledgeOf(w, k)
      BY <1>k, <2>1, TurnEnds
    <2>3. TxnsSound' /\ UNCHANGED <<txn, invoked, client, deliveries>>
      BY <1>3, <1>k DEF EndTurn, KnowledgeInv, TxnsSound
    <2>4. txn'[Main(w)].op = "none"
      BY <1>3, <2>3 DEF EndTurn, Active
    <2>5. QED
      BY <1>a, <1>b, <2>2, <2>3, <2>4
  <1>4. CASE Crash(w)
    <2>1. PICK k : KnowledgeOf(w, k)
      BY <1>4, <1>k, TurnEnds DEF Crash
    <2>2. txn' = [txn EXCEPT ![Main(w)] = NoTxn, ![Heart(w)] = NoTxn]
      BY <1>4 DEF Crash
    <2>3. TxnsSound'
      BY <1>k, <2>2, ProcKinds
         DEF KnowledgeInv, TxnsSound, TxnSound, NoTxn, Ops, OpsOfRun
    <2>4. txn'[Main(w)].op = "none"
      BY <1>k, <2>2, ProcKinds DEF KnowledgeInv, TxnsSound, NoTxn
    <2>5. \A v \in Workers : v # w => txn'[Main(v)] = txn[Main(v)]
      BY <1>k, <2>2, ProcKinds DEF KnowledgeInv, TxnsSound
    <2>6. UNCHANGED <<invoked, client, deliveries>>
      BY <1>4 DEF Crash
    <2>7. QED
      BY <1>a, <1>b, <2>1, <2>3, <2>4, <2>5, <2>6
  <1>5. CASE TurnCommit(w)
    <2>t. PICK t \in Current(Main(w), TurnTxns(w)) :
            Claim(w, t) \/ Heartbeat(w, Main(w), t) \/ Stream(w, t) \/ Finish(w, t)
      BY <1>5 DEF TurnCommit
    <2>0. worker[w].stage # "off"
      BY <1>k, <2>t DEF Current, TurnTxns, KnowledgeInv, TurnsSound
    <2>1. PICK k : KnowledgeOf(w, k)
      BY <2>t, <2>0, TurnCommitKnows
    <2>2. txn' = [txn EXCEPT ![Main(w)] = NoTxn] /\ UNCHANGED <<invoked, client, deliveries>>
      BY <2>t DEF Claim, Heartbeat, Stream, Finish, Commits
    <2>3. /\ TxnsSound' /\ txn'[Main(w)].op = "none"
          /\ \A v \in Workers : v # w => txn'[Main(v)] = txn[Main(v)]
      BY <1>k, <2>2, CommitSound, ProcKinds DEF KnowledgeInv
    <2>4. QED
      BY <1>a, <1>b, <2>1, <2>2, <2>3
  <1>6. CASE TimerCommit(w)
    <2>t. PICK t : Heartbeat(w, Heart(w), t)
      BY <1>6 DEF TimerCommit
    <2>2. txn' = [txn EXCEPT ![Heart(w)] = NoTxn] /\ UNCHANGED <<invoked, client, deliveries>>
      BY <2>t DEF Heartbeat, Commits
    <2>3. TxnsSound' /\ \A v \in Workers : txn'[Main(v)] = txn[Main(v)]
      BY <1>k, <2>2, CommitSound, ProcKinds DEF KnowledgeInv
    <2>4. CASE UNCHANGED worker
      BY <1>k, <2>2, <2>3, <2>4 DEF KnowledgeInv, KnowledgeTyped, TurnsSound, Active
    <2>5. ASSUME NEW found \in {"none", "stop", "lost"}, Executes(w, t),
                 worker' = [worker EXCEPT ![w].reason = ReasonAfter(@, found)]
          PROVE  KnowledgeInv'
      <3>1. PICK k : k = [worker[w] EXCEPT !.reason = ReasonAfter(@, found)]
        OBVIOUS
      <3>2. worker' = [worker EXCEPT ![w] = k]
        BY <2>5, <3>1
      <3>3. ReasonAfter(worker[w].reason, found) \in {"none", "stop", "deadline", "lost"}
        BY <1>0 DEF ReasonAfter
      <3>4. KnowledgeOf(w, k)
        BY <1>0, <1>k, <2>5, <3>1, <3>2, <3>3
           DEF KnowledgeOf, Executes, KnowledgeInv, TurnsSound
      <3>5. txn'[Main(w)].op # "finish" /\ k.stage # "off"
        BY <1>0, <1>k, <2>3, <2>5, <3>1 DEF KnowledgeInv, TurnsSound, Executes
      <3>6. QED
        BY <1>a, <1>b, <2>2, <2>3, <3>4, <3>5
    <2>6. QED
      BY <2>t, <2>4, <2>5, ProcKinds DEF Heartbeat
  <1>7. QED
    BY <1>1, <1>2, <1>3, <1>4, <1>5, <1>6 DEF WorkerStep

\* A transaction that locks one more row stays well formed.
LEMMA LockNextSound ==
  ASSUME TxnsSound, NEW p \in Procs, NEW startable, LockNext(p, startable)
  PROVE  \E t \in Current(p, startable) :
           /\ TxnSound(t) => TxnsSound'
           /\ TxnSound(t) => /\ txn'[p].op = t.op
                             /\ txn'[p].run = t.run
                             /\ txn'[p].token = t.token
           /\ \A q \in Procs : q # p => txn'[q] = txn[q]
  <1>1. PICK t \in Current(p, startable) :
          txn' = [txn EXCEPT ![p] = [t EXCEPT !.held = @ \cup {NextRow(t)}]]
    BY DEF LockNext
  <1>2. \A q \in Procs : q # p => txn'[q] = txn[q]
    BY <1>1 DEF TxnsSound
  <1>3. ASSUME TxnSound(t)
        PROVE  TxnsSound' /\ txn'[p].op = t.op /\ txn'[p].run = t.run /\ txn'[p].token = t.token
    <2>1. PICK u : u = [t EXCEPT !.held = @ \cup {NextRow(t)}]
      OBVIOUS
    <2>2. u.op = t.op /\ u.run = t.run /\ u.token = t.token /\ TxnSound(u)
      BY <1>3, <2>1 DEF TxnSound
    <2>3. txn' = [txn EXCEPT ![p] = u]
      BY <1>1, <2>1
    <2>4. QED
      BY <2>2, <2>3 DEF TxnsSound
  <1>4. QED
    BY <1>2, <1>3

\* Locking a row keeps what is known.
LEMMA LockKnows ==
  ASSUME IInv, NEW p \in Procs, Lock(p)
  PROVE  KnowledgeInv'
  <1>k. KnowledgeInv
    BY DEF IInv, TypeOK, KnowledgeInv
  <1>u. UNCHANGED <<invoked, deliveries, worker, client>>
    BY DEF Lock, LockNext
  <1>a. ASSUME TxnsSound', \A w \in Workers : txn'[Main(w)] = txn[Main(w)]
        PROVE  KnowledgeInv'
    BY <1>a, <1>k, <1>u DEF KnowledgeInv, KnowledgeTyped, TurnsSound, Active
  <1>1. CASE p \in Clients /\ LockNext(p, ClientTxns(p))
    BY <1>1, <1>k, <1>a, LockNextSound, ClientTxnSound, ProcKinds DEF KnowledgeInv
  <1>2. ASSUME NEW w \in Workers, p = Heart(w), LockNext(p, TimerTxns(w))
        PROVE  KnowledgeInv'
    BY <1>2, <1>k, <1>a, LockNextSound, TimerTxnSound, ProcKinds DEF KnowledgeInv
  <1>3. ASSUME NEW w \in Workers, p = Main(w), LockNext(p, TurnTxns(w))
        PROVE  KnowledgeInv'
    <2>1. PICK t \in Current(Main(w), TurnTxns(w)) :
            /\ TxnSound(t) => TxnsSound'
            /\ TxnSound(t) => /\ txn'[Main(w)].op = t.op
                              /\ txn'[Main(w)].run = t.run
                              /\ txn'[Main(w)].token = t.token
            /\ \A q \in Procs : q # Main(w) => txn'[q] = txn[q]
      BY <1>3, <1>k, LockNextSound DEF KnowledgeInv
    <2>2. /\ TxnSound(t)
          /\ t.op = "finish" => /\ worker[w].stage = "ending"
                                /\ worker[w].run = t.run
                                /\ worker[w].token = t.token
      BY TurnTxnSound
    <2>3. worker[w].stage # "off"
      BY <1>k, <2>1 DEF Current, TurnTxns, KnowledgeInv, TurnsSound
    <2>4. \A v \in Workers : v # w => txn'[Main(v)] = txn[Main(v)]
      BY <2>1, ProcKinds
    <2>5. TurnsSound'
      BY <1>k, <1>u, <2>1, <2>2, <2>3, <2>4 DEF KnowledgeInv, TurnsSound, Active
    <2>6. QED
      BY <1>k, <1>u, <2>1, <2>2, <2>5 DEF KnowledgeInv, KnowledgeTyped
  <1>4. QED
    BY <1>1, <1>2, <1>3 DEF Lock

\* An aborted transaction keeps what is known.
LEMMA AbortKnows ==
  ASSUME IInv, NEW p \in Procs, Abort(p)
  PROVE  KnowledgeInv'
  <1>k. KnowledgeInv
    BY DEF IInv, TypeOK, KnowledgeInv
  <1>1. /\ txn' = [txn EXCEPT ![p] = NoTxn]
        /\ UNCHANGED <<invoked, deliveries>>
    BY DEF Abort
  <1>2. /\ TxnsSound'
        /\ \A q \in Procs : q # p => txn'[q] = txn[q]
        /\ txn'[p].op = "none"
    BY <1>k, <1>1, CommitSound DEF KnowledgeInv
  <1>b. invoked' \subseteq Runs /\ deliveries' \in 0 .. MaxDeliveries
    BY <1>k, <1>1 DEF KnowledgeInv, KnowledgeTyped
  <1>3. CASE p \in Clients /\ Becomes(p, "idle", NoRun) /\ UNCHANGED worker
    <2>1. \A w \in Workers : txn'[Main(w)] = txn[Main(w)]
      BY <1>2, <1>3, ProcKinds
    <2>2. QED
      BY <1>k, <1>1, <1>2, <1>3, <1>b, <2>1, BecomesSound, ClientKeeps
  <1>4. CASE \E w \in Workers : p = Heart(w) /\ UNCHANGED <<client, worker>>
    <2>1. \A w \in Workers : txn'[Main(w)] = txn[Main(w)]
      BY <1>2, <1>4, ProcKinds
    <2>2. QED
      BY <1>k, <1>1, <1>2, <1>4, <1>b, <2>1
         DEF KnowledgeInv, KnowledgeTyped, TurnsSound, Active
  <1>5. ASSUME NEW w \in Workers, p = Main(w), Leaves(w) \/ Finishes(w, "failed"),
               UNCHANGED client
        PROVE  KnowledgeInv'
    <2>1. worker[w].stage # "off"
      <3>1. Active(p)
        BY DEF Abort, Cycles, Waiting, Blockers
      <3>2. QED
        BY <1>5, <1>k, <3>1 DEF KnowledgeInv, TurnsSound
    <2>2. PICK k : KnowledgeOf(w, k)
      BY <1>5, <1>k, <2>1, TurnEnds DEF Ended
    <2>3. \A v \in Workers : v # w => txn'[Main(v)] = txn[Main(v)]
      BY <1>2, <1>5, ProcKinds
    <2>4. QED
      BY <1>k, <1>1, <1>2, <1>5, <1>b, <2>2, <2>3, WorkerKeeps DEF KnowledgeOf
  <1>6. QED
    BY <1>3, <1>4, <1>5 DEF Abort

-----------------------------------------------------------------------------
(* The theorems *)

\* A heartbeat completes and fails nothing.
LEMMA HeartbeatMarks ==
  ASSUME IInv, NEW w, NEW p, NEW t, TxnSound(t), Heartbeat(w, p, t)
  PROVE  \A r \in Runs :
           ~(run[r].status \in Open /\ run'[r].status \in {"completed", "failed"})
  <1>1. t.run \in Runs
    BY DEF Heartbeat, Commits, TxnSound, OpsOfRun, Ops
  <1>2. CASE run' = [run EXCEPT ![t.run].fresh = TRUE]
    <2>1. \A s \in Runs : run'[s].status = run[s].status
      BY <1>1, <1>2, RunMarked DEF IInv, TypeOK
    <2>2. QED
      BY <2>1 DEF Open
  <1>3. CASE UNCHANGED run
    BY <1>3 DEF Open
  <1>4. QED
    BY <1>2, <1>3 DEF Heartbeat

\* IInv holds initially.
LEMMA InitSound == Init => IInv
  <1> SUFFICES ASSUME Init PROVE IInv
    OBVIOUS
  <1>1. RowsTyped
    BY DEF Init, RowsTyped, Statuses
  <1>2. KnowledgeTyped
    BY DeliveryAssumption DEF Init, KnowledgeTyped, NoWorker, NoClient
  <1>3. TxnsSound
    BY DEF Init, TxnsSound, TxnSound, NoTxn, Ops, OpsOfRun
  <1>4. TurnsSound
    BY ProcKinds DEF Init, TurnsSound, NoWorker, NoClient, NoTxn, Active
  <1>5. RunningMeansActive /\ SessionTracksOpenRun
    BY DEF Init, RunningMeansActive, SessionTracksOpenRun, Open
  <1>6. QED
    BY <1>1, <1>2, <1>3, <1>4, <1>5 DEF IInv, TypeOK

\* Every step keeps IInv.
LEMMA StepSound == IInv /\ [Next]_vars => IInv'
  <1> SUFFICES ASSUME IInv, [Next]_vars PROVE IInv'
    OBVIOUS
  <1>k. KnowledgeInv
    BY DEF IInv, TypeOK, KnowledgeInv
  <1>r. RowsInv'
    BY RowsKept
  <1>1. ASSUME NEW c \in Clients, ClientStep(c) PROVE KnowledgeInv'
    BY <1>1, <1>r, ClientKnows
  <1>2. ASSUME NEW w \in Workers, WorkerStep(w) PROVE KnowledgeInv'
    BY <1>2, WorkerKnows
  <1>3. ASSUME NEW p \in Procs, Lock(p) \/ Abort(p) PROVE KnowledgeInv'
    BY <1>3, LockKnows, AbortKnows
  <1>4. ASSUME Age \/ UNCHANGED vars PROVE KnowledgeInv'
    BY <1>4, <1>k DEF Age, vars, KnowledgeInv, KnowledgeTyped, TxnsSound, TurnsSound, Active
  <1>5. QED
    BY <1>r, <1>1, <1>2, <1>3, <1>4 DEF Next, RowsInv, KnowledgeInv, IInv, TypeOK

\* IInv is an invariant, with any number of runs, workers, requests and
\* deliveries.
THEOREM ChatRunsInductive == Spec => []IInv
  BY InitSound, StepSound, PTL DEF Spec

\* The rows and what processes know of them have their types.
THEOREM ChatRunsTypes == Spec => []TypeOK
  <1>1. IInv => TypeOK
    BY DEF IInv
  <1>2. QED
    BY <1>1, ChatRunsInductive, PTL

\* The session is running exactly while one run is open, and points to it, with
\* any number of workers and requests (prepareChatRun, claimChatRun,
\* recoverStaleRun and the terminal writes, in any order).
THEOREM SessionAlwaysTracksOpenRun == Spec => []SessionTracksOpenRun
  <1>1. IInv => SessionTracksOpenRun
    BY DEF IInv
  <1>2. QED
    BY <1>1, ChatRunsInductive, PTL

\* The runs of a session take turns: ChatRuns implements TurnTaking.
THEOREM ChatRunsImplementTurns == Spec => ImplementsTurns
  <1>1. Init => Turns!Init
    BY DEF Init, Turns!Init
  <1>2. IInv /\ [Next]_vars => [Turns!Next]_Turns!vars
    BY RowsKept DEF TurnStep
  <1>3. QED
    BY <1>1, <1>2, ChatRunsInductive, PTL DEF Spec, ImplementsTurns, Turns!Spec

\* A worker that stores an outcome of the model holds the latest claim of the
\* run (assertClaimedRunStillActive), however slow it or another worker is.
THEOREM OnlyTheLastClaimantAnswers == Spec => OnlyLastClaimantAnswers
  <1> DEFINE Answered == \A r \in Runs :
        run[r].status \in Open /\ run'[r].status \in {"completed", "failed"} =>
          \E w \in Workers :
            /\ worker[w].stage = "ending" /\ worker[w].end = run'[r].status
            /\ worker[w].run = r /\ worker[w].token = run[r].claim
  <1>a. ASSUME IInv, NEW r \in Runs, run[r].status \in Open, NEW s \in Runs, NEW end,
               end \notin {"completed", "failed"}, run' = RunEndedAs(s, end)
        PROVE  run'[r].status \notin {"completed", "failed"}
    BY <1>a DEF IInv, TypeOK, RowsTyped, RunEndedAs, Open
  <1>b. ASSUME IInv, run' = run PROVE Answered
    BY <1>b DEF Open
  <1>1. ASSUME IInv, [Next]_vars PROVE Answered
    <2>1. ASSUME NEW c \in Clients, ClientCommit(c) PROVE Answered
      <3>t. PICK t \in Current(c, ClientTxns(c)) :
              \/ PrepareAgain(c, t) \/ Prepare(c, t) \/ DispatchFailed(c, t)
              \/ Read(c, t) \/ Interrupt(c, t) \/ Stop(c, t)
        BY <2>1 DEF ClientCommit
      <3>s. TxnSound(t)
        BY <1>1, ClientTxnSound
      <3>a. session.active \in Runs \cup {NoRun} /\ (session.state = "running" => session.active \in Runs)
        BY <1>1 DEF IInv, TypeOK, RowsTyped, RunningMeansActive
      <3>1. CASE UNCHANGED run
        BY <1>1, <1>b, <3>1
      <3>2. ASSUME NEW s \in Runs, NEW end \in {"interrupted", "cancelled"},
                   run' = RunEndedAs(s, end)
            PROVE  Answered
        BY <1>1, <1>a, <3>2
      <3>3. CASE PrepareAgain(c, t)
        BY <3>1, <3>3 DEF PrepareAgain, db
      <3>4. CASE Prepare(c, t)
        BY <3>4 DEF Prepare, Open
      <3>5. CASE DispatchFailed(c, t) \/ Interrupt(c, t)
        <4>1. t.run \in Runs
          BY <3>5, <3>s DEF DispatchFailed, Interrupt, Commits, TxnSound, OpsOfRun, Ops
        <4>2. QED
          BY <3>1, <3>2, <3>5, <4>1 DEF DispatchFailed, Interrupt, EndRun, db
      <3>6. CASE Read(c, t)
        BY <3>a, <3>1, <3>2, <3>6 DEF Read, SessionIsStale, RecoverStaleRun, EndRun, db
      <3>7. CASE Stop(c, t)
        <4>1. session.active \in Runs
          BY <3>a, <3>7 DEF Stop, StopApplies
        <4>2. CASE EndRun(session.active, "cancelled")
          BY <3>2, <4>1, <4>2 DEF EndRun
        <4>3. CASE run' = [run EXCEPT ![session.active].cancel = TRUE]
          <5>1. \A s \in Runs : run'[s].status = run[s].status
            BY <1>1, <4>1, <4>3, RunMarked DEF IInv, TypeOK
          <5>2. QED
            BY <5>1 DEF Open
        <4>4. QED
          BY <3>7, <4>2, <4>3 DEF Stop
      <3>8. QED
        BY <3>t, <3>3, <3>4, <3>5, <3>6, <3>7
    <2>2. ASSUME NEW w \in Workers, TurnCommit(w) PROVE Answered
      <3>t. PICK t \in Current(Main(w), TurnTxns(w)) :
              Claim(w, t) \/ Heartbeat(w, Main(w), t) \/ Stream(w, t) \/ Finish(w, t)
        BY <2>2 DEF TurnCommit
      <3>s. TxnSound(t)
        BY <1>1, TurnTxnSound
      <3>1. CASE Claim(w, t)
        <4>1. t.run \in Runs
          BY <3>1, <3>s DEF Claim, Commits, TxnSound, OpsOfRun, Ops
        <4>2. QED
          BY <1>1, <3>1, <4>1 DEF Claim, IInv, TypeOK, RowsTyped, Open
      <3>2. CASE Heartbeat(w, Main(w), t)
        BY <1>1, <3>2, <3>s, HeartbeatMarks
      <3>3. CASE Stream(w, t)
        BY <3>3 DEF Stream, Open
      <3>4. CASE Finish(w, t)
        <4>1. /\ t.run \in Runs /\ worker[w].stage = "ending"
              /\ worker[w].run = t.run /\ worker[w].token = t.token
          BY <1>1, <3>4, TurnTxnSound DEF Finish, Commits, TxnSound, OpsOfRun, Ops
        <4>2. CASE ClaimHolds(t)
          <5>1. run[t.run].claim = worker[w].token
            BY <4>1, <4>2 DEF ClaimHolds, TokenHolds
          <5>2. \A r \in Runs : run'[r].status = IF r = t.run THEN worker[w].end ELSE run[r].status
            BY <1>1, <3>4, <4>1, <4>2 DEF Finish, EndRun, RunEndedAs, IInv, TypeOK, RowsTyped
          <5>3. QED
            BY <4>1, <5>1, <5>2 DEF Open
        <4>3. CASE ~ClaimHolds(t)
          BY <3>4, <4>3 DEF Finish, db, Open
        <4>4. QED
          BY <4>2, <4>3
      <3>5. QED
        BY <3>t, <3>1, <3>2, <3>3, <3>4
    <2>3. ASSUME NEW w \in Workers, TimerCommit(w) PROVE Answered
      BY <1>1, <2>3, TimerTxnSound, HeartbeatMarks DEF TimerCommit
    <2>4. CASE Age
      <3>1. CASE UNCHANGED run
        BY <1>1, <1>b, <3>1
      <3>2. ASSUME NEW r \in Runs, run' = [run EXCEPT ![r].fresh = FALSE] PROVE Answered
        <4>1. \A s \in Runs : run'[s].status = run[s].status
          BY <1>1, <3>2, RunMarked DEF IInv, TypeOK
        <4>2. QED
          BY <4>1 DEF Open
      <3>3. QED
        BY <2>4, <3>1, <3>2 DEF Age
    <2>5. CASE UNCHANGED run
      BY <1>1, <1>b, <2>5
    <2>6. QED
      BY <1>1, <2>1, <2>2, <2>3, <2>4, <2>5
      DEF Next, ClientStep, WorkerStep, Dispatch, Deliver, Deadline, EndTurn, Crash, Lock,
          LockNext, Abort, vars, db
  <1>2. IInv /\ [Next]_vars => [Answered]_vars
    BY <1>1
  <1>3. QED
    BY <1>2, ChatRunsInductive, PTL DEF Spec, OnlyLastClaimantAnswers
=============================================================================
