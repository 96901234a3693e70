---------------------------- MODULE ChatLocksProofs ----------------------------
(***************************************************************************)
(* Proofs about the row locks of ChatRuns: what a transaction has checked  *)
(* still stands when it commits, and which circles of waiters there are.   *)
(* A process writes only rows that it has locked; so a step of one process *)
(* never touches what another one holds.                                   *)
(***************************************************************************)
EXTENDS ChatClaimsProofs, FiniteSetTheorems

SessionFirst == {"prepare", "recover", "stop"}
RunFirst == {"dispatchFailed", "interrupt", "claim", "heartbeat", "finish"}

-----------------------------------------------------------------------------
(* Rows and their order *)

\* Different rows have different names.
LEMMA RowNames ==
  \A r, s :
    /\ SessionRow # RunRow(r) /\ SessionRow # ItemRow(r) /\ RunRow(r) # ItemRow(s)
    /\ RunRow(r) = RunRow(s) => r = s
    /\ ItemRow(r) = ItemRow(s) => r = s
  BY DEF SessionRow, RunRow, ItemRow

\* How many rows are held when they are named one by one.
LEMMA Sizes ==
  ASSUME NEW a, NEW b, a # b
  PROVE  Cardinality({}) = 0 /\ Cardinality({a}) = 1 /\ Cardinality({a, b}) = 2
  <1>1. Cardinality({}) = 0 /\ IsFiniteSet({})
    BY FS_EmptySet
  <1>2. Cardinality({a}) = 1 /\ IsFiniteSet({a})
    BY FS_Singleton
  <1>3. Cardinality({a} \cup {b}) = 2
    BY <1>2, FS_AddElement
  <1>4. {a} \cup {b} = {a, b}
    OBVIOUS
  <1>5. QED
    BY <1>1, <1>2, <1>3, <1>4

\* The next row of a transaction by the rows it holds.
LEMMA AfterRows ==
  ASSUME NEW t, NEW a, NEW b, a # b
  PROVE  /\ t.held = {} =>
              NextRow(t) = Rows(t)[1] /\ (IsLast(t) <=> Len(Rows(t)) = 1)
         /\ t.held = {a} =>
              NextRow(t) = Rows(t)[2] /\ (IsLast(t) <=> Len(Rows(t)) = 2)
         /\ t.held = {a, b} =>
              NextRow(t) = Rows(t)[3] /\ (IsLast(t) <=> Len(Rows(t)) = 3)
  <1> DEFINE n == Cardinality(t.held)
  <1>1. n = 0 => NextRow(t) = Rows(t)[1] /\ (IsLast(t) <=> Len(Rows(t)) = 1)
    BY DEF NextRow, IsLast
  <1>2. n = 1 => NextRow(t) = Rows(t)[2] /\ (IsLast(t) <=> Len(Rows(t)) = 2)
    BY DEF NextRow, IsLast
  <1>3. n = 2 => NextRow(t) = Rows(t)[3] /\ (IsLast(t) <=> Len(Rows(t)) = 3)
    BY DEF NextRow, IsLast
  <1>4. Cardinality({}) = 0 /\ Cardinality({a}) = 1 /\ Cardinality({a, b}) = 2
    BY Sizes
  <1>5. (t.held = {} => n = 0) /\ (t.held = {a} => n = 1) /\ (t.held = {a, b} => n = 2)
    BY <1>4
  <1>6. QED
    BY <1>1, <1>2, <1>3, <1>5

\* prepareChatRun, recoverStaleRun and requestChatRunCancellation: the session,
\* the active run, its item.
LEMMA SessionFirstOrder ==
  ASSUME IInv, NEW t, TxnSound(t), HeldSound(t), t.op \in SessionFirst
  PROVE  \/ /\ t.held = {} /\ NextRow(t) = SessionRow
            /\ IsLast(t) <=> ~SessionChecked(t)
         \/ /\ SessionChecked(t) /\ t.held = {SessionRow}
            /\ NextRow(t) = RunRow(session.active)
            /\ IsLast(t) <=> t.op = "stop" /\ run[session.active].status # "queued"
         \/ /\ SessionChecked(t) /\ t.held = {SessionRow, RunRow(session.active)}
            /\ NextRow(t) = ItemRow(session.active) /\ IsLast(t)
  <1> DEFINE a == session.active
  <1>1. SessionChecked(t) => run[a].status \in Open
    BY DEF SessionChecked, SessionIsStale, StopApplies, IInv, RunningMeansActive,
           SessionTracksOpenRun
  <1>2. /\ t.held = {} => NextRow(t) = Rows(t)[1] /\ (IsLast(t) <=> Len(Rows(t)) = 1)
        /\ t.held = {SessionRow} =>
             NextRow(t) = Rows(t)[2] /\ (IsLast(t) <=> Len(Rows(t)) = 2)
        /\ t.held = {SessionRow, RunRow(a)} =>
             NextRow(t) = Rows(t)[3] /\ (IsLast(t) <=> Len(Rows(t)) = 3)
    BY RowNames, AfterRows
  <1>3. ~SessionChecked(t) => Len(Rows(t)) = 1 /\ Rows(t)[1] = SessionRow
    BY DEF SessionChecked, Rows, SessionFirst
  <1>4. SessionChecked(t) =>
          /\ Len(Rows(t)) = IF t.op = "stop" /\ run[a].status # "queued" THEN 2 ELSE 3
          /\ Rows(t)[1] = SessionRow /\ Rows(t)[2] = RunRow(a)
          /\ Len(Rows(t)) = 3 => Rows(t)[3] = ItemRow(a)
    <2>1. /\ Len(RecoveryRows) = IF run[a].status \in Open THEN 3 ELSE 2
          /\ RecoveryRows[1] = SessionRow /\ RecoveryRows[2] = RunRow(a)
          /\ run[a].status \in Open => RecoveryRows[3] = ItemRow(a)
      BY DEF RecoveryRows
    <2>2. /\ Len(StopRows) = IF run[a].status = "queued" THEN 3 ELSE 2
          /\ StopRows[1] = SessionRow /\ StopRows[2] = RunRow(a)
          /\ run[a].status = "queued" => StopRows[3] = ItemRow(a)
      BY DEF StopRows
    <2>3. SessionChecked(t) => Rows(t) = IF t.op = "stop" THEN StopRows ELSE RecoveryRows
      BY DEF SessionChecked, Rows
    <2>4. QED
      BY <1>1, <2>1, <2>2, <2>3
  <1>5. t.held = {} \/ (SessionChecked(t) /\ t.held = {SessionRow})
        \/ (/\ SessionChecked(t) /\ t.held = {SessionRow, RunRow(a)}
            /\ t.op = "stop" => run[a].status = "queued")
    BY DEF HeldSound, RunChecked, SessionFirst
  <1>6. QED
    BY <1>2, <1>3, <1>4, <1>5

\* markQueuedChatRunDispatchFailed and interruptPreparedChatRun: the run, its
\* item, the session.
LEMMA EndingOrder ==
  ASSUME NEW t, TxnSound(t), HeldSound(t), t.op \in {"dispatchFailed", "interrupt"}
  PROVE  \/ /\ t.held = {} /\ NextRow(t) = RunRow(t.run)
            /\ IsLast(t) <=> ~RunChecked(t)
         \/ /\ RunChecked(t) /\ t.held = {RunRow(t.run)}
            /\ NextRow(t) = ItemRow(t.run) /\ ~IsLast(t)
         \/ /\ RunChecked(t) /\ t.held = {RunRow(t.run), ItemRow(t.run)}
            /\ NextRow(t) = SessionRow /\ IsLast(t)
  <1>1. /\ t.held = {} => NextRow(t) = Rows(t)[1] /\ (IsLast(t) <=> Len(Rows(t)) = 1)
        /\ t.held = {RunRow(t.run)} =>
             NextRow(t) = Rows(t)[2] /\ (IsLast(t) <=> Len(Rows(t)) = 2)
        /\ t.held = {RunRow(t.run), ItemRow(t.run)} =>
             NextRow(t) = Rows(t)[3] /\ (IsLast(t) <=> Len(Rows(t)) = 3)
    BY RowNames, AfterRows
  <1>2. Rows(t) = EndingRows(t.run, IF t.op = "interrupt" THEN Open ELSE {"queued"})
    BY DEF Rows
  <1>3. /\ Rows(t)[1] = RunRow(t.run)
        /\ Len(Rows(t)) = IF RunChecked(t) THEN 3 ELSE 1
        /\ RunChecked(t) => Rows(t)[2] = ItemRow(t.run) /\ Rows(t)[3] = SessionRow
    BY <1>2 DEF RunChecked, EndingRows
  <1>4. t.held = {} \/ (RunChecked(t) /\ t.held = {RunRow(t.run)})
        \/ (RunChecked(t) /\ t.held = {RunRow(t.run), ItemRow(t.run)})
    BY DEF HeldSound, SessionChecked
  <1>5. CASE RunChecked(t)
    BY <1>1, <1>3, <1>4, <1>5
  <1>6. CASE ~RunChecked(t)
    BY <1>1, <1>3, <1>4, <1>6
  <1>7. QED
    BY <1>5, <1>6

\* claimChatRun, touchClaimedChatRunHeartbeat and the terminal writes: the run,
\* the session, and the item last.
LEMMA ClaimedOrder ==
  ASSUME NEW t, TxnSound(t), HeldSound(t), t.op \in {"claim", "heartbeat", "finish"}
  PROVE  \/ /\ t.held = {} /\ NextRow(t) = RunRow(t.run)
            /\ IsLast(t) <=> t.op = "heartbeat" /\ ~TokenHolds(t)
         \/ /\ t.held = {RunRow(t.run)} /\ NextRow(t) = SessionRow
            /\ t.op = "heartbeat" => TokenHolds(t)
            /\ IsLast(t) <=> ~(t.op = "finish" /\ ClaimHolds(t))
         \/ /\ t.op = "finish" /\ ClaimHolds(t)
            /\ t.held = {RunRow(t.run), SessionRow}
            /\ NextRow(t) = ItemRow(t.run) /\ IsLast(t)
  <1>1. /\ t.held = {} => NextRow(t) = Rows(t)[1] /\ (IsLast(t) <=> Len(Rows(t)) = 1)
        /\ t.held = {RunRow(t.run)} =>
             NextRow(t) = Rows(t)[2] /\ (IsLast(t) <=> Len(Rows(t)) = 2)
        /\ t.held = {RunRow(t.run), SessionRow} =>
             NextRow(t) = Rows(t)[3] /\ (IsLast(t) <=> Len(Rows(t)) = 3)
    BY RowNames, AfterRows
  <1>2. CASE t.op = "claim"
    <2>1. Rows(t) = <<RunRow(t.run), SessionRow>>
      BY <1>2 DEF Rows, ClaimRows
    <2>2. t.held = {} \/ t.held = {RunRow(t.run)}
      BY <1>2 DEF HeldSound, SessionChecked, RunChecked
    <2>3. QED
      BY <1>1, <1>2, <2>1, <2>2
  <1>3. CASE t.op = "heartbeat"
    <2>1. /\ Rows(t)[1] = RunRow(t.run)
          /\ Len(Rows(t)) = IF TokenHolds(t) THEN 2 ELSE 1
          /\ TokenHolds(t) => Rows(t)[2] = SessionRow
      BY <1>3 DEF Rows, HeartbeatRows
    <2>2. t.held = {} \/ (TokenHolds(t) /\ t.held = {RunRow(t.run)})
      BY <1>3 DEF HeldSound, SessionChecked, RunChecked
    <2>3. QED
      BY <1>1, <1>3, <2>1, <2>2
  <1>4. CASE t.op = "finish"
    <2>1. /\ Rows(t)[1] = RunRow(t.run) /\ Rows(t)[2] = SessionRow
          /\ Len(Rows(t)) = IF ClaimHolds(t) THEN 3 ELSE 2
          /\ ClaimHolds(t) => Rows(t)[3] = ItemRow(t.run)
      BY <1>4 DEF Rows, FinishRows
    <2>2. t.held = {} \/ t.held = {RunRow(t.run)}
          \/ (ClaimHolds(t) /\ t.held = {RunRow(t.run), SessionRow})
      BY <1>4 DEF HeldSound, SessionChecked, RunChecked
    <2>3. QED
      BY <1>1, <1>4, <2>1, <2>2
  <1>5. QED
    BY <1>2, <1>3, <1>4

\* updateAssistantMessageItem: the item, then the session.
LEMMA StreamOrder ==
  ASSUME NEW t, TxnSound(t), HeldSound(t), t.op = "stream"
  PROVE  \/ t.held = {} /\ NextRow(t) = ItemRow(t.run) /\ ~IsLast(t)
         \/ t.held = {ItemRow(t.run)} /\ NextRow(t) = SessionRow /\ IsLast(t)
  <1>1. /\ t.held = {} => NextRow(t) = Rows(t)[1] /\ (IsLast(t) <=> Len(Rows(t)) = 1)
        /\ t.held = {ItemRow(t.run)} =>
             NextRow(t) = Rows(t)[2] /\ (IsLast(t) <=> Len(Rows(t)) = 2)
    BY RowNames, AfterRows
  <1>2. Rows(t) = <<ItemRow(t.run), SessionRow>>
    BY DEF Rows, StreamRows
  <1>3. t.held = {} \/ t.held = {ItemRow(t.run)}
    BY DEF HeldSound, SessionChecked, RunChecked
  <1>4. QED
    BY <1>1, <1>2, <1>3

-----------------------------------------------------------------------------
(* Circles of waiters *)

\* In a cycle every process has a transaction that waits for a row which
\* another process of the cycle holds.
LEMMA CycleWaits ==
  ASSUME IInv, LockInv, NEW D \in Cycles, NEW p \in D
  PROVE  /\ p \in Procs /\ TxnSound(txn[p]) /\ HeldSound(txn[p]) /\ Active(p)
         /\ \E q \in D : NextRow(txn[p]) \in txn[q].held
  <1>1. p \in Waiting /\ Blockers(p) \subseteq D
    BY DEF Cycles, IsCycle
  <1>2. PICK q : q \in Blockers(p)
    BY <1>1 DEF Waiting
  <1>3. p \in Procs /\ Active(p) /\ q \in D /\ NextRow(txn[p]) \in txn[q].held
    BY <1>1, <1>2 DEF Waiting, Blockers, Holders
  <1>4. QED
    BY <1>3 DEF IInv, TxnsSound, LockInv

\* What a transaction that locks its run first waits for: the run while it has
\* nothing, and later the session or the item of a run it has.
LEMMA RunFirstWaits ==
  ASSUME NEW t, TxnSound(t), HeldSound(t), t.op \in RunFirst
  PROVE  \/ t.held = {} /\ NextRow(t) = RunRow(t.run)
         \/ NextRow(t) = SessionRow /\ t.held # {} /\ SessionRow \notin t.held
         \/ NextRow(t) = ItemRow(t.run) /\ RunRow(t.run) \in t.held
            /\ ItemRow(t.run) \notin t.held
  BY EndingOrder, ClaimedOrder, RowNames DEF RunFirst

\* And what it has: the item and the session only together with the run, the
\* session only when it waits for the item.
LEMMA RunFirstHolds ==
  ASSUME NEW t, TxnSound(t), HeldSound(t), t.op \in RunFirst
  PROVE  /\ \A r : ItemRow(r) \in t.held => RunRow(r) \in t.held
         /\ SessionRow \in t.held => NextRow(t) = ItemRow(t.run)
  BY EndingOrder, ClaimedOrder, RowNames DEF RunFirst

\* Transactions that lock the run first never wait for each other in a circle:
\* whoever waits for an item has its run, whoever has the session waits for an
\* item, and whoever has a run waits for an item or the session.
LEMMA RunFirstNoCycle ==
  ASSUME IInv, LockInv, NEW D \in Cycles
  PROVE  \E p \in D : txn[p].op \notin RunFirst
  <1> SUFFICES ASSUME \A p \in D : txn[p].op \in RunFirst PROVE FALSE
    OBVIOUS
  <1>x. LocksExclude
    BY DEF LockInv
  <1>1. ASSUME NEW p \in D PROVE NextRow(txn[p]) # ItemRow(txn[p].run)
    <2> SUFFICES ASSUME NextRow(txn[p]) = ItemRow(txn[p].run) PROVE FALSE
      OBVIOUS
    <2>1. PICK q \in D : ItemRow(txn[p].run) \in txn[q].held
      BY CycleWaits
    <2>2. RunRow(txn[p].run) \in txn[q].held
      BY <2>1, CycleWaits, RunFirstHolds
    <2>3. RunRow(txn[p].run) \in txn[p].held /\ ItemRow(txn[p].run) \notin txn[p].held
      BY CycleWaits, RunFirstWaits, RowNames
    <2>4. p = q
      BY <1>x, <2>2, <2>3, CycleWaits DEF LocksExclude
    <2>5. QED
      BY <2>1, <2>3, <2>4
  <1>2. ASSUME NEW p \in D PROVE NextRow(txn[p]) # SessionRow
    <2>1. ASSUME NEW q \in D, SessionRow \in txn[q].held PROVE FALSE
      BY <1>1, <2>1, CycleWaits, RunFirstHolds
    <2>2. QED
      BY <2>1, CycleWaits
  <1>3. ASSUME NEW p \in D PROVE txn[p].held = {} /\ NextRow(txn[p]) = RunRow(txn[p].run)
    BY <1>1, <1>2, CycleWaits, RunFirstWaits
  <1>4. PICK p \in D : TRUE
    BY DEF Cycles, IsCycle
  <1>5. PICK q \in D : NextRow(txn[p]) \in txn[q].held
    BY CycleWaits
  <1>6. QED
    BY <1>3, <1>5

\* Transactions that lock the session first never wait only for each other:
\* the one that has it waits for a row which only its holder may have.
LEMMA SessionFirstNoCycle ==
  ASSUME IInv, LockInv, NEW D \in Cycles
  PROVE  \E p \in D : txn[p].op \notin SessionFirst
  <1> SUFFICES ASSUME \A p \in D : txn[p].op \in SessionFirst PROVE FALSE
    OBVIOUS
  <1>x. LocksExclude
    BY DEF LockInv
  <1>1. ASSUME NEW p \in D
        PROVE  /\ txn[p].held # {} => SessionRow \in txn[p].held
               /\ txn[p].held = {} => NextRow(txn[p]) = SessionRow
               /\ NextRow(txn[p]) \notin txn[p].held
    BY CycleWaits, SessionFirstOrder, RowNames
  <1>2. ASSUME NEW p \in D PROVE SessionRow \notin txn[p].held
    <2> SUFFICES ASSUME SessionRow \in txn[p].held PROVE FALSE
      OBVIOUS
    <2>1. PICK q \in D : NextRow(txn[p]) \in txn[q].held
      BY CycleWaits
    <2>2. SessionRow \in txn[q].held
      BY <1>1, <2>1
    <2>3. p = q
      BY <1>x, <2>2, CycleWaits DEF LocksExclude
    <2>4. QED
      BY <1>1, <2>1, <2>3
  <1>3. PICK p \in D : TRUE
    BY DEF Cycles, IsCycle
  <1>4. PICK q \in D : NextRow(txn[p]) \in txn[q].held
    BY CycleWaits
  <1>5. QED
    BY <1>1, <1>2, <1>4

-----------------------------------------------------------------------------
(* A commit writes only rows that are locked *)

Footprint(t) == t.held \cup {NextRow(t)}

\* The session still answers as it did: a heartbeat may only have grown old.
SessionKept ==
  /\ session'.state = session.state /\ session'.active = session.active
  /\ session'.fresh => session.fresh
  /\ \A r \in Runs : run'[r].status = run[r].status

\* The run is as it was, unless it has just been inserted.
RunKept(r) ==
  \/ run[r].status = "none"
  \/ run'[r].status = run[r].status /\ run'[r].claim = run[r].claim

\* Statuses count as the session's: none changes without the session.
WritesLocked(t) ==
  /\ \/ SessionRow \in Footprint(t)
     \/ session' = session /\ (\A r \in Runs : run'[r].status = run[r].status)
  /\ \A r \in Runs : run[r].status # "none" =>
       /\ run'[r] = run[r] \/ RunRow(r) \in Footprint(t)
       /\ item'[r] = item[r] \/ ItemRow(r) \in Footprint(t)

\* Nothing is written.
LEMMA ReadOnly ==
  ASSUME NEW t, UNCHANGED <<session, run, item>>
  PROVE  WritesLocked(t)
  BY DEF WritesLocked

\* One run, its item and the session are written, as far as they are locked.
LEMMA OneRun ==
  ASSUME NEW t, NEW r \in Runs, SessionRow \in Footprint(t), RunRow(r) \in Footprint(t),
         \A s \in Runs : s # r => run'[s] = run[s] /\ item'[s] = item[s],
         item' = item \/ ItemRow(r) \in Footprint(t)
  PROVE  WritesLocked(t)
  BY DEF WritesLocked

\* Ending a run writes that run and its item.
LEMMA EndRunWrites ==
  ASSUME RowsTyped, NEW r \in Runs, NEW end, EndRun(r, end), NEW s \in Runs, s # r
  PROVE  run'[s] = run[s] /\ item'[s] = item[s]
  BY DEF EndRun, RunEndedAs, RowsTyped

\* A request that commits has locked what it writes.
LEMMA ClientWritesLocked ==
  ASSUME IInv, NEW c \in Clients, NEW t, TxnSound(t), HeldSound(t),
         \/ PrepareAgain(c, t) \/ Prepare(c, t) \/ DispatchFailed(c, t)
         \/ Read(c, t) \/ Interrupt(c, t) \/ Stop(c, t)
  PROVE  WritesLocked(t)
  <1>r. RowsTyped /\ RunningMeansActive /\ SessionTracksOpenRun
    BY DEF IInv, TypeOK
  <1>a. /\ t.op \in SessionFirst => SessionRow \in Footprint(t)
        /\ t.op \in SessionFirst /\ IsLast(t) /\ SessionChecked(t) =>
             /\ RunRow(session.active) \in Footprint(t)
             /\ \/ ItemRow(session.active) \in Footprint(t)
                \/ t.op = "stop" /\ run[session.active].status # "queued"
    BY SessionFirstOrder DEF Footprint
  <1>b. t.op \in {"dispatchFailed", "interrupt"} /\ IsLast(t) /\ RunChecked(t) =>
          /\ SessionRow \in Footprint(t) /\ RunRow(t.run) \in Footprint(t)
          /\ ItemRow(t.run) \in Footprint(t)
    BY EndingOrder DEF Footprint
  <1>1. CASE PrepareAgain(c, t)
    BY <1>1, ReadOnly DEF PrepareAgain, db
  <1>2. CASE Prepare(c, t)
    <2>1. t.op = "prepare" /\ IsLast(t) /\ run[t.run].status = "none"
      BY <1>2 DEF Prepare, Commits
    <2>2. ASSUME NEW r \in Runs, run[r].status # "none"
          PROVE  /\ run'[r] = run[r] \/ RunRow(r) \in Footprint(t)
                 /\ item'[r] = item[r] \/ ItemRow(r) \in Footprint(t)
      <3>1. CASE session.active = r /\ run[r].status \in Open
        <4>1. SessionChecked(t)
          BY <1>2, <1>r, <2>1, <3>1 DEF Prepare, SessionChecked, SessionTracksOpenRun
        <4>2. QED
          BY <1>a, <2>1, <3>1, <4>1 DEF SessionFirst
      <3>2. CASE ~(session.active = r /\ run[r].status \in Open)
        <4>1. r = t.run \/ (run'[r] = run[r] /\ item'[r] = item[r])
          BY <1>2, <3>2 DEF Prepare
        <4>2. QED
          BY <2>1, <2>2, <4>1
      <3>3. QED
        BY <3>1, <3>2
    <2>3. QED
      BY <1>a, <2>1, <2>2 DEF WritesLocked, SessionFirst
  <1>3. CASE DispatchFailed(c, t)
    <2>1. t.op = "dispatchFailed" /\ IsLast(t) /\ t.run \in Runs
      BY <1>3 DEF DispatchFailed, Commits, TxnSound, OpsOfRun, Ops
    <2>2. CASE run[t.run].status = "queued"
      <3>1. RunChecked(t) /\ EndRun(t.run, "interrupted")
        BY <1>3, <2>1, <2>2 DEF DispatchFailed, RunChecked
      <3>2. \A s \in Runs : s # t.run => run'[s] = run[s] /\ item'[s] = item[s]
        BY <1>r, <2>1, <3>1, EndRunWrites
      <3>3. QED
        BY <1>b, <2>1, <3>1, <3>2, OneRun
    <2>3. CASE run[t.run].status # "queued"
      BY <1>3, <2>3, ReadOnly DEF DispatchFailed, db
    <2>4. QED
      BY <2>2, <2>3
  <1>4. CASE Interrupt(c, t)
    <2>1. t.op = "interrupt" /\ IsLast(t) /\ t.run \in Runs
      BY <1>4 DEF Interrupt, Commits, TxnSound, OpsOfRun, Ops
    <2>2. CASE run[t.run].status \in Open
      <3>1. RunChecked(t) /\ EndRun(t.run, "interrupted")
        BY <1>4, <2>1, <2>2 DEF Interrupt, RunChecked
      <3>2. \A s \in Runs : s # t.run => run'[s] = run[s] /\ item'[s] = item[s]
        BY <1>r, <2>1, <3>1, EndRunWrites
      <3>3. QED
        BY <1>b, <2>1, <3>1, <3>2, OneRun
    <2>3. CASE run[t.run].status \notin Open
      BY <1>4, <2>3, ReadOnly DEF Interrupt, db
    <2>4. QED
      BY <2>2, <2>3
  <1>5. CASE Read(c, t)
    <2>1. t.op = "recover" /\ IsLast(t)
      BY <1>5 DEF Read, Commits
    <2>2. CASE SessionIsStale
      <3>1. SessionChecked(t) /\ session.active \in Runs /\ run[session.active].status \in Open
        BY <1>r, <2>1, <2>2
           DEF SessionChecked, SessionIsStale, RunningMeansActive, SessionTracksOpenRun
      <3>2. EndRun(session.active, "interrupted")
        BY <1>5, <2>2, <3>1 DEF Read, RecoverStaleRun
      <3>3. \A s \in Runs : s # session.active => run'[s] = run[s] /\ item'[s] = item[s]
        BY <1>r, <3>1, <3>2, EndRunWrites
      <3>4. QED
        BY <1>a, <2>1, <3>1, <3>3, OneRun DEF SessionFirst
    <2>3. CASE ~SessionIsStale
      BY <1>5, <2>3, ReadOnly DEF Read, db
    <2>4. QED
      BY <2>2, <2>3
  <1>6. CASE Stop(c, t)
    <2>1. t.op = "stop" /\ IsLast(t) /\ SessionChecked(t) /\ session.active \in Runs
      BY <1>6, <1>r DEF Stop, Commits, SessionChecked, StopApplies, RunningMeansActive
    <2>2. \A s \in Runs : s # session.active => run'[s] = run[s] /\ item'[s] = item[s]
      BY <1>6, <1>r, <2>1, EndRunWrites DEF Stop, RowsTyped
    <2>3. run[session.active].status = "queued" \/ item' = item
      BY <1>6 DEF Stop
    <2>4. QED
      BY <1>a, <2>1, <2>2, <2>3, OneRun DEF SessionFirst
  <1>7. QED
    BY <1>1, <1>2, <1>3, <1>4, <1>5, <1>6

\* A worker that commits has locked what it writes.
LEMMA WorkerWritesLocked ==
  ASSUME IInv, NEW w \in Workers, NEW p, NEW t, TxnSound(t), HeldSound(t),
         Claim(w, t) \/ Heartbeat(w, p, t) \/ Stream(w, t) \/ Finish(w, t)
  PROVE  WritesLocked(t)
  <1>r. RowsTyped
    BY DEF IInv, TypeOK
  <1>a. t.op \in {"claim", "heartbeat", "finish"} /\ IsLast(t)
          /\ (t.op = "heartbeat" => TokenHolds(t)) =>
          /\ SessionRow \in Footprint(t) /\ RunRow(t.run) \in Footprint(t)
          /\ t.op = "finish" /\ ClaimHolds(t) => ItemRow(t.run) \in Footprint(t)
    BY ClaimedOrder DEF Footprint
  <1>1. CASE Claim(w, t)
    <2>1. t.op = "claim" /\ IsLast(t) /\ t.run \in Runs
      BY <1>1 DEF Claim, Commits, TxnSound, OpsOfRun, Ops
    <2>2. item' = item /\ (\A s \in Runs : s # t.run => run'[s] = run[s])
      BY <1>1, <1>r DEF Claim, RowsTyped
    <2>3. QED
      BY <1>a, <2>1, <2>2, OneRun
  <1>2. CASE Heartbeat(w, p, t)
    <2>1. t.op = "heartbeat" /\ IsLast(t) /\ t.run \in Runs
      BY <1>2 DEF Heartbeat, Commits, TxnSound, OpsOfRun, Ops
    <2>2. CASE TokenHolds(t)
      <3>1. item' = item /\ (\A s \in Runs : s # t.run => run'[s] = run[s])
        BY <1>2, <1>r DEF Heartbeat, RowsTyped
      <3>2. QED
        BY <1>a, <2>1, <2>2, <3>1, OneRun
    <2>3. CASE ~TokenHolds(t)
      BY <1>2, <2>3, ReadOnly DEF Heartbeat
    <2>4. QED
      BY <2>2, <2>3
  <1>3. CASE Stream(w, t)
    <2>1. ItemRow(t.run) \in Footprint(t)
      BY <1>3, StreamOrder DEF Stream, Commits, Footprint
    <2>2. \A s \in Runs : s # t.run => item'[s] = item[s]
      BY <1>3, <1>r DEF Stream, RowsTyped
    <2>3. QED
      BY <1>3, <2>1, <2>2 DEF Stream, WritesLocked
  <1>4. CASE Finish(w, t)
    <2>1. t.op = "finish" /\ IsLast(t) /\ t.run \in Runs
      BY <1>4 DEF Finish, Commits, TxnSound, OpsOfRun, Ops
    <2>2. \A s \in Runs : s # t.run => run'[s] = run[s] /\ item'[s] = item[s]
      BY <1>4, <1>r, <2>1, EndRunWrites DEF Finish, db
    <2>3. ClaimHolds(t) \/ item' = item
      BY <1>4 DEF Finish, db
    <2>4. QED
      BY <1>a, <2>1, <2>2, <2>3, OneRun
  <1>5. QED
    BY <1>1, <1>2, <1>3, <1>4

-----------------------------------------------------------------------------
(* Checks stand until the commit *)

\* A transaction whose rows nobody writes keeps what it has checked.
LEMMA Undisturbed ==
  ASSUME IInv, NEW t, TxnSound(t), HeldSound(t),
         SessionRow \in t.held => SessionKept,
         \A r \in Runs : RunRow(r) \in t.held => RunKept(r)
  PROVE  HeldSound(t)'
  <1>a. t.op \in OpsOfRun => t.run \in Runs
    BY DEF TxnSound
  <1>1. CASE t.held = {}
    BY <1>1 DEF HeldSound
  <1>2. CASE SessionChecked(t) /\ SessionRow \in t.held
    <2>1. session.active \in Runs /\ SessionKept
      BY <1>2 DEF SessionChecked, SessionIsStale, StopApplies, IInv, RunningMeansActive
    <2>2. SessionChecked(t)'
      BY <1>2, <1>a, <2>1
         DEF SessionChecked, SessionIsStale, StopApplies, SessionKept, OpsOfRun, Ops
    <2>3. \/ t.held = {SessionRow}
          \/ /\ t.held = {SessionRow, RunRow(session.active)}
             /\ t.op = "stop" => run[session.active].status = "queued"
      BY <1>2, RowNames DEF HeldSound, SessionChecked
    <2>4. /\ RunRow(session'.active) = RunRow(session.active)
          /\ run'[session'.active].status = run[session.active].status
      BY <2>1 DEF SessionKept
    <2>5. CASE t.held = {SessionRow}
      BY <2>2, <2>5 DEF HeldSound
    <2>6. CASE /\ t.held = {SessionRow, RunRow(session.active)}
               /\ t.op = "stop" => run[session.active].status = "queued"
      <3>1. /\ t.held = {SessionRow, RunRow(session.active)}'
            /\ t.op = "stop" => (run[session.active].status = "queued")'
        BY <2>4, <2>6
      <3>2. QED
        BY <2>2, <3>1 DEF HeldSound
    <2>7. QED
      BY <2>3, <2>5, <2>6
  <1>3. CASE RunChecked(t) /\ RunRow(t.run) \in t.held
    <2>1. t.run \in Runs /\ run[t.run].status \in Open
      BY <1>3, <1>a DEF RunChecked, Open, OpsOfRun, Ops
    <2>2. run'[t.run].status = run[t.run].status
      BY <1>3, <2>1 DEF RunKept, Open
    <2>3. RunChecked(t)'
      BY <1>3, <2>2 DEF RunChecked
    <2>4. t.held = {RunRow(t.run)} \/ t.held = {RunRow(t.run), ItemRow(t.run)}
      BY <1>3 DEF HeldSound, RunChecked, SessionChecked
    <2>5. QED
      BY <2>3, <2>4 DEF HeldSound
  <1>4. CASE t.op = "claim" /\ t.held = {RunRow(t.run)}
    BY <1>4 DEF HeldSound
  <1>5. CASE t.op = "heartbeat" /\ TokenHolds(t) /\ t.held = {RunRow(t.run)}
    <2>1. t.run \in Runs
      BY <1>5, <1>a DEF OpsOfRun, Ops
    <2>2. TokenHolds(t)'
      BY <1>5, <2>1 DEF TokenHolds, RunKept
    <2>3. QED
      BY <1>5, <2>2 DEF HeldSound
  <1>6. CASE t.op = "finish" /\ t.held = {RunRow(t.run)}
    BY <1>6 DEF HeldSound
  <1>7. CASE t.op = "finish" /\ ClaimHolds(t) /\ t.held = {RunRow(t.run), SessionRow}
    <2>1. t.run \in Runs
      BY <1>7, <1>a DEF OpsOfRun, Ops
    <2>2. ClaimHolds(t)'
      BY <1>7, <2>1 DEF ClaimHolds, TokenHolds, RunKept, SessionKept
    <2>3. QED
      BY <1>7, <2>2 DEF HeldSound
  <1>8. CASE t.op = "stream" /\ t.held = {ItemRow(t.run)}
    BY <1>8 DEF HeldSound
  <1>9. QED
    BY <1>1, <1>2, <1>3, <1>4, <1>5, <1>6, <1>7, <1>8 DEF HeldSound

\* Rows that are released, and nothing written: the other transactions keep
\* what they have.
LEMMA ReleaseKeepsLocks ==
  ASSUME IInv, LockInv, UNCHANGED <<session, run>>,
         \A p \in Procs : txn'[p] = txn[p] \/ txn'[p] = NoTxn
  PROVE  LockInv'
  <1>1. ASSUME NEW p \in Procs PROVE HeldSound(txn[p])'
    <2>1. HeldSound(NoTxn)'
      BY DEF HeldSound, NoTxn
    <2>2. txn'[p] = txn[p] => HeldSound(txn[p])'
      <3>1. PICK t : t = txn[p]
        OBVIOUS
      <3>2. HeldSound(t)'
        BY <3>1, Undisturbed DEF LockInv, IInv, TxnsSound, SessionKept, RunKept
      <3>3. QED
        BY <3>1, <3>2
    <2>3. QED
      BY <2>1, <2>2
  <1>2. LocksExclude'
    BY DEF LockInv, LocksExclude, NoTxn
  <1>3. QED
    BY <1>1, <1>2 DEF LockInv

\* A transaction that commits has its last row to itself, and what it writes.
CommitLocked(p, t) ==
  /\ t = txn[p] \/ t.held = {}
  /\ Holders(NextRow(t)) = {}
  /\ txn' = [txn EXCEPT ![p] = NoTxn]
  /\ WritesLocked(t)

\* A commit leaves what the other transactions have checked.
LEMMA CommitKeepsLocks ==
  ASSUME IInv, LockInv, NEW p \in Procs, NEW t, CommitLocked(p, t)
  PROVE  LockInv'
  <1>1. /\ \A q \in Procs : q # p => txn'[q] = txn[q]
        /\ txn'[p] = NoTxn
    BY DEF CommitLocked, IInv, TxnsSound
  <1>2. ASSUME NEW q \in Procs, q # p, NEW row \in txn[q].held
        PROVE  row \notin Footprint(t)
    BY <1>2 DEF CommitLocked, Footprint, Holders, LockInv, LocksExclude
  <1>3. ASSUME NEW q \in Procs PROVE HeldSound(txn[q])'
    <2>1. CASE q = p
      BY <1>1, <2>1 DEF HeldSound, NoTxn
    <2>2. CASE q # p
      <3>1. PICK u : u = txn[q] /\ u = txn'[q]
        BY <1>1, <2>2
      <3>2. /\ SessionRow \in u.held => SessionKept
            /\ \A r \in Runs : RunRow(r) \in u.held => RunKept(r)
        BY <1>2, <2>2, <3>1 DEF CommitLocked, WritesLocked, SessionKept, RunKept
      <3>3. HeldSound(u)'
        BY <3>1, <3>2, Undisturbed DEF LockInv, IInv, TxnsSound
      <3>4. QED
        BY <3>1, <3>3
    <2>3. QED
      BY <2>1, <2>2
  <1>4. LocksExclude'
    BY <1>1 DEF LockInv, LocksExclude, NoTxn
  <1>5. QED
    BY <1>3, <1>4 DEF LockInv

\* A transaction that locks its next row holds one that nobody else has, and
\* has checked what it needed to go on.
LEMMA LockExtends ==
  ASSUME IInv, NEW t, NEW u, TxnSound(t), HeldSound(t), t.op # "none", ~IsLast(t),
         u.op = t.op, u.run = t.run, u.token = t.token, u.held = t.held \cup {NextRow(t)}
  PROVE  HeldSound(u)
  <1>1. CASE t.op \in SessionFirst
    <2>1. SessionChecked(t) <=> SessionChecked(u)
      BY DEF SessionChecked, StopApplies
    <2>2. \/ SessionChecked(t) /\ u.held = {SessionRow}
          \/ /\ SessionChecked(t) /\ u.held = {SessionRow, RunRow(session.active)}
             /\ t.op = "stop" => run[session.active].status = "queued"
      BY <1>1, SessionFirstOrder
    <2>3. QED
      BY <2>1, <2>2 DEF HeldSound
  <1>2. CASE t.op \in {"dispatchFailed", "interrupt"}
    <2>1. RunChecked(t) <=> RunChecked(u)
      BY DEF RunChecked
    <2>2. RunChecked(t) /\ u.held \in {{RunRow(t.run)}, {RunRow(t.run), ItemRow(t.run)}}
      BY <1>2, EndingOrder
    <2>3. QED
      BY <2>1, <2>2 DEF HeldSound
  <1>3. CASE t.op \in {"claim", "heartbeat", "finish"}
    <2>1. (TokenHolds(t) <=> TokenHolds(u)) /\ (ClaimHolds(t) <=> ClaimHolds(u))
      BY DEF TokenHolds, ClaimHolds
    <2>2. \/ u.held = {RunRow(t.run)} /\ (t.op = "heartbeat" => TokenHolds(t))
          \/ t.op = "finish" /\ ClaimHolds(t) /\ u.held = {RunRow(t.run), SessionRow}
      BY <1>3, ClaimedOrder
    <2>3. QED
      BY <1>3, <2>1, <2>2 DEF HeldSound
  <1>4. CASE t.op = "stream"
    BY <1>4, StreamOrder DEF HeldSound
  <1>5. QED
    BY <1>1, <1>2, <1>3, <1>4 DEF TxnSound, Ops, SessionFirst

\* Locking a row keeps LockInv.
LEMMA LockNextKeepsLocks ==
  ASSUME IInv, LockInv, NEW p \in Procs, NEW t, TxnSound(t), HeldSound(t), t.op # "none",
         t = txn[p] \/ t.held = {}, ~IsLast(t), Holders(NextRow(t)) = {},
         txn' = [txn EXCEPT ![p] = [t EXCEPT !.held = @ \cup {NextRow(t)}]],
         UNCHANGED <<session, run>>
  PROVE  LockInv'
  <1>1. PICK u : u = [t EXCEPT !.held = @ \cup {NextRow(t)}]
    OBVIOUS
  <1>2. u.op = t.op /\ u.run = t.run /\ u.token = t.token
        /\ u.held = t.held \cup {NextRow(t)}
    BY <1>1 DEF TxnSound
  <1>3. /\ \A q \in Procs : q # p => txn'[q] = txn[q]
        /\ txn'[p] = u
    BY <1>1 DEF IInv, TxnsSound
  <1>4. ASSUME NEW q \in Procs PROVE HeldSound(txn[q])'
    <2>1. CASE q = p
      <3>1. HeldSound(u)
        BY <1>2, LockExtends
      <3>2. HeldSound(u)'
        BY <3>1 DEF HeldSound, SessionChecked, SessionIsStale, StopApplies, RunChecked,
                    TokenHolds, ClaimHolds
      <3>3. QED
        BY <1>3, <2>1, <3>2
    <2>2. CASE q # p
      <3>1. PICK v : v = txn[q] /\ v = txn'[q]
        BY <1>3, <2>2
      <3>2. HeldSound(v)'
        BY <3>1, Undisturbed DEF LockInv, IInv, TxnsSound, SessionKept, RunKept
      <3>3. QED
        BY <3>1, <3>2
    <2>3. QED
      BY <2>1, <2>2
  <1>5. LocksExclude'
    <2>1. ASSUME NEW q \in Procs, q # p PROVE u.held \cap txn[q].held = {}
      BY <1>2, <2>1 DEF Holders, LockInv, LocksExclude
    <2>2. QED
      BY <1>3, <2>1 DEF LockInv, LocksExclude
  <1>6. QED
    BY <1>4, <1>5 DEF LockInv

-----------------------------------------------------------------------------
(* The theorems *)

\* A transaction that a request is in or starts has locked what it should have.
LEMMA CurrentHeld ==
  ASSUME LockInv, NEW p \in Procs, NEW startable, NEW t \in Current(p, startable),
         \A s \in startable : s.held = {} /\ s.op # "none"
  PROVE  HeldSound(t) /\ t.op # "none" /\ (t = txn[p] \/ t.held = {})
  BY DEF LockInv, Current, Active, HeldSound

\* What may be started holds nothing yet.
LEMMA StartsEmpty ==
  /\ \A c \in Clients : \A s \in ClientTxns(c) : s.held = {} /\ s.op # "none"
  /\ \A w \in Workers : \A s \in TurnTxns(w) : s.held = {} /\ s.op # "none"
  /\ \A w \in Workers : \A s \in TimerTxns(w) : s.held = {} /\ s.op # "none"
  BY DEF ClientTxns, TurnTxns, TimerTxns, OwnTxn, Txn

\* A lock keeps LockInv, whoever takes it.
LEMMA LockKeepsLocks ==
  ASSUME IInv, LockInv, NEW p \in Procs, Lock(p)
  PROVE  LockInv'
  <1>1. ASSUME NEW startable, LockNext(p, startable),
               \A s \in startable : s.held = {} /\ s.op # "none",
               \A t \in Current(p, startable) : TxnSound(t)
        PROVE  LockInv'
    <2>1. PICK t \in Current(p, startable) :
            /\ ~IsLast(t) /\ Holders(NextRow(t)) = {}
            /\ txn' = [txn EXCEPT ![p] = [t EXCEPT !.held = @ \cup {NextRow(t)}]]
      BY <1>1 DEF LockNext
    <2>2. HeldSound(t) /\ t.op # "none" /\ (t = txn[p] \/ t.held = {})
      BY <1>1, CurrentHeld
    <2>3. UNCHANGED <<session, run>>
      BY <1>1 DEF LockNext
    <2>4. QED
      BY <1>1, <2>1, <2>2, <2>3, LockNextKeepsLocks
  <1>2. CASE p \in Clients /\ LockNext(p, ClientTxns(p))
    BY <1>1, <1>2, StartsEmpty, ClientTxnSound
  <1>3. ASSUME NEW w \in Workers, p = Main(w), LockNext(p, TurnTxns(w)) PROVE LockInv'
    BY <1>1, <1>3, StartsEmpty, TurnTxnSound
  <1>4. ASSUME NEW w \in Workers, p = Heart(w), LockNext(p, TimerTxns(w)) PROVE LockInv'
    BY <1>1, <1>4, StartsEmpty, TimerTxnSound
  <1>5. QED
    BY <1>2, <1>3, <1>4 DEF Lock

\* The commits of requests, of turns and of timers are of this kind.
LEMMA ClientCommitLocked ==
  ASSUME IInv, LockInv, NEW c \in Clients, ClientCommit(c)
  PROVE  \E t : CommitLocked(c, t)
  <1>1. PICK t \in Current(c, ClientTxns(c)) :
          \/ PrepareAgain(c, t) \/ Prepare(c, t) \/ DispatchFailed(c, t)
          \/ Read(c, t) \/ Interrupt(c, t) \/ Stop(c, t)
    BY DEF ClientCommit
  <1>2. Holders(NextRow(t)) = {} /\ txn' = [txn EXCEPT ![c] = NoTxn]
    BY <1>1 DEF PrepareAgain, Prepare, DispatchFailed, Read, Interrupt, Stop, Commits
  <1>3. TxnSound(t) /\ HeldSound(t) /\ (t = txn[c] \/ t.held = {})
    BY ProcKinds, StartsEmpty, CurrentHeld, ClientTxnSound
  <1>4. WritesLocked(t)
    BY <1>1, <1>3, ClientWritesLocked
  <1>5. QED
    BY <1>2, <1>3, <1>4 DEF CommitLocked

\* A turn's commits.
LEMMA TurnCommitLocked ==
  ASSUME IInv, LockInv, NEW w \in Workers, TurnCommit(w)
  PROVE  \E t : CommitLocked(Main(w), t)
  <1>1. PICK t \in Current(Main(w), TurnTxns(w)) :
          Claim(w, t) \/ Heartbeat(w, Main(w), t) \/ Stream(w, t) \/ Finish(w, t)
    BY DEF TurnCommit
  <1>2. Holders(NextRow(t)) = {} /\ txn' = [txn EXCEPT ![Main(w)] = NoTxn]
    BY <1>1 DEF Claim, Heartbeat, Stream, Finish, Commits
  <1>3. TxnSound(t) /\ HeldSound(t) /\ (t = txn[Main(w)] \/ t.held = {})
    BY ProcKinds, StartsEmpty, CurrentHeld, TurnTxnSound
  <1>4. WritesLocked(t)
    BY <1>1, <1>3, WorkerWritesLocked
  <1>5. QED
    BY <1>2, <1>3, <1>4 DEF CommitLocked

\* A timer's commit.
LEMMA TimerCommitLocked ==
  ASSUME IInv, LockInv, NEW w \in Workers, TimerCommit(w)
  PROVE  \E t : CommitLocked(Heart(w), t)
  <1>1. PICK t \in Current(Heart(w), TimerTxns(w)) : Heartbeat(w, Heart(w), t)
    BY DEF TimerCommit
  <1>2. Holders(NextRow(t)) = {} /\ txn' = [txn EXCEPT ![Heart(w)] = NoTxn]
    BY <1>1 DEF Heartbeat, Commits
  <1>3. TxnSound(t) /\ HeldSound(t) /\ (t = txn[Heart(w)] \/ t.held = {})
    BY ProcKinds, StartsEmpty, CurrentHeld, TimerTxnSound
  <1>4. WritesLocked(t)
    BY <1>1, <1>3, WorkerWritesLocked
  <1>5. QED
    BY <1>2, <1>3, <1>4 DEF CommitLocked

\* A request's step keeps LockInv.
LEMMA ClientKeepsLocks ==
  ASSUME IInv, LockInv, NEW c \in Clients, ClientStep(c)
  PROVE  LockInv'
  <1>1. CASE Dispatch(c)
    BY <1>1, ReleaseKeepsLocks DEF Dispatch, db
  <1>2. CASE ClientCommit(c)
    BY <1>2, ClientCommitLocked, CommitKeepsLocks, ProcKinds
  <1>3. QED
    BY <1>1, <1>2 DEF ClientStep

\* A worker's step keeps LockInv.
LEMMA WorkerKeepsLocks ==
  ASSUME IInv, LockInv, NEW w \in Workers, WorkerStep(w)
  PROVE  LockInv'
  <1>1. CASE Deliver(w) \/ Deadline(w) \/ EndTurn(w)
    BY <1>1, ReleaseKeepsLocks DEF Deliver, Deadline, EndTurn, db
  <1>2. CASE Crash(w)
    <2>1. \A p \in Procs : txn'[p] = txn[p] \/ txn'[p] = NoTxn
      BY <1>2 DEF Crash, IInv, TxnsSound
    <2>2. QED
      BY <1>2, <2>1, ReleaseKeepsLocks DEF Crash, db
  <1>3. CASE TurnCommit(w)
    BY <1>3, TurnCommitLocked, CommitKeepsLocks, ProcKinds
  <1>4. CASE TimerCommit(w)
    BY <1>4, TimerCommitLocked, CommitKeepsLocks, ProcKinds
  <1>5. QED
    BY <1>1, <1>2, <1>3, <1>4 DEF WorkerStep

\* A heartbeat that grows old makes no check false: only its absence is checked.
LEMMA AgeKeepsLocks ==
  ASSUME IInv, LockInv, Age
  PROVE  LockInv'
  <1>1. SessionKept /\ (\A r \in Runs : RunKept(r))
    BY DEF Age, SessionKept, RunKept, IInv, TypeOK, RowsTyped
  <1>2. txn' = txn
    BY DEF Age
  <1>3. ASSUME NEW p \in Procs PROVE HeldSound(txn[p])'
    <2>1. PICK t : t = txn[p]
      OBVIOUS
    <2>2. HeldSound(t)'
      BY <1>1, <2>1, Undisturbed DEF LockInv, IInv, TxnsSound
    <2>3. QED
      BY <1>2, <2>1, <2>2
  <1>4. QED
    BY <1>2, <1>3 DEF LockInv, LocksExclude

\* What a transaction has locked and checked stands until it commits, with any
\* number of requests and workers: no other process writes a row it holds.
THEOREM ChecksStand == Spec => []LockInv
  <1>1. Init => LockInv
    BY DEF Init, LockInv, LocksExclude, HeldSound, NoTxn
  <1>2. IInv /\ LockInv /\ [Next]_vars => LockInv'
    <2> SUFFICES ASSUME IInv, LockInv, [Next]_vars PROVE LockInv'
      OBVIOUS
    <2>1. CASE UNCHANGED vars
      BY <2>1, ReleaseKeepsLocks DEF vars
    <2>2. ASSUME NEW p \in Procs, Abort(p) PROVE LockInv'
      <3>1. \A q \in Procs : txn'[q] = txn[q] \/ txn'[q] = NoTxn
        BY <2>2 DEF Abort, IInv, TxnsSound
      <3>2. QED
        BY <2>2, <3>1, ReleaseKeepsLocks DEF Abort, db
    <2>3. QED
      BY <2>1, <2>2, ClientKeepsLocks, WorkerKeepsLocks, LockKeepsLocks, AgeKeepsLocks
         DEF Next
  <1>3. QED
    BY <1>1, <1>2, ChatRunsInductive, PTL DEF Spec

\* What LockedRowsStay says of one process and one step.
RowsStay(p) ==
  txn'[p] = txn[p] =>
    /\ SessionRow \in txn[p].held =>
         session' \in {session, [session EXCEPT !.fresh = FALSE]}
    /\ \A r \in {s \in Runs : run[s].status # "none"} :
         /\ RunRow(r) \in txn[p].held =>
              run'[r] \in {run[r], [run[r] EXCEPT !.fresh = FALSE]}
         /\ ItemRow(r) \in txn[p].held => item'[r] = item[r]

\* A commit writes no row that another process has locked.
LEMMA CommitStays ==
  ASSUME IInv, LockInv, NEW q \in Procs, NEW t, CommitLocked(q, t), NEW p \in Procs
  PROVE  RowsStay(p)
  <1>1. CASE p = q
    BY <1>1 DEF CommitLocked, RowsStay, NoTxn, IInv, TxnsSound
  <1>2. CASE p # q
    <2>1. \A row \in txn[p].held : row \notin Footprint(t)
      BY <1>2 DEF CommitLocked, Footprint, Holders, LockInv, LocksExclude
    <2>2. QED
      BY <2>1 DEF CommitLocked, RowsStay, WritesLocked
  <1>3. QED
    BY <1>1, <1>2

\* A row that a transaction has locked is written by no one else before it ends:
\* every handler locks what it writes, whatever order it locks it in.
THEOREM LockedRowsAreKept == Spec => LockedRowsStay
  <1>1. ASSUME IInv, LockInv, [Next]_vars, NEW p \in Procs PROVE RowsStay(p)
    <2>a. UNCHANGED db => RowsStay(p)
      BY DEF RowsStay, db
    <2>1. ASSUME NEW c \in Clients, ClientStep(c) PROVE RowsStay(p)
      <3>1. CASE Dispatch(c)
        BY <2>a, <3>1 DEF Dispatch
      <3>2. CASE ClientCommit(c)
        BY <1>1, <3>2, ClientCommitLocked, CommitStays, ProcKinds
      <3>3. QED
        BY <2>1, <3>1, <3>2 DEF ClientStep
    <2>2. ASSUME NEW w \in Workers, WorkerStep(w) PROVE RowsStay(p)
      <3>1. CASE Deliver(w) \/ Deadline(w) \/ EndTurn(w) \/ Crash(w)
        BY <2>a, <3>1 DEF Deliver, Deadline, EndTurn, Crash
      <3>2. CASE TurnCommit(w)
        BY <1>1, <3>2, TurnCommitLocked, CommitStays, ProcKinds
      <3>3. CASE TimerCommit(w)
        BY <1>1, <3>3, TimerCommitLocked, CommitStays, ProcKinds
      <3>4. QED
        BY <2>2, <3>1, <3>2, <3>3 DEF WorkerStep
    <2>3. ASSUME NEW q \in Procs, Lock(q) \/ Abort(q) PROVE RowsStay(p)
      BY <2>a, <2>3 DEF Lock, LockNext, Abort, db
    <2>4. CASE Age
      BY <1>1, <2>4 DEF Age, RowsStay, IInv, TypeOK, RowsTyped
    <2>5. CASE UNCHANGED vars
      BY <2>a, <2>5 DEF vars, db
    <2>6. QED
      BY <1>1, <2>1, <2>2, <2>3, <2>4, <2>5 DEF Next
  <1>2. IInv /\ LockInv /\ [Next]_vars => \A p \in Procs : RowsStay(p)
    BY <1>1
  <1>3. QED
    BY <1>2, ChatRunsInductive, ChecksStand, PTL DEF Spec, LockedRowsStay, RowsStay

-----------------------------------------------------------------------------
(* Which circles of waiters there are *)

\* Requests and timers do not claim, stream or finish.
LEMMA TurnsOnMainStep ==
  ASSUME IInv, TurnsOnMain, [Next]_vars
  PROVE  TurnsOnMain'
  <1> DEFINE Kept(p) == \/ txn'[p].op \in {txn[p].op, "none"}
                        \/ txn'[p].op \notin {"claim", "stream", "finish"}
                        \/ \E w \in Workers : p = Main(w)
  <1> SUFFICES ASSUME NEW p \in Procs PROVE Kept(p)
    BY DEF TurnsOnMain
  <1>1. ASSUME \E q \in Procs : txn' = [txn EXCEPT ![q] = NoTxn] PROVE Kept(p)
    BY <1>1 DEF IInv, TxnsSound, NoTxn
  <1>2. ASSUME NEW c \in Clients, ClientStep(c) PROVE Kept(p)
    BY <1>1, <1>2, ProcKinds
    DEF ClientStep, Dispatch, ClientCommit, PrepareAgain, Prepare, DispatchFailed, Read,
        Interrupt, Stop, Commits
  <1>3. ASSUME NEW w \in Workers, WorkerStep(w) PROVE Kept(p)
    <2>1. CASE Crash(w)
      BY <2>1 DEF Crash, IInv, TxnsSound, NoTxn
    <2>2. CASE Deliver(w) \/ Deadline(w) \/ EndTurn(w)
      BY <2>2 DEF Deliver, Deadline, EndTurn
    <2>3. CASE TurnCommit(w) \/ TimerCommit(w)
      BY <1>1, <2>3, ProcKinds
      DEF TurnCommit, TimerCommit, Claim, Heartbeat, Stream, Finish, Commits
    <2>4. QED
      BY <1>3, <2>1, <2>2, <2>3 DEF WorkerStep
  <1>4. ASSUME NEW q \in Procs, Lock(q) PROVE Kept(p)
    <2>1. CASE p # q
      BY <1>4, <2>1, LockNextSound DEF Lock, IInv
    <2>2. CASE p = q /\ p \in Clients
      <3>1. PICK t \in Current(p, ClientTxns(p)) : TxnSound(t) => txn'[p].op = t.op
        BY <1>4, <2>2, LockNextSound, ProcKinds DEF Lock, IInv
      <3>2. t.op \in {txn[p].op, "prepare", "recover", "stop", "dispatchFailed", "interrupt"}
        BY <3>1 DEF Current, ClientTxns, Txn
      <3>3. QED
        BY <2>2, <3>1, <3>2, ClientTxnSound
    <2>3. CASE \E w \in Workers : p = q /\ p = Heart(w)
      <3>1. PICK w \in Workers : p = q /\ p = Heart(w) /\ LockNext(p, TimerTxns(w))
        BY <1>4, <2>3, ProcKinds DEF Lock
      <3>2. PICK t \in Current(p, TimerTxns(w)) : TxnSound(t) => txn'[p].op = t.op
        BY <3>1, LockNextSound DEF IInv
      <3>3. t.op \in {txn[p].op, "heartbeat"}
        BY <3>2 DEF Current, TimerTxns, OwnTxn, Txn
      <3>4. QED
        BY <3>1, <3>2, <3>3, TimerTxnSound
    <2>4. QED
      BY <2>1, <2>2, <2>3 DEF Procs, WorkerProcs
  <1>5. ASSUME NEW q \in Procs, Abort(q) PROVE Kept(p)
    BY <1>1, <1>5 DEF Abort
  <1>6. CASE Age \/ UNCHANGED vars
    BY <1>6 DEF Age, vars
  <1>7. QED
    BY <1>2, <1>3, <1>4, <1>5, <1>6 DEF Next

\* Whoever has the session in a circle of turns and of requests that lock their
\* run first is a terminal write, passed by the fence, that waits for its item.
LEMMA SessionHeldToFinish ==
  ASSUME IInv, LockInv, NEW D \in Cycles, NEW f \in D, SessionRow \in txn[f].held,
         txn[f].op \notin SessionFirst
  PROVE  /\ txn[f].op = "finish" /\ ClaimHolds(txn[f])
         /\ txn[f].held = {RunRow(txn[f].run), SessionRow}
         /\ NextRow(txn[f]) = ItemRow(txn[f].run)
  <1>1. TxnSound(txn[f]) /\ HeldSound(txn[f]) /\ Active(f)
    BY CycleWaits
  <1>2. txn[f].op \in RunFirst \cup {"stream"}
    BY <1>1 DEF TxnSound, Ops, SessionFirst, RunFirst, Active
  <1>3. CASE txn[f].op = "stream"
    BY <1>1, <1>3, StreamOrder, RowNames
  <1>4. CASE txn[f].op \in {"dispatchFailed", "interrupt"}
    BY <1>1, <1>4, EndingOrder, RowNames
  <1>5. CASE txn[f].op \in {"claim", "heartbeat", "finish"}
    BY <1>1, <1>5, ClaimedOrder, RowNames
  <1>6. QED
    BY <1>2, <1>3, <1>4, <1>5 DEF RunFirst

\* A circle without requests that take the session first has a stream that waits
\* for the session, and it has the item of the terminal write that the fence has
\* let through.
LEMMA StreamBlocksFinish ==
  ASSUME IInv, LockInv, NEW D \in Cycles, \A p \in D : txn[p].op \notin SessionFirst
  PROVE  \E s, f \in D :
           /\ txn[s].op = "stream" /\ txn[f].op = "finish"
           /\ txn[s].run = txn[f].run /\ ClaimHolds(txn[f])
  <1>x. LocksExclude
    BY DEF LockInv
  <1>1. ASSUME NEW p \in D PROVE txn[p].op \in RunFirst \cup {"stream"}
    BY <1>1, CycleWaits DEF TxnSound, Ops, SessionFirst, RunFirst, Active
  <1>2. \E p \in D : NextRow(txn[p]) = SessionRow
    <2>1. PICK p \in D : txn[p].op = "stream"
      BY <1>1, RunFirstNoCycle
    <2>2. CASE txn[p].held # {}
      BY <2>1, <2>2, CycleWaits, StreamOrder
    <2>3. CASE txn[p].held = {}
      <3>1. PICK q \in D : ItemRow(txn[p].run) \in txn[q].held
        BY <2>1, <2>3, CycleWaits, StreamOrder
      <3>2. CASE txn[q].op = "stream"
        BY <3>1, <3>2, CycleWaits, StreamOrder
      <3>3. CASE txn[q].op \in {"dispatchFailed", "interrupt"}
        BY <3>1, <3>3, CycleWaits, EndingOrder, RowNames
      <3>4. CASE txn[q].op \in {"claim", "heartbeat", "finish"}
        BY <3>1, <3>4, CycleWaits, ClaimedOrder, RowNames
      <3>5. QED
        BY <1>1, <3>2, <3>3, <3>4 DEF RunFirst
    <2>4. QED
      BY <2>2, <2>3
  <1>3. PICK f \in D : SessionRow \in txn[f].held
    BY <1>2, CycleWaits
  <1>4. /\ txn[f].op = "finish" /\ ClaimHolds(txn[f])
        /\ txn[f].held = {RunRow(txn[f].run), SessionRow}
        /\ NextRow(txn[f]) = ItemRow(txn[f].run)
    BY <1>3, SessionHeldToFinish
  <1>5. PICK s \in D : ItemRow(txn[f].run) \in txn[s].held
    BY <1>4, CycleWaits
  <1>6. CASE txn[s].op \in RunFirst
    <2>1. RunRow(txn[f].run) \in txn[s].held
      BY <1>5, <1>6, CycleWaits, RunFirstHolds
    <2>2. s = f
      BY <1>x, <1>4, <2>1, CycleWaits DEF LocksExclude
    <2>3. QED
      BY <1>4, <1>5, <2>2, RowNames
  <1>7. CASE txn[s].op = "stream"
    <2>1. ItemRow(txn[s].run) = ItemRow(txn[f].run)
      BY <1>5, <1>7, CycleWaits, StreamOrder
    <2>2. QED
      BY <1>4, <1>7, <2>1, RowNames
  <1>8. QED
    BY <1>1, <1>6, <1>7

\* Turns that have their run, and requests that only end one, never wait for
\* each other in a circle: each circle that PostgreSQL has to break takes a
\* request that locks the session first (recoverStaleRun, for one) or the stream
\* of a worker that was too slow and has lost its run.
THEOREM LiveTurnsNeverDeadlock == Spec => []LiveTurnsDoNotDeadlock
  <1>1. IInv /\ LockInv /\ ClaimInv /\ TurnsOnMain => LiveTurnsDoNotDeadlock
    <2> SUFFICES ASSUME IInv, LockInv, ClaimInv, TurnsOnMain, NEW D \in Cycles,
                        \A p \in D : txn[p].op \notin {"prepare", "recover", "stop"}
                 PROVE  \E w \in Workers :
                          Main(w) \in D /\ txn[Main(w)].op = "stream" /\ ~Owns(w)
      BY DEF LiveTurnsDoNotDeadlock
    <2>1. PICK s, f \in D :
            /\ txn[s].op = "stream" /\ txn[f].op = "finish"
            /\ txn[s].run = txn[f].run /\ ClaimHolds(txn[f])
      BY StreamBlocksFinish DEF SessionFirst
    <2>2. s \in Procs /\ f \in Procs
      BY CycleWaits
    <2>3. PICK w, v \in Workers : s = Main(w) /\ f = Main(v)
      BY <2>1, <2>2 DEF TurnsOnMain
    <2>4. /\ worker[w].stage \in Turn /\ worker[w].run = txn[f].run
          /\ worker[v].stage \in Turn /\ worker[v].run = txn[f].run
          /\ worker[v].token = txn[f].token
      BY <2>1, <2>3 DEF ClaimInv, TurnFollowed, IInv, TurnsSound, Turn
    <2>5. SUFFICES ASSUME Owns(w) PROVE FALSE
      BY <2>1, <2>3
    <2>6. worker[w].token = run[txn[f].run].claim /\ worker[v].token = run[txn[f].run].claim
      BY <2>1, <2>4, <2>5 DEF Owns, ClaimHolds, TokenHolds, OwnTxn, Txn
    <2>7. v = w
      BY <2>4, <2>6 DEF ClaimInv, TokensDiffer
    <2>8. QED
      BY <2>1, <2>3, <2>7
  <1>2. Init => TurnsOnMain
    BY DEF Init, TurnsOnMain, NoTxn
  <1>3. QED
    BY <1>1, <1>2, TurnsOnMainStep, ChatRunsInductive, ChecksStand, ClaimsTellTurnsApart, PTL
    DEF Spec

\* Requests that take the session first (prepareChatRun, recoverStaleRun,
\* requestChatRunCancellation) never wait for each other only: every circle that
\* PostgreSQL breaks has a transaction that locks a run or an item first.
RequestsDoNotDeadlock ==
  \A D \in Cycles : \E p \in D : txn[p].op \notin SessionFirst

\* However many requests there are, they alone never deadlock.
THEOREM RequestsNeverDeadlock == Spec => []RequestsDoNotDeadlock
  <1>1. IInv /\ LockInv => RequestsDoNotDeadlock
    BY SessionFirstNoCycle DEF RequestsDoNotDeadlock
  <1>2. QED
    BY <1>1, ChatRunsInductive, ChecksStand, PTL
=============================================================================
