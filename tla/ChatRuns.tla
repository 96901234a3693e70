------------------------------- MODULE ChatRuns -------------------------------
(***************************************************************************)
(* The server side of one AI chat session (apps/backend/src/chat): runs    *)
(* that API requests prepare, read, cancel and interrupt, and Lambda       *)
(* workers claim, keep alive, stream and finish.                           *)
(*                                                                         *)
(* A transaction locks rows one after the other, in the code's order, and  *)
(* commits.  What it reads and writes belongs to rows it holds by then, so *)
(* the last lock and the commit are one step, and one that needs a single  *)
(* row is atomic.  A handler that returns early locks nothing further.     *)
(* PostgreSQL aborts one transaction of a cycle of waiters.                *)
(*                                                                         *)
(* A run is named by its client request: a request makes one run at most,  *)
(* in the one session.  An item is either in progress or final, whatever   *)
(* text it holds.  A heartbeat is fresh or more than 30 s old; age is a    *)
(* step of its own because a worker may be slow for any length of time.    *)
(***************************************************************************)
EXTENDS Naturals, Sequences, FiniteSets

CONSTANTS
  Runs,             \* client request ids, each the name of its run
  Workers,          \* concurrent worker invocations
  Clients,          \* concurrent API requests
  NoRun,            \* null
  MaxDeliveries     \* how many invocations are delivered in all

ASSUME NoRunAssumption == NoRun \notin Runs
ASSUME DeliveryAssumption == MaxDeliveries \in Nat

VARIABLES
  session,          \* ai.chat_sessions: state, active run, fresh heartbeat
  run,              \* ai.chat_runs: status, claim, fresh heartbeat, cancel
  item,             \* the assistant item of each run
  invoked,          \* the runs whose invocation Lambda has accepted
  deliveries,       \* how many it has delivered
  worker,           \* what an invocation knows of the run it executes
  client,           \* where an API request is between its transactions
  txn               \* the transaction of each process that holds rows

db == <<session, run, item>>
vars == <<session, run, item, invoked, deliveries, worker, client, txn>>

-----------------------------------------------------------------------------
(* Rows, transactions and locks *)

\* A worker executes its turn and, on a timer, its heartbeat.
Main(w) == <<w, "main">>
Heart(w) == <<w, "heart">>
WorkerProcs == {Main(w) : w \in Workers} \cup {Heart(w) : w \in Workers}
Procs == Clients \cup WorkerProcs
ASSUME ProcsAssumption == Clients \cap WorkerProcs = {}

Open == {"queued", "running"}
Ended == {"completed", "failed", "interrupted", "cancelled"}
Statuses == {"none"} \cup Open \cup Ended

SessionRow == <<"session">>
RunRow(r) == <<"run", r>>
ItemRow(r) == <<"item", r>>

NoTxn == [op |-> "none", run |-> NoRun, token |-> 0, held |-> {}]
Txn(op, r, token) == [op |-> op, run |-> r, token |-> token, held |-> {}]

NoClient == [stage |-> "idle", run |-> NoRun]
NoWorker ==
  [stage |-> "off", run |-> NoRun, token |-> 0, reason |-> "none", end |-> "none"]

\* Mutant: only a run that some worker has claimed is recovered.
StaleOnceClaimed ==
  session.state = "running" /\ ~session.fresh /\ run[session.active].claim > 0

\* recoverStaleRun acts only on a running session whose heartbeat is old.
SessionIsStale == session.state = "running" /\ ~session.fresh

\* A stop request names a run or takes whichever is active.
StopApplies(expected) ==
  session.state = "running" /\ expected \in {NoRun, session.active}

Claimable(r) ==
  /\ session.active = r
  /\ \/ run[r].status = "queued"
     \/ run[r].status = "running" /\ ~run[r].fresh

\* Mutant: whoever holds the active run may store its outcome.
ClaimIgnoresToken(t) ==
  run[t.run].status = "running" /\ session.state = "running" /\ session.active = t.run

\* Mutant: the token is checked but not that the run is still running.
ClaimIgnoresEnd(t) == run[t.run].claim = t.token

\* The claim token still matches: touchClaimedChatRunHeartbeat, first check.
TokenHolds(t) ==
  run[t.run].status = "running" /\ run[t.run].claim = t.token

\* assertClaimedRunStillActive
ClaimHolds(t) ==
  TokenHolds(t) /\ session.state = "running" /\ session.active = t.run

\* Rows 1, 2, ... of the transaction; the next one depends on the rows before.
RecoveryRows ==
  <<SessionRow, RunRow(session.active)>>
    \o IF run[session.active].status \in Open
       THEN <<ItemRow(session.active)>> ELSE << >>

StopRows ==
  <<SessionRow, RunRow(session.active)>>
    \o IF run[session.active].status = "queued"
       THEN <<ItemRow(session.active)>> ELSE << >>

EndingRows(r, statuses) ==
  <<RunRow(r)>>
    \o IF run[r].status \in statuses THEN <<ItemRow(r), SessionRow>> ELSE << >>

\* Mutant: a claim locks the session before its run.
ClaimLocksSessionFirst(t) == <<SessionRow, RunRow(t.run)>>

ClaimRows(t) == <<RunRow(t.run), SessionRow>>

\* Mutant: a heartbeat locks the run and not the session it writes.
HeartbeatLocksRunOnly(t) == <<RunRow(t.run)>>

HeartbeatRows(t) ==
  <<RunRow(t.run)>> \o IF TokenHolds(t) THEN <<SessionRow>> ELSE << >>

\* Mutant: a terminal write takes no lock on the session.
FinishLocksNoSession(t) ==
  <<RunRow(t.run)>> \o IF ClaimHolds(t) THEN <<ItemRow(t.run)>> ELSE << >>

FinishRows(t) ==
  <<RunRow(t.run), SessionRow>>
    \o IF ClaimHolds(t) THEN <<ItemRow(t.run)>> ELSE << >>

StreamRows(t) == <<ItemRow(t.run), SessionRow>>

Rows(t) ==
  CASE t.op = "prepare" -> IF run[t.run].status = "none" /\ SessionIsStale
                           THEN RecoveryRows ELSE <<SessionRow>>
    [] t.op = "recover" -> IF SessionIsStale THEN RecoveryRows ELSE <<SessionRow>>
    [] t.op = "stop" -> IF StopApplies(t.run) THEN StopRows ELSE <<SessionRow>>
    [] t.op = "dispatchFailed" -> EndingRows(t.run, {"queued"})
    [] t.op = "interrupt" -> EndingRows(t.run, Open)
    [] t.op = "claim" -> ClaimRows(t)
    [] t.op = "heartbeat" -> HeartbeatRows(t)
    [] t.op = "finish" -> FinishRows(t)
    [] t.op = "stream" -> StreamRows(t)
    [] OTHER -> << >>

Active(p) == txn[p].op # "none"

\* What may be started: a request by its stage, a turn by its, a heartbeat by
\* the timer of a turn.
ClientTxns(c) ==
  LET r == client[c].run IN
  CASE client[c].stage = "idle" ->
         {Txn("prepare", s, 0) : s \in Runs} \cup {Txn("recover", NoRun, 0)}
           \cup {Txn("stop", expected, 0) : expected \in Runs \cup {NoRun}}
    [] client[c].stage = "respond" -> {Txn("recover", r, 0)}
    [] client[c].stage = "undispatched" -> {Txn("dispatchFailed", r, 0)}
    [] client[c].stage = "detached" -> {Txn("interrupt", r, 0)}
    [] OTHER -> {}

Turn == {"starting", "model", "ending"}
OwnTxn(w, op) == Txn(op, worker[w].run, worker[w].token)

TurnTxns(w) ==
  CASE worker[w].stage = "delivered" -> {Txn("claim", worker[w].run, 0)}
    [] worker[w].stage = "starting" -> {OwnTxn(w, "heartbeat")}
    [] worker[w].stage = "model" /\ worker[w].reason \in {"none", "deadline"} ->
         {OwnTxn(w, "stream")}
    [] worker[w].stage = "ending" -> {OwnTxn(w, "finish")}
    [] OTHER -> {}

TimerTxns(w) == IF worker[w].stage \in Turn THEN {OwnTxn(w, "heartbeat")} ELSE {}

\* The transaction a process is in, or the ones it may start.
Current(p, startable) == IF Active(p) THEN {txn[p]} ELSE startable

NextRow(t) == Rows(t)[Cardinality(t.held) + 1]
IsLast(t) == Cardinality(t.held) + 1 = Len(Rows(t))
Holders(row) == {p \in Procs : row \in txn[p].held}

\* A cycle of waiters: each waits for a row that one of them holds.
Blockers(p) == IF Active(p) THEN Holders(NextRow(txn[p])) ELSE {}
Waiting == {p \in Procs : Blockers(p) # {}}
IsCycle(D) == D # {} /\ UNION {Blockers(p) : p \in D} = D
Cycles == {D \in SUBSET Waiting : IsCycle(D)}

\* SELECT ... FOR UPDATE, or the first UPDATE of a row.
LockNext(p, startable) ==
  /\ \E t \in Current(p, startable) :
       /\ ~IsLast(t)
       /\ Holders(NextRow(t)) = {}
       /\ txn' = [txn EXCEPT ![p] = [t EXCEPT !.held = @ \cup {NextRow(t)}]]
  /\ UNCHANGED <<session, run, item, invoked, deliveries, worker, client>>

Lock(p) ==
  \/ p \in Clients /\ LockNext(p, ClientTxns(p))
  \/ \E w \in Workers : p = Main(w) /\ LockNext(p, TurnTxns(w))
  \/ \E w \in Workers : p = Heart(w) /\ LockNext(p, TimerTxns(w))

\* The last row and the commit, which nothing can come between.
Commits(p, t, op) ==
  /\ t.op = op
  /\ IsLast(t)
  /\ Holders(NextRow(t)) = {}
  /\ txn' = [txn EXCEPT ![p] = NoTxn]

-----------------------------------------------------------------------------
(* What the handlers write *)

RunEndedAs(r, end) ==
  [run EXCEPT ![r].status = end, ![r].cancel = @ \/ end = "cancelled"]

\* Mutant: the session takes the status of its run.
SessionTakesStatus(r, end) ==
  IF session.active = r
  THEN [state |-> end, active |-> NoRun, fresh |-> FALSE] ELSE session

\* Mutant: the session still names the run that has ended.
SessionKeepsActive(r, end) ==
  IF session.active = r
  THEN [session EXCEPT !.state = IF end = "interrupted" THEN "interrupted" ELSE "idle"]
  ELSE session

SessionAfter(r, end) ==
  IF session.active = r
  THEN [state |-> IF end = "interrupted" THEN "interrupted" ELSE "idle",
        active |-> NoRun, fresh |-> FALSE]
  ELSE session

\* The run, its item and, while the run is active, the session end together.
EndRun(r, end) ==
  /\ run' = RunEndedAs(r, end)
  /\ item' = [item EXCEPT ![r] = "final"]
  /\ session' = SessionAfter(r, end)

\* Mutant: recovery frees the session and forgets its run.
RecoverSessionOnly ==
  /\ session' = [state |-> "interrupted", active |-> NoRun, fresh |-> FALSE]
  /\ UNCHANGED <<run, item>>

\* recoverStaleRun: the stale run is interrupted, or only the session is when
\* the run has ended already.
RecoverStaleRun ==
  IF run[session.active].status \in Open
  THEN EndRun(session.active, "interrupted")
  ELSE /\ session' = [state |-> "interrupted", active |-> NoRun, fresh |-> FALSE]
       /\ UNCHANGED <<run, item>>

-----------------------------------------------------------------------------
(* API requests: POST /chat, GET /chat, POST /chat/stop *)

Becomes(c, stage, r) == client' = [client EXCEPT ![c] = [stage |-> stage, run |-> r]]

\* The same request again: nothing is written, and a run that is still queued
\* is dispatched again.
PrepareAgain(c, t) ==
  /\ Commits(c, t, "prepare")
  /\ run[t.run].status # "none"
  /\ Becomes(c, IF run[t.run].status = "queued" THEN "dispatch" ELSE "respond", t.run)
  /\ UNCHANGED <<db, invoked, deliveries, worker>>

\* The turn is stored and its run queued, unless another run is alive
\* (ChatSessionConflictError, nothing written); a stale one is interrupted first.
Prepare(c, t) ==
  LET dead == {s \in Runs : session.active = s /\ run[s].status \in Open} IN
  /\ Commits(c, t, "prepare")
  /\ run[t.run].status = "none"
  /\ session.state # "running" \/ SessionIsStale
  /\ run' = [s \in Runs |->
       CASE s = t.run -> [status |-> "queued", claim |-> 0, fresh |-> FALSE, cancel |-> FALSE]
         [] s \in dead -> [run[s] EXCEPT !.status = "interrupted"]
         [] OTHER -> run[s]]
  /\ item' = [s \in Runs |->
       CASE s = t.run -> "in_progress" [] s \in dead -> "final" [] OTHER -> item[s]]
  /\ session' = [state |-> "running", active |-> t.run, fresh |-> TRUE]
  /\ Becomes(c, "dispatch", t.run)
  /\ UNCHANGED <<invoked, deliveries, worker>>

\* The asynchronous invocation is accepted; or it fails, accepted or not; or
\* the API process is gone.
Dispatch(c) ==
  LET r == client[c].run IN
  /\ client[c].stage = "dispatch"
  /\ \/ invoked' = invoked \cup {r} /\ Becomes(c, "respond", r)
     \/ invoked' \in {invoked, invoked \cup {r}} /\ Becomes(c, "undispatched", r)
     \/ invoked' = invoked /\ Becomes(c, "idle", NoRun)
  /\ UNCHANGED <<db, deliveries, worker, txn>>

\* markQueuedChatRunDispatchFailed
DispatchFailed(c, t) ==
  /\ Commits(c, t, "dispatchFailed")
  /\ IF run[t.run].status = "queued" THEN EndRun(t.run, "interrupted") ELSE UNCHANGED db
  /\ Becomes(c, "idle", NoRun)
  /\ UNCHANGED <<invoked, deliveries, worker>>

\* getRecoveredChatSessionSnapshot, for its own sake or for the response to a
\* prepared run, which attaches a live stream to the snapshot's active run, if
\* it can.
Read(c, t) ==
  /\ Commits(c, t, "recover")
  /\ IF SessionIsStale THEN RecoverStaleRun ELSE UNCHANGED db
  /\ IF t.run = NoRun THEN UNCHANGED client
     ELSE \/ Becomes(c, "idle", NoRun)
          \/ Becomes(c, "detached", IF session'.active = NoRun THEN t.run ELSE session'.active)
  /\ UNCHANGED <<invoked, deliveries, worker>>

\* interruptPreparedChatRun
Interrupt(c, t) ==
  /\ Commits(c, t, "interrupt")
  /\ IF run[t.run].status \in Open THEN EndRun(t.run, "interrupted") ELSE UNCHANGED db
  /\ Becomes(c, "idle", NoRun)
  /\ UNCHANGED <<invoked, deliveries, worker>>

\* requestChatRunCancellation: a queued run is cancelled at once, a running one
\* is marked for its worker.
Stop(c, t) ==
  LET r == session.active IN
  /\ Commits(c, t, "stop")
  /\ StopApplies(t.run)
  /\ \/ run[r].status = "queued" /\ EndRun(r, "cancelled")
     \/ /\ run[r].status = "running"
        /\ run' = [run EXCEPT ![r].cancel = TRUE]
        /\ UNCHANGED <<session, item>>
  /\ UNCHANGED <<invoked, deliveries, worker, client>>

ClientCommit(c) ==
  \E t \in Current(c, ClientTxns(c)) :
    \/ PrepareAgain(c, t) \/ Prepare(c, t) \/ DispatchFailed(c, t)
    \/ Read(c, t) \/ Interrupt(c, t) \/ Stop(c, t)

ClientStep(c) == Dispatch(c) \/ ClientCommit(c)

-----------------------------------------------------------------------------
(* The worker: handleChatWorkerEvent and runPersistedChatSession *)

Executes(w, t) ==
  worker[w].stage \in {"starting", "model"} /\ worker[w].run = t.run /\ worker[w].token = t.token
Leaves(w) == worker' = [worker EXCEPT ![w] = NoWorker]
Finishes(w, end) ==
  worker' = [worker EXCEPT ![w].stage = "ending", ![w].end = end, ![w].reason = "none"]

\* Lambda delivers an invocation, the first time or again: it retries a failed
\* one, and delivers at least once.
Deliver(w) ==
  /\ worker[w].stage = "off"
  /\ deliveries < MaxDeliveries
  /\ deliveries' = deliveries + 1
  /\ \E r \in invoked :
       worker' = [worker EXCEPT ![w].stage = "delivered", ![w].run = r]
  /\ UNCHANGED <<db, invoked, client, txn>>

\* Mutant: a run that is taken over keeps the token of its first claim.
SameToken(r) == IF run[r].claim = 0 THEN 1 ELSE run[r].claim

\* The time of the claim, of which only the order counts: the run is taken over
\* when its heartbeat is old, and only one claim at a time writes its row.
NextToken(r) == run[r].claim + 1

\* claimChatRun: a new token for a queued run, or for a running one whose
\* heartbeat is old.  (A queued run is never marked for cancellation, so the
\* branch that cancels one has nothing to do.)
Claim(w, t) ==
  LET token == NextToken(t.run) IN
  /\ Commits(Main(w), t, "claim")
  /\ IF Claimable(t.run)
     THEN /\ run' = [run EXCEPT ![t.run].status = "running",
                                ![t.run].claim = token, ![t.run].fresh = TRUE]
          /\ session' = [state |-> "running", active |-> t.run, fresh |-> TRUE]
          /\ worker' = [worker EXCEPT ![w].stage = "starting", ![w].token = token]
     ELSE Leaves(w) /\ UNCHANGED <<run, session>>
  /\ UNCHANGED <<item, invoked, deliveries, client>>

\* handleHeartbeatState: losing the run always counts, otherwise the first
\* reason to stop is kept.
ReasonAfter(old, found) ==
  IF found = "lost" \/ old = "none" THEN found ELSE old

\* touchClaimedChatRunHeartbeat, and what its caller makes of the answer: the
\* first heartbeat is part of the turn, the others run on the timer and are
\* ignored once the model loop is over.
Heartbeat(w, p, t) ==
  LET mine == TokenHolds(t) /\ session.active = t.run
      found == IF ~mine THEN "lost" ELSE IF run[t.run].cancel THEN "stop" ELSE "none"
  IN
  /\ Commits(p, t, "heartbeat")
  /\ IF mine
     THEN /\ run' = [run EXCEPT ![t.run].fresh = TRUE]
          /\ session' = [session EXCEPT !.fresh = TRUE]
     ELSE UNCHANGED <<run, session>>
  /\ \/ p = Heart(w) /\ ~Executes(w, t) /\ UNCHANGED worker
     \/ /\ p = Heart(w) /\ Executes(w, t)
        /\ worker' = [worker EXCEPT ![w].reason = ReasonAfter(@, found)]
     \/ p = Main(w) /\ found = "lost" /\ Leaves(w)
     \/ p = Main(w) /\ found = "stop" /\ Finishes(w, "cancelled")
     \/ /\ p = Main(w) /\ found = "none"
        /\ worker' = [worker EXCEPT ![w].stage = "model"]
  /\ UNCHANGED <<item, invoked, deliveries, client>>

\* Lambda's time is nearly up.
Deadline(w) ==
  /\ worker[w].stage = "model" /\ worker[w].reason = "none"
  /\ worker' = [worker EXCEPT ![w].reason = "deadline"]
  /\ UNCHANGED <<db, invoked, deliveries, client, txn>>

\* updateAssistantMessageItem: by item id, with no look at the run.
Stream(w, t) ==
  /\ Commits(Main(w), t, "stream")
  /\ item' = [item EXCEPT ![t.run] = "in_progress"]
  /\ UNCHANGED <<session, run, invoked, deliveries, worker, client>>

\* The model loop is over, or has failed.  (Where the code would still try to
\* store an outcome for a run it has lost, the fence of Finish stops it.)
EndTurn(w) ==
  LET reason == worker[w].reason IN
  /\ worker[w].stage = "model" /\ ~Active(Main(w))
  /\ \/ reason = "lost" /\ Leaves(w)
     \/ reason # "lost" /\ Finishes(w, "failed")
     \/ reason = "none" /\ Finishes(w, "completed")
     \/ reason = "stop" /\ Finishes(w, "cancelled")
     \/ reason = "deadline" /\ Finishes(w, "interrupted")
  /\ UNCHANGED <<db, invoked, deliveries, client, txn>>

\* completeClaimedChatRun, persistClaimedChatRunTerminalError and
\* persistClaimedChatRunCancelled
Finish(w, t) ==
  /\ Commits(Main(w), t, "finish")
  /\ IF ClaimHolds(t) THEN EndRun(t.run, worker[w].end) ELSE UNCHANGED db
  /\ Leaves(w)
  /\ UNCHANGED <<invoked, deliveries, client>>

\* The invocation is killed; its transactions roll back.
Crash(w) ==
  /\ worker[w].stage # "off"
  /\ txn' = [txn EXCEPT ![Main(w)] = NoTxn, ![Heart(w)] = NoTxn]
  /\ Leaves(w)
  /\ UNCHANGED <<db, invoked, deliveries, client>>

TurnCommit(w) ==
  \E t \in Current(Main(w), TurnTxns(w)) :
    Claim(w, t) \/ Heartbeat(w, Main(w), t) \/ Stream(w, t) \/ Finish(w, t)

TimerCommit(w) ==
  \E t \in Current(Heart(w), TimerTxns(w)) : Heartbeat(w, Heart(w), t)

WorkerStep(w) ==
  Deliver(w) \/ Deadline(w) \/ EndTurn(w) \/ Crash(w) \/ TurnCommit(w) \/ TimerCommit(w)

-----------------------------------------------------------------------------
(* PostgreSQL and the clock *)

\* One transaction of a cycle is aborted.  The API request fails; a timer's
\* heartbeat is forgotten; a first heartbeat or a stream write ends the turn as
\* failed; a claim or a terminal write fails the invocation.
Abort(p) ==
  /\ \E D \in Cycles : p \in D
  /\ txn' = [txn EXCEPT ![p] = NoTxn]
  /\ \/ p \in Clients /\ Becomes(p, "idle", NoRun) /\ UNCHANGED worker
     \/ \E w \in Workers : p = Heart(w) /\ UNCHANGED <<client, worker>>
     \/ \E w \in Workers :
          /\ p = Main(w)
          /\ IF txn[p].op \in {"heartbeat", "stream"} /\ worker[w].reason # "lost"
             THEN Finishes(w, "failed") ELSE Leaves(w)
          /\ UNCHANGED client
  /\ UNCHANGED <<db, invoked, deliveries>>

\* More than 30 s since the last heartbeat, as one reader's clock has it.
Age ==
  /\ \/ /\ session.state = "running" /\ session.fresh
        /\ session' = [session EXCEPT !.fresh = FALSE]
        /\ UNCHANGED run
     \/ \E r \in Runs :
          /\ run[r].status = "running" /\ run[r].fresh
          /\ run' = [run EXCEPT ![r].fresh = FALSE]
          /\ UNCHANGED session
  /\ UNCHANGED <<item, invoked, deliveries, worker, client, txn>>

-----------------------------------------------------------------------------
Init ==
  /\ session = [state |-> "idle", active |-> NoRun, fresh |-> FALSE]
  /\ run = [r \in Runs |->
       [status |-> "none", claim |-> 0, fresh |-> FALSE, cancel |-> FALSE]]
  /\ item = [r \in Runs |-> "none"]
  /\ invoked = {}
  /\ deliveries = 0
  /\ worker = [w \in Workers |-> NoWorker]
  /\ client = [c \in Clients |-> NoClient]
  /\ txn = [p \in Procs |-> NoTxn]

Next ==
  \/ \E c \in Clients : ClientStep(c)
  \/ \E w \in Workers : WorkerStep(w)
  \/ \E p \in Procs : Lock(p) \/ Abort(p)
  \/ Age

Spec == Init /\ [][Next]_vars

-----------------------------------------------------------------------------
(* Fairness: PostgreSQL queues waiters for a row and breaks their cycles, a  *)
(* heartbeat that is not renewed grows old, a turn ends (the deadline timer  *)
(* sees to it), handlers run to their end, and somebody keeps reading the    *)
(* session.  No invocation need ever be delivered.                           *)

Commit(p) ==
  \/ p \in Clients /\ ClientCommit(p)
  \/ \E w \in Workers : p = Main(w) /\ TurnCommit(w)
  \/ \E w \in Workers : p = Heart(w) /\ TimerCommit(w)

\* A request or a turn under way goes on; nobody has to begin one, and the timer
\* need not fire.
Underway(p) ==
  \/ Active(p)
  \/ p \in Clients /\ client[p].stage # "idle"
  \/ \E w \in Workers : p = Main(w)

Poll(c) == Lock(c) /\ txn'[c].op = "recover"

Fairness ==
  /\ \A p \in Procs : SF_vars(Underway(p) /\ Lock(p)) /\ SF_vars(Underway(p) /\ Commit(p))
  /\ \A w \in Workers : SF_vars(EndTurn(w))
  /\ \A c \in Clients : SF_vars(Poll(c)) /\ WF_vars(Dispatch(c))
  /\ WF_vars(\E p \in Procs : Abort(p))
  /\ WF_vars(Age)

FairSpec == Spec /\ Fairness

-----------------------------------------------------------------------------
(* Properties *)

RowsTyped ==
  /\ session \in [state : {"idle", "running", "interrupted"},
                  active : Runs \cup {NoRun}, fresh : BOOLEAN]
  /\ run \in [Runs -> [status : Statuses, claim : Nat, fresh : BOOLEAN,
                      cancel : BOOLEAN]]
  /\ item \in [Runs -> {"none", "in_progress", "final"}]

KnowledgeTyped ==
  /\ invoked \subseteq Runs
  /\ deliveries \in 0 .. MaxDeliveries
  /\ worker \in [Workers -> [stage : {"off", "delivered"} \cup Turn,
                            run : Runs \cup {NoRun}, token : Nat,
                            reason : {"none", "stop", "deadline", "lost"},
                            end : {"none"} \cup Ended]]
  /\ client \in [Clients -> [stage : {"idle", "dispatch", "undispatched", "respond",
                                     "detached"},
                            run : Runs \cup {NoRun}]]

\* Rows have the values of their columns, and workers and requests know of runs
\* only what their code can tell apart.
TypeOK == RowsTyped /\ KnowledgeTyped

\* The session is running exactly while one run is queued or running, and
\* points to that run: a reader never waits for a run that is over and a new
\* message is never refused for one (prepareChatRun, recoverStaleRun).
SessionTracksOpenRun ==
  \A r \in Runs :
    run[r].status \in Open <=> session.state = "running" /\ session.active = r

\* Whoever stores an outcome of the model holds the latest claim: a worker that
\* was only slow does not answer for the one that took over.
OnlyLastClaimantAnswers ==
  [][\A r \in Runs :
       run[r].status \in Open /\ run'[r].status \in {"completed", "failed"} =>
         \E w \in Workers :
           /\ worker[w].stage = "ending" /\ worker[w].end = run'[r].status
           /\ worker[w].run = r /\ worker[w].token = run[r].claim]_vars

\* The turn of w still has the run as its fence asks for it.
Owns(w) == worker[w].stage \in Turn /\ ClaimHolds(OwnTxn(w, "finish"))

\* However often a run is claimed, and however many of its workers are still
\* alive, the fence (assertClaimedRunStillActive) lets one of them through.
OneOwner == \A v, w \in Workers : Owns(v) /\ Owns(w) => v = w

\* The turn that has the run never blocks itself: a circle of waiters takes a
\* request that locks the session before the run, or the stream of a worker that
\* has lost its run and writes its item all the same (lock orders of
\* claimChatRun, touchClaimedChatRunHeartbeat, updateAssistantMessageItem and
\* completeClaimedChatRun).
LiveTurnsDoNotDeadlock ==
  \A D \in Cycles :
    \/ \E p \in D : txn[p].op \in {"prepare", "recover", "stop"}
    \/ \E w \in Workers : Main(w) \in D /\ txn[Main(w)].op = "stream" /\ ~Owns(w)

\* A row that a transaction has locked is written by nobody else until that
\* transaction ends; a heartbeat in it may only grow old.
LockedRowsStay ==
  [][\A p \in Procs : txn'[p] = txn[p] =>
       /\ SessionRow \in txn[p].held =>
            session' \in {session, [session EXCEPT !.fresh = FALSE]}
       /\ \A r \in {s \in Runs : run[s].status # "none"} :
            /\ RunRow(r) \in txn[p].held =>
                 run'[r] \in {run[r], [run[r] EXCEPT !.fresh = FALSE]}
            /\ ItemRow(r) \in txn[p].held => item'[r] = item[r]]_vars

\* Every run comes to an end, whatever workers, locks and deliveries do, as
\* long as somebody reads the session.
EveryRunEnds ==
  \A r \in Runs : run[r].status \in Open ~> run[r].status \in Ended

\* The runs of a session take turns, whatever the order of locks, claims,
\* aborts and crashes.
Turns == INSTANCE TurnTaking WITH
  turn <- session.active,
  phase <- [r \in Runs |-> run[r].status]

ImplementsTurns == Turns!Spec

\* A run that has ended keeps its last answer: the worker that lost it "must
\* stop mutating state immediately" (runs/lifecycleService.ts:301).
EndedRunsStayFinal ==
  \A r \in Runs : run[r].status \in Ended => item[r] = "final"
=============================================================================
