------------------------------ MODULE CardSync ------------------------------
(***************************************************************************)
(* One card edited on several devices and by agents: local copy, outbox,   *)
(* push with its idempotency ledger, last-writer-wins, pull.               *)
(*                                                                         *)
(* A snapshot of the card is named by its LWW metadata: clientUpdatedAt,   *)
(* replica and operation id.  The web client writes its copy and its       *)
(* outbox in two IndexedDB transactions and overwrites its copy with what  *)
(* it pulls; the iOS client writes both in one SQLite transaction, maybe   *)
(* long after the rating it saves, and merges what it pulls by LWW; the    *)
(* Android client writes both in one Room transaction, overwrites, and     *)
(* pushes one batch a run.  Agents (AI chat, SQL tool) update the row in   *)
(* place, past LWW and past the ledger.                                    *)
(*                                                                         *)
(* Abstracted: pages, statements and locks of a pull (HotChangeLog); the   *)
(* metadata lock appears as the single server transaction tx.  Cards,      *)
(* decks and scheduler settings share this code path; one root is enough   *)
(* because roots never meet in it.  Fields merged by a snapshot are not    *)
(* told apart.                                                             *)
(***************************************************************************)
EXTENDS Integers, FiniteSets

CONSTANTS
  Web, Ios, Android,   \* installations: positive numbers, in the byte order of their replica ids
  Agents,        \* agent connections, numbered likewise
  Skew,          \* clock error of each of them
  InstallationId, \* of each iOS device: its place in that byte order
  BatchSize,     \* operations of a push
  MaxEdits,      \* bound: edits made
  MaxFaults,     \* bound: failed requests, killed apps
  MidEditCrash   \* may a web page close inside an edit

Devices == Web \union Ios \union Android

ASSUME ActorsAssumption ==
  /\ Devices \union Agents \subseteq Nat \ {0}
  /\ Web \intersect Ios = {} /\ (Web \union Ios) \intersect Android = {}
  /\ Devices \intersect Agents = {}
  /\ Skew \in [Devices \union Agents -> Int]
  /\ InstallationId \in [Ios -> Nat]
ASSUME BoundsAssumption ==
  /\ BatchSize \in Nat \ {0}
  /\ MaxEdits \in Nat
  /\ MaxFaults \in Nat
  /\ MidEditCrash \in BOOLEAN

VARIABLES
  now,      \* edits made so far: true time
  \* Server
  row,      \* content.cards
  change,   \* latest hot change id of the card
  ledger,   \* sync.applied_operations_current
  net,      \* push requests on their way
  tx,       \* push transaction in progress: request, operations left, row so far
  \* Device
  local,    \* copy of the card
  stamp,    \* lastModifiedByReplicaId of an iOS copy
  written,  \* snapshot an iOS device wrote last (history)
  outbox,   \* snapshots waiting to be pushed
  edit,     \* snapshot being saved, and how far
  cursor,   \* lastAppliedHotChangeId
  phase,    \* where the sync run is
  sent,     \* request it waits for
  acks,     \* answered operations whose outbox rows are not deleted yet
  answer,   \* pulled snapshot
  upto,     \* nextHotChangeId of the answer
  faults

serverVars == <<row, change, ledger, tx>>
copyVars == <<local, stamp, written>>
runVars == <<phase, sent, acks, answer, upto>>
vars == <<now, serverVars, net, copyVars, outbox, edit, cursor, runVars, faults>>

Version == [at : Int, by : Nat, op : Nat]
Seed == [at |-> 0, by |-> 0, op |-> 0]
None == [at |-> 0, by |-> 0, op |-> -1]
Request == [by : Devices, ops : SUBSET Version, try : Nat]
NoRequest == [by |-> 0, ops |-> {}, try |-> 0]
NoTx == [req |-> NoRequest, todo |-> {}, row |-> Seed]
NoEdit == [at |-> "none", v |-> Seed]
Phases == {"idle", "sent", "answered", "pull", "pulled", "merged"}

TypeOK ==
  /\ now \in 0 .. MaxEdits
  /\ row \in Version
  /\ change \in Nat
  /\ ledger \subseteq Version
  /\ net \subseteq Request
  /\ tx \in [req : Request \union {NoRequest}, todo : SUBSET Version, row : Version]
  /\ local \in [Devices -> Version]
  /\ stamp \in [Ios -> Nat]
  /\ written \in [Ios -> Version]
  /\ outbox \in [Devices -> SUBSET Version]
  /\ edit \in [Devices -> [at : {"none", "started", "put"}, v : Version]]
  /\ cursor \in [Devices -> Nat]
  /\ phase \in [Devices -> Phases]
  /\ sent \in [Devices -> Request \union {NoRequest}]
  /\ acks \in [Devices -> SUBSET Version]
  /\ answer \in [Devices -> Version \union {None}]
  /\ upto \in [Devices -> Nat]
  /\ faults \in 0 .. MaxFaults

\* Every device starts hydrated, with the card as the server has it.
Init ==
  /\ now = 0
  /\ row = Seed
  /\ change = 1
  /\ ledger = {}
  /\ net = {}
  /\ tx = NoTx
  /\ local = [c \in Devices |-> Seed]
  /\ stamp = [c \in Ios |-> Seed.by]
  /\ written = [c \in Ios |-> Seed]
  /\ outbox = [c \in Devices |-> {}]
  /\ edit = [c \in Devices |-> NoEdit]
  /\ cursor = [c \in Devices |-> 1]
  /\ phase = [c \in Devices |-> "idle"]
  /\ sent = [c \in Devices |-> NoRequest]
  /\ acks = [c \in Devices |-> {}]
  /\ answer = [c \in Devices |-> None]
  /\ upto = [c \in Devices |-> 0]
  /\ faults = 0

-----------------------------------------------------------------------------
(* Last writer wins *)

\* incomingLwwMetadataWins: time, then replica id, then operation id.
Beats(v, w) ==
  \/ v.at > w.at
  \/ v.at = w.at /\ v.by > w.by
  \/ v.at = w.at /\ v.by = w.by /\ v.op > w.op

\* The snapshot an edit makes: its time is the clock of whoever makes it.
Snapshot(a) == [at |-> now + 1 + Skew[a], by |-> a, op |-> now + 1]

-----------------------------------------------------------------------------
(* Edits *)

\* The time is taken before anything is written: on the web in the same call, on
\* Android before the transaction, on iOS when a rating is put in the queue of
\* reviews to save ...
EditStart(c) ==
  /\ edit[c].at = "none"
  /\ now < MaxEdits
  /\ edit' = [edit EXCEPT ![c] = [at |-> "started", v |-> Snapshot(c)]]
  /\ now' = now + 1
  /\ UNCHANGED <<serverVars, net, copyVars, outbox, cursor, runVars, faults>>

\* ... then, on the web, the copy is written ...
EditPut(c) ==
  /\ c \in Web
  /\ edit[c].at = "started"
  /\ local' = [local EXCEPT ![c] = edit[c].v]
  /\ edit' = [edit EXCEPT ![c].at = "put"]
  /\ UNCHANGED <<now, serverVars, net, stamp, written, outbox, cursor, runVars, faults>>

\* ... then the outbox.
EditQueue(c) ==
  /\ edit[c].at = "put"
  /\ outbox' = [outbox EXCEPT ![c] = @ \union {edit[c].v}]
  /\ edit' = [edit EXCEPT ![c] = NoEdit]
  /\ UNCHANGED <<now, serverVars, net, copyVars, cursor, runVars, faults>>

\* The apps write both in one transaction, whatever the copy is.  iOS stamps its
\* copy with its installation id, the server a snapshot with the replica id.
Save(c, v) ==
  /\ local' = [local EXCEPT ![c] = v]
  /\ outbox' = [outbox EXCEPT ![c] = @ \union {v}]
  /\ stamp' = [d \in Ios |-> IF d = c THEN InstallationId[c] ELSE stamp[d]]
  /\ written' = [d \in Ios |-> IF d = c THEN v ELSE written[d]]

\* The second half of an edit on an app, maybe long after the first.
EditSave(c) ==
  /\ c \in Ios \union Android
  /\ edit[c].at = "started"
  /\ Save(c, edit[c].v)
  /\ edit' = [edit EXCEPT ![c] = NoEdit]
  /\ UNCHANGED <<now, serverVars, net, cursor, runVars, faults>>

\* An edit or a deletion that takes its time inside the transaction, maybe while
\* another edit is on its way.
EditAtOnce(c) ==
  /\ c \in Ios \union Android
  /\ now < MaxEdits
  /\ Save(c, Snapshot(c))
  /\ now' = now + 1
  /\ UNCHANGED <<serverVars, net, edit, cursor, runVars, faults>>

\* Mutant: an update that leaves no hot change.
AgentWriteUnlogged(a) ==
  /\ tx = NoTx
  /\ now < MaxEdits
  /\ row' = Snapshot(a)
  /\ now' = now + 1
  /\ UNCHANGED <<change, ledger, tx, net, copyVars, outbox, edit, cursor, runVars, faults>>

\* An agent waits for the metadata lock, then updates whatever row it finds.
AgentWrite(a) ==
  /\ tx = NoTx
  /\ now < MaxEdits
  /\ row' = Snapshot(a)
  /\ change' = change + 1
  /\ now' = now + 1
  /\ UNCHANGED <<ledger, tx, net, copyVars, outbox, edit, cursor, runVars, faults>>

-----------------------------------------------------------------------------
(* Push *)

\* What the next request may take of the outbox: a full batch or all there is.
\* The web queue follows the times of the snapshots; the apps' follows the clock
\* when they were written, and any order of them is allowed here.
Batches(c) ==
  {b \in SUBSET outbox[c] :
     /\ Cardinality(b) = BatchSize \/ (b = outbox[c] /\ Cardinality(b) < BatchSize)
     /\ c \in Web => \A v \in b, o \in outbox[c] \ b : v.at <= o.at}

\* Mutant: outbox rows go when they are sent.
PushSendAndForget(c) ==
  \E ops \in Batches(c) :
    LET req == [by |-> c, ops |-> ops, try |-> faults]
    IN /\ phase[c] = "idle"
       /\ outbox[c] # {}
       /\ net' = net \union {req}
       /\ sent' = [sent EXCEPT ![c] = req]
       /\ phase' = [phase EXCEPT ![c] = "sent"]
       /\ outbox' = [outbox EXCEPT ![c] = @ \ ops]
       /\ UNCHANGED <<now, serverVars, copyVars, edit, cursor, acks, answer, upto, faults>>

PushSend(c) ==
  \E ops \in Batches(c) :
    LET req == [by |-> c, ops |-> ops, try |-> faults]
    IN /\ phase[c] = "idle"
       /\ outbox[c] # {}
       /\ net' = net \union {req}
       /\ sent' = [sent EXCEPT ![c] = req]
       /\ phase' = [phase EXCEPT ![c] = "sent"]
       /\ UNCHANGED <<now, serverVars, copyVars, outbox, edit, cursor, acks, answer, upto, faults>>

\* Mutant: every operation is taken for a new one.
FreshAlways(v) == TRUE

\* loadExistingAppliedOperations: the ledger, read once before the loop.
Fresh(v) == \A o \in ledger : o.by # v.by \/ o.op # v.op

\* A request reaches the server, maybe long after its sender gave up on it.
PushReceive(req) ==
  /\ req \in net
  /\ tx = NoTx
  /\ net' = net \ {req}
  /\ tx' = [req |-> req, todo |-> req.ops, row |-> row]
  /\ UNCHANGED <<now, row, change, ledger, copyVars, outbox, edit, cursor, runVars, faults>>

\* Mutant: the last snapshot to arrive is stored.
PushApplyBlind(v) ==
  /\ v \in tx.todo
  /\ tx.req.by \in Web => \A o \in tx.todo : v.at <= o.at
  /\ tx' = [tx EXCEPT !.todo = @ \ {v}, !.row = IF Fresh(v) THEN v ELSE @]
  /\ UNCHANGED <<now, row, change, ledger, net, copyVars, outbox, edit, cursor, runVars, faults>>

\* processOperationInExecutor on the next operation of the request.
PushApply(v) ==
  /\ v \in tx.todo
  /\ tx.req.by \in Web => \A o \in tx.todo : v.at <= o.at
  /\ tx' = [tx EXCEPT !.todo = @ \ {v},
                      !.row = IF Fresh(v) /\ Beats(v, @) THEN v ELSE @]
  /\ UNCHANGED <<now, row, change, ledger, net, copyVars, outbox, edit, cursor, runVars, faults>>

\* Mutant: what a batch processed is not recorded.
PushCommitUnrecorded ==
  LET c == tx.req.by
      heard == sent[c] = tx.req
  IN /\ tx # NoTx
     /\ tx.todo = {}
     /\ row' = tx.row
     /\ change' = IF tx.row = row THEN change ELSE change + 1
     /\ ledger' = ledger
     /\ tx' = NoTx
     /\ phase' = IF heard THEN [phase EXCEPT ![c] = "answered"] ELSE phase
     /\ acks' = IF heard THEN [acks EXCEPT ![c] = tx.req.ops] ELSE acks
     /\ UNCHANGED <<now, net, copyVars, outbox, edit, cursor, sent, answer, upto, faults>>

\* The transaction commits: the row, its last change and the ledger.  The
\* answer arrives if its sender still waits for it; applied, ignored and
\* duplicate are acknowledged alike.
PushCommit ==
  LET c == tx.req.by
      heard == sent[c] = tx.req
  IN /\ tx # NoTx
     /\ tx.todo = {}
     /\ row' = tx.row
     /\ change' = IF tx.row = row THEN change ELSE change + 1
     /\ ledger' = ledger \union {v \in tx.req.ops : Fresh(v)}
     /\ tx' = NoTx
     /\ phase' = IF heard THEN [phase EXCEPT ![c] = "answered"] ELSE phase
     /\ acks' = IF heard THEN [acks EXCEPT ![c] = tx.req.ops] ELSE acks
     /\ UNCHANGED <<now, net, copyVars, outbox, edit, cursor, sent, answer, upto, faults>>

\* The transaction fails and leaves nothing.
PushAbort ==
  /\ tx # NoTx
  /\ faults < MaxFaults
  /\ faults' = faults + 1
  /\ tx' = NoTx
  /\ UNCHANGED <<now, row, change, ledger, net, copyVars, outbox, edit, cursor, runVars>>

\* Acknowledged rows are deleted one by one.
Ack(c, v) ==
  /\ c \notin Android
  /\ phase[c] = "answered"
  /\ v \in acks[c]
  /\ outbox' = [outbox EXCEPT ![c] = @ \ {v}]
  /\ acks' = [acks EXCEPT ![c] = @ \ {v}]
  /\ UNCHANGED <<now, serverVars, net, copyVars, edit, cursor, phase, sent, answer, upto, faults>>

\* Mutant: the whole outbox is deleted.
PushOnceAll(c) ==
  /\ c \in Android
  /\ phase[c] = "answered"
  /\ outbox' = [outbox EXCEPT ![c] = {}]
  /\ acks' = [acks EXCEPT ![c] = {}]
  /\ phase' = [phase EXCEPT ![c] = "pull"]
  /\ sent' = [sent EXCEPT ![c] = NoRequest]
  /\ UNCHANGED <<now, serverVars, net, copyVars, edit, cursor, answer, upto, faults>>

\* Android deletes them in one statement and goes on to the pull, whatever
\* else is queued.
PushOnce(c) ==
  /\ c \in Android
  /\ phase[c] = "answered"
  /\ outbox' = [outbox EXCEPT ![c] = @ \ acks[c]]
  /\ acks' = [acks EXCEPT ![c] = {}]
  /\ phase' = [phase EXCEPT ![c] = "pull"]
  /\ sent' = [sent EXCEPT ![c] = NoRequest]
  /\ UNCHANGED <<now, serverVars, net, copyVars, edit, cursor, answer, upto, faults>>

\* The outbox is listed again.
PushNext(c) ==
  /\ c \notin Android
  /\ phase[c] = "answered"
  /\ acks[c] = {}
  /\ phase' = [phase EXCEPT ![c] = "idle"]
  /\ sent' = [sent EXCEPT ![c] = NoRequest]
  /\ UNCHANGED <<now, serverVars, net, copyVars, outbox, edit, cursor, acks, answer, upto, faults>>

\* The request is neither on its way nor being served.
Unanswerable(c) == phase[c] = "sent" /\ sent[c] \notin net /\ tx.req # sent[c]

\* The request or an acknowledgement fails: the web client puts the whole
\* batch back with its attempt counted, the apps mark the rows that are left.
PushFail(c) ==
  /\ phase[c] \in {"sent", "answered"}
  /\ \/ Unanswerable(c) /\ UNCHANGED faults
     \/ faults < MaxFaults /\ faults' = faults + 1
  /\ outbox' = [outbox EXCEPT ![c] = IF c \in Web THEN @ \union sent[c].ops ELSE @]
  /\ phase' = [phase EXCEPT ![c] = "idle"]
  /\ sent' = [sent EXCEPT ![c] = NoRequest]
  /\ acks' = [acks EXCEPT ![c] = {}]
  /\ UNCHANGED <<now, serverVars, net, copyVars, edit, cursor, answer, upto>>

-----------------------------------------------------------------------------
(* Pull *)

\* The outbox was listed empty: on to the pull.
PullBegin(c) ==
  /\ phase[c] = "idle"
  /\ outbox[c] = {}
  /\ phase' = [phase EXCEPT ![c] = "pull"]
  /\ UNCHANGED <<now, serverVars, net, copyVars, outbox, edit, cursor, sent, acks, answer, upto, faults>>

\* The server answers with the row if it changed since the cursor.
PullSelect(c) ==
  /\ phase[c] = "pull"
  /\ tx = NoTx
  /\ answer' = [answer EXCEPT ![c] = IF change > cursor[c] THEN row ELSE None]
  /\ upto' = [upto EXCEPT ![c] = change]
  /\ phase' = [phase EXCEPT ![c] = "pulled"]
  /\ UNCHANGED <<now, serverVars, net, copyVars, outbox, edit, cursor, sent, acks, faults>>

\* Mutant: an empty answer is applied too.
PullOverwriteAlways(c) ==
  /\ phase[c] = "pulled"
  /\ c \in Web
  /\ local' = [local EXCEPT ![c] = answer[c]]
  /\ cursor' = [cursor EXCEPT ![c] = upto[c]]
  /\ phase' = [phase EXCEPT ![c] = "idle"]
  /\ answer' = [answer EXCEPT ![c] = None]
  /\ UNCHANGED <<now, serverVars, net, stamp, written, outbox, edit, sent, acks, upto, faults>>

\* Web: copy and cursor in one transaction, whatever the copy is.
PullOverwrite(c) ==
  /\ phase[c] = "pulled"
  /\ c \in Web
  /\ local' = [local EXCEPT ![c] = IF answer[c] = None THEN @ ELSE answer[c]]
  /\ cursor' = [cursor EXCEPT ![c] = upto[c]]
  /\ phase' = [phase EXCEPT ![c] = "idle"]
  /\ answer' = [answer EXCEPT ![c] = None]
  /\ UNCHANGED <<now, serverVars, net, stamp, written, outbox, edit, sent, acks, upto, faults>>

\* Android: the copy, whatever it is, and later the cursor.
PullReplace(c) ==
  /\ phase[c] = "pulled"
  /\ c \in Android
  /\ local' = [local EXCEPT ![c] = IF answer[c] = None THEN @ ELSE answer[c]]
  /\ phase' = [phase EXCEPT ![c] = "merged"]
  /\ answer' = [answer EXCEPT ![c] = None]
  /\ UNCHANGED <<now, serverVars, net, stamp, written, outbox, edit, cursor, sent, acks, upto, faults>>

\* Mutant: iOS overwrites its copy like the web client.
TakesAlways(c) == answer[c] # None

\* A copy that beats what was pulled stays, compared with the id it carries.
Takes(c) ==
  /\ answer[c] # None
  /\ ~Beats([local[c] EXCEPT !.by = stamp[c]], answer[c])

\* iOS: the copy ...
PullMerge(c) ==
  /\ phase[c] = "pulled"
  /\ c \in Ios
  /\ local' = [local EXCEPT ![c] = IF Takes(c) THEN answer[c] ELSE @]
  /\ stamp' = [stamp EXCEPT ![c] = IF Takes(c) THEN answer[c].by ELSE @]
  /\ phase' = [phase EXCEPT ![c] = "merged"]
  /\ answer' = [answer EXCEPT ![c] = None]
  /\ UNCHANGED <<now, serverVars, net, written, outbox, edit, cursor, sent, acks, upto, faults>>

\* ... then the cursor, on Android once the whole run has succeeded.
PullAdvance(c) ==
  /\ phase[c] = "merged"
  /\ cursor' = [cursor EXCEPT ![c] = upto[c]]
  /\ phase' = [phase EXCEPT ![c] = "idle"]
  /\ UNCHANGED <<now, serverVars, net, copyVars, outbox, edit, sent, acks, answer, upto, faults>>

\* The page closes or the app is killed, at any point of a run.
Crash(c) ==
  /\ faults < MaxFaults
  /\ phase[c] # "idle" \/ edit[c] # NoEdit
  /\ edit[c].at = "put" => MidEditCrash
  /\ faults' = faults + 1
  /\ edit' = [edit EXCEPT ![c] = NoEdit]
  /\ phase' = [phase EXCEPT ![c] = "idle"]
  /\ sent' = [sent EXCEPT ![c] = NoRequest]
  /\ acks' = [acks EXCEPT ![c] = {}]
  /\ answer' = [answer EXCEPT ![c] = None]
  /\ UNCHANGED <<now, serverVars, net, copyVars, outbox, cursor, upto>>

-----------------------------------------------------------------------------
ServerStep ==
  \/ \E req \in net : PushReceive(req)
  \/ \E v \in tx.todo : PushApply(v)
  \/ PushCommit
  \/ PushAbort

DeviceStep(c) ==
  \/ EditStart(c)
  \/ EditPut(c)
  \/ EditQueue(c)
  \/ EditSave(c)
  \/ EditAtOnce(c)
  \/ PushSend(c)
  \/ \E v \in acks[c] : Ack(c, v)
  \/ PushOnce(c)
  \/ PushNext(c)
  \/ PushFail(c)
  \/ PullBegin(c)
  \/ PullSelect(c)
  \/ PullOverwrite(c)
  \/ PullReplace(c)
  \/ PullMerge(c)
  \/ PullAdvance(c)
  \/ Crash(c)

Next ==
  \/ \E a \in Agents : AgentWrite(a)
  \/ ServerStep
  \/ \E c \in Devices : DeviceStep(c)

Spec == Init /\ [][Next]_vars

-----------------------------------------------------------------------------
(* Properties *)

\* Whatever the order in which pushes arrive, are retried, delayed or repeated,
\* the server keeps the last writer: no pushed snapshot beats the row.
LastWriterKept == \A v \in ledger : ~Beats(v, row)

\* A snapshot takes effect once.  A retry whose first answer was lost must not
\* bring it back over what an agent wrote in between with an earlier clock.
AppliedOnce == [][\A v \in ledger : row' = v => row = v]_vars

\* The server is a last-writer-wins register: the operations of a batch count
\* once and together, whatever is lost, repeated, delayed or rolled back.
Register == INSTANCE LastWriterRegister WITH
  Initial <- Seed, value <- row, counted <- ledger

ImplementsRegister == Register!Spec

\* What an app shows as its own edit is on its way or has been processed, and so
\* is what a web page shows unless a page may close between its two writes.
OwnEditsTravel ==
  \A c \in Devices :
    local[c].by = c =>
      \/ local[c] \in outbox[c] \union ledger
      \/ edit[c] = [at |-> "put", v |-> local[c]]
      \/ c \in Web /\ MidEditCrash

\* No device shows a card older than an edit it still has to push.
ShowsQueuedEdits(c) == \A v \in outbox[c] : ~Beats(v, local[c])

\* A device that differs from the server has an edit to push or a change to pull.
DivergenceIsOwed(c) ==
  local[c] # row =>
    \/ outbox[c] # {}
    \/ edit[c] # NoEdit
    \/ change > cursor[c]

\* iOS merges by LWW inside the transaction (SyncApplier), so a pull never puts
\* back what an edit has replaced: the copy is no older than the snapshot the device
\* wrote last, whatever was in flight when it was written.  (It may be older than
\* another queued one, if that was written first: reviews are saved late.)
IosShowsLastEdit == \A c \in Ios : written[c].at <= local[c].at

\* A device whose cursor has reached the last change shows the server's row, or an
\* edit of its own, or, where copies are compared, one that beats the row: with any
\* clocks no change of others gets lost between copy and cursor, whatever is edited,
\* pushed and merged between the two.
CaughtUpShowsRow ==
  \A c \in Devices :
    cursor[c] = change =>
      \/ local[c] = row
      \/ local[c].by = c
      \/ c \in Ios /\ Beats(local[c], row)

\* What the clients' contract says of every client.
AllShowQueuedEdits == \A c \in Devices : ShowsQueuedEdits(c)
AllDivergenceIsOwed == \A c \in Devices : DivergenceIsOwed(c)
=============================================================================
