# Verification of Cardly

Cardly is an offline-first flashcards application: a PostgreSQL backend (`apps/backend`), an auth
service (`apps/auth`), and web, iOS and Android clients that each keep a local database and
synchronise with the backend. This directory holds TLA+ specifications of the parts where the order
of things decides whether the program is right, the TLC configurations that check them on small
instances, and TLAPS proofs.

Paths below are relative to the repository; `backend` is `apps/backend/src`, `web` is `apps/web/src`,
`ios` is `apps/ios/Flashcards/Flashcards`.

## 1. The system

| Component | State | Operations | Talks to |
|---|---|---|---|
| **Sync server, hot lane** (`backend/sync/replication`, `cards/mutations.ts`) | current-state tables, `sync.hot_changes`, `sync.workspace_sync_metadata` | lock the metadata row, upsert a root and log a change, pull, bootstrap | clients (HTTP), agents (same tables) |
| **Push** (`push.ts`, `conflicts/lww.ts`) | `sync.applied_operations_current` | receive a batch, skip known operations, last-writer-wins per root | clients' outboxes |
| **Web client** (`web/appData/sync`, `web/localDb`) | IndexedDB: roots, outbox, `workspaceSyncState` | edit, bootstrap, push, pull, review-history pull | server; other tabs through IndexedDB |
| **iOS client** (`ios/Cloud/Sync`, `ios/Database`) | SQLite: the same | edit in one transaction, push, merge, advance the cursor | server |
| **Android client** | Room: the same | one batch per run, overwrite, cursor kept on success | server |
| **Review-history lane** (`reviewHistory.ts`, `cards/review`) | `content.review_events`, `review_sequence` | append, import, pull | all clients |
| **Workspace fork** (`conflicts/fork.ts`, clients) | ids | copy local rows under new ids after a 409 | push and bootstrap |
| **FSRS scheduler** (`backend/scheduling`) | none (pure) | next schedule of a card after a rating | review submission on every platform |
| **AI chat runs** (`backend/chat/runs`, `chat/worker`) | `ai.chat_runs`, `ai.chat_sessions`, items | prepare, claim, heartbeat, cancel, finish, recover | Lambda workers, live stream |
| **Card-image promotion** (`backend/chat/cardImages/promotion`) | leased jobs | enqueue, claim, apply, reschedule, fail, revoke | media blobs, cards |
| **Media** (`backend/mediaAssets`) | upload sessions, blob writers, blobs | multipart upload, complete, abort, clean up | S3, clients' transfer queues |
| **Guest accounts** (`backend/guestAuth`) | guest sessions, upgrade history | upgrade, merge, reap, replay | sync tables |
| **Auth** (`apps/auth`) | OTP attempts, agent keys, OAuth codes and tokens | send, verify, exchange, refresh | Cognito |
| Progress, community, catalog, packages, analytics, admin | projections | queries and single transactions | – |

Two locks order what the server does in a workspace: a transaction-level advisory lock per user and
workspace (`workspaces/accessLocks.ts`) and the row lock on the workspace's sync metadata
(`changes.ts`). The server notifies nobody of a change: clients find out when they pull.

What is hard here, component by component, and what makes each one right:

- *Hot lane.* Change ids are handed out before commit, pages are read by several READ COMMITTED
  statements, a bootstrap spans several transactions. Right: no change is ever skipped, copies only
  move forward, everybody converges.
- *Push and edits.* Lost answers, late duplicates, devices with wrong clocks, agents that write past
  last-writer-wins, edits made while a sync run is under way. Right: the last writer is kept, an
  operation takes effect once, no edit that is shown stops travelling, no device stays wrong for ever.
- *Web client.* An edit is two IndexedDB transactions, a review four; tabs share the database; the
  browser may evict it.
- *Review history.* The same hazard as the hot lane without its lock.
- *Chat runs.* A claim that is taken over from a slow worker; completion races cancel and recovery; run
  and session rows are locked in both orders; invocations are lost, killed and delivered twice. Right:
  runs take turns, each ends once, only the latest claimant answers, every run ends.
- *Promotion jobs and media blobs.* Two stores (S3, database) that cannot commit together; leases that
  expire under slow workers; requests to S3 that land after their sender gave up; commits whose
  outcome is unknown. Right: a blob in use is never deleted, no stored byte is forgotten, job,
  asset and reservation agree, an unedited card shows its job, and what is settled stays settled.
- *Guests.* A retried upgrade after the guest is gone; the reaper against a returning guest.

`PROJECT.json` lists each hazard at its line with the properties that cover it.

## 2. Modules

| Module | What it is |
|---|---|
| `HotChangeLog` | the hot lane: write transactions, pull and bootstrap statement by statement, the clients' local position |
| `OrderedFeed` | abstract specification: a growing feed and readers covered up to a position |
| `HotChangeFeed` | the refinement mapping from the first to the second |
| `HotChangeInvariant` | the inductive invariant `IInv`, in named parts |
| `HotChangeProofs` | TLAPS proofs about the hot lane |
| `CardSync` | one card edited on web, iOS and Android devices and by agents: edit, outbox, push, ledger, last-writer-wins, pull |
| `LastWriterRegister` | abstract specification: what the server promises about a card |
| `CardSyncInvariant`, `CardSyncProofs` | the inductive invariant of `CardSync`, in named parts, and the proofs |
| `ChatRuns` | one chat session: API requests and workers, transactions row by row |
| `TurnTaking` | abstract specification: runs take turns and end once |
| `ChatRunsInvariant` | three invariants: of rows and turns (`IInv`), of locks (`LockInv`), of claims (`ClaimInv`) |
| `ChatRunsProofs`, `ChatLocksProofs`, `ChatClaimsProofs` | the proofs about each |
| `MediaBlobs` | one permanent blob: promotion jobs, catalog covers, cleanup, S3 |
| `FencedBlob` | abstract specification: use while stored, delete behind a fence |
| `MediaBlobsInvariant`, `MediaBlobsProofs` | its inductive invariant and the proofs |
| `MCHotChangeLog`, `MCCardSync`, `MCChatRuns`, `MCMediaBlobs` | the instances TLC checks |

`HotChangeLog` and `CardSync` are two views of the same path: the first orders the log and its
readers, the second follows one card through it. `MediaBlobs` composes three components that meet at
the blob's lifecycle row: card-image promotion, the cleanup, and the catalog cover.

### HotChangeLog

| State | Code |
|---|---|
| `log`, `seq` | `sync.hot_changes` of a workspace and its identity sequence |
| `rows` | `org.workspaces` (settings), `content.cards`, `content.decks`, `content.media_assets`, each root named by its latest change |
| `accessHolder` | `pg_advisory_xact_lock` of `lockWorkspaceAccessLifecycleInExecutor` |
| `open`, `locked`, `draft` | write transactions, the metadata row lock, uncommitted changes |
| `local`, `cursor`, `hydrated` | IndexedDB stores and `WorkspaceSyncStateRecord` |
| `phase`, `page`, `entries`, `next`, `more`, `floor`, `after` | the request in progress, its answer, and the loop's memory |

A write is `Begin`, `Lock`, `Write`*, `Commit` or `Abort`. Pushes take the access lock first, agents and
routes do not, so the two kinds interleave up to the metadata lock. A pull is `PullBegin` (which takes
the access lock), `PullSelect` (one statement: page and greatest id from one snapshot), one `PullLoad`
per kind of root (the payload queries run under `Promise.all` on one connection, in any order, each
with a snapshot of its own), `PullAnswer`, `PullApply`. A bootstrap is `BootBegin`, `BootFloor` on the
first page, `BootSelect`, `BootApplyPage` or `BootApplyLast`. `Drop` ends a run anywhere; `Evict`
empties the local database.

Simplifications: an uncommitted change that the same transaction supersedes is not kept (it is never
selected); `Drop` releases the server's lock at once (the server would finish the transaction, which
writes nothing); all current clients ask for media assets, older ones do not, hence `MediaAware`;
`min_available_hot_change_id` is never raised by the code, so the 409 that asks for a fresh bootstrap
cannot happen and is left out.

### CardSync

| State | Code |
|---|---|
| `row`, `change`, `ledger` | `content.cards`, its latest hot change, `sync.applied_operations_current` |
| `net` | requests sent and not yet received, also those their sender gave up on |
| `tx` | the push transaction in progress (access and metadata lock) |
| `local`, `outbox`, `cursor` | the device's database |
| `stamp` | the id an iOS copy carries: its own installation id, or the replica id of what was pulled |
| `edit` | an edit whose time is taken and which is not written yet: on the web before or between its two transactions, on the apps before their one |
| `written` | the snapshot an iOS device wrote last (history) |
| `phase`, `sent`, `acks`, `answer`, `upto` | the device's sync run |

A snapshot of the card is named by its LWW metadata (time, replica, operation id), because nothing in
this path looks at the fields. Time is one tick per edit plus a per-actor `Skew`. The code's two-step
web edit (`putCard`, `putOutboxRecord`) is `EditStart`, `EditPut`, `EditQueue`. The apps write copy and
outbox in one transaction, without a comparison. Some of their edits take the time long before it
(`EditStart`, `EditSave`): an iOS review when it is put in the queue of reviews to save, an Android
edit before its Room transaction. Others take it inside (`EditAtOnce`): an iOS edit or deletion, an
Android deletion; these may come between the two halves of the former. Web and iOS push until the outbox is empty and delete
acknowledged rows one by one (`Ack`, `PushNext`); Android deletes them in one statement and pulls after
one batch (`PushOnce`), whatever else is queued. Web applies a pull with `PullOverwrite` (copies and
cursor in one transaction, no comparison), iOS with `PullMerge` (LWW) and then `PullAdvance`, Android
with `PullReplace` (no comparison) and `PullAdvance` when the run has succeeded. An iOS copy made on the device carries the
installation id, where the server stamps the snapshot with a replica id derived from it; the merge
compares the former with the replica id of what it pulled, and nothing relates the order of the two
(`stamp`, `InstallationId`). `AgentWrite` replaces
the row in place. One root is enough: roots never meet in this code.

Simplifications: pages, statements and locks of a pull are `HotChangeLog`'s; one edit of a device is
on its way to its database at a time, besides those made at once; a review whose card has been deleted
meanwhile fails and is dropped, which is a `Crash` of the edit; agents wait while a push transaction is open, although the push takes the
metadata lock only at its first operation (the agent's write could equally come before the receipt).
Android reads the card before its transaction, which matters only for fields. The web queue is read in
the order of the snapshots' times; the apps' queues by the clock at the insertion, which late
reviews separate from the snapshots' times, so a batch of theirs takes any of the queued rows, in any order
(`Batches`, `PushApply`), which is more than the code can do.

### ChatRuns

| State | Code |
|---|---|
| `session`, `run`, `item` | `ai.chat_sessions`, `ai.chat_runs`, the assistant item of each run in `ai.chat_items` |
| `invoked`, `deliveries` | asynchronous Lambda invocations (`runs/invoker`) |
| `worker` | the invocation in `worker/handler`, its turn and what its heartbeat timer has learnt |
| `client` | an API request of `http/`: between prepare, dispatch and the failure of the dispatch |
| `txn` | the open transaction of each process and the rows it holds |

A transaction locks its rows in the code's order (`Rows`), one step each (`Lock`), and the last lock is
the commit, where everything it decides is decided from rows it holds. `Prepare`, `Dispatch`,
`DispatchFailed`, `Read` (with recovery of a stale run), `Interrupt` and `Stop` belong to requests;
`Claim`, `Heartbeat`, `Stream`, `Finish` to workers, whose turn and timer are two processes.
`Deliver` may repeat, `Crash` forgets a worker, `Abort` is PostgreSQL's deadlock victim, `Age` makes a
heartbeat stale at any moment.

Simplifications: the user's item and all text are left out; the unlocked first look of the recovery is
part of its lock; the claim's branch that cancels a queued run, and recovery of a run that has already
ended, cannot be reached (the latter follows from `IInv`).

### MediaBlobs

| State | Code |
|---|---|
| `job`, `asset`, `writer` | the job row, its `content.media_assets` row, its `media_blob_writer_reservations` row |
| `card` | the image in the text of the job's card (*pending*: exactly one pending marker; *tangled*: several, or Markdown too complex to rewrite; *gone*: removed or moved), and whether anybody has edited that text (history) |
| `life` | `media_blob_lifecycles`: `cleanup_eligible_at` (none, in the future, due), the cleanup lease (none, finite, expired, infinity) and its token |
| `attempt` | the newest row of `media_blob_cleanup_attempts` |
| `cover`, `ingest` | the catalog reference and the admin request that makes it |
| `object`, `copying`, `deleting` | the object in S3, COPY and DELETE requests on their way |
| `worker`, `cleaner` | how far each invocation is and what it remembers |
| `member` | the membership that a job's effects require (`org.workspace_memberships`) |

A worker goes through `ClaimJob`, `Reserve`, `HeadObject`, `CopyObject`, `HeadObject`, `Apply`; errors lead
to `Reschedule`, `FailJob`, `FailAfterRevocation` or to nothing, so that the job waits for its lease. An
apply whose commit is unknown marks its reservation (`MarkAmbiguous`) and is replayed. An apply needs
exactly one pending marker on the side of the card it was made for; anything else settles the job as
failed (`ApplyConflict`). A failure marks all pending markers as failed, or leaves the text as it is when
it is too complex (`FailCard`). `EditCard` is a user, an agent or a device that pushes its
snapshot of the whole card: it comes at any time, before and after the job is settled, and leaves any
image, an old pending marker included. A cleaner goes
through `Look` and `Claim`, `Authorize`, `RenewHead`, `HeadForCleanup`, `RenewDelete`, `SendDelete`,
`RenewComplete`, `Complete`, and records its failures; `TakeOver` continues the attempt of another.
Each SQL function locks the lifecycle or job row first and is one step; `claim_next` is two, because its
`WHERE` reads the uses of the blob from the statement's snapshot before it waits for the lock.

Simplifications. One content hash, since no function touches two. Lease tokens are the holders' names
and only the newest cleanup generation exists, as every check compares both. The staging object is
there (its absence is one of the final failures). Jobs are of the current protocol; the reuse of a
reservation that was closed without a reference, which only a repeated enqueue could reach, does
not happen. A claim's idempotent replay is left out. Time enters in two places: a lease of a process
that is not slow outlasts its work, and the hour before a blob is due (`Ripen`) outlasts a COPY on its way
and the catalog request; the code relies on both. An attempt that ended in doubt
(`reconciliation_required`, or `deleting` with its lease expired) keeps its fence: an operator resolves
it. Of a card's text only the image of its own job is kept; an editor may leave any of the five, rather
than one that a particular text would come to. A membership ends with the deletion of its account and may be
inserted again, which the second look at it in the SQL functions is written for; the application itself
inserts memberships with new workspaces only.

## 3. Checks

| Run | Instance | Shows |
|---|---|---|
| `hot_safety` | 3 roots (settings, card, media asset), 2 clients (with and without media), 1 push, 1 agent, page of 1, 3 change ids, 1 fault; 497,795 states | `CursorCoversState`, `AppendsInOrder`, `IInv`, refinement of `OrderedFeed` |
| `hot_live` | 1 client, 1 push, 1 agent, page of 1, 3 change ids, 2 faults | `Converges` |
| `hot_evict` | eviction allowed between bootstrap pages | violates `CursorCoversState` |
| `sync_devices` | web 1 tick late (so that times may be equal), iOS whose installation id comes after every replica id, agent; batches of 1; 3 edits; 1 fault; 1,990,899 states | `LastWriterKept`, `OwnEditsTravel`, `IosShowsLastEdit`, `CaughtUpShowsRow`, `IInv` |
| `sync_retry` | web, Android, an agent 2 ticks late; batches of 2; 3 edits; 1 fault; web edits may be cut short; 1,844,414 states | `AppliedOnce`, `OwnEditsTravel`, refinement of `LastWriterRegister` |
| `sync_overwrite` | a web client alone, 2 edits, no fault | violates `AllShowQueuedEdits` |
| `sync_ignored` | a web client 2 ticks late and an iOS client, 2 edits, no fault | violates `AllDivergenceIsOwed` |
| `chat_claims` | 2 runs, 2 workers, 1 API request, 2 deliveries; 792,009 states with symmetry | `SessionTracksOpenRun`, `OnlyLastClaimantAnswers`, `OneOwner`, `LockInv`, `LockedRowsStay`, `LiveTurnsDoNotDeadlock`, refinement of `TurnTaking`, `IInv` |
| `chat_live` | 1 run, 1 worker, 1 API request, 2 deliveries; 7,029 states | `EveryRunEnds` |
| `chat_final` | the same, 1 delivery | violates `EndedRunsStayFinal` |
| `blobs_fence` | 1 job, 2 workers, 1 cleaner, 2 attempts, 1 fault; 2,095,552 states with symmetry | `FencedBlobIsUnused`, `CardsShowTheJob`, `StoredBlobIsAccountedFor`, `SettledJobsStayAsTheyAre`, refinement of `FencedBlob`, `IInv` |
| `blobs_leak` | 1 job, 1 worker, 1 cleaner, no fault | violates `SettledJobsReleaseTheirWriter` |

Why the bounds suffice. A page of one entry makes every loop iterate and puts every write between two
pages. Three change ids are the seed and two more: enough for a change that commits behind another,
for one root changed twice, and for an id past a page's last. One client with media and one without
cover the two ways an answer's position is computed. A batch of two and three edits let a batch be
repeated after an agent has replaced the row, and leave edits queued behind a batch. One fault at any
point is every single failure: a device that gives up on a request and sends it again already makes
both arrive, in either order. Two
chat workers on two runs give a claim taken over from a worker that is alive, and a run pushed aside
while its worker goes on; two deliveries give a run delivered twice. Crashes, aborts and stale
heartbeats of a chat run are not bounded. Two promotion workers give a lease taken over from a slow
holder; two attempts give one that is retried and one that is the last (the code has five). One fault is
one crash, one slow worker or one restored membership; a cleaner may be killed, and S3 requests may be
late or lost, without a bound. The lone cleaner also takes over from itself: after a crash its name
comes back with nothing but the leases it left.

Each property has a mutant of the code (defined next to what it mutates, with a comment that starts
with *Mutant*) that TLC refutes under the same configuration. Deadlock is checked except in the
blobs' runs, where everything may be settled and nobody has to begin anything.

Fairness (`HotChangeLog!Fairness`): PostgreSQL ends every transaction, since statement deadlines abort
a stuck one, and serves both lock queues in order (`SF` on `Lock` and on starting a request, since both
are disabled while another holds the lock); a client keeps asking because the engine starts a run
after each edit, on focus and every minute (`useWorkspaceLifecycle.ts:575`). Nothing forces writes,
drops or evictions to happen.

In `chat_live` (`ChatRuns!Fairness`) PostgreSQL serves lock queues and ends transactions, and somebody
keeps reading the session (`Poll`): the client asks for a snapshot while a run is open. Nobody has to send a
message, no invocation has to be delivered, no heartbeat has to be sent and no worker has to survive.
Recovery happens when somebody reads and not before, which is why reading is the assumption.

`MediaBlobs` states no liveness: a reservation whose commit stays unknown makes the worker drop the job
without counting an attempt, so a job may legitimately be tried for ever.

### What the violations say

1. **Eviction inside a bootstrap** (`hot_evict`). `bootstrapHotState` asks once whether the workspace
   is hydrated and then loops; if the database disappears between two pages, the last page still
   stores the position and `markHotStateHydrated` into the new, empty database. The roots of the lost
   pages are not asked for again until they change. A comment in the same function says that the loop
   re-hydrates the full hot state after an eviction "at any time".
2. **Pull over a newer edit** (`sync_overwrite`). The web client applies a page without comparing it
   with its copy. Edit A is pushed, the outbox is empty, the pull is sent; edit B is made; the answer
   carrying A replaces B in the local copy. B is still in the outbox and reaches the server, but until
   then the page shows A, and an edit C made in between is built on A, so B's fields are lost. iOS
   compares first. Android overwrites too, and needs no race for it: with more rows queued than a batch
   takes (200), every run pulls over the rest (`Web = {}`, `Android = {1}` in the same configuration).
3. **Ignored and never repaired** (`sync_ignored`). A device whose clock is behind saves an edit that
   loses on the server. The operation is acknowledged as *ignored*, its outbox row goes, and if the
   pull cursor already passed the winner, nothing brings it back. The server returns the winner's
   change id for this purpose; no client reads it. A clock need not be wrong for this: an edit that is
   written long after its time is taken, such as an iOS review that waits in its queue while a newer row
   is pulled, ends the same way. So nothing here claims of any client that its differences from the server
   are owed; what does hold is `CaughtUpShowsRow`, which leaves a device its own edits.
4. **A late piece of an ended answer** (`chat_final`). The stream's pieces are written by item id
   alone. A worker that is slow while a reader interrupts its run puts the final item back to
   *in progress*, although the claim service says that a worker that loses ownership must stop mutating
   state. The run and the session are not affected.
5. **A reservation nobody closes** (`blobs_leak`). A first attempt reserves the blob and is rescheduled; the
   next one fails for good before it has its reservation in hand. `failGeneratedMediaPromotionJob`
   then settles the job alone, the reservation stays *active*, and the blob's cleanup is blocked for
   ever. The table's comment promises a terminal outcome. After a revoked membership the code finds
   the reservation by the job's operation and closes it.

`OwnEditsTravel` claims nothing of web pages that may close inside an edit (`MidEditCrash`): one that
closes between `putCard` and `putOutboxRecord` leaves an edit that is shown and never pushed. The
repository promises nothing about that case, so it is stated here and not as a finding. The apps write
both in one transaction and are held to the property in every run.

## 4. Proofs

`HotChangeProofs.tla` proves, for all values of the constants that satisfy the named assumptions and
`~EvictMidBootstrap`:

- `HotChangeInductive`: `Spec => []IInv`;
- `HotChangeTypes`, `NoChangeSkipped`, `CommitsInIdOrder`: `TypeOK`, `CursorCoversState`,
  `AppendsInOrder`;
- `HotChangeLogImplementsFeed`: `Spec => Feed!Spec`.

The feed says that a client's copies and its position only move forward, eviction apart, and that a
hydrated client is covered up to its position.

`CursorCoversState` alone is not inductive: it speaks of applied pages only. `IInv` adds four things.
*Ordering*: only the holder of the metadata lock has uncommitted changes, and their ids are above
every committed one (`WritersOrdered`), so whatever commits later is above every position the server
has given out (`PositionsCommitted`). *Freshness*: copies are never ahead of the rows, answers never
behind the copies they replace (`VersionsOrdered`). *Progress*: a position that a loop still holds in
memory, which it stores without comparing, is not behind the stored one (`PositionsRise`); a bootstrap
that begins with a position left over from an evicted database reads a later one. *Coverage*, one part per stage of a request: page
selected or loaded (`PullCovers`), bootstrap in progress (`BootCovers`, `BootAnswerCovers`), position
stored (`CursorCovers`). There is one lemma per part of the invariant, with one step per action
under it.

`EvictMidBootstrap` must be FALSE: with it the first finding refutes the theorem.

`CardSyncProofs.tla` proves, for any number of web, iOS and Android devices and agents, any batch size,
any bounds and any clocks (`Skew`) unless an assumption is named:

| Theorem | Property | Assumption |
|---|---|---|
| `CardSyncInductive`, `CardSyncTypes` | `IInv`, `TypeOK` | none |
| `EffectsHappenOnce` | `AppliedOnce` | none |
| `CardSyncImplementsRegister` | `ImplementsRegister` | none |
| `IosAlwaysShowsLastEdit` | `IosShowsLastEdit` | none |
| `WhoIsCaughtUpShowsTheRow` | `CaughtUpShowsRow` | none |
| `OwnEditsAlwaysTravel` | `OwnEditsTravel` | none |
| `LastWriterIsKept` | `LastWriterKept` | `AgentsNotBehind`: no agent's clock is behind a device's |

The assumption is one the code needs: agents write past last-writer-wins, so an agent with a late
clock lowers the row (the `sync_retry` run). `IosShowsLastEdit` speaks of the edit written last and not
of all queued ones: a review saved late puts its older snapshot over a newer one that is still queued.

The argument. *Names*: a snapshot stays under the name of its maker wherever it travels, and maker and
operation id determine it (`SnapshotsMade`), so the ledger, which stores names only, recognises
snapshots. *The ledger as the only way in*: a device's snapshot reaches the row, an answer or an
acknowledgement only once the ledger has it (`ThroughLedger`, `BatchSound`); repetitions are therefore
stale, and what an acknowledgement removes from an outbox has been processed. *Order*:
last-writer-wins is a total order, and a batch in progress holds the greatest of the row it found and
the new operations it processed (`BatchHoldsLast`), and of everything in the ledger while no agent
lowers the row (`LastWriterHeld`). The former is what the refinement needs: a commit adds the batch's new
operations to the register at once and leaves the last of them and of what was there, an agent replaces
the value, and every other step, of a server transaction or of a device, changes nothing the register
shows. *Step*: at each stage of a pull a device's cursor stops short of any change that its copy has not
taken (`InStep`): a copy whose cursor has reached the last change is the row, the device's own edit or, on
iOS, a snapshot that beats the row (`MayShow`). A copy of another's snapshot carries that one's
replica id, so a merge that keeps it keeps one that beats the answer; for a copy of its own the ids'
order does not matter, as it may be shown in any case.

The three modules about `ChatRuns` prove, for any runs, workers, API requests and deliveries:

| Theorem | Property |
|---|---|
| `ChatRunsInductive`, `ChatRunsTypes` | `IInv`, `TypeOK` |
| `SessionAlwaysTracksOpenRun` | `SessionTracksOpenRun` |
| `OnlyTheLastClaimantAnswers` | `OnlyLastClaimantAnswers` |
| `ChatRunsImplementTurns` | `ImplementsTurns` |
| `ClaimsTellTurnsApart`, `OneWorkerOwnsTheRun` | `ClaimInv`, `OneOwner` |
| `ChecksStand`, `LockedRowsAreKept` | `LockInv`, `LockedRowsStay` |
| `LiveTurnsNeverDeadlock` | `LiveTurnsDoNotDeadlock` |
| `RequestsNeverDeadlock` | `RequestsDoNotDeadlock`, stated there |

*Rows and turns* (`IInv`). In the model a transaction takes its decisions at its last lock, from the rows
as they are then; so it is enough that a turn remembers the claim its transactions carry (`TurnsSound`,
`TxnsSound`) and that the session names a run exactly while it is running (`RunningMeansActive`).

*Locks* (`LockInv`). The code decides earlier, on each row as it locks it, and does not look again. That
this comes to the same is the content of `ChecksStand`: a transaction holds a prefix of its rows, and what
it concluded from them still holds (`HeldSound`), because no row has two holders (`LocksExclude`) and
nobody writes a row without holding it (`LockedRowsAreKept`). The clock is the one thing that changes
under a lock: a heartbeat may grow old, and what the code concludes from an old one stays true.

*Deadlocks*. Claims, heartbeats, terminal writes, failed dispatches and interrupts lock the run first. A
transaction of these that waits for an item holds the item's run, and one that holds the session waits
for an item; whoever holds an item holds its run too. So in a circle of such waiters nobody can be
waiting for an item (its holder would also need the run), hence nobody holds the session, hence nobody
waits for it, hence everybody waits for a run and holds nothing. Recovery, stop and prepare lock the session
first, and only one of them can hold it. Circles of both kinds together do occur, and so does one of two
workers: a stream locks its item and then the session, so a worker that has lost its run and streams all
the same closes a circle with the terminal write of the worker that took over. PostgreSQL breaks them
(`Abort`). `LiveTurnsNeverDeadlock` says that there is no other: in a circle without session-first
requests somebody waits for the session; its holder is a terminal write that has passed the fence and waits
for its item; a stream of the same run holds that item; and since a claim has one turn (`ClaimInv`)
and only turns stream (`TurnsOnMain`), that stream's worker no longer has the run. So turns that have their
run never wait for each other in a circle. This proof rests on `ChatClaimsProofs`.

*Claims* (`ClaimInv`). A turn holds a claim between the first and the latest of its run (`TokenKnown`), so
the next claim is nobody's, and two turns of one run never hold the same (`TokensDiffer`). This rests on
a claim's time (`statement_timestamp()` under the lock of the run) being later than the one before;
the model counts claims instead.

`MediaBlobsProofs.tla` proves, for any number of jobs, workers and cleaners and any bounds:

| Theorem | Property |
|---|---|
| `MediaBlobsInductive`, `MediaBlobsTypes` | `IInv`, `TypeOK` |
| `FencedBlobIsNeverUsed` | `FencedBlobIsUnused` |
| `StoredBlobIsNeverLost` | `StoredBlobIsAccountedFor` |
| `CardsAlwaysShowTheJob` | `CardsShowTheJob` |
| `SettledJobsAreFinal` | `SettledJobsStayAsTheyAre` |
| `MediaBlobsImplementFencedBlob` | `ImplementsFencedBlob` |

`CardsShowTheJob` ties asset and job together always, card and job only while nobody has edited the
card. An edited card may show anything: a failed job keeps a pending marker on a card where it was
duplicated or whose Markdown is too complex (as `jobsSettlement.postgres.integration.ts` asserts), a
user removes a finished image, a device pushes a snapshot with an old marker. What holds of those cards is
the second property: once the job is settled, only an editor changes them.

The argument. *The fence is the attempt's* (`FenceSound`): the lifecycle's lease is infinite exactly while
the newest attempt has been authorized and is not completed, and nothing uses the blob then, since
authorization looks again under the lock and every use asks for the lease. *Whoever may still
store is protected* (`UsesSound`): a COPY on its way or a catalog request under way implies a reference,
an open reservation or a delay that has not passed, so no cleanup can be authorized. *A leased worker
has what it relies on* (`WorkersSound`): its reservation before the write, the object after it. *A DELETE
on its way belongs to the current attempt* (`CleanersSound`): the attempt says *deleting* before the
request is sent and is never taken over afterwards, so the fence is still up when it lands. *An unedited
card has its one marker* (`JobsSound`), so no worker meets a conflict there, and every call that settles
the job rewrites it.

Left to TLC are the two liveness properties, `Converges` and `EveryRunEnds`, since liveness and `ENABLED`
are beyond the prover. Every invariant, action property and refinement that a passing run checks is
also a theorem. The five properties that the code violates are not.

## 5. Not modelled, and the plan

In order:

1. **Two tabs** (`WebTabs`): two runs over one local database. `HotChangeLog`'s client is one run at a
   time, as within one tab; two tabs each keep a position in memory, so a page answered earlier can be
   applied after a later one, and the review-history page writes back the sync state it read before its
   transaction. No lock coordinates tabs.
2. **Bootstrap** of the apps: Android skips rows with pending edits and pushes them before it counts as
   hydrated, iOS merges; then the recovery from a workspace fork.
3. **ReviewHistoryLane**: `review_sequence`, append and import under the access lock of several users,
   pull, and `submitReview`'s four local transactions. It reuses `OrderedFeed`.
4. **GuestUpgrade**: replay-safe completion against merge and reaper.
5. **Uploads**: multipart sessions and direct writers with their attempts, leases and reconciliation, as
   further users of `MediaBlobs`' lifecycle row; deletion of assets by sync.
6. **FSRS** state machine and **streak freeze** as operators against a reference definition.

Of the chat runs, `reconcileInactiveClaimedChatRun` (a tool call that finds its claim inactive), the live
stream's ownership, image operations of a run and pagination are left out. Of the media blobs, catalog
references other than the cover behave like it and are not separate; the manual resolution of an
attempt in doubt and the deletion of a workspace are left out.

Runs planned for these: tabs, review history, guest upgrade; each with two clients and one fault.
Theorems planned: the review lane's `NoReviewSkipped`, the upgrade's single completion.

Out of scope: the SQL dialect parser, package import and export, catalog publication and community queries,
analytics, admin reports and infrastructure have no protocol of their own; FSRS's floating-point
formulas are out of TLC's reach.
