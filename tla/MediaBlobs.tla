------------------------------ MODULE MediaBlobs ------------------------------
(***************************************************************************)
(* The life of one permanent media blob (one content hash): promotion jobs *)
(* write it for generated card images, an admin request writes and         *)
(* attaches it as a catalog cover, and cleaners delete it when nothing     *)
(* uses it (db/migrations 0089-0110, apps/backend/src/chat/cardImages/     *)
(* promotion, mediaAssets/blobLifecycle/cleanup, catalog/authoring/media). *)
(*                                                                         *)
(* Every SQL function locks the lifecycle or job row first, so each is one *)
(* step; the exception is the claim of a new cleanup, whose WHERE reads    *)
(* references from the statement's snapshot and then locks (Look, Claim).  *)
(* Requests to S3 are in flight on their own: COPY and DELETE may land     *)
(* after their sender has given up, and may be lost.                       *)
(*                                                                         *)
(* A lease token is the name of the process that holds it: a process       *)
(* claims only when idle and a killed one forgets, so a name is as good as *)
(* a fresh token.  Only the newest cleanup generation matters, every older *)
(* one is stale.  A lease is fresh or expired and expires at any moment.   *)
(*                                                                         *)
(* Of a card's text only its image counts: "pending" is exactly one        *)
(* pending marker on its side, "tangled" several of them or Markdown too   *)
(* complex to rewrite, "gone" none there, removed or moved.                *)
(***************************************************************************)
EXTENDS Naturals, FiniteSets

CONSTANTS
  Jobs,             \* promotion jobs; each has its operation, card and asset
  Workers,          \* invocations that process promotion jobs
  Cleaners,         \* invocations that clean blobs up
  Nobody,           \* null
  MaxAttempts,      \* maximumJobAttempts (5)
  MaxFaults         \* bound: crashes, slow workers and restored memberships

ASSUME NobodyAssumption == Nobody \notin Jobs \cup Workers \cup Cleaners
ASSUME AttemptsAssumption == MaxAttempts \in Nat \ {0}
ASSUME FaultsAssumption == MaxFaults \in Nat

VARIABLES
  job,              \* content.generated_media_promotion_jobs
  card,             \* the image in the text of the job's card, and whether anybody
                    \* has edited that text (history: nothing reads it)
  asset,            \* the job's row in content.media_assets exists
  writer,           \* the job's row in content.media_blob_writer_reservations
  life,             \* content.media_blob_lifecycles: eligibility and lease
  attempt,          \* the newest row of content.media_blob_cleanup_attempts
  cover,            \* a catalog cover references the blob
  member,           \* the jobs' user is a member of the workspace
  object,           \* S3 holds the permanent object
  copying,          \* jobs with a COPY request on its way
  deleting,         \* cleaners with a DELETE request on its way
  worker,           \* what each promotion invocation knows
  cleaner,          \* what each cleanup invocation knows
  ingest,           \* where the catalog cover request is
  faults            \* how many of MaxFaults have happened

jobRows == <<job, card, asset, writer>>
cleanup == <<attempt, cleaner, deleting>>
store == <<object, copying>>
vars == <<job, card, asset, writer, life, attempt, cover, member, object,
          copying, deleting, worker, cleaner, ingest, faults>>

-----------------------------------------------------------------------------
(* Rows *)

Unsettled == {"pending", "leased"}
Settled == {"applied", "failed"}
Open == {"active", "ambiguous"}
Images == {"pending", "ready", "failed", "gone", "tangled"}

NoJob == [state |-> "none", worker |-> Nobody, fresh |-> FALSE, retries |-> 0]
NoAttempt == [state |-> "none", cleaner |-> Nobody, fresh |-> FALSE]
NoCard == [image |-> "none", edited |-> FALSE]
IdleWorker ==
  [stage |-> "idle", job |-> Nobody, reserved |-> FALSE, retryable |-> FALSE]
IdleCleaner == [stage |-> "idle", sent |-> FALSE]

\* The lease of an attempt that is over opens nothing any more.
ClosedAttempt(state) == [NoAttempt EXCEPT !.state = state]

\* The three columns that schedule and fence a cleanup.
Life(eligible, lease, c) == [eligible |-> eligible, lease |-> lease, cleaner |-> c]
Unscheduled == Life("none", "none", Nobody)
Scheduled == Life("waiting", "none", Nobody)

\* cleanup_lease_token is set and its lease has not expired
CleanupLeased == life.lease \in {"finite", "infinity"}

\* media_blob_has_active_reference_internal
HasReference == cover \/ \E j \in Jobs : asset[j]
OpenWriters == {j \in Jobs : writer[j] \in Open}

\* Mutant: pending jobs do not count as uses of the blob.
BlockedByWriters == HasReference \/ OpenWriters # {}

\* media_blob_cleanup_blocked_internal
Blocked ==
  \/ HasReference
  \/ OpenWriters # {}
  \/ \E j \in Jobs : job[j].state \in Unsettled

\* The job is leased with this token and the lease has not expired.
Holds(w, j) == job[j].state = "leased" /\ job[j].worker = w /\ job[j].fresh

-----------------------------------------------------------------------------
(* What closing a reservation does: terminalize_media_blob_writer_failure *)

WriterReleased(j) ==
  IF writer[j] \in Open
  THEN [writer EXCEPT ![j] = IF asset[j] THEN "finalized" ELSE "unreferenced"]
  ELSE writer

\* Mutant: the reservation is closed but no cleanup is scheduled.
NeverScheduled(j) == life

\* The cleanup is due after a delay, unless somebody else uses the blob.
LifeReleased(j) ==
  CASE writer[j] \notin Open -> life
    [] asset[j] -> Unscheduled
    [] HasReference \/ OpenWriters # {j} -> life
    [] OTHER -> Scheduled

FailedJob(j) ==
  [job EXCEPT ![j] = [@ EXCEPT !.state = "failed", !.worker = Nobody, !.fresh = FALSE]]

\* All pending markers are rewritten; too complex Markdown is kept as it is, its
\* pending markers included.
FailedImages(image) ==
  CASE image = "pending" -> {"failed"}
    [] image = "tangled" -> {"failed", "tangled"}
    [] OTHER -> {image}

\* markPendingManagedImageFailedOnCardSideInExecutor
FailCard(j) ==
  \E image \in FailedImages(card[j].image) :
    card' = [card EXCEPT ![j].image = image]

\* fail_generated_media_promotion_job_with_blob_writer
FailWithWriter(j) ==
  /\ job' = FailedJob(j)
  /\ writer' = WriterReleased(j)
  /\ life' = LifeReleased(j)

-----------------------------------------------------------------------------
(* Promotion jobs *)

\* enqueueGeneratedMediaPromotionJob: refused while a deletion is authorized.
Enqueue(j) ==
  /\ job[j].state = "none" /\ member
  /\ life.lease # "infinity"
  /\ job' = [job EXCEPT ![j].state = "pending"]
  /\ card' = [card EXCEPT ![j].image = "pending"]
  /\ UNCHANGED <<asset, writer, life, attempt, cover, member, object, copying,
                 deleting, worker, cleaner, ingest, faults>>

\* A user or an agent edits the text, or a device pushes its snapshot of the
\* whole card: whenever it is, and whatever it makes of the image, a stale
\* pending marker of a settled job included.
EditCard(j) ==
  /\ job[j].state # "none"
  /\ \E image \in Images : card' = [card EXCEPT ![j] = [image |-> image, edited |-> TRUE]]
  /\ UNCHANGED <<job, asset, writer, life, attempt, cover, member, object,
                 copying, deleting, worker, cleaner, ingest, faults>>

\* claim_generated_media_promotion_jobs: due, or leased and expired.
ClaimJob(w, j) ==
  /\ worker[w].stage = "idle"
  /\ \/ job[j].state = "pending"
     \/ job[j].state = "leased" /\ ~job[j].fresh
  /\ job' = [job EXCEPT ![j] =
               [@ EXCEPT !.state = "leased", !.worker = w, !.fresh = TRUE]]
  /\ worker' = [worker EXCEPT ![w] = [IdleWorker EXCEPT !.stage = "reserve", !.job = j]]
  /\ UNCHANGED <<card, asset, writer, life, attempt, cover, member, object,
                 copying, deleting, cleaner, ingest, faults>>

\* A lease outlasts its holder's work, except when the holder is slow.
ExpireJobLease(j) ==
  LET w == job[j].worker
      slow == w \in Workers /\ worker[w].job = j
  IN
  /\ job[j].state = "leased" /\ job[j].fresh
  /\ slow => faults < MaxFaults
  /\ faults' = IF slow THEN faults + 1 ELSE faults
  /\ job' = [job EXCEPT ![j].fresh = FALSE]
  /\ UNCHANGED <<card, asset, writer, life, attempt, cover, member, object,
                 copying, deleting, worker, cleaner, ingest>>

At(w, stages) == worker[w].stage \in stages
GoTo(w, stage) == worker' = [worker EXCEPT ![w].stage = stage]
Drop(w) == worker' = [worker EXCEPT ![w] = IdleWorker]
ToSettle(w, retryable) ==
  worker' = [worker EXCEPT ![w] =
               [@ EXCEPT !.stage = "settle", !.retryable = retryable]]

\* Mutant: one attempt too many.
RetriedOnceMore(w) ==
  worker[w].retryable /\ job[worker[w].job].retries + 1 <= MaxAttempts

\* Retried unless the error is final or the attempts are used up.
Retried(w) == worker[w].retryable /\ job[worker[w].job].retries + 1 < MaxAttempts

\* The lease, or the local copy of its expiry, is gone, or the job is settled.
LeaseLost(w) ==
  /\ At(w, {"reserve", "promote", "copy", "check", "apply", "replay", "settle", "revoked"})
  /\ ~Holds(w, worker[w].job)
  /\ Drop(w)
  /\ UNCHANGED <<jobRows, life, cleanup, cover, member, store, ingest, faults>>

\* apply_generated_media_promotion_job_scope: the membership is gone.
AccessLost(w) ==
  /\ \/ At(w, {"reserve", "apply", "replay"})
     \/ At(w, {"settle"}) /\ ~Retried(w)
  /\ Holds(w, worker[w].job) /\ ~member
  /\ worker' = [worker EXCEPT ![w] =
       [IdleWorker EXCEPT !.stage = "revoked", !.job = worker[w].job]]
  /\ UNCHANGED <<jobRows, life, cleanup, cover, member, store, ingest, faults>>

InScope(w) == Holds(w, worker[w].job) /\ member

\* reserve_media_blob_writer: a live cleanup lease is a transient error.
ReserveBusy(w) ==
  /\ At(w, {"reserve"}) /\ InScope(w)
  /\ CleanupLeased
  /\ ToSettle(w, TRUE)
  /\ UNCHANGED <<jobRows, life, cleanup, cover, member, store, ingest, faults>>

\* The reservation is kept if it exists; one that is past its S3 write goes
\* straight to the apply.  The outcome of the commit may remain unknown.
Reserve(w) ==
  LET j == worker[w].job IN
  /\ At(w, {"reserve"}) /\ InScope(w)
  /\ ~CleanupLeased
  /\ writer' = [writer EXCEPT ![j] = IF @ \in {"none", "unreferenced"} THEN "active" ELSE @]
  /\ life' = Unscheduled
  /\ \/ Drop(w)
     \/ worker' = [worker EXCEPT ![w] =
          [@ EXCEPT !.stage = IF writer'[j] = "active" THEN "promote" ELSE "apply",
                    !.reserved = TRUE]]
  /\ UNCHANGED <<job, card, asset, cleanup, cover, member, store, ingest, faults>>

\* HEAD of the permanent object, before and after the copy.
HeadObject(w) ==
  /\ At(w, {"promote", "check"})
  /\ Holds(w, worker[w].job)
  /\ CASE object -> GoTo(w, "apply")
       [] At(w, {"promote"}) -> GoTo(w, "copy")
       [] OTHER -> ToSettle(w, TRUE)
  /\ UNCHANGED <<jobRows, life, cleanup, cover, member, store, ingest, faults>>

\* Mutant: the copy is sent without a look at the lease.
CopyAfterExpiry(w) ==
  /\ At(w, {"copy"})
  /\ copying' = copying \cup {worker[w].job}
  /\ GoTo(w, "check")
  /\ UNCHANGED <<jobRows, life, cleanup, cover, member, object, ingest, faults>>

\* copyObject: the lease is checked right before the request is sent.
CopyObject(w) ==
  /\ At(w, {"copy"})
  /\ Holds(w, worker[w].job)
  /\ copying' = copying \cup {worker[w].job}
  /\ GoTo(w, "check")
  /\ UNCHANGED <<jobRows, life, cleanup, cover, member, object, ingest, faults>>

\* Not exactly one pending marker, or too complex Markdown: the job fails in the
\* same transaction and the text is preserved.
ApplyConflict(w) ==
  LET j == worker[w].job IN
  /\ At(w, {"apply", "replay"}) /\ InScope(w)
  /\ card[j].image # "pending"
  /\ FailWithWriter(j)
  /\ Drop(w)
  /\ UNCHANGED <<card, asset, cleanup, cover, member, store, ingest, faults>>

\* fence_media_blob_reference raises; the error leaves the job to its lease.
ApplyBusy(w) ==
  /\ At(w, {"apply", "replay"}) /\ InScope(w)
  /\ card[worker[w].job].image = "pending" /\ CleanupLeased
  /\ Drop(w)
  /\ UNCHANGED <<jobRows, life, cleanup, cover, member, store, ingest, faults>>

\* Asset, card, reservation and job change in one transaction, whose outcome
\* the first attempt may fail to learn.
Apply(w) ==
  LET j == worker[w].job IN
  /\ At(w, {"apply", "replay"}) /\ InScope(w)
  /\ card[j].image = "pending" /\ ~CleanupLeased
  /\ card' = [card EXCEPT ![j].image = "ready"]
  /\ asset' = [asset EXCEPT ![j] = TRUE]
  /\ writer' = [writer EXCEPT ![j] = "finalized"]
  /\ life' = Unscheduled
  /\ job' = [job EXCEPT ![j] =
               [@ EXCEPT !.state = "applied", !.worker = Nobody, !.fresh = FALSE]]
  /\ \/ Drop(w)
     \/ At(w, {"apply"}) /\ GoTo(w, "unknown")
  /\ UNCHANGED <<cleanup, cover, member, store, ingest, faults>>

\* The transaction was rolled back and the worker does not know.
ApplyUnknown(w) ==
  /\ At(w, {"apply"}) /\ InScope(w)
  /\ GoTo(w, "unknown")
  /\ UNCHANGED <<jobRows, life, cleanup, cover, member, store, ingest, faults>>

\* mark_generated_media_promotion_blob_writer_ambiguous, then the replay
\* whether or not the mark was made.
MarkAmbiguous(w) ==
  LET j == worker[w].job
      ambiguous == [writer EXCEPT ![j] = "ambiguous"]
  IN
  /\ At(w, {"unknown"})
  /\ IF Holds(w, j) /\ writer[j] \in Open
     THEN writer' \in {writer, ambiguous}
     ELSE UNCHANGED writer
  /\ GoTo(w, "replay")
  /\ UNCHANGED <<job, card, asset, life, cleanup, cover, member, store, ingest, faults>>

\* Any call may fail, for good or to be retried; a replay that meets a
\* transient error leaves the job to its lease.
PromotionFails(w) ==
  /\ At(w, {"reserve", "promote", "copy", "check", "apply", "replay"})
  /\ \/ ToSettle(w, FALSE)
     \/ ~At(w, {"replay"}) /\ ToSettle(w, TRUE)
     \/ At(w, {"replay"}) /\ Drop(w)
  /\ UNCHANGED <<jobRows, life, cleanup, cover, member, store, ingest, faults>>

\* reschedule_generated_media_promotion_job
Reschedule(w) ==
  LET j == worker[w].job IN
  /\ At(w, {"settle"}) /\ Retried(w)
  /\ Holds(w, j)
  /\ job' = [job EXCEPT ![j] =
       [state |-> "pending", worker |-> Nobody, fresh |-> FALSE, retries |-> @.retries + 1]]
  /\ Drop(w)
  /\ UNCHANGED <<card, asset, writer, life, cleanup, cover, member, store, ingest, faults>>

\* Mutant: the failure is recorded without a look at the lease.
FailJobLate(w) ==
  LET j == worker[w].job IN
  /\ At(w, {"settle"}) /\ ~Retried(w)
  /\ job' = FailedJob(j)
  /\ FailCard(j)
  /\ Drop(w)
  /\ UNCHANGED <<asset, writer, life, cleanup, cover, member, store, ingest, faults>>

\* Mutant: the job fails and its card keeps the pending placeholder.
FailJobOnly(w) ==
  LET j == worker[w].job IN
  /\ At(w, {"settle"}) /\ ~Retried(w) /\ InScope(w)
  /\ IF worker[w].reserved
     THEN FailWithWriter(j)
     ELSE job' = FailedJob(j) /\ UNCHANGED <<writer, life>>
  /\ Drop(w)
  /\ UNCHANGED <<card, asset, cleanup, cover, member, store, ingest, faults>>

\* failGeneratedMediaPromotionJob: an attempt that has made no reservation of
\* its own closes none.
FailJob(w) ==
  LET j == worker[w].job IN
  /\ At(w, {"settle"}) /\ ~Retried(w) /\ InScope(w)
  /\ FailCard(j)
  /\ IF worker[w].reserved
     THEN FailWithWriter(j)
     ELSE job' = FailedJob(j) /\ UNCHANGED <<writer, life>>
  /\ Drop(w)
  /\ UNCHANGED <<asset, cleanup, cover, member, store, ingest, faults>>

\* fail_generated_media_promotion_job_after_access_revocation finds the
\* reservation by the job's operation.
FailAfterRevocation(w) ==
  LET j == worker[w].job IN
  /\ At(w, {"revoked"}) /\ Holds(w, j)
  /\ ~member
  /\ FailCard(j)
  /\ FailWithWriter(j)
  /\ Drop(w)
  /\ UNCHANGED <<asset, cleanup, cover, member, store, ingest, faults>>

\* access_active: the membership is back, the job waits for its lease.
RecheckAccess(w) ==
  /\ At(w, {"revoked"}) /\ InScope(w)
  /\ Drop(w)
  /\ UNCHANGED <<jobRows, life, cleanup, cover, member, store, ingest, faults>>

\* The invocation is killed, or its deadline interrupts it between two calls.
CrashWorker(w) ==
  /\ worker[w].stage # "idle"
  /\ faults < MaxFaults
  /\ faults' = faults + 1
  /\ Drop(w)
  /\ UNCHANGED <<jobRows, life, cleanup, cover, member, store, ingest>>

\* deleteAccountDataInExecutor, for one: the memberships go with their user and
\* a shared workspace stays.
RevokeAccess ==
  /\ member
  /\ member' = FALSE
  /\ UNCHANGED <<jobRows, life, cleanup, cover, store, worker, ingest, faults>>

\* The membership is inserted again, which the recheck is written for.
RestoreAccess ==
  /\ ~member /\ faults < MaxFaults
  /\ member' = TRUE
  /\ faults' = faults + 1
  /\ UNCHANGED <<jobRows, life, cleanup, cover, store, worker, ingest>>

\* A COPY with If-None-Match arrives, however late, or never.
CopyArrives(j) ==
  /\ j \in copying
  /\ copying' = copying \ {j}
  /\ object' \in {object, TRUE}
  /\ UNCHANGED <<jobRows, life, cleanup, cover, member, worker, ingest, faults>>

-----------------------------------------------------------------------------
(* Cleanup *)

CleanerAt(c, stages) == cleaner[c].stage \in stages
CleanerGoTo(c, stage) == cleaner' = [cleaner EXCEPT ![c].stage = stage]
CleanerDrop(c) == cleaner' = [cleaner EXCEPT ![c] = IdleCleaner]
NotCleanup == <<jobRows, cover, member, copying, worker, ingest, faults>>

CleanupDue == life.eligible = "due" /\ ~CleanupLeased

\* claim_next_media_blob_cleanup: the candidates of the statement's snapshot.
Look(c) ==
  /\ CleanerAt(c, {"idle"})
  /\ CleanupDue /\ ~Blocked
  /\ CleanerGoTo(c, "looked")
  /\ UNCHANGED <<NotCleanup, life, attempt, deleting, object>>

\* The row is locked and its own columns are looked at again, uses are not.
Claim(c) ==
  /\ CleanerAt(c, {"looked"})
  /\ IF CleanupDue
     THEN /\ attempt' = [state |-> "claimed", cleaner |-> c, fresh |-> TRUE]
          /\ life' = Life("due", "finite", c)
          /\ CleanerGoTo(c, "authorize")
     ELSE CleanerDrop(c) /\ UNCHANGED <<attempt, life>>
  /\ UNCHANGED <<NotCleanup, deleting, object>>

\* An authorized attempt that expired, or failed and waits, is taken over.
TakeOver(c) ==
  /\ CleanerAt(c, {"idle"})
  /\ attempt.cleaner = life.cleaner
  /\ \/ attempt.state = "authorized" /\ ~attempt.fresh
     \/ attempt.state = "retry_wait"
  /\ attempt' = [state |-> "authorized", cleaner |-> c, fresh |-> TRUE]
  /\ life' = [life EXCEPT !.lease = "infinity", !.cleaner = c]
  /\ CleanerGoTo(c, "authorize")
  /\ UNCHANGED <<NotCleanup, deleting, object>>

\* A claim's two leases end together; an authorized one fences for good.
ExpireCleanupLease ==
  /\ attempt.fresh
  /\ attempt' = [attempt EXCEPT !.fresh = FALSE]
  /\ life' = IF life.lease = "finite" THEN [life EXCEPT !.lease = "expired"] ELSE life
  /\ UNCHANGED <<NotCleanup, cleaner, deleting, object>>

CleanupHolds(c) == attempt.cleaner = c /\ attempt.fresh /\ life.cleaner = c

\* What renew, complete and record_failure require of the attempt.
Renewable(c) ==
  /\ attempt.state \in {"authorized", "deleting"}
  /\ CleanupHolds(c) /\ life.lease = "infinity"

\* authorize_media_blob_cleanup: under the lock uses are looked at again.
Authorize(c) ==
  /\ CleanerAt(c, {"authorize"})
  /\ \/ /\ ~CleanupHolds(c)
        /\ CleanerDrop(c)
        /\ UNCHANGED <<attempt, life>>
     \/ /\ Renewable(c)
        /\ CleanerGoTo(c, "renewHead")
        /\ UNCHANGED <<attempt, life>>
     \/ /\ CleanupHolds(c) /\ attempt.state = "claimed" /\ Blocked
        /\ attempt' = ClosedAttempt("blocked")
        /\ life' = Life(life.eligible, "none", Nobody)
        /\ CleanerDrop(c)
     \/ /\ CleanupHolds(c) /\ attempt.state = "claimed" /\ ~Blocked
        /\ attempt' = [attempt EXCEPT !.state = "authorized"]
        /\ life' = [life EXCEPT !.lease = "infinity"]
        /\ CleanerGoTo(c, "renewHead")
  /\ UNCHANGED <<NotCleanup, deleting, object>>

CleanupLost(c) ==
  /\ CleanerAt(c, {"renewHead", "renewDelete", "renewComplete", "complete", "retry", "terminal"})
  /\ \/ ~Renewable(c)
     \/ CleanerAt(c, {"renewHead"}) /\ attempt.state = "deleting"
  /\ CleanerDrop(c)
  /\ UNCHANGED <<NotCleanup, life, attempt, deleting, object>>

RenewHead(c) ==
  /\ CleanerAt(c, {"renewHead"}) /\ Renewable(c) /\ attempt.state # "deleting"
  /\ CleanerGoTo(c, "head")
  /\ UNCHANGED <<NotCleanup, life, attempt, deleting, object>>

\* loadObjectETag: an object that is missing needs no DELETE.
HeadForCleanup(c) ==
  /\ CleanerAt(c, {"head"})
  /\ CleanerGoTo(c, IF object THEN "renewDelete" ELSE "renewComplete")
  /\ UNCHANGED <<NotCleanup, life, attempt, deleting, object>>

\* From here on the attempt is never taken over.
RenewDelete(c) ==
  /\ CleanerAt(c, {"renewDelete"}) /\ Renewable(c)
  /\ attempt' = [attempt EXCEPT !.state = "deleting"]
  /\ cleaner' = [cleaner EXCEPT ![c] = [@ EXCEPT !.stage = "delete", !.sent = TRUE]]
  /\ UNCHANGED <<NotCleanup, life, deleting, object>>

\* Sent once (maxAttempts: 1), while the lease lasts.
SendDelete(c) ==
  /\ CleanerAt(c, {"delete"}) /\ CleanupHolds(c)
  /\ deleting' = deleting \cup {c}
  /\ CleanerGoTo(c, "await")
  /\ UNCHANGED <<NotCleanup, life, attempt, object>>

\* A conditional DELETE arrives, in time to be answered or too late, or never.
DeleteArrives(c) ==
  /\ c \in deleting
  /\ deleting' = deleting \ {c}
  /\ \/ object' = FALSE
     \/ UNCHANGED object
  /\ \/ CleanerAt(c, {"await"}) /\ ~object' /\ CleanerGoTo(c, "renewComplete")
     \/ UNCHANGED cleaner
  /\ UNCHANGED <<NotCleanup, life, attempt>>

RenewComplete(c) ==
  /\ CleanerAt(c, {"renewComplete"}) /\ Renewable(c)
  /\ CleanerGoTo(c, "complete")
  /\ UNCHANGED <<NotCleanup, life, attempt, deleting, object>>

\* complete_media_blob_cleanup lifts the fence.
Complete(c) ==
  /\ CleanerAt(c, {"complete"}) /\ Renewable(c)
  /\ attempt' = ClosedAttempt("completed")
  /\ life' = Unscheduled
  /\ CleanerDrop(c)
  /\ UNCHANGED <<NotCleanup, deleting, object>>

\* resolveFailureDisposition: an error is never retried once the transition to
\* the DELETE may have been committed, and is retried before if transient.
Dispositions(c) ==
  IF cleaner[c].sent \/ cleaner[c].stage = "renewDelete"
  THEN {"terminal"} ELSE {"retry", "terminal"}

\* Any call may fail.
CleanupFails(c) ==
  /\ CleanerAt(c, {"authorize", "renewHead", "head", "renewDelete", "delete", "await",
                   "renewComplete", "complete"})
  /\ \E disposition \in Dispositions(c) :
       cleaner' = [cleaner EXCEPT ![c] = [IdleCleaner EXCEPT !.stage = disposition]]
  /\ UNCHANGED <<NotCleanup, life, attempt, deleting, object>>

\* record_media_blob_cleanup_failure: the fence stays either way.
RecordFailure(c) ==
  /\ CleanerAt(c, {"retry", "terminal"}) /\ Renewable(c)
  /\ attempt' = [attempt EXCEPT
       !.state = IF CleanerAt(c, {"retry"}) THEN "retry_wait" ELSE "reconciliation_required",
       !.fresh = FALSE]
  /\ CleanerDrop(c)
  /\ UNCHANGED <<NotCleanup, life, deleting, object>>

CrashCleaner(c) ==
  /\ cleaner[c].stage # "idle"
  /\ CleanerDrop(c)
  /\ UNCHANGED <<NotCleanup, life, attempt, deleting, object>>

\* The delay of an hour is over: longer than a request to S3 is on its way
\* and longer than the catalog request may take.
Ripen ==
  /\ life.eligible = "waiting"
  /\ copying = {} /\ ingest = "idle"
  /\ life' = [life EXCEPT !.eligible = "due"]
  /\ UNCHANGED <<NotCleanup, cleanup, object>>

-----------------------------------------------------------------------------
(* The catalog cover *)

NotIngest == <<jobRows, cleanup, member, copying, worker, faults>>

\* Both admit_catalog_image_blob_write and schedule_media_blob_cleanup.
ScheduleUnlessReferenced(referenced) == IF referenced THEN Unscheduled ELSE Scheduled

\* admit_catalog_image_blob_write
Admit ==
  /\ ingest = "idle" /\ ~cover
  /\ ~CleanupLeased
  /\ life' = ScheduleUnlessReferenced(HasReference)
  /\ ingest' = "admitted"
  /\ UNCHANGED <<NotIngest, cover, object>>

\* storeCatalogImageBlobBytesIfAbsent
StoreBytes ==
  /\ ingest = "admitted"
  /\ object' = TRUE
  /\ ingest' = "stored"
  /\ UNCHANGED <<NotIngest, life, cover>>

\* registerCatalogImageBlob and the draft cover, whose insert is fenced.
AttachCover ==
  /\ ingest = "stored"
  /\ ~CleanupLeased
  /\ cover' = TRUE
  /\ life' = Unscheduled
  /\ ingest' = "idle"
  /\ UNCHANGED <<NotIngest, object>>

GiveUpIngest ==
  /\ ingest # "idle"
  /\ ingest' = "idle"
  /\ UNCHANGED <<NotIngest, life, cover, object>>

\* replaceCatalogPackageDraftCover: another blob takes this one's place.
DisplaceCover ==
  /\ cover
  /\ ~CleanupLeased
  /\ cover' = FALSE
  /\ life' = ScheduleUnlessReferenced(\E j \in Jobs : asset[j])
  /\ UNCHANGED <<NotIngest, ingest, object>>

-----------------------------------------------------------------------------
Init ==
  /\ job = [j \in Jobs |-> NoJob]
  /\ card = [j \in Jobs |-> NoCard]
  /\ asset = [j \in Jobs |-> FALSE]
  /\ writer = [j \in Jobs |-> "none"]
  /\ life = Unscheduled
  /\ attempt = NoAttempt
  /\ cover = FALSE /\ member = TRUE
  /\ object = FALSE /\ copying = {} /\ deleting = {}
  /\ worker = [w \in Workers |-> IdleWorker]
  /\ cleaner = [c \in Cleaners |-> IdleCleaner]
  /\ ingest = "idle" /\ faults = 0

\* The calls of a promotion invocation, its errors included.
Promotion(w) ==
  \/ LeaseLost(w) \/ AccessLost(w)
  \/ ReserveBusy(w) \/ Reserve(w)
  \/ HeadObject(w) \/ CopyObject(w)
  \/ ApplyConflict(w) \/ ApplyBusy(w) \/ Apply(w) \/ ApplyUnknown(w)
  \/ MarkAmbiguous(w)
  \/ PromotionFails(w)
  \/ Reschedule(w) \/ FailJob(w)
  \/ FailAfterRevocation(w) \/ RecheckAccess(w)

\* The calls of a cleanup invocation.
Cleaning(c) ==
  \/ Look(c) \/ Claim(c) \/ TakeOver(c)
  \/ Authorize(c) \/ CleanupLost(c)
  \/ RenewHead(c) \/ HeadForCleanup(c)
  \/ RenewDelete(c) \/ SendDelete(c)
  \/ RenewComplete(c) \/ Complete(c)
  \/ CleanupFails(c) \/ RecordFailure(c) \/ CrashCleaner(c)

Next ==
  \/ \E j \in Jobs : \/ Enqueue(j) \/ EditCard(j) \/ ExpireJobLease(j) \/ CopyArrives(j)
                     \/ \E w \in Workers : ClaimJob(w, j)
  \/ \E w \in Workers : Promotion(w) \/ CrashWorker(w)
  \/ \E c \in Cleaners : Cleaning(c) \/ DeleteArrives(c)
  \/ RevokeAccess \/ RestoreAccess
  \/ ExpireCleanupLease \/ Ripen
  \/ Admit \/ StoreBytes \/ AttachCover \/ GiveUpIngest \/ DisplaceCover

Spec == Init /\ [][Next]_vars

-----------------------------------------------------------------------------
(* Properties *)

JobRow == [state : {"none"} \cup Unsettled \cup Settled,
           worker : Workers \cup {Nobody}, fresh : BOOLEAN, retries : 0..(MaxAttempts - 1)]
CardRow == [image : {"none"} \cup Images, edited : BOOLEAN]
LifeRow == [eligible : {"none", "waiting", "due"},
            lease : {"none", "finite", "expired", "infinity"},
            cleaner : Cleaners \cup {Nobody}]
AttemptRow == [state : {"none", "claimed", "authorized", "deleting", "blocked",
                        "retry_wait", "reconciliation_required", "completed"},
               cleaner : Cleaners \cup {Nobody}, fresh : BOOLEAN]
WorkerState == [stage : {"idle", "reserve", "promote", "copy", "check", "apply",
                         "unknown", "replay", "settle", "revoked"},
                job : Jobs \cup {Nobody}, reserved : BOOLEAN, retryable : BOOLEAN]
CleanerState == [stage : {"idle", "looked", "authorize", "renewHead", "head",
                          "renewDelete", "delete", "await", "renewComplete",
                          "complete", "retry", "terminal"},
                 sent : BOOLEAN]

\* Jobs, reservations, lifecycle, cleanup attempt and the processes keep their shape.
TypeOK ==
  /\ job \in [Jobs -> JobRow]
  /\ card \in [Jobs -> CardRow]
  /\ asset \in [Jobs -> BOOLEAN]
  /\ writer \in [Jobs -> {"none", "finalized", "unreferenced"} \cup Open]
  /\ life \in LifeRow /\ attempt \in AttemptRow
  /\ cover \in BOOLEAN /\ member \in BOOLEAN /\ object \in BOOLEAN
  /\ copying \in SUBSET Jobs /\ deleting \in SUBSET Cleaners
  /\ worker \in [Workers -> WorkerState]
  /\ cleaner \in [Cleaners -> CleanerState]
  /\ ingest \in {"idle", "admitted", "stored"}
  /\ faults \in 0..MaxFaults

\* An authorized deletion fences the blob: no asset, cover, open reservation or
\* waiting job uses it until the cleanup is completed, although jobs are queued
\* and reservations made while a cleanup is claimed (authorize looks again).
FencedBlobIsUnused ==
  life.lease = "infinity" =>
    ~HasReference /\ OpenWriters = {} /\ \A j \in Jobs : job[j].state \notin Unsettled

\* What the service itself writes on a card.
ImageOf(state) ==
  CASE state \in Unsettled -> "pending"
    [] state = "applied" -> "ready"
    [] OTHER -> state

\* The asset exists exactly when the job is applied, and the card shows what
\* became of its image as long as nobody edits it: pending while the job is open,
\* ready or failed with it, whichever call of whichever worker settles the job
\* (apply, failure with and without a reservation or after a revocation).
CardsShowTheJob ==
  \A j \in Jobs :
    /\ asset[j] <=> job[j].state = "applied"
    /\ ~card[j].edited => card[j].image = ImageOf(job[j].state)

\* Bytes are never left behind unknown to the database: a stored object is
\* referenced, being written, scheduled for cleanup or fenced by one.
StoredBlobIsAccountedFor ==
  object =>
    \/ HasReference \/ OpenWriters # {}
    \/ life.eligible # "none" \/ life.lease = "infinity"

\* What a job came to is final: a slow worker, a replay after an unknown commit
\* or a late failure changes neither the job, its asset nor its reservation once
\* the job is applied or failed, and nobody but an editor writes its card.
SettledJobsStayAsTheyAre ==
  [][\A j \in Jobs : job[j].state \in Settled =>
       /\ UNCHANGED <<job[j], asset[j], writer[j]>>
       /\ card'[j] = card[j] \/ EditCard(j)]_vars

\* 'Durable exact-token fences held from before a permanent object write until
\* a definite database reference or reconciled terminal outcome': a settled job
\* holds no reservation open.
SettledJobsReleaseTheirWriter ==
  \A j \in Jobs : job[j].state \in Settled => writer[j] \notin Open

\* Whatever the interleaving, the blob is used only while it is stored, and is
\* deleted only behind a fence that stays up until the deletion is over.
Blob == INSTANCE FencedBlob WITH
  stored <- object, used <- HasReference, fenced <- (life.lease = "infinity")
ImplementsFencedBlob == Blob!Spec
=============================================================================
