--------------------------- MODULE MediaBlobsProofs ---------------------------
(***************************************************************************)
(* Proofs about MediaBlobs.  One lemma per operation shows that it keeps   *)
(* the invariant, by the parts it touches; general lemmas say what leaves  *)
(* a part sound (a worker moves, a fence stays down, a blob stays          *)
(* protected).  The last sections prove that settled jobs are final and    *)
(* that every step is a step of FencedBlob.                                *)
(***************************************************************************)
EXTENDS MediaBlobsInvariant, TLAPS

\* An open reservation is one of the open writers.
LEMMA OpenWriter ==
  ASSUME NEW j \in Jobs
  PROVE  writer[j] \in Open <=> j \in OpenWriters
  BY DEF OpenWriters

\* Behind the fence nothing uses the blob and nothing is about to.
LEMMA Fenced ==
  ASSUME IInv, life.lease = "infinity"
  PROVE  /\ ~HasReference /\ OpenWriters = {} /\ ~Protected
         /\ \A j \in Jobs : job[j].state \notin Unsettled /\ writer[j] \notin Open
         /\ copying = {} /\ ingest = "idle"
  <1>1. /\ ~HasReference /\ OpenWriters = {} /\ life.eligible = "due"
        /\ \A j \in Jobs : job[j].state \notin Unsettled
    BY DEF IInv, FenceSound, FencedBlobIsUnused
  <1>2. ~Protected
    BY <1>1 DEF Protected
  <1>3. QED
    BY <1>1, <1>2, OpenWriter DEF IInv, UsesSound

\* While the fence is down no deletion is on its way and no cleaner holds it.
LEMMA Unfenced ==
  ASSUME IInv, life.lease # "infinity"
  PROVE  /\ attempt.state \notin Fencing /\ deleting = {}
         /\ \A c \in Cleaners : ~Renewable(c)
  <1>1. attempt.state \notin Fencing
    BY DEF IInv, FenceSound
  <1>2. deleting = {}
    BY <1>1 DEF IInv, CleanersSound, Fencing
  <1>3. QED
    BY <1>1, <1>2 DEF Renewable, Fencing

\* Steps behind no fence that leave the cleanup alone leave the cleaners sound.
LEMMA CleanersUntouched ==
  ASSUME IInv, life.lease # "infinity", life'.lease # "infinity", UNCHANGED cleanup
  PROVE  CleanersSound'
  <1>1. deleting' = {} /\ (\A c \in Cleaners : ~Renewable(c)')
    BY Unfenced DEF cleanup, Renewable
  <1>2. QED
    BY <1>1 DEF IInv, CleanersSound, cleanup, CleanerAt

\* Worker w moves to k, all others keep what they rely on.
LEMMA WorkerMoves ==
  ASSUME IInv, NEW w \in Workers, NEW k \in WorkerState, worker' = [worker EXCEPT ![w] = k],
         object => object',
         \A v \in Workers \ {w}, j \in Jobs :
           job'[j].state = "leased" /\ job'[j].worker = v =>
             job[j].state = "leased" /\ job[j].worker = v /\ writer'[j] = writer[j],
         k.stage # "idle" =>
           /\ k.job \in Jobs
           /\ job'[k.job].state = "leased" /\ job'[k.job].worker = w =>
                /\ k.stage \in WriterStages => writer'[k.job] \in Open
                /\ k.stage \in {"apply", "unknown", "replay"} => object'
  PROVE  worker' \in [Workers -> WorkerState] /\ WorkersSound'
  <1>1. /\ worker' \in [Workers -> WorkerState]
        /\ worker'[w] = k /\ (\A v \in Workers \ {w} : worker'[v] = worker[v])
    BY DEF IInv, TypeOK
  <1>2. ASSUME NEW v \in Workers, worker'[v].stage # "idle", NEW j, j = worker'[v].job
        PROVE  /\ j \in Jobs
               /\ job'[j].state = "leased" /\ job'[j].worker = v =>
                    /\ worker'[v].stage \in WriterStages => writer'[j] \in Open
                    /\ worker'[v].stage \in {"apply", "unknown", "replay"} => object'
    <2>1. CASE v = w
      BY <1>1, <1>2, <2>1
    <2>2. CASE v # w
      BY <1>1, <1>2, <2>2 DEF IInv, WorkersSound
    <2>3. QED
      BY <2>1, <2>2
  <1>3. QED
    BY <1>1, <1>2 DEF WorkersSound, Open, WriterStages

\* GoTo and Drop are such moves.
LEMMA Moves ==
  ASSUME NEW w \in Workers, worker[w] \in WorkerState
  PROVE  /\ Drop(w) => \E k \in WorkerState :
              worker' = [worker EXCEPT ![w] = k] /\ k.stage = "idle"
         /\ \A s \in {"promote", "copy", "check", "apply", "unknown", "replay"} :
              GoTo(w, s) => \E k \in WorkerState :
                worker' = [worker EXCEPT ![w] = k] /\ k.stage = s /\ k.job = worker[w].job
  <1>1. ASSUME Drop(w)
        PROVE  \E k \in WorkerState : worker' = [worker EXCEPT ![w] = k] /\ k.stage = "idle"
    <2>1. /\ IdleWorker \in WorkerState /\ IdleWorker.stage = "idle"
          /\ worker' = [worker EXCEPT ![w] = IdleWorker]
      BY <1>1 DEF Drop, IdleWorker, WorkerState
    <2>2. QED
      BY <2>1
  <1>2. ASSUME NEW s \in {"promote", "copy", "check", "apply", "unknown", "replay"}, GoTo(w, s)
        PROVE  \E k \in WorkerState :
                 worker' = [worker EXCEPT ![w] = k] /\ k.stage = s /\ k.job = worker[w].job
    <2> DEFINE k == [worker[w] EXCEPT !.stage = s]
    <2>1. k \in WorkerState /\ k.stage = s /\ k.job = worker[w].job
      BY DEF WorkerState
    <2>2. worker' = [worker EXCEPT ![w] = k]
      BY <1>2 DEF GoTo
    <2> HIDE DEF k
    <2>3. QED
      BY <2>1, <2>2
  <1>3. QED
    BY <1>1, <1>2

\* A step that leaves a fence down that was down.
LEMMA FenceStaysDown ==
  ASSUME IInv, life.lease # "infinity", UNCHANGED attempt,
         \/ UNCHANGED life
         \/ life'.lease = "none" /\ life'.cleaner = Nobody
  PROVE  FenceSound'
  <1>1. attempt.state \notin Fencing /\ life'.lease # "infinity"
    BY Unfenced
  <1>2. FencedBlobIsUnused'
    BY <1>1 DEF FencedBlobIsUnused
  <1>3. attempt.state = "claimed" => attempt.cleaner # Nobody
    BY NobodyAssumption DEF IInv, FenceSound
  <1>4. QED
    BY <1>1, <1>2, <1>3 DEF IInv, FenceSound, Fencing

\* A step that ends with the blob protected and stored where it is relied on.
LEMMA ProtectedUses ==
  ASSUME Protected', HasReference' => life'.eligible = "none",
         ingest' = "stored" => object',
         \A j \in Jobs : writer'[j] = "ambiguous" => object'
  PROVE  UsesSound'
  BY DEF UsesSound, StoredBlobIsAccountedFor, Protected

\* The worker that holds a job's lease.
LEMMA Holder ==
  ASSUME IInv, NEW w \in Workers, worker[w].stage # "idle", Holds(w, worker[w].job)
  PROVE  LET j == worker[w].job IN
         /\ j \in Jobs /\ job[j].state = "leased" /\ job[j].worker = w
         /\ worker[w] \in WorkerState /\ job[j] \in JobRow
         /\ writer[j] \in {"none", "unreferenced"} \cup Open /\ ~asset[j]
         /\ life.lease # "infinity"
  <1>1. /\ worker[w].job \in Jobs /\ worker[w] \in WorkerState
        /\ job[worker[w].job].state = "leased" /\ job[worker[w].job].worker = w
        /\ job[worker[w].job] \in JobRow
    BY DEF IInv, WorkersSound, Holds, TypeOK
  <1>2. /\ writer[worker[w].job] \in {"none", "unreferenced"} \cup Open
        /\ ~asset[worker[w].job]
    BY <1>1 DEF IInv, TypeOK, JobsSound, CardsShowTheJob
  <1>3. life.lease # "infinity"
    BY <1>1, Fenced DEF Unsettled
  <1>4. QED
    BY <1>1, <1>2, <1>3

\* Leases and retries change nothing that a card shows.
LEMMA OpenJobsMove ==
  ASSUME IInv, UNCHANGED <<card, asset, writer>>,
         \A i \in Jobs : \/ job'[i].state = job[i].state
                         \/ job[i].state \in Unsettled /\ job'[i].state \in Unsettled
  PROVE  JobsSound'
  <1>1. \A i \in Jobs : /\ ImageOf(job'[i].state) = ImageOf(job[i].state)
                        /\ job'[i].state = "applied" <=> job[i].state = "applied"
    BY DEF ImageOf, Unsettled
  <1>2. QED
    BY <1>1 DEF IInv, JobsSound, CardsShowTheJob

\* A new job finds the fence down.
LEMMA EnqueueKeeps ==
  ASSUME IInv, NEW j \in Jobs, Enqueue(j)
  PROVE  IInv'
  <1>1. TypeOK'
    <2>1. job' \in [Jobs -> JobRow]
      BY  DEF IInv, TypeOK, Enqueue, Unsettled, Settled, Open, JobsSound, CardsShowTheJob, JobRow
    <2>2. card' \in [Jobs -> CardRow]
      BY DEF IInv, TypeOK, Enqueue, CardRow, Images
    <2>3. QED
      BY <2>1, <2>2 DEF IInv, TypeOK, Enqueue
  <1>2. JobsSound'
    BY DEF IInv, Enqueue, Unsettled, Settled, Open, JobsSound, CardsShowTheJob, ImageOf, TypeOK,
           JobRow, CardRow
  <1>3. FenceSound'
    BY  DEF IInv, Enqueue, Unsettled, Settled, Open, JobsSound, CardsShowTheJob, FenceSound,
            FencedBlobIsUnused, Fencing, TypeOK, LifeRow, AttemptRow, HasReference, OpenWriters
  <1>4. WorkersSound'
    BY  DEF IInv, Enqueue, Unsettled, Settled, Open, JobsSound, CardsShowTheJob, WorkersSound,
            WriterStages, TypeOK, WorkerState, JobRow
  <1>5. UsesSound' /\ CleanersSound'
    BY  DEF IInv, Enqueue, Unsettled, Settled, Open, JobsSound, CardsShowTheJob, UsesSound,
            StoredBlobIsAccountedFor, Protected, TypeOK, LifeRow, AttemptRow, HasReference,
            OpenWriters, CleanersSound, CleanerState, CleanerAt, Renewable, CleanupHolds
  <1>6. QED
    BY <1>1, <1>2, <1>3, <1>4, <1>5 DEF IInv

\* Whatever an edit makes of a card, from then on the card is edited.
LEMMA EditCardKeeps ==
  ASSUME IInv, NEW j \in Jobs, EditCard(j)
  PROVE  IInv'
  <1>1. TypeOK'
    <2>1. card' \in [Jobs -> CardRow]
      BY DEF IInv, TypeOK, EditCard, CardRow
    <2>2. QED
      BY <2>1 DEF IInv, TypeOK, EditCard
  <1>2. JobsSound'
    BY DEF IInv, EditCard, JobsSound, CardsShowTheJob, TypeOK
  <1>3. FenceSound' /\ UsesSound' /\ WorkersSound' /\ CleanersSound'
    BY  DEF IInv, EditCard, Unsettled, Settled, FenceSound, FencedBlobIsUnused, Fencing, TypeOK,
            LifeRow, AttemptRow, HasReference, OpenWriters, UsesSound, StoredBlobIsAccountedFor,
            Protected, WorkersSound, WriterStages, WorkerState, JobRow, CleanersSound,
            CleanerState, CleanerAt, Renewable, CleanupHolds
  <1>4. QED
    BY <1>1, <1>2, <1>3 DEF IInv

\* A worker that knows nothing takes a lease.
LEMMA ClaimJobKeeps ==
  ASSUME IInv, NEW w \in Workers, NEW j \in Jobs, ClaimJob(w, j)
  PROVE  IInv'
  <1>1. TypeOK'
    <2>1. job' \in [Jobs -> JobRow]
      BY DEF IInv, TypeOK, ClaimJob, Unsettled, Settled, IdleWorker, JobRow, Unsettled, Settled
    <2>2. worker' \in [Workers -> WorkerState]
      BY DEF IInv, TypeOK, ClaimJob, Unsettled, Settled, IdleWorker, WorkerState
    <2>3. QED
      BY <2>1, <2>2 DEF IInv, TypeOK, ClaimJob
  <1>2. JobsSound'
    <2>1. UNCHANGED <<card, asset, writer>>
      BY DEF ClaimJob
    <2>2. \A i \in Jobs : \/ job'[i].state = job[i].state
                          \/ job[i].state \in Unsettled /\ job'[i].state \in Unsettled
      BY DEF IInv, TypeOK, ClaimJob, Unsettled, JobRow
    <2>3. QED
      BY <2>1, <2>2, OpenJobsMove
  <1>3. FenceSound'
    BY  DEF IInv, ClaimJob, Unsettled, Settled, IdleWorker, FenceSound, FencedBlobIsUnused,
            Fencing, TypeOK, LifeRow, AttemptRow, HasReference, OpenWriters
  <1>4. WorkersSound'
    BY  DEF IInv, ClaimJob, Unsettled, Settled, IdleWorker, WorkersSound, WriterStages, TypeOK,
            WorkerState, JobRow
  <1>5. UsesSound' /\ CleanersSound'
    BY  DEF IInv, ClaimJob, Unsettled, Settled, IdleWorker, UsesSound, StoredBlobIsAccountedFor,
            Protected, TypeOK, LifeRow, AttemptRow, HasReference, OpenWriters, CleanersSound,
            CleanerState, CleanerAt, Renewable, CleanupHolds
  <1>6. QED
    BY <1>1, <1>2, <1>3, <1>4, <1>5 DEF IInv

\* A lease ends; nobody relies on its being fresh.
LEMMA ExpireJobLeaseKeeps ==
  ASSUME IInv, NEW j \in Jobs, ExpireJobLease(j)
  PROVE  IInv'
  <1>1. TypeOK'
    <2>1. job' \in [Jobs -> JobRow]
      BY DEF IInv, TypeOK, ExpireJobLease, Unsettled, Settled, JobRow, Unsettled, Settled
    <2>2. faults' \in 0..MaxFaults
      BY FaultsAssumption DEF IInv, TypeOK, ExpireJobLease
    <2>3. QED
      BY <2>1, <2>2 DEF IInv, TypeOK, ExpireJobLease
  <1>2. JobsSound'
    BY DEF IInv, ExpireJobLease, Unsettled, Settled, JobsSound, CardsShowTheJob, TypeOK, JobRow
  <1>3. FenceSound'
    BY  DEF IInv, ExpireJobLease, Unsettled, Settled, FenceSound, FencedBlobIsUnused, Fencing,
            TypeOK, LifeRow, AttemptRow, HasReference, OpenWriters
  <1>4. WorkersSound'
    BY  DEF IInv, ExpireJobLease, Unsettled, Settled, WorkersSound, WriterStages, TypeOK,
            WorkerState, JobRow
  <1>5. UsesSound' /\ CleanersSound'
    BY  DEF IInv, ExpireJobLease, Unsettled, Settled, UsesSound, StoredBlobIsAccountedFor,
            Protected, TypeOK, LifeRow, AttemptRow, HasReference, OpenWriters, CleanersSound,
            CleanerState, CleanerAt, Renewable, CleanupHolds
  <1>6. QED
    BY <1>1, <1>2, <1>3, <1>4, <1>5 DEF IInv

\* A reservation is made, or found, where no cleanup is leased.
LEMMA ReserveKeeps ==
  ASSUME IInv, NEW w \in Workers, Reserve(w)
  PROVE  IInv'
  <1> DEFINE j == worker[w].job
  <1>1. /\ j \in Jobs /\ job[j].state = "leased" /\ job[j].worker = w
        /\ worker[w] \in WorkerState /\ writer[j] \in {"none", "unreferenced"} \cup Open
        /\ ~asset[j] /\ life.lease # "infinity"
    BY Holder DEF Reserve, InScope, At
  <1>2. /\ writer' \in [Jobs -> {"none", "finalized", "unreferenced"} \cup Open]
        /\ writer'[j] \in Open /\ (writer'[j] = "ambiguous" => writer[j] = "ambiguous")
        /\ \A i \in Jobs \ {j} : writer'[i] = writer[i]
    BY <1>1 DEF IInv, TypeOK, Reserve, Open
  <1>3. UNCHANGED <<job, card, asset, attempt, cleaner, deleting, cover, member,
                    object, copying, ingest, faults>>
    BY DEF Reserve, cleanup, store
  <1>4. PICK k \in WorkerState :
          /\ worker' = [worker EXCEPT ![w] = k]
          /\ \/ k.stage = "idle"
             \/ k.stage = "promote" /\ k.job = j
             \/ k.stage = "apply" /\ k.job = j /\ writer'[j] = "ambiguous"
    <2>1. CASE Drop(w)
      BY <1>1, <2>1, Moves
    <2>2. CASE ~Drop(w)
      <3> DEFINE k == [worker[w] EXCEPT
                         !.stage = IF writer'[j] = "active" THEN "promote" ELSE "apply",
                         !.reserved = TRUE]
      <3>1. worker' = [worker EXCEPT ![w] = k]
        BY <2>2 DEF Reserve
      <3>2. /\ k \in WorkerState /\ k.job = j
            /\ \/ k.stage = "promote"
               \/ k.stage = "apply" /\ writer'[j] = "ambiguous"
        BY <1>1, <1>2 DEF WorkerState, Open
      <3> HIDE DEF k
      <3>3. QED
        BY <3>1, <3>2
    <2>3. QED
      BY <2>1, <2>2
  <1>5. worker' \in [Workers -> WorkerState] /\ WorkersSound'
    <2>1. writer'[j] = "ambiguous" => object'
      BY <1>1, <1>2, <1>3 DEF IInv, UsesSound
    <2>2. \A v \in Workers \ {w}, i \in Jobs :
            job[i].state = "leased" /\ job[i].worker = v => writer'[i] = writer[i]
      BY <1>1, <1>2
    <2>3. QED
      BY <1>1, <1>2, <1>3, <1>4, <2>1, <2>2, WorkerMoves
  <1>6. life' = Unscheduled
    BY DEF Reserve
  <1>7. TypeOK'
    BY <1>2, <1>3, <1>5, <1>6 DEF IInv, TypeOK, Unscheduled, Life, LifeRow
  <1>8. JobsSound'
    BY <1>1, <1>2, <1>3 DEF IInv, JobsSound, CardsShowTheJob, Open
  <1>9. FenceSound' /\ CleanersSound'
    BY <1>1, <1>3, <1>6, FenceStaysDown, CleanersUntouched DEF Unscheduled, Life, cleanup
  <1>10. UsesSound'
    <2>1. Protected'
      BY <1>1, <1>2 DEF Protected, OpenWriters
    <2>2. \A i \in Jobs : writer'[i] = "ambiguous" => object'
      BY <1>2, <1>3 DEF IInv, UsesSound
    <2>3. QED
      BY <1>3, <1>6, <2>1, <2>2, ProtectedUses DEF IInv, UsesSound, Unscheduled, Life
  <1>11. QED
    BY <1>5, <1>7, <1>8, <1>9, <1>10 DEF IInv

\* A COPY is sent under an open reservation.
LEMMA CopyObjectKeeps ==
  ASSUME IInv, NEW w \in Workers, CopyObject(w)
  PROVE  IInv'
  <1> DEFINE j == worker[w].job
  <1>1. /\ j \in Jobs /\ job[j].state = "leased" /\ job[j].worker = w
        /\ worker[w] \in WorkerState
    BY Holder DEF CopyObject, At
  <1>2. writer[j] \in Open
    BY <1>1 DEF IInv, WorkersSound, WriterStages, CopyObject, At
  <1>3. UNCHANGED <<job, card, asset, writer, life, attempt, cleaner, deleting, cover,
                    member, object, ingest, faults>>
    BY DEF CopyObject, cleanup, jobRows
  <1>4. worker' \in [Workers -> WorkerState] /\ WorkersSound'
    <2>1. PICK k \in WorkerState :
            worker' = [worker EXCEPT ![w] = k] /\ k.stage = "check" /\ k.job = j
      BY <1>1, Moves DEF CopyObject
    <2>2. QED
      BY <1>1, <1>2, <1>3, <2>1, WorkerMoves
  <1>5. TypeOK'
    BY <1>1, <1>3, <1>4 DEF IInv, TypeOK, CopyObject
  <1>6. JobsSound' /\ FenceSound' /\ CleanersSound'
    BY <1>3 DEF IInv, JobsSound, CardsShowTheJob, FenceSound, FencedBlobIsUnused, HasReference,
                OpenWriters, CleanersSound, CleanerAt, Renewable, CleanupHolds
  <1>7. UsesSound'
    <2>1. Protected'
      BY <1>1, <1>2, <1>3 DEF Protected, OpenWriters
    <2>2. QED
      BY <1>3, <2>1, ProtectedUses DEF IInv, UsesSound, HasReference
  <1>8. QED
    BY <1>4, <1>5, <1>6, <1>7 DEF IInv

\* Asset, card, reservation and job change together.
LEMMA ApplyKeeps ==
  ASSUME IInv, NEW w \in Workers, Apply(w)
  PROVE  IInv'
  <1> DEFINE j == worker[w].job
  <1>1. /\ j \in Jobs /\ job[j].state = "leased" /\ job[j].worker = w
        /\ worker[w] \in WorkerState /\ job[j] \in JobRow /\ life.lease # "infinity"
    BY Holder DEF Apply, InScope, At
  <1>2. object /\ worker[w].stage \in {"apply", "replay"}
    BY <1>1 DEF IInv, WorkersSound, Apply, At
  <1>3. /\ job' \in [Jobs -> JobRow]
        /\ job'[j].state = "applied" /\ job'[j].worker = Nobody
        /\ \A i \in Jobs \ {j} : job'[i] = job[i]
    BY <1>1 DEF IInv, TypeOK, Apply, JobRow, Settled
  <1>4. /\ card' \in [Jobs -> CardRow]
        /\ asset' \in [Jobs -> BOOLEAN]
        /\ writer' \in [Jobs -> {"none", "finalized", "unreferenced"} \cup Open]
        /\ card'[j].image = "ready" /\ asset'[j] /\ writer'[j] = "finalized"
        /\ \A i \in Jobs \ {j} :
             card'[i] = card[i] /\ asset'[i] = asset[i] /\ writer'[i] = writer[i]
    BY <1>1 DEF IInv, TypeOK, Apply, CardRow, Images
  <1>5. UNCHANGED <<attempt, cleaner, deleting, cover, member, object, copying, ingest, faults>>
    BY DEF Apply, cleanup, store
  <1>6. worker' \in [Workers -> WorkerState] /\ WorkersSound'
    <2>1. PICK k \in WorkerState :
            /\ worker' = [worker EXCEPT ![w] = k]
            /\ \/ k.stage = "idle"
               \/ k.stage = "unknown" /\ k.job = j
      BY <1>1, Moves DEF Apply
    <2>2. \A v \in Workers \ {w}, i \in Jobs :
            job'[i].state = "leased" /\ job'[i].worker = v =>
              job[i].state = "leased" /\ job[i].worker = v /\ writer'[i] = writer[i]
      BY <1>3, <1>4
    <2>3. job'[j].state # "leased"
      BY <1>3
    <2>4. QED
      BY <1>1, <1>5, <2>1, <2>2, <2>3, WorkerMoves
  <1>7. life' = Unscheduled
    BY DEF Apply
  <1>8. TypeOK'
    BY <1>3, <1>4, <1>5, <1>6, <1>7 DEF IInv, TypeOK, Unscheduled, Life, LifeRow
  <1>9. JobsSound'
    BY <1>3, <1>4 DEF IInv, JobsSound, CardsShowTheJob, ImageOf, Unsettled
  <1>10. FenceSound' /\ CleanersSound'
    BY <1>1, <1>5, <1>7, FenceStaysDown, CleanersUntouched DEF Unscheduled, Life, cleanup
  <1>11. UsesSound'
    <2>1. Protected'
      BY <1>1, <1>4 DEF Protected, HasReference
    <2>2. QED
      BY <1>2, <1>5, <1>7, <2>1, ProtectedUses DEF Unscheduled, Life
  <1>12. QED
    BY <1>6, <1>8, <1>9, <1>10, <1>11 DEF IInv

\* The mark keeps an open reservation open.
LEMMA MarkAmbiguousKeeps ==
  ASSUME IInv, NEW w \in Workers, MarkAmbiguous(w)
  PROVE  IInv'
  <1> DEFINE j == worker[w].job
  <1>1. /\ worker[w] \in WorkerState /\ worker[w].stage = "unknown" /\ j \in Jobs
    BY DEF IInv, TypeOK, WorkersSound, MarkAmbiguous, At
  <1>2. UNCHANGED <<job, card, asset, life, attempt, cleaner, deleting, cover, member,
                    object, copying, ingest, faults>>
    BY DEF MarkAmbiguous, cleanup, store
  <1>3. /\ writer' \in [Jobs -> {"none", "finalized", "unreferenced"} \cup Open]
        /\ \A i \in Jobs \ {j} : writer'[i] = writer[i]
        /\ \/ writer' = writer
           \/ /\ writer[j] \in Open /\ writer'[j] = "ambiguous"
              /\ job[j].state = "leased" /\ job[j].worker = w
    BY <1>1 DEF IInv, TypeOK, MarkAmbiguous, Open, Holds
  <1>4. \A i \in Jobs : writer'[i] \in Open <=> writer[i] \in Open
    BY <1>3 DEF Open
  <1>5. job[j].state = "leased" /\ job[j].worker = w => writer[j] \in Open /\ object
    BY <1>1 DEF IInv, WorkersSound, WriterStages
  <1>6. worker' \in [Workers -> WorkerState] /\ WorkersSound'
    <2>1. PICK k \in WorkerState :
            worker' = [worker EXCEPT ![w] = k] /\ k.stage = "replay" /\ k.job = j
      BY <1>1, Moves DEF MarkAmbiguous
    <2>2. \A v \in Workers \ {w}, i \in Jobs :
            job[i].state = "leased" /\ job[i].worker = v => writer'[i] = writer[i]
      BY <1>3
    <2>3. \A v \in Workers \ {w}, i \in Jobs :
            job'[i].state = "leased" /\ job'[i].worker = v =>
              job[i].state = "leased" /\ job[i].worker = v /\ writer'[i] = writer[i]
      BY <1>2, <2>2
    <2>4. /\ k.job \in Jobs
          /\ job'[k.job].state = "leased" /\ job'[k.job].worker = w =>
               writer'[k.job] \in Open /\ object'
      BY <1>1, <1>2, <1>4, <1>5, <2>1
    <2>5. worker' = [worker EXCEPT ![w] = k] /\ (object => object')
      BY <1>2, <2>1
    <2> HIDE DEF j
    <2>6. QED
      BY <2>3, <2>4, <2>5, WorkerMoves
  <1>7. OpenWriters' = OpenWriters
    BY <1>4 DEF OpenWriters
  <1>8. TypeOK'
    BY <1>2, <1>3, <1>6 DEF IInv, TypeOK
  <1>9. JobsSound'
    BY <1>2, <1>3 DEF IInv, JobsSound, CardsShowTheJob, Open
  <1>10. FenceSound' /\ CleanersSound'
    BY <1>2, <1>7 DEF IInv, FenceSound, FencedBlobIsUnused, HasReference, CleanersSound,
                      CleanerAt, Renewable, CleanupHolds
  <1>11. UsesSound'
    <2>1. \A i \in Jobs : writer'[i] = "ambiguous" => object'
      BY <1>2, <1>3, <1>5 DEF IInv, UsesSound
    <2>2. QED
      BY <1>2, <1>7, <2>1 DEF IInv, UsesSound, StoredBlobIsAccountedFor, Protected, HasReference
  <1>12. QED
    BY <1>6, <1>8, <1>9, <1>10, <1>11 DEF IInv

\* A job goes back to the queue within its attempts.
LEMMA RescheduleKeeps ==
  ASSUME IInv, NEW w \in Workers, Reschedule(w)
  PROVE  IInv'
  <1>1. TypeOK'
    <2>1. job' \in [Jobs -> JobRow]
      <3> DEFINE j == worker[w].job
      <3>1. j \in Jobs /\ job[j] \in JobRow /\ job[j].retries + 1 < MaxAttempts
        BY Holder DEF Reschedule, Retried, At
      <3>2. job[j].retries + 1 \in 0..(MaxAttempts - 1)
        BY <3>1, AttemptsAssumption DEF JobRow
      <3>3. [state |-> "pending", worker |-> Nobody, fresh |-> FALSE,
             retries |-> job[j].retries + 1] \in JobRow
        BY <3>2 DEF JobRow, Unsettled
      <3>4. job' = [job EXCEPT ![j] = [state |-> "pending", worker |-> Nobody, fresh |-> FALSE,
                                       retries |-> job[j].retries + 1]]
        BY DEF Reschedule
      <3> HIDE DEF j
      <3>5. QED
        BY <3>3, <3>4 DEF IInv, TypeOK
    <2>2. worker' \in [Workers -> WorkerState]
      BY  DEF IInv, TypeOK, Reschedule, Holds, At, Drop, Retried, IdleWorker, Unsettled, Settled,
              cleanup, store, WorkerState
    <2>3. QED
      BY <2>1, <2>2 DEF IInv, TypeOK, Reschedule, cleanup, store
  <1>2. JobsSound'
    <2>1. UNCHANGED <<card, asset, writer>>
      BY DEF Reschedule
    <2>2. \A i \in Jobs : \/ job'[i].state = job[i].state
                          \/ job[i].state \in Unsettled /\ job'[i].state \in Unsettled
      BY DEF IInv, TypeOK, Reschedule, Holds, Unsettled, JobRow
    <2>3. QED
      BY <2>1, <2>2, OpenJobsMove
  <1>3. FenceSound'
    BY  DEF IInv, Reschedule, Holds, At, Drop, Retried, IdleWorker, Unsettled, Settled, cleanup,
            store, FenceSound, FencedBlobIsUnused, Fencing, TypeOK, LifeRow, AttemptRow,
            HasReference, OpenWriters
  <1>4. WorkersSound'
    BY  DEF IInv, Reschedule, Holds, At, Drop, Retried, IdleWorker, Unsettled, Settled, cleanup,
            store, WorkersSound, WriterStages, TypeOK, WorkerState, JobRow
  <1>5. UsesSound' /\ CleanersSound'
    BY  DEF IInv, Reschedule, Holds, At, Drop, Retried, IdleWorker, Unsettled, Settled, cleanup,
            store, UsesSound, StoredBlobIsAccountedFor, Protected, TypeOK, LifeRow, AttemptRow,
            HasReference, OpenWriters, CleanersSound, CleanerState, CleanerAt, Renewable,
            CleanupHolds
  <1>6. QED
    BY <1>1, <1>2, <1>3, <1>4, <1>5 DEF IInv

\* A late COPY finds its blob protected.
LEMMA CopyArrivesKeeps ==
  ASSUME IInv, NEW j \in Jobs, CopyArrives(j)
  PROVE  IInv'
  <1>1. life.lease # "infinity" /\ Protected
    BY Fenced DEF CopyArrives, IInv, UsesSound
  <1>2. object' \in BOOLEAN /\ (object => object') /\ copying' \in SUBSET Jobs
    <2>1. object \in BOOLEAN /\ object' \in {object, TRUE}
      BY DEF IInv, TypeOK, CopyArrives
    <2>2. copying' \in SUBSET Jobs
      BY DEF IInv, TypeOK, CopyArrives
    <2>3. QED
      BY <2>1, <2>2
  <1>3. UNCHANGED <<job, card, asset, writer, life, attempt, cleaner, deleting, cover,
                    member, worker, ingest, faults>>
    BY DEF CopyArrives, cleanup, jobRows
  <1>4. TypeOK' /\ JobsSound'
    BY <1>2, <1>3 DEF IInv, TypeOK, JobsSound, CardsShowTheJob
  <1>5. FenceSound' /\ CleanersSound'
    BY <1>1, <1>3, FenceStaysDown, CleanersUntouched DEF cleanup
  <1>6. UsesSound'
    <2>1. Protected'
      BY <1>1, <1>3 DEF Protected, HasReference, OpenWriters
    <2>2. QED
      BY <1>2, <1>3, <2>1, ProtectedUses DEF IInv, UsesSound, HasReference
  <1>7. WorkersSound'
    BY <1>2, <1>3 DEF IInv, WorkersSound
  <1>8. QED
    BY <1>4, <1>5, <1>6, <1>7 DEF IInv

\* Cleaner c moves to k; the attempt stays as it is or is no other cleaner's.
LEMMA CleanerMoves ==
  ASSUME IInv, NEW c \in Cleaners, NEW k \in CleanerState, cleaner' = [cleaner EXCEPT ![c] = k],
         object' => object, UNCHANGED <<attempt, life>> \/ attempt'.cleaner \notin Cleaners \ {c},
         deleting' \subseteq deleting,
         \A d \in deleting' : attempt'.cleaner = d /\ attempt'.state = attempt.state,
         k.sent => k.stage \in {"delete", "await", "renewComplete", "complete"},
         k.stage \notin {"delete", "await"},
         attempt'.cleaner = c /\ ~k.sent /\ k.stage \notin {"idle", "looked", "terminal"} =>
           attempt'.state \in {"claimed", "authorized"},
         k.stage \in {"renewComplete", "complete"} /\ Renewable(c)' => ~object' /\ c \notin deleting'
  PROVE  cleaner' \in [Cleaners -> CleanerState] /\ CleanersSound'
  <1>1. /\ cleaner' \in [Cleaners -> CleanerState] /\ cleaner'[c] = k
        /\ \A d \in Cleaners \ {c} : cleaner'[d] = cleaner[d]
    BY DEF IInv, TypeOK
  <1>2. \A d \in Cleaners \ {c} :
          /\ attempt'.cleaner = d => UNCHANGED <<attempt, life>>
          /\ Renewable(d)' => Renewable(d)
    BY DEF Renewable, CleanupHolds
  <1>3. QED
    BY <1>1, <1>2 DEF IInv, CleanersSound, CleanerAt

\* CleanerDrop is such a move, and forgets everything.
LEMMA CleanerDrops ==
  ASSUME NEW c \in Cleaners, CleanerDrop(c)
  PROVE  /\ IdleCleaner \in CleanerState /\ cleaner' = [cleaner EXCEPT ![c] = IdleCleaner]
         /\ IdleCleaner.stage = "idle" /\ ~IdleCleaner.sent
  BY DEF CleanerDrop, IdleCleaner, CleanerState

\* So is CleanerGoTo.
LEMMA CleanerGoes ==
  ASSUME NEW c \in Cleaners, cleaner[c] \in CleanerState,
         NEW s \in {"looked", "authorize", "renewHead", "head", "renewDelete", "renewComplete",
                    "complete", "retry", "terminal"},
         CleanerGoTo(c, s)
  PROVE  \E k \in CleanerState :
           cleaner' = [cleaner EXCEPT ![c] = k] /\ k.stage = s /\ k.sent = cleaner[c].sent
  <1> DEFINE k == [cleaner[c] EXCEPT !.stage = s]
  <1>1. k \in CleanerState /\ k.stage = s /\ k.sent = cleaner[c].sent
    BY DEF CleanerState
  <1>2. cleaner' = [cleaner EXCEPT ![c] = k]
    BY DEF CleanerGoTo
  <1> HIDE DEF k
  <1>3. QED
    BY <1>1, <1>2

\* A cleaner picks a candidate.
LEMMA LookKeeps ==
  ASSUME IInv, NEW c \in Cleaners, Look(c)
  PROVE  IInv'
  <1>1. TypeOK'
    <2>1. cleaner' \in [Cleaners -> CleanerState]
      BY DEF IInv, TypeOK, Look, CleanerGoTo, NotCleanup, jobRows, CleanerState
    <2>2. QED
      BY <2>1 DEF IInv, TypeOK, Look, NotCleanup, jobRows
  <1>2. CleanersSound'
    BY  DEF IInv, Look, CleanerGoTo, NotCleanup, jobRows, CleanersSound, TypeOK, CleanerState,
            AttemptRow, LifeRow, CleanerAt, Renewable, CleanupHolds
  <1>3. JobsSound' /\ FenceSound' /\ UsesSound' /\ WorkersSound'
    BY  DEF IInv, Look, CleanerGoTo, NotCleanup, jobRows, JobsSound, CardsShowTheJob, TypeOK,
            JobRow, FenceSound, FencedBlobIsUnused, Fencing, LifeRow, AttemptRow, HasReference,
            OpenWriters, UsesSound, StoredBlobIsAccountedFor, Protected, WorkersSound,
            WriterStages, WorkerState
  <1>4. QED
    BY <1>1, <1>2, <1>3 DEF IInv

\* A claim raises no fence.
LEMMA ClaimKeeps ==
  ASSUME IInv, NEW c \in Cleaners, Claim(c)
  PROVE  IInv'
  <1>1. UNCHANGED <<job, card, asset, writer, cover, member, object, copying, deleting, worker,
                    ingest, faults>>
    BY DEF Claim, NotCleanup, jobRows
  <1>2. cleaner[c] \in CleanerState /\ cleaner[c].stage = "looked" /\ ~cleaner[c].sent
    BY DEF IInv, TypeOK, CleanersSound, Claim, CleanerAt
  <1>3. CASE CleanupDue
    <2>1. /\ attempt' = [state |-> "claimed", cleaner |-> c, fresh |-> TRUE]
          /\ life' = Life("due", "finite", c) /\ CleanerGoTo(c, "authorize")
      BY <1>3 DEF Claim
    <2>2. life.lease # "infinity" /\ life.eligible = "due" /\ deleting = {}
      BY <1>3, Unfenced DEF CleanupDue, CleanupLeased
    <2>3. cleaner' \in [Cleaners -> CleanerState] /\ CleanersSound'
      <3>1. PICK k \in CleanerState :
              cleaner' = [cleaner EXCEPT ![c] = k] /\ k.stage = "authorize" /\ ~k.sent
        BY <1>2, <2>1, CleanerGoes
      <3>2. QED
        BY <1>1, <2>1, <2>2, <3>1, CleanerMoves
    <2>4. attempt' \in AttemptRow /\ life' \in LifeRow
      BY <2>1 DEF AttemptRow, LifeRow, Life
    <2>5. TypeOK' /\ JobsSound' /\ WorkersSound'
      BY <1>1, <2>3, <2>4 DEF IInv, TypeOK, JobsSound, CardsShowTheJob, WorkersSound
    <2>6. FenceSound'
      BY <2>1 DEF FenceSound, FencedBlobIsUnused, Fencing, Life
    <2>7. UsesSound'
      BY <1>1, <2>1, <2>2 DEF IInv, UsesSound, StoredBlobIsAccountedFor, Protected,
                              HasReference, OpenWriters, Life
    <2>8. QED
      BY <2>3, <2>5, <2>6, <2>7 DEF IInv
  <1>4. CASE ~CleanupDue
    <2>1. CleanerDrop(c) /\ UNCHANGED <<attempt, life>>
      BY <1>4 DEF Claim
    <2>2. cleaner' \in [Cleaners -> CleanerState] /\ CleanersSound'
      BY <1>1, <2>1, CleanerDrops, CleanerMoves DEF IInv, CleanersSound
    <2>3. TypeOK' /\ JobsSound' /\ WorkersSound' /\ FenceSound' /\ UsesSound'
      BY <1>1, <2>1, <2>2 DEF IInv, TypeOK, JobsSound, CardsShowTheJob, WorkersSound, FenceSound,
           FencedBlobIsUnused, UsesSound, StoredBlobIsAccountedFor, Protected, HasReference, OpenWriters
    <2>4. QED
      BY <2>2, <2>3 DEF IInv
  <1>5. QED
    BY <1>3, <1>4

\* A new cleaner inherits a raised fence.
LEMMA TakeOverKeeps ==
  ASSUME IInv, NEW c \in Cleaners, TakeOver(c)
  PROVE  IInv'
  <1>1. TypeOK'
    <2>1. cleaner' \in [Cleaners -> CleanerState]
      BY DEF IInv, TypeOK, TakeOver, CleanerGoTo, NotCleanup, jobRows, CleanerState
    <2>2. attempt' \in AttemptRow
      BY DEF IInv, TypeOK, TakeOver, CleanerGoTo, NotCleanup, jobRows, AttemptRow
    <2>3. life' \in LifeRow
      BY DEF IInv, TypeOK, TakeOver, CleanerGoTo, NotCleanup, jobRows, LifeRow
    <2>4. QED
      BY <2>1, <2>2, <2>3 DEF IInv, TypeOK, TakeOver, NotCleanup, jobRows
  <1>2. FenceSound'
    BY  DEF IInv, TakeOver, CleanerGoTo, NotCleanup, jobRows, FenceSound, FencedBlobIsUnused,
            Fencing, TypeOK, LifeRow, AttemptRow, HasReference, OpenWriters
  <1>3. UsesSound'
    BY  DEF IInv, TakeOver, CleanerGoTo, NotCleanup, jobRows, UsesSound, StoredBlobIsAccountedFor,
            Protected, TypeOK, LifeRow, AttemptRow, HasReference, OpenWriters
  <1>4. CleanersSound'
    BY  DEF IInv, TakeOver, CleanerGoTo, NotCleanup, jobRows, CleanersSound, TypeOK, CleanerState,
            AttemptRow, LifeRow, CleanerAt, Renewable, CleanupHolds
  <1>5. JobsSound' /\ WorkersSound'
    BY  DEF IInv, TakeOver, CleanerGoTo, NotCleanup, jobRows, JobsSound, CardsShowTheJob, TypeOK,
            JobRow, WorkersSound, WriterStages, WorkerState
  <1>6. QED
    BY <1>1, <1>2, <1>3, <1>4, <1>5 DEF IInv

\* A cleanup lease ends; a raised fence stays.
LEMMA ExpireCleanupLeaseKeeps ==
  ASSUME IInv, ExpireCleanupLease
  PROVE  IInv'
  <1>1. TypeOK'
    <2>1. attempt' \in AttemptRow
      BY DEF IInv, TypeOK, ExpireCleanupLease, NotCleanup, jobRows, AttemptRow
    <2>2. life' \in LifeRow
      BY DEF IInv, TypeOK, ExpireCleanupLease, NotCleanup, jobRows, LifeRow
    <2>3. QED
      BY <2>1, <2>2 DEF IInv, TypeOK, ExpireCleanupLease, NotCleanup, jobRows
  <1>2. FenceSound'
    BY  DEF IInv, ExpireCleanupLease, NotCleanup, jobRows, FenceSound, FencedBlobIsUnused, Fencing,
            TypeOK, LifeRow, AttemptRow, HasReference, OpenWriters
  <1>3. UsesSound'
    BY  DEF IInv, ExpireCleanupLease, NotCleanup, jobRows, UsesSound, StoredBlobIsAccountedFor,
            Protected, TypeOK, LifeRow, AttemptRow, HasReference, OpenWriters
  <1>4. CleanersSound'
    BY  DEF IInv, ExpireCleanupLease, NotCleanup, jobRows, CleanersSound, TypeOK, CleanerState,
            AttemptRow, LifeRow, CleanerAt, Renewable, CleanupHolds
  <1>5. JobsSound' /\ WorkersSound'
    BY  DEF IInv, ExpireCleanupLease, NotCleanup, jobRows, JobsSound, CardsShowTheJob, TypeOK,
            JobRow, WorkersSound, WriterStages, WorkerState
  <1>6. QED
    BY <1>1, <1>2, <1>3, <1>4, <1>5 DEF IInv

\* The fence is raised where nothing uses the blob.
LEMMA AuthorizeKeeps ==
  ASSUME IInv, NEW c \in Cleaners, Authorize(c)
  PROVE  IInv'
  <1>1. UNCHANGED <<job, card, asset, writer, cover, member, object, copying, deleting, worker,
                    ingest, faults>>
    BY DEF Authorize, NotCleanup, jobRows
  <1>2. cleaner[c] \in CleanerState /\ cleaner[c].stage = "authorize" /\ ~cleaner[c].sent
    BY DEF IInv, TypeOK, CleanersSound, Authorize, CleanerAt
  <1>3. attempt.cleaner = c => attempt.state \in {"claimed", "authorized"} /\ deleting = {}
    BY <1>2 DEF IInv, CleanersSound
  <1>4. CASE UNCHANGED <<attempt, life>>
    <2>1. CleanerDrop(c) \/ (Renewable(c) /\ CleanerGoTo(c, "renewHead"))
      BY <1>4 DEF IInv, TypeOK, AttemptRow, Authorize
    <2>2. cleaner' \in [Cleaners -> CleanerState] /\ CleanersSound'
      <3>1. CASE CleanerDrop(c)
        BY <1>1, <1>4, <3>1, CleanerDrops, CleanerMoves DEF IInv, CleanersSound
      <3>2. CASE Renewable(c) /\ CleanerGoTo(c, "renewHead")
        <4>1. PICK k \in CleanerState :
                cleaner' = [cleaner EXCEPT ![c] = k] /\ k.stage = "renewHead" /\ ~k.sent
          BY <1>2, <3>2, CleanerGoes
        <4>2. QED
          BY <1>1, <1>3, <1>4, <4>1, CleanerMoves DEF IInv, CleanersSound
      <3>3. QED
        BY <2>1, <3>1, <3>2
    <2>3. TypeOK' /\ JobsSound' /\ WorkersSound' /\ FenceSound' /\ UsesSound'
      BY <1>1, <1>4, <2>2 DEF IInv, TypeOK, JobsSound, CardsShowTheJob, WorkersSound, FenceSound,
           FencedBlobIsUnused, UsesSound, StoredBlobIsAccountedFor, Protected, HasReference, OpenWriters
    <2>4. QED
      BY <2>2, <2>3 DEF IInv
  <1>5. CASE CleanupHolds(c) /\ attempt.state = "claimed"
    <2>1. /\ life.lease = "finite" /\ life.eligible = "due" /\ deleting = {}
          /\ attempt.cleaner = c /\ life.cleaner = c /\ attempt.fresh
      BY <1>3, <1>5 DEF IInv, FenceSound, CleanupHolds
    <2> DEFINE Stopped == /\ attempt' = ClosedAttempt("blocked")
                          /\ life' = Life(life.eligible, "none", Nobody)
                          /\ CleanerDrop(c)
               Raised == /\ attempt' = [attempt EXCEPT !.state = "authorized"]
                         /\ life' = [life EXCEPT !.lease = "infinity"]
                         /\ ~Blocked /\ CleanerGoTo(c, "renewHead")
    <2>2. Stopped \/ Raised
      BY <1>5, <2>1 DEF Authorize, Renewable
    <2>3. CASE Stopped
      <3>1. /\ attempt' = [state |-> "blocked", cleaner |-> Nobody, fresh |-> FALSE]
            /\ life' = [eligible |-> "due", lease |-> "none", cleaner |-> Nobody]
        BY <2>1, <2>3 DEF ClosedAttempt, NoAttempt, Life
      <3>2. cleaner' \in [Cleaners -> CleanerState] /\ CleanersSound'
        BY <1>1, <2>1, <2>3, <3>1, CleanerDrops, CleanerMoves, NobodyAssumption
      <3>3. TypeOK' /\ JobsSound' /\ WorkersSound'
        BY <1>1, <3>1, <3>2 DEF IInv, TypeOK, AttemptRow, LifeRow, JobsSound, CardsShowTheJob,
                                WorkersSound
      <3>4. FenceSound'
        BY <3>1 DEF FenceSound, FencedBlobIsUnused, Fencing
      <3>5. UsesSound'
        BY <1>1, <2>1, <3>1 DEF IInv, UsesSound, StoredBlobIsAccountedFor, Protected,
                                HasReference, OpenWriters
      <3>6. QED
        BY <3>2, <3>3, <3>4, <3>5 DEF IInv
    <2>4. CASE Raised
      <3>1. /\ attempt' \in AttemptRow /\ attempt'.state = "authorized" /\ attempt'.cleaner = c
            /\ life' \in LifeRow /\ life'.lease = "infinity" /\ life'.cleaner = c
            /\ life'.eligible = "due"
        BY <2>1, <2>4 DEF IInv, TypeOK, AttemptRow, LifeRow
      <3>2. cleaner' \in [Cleaners -> CleanerState] /\ CleanersSound'
        <4>1. PICK k \in CleanerState :
                cleaner' = [cleaner EXCEPT ![c] = k] /\ k.stage = "renewHead" /\ ~k.sent
          BY <1>2, <2>4, CleanerGoes
        <4>2. QED
          BY <1>1, <2>1, <3>1, <4>1, CleanerMoves
      <3>3. TypeOK' /\ JobsSound' /\ WorkersSound'
        BY <1>1, <3>1, <3>2 DEF IInv, TypeOK, JobsSound, CardsShowTheJob, WorkersSound
      <3>4. FenceSound'
        BY <1>1, <2>4, <3>1 DEF FenceSound, FencedBlobIsUnused, Fencing, Blocked, HasReference,
                                OpenWriters
      <3>5. UsesSound'
        BY <1>1, <2>1, <3>1 DEF IInv, UsesSound, StoredBlobIsAccountedFor, Protected,
                                HasReference, OpenWriters
      <3>6. QED
        BY <3>2, <3>3, <3>4, <3>5 DEF IInv
    <2>5. QED
      BY <2>2, <2>3, <2>4
  <1>6. QED
    BY <1>4, <1>5 DEF Authorize

\* From here on the deletion may be on its way.
LEMMA RenewDeleteKeeps ==
  ASSUME IInv, NEW c \in Cleaners, RenewDelete(c)
  PROVE  IInv'
  <1>1. TypeOK'
    <2>1. cleaner' \in [Cleaners -> CleanerState]
      BY DEF IInv, TypeOK, RenewDelete, Renewable, CleanupHolds, NotCleanup, jobRows, CleanerState
    <2>2. attempt' \in AttemptRow
      BY DEF IInv, TypeOK, RenewDelete, Renewable, CleanupHolds, NotCleanup, jobRows, AttemptRow
    <2>3. QED
      BY <2>1, <2>2 DEF IInv, TypeOK, RenewDelete, NotCleanup, jobRows
  <1>2. FenceSound'
    BY  DEF IInv, RenewDelete, Renewable, CleanupHolds, NotCleanup, jobRows, FenceSound,
            FencedBlobIsUnused, Fencing, TypeOK, LifeRow, AttemptRow, HasReference, OpenWriters
  <1>3. CleanersSound'
    BY  DEF IInv, RenewDelete, Renewable, CleanupHolds, NotCleanup, jobRows, CleanersSound, TypeOK,
            CleanerState, AttemptRow, LifeRow, CleanerAt
  <1>4. JobsSound' /\ UsesSound' /\ WorkersSound'
    BY  DEF IInv, RenewDelete, Renewable, CleanupHolds, NotCleanup, jobRows, JobsSound,
            CardsShowTheJob, TypeOK, JobRow, UsesSound, StoredBlobIsAccountedFor, Protected,
            LifeRow, AttemptRow, HasReference, OpenWriters, WorkersSound, WriterStages, WorkerState
  <1>5. QED
    BY <1>1, <1>2, <1>3, <1>4 DEF IInv

\* The DELETE is sent by the holder of the attempt.
LEMMA SendDeleteKeeps ==
  ASSUME IInv, NEW c \in Cleaners, SendDelete(c)
  PROVE  IInv'
  <1>1. TypeOK'
    <2>1. cleaner' \in [Cleaners -> CleanerState]
      BY DEF IInv, TypeOK, SendDelete, CleanupHolds, CleanerGoTo, NotCleanup, jobRows, CleanerState
    <2>2. QED
      BY <2>1 DEF IInv, TypeOK, SendDelete, NotCleanup, jobRows
  <1>2. CleanersSound'
    BY  DEF IInv, SendDelete, CleanupHolds, CleanerGoTo, NotCleanup, jobRows, CleanersSound,
            TypeOK, CleanerState, AttemptRow, LifeRow, CleanerAt, Renewable
  <1>3. JobsSound' /\ FenceSound' /\ UsesSound' /\ WorkersSound'
    BY  DEF IInv, SendDelete, CleanupHolds, CleanerGoTo, NotCleanup, jobRows, JobsSound,
            CardsShowTheJob, TypeOK, JobRow, FenceSound, FencedBlobIsUnused, Fencing, LifeRow,
            AttemptRow, HasReference, OpenWriters, UsesSound, StoredBlobIsAccountedFor, Protected,
            WorkersSound, WriterStages, WorkerState
  <1>4. QED
    BY <1>1, <1>2, <1>3 DEF IInv

\* The object goes behind its fence.
LEMMA DeleteArrivesKeeps ==
  ASSUME IInv, NEW c \in Cleaners, DeleteArrives(c)
  PROVE  IInv'
  <1>1. TypeOK'
    <2>1. cleaner' \in [Cleaners -> CleanerState]
      BY DEF IInv, TypeOK, DeleteArrives, CleanerGoTo, NotCleanup, jobRows, CleanerState
    <2>2. QED
      BY <2>1 DEF IInv, TypeOK, DeleteArrives, NotCleanup, jobRows
  <1>2. life.lease = "infinity"
    BY Unfenced DEF DeleteArrives
  <1>3. UsesSound' /\ WorkersSound'
    <2>1. UNCHANGED <<job, card, asset, writer, cover, worker, copying, ingest, life>>
      BY DEF DeleteArrives, NotCleanup, jobRows
    <2>2. \A j \in Jobs : job[j].state # "leased" /\ writer[j] # "ambiguous"
      BY <1>2, Fenced DEF Unsettled, Open
    <2>3. WorkersSound'
      BY <2>1, <2>2 DEF IInv, WorkersSound
    <2>4. UsesSound'
      BY <1>2, <2>1, <2>2, Fenced DEF IInv, UsesSound, StoredBlobIsAccountedFor, HasReference,
                                      Protected, OpenWriters
    <2>5. QED
      BY <2>3, <2>4
  <1>4. CleanersSound'
    BY  DEF IInv, DeleteArrives, CleanerGoTo, NotCleanup, jobRows, CleanersSound, TypeOK,
            CleanerState, AttemptRow, LifeRow, CleanerAt, Renewable, CleanupHolds
  <1>5. JobsSound' /\ FenceSound'
    BY  DEF IInv, DeleteArrives, CleanerGoTo, NotCleanup, jobRows, JobsSound, CardsShowTheJob,
            TypeOK, JobRow, FenceSound, FencedBlobIsUnused, Fencing, LifeRow, AttemptRow,
            HasReference, OpenWriters
  <1>6. QED
    BY <1>1, <1>2, <1>3, <1>4, <1>5 DEF IInv

\* The fence is lifted when the object is gone and no DELETE is left.
LEMMA CompleteKeeps ==
  ASSUME IInv, NEW c \in Cleaners, Complete(c)
  PROVE  IInv'
  <1>1. /\ UNCHANGED <<job, card, asset, writer, cover, member, object, copying, deleting, worker,
                       ingest, faults>>
        /\ attempt' = ClosedAttempt("completed") /\ life' = Unscheduled /\ CleanerDrop(c)
    BY DEF Complete, NotCleanup, jobRows
  <1>2. life.lease = "infinity" /\ attempt.cleaner = c /\ ~object /\ c \notin deleting
    BY DEF IInv, CleanersSound, Complete, Renewable, CleanupHolds, CleanerAt
  <1>3. deleting = {}
    BY <1>2 DEF IInv, CleanersSound
  <1>4. cleaner' \in [Cleaners -> CleanerState] /\ CleanersSound'
    BY <1>1, <1>3, CleanerDrops, CleanerMoves, NobodyAssumption DEF ClosedAttempt, NoAttempt
  <1>5. TypeOK'
    BY <1>1, <1>4 DEF IInv, TypeOK, ClosedAttempt, NoAttempt, AttemptRow, Unscheduled, Life, LifeRow
  <1>6. JobsSound' /\ WorkersSound'
    BY <1>1 DEF IInv, JobsSound, CardsShowTheJob, WorkersSound
  <1>7. FenceSound'
    BY <1>1 DEF FenceSound, FencedBlobIsUnused, Fencing, ClosedAttempt, NoAttempt, Unscheduled, Life
  <1>8. UsesSound'
    BY <1>1, <1>2, Fenced DEF IInv, UsesSound, StoredBlobIsAccountedFor, HasReference,
                              Unscheduled, Life
  <1>9. QED
    BY <1>4, <1>5, <1>6, <1>7, <1>8 DEF IInv

\* A failed attempt keeps its fence.
LEMMA RecordFailureKeeps ==
  ASSUME IInv, NEW c \in Cleaners, RecordFailure(c)
  PROVE  IInv'
  <1>1. TypeOK'
    <2>1. cleaner' \in [Cleaners -> CleanerState]
      BY  DEF IInv, TypeOK, RecordFailure, CleanerDrop, IdleCleaner, Renewable, CleanupHolds,
              NotCleanup, jobRows, CleanerState
    <2>2. attempt' \in AttemptRow
      BY  DEF IInv, TypeOK, RecordFailure, CleanerDrop, IdleCleaner, Renewable, CleanupHolds,
              NotCleanup, jobRows, AttemptRow
    <2>3. QED
      BY <2>1, <2>2 DEF IInv, TypeOK, RecordFailure, NotCleanup, jobRows
  <1>2. FenceSound'
    BY  DEF IInv, RecordFailure, CleanerDrop, IdleCleaner, Renewable, CleanupHolds, NotCleanup,
            jobRows, FenceSound, FencedBlobIsUnused, Fencing, TypeOK, LifeRow, AttemptRow,
            HasReference, OpenWriters
  <1>3. CleanersSound'
    BY  DEF IInv, RecordFailure, CleanerDrop, IdleCleaner, Renewable, CleanupHolds, NotCleanup,
            jobRows, CleanersSound, TypeOK, CleanerState, AttemptRow, LifeRow, CleanerAt
  <1>4. JobsSound' /\ UsesSound' /\ WorkersSound'
    BY  DEF IInv, RecordFailure, CleanerDrop, IdleCleaner, Renewable, CleanupHolds, NotCleanup,
            jobRows, JobsSound, CardsShowTheJob, TypeOK, JobRow, UsesSound,
            StoredBlobIsAccountedFor, Protected, LifeRow, AttemptRow, HasReference, OpenWriters,
            WorkersSound, WriterStages, WorkerState
  <1>5. QED
    BY <1>1, <1>2, <1>3, <1>4 DEF IInv

\* A delay ends when nobody may still store.
LEMMA RipenKeeps ==
  ASSUME IInv, Ripen
  PROVE  IInv'
  <1>1. TypeOK'
    <2>1. life' \in LifeRow
      BY DEF IInv, TypeOK, Ripen, NotCleanup, cleanup, jobRows, LifeRow
    <2>2. QED
      BY <2>1 DEF IInv, TypeOK, Ripen, NotCleanup, cleanup, jobRows
  <1>2. FenceSound'
    BY  DEF IInv, Ripen, NotCleanup, cleanup, jobRows, FenceSound, FencedBlobIsUnused, Fencing,
            TypeOK, LifeRow, AttemptRow, HasReference, OpenWriters
  <1>3. UsesSound'
    BY  DEF IInv, Ripen, NotCleanup, cleanup, jobRows, UsesSound, StoredBlobIsAccountedFor,
            Protected, TypeOK, LifeRow, AttemptRow, HasReference, OpenWriters
  <1>4. CleanersSound'
    BY  DEF IInv, Ripen, NotCleanup, cleanup, jobRows, CleanersSound, TypeOK, CleanerState,
            AttemptRow, LifeRow, CleanerAt, Renewable, CleanupHolds
  <1>5. JobsSound' /\ WorkersSound'
    BY  DEF IInv, Ripen, NotCleanup, cleanup, jobRows, JobsSound, CardsShowTheJob, TypeOK, JobRow,
            WorkersSound, WriterStages, WorkerState
  <1>6. QED
    BY <1>1, <1>2, <1>3, <1>4, <1>5 DEF IInv

\* A cover request is protected from its admission on.
LEMMA AdmitKeeps ==
  ASSUME IInv, Admit
  PROVE  IInv'
  <1>1. TypeOK'
    <2>1. life' \in LifeRow
      BY  DEF IInv, TypeOK, Admit, ScheduleUnlessReferenced, Scheduled, Unscheduled, Life,
              CleanupLeased, NotIngest, cleanup, jobRows, LifeRow
    <2>2. QED
      BY <2>1 DEF IInv, TypeOK, Admit, NotIngest, cleanup, jobRows
  <1>2. FenceSound'
    BY FenceStaysDown DEF Admit, CleanupLeased, ScheduleUnlessReferenced, Scheduled, Unscheduled,
                          Life, NotIngest, cleanup
  <1>3. UsesSound'
    BY  DEF IInv, Admit, ScheduleUnlessReferenced, Scheduled, Unscheduled, Life, CleanupLeased,
            NotIngest, cleanup, jobRows, UsesSound, StoredBlobIsAccountedFor, Protected, TypeOK,
            LifeRow, AttemptRow, HasReference, OpenWriters
  <1>4. CleanersSound'
    BY  DEF IInv, Admit, ScheduleUnlessReferenced, Scheduled, Unscheduled, Life, CleanupLeased,
            NotIngest, cleanup, jobRows, CleanersSound, TypeOK, CleanerState, AttemptRow, LifeRow,
            CleanerAt, Renewable, CleanupHolds
  <1>5. JobsSound' /\ WorkersSound'
    BY  DEF IInv, Admit, ScheduleUnlessReferenced, Scheduled, Unscheduled, Life, CleanupLeased,
            NotIngest, cleanup, jobRows, JobsSound, CardsShowTheJob, TypeOK, JobRow, WorkersSound,
            WriterStages, WorkerState
  <1>6. QED
    BY <1>1, <1>2, <1>3, <1>4, <1>5 DEF IInv

\* It stores where the fence is down.
LEMMA StoreBytesKeeps ==
  ASSUME IInv, StoreBytes
  PROVE  IInv'
  <1>1. life.lease # "infinity" /\ Protected
    BY Fenced DEF StoreBytes, IInv, UsesSound
  <1>2. object' /\ object' \in BOOLEAN /\ ingest' = "stored"
    BY DEF StoreBytes
  <1>3. UNCHANGED <<job, card, asset, writer, life, attempt, cleaner, deleting, cover,
                    member, worker, copying, faults>>
    BY DEF StoreBytes, NotIngest, cleanup, jobRows
  <1>4. TypeOK' /\ JobsSound'
    BY <1>2, <1>3 DEF IInv, TypeOK, JobsSound, CardsShowTheJob
  <1>5. FenceSound' /\ CleanersSound'
    BY <1>1, <1>3, FenceStaysDown, CleanersUntouched DEF cleanup
  <1>6. UsesSound'
    <2>1. Protected'
      BY <1>1, <1>3 DEF Protected, HasReference, OpenWriters
    <2>2. QED
      BY <1>2, <1>3, <2>1, ProtectedUses DEF IInv, UsesSound, HasReference
  <1>7. WorkersSound'
    BY <1>2, <1>3 DEF IInv, WorkersSound
  <1>8. QED
    BY <1>4, <1>5, <1>6, <1>7 DEF IInv

\* It references what it has stored.
LEMMA AttachCoverKeeps ==
  ASSUME IInv, AttachCover
  PROVE  IInv'
  <1>1. TypeOK'
    <2>1. life' \in LifeRow
      BY  DEF IInv, TypeOK, AttachCover, Unscheduled, Life, CleanupLeased, NotIngest, cleanup,
              jobRows, LifeRow
    <2>2. QED
      BY <2>1 DEF IInv, TypeOK, AttachCover, NotIngest, cleanup, jobRows
  <1>2. FenceSound'
    BY FenceStaysDown DEF AttachCover, CleanupLeased, Unscheduled, Life, NotIngest, cleanup
  <1>3. UsesSound'
    BY  DEF IInv, AttachCover, Unscheduled, Life, CleanupLeased, NotIngest, cleanup, jobRows,
            UsesSound, StoredBlobIsAccountedFor, Protected, TypeOK, LifeRow, AttemptRow,
            HasReference, OpenWriters
  <1>4. CleanersSound'
    BY  DEF IInv, AttachCover, Unscheduled, Life, CleanupLeased, NotIngest, cleanup, jobRows,
            CleanersSound, TypeOK, CleanerState, AttemptRow, LifeRow, CleanerAt, Renewable,
            CleanupHolds
  <1>5. JobsSound' /\ WorkersSound'
    BY  DEF IInv, AttachCover, Unscheduled, Life, CleanupLeased, NotIngest, cleanup, jobRows,
            JobsSound, CardsShowTheJob, TypeOK, JobRow, WorkersSound, WriterStages, WorkerState
  <1>6. QED
    BY <1>1, <1>2, <1>3, <1>4, <1>5 DEF IInv

\* A request is given up.
LEMMA GiveUpIngestKeeps ==
  ASSUME IInv, GiveUpIngest
  PROVE  IInv'
  <1>1. TypeOK'
    <2>1. QED
      BY DEF IInv, TypeOK, GiveUpIngest, NotIngest, cleanup, jobRows
  <1>2. UsesSound'
    BY  DEF IInv, GiveUpIngest, NotIngest, cleanup, jobRows, UsesSound, StoredBlobIsAccountedFor,
            Protected, TypeOK, LifeRow, AttemptRow, HasReference, OpenWriters
  <1>3. JobsSound' /\ FenceSound' /\ WorkersSound' /\ CleanersSound'
    BY  DEF IInv, GiveUpIngest, NotIngest, cleanup, jobRows, JobsSound, CardsShowTheJob, TypeOK,
            JobRow, FenceSound, FencedBlobIsUnused, Fencing, LifeRow, AttemptRow, HasReference,
            OpenWriters, WorkersSound, WriterStages, WorkerState, CleanersSound, CleanerState,
            CleanerAt, Renewable, CleanupHolds
  <1>4. QED
    BY <1>1, <1>2, <1>3 DEF IInv

\* A displaced cover leaves the blob scheduled or referenced.
LEMMA DisplaceCoverKeeps ==
  ASSUME IInv, DisplaceCover
  PROVE  IInv'
  <1>1. TypeOK'
    <2>1. life' \in LifeRow
      BY  DEF IInv, TypeOK, DisplaceCover, ScheduleUnlessReferenced, Scheduled, Unscheduled, Life,
              CleanupLeased, NotIngest, cleanup, jobRows, LifeRow
    <2>2. QED
      BY <2>1 DEF IInv, TypeOK, DisplaceCover, NotIngest, cleanup, jobRows
  <1>2. FenceSound'
    BY FenceStaysDown DEF DisplaceCover, CleanupLeased, ScheduleUnlessReferenced, Scheduled,
                          Unscheduled, Life, NotIngest, cleanup
  <1>3. UsesSound'
    BY  DEF IInv, DisplaceCover, ScheduleUnlessReferenced, Scheduled, Unscheduled, Life,
            CleanupLeased, NotIngest, cleanup, jobRows, UsesSound, StoredBlobIsAccountedFor,
            Protected, TypeOK, LifeRow, AttemptRow, HasReference, OpenWriters
  <1>4. CleanersSound'
    BY  DEF IInv, DisplaceCover, ScheduleUnlessReferenced, Scheduled, Unscheduled, Life,
            CleanupLeased, NotIngest, cleanup, jobRows, CleanersSound, TypeOK, CleanerState,
            AttemptRow, LifeRow, CleanerAt, Renewable, CleanupHolds
  <1>5. JobsSound' /\ WorkersSound'
    BY  DEF IInv, DisplaceCover, ScheduleUnlessReferenced, Scheduled, Unscheduled, Life,
            CleanupLeased, NotIngest, cleanup, jobRows, JobsSound, CardsShowTheJob, TypeOK, JobRow,
            WorkersSound, WriterStages, WorkerState
  <1>6. QED
    BY <1>1, <1>2, <1>3, <1>4, <1>5 DEF IInv

\* A job fails, with or without its reservation.
LEMMA FailKeeps ==
  ASSUME IInv, NEW w \in Workers, worker[w].stage # "idle", Holds(w, worker[w].job), Drop(w),
         NEW j, j = worker[w].job, job' = FailedJob(j),
         \/ FailCard(j)
         \/ card[j].image # "pending" /\ UNCHANGED card,
         \/ writer' = WriterReleased(j) /\ life' = LifeReleased(j)
         \/ UNCHANGED <<writer, life>>,
         UNCHANGED <<asset, attempt, cleaner, deleting, cover, member, object, copying, ingest,
                     faults>>
  PROVE  IInv'
  <1>1. /\ j \in Jobs /\ job[j].state = "leased" /\ job[j].worker = w /\ job[j] \in JobRow
        /\ worker[w] \in WorkerState /\ ~asset[j] /\ life.lease # "infinity"
        /\ writer[j] \in {"none", "unreferenced"} \cup Open
    BY Holder
  <1>2. /\ job' \in [Jobs -> JobRow]
        /\ job'[j].state = "failed" /\ job'[j].worker = Nobody
        /\ \A i \in Jobs \ {j} : job'[i] = job[i]
    BY <1>1 DEF IInv, TypeOK, FailedJob, JobRow, Settled
  <1>3. /\ card' \in [Jobs -> CardRow]
        /\ card'[j].edited = card[j].edited
        /\ card[j].image = "pending" => card'[j].image = "failed"
        /\ \A i \in Jobs \ {j} : card'[i] = card[i]
    <2>1. CASE card[j].image # "pending" /\ UNCHANGED card
      BY <1>1, <2>1 DEF IInv, TypeOK
    <2>2. CASE FailCard(j)
      <3>1. card[j] \in CardRow
        BY <1>1 DEF IInv, TypeOK
      <3>2. PICK image \in FailedImages(card[j].image) : card' = [card EXCEPT ![j].image = image]
        BY <2>2 DEF FailCard
      <3>3. /\ image \in {"none"} \cup Images
            /\ card[j].image = "pending" => image = "failed"
        BY <3>1, <3>2 DEF FailedImages, CardRow, Images
      <3>4. QED
        BY <1>1, <3>1, <3>2, <3>3 DEF IInv, TypeOK, CardRow
    <2>3. QED
      BY <2>1, <2>2
  <1>4. /\ writer' \in [Jobs -> {"none", "finalized", "unreferenced"} \cup Open]
        /\ writer'[j] \in {writer[j], "unreferenced"}
        /\ \A i \in Jobs \ {j} : writer'[i] = writer[i]
    BY <1>1 DEF IInv, TypeOK, WriterReleased
  <1>5. ~card[j].edited => card[j].image = "pending"
    BY <1>1 DEF IInv, JobsSound, CardsShowTheJob, ImageOf, Unsettled
  <1>6. \/ UNCHANGED <<writer, life>>
        \/ UNCHANGED life /\ (HasReference \/ OpenWriters # {j})
        \/ life' = Scheduled /\ ~HasReference
    BY <1>1 DEF LifeReleased, WriterReleased
  <1>7. worker' \in [Workers -> WorkerState] /\ WorkersSound'
    <2>1. PICK k \in WorkerState : worker' = [worker EXCEPT ![w] = k] /\ k.stage = "idle"
      BY <1>1, Moves
    <2>2. \A v \in Workers \ {w}, i \in Jobs :
            job'[i].state = "leased" /\ job'[i].worker = v =>
              job[i].state = "leased" /\ job[i].worker = v /\ writer'[i] = writer[i]
      BY <1>2, <1>4
    <2>3. QED
      BY <2>1, <2>2, WorkerMoves
  <1>8. TypeOK'
    <2>1. life' \in LifeRow
      BY <1>6 DEF IInv, TypeOK, Scheduled, Life, LifeRow
    <2>2. QED
      BY <1>2, <1>3, <1>4, <1>7, <2>1 DEF IInv, TypeOK
  <1>9. JobsSound'
    BY <1>1, <1>2, <1>3, <1>4, <1>5 DEF IInv, JobsSound, CardsShowTheJob, ImageOf, Open, Unsettled
  <1>10. FenceSound' /\ CleanersSound'
    BY <1>1, <1>6, FenceStaysDown, CleanersUntouched DEF Scheduled, Life, cleanup
  <1>11. UsesSound'
    <2>1. Protected => Protected'
      <3>1. CASE OpenWriters # {} /\ OpenWriters # {j}
        <4>1. PICK i \in OpenWriters : i # j
          BY <3>1
        <4>2. i \in OpenWriters'
          BY <1>4, <4>1 DEF OpenWriters
        <4>3. QED
          BY <4>2 DEF Protected
      <3>2. CASE OpenWriters \in {{}, {j}}
        BY <1>6, <3>2 DEF Protected, HasReference, OpenWriters, Scheduled, Life
      <3>3. QED
        BY <3>1, <3>2
    <2>2. StoredBlobIsAccountedFor'
      BY <1>1, <1>6, <2>1 DEF IInv, UsesSound, StoredBlobIsAccountedFor, Protected, HasReference,
                              OpenWriters, Scheduled, Life
    <2>3. HasReference' => life'.eligible = "none"
      BY <1>6 DEF IInv, UsesSound, HasReference
    <2>4. \A i \in Jobs : writer'[i] = "ambiguous" => object'
      BY <1>1, <1>4 DEF IInv, UsesSound
    <2>5. QED
      BY <2>1, <2>2, <2>3, <2>4 DEF IInv, UsesSound
  <1>12. QED
    BY <1>7, <1>8, <1>9, <1>10, <1>11 DEF IInv

\* The three calls that fail a job.
LEMMA FailuresKeep ==
  ASSUME IInv, NEW w \in Workers, ApplyConflict(w) \/ FailJob(w) \/ FailAfterRevocation(w)
  PROVE  IInv'
  <1> DEFINE j == worker[w].job
  <1>1. /\ worker[w].stage # "idle" /\ Holds(w, j) /\ Drop(w) /\ job' = FailedJob(j)
        /\ FailCard(j) \/ (card[j].image # "pending" /\ UNCHANGED card)
        /\ \/ writer' = WriterReleased(j) /\ life' = LifeReleased(j)
           \/ UNCHANGED <<writer, life>>
        /\ UNCHANGED <<asset, attempt, cleaner, deleting, cover, member, object, copying,
                       ingest, faults>>
    BY DEF ApplyConflict, FailJob, FailAfterRevocation, FailWithWriter, InScope, At, cleanup, store
  <1>2. QED
    BY <1>1, FailKeeps

-----------------------------------------------------------------------------
(* Steps that change only what one process knows *)

\* A step of a worker, or its death, that changes no row and no object.
LEMMA WorkerOnly ==
  ASSUME IInv, NEW w \in Workers, NEW k \in WorkerState, worker' = [worker EXCEPT ![w] = k],
         k.stage # "idle" =>
           /\ k.job = worker[w].job /\ worker[w].stage # "idle"
           /\ k.stage \in WriterStages => worker[w].stage \in WriterStages
           /\ k.stage \in {"apply", "unknown", "replay"} =>
                object \/ worker[w].stage \in {"apply", "unknown", "replay"},
         UNCHANGED <<jobRows, life, cleanup, cover, member, store, ingest>>,
         faults' \in 0..MaxFaults
  PROVE  IInv'
  <1>1. worker' \in [Workers -> WorkerState] /\ WorkersSound'
    BY WorkerMoves DEF IInv, WorkersSound, jobRows, store
  <1>2. TypeOK'
    BY <1>1 DEF IInv, TypeOK, jobRows, cleanup, store
  <1>3. JobsSound' /\ FenceSound' /\ UsesSound' /\ CleanersSound'
    BY DEF IInv, JobsSound, CardsShowTheJob, FenceSound, FencedBlobIsUnused, UsesSound,
           StoredBlobIsAccountedFor, Protected, HasReference, OpenWriters, CleanersSound,
           CleanerAt, Renewable, CleanupHolds, jobRows, cleanup, store
  <1>4. QED
    BY <1>1, <1>2, <1>3 DEF IInv

\* The states that the calls of a worker lead to.
LEMMA WorkerStates ==
  ASSUME NEW w \in Workers, worker[w] \in WorkerState
  PROVE  /\ IdleWorker \in WorkerState /\ IdleWorker.stage = "idle"
         /\ \A b \in BOOLEAN :
              LET k == [worker[w] EXCEPT !.stage = "settle", !.retryable = b] IN
              k \in WorkerState /\ k.stage = "settle" /\ k.job = worker[w].job
         /\ \A s \in {"copy", "apply", "unknown"} :
              LET k == [worker[w] EXCEPT !.stage = s] IN
              k \in WorkerState /\ k.stage = s /\ k.job = worker[w].job
         /\ LET k == [IdleWorker EXCEPT !.stage = "revoked", !.job = worker[w].job] IN
            k \in WorkerState /\ k.stage = "revoked" /\ k.job = worker[w].job
  BY DEF WorkerState, IdleWorker

\* Errors, lost leases and memberships, and calls to S3 that only read.
LEMMA WorkerOnlyKeeps ==
  ASSUME IInv, NEW w \in Workers,
         \/ LeaseLost(w) \/ AccessLost(w) \/ ReserveBusy(w) \/ HeadObject(w) \/ ApplyBusy(w)
         \/ ApplyUnknown(w) \/ PromotionFails(w) \/ RecheckAccess(w) \/ CrashWorker(w)
  PROVE  IInv'
  <1>1. worker[w] \in WorkerState /\ faults \in 0..MaxFaults
    BY DEF IInv, TypeOK
  <1>2. UNCHANGED <<jobRows, life, cleanup, cover, member, store, ingest>>
    BY DEF LeaseLost, AccessLost, ReserveBusy, HeadObject, ApplyBusy, ApplyUnknown,
           PromotionFails, RecheckAccess, CrashWorker
  <1>3. faults' \in 0..MaxFaults
    <2>1. UNCHANGED faults \/ (faults < MaxFaults /\ faults' = faults + 1)
      BY DEF LeaseLost, AccessLost, ReserveBusy, HeadObject, ApplyBusy, ApplyUnknown,
             PromotionFails, RecheckAccess, CrashWorker
    <2>2. QED
      BY <1>1, <2>1, FaultsAssumption
  <1>4. \/ Drop(w)
        \/ \E b \in BOOLEAN : ToSettle(w, b) /\ worker[w].stage # "idle"
        \/ HeadObject(w)
        \/ GoTo(w, "unknown") /\ worker[w].stage = "apply"
        \/ /\ worker' = [worker EXCEPT ![w] =
                 [IdleWorker EXCEPT !.stage = "revoked", !.job = worker[w].job]]
           /\ worker[w].stage # "idle"
    BY DEF LeaseLost, AccessLost, ReserveBusy, ApplyBusy, ApplyUnknown, PromotionFails,
           RecheckAccess, CrashWorker, At
  <1>5. CASE Drop(w)
    BY <1>1, <1>2, <1>3, <1>5, WorkerOnly, WorkerStates DEF Drop
  <1>6. ASSUME NEW b \in BOOLEAN, ToSettle(w, b), worker[w].stage # "idle"
        PROVE  IInv'
    <2> DEFINE k == [worker[w] EXCEPT !.stage = "settle", !.retryable = b]
    <2>1. k \in WorkerState /\ k.stage = "settle" /\ k.job = worker[w].job
      BY <1>1, WorkerStates
    <2>2. worker' = [worker EXCEPT ![w] = k]
      BY <1>6 DEF ToSettle
    <2> HIDE DEF k
    <2>3. QED
      BY <1>2, <1>3, <1>6, <2>1, <2>2, WorkerOnly DEF WriterStages
  <1>7. ASSUME NEW s \in {"copy", "apply", "unknown"}, GoTo(w, s),
               worker[w].stage \in WriterStages,
               s # "copy" => object \/ worker[w].stage = "apply"
        PROVE  IInv'
    <2> DEFINE k == [worker[w] EXCEPT !.stage = s]
    <2>1. k \in WorkerState /\ k.stage = s /\ k.job = worker[w].job
      BY <1>1, WorkerStates
    <2>2. worker' = [worker EXCEPT ![w] = k]
      BY <1>7 DEF GoTo
    <2> HIDE DEF k
    <2>3. QED
      BY <1>2, <1>3, <1>7, <2>1, <2>2, WorkerOnly DEF WriterStages
  <1>8. CASE HeadObject(w)
    <2>1. \/ object /\ GoTo(w, "apply")
          \/ GoTo(w, "copy")
          \/ ToSettle(w, TRUE)
      BY <1>8 DEF HeadObject
    <2>2. worker[w].stage \in WriterStages /\ worker[w].stage # "idle"
      BY <1>8 DEF HeadObject, At, WriterStages
    <2>3. QED
      BY <1>6, <1>7, <2>1, <2>2
  <1>9. CASE GoTo(w, "unknown") /\ worker[w].stage = "apply"
    BY <1>7, <1>9 DEF WriterStages
  <1>10. ASSUME worker' = [worker EXCEPT ![w] =
                  [IdleWorker EXCEPT !.stage = "revoked", !.job = worker[w].job]],
                worker[w].stage # "idle"
         PROVE  IInv'
    <2> DEFINE k == [IdleWorker EXCEPT !.stage = "revoked", !.job = worker[w].job]
    <2>1. k \in WorkerState /\ k.stage = "revoked" /\ k.job = worker[w].job
      BY <1>1, WorkerStates
    <2>2. worker' = [worker EXCEPT ![w] = k]
      BY <1>10
    <2> HIDE DEF k
    <2>3. QED
      BY <1>2, <1>3, <1>10, <2>1, <2>2, WorkerOnly DEF WriterStages
  <1>11. QED
    BY <1>4, <1>5, <1>6, <1>8, <1>9, <1>10

\* Checks, errors and deaths of a cleaner.
LEMMA CleanerOnlyKeeps ==
  ASSUME IInv, NEW c \in Cleaners,
         \/ CleanupLost(c) \/ RenewHead(c) \/ HeadForCleanup(c) \/ RenewComplete(c)
         \/ CleanupFails(c) \/ CrashCleaner(c)
  PROVE  IInv'
  <1>1. UNCHANGED <<job, card, asset, writer, life, attempt, cover, member, object, copying,
                    deleting, worker, ingest, faults>>
    BY DEF CleanupLost, RenewHead, HeadForCleanup, RenewComplete, CleanupFails, CrashCleaner,
           NotCleanup, jobRows
  <1>2. cleaner' \in [Cleaners -> CleanerState] /\ CleanersSound'
    <2>1. cleaner[c] \in CleanerState
      BY DEF IInv, TypeOK
    <2>2. CASE CleanerDrop(c)
      BY <1>1, <2>2, CleanerDrops, CleanerMoves DEF IInv, CleanersSound
    <2>3. CASE RenewHead(c)
      <3>1. PICK k \in CleanerState :
              cleaner' = [cleaner EXCEPT ![c] = k] /\ k.stage = "head" /\ k.sent = cleaner[c].sent
        BY <2>1, <2>3, CleanerGoes DEF RenewHead
      <3>2. cleaner[c].stage = "renewHead"
        BY <2>3 DEF RenewHead, CleanerAt
      <3>3. QED
        BY <1>1, <3>1, <3>2, CleanerMoves DEF IInv, CleanersSound
    <2>4. CASE HeadForCleanup(c)
      <3>1. PICK k \in CleanerState :
              /\ cleaner' = [cleaner EXCEPT ![c] = k] /\ k.sent = cleaner[c].sent
              /\ k.stage = IF object THEN "renewDelete" ELSE "renewComplete"
        BY <2>1, <2>4, CleanerGoes DEF HeadForCleanup
      <3>2. cleaner[c].stage = "head"
        BY <2>4 DEF HeadForCleanup, CleanerAt
      <3>3. attempt.cleaner = c => attempt.state \in {"claimed", "authorized"} /\ deleting = {}
        BY <3>2 DEF IInv, CleanersSound
      <3>4. QED
        BY <1>1, <3>1, <3>2, <3>3, CleanerMoves DEF IInv, CleanersSound, Renewable, CleanupHolds
    <2>5. CASE RenewComplete(c)
      <3>1. PICK k \in CleanerState :
              /\ cleaner' = [cleaner EXCEPT ![c] = k] /\ k.stage = "complete"
              /\ k.sent = cleaner[c].sent
        BY <2>1, <2>5, CleanerGoes DEF RenewComplete
      <3>2. cleaner[c].stage = "renewComplete"
        BY <2>5 DEF RenewComplete, CleanerAt
      <3>3. ~object /\ c \notin deleting
        BY <2>5, <3>2 DEF RenewComplete, IInv, CleanersSound, CleanerAt
      <3>4. QED
        BY <1>1, <3>1, <3>2, <3>3, CleanerMoves DEF IInv, CleanersSound
    <2>6. CASE CleanupFails(c)
      <3>1. PICK d \in Dispositions(c) :
              cleaner' = [cleaner EXCEPT ![c] = [IdleCleaner EXCEPT !.stage = d]]
        BY <2>6 DEF CleanupFails
      <3>2. d \in {"retry", "terminal"} /\ (d = "retry" => ~cleaner[c].sent)
        BY <3>1 DEF Dispositions
      <3> DEFINE k == [IdleCleaner EXCEPT !.stage = d]
      <3>3. k \in CleanerState /\ k.stage = d /\ ~k.sent
        BY <3>2 DEF IdleCleaner, CleanerState
      <3>4. cleaner' = [cleaner EXCEPT ![c] = k]
        BY <3>1
      <3>5. cleaner[c].stage \notin {"idle", "looked", "terminal"}
        BY <2>6 DEF CleanupFails, CleanerAt
      <3> HIDE DEF k
      <3>6. QED
        BY <1>1, <3>2, <3>3, <3>4, <3>5, CleanerMoves DEF IInv, CleanersSound
    <2>7. QED
      BY <2>2, <2>3, <2>4, <2>5, <2>6 DEF CleanupLost, CrashCleaner
  <1>3. TypeOK' /\ JobsSound' /\ FenceSound' /\ UsesSound' /\ WorkersSound'
    BY <1>1, <1>2 DEF IInv, TypeOK, JobsSound, CardsShowTheJob, FenceSound, FencedBlobIsUnused,
         UsesSound, StoredBlobIsAccountedFor, Protected, HasReference, OpenWriters, WorkersSound
  <1>4. QED
    BY <1>2, <1>3 DEF IInv

\* Memberships come and go, and nothing happens.
LEMMA RestKeeps ==
  ASSUME IInv, RevokeAccess \/ RestoreAccess \/ UNCHANGED vars
  PROVE  IInv'
  <1>1. /\ UNCHANGED <<job, card, asset, writer, life, attempt, cover, object, copying, deleting,
                       worker, cleaner, ingest>>
        /\ member' \in BOOLEAN /\ faults' \in 0..MaxFaults
    <2>1. faults \in 0..MaxFaults /\ member \in BOOLEAN
      BY DEF IInv, TypeOK
    <2>2. CASE RevokeAccess
      BY <2>1, <2>2 DEF RevokeAccess, jobRows, cleanup, store
    <2>3. CASE RestoreAccess
      BY <2>1, <2>3, FaultsAssumption DEF RestoreAccess, jobRows, cleanup, store
    <2>4. CASE UNCHANGED vars
      BY <2>1, <2>4 DEF vars
    <2>5. QED
      BY <2>2, <2>3, <2>4
  <1>2. QED
    BY <1>1 DEF IInv, TypeOK, JobsSound, CardsShowTheJob, FenceSound, FencedBlobIsUnused,
         UsesSound, StoredBlobIsAccountedFor, Protected, HasReference, OpenWriters, WorkersSound,
         CleanersSound, CleanerAt, Renewable, CleanupHolds

-----------------------------------------------------------------------------
(* The invariant *)

LEMMA InitSound ==
  ASSUME Init
  PROVE  IInv
  <1>1. TypeOK
    <2>1. 0 \in 0..(MaxAttempts - 1) /\ 0 \in 0..MaxFaults
      BY AttemptsAssumption, FaultsAssumption
    <2>2. NoJob \in JobRow
      BY <2>1 DEF NoJob, JobRow
    <2>3. Unscheduled \in LifeRow /\ NoAttempt \in AttemptRow
      BY DEF Unscheduled, Life, LifeRow, NoAttempt, AttemptRow
    <2>4. IdleWorker \in WorkerState /\ IdleCleaner \in CleanerState
      BY DEF IdleWorker, WorkerState, IdleCleaner, CleanerState
    <2>5. NoCard \in CardRow
      BY DEF NoCard, CardRow
    <2>6. QED
      BY <2>1, <2>2, <2>3, <2>4, <2>5 DEF Init, TypeOK
  <1>2. JobsSound /\ WorkersSound
    BY DEF Init, JobsSound, CardsShowTheJob, ImageOf, Unsettled, NoJob, NoCard, WorkersSound,
           IdleWorker
  <1>3. FenceSound /\ UsesSound
    BY DEF Init, FenceSound, FencedBlobIsUnused, Fencing, UsesSound, StoredBlobIsAccountedFor,
           HasReference, Unscheduled, Life, NoAttempt
  <1>4. CleanersSound
    BY DEF Init, CleanersSound, IdleCleaner, NoAttempt, Renewable, CleanerAt
  <1>5. QED
    BY <1>1, <1>2, <1>3, <1>4 DEF IInv

\* What workers and cleaners do keeps the invariant.
LEMMA PromotionKeeps ==
  ASSUME IInv, NEW w \in Workers, Promotion(w) \/ CrashWorker(w)
  PROVE  IInv'
  BY WorkerOnlyKeeps, FailuresKeep, ReserveKeeps, CopyObjectKeeps, ApplyKeeps, MarkAmbiguousKeeps,
     RescheduleKeeps
  DEF Promotion

LEMMA CleaningKeeps ==
  ASSUME IInv, NEW c \in Cleaners, Cleaning(c) \/ DeleteArrives(c)
  PROVE  IInv'
  BY CleanerOnlyKeeps, LookKeeps, ClaimKeeps, TakeOverKeeps, AuthorizeKeeps, RenewDeleteKeeps,
     SendDeleteKeeps, DeleteArrivesKeeps, CompleteKeeps, RecordFailureKeeps
  DEF Cleaning

LEMMA NextKeeps ==
  ASSUME IInv, [Next]_vars
  PROVE  IInv'
  <1>1. CASE \E j \in Jobs : \/ Enqueue(j) \/ EditCard(j) \/ ExpireJobLease(j) \/ CopyArrives(j)
                            \/ \E w \in Workers : ClaimJob(w, j)
    BY <1>1, EnqueueKeeps, EditCardKeeps, ExpireJobLeaseKeeps, CopyArrivesKeeps, ClaimJobKeeps
  <1>2. CASE \E w \in Workers : Promotion(w) \/ CrashWorker(w)
    BY <1>2, PromotionKeeps
  <1>3. CASE \E c \in Cleaners : Cleaning(c) \/ DeleteArrives(c)
    BY <1>3, CleaningKeeps
  <1>4. CASE RevokeAccess \/ RestoreAccess \/ UNCHANGED vars
    BY <1>4, RestKeeps
  <1>5. CASE ExpireCleanupLease \/ Ripen
    BY <1>5, ExpireCleanupLeaseKeeps, RipenKeeps
  <1>6. CASE Admit \/ StoreBytes \/ AttachCover \/ GiveUpIngest \/ DisplaceCover
    BY <1>6, AdmitKeeps, StoreBytesKeeps, AttachCoverKeeps, GiveUpIngestKeeps, DisplaceCoverKeeps
  <1>7. QED
    BY <1>1, <1>2, <1>3, <1>4, <1>5, <1>6 DEF Next

\* Jobs, fence, uses and processes stay in step, however many there are.
THEOREM MediaBlobsInductive == Spec => []IInv
  <1>1. Init => IInv
    BY InitSound
  <1>2. IInv /\ [Next]_vars => IInv'
    BY NextKeeps
  <1>3. QED
    BY <1>1, <1>2, PTL DEF Spec

\* Every variable keeps its type.
THEOREM MediaBlobsTypes == Spec => []TypeOK
  <1>1. IInv => TypeOK
    BY DEF IInv
  <1>2. QED
    BY <1>1, MediaBlobsInductive, PTL

\* Nothing uses the blob behind the fence of an authorized deletion, for any
\* number of jobs, workers and cleaners.
THEOREM FencedBlobIsNeverUsed == Spec => []FencedBlobIsUnused
  <1>1. IInv => FencedBlobIsUnused
    BY DEF IInv, FenceSound
  <1>2. QED
    BY <1>1, MediaBlobsInductive, PTL

\* No stored object is unknown to the database.
THEOREM StoredBlobIsNeverLost == Spec => []StoredBlobIsAccountedFor
  <1>1. IInv => StoredBlobIsAccountedFor
    BY DEF IInv, UsesSound
  <1>2. QED
    BY <1>1, MediaBlobsInductive, PTL

\* Jobs and assets always agree, and so do their cards until somebody edits them.
THEOREM CardsAlwaysShowTheJob == Spec => []CardsShowTheJob
  <1>1. IInv => CardsShowTheJob
    BY DEF IInv, JobsSound
  <1>2. QED
    BY <1>1, MediaBlobsInductive, PTL

-----------------------------------------------------------------------------
(* What a job came to is final *)

SettledStays ==
  \A j \in Jobs : job[j].state \in Settled =>
    /\ UNCHANGED <<job[j], asset[j], writer[j]>>
    /\ card'[j] = card[j] \/ EditCard(j)

\* A call that changes the rows of one unsettled job settles no other.
LEMMA OneJobChanges ==
  ASSUME IInv, NEW j \in Jobs, job[j].state \notin Settled,
         \A i \in Jobs \ {j} : UNCHANGED <<job[i], card[i], asset[i], writer[i]>>
  PROVE  SettledStays
  BY DEF SettledStays

LEMMA PromotionSettles ==
  ASSUME IInv, NEW w \in Workers, Promotion(w) \/ CrashWorker(w)
  PROVE  SettledStays
  <1> DEFINE j == worker[w].job
  <1>1. CASE UNCHANGED jobRows
    BY <1>1 DEF jobRows, SettledStays
  <1>2. ASSUME worker[w].stage # "idle", Holds(w, j)
        PROVE  j \in Jobs /\ job[j].state \notin Settled
    BY <1>2, Holder DEF Settled
  <1>3. CASE Reserve(w) \/ Apply(w) \/ Reschedule(w)
    <2>1. j \in Jobs /\ job[j].state \notin Settled
      BY <1>2, <1>3 DEF Reserve, Apply, Reschedule, At, InScope
    <2>2. \A i \in Jobs \ {j} : UNCHANGED <<job[i], card[i], asset[i], writer[i]>>
      BY <1>3 DEF IInv, TypeOK, Reserve, Apply, Reschedule
    <2>3. QED
      BY <2>1, <2>2, OneJobChanges
  <1>4. CASE ApplyConflict(w) \/ FailJob(w) \/ FailAfterRevocation(w)
    <2>1. j \in Jobs /\ job[j].state \notin Settled
      BY <1>2, <1>4 DEF ApplyConflict, FailJob, FailAfterRevocation, At, InScope
    <2>2. \A i \in Jobs \ {j} : UNCHANGED <<job[i], card[i], asset[i], writer[i]>>
      BY <1>4 DEF IInv, TypeOK, ApplyConflict, FailJob, FailAfterRevocation, FailWithWriter,
                  FailedJob, FailCard, WriterReleased
    <2>3. QED
      BY <2>1, <2>2, OneJobChanges
  <1>5. CASE MarkAmbiguous(w)
    <2>1. CASE UNCHANGED writer
      BY <1>1, <1>5, <2>1 DEF MarkAmbiguous, jobRows
    <2>2. CASE writer' # writer
      <3>1. j \in Jobs /\ job[j].state \notin Settled
        BY <1>2, <1>5, <2>2 DEF MarkAmbiguous, At
      <3>2. \A i \in Jobs \ {j} : UNCHANGED <<job[i], card[i], asset[i], writer[i]>>
        BY <1>5 DEF IInv, TypeOK, MarkAmbiguous
      <3>3. QED
        BY <3>1, <3>2, OneJobChanges
    <2>3. QED
      BY <2>1, <2>2
  <1>6. QED
    BY <1>1, <1>3, <1>4, <1>5
    DEF Promotion, LeaseLost, AccessLost, ReserveBusy, HeadObject, CopyObject, ApplyBusy,
        ApplyUnknown, PromotionFails, RecheckAccess, CrashWorker, jobRows

\* An edit leaves all rows but its card alone; a queued job is new, and a leased
\* one is not settled.
LEMMA JobStepSettles ==
  ASSUME IInv, NEW j \in Jobs,
         \/ Enqueue(j) \/ EditCard(j) \/ ExpireJobLease(j) \/ CopyArrives(j)
         \/ \E w \in Workers : ClaimJob(w, j)
  PROVE  SettledStays
  <1>1. CASE CopyArrives(j)
    BY <1>1 DEF CopyArrives, jobRows, SettledStays
  <1>2. CASE EditCard(j)
    <2>1. UNCHANGED <<job, asset, writer>> /\ \A i \in Jobs \ {j} : card'[i] = card[i]
      BY <1>2 DEF EditCard, IInv, TypeOK
    <2>2. QED
      BY <1>2, <2>1 DEF SettledStays
  <1>3. CASE ~CopyArrives(j) /\ ~EditCard(j)
    <2>1. job[j].state \notin Settled
      BY <1>3 DEF Enqueue, ExpireJobLease, ClaimJob, Settled
    <2>2. \A i \in Jobs \ {j} : UNCHANGED <<job[i], card[i], asset[i], writer[i]>>
      BY <1>3 DEF IInv, TypeOK, Enqueue, ExpireJobLease, ClaimJob
    <2>3. QED
      BY <2>1, <2>2, OneJobChanges
  <1>4. QED
    BY <1>1, <1>2, <1>3

\* Cleaners, covers and memberships leave the rows of the jobs alone.
LEMMA OthersLeaveJobs ==
  ASSUME \/ \E c \in Cleaners : Cleaning(c) \/ DeleteArrives(c)
         \/ RevokeAccess \/ RestoreAccess \/ UNCHANGED vars \/ ExpireCleanupLease \/ Ripen
         \/ Admit \/ StoreBytes \/ AttachCover \/ GiveUpIngest \/ DisplaceCover
  PROVE  SettledStays
  <1>1. UNCHANGED jobRows
    <2>1. ASSUME NEW c \in Cleaners, Cleaning(c) \/ DeleteArrives(c)
          PROVE  UNCHANGED jobRows
      BY <2>1 DEF Cleaning, Look, Claim, TakeOver, Authorize, CleanupLost, RenewHead,
           HeadForCleanup, RenewDelete, SendDelete, RenewComplete, Complete, CleanupFails,
           RecordFailure, CrashCleaner, DeleteArrives, NotCleanup
    <2>2. CASE RevokeAccess \/ RestoreAccess \/ UNCHANGED vars
      BY <2>2 DEF RevokeAccess, RestoreAccess, vars, jobRows
    <2>3. CASE ExpireCleanupLease \/ Ripen
      BY <2>3 DEF ExpireCleanupLease, Ripen, NotCleanup
    <2>4. CASE Admit \/ StoreBytes \/ AttachCover \/ GiveUpIngest \/ DisplaceCover
      BY <2>4 DEF Admit, StoreBytes, AttachCover, GiveUpIngest, DisplaceCover, NotIngest
    <2>5. QED
      BY <2>1, <2>2, <2>3, <2>4
  <1>2. QED
    BY <1>1 DEF SettledStays, jobRows

\* Once a job is applied or failed, no late call changes its rows, and only an
\* edit its card.
THEOREM SettledJobsAreFinal == Spec => SettledJobsStayAsTheyAre
  <1>1. IInv /\ [Next]_vars => SettledStays
    BY PromotionSettles, JobStepSettles, OthersLeaveJobs DEF Next
  <1>2. SettledStays <=> \A j \in Jobs : job[j].state \in Settled =>
                           /\ UNCHANGED <<job[j], asset[j], writer[j]>>
                           /\ card'[j] = card[j] \/ EditCard(j)
    BY DEF SettledStays
  <1>3. QED
    BY <1>1, <1>2, MediaBlobsInductive, PTL DEF Spec, SettledJobsStayAsTheyAre

-----------------------------------------------------------------------------
(* The blob behind its fence *)

BlobStep == [Blob!Next]_Blob!fencedBlobVars

\* A step that neither stores, uses, releases, fences nor deletes.
LEMMA BlobStutters ==
  ASSUME UNCHANGED <<object, asset, cover>>, life'.lease = "infinity" <=> life.lease = "infinity"
  PROVE  BlobStep
  BY DEF BlobStep, Blob!fencedBlobVars, HasReference

\* The object is stored by requests whose sender is protected.
LEMMA StoreImplements ==
  ASSUME IInv, StoreBytes \/ \E j \in Jobs : CopyArrives(j)
  PROVE  BlobStep
  <1>1. life.lease # "infinity"
    BY Fenced DEF StoreBytes, CopyArrives
  <1>2. UNCHANGED <<asset, cover, life>> /\ object' \in {object, TRUE}
    BY DEF StoreBytes, CopyArrives, NotIngest, jobRows
  <1>3. CASE object' = TRUE
    BY <1>1, <1>2, <1>3 DEF BlobStep, Blob!Next, Blob!Store, HasReference
  <1>4. CASE object' = object
    BY <1>2, <1>4, BlobStutters
  <1>5. QED
    BY <1>2, <1>3, <1>4

\* An asset or a cover comes to use an object that is stored.
LEMMA UseImplements ==
  ASSUME IInv, AttachCover \/ \E w \in Workers : Apply(w)
  PROVE  BlobStep
  <1>1. object = TRUE /\ life.lease # "infinity" /\ life'.lease = "none" /\ UNCHANGED object
    <2>1. CASE AttachCover
      BY <2>1 DEF IInv, TypeOK, UsesSound, AttachCover, CleanupLeased, Unscheduled, Life
    <2>2. ASSUME NEW w \in Workers, Apply(w)
          PROVE  object = TRUE /\ life.lease # "infinity" /\ life'.lease = "none" /\ UNCHANGED object
      BY <2>2 DEF IInv, TypeOK, WorkersSound, Apply, At, InScope, Holds, CleanupLeased,
                  Unscheduled, Life, store
    <2>3. QED
      BY <2>1, <2>2
  <1>2. HasReference' = TRUE
    <2>1. CASE AttachCover
      BY <2>1 DEF AttachCover, HasReference
    <2>2. ASSUME NEW w \in Workers, Apply(w)
          PROVE  \E j \in Jobs : asset'[j]
      <3>1. worker[w].job \in Jobs
        BY <2>2 DEF IInv, WorkersSound, Apply, At
      <3>2. asset'[worker[w].job]
        BY <2>2, <3>1 DEF IInv, TypeOK, Apply
      <3>3. QED
        BY <3>1, <3>2
    <2>3. QED
      BY <2>1, <2>2 DEF HasReference
  <1>3. QED
    BY <1>1, <1>2 DEF BlobStep, Blob!Next, Blob!Use

\* A cover is displaced; an asset may go on using the object.
LEMMA DisplaceImplements ==
  ASSUME IInv, DisplaceCover
  PROVE  BlobStep
  <1>1. /\ cover /\ UNCHANGED <<object, asset>> /\ life.lease # "infinity"
        /\ life'.lease = "none" /\ cover' = FALSE
    BY DEF DisplaceCover, CleanupLeased, ScheduleUnlessReferenced, Scheduled, Unscheduled, Life,
           NotIngest, jobRows
  <1>2. HasReference = TRUE
    BY <1>1 DEF HasReference
  <1>3. HasReference' \in BOOLEAN
    BY DEF HasReference
  <1>4. QED
    BY <1>1, <1>2, <1>3 DEF BlobStep, Blob!Next, Blob!Release, Blob!fencedBlobVars

\* The fence rises where nothing uses the blob, and is lifted when it is gone.
LEMMA FenceImplements ==
  ASSUME IInv, IInv', NEW c \in Cleaners, Authorize(c) \/ Complete(c)
  PROVE  BlobStep
  <1>1. UNCHANGED <<object, asset, cover>>
    BY DEF Authorize, Complete, NotCleanup, jobRows
  <1>2. HasReference' = HasReference /\ (life.lease = "infinity") \in BOOLEAN
    BY <1>1 DEF HasReference
  <1>3. CASE life'.lease = "infinity"
    BY <1>1, <1>2, <1>3, Fenced DEF BlobStep, Blob!Next, Blob!RaiseFence, IInv, FenceSound,
                                    FencedBlobIsUnused
  <1>4. CASE life'.lease # "infinity" /\ life.lease = "infinity"
    <2>1. CASE Complete(c)
      <3>1. object = FALSE
        BY <2>1 DEF Complete, IInv, CleanersSound, TypeOK, CleanerAt
      <3>2. QED
        BY <1>1, <1>2, <1>4, <3>1 DEF BlobStep, Blob!Next, Blob!LiftFence
    <2>2. CASE Authorize(c)
      BY <1>4, <2>2 DEF Authorize, IInv, FenceSound, Fencing, TypeOK, LifeRow
    <2>3. QED
      BY <2>1, <2>2
  <1>5. CASE life'.lease # "infinity" /\ life.lease # "infinity"
    BY <1>1, <1>5, BlobStutters
  <1>6. QED
    BY <1>3, <1>4, <1>5

\* A DELETE is on its way only behind the fence.
LEMMA DeleteImplements ==
  ASSUME IInv, NEW c \in Cleaners, DeleteArrives(c)
  PROVE  BlobStep
  <1>1. life.lease = "infinity" /\ UNCHANGED <<life, asset, cover>>
    BY Unfenced DEF DeleteArrives, NotCleanup, jobRows
  <1>2. CASE object' = FALSE
    BY <1>1, <1>2 DEF BlobStep, Blob!Next, Blob!Delete, HasReference
  <1>3. CASE UNCHANGED object
    BY <1>1, <1>3, BlobStutters
  <1>4. QED
    BY <1>2, <1>3 DEF DeleteArrives

\* Nothing else that a process does touches what FencedBlob describes.
LEMMA WorkerStutters ==
  ASSUME IInv, NEW w \in Workers, Promotion(w) \/ CrashWorker(w), ~Apply(w)
  PROVE  BlobStep
  <1>1. UNCHANGED <<object, asset, cover>>
    BY DEF Promotion, LeaseLost, AccessLost, ReserveBusy, Reserve, HeadObject, CopyObject,
           ApplyConflict, ApplyBusy, ApplyUnknown, MarkAmbiguous, PromotionFails, Reschedule,
           FailJob, FailAfterRevocation, RecheckAccess, CrashWorker, jobRows, store
  <1>2. \/ UNCHANGED life
        \/ life.lease # "infinity" /\ life'.lease # "infinity"
    <2>1. CASE Reserve(w)
      BY <2>1 DEF Reserve, CleanupLeased, Unscheduled, Life
    <2>2. CASE ApplyConflict(w) \/ FailJob(w) \/ FailAfterRevocation(w)
      <3>1. life.lease # "infinity"
        BY <2>2, Holder DEF ApplyConflict, FailJob, FailAfterRevocation, At, InScope
      <3>2. UNCHANGED life \/ life'.lease = "none"
        BY <2>2 DEF ApplyConflict, FailJob, FailAfterRevocation, FailWithWriter, LifeReleased,
                    Scheduled, Unscheduled, Life
      <3>3. QED
        BY <3>1, <3>2
    <2>3. QED
      BY <2>1, <2>2
      DEF Promotion, LeaseLost, AccessLost, ReserveBusy, HeadObject, CopyObject, ApplyBusy,
          ApplyUnknown, MarkAmbiguous, PromotionFails, Reschedule, RecheckAccess, CrashWorker
  <1>3. QED
    BY <1>1, <1>2, BlobStutters

LEMMA CleanerStutters ==
  ASSUME IInv, NEW c \in Cleaners, Cleaning(c), ~Authorize(c), ~Complete(c)
  PROVE  BlobStep
  <1>1. UNCHANGED <<object, asset, cover>>
    BY DEF Cleaning, Look, Claim, TakeOver, CleanupLost, RenewHead, HeadForCleanup, RenewDelete,
           SendDelete, RenewComplete, CleanupFails, RecordFailure, CrashCleaner, NotCleanup, jobRows
  <1>2. life'.lease = "infinity" <=> life.lease = "infinity"
    <2>1. CASE Claim(c)
      BY <2>1 DEF Claim, CleanupDue, CleanupLeased, Life
    <2>2. CASE TakeOver(c)
      <3>1. life.lease = "infinity"
        BY <2>2 DEF TakeOver, IInv, FenceSound, Fencing
      <3>2. life'.lease = "infinity"
        BY <2>2 DEF TakeOver, IInv, TypeOK, LifeRow
      <3>3. QED
        BY <3>1, <3>2
    <2>3. QED
      BY <2>1, <2>2
      DEF Cleaning, Look, CleanupLost, RenewHead, HeadForCleanup, RenewDelete, SendDelete,
          RenewComplete, CleanupFails, RecordFailure, CrashCleaner
  <1>3. QED
    BY <1>1, <1>2, BlobStutters

LEMMA RestStutters ==
  ASSUME IInv,
         \/ \E j \in Jobs : \/ Enqueue(j) \/ EditCard(j) \/ ExpireJobLease(j)
                            \/ \E w \in Workers : ClaimJob(w, j)
         \/ RevokeAccess \/ RestoreAccess \/ UNCHANGED vars \/ ExpireCleanupLease \/ Ripen
         \/ Admit \/ GiveUpIngest
  PROVE  BlobStep
  <1>1. UNCHANGED <<object, asset, cover>>
    BY DEF Enqueue, EditCard, ExpireJobLease, ClaimJob, RevokeAccess, RestoreAccess, vars,
           ExpireCleanupLease, Ripen, Admit, GiveUpIngest, jobRows, store, NotCleanup, NotIngest
  <1>2. life'.lease = "infinity" <=> life.lease = "infinity"
    <2>1. CASE ExpireCleanupLease \/ Ripen
      BY <2>1 DEF IInv, TypeOK, LifeRow, ExpireCleanupLease, Ripen
    <2>2. CASE Admit
      BY <2>2 DEF Admit, CleanupLeased, ScheduleUnlessReferenced, Scheduled, Unscheduled, Life
    <2>3. QED
      BY <2>1, <2>2 DEF Enqueue, EditCard, ExpireJobLease, ClaimJob, RevokeAccess, RestoreAccess,
                        vars, GiveUpIngest
  <1>3. QED
    BY <1>1, <1>2, BlobStutters

\* Jobs, covers and cleaners together keep the promise of FencedBlob, for any
\* number of them and with requests that land late.
THEOREM MediaBlobsImplementFencedBlob == Spec => ImplementsFencedBlob
  <1>1. Init => Blob!Init
    BY DEF Init, Blob!Init, HasReference, Unscheduled, Life
  <1>2. IInv /\ IInv' /\ [Next]_vars => [Blob!Next]_Blob!fencedBlobVars
    BY StoreImplements, UseImplements, DisplaceImplements, FenceImplements, DeleteImplements,
       WorkerStutters, CleanerStutters, RestStutters
    DEF Next, BlobStep
  <1>3. QED
    BY <1>1, <1>2, MediaBlobsInductive, PTL DEF Spec, ImplementsFencedBlob, Blob!Spec
=============================================================================
