-------------------------- MODULE MediaBlobsInvariant --------------------------
(***************************************************************************)
(* The inductive invariant of MediaBlobs: why nobody crosses the fence of  *)
(* an authorized cleanup and why every stored byte is accounted for.       *)
(***************************************************************************)
EXTENDS MediaBlobs

\* Something keeps a cleanup from being due before it looks again.
Protected == HasReference \/ OpenWriters # {} \/ life.eligible = "waiting"

\* A job, its card, its asset and its reservation agree.
JobsSound ==
  /\ CardsShowTheJob
  /\ \A j \in Jobs : writer[j] = "finalized" <=> job[j].state = "applied"

\* The attempts that have raised the fence and not lifted it.
Fencing == {"authorized", "deleting", "retry_wait", "reconciliation_required"}

\* The fence is up exactly while the newest attempt is authorized, and belongs
\* to its cleaner; a claim that holds has not raised it yet.
FenceSound ==
  /\ attempt.state \in Fencing \cup {"claimed"} => attempt.cleaner \in Cleaners
  /\ life.lease = "infinity" <=> attempt.state \in Fencing
  /\ life.lease = "infinity" =>
       life.cleaner = attempt.cleaner /\ life.eligible = "due"
  /\ life.lease = "finite" =>
       /\ attempt.state = "claimed" /\ attempt.fresh
       /\ life.cleaner = attempt.cleaner /\ life.eligible = "due"
  /\ attempt.state = "claimed" /\ attempt.fresh /\ life.cleaner = attempt.cleaner =>
       life.lease = "finite"
  /\ FencedBlobIsUnused

\* Whoever may still store the object, or relies on it, is protected; and what
\* is referenced is not scheduled.
UsesSound ==
  /\ HasReference => life.eligible = "none"
  /\ copying # {} \/ ingest # "idle" => Protected
  /\ ingest = "stored" => object
  /\ \A j \in Jobs : writer[j] = "ambiguous" => object
  /\ StoredBlobIsAccountedFor

WriterStages == {"promote", "copy", "check", "apply", "unknown", "replay"}

\* A worker whose job is still leased to it has its reservation, and beyond
\* the S3 write it has the object.
WorkersSound ==
  \A w \in Workers :
    LET j == worker[w].job IN
    worker[w].stage # "idle" =>
      /\ j \in Jobs
      /\ job[j].state = "leased" /\ job[j].worker = w =>
           /\ worker[w].stage \in WriterStages => writer[j] \in Open
           /\ worker[w].stage \in {"apply", "unknown", "replay"} => object

\* A cleaner knows whether its DELETE may be on its way, and only the cleaner
\* of a deletion that is never taken over has one on its way.
CleanersSound ==
  /\ \A c \in Cleaners :
       /\ cleaner[c].sent =>
            cleaner[c].stage \in {"delete", "await", "renewComplete", "complete"}
       /\ cleaner[c].stage \in {"delete", "await"} => cleaner[c].sent
       /\ attempt.cleaner = c /\ cleaner[c].stage \in {"delete", "await"} =>
            attempt.state = "deleting"
       /\ /\ attempt.cleaner = c /\ ~cleaner[c].sent
          /\ cleaner[c].stage \notin {"idle", "looked", "terminal"}
          => attempt.state \in {"claimed", "authorized"}
       /\ CleanerAt(c, {"renewComplete", "complete"}) /\ Renewable(c) =>
            ~object /\ c \notin deleting
  /\ \A c \in deleting :
       /\ attempt.cleaner = c
       /\ attempt.state \in {"deleting", "reconciliation_required"}

IInv ==
  TypeOK /\ JobsSound /\ FenceSound /\ UsesSound /\ WorkersSound /\ CleanersSound
=============================================================================
