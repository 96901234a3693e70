----------------------------- MODULE MCMediaBlobs -----------------------------
(* Small instances of MediaBlobs. *)
EXTENDS MediaBlobsInvariant, TLC

\* Jobs, workers and cleaners are interchangeable; used without liveness only.
MCSymmetry == Permutations(Jobs) \cup Permutations(Workers) \cup Permutations(Cleaners)
=============================================================================
