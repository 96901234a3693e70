------------------------------ MODULE MCChatRuns ------------------------------
(* Small instances of ChatRuns. *)
EXTENDS ChatRunsInvariant, TLC

\* Workers are interchangeable; used without liveness only.
MCSymmetry == Permutations(Workers) \cup Permutations(Runs)
=============================================================================
