------------------------------ MODULE FencedBlob ------------------------------
(***************************************************************************)
(* What the cleanup of a permanent blob promises to those who use it: an   *)
(* object is used only while it is stored, and goes only behind a fence    *)
(* that nobody can cross while something uses it or a deletion is on its   *)
(* way.                                                                    *)
(***************************************************************************)
VARIABLES
  stored,    \* the object exists
  used,      \* something references it
  fenced     \* its deletion is authorized

fencedBlobVars == <<stored, used, fenced>>

Init == stored = FALSE /\ used = FALSE /\ fenced = FALSE

Store == ~fenced /\ stored' = TRUE /\ UNCHANGED <<used, fenced>>
Use == stored /\ ~fenced /\ used' = TRUE /\ UNCHANGED <<stored, fenced>>
Release == used /\ ~fenced /\ used' = FALSE /\ UNCHANGED <<stored, fenced>>
RaiseFence == ~used /\ fenced' = TRUE /\ UNCHANGED <<stored, used>>
Delete == fenced /\ stored' = FALSE /\ UNCHANGED <<used, fenced>>
LiftFence == fenced /\ ~stored /\ fenced' = FALSE /\ UNCHANGED <<stored, used>>

Next == Store \/ Use \/ Release \/ RaiseFence \/ Delete \/ LiftFence
Spec == Init /\ [][Next]_fencedBlobVars
=============================================================================
