----------------------------- MODULE OrderedFeed -----------------------------
(***************************************************************************)
(* What the hot-state lane promises, without pages, locks or transactions: *)
(* a feed of versions that only grows, and readers that each hold a        *)
(* possibly stale copy together with a position in the feed.  A reader     *)
(* that is synced is never behind on an entity whose latest version is at  *)
(* or before its position; its copies and its position only move forward   *)
(* until it loses them all.                                                *)
(***************************************************************************)
EXTENDS Integers

CONSTANTS
  Entities,         \* what the feed carries
  Readers,          \* who reads it
  Visible(_, _)     \* Visible(r, e): r is served e

VARIABLES
  latest,           \* latest version of each entity, 0 before the first
  view,             \* each reader's copies
  position,         \* each reader's position in the feed
  synced            \* the readers whose copies are complete up to it

vars == <<latest, view, position, synced>>

Empty == [e \in Entities |-> 0]

\* Every version up to the position is in the view.
CoveredUpTo(r, versions, copies, pos) ==
  \A e \in Entities :
    Visible(r, e) /\ versions[e] # copies[e] => versions[e] > pos

Init ==
  /\ latest \in [Entities -> Nat]
  /\ view = [r \in Readers |-> Empty]
  /\ position = [r \in Readers |-> 0]
  /\ synced = [r \in Readers |-> FALSE]

\* New versions appear together, each newer than everything there was.
Publish ==
  /\ \A e \in Entities :
       latest'[e] # latest[e] => \A f \in Entities : latest[f] < latest'[e]
  /\ UNCHANGED <<view, position, synced>>

\* The copies move forward, no further than the feed, and so does the position;
\* a reader that is synced afterwards is covered up to it.
Learn(r) ==
  /\ \A e \in Entities : view'[r][e] \in view[r][e] .. latest[e]
  /\ position[r] <= position'[r]
  /\ synced[r] => synced'[r]
  /\ synced'[r] => CoveredUpTo(r, latest, view'[r], position'[r])
  /\ \A s \in Readers \ {r} :
       /\ view'[s] = view[s]
       /\ position'[s] = position[s]
       /\ synced'[s] = synced[s]
  /\ UNCHANGED latest

\* Everything the reader holds is gone, and it knows it.
Forget(r) ==
  /\ view' = [view EXCEPT ![r] = Empty]
  /\ position' = [position EXCEPT ![r] = 0]
  /\ synced' = [synced EXCEPT ![r] = FALSE]
  /\ UNCHANGED latest

Next == Publish \/ \E r \in Readers : Learn(r) \/ Forget(r)

Spec == Init /\ [][Next]_vars
=============================================================================
