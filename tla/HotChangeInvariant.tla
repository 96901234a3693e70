------------------------- MODULE HotChangeInvariant -------------------------
(***************************************************************************)
(* The inductive invariant of HotChangeLog.  It is what makes              *)
(* CursorCoversState true: the write lock orders commits by change id, so  *)
(* every position a client can hold lies behind every change still to      *)
(* come, and the three stages of a request (page selected, answer in       *)
(* flight, applied) each account for every change up to that position.     *)
(***************************************************************************)
EXTENDS HotChangeFeed

\* Only the holder of the metadata lock has uncommitted changes, and their ids
\* lie between every committed id and the sequence.
WritersOrdered ==
  /\ \A v, w \in locked : v = w
  /\ \A w \in Writers, e \in Entities :
       /\ draft[w][e] < seq
       /\ draft[w][e] # 0 => w \in locked
       /\ draft[w][e] # 0 => \A ch \in log : ch.id < draft[w][e]
  /\ \A ch \in log : ch.id \in 1 .. seq - 1
  /\ seq > 0
  /\ IsFiniteSet(log)

\* A root's row is its latest committed change.
RowsAreLatest ==
  /\ \A e \in Entities : rows[e] # 0 => Change(rows[e], e) \in log
  /\ \A ch \in log : ch.id <= rows[ch.entity]

\* Every position a client holds is one the server gave out.
PositionsCommitted ==
  \A c \in Clients :
    /\ cursor[c] \in {0} \union IdsOf(log)
    /\ next[c] \in {0} \union IdsOf(log)
    /\ floor[c] \in {-1, 0} \union IdsOf(log)

\* No position that a loop still holds and may store lies behind the stored one.
PositionsRise ==
  \A c \in Clients :
    /\ phase[c] \in {"pull", "payload", "pulled"} => cursor[c] <= next[c]
    /\ more[c] /\ floor[c] = -1 => cursor[c] <= next[c]
    /\ floor[c] # -1 => cursor[c] <= floor[c]

\* Copies and answers are never ahead of the server, answers never behind the
\* copies they overwrite.
VersionsOrdered ==
  \A c \in Clients, e \in Entities :
    /\ local[c][e] <= rows[e]
    /\ entries[c][e] <= rows[e]
    /\ entries[c][e] # 0 => local[c][e] <= entries[c][e]

\* Which loop a request belongs to.
LoopShape ==
  \A c \in Clients :
    /\ phase[c] \in {"pull", "payload", "pulled", "boot"} => floor[c] = -1
    /\ phase[c] \in {"page", "booted"} => floor[c] # -1
    /\ phase[c] = "boot" \/ floor[c] # -1 => ~hydrated[c]
    /\ hydrated[c] /\ (phase[c] = "pull" \/ (phase[c] = "idle" /\ more[c])) => next[c] = cursor[c]
    /\ page[c] # {} => phase[c] = "payload"
    /\ floor[c] = -1 => after[c] = 0

\* A hydrated copy is complete up to its position.
CursorCovers ==
  \A c \in Clients, e \in Entities :
    hydrated[c] /\ Sees(c, e) /\ rows[e] <= cursor[c] => local[c][e] = rows[e]

\* A pull in progress accounts for every root up to the position it answers.
PullCovers ==
  \A c \in Clients, e \in Entities :
    /\ hydrated[c]
    /\ phase[c] \in {"payload", "pulled"}
    /\ Sees(c, e)
    /\ rows[e] <= next[c]
    => \/ e \in page[c]
       \/ entries[c][e] = rows[e]
       \/ entries[c][e] = 0 /\ local[c][e] = rows[e]

\* A bootstrap in progress has stored every root up to its keyset position ...
BootCovers ==
  \A c \in Clients, e \in Entities :
    /\ floor[c] # -1
    /\ Sees(c, e)
    /\ rows[e] <= floor[c]
    /\ e <= after[c]
    => local[c][e] = rows[e]

\* ... and an answer holds every root from there to its last entity, or all.
BootAnswerCovers ==
  \A c \in Clients, e \in Entities :
    /\ phase[c] = "booted"
    /\ Sees(c, e)
    /\ rows[e] <= floor[c]
    /\ e > after[c]
    => \/ entries[c][e] = rows[e]
       \/ more[c] /\ \A x \in Answered(c) : x < e

ServerInv == WritersOrdered /\ RowsAreLatest
LoopInv == PositionsCommitted /\ PositionsRise /\ VersionsOrdered /\ LoopShape
CoverInv == CursorCovers /\ PullCovers /\ BootCovers /\ BootAnswerCovers

\* The inductive invariant: what the lanes of a request rely on, stage by stage.
IInv == TypeOK /\ ServerInv /\ LoopInv /\ CoverInv
=============================================================================
