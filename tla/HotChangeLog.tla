---------------------------- MODULE HotChangeLog ----------------------------
(***************************************************************************)
(* The hot-state lane of the sync server and the pull side of a client.    *)
(*                                                                         *)
(* Every write to a mutable root of a workspace (its scheduler settings,   *)
(* a card, a deck, a media asset) adds a row to sync.hot_changes in the    *)
(* transaction that changes the root.  The id comes from an identity       *)
(* sequence, so ids are handed out before their transaction commits.  A    *)
(* client keeps one number, the last hot change id it applied, and asks    *)
(* for the changes after it: a change that committed behind that number    *)
(* would never reach the client.                                           *)
(*                                                                         *)
(* Modelled: the two locks of a write transaction, its commit and abort,   *)
(* every statement of a pull and of a bootstrap as a step of its own (they *)
(* run under READ COMMITTED), the application of an answer to the local    *)
(* database, a failed request, and the eviction of the local database.     *)
(*                                                                         *)
(* Abstracted: the content of a root is the id of its latest change; who   *)
(* wins a write (LWW) and the client's own edits are CardSync's subject.   *)
(***************************************************************************)
EXTENDS Integers, FiniteSets

CONSTANTS
  Entities,           \* the workspace's roots, numbered in bootstrap order
  KindOf,             \* the kind of each root
  SettingsRoot,       \* the root whose change the workspace is created with
  Clients,            \* installations of the workspace's member
  MediaAware,         \* the clients that ask for media assets
  PushWriters,        \* write transactions that take the access lock first
  AgentWriters,       \* write transactions that do not
  Nobody,             \* the access lock is free
  PageLimit,          \* entries of a page
  MaxChangeId,        \* bound: change ids handed out
  MaxFaults,          \* bound: failed requests and evictions
  EvictMidBootstrap   \* may the database vanish between two bootstrap pages

Kinds == {"workspace_scheduler_settings", "card", "deck", "media_asset"}
Writers == PushWriters \union AgentWriters

ASSUME EntitiesAssumption ==
  /\ Entities \subseteq Nat \ {0}
  /\ IsFiniteSet(Entities)
  /\ KindOf \in [Entities -> Kinds]
  /\ SettingsRoot \in Entities
  /\ KindOf[SettingsRoot] = "workspace_scheduler_settings"
ASSUME ActorsAssumption ==
  /\ MediaAware \subseteq Clients
  /\ Clients \intersect Writers = {}
  /\ PushWriters \intersect AgentWriters = {}
  /\ Nobody \notin Clients \union Writers
ASSUME BoundsAssumption ==
  /\ PageLimit \in Nat \ {0}
  /\ MaxChangeId \in Nat
  /\ MaxFaults \in Nat
  /\ EvictMidBootstrap \in BOOLEAN

VARIABLES
  \* Server, committed
  log,          \* sync.hot_changes of the workspace: records [id, entity]
  rows,         \* the current-state tables: latest change of each root, 0 absent
  seq,          \* next value of the change_id sequence
  \* Server, transactions in progress
  accessHolder, \* holder of the (user, workspace) advisory lock
  open,         \* write transactions begun
  locked,       \* of those, the ones whose SELECT ... FOR UPDATE returned
  draft,        \* uncommitted latest change of each root, per writer
  \* Client: local database
  local,        \* copy of each root, named by the change it reflects
  cursor,       \* lastAppliedHotChangeId
  hydrated,     \* hasHydratedHotState
  \* Client: the pull or bootstrap loop in progress
  phase,        \* where the current request is
  page,         \* entities of the page whose payload is not read yet
  entries,      \* versions in the answer, 0 for a root not in it
  next,         \* afterHotChangeId of the request, nextHotChangeId of the answer
  more,         \* hasMore
  floor,        \* bootstrapHotChangeId carried by the cursor, -1 before it is read
  after,        \* keyset position of the bootstrap cursor
  faults        \* failures so far

serverVars == <<log, rows, seq, open, locked, draft>>
localVars == <<local, cursor, hydrated>>
loopVars == <<phase, page, entries, next, more, floor, after>>
vars == <<serverVars, accessHolder, localVars, loopVars, faults>>

Phases == {"idle", "pull", "payload", "pulled", "boot", "page", "booted"}
Untouched == [e \in Entities |-> 0]
Change(id, e) == [id |-> id, entity |-> e]
IdsOf(changes) == {ch.id : ch \in changes}

\* m is the greatest member of S.
IsLast(m, S) == m \in S /\ \A x \in S : x <= m

\* Media assets are left out of the answers to a client that does not ask.
Sees(c, e) == c \in MediaAware \/ KindOf[e] # "media_asset"

TypeOK ==
  /\ log \subseteq [id : Nat, entity : Entities]
  /\ rows \in [Entities -> Nat]
  /\ seq \in Nat
  /\ accessHolder \in Clients \union PushWriters \union {Nobody}
  /\ open \subseteq Writers
  /\ locked \subseteq open
  /\ draft \in [Writers -> [Entities -> Nat]]
  /\ local \in [Clients -> [Entities -> Nat]]
  /\ cursor \in [Clients -> Nat]
  /\ hydrated \in [Clients -> BOOLEAN]
  /\ phase \in [Clients -> Phases]
  /\ page \in [Clients -> SUBSET Entities]
  /\ entries \in [Clients -> [Entities -> Nat]]
  /\ next \in [Clients -> Nat]
  /\ more \in [Clients -> BOOLEAN]
  /\ floor \in [Clients -> Nat \union {-1}]
  /\ after \in [Clients -> Nat]
  /\ faults \in Nat

\* A workspace is created with the change of its scheduler settings.
Init ==
  /\ log = {Change(1, SettingsRoot)}
  /\ rows = [Untouched EXCEPT ![SettingsRoot] = 1]
  /\ seq = 2
  /\ accessHolder = Nobody
  /\ open = {}
  /\ locked = {}
  /\ draft = [w \in Writers |-> Untouched]
  /\ local = [c \in Clients |-> Untouched]
  /\ cursor = [c \in Clients |-> 0]
  /\ hydrated = [c \in Clients |-> FALSE]
  /\ phase = [c \in Clients |-> "idle"]
  /\ page = [c \in Clients |-> {}]
  /\ entries = [c \in Clients |-> Untouched]
  /\ next = [c \in Clients |-> 0]
  /\ more = [c \in Clients |-> FALSE]
  /\ floor = [c \in Clients |-> -1]
  /\ after = [c \in Clients |-> 0]
  /\ faults = 0

-----------------------------------------------------------------------------
(* Write transactions *)

\* Mutant: a session-level lock, which the end of a transaction does not free.
ReleaseAccessNever(a) == UNCHANGED accessHolder

\* The advisory lock is transaction-level: it goes with whoever holds it.
ReleaseAccess(a) == accessHolder' = IF accessHolder = a THEN Nobody ELSE accessHolder

\* A push resolves its replica first, which takes the advisory lock; an agent,
\* the AI chat or a REST route goes straight to the mutation.
Begin(w) ==
  /\ w \notin open
  /\ seq <= MaxChangeId
  /\ w \in PushWriters => accessHolder = Nobody
  /\ accessHolder' = IF w \in PushWriters THEN w ELSE accessHolder
  /\ open' = open \union {w}
  /\ UNCHANGED <<log, rows, seq, locked, draft, localVars, loopVars, faults>>

\* Mutant: a plain SELECT, which waits for nobody.
LockUnguarded(w) ==
  /\ w \in open \ locked
  /\ locked' = locked \union {w}
  /\ UNCHANGED <<log, rows, seq, accessHolder, open, draft, localVars, loopVars, faults>>

\* SELECT ... FOR UPDATE on the workspace's metadata row, held to the end of
\* the transaction.
Lock(w) ==
  /\ w \in open \ locked
  /\ locked = {}
  /\ locked' = locked \union {w}
  /\ UNCHANGED <<log, rows, seq, accessHolder, open, draft, localVars, loopVars, faults>>

\* One mutation: the root's row and its hot change, both uncommitted.
Write(w, e) ==
  /\ w \in locked
  /\ seq <= MaxChangeId
  /\ draft' = [draft EXCEPT ![w][e] = seq]
  /\ seq' = seq + 1
  /\ UNCHANGED <<log, rows, accessHolder, open, locked, localVars, loopVars, faults>>

\* Mutant: the metadata row stays locked after the transaction.
EndTransactionKeepsLock(w) ==
  /\ open' = open \ {w}
  /\ draft' = [draft EXCEPT ![w] = Untouched]
  /\ ReleaseAccess(w)
  /\ UNCHANGED <<locked, seq, localVars, loopVars, faults>>

EndTransaction(w) ==
  /\ open' = open \ {w}
  /\ locked' = locked \ {w}
  /\ draft' = [draft EXCEPT ![w] = Untouched]
  /\ ReleaseAccess(w)
  /\ UNCHANGED <<seq, localVars, loopVars, faults>>

\* Earlier uncommitted changes of the same root become visible together with
\* the last one and are never selected, so only the last one is kept.
Written(w) == {e \in Entities : draft[w][e] # 0}

Commit(w) ==
  /\ w \in locked
  /\ log' = log \union {Change(draft[w][e], e) : e \in Written(w)}
  /\ rows' = [e \in Entities |-> IF e \in Written(w) THEN draft[w][e] ELSE rows[e]]
  /\ EndTransaction(w)

\* The ids of an aborted transaction are never used again.
Abort(w) ==
  /\ w \in open
  /\ EndTransaction(w)
  /\ UNCHANGED <<log, rows>>

-----------------------------------------------------------------------------
(* Incremental pull *)

\* The next request of the loop (more) or the first one of a run, whose
\* position comes from the local database.
PullBegin(c) ==
  /\ phase[c] = "idle"
  /\ floor[c] = -1
  /\ more[c] \/ hydrated[c]
  /\ accessHolder = Nobody
  /\ accessHolder' = c
  /\ phase' = [phase EXCEPT ![c] = "pull"]
  /\ next' = [next EXCEPT ![c] = IF more[c] THEN @ ELSE cursor[c]]
  /\ UNCHANGED <<serverVars, localVars, page, entries, more, floor, after, faults>>

\* The latest change of every visible root past the request's position.
Latest(c) ==
  {ch \in log :
     /\ ch.id > next[c]
     /\ Sees(c, ch.entity)
     /\ \A other \in log : other.entity = ch.entity => other.id <= ch.id}

\* Mutant: the page keeps the order of DISTINCT ON.
FirstByEntity(changes) ==
  {ch \in changes : Cardinality({o \in changes : o.entity < ch.entity}) < PageLimit}

\* The first PageLimit of them by change id.
FirstByChangeId(changes) ==
  {ch \in changes : Cardinality({o \in changes : o.id < ch.id}) < PageLimit}

\* Mutant: the answer jumps to the greatest id although more pages follow.
ResolveNextIgnoringMore(c, last, max, hasMore) ==
  IF c \in MediaAware \/ max <= last THEN last ELSE max

\* last is the id of the page's last change, or the request's position when
\* the page is empty; max is the greatest committed id, of whatever kind.
ResolveNextHotChangeId(c, last, max, hasMore) ==
  IF c \in MediaAware \/ hasMore \/ max <= last THEN last ELSE max

\* One statement: both common table expressions see the same snapshot.
PullSelect(c) ==
  LET visible == FirstByChangeId(Latest(c))
      hasMore == visible # Latest(c)
  IN /\ phase[c] = "pull"
     /\ phase' = [phase EXCEPT ![c] = "payload"]
     /\ page' = [page EXCEPT ![c] = {ch.entity : ch \in visible}]
     /\ entries' = [entries EXCEPT ![c] = Untouched]
     /\ more' = [more EXCEPT ![c] = hasMore]
     /\ \E last \in {next[c]} \union IdsOf(visible), max \in {0} \union IdsOf(log) :
          /\ IsLast(last, {next[c]} \union IdsOf(visible))
          /\ IsLast(max, {0} \union IdsOf(log))
          /\ next' = [next EXCEPT ![c] = ResolveNextHotChangeId(c, last, max, hasMore)]
     /\ UNCHANGED <<serverVars, accessHolder, localVars, floor, after, faults>>

\* The payloads of one kind, by a later statement: they may be newer than the
\* changes that named them.
PullLoad(c, kind) ==
  LET loaded == {e \in page[c] : KindOf[e] = kind}
  IN /\ phase[c] = "payload"
     /\ loaded # {}
     /\ entries' = [entries EXCEPT ![c] =
                      [e \in Entities |-> IF e \in loaded THEN rows[e] ELSE @[e]]]
     /\ page' = [page EXCEPT ![c] = @ \ loaded]
     /\ UNCHANGED <<serverVars, accessHolder, localVars, phase, next, more, floor, after, faults>>

\* The transaction commits and the answer travels to the client.
PullAnswer(c) ==
  /\ phase[c] = "payload"
  /\ page[c] = {}
  /\ phase' = [phase EXCEPT ![c] = "pulled"]
  /\ ReleaseAccess(c)
  /\ UNCHANGED <<serverVars, localVars, page, entries, next, more, floor, after, faults>>

\* Mutant: roots are added when they are missing, never replaced.
AddMissing(c) ==
  [e \in Entities |-> IF local[c][e] = 0 THEN entries[c][e] ELSE local[c][e]]

\* The local copy of every root in the answer is overwritten.
Overwrite(c) ==
  [e \in Entities |-> IF entries[c][e] # 0 THEN entries[c][e] ELSE local[c][e]]

\* Entries and position are stored by one IndexedDB transaction.
PullApply(c) ==
  /\ phase[c] = "pulled"
  /\ local' = [local EXCEPT ![c] = Overwrite(c)]
  /\ cursor' = [cursor EXCEPT ![c] = next[c]]
  /\ phase' = [phase EXCEPT ![c] = "idle"]
  /\ entries' = [entries EXCEPT ![c] = Untouched]
  /\ UNCHANGED <<serverVars, accessHolder, hydrated, page, next, more, floor, after, faults>>

-----------------------------------------------------------------------------
(* Bootstrap *)

\* A run that finds the workspace not hydrated walks the current state; the
\* cursor between two pages lives in memory only.
BootBegin(c) ==
  /\ phase[c] = "idle"
  /\ ~hydrated[c]
  /\ more[c] => floor[c] # -1
  /\ accessHolder = Nobody
  /\ accessHolder' = c
  /\ phase' = [phase EXCEPT ![c] = IF floor[c] = -1 THEN "boot" ELSE "page"]
  /\ UNCHANGED <<serverVars, localVars, page, entries, next, more, floor, after, faults>>

\* First page only, and before its SELECT: the position the client will
\* continue from.
BootFloor(c) ==
  /\ phase[c] = "boot"
  /\ phase' = [phase EXCEPT ![c] = "page"]
  /\ \E max \in {0} \union IdsOf(log) :
       /\ IsLast(max, {0} \union IdsOf(log))
       /\ floor' = [floor EXCEPT ![c] = max]
  /\ UNCHANGED <<serverVars, accessHolder, localVars, page, entries, next, more, after, faults>>

Remaining(c) == {e \in Entities : rows[e] # 0 /\ Sees(c, e) /\ e > after[c]}
FirstByKey(S) == {e \in S : Cardinality({o \in S : o < e}) < PageLimit}

\* The page's SELECT and the commit; the answer's cursor names its last entity.
BootSelect(c) ==
  LET visible == FirstByKey(Remaining(c))
  IN /\ phase[c] = "page"
     /\ phase' = [phase EXCEPT ![c] = "booted"]
     /\ entries' = [entries EXCEPT ![c] =
                      [e \in Entities |-> IF e \in visible THEN rows[e] ELSE 0]]
     /\ more' = [more EXCEPT ![c] = visible # Remaining(c)]
     /\ ReleaseAccess(c)
     /\ UNCHANGED <<serverVars, localVars, page, next, floor, after, faults>>

Answered(c) == {e \in Entities : entries[c][e] # 0}

\* A page that is not the last one stores its entries only.
BootApplyPage(c) ==
  /\ phase[c] = "booted"
  /\ more[c]
  /\ local' = [local EXCEPT ![c] = Overwrite(c)]
  /\ phase' = [phase EXCEPT ![c] = "idle"]
  /\ entries' = [entries EXCEPT ![c] = Untouched]
  /\ \E e \in Answered(c) :
       /\ IsLast(e, Answered(c))
       /\ after' = [after EXCEPT ![c] = e]
  /\ UNCHANGED <<serverVars, accessHolder, cursor, hydrated, page, next, more, floor, faults>>

\* The last page also stores the position and marks the workspace hydrated.
BootApplyLast(c) ==
  /\ phase[c] = "booted"
  /\ ~more[c]
  /\ local' = [local EXCEPT ![c] = Overwrite(c)]
  /\ cursor' = [cursor EXCEPT ![c] = floor[c]]
  /\ hydrated' = [hydrated EXCEPT ![c] = TRUE]
  /\ phase' = [phase EXCEPT ![c] = "idle"]
  /\ entries' = [entries EXCEPT ![c] = Untouched]
  /\ floor' = [floor EXCEPT ![c] = -1]
  /\ after' = [after EXCEPT ![c] = 0]
  /\ UNCHANGED <<serverVars, accessHolder, page, next, more, faults>>

-----------------------------------------------------------------------------
(* Failures *)

\* The request fails, the tab closes or the page reloads: the run ends and
\* everything it held in memory is gone.
Drop(c) ==
  /\ phase[c] # "idle" \/ more[c]
  /\ faults < MaxFaults
  /\ faults' = faults + 1
  /\ phase' = [phase EXCEPT ![c] = "idle"]
  /\ page' = [page EXCEPT ![c] = {}]
  /\ entries' = [entries EXCEPT ![c] = Untouched]
  /\ more' = [more EXCEPT ![c] = FALSE]
  /\ floor' = [floor EXCEPT ![c] = -1]
  /\ after' = [after EXCEPT ![c] = 0]
  /\ ReleaseAccess(c)
  /\ UNCHANGED <<serverVars, localVars, next>>

\* The browser evicts the local database; a run in progress is not told.
Evict(c) ==
  /\ faults < MaxFaults
  /\ EvictMidBootstrap \/ after[c] = 0
  /\ faults' = faults + 1
  /\ local' = [local EXCEPT ![c] = Untouched]
  /\ cursor' = [cursor EXCEPT ![c] = 0]
  /\ hydrated' = [hydrated EXCEPT ![c] = FALSE]
  /\ UNCHANGED <<serverVars, accessHolder, loopVars>>

-----------------------------------------------------------------------------
WriterStep(w) ==
  \/ Begin(w)
  \/ Lock(w)
  \/ \E e \in Entities : Write(w, e)
  \/ Commit(w)
  \/ Abort(w)

\* What an open request does next, once the server or the client gets to it.
RequestStep(c) ==
  \/ PullSelect(c)
  \/ \E kind \in Kinds : PullLoad(c, kind)
  \/ PullAnswer(c)
  \/ PullApply(c)
  \/ BootFloor(c)
  \/ BootSelect(c)
  \/ BootApplyPage(c)
  \/ BootApplyLast(c)

ClientStep(c) ==
  \/ PullBegin(c)
  \/ BootBegin(c)
  \/ RequestStep(c)
  \/ Drop(c)
  \/ Evict(c)

Next ==
  \/ \E w \in Writers : WriterStep(w)
  \/ \E c \in Clients : ClientStep(c)

Spec == Init /\ [][Next]_vars

\* PostgreSQL ends every transaction (statement deadlines abort a stuck one)
\* and queues for both locks in order; the engine starts a run after every
\* edit, on focus and on a timer, so a client keeps asking.
Fairness ==
  /\ \A w \in Writers :
       /\ SF_vars(Lock(w))
       /\ WF_vars(Commit(w) \/ Abort(w))
  /\ \A c \in Clients :
       /\ SF_vars(PullBegin(c) \/ BootBegin(c))
       /\ WF_vars(RequestStep(c))

FairSpec == Spec /\ Fairness

-----------------------------------------------------------------------------
(* Properties *)

\* A hydrated client whose copy of a root is out of date is still owed a change
\* past its position: no write is ever skipped by the pull or lost between the
\* bootstrap and the first pull.
CursorCoversState ==
  \A c \in Clients, e \in Entities :
    hydrated[c] /\ Sees(c, e) /\ local[c][e] # rows[e] => rows[e] > cursor[c]

\* Changes become visible in the order of their ids: what commits now comes
\* after everything a pull could have seen already.
AppendsInOrder ==
  [][\A new \in log' \ log, old \in log : old.id < new.id]_vars

\* Once writes and failures stop, every client ends up with the server's state
\* of every root it sees, and stays there.
Converges ==
  <>[](\A c \in Clients, e \in Entities :
         hydrated[c] /\ (Sees(c, e) => local[c][e] = rows[e]))
=============================================================================
