--------------------------- MODULE HotChangeProofs ---------------------------
(***************************************************************************)
(* Proofs about HotChangeLog: its inductive invariant, the invariant and   *)
(* the action property the runs check, and the refinement of OrderedFeed.  *)
(***************************************************************************)
EXTENDS HotChangeInvariant, FiniteSetTheorems, TLAPS

-----------------------------------------------------------------------------
(* Type correctness *)

\* The initial state of every variable is of its type.
LEMMA InitTyped == Init => TypeOK
  <1> SUFFICES ASSUME Init PROVE TypeOK
    OBVIOUS
  <1>1. SettingsRoot \in Entities
    BY EntitiesAssumption
  <1>2. QED
    BY <1>1 DEF Init, TypeOK, Untouched, Change, Phases

\* Steps of a write transaction keep the types.
LEMMA WriterTyped ==
  ASSUME TypeOK, NEW w \in Writers, WriterStep(w)
  PROVE  TypeOK'
  <1> USE DEF TypeOK, serverVars, localVars, loopVars
  <1>1. CASE Begin(w)
    BY <1>1 DEF Begin
  <1>2. CASE Lock(w)
    BY <1>2 DEF Lock
  <1>3. ASSUME NEW e \in Entities, Write(w, e) PROVE TypeOK'
    BY <1>3 DEF Write
  <1>4. CASE Commit(w)
    <2>1. {Change(draft[w][e], e) : e \in Written(w)} \subseteq [id : Nat, entity : Entities]
      BY DEF Change, Written
    <2>2. rows' \in [Entities -> Nat]
      BY <1>4 DEF Commit
    <2>3. Untouched \in [Entities -> Nat]
      BY DEF Untouched
    <2>4. QED
      BY <1>4, <2>1, <2>2, <2>3 DEF Commit, EndTransaction, ReleaseAccess
  <1>5. CASE Abort(w)
    <2>1. Untouched \in [Entities -> Nat]
      BY DEF Untouched
    <2>2. QED
      BY <1>5, <2>1 DEF Abort, EndTransaction, ReleaseAccess
  <1>6. QED
    BY <1>1, <1>2, <1>3, <1>4, <1>5 DEF WriterStep

\* Steps of a client keep the types.  BootApplyLast stores the floor as the
\* position, so it needs to know that the floor has been read.
LEMMA ClientTyped ==
  ASSUME TypeOK, LoopShape, NEW c \in Clients, ClientStep(c)
  PROVE  TypeOK'
  <1> USE DEF TypeOK, serverVars, localVars, loopVars, Phases
  <1>u. Untouched \in [Entities -> Nat]
    BY DEF Untouched
  <1>o. Overwrite(c) \in [Entities -> Nat]
    BY DEF Overwrite
  <1>1. CASE PullBegin(c)
    BY <1>1 DEF PullBegin
  <1>2. CASE PullSelect(c)
    <2>0. FirstByChangeId(Latest(c)) \subseteq log
      <3> HIDE DEF TypeOK
      <3>1. Latest(c) \subseteq log
        BY DEF Latest
      <3>2. QED
        BY <3>1 DEF FirstByChangeId
    <2>1. {ch.entity : ch \in FirstByChangeId(Latest(c))} \subseteq Entities
      BY <2>0
    <2>2. (FirstByChangeId(Latest(c)) # Latest(c)) \in BOOLEAN
      OBVIOUS
    <2>3. next' \in [Clients -> Nat]
      <3>1. PICK last \in {next[c]} \union IdsOf(FirstByChangeId(Latest(c))), max \in {0} \union IdsOf(log) :
              next' = [next EXCEPT ![c] = ResolveNextHotChangeId(c, last, max, FirstByChangeId(Latest(c)) # Latest(c))]
        BY <1>2 DEF PullSelect
      <3>2. last \in Nat /\ max \in Nat
        BY <2>0 DEF IdsOf
      <3>3. QED
        BY <3>1, <3>2 DEF ResolveNextHotChangeId
    <2>4. QED
      BY <1>2, <1>u, <2>1, <2>2, <2>3 DEF PullSelect
  <1>3. ASSUME NEW kind \in Kinds, PullLoad(c, kind) PROVE TypeOK'
    BY <1>3 DEF PullLoad
  <1>4. CASE PullAnswer(c)
    BY <1>4 DEF PullAnswer, ReleaseAccess
  <1>5. CASE PullApply(c)
    BY <1>5, <1>u, <1>o DEF PullApply
  <1>6. CASE BootBegin(c)
    BY <1>6 DEF BootBegin
  <1>7. CASE BootFloor(c)
    <2>1. floor' \in [Clients -> Nat \union {-1}]
      BY <1>7 DEF BootFloor, IdsOf
    <2>2. QED
      BY <1>7, <2>1 DEF BootFloor
  <1>8. CASE BootSelect(c)
    BY <1>8 DEF BootSelect, ReleaseAccess
  <1>9. CASE BootApplyPage(c)
    <2>1. after' \in [Clients -> Nat]
      BY <1>9, EntitiesAssumption DEF BootApplyPage, Answered
    <2>2. QED
      BY <1>9, <1>u, <1>o, <2>1 DEF BootApplyPage
  <1>10. CASE BootApplyLast(c)
    <2>1. floor[c] \in Nat
      BY <1>10 DEF BootApplyLast, LoopShape
    <2>2. QED
      BY <1>10, <1>u, <1>o, <2>1 DEF BootApplyLast
  <1>11. CASE Drop(c)
    BY <1>11, <1>u DEF Drop, ReleaseAccess
  <1>12. CASE Evict(c)
    BY <1>12, <1>u DEF Evict
  <1>13. QED
    BY <1>1, <1>2, <1>3, <1>4, <1>5, <1>6, <1>7, <1>8, <1>9, <1>10, <1>11, <1>12
    DEF ClientStep, RequestStep

-----------------------------------------------------------------------------
(* The server: locks, ids and rows *)

\* The initial log holds the change of the workspace's settings only.
LEMMA InitServer == Init => ServerInv
  <1> SUFFICES ASSUME Init PROVE ServerInv
    OBVIOUS
  <1> USE DEF Init, Change, Untouched
  <1>1. IsFiniteSet(log)
    BY FS_Singleton
  <1>2. WritersOrdered
    BY <1>1 DEF WritersOrdered
  <1>3. RowsAreLatest
    BY EntitiesAssumption DEF RowsAreLatest
  <1>4. QED
    BY <1>2, <1>3 DEF ServerInv

\* Allocating an id, committing and aborting keep the order of ids.
LEMMA WriterServer ==
  ASSUME TypeOK, ServerInv, NEW w \in Writers, WriterStep(w)
  PROVE  ServerInv'
  <1> USE DEF ServerInv, TypeOK, serverVars, localVars, loopVars
  <1>1. CASE Begin(w)
    BY <1>1 DEF Begin, WritersOrdered, RowsAreLatest
  <1>2. CASE Lock(w)
    BY <1>2 DEF Lock, WritersOrdered, RowsAreLatest
  <1>3. ASSUME NEW e \in Entities, Write(w, e) PROVE ServerInv'
    <2>1. WritersOrdered'
      BY <1>3 DEF Write, WritersOrdered
    <2>2. RowsAreLatest'
      BY <1>3 DEF Write, RowsAreLatest
    <2>3. QED
      BY <2>1, <2>2
  <1>4. CASE Commit(w)
    <2> DEFINE committed == {Change(draft[w][e], e) : e \in Written(w)}
    <2>1. log' = log \union committed /\ w \in locked
      BY <1>4 DEF Commit
    <2>2. IsFiniteSet(log')
      <3>1. IsFiniteSet(Written(w))
        BY EntitiesAssumption, FS_Subset DEF Written
      <3>2. IsFiniteSet(committed)
        <4>1. [e \in Written(w) |-> Change(draft[w][e], e)] \in Surjection(Written(w), committed)
          BY DEF Surjection
        <4>2. QED
          BY <3>1, <4>1, FS_Surjection
      <3>3. QED
        BY <2>1, <3>2, FS_Union DEF WritersOrdered
    <2>3. WritersOrdered'
      <3>1. draft' = [draft EXCEPT ![w] = Untouched] /\ locked' = locked \ {w} /\ seq' = seq
        BY <1>4 DEF Commit, EndTransaction
      <3>2. \A v \in Writers, e \in Entities : draft'[v][e] = 0
        BY <2>1, <3>1 DEF WritersOrdered, Untouched
      <3>3. \A ch \in committed : ch.id \in 1 .. seq - 1
        BY DEF WritersOrdered, Change, Written
      <3>4. \A ch \in log' : ch.id \in 1 .. seq - 1
        BY <2>1, <3>3 DEF WritersOrdered
      <3>5. QED
        BY <2>2, <3>1, <3>2, <3>4 DEF WritersOrdered
    <2>4. RowsAreLatest'
      <3>1. rows' = [e \in Entities |-> IF e \in Written(w) THEN draft[w][e] ELSE rows[e]]
        BY <1>4 DEF Commit
      <3>2. \A e \in Entities : rows'[e] # 0 => Change(rows'[e], e) \in log'
        BY <2>1, <3>1 DEF RowsAreLatest
      <3>3. \A ch \in log : ch.id <= rows'[ch.entity]
        BY <3>1 DEF RowsAreLatest, WritersOrdered, Written
      <3>4. \A ch \in committed : ch.id <= rows'[ch.entity]
        BY <3>1 DEF Change, Written
      <3>5. QED
        BY <2>1, <3>2, <3>3, <3>4 DEF RowsAreLatest
    <2>5. QED
      BY <2>3, <2>4
  <1>5. CASE Abort(w)
    BY <1>5 DEF Abort, EndTransaction, WritersOrdered, RowsAreLatest, Untouched
  <1>6. QED
    BY <1>1, <1>2, <1>3, <1>4, <1>5 DEF WriterStep

\* No step of a client touches the log, the rows or a draft.
LEMMA ClientKeepsServer ==
  ASSUME NEW c \in Clients, ClientStep(c)
  PROVE  UNCHANGED serverVars
  BY DEF ClientStep, RequestStep, PullBegin, PullSelect, PullLoad, PullAnswer, PullApply,
         BootBegin, BootFloor, BootSelect, BootApplyPage, BootApplyLast, Drop, Evict

\* What a write transaction changes for everyone else: nothing, or roots whose
\* new version is past everything that was committed.
LEMMA WriterPublishes ==
  ASSUME TypeOK, ServerInv, NEW w \in Writers, WriterStep(w)
  PROVE  /\ log \subseteq log'
         /\ \A e \in Entities :
              rows'[e] # rows[e] =>
                /\ rows'[e] > rows[e]
                /\ rows'[e] > 0
                /\ \A ch \in log : ch.id < rows'[e]
         /\ UNCHANGED <<localVars, loopVars, faults>>
  <1> USE DEF ServerInv, TypeOK
  <1>1. CASE Commit(w)
    <2>1. log \subseteq log' /\ UNCHANGED <<localVars, loopVars, faults>>
      BY <1>1 DEF Commit, EndTransaction
    <2>2. ASSUME NEW e \in Entities, rows'[e] # rows[e]
          PROVE  rows'[e] > rows[e] /\ rows'[e] > 0 /\ \A ch \in log : ch.id < rows'[e]
      <3>1. rows'[e] = draft[w][e] /\ draft[w][e] # 0
        BY <1>1, <2>2 DEF Commit, Written
      <3>2. \A ch \in log : ch.id < rows'[e]
        BY <3>1 DEF WritersOrdered
      <3>3. rows[e] # 0 => rows[e] < rows'[e]
        BY <3>2 DEF RowsAreLatest, Change
      <3>4. QED
        BY <3>1, <3>2, <3>3
    <2>3. QED
      BY <2>1, <2>2
  <1>2. CASE ~Commit(w)
    BY <1>2 DEF WriterStep, Begin, Lock, Write, Abort, EndTransaction
  <1>3. QED
    BY <1>1, <1>2

-----------------------------------------------------------------------------
(* Pages *)

\* A page of a pull is closed downwards: a change before one in the page is in
\* the page.
LEMMA PullPageClosed ==
  ASSUME TypeOK, IsFiniteSet(log), NEW c \in Clients,
         NEW m \in FirstByChangeId(Latest(c)), NEW ch \in Latest(c), ch.id <= m.id
  PROVE  ch \in FirstByChangeId(Latest(c))
  <1> DEFINE Before(x) == {o \in Latest(c) : o.id < x.id}
  <1>1. Latest(c) \subseteq log /\ m \in Latest(c)
    BY DEF Latest, FirstByChangeId
  <1>2. IsFiniteSet(Latest(c))
    BY <1>1, FS_Subset
  <1>3. IsFiniteSet(Before(m))
    BY <1>2, FS_Subset
  <1>4. Before(ch) \subseteq Before(m)
    <2>1. \A o \in Latest(c) : o.id \in Nat
      BY <1>1 DEF TypeOK
    <2>2. ch.id \in Nat /\ m.id \in Nat
      BY <1>1, <2>1
    <2>3. ASSUME NEW o \in Latest(c), o.id < ch.id PROVE o.id < m.id
      <3>1. o.id \in Nat
        BY <2>1
      <3>2. QED
        BY <2>2, <2>3, <3>1
    <2>4. QED
      BY <2>3
  <1>5. Cardinality(Before(ch)) <= Cardinality(Before(m))
    BY <1>3, <1>4, FS_Subset
  <1>6. Cardinality(Before(m)) < PageLimit
    BY DEF FirstByChangeId
  <1>7. Cardinality(Before(m)) \in Nat /\ Cardinality(Before(ch)) \in Nat
    BY <1>3, <1>4, FS_Subset, FS_CardinalityType
  <1>8. QED
    BY <1>5, <1>6, <1>7, BoundsAssumption DEF FirstByChangeId

\* A page of a bootstrap is closed downwards in keyset order.
LEMMA BootPageClosed ==
  ASSUME NEW c \in Clients, NEW m \in FirstByKey(Remaining(c)),
         NEW e \in Remaining(c), e <= m
  PROVE  e \in FirstByKey(Remaining(c))
  <1> DEFINE Before(x) == {o \in Remaining(c) : o < x}
  <1>1. Remaining(c) \subseteq Entities /\ m \in Remaining(c)
    BY DEF Remaining, FirstByKey
  <1>2. IsFiniteSet(Before(m))
    BY <1>1, EntitiesAssumption, FS_Subset
  <1>3. Before(e) \subseteq Before(m)
    <2>1. \A o \in Remaining(c) : o \in Nat
      BY <1>1, EntitiesAssumption
    <2>2. e \in Nat /\ m \in Nat
      BY <1>1, <2>1
    <2>3. ASSUME NEW o \in Remaining(c), o < e PROVE o < m
      <3>1. o \in Nat
        BY <2>1
      <3>2. QED
        BY <2>2, <2>3, <3>1
    <2>4. QED
      BY <2>3
  <1>4. Cardinality(Before(e)) <= Cardinality(Before(m))
    BY <1>2, <1>3, FS_Subset
  <1>5. Cardinality(Before(m)) < PageLimit
    BY DEF FirstByKey
  <1>6. Cardinality(Before(m)) \in Nat /\ Cardinality(Before(e)) \in Nat
    BY <1>2, <1>3, FS_Subset, FS_CardinalityType
  <1>7. QED
    BY <1>4, <1>5, <1>6, BoundsAssumption DEF FirstByKey

\* The latest changes past a position are the roots' versions past it.
LEMMA LatestAreRows ==
  ASSUME TypeOK, ServerInv, NEW c \in Clients
  PROVE  /\ \A ch \in Latest(c) : ch.id = rows[ch.entity] /\ ch.id > next[c]
         /\ \A e \in Entities :
              Sees(c, e) /\ rows[e] > next[c] => Change(rows[e], e) \in Latest(c)
  <1> USE DEF TypeOK, ServerInv, RowsAreLatest, Change
  <1>1. ASSUME NEW ch \in Latest(c) PROVE ch.id = rows[ch.entity] /\ ch.id > next[c]
    <2>1. ch \in log /\ ch.id > next[c] /\ ch.id <= rows[ch.entity] /\ ch.entity \in Entities
      BY DEF Latest
    <2>2. Change(rows[ch.entity], ch.entity) \in log
      BY <2>1
    <2>3. rows[ch.entity] <= ch.id
      BY <2>2 DEF Latest
    <2>4. ch.id \in Nat /\ rows[ch.entity] \in Nat
      BY <2>1
    <2> HIDE DEF TypeOK, ServerInv, RowsAreLatest, Change
    <2>5. ch.id <= rows[ch.entity]
      BY <2>1
    <2>6. ch.id = rows[ch.entity]
      BY <2>3, <2>4, <2>5
    <2>7. QED
      BY <2>1, <2>6
  <1>2. ASSUME NEW e \in Entities, Sees(c, e), rows[e] > next[c]
        PROVE  Change(rows[e], e) \in Latest(c)
    BY <1>2 DEF Latest
  <1>3. QED
    BY <1>1, <1>2

-----------------------------------------------------------------------------
(* A commit leaves every client's bookkeeping true *)

\* A root that changes now is past every position a client holds, so whatever
\* a client knows about the roots up to its position still holds.
LEMMA WriterKeepsClients ==
  ASSUME TypeOK, ServerInv, LoopInv, CoverInv, NEW w \in Writers, WriterStep(w)
  PROVE  LoopInv' /\ CoverInv'
  <1>1. log \subseteq log' /\ UNCHANGED <<localVars, loopVars, faults>>
    BY WriterPublishes
  <1>2. \A e \in Entities : rows'[e] # rows[e] =>
          rows'[e] > rows[e] /\ rows'[e] > 0 /\ \A ch \in log : ch.id < rows'[e]
    BY WriterPublishes
  <1>3. rows' \in [Entities -> Nat]
    BY WriterTyped DEF TypeOK
  <1>4. \A c \in Clients, e \in Entities : rows'[e] # rows[e] =>
          rows'[e] > cursor[c] /\ rows'[e] > next[c] /\ rows'[e] > floor[c]
    <2> SUFFICES ASSUME NEW c \in Clients, NEW e \in Entities, rows'[e] # rows[e]
                 PROVE  rows'[e] > cursor[c] /\ rows'[e] > next[c] /\ rows'[e] > floor[c]
      OBVIOUS
    <2>1. rows'[e] > 0 /\ \A i \in IdsOf(log) : i < rows'[e]
      BY <1>2 DEF IdsOf
    <2>2. \A i \in {-1, 0} \union IdsOf(log) : i < rows'[e]
      BY <1>3, <2>1
    <2>3. QED
      BY <2>2 DEF LoopInv, PositionsCommitted, TypeOK
  <1>5. \A e \in Entities : rows[e] <= rows'[e]
    BY <1>2, <1>3 DEF TypeOK
  <1> USE <1>1, <1>3 DEF TypeOK, localVars, loopVars
  <1>6. PositionsCommitted'
    BY DEF LoopInv, PositionsCommitted, IdsOf
  <1>b. PositionsRise'
    BY DEF LoopInv, PositionsRise
  <1>7. VersionsOrdered'
    BY <1>5 DEF LoopInv, VersionsOrdered
  <1>8. LoopShape'
    BY DEF LoopInv, LoopShape
  <1>a. \A c \in Clients, e \in Entities :
          /\ rows'[e] <= cursor[c] => rows'[e] = rows[e]
          /\ rows'[e] <= next[c] => rows'[e] = rows[e]
          /\ rows'[e] <= floor[c] => rows'[e] = rows[e]
    <2> SUFFICES ASSUME NEW c \in Clients, NEW e \in Entities, rows'[e] # rows[e]
                 PROVE  ~(rows'[e] <= cursor[c]) /\ ~(rows'[e] <= next[c]) /\ ~(rows'[e] <= floor[c])
      OBVIOUS
    <2>1. rows'[e] \in Int /\ cursor[c] \in Int /\ next[c] \in Int /\ floor[c] \in Int
      OBVIOUS
    <2>2. rows'[e] > cursor[c] /\ rows'[e] > next[c] /\ rows'[e] > floor[c]
      BY <1>4
    <2> HIDE <1>1, <1>3 DEF TypeOK, localVars, loopVars
    <2>3. QED
      BY <2>1, <2>2
  <1>9. CursorCovers'
    <2> SUFFICES ASSUME NEW c \in Clients, NEW e \in Entities,
                        hydrated[c], Sees(c, e), rows'[e] <= cursor[c]
                 PROVE  local[c][e] = rows'[e]
      BY DEF CursorCovers, Sees
    <2>1. rows'[e] = rows[e]
      BY <1>a
    <2>2. QED
      BY <2>1 DEF CoverInv, CursorCovers
  <1>10. PullCovers'
    <2> SUFFICES ASSUME NEW c \in Clients, NEW e \in Entities,
                        hydrated[c], phase[c] \in {"payload", "pulled"}, Sees(c, e), rows'[e] <= next[c]
                 PROVE  \/ e \in page[c]
                        \/ entries[c][e] = rows'[e]
                        \/ entries[c][e] = 0 /\ local[c][e] = rows'[e]
      BY DEF PullCovers, Sees
    <2>1. rows'[e] = rows[e]
      BY <1>a
    <2>2. QED
      BY <2>1 DEF CoverInv, PullCovers
  <1>11. BootCovers'
    <2> SUFFICES ASSUME NEW c \in Clients, NEW e \in Entities,
                        floor[c] # -1, Sees(c, e), rows'[e] <= floor[c], e <= after[c]
                 PROVE  local[c][e] = rows'[e]
      BY DEF BootCovers, Sees
    <2>1. rows'[e] = rows[e]
      BY <1>a
    <2>2. QED
      BY <2>1 DEF CoverInv, BootCovers
  <1>12. BootAnswerCovers'
    <2> SUFFICES ASSUME NEW c \in Clients, NEW e \in Entities,
                        phase[c] = "booted", Sees(c, e), rows'[e] <= floor[c], e > after[c]
                 PROVE  \/ entries[c][e] = rows'[e]
                        \/ more[c] /\ \A x \in Answered(c) : x < e
      BY DEF BootAnswerCovers, Sees, Answered
    <2>1. rows'[e] = rows[e]
      BY <1>a
    <2>2. QED
      BY <2>1 DEF CoverInv, BootAnswerCovers
  <1>13. QED
    BY <1>6, <1>b, <1>7, <1>8, <1>9, <1>10, <1>11, <1>12 DEF LoopInv, CoverInv

-----------------------------------------------------------------------------
(* Client steps: positions, versions and loops *)

\* Every position a client adopts was handed out by the server.
LEMMA ClientPositions ==
  ASSUME TypeOK, ServerInv, LoopInv, NEW c \in Clients, ClientStep(c)
  PROVE  PositionsCommitted'
  <1>1. log' = log
    BY ClientKeepsServer DEF serverVars
  <1> USE <1>1 DEF TypeOK, serverVars, localVars, loopVars, LoopInv, PositionsCommitted, IdsOf
  <1>2. CASE PullBegin(c)
    BY <1>2 DEF PullBegin
  <1>3. CASE PullSelect(c)
    <2>1. FirstByChangeId(Latest(c)) \subseteq log
      BY DEF FirstByChangeId, Latest
    <2>2. PICK last \in {next[c]} \union IdsOf(FirstByChangeId(Latest(c))), max \in {0} \union IdsOf(log) :
            next' = [next EXCEPT ![c] = ResolveNextHotChangeId(c, last, max, FirstByChangeId(Latest(c)) # Latest(c))]
      BY <1>3 DEF PullSelect
    <2>3. last \in {0} \union IdsOf(log)
      BY <2>1
    <2>4. ResolveNextHotChangeId(c, last, max, FirstByChangeId(Latest(c)) # Latest(c)) \in {0} \union IdsOf(log)
      BY <2>3 DEF ResolveNextHotChangeId
    <2>5. cursor' = cursor /\ floor' = floor
      BY <1>3 DEF PullSelect
    <2>6. QED
      BY <2>2, <2>4, <2>5
  <1>4. CASE PullApply(c)
    BY <1>4 DEF PullApply
  <1>5. CASE BootFloor(c)
    BY <1>5 DEF BootFloor
  <1>6. CASE BootApplyLast(c)
    <2>1. floor[c] # -1
      BY <1>6 DEF BootApplyLast, LoopShape
    <2>2. QED
      BY <1>6, <2>1 DEF BootApplyLast
  <1>7. CASE Drop(c)
    BY <1>7 DEF Drop
  <1>8. CASE Evict(c)
    BY <1>8 DEF Evict
  <1>9. CASE UNCHANGED <<cursor, next, floor>>
    BY <1>9
  <1>10. QED
    BY <1>2, <1>3, <1>4, <1>5, <1>6, <1>7, <1>8, <1>9
    DEF ClientStep, RequestStep, PullLoad, PullAnswer, BootBegin, BootSelect, BootApplyPage

\* No request answers a position behind the one it was asked for, and a
\* bootstrap continues from the greatest position there is.
LEMMA ClientPositionsRise ==
  ASSUME TypeOK, LoopInv, NEW c \in Clients, ClientStep(c)
  PROVE  PositionsRise'
  <1> USE DEF TypeOK, serverVars, localVars, loopVars, LoopInv, PositionsRise
  <1>1. CASE PullBegin(c)
    BY <1>1 DEF PullBegin
  <1>2. CASE PullSelect(c)
    <2>1. PICK last \in {next[c]} \union IdsOf(FirstByChangeId(Latest(c))),
               max \in {0} \union IdsOf(log) :
            /\ IsLast(last, {next[c]} \union IdsOf(FirstByChangeId(Latest(c))))
            /\ next' = [next EXCEPT ![c] = ResolveNextHotChangeId(c, last, max,
                                             FirstByChangeId(Latest(c)) # Latest(c))]
      BY <1>2 DEF PullSelect
    <2>2. last \in Nat /\ max \in Nat /\ next[c] <= last
      BY <2>1 DEF IsLast, IdsOf, FirstByChangeId, Latest
    <2>3. next[c] <= next'[c]
      BY <2>1, <2>2 DEF ResolveNextHotChangeId
    <2>4. /\ UNCHANGED <<cursor, floor>> /\ phase[c] = "pull"
          /\ \A d \in Clients : d # c =>
               phase'[d] = phase[d] /\ next'[d] = next[d] /\ more'[d] = more[d]
      BY <1>2, <2>1 DEF PullSelect
    <2>5. next'[c] \in Nat
      BY <2>1, <2>2 DEF ResolveNextHotChangeId
    <2>6. cursor[c] <= next'[c]
      BY <2>3, <2>4, <2>5
    <2>7. QED
      BY <2>4, <2>6
  <1>3. CASE PullApply(c)
    BY <1>3 DEF PullApply, LoopShape
  <1>4. CASE BootFloor(c)
    <2>1. cursor[c] \in {0} \union IdsOf(log)
      BY DEF PositionsCommitted
    <2>2. PICK max \in {0} \union IdsOf(log) :
            /\ IsLast(max, {0} \union IdsOf(log))
            /\ floor' = [floor EXCEPT ![c] = max]
      BY <1>4 DEF BootFloor
    <2>3. cursor[c] <= floor'[c] /\ floor'[c] # -1
      BY <2>1, <2>2 DEF IsLast, IdsOf
    <2>4. QED
      BY <1>4, <2>2, <2>3 DEF BootFloor
  <1>5. CASE BootSelect(c)
    BY <1>5 DEF BootSelect, LoopShape
  <1>6. CASE BootApplyPage(c)
    BY <1>6 DEF BootApplyPage
  <1>7. CASE BootApplyLast(c)
    BY <1>7 DEF BootApplyLast, LoopShape
  <1>8. CASE Drop(c)
    BY <1>8 DEF Drop
  <1>9. CASE Evict(c)
    BY <1>9 DEF Evict
  <1>10. CASE BootBegin(c) \/ PullAnswer(c) \/ \E kind \in Kinds : PullLoad(c, kind)
    BY <1>10 DEF BootBegin, PullAnswer, PullLoad
  <1>11. QED
    BY <1>1, <1>2, <1>3, <1>4, <1>5, <1>6, <1>7, <1>8, <1>9, <1>10
    DEF ClientStep, RequestStep

\* Overwriting with an answer moves copies forward, never past the server.
LEMMA OverwriteForward ==
  ASSUME TypeOK, LoopInv, NEW c \in Clients, NEW e \in Entities
  PROVE  local[c][e] <= Overwrite(c)[e] /\ Overwrite(c)[e] <= rows[e]
  BY DEF TypeOK, LoopInv, VersionsOrdered, Overwrite

\* Copies and answers stay between what they replace and the server.
LEMMA ClientVersions ==
  ASSUME TypeOK, LoopInv, NEW c \in Clients, ClientStep(c)
  PROVE  VersionsOrdered'
  <1>1. rows' = rows
    BY ClientKeepsServer DEF serverVars
  <1> USE <1>1 DEF TypeOK, serverVars, localVars, loopVars
  <1>2. CASE PullSelect(c)
    BY <1>2 DEF PullSelect, LoopInv, VersionsOrdered, Untouched
  <1>3. ASSUME NEW kind \in Kinds, PullLoad(c, kind) PROVE VersionsOrdered'
    BY <1>3 DEF PullLoad, LoopInv, VersionsOrdered
  <1>4. CASE BootSelect(c)
    BY <1>4 DEF BootSelect, LoopInv, VersionsOrdered
  <1>5. CASE PullApply(c) \/ BootApplyPage(c) \/ BootApplyLast(c)
    <2>1. local' = [local EXCEPT ![c] = Overwrite(c)] /\ entries' = [entries EXCEPT ![c] = Untouched]
      BY <1>5 DEF PullApply, BootApplyPage, BootApplyLast
    <2>2. QED
      BY <2>1, OverwriteForward DEF LoopInv, VersionsOrdered, Untouched
  <1>6. CASE Drop(c)
    BY <1>6 DEF Drop, LoopInv, VersionsOrdered, Untouched
  <1>7. CASE Evict(c)
    BY <1>7 DEF Evict, LoopInv, VersionsOrdered, Untouched
  <1>8. CASE UNCHANGED <<local, entries>>
    BY <1>8 DEF LoopInv, VersionsOrdered
  <1>9. QED
    BY <1>2, <1>3, <1>4, <1>5, <1>6, <1>7, <1>8
    DEF ClientStep, RequestStep, PullBegin, PullAnswer, BootBegin, BootFloor

\* A request belongs to the loop its phase says.
LEMMA ClientLoop ==
  ASSUME TypeOK, LoopInv, NEW c \in Clients, ClientStep(c)
  PROVE  LoopShape'
  <1> USE DEF TypeOK, localVars, loopVars, LoopInv, LoopShape, Phases
  <1>1. CASE PullBegin(c)
    BY <1>1 DEF PullBegin
  <1>2. CASE PullSelect(c)
    BY <1>2 DEF PullSelect
  <1>3. ASSUME NEW kind \in Kinds, PullLoad(c, kind) PROVE LoopShape'
    BY <1>3 DEF PullLoad
  <1>4. CASE PullAnswer(c)
    BY <1>4 DEF PullAnswer
  <1>5. CASE PullApply(c)
    BY <1>5 DEF PullApply
  <1>6. CASE BootBegin(c)
    BY <1>6 DEF BootBegin
  <1>7. CASE BootFloor(c)
    <2>1. floor'[c] # -1
      BY <1>7 DEF BootFloor, IdsOf
    <2>2. QED
      BY <1>7, <2>1 DEF BootFloor
  <1>8. CASE BootSelect(c)
    BY <1>8 DEF BootSelect
  <1>9. CASE BootApplyPage(c)
    BY <1>9 DEF BootApplyPage
  <1>10. CASE BootApplyLast(c)
    BY <1>10 DEF BootApplyLast
  <1>11. CASE Drop(c)
    BY <1>11 DEF Drop
  <1>12. CASE Evict(c)
    BY <1>12 DEF Evict
  <1>13. QED
    BY <1>1, <1>2, <1>3, <1>4, <1>5, <1>6, <1>7, <1>8, <1>9, <1>10, <1>11, <1>12
    DEF ClientStep, RequestStep

-----------------------------------------------------------------------------
(* Client steps: what positions cover *)

\* An answer that is current, or a copy that is, makes the copy current.
LEMMA OverwriteCurrent ==
  ASSUME TypeOK, LoopInv, NEW c \in Clients, NEW e \in Entities,
         entries[c][e] = rows[e] \/ local[c][e] = rows[e]
  PROVE  Overwrite(c)[e] = rows[e]
  <1>1. /\ local[c][e] \in Nat /\ entries[c][e] \in Nat /\ rows[e] \in Nat
        /\ local[c][e] <= rows[e] /\ entries[c][e] <= rows[e]
        /\ entries[c][e] # 0 => local[c][e] <= entries[c][e]
    BY DEF TypeOK, LoopInv, VersionsOrdered
  <1>2. CASE entries[c][e] = 0
    <2>1. local[c][e] = rows[e]
      BY <1>1, <1>2
    <2>2. QED
      BY <1>2, <2>1 DEF Overwrite
  <1>3. CASE entries[c][e] # 0
    <2>1. entries[c][e] = rows[e]
      BY <1>1, <1>3
    <2>2. QED
      BY <1>3, <2>1 DEF Overwrite
  <1>4. QED
    BY <1>2, <1>3

\* Applying the last page of a bootstrap, or a page of a pull, moves the
\* position to where the answer accounts for every root.
LEMMA ClientCursorCovers ==
  ASSUME TypeOK, LoopInv, CoverInv, NEW c \in Clients, ClientStep(c)
  PROVE  CursorCovers'
  <1>1. rows' = rows
    BY ClientKeepsServer DEF serverVars
  <1> SUFFICES ASSUME NEW d \in Clients, NEW e \in Entities,
                      hydrated'[d], Sees(d, e), rows[e] <= cursor'[d]
               PROVE  local'[d][e] = rows[e]
    BY <1>1 DEF CursorCovers, Sees
  <1> USE DEF TypeOK, localVars, CoverInv
  <1>2. CASE PullApply(c) /\ d = c
    <2>1. phase[c] = "pulled" /\ hydrated[c] /\ rows[e] <= next[c] /\ local'[c] = Overwrite(c)
      BY <1>2 DEF PullApply
    <2>2. e \notin page[c]
      BY <2>1 DEF LoopInv, LoopShape
    <2>3. entries[c][e] = rows[e] \/ local[c][e] = rows[e]
      BY <1>2, <2>1, <2>2 DEF PullCovers
    <2>4. QED
      BY <1>2, <2>1, <2>3, OverwriteCurrent
  <1>3. CASE BootApplyLast(c) /\ d = c
    <2>1. phase[c] = "booted" /\ ~more[c] /\ rows[e] <= floor[c] /\ local'[c] = Overwrite(c)
      BY <1>3 DEF BootApplyLast
    <2>2. floor[c] # -1
      BY <2>1 DEF LoopInv, LoopShape
    <2>3. CASE e <= after[c]
      BY <1>3, <2>1, <2>2, <2>3, OverwriteCurrent DEF BootCovers
    <2>4. CASE e > after[c]
      BY <1>3, <2>1, <2>4, OverwriteCurrent DEF BootAnswerCovers
    <2>5. e <= after[c] \/ e > after[c]
      BY EntitiesAssumption
    <2>6. QED
      BY <2>3, <2>4, <2>5
  <1>4. CASE BootApplyPage(c) /\ d = c
    BY <1>4 DEF BootApplyPage, LoopInv, LoopShape
  <1>5. CASE Evict(c) /\ d = c
    BY <1>5 DEF Evict
  <1>6. CASE local'[d] = local[d] /\ cursor'[d] = cursor[d] /\ hydrated'[d] = hydrated[d]
    BY <1>6 DEF CursorCovers
  <1>7. CASE d # c
    <2>1. local'[d] = local[d] /\ cursor'[d] = cursor[d] /\ hydrated'[d] = hydrated[d]
      BY <1>7 DEF ClientStep, RequestStep, PullBegin, PullSelect, PullLoad, PullAnswer, PullApply,
                  BootBegin, BootFloor, BootSelect, BootApplyPage, BootApplyLast, Drop, Evict
    <2>2. QED
      BY <1>6, <2>1
  <1>8. QED
    BY <1>2, <1>3, <1>4, <1>5, <1>6, <1>7
    DEF ClientStep, RequestStep, PullBegin, PullSelect, PullLoad, PullAnswer,
        BootBegin, BootFloor, BootSelect, Drop

\* The page's statement names every visible root between the two positions; the
\* roots up to the first one are current already.
LEMMA PullSelectCovers ==
  ASSUME TypeOK, ServerInv, LoopInv, CoverInv, NEW c \in Clients, PullSelect(c),
         NEW e \in Entities, hydrated[c], Sees(c, e), rows[e] <= next'[c]
  PROVE  e \in page'[c] \/ (entries'[c][e] = 0 /\ local[c][e] = rows[e])
  <1> DEFINE visible == FirstByChangeId(Latest(c))
  <1> USE DEF TypeOK
  <1>1. /\ page'[c] = {ch.entity : ch \in visible}
        /\ entries'[c][e] = 0
        /\ next[c] = cursor[c]
    BY DEF PullSelect, Untouched, LoopInv, LoopShape
  <1>2. PICK last \in {next[c]} \union IdsOf(visible), max \in {0} \union IdsOf(log) :
          /\ IsLast(last, {next[c]} \union IdsOf(visible))
          /\ IsLast(max, {0} \union IdsOf(log))
          /\ next'[c] = ResolveNextHotChangeId(c, last, max, visible # Latest(c))
    BY DEF PullSelect
  <1>3. CASE rows[e] <= next[c]
    BY <1>1, <1>3 DEF CoverInv, CursorCovers
  <1>4. CASE rows[e] > next[c]
    <2>1. Change(rows[e], e) \in Latest(c)
      BY <1>4, LatestAreRows
    <2>2. CASE visible = Latest(c)
      BY <1>1, <2>1, <2>2 DEF Change
    <2>3. CASE visible # Latest(c)
      <3>1. next'[c] = last
        BY <1>2, <2>3 DEF ResolveNextHotChangeId
      <3>2. last # next[c]
        BY <1>4, <3>1
      <3>3. PICK m \in visible : m.id = last
        BY <1>2, <3>2 DEF IdsOf
      <3>4. Change(rows[e], e).id <= m.id
        BY <3>1, <3>3 DEF Change
      <3>5. Change(rows[e], e) \in visible
        BY <2>1, <3>3, <3>4, PullPageClosed DEF ServerInv, WritersOrdered
      <3>6. QED
        BY <1>1, <3>5 DEF Change
    <2>4. QED
      BY <2>2, <2>3
  <1>5. rows[e] <= next[c] \/ rows[e] > next[c]
    OBVIOUS
  <1>6. QED
    BY <1>3, <1>4, <1>5

\* A pull keeps accounting for every root while its payloads are read.
LEMMA ClientPullCovers ==
  ASSUME TypeOK, ServerInv, LoopInv, CoverInv, NEW c \in Clients, ClientStep(c)
  PROVE  PullCovers'
  <1>1. rows' = rows
    BY ClientKeepsServer DEF serverVars
  <1> SUFFICES ASSUME NEW d \in Clients, NEW e \in Entities,
                      hydrated'[d], phase'[d] \in {"payload", "pulled"}, Sees(d, e), rows[e] <= next'[d]
               PROVE  \/ e \in page'[d]
                      \/ entries'[d][e] = rows[e]
                      \/ entries'[d][e] = 0 /\ local'[d][e] = rows[e]
    BY <1>1 DEF PullCovers, Sees
  <1> USE DEF TypeOK, localVars, loopVars, CoverInv
  <1>2. CASE PullSelect(c) /\ d = c
    <2>1. hydrated' = hydrated /\ local' = local
      BY <1>2 DEF PullSelect
    <2>2. QED
      BY <1>2, <2>1, PullSelectCovers
  <1>3. ASSUME NEW kind \in Kinds, PullLoad(c, kind), d = c
        PROVE  \/ e \in page'[d]
               \/ entries'[d][e] = rows[e]
               \/ entries'[d][e] = 0 /\ local'[d][e] = rows[e]
    BY <1>3 DEF PullLoad, PullCovers
  <1>4. CASE PullAnswer(c) /\ d = c
    BY <1>4 DEF PullAnswer, PullCovers
  <1>5. CASE BootApplyLast(c) /\ d = c
    BY <1>5 DEF BootApplyLast
  <1>6. CASE Evict(c) /\ d = c
    BY <1>6 DEF Evict
  <1>7. CASE d = c /\ phase'[c] \notin {"payload", "pulled"}
    BY <1>7
  <1>8. CASE d # c
    <2>1. /\ hydrated'[d] = hydrated[d] /\ phase'[d] = phase[d] /\ next'[d] = next[d]
          /\ page'[d] = page[d] /\ entries'[d] = entries[d] /\ local'[d] = local[d]
      BY <1>8 DEF ClientStep, RequestStep, PullBegin, PullSelect, PullLoad, PullAnswer, PullApply,
                  BootBegin, BootFloor, BootSelect, BootApplyPage, BootApplyLast, Drop, Evict
    <2>2. QED
      BY <2>1 DEF PullCovers
  <1>9. QED
    BY <1>2, <1>3, <1>4, <1>5, <1>6, <1>7, <1>8
    DEF ClientStep, RequestStep, PullBegin, PullApply, BootBegin, BootFloor,
        BootSelect, BootApplyPage, Drop

\* The bootstrap page holds every visible root from the position to its last
\* entity, or to the end.
LEMMA BootSelectCovers ==
  ASSUME TypeOK, NEW c \in Clients, BootSelect(c),
         NEW e \in Entities, Sees(c, e), e > after[c]
  PROVE  \/ entries'[c][e] = rows[e]
         \/ more'[c] /\ \A x \in Entities : entries'[c][x] # 0 => x < e
  <1> DEFINE visible == FirstByKey(Remaining(c))
  <1>1. /\ entries'[c] = [x \in Entities |-> IF x \in visible THEN rows[x] ELSE 0]
        /\ more'[c] = (visible # Remaining(c))
    BY DEF BootSelect, TypeOK
  <1>2. CASE rows[e] = 0
    BY <1>1, <1>2
  <1>3. CASE e \in visible
    BY <1>1, <1>3
  <1>4. CASE rows[e] # 0 /\ e \notin visible
    <2>1. e \in Remaining(c)
      BY <1>4 DEF Remaining
    <2>2. more'[c]
      BY <1>1, <1>4, <2>1
    <2>3. ASSUME NEW x \in Entities, entries'[c][x] # 0 PROVE x < e
      <3>1. x \in visible
        BY <1>1, <2>3
      <3>2. ~(e <= x)
        BY <1>4, <2>1, <3>1, BootPageClosed
      <3>3. QED
        BY <3>2, EntitiesAssumption
    <2>4. QED
      BY <2>2, <2>3
  <1>5. QED
    BY <1>2, <1>3, <1>4

\* A bootstrap keeps accounting for every root up to its keyset position, and
\* an answer for every root after it.
LEMMA ClientBootCovers ==
  ASSUME TypeOK, LoopInv, CoverInv, ~EvictMidBootstrap, NEW c \in Clients, ClientStep(c)
  PROVE  BootCovers'
  <1>1. rows' = rows
    BY ClientKeepsServer DEF serverVars
  <1> SUFFICES ASSUME NEW d \in Clients, NEW e \in Entities,
                      floor'[d] # -1, Sees(d, e), rows[e] <= floor'[d], e <= after'[d]
               PROVE  local'[d][e] = rows[e]
    BY <1>1 DEF BootCovers, Sees
  <1> USE DEF TypeOK, localVars, loopVars, CoverInv
  <1>2. CASE BootApplyPage(c) /\ d = c
    <2>1. /\ phase[c] = "booted" /\ more[c] /\ floor' = floor
          /\ local'[c] = Overwrite(c)
          /\ after'[c] \in Answered(c)
      BY <1>2 DEF BootApplyPage
    <2>2. CASE e <= after[c]
      BY <1>2, <2>1, <2>2, OverwriteCurrent DEF BootCovers
    <2>3. CASE e > after[c]
      <3>1. ~(after'[c] < e)
        BY <1>2, <2>1, EntitiesAssumption DEF Answered
      <3>2. entries[c][e] = rows[e]
        BY <1>2, <2>1, <2>3, <3>1 DEF BootAnswerCovers
      <3>3. QED
        BY <1>2, <2>1, <3>2, OverwriteCurrent
    <2>4. e <= after[c] \/ e > after[c]
      BY EntitiesAssumption
    <2>5. QED
      BY <2>2, <2>3, <2>4
  <1>3. CASE BootFloor(c) /\ d = c
    <2>1. after'[c] = 0
      BY <1>3 DEF BootFloor, LoopInv, LoopShape
    <2>2. QED
      BY <1>3, <2>1, EntitiesAssumption
  <1>4. CASE (BootApplyLast(c) \/ Drop(c)) /\ d = c
    BY <1>4 DEF BootApplyLast, Drop
  <1>5. CASE PullApply(c) /\ d = c
    BY <1>5 DEF PullApply, LoopInv, LoopShape
  <1>6. CASE Evict(c) /\ d = c
    <2>1. after'[c] = 0
      BY <1>6 DEF Evict
    <2>2. QED
      BY <1>6, <2>1, EntitiesAssumption
  <1>7. CASE local'[d] = local[d] /\ floor'[d] = floor[d] /\ after'[d] = after[d]
    BY <1>7 DEF BootCovers
  <1>8. CASE d # c
    <2>1. local'[d] = local[d] /\ floor'[d] = floor[d] /\ after'[d] = after[d]
      BY <1>8 DEF ClientStep, RequestStep, PullBegin, PullSelect, PullLoad, PullAnswer, PullApply,
                  BootBegin, BootFloor, BootSelect, BootApplyPage, BootApplyLast, Drop, Evict
    <2>2. QED
      BY <1>7, <2>1
  <1>9. QED
    BY <1>2, <1>3, <1>4, <1>5, <1>6, <1>7, <1>8
    DEF ClientStep, RequestStep, PullBegin, PullSelect, PullLoad, PullAnswer, BootBegin, BootSelect

\* While the answer of a bootstrap travels, it keeps covering its part.
LEMMA ClientBootAnswerCovers ==
  ASSUME TypeOK, LoopInv, CoverInv, NEW c \in Clients, ClientStep(c)
  PROVE  BootAnswerCovers'
  <1>1. rows' = rows
    BY ClientKeepsServer DEF serverVars
  <1> SUFFICES ASSUME NEW d \in Clients, NEW e \in Entities,
                      phase'[d] = "booted", Sees(d, e), rows[e] <= floor'[d], e > after'[d]
               PROVE  \/ entries'[d][e] = rows[e]
                      \/ more'[d] /\ \A x \in Entities : entries'[d][x] # 0 => x < e
    BY <1>1 DEF BootAnswerCovers, Answered, Sees
  <1> USE DEF TypeOK, localVars, loopVars, CoverInv
  <1>2. CASE BootSelect(c) /\ d = c
    <2>1. after' = after
      BY <1>2 DEF BootSelect
    <2>2. QED
      BY <1>2, <2>1, BootSelectCovers
  <1>3. CASE d = c /\ phase'[c] # "booted"
    BY <1>3
  <1>4. CASE phase'[d] = phase[d] /\ floor'[d] = floor[d] /\ after'[d] = after[d]
             /\ entries'[d] = entries[d] /\ more'[d] = more[d]
    BY <1>4 DEF BootAnswerCovers, Answered
  <1>5. CASE d # c
    <2>1. phase'[d] = phase[d] /\ floor'[d] = floor[d] /\ after'[d] = after[d]
          /\ entries'[d] = entries[d] /\ more'[d] = more[d]
      BY <1>5 DEF ClientStep, RequestStep, PullBegin, PullSelect, PullLoad, PullAnswer, PullApply,
                  BootBegin, BootFloor, BootSelect, BootApplyPage, BootApplyLast, Drop, Evict
    <2>2. QED
      BY <1>4, <2>1
  <1>6. CASE Evict(c)
    BY <1>4, <1>6 DEF Evict
  <1>7. ASSUME NEW kind \in Kinds, PullLoad(c, kind), d = c PROVE FALSE
    BY <1>7 DEF PullLoad
  <1>8. QED
    BY <1>2, <1>3, <1>5, <1>6, <1>7
    DEF ClientStep, RequestStep, PullBegin, PullSelect, PullAnswer, PullApply,
        BootBegin, BootFloor, BootApplyPage, BootApplyLast, Drop

-----------------------------------------------------------------------------
(* The theorems *)

\* The conjuncts about clients hold initially: nobody holds anything.
LEMMA InitClients == Init => LoopInv /\ CoverInv
  <1> SUFFICES ASSUME Init PROVE LoopInv /\ CoverInv
    OBVIOUS
  <1> USE DEF Init, Untouched
  <1>1. LoopInv
    BY EntitiesAssumption
    DEF LoopInv, PositionsCommitted, PositionsRise, VersionsOrdered, LoopShape
  <1>2. CoverInv
    BY DEF CoverInv, CursorCovers, PullCovers, BootCovers, BootAnswerCovers
  <1>3. QED
    BY <1>1, <1>2

\* Every step preserves the invariant, provided the local database is not
\* evicted between two pages of a bootstrap.
LEMMA StepKeepsIInv ==
  ASSUME IInv, ~EvictMidBootstrap, [Next]_vars
  PROVE  IInv'
  <1> USE DEF IInv
  <1>1. ASSUME NEW w \in Writers, WriterStep(w) PROVE IInv'
    BY <1>1, WriterTyped, WriterServer, WriterKeepsClients
  <1>2. ASSUME NEW c \in Clients, ClientStep(c) PROVE IInv'
    <2>1. TypeOK'
      BY <1>2, ClientTyped DEF LoopInv
    <2>2. ServerInv'
      BY <1>2, ClientKeepsServer DEF ServerInv, WritersOrdered, RowsAreLatest, serverVars
    <2>3. LoopInv'
      BY <1>2, ClientPositions, ClientPositionsRise, ClientVersions, ClientLoop DEF LoopInv
    <2>4. CoverInv'
      BY <1>2, ClientCursorCovers, ClientPullCovers, ClientBootCovers, ClientBootAnswerCovers
      DEF CoverInv
    <2>5. QED
      BY <2>1, <2>2, <2>3, <2>4
  <1>3. CASE UNCHANGED vars
    BY <1>3 DEF vars, serverVars, localVars, loopVars, TypeOK, ServerInv, WritersOrdered,
       RowsAreLatest, LoopInv, PositionsCommitted, PositionsRise, VersionsOrdered, LoopShape, CoverInv,
       CursorCovers, PullCovers, BootCovers, BootAnswerCovers, Answered, Sees
  <1>4. QED
    BY <1>1, <1>2, <1>3 DEF Next

\* The inductive invariant of the hot-state lane (sync/replication and the web
\* client's pull and bootstrap loops), for any number of writers and clients.
THEOREM HotChangeInductive ==
  ASSUME ~EvictMidBootstrap
  PROVE  Spec => []IInv
  <1>1. Init => IInv
    BY InitTyped, InitServer, InitClients DEF IInv
  <1>2. IInv /\ [Next]_vars => IInv'
    BY StepKeepsIInv
  <1>3. QED
    BY <1>1, <1>2, PTL DEF Spec

\* Type correctness of HotChangeLog.
THEOREM HotChangeTypes ==
  ASSUME ~EvictMidBootstrap
  PROVE  Spec => []TypeOK
  <1>1. IInv => TypeOK
    BY DEF IInv
  <1>2. QED
    BY <1>1, HotChangeInductive, PTL

\* No change is ever skipped: a hydrated copy that is out of date is still owed
\* a change past the client's position (processSyncPull, processSyncBootstrap,
\* applyHotSyncPage).
THEOREM NoChangeSkipped ==
  ASSUME ~EvictMidBootstrap
  PROVE  Spec => []CursorCoversState
  <1>1. IInv => CursorCoversState
    BY DEF IInv, TypeOK, CoverInv, CursorCovers, CursorCoversState
  <1>2. QED
    BY <1>1, HotChangeInductive, PTL

\* Commits are ordered by change id, because every writer holds the metadata
\* lock from before its first id to its commit
\* (lockWorkspaceSyncMetadataForHotChangesInExecutor).
THEOREM CommitsInIdOrder ==
  ASSUME ~EvictMidBootstrap
  PROVE  Spec => AppendsInOrder
  <1>1. IInv /\ [Next]_vars => [\A new \in log' \ log, old \in log : old.id < new.id]_vars
    <2> SUFFICES ASSUME IInv, Next, NEW new \in log' \ log, NEW old \in log
                 PROVE  old.id < new.id
      BY DEF vars, serverVars
    <2>1. PICK w \in Writers : Commit(w)
      <3>1. \A c \in Clients : ~ClientStep(c)
        BY ClientKeepsServer DEF serverVars
      <3>2. QED
        BY <3>1 DEF Next, WriterStep, Begin, Lock, Write, Abort
    <2>2. PICK e \in Written(w) : new = Change(draft[w][e], e)
      BY <2>1 DEF Commit
    <2>3. QED
      BY <2>2 DEF IInv, TypeOK, ServerInv, WritersOrdered, Written, Change
  <1>2. QED
    BY <1>1, HotChangeInductive, PTL DEF Spec, AppendsInOrder

-----------------------------------------------------------------------------
(* Refinement *)

\* A commit publishes; the other steps of a writer change nothing a reader of
\* the feed could see.
LEMMA WriterRefines ==
  ASSUME IInv, NEW w \in Writers, WriterStep(w)
  PROVE  Feed!Publish
  <1>1. UNCHANGED <<local, cursor, hydrated>>
    BY WriterPublishes DEF IInv, localVars
  <1>2. ASSUME NEW e \in Entities, rows'[e] # rows[e], NEW f \in Entities
        PROVE  rows[f] < rows'[e]
    <2>1. rows'[e] > 0 /\ \A ch \in log : ch.id < rows'[e]
      BY <1>2, WriterPublishes DEF IInv
    <2>2. rows[f] # 0 => Change(rows[f], f) \in log
      BY DEF IInv, ServerInv, RowsAreLatest
    <2>3. QED
      BY <2>1, <2>2 DEF Change
  <1>3. QED
    BY <1>1, <1>2 DEF Feed!Publish

\* A client learns when it applies an answer, forgets when it is evicted, and
\* stutters otherwise.
LEMMA ClientRefines ==
  ASSUME IInv, IInv', NEW c \in Clients, ClientStep(c)
  PROVE  Feed!Learn(c) \/ Feed!Forget(c) \/ UNCHANGED <<rows, localVars>>
  <1> USE DEF IInv, TypeOK
  <1>1. rows' = rows
    BY ClientKeepsServer DEF serverVars
  <1>2. CASE PullApply(c) \/ BootApplyPage(c) \/ BootApplyLast(c)
    <2>1. /\ local' = [local EXCEPT ![c] = Overwrite(c)]
          /\ hydrated[c] => hydrated'[c]
          /\ \A d \in Clients \ {c} : local'[d] = local[d] /\ cursor'[d] = cursor[d] /\ hydrated'[d] = hydrated[d]
      BY <1>2 DEF PullApply, BootApplyPage, BootApplyLast
    <2>2. \A e \in Entities : local'[c][e] \in local[c][e] .. rows[e]
      BY <2>1, OverwriteForward
    <2>3. hydrated'[c] => Feed!CoveredUpTo(c, rows, local'[c], cursor'[c])
      BY <1>1 DEF Feed!CoveredUpTo, CoverInv, CursorCovers, Sees
    <2>4. cursor[c] <= cursor'[c]
      BY <1>2 DEF PullApply, BootApplyPage, BootApplyLast, LoopInv, LoopShape, PositionsRise
    <2>5. QED
      BY <1>1, <2>1, <2>2, <2>3, <2>4 DEF Feed!Learn
  <1>3. CASE Evict(c)
    BY <1>1, <1>3 DEF Evict, Feed!Forget, Feed!Empty, Untouched
  <1>4. QED
    BY <1>1, <1>2, <1>3
    DEF ClientStep, RequestStep, PullBegin, PullSelect, PullLoad, PullAnswer,
        BootBegin, BootFloor, BootSelect, Drop, localVars

\* The hot-state lane implements the ordered feed, for every number of clients,
\* roots and writers and every page size.
THEOREM HotChangeLogImplementsFeed ==
  ASSUME ~EvictMidBootstrap
  PROVE  Spec => ImplementsFeed
  <1>1. Init => Feed!Init
    BY EntitiesAssumption DEF Init, Feed!Init, Feed!Empty, Untouched
  <1>2. IInv /\ IInv' /\ [Next]_vars => [Feed!Next]_(Feed!vars)
    <2> SUFFICES ASSUME IInv, IInv', [Next]_vars
                 PROVE  [Feed!Next]_(Feed!vars)
      OBVIOUS
    <2>1. ASSUME NEW w \in Writers, WriterStep(w) PROVE Feed!Next
      BY <2>1, WriterRefines DEF Feed!Next
    <2>2. ASSUME NEW c \in Clients, ClientStep(c) PROVE [Feed!Next]_(Feed!vars)
      BY <2>2, ClientRefines DEF Feed!Next, Feed!vars, localVars
    <2>3. CASE UNCHANGED vars
      BY <2>3 DEF vars, serverVars, localVars, Feed!vars
    <2>4. QED
      BY <2>1, <2>2, <2>3 DEF Next
  <1>3. QED
    BY <1>1, <1>2, HotChangeInductive, PTL DEF Spec, ImplementsFeed, Feed!Spec
=============================================================================
