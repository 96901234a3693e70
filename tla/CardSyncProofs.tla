---------------------------- MODULE CardSyncProofs ----------------------------
(***************************************************************************)
(* Proofs about CardSync: the inductive invariant, what the server keeps,  *)
(* what a device keeps, and that an operation takes effect once.           *)
(***************************************************************************)
EXTENDS CardSyncInvariant, TLAPS

-----------------------------------------------------------------------------
(* Snapshots *)

\* Last-writer-wins is a strict total order on snapshots, so a snapshot that
\* does not beat one does not beat anything above it.
LEMMA BeatenStaysBeaten ==
  ASSUME NEW u \in Version, NEW v \in Version, NEW w \in Version,
         ~Beats(u, v), v = w \/ Beats(w, v) \/ ~Beats(v, w)
  PROVE  ~Beats(u, w)
  BY DEF Beats, Version

\* A snapshot does not beat itself, nor one that beats it.
LEMMA BeatsAsymmetric ==
  ASSUME NEW v \in Version, NEW w \in Version, Beats(v, w)
  PROVE  ~Beats(w, v)
  BY DEF Beats, Version

\* The members of the record sets, and the records outside them.
LEMMA Constants ==
  /\ Seed \in Version
  /\ None \notin Version
  /\ Devices \subseteq Nat \ {0}
  /\ \A a \in Devices \union Agents : Skew[a] \in Int
  /\ (Web \union Android) \intersect Ios = {} /\ Web \intersect Android = {}
  /\ Ios \subseteq Devices /\ InstallationId \in [Ios -> Nat]
  /\ MaxEdits \in Nat /\ MaxFaults \in Nat
  BY ActorsAssumption, BoundsAssumption DEF Seed, None, Version, Devices

\* What a maker made before an edit, it has made after it.
LEMMA MadeStaysMade ==
  ASSUME NEW c, NEW v, now \in Nat, now' \in {now, now + 1}, MadeBy(c, v)
  PROVE  MadeBy(c, v)'
  BY DEF MadeBy

\* An edit makes a new snapshot, which no earlier one beats unless the clock of
\* its maker was ahead.
LEMMA SnapshotMade ==
  ASSUME TypeOK, NEW c \in Devices \union Agents, now < MaxEdits, now' = now + 1
  PROVE  \E s \in Version :
           /\ s = Snapshot(c)
           /\ MadeBy(c, s)'
           /\ \A v \in Version :
                /\ v.by \in Devices /\ MadeBy(v.by, v)
                /\ Skew[v.by] <= Skew[c]
                => ~Beats(v, s)
  <1>1. c \in Nat /\ Skew[c] \in Int /\ now \in Nat
    BY ActorsAssumption, Constants DEF Devices, TypeOK
  <1> DEFINE s == [at |-> now + 1 + Skew[c], by |-> c, op |-> now + 1]
  <1>2. PICK t : t = s
    OBVIOUS
  <1>3. t \in Version /\ t = Snapshot(c)
    BY <1>1, <1>2 DEF Snapshot, Version
  <1>4. t.by = c /\ t.op = now + 1 /\ t.at = now + 1 + Skew[c]
    BY <1>2
  <1>5. MadeBy(c, t)'
    BY <1>1, <1>4 DEF MadeBy
  <1>6. ASSUME NEW v \in Version, v.by \in Devices, MadeBy(v.by, v), Skew[v.by] <= Skew[c]
        PROVE  ~Beats(v, t)
    <2>1. v.op \in 1 .. now /\ v.at = v.op + Skew[v.by] /\ Skew[v.by] \in Int
      BY <1>6, Constants DEF MadeBy
    <2>2. v.at < t.at /\ v.at \in Int /\ t.at \in Int
      BY <1>1, <1>4, <1>6, <2>1
    <2>3. QED
      BY <2>2 DEF Beats
  <1>7. QED
    BY <1>3, <1>5, <1>6

\* Two snapshots of one maker with one operation id are one snapshot.
LEMMA OneName ==
  ASSUME NEW v \in Version, NEW w \in Version, v.by = w.by, v.op = w.op,
         MadeBy(v.by, v), MadeBy(w.by, w)
  PROVE  v = w
  BY DEF Version, MadeBy

-----------------------------------------------------------------------------
(* Type correctness *)

\* The initial state of every variable is of its type.
LEMMA InitTyped == Init => TypeOK
  BY Constants
  DEF Init, TypeOK, NoTx, NoRequest, NoEdit, Request, Phases, Version, Seed, None

\* What an app writes has its type.
LEMMA SaveTyped ==
  ASSUME TypeOK, NEW c \in Devices, NEW v \in Version, Save(c, v)
  PROVE  /\ local' \in [Devices -> Version] /\ outbox' \in [Devices -> SUBSET Version]
         /\ stamp' \in [Ios -> Nat] /\ written' \in [Ios -> Version]
  BY Constants DEF TypeOK, Save

\* An app's write shows in its copy and its outbox and in nobody else's.
LEMMA SaveShows ==
  ASSUME TypeOK, NEW c \in Devices, NEW v \in Version, Save(c, v)
  PROVE  /\ local'[c] = v /\ outbox'[c] = outbox[c] \union {v}
         /\ \A d \in Devices \ {c} : local'[d] = local[d] /\ outbox'[d] = outbox[d]
         /\ \A d \in Ios \ {c} : stamp'[d] = stamp[d] /\ written'[d] = written[d]
         /\ c \in Ios => written'[c] = v
  BY Constants DEF TypeOK, Save

\* Edits keep the types.
LEMMA EditTyped ==
  ASSUME TypeOK, NEW c \in Devices, EditStart(c) \/ EditPut(c) \/ EditQueue(c) \/ EditSave(c) \/ EditAtOnce(c)
  PROVE  TypeOK'
  <1>n. now < MaxEdits /\ now' = now + 1 => Snapshot(c) \in Version /\ now' \in 0 .. MaxEdits
    BY SnapshotMade, Constants DEF TypeOK
  <1> USE DEF TypeOK, serverVars, runVars, copyVars
  <1>1. CASE EditStart(c)
    BY <1>1, <1>n DEF EditStart
  <1>2. CASE EditPut(c)
    BY <1>2 DEF EditPut
  <1>3. CASE EditQueue(c)
    BY <1>3, Constants DEF EditQueue, NoEdit
  <1>4. CASE EditAtOnce(c)
    <2>1. PICK s \in Version : s = Snapshot(c)
      BY <1>4, <1>n DEF EditAtOnce
    <2>2. /\ local' \in [Devices -> Version] /\ outbox' \in [Devices -> SUBSET Version]
          /\ stamp' \in [Ios -> Nat] /\ written' \in [Ios -> Version]
      BY <1>4, <2>1, SaveTyped DEF EditAtOnce
    <2>3. QED
      BY <1>4, <1>n, <2>2 DEF EditAtOnce
  <1>5. CASE EditSave(c)
    <2>1. edit[c].v \in Version
      OBVIOUS
    <2>2. /\ local' \in [Devices -> Version] /\ outbox' \in [Devices -> SUBSET Version]
          /\ stamp' \in [Ios -> Nat] /\ written' \in [Ios -> Version]
      BY <1>5, <2>1, SaveTyped DEF EditSave
    <2>3. QED
      BY <1>5, <2>2, Constants DEF EditSave, NoEdit
  <1>6. QED
    BY <1>1, <1>2, <1>3, <1>4, <1>5

\* Agents keep the types.
LEMMA AgentTyped ==
  ASSUME TypeOK, NEW a \in Agents, AgentWrite(a)
  PROVE  TypeOK'
  <1>1. PICK s \in Version : s = Snapshot(a)
    BY SnapshotMade DEF AgentWrite
  <1>2. now' \in 0 .. MaxEdits
    BY Constants DEF AgentWrite, TypeOK
  <1>3. QED
    BY <1>1, <1>2 DEF AgentWrite, TypeOK, runVars, copyVars

\* The server keeps the types.
LEMMA ServerTyped ==
  ASSUME TypeOK, ServerStep
  PROVE  TypeOK'
  <1> USE DEF TypeOK, serverVars, runVars, copyVars
  <1>n. NoTx \in [req : Request \union {NoRequest}, todo : SUBSET Version, row : Version]
    BY Constants DEF NoTx
  <1>1. ASSUME NEW req \in net, PushReceive(req) PROVE TypeOK'
    <2>1. req.ops \subseteq Version
      BY DEF Request
    <2>2. QED
      BY <1>1, <2>1 DEF PushReceive
  <1>2. ASSUME NEW v \in tx.todo, PushApply(v) PROVE TypeOK'
    BY <1>2 DEF PushApply
  <1>3. CASE PushCommit
    <2>1. tx.req.ops \subseteq Version
      BY DEF Request, NoRequest
    <2>2. row' \in Version /\ change' \in Nat /\ ledger' \subseteq Version
      BY <1>3, <2>1 DEF PushCommit
    <2>3. phase' \in [Devices -> Phases] /\ acks' \in [Devices -> SUBSET Version]
      BY <1>3, <2>1 DEF PushCommit, Phases
    <2>4. QED
      BY <1>3, <1>n, <2>2, <2>3 DEF PushCommit
  <1>4. CASE PushAbort
    BY <1>4, <1>n, Constants DEF PushAbort
  <1>5. QED
    BY <1>1, <1>2, <1>3, <1>4 DEF ServerStep

\* A sync run keeps the types.
LEMMA RunTyped ==
  ASSUME TypeOK, NEW c \in Devices, DeviceStep(c),
         ~(EditStart(c) \/ EditPut(c) \/ EditQueue(c) \/ EditSave(c) \/ EditAtOnce(c))
  PROVE  TypeOK'
  <1> USE DEF TypeOK, serverVars, runVars, copyVars, Phases
  <1>1. CASE PushSend(c)
    <2>1. PICK ops \in SUBSET outbox[c] :
            LET req == [by |-> c, ops |-> ops, try |-> faults]
            IN /\ net' = net \union {req}
               /\ sent' = [sent EXCEPT ![c] = req]
      BY <1>1 DEF PushSend, Batches
    <2>2. [by |-> c, ops |-> ops, try |-> faults] \in Request
      BY <2>1, Constants DEF Request
    <2>3. net' \subseteq Request /\ sent' \in [Devices -> Request \union {NoRequest}]
      BY <2>1, <2>2
    <2>4. QED
      BY <1>1, <2>3 DEF PushSend
  <1>2. ASSUME NEW v \in acks[c], Ack(c, v) PROVE TypeOK'
    BY <1>2 DEF Ack
  <1>3. CASE PushNext(c)
    BY <1>3 DEF PushNext
  <1>4. CASE PushFail(c)
    <2>1. sent[c].ops \subseteq Version
      <3>1. sent[c] \in Request \union {NoRequest}
        OBVIOUS
      <3>2. QED
        BY <3>1 DEF Request, NoRequest
    <2>2. QED
      BY <1>4, <2>1, Constants DEF PushFail
  <1>5. CASE PullBegin(c)
    BY <1>5 DEF PullBegin
  <1>6. CASE PullSelect(c)
    BY <1>6 DEF PullSelect
  <1>7. CASE PullOverwrite(c)
    BY <1>7 DEF PullOverwrite
  <1>8. CASE PullMerge(c)
    <2>1. answer[c] # None => answer[c] \in Version /\ answer[c].by \in Nat
      BY DEF Version
    <2>2. local' \in [Devices -> Version] /\ stamp' \in [Ios -> Nat]
      BY <1>8, <2>1 DEF PullMerge, Takes
    <2>3. QED
      BY <1>8, <2>2 DEF PullMerge
  <1>9. CASE PullAdvance(c)
    BY <1>9 DEF PullAdvance
  <1>10. CASE Crash(c)
    BY <1>10, Constants DEF Crash, NoEdit
  <1>11. CASE PushOnce(c)
    BY <1>11 DEF PushOnce
  <1>12. CASE PullReplace(c)
    BY <1>12 DEF PullReplace
  <1>13. QED
    BY <1>1, <1>2, <1>3, <1>4, <1>5, <1>6, <1>7, <1>8, <1>9, <1>10, <1>11, <1>12 DEF DeviceStep

\* The types survive every step.
LEMMA StepTyped ==
  ASSUME TypeOK, Next
  PROVE  TypeOK'
  BY AgentTyped, ServerTyped, EditTyped, RunTyped DEF Next

\* Every snapshot in a typed state is a version.
LEMMA Versions ==
  ASSUME TypeOK
  PROVE  /\ now \in Nat
         /\ row \in Version
         /\ ledger \subseteq Version
         /\ tx.req.ops \subseteq Version
         /\ tx.todo \subseteq Version
         /\ tx.row \in Version
         /\ \A req \in net : req.by \in Devices /\ req.ops \subseteq Version
         /\ \A c \in Devices :
              /\ local[c] \in Version
              /\ outbox[c] \subseteq Version
              /\ sent[c].ops \subseteq Version
              /\ acks[c] \subseteq Version
              /\ edit[c].v \in Version
              /\ answer[c] \in Version \union {None}
         /\ \A c \in Ios : stamp[c] \in Nat /\ written[c] \in Version
  <1>1. ASSUME NEW r \in Request \union {NoRequest} PROVE r.ops \subseteq Version
    BY DEF Request, NoRequest
  <1>2. tx.req.ops \subseteq Version /\ \A c \in Devices : sent[c].ops \subseteq Version
    BY <1>1 DEF TypeOK
  <1>3. \A req \in net : req.by \in Devices /\ req.ops \subseteq Version
    BY DEF TypeOK, Request
  <1>4. now \in Nat
    BY Constants DEF TypeOK
  <1>5. QED
    BY <1>2, <1>3, <1>4 DEF TypeOK

-----------------------------------------------------------------------------
(* Where snapshots come from *)

\* A device keeps every snapshot under its maker's name.
LEMMA DeviceMade ==
  ASSUME TypeOK, SnapshotsMade, NEW c \in Devices, DeviceStep(c)
  PROVE  SnapshotsMade'
  <1> USE Versions DEF SnapshotsMade, MadeBy, serverVars, runVars, copyVars
  <1>1. CASE EditStart(c)
    <2>1. PICK s \in Version : s = Snapshot(c) /\ MadeBy(c, s)'
      BY <1>1, SnapshotMade DEF EditStart
    <2>2. edit' = [edit EXCEPT ![c] = [at |-> "started", v |-> s]]
      BY <1>1, <2>1 DEF EditStart
    <2>3. QED
      BY <1>1, <2>1, <2>2 DEF EditStart, TypeOK
  <1>2. CASE EditPut(c)
    BY <1>2 DEF EditPut, TypeOK, NoEdit
  <1>3. CASE EditQueue(c)
    BY <1>3 DEF EditQueue, TypeOK, NoEdit
  <1>4. CASE EditAtOnce(c)
    <2>1. PICK s \in Version : s = Snapshot(c) /\ MadeBy(c, s)'
      BY <1>4, SnapshotMade DEF EditAtOnce
    <2>2. outbox' = [outbox EXCEPT ![c] = @ \union {s}]
      BY <1>4, <2>1 DEF EditAtOnce, Save
    <2>3. QED
      BY <1>4, <2>1, <2>2 DEF EditAtOnce, TypeOK
  <1>5. CASE PushSend(c)
    <2>1. PICK ops \in SUBSET outbox[c] :
            LET r == [by |-> c, ops |-> ops, try |-> faults]
            IN /\ net' = net \union {r}
               /\ sent' = [sent EXCEPT ![c] = r]
      BY <1>5 DEF PushSend, Batches
    <2>2. PICK req : req = [by |-> c, ops |-> ops, try |-> faults]
                     /\ net' = net \union {req} /\ sent' = [sent EXCEPT ![c] = req]
      BY <2>1
    <2>3. req.by = c /\ req.ops \subseteq outbox[c]
      BY <2>1, <2>2
    <2>4. QED
      BY <1>5, <2>2, <2>3 DEF PushSend, TypeOK
  <1>6. ASSUME NEW v \in acks[c], Ack(c, v) PROVE SnapshotsMade'
    BY <1>6 DEF Ack, TypeOK
  <1>7. CASE PushNext(c)
    BY <1>7 DEF PushNext, TypeOK, NoRequest
  <1>8. CASE PushFail(c)
    BY <1>8 DEF PushFail, TypeOK, NoRequest
  <1>9. CASE PullBegin(c)
    BY <1>9 DEF PullBegin
  <1>10. CASE PullSelect(c)
    BY <1>10 DEF PullSelect
  <1>11. CASE PullOverwrite(c)
    BY <1>11 DEF PullOverwrite
  <1>12. CASE PullMerge(c)
    BY <1>12 DEF PullMerge
  <1>13. CASE PullAdvance(c)
    BY <1>13 DEF PullAdvance
  <1>14. CASE Crash(c)
    BY <1>14 DEF Crash, TypeOK, NoRequest, NoEdit
  <1>15. CASE EditSave(c)
    BY <1>15 DEF EditSave, Save, TypeOK, NoEdit
  <1>16. CASE PushOnce(c)
    BY <1>16 DEF PushOnce, TypeOK, NoRequest
  <1>17. CASE PullReplace(c)
    BY <1>17 DEF PullReplace
  <1>18. QED
    BY <1>1, <1>2, <1>3, <1>4, <1>5, <1>6, <1>7, <1>8, <1>9, <1>10,
       <1>11, <1>12, <1>13, <1>14, <1>15, <1>16, <1>17 DEF DeviceStep

\* So do the server and the agents.
LEMMA ServerMade ==
  ASSUME TypeOK, SnapshotsMade, ServerStep \/ \E a \in Agents : AgentWrite(a)
  PROVE  SnapshotsMade'
  <1> USE Versions DEF SnapshotsMade, MadeBy, runVars
  <1>1. ASSUME NEW a \in Agents, AgentWrite(a) PROVE SnapshotsMade'
    BY <1>1 DEF AgentWrite
  <1>2. ASSUME NEW req \in net, PushReceive(req) PROVE SnapshotsMade'
    BY <1>2 DEF PushReceive, TypeOK
  <1>3. ASSUME NEW v \in tx.todo, PushApply(v) PROVE SnapshotsMade'
    <2>1. tx # NoTx
      BY <1>3 DEF NoTx
    <2>2. tx'.req = tx.req
      BY <1>3 DEF PushApply, TypeOK
    <2>3. QED
      BY <1>3, <2>1, <2>2 DEF PushApply
  <1>4. CASE PushCommit
    <2>1. tx.req.by \in Devices
      BY <1>4 DEF PushCommit, Request
    <2>2. QED
      BY <1>4, <2>1 DEF PushCommit, NoTx, NoRequest
  <1>5. CASE PushAbort
    BY <1>5 DEF PushAbort, NoTx, NoRequest
  <1>6. QED
    BY <1>1, <1>2, <1>3, <1>4, <1>5 DEF ServerStep

\* No step of a device touches the server's state.
LEMMA ServerUntouched ==
  ASSUME NEW c \in Devices, DeviceStep(c)
  PROVE  /\ tx' = tx /\ row' = row
         /\ ledger' = ledger /\ change' = change
  BY DEF DeviceStep, EditStart, EditPut, EditQueue, EditSave, EditAtOnce, PushSend, Ack, PushOnce, PushNext,
         PushFail, PullBegin, PullSelect, PullOverwrite, PullReplace, PullMerge, PullAdvance, Crash,
         serverVars

\* A device only drops acknowledgements, and is only answered with the row.
LEMMA AnswersAndAcks ==
  ASSUME TypeOK, NEW c \in Devices, DeviceStep(c)
  PROVE  /\ \A d \in Devices : acks'[d] \subseteq acks[d]
         /\ \A d \in Devices : answer'[d] \in {answer[d], None, row}
  <1> USE DEF TypeOK, runVars
  <1>1. CASE EditStart(c) \/ EditPut(c) \/ EditQueue(c) \/ EditSave(c) \/ EditAtOnce(c)
    BY <1>1 DEF EditStart, EditPut, EditQueue, EditSave, EditAtOnce
  <1>2. CASE PushSend(c) \/ PushOnce(c) \/ PushNext(c) \/ PushFail(c) \/ \E v \in acks[c] : Ack(c, v)
    BY <1>2 DEF PushSend, PushOnce, PushNext, PushFail, Ack
  <1>3. CASE PullBegin(c) \/ PullSelect(c)
    BY <1>3 DEF PullBegin, PullSelect
  <1>4. CASE PullOverwrite(c) \/ PullReplace(c) \/ PullMerge(c) \/ PullAdvance(c) \/ Crash(c)
    BY <1>4 DEF PullOverwrite, PullReplace, PullMerge, PullAdvance, Crash
  <1>5. QED
    BY <1>1, <1>2, <1>3, <1>4 DEF DeviceStep

\* The part of a batch already processed never outruns its request.
LEMMA BatchStep ==
  ASSUME TypeOK, BatchSound, Next
  PROVE  BatchSound'
  <1> USE DEF BatchSound, serverVars, runVars
  <1>1. ASSUME NEW a \in Agents, AgentWrite(a) PROVE BatchSound'
    BY <1>1 DEF AgentWrite
  <1>2. ASSUME NEW req \in net, PushReceive(req) PROVE BatchSound'
    BY <1>2 DEF PushReceive
  <1>3. ASSUME NEW v \in tx.todo, PushApply(v) PROVE BatchSound'
    <2>1. tx # NoTx
      BY <1>3 DEF NoTx
    <2>2. /\ tx'.req = tx.req /\ tx'.todo = tx.todo \ {v}
          /\ tx'.row \in {v, tx.row}
          /\ tx'.row = tx.row \/ Fresh(v)
      BY <1>3 DEF PushApply, TypeOK
    <2>3. row' = row /\ ledger' = ledger
      BY <1>3 DEF PushApply
    <2>4. QED
      BY <1>3, <2>1, <2>2, <2>3 DEF Fresh
  <1>4. CASE PushCommit
    BY <1>4 DEF PushCommit, NoTx, NoRequest
  <1>5. CASE PushAbort
    BY <1>5 DEF PushAbort, NoTx, NoRequest
  <1>6. ASSUME NEW c \in Devices, DeviceStep(c) PROVE BatchSound'
    <2>1. tx' = tx /\ row' = row /\ ledger' = ledger
      BY <1>6, ServerUntouched
    <2>2. QED
      BY <2>1 DEF Fresh
  <1>7. QED
    BY <1>1, <1>2, <1>3, <1>4, <1>5, <1>6 DEF Next, ServerStep

\* A batch keeps the last of what it has processed, operation by operation.
LEMMA BatchLastStep ==
  ASSUME TypeOK, BatchSound, BatchHoldsLast, Next
  PROVE  BatchHoldsLast'
  <1> USE DEF BatchHoldsLast
  <1>1. ASSUME NEW a \in Agents, AgentWrite(a) PROVE BatchHoldsLast'
    BY <1>1 DEF AgentWrite
  <1>2. ASSUME NEW req \in net, PushReceive(req) PROVE BatchHoldsLast'
    <2>1. tx'.row = row /\ row' = row /\ tx'.req.ops \ tx'.todo = {}
      BY <1>2 DEF PushReceive
    <2>2. ~Beats(row, row)
      BY Versions DEF Beats, Version
    <2>3. QED
      BY <2>1, <2>2
  <1>3. ASSUME NEW v \in tx.todo, PushApply(v) PROVE BatchHoldsLast'
    <2>1. tx # NoTx /\ v \in Version /\ tx.row \in Version /\ row \in Version
          /\ tx.req.ops \subseteq Version
      BY <1>3, Versions DEF NoTx, BatchSound
    <2>2. /\ tx'.req = tx.req /\ tx'.todo = tx.todo \ {v}
          /\ tx'.row = IF Fresh(v) /\ Beats(v, tx.row) THEN v ELSE tx.row
      BY <1>3 DEF PushApply, TypeOK
    <2>3. row' = row /\ (\A o : Fresh(o)' = Fresh(o))
      BY <1>3 DEF PushApply, Fresh
    <2>4. ~Beats(v, v)
      BY <2>1 DEF Beats, Version
    <2>5. ASSUME NEW u \in {row} \union {o \in tx'.req.ops \ tx'.todo : Fresh(o)}
          PROVE  ~Beats(u, tx'.row)
      <3>1. CASE u = v
        BY <2>1, <2>2, <2>4, <2>5, <3>1 DEF BatchSound
      <3>2. CASE u # v
        <4>1. u \in Version /\ ~Beats(u, tx.row)
          BY <2>1, <2>2, <2>5, <3>2
        <4>2. QED
          BY <2>1, <2>2, <4>1, BeatenStaysBeaten
      <3>3. QED
        BY <3>1, <3>2
    <2>6. QED
      BY <2>3, <2>5
  <1>4. CASE PushCommit \/ PushAbort
    BY <1>4 DEF PushCommit, PushAbort
  <1>5. ASSUME NEW c \in Devices, DeviceStep(c) PROVE BatchHoldsLast'
    <2>1. tx' = tx /\ row' = row /\ ledger' = ledger
      BY <1>5, ServerUntouched
    <2>2. QED
      BY <2>1 DEF Fresh
  <1>6. QED
    BY <1>1, <1>2, <1>3, <1>4, <1>5 DEF Next, ServerStep

\* The ledger knows a snapshot that is not fresh: names stand for snapshots.
LEMMA StaleIsKnown ==
  ASSUME TypeOK, SnapshotsMade, NEW v \in tx.req.ops, ~Fresh(v), tx # NoTx
  PROVE  v \in ledger
  <1>1. PICK o \in ledger : o.by = v.by /\ o.op = v.op
    BY DEF Fresh
  <1>2. MadeBy(o.by, o) /\ MadeBy(v.by, v)
    BY DEF SnapshotsMade, MadeBy
  <1>3. QED
    BY <1>1, <1>2, OneName, Versions

\* Devices reach the row, the answers and the acknowledgements through the ledger.
LEMMA ThroughLedgerStep ==
  ASSUME TypeOK, SnapshotsMade, BatchSound, ThroughLedger, Next
  PROVE  ThroughLedger'
  <1> USE DEF ThroughLedger, runVars
  <1>n. None.by \notin Devices
    BY Constants DEF None
  <1>1. ASSUME NEW a \in Agents, AgentWrite(a) PROVE ThroughLedger'
    <2>1. row'.by \notin Devices
      BY <1>1, ActorsAssumption DEF AgentWrite, Snapshot
    <2>2. QED
      BY <1>1, <2>1 DEF AgentWrite
  <1>2. ASSUME NEW req \in net, PushReceive(req) PROVE ThroughLedger'
    BY <1>2 DEF PushReceive
  <1>3. ASSUME NEW v \in tx.todo, PushApply(v) PROVE ThroughLedger'
    BY <1>3 DEF PushApply
  <1>4. CASE PushCommit
    <2>1. ledger' = ledger \union {v \in tx.req.ops : Fresh(v)} /\ tx # NoTx /\ row' = tx.row
      BY <1>4 DEF PushCommit
    <2>2. tx.req.ops \subseteq ledger'
      BY <2>1, StaleIsKnown
    <2>3. row'.by \in Devices => row' \in ledger'
      BY <2>1, <2>2 DEF BatchSound
    <2>4. answer' = answer /\ \A d \in Devices : acks'[d] \in {acks[d], tx.req.ops}
      BY <1>4 DEF PushCommit, TypeOK
    <2>5. QED
      BY <2>1, <2>2, <2>3, <2>4
  <1>5. CASE PushAbort
    BY <1>5 DEF PushAbort
  <1>6. ASSUME NEW c \in Devices, DeviceStep(c) PROVE ThroughLedger'
    <2>1. row' = row /\ ledger' = ledger
      BY <1>6, ServerUntouched
    <2>2. /\ \A d \in Devices : acks'[d] \subseteq acks[d]
          /\ \A d \in Devices : answer'[d] \in {answer[d], None, row}
      BY <1>6, AnswersAndAcks
    <2>3. QED
      BY <1>n, <2>1, <2>2
  <1>7. QED
    BY <1>1, <1>2, <1>3, <1>4, <1>5, <1>6 DEF Next, ServerStep

-----------------------------------------------------------------------------
(* The last writer *)

\* The last writer is kept, and held operation by operation while a batch runs.
LEMMA LastWriterStep ==
  ASSUME TypeOK, SnapshotsMade, BatchSound, LastWriterHeld, Next
  PROVE  LastWriterHeld'
  <1> SUFFICES ASSUME AgentsNotBehind
               PROVE  /\ LastWriterKept'
                      /\ (tx # NoTx =>
                           \A v \in ledger \union (tx.req.ops \ tx.todo) : ~Beats(v, tx.row))'
    BY DEF LastWriterHeld, AgentsNotBehind
  <1> USE DEF LastWriterHeld, LastWriterKept
  <1>1. ASSUME NEW a \in Agents, AgentWrite(a)
        PROVE  LastWriterKept' /\ tx' = NoTx
    <2>1. PICK s \in Version :
            /\ s = Snapshot(a)
            /\ \A v \in Version :
                 v.by \in Devices /\ MadeBy(v.by, v) /\ Skew[v.by] <= Skew[a] => ~Beats(v, s)
      BY <1>1, SnapshotMade DEF AgentWrite
    <2>2. row' = s /\ ledger' = ledger /\ tx' = NoTx
      BY <1>1, <2>1 DEF AgentWrite
    <2>3. QED
      BY <2>1, <2>2, Versions DEF SnapshotsMade, AgentsNotBehind
  <1>2. ASSUME NEW req \in net, PushReceive(req)
        PROVE  /\ LastWriterKept'
               /\ \A v \in ledger' \union (tx'.req.ops \ tx'.todo) : ~Beats(v, tx'.row)
    BY <1>2 DEF PushReceive
  <1>3. ASSUME NEW v \in tx.todo, PushApply(v)
        PROVE  /\ LastWriterKept'
               /\ \A u \in ledger' \union (tx'.req.ops \ tx'.todo) : ~Beats(u, tx'.row)
    <2>1. /\ tx'.req = tx.req /\ tx'.todo = tx.todo \ {v}
          /\ tx'.row = IF Fresh(v) /\ Beats(v, tx.row) THEN v ELSE tx.row
          /\ row' = row /\ ledger' = ledger
      BY <1>3 DEF PushApply, TypeOK
    <2>2. tx # NoTx /\ v \in tx.req.ops
      BY <1>3 DEF NoTx, BatchSound
    <2>3. v \in Version /\ tx.row \in Version
      BY <2>2, Versions
    <2>4. ~Beats(v, tx'.row)
      <3>1. CASE Fresh(v)
        BY <2>1, <2>3, <3>1, BeatsAsymmetric DEF Beats, Version
      <3>2. CASE ~Fresh(v)
        BY <2>1, <2>2, <3>2, StaleIsKnown
      <3>3. QED
        BY <3>1, <3>2
    <2>5. ASSUME NEW u \in ledger \union (tx.req.ops \ tx.todo)
          PROVE  ~Beats(u, tx'.row)
      <3>1. u \in Version /\ ~Beats(u, tx.row)
        BY <2>2, Versions
      <3>2. QED
        BY <2>1, <2>3, <3>1, BeatenStaysBeaten
    <2>6. QED
      BY <2>1, <2>2, <2>4, <2>5
  <1>4. CASE PushCommit
    BY <1>4 DEF PushCommit, NoTx
  <1>5. CASE PushAbort
    BY <1>5 DEF PushAbort
  <1>6. ASSUME NEW c \in Devices, DeviceStep(c)
        PROVE  tx' = tx /\ row' = row /\ ledger' = ledger
    BY <1>6, ServerUntouched
  <1>7. QED
    BY <1>1, <1>2, <1>3, <1>4, <1>5, <1>6 DEF Next, ServerStep

-----------------------------------------------------------------------------
(* What a device shows *)

\* The server and the agents touch no copy, outbox or edit.
LEMMA DevicesUntouched ==
  ASSUME ServerStep \/ \E a \in Agents : AgentWrite(a)
  PROVE  /\ local' = local /\ stamp' = stamp /\ written' = written
         /\ outbox' = outbox /\ edit' = edit
         /\ ledger \subseteq ledger'
  BY DEF copyVars, ServerStep, AgentWrite, PushReceive, PushApply, PushCommit, PushAbort

\* No pull takes the iOS copy behind what the device wrote last.
LEMMA ShowsStep ==
  ASSUME TypeOK, IosShowsLastEdit, Next
  PROVE  IosShowsLastEdit'
  <1> USE DEF IosShowsLastEdit
  <1>1. CASE ServerStep \/ \E a \in Agents : AgentWrite(a)
    BY <1>1, DevicesUntouched
  <1>2. ASSUME NEW c \in Devices, DeviceStep(c) PROVE IosShowsLastEdit'
    <2>1. Ios \subseteq Devices /\ (c \in Web \union Android => c \notin Ios)
      BY Constants
    <2>2. ASSUME NEW v \in Version, Save(c, v) PROVE IosShowsLastEdit'
      <3>1. v.at <= v.at
        BY DEF Version
      <3>2. QED
        BY <2>1, <2>2, <3>1, SaveShows
    <2>3. CASE EditSave(c)
      BY <2>2, <2>3, Versions DEF EditSave
    <2>4. CASE EditAtOnce(c)
      BY <2>2, <2>4, SnapshotMade DEF EditAtOnce
    <2>5. CASE EditPut(c) \/ PullOverwrite(c) \/ PullReplace(c)
      <3>1. written' = written /\ \A d \in Ios : local'[d] = local[d]
        BY <2>1, <2>5 DEF EditPut, PullOverwrite, PullReplace, TypeOK
      <3>2. QED
        BY <3>1
    <2>6. CASE PullMerge(c)
      <3>1. c \in Ios /\ written' = written /\ \A d \in Ios \ {c} : local'[d] = local[d]
        BY <2>1, <2>6 DEF PullMerge, TypeOK
      <3>2. written[c].at \in Int /\ local[c].at \in Int /\ written[c].at <= local[c].at
        BY <2>1, <3>1, Versions DEF Version
      <3>3. local'[c] = IF Takes(c) THEN answer[c] ELSE local[c]
        BY <2>6 DEF PullMerge, TypeOK
      <3>4. ASSUME Takes(c) PROVE local[c].at <= answer[c].at /\ answer[c].at \in Int
        <4>1. [local[c] EXCEPT !.by = stamp[c]].at = local[c].at
          BY <2>1, <3>1, Versions DEF Version
        <4>2. ~(local[c].at > answer[c].at)
          BY <3>4, <4>1 DEF Takes, Beats
        <4>3. answer[c].at \in Int
          BY <3>4, Versions DEF Takes, Version
        <4>4. QED
          BY <3>2, <4>2, <4>3
      <3>5. written[c].at <= local'[c].at
        BY <3>2, <3>3, <3>4
      <3>6. QED
        BY <3>1, <3>5
    <2>7. CASE \/ EditStart(c) \/ EditQueue(c) \/ PushSend(c) \/ PushOnce(c) \/ PushNext(c) \/ PushFail(c)
               \/ \E v \in acks[c] : Ack(c, v)
               \/ PullBegin(c) \/ PullSelect(c) \/ PullAdvance(c) \/ Crash(c)
      BY <2>7
      DEF EditStart, EditQueue, PushSend, PushOnce, PushNext, PushFail, Ack, PullBegin, PullSelect,
          PullAdvance, Crash, copyVars
    <2>8. QED
      BY <1>2, <2>3, <2>4, <2>5, <2>6, <2>7 DEF DeviceStep
  <1>3. QED
    BY <1>1, <1>2 DEF Next

\* A device's own edit is never dropped on its way.
LEMMA TravelStep ==
  ASSUME TypeOK, SnapshotsMade, ThroughLedger, OwnEditsTravel, Next
  PROVE  OwnEditsTravel'
  <1> USE DEF OwnEditsTravel, copyVars
  <1>1. CASE ServerStep \/ \E a \in Agents : AgentWrite(a)
    BY <1>1, DevicesUntouched
  <1>2. ASSUME NEW c \in Devices, DeviceStep(c) PROVE OwnEditsTravel'
    <2>1. ledger' = ledger
      BY <1>2, ServerUntouched
    <2>2. \A d \in Devices : edit[d] = NoEdit /\ edit[d].v = local[d] => local[d].by # d
      BY Constants DEF NoEdit, Seed
    <2>3. CASE EditStart(c)
      <3>1. edit[c] = NoEdit
        BY <2>3 DEF EditStart, SnapshotsMade
      <3>2. QED
        BY <2>1, <2>2, <2>3, <3>1 DEF EditStart, TypeOK
    <2>4. CASE EditPut(c)
      BY <2>1, <2>4 DEF EditPut, TypeOK
    <2>5. CASE EditQueue(c)
      BY <2>1, <2>5 DEF EditQueue, TypeOK
    <2>6. CASE EditSave(c)
      <3>1. edit[c].v \in Version /\ Save(c, edit[c].v)
        BY <2>6, Versions DEF EditSave
      <3>2. \A d \in Devices \ {c} : edit'[d] = edit[d]
        BY <2>6 DEF EditSave, TypeOK
      <3>3. QED
        BY <2>1, <3>1, <3>2, SaveShows
    <2>14. CASE EditAtOnce(c)
      <3>1. PICK s \in Version : Save(c, s)
        BY <2>14, SnapshotMade DEF EditAtOnce
      <3>2. edit' = edit
        BY <2>14 DEF EditAtOnce
      <3>3. QED
        BY <2>1, <3>1, <3>2, SaveShows
    <2>7. CASE PushSend(c) \/ PushNext(c) \/ PullBegin(c) \/ PullSelect(c) \/ PullAdvance(c)
      BY <2>1, <2>7 DEF PushSend, PushNext, PullBegin, PullSelect, PullAdvance
    <2>8. ASSUME NEW v \in acks[c], Ack(c, v) PROVE OwnEditsTravel'
      <3>1. v \in ledger
        BY DEF ThroughLedger
      <3>2. QED
        BY <2>1, <2>8, <3>1 DEF Ack, TypeOK
    <2>9. CASE PushFail(c)
      BY <2>1, <2>9 DEF PushFail, TypeOK
    <2>10. CASE PushOnce(c)
      <3>1. acks[c] \subseteq ledger
        BY DEF ThroughLedger
      <3>2. QED
        BY <2>1, <2>10, <3>1 DEF PushOnce, TypeOK
    <2>11. CASE PullOverwrite(c) \/ PullReplace(c) \/ PullMerge(c)
      <3>1. /\ outbox' = outbox /\ edit' = edit
            /\ \A d \in Devices : d # c => local'[d] = local[d]
            /\ local'[c] \in {local[c], answer[c]}
        BY <2>11 DEF PullOverwrite, PullReplace, PullMerge, TypeOK
      <3>2. answer[c].by = c => answer[c] \in ledger
        BY DEF ThroughLedger
      <3>3. QED
        BY <2>1, <3>1, <3>2
    <2>12. CASE Crash(c)
      <3>1. /\ local' = local /\ outbox' = outbox
            /\ \A d \in Devices \ {c} : edit'[d] = edit[d]
            /\ edit[c].at = "put" => c \in Web /\ MidEditCrash
        BY <2>12 DEF Crash, TypeOK, SnapshotsMade
      <3>2. QED
        BY <2>1, <3>1
    <2>13. QED
      BY <1>2, <2>3, <2>4, <2>5, <2>6, <2>7, <2>8, <2>9, <2>10, <2>11, <2>12, <2>14
      DEF DeviceStep
  <1>3. QED
    BY <1>1, <1>2 DEF Next

-----------------------------------------------------------------------------
(* What a device has seen *)

\* The row never changes without a change.
LEMMA RowStep ==
  ASSUME TypeOK, Next
  PROVE  \/ row' = row /\ change' = change
         \/ change' = change + 1
  <1>1. CASE ServerStep \/ \E a \in Agents : AgentWrite(a)
    BY <1>1 DEF ServerStep, AgentWrite, PushReceive, PushApply, PushCommit, PushAbort
  <1>2. ASSUME NEW c \in Devices, DeviceStep(c) PROVE row' = row /\ change' = change
    BY <1>2, ServerUntouched
  <1>3. QED
    BY <1>1, <1>2 DEF Next

\* Server and agents leave every device in step: a row that moves comes with a
\* change beyond every cursor.
LEMMA ServerInStep ==
  ASSUME TypeOK, NEW c \in Devices, InStep(c), ServerStep \/ \E a \in Agents : AgentWrite(a),
         \/ row' = row /\ change' = change
         \/ change' = change + 1
  PROVE  InStep(c)'
  <1> USE DEF InStep
  <1>1. /\ local' = local /\ stamp' = stamp /\ cursor' = cursor
        /\ answer' = answer /\ upto' = upto
        /\ phase'[c] \in {phase[c], "answered"}
    BY DEF ServerStep, AgentWrite, PushReceive, PushApply, PushCommit, PushAbort, copyVars, runVars, TypeOK
  <1>2. cursor[c] \in Nat /\ upto[c] \in Nat /\ change \in Nat
    BY DEF TypeOK
  <1>3. CASE row' = row /\ change' = change
    BY <1>1, <1>3 DEF MayShow
  <1>4. CASE change' = change + 1
    BY <1>1, <1>2, <1>4
  <1>5. QED
    BY <1>3, <1>4

\* No step of its own puts a device out of step.
LEMMA DeviceInStep ==
  ASSUME TypeOK, SnapshotsMade, NEW c \in Devices, InStep(c), DeviceStep(c)
  PROVE  InStep(c)'
  <1> USE DEF InStep
  <1>1. c \in Ios => c \notin Web \union Android
    BY Constants
  <1>2. row' = row /\ change' = change
    BY ServerUntouched
  <1>3. /\ cursor[c] \in Nat /\ upto[c] \in Nat /\ change \in Nat
        /\ row \in Version /\ local[c] \in Version /\ None \notin Version
        /\ answer[c] \in Version \union {None}
    BY Versions, Constants DEF TypeOK
  <1>4. \A v : MayShow(c, v)' <=> MayShow(c, v)
    BY <1>2 DEF MayShow
  <1>5. ASSUME local'[c].by = c, cursor' = cursor, phase' = phase, upto' = upto, answer' = answer
        PROVE  InStep(c)'
    BY <1>2, <1>5 DEF MayShow
  <1>6. CASE EditPut(c)
    <2>1. edit[c].v.by = c
      BY <1>6 DEF EditPut, SnapshotsMade, MadeBy
    <2>2. QED
      BY <1>5, <1>6, <2>1 DEF EditPut, runVars, TypeOK
  <1>7. CASE EditSave(c)
    <2>1. edit[c].v \in Version /\ edit[c].v.by = c
      BY <1>7, Versions DEF EditSave, SnapshotsMade, MadeBy
    <2>2. QED
      BY <1>5, <1>7, <2>1, SaveShows DEF EditSave, runVars
  <1>8. CASE EditAtOnce(c)
    <2>1. PICK s \in Version : Save(c, s) /\ s.by = c
      BY <1>8, SnapshotMade DEF EditAtOnce, MadeBy
    <2>2. QED
      BY <1>5, <1>8, <2>1, SaveShows DEF EditAtOnce, runVars
  <1>9. CASE EditStart(c) \/ EditQueue(c) \/ \E v \in acks[c] : Ack(c, v)
    <2>1. /\ local' = local /\ stamp' = stamp /\ cursor' = cursor
          /\ phase' = phase /\ upto' = upto /\ answer' = answer
      BY <1>9 DEF EditStart, EditQueue, Ack, copyVars, runVars
    <2>2. QED
      BY <1>2, <1>4, <2>1
  <1>10. CASE PushSend(c) \/ PushOnce(c) \/ PushNext(c) \/ PushFail(c) \/ PullBegin(c) \/ Crash(c)
    <2>1. /\ local' = local /\ stamp' = stamp /\ cursor' = cursor
          /\ phase'[c] \in {"sent", "idle", "pull"}
      BY <1>10 DEF PushSend, PushOnce, PushNext, PushFail, PullBegin, Crash, copyVars, TypeOK
    <2>2. QED
      BY <1>2, <1>4, <2>1
  <1>11. CASE PullSelect(c)
    <2>1. /\ local' = local /\ stamp' = stamp /\ cursor' = cursor
          /\ phase'[c] = "pulled" /\ upto'[c] = change
          /\ answer'[c] = IF change > cursor[c] THEN row ELSE None
      BY <1>11 DEF PullSelect, copyVars, TypeOK
    <2>2. QED
      BY <1>2, <1>3, <1>4, <2>1
  <1>12. ASSUME phase[c] = "pulled", upto[c] = change, answer[c] # None
         PROVE  answer[c] = row /\ MayShow(c, answer[c])
    BY <1>12 DEF MayShow
  <1>13. ASSUME phase[c] = "pulled", upto[c] = change, answer[c] = None
         PROVE  MayShow(c, local[c])
    BY <1>3, <1>13
  <1>14. CASE PullOverwrite(c)
    <2>1. /\ phase[c] = "pulled" /\ phase'[c] = "idle" /\ cursor'[c] = upto[c] /\ c \notin Ios
          /\ local'[c] = IF answer[c] = None THEN local[c] ELSE answer[c]
      BY <1>1, <1>14 DEF PullOverwrite, TypeOK
    <2>2. QED
      BY <1>2, <1>4, <1>12, <1>13, <2>1
  <1>15. CASE PullReplace(c)
    <2>1. /\ phase[c] = "pulled" /\ phase'[c] = "merged" /\ cursor' = cursor /\ upto' = upto /\ c \notin Ios
          /\ local'[c] = IF answer[c] = None THEN local[c] ELSE answer[c]
      BY <1>1, <1>15 DEF PullReplace, TypeOK
    <2>2. cursor[c] = change => upto[c] = change
      BY <1>3, <2>1
    <2>3. QED
      BY <1>2, <1>4, <1>12, <1>13, <2>1, <2>2
  <1>16. CASE PullMerge(c)
    <2>1. /\ phase[c] = "pulled" /\ phase'[c] = "merged" /\ cursor' = cursor /\ upto' = upto /\ c \in Ios
          /\ local'[c] = IF Takes(c) THEN answer[c] ELSE local[c]
          /\ stamp'[c] = IF Takes(c) THEN answer[c].by ELSE stamp[c]
      BY <1>16 DEF PullMerge, TypeOK
    <2>2. cursor[c] = change => upto[c] = change
      BY <1>3, <2>1
    <2>3. ASSUME upto[c] = change, ~Takes(c), answer[c] # None PROVE MayShow(c, local[c])
      <3>1. Beats([local[c] EXCEPT !.by = stamp[c]], row)
        BY <1>12, <2>1, <2>3 DEF Takes
      <3>2. local[c].by # c => [local[c] EXCEPT !.by = stamp[c]] = local[c]
        BY <1>3, <2>1 DEF Version
      <3>3. QED
        BY <2>1, <3>1, <3>2 DEF MayShow
    <2>4. upto[c] = change => MayShow(c, local'[c])
      BY <1>12, <1>13, <2>1, <2>3 DEF Takes
    <2>5. local'[c].by # c => stamp'[c] = local'[c].by
      BY <2>1
    <2>6. QED
      BY <1>2, <1>4, <2>1, <2>2, <2>4, <2>5
  <1>17. CASE PullAdvance(c)
    <2>1. /\ local' = local /\ stamp' = stamp /\ phase[c] = "merged"
          /\ phase'[c] = "idle" /\ cursor'[c] = upto[c]
      BY <1>17 DEF PullAdvance, copyVars, TypeOK
    <2>2. QED
      BY <1>2, <1>4, <2>1
  <1>18. QED
    BY <1>6, <1>7, <1>8, <1>9, <1>10, <1>11, <1>14, <1>15, <1>16, <1>17 DEF DeviceStep

\* No step of another device touches it.
LEMMA OthersInStep ==
  ASSUME TypeOK, NEW c \in Devices, InStep(c), NEW d \in Devices, d # c, DeviceStep(d)
  PROVE  InStep(c)'
  <1>1. row' = row /\ change' = change
    BY ServerUntouched
  <1>2. /\ local'[c] = local[c] /\ (c \in Ios => stamp'[c] = stamp[c]) /\ cursor'[c] = cursor[c]
        /\ phase'[c] = phase[c] /\ answer'[c] = answer[c] /\ upto'[c] = upto[c]
    <2> USE DEF TypeOK, copyVars, runVars
    <2>1. CASE EditStart(d) \/ EditPut(d) \/ EditQueue(d)
      BY <2>1 DEF EditStart, EditPut, EditQueue
    <2>2. CASE EditSave(d) \/ EditAtOnce(d)
      <3>1. PICK v \in Version : Save(d, v)
        BY <2>2, SnapshotMade, Versions DEF EditSave, EditAtOnce
      <3>2. QED
        BY <2>2, <3>1, SaveShows DEF EditSave, EditAtOnce
    <2>3. CASE PushSend(d) \/ PushOnce(d) \/ PushNext(d) \/ PushFail(d) \/ \E v \in acks[d] : Ack(d, v)
      BY <2>3 DEF PushSend, PushOnce, PushNext, PushFail, Ack
    <2>4. CASE PullBegin(d) \/ PullSelect(d) \/ PullOverwrite(d) \/ PullReplace(d) \/ PullMerge(d)
      BY <2>4 DEF PullBegin, PullSelect, PullOverwrite, PullReplace, PullMerge
    <2>5. CASE PullAdvance(d) \/ Crash(d)
      BY <2>5 DEF PullAdvance, Crash
    <2>6. QED
      BY <2>1, <2>2, <2>3, <2>4, <2>5 DEF DeviceStep
  <1>3. QED
    BY <1>1, <1>2 DEF InStep, MayShow

\* So every device keeps in step.
LEMMA AllInStepStep ==
  ASSUME TypeOK, SnapshotsMade, AllInStep, Next
  PROVE  AllInStep'
  <1>1. \/ row' = row /\ change' = change
        \/ change' = change + 1
    BY RowStep
  <1>2. ASSUME NEW c \in Devices PROVE InStep(c)'
    <2>1. InStep(c)
      BY DEF AllInStep
    <2>2. CASE ServerStep \/ \E a \in Agents : AgentWrite(a)
      BY <1>1, <2>1, <2>2, ServerInStep
    <2>3. CASE DeviceStep(c)
      BY <2>1, <2>3, DeviceInStep
    <2>4. ASSUME NEW d \in Devices, d # c, DeviceStep(d) PROVE InStep(c)'
      BY <2>1, <2>4, OthersInStep
    <2>5. QED
      BY <2>2, <2>3, <2>4 DEF Next
  <1>3. QED
    BY <1>2 DEF AllInStep

-----------------------------------------------------------------------------
(* The theorems *)

\* The initial states satisfy the inductive invariant.
LEMMA InitInvariant == Init => IInv
  <1> SUFFICES ASSUME Init PROVE IInv
    OBVIOUS
  <1>1. TypeOK
    BY InitTyped
  <1>2. \A c \in Devices : c # 0
    BY Constants
  <1>3. SnapshotsMade /\ BatchSound /\ BatchHoldsLast /\ ThroughLedger
    BY <1>2 DEF Init, SnapshotsMade, BatchSound, BatchHoldsLast, ThroughLedger, NoTx, NoRequest, NoEdit, Seed, None
  <1>4. LastWriterHeld /\ IosShowsLastEdit
    BY DEF Init, LastWriterHeld, LastWriterKept, IosShowsLastEdit, Devices, Seed
  <1>5. OwnEditsTravel
    BY <1>2 DEF Init, OwnEditsTravel, Seed
  <1>6. AllInStep
    BY DEF Init, AllInStep, InStep, MayShow, Seed
  <1>7. QED
    BY <1>1, <1>3, <1>4, <1>5, <1>6 DEF IInv

\* A step that changes nothing keeps the invariant.
LEMMA StutterInvariant ==
  ASSUME IInv, UNCHANGED vars
  PROVE  IInv'
  BY DEF vars, serverVars, copyVars, runVars, IInv, TypeOK, SnapshotsMade, MadeBy, BatchSound, BatchHoldsLast, Fresh,
         ThroughLedger, LastWriterHeld, AgentsNotBehind, LastWriterKept,
         IosShowsLastEdit, OwnEditsTravel, AllInStep, InStep, MayShow

\* Every step keeps it.
LEMMA StepInvariant ==
  ASSUME IInv, Next
  PROVE  IInv'
  <1> USE DEF IInv
  <1>1. TypeOK'
    BY StepTyped
  <1>2. SnapshotsMade'
    BY DeviceMade, ServerMade DEF Next
  <1>3. BatchSound' /\ BatchHoldsLast' /\ ThroughLedger'
    BY BatchStep, BatchLastStep, ThroughLedgerStep
  <1>4. LastWriterHeld' /\ IosShowsLastEdit'
    BY LastWriterStep, ShowsStep
  <1>5. OwnEditsTravel'
    BY TravelStep
  <1>6. AllInStep'
    BY AllInStepStep
  <1>7. QED
    BY <1>1, <1>2, <1>3, <1>4, <1>5, <1>6

\* The inductive invariant holds in every reachable state.
THEOREM CardSyncInductive == Spec => []IInv
  <1>1. IInv /\ [Next]_vars => IInv'
    BY StepInvariant, StutterInvariant
  <1>2. QED
    BY <1>1, InitInvariant, PTL DEF Spec

\* Every variable keeps its type, for any number of devices and any clocks.
THEOREM CardSyncTypes == Spec => []TypeOK
  <1>1. IInv => TypeOK
    BY DEF IInv
  <1>2. QED
    BY <1>1, CardSyncInductive, PTL

\* If no agent's clock is behind a device's, no pushed snapshot ever beats the
\* row: whatever the order, the delays and the repetitions of pushes
\* (insertAppliedOperation, incomingLwwMetadataWins).
THEOREM LastWriterIsKept ==
  ASSUME AgentsNotBehind
  PROVE  Spec => []LastWriterKept
  <1>1. IInv => LastWriterKept
    BY DEF IInv, LastWriterHeld
  <1>2. QED
    BY <1>1, CardSyncInductive, PTL

\* With any clocks, an operation puts its snapshot in the row once: not when it
\* is repeated, however late, and not over an agent's write.
THEOREM EffectsHappenOnce == Spec => AppliedOnce
  <1>1. ASSUME IInv, Next, NEW v \in ledger, row' = v PROVE row = v
    <2>1. CASE \E a \in Agents : AgentWrite(a)
      <3>1. v.by \in Devices
        BY <1>1 DEF IInv, SnapshotsMade
      <3>2. row'.by \notin Devices
        BY <2>1, ActorsAssumption DEF AgentWrite, Snapshot
      <3>3. QED
        BY <1>1, <3>1, <3>2
    <2>2. CASE PushCommit
      <3>1. tx # NoTx /\ row' = tx.row
        BY <2>2 DEF PushCommit
      <3>2. row # v => Fresh(v)
        BY <1>1, <3>1 DEF IInv, BatchSound
      <3>3. QED
        BY <1>1, <3>2 DEF Fresh
    <2>3. CASE ~PushCommit /\ ServerStep
      BY <1>1, <2>3 DEF ServerStep, PushReceive, PushApply, PushAbort
    <2>4. CASE \E c \in Devices : DeviceStep(c)
      BY <1>1, <2>4, ServerUntouched
    <2>5. QED
      BY <1>1, <2>1, <2>2, <2>3, <2>4 DEF Next
  <1>2. IInv /\ [Next]_vars => [\A v \in ledger : row' = v => row = v]_vars
    BY <1>1
  <1>3. QED
    BY <1>2, CardSyncInductive, PTL DEF Spec, AppliedOnce

\* With any clocks the server implements the register: a batch is one step in
\* which each of its operations counts once, and only an agent's write puts the
\* card behind a snapshot that was there before.
THEOREM CardSyncImplementsRegister == Spec => ImplementsRegister
  <1>1. Init => Register!Init
    BY DEF Init, Register!Init
  <1>2. ASSUME IInv, Next PROVE [Register!Next]_Register!vars
    <2>1. ASSUME NEW a \in Agents, AgentWrite(a) PROVE Register!Replace
      <3>1. row'.by = a /\ ledger' = ledger
        BY <2>1 DEF AgentWrite, Snapshot
      <3>2. \A v \in ledger : v.by \in Devices
        BY <1>2 DEF IInv, SnapshotsMade
      <3>3. QED
        BY <3>1, <3>2, ActorsAssumption DEF Register!Replace
    <2>2. CASE PushCommit
      <3>1. /\ tx # NoTx /\ tx.todo = {} /\ row' = tx.row
            /\ ledger' = ledger \union {v \in tx.req.ops : Fresh(v)}
        BY <2>2 DEF PushCommit
      <3>2. ledger' \ ledger = {v \in tx.req.ops \ tx.todo : Fresh(v)}
        BY <3>1 DEF Fresh
      <3>3. \A v, w : Register!Later(v, w) <=> Beats(v, w)
        BY DEF Register!Later, Beats
      <3>4. row' \in {row} \union (ledger' \ ledger)
        BY <1>2, <3>1, <3>2 DEF IInv, BatchSound
      <3>5. \A v \in {row} \union (ledger' \ ledger) : ~Register!Later(v, row')
        BY <1>2, <3>1, <3>2, <3>3 DEF IInv, BatchHoldsLast
      <3>6. QED
        BY <3>1, <3>4, <3>5 DEF Register!Next, Register!Absorb
    <2>3. CASE ~PushCommit /\ ServerStep
      BY <2>3 DEF ServerStep, PushReceive, PushApply, PushAbort, Register!vars
    <2>4. CASE \E c \in Devices : DeviceStep(c)
      BY <2>4, ServerUntouched DEF Register!vars
    <2>5. QED
      BY <1>2, <2>1, <2>2, <2>3, <2>4 DEF Next, Register!Next
  <1>3. UNCHANGED vars => UNCHANGED Register!vars
    BY DEF vars, serverVars, Register!vars
  <1>4. IInv /\ [Next]_vars => [Register!Next]_Register!vars
    BY <1>2, <1>3
  <1>5. QED
    BY <1>1, <1>4, CardSyncInductive, PTL DEF Spec, ImplementsRegister, Register!Spec

\* An app's own edit stays on its way until the server has processed it, and so
\* does a web page's if no page closes inside an edit.
THEOREM OwnEditsAlwaysTravel == Spec => []OwnEditsTravel
  <1>1. IInv => OwnEditsTravel
    BY DEF IInv
  <1>2. QED
    BY <1>1, CardSyncInductive, PTL

\* With any clocks, no pull puts an iOS copy behind the edit the device wrote last
\* (SyncApplier merges by LWW in one transaction).
THEOREM IosAlwaysShowsLastEdit == Spec => []IosShowsLastEdit
  <1>1. IInv => IosShowsLastEdit
    BY DEF IInv
  <1>2. QED
    BY <1>1, CardSyncInductive, PTL

\* With any clocks and any order of installation ids, a device whose cursor has
\* reached the last change has the row, an edit of its own or, on iOS, a snapshot
\* that beats the row: no cursor passes a change that the copy did not take.
THEOREM WhoIsCaughtUpShowsTheRow == Spec => []CaughtUpShowsRow
  <1>1. IInv => CaughtUpShowsRow
    BY DEF IInv, AllInStep, InStep, MayShow, CaughtUpShowsRow
  <1>2. QED
    BY <1>1, CardSyncInductive, PTL
=============================================================================
