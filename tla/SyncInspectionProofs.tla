------------------------ MODULE SyncInspectionProofs ------------------------
(***************************************************************************)
(* Proofs about SyncInspection, for every set of items, batches and        *)
(* finishes and every combination of faults: the sync endpoint implements  *)
(* ItemLedger, owners are stored, and a finish is complete and final.      *)
(***************************************************************************)
EXTENDS SyncInspection, FiniteSetTheorems, TLAPS

-----------------------------------------------------------------------------
(* The inductive invariant.                                                *)

Reported(x, r) == {i \in Items : x.result[i] = r}

\* The owner of i, if it has one, is among S.
OwnerAmong(i, S) == i \in Children /\ ownerOf[i] # NoItem => ownerOf[i] \in S

\* What the request b may be in: its uncommitted rows are the items it will
\* report as accepted, nobody else has them, and each has its owner.
BatchOK(b, x) ==
    /\ x.pc \in {"idle", "reply"} => x.mine = {}
    /\ x.pc = "insert" => x.item \in x.todo /\ OwnerAmong(x.item, Committed \cup x.mine)
    /\ \A i \in x.todo : x.result[i] = "none"
    /\ x.pc \in {"next", "insert"} => x.mine = Reported(x, "accepted")
    /\ Reported(x, "duplicate") \subseteq Committed
    /\ x.mine \cap Committed = {}
    /\ \A c \in Batches \ {b} : x.mine \cap batch[c].mine = {}
    /\ x.known \subseteq Committed \cup x.mine
    /\ \A i \in x.mine : OwnerAmong(i, Committed \cup x.mine)
    /\ \A f \in Finishers : finish[f].pc # "idle" =>
          \A p \in x.mine \cap Points : ownerOf[p] # finish[f].session

\* A finish that has the row's lock is alone with a session in progress.
FinishOK(f, y) == y.pc # "idle" =>
    /\ y.session \in Inspections
    /\ session[y.session].status = "IN_PROGRESS"
    /\ \A g \in Finishers \ {f} : finish[g].pc # "idle" => finish[g].session # y.session
    /\ \A b \in Batches : \A p \in batch[b].mine \cap Points : ownerOf[p] # y.session
    /\ y.pc = "commit" =>
          y.row.status # "ABSENT" /\ y.row.count = Cardinality(PointsOf(y.session))

IInv ==
    /\ TypeOK
    /\ \A b \in Batches : BatchOK(b, batch[b])
    /\ \A f \in Finishers : FinishOK(f, finish[f])
    /\ OwnersAreStored

-----------------------------------------------------------------------------
(* Frames.                                                                 *)

\* A step of one request that commits nothing: its new state has to fit.
LEMMA GoStep ==
    ASSUME IInv, NEW b \in Batches, NEW s \in BatchStates, Go(b, s),
           acked' \in SUBSET Items, sent' \in Nat, BatchOK(b, s)
    PROVE  IInv'
<1>1. /\ session' = session /\ stored' = stored /\ deleted' = deleted /\ finish' = finish
      /\ Committed' = Committed
      /\ batch' = [batch EXCEPT ![b] = s]
  BY DEF Go, rowVars, Committed
<1>2. /\ batch'[b] = s
      /\ \A c \in Batches \ {b} : batch'[c] = batch[c]
  BY <1>1 DEF IInv, TypeOK
<1>3. TypeOK'
  BY <1>1 DEF IInv, TypeOK
<1>4. ASSUME NEW c \in Batches PROVE BatchOK(c, batch[c])'
  <2>1. CASE c = b
    BY <1>1, <1>2, <2>1 DEF BatchOK, Reported, OwnerAmong
  <2>2. CASE c # b
    <3>1. BatchOK(c, batch[c])
      BY DEF IInv
    <3>2. s.mine \cap batch[c].mine = {}
      BY <2>2 DEF BatchOK
    <3>3. \A d \in Batches \ {c} : batch[c].mine \cap batch'[d].mine = {}
      BY <1>2, <2>2, <3>1, <3>2 DEF BatchOK
    <3> QED
      BY <1>1, <1>2, <2>2, <3>1, <3>3 DEF BatchOK, Reported, OwnerAmong
  <2> QED
    BY <2>1, <2>2
<1>5. ASSUME NEW f \in Finishers PROVE FinishOK(f, finish[f])'
  <2>1. FinishOK(f, finish[f])
    BY DEF IInv
  <2>2. finish[f].pc # "idle" =>
           \A c \in Batches : \A p \in batch'[c].mine \cap Points : ownerOf[p] # finish[f].session
    BY <1>2, <2>1 DEF FinishOK, BatchOK
  <2> QED
    BY <1>1, <2>1, <2>2 DEF FinishOK, PointsOf
<1>6. OwnersAreStored'
  BY <1>1 DEF IInv, OwnersAreStored
<1> QED
  BY <1>3, <1>4, <1>5, <1>6 DEF IInv

\* A record that differs from batch[b] in where the request stands fits again.
LEMMA RejectStep ==
    ASSUME IInv, NEW b \in Batches, NEW i \in batch[b].todo, NEW why \in Reasons,
           batch[b].pc \in {"next", "insert"},
           reject(b, i, why), acked' = acked, sent' = sent
    PROVE  IInv'
<1> DEFINE s == [batch[b] EXCEPT !.pc = "next", !.item = NoItem, !.todo = @ \ {i}, !.result[i] = why]
<1>1. batch[b] \in BatchStates /\ BatchOK(b, batch[b]) /\ i \in Items
  BY DEF IInv, TypeOK, BatchStates
<1>2. /\ s \in BatchStates
      /\ s.pc = "next" /\ s.todo = batch[b].todo \ {i} /\ s.mine = batch[b].mine
      /\ s.known = batch[b].known
      /\ s.result = [batch[b].result EXCEPT ![i] = why]
  BY <1>1 DEF BatchStates, Results
<1>3. batch[b].result[i] = "none"
  BY <1>1 DEF BatchOK
<1>4. \A r \in {"accepted", "duplicate"} : Reported(s, r) = Reported(batch[b], r)
  BY <1>1, <1>2, <1>3 DEF Reported, BatchStates, Reasons
<1>5. \A j \in s.todo : s.result[j] = "none"
  BY <1>1, <1>2 DEF BatchOK, BatchStates
<1>6. BatchOK(b, s)
  BY <1>1, <1>2, <1>4, <1>5 DEF BatchOK
<1> HIDE DEF s
<1>7. Go(b, s)
  BY DEF reject, s
<1>8. acked' \in SUBSET Items /\ sent' \in Nat
  BY DEF IInv, TypeOK
<1> QED
  BY <1>2, <1>6, <1>7, <1>8, GoStep

\* An item enters its savepoint once its owner is resolved.
LEMMA EnterStep ==
    ASSUME IInv, NEW b \in Batches, NEW i \in batch[b].todo,
           batch[b].pc = "next", OwnerAmong(i, Committed \cup batch[b].known),
           Enter(b, i), acked' = acked, sent' = sent
    PROVE  IInv'
<1> DEFINE s == [batch[b] EXCEPT !.pc = "insert", !.item = i]
<1>1. batch[b] \in BatchStates /\ BatchOK(b, batch[b]) /\ i \in Items
  BY DEF IInv, TypeOK, BatchStates
<1>2. /\ s \in BatchStates
      /\ s.pc = "insert" /\ s.item = i /\ s.todo = batch[b].todo /\ s.mine = batch[b].mine
      /\ s.known = batch[b].known /\ s.result = batch[b].result
  BY <1>1 DEF BatchStates
<1>3. OwnerAmong(i, Committed \cup s.mine)
  BY <1>1, <1>2 DEF BatchOK, OwnerAmong
<1>4. \A r \in {"accepted", "duplicate"} : Reported(s, r) = Reported(batch[b], r)
  BY <1>2 DEF Reported
<1>5. BatchOK(b, s)
  BY <1>1, <1>2, <1>3, <1>4 DEF BatchOK
<1> HIDE DEF s
<1>6. Go(b, s)
  BY DEF Enter, s
<1>7. acked' \in SUBSET Items /\ sent' \in Nat
  BY DEF IInv, TypeOK
<1> QED
  BY <1>2, <1>5, <1>6, <1>7, GoStep

\* The items of a batch are looked at once the items they may belong to are.
LEMMA ResolveStep ==
    ASSUME SyncAssumption, IInv, NEW b \in Batches, NEW i \in Items,
           \/ upsertInspection(b, i) \/ upsertTrajectoryPoint(b, i)
           \/ upsertProblem(b, i) \/ upsertMedia(b, i)
    PROVE  IInv'
<1>1. i \in batch[b].todo /\ batch[b].pc = "next" /\ acked' = acked /\ sent' = sent
  BY DEF upsertInspection, upsertTrajectoryPoint, upsertProblem, upsertMedia, Process
<1>2. \/ \E why \in Reasons : reject(b, i, why)
      \/ Enter(b, i) /\ OwnerAmong(i, Committed \cup batch[b].known)
  <2>1. CASE upsertInspection(b, i)
    BY <2>1 DEF upsertInspection, SyncAssumption, OwnerAmong
  <2>2. CASE upsertTrajectoryPoint(b, i)
    BY <2>2 DEF upsertTrajectoryPoint, Resolved, Live, OwnerAmong, Reasons
  <2>3. CASE upsertProblem(b, i)
    BY <2>3 DEF upsertProblem, Resolved, Live, OwnerAmong, Reasons
  <2>4. CASE upsertMedia(b, i)
    BY <2>4 DEF upsertMedia, Resolved, Live, OwnerAmong, Reasons
  <2> QED
    BY <2>1, <2>2, <2>3, <2>4
<1>3. CASE Enter(b, i) /\ OwnerAmong(i, Committed \cup batch[b].known)
  BY <1>1, <1>3, EnterStep
<1>4. CASE \E why \in Reasons : reject(b, i, why)
  BY <1>1, <1>4, RejectStep
<1> QED
  BY <1>2, <1>3, <1>4

\* The insert: a new row is the batch's own, a row that is there a duplicate.
LEMMA InsertStep ==
    ASSUME SyncAssumption, IInv, NEW b \in Batches, upsertReturningID(b)
    PROVE  IInv'
<1> DEFINE i == batch[b].item
<1>1. /\ batch[b] \in BatchStates /\ BatchOK(b, batch[b])
      /\ batch[b].pc = "insert" /\ i \in batch[b].todo /\ i \in Items
      /\ batch[b].result[i] = "none" /\ i \notin batch[b].mine
      /\ acked' = acked /\ sent' = sent
  <2>1. /\ batch[b] \in BatchStates /\ BatchOK(b, batch[b])
        /\ batch[b].pc = "insert" /\ acked' = acked /\ sent' = sent
    BY DEF IInv, TypeOK, upsertReturningID
  <2>2. i \in batch[b].todo /\ batch[b].result[i] = "none"
    BY <2>1 DEF BatchOK
  <2>3. i \in Items
    BY <2>1, <2>2 DEF BatchStates
  <2>4. i \notin batch[b].mine
    BY <2>1, <2>2 DEF BatchOK, Reported
  <2> QED
    BY <2>1, <2>2, <2>3, <2>4
<1>2. CASE \E why \in Reasons : reject(b, i, why)
  BY <1>1, <1>2, RejectStep
<1>3. ASSUME NEW inserted \in BOOLEAN, acceptedOrDuplicate(b, i, inserted),
             ~inserted => i \in Committed,
             inserted => /\ i \notin Committed
                         /\ \A c \in Batches \ {b} : i \notin batch[c].mine
                         /\ ~KeyWaits(i)
      PROVE IInv'
  <2> DEFINE s == [batch[b] EXCEPT
                      !.pc = "next", !.item = NoItem, !.todo = @ \ {i},
                      !.result[i] = IF inserted THEN "accepted" ELSE "duplicate",
                      !.mine = IF inserted THEN @ \cup {i} ELSE @,
                      !.known = @ \cup ({i} \cap (Inspections \cup Problems))]
  <2>1. /\ s \in BatchStates
        /\ s.pc = "next" /\ s.todo = batch[b].todo \ {i}
        /\ s.mine = IF inserted THEN batch[b].mine \cup {i} ELSE batch[b].mine
        /\ s.known = batch[b].known \cup ({i} \cap (Inspections \cup Problems))
        /\ s.result = [batch[b].result EXCEPT ![i] = IF inserted THEN "accepted" ELSE "duplicate"]
    BY <1>1 DEF BatchStates, Results
  <2>2. Go(b, s)
    BY <1>3 DEF acceptedOrDuplicate
  <2> HIDE DEF s
  <2>3. \A j \in s.todo : s.result[j] = "none"
    BY <1>1, <2>1 DEF BatchOK, BatchStates
  <2>4. /\ Reported(s, "accepted") = IF inserted THEN Reported(batch[b], "accepted") \cup {i}
                                                 ELSE Reported(batch[b], "accepted")
        /\ Reported(s, "duplicate") = IF inserted THEN Reported(batch[b], "duplicate")
                                                  ELSE Reported(batch[b], "duplicate") \cup {i}
    BY <1>1, <2>1 DEF Reported, BatchStates
  <2>5. s.known \subseteq Committed \cup s.mine
    BY <1>1, <1>3, <2>1 DEF BatchOK
  <2>6. \A j \in s.mine : OwnerAmong(j, Committed \cup s.mine)
    BY <1>1, <2>1 DEF BatchOK, OwnerAmong
  <2>7. \A f \in Finishers : finish[f].pc # "idle" =>
            \A p \in s.mine \cap Points : ownerOf[p] # finish[f].session
    BY <1>1, <1>3, <2>1 DEF BatchOK, KeyWaits, FinishHolds
  <2>8. s.mine \cap Committed = {} /\ \A c \in Batches \ {b} : s.mine \cap batch[c].mine = {}
    BY <1>1, <1>3, <2>1 DEF BatchOK
  <2>9. Reported(s, "duplicate") \subseteq Committed /\ s.mine = Reported(s, "accepted")
    BY <1>1, <1>3, <2>1, <2>4 DEF BatchOK
  <2>10. BatchOK(b, s)
    BY <2>1, <2>3, <2>5, <2>6, <2>7, <2>8, <2>9 DEF BatchOK
  <2>11. acked' \in SUBSET Items /\ sent' \in Nat
    BY <1>1 DEF IInv, TypeOK
  <2> QED
    BY <2>1, <2>10, <2>2, <2>11, GoStep
<1>4. \A c \in Batches \ {b} : i \notin batch[c].mine
  BY <1>1 DEF upsertReturningID, WaitsFor
<1>5. \/ i \in Committed /\ acceptedOrDuplicate(b, i, FALSE)
      \/ \E why \in Reasons : reject(b, i, why)
      \/ i \notin Committed /\ ~KeyWaits(i) /\ acceptedOrDuplicate(b, i, TRUE)
  BY <1>1 DEF upsertReturningID, Reasons
<1> QED
  BY <1>2, <1>3, <1>4, <1>5

-----------------------------------------------------------------------------
(* Every step keeps the invariant.                                         *)

LEMMA InitHolds == ASSUME SyncAssumption, Init PROVE IInv
<1>1. TypeOK
  BY DEF Init, TypeOK, NoSession, Sessions, NoBatch, BatchStates, Results, NoFinish,
         FinishStates, SyncAssumption
<1>2. \A b \in Batches : BatchOK(b, batch[b])
  <2>1. \A b \in Batches : /\ batch[b].mine = {} /\ batch[b].todo = {} /\ batch[b].known = {}
                           /\ batch[b].pc = "idle" /\ Reported(batch[b], "duplicate") = {}
    BY DEF Init, NoBatch, Reported
  <2> QED
    BY <2>1 DEF BatchOK
<1>3. \A f \in Finishers : FinishOK(f, finish[f])
  BY DEF Init, FinishOK, NoFinish
<1>4. OwnersAreStored
  BY DEF Init, OwnersAreStored
<1> QED
  BY <1>1, <1>2, <1>3, <1>4 DEF IInv

\* A request that begins, ends or gives up holds nothing.
LEMMA EmptyStep ==
    ASSUME IInv, NEW b \in Batches, NEW s \in BatchStates, Go(b, s),
           s = NoBatch \/ \E what \in SUBSET Items : s = [NoBatch EXCEPT !.pc = "next", !.todo = what],
           acked' \in SUBSET Items, sent' \in Nat
    PROVE  IInv'
<1>1. /\ s.mine = {} /\ s.known = {} /\ \A i \in Items : s.result[i] = "none"
      /\ s.pc # "insert" /\ s.todo \subseteq Items
  <2>1. CASE s = NoBatch
    BY <2>1 DEF NoBatch
  <2>2. CASE \E what \in SUBSET Items : s = [NoBatch EXCEPT !.pc = "next", !.todo = what]
    <3>1. PICK what \in SUBSET Items : s = [NoBatch EXCEPT !.pc = "next", !.todo = what]
      BY <2>2
    <3>2. /\ s.pc = "next" /\ s.todo = what /\ s.mine = {} /\ s.known = {}
          /\ s.result = [i \in Items |-> "none"]
      BY <3>1 DEF NoBatch
    <3> QED
      BY <3>2
  <2> QED
    BY <2>1, <2>2
<1>2. Reported(s, "accepted") = {} /\ Reported(s, "duplicate") = {}
  BY <1>1 DEF Reported
<1>3. BatchOK(b, s)
  BY <1>1, <1>2 DEF BatchOK
<1> QED
  BY <1>3, GoStep

\* COMMIT: what was the batch's own is everybody's.
LEMMA CommitStep ==
    ASSUME SyncAssumption, IInv, NEW b \in Batches, CommitBatch(b)
    PROVE  /\ IInv'
           /\ Committed' = Committed \cup batch[b].mine
           /\ batch[b].mine = Reported(batch[b], "accepted")
           /\ \A i \in Inspections : session[i].status # "ABSENT" => session'[i] = session[i]
<1> DEFINE s == [NoBatch EXCEPT !.pc = "reply", !.result = batch[b].result]
<1>1. /\ batch[b] \in BatchStates /\ BatchOK(b, batch[b]) /\ batch[b].pc = "next"
      /\ batch[b].mine \subseteq Items
      /\ batch' = [batch EXCEPT ![b] = s]
      /\ stored' = stored \cup (batch[b].mine \cap Children)
      /\ deleted' = deleted /\ finish' = finish /\ acked' = acked /\ sent' = sent
  BY DEF CommitBatch, Done, IInv, TypeOK, BatchStates
<1>2. PICK st \in [Inspections -> Statuses] :
         session' = [i \in Inspections |->
                       IF i \in batch[b].mine THEN [NoSession EXCEPT !.status = st[i]] ELSE session[i]]
  BY DEF CommitBatch
<1>3. batch[b].mine = Reported(batch[b], "accepted") /\ batch[b].mine \cap Committed = {}
  BY <1>1 DEF BatchOK
<1>4. \A i \in Inspections : /\ i \in batch[b].mine => session'[i].status \in Statuses
                             /\ i \notin batch[b].mine => session'[i] = session[i]
  BY <1>2 DEF NoSession
<1>5. \A i \in Inspections : session[i].status # "ABSENT" => session'[i] = session[i]
  BY <1>3, <1>4 DEF Committed
<1>6. Committed' = Committed \cup batch[b].mine
  BY <1>1, <1>4 DEF Committed, Statuses, Items, Children
<1>7. /\ s \in BatchStates /\ s.pc = "reply" /\ s.mine = {} /\ s.todo = {} /\ s.known = {}
      /\ s.result = batch[b].result
  BY <1>1, SyncAssumption DEF NoBatch, BatchStates
<1> HIDE DEF s
<1>8. batch'[b] = s /\ \A c \in Batches \ {b} : batch'[c] = batch[c]
  BY <1>1 DEF IInv, TypeOK
<1>9. TypeOK'
  <2>1. session' \in [Inspections -> Sessions]
    BY <1>2 DEF IInv, TypeOK, NoSession, Sessions
  <2>2. stored' \in SUBSET Children /\ batch' \in [Batches -> BatchStates]
    BY <1>1, <1>7 DEF IInv, TypeOK
  <2> QED
    BY <1>1, <2>1, <2>2 DEF IInv, TypeOK
<1>10. ASSUME NEW c \in Batches PROVE BatchOK(c, batch[c])'
  <2>1. CASE c = b
    <3>1. Reported(s, "duplicate") \subseteq Committed'
      BY <1>1, <1>6, <1>7 DEF BatchOK, Reported
    <3> QED
      BY <1>7, <1>8, <2>1, <3>1 DEF BatchOK, Reported
  <2>2. CASE c # b
    <3>1. BatchOK(c, batch[c]) /\ batch[c].mine \cap batch[b].mine = {}
      BY <1>1, <2>2 DEF IInv, BatchOK
    <3>2. \A d \in Batches \ {c} : batch[c].mine \cap batch'[d].mine = {}
      BY <1>7, <1>8, <3>1 DEF BatchOK
    <3>3. \A i : OwnerAmong(i, Committed \cup batch[c].mine)
                    => OwnerAmong(i, Committed' \cup batch[c].mine)
      BY <1>6 DEF OwnerAmong
    <3>4. batch[c].mine \cap Committed' = {}
      BY <1>6, <3>1 DEF BatchOK
    <3> QED
      BY <1>1, <1>6, <1>8, <2>2, <3>1, <3>2, <3>3, <3>4 DEF BatchOK, Reported, OwnerAmong
  <2> QED
    BY <2>1, <2>2
<1>11. ASSUME NEW f \in Finishers PROVE FinishOK(f, finish[f])'
  <2>1. FinishOK(f, finish[f])
    BY DEF IInv
  <2>2. CASE finish[f].pc # "idle"
    <3>1. session'[finish[f].session] = session[finish[f].session]
      BY <1>5, <2>1, <2>2 DEF FinishOK
    <3>2. \A c \in Batches : \A p \in batch'[c].mine \cap Points : ownerOf[p] # finish[f].session
      BY <1>7, <1>8, <2>1, <2>2 DEF FinishOK
    <3>3. PointsOf(finish[f].session)' = PointsOf(finish[f].session)
      BY <1>1, <2>1, <2>2 DEF PointsOf, FinishOK, Children
    <3> QED
      BY <1>1, <2>1, <2>2, <3>1, <3>2, <3>3 DEF FinishOK
  <2>3. CASE finish[f].pc = "idle"
    BY <1>1, <2>3 DEF FinishOK
  <2> QED
    BY <2>2, <2>3
<1>12. OwnersAreStored'
  <2>1. \A i \in batch[b].mine : OwnerAmong(i, Committed')
    BY <1>1, <1>6 DEF BatchOK, OwnerAmong
  <2> QED
    BY <1>1, <1>6, <2>1 DEF IInv, OwnersAreStored, OwnerAmong
<1> QED
  BY <1>3, <1>5, <1>6, <1>9, <1>10, <1>11, <1>12 DEF IInv

\* A finish locks a session nobody else holds, or gives it up unchanged.
LEMMA FinishGoStep ==
    ASSUME IInv, NEW f \in Finishers, NEW y \in FinishStates, FinishGo(f, y),
           session' = session, FinishOK(f, y),
           y.pc # "idle" => /\ \A g \in Finishers \ {f} :
                                   finish[g].pc # "idle" => finish[g].session # y.session
                            /\ \A b \in Batches : \A p \in batch[b].mine \cap Points :
                                   ownerOf[p] # y.session
    PROVE  IInv'
<1>1. /\ session' = session /\ stored' = stored /\ deleted' = deleted /\ batch' = batch
      /\ acked' = acked /\ sent' = sent /\ Committed' = Committed
      /\ finish' = [finish EXCEPT ![f] = y]
  BY DEF FinishGo, Committed
<1>2. finish'[f] = y /\ \A g \in Finishers \ {f} : finish'[g] = finish[g]
  BY <1>1 DEF IInv, TypeOK
<1>3. TypeOK'
  BY <1>1 DEF IInv, TypeOK
<1>4. ASSUME NEW b \in Batches PROVE BatchOK(b, batch[b])'
  <2>1. BatchOK(b, batch[b])
    BY DEF IInv
  <2>2. \A g \in Finishers : finish'[g].pc # "idle" =>
            \A p \in batch[b].mine \cap Points : ownerOf[p] # finish'[g].session
    BY <1>2, <2>1 DEF BatchOK
  <2> QED
    BY <1>1, <2>1, <2>2 DEF BatchOK, Reported, OwnerAmong
<1>5. ASSUME NEW g \in Finishers PROVE FinishOK(g, finish[g])'
  <2>1. CASE g = f
    <3>1. CASE y.pc = "idle"
      BY <1>2, <2>1, <3>1 DEF FinishOK
    <3>2. CASE y.pc # "idle"
      <4>1. finish'[f] = y /\ \A h \in Finishers \ {f} :
                finish'[h].pc # "idle" => finish'[h].session # y.session
        BY <1>2, <3>2
      <4>2. PointsOf(y.session)' = PointsOf(y.session)
        BY <1>1 DEF PointsOf
      <4> QED
        BY <1>1, <2>1, <3>2, <4>1, <4>2 DEF FinishOK
    <3> QED
      BY <3>1, <3>2
  <2>2. CASE g # f
    <3>1. FinishOK(g, finish[g])
      BY DEF IInv
    <3>2. finish[g].pc # "idle" => \A h \in Finishers \ {g} :
              finish'[h].pc # "idle" => finish'[h].session # finish[g].session
      BY <1>2, <2>2, <3>1 DEF FinishOK
    <3> QED
      BY <1>1, <1>2, <2>2, <3>1, <3>2 DEF FinishOK, PointsOf
  <2> QED
    BY <2>1, <2>2
<1>6. OwnersAreStored'
  BY <1>1 DEF IInv, OwnersAreStored
<1> QED
  BY <1>3, <1>4, <1>5, <1>6 DEF IInv

LEMMA FinishLocks ==
    ASSUME IInv, NEW f \in Finishers, NEW i \in Inspections, Finish(f, i) PROVE IInv'
<1> DEFINE y == [NoFinish EXCEPT !.pc = "update", !.session = i]
<1>1. y \in FinishStates /\ y.pc = "update" /\ y.session = i
  BY DEF NoFinish, FinishStates, NoSession, Sessions
<1>2. /\ \A g \in Finishers \ {f} : finish[g].pc # "idle" => finish[g].session # i
      /\ \A b \in Batches : \A p \in batch[b].mine \cap Points : ownerOf[p] # i
  BY DEF Finish, FinishHolds, BatchHolds
<1>3. session[i].status = "IN_PROGRESS" /\ FinishGo(f, y) /\ session' = session
  BY DEF Finish
<1> HIDE DEF y
<1>4. FinishOK(f, y)
  BY <1>1, <1>2, <1>3 DEF FinishOK
<1> QED
  BY <1>1, <1>2, <1>3, <1>4, FinishGoStep

LEMMA PointsCount == ASSUME SyncAssumption, NEW i PROVE Cardinality(PointsOf(i)) \in Nat
<1>1. PointsOf(i) \subseteq Points /\ IsFiniteSet(Points)
  BY DEF PointsOf, SyncAssumption
<1> QED
  BY <1>1, FS_Subset, FS_CardinalityType

LEMMA FinishGivesUp ==
    ASSUME IInv, NEW f \in Finishers, FinishGo(f, NoFinish), session' = session PROVE IInv'
<1>1. NoFinish \in FinishStates /\ NoFinish.pc = "idle"
  BY DEF NoFinish, FinishStates, NoSession, Sessions
<1>2. FinishOK(f, NoFinish)
  BY <1>1 DEF FinishOK
<1> QED
  BY <1>1, <1>2, FinishGoStep

LEMMA FinishCloses ==
    ASSUME SyncAssumption, IInv, NEW f \in Finishers, CloseSession(f) PROVE IInv'
<1> DEFINE points == PointsOf(finish[f].session)
<1>1. finish[f] \in FinishStates /\ FinishOK(f, finish[f]) /\ finish[f].pc = "update"
      /\ session' = session
  BY DEF IInv, TypeOK, CloseSession
<1>2. CASE FinishGo(f, NoFinish)
  BY <1>1, <1>2, FinishGivesUp
<1>3. ASSUME NEW target \in {"FINISHED", "ABANDONED"},
             FinishGo(f, [finish[f] EXCEPT !.pc = "commit",
                             !.row = [status |-> target, route |-> Route(points),
                                      count |-> Cardinality(points)]])
      PROVE  IInv'
  <2> DEFINE r == [status |-> target, route |-> Route(points), count |-> Cardinality(points)]
             y == [finish[f] EXCEPT !.pc = "commit", !.row = r]
  <2>1. r \in Sessions
    BY PointsCount DEF Sessions, Statuses, Route, PointsOf
  <2>2. r.status # "ABSENT" /\ r.count = Cardinality(points)
    OBVIOUS
  <2> HIDE DEF r
  <2>3. y \in FinishStates /\ y.pc = "commit" /\ y.session = finish[f].session /\ y.row = r
    BY <1>1, <2>1 DEF FinishStates
  <2>4. FinishGo(f, y)
    BY <1>3 DEF r
  <2> HIDE DEF y
  <2>5. FinishOK(f, y)
    BY <1>1, <2>2, <2>3 DEF FinishOK
  <2>6. /\ \A g \in Finishers \ {f} : finish[g].pc # "idle" => finish[g].session # y.session
        /\ \A b \in Batches : \A p \in batch[b].mine \cap Points : ownerOf[p] # y.session
    BY <1>1, <2>3 DEF FinishOK
  <2> QED
    BY <1>1, <2>3, <2>4, <2>5, <2>6, FinishGoStep
<1> QED
  BY <1>2, <1>3 DEF CloseSession

LEMMA FinishCommits ==
    ASSUME IInv, NEW f \in Finishers, CommitFinish(f)
    PROVE  /\ IInv'
           /\ Committed' = Committed
           /\ \A i \in Inspections : session[i].status # "IN_PROGRESS" => session'[i] = session[i]
<1> DEFINE y == finish[f]
<1>1. /\ y \in FinishStates /\ y.row \in Sessions /\ y.pc = "commit" /\ FinishOK(f, y)
      /\ session' = [session EXCEPT ![y.session] = y.row]
      /\ finish' = [finish EXCEPT ![f] = NoFinish]
      /\ stored' = stored /\ deleted' = deleted /\ batch' = batch
      /\ acked' = acked /\ sent' = sent
  BY DEF IInv, TypeOK, FinishStates, CommitFinish, FinishGo
<1>2. /\ y.session \in Inspections /\ session[y.session].status = "IN_PROGRESS"
      /\ y.row.status # "ABSENT"
      /\ \A g \in Finishers \ {f} : finish[g].pc # "idle" => finish[g].session # y.session
  BY <1>1 DEF FinishOK
<1> HIDE DEF y
<1>3. \A i \in Inspections : session'[i] = IF i = y.session THEN y.row ELSE session[i]
  BY <1>1 DEF IInv, TypeOK
<1>4. Committed' = Committed
  BY <1>1, <1>2, <1>3 DEF Committed
<1>5. /\ NoFinish \in FinishStates /\ finish'[f].pc = "idle"
      /\ \A g \in Finishers \ {f} : finish'[g] = finish[g]
  BY <1>1 DEF IInv, TypeOK, NoFinish, FinishStates, NoSession, Sessions
<1>6. TypeOK'
  BY <1>1, <1>5 DEF IInv, TypeOK
<1>7. ASSUME NEW b \in Batches PROVE BatchOK(b, batch[b])'
  <2>1. BatchOK(b, batch[b])
    BY DEF IInv
  <2>2. \A g \in Finishers : finish'[g].pc # "idle" =>
            \A p \in batch[b].mine \cap Points : ownerOf[p] # finish'[g].session
    BY <1>5, <2>1 DEF BatchOK
  <2> QED
    BY <1>1, <1>4, <2>1, <2>2 DEF BatchOK, Reported, OwnerAmong
<1>8. ASSUME NEW g \in Finishers PROVE FinishOK(g, finish[g])'
  <2>1. CASE g = f
    BY <1>5, <2>1 DEF FinishOK
  <2>2. CASE g # f /\ finish[g].pc # "idle"
    <3>1. FinishOK(g, finish[g]) /\ finish[g].session # y.session /\ finish'[g] = finish[g]
      BY <1>2, <1>5, <2>2 DEF IInv
    <3>2. session'[finish[g].session] = session[finish[g].session]
      BY <1>3, <2>2, <3>1 DEF FinishOK
    <3>3. \A h \in Finishers \ {g} : finish'[h].pc # "idle" => finish'[h].session # finish[g].session
      BY <1>5, <2>2, <3>1 DEF FinishOK
    <3> QED
      BY <1>1, <2>2, <3>1, <3>2, <3>3 DEF FinishOK, PointsOf
  <2>3. CASE g # f /\ finish[g].pc = "idle"
    BY <1>5, <2>3 DEF FinishOK
  <2> QED
    BY <2>1, <2>2, <2>3
<1>9. OwnersAreStored'
  BY <1>1, <1>4 DEF IInv, OwnersAreStored
<1>10. \A i \in Inspections : session[i].status # "IN_PROGRESS" => session'[i] = session[i]
  BY <1>2, <1>3
<1> QED
  BY <1>4, <1>6, <1>7, <1>8, <1>9, <1>10 DEF IInv

LEMMA Starts ==
    ASSUME SyncAssumption, IInv, NEW i \in Inspections, Start(i)
    PROVE  IInv' /\ Committed' = Committed \cup {i}
<1>1. /\ session[i].status = "ABSENT" /\ \A b \in Batches : i \notin batch[b].mine
      /\ session' = [session EXCEPT ![i].status = "IN_PROGRESS"]
      /\ stored' = stored /\ deleted' = deleted /\ batch' = batch /\ finish' = finish
      /\ acked' = acked /\ sent' = sent
  BY DEF Start
<1>2. /\ session'[i].status = "IN_PROGRESS"
      /\ \A j \in Inspections \ {i} : session'[j] = session[j]
  BY <1>1 DEF IInv, TypeOK, Sessions
<1>3. Committed' = Committed \cup {i}
  BY <1>1, <1>2 DEF Committed
<1>4. TypeOK'
  <2>1. session[i] \in Sessions
    BY DEF IInv, TypeOK
  <2>2. [session[i] EXCEPT !.status = "IN_PROGRESS"] \in Sessions
    BY <2>1 DEF Sessions, Statuses
  <2>3. session' \in [Inspections -> Sessions]
    BY <1>1, <2>2 DEF IInv, TypeOK
  <2> QED
    BY <1>1, <2>3 DEF IInv, TypeOK
<1>5. ASSUME NEW b \in Batches PROVE BatchOK(b, batch[b])'
  <2>1. BatchOK(b, batch[b]) /\ i \notin batch[b].mine
    BY <1>1 DEF IInv
  <2> QED
    BY <1>1, <1>3, <2>1 DEF BatchOK, Reported, OwnerAmong
<1>6. ASSUME NEW f \in Finishers PROVE FinishOK(f, finish[f])'
  BY <1>1, <1>2 DEF IInv, FinishOK, PointsOf
<1>7. OwnersAreStored'
  BY <1>1, <1>3 DEF IInv, OwnersAreStored
<1> QED
  BY <1>3, <1>4, <1>5, <1>6, <1>7 DEF IInv

LEMMA Deletes ==
    ASSUME IInv, NEW q \in Problems, DeleteProblem(q) PROVE IInv' /\ Committed' = Committed
<1>1. /\ deleted' = deleted \cup {q} /\ session' = session /\ stored' = stored
      /\ batch' = batch /\ finish' = finish /\ acked' = acked /\ sent' = sent
      /\ Committed' = Committed
  BY DEF DeleteProblem, Committed
<1>2. TypeOK' /\ OwnersAreStored'
  BY <1>1 DEF IInv, TypeOK, OwnersAreStored
<1>3. \A b \in Batches : BatchOK(b, batch[b])'
  BY <1>1 DEF IInv, BatchOK, Reported, OwnerAmong
<1>4. \A f \in Finishers : FinishOK(f, finish[f])'
  BY <1>1 DEF IInv, FinishOK, PointsOf
<1> QED
  BY <1>1, <1>2, <1>3, <1>4 DEF IInv

\* What a request does before it commits and after, in one place.
LEMMA BatchKeeps ==
    ASSUME SyncAssumption, IInv, NEW b \in Batches, BatchStep(b) PROVE IInv'
<1>1. ASSUME NEW what \in SUBSET Items, Batch(b, what) PROVE IInv'
  <2>1. acked' \in SUBSET Items /\ sent' \in Nat
    BY <1>1 DEF Batch, IInv, TypeOK
  <2>2. [NoBatch EXCEPT !.pc = "next", !.todo = what] \in BatchStates
    BY DEF NoBatch, BatchStates, Results
  <2> QED
    BY <1>1, <2>1, <2>2, EmptyStep DEF Batch
<1>2. NoBatch \in BatchStates
  BY DEF NoBatch, BatchStates, Results
<1>3. CASE AbortBatch(b) \/ LoseAnswer(b)
  <2>1. Go(b, NoBatch) /\ acked' \in SUBSET Items /\ sent' \in Nat
    BY <1>3 DEF AbortBatch, LoseAnswer, IInv, TypeOK
  <2> QED
    BY <1>2, <2>1, EmptyStep
<1>4. CASE Answer(b)
  <2>1. Go(b, NoBatch) /\ acked' \in SUBSET Items /\ sent' \in Nat
    BY <1>4 DEF Answer, With, IInv, TypeOK
  <2> QED
    BY <1>2, <2>1, EmptyStep
<1>5. CASE FailItem(b) \/ BreakDeadlock(b)
  <2>1. batch[b].pc = "insert" /\ batch[b].item \in batch[b].todo
    <3>1. batch[b].pc = "insert"
      BY <1>5 DEF FailItem, BreakDeadlock, WaitsFor
    <3> QED
      BY <3>1 DEF IInv, BatchOK
  <2>2. \E why \in Reasons : reject(b, batch[b].item, why)
    BY <1>5 DEF FailItem, BreakDeadlock, Reasons
  <2>3. acked' = acked /\ sent' = sent
    BY <1>5 DEF FailItem, BreakDeadlock
  <2> QED
    BY <2>1, <2>2, <2>3, RejectStep
<1>6. CASE CommitBatch(b)
  BY <1>6, CommitStep
<1>7. CASE upsertReturningID(b)
  BY <1>7, InsertStep
<1> QED
  BY <1>1, <1>3, <1>4, <1>5, <1>6, <1>7, ResolveStep DEF BatchStep

LEMMA FinishKeeps ==
    ASSUME SyncAssumption, IInv, NEW f \in Finishers, FinishStep(f) PROVE IInv'
<1>1. CASE AbortFinish(f)
  BY <1>1, FinishGivesUp DEF AbortFinish
<1> QED
  BY <1>1, FinishLocks, FinishCloses, FinishCommits DEF FinishStep

LEMMA NextKeeps == ASSUME SyncAssumption, IInv, [Next]_vars PROVE IInv'
<1>1. CASE UNCHANGED vars
  <2>1. /\ session' = session /\ stored' = stored /\ deleted' = deleted /\ batch' = batch
        /\ finish' = finish /\ acked' = acked /\ sent' = sent
    BY <1>1 DEF vars
  <2>2. Committed' = Committed
    BY <2>1 DEF Committed
  <2>3. TypeOK' /\ OwnersAreStored'
    BY <2>1, <2>2 DEF IInv, TypeOK, OwnersAreStored
  <2>4. \A b \in Batches : BatchOK(b, batch[b])'
    BY <2>1, <2>2 DEF IInv, BatchOK, Reported, OwnerAmong
  <2>5. ASSUME NEW f \in Finishers PROVE FinishOK(f, finish[f])'
    <3>1. FinishOK(f, finish[f])
      BY DEF IInv
    <3> QED
      BY <2>1, <3>1 DEF FinishOK, PointsOf
  <2> QED
    BY <2>3, <2>4, <2>5 DEF IInv
<1> QED
  BY <1>1, BatchKeeps, FinishKeeps, Starts, Deletes DEF Next

-----------------------------------------------------------------------------
(* The theorems.                                                           *)

\* The inductive invariant holds in every reachable state.
THEOREM Inductive == Spec => []IInv
<1>1. Init => IInv
  BY SyncAssumption, InitHolds
<1>2. IInv /\ [Next]_vars => IInv'
  BY SyncAssumption, NextKeeps
<1> QED
  BY <1>1, <1>2, PTL DEF Spec

\* Every variable stays in its type.
THEOREM TypeCorrect == Spec => []TypeOK
<1>1. IInv => TypeOK
  BY DEF IInv
<1> QED
  BY <1>1, Inductive, PTL

\* What a point, problem or media row belongs to is on the server, although
\* owners come from a map that outlives rolled-back savepoints and media has
\* no foreign key (resolveInspectionRef, resolveMediaOwner).
THEOREM OwnersSafe == Spec => []OwnersAreStored
<1>1. IInv => OwnersAreStored
  BY DEF IInv
<1> QED
  BY <1>1, Inductive, PTL

\* A finish about to commit has counted every stored point, and no batch is
\* about to store another: the row lock and the foreign keys exclude it.
THEOREM FinishComplete == Spec => []FinishSeesEveryPoint
<1>1. IInv => FinishSeesEveryPoint
  BY DEF IInv, FinishOK, FinishSeesEveryPoint
<1> QED
  BY <1>1, Inductive, PTL

\* A session that is FINISHED or ABANDONED never changes again: replayed
\* starts and batches run into its key, a second finish into its status.
THEOREM ClosedFinal == Spec => ClosedIsFinal
<1> DEFINE Final == \A i \in Inspections :
              session[i].status \in {"FINISHED", "ABANDONED"} => session'[i] = session[i]
<1>1. ASSUME IInv, [Next]_vars PROVE Final
  <2>1. CASE session' = session
    BY <2>1
  <2>2. ASSUME NEW b \in Batches, CommitBatch(b) PROVE Final
    BY <2>2, <1>1, SyncAssumption, CommitStep
  <2>3. ASSUME NEW f \in Finishers, CommitFinish(f) PROVE Final
    BY <2>3, <1>1, FinishCommits
  <2>4. ASSUME NEW i \in Inspections, Start(i) PROVE Final
    BY <2>4, <1>1 DEF Start, IInv, TypeOK
  <2>5. \/ session' = session
        \/ \E b \in Batches : CommitBatch(b)
        \/ \E f \in Finishers : CommitFinish(f)
        \/ \E i \in Inspections : Start(i)
    <3>1. ASSUME NEW b \in Batches, BatchStep(b) PROVE session' = session \/ CommitBatch(b)
      BY <3>1 DEF BatchStep, Batch, upsertInspection, upsertTrajectoryPoint, upsertProblem,
                  upsertMedia, Enter, reject, acceptedOrDuplicate, upsertReturningID,
                  FailItem, BreakDeadlock, AbortBatch, Answer, LoseAnswer, Go, rowVars
    <3>2. ASSUME NEW f \in Finishers, FinishStep(f) PROVE session' = session \/ CommitFinish(f)
      BY <3>2 DEF FinishStep, Finish, CloseSession, AbortFinish
    <3> QED
      BY <1>1, <3>1, <3>2 DEF Next, vars, DeleteProblem
  <2> QED
    BY <2>1, <2>2, <2>3, <2>4, <2>5
<1>2. IInv /\ [Next]_vars => [Final]_vars
  BY <1>1
<1> QED
  BY <1>2, Inductive, PTL DEF Spec, ClosedIsFinal

-----------------------------------------------------------------------------
(* The sync endpoint implements ItemLedger.                                *)

\* What the request b of state x is about to report.
Report(x) == IF x.pc = "reply" THEN [accepted |-> Reported(x, "accepted"),
                                     duplicate |-> Reported(x, "duplicate")]
                               ELSE [accepted |-> {}, duplicate |-> {}]

LEMMA ReportingIs == Reporting = [b \in Batches |-> Report(batch[b])]
  BY DEF Reporting, Report, With, Reported

\* One request changes: only its own report can.
LEMMA ReportingStep ==
    ASSUME TypeOK, NEW b \in Batches, NEW s, batch' = [batch EXCEPT ![b] = s]
    PROVE  Reporting' = [Reporting EXCEPT ![b] = Report(s)]
<1>1. \A c \in Batches : batch'[c] = IF c = b THEN s ELSE batch[c]
  BY DEF TypeOK
<1>2. Reporting' = [c \in Batches |-> Report(batch'[c])]
  BY ReportingIs DEF Reporting, Report, With, Reported
<1> QED
  BY <1>1, <1>2, ReportingIs

LEMMA QuietStep ==
    ASSUME TypeOK, NEW b \in Batches, NEW s, Go(b, s),
           batch[b].pc # "reply", s.pc # "reply"
    PROVE  Reporting' = Reporting /\ Committed' = Committed
<1>1. batch' = [batch EXCEPT ![b] = s] /\ session' = session /\ stored' = stored
  BY DEF Go, rowVars
<1>2. Report(s) = Report(batch[b])
  BY DEF Report
<1>3. Reporting[b] = Report(batch[b])
  BY ReportingIs
<1>4. Reporting' = [Reporting EXCEPT ![b] = Reporting[b]]
  BY <1>1, <1>2, <1>3, ReportingStep
<1> QED
  BY <1>1, <1>4, ReportingIs DEF Committed

\* A transaction makes its items the server's and answers with them at once.
LEMMA CommitIngests ==
    ASSUME SyncAssumption, IInv, NEW b \in Batches, CommitBatch(b)
    PROVE  Ledger!Ingest(b)
<1> DEFINE new == Reported(batch[b], "accepted")
           old == Reported(batch[b], "duplicate")
           s == [NoBatch EXCEPT !.pc = "reply", !.result = batch[b].result]
<1>1. /\ TypeOK /\ BatchOK(b, batch[b]) /\ batch[b].pc = "next"
      /\ batch' = [batch EXCEPT ![b] = s] /\ acked' = acked
  BY DEF IInv, CommitBatch, Done
<1>2. /\ Committed' = Committed \cup new /\ new \cap Committed = {}
      /\ new \subseteq Items /\ old \subseteq Committed
  BY <1>1, CommitStep DEF BatchOK, Reported
<1>3. s.pc = "reply" /\ s.result = batch[b].result
  BY DEF NoBatch
<1>4. Report(s) = [accepted |-> new, duplicate |-> old]
  BY <1>3 DEF Report, Reported
<1> HIDE DEF s, new, old
<1>5. Reporting' = [Reporting EXCEPT ![b] = [accepted |-> new, duplicate |-> old]]
  BY <1>1, <1>4, ReportingStep
<1>6. Reporting[b] = [accepted |-> {}, duplicate |-> {}]
  BY <1>1, ReportingIs DEF Report
<1>7. new \in SUBSET (Items \ Committed) /\ old \in SUBSET Committed
  BY <1>2
<1> QED
  BY <1>1, <1>2, <1>5, <1>6, <1>7 DEF Ledger!Ingest, Ledger!NoAnswer

\* The answer reaches the device, or is lost.
LEMMA AnswerEnds ==
    ASSUME IInv, NEW b \in Batches, Answer(b) \/ LoseAnswer(b)
    PROVE  Ledger!Deliver(b) \/ Ledger!Lose(b)
<1>1. /\ TypeOK /\ batch[b].pc = "reply" /\ batch' = [batch EXCEPT ![b] = NoBatch]
      /\ session' = session /\ stored' = stored /\ Committed' = Committed
  BY DEF IInv, Answer, LoseAnswer, Go, rowVars, Committed
<1>2. Report(NoBatch) = [accepted |-> {}, duplicate |-> {}]
  BY DEF Report, NoBatch
<1>3. Reporting' = [Reporting EXCEPT ![b] = [accepted |-> {}, duplicate |-> {}]]
  BY <1>1, <1>2, ReportingStep
<1>4. /\ Reporting[b].accepted = With(b, {"accepted"})
      /\ Reporting[b].duplicate = With(b, {"duplicate"})
  BY <1>1 DEF Reporting
<1>5. With(b, {"accepted", "duplicate"}) = With(b, {"accepted"}) \cup With(b, {"duplicate"})
  BY DEF With
<1>6. CASE Answer(b)
  <2>1. acked' = acked \cup Reporting[b].accepted \cup Reporting[b].duplicate
    BY <1>4, <1>5, <1>6 DEF Answer
  <2> QED
    BY <1>1, <1>3, <2>1 DEF Ledger!Deliver, Ledger!NoAnswer
<1>7. CASE LoseAnswer(b)
  <2>1. acked' = acked
    BY <1>7 DEF LoseAnswer
  <2> QED
    BY <1>1, <1>3, <2>1 DEF Ledger!Lose, Ledger!NoAnswer
<1> QED
  BY <1>6, <1>7

LEMMA BatchImplements ==
    ASSUME SyncAssumption, IInv, NEW b \in Batches, BatchStep(b)
    PROVE  \/ Ledger!Ingest(b) \/ Ledger!Deliver(b) \/ Ledger!Lose(b)
           \/ UNCHANGED Ledger!ledgerVars
<1>1. CASE CommitBatch(b)
  BY <1>1, CommitIngests
<1>2. CASE Answer(b) \/ LoseAnswer(b)
  BY <1>2, AnswerEnds
<1>3. ASSUME NEW what \in SUBSET Items, Batch(b, what) PROVE UNCHANGED Ledger!ledgerVars
  <2>1. [NoBatch EXCEPT !.pc = "next", !.todo = what].pc = "next"
    BY DEF NoBatch
  <2> QED
    BY <1>3, <2>1, QuietStep DEF Batch, IInv, Ledger!ledgerVars
<1>4. NoBatch.pc = "idle"
  BY DEF NoBatch
<1>5. CASE AbortBatch(b)
  BY <1>4, <1>5, QuietStep DEF AbortBatch, IInv, Ledger!ledgerVars
<1>6. ASSUME NEW i, batch[b].pc \in {"next", "insert"}, acked' = acked,
             \/ \E why \in Reasons : reject(b, i, why)
             \/ \E inserted \in BOOLEAN : acceptedOrDuplicate(b, i, inserted)
             \/ Enter(b, i)
      PROVE  UNCHANGED Ledger!ledgerVars
  <2>1. batch[b] \in BatchStates
    BY DEF IInv, TypeOK
  <2>2. ASSUME NEW why \in Reasons, reject(b, i, why) PROVE UNCHANGED Ledger!ledgerVars
    BY <1>6, <2>1, <2>2, QuietStep DEF reject, BatchStates, IInv, Ledger!ledgerVars
  <2>3. ASSUME NEW inserted \in BOOLEAN, acceptedOrDuplicate(b, i, inserted)
        PROVE  UNCHANGED Ledger!ledgerVars
    BY <1>6, <2>1, <2>3, QuietStep DEF acceptedOrDuplicate, BatchStates, IInv, Ledger!ledgerVars
  <2>4. CASE Enter(b, i)
    BY <1>6, <2>1, <2>4, QuietStep DEF Enter, BatchStates, IInv, Ledger!ledgerVars
  <2> QED
    BY <1>6, <2>2, <2>3, <2>4
<1>7. ASSUME NEW i \in Items,
             \/ upsertInspection(b, i) \/ upsertTrajectoryPoint(b, i)
             \/ upsertProblem(b, i) \/ upsertMedia(b, i)
      PROVE  UNCHANGED Ledger!ledgerVars
  <2>1. /\ batch[b].pc = "next" /\ acked' = acked
        /\ Enter(b, i) \/ \E why \in Reasons : reject(b, i, why)
    BY <1>7 DEF upsertInspection, upsertTrajectoryPoint, upsertProblem, upsertMedia, Process, Reasons
  <2> QED
    BY <2>1, <1>6
<1>8. CASE upsertReturningID(b) \/ FailItem(b) \/ BreakDeadlock(b)
  <2> DEFINE i == batch[b].item
  <2>1. batch[b].pc = "insert" /\ acked' = acked
    BY <1>8 DEF upsertReturningID, FailItem, BreakDeadlock, WaitsFor
  <2>2. \/ \E why \in Reasons : reject(b, i, why)
        \/ \E inserted \in BOOLEAN : acceptedOrDuplicate(b, i, inserted)
    BY <1>8 DEF upsertReturningID, FailItem, BreakDeadlock, Reasons
  <2> QED
    BY <2>1, <2>2, <1>6
<1> QED
  BY <1>1, <1>2, <1>3, <1>5, <1>7, <1>8 DEF BatchStep

LEMMA StepImplements ==
    ASSUME SyncAssumption, IInv, [Next]_vars PROVE [Ledger!Next]_(Ledger!ledgerVars)
<1>1. ASSUME NEW b \in Batches, BatchStep(b) PROVE Ledger!Next \/ UNCHANGED Ledger!ledgerVars
  BY <1>1, BatchImplements DEF Ledger!Next
<1>2. ASSUME batch' = batch, acked' = acked PROVE Reporting' = Reporting
  BY <1>2 DEF Reporting, With
<1>3. ASSUME NEW f \in Finishers, FinishStep(f) PROVE UNCHANGED Ledger!ledgerVars
  <2>1. batch' = batch /\ acked' = acked /\ stored' = stored
    BY <1>3 DEF FinishStep, Finish, CloseSession, CommitFinish, AbortFinish, FinishGo
  <2>2. Committed' = Committed
    <3>1. CASE CommitFinish(f)
      BY <3>1, FinishCommits
    <3>2. CASE ~CommitFinish(f)
      BY <1>3, <2>1, <3>2 DEF FinishStep, Finish, CloseSession, AbortFinish, Committed
    <3> QED
      BY <3>1, <3>2
  <2> QED
    BY <1>2, <2>1, <2>2 DEF Ledger!ledgerVars
<1>4. ASSUME NEW i \in Inspections, Start(i) PROVE Ledger!Next
  <2>1. Committed' = Committed \cup {i} /\ batch' = batch /\ acked' = acked
    BY <1>4, Starts DEF Start
  <2>2. i \in Items
    BY DEF Items
  <2>3. Reporting' = Reporting
    BY <1>2, <2>1
  <2> QED
    BY <2>1, <2>2, <2>3 DEF Ledger!Next, Ledger!Create
<1>5. ASSUME NEW q \in Problems, DeleteProblem(q) PROVE UNCHANGED Ledger!ledgerVars
  <2>1. Committed' = Committed /\ batch' = batch /\ acked' = acked
    BY <1>5, Deletes DEF DeleteProblem
  <2> QED
    BY <1>2, <2>1 DEF Ledger!ledgerVars
<1>6. CASE UNCHANGED vars
  <2>1. session' = session /\ stored' = stored /\ batch' = batch /\ acked' = acked
    BY <1>6 DEF vars
  <2> QED
    BY <1>2, <2>1 DEF Ledger!ledgerVars, Committed
<1> QED
  BY <1>1, <1>3, <1>4, <1>5, <1>6 DEF Next

\* The contract of POST /sync/batch: every item is ingested once, "accepted"
\* is the answer of the request that ingested it, and nothing is answered
\* before its transaction has committed (Service.Batch, bucketize).
THEOREM Implementation == Spec => IngestedOnce
<1>1. Init => Ledger!Init
  BY DEF Init, NoSession, NoBatch, Committed, Reporting, Ledger!Init, Ledger!NoAnswer
<1>2. IInv /\ [Next]_vars => [Ledger!Next]_(Ledger!ledgerVars)
  BY SyncAssumption, StepImplements
<1> QED
  BY <1>1, <1>2, Inductive, PTL DEF Spec, IngestedOnce, Ledger!Spec
=============================================================================
