--------------------------- MODULE SyncInspection ---------------------------
(***************************************************************************)
(* Offline sync and the inspection sessions it fills: POST /sync/batch     *)
(* (internal/sync), start and finish of an inspection                      *)
(* (internal/inspection).                                                  *)
(*                                                                         *)
(* A batch is one READ COMMITTED transaction over any mix of items, taken  *)
(* in the order inspections, points, problems, media.  An item resolves    *)
(* its owner, then is inserted ON CONFLICT (client_uuid) DO NOTHING, all   *)
(* inside a savepoint; its failure is reported and the batch goes on.  The *)
(* device (not in this repository) sends any items at any time and again,  *)
(* so that two batches with the same items can overlap.                    *)
(*                                                                         *)
(* A statement that waits, for a unique key another transaction has        *)
(* inserted or for a row lock, is an action that is not enabled.           *)
(***************************************************************************)
EXTENDS Naturals, FiniteSets

CONSTANTS
    Inspections, Points, Problems, Assets,  \* client_uuids, one per item
    ownerOf,     \* (Inspection|Owner)ClientUuid of an item, NoItem if nil
    seqOf,       \* seq of a point
    NoItem,
    Batches,     \* concurrent POST /sync/batch requests
    Finishers,   \* concurrent POST /inspections/{id}/finish requests
    MaxBatches,  \* bound: batches sent
    Faults       \* "item": an item is refused, "db": a transaction fails,
                 \* "net": an answer is lost

Items == Inspections \cup Points \cup Problems \cup Assets
Children == Points \cup Problems \cup Assets

ASSUME SyncAssumption ==
    /\ Inspections \cap Children = {}
    /\ Points \cap (Problems \cup Assets) = {}
    /\ Problems \cap Assets = {}
    /\ NoItem \notin Items
    /\ ownerOf \in [Children -> Inspections \cup Problems \cup {NoItem}]
    /\ \A p \in Points : ownerOf[p] \in Inspections
    /\ \A q \in Problems : ownerOf[q] \in Inspections \cup {NoItem}
    /\ IsFiniteSet(Points)
    /\ seqOf \in [Points -> Nat]
    /\ MaxBatches \in Nat
    /\ Faults \subseteq {"item", "db", "net"}

VARIABLES
    session,  \* the inspections rows
    stored,   \* the trajectory_points, problems and media_assets rows
    deleted,  \* problems that were soft-deleted
    batch,    \* the sync requests
    finish,   \* the finish requests
    acked,    \* items a batch has reported to the device as ingested
    sent      \* batches so far (bound)

vars == <<session, stored, deleted, batch, finish, acked, sent>>

-----------------------------------------------------------------------------
Statuses == {"IN_PROGRESS", "FINISHED", "ABANDONED"}

\* route_geom as the set of its points, which seq puts in order.
Sessions == [status : Statuses \cup {"ABSENT"}, route : SUBSET Points, count : Nat]
NoSession == [status |-> "ABSENT", route |-> {}, count |-> 0]

Reasons == {"INSPECTION_NOT_FOUND", "SEQ_CONFLICT", "OWNER_NOT_FOUND",
            "INVALID_GEOM", "FK_VIOLATION", "INTERNAL"}
Results == {"none", "accepted", "duplicate"} \cup Reasons

BatchStates == [pc : {"idle", "next", "insert", "reply"}, todo : SUBSET Items,
                item : Items \cup {NoItem},          \* the item in its savepoint
                mine : SUBSET Items,                 \* rows not yet committed
                known : SUBSET (Inspections \cup Problems),  \* batchState
                result : [Items -> Results]]
NoBatch == [pc |-> "idle", todo |-> {}, item |-> NoItem, mine |-> {}, known |-> {},
            result |-> [i \in Items |-> "none"]]

FinishStates == [pc : {"idle", "update", "commit"}, session : Inspections \cup {NoItem},
                 row : Sessions]
NoFinish == [pc |-> "idle", session |-> NoItem, row |-> NoSession]

TypeOK ==
    /\ session \in [Inspections -> Sessions]
    /\ stored \in SUBSET Children
    /\ deleted \in SUBSET Problems
    /\ batch \in [Batches -> BatchStates]
    /\ finish \in [Finishers -> FinishStates]
    /\ acked \in SUBSET Items
    /\ sent \in Nat

Init ==
    /\ session = [i \in Inspections |-> NoSession]
    /\ stored = {}
    /\ deleted = {}
    /\ batch = [b \in Batches |-> NoBatch]
    /\ finish = [f \in Finishers |-> NoFinish]
    /\ acked = {}
    /\ sent = 0

rowVars == <<session, stored, deleted>>

-----------------------------------------------------------------------------
(* What a statement sees, and what it waits for.                           *)

\* The rows committed, deleted ones included.
Committed == {i \in Inspections : session[i].status # "ABSENT"} \cup stored
Live == Committed \ deleted

PointsOf(i) == {p \in Points \cap stored : ownerOf[p] = i}

\* uq_traj_inspection_seq.
SameSeq(p, q) ==
    p \in Points /\ q \in Points /\ p # q /\ ownerOf[p] = ownerOf[q] /\ seqOf[p] = seqOf[q]

\* b's INSERT waits for c, which has inserted the same key.
WaitsFor(b, c) ==
    /\ b # c
    /\ batch[b].pc = "insert"
    /\ \E j \in batch[c].mine : j = batch[b].item \/ SameSeq(batch[b].item, j)

\* SELECT ... FOR UPDATE of a finish shuts out the foreign keys of points and
\* problems (FOR KEY SHARE), and the other way round.
FinishHolds(i) == \E f \in Finishers : finish[f].pc # "idle" /\ finish[f].session = i
BatchHolds(i) ==
    \E b \in Batches : \E j \in batch[b].mine \cap (Points \cup Problems) : ownerOf[j] = i

-----------------------------------------------------------------------------
(* POST /sync/batch.                                                       *)

Go(b, s) == batch' = [batch EXCEPT ![b] = s] /\ UNCHANGED <<rowVars, finish>>

Batch(b, what) ==
    /\ batch[b].pc = "idle"
    /\ sent < MaxBatches
    /\ sent' = sent + 1
    /\ what # {}
    /\ Go(b, [NoBatch EXCEPT !.pc = "next", !.todo = what])
    /\ UNCHANGED acked

\* Mutant: the map is filled before the outcome of the savepoint is known.
RejectMapped(b, i, why) ==
    Go(b, [batch[b] EXCEPT !.pc = "next", !.item = NoItem, !.todo = @ \ {i}, !.result[i] = why,
                           !.known = @ \cup ({i} \cap (Inspections \cup Problems))])

\* Mutant: the text of the error takes the place of a reason.
RejectVerbatim(b, i, why) ==
    Go(b, [batch[b] EXCEPT !.pc = "next", !.item = NoItem, !.todo = @ \ {i}, !.result[i] = "error"])

\* The savepoint of item i ends: it is rolled back and the item rejected, or
\* released, after which children of this batch find its id in the maps.
reject(b, i, why) ==
    Go(b, [batch[b] EXCEPT !.pc = "next", !.item = NoItem, !.todo = @ \ {i}, !.result[i] = why])

acceptedOrDuplicate(b, i, inserted) ==
    Go(b, [batch[b] EXCEPT
              !.pc = "next", !.item = NoItem, !.todo = @ \ {i},
              !.result[i] = IF inserted THEN "accepted" ELSE "duplicate",
              !.mine = IF inserted THEN @ \cup {i} ELSE @,
              !.known = @ \cup ({i} \cap (Inspections \cup Problems))])

\* The sections come in this order, the items of one in the device's.
Rank(i) == IF i \in Inspections THEN 1 ELSE IF i \in Points THEN 2
           ELSE IF i \in Problems THEN 3 ELSE 4

Process(b, i) ==
    /\ batch[b].pc = "next"
    /\ i \in batch[b].todo
    /\ \A j \in batch[b].todo : Rank(i) <= Rank(j)
    /\ UNCHANGED <<acked, sent>>

Enter(b, i) == Go(b, [batch[b] EXCEPT !.pc = "insert", !.item = i])

\* An owner is looked up in the maps of this batch, else among the live rows.
Resolved(b, i) == ownerOf[i] \in batch[b].known \cup Live

upsertInspection(b, i) == i \in Inspections /\ Process(b, i) /\ Enter(b, i)

upsertTrajectoryPoint(b, i) ==
    /\ i \in Points
    /\ Process(b, i)
    /\ IF Resolved(b, i) THEN Enter(b, i) ELSE reject(b, i, "INSPECTION_NOT_FOUND")

\* A problem need not have an inspection.
upsertProblem(b, i) ==
    /\ i \in Problems
    /\ Process(b, i)
    /\ IF ownerOf[i] = NoItem \/ Resolved(b, i) THEN Enter(b, i)
                                                ELSE reject(b, i, "INSPECTION_NOT_FOUND")

\* resolveMediaOwner; no foreign key stands behind it.
upsertMedia(b, i) ==
    /\ i \in Assets
    /\ Process(b, i)
    /\ IF Resolved(b, i) THEN Enter(b, i) ELSE reject(b, i, "OWNER_NOT_FOUND")

\* Its foreign key waits for a finish of the inspection.
KeyWaits(i) == i \in Points \cup Problems /\ FinishHolds(ownerOf[i])

\* upsertReturningID: INSERT ... ON CONFLICT DO NOTHING, and the SELECT of the
\* row it ran into, which asks for a live one of problems and media.
upsertReturningID(b) ==
    LET i == batch[b].item
        exists == i \in Committed \cup batch[b].mine IN
    /\ batch[b].pc = "insert"
    /\ \A c \in Batches : ~WaitsFor(b, c)
    /\ \/ exists /\ i \notin deleted /\ acceptedOrDuplicate(b, i, FALSE)
       \/ exists /\ i \in deleted /\ reject(b, i, "INTERNAL")
       \/ /\ ~exists
          /\ IF \E j \in stored \cup batch[b].mine : SameSeq(i, j)
                THEN reject(b, i, "SEQ_CONFLICT")
                ELSE ~KeyWaits(i) /\ acceptedOrDuplicate(b, i, TRUE)
    /\ UNCHANGED <<acked, sent>>

\* A geometry PostGIS does not accept, a project, inspector or dictionary item
\* that does not exist, or any other error.
FailItem(b) ==
    /\ "item" \in Faults
    /\ batch[b].pc = "insert"
    /\ \E why \in {"INVALID_GEOM", "FK_VIOLATION", "INTERNAL"} :
          /\ why # "INTERNAL" => batch[b].item \notin Committed
          /\ reject(b, batch[b].item, why)
    /\ UNCHANGED <<acked, sent>>

\* Batches that wait for one another: Postgres fails the statement of one.
BreakDeadlock(b) ==
    /\ \E D \in SUBSET Batches : b \in D /\ \A c \in D : \E d \in D : WaitsFor(c, d)
    /\ reject(b, batch[b].item, "INTERNAL")
    /\ UNCHANGED <<acked, sent>>

Done(b) == batch[b].pc = "next" /\ batch[b].todo = {}

\* Mutant: the results are answered although COMMIT has failed.
CommitUnchecked(b) ==
    /\ Done(b)
    /\ batch' = [batch EXCEPT ![b] = [NoBatch EXCEPT !.pc = "reply", !.result = batch[b].result]]
    /\ UNCHANGED <<rowVars, finish, acked, sent>>

\* COMMIT.  status is stored verbatim, and no route comes with it.
CommitBatch(b) ==
    /\ Done(b)
    /\ \E s \in [Inspections -> Statuses] :
          session' = [i \in Inspections |->
                        IF i \in batch[b].mine THEN [NoSession EXCEPT !.status = s[i]]
                                               ELSE session[i]]
    /\ stored' = stored \cup (batch[b].mine \cap Children)
    /\ batch' = [batch EXCEPT ![b] = [NoBatch EXCEPT !.pc = "reply", !.result = batch[b].result]]
    /\ UNCHANGED <<deleted, finish, acked, sent>>

\* The transaction fails (500) or the device hangs up: ROLLBACK.
AbortBatch(b) ==
    /\ Faults \cap {"db", "net"} # {}
    /\ batch[b].pc \in {"next", "insert"}
    /\ Go(b, NoBatch)
    /\ UNCHANGED <<acked, sent>>

With(b, results) == {i \in Items : batch[b].result[i] \in results}

Answer(b) ==
    /\ batch[b].pc = "reply"
    /\ acked' = acked \cup With(b, {"accepted", "duplicate"})
    /\ Go(b, NoBatch)
    /\ UNCHANGED sent

LoseAnswer(b) ==
    /\ "net" \in Faults
    /\ batch[b].pc = "reply"
    /\ Go(b, NoBatch)
    /\ UNCHANGED <<acked, sent>>

-----------------------------------------------------------------------------
(* Inspections and problems outside of sync.                               *)

\* Start: INSERT ... ON CONFLICT DO NOTHING; a replay changes nothing.
Start(i) ==
    /\ session[i].status = "ABSENT"
    /\ \A b \in Batches : i \notin batch[b].mine
    /\ session' = [session EXCEPT ![i].status = "IN_PROGRESS"]
    /\ UNCHANGED <<stored, deleted, batch, finish, acked, sent>>

FinishGo(f, s) ==
    /\ finish' = [finish EXCEPT ![f] = s]
    /\ UNCHANGED <<stored, deleted, batch, acked, sent>>

\* Mutant: SELECT without FOR UPDATE.
FinishUnlocked(f, i) ==
    /\ finish[f].pc = "idle"
    /\ session[i].status = "IN_PROGRESS"
    /\ FinishGo(f, [NoFinish EXCEPT !.pc = "update", !.session = i])
    /\ UNCHANGED session

\* Mutant: a closed session may be finished again.
FinishAgain(f, i) ==
    /\ finish[f].pc = "idle"
    /\ ~FinishHolds(i)
    /\ ~BatchHolds(i)
    /\ session[i].status # "ABSENT"
    /\ FinishGo(f, [NoFinish EXCEPT !.pc = "update", !.session = i])
    /\ UNCHANGED session

\* Finish: SELECT ... FOR UPDATE; a session not in progress is 409.
Finish(f, i) ==
    /\ finish[f].pc = "idle"
    /\ ~FinishHolds(i)
    /\ ~BatchHolds(i)
    /\ session[i].status = "IN_PROGRESS"
    /\ FinishGo(f, [NoFinish EXCEPT !.pc = "update", !.session = i])
    /\ UNCHANGED session

\* Fewer than two points make no line.
Route(points) == IF Cardinality(points) >= 2 THEN points ELSE {}

\* The UPDATE, over the points it sees; an ended_at before the start is refused.
CloseSession(f) ==
    LET points == PointsOf(finish[f].session) IN
    /\ finish[f].pc = "update"
    /\ \/ \E target \in {"FINISHED", "ABANDONED"} :
             FinishGo(f, [finish[f] EXCEPT !.pc = "commit",
                             !.row = [status |-> target, route |-> Route(points),
                                      count |-> Cardinality(points)]])
       \/ FinishGo(f, NoFinish)
    /\ UNCHANGED session

CommitFinish(f) ==
    /\ finish[f].pc = "commit"
    /\ session' = [session EXCEPT ![finish[f].session] = finish[f].row]
    /\ FinishGo(f, NoFinish)

AbortFinish(f) ==
    /\ Faults \cap {"db", "net"} # {}
    /\ finish[f].pc # "idle"
    /\ FinishGo(f, NoFinish)
    /\ UNCHANGED session

\* problem.Service.Delete.
DeleteProblem(q) ==
    /\ q \in stored \ deleted
    /\ deleted' = deleted \cup {q}
    /\ UNCHANGED <<session, stored, batch, finish, acked, sent>>

-----------------------------------------------------------------------------
BatchStep(b) ==
    \/ \E what \in SUBSET Items : Batch(b, what)
    \/ \E i \in Items : \/ upsertInspection(b, i) \/ upsertTrajectoryPoint(b, i)
                        \/ upsertProblem(b, i) \/ upsertMedia(b, i)
    \/ upsertReturningID(b) \/ FailItem(b) \/ BreakDeadlock(b)
    \/ CommitBatch(b) \/ AbortBatch(b) \/ Answer(b) \/ LoseAnswer(b)

FinishStep(f) ==
    (\E i \in Inspections : Finish(f, i)) \/ CloseSession(f) \/ CommitFinish(f) \/ AbortFinish(f)

Next ==
    \/ \E b \in Batches : BatchStep(b)
    \/ \E f \in Finishers : FinishStep(f)
    \/ \E i \in Inspections : Start(i)
    \/ \E q \in Problems : DeleteProblem(q)

Spec == Init /\ [][Next]_vars

-----------------------------------------------------------------------------
\* What each request is about to tell the device.
Reporting == [b \in Batches |->
    IF batch[b].pc = "reply" THEN [accepted |-> With(b, {"accepted"}),
                                   duplicate |-> With(b, {"duplicate"})]
                             ELSE [accepted |-> {}, duplicate |-> {}]]

Ledger == INSTANCE ItemLedger WITH ingested <- Committed, answer <- Reporting

(* The contract of /sync/batch holds over overlapping batches, replays, lost *)
(* answers, rolled-back savepoints and transactions: every item is ingested  *)
(* once, accepted for one request, and reported only when it is there.       *)
IngestedOnce == Ledger!Spec

(* What a row belongs to is on the server, although owners are resolved from  *)
(* a map that lives through rolled-back savepoints, and media has no foreign *)
(* key to fall back on.                                                      *)
OwnersAreStored ==
    \A i \in stored : ownerOf[i] # NoItem => ownerOf[i] \in Committed

(* A finish counts every point that a batch has stored or is about to store   *)
(* for the session: whoever is answered "accepted" before the finish finds   *)
(* the point in the route, and no batch is half way.                         *)
FinishSeesEveryPoint ==
    \A f \in Finishers : finish[f].pc = "commit" =>
        LET i == finish[f].session IN
        /\ finish[f].row.count = Cardinality(PointsOf(i))
        /\ \A b \in Batches : \A p \in batch[b].mine \cap Points : ownerOf[p] # i

(* A closed session is final: a second finish, a replayed start and a replayed *)
(* batch leave its status, route and count as they are.                       *)
ClosedIsFinal ==
    [][\A i \in Inspections :
          session[i].status \in {"FINISHED", "ABANDONED"} => session'[i] = session[i]]_vars
=============================================================================
