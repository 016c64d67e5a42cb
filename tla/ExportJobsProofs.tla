-------------------------- MODULE ExportJobsProofs --------------------------
(***************************************************************************)
(* Proofs about ExportJobs, for every set of jobs and goroutines, every    *)
(* retry and page bound and every combination of faults, and about its     *)
(* composition with ExportWatch.                                           *)
(***************************************************************************)
EXTENDS ExportWatch, SequenceTheorems, TLAPS

-----------------------------------------------------------------------------
(* The inductive invariant.                                                *)

\* A goroutine works on a job that was enqueued.
Bound == \A w \in Workers :
    /\ run[w].pc # "idle" => run[w].job \in Jobs /\ task[run[w].job].state # "none"
    /\ run[w].pc = "idle" => run[w] = Idle

\* Before its request a job has neither row nor task; from the INSERT to the
\* reply its row is there.
Requested == \A j \in Jobs :
    /\ api[j] = "none" => row[j] = NoRow
    /\ api[j] \in {"none", "inserted"} => task[j].state = "none"
    /\ api[j] \in {"inserted", "replied"} => row[j].status # "ABSENT"
    /\ api[j] = "replied" => task[j].state # "none"

\* What attempt g has achieved on row r and object store o when it reaches a
\* statement.
AchievedBy(g, r, o) ==
    /\ g.pc \in {"count", "page", "put", "succeed", "fail", "returnOk"} =>
          r.status = "ABSENT" \/ (r.status # "PENDING" /\ r.started)
    /\ g.pc = "succeed" => g.job \in o
    /\ g.pc = "returnOk" => r.status = "ABSENT" \/ r.result

Achieved == \A w \in Workers :
    run[w].pc # "idle" => AchievedBy(run[w], row[run[w].job], object)

GoodRow(j, r, o) ==
    /\ r.progress <= 100
    /\ r.result => j \in o
    /\ r.status = "SUCCEEDED" => r.result /\ ~r.error /\ r.started /\ r.finished
    /\ r.status = "FAILED" => r.error /\ r.started /\ r.finished
    /\ r.status = "PENDING" => r = PendingRow

\* The processor waits for at most one goroutine per task, and only while
\* Redis holds the task active.
OneOwner ==
    \A w \in Workers : run[w].owns =>
        /\ task[run[w].job].state = "active"
        /\ \A v \in Workers : run[v].owns /\ run[v].job = run[w].job => v = w

IInv ==
    /\ TypeOK
    /\ Bound
    /\ Requested
    /\ Achieved
    /\ \A j \in Jobs : GoodRow(j, row[j], object)
    /\ OneOwner
    /\ CompletedTaskHasResult

-----------------------------------------------------------------------------
(* Lemmas.                                                                 *)

\* percent always yields a percentage.
LEMMA PercentRange ==
    ASSUME NEW p \in Nat, NEW t \in Nat
    PROVE  Percent(p, t) \in 0..100
<1>1. CASE t = 0
  BY <1>1 DEF Percent
<1>2. CASE t # 0
  <2>1. (p * 100) \div t \in Nat
    BY <1>2
  <2> QED
    BY <1>2, <2>1 DEF Percent, Clamp
<1> QED
  BY <1>1, <1>2

\* What the two rows Create writes look like.
LEMMA RowValues ==
    /\ NoRow \in Rows /\ NoRow.status = "ABSENT" /\ ~NoRow.result /\ NoRow.progress = 0
    /\ PendingRow \in Rows /\ PendingRow.status = "PENDING" /\ ~PendingRow.result
    /\ PendingRow.progress = 0
BY DEF NoRow, PendingRow, Rows, Statuses

\* The initial state satisfies the invariant.
LEMMA InitInv == Init => IInv
BY ExportAssumption DEF Init, IInv, TypeOK, Bound, Requested, Achieved, GoodRow, OneOwner,
       CompletedTaskHasResult, Rows, Tasks, Runs, NoRow, PendingRow, Idle, Statuses, ApiStates

\* A failed delivery leaves the task typed, scheduled, and completed only if
\* it was; the other tasks are untouched.
LEMMA ChargeStep ==
    ASSUME TypeOK, NEW j \in Jobs, task[j].state = "active", Charge(j)
    PROVE  /\ task' \in [Jobs -> Tasks]
           /\ task'[j].state \in {"queued", "archived"}
           /\ \A i \in Jobs : i # j => task'[i] = task[i]
BY ExportAssumption DEF TypeOK, Tasks, Charge

\* One statement of goroutine w keeps the invariant when it writes a good
\* row that takes nothing back, and moves on only to where the row allows.
LEMMA StatementStep ==
    ASSUME IInv, NEW w \in Workers, run[w].pc # "idle",
           NEW new \in Rows, NEW onOk \in Runs, NEW onErr \in Runs,
           Statement(w, new, onOk, onErr),
           UNCHANGED <<task, object, api, restarts>>,
           \A g \in {onOk, onErr} : /\ g.job = run[w].job
                                    /\ g.owns = run[w].owns
                                    /\ g.pc # "idle",
           LET r == row[run[w].job] IN
             r.status # "ABSENT" =>
               /\ new.status = r.status \/ new.status \notin {"ABSENT", "PENDING"}
               /\ r.started => new.started
               /\ r.result => new.result
               /\ GoodRow(run[w].job, new, object)
               /\ AchievedBy(onOk, new, object)
               /\ AchievedBy(onErr, new, object)
               /\ AchievedBy(onErr, r, object),
           onOk.pc # "succeed", onErr.pc # "succeed"
    PROVE  IInv'
<1> DEFINE j == run[w].job
<1>1. j \in Jobs /\ task[j].state # "none" /\ row[j] \in Rows
  BY DEF IInv, Bound, TypeOK
<1>2. \E g \in {onOk, onErr} :
        /\ run' = [run EXCEPT ![w] = g]
        /\ \/ row[j].status = "ABSENT" /\ row' = row
           \/ row[j].status # "ABSENT" /\ row' = row /\ g = onErr
           \/ row[j].status # "ABSENT" /\ row' = [row EXCEPT ![j] = new]
  BY <1>1 DEF Statement, Update, IInv, TypeOK
<1>3. PICK g \in {onOk, onErr} :
        /\ run' = [run EXCEPT ![w] = g]
        /\ \/ row[j].status = "ABSENT" /\ row' = row
           \/ row[j].status # "ABSENT" /\ row' = row /\ g = onErr
           \/ row[j].status # "ABSENT" /\ row' = [row EXCEPT ![j] = new]
  BY <1>2
<1> HIDE DEF j
<1>4. g \in Runs /\ g.job = j /\ g.owns = run[w].owns /\ g.pc \notin {"idle", "succeed"}
  BY <1>3 DEF j
<1>5. /\ run'[w] = g
      /\ \A v \in Workers : v # w => run'[v] = run[v]
      /\ \A i \in Jobs : i # j => row'[i] = row[i]
      /\ row'[j] = row[j] \/ (row'[j] = new /\ row[j].status # "ABSENT")
      /\ \A i \in Jobs : row'[i].status = "ABSENT" <=> row[i].status = "ABSENT"
  BY <1>1, <1>3 DEF IInv, TypeOK, j
<1>6. TypeOK'
  BY <1>1, <1>3, <1>4 DEF IInv, TypeOK
<1>7. Bound'
  BY <1>1, <1>4, <1>5 DEF IInv, Bound
<1>8. Requested'
  BY <1>1, <1>5 DEF IInv, Requested
<1>9. \A i \in Jobs : GoodRow(i, row'[i], object')
  BY <1>1, <1>5 DEF IInv, j
<1>10. Achieved'
  <2>1. AchievedBy(g, row'[j], object)
    <3>1. CASE row[j].status = "ABSENT"
      BY <1>3, <1>4, <3>1 DEF AchievedBy
    <3>2. CASE row[j].status # "ABSENT"
      BY <1>1, <1>3, <3>2 DEF j, IInv, TypeOK
    <3> QED
      BY <3>1, <3>2
  <2>2. ASSUME NEW v \in Workers, v # w, run[v].pc # "idle"
        PROVE  AchievedBy(run[v], row'[run[v].job], object)
    <3>1. AchievedBy(run[v], row[run[v].job], object) /\ run[v].job \in Jobs
      BY <2>2 DEF IInv, Achieved, Bound
    <3>2. CASE run[v].job # j \/ row'[j] = row[j]
      BY <1>5, <3>1, <3>2
    <3>3. CASE run[v].job = j /\ row'[j] = new /\ row[j].status # "ABSENT"
      BY <3>1, <3>3 DEF AchievedBy, j
    <3> QED
      BY <1>5, <3>2, <3>3
  <2> QED
    BY <1>4, <1>5, <2>1, <2>2 DEF Achieved
<1>11. OneOwner'
  BY <1>4, <1>5 DEF IInv, OneOwner, j
<1>12. CompletedTaskHasResult'
  BY <1>1, <1>5 DEF IInv, CompletedTaskHasResult, j
<1> QED
  BY <1>6, <1>7, <1>8, <1>9, <1>10, <1>11, <1>12 DEF IInv

-----------------------------------------------------------------------------
(* Every step keeps the invariant.                                         *)

\* The steps of POST /exports touch one job's row, task and request.
LEMMA RequestStep ==
    ASSUME IInv, NEW j \in Jobs, Request(j) \/ ApiCrash(j)
    PROVE  IInv'
<1> USE ExportAssumption DEF IInv
<1>1. CASE InsertJob(j)
  <2>1. TypeOK'
    BY <1>1 DEF InsertJob, TypeOK, ApiStates, Rows, NoRow, PendingRow, Statuses
  <2>2. \A w \in Workers : run[w].pc # "idle" => run[w].job # j
    BY <1>1 DEF InsertJob, Bound, Requested
  <2>3. Achieved'
    BY <1>1, <2>2 DEF InsertJob, Achieved, Bound, TypeOK
  <2>4. /\ task[j].state = "none" /\ UNCHANGED <<task, object, run, restarts>>
        /\ row'[j] = PendingRow /\ \A i \in Jobs : i # j => row'[i] = row[i]
        /\ api'[j] \in {"inserted", "refused"} /\ \A i \in Jobs : i # j => api'[i] = api[i]
    BY <1>1 DEF InsertJob, Requested, TypeOK
  <2>6. Requested'
    BY <2>4, RowValues DEF Requested
  <2>7. Bound' /\ OneOwner'
    BY <2>4 DEF Bound, OneOwner
  <2>8. CompletedTaskHasResult'
    BY <2>4 DEF CompletedTaskHasResult
  <2>5. \A i \in Jobs : GoodRow(i, row'[i], object')
    BY <1>1 DEF InsertJob, GoodRow, TypeOK, PendingRow, NoRow
  <2> QED
    BY <2>1, <2>3, <2>5, <2>6, <2>7, <2>8
<1>2. CASE EnqueueTask(j) \/ EnqueueFails(j)
  <2>1. /\ UNCHANGED <<row, object, run, restarts>>
        /\ api[j] = "inserted"
        /\ \/ api' = [api EXCEPT ![j] = "replied"] /\ task' = [task EXCEPT ![j].state = "queued"]
           \/ api' = [api EXCEPT ![j] = "rollback"] /\ task' = [task EXCEPT ![j].state = "queued"]
           \/ api' = [api EXCEPT ![j] = "rollback"] /\ task' = task
    BY <1>2 DEF EnqueueTask, EnqueueFails
  <2>2. TypeOK'
    <3>1. task' \in [Jobs -> Tasks]
      BY <2>1 DEF TypeOK, Tasks
    <3>2. api' \in [Jobs -> ApiStates]
      BY <2>1 DEF TypeOK, ApiStates
    <3> QED
      BY <2>1, <3>1, <3>2 DEF TypeOK
  <2>3. task[j].state = "none" /\ row[j].status # "ABSENT"
    BY <2>1 DEF Requested
  <2>4. \A w \in Workers : run[w].pc # "idle" => run[w].job # j
    BY <2>3 DEF Bound
  <2>5. Bound' /\ OneOwner'
    BY <2>1, <2>4 DEF Bound, OneOwner, TypeOK, Idle
  <2>6. /\ api'[j] \in {"replied", "rollback"} /\ \A i \in Jobs : i # j => api'[i] = api[i]
        /\ task'[j].state \in {"none", "queued"}
        /\ api'[j] = "replied" => task'[j].state = "queued"
        /\ \A i \in Jobs : i # j => task'[i] = task[i]
    BY <2>1, <2>3 DEF TypeOK, Tasks
  <2>7. Requested' /\ CompletedTaskHasResult'
    BY <2>1, <2>3, <2>6 DEF Requested, CompletedTaskHasResult
  <2>8. Achieved' /\ \A i \in Jobs : GoodRow(i, row'[i], object')
    BY <2>1 DEF Achieved
  <2> QED
    BY <2>2, <2>5, <2>7, <2>8
<1>3. CASE RollbackJob(j)
  <2>1. /\ UNCHANGED <<task, object, run, restarts>>
        /\ api[j] = "rollback"
        /\ api' = [api EXCEPT ![j] = "refused"]
        /\ row' = row \/ row' = [row EXCEPT ![j] = NoRow]
    BY <1>3 DEF RollbackJob
  <2>2. /\ api'[j] = "refused" /\ \A i \in Jobs : i # j => api'[i] = api[i]
        /\ row'[j] = row[j] \/ row'[j] = NoRow
        /\ \A i \in Jobs : i # j => row'[i] = row[i]
    BY <2>1 DEF TypeOK
  <2>3. TypeOK'
    BY <2>1, RowValues DEF TypeOK, ApiStates
  <2>4. Bound' /\ OneOwner'
    BY <2>1 DEF Bound, OneOwner
  <2>5. Requested'
    BY <2>1, <2>2 DEF Requested
  <2>6. CompletedTaskHasResult'
    BY <2>1, <2>2, RowValues DEF CompletedTaskHasResult
  <2>7. Achieved'
    <3> SUFFICES ASSUME NEW w \in Workers, run[w].pc # "idle"
                 PROVE  AchievedBy(run[w], row'[run[w].job], object)
      BY <2>1 DEF Achieved
    <3>1. run[w].job \in Jobs /\ AchievedBy(run[w], row[run[w].job], object)
      BY DEF Bound, Achieved
    <3> QED
      BY <2>2, <3>1, RowValues DEF AchievedBy
  <2>8. \A i \in Jobs : GoodRow(i, row'[i], object')
    BY <2>1, <2>2, RowValues DEF GoodRow
  <2> QED
    BY <2>3, <2>4, <2>5, <2>6, <2>7, <2>8
<1>4. CASE ApiCrash(j)
  BY <1>4 DEF ApiCrash, TypeOK, ApiStates, Bound, OneOwner, Requested, Achieved,
              CompletedTaskHasResult
<1> QED
  BY <1>1, <1>2, <1>3, <1>4 DEF Request

\* The steps of the asynq server touch tasks and goroutines only.
LEMMA QueueFrame ==
    ASSUME IInv, UNCHANGED <<row, object, api>>, restarts' \in Nat,
           task' \in [Jobs -> Tasks], run' \in [Workers -> Runs],
           \A i \in Jobs : task'[i].state = "none" <=> task[i].state = "none",
           \A i \in Jobs : task'[i].state = "done" =>
               task[i].state = "done" \/ row[i].result \/ row[i].status = "ABSENT",
           \A v \in Workers :
               \/ run'[v] = Idle
               \/ run'[v].pc = "load" /\ run'[v].job \in Jobs /\ task[run'[v].job].state # "none"
               \/ run[v].pc # "idle" /\ run'[v].pc = run[v].pc /\ run'[v].job = run[v].job
               \/ run'[v] = run[v],
           OneOwner'
    PROVE  IInv'
<1>1. TypeOK'
  BY DEF IInv, TypeOK
<1>2. Bound'
  BY DEF IInv, Bound, Idle
<1>3. Requested' /\ CompletedTaskHasResult'
  BY DEF IInv, Requested, CompletedTaskHasResult
<1>4. Achieved'
  BY DEF IInv, Achieved, AchievedBy, Idle
<1> QED
  BY <1>1, <1>2, <1>3, <1>4 DEF IInv

\* Handing a queued task to an idle goroutine keeps the invariant.
LEMMA DeliverStep ==
    ASSUME IInv, NEW w \in Workers, NEW j \in Jobs, Deliver(w, j)
    PROVE  IInv'
<1>1. /\ run' \in [Workers -> Runs]
      /\ run'[w].pc = "load" /\ run'[w].job = j /\ run'[w].owns
      /\ \A v \in Workers : v # w => run'[v] = run[v]
  BY DEF IInv, TypeOK, Deliver, Runs, Idle
<1>2. /\ task' \in [Jobs -> Tasks]
      /\ task[j].state = "queued" /\ task'[j].state = "active"
      /\ \A i \in Jobs : i # j => task'[i] = task[i]
  BY DEF IInv, TypeOK, Deliver, Tasks
<1>3. OneOwner'
  BY <1>1, <1>2 DEF IInv, OneOwner, Bound, Idle
<1> QED
  BY <1>1, <1>2, <1>3, QueueFrame DEF Deliver, IInv, TypeOK

\* What the goroutine that holds a task knows about it.
LEMMA Holder ==
    ASSUME IInv, NEW w \in Workers, run[w].owns
    PROVE  /\ run[w].pc # "idle"
           /\ run[w].job \in Jobs
           /\ task[run[w].job].state = "active"
           /\ \A v \in Workers : v # w /\ run[v].owns => run[v].job # run[w].job
BY DEF IInv, Bound, OneOwner, Idle

\* The end of a goroutine keeps the invariant: a credited success has left
\* its result in the row.
LEMMA ReturnStep ==
    ASSUME IInv, NEW w \in Workers, Return(w)
    PROVE  IInv'
<1> DEFINE j == run[w].job
<1>1. /\ run' = [run EXCEPT ![w] = Idle] /\ Idle \in Runs
      /\ UNCHANGED <<row, object, api, restarts>>
      /\ run[w].pc # "idle" /\ j \in Jobs
  BY DEF Return, Runs, Idle, IInv, Bound
<1>2. /\ run' \in [Workers -> Runs] /\ run'[w] = Idle /\ ~Idle.owns
      /\ \A v \in Workers : v # w => run'[v] = run[v]
  BY <1>1 DEF IInv, TypeOK, Idle
<1>3. CASE ~run[w].owns
  BY <1>1, <1>2, <1>3, QueueFrame DEF Return, IInv, OneOwner, TypeOK
<1>4. CASE run[w].owns /\ run[w].pc = "returnErr"
  <2>1. Charge(j) /\ task[j].state = "active"
    BY <1>4, Holder DEF Return
  <2>2. /\ task' \in [Jobs -> Tasks] /\ task'[j].state \in {"queued", "archived"}
        /\ \A i \in Jobs : i # j => task'[i] = task[i]
    BY <1>1, <2>1, ChargeStep DEF IInv
  <2>3. OneOwner'
    BY <1>2, <1>4, <2>2, Holder DEF IInv, OneOwner
  <2> QED
    BY <1>1, <1>2, <2>1, <2>2, <2>3, QueueFrame DEF IInv, TypeOK
<1>5. CASE run[w].owns /\ run[w].pc = "returnOk"
  <2>1. task' = [task EXCEPT ![j].state = "done"] /\ task[j].state = "active"
    BY <1>5, Holder DEF Return
  <2>2. /\ task' \in [Jobs -> Tasks] /\ task'[j].state = "done"
        /\ \A i \in Jobs : i # j => task'[i] = task[i]
    BY <1>1, <2>1 DEF IInv, TypeOK, Tasks
  <2>3. OneOwner'
    BY <1>2, <1>5, <2>2, Holder DEF IInv, OneOwner
  <2>4. row[j].result \/ row[j].status = "ABSENT"
    BY <1>5 DEF IInv, Achieved, AchievedBy
  <2> QED
    BY <1>1, <1>2, <2>1, <2>2, <2>3, <2>4, QueueFrame DEF IInv, TypeOK
<1> QED
  BY <1>3, <1>4, <1>5 DEF Return

\* A goroutine that loses its task, or its process, changes nothing else.
LEMMA DisturbStep ==
    ASSUME IInv, NEW w \in Workers,
           Timeout(w) \/ LoseLease(w) \/ Shutdown(w) \/ Crash(w)
    PROVE  IInv'
<1> DEFINE j == run[w].job
<1>1. CASE Crash(w)
  <2>1. /\ run' = [run EXCEPT ![w] = Idle] /\ Idle \in Runs /\ ~Idle.owns
        /\ UNCHANGED <<row, task, object, api, restarts>>
    BY <1>1 DEF Crash, Runs, Idle
  <2>2. /\ run' \in [Workers -> Runs] /\ run'[w] = Idle
        /\ \A v \in Workers : v # w => run'[v] = run[v]
    BY <2>1 DEF IInv, TypeOK
  <2> QED
    BY <2>1, <2>2, QueueFrame DEF IInv, TypeOK, OneOwner
<1>2. CASE ~Crash(w)
  <2>1. /\ run[w].owns
        /\ UNCHANGED <<row, object, api>> /\ restarts' \in Nat
        /\ task' = task \/ Charge(j) \/ task' = [task EXCEPT ![j].state = "queued"]
    BY <1>2 DEF Timeout, LoseLease, Shutdown, IInv, TypeOK
  <2>2. j \in Jobs /\ task[j].state = "active" /\ run[w].pc # "idle"
    BY <2>1, Holder
  <2>3. /\ run' \in [Workers -> Runs]
        /\ run'[w].pc = run[w].pc /\ run'[w].job = j /\ ~run'[w].owns
        /\ \A v \in Workers : v # w => run'[v] = run[v]
    <3>1. CASE Timeout(w)
      BY <3>1 DEF Timeout, IInv, TypeOK, Runs
    <3>2. CASE LoseLease(w)
      BY <3>2 DEF LoseLease, IInv, TypeOK, Runs
    <3>3. CASE Shutdown(w)
      <4>1. run' = [run EXCEPT ![w].owns = FALSE] /\ run \in [Workers -> Runs]
        BY <3>3 DEF Shutdown, IInv, TypeOK
      <4> QED
        BY <4>1 DEF Runs
    <3>4. Timeout(w) \/ LoseLease(w) \/ Shutdown(w)
      BY <1>2
    <3> QED
      BY <3>1, <3>2, <3>3, <3>4
  <2>4. /\ task' \in [Jobs -> Tasks]
        /\ task'[j].state \in {"active", "queued", "archived"}
        /\ \A i \in Jobs : i # j => task'[i] = task[i]
    <3>1. CASE task' = task
      BY <2>2, <3>1 DEF IInv, TypeOK
    <3>2. CASE Charge(j)
      BY <2>2, <3>2, ChargeStep DEF IInv
    <3>3. CASE task' = [task EXCEPT ![j].state = "queued"]
      BY <2>2, <3>3 DEF IInv, TypeOK, Tasks
    <3> QED
      BY <2>1, <3>1, <3>2, <3>3
  <2>5. OneOwner'
    BY <2>1, <2>3, <2>4, Holder DEF IInv, OneOwner
  <2> QED
    BY <2>1, <2>2, <2>3, <2>4, <2>5, QueueFrame
<1> QED
  BY <1>1, <1>2

\* The recoverer requeues or archives a task nobody owns.
LEMMA RecoverStep ==
    ASSUME IInv, NEW j \in Jobs, Recover(j)
    PROVE  IInv'
<1>1. /\ task' \in [Jobs -> Tasks] /\ task[j].state = "active"
      /\ task'[j].state \in {"queued", "archived"}
      /\ \A i \in Jobs : i # j => task'[i] = task[i]
  BY ChargeStep DEF Recover, IInv
<1>2. OneOwner'
  BY <1>1, Holder DEF Recover, IInv, OneOwner
<1> QED
  BY <1>1, <1>2, QueueFrame DEF Recover, IInv, TypeOK

\* A goroutine that writes nothing moves on to a statement the row allows.
LEMMA MoveStep ==
    ASSUME IInv, NEW w \in Workers, run[w].pc # "idle",
           UNCHANGED <<row, task, object, api, restarts>>,
           NEW g \in Runs, run' = [run EXCEPT ![w] = g],
           g.job = run[w].job, g.owns = run[w].owns, g.pc # "idle",
           AchievedBy(g, row[run[w].job], object)
    PROVE  IInv'
<1>1. run'[w] = g /\ \A v \in Workers : v # w => run'[v] = run[v]
  BY DEF IInv, TypeOK
<1> QED
  BY <1>1 DEF IInv, TypeOK, Bound, Requested, Achieved, OneOwner, CompletedTaskHasResult

\* The steps of handleRun that write the row are all StatementSteps.
LEMMA HandleStep ==
    ASSUME IInv, NEW w \in Workers, Handle(w) \/ BuildFails(w)
    PROVE  IInv'
<1> DEFINE j == run[w].job
           r == row[j]
<1>0. run[w].pc # "idle" => /\ j \in Jobs /\ r \in Rows /\ run[w] \in Runs
                            /\ AchievedBy(run[w], r, object)
                            /\ GoodRow(j, r, object)
  BY DEF IInv, Bound, TypeOK, Achieved
<1>1. CASE Return(w)
  BY <1>1, ReturnStep
<1>2. CASE LoadJob(w) \/ LastProject(w) \/ BuildFails(w)
  <2>1. PICK l \in {"mark", "returnErr", "put", "fail"} :
              /\ run' = [run EXCEPT ![w] = At(w, l)]
              /\ run[w].pc # "idle"
              /\ l \in {"put", "fail"} => run[w].pc \in {"count", "page", "put"}
    BY <1>2 DEF LoadJob, LastProject, BuildFails
  <2>2. UNCHANGED <<row, task, object, api, restarts>>
    BY <1>2 DEF LoadJob, LastProject, BuildFails
  <2>3. At(w, l) \in Runs /\ At(w, l).job = j /\ At(w, l).owns = run[w].owns /\ At(w, l).pc = l
    BY <1>0, <2>1 DEF At, Runs
  <2>4. AchievedBy(At(w, l), r, object)
    BY <1>0, <2>1, <2>3 DEF AchievedBy
  <2> QED
    BY <2>1, <2>2, <2>3, <2>4, MoveStep
<1>3. CASE MarkRunning(w)
  <2> DEFINE new == [r EXCEPT !.status = "RUNNING", !.started = TRUE]
  <2>1. run[w].pc = "mark" /\ Statement(w, new, At(w, "count"), At(w, "returnErr"))
    BY <1>3 DEF MarkRunning
  <2>2. /\ new \in Rows /\ new.status = "RUNNING" /\ new.started /\ new.result = r.result
        /\ new.progress = r.progress
    BY <1>0, <2>1 DEF Rows, Statuses
  <2>3. \A l \in {"count", "returnErr"} : /\ At(w, l) \in Runs /\ At(w, l).pc = l
                                          /\ At(w, l).job = j /\ At(w, l).owns = run[w].owns
    BY <1>0, <2>1 DEF At, Runs
  <2>4. GoodRow(j, new, object)
    BY <1>0, <2>1, <2>2 DEF GoodRow
  <2>5. /\ AchievedBy(At(w, "count"), new, object)
        /\ AchievedBy(At(w, "returnErr"), new, object)
        /\ AchievedBy(At(w, "returnErr"), r, object)
    BY <2>2, <2>3 DEF AchievedBy
  <2> HIDE DEF new
  <2> QED
    BY <1>3, <2>1, <2>2, <2>3, <2>4, <2>5, StatementStep DEF MarkRunning
<1>4. CASE CountRows(w)
  <2>1. PICK n \in 0..MaxRows :
          Statement(w, r, [At(w, "page") EXCEPT !.total = n], At(w, "fail"))
    BY <1>4 DEF CountRows
  <2> DEFINE ok == [At(w, "page") EXCEPT !.total = n]
             err == At(w, "fail")
  <2>2. run[w].pc = "count" /\ n \in Nat
    BY <1>4, ExportAssumption DEF CountRows
  <2>3. /\ ok \in Runs /\ ok.pc = "page" /\ ok.job = j /\ ok.owns = run[w].owns
        /\ err \in Runs /\ err.pc = "fail" /\ err.job = j /\ err.owns = run[w].owns
    BY <1>0, <2>2 DEF At, Runs
  <2>4. AchievedBy(ok, r, object) /\ AchievedBy(err, r, object)
    BY <1>0, <2>2, <2>3 DEF AchievedBy
  <2> HIDE DEF ok, err
  <2>5. Statement(w, r, ok, err)
    BY <2>1 DEF ok, err
  <2> QED
    BY <1>0, <1>4, <2>2, <2>3, <2>4, <2>5, StatementStep DEF CountRows
<1>5. CASE WritePage(w) \/ WriteProject(w)
  <2>1. PICK p \in Nat, l \in {"page", "put"} :
          Statement(w, [r EXCEPT !.progress = Percent(p, run[w].total)],
                    [At(w, l) EXCEPT !.processed = p], At(w, "fail"))
    <3>1. run[w] \in Runs /\ run[w].pc = "page"
      BY <1>0, <1>5 DEF WritePage, WriteProject
    <3>2. CASE WritePage(w)
      <4>1. PICK n \in 0..PageSize :
              Statement(w, [r EXCEPT !.progress = Percent(run[w].processed + n, run[w].total)],
                        [At(w, IF n < PageSize THEN "put" ELSE "page")
                           EXCEPT !.processed = run[w].processed + n], At(w, "fail"))
        BY <3>2 DEF WritePage
      <4>2. run[w].processed + n \in Nat
        BY <3>1, ExportAssumption DEF Runs
      <4> QED
        BY <4>1, <4>2
    <3>3. CASE WriteProject(w)
      <4>1. run[w].processed + 1 \in Nat
        BY <3>1 DEF Runs
      <4>2. [run[w] EXCEPT !.processed = run[w].processed + 1]
              = [At(w, "page") EXCEPT !.processed = run[w].processed + 1]
        BY <3>1 DEF At, Runs
      <4>3. Statement(w, [r EXCEPT !.progress = Percent(run[w].processed + 1, run[w].total)],
                      [run[w] EXCEPT !.processed = run[w].processed + 1], At(w, "fail"))
        BY <3>3 DEF WriteProject
      <4> QED
        BY <4>1, <4>2, <4>3
    <3> QED
      BY <1>5, <3>2, <3>3
  <2>2. run[w].pc = "page" /\ run[w].total \in Nat
    BY <1>0, <1>5 DEF WritePage, WriteProject, Runs
  <2>3. Percent(p, run[w].total) \in Nat /\ Percent(p, run[w].total) <= 100
    <3>1. Percent(p, run[w].total) \in 0..100
      BY <2>2, PercentRange
    <3> QED
      BY <3>1
  <2> DEFINE new == [r EXCEPT !.progress = Percent(p, run[w].total)]
             ok == [At(w, l) EXCEPT !.processed = p]
             err == At(w, "fail")
  <2>4. /\ new \in Rows /\ new.progress <= 100
        /\ new.status = r.status /\ new.result = r.result /\ new.error = r.error
        /\ new.started = r.started /\ new.finished = r.finished
    BY <1>0, <2>2, <2>3 DEF Rows
  <2>5. /\ ok \in Runs /\ ok.pc = l /\ ok.job = j /\ ok.owns = run[w].owns
        /\ err \in Runs /\ err.pc = "fail" /\ err.job = j /\ err.owns = run[w].owns
    BY <1>0, <2>2 DEF At, Runs
  <2> HIDE DEF new, ok, err
  <2>6. r.status # "ABSENT" => r.status # "PENDING" /\ r.started
    BY <1>0, <2>2 DEF AchievedBy
  <2>7. r.status # "ABSENT" =>
          /\ GoodRow(j, new, object)
          /\ AchievedBy(ok, new, object)
          /\ AchievedBy(err, new, object)
          /\ AchievedBy(err, r, object)
    BY <1>0, <2>2, <2>4, <2>5, <2>6 DEF GoodRow, AchievedBy
  <2>8. Statement(w, new, ok, err)
    BY <2>1 DEF new, ok, err
  <2>9. UNCHANGED <<task, object, api, restarts>>
    BY <1>5 DEF WritePage, WriteProject
  <2> QED
    BY <2>2, <2>4, <2>5, <2>7, <2>8, <2>9, StatementStep
<1>6. CASE PutResult(w)
  <2>1. PICK l \in {"succeed", "fail"} :
          /\ run' = [run EXCEPT ![w] = At(w, l)]
          /\ run[w].pc = "put"
          /\ object' = object \/ object' = object \cup {j}
          /\ l = "succeed" => j \in object'
    BY <1>6 DEF PutResult
  <2>2. /\ At(w, l) \in Runs /\ At(w, l).pc = l /\ At(w, l).job = j
        /\ At(w, l).owns = run[w].owns
    BY <1>0, <2>1 DEF At, Runs
  <2>3. /\ run'[w] = At(w, l) /\ run' \in [Workers -> Runs]
        /\ \A v \in Workers : v # w => run'[v] = run[v]
        /\ UNCHANGED <<row, task, api, restarts>>
        /\ object \subseteq object' /\ object' \in SUBSET Jobs
    BY <1>0, <1>6, <2>1, <2>2 DEF PutResult, IInv, TypeOK
  <2>4. Achieved'
    BY <1>0, <2>1, <2>2, <2>3 DEF IInv, Achieved, AchievedBy
  <2>5. \A i \in Jobs : GoodRow(i, row'[i], object')
    BY <2>3 DEF IInv, GoodRow
  <2>6. Bound' /\ OneOwner'
    BY <1>0, <2>1, <2>2, <2>3 DEF IInv, Bound, OneOwner
  <2> QED
    BY <2>3, <2>4, <2>5, <2>6 DEF IInv, TypeOK, Requested, CompletedTaskHasResult
<1>7. CASE MarkSucceeded(w)
  <2> DEFINE new == [r EXCEPT !.status = "SUCCEEDED", !.progress = 100,
                              !.result = TRUE, !.error = FALSE, !.finished = TRUE]
             ok == At(w, "returnOk")
             err == At(w, "returnErr")
  <2>1. run[w].pc = "succeed" /\ Statement(w, new, ok, err)
    BY <1>7 DEF MarkSucceeded
  <2>2. /\ new \in Rows /\ new.status = "SUCCEEDED" /\ new.progress = 100 /\ new.result
        /\ ~new.error /\ new.finished /\ new.started = r.started
    BY <1>0, <2>1 DEF Rows, Statuses
  <2>3. /\ ok \in Runs /\ ok.pc = "returnOk" /\ ok.job = j /\ ok.owns = run[w].owns
        /\ err \in Runs /\ err.pc = "returnErr" /\ err.job = j /\ err.owns = run[w].owns
    BY <1>0, <2>1 DEF At, Runs
  <2> HIDE DEF new, ok, err
  <2>4. r.status # "ABSENT" =>
          /\ GoodRow(j, new, object)
          /\ AchievedBy(ok, new, object)
          /\ AchievedBy(err, new, object)
          /\ AchievedBy(err, r, object)
    BY <1>0, <2>1, <2>2, <2>3 DEF GoodRow, AchievedBy
  <2> QED
    BY <1>7, <2>1, <2>2, <2>3, <2>4, StatementStep DEF MarkSucceeded
<1>8. CASE MarkFailed(w)
  <2> DEFINE new == [r EXCEPT !.status = "FAILED", !.error = TRUE, !.finished = TRUE]
             err == At(w, "returnErr")
  <2>1. run[w].pc = "fail" /\ Statement(w, new, err, err)
    BY <1>8 DEF MarkFailed
  <2>2. /\ new \in Rows /\ new.status = "FAILED" /\ new.progress = r.progress
        /\ new.error /\ new.finished /\ new.started = r.started /\ new.result = r.result
    BY <1>0, <2>1 DEF Rows, Statuses
  <2>3. err \in Runs /\ err.pc = "returnErr" /\ err.job = j /\ err.owns = run[w].owns
    BY <1>0, <2>1 DEF At, Runs
  <2> HIDE DEF new, err
  <2>4. r.status # "ABSENT" =>
          /\ GoodRow(j, new, object)
          /\ AchievedBy(err, new, object)
          /\ AchievedBy(err, r, object)
    BY <1>0, <2>1, <2>2, <2>3 DEF GoodRow, AchievedBy
  <2> QED
    BY <1>8, <2>1, <2>2, <2>3, <2>4, StatementStep DEF MarkFailed
<1> QED
  BY <1>1, <1>2, <1>3, <1>4, <1>5, <1>6, <1>7, <1>8 DEF Handle

\* Every step keeps the invariant.
LEMMA InductiveStep ==
    ASSUME IInv, [Next]_vars
    PROVE  IInv'
<1>1. CASE UNCHANGED vars
  BY <1>1 DEF vars, IInv, TypeOK, Bound, Requested, Achieved, OneOwner, CompletedTaskHasResult
<1>2. ASSUME NEW j \in Jobs, Request(j) \/ ApiCrash(j)
      PROVE  IInv'
  BY <1>2, RequestStep
<1>3. ASSUME NEW j \in Jobs, Recover(j)
      PROVE  IInv'
  BY <1>3, RecoverStep
<1>4. ASSUME NEW w \in Workers, Handle(w)
      PROVE  IInv'
  BY <1>4, HandleStep
<1>5. ASSUME NEW w \in Workers, Disturb(w)
      PROVE  IInv'
  BY <1>5, HandleStep, DisturbStep DEF Disturb
<1>6. ASSUME NEW w \in Workers, NEW j \in Jobs, Deliver(w, j)
      PROVE  IInv'
  BY <1>6, DeliverStep
<1> QED
  BY <1>1, <1>2, <1>3, <1>4, <1>5, <1>6 DEF Next

\* The invariant holds throughout.
LEMMA Inductive == Spec => []IInv
<1>1. Init => IInv
  BY InitInv
<1>2. IInv /\ [Next]_vars => IInv'
  BY InductiveStep
<1> QED
  BY <1>1, <1>2, PTL DEF Spec

-----------------------------------------------------------------------------
(* The theorems.                                                           *)

(* Every variable keeps its type.                                          *)
THEOREM TypeCorrect == Spec => []TypeOK
<1>1. IInv => TypeOK
  BY DEF IInv
<1> QED
  BY <1>1, Inductive, PTL

(* No update of the worker can violate chk_export_progress.                *)
THEOREM ProgressSafe == Spec => []ProgressInRange
<1>1. IInv => ProgressInRange
  BY DEF IInv, GoodRow, ProgressInRange
<1> QED
  BY <1>1, Inductive, PTL

(* A recorded result is in COS, whatever the attempts went through.        *)
THEOREM ResultSafe == Spec => []ResultIsStored
<1>1. IInv => ResultIsStored
  BY DEF IInv, GoodRow, ResultIsStored
<1> QED
  BY <1>1, Inductive, PTL

(* The fields of a row agree with its status.                              *)
THEOREM RowSafe == Spec => []RowConsistent
<1>1. IInv => RowConsistent
  BY DEF IInv, GoodRow, RowConsistent
<1> QED
  BY <1>1, Inductive, PTL

(* Behind every 201 there is a row and a task.                             *)
THEOREM PromiseSafe == Spec => []PromisedJobIsScheduled
<1>1. IInv => PromisedJobIsScheduled
  BY DEF IInv, Requested, PromisedJobIsScheduled
<1> QED
  BY <1>1, Inductive, PTL

(* asynq drops no task as completed before its result is recorded.         *)
THEOREM CompletionSafe == Spec => []CompletedTaskHasResult
<1>1. IInv => CompletedTaskHasResult
  BY DEF IInv
<1> QED
  BY <1>1, Inductive, PTL

\* A statement never removes a row nor, when the new row has it, a result.
LEMMA StatementKeeps ==
    ASSUME IInv, NEW w \in Workers, run[w].job \in Jobs, NEW new, NEW onOk, NEW onErr,
           Statement(w, new, onOk, onErr),
           row[run[w].job].result => new.result
    PROVE  \A j \in Jobs : row[j].result => row'[j].result
BY DEF Statement, Update, IInv, TypeOK

\* No step takes a result away from a job that Create does not roll back.
LEMMA ResultKeptStep ==
    ASSUME IInv, [Next]_vars, NEW j \in Jobs, api[j] = "replied", row[j].result
    PROVE  row'[j].result
<1>1. CASE row' = row
  BY <1>1
<1>2. ASSUME NEW i \in Jobs, Request(i) \/ ApiCrash(i) \/ Recover(i)
      PROVE  row'[j].result
  BY <1>2 DEF Request, InsertJob, EnqueueTask, EnqueueFails, RollbackJob, ApiCrash, Recover,
              IInv, TypeOK
<1>3. ASSUME NEW w \in Workers, Handle(w)
      PROVE  row'[j].result
  <2> DEFINE r == row[run[w].job]
  <2>1. run[w].pc # "idle" => run[w].job \in Jobs /\ r \in Rows
    BY DEF IInv, Bound, TypeOK
  <2>2. CASE MarkRunning(w)
    BY <2>1, <2>2, StatementKeeps DEF MarkRunning, Rows
  <2>3. CASE CountRows(w)
    BY <2>1, <2>3, StatementKeeps DEF CountRows
  <2>4. CASE WritePage(w)
    BY <2>1, <2>4, StatementKeeps DEF WritePage, Rows
  <2>5. CASE WriteProject(w)
    BY <2>1, <2>5, StatementKeeps DEF WriteProject, Rows
  <2>6. CASE MarkSucceeded(w)
    BY <2>1, <2>6, StatementKeeps DEF MarkSucceeded, Rows
  <2>7. CASE MarkFailed(w)
    BY <2>1, <2>7, StatementKeeps DEF MarkFailed, Rows
  <2>8. CASE LoadJob(w) \/ LastProject(w) \/ PutResult(w) \/ Return(w)
    BY <2>8 DEF LoadJob, LastProject, PutResult, Return
  <2> QED
    BY <1>3, <2>2, <2>3, <2>4, <2>5, <2>6, <2>7, <2>8 DEF Handle
<1>4. ASSUME NEW w \in Workers, Disturb(w) \/ (\E i \in Jobs : Deliver(w, i))
      PROVE  row'[j].result
  BY <1>4 DEF Disturb, BuildFails, Timeout, LoseLease, Shutdown, Crash, Deliver
<1> QED
  BY <1>1, <1>2, <1>3, <1>4 DEF Next, vars

\* The reply is the last thing a request does.
LEMMA RepliedStep ==
    ASSUME IInv, [Next]_vars, NEW j \in Jobs, api[j] = "replied"
    PROVE  api'[j] = "replied"
BY DEF Next, vars, IInv, TypeOK, Request, InsertJob, EnqueueTask, EnqueueFails, RollbackJob,
       ApiCrash, Recover, Deliver, Disturb, Timeout, LoseLease, Shutdown, Crash, Handle,
       LoadJob, MarkRunning, CountRows, WritePage, WriteProject, LastProject, BuildFails,
       PutResult, MarkSucceeded, MarkFailed, Return

(* A job the client was told of never loses its row or its result.         *)
THEOREM ResultKept == Spec => ResultIsKept
<1> DEFINE Kept == \A j \in Jobs : api[j] = "replied" =>
                      /\ row'[j].status # "ABSENT"
                      /\ row[j].result => row'[j].result
<1>1. IInv /\ [Next]_vars => [Kept]_vars
  <2> SUFFICES ASSUME IInv, [Next]_vars, NEW j \in Jobs, api[j] = "replied"
               PROVE  /\ row'[j].status # "ABSENT"
                      /\ row[j].result => row'[j].result
    OBVIOUS
  <2>1. row'[j].status # "ABSENT"
    BY InductiveStep, RepliedStep DEF IInv, Requested
  <2> QED
    BY <2>1, ResultKeptStep
<1>2. Spec => [][Kept]_vars
  BY <1>1, Inductive, PTL DEF Spec
<1> QED
  BY <1>2 DEF ResultIsKept

\* A statement of goroutine w touches no row but that of its job.
LEMMA StatementFrame ==
    ASSUME IInv, NEW w \in Workers, NEW new, NEW onOk, NEW onErr,
           Statement(w, new, onOk, onErr)
    PROVE  \A j \in Jobs : j # run[w].job => row'[j] = row[j]
BY DEF Statement, Update, IInv, TypeOK

\* So the handler writes the row of its own job only, and no other step of a
\* goroutine writes one at all.
LEMMA HandlerFrame ==
    ASSUME IInv, NEW w \in Workers, Handle(w)
    PROVE  \A j \in Jobs : j # run[w].job => row'[j] = row[j]
<1>1. CASE MarkRunning(w)
  BY <1>1, StatementFrame DEF MarkRunning
<1>2. CASE CountRows(w)
  BY <1>2, StatementFrame DEF CountRows
<1>3. CASE WritePage(w)
  BY <1>3, StatementFrame DEF WritePage
<1>4. CASE WriteProject(w)
  BY <1>4, StatementFrame DEF WriteProject
<1>5. CASE MarkSucceeded(w)
  BY <1>5, StatementFrame DEF MarkSucceeded
<1>6. CASE MarkFailed(w)
  BY <1>6, StatementFrame DEF MarkFailed
<1>7. CASE LoadJob(w) \/ LastProject(w) \/ PutResult(w) \/ Return(w)
  BY <1>7 DEF LoadJob, LastProject, PutResult, Return
<1> QED
  BY <1>1, <1>2, <1>3, <1>4, <1>5, <1>6, <1>7 DEF Handle

\* A goroutine takes up no other job and settled tasks stay as they are.
LEMMA SettledStep ==
    ASSUME IInv, Next, NEW j \in Jobs,
           Settled(j), Quiet(j), api[j] \in {"replied", "refused"}
    PROVE  /\ task'[j] = task[j]
           /\ api'[j] = api[j]
           /\ \A w \in Workers : run'[w].job # j
           /\ row'[j] = row[j]
<1>1. ASSUME NEW i \in Jobs, Request(i) \/ ApiCrash(i)
      PROVE  UNCHANGED <<task[j], api[j], row[j], run>>
  BY <1>1 DEF Request, InsertJob, EnqueueTask, EnqueueFails, RollbackJob, ApiCrash, IInv, TypeOK
<1>2. ASSUME NEW i \in Jobs, Recover(i)
      PROVE  UNCHANGED <<task[j], api[j], row[j], run>>
  BY <1>2 DEF Recover, Charge, Settled, IInv, TypeOK
<1>3. ASSUME NEW w \in Workers, Handle(w)
      PROVE  UNCHANGED <<task[j], api[j], row[j]>> /\ run'[w].job # j
             /\ \A v \in Workers : v # w => run'[v] = run[v]
  <2>1. UNCHANGED row[j]
    BY <1>3, HandlerFrame DEF Quiet
  <2>2. UNCHANGED <<task[j], api[j]>>
    BY <1>3 DEF Handle, LoadJob, MarkRunning, CountRows, WritePage, WriteProject, LastProject,
                PutResult, MarkSucceeded, MarkFailed, Return, Charge, Quiet, IInv, TypeOK
  <2>3. /\ run'[w].job # j
        /\ \A v \in Workers : v # w => run'[v] = run[v]
    <3>1. /\ run \in [Workers -> Runs] /\ run[w] \in Runs /\ run[w].job # j
          /\ \A l : At(w, l).job = run[w].job
          /\ Idle.job # j
      BY ExportAssumption DEF Quiet, IInv, TypeOK, At, Runs, Idle
    <3>2. \E g : run' = [run EXCEPT ![w] = g] /\ g.job # j
      <4>1. CASE LoadJob(w) \/ LastProject(w) \/ PutResult(w) \/ Return(w)
        BY <3>1, <4>1 DEF LoadJob, LastProject, PutResult, Return
      <4>2. CASE MarkRunning(w) \/ MarkSucceeded(w) \/ MarkFailed(w)
        BY <3>1, <4>2 DEF MarkRunning, MarkSucceeded, MarkFailed, Statement
      <4>3. CASE CountRows(w)
        <5>1. PICK n : run' = [run EXCEPT ![w] = [At(w, "page") EXCEPT !.total = n]]
                       \/ run' = [run EXCEPT ![w] = At(w, "fail")]
          BY <4>3 DEF CountRows, Statement
        <5>2. [At(w, "page") EXCEPT !.total = n].job # j
          BY <3>1 DEF At, Runs
        <5> QED
          BY <3>1, <5>1, <5>2
      <4>4. CASE WritePage(w)
        <5>1. PICK l, n : run' = [run EXCEPT ![w] = [At(w, l) EXCEPT !.processed = n]]
                          \/ run' = [run EXCEPT ![w] = At(w, "fail")]
          BY <4>4 DEF WritePage, Statement
        <5>2. [At(w, l) EXCEPT !.processed = n].job # j
          BY <3>1 DEF At, Runs
        <5> QED
          BY <3>1, <5>1, <5>2
      <4>5. CASE WriteProject(w)
        <5>1. PICK n : run' = [run EXCEPT ![w] = [run[w] EXCEPT !.processed = n]]
                       \/ run' = [run EXCEPT ![w] = At(w, "fail")]
          BY <4>5 DEF WriteProject, Statement
        <5>2. [run[w] EXCEPT !.processed = n].job # j
          BY <3>1 DEF Runs
        <5> QED
          BY <3>1, <5>1, <5>2
      <4> QED
        BY <1>3, <4>1, <4>2, <4>3, <4>4, <4>5 DEF Handle
    <3> QED
      BY <3>1, <3>2
  <2> QED
    BY <2>1, <2>2, <2>3
<1>4. ASSUME NEW w \in Workers, Disturb(w)
      PROVE  UNCHANGED <<task[j], api[j], row[j]>> /\ \A v \in Workers : run'[v].job # j
  BY <1>4, ExportAssumption DEF Disturb, BuildFails, Timeout, LoseLease, Shutdown, Crash, Charge,
         At, Runs, Idle, Quiet, IInv, TypeOK
<1>5. ASSUME NEW w \in Workers, NEW i \in Jobs, Deliver(w, i)
      PROVE  UNCHANGED <<task[j], api[j], row[j]>> /\ \A v \in Workers : run'[v].job # j
  BY <1>5 DEF Deliver, Idle, Settled, Quiet, IInv, TypeOK
<1> QED
  BY <1>1, <1>2, <1>3, <1>4, <1>5 DEF Next, Quiet

(* The row of a job whose queue entry is settled, whose request is answered  *)
(* and on which no goroutine works is not written by any step.              *)
THEOREM QuietRowFinal == Spec => QuietRowIsFinal
<1> DEFINE Final == \A j \in Jobs :
               Settled(j) /\ Quiet(j) /\ api[j] \in {"replied", "refused"} => row'[j] = row[j]
<1>1. IInv /\ [Next]_vars => [Final]_vars
  BY SettledStep
<1>2. Spec => [][Final]_vars
  BY <1>1, Inductive, PTL DEF Spec
<1> QED
  BY <1>2 DEF QuietRowIsFinal

(* And no step ends that state: what a poll returns then, it returns always. *)
THEOREM FinalForEver ==
    ASSUME NEW j \in Jobs, NEW r
    PROVE  LET Final == /\ Settled(j) /\ Quiet(j) /\ api[j] \in {"replied", "refused"}
                        /\ row[j] = r
           IN  Spec => [](Final => []Final)
<1> DEFINE Final == /\ Settled(j) /\ Quiet(j) /\ api[j] \in {"replied", "refused"}
                    /\ row[j] = r
<1>1. IInv /\ [Next]_vars /\ Final => Final'
  BY SettledStep DEF Settled, Quiet, vars
<1>2. Spec => [](Final => []Final)
  BY <1>1, Inductive, PTL DEF Spec
<1> QED
  BY <1>2

-----------------------------------------------------------------------------
(* The contract.                                                           *)

\* What a step of goroutine w may do to the rows, and where it may go.
RowsKept(w) ==
    \A j \in Jobs : /\ row'[j].status = "ABSENT" <=> row[j].status = "ABSENT"
                    /\ row[j].result => row'[j].result
                    /\ j # run[w].job => row'[j] = row[j]

MovesTo(w, g) ==
    /\ run' = [run EXCEPT ![w] = g]
    /\ g.job = run[w].job \/ (g.job = NoJob /\ row' = row)

\* A statement keeps the rows when what it writes takes nothing back.
LEMMA StatementMoves ==
    ASSUME IInv, NEW w \in Workers, run[w].job \in Jobs, NEW new, NEW onOk, NEW onErr,
           Statement(w, new, onOk, onErr),
           onOk.job = run[w].job, onErr.job = run[w].job,
           row[run[w].job].status # "ABSENT" => new.status # "ABSENT",
           row[run[w].job].result => new.result
    PROVE  RowsKept(w) /\ \E g : MovesTo(w, g)
<1>1. RowsKept(w)
  BY DEF Statement, Update, IInv, TypeOK, RowsKept
<1>2. MovesTo(w, onOk) \/ MovesTo(w, onErr)
  BY DEF Statement, MovesTo
<1> QED
  BY <1>1, <1>2

\* Every step of a goroutine is local to its job.
LEMMA GoroutineStep ==
    ASSUME IInv, NEW w \in Workers, Handle(w) \/ Disturb(w)
    PROVE  /\ run[w].job \in Jobs
           /\ RowsKept(w)
           /\ \A j \in Jobs : j # run[w].job => task'[j] = task[j]
           /\ api' = api
           /\ \E g : MovesTo(w, g)
<1> DEFINE k == run[w].job
           r == row[k]
<1>1. run[w].pc # "idle"
  <2>1. run[w].owns => run[w].pc # "idle"
    BY DEF IInv, Bound, Idle
  <2> QED
    BY <2>1 DEF Handle, LoadJob, MarkRunning, CountRows, WritePage, WriteProject, LastProject,
                PutResult, MarkSucceeded, MarkFailed, Return,
                Disturb, BuildFails, Timeout, LoseLease, Shutdown, Crash
<1>2. k \in Jobs /\ r \in Rows /\ run[w] \in Runs
  BY <1>1 DEF IInv, Bound, TypeOK
<1>3. \A l : At(w, l).job = k
  BY <1>2 DEF At, Runs
<1>4. \A j \in Jobs : j # k => task'[j] = task[j]
  BY DEF Handle, LoadJob, MarkRunning, CountRows, WritePage, WriteProject, LastProject,
         PutResult, MarkSucceeded, MarkFailed, Return, Charge,
         Disturb, BuildFails, Timeout, LoseLease, Shutdown, Crash, IInv, TypeOK
<1>5. api' = api
  BY DEF Handle, LoadJob, MarkRunning, CountRows, WritePage, WriteProject, LastProject,
         PutResult, MarkSucceeded, MarkFailed, Return,
         Disturb, BuildFails, Timeout, LoseLease, Shutdown, Crash
<1>6. row' = row => RowsKept(w)
  BY DEF RowsKept
<1>7. RowsKept(w) /\ \E g : MovesTo(w, g)
  <2>1. CASE LoadJob(w) \/ LastProject(w) \/ PutResult(w) \/ BuildFails(w)
    <3>1. row' = row /\ \E l : run' = [run EXCEPT ![w] = At(w, l)]
      BY <2>1 DEF LoadJob, LastProject, PutResult, BuildFails
    <3> QED
      BY <1>3, <1>6, <3>1 DEF MovesTo
  <2>2. CASE Return(w) \/ Crash(w)
    <3>1. row' = row /\ run' = [run EXCEPT ![w] = Idle] /\ Idle.job = NoJob
      BY <2>2 DEF Return, Crash, Idle
    <3> QED
      BY <1>6, <3>1 DEF MovesTo
  <2>3. CASE Timeout(w) \/ LoseLease(w) \/ Shutdown(w)
    <3>1. row' = row /\ \E c : \/ run' = [run EXCEPT ![w].ctx = c, ![w].owns = FALSE]
                             \/ run' = [run EXCEPT ![w].owns = FALSE]
      BY <2>3 DEF Timeout, LoseLease, Shutdown
    <3>2. PICK c : \/ run' = [run EXCEPT ![w].ctx = c, ![w].owns = FALSE]
                   \/ run' = [run EXCEPT ![w].owns = FALSE]
      BY <3>1
    <3>3. /\ [run[w] EXCEPT !.ctx = c, !.owns = FALSE].job = k
          /\ [run[w] EXCEPT !.owns = FALSE].job = k
      BY <1>2 DEF Runs
    <3>4. \/ run' = [run EXCEPT ![w] = [run[w] EXCEPT !.ctx = c, !.owns = FALSE]]
          \/ run' = [run EXCEPT ![w] = [run[w] EXCEPT !.owns = FALSE]]
      BY <3>2 DEF IInv, TypeOK
    <3> QED
      BY <1>6, <3>1, <3>3, <3>4 DEF MovesTo
  <2>4. CASE MarkRunning(w)
    <3>1. [r EXCEPT !.status = "RUNNING", !.started = TRUE].status = "RUNNING"
          /\ [r EXCEPT !.status = "RUNNING", !.started = TRUE].result = r.result
      BY <1>2 DEF Rows
    <3> QED
      BY <1>2, <1>3, <2>4, <3>1, StatementMoves DEF MarkRunning
  <2>5. CASE CountRows(w)
    <3>1. PICK n : Statement(w, r, [At(w, "page") EXCEPT !.total = n], At(w, "fail"))
      BY <2>5 DEF CountRows
    <3>2. [At(w, "page") EXCEPT !.total = n].job = k
      BY <1>2 DEF At, Runs
    <3> QED
      BY <1>2, <1>3, <3>1, <3>2, StatementMoves
  <2>6. CASE WritePage(w) \/ WriteProject(w)
    <3>1. PICK p, ok : /\ Statement(w, [r EXCEPT !.progress = p], ok, At(w, "fail"))
                       /\ ok.job = k
      <4>1. CASE WritePage(w)
        <5>1. PICK n : Statement(w,
                  [r EXCEPT !.progress = Percent(run[w].processed + n, run[w].total)],
                  [At(w, IF n < PageSize THEN "put" ELSE "page")
                      EXCEPT !.processed = run[w].processed + n],
                  At(w, "fail"))
          BY <4>1 DEF WritePage
        <5>2. \A l, m : [At(w, l) EXCEPT !.processed = m].job = k
          BY <1>2 DEF At, Runs
        <5> QED
          BY <5>1, <5>2
      <4>2. CASE WriteProject(w)
        <5>1. Statement(w,
                  [r EXCEPT !.progress = Percent(run[w].processed + 1, run[w].total)],
                  [run[w] EXCEPT !.processed = run[w].processed + 1], At(w, "fail"))
          BY <4>2 DEF WriteProject
        <5>2. \A m : [run[w] EXCEPT !.processed = m].job = k
          BY <1>2 DEF Runs
        <5> QED
          BY <5>1, <5>2
      <4> QED
        BY <2>6, <4>1, <4>2
    <3>2. [r EXCEPT !.progress = p].status = r.status /\ [r EXCEPT !.progress = p].result = r.result
      BY <1>2 DEF Rows
    <3> QED
      BY <1>2, <1>3, <3>1, <3>2, StatementMoves
  <2>7. CASE MarkSucceeded(w)
    <3> DEFINE new == [r EXCEPT !.status = "SUCCEEDED", !.progress = 100,
                                !.result = TRUE, !.error = FALSE, !.finished = TRUE]
    <3>1. new.status = "SUCCEEDED" /\ new.result
      BY <1>2 DEF Rows
    <3>2. Statement(w, new, At(w, "returnOk"), At(w, "returnErr"))
      BY <2>7 DEF MarkSucceeded
    <3> HIDE DEF new
    <3> QED
      BY <1>2, <1>3, <3>1, <3>2, StatementMoves
  <2>8. CASE MarkFailed(w)
    <3> DEFINE new == [r EXCEPT !.status = "FAILED", !.error = TRUE, !.finished = TRUE]
    <3>1. new.status = "FAILED" /\ new.result = r.result
      BY <1>2 DEF Rows
    <3>2. Statement(w, new, At(w, "returnErr"), At(w, "returnErr"))
      BY <2>8 DEF MarkFailed
    <3> HIDE DEF new
    <3> QED
      BY <1>2, <1>3, <3>1, <3>2, StatementMoves
  <2> QED
    BY <2>1, <2>2, <2>3, <2>4, <2>5, <2>6, <2>7, <2>8 DEF Handle, Disturb
<1> QED
  BY <1>2, <1>4, <1>5, <1>7

\* What the client sees of one job, now and after the step.
LEMMA SeenNow ==
    ASSUME NEW j \in Jobs
    PROVE  /\ Seen[j].answer = Answer(j) /\ Seen[j].found = Found(j) /\ Seen[j].over = Over(j)
           /\ Seen[j] = [answer |-> Seen[j].answer, found |-> Seen[j].found, over |-> Seen[j].over]
BY DEF Seen

LEMMA SeenNext ==
    ASSUME NEW j \in Jobs
    PROVE  /\ Seen'[j].answer = Answer(j)' /\ Seen'[j].found = Found(j)' /\ Seen'[j].over = Over(j)'
           /\ Seen'[j] = [answer |-> Seen'[j].answer, found |-> Seen'[j].found,
                          over |-> Seen'[j].over]
BY DEF Seen

\* What replacing one part of it yields.
LEMMA SeenExcept ==
    ASSUME NEW a, NEW f, NEW o, NEW n
    PROVE  LET old == [answer |-> a, found |-> f, over |-> o] IN
           /\ [old EXCEPT !.answer = n] = [answer |-> n, found |-> f, over |-> o]
           /\ [old EXCEPT !.found = n] = [answer |-> a, found |-> n, over |-> o]
           /\ [old EXCEPT !.over = n] = [answer |-> a, found |-> f, over |-> n]
OBVIOUS

\* It sees a change only of the stores and the goroutines.
LEMMA SameSeen ==
    ASSUME NEW j \in Jobs, Answer(j)' = Answer(j), Found(j)' = Found(j), Over(j)' = Over(j)
    PROVE  Seen'[j] = Seen[j]
BY SeenNow, SeenNext

LEMMA SameStores ==
    ASSUME NEW j \in Jobs, row'[j] = row[j], task'[j] = task[j], api'[j] = api[j],
           Quiet(j)' <=> Quiet(j)
    PROVE  Answer(j)' = Answer(j) /\ Found(j)' = Found(j) /\ Over(j)' = Over(j)
<1>1. Answer(j)' = Answer(j)
  BY DEF Answer
<1>2. Found(j)' = Found(j)
  BY DEF Found
<1>3. Settled(j)' <=> Settled(j)
  BY DEF Settled
<1> QED
  BY <1>1, <1>2, <1>3 DEF Over

\* What the three parts can be.
LEMMA SeenValues ==
    ASSUME NEW j \in Jobs
    PROVE  /\ Answer(j) \in {"none", "created", "refused"}
           /\ Found(j) \in {"none", "waiting", "ready"}
           /\ Over(j) \in {"no", "done", "gaveUp"}
BY DEF Answer, Found, Over

LEMMA SeenValuesNext ==
    ASSUME NEW j \in Jobs
    PROVE  /\ Answer(j)' \in {"none", "created", "refused"}
           /\ Found(j)' \in {"none", "waiting", "ready"}
           /\ Over(j)' \in {"no", "done", "gaveUp"}
BY DEF Answer, Found, Over

\* A job the queue has completed shows its file, or was rolled back.
LEMMA DoneIsFound == IInv => \A j \in Jobs : Over(j) = "done" => Found(j) # "waiting"
BY DEF IInv, CompletedTaskHasResult, Over, Found

LEMMA DoneIsFoundNext == IInv' => \A j \in Jobs : Over(j)' = "done" => Found(j)' # "waiting"
BY DEF IInv, CompletedTaskHasResult, Over, Found

\* A step that shows in one job, and there as a step of the contract, is one.
LEMMA OneJob ==
    ASSUME NEW k \in Jobs,
           \A i \in Jobs : i # k => Seen'[i] = Seen[i],
           Seen'[k] = Seen[k] \/ Contract!Step(Seen[k], Seen'[k])
    PROVE  [Contract!Next]_Seen
<1> DEFINE S == Seen
           T == Seen'
<1>1. S = [i \in Jobs |-> S[i]] /\ T = [i \in Jobs |-> T[i]]
  BY DEF Seen
<1> HIDE DEF S, T
<1>2. T = [S EXCEPT ![k] = T[k]]
  <2>1. \A i \in Jobs : i # k => T[i] = S[i]
    BY DEF S, T
  <2> QED
    BY <1>1, <2>1
<1>3. CASE Contract!Step(Seen[k], Seen'[k])
  BY <1>2, <1>3 DEF Contract!Next, S, T
<1>4. CASE T[k] = S[k]
  <2>1. T = S
    BY <1>1, <1>2, <1>4
  <2> QED
    BY <2>1 DEF S, T
<1> QED
  BY <1>3, <1>4 DEF S, T

\* A step that leaves the requests alone and takes nothing back from the rows
\* finishes job k, concludes it, or does not show.
LEMMA LocalStep ==
    ASSUME IInv', NEW k \in Jobs, api' = api,
           \A i \in Jobs : i # k => /\ row'[i] = row[i]
                                    /\ task'[i] = task[i]
                                    /\ Quiet(i)' <=> Quiet(i),
           row'[k].status = "ABSENT" <=> row[k].status = "ABSENT",
           row[k].result => row'[k].result,
           Over(k) # "no" => Found(k)' = Found(k) /\ Over(k)' = Over(k),
           Found(k)' # Found(k) => Over(k)' = "no"
    PROVE  [Contract!Next]_Seen
<1>1. ASSUME NEW i \in Jobs, i # k PROVE Seen'[i] = Seen[i]
  <2>1. Answer(i)' = Answer(i) /\ Found(i)' = Found(i) /\ Over(i)' = Over(i)
    BY <1>1, SameStores
  <2> QED
    BY <2>1, SameSeen
<1>2. Answer(k)' = Answer(k)
  BY DEF Answer
<1>3. CASE Found(k)' = Found(k) /\ Over(k)' = Over(k)
  <2>1. Seen'[k] = Seen[k]
    BY <1>2, <1>3, SameSeen
  <2> QED
    BY <1>1, <2>1, OneJob
<1>4. CASE Found(k)' # Found(k)
  <2>1. Found(k) = "waiting" /\ Found(k)' = "ready"
    BY <1>4 DEF Found
  <2>2. Over(k) = "no" /\ Over(k)' = "no"
    BY <1>4
  <2>3. Contract!Step(Seen[k], Seen'[k])
    <3>1. /\ Seen[k] = [answer |-> Answer(k), found |-> "waiting", over |-> "no"]
          /\ Seen'[k] = [answer |-> Answer(k), found |-> "ready", over |-> "no"]
      BY <1>2, <2>1, <2>2, SeenNow, SeenNext
    <3>2. Seen'[k] = [Seen[k] EXCEPT !.found = "ready"]
      BY <3>1, SeenExcept
    <3> QED
      BY <3>1, <3>2 DEF Contract!Step, Contract!Finish
  <2> QED
    BY <1>1, <2>3, OneJob
<1>5. CASE Found(k)' = Found(k) /\ Over(k)' # Over(k)
  <2>1. Over(k) = "no" /\ Over(k)' \in {"done", "gaveUp"}
    BY <1>5, SeenValuesNext
  <2>2. Answer(k) # "none"
    BY <1>2, <2>1 DEF Over
  <2>3. Over(k)' \in Contract!Conclusions(Found(k))
    BY <1>5, <2>1, DoneIsFoundNext DEF Contract!Conclusions
  <2>4. Contract!Step(Seen[k], Seen'[k])
    <3>1. Seen'[k] = [Seen[k] EXCEPT !.over = Over(k)'] /\ Seen'[k] # Seen[k]
      <4>1. /\ Seen[k] = [answer |-> Answer(k), found |-> Found(k), over |-> Over(k)]
            /\ Seen'[k] = [answer |-> Answer(k), found |-> Found(k), over |-> Over(k)']
        BY <1>2, <1>5, SeenNow, SeenNext
      <4> QED
        BY <1>5, <4>1, SeenExcept
    <3>2. Seen[k].answer # "none" /\ Seen[k].over = "no" /\ Seen[k].found = Found(k)
      BY <2>1, <2>2, SeenNow, SeenNext
    <3> QED
      BY <2>3, <3>1, <3>2 DEF Contract!Step, Contract!Conclude
  <2> QED
    BY <1>1, <2>4, OneJob
<1> QED
  BY <1>3, <1>4, <1>5

\* The steps of the goroutines.
LEMMA GoroutineImplements ==
    ASSUME IInv, IInv', Next, NEW w \in Workers, Handle(w) \/ Disturb(w)
    PROVE  [Contract!Next]_Seen
<1>0. run[w].job \in Jobs
  BY GoroutineStep
<1> PICK k \in Jobs : k = run[w].job
  BY <1>0
<1>1. /\ RowsKept(w) /\ api' = api
      /\ \A j \in Jobs : j # k => task'[j] = task[j]
  BY GoroutineStep
<1>2. PICK g : MovesTo(w, g)
  BY GoroutineStep
<1>3. /\ run'[w] = g /\ \A v \in Workers : v # w => run'[v] = run[v]
      /\ g.job = k \/ (g.job = NoJob /\ row' = row)
  BY <1>2 DEF MovesTo, IInv, TypeOK
<1>4. \A i \in Jobs : i # k => (Quiet(i)' <=> Quiet(i))
  BY <1>3, ExportAssumption DEF Quiet
<1>5. Over(k) # "no" => Found(k)' = Found(k) /\ Over(k)' = Over(k)
  <2> SUFFICES ASSUME Over(k) # "no" PROVE Found(k)' = Found(k) /\ Over(k)' = Over(k)
    OBVIOUS
  <2>1. Settled(k) /\ Quiet(k) /\ api[k] \in {"replied", "refused"}
    BY DEF Over, Answer
  <2>2. task'[k] = task[k] /\ api'[k] = api[k] /\ row'[k] = row[k] /\ Quiet(k)'
    BY <1>1, <2>1, SettledStep DEF Quiet
  <2> QED
    BY <1>1, <2>1, <2>2, SameStores
<1>6. Found(k)' # Found(k) => Over(k)' = "no"
  <2> SUFFICES ASSUME Found(k)' # Found(k) PROVE Over(k)' = "no"
    OBVIOUS
  <2>1. row' # row
    BY DEF Found
  <2>2. ~Quiet(k)'
    BY <1>3, <2>1 DEF Quiet
  <2> QED
    BY <2>2 DEF Over
<1>7. \A j \in Jobs : /\ row'[j].status = "ABSENT" <=> row[j].status = "ABSENT"
                      /\ row[j].result => row'[j].result
                      /\ j # k => row'[j] = row[j]
  BY <1>1 DEF RowsKept
<1> QED
  BY <1>1, <1>4, <1>5, <1>6, <1>7, LocalStep

\* The steps of the asynq server that start a goroutine or replace one.
LEMMA QueueImplements ==
    ASSUME IInv, IInv', NEW j \in Jobs,
           Recover(j) \/ \E w \in Workers : Deliver(w, j)
    PROVE  [Contract!Next]_Seen
<1>1. row' = row /\ api' = api /\ task[j].state \in {"queued", "active"}
      /\ \A i \in Jobs : i # j => task'[i] = task[i]
  BY DEF Recover, Deliver, Charge, IInv, TypeOK
<1>2. \A i \in Jobs : i # j => (Quiet(i)' <=> Quiet(i))
  <2>1. CASE Recover(j)
    BY <2>1 DEF Recover, Quiet
  <2>2. ASSUME NEW w \in Workers, Deliver(w, j)
        PROVE  \A i \in Jobs : i # j => (Quiet(i)' <=> Quiet(i))
    <3>1. /\ run[w].job = NoJob /\ run'[w].job = j
          /\ \A v \in Workers : v # w => run'[v] = run[v]
      BY <2>2 DEF Deliver, IInv, TypeOK, Bound, Idle
    <3> QED
      BY <3>1, ExportAssumption DEF Quiet
  <2> QED
    BY <2>1, <2>2
<1>3. Over(j) = "no" /\ Found(j)' = Found(j)
  BY <1>1 DEF Over, Settled, Found
<1> QED
  BY <1>1, <1>2, <1>3, LocalStep

\* The steps of POST /exports.
LEMMA RequestImplements ==
    ASSUME IInv, IInv', NEW j \in Jobs, Request(j) \/ ApiCrash(j)
    PROVE  [Contract!Next]_Seen
<1>1. \A i \in Jobs : i # j => row'[i] = row[i] /\ task'[i] = task[i] /\ api'[i] = api[i]
  BY DEF Request, InsertJob, EnqueueTask, EnqueueFails, RollbackJob, ApiCrash, IInv, TypeOK
<1>2. \A i \in Jobs : Quiet(i)' <=> Quiet(i)
  BY DEF Request, InsertJob, EnqueueTask, EnqueueFails, RollbackJob, ApiCrash, Quiet
<1>3. ASSUME NEW i \in Jobs, i # j PROVE Seen'[i] = Seen[i]
  <2>1. Answer(i)' = Answer(i) /\ Found(i)' = Found(i) /\ Over(i)' = Over(i)
    BY <1>1, <1>2, <1>3, SameStores
  <2> QED
    BY <2>1, SameSeen
<1>4. CASE InsertJob(j)
  <2>1. /\ api[j] = "none" /\ row[j] = NoRow /\ task[j].state = "none"
        /\ row'[j] = PendingRow /\ task'[j] = task[j] /\ api'[j] \in {"inserted", "refused"}
    BY <1>4 DEF InsertJob, IInv, TypeOK, Requested
  <2>2. Answer(j) = "none" /\ Found(j) = "none" /\ Over(j) = "no"
    BY <2>1, RowValues DEF Answer, Found, Over
  <2>3. Answer(j)' \in {"none", "refused"} /\ Found(j)' = "waiting" /\ Over(j)' = "no"
    BY <2>1, RowValues DEF Answer, Found, Over, Settled
  <2>4. Contract!Step(Seen[j], Seen'[j])
    <3>1. Seen[j] = Contract!Unknown
      BY <2>2, SeenNow DEF Contract!Unknown
    <3>2. Seen'[j] = [answer |-> Answer(j)', found |-> "waiting", over |-> "no"]
      BY <2>3, SeenNow, SeenNext
    <3>3. Contract!Insert(Seen[j], Seen'[j])
      BY <2>3, <3>1, <3>2 DEF Contract!Insert
    <3>4. Seen'[j] # Seen[j]
      BY <3>1, <3>2 DEF Contract!Unknown
    <3> QED
      BY <3>3, <3>4 DEF Contract!Step
  <2> QED
    BY <1>3, <2>4, OneJob
<1>5. CASE EnqueueTask(j)
  <2>1. /\ api[j] = "inserted" /\ api'[j] = "replied" /\ row'[j] = row[j]
        /\ row[j].status # "ABSENT" /\ task'[j].state = "queued"
    BY <1>5 DEF EnqueueTask, IInv, TypeOK, Requested, Tasks
  <2>2. Answer(j) = "none" /\ Over(j) = "no" /\ Found(j) # "none"
    BY <2>1 DEF Answer, Found, Over
  <2>3. Answer(j)' = "created" /\ Over(j)' = "no" /\ Found(j)' = Found(j)
    BY <2>1 DEF Answer, Found, Over, Settled
  <2>4. Contract!Step(Seen[j], Seen'[j])
    <3>1. /\ Seen[j] = [answer |-> "none", found |-> Found(j), over |-> "no"]
          /\ Seen'[j] = [answer |-> "created", found |-> Found(j), over |-> "no"]
      BY <2>2, <2>3, SeenNow, SeenNext
    <3>2. Seen'[j] = [Seen[j] EXCEPT !.answer = "created"]
      BY <3>1, SeenExcept
    <3> QED
      BY <2>2, <3>1, <3>2 DEF Contract!Step, Contract!Promise
  <2> QED
    BY <1>3, <2>4, OneJob
<1>6. CASE EnqueueFails(j)
  <2>1. api[j] = "inserted" /\ api'[j] = "rollback" /\ row'[j] = row[j]
    BY <1>6 DEF EnqueueFails, IInv, TypeOK
  <2>2. Answer(j) = "none" /\ Over(j) = "no" /\ Answer(j)' = "none" /\ Over(j)' = "no"
    BY <2>1 DEF Answer, Over
  <2>3. Found(j)' = Found(j)
    BY <2>1 DEF Found
  <2>4. Seen'[j] = Seen[j]
    BY <2>2, <2>3, SameSeen
  <2> QED
    BY <1>3, <2>4, OneJob
<1>7. CASE RollbackJob(j) \/ ApiCrash(j)
  <2>1. /\ api[j] \in {"inserted", "rollback"} /\ api'[j] = "refused"
        /\ row'[j] \in {row[j], NoRow}
    BY <1>7 DEF RollbackJob, ApiCrash, IInv, TypeOK
  <2>2. Answer(j) = "none" /\ Answer(j)' = "refused"
    BY <2>1 DEF Answer
  <2>3. Found(j)' \in {"none", Found(j)}
    BY <2>1, RowValues DEF Found
  <2>4. Over(j)' \in {"no"} \cup Contract!Conclusions(Found(j)')
    BY SeenValuesNext, DoneIsFoundNext DEF Contract!Conclusions
  <2>5. Contract!Step(Seen[j], Seen'[j])
    <3>1. Seen'[j] \in Contract!Views
      <4>1. PICK a, f, o : a = Answer(j)' /\ f = Found(j)' /\ o = Over(j)'
        OBVIOUS
      <4>2. Seen'[j] = [answer |-> a, found |-> f, over |-> o]
        BY <4>1, SeenNext
      <4> QED
        BY <4>1, <4>2, SeenValuesNext DEF Contract!Views
    <3>2. /\ Seen[j].answer = "none" /\ Seen[j].found = Found(j)
          /\ Seen'[j].answer = "refused" /\ Seen'[j].found = Found(j)' /\ Seen'[j].over = Over(j)'
      BY <2>2, SeenNow, SeenNext
    <3> QED
      BY <2>3, <2>4, <3>1, <3>2 DEF Contract!Step, Contract!Refuse
  <2> QED
    BY <1>3, <2>5, OneJob
<1> QED
  BY <1>4, <1>5, <1>6, <1>7 DEF Request

(* The API, the queue and any number of attempts, cut short, repeated or      *)
(* running side by side, look to the client like one job that appears, gets  *)
(* its file at most once, and is then concluded (Service.Create, handleRun). *)
THEOREM Implementation == Spec => PromiseKept
<1>1. Init => Contract!Init
  <2> SUFFICES ASSUME Init PROVE Seen = [j \in Jobs |-> Contract!Unknown]
    BY DEF Contract!Init
  <2>1. \A j \in Jobs : Answer(j) = "none" /\ Found(j) = "none" /\ Over(j) = "no"
    BY RowValues DEF Init, Answer, Found, Over
  <2> QED
    BY <2>1 DEF Seen, Contract!Unknown
<1>2. IInv /\ IInv' /\ [Next]_vars => [Contract!Next]_Seen
  <2>1. ASSUME IInv, IInv', Next PROVE [Contract!Next]_Seen
    BY <2>1, GoroutineImplements, QueueImplements, RequestImplements DEF Next
  <2>2. CASE UNCHANGED vars
    BY <2>2 DEF vars, Seen, Answer, Found, Over, Settled, Quiet
  <2> QED
    BY <2>1, <2>2
<1> QED
  BY <1>1, <1>2, Inductive, PTL DEF Spec, PromiseKept, Contract!Spec

-----------------------------------------------------------------------------
(* The watcher.                                                            *)

\* The events that may be on their way while the object store holds o.
Truthful(o) == {e \in Events :
    e.url => e.type = "done" /\ e.status = "SUCCEEDED" /\ Watched \in o}

WatchInv ==
    /\ wire \in Seq(Truthful(object))
    /\ client \in Views
    /\ ShownLinkWorks

\* Watching reads the row and writes nothing of the export.
LEMMA OnlyWatches == ComposedSpec => Spec
<1>1. [ComposedNext]_allVars => [Next]_vars
  BY DEF ComposedNext, allVars
<1> QED
  BY <1>1, PTL DEF ComposedSpec, Spec

\* An object, once uploaded, stays in COS.
LEMMA ObjectStays ==
    ASSUME [Next]_vars
    PROVE  object \subseteq object'
BY DEF Next, vars, Request, InsertJob, EnqueueTask, EnqueueFails, RollbackJob,
       ApiCrash, Recover, Deliver, Disturb, Timeout, LoseLease, Shutdown, Crash, Handle,
       LoadJob, MarkRunning, CountRows, WritePage, WriteProject, LastProject, BuildFails,
       PutResult, MarkSucceeded, MarkFailed, Return

\* Sequences over a smaller set are sequences over a larger one.
LEMMA SeqWidens ==
    ASSUME NEW S, NEW T, S \subseteq T, NEW s \in Seq(S)
    PROVE  s \in Seq(T)
OBVIOUS

\* What the API writes to the stream, and signs, is the truth at that moment.
LEMMA TruthfulEvents ==
    ASSUME IInv
    PROVE  /\ ProgressEvent \in Truthful(object)
           /\ DoneEvent \in Truthful(object)
           /\ NotFoundEvent \in Truthful(object)
           /\ SignedUrl => theRow.status = "SUCCEEDED" /\ Watched \in object
           /\ SignedUrl \in BOOLEAN
           /\ theRow.status \in Statuses
<1>1. theRow \in Rows /\ (theRow.result => Watched \in object)
  BY WatchAssumption DEF IInv, TypeOK, GoodRow, theRow
<1>2. /\ SignedUrl \in BOOLEAN /\ RowError \in Errors /\ theRow.status \in Statuses
      /\ SignedUrl => theRow.status = "SUCCEEDED" /\ Watched \in object
  BY <1>1 DEF SignedUrl, RowError, Errors, Rows
<1>3. ProgressEvent \in Truthful(object) /\ NotFoundEvent \in Truthful(object)
  BY <1>2 DEF ProgressEvent, NotFoundEvent, Truthful, Events, Errors, Statuses
<1>4. DoneEvent \in Truthful(object)
  BY <1>2 DEF DoneEvent, Truthful, Events
<1> QED
  BY <1>2, <1>3, <1>4

\* Every step of the stream and of the dialog keeps the watcher's invariant.
LEMMA WatchStep ==
    ASSUME IInv, WatchInv, WatchNext, UNCHANGED vars
    PROVE  WatchInv'
<1> DEFINE T == Truthful(object)
<1>0. UNCHANGED <<object, row>> /\ T' = T
  BY DEF vars, Truthful
<1>1. CASE AcceptStream \/ FallBack
  BY <1>0, <1>1 DEF AcceptStream, FallBack, WatchInv, ShownLinkWorks, Views
<1>2. CASE StreamTick
  <2> DEFINE first == IF stream.state = "opening" \/ progressChanged THEN <<ProgressEvent>> ELSE <<>>
             last == IF theRow.status \in Terminal THEN <<DoneEvent>> ELSE <<>>
  <2>1. first \in Seq(T) /\ last \in Seq(T) /\ NotFoundEvent \in T
    BY TruthfulEvents
  <2>2. wire' = Append(wire, NotFoundEvent) \/ wire' = wire \o first \o last
    BY <1>2 DEF StreamTick
  <2> HIDE DEF first, last, T
  <2>3. wire \in Seq(T)
    BY DEF WatchInv, T
  <2>4. wire \o first \in Seq(T) /\ Append(wire, NotFoundEvent) \in Seq(T)
    BY <2>1, <2>3, ConcatProperties, AppendProperties
  <2>5. (wire \o first) \o last \in Seq(T)
    BY <2>1, <2>4, ConcatProperties
  <2>6. wire' \in Seq(T)
    BY <2>2, <2>4, <2>5
  <2> QED
    BY <1>0, <1>2, <2>6 DEF StreamTick, WatchInv, ShownLinkWorks, T
<1>3. CASE CutStream
  <2>1. PICK n \in 0..Len(wire) : wire' = SubSeq(wire, 1, n)
    BY <1>3 DEF CutStream
  <2>2. wire \in Seq(T)
    BY DEF WatchInv
  <2> HIDE DEF T
  <2>3. \A i \in 1..n : wire[i] \in T
    BY <2>1, <2>2, LenProperties
  <2>4. wire' \in Seq(T)
    BY <2>1, <2>2, <2>3, SubSeqProperties, LenProperties
  <2> QED
    BY <1>0, <1>3, <2>4 DEF CutStream, WatchInv, ShownLinkWorks, T
<1>4. CASE Subscribe \/ CloseDialog
  <2>1. /\ InitialView \in Views /\ ~InitialView.url
        /\ \A v \in Views : [v EXCEPT !.mode = "sse"] \in Views
                          /\ [v EXCEPT !.mode = "sse"].url = v.url
    BY DEF InitialView, Views, Statuses, Errors
  <2>2. client' \in Views /\ ~client'.url
    BY <1>4, <2>1 DEF Subscribe, CloseDialog
  <2>3. wire' = <<>>
    BY <1>4 DEF Subscribe, CloseDialog
  <2>4. wire' \in Seq(T)
    BY <2>3
  <2> QED
    BY <1>0, <2>2, <2>4 DEF WatchInv, ShownLinkWorks
<1>5. CASE ReadEvent
  <2>1. wire \in Seq(T) /\ wire # <<>> /\ wire' = Tail(wire)
    BY <1>5 DEF WatchInv, ReadEvent
  <2>2. wire' \in Seq(T) /\ Head(wire) \in T
    BY <2>1, HeadTailProperties
  <2>3. PICK e : e = Head(wire)
    OBVIOUS
  <2>4. e \in Events /\ (e.url => e.type = "done" /\ e.status = "SUCCEEDED" /\ Watched \in object)
    BY <2>2, <2>3 DEF Truthful
  <2>5. ~client.url
    BY <1>5 DEF ReadEvent, WatchInv, ShownLinkWorks
  <2>6. CASE e.type = "progress"
    <3>1. client' = [client EXCEPT !.status = e.status]
      BY <1>5, <2>3, <2>6 DEF ReadEvent
    <3>2. client' \in Views /\ ~client'.url
      BY <2>4, <2>5, <3>1 DEF WatchInv, Views, Events
    <3> QED
      BY <1>0, <2>2, <3>2 DEF WatchInv, ShownLinkWorks
  <2>7. CASE e.type = "done"
    <3>1. client' = [mode |-> "stopped", status |-> e.status,
                     url |-> e.url \/ client.url, error |-> Keep(e.error, client.error)]
      BY <1>5, <2>3, <2>7 DEF ReadEvent
    <3>2. client \in Views /\ e.url \in BOOLEAN /\ Keep(e.error, client.error) \in Errors
      BY <2>4 DEF WatchInv, Views, Events, Keep
    <3>3. client' \in Views /\ (client'.url => e.url)
          /\ client'.mode = "stopped" /\ client'.status = e.status
      BY <2>4, <2>5, <3>1, <3>2 DEF Views, Events
    <3> QED
      BY <1>0, <2>2, <2>4, <3>3 DEF WatchInv, ShownLinkWorks
  <2> QED
    BY <2>4, <2>6, <2>7 DEF Events
<1>6. CASE Poll
  <2>1. ~client.url /\ client \in Views
    BY <1>6 DEF Poll, WatchInv, ShownLinkWorks
  <2>2. CASE client' = [mode |-> IF theRow.status \in Terminal THEN "stopped" ELSE "polling",
                        status |-> theRow.status,
                        url |-> SignedUrl \/ client.url,
                        error |-> Keep(RowError, client.error)]
    <3>1. client' \in Views /\ (client'.url => SignedUrl) /\ client'.status = theRow.status
          /\ (theRow.status \in Terminal => client'.mode = "stopped")
      BY <2>1, <2>2, TruthfulEvents DEF Views, Keep, RowError, Errors
    <3> QED
      BY <1>0, <1>6, <3>1, TruthfulEvents DEF Poll, WatchInv, ShownLinkWorks, Terminal
  <2>3. CASE client' = [client EXCEPT !.mode = "stopped",
                           !.status = IF @ = "ABSENT" THEN "FAILED" ELSE @,
                           !.error = Keep(@, "poll")]
    <3>1. client' \in Views /\ ~client'.url
      BY <2>1, <2>3 DEF Views, Keep, Errors, Statuses
    <3> QED
      BY <1>0, <1>6, <3>1 DEF Poll, WatchInv, ShownLinkWorks
  <2> QED
    BY <1>6, <2>2, <2>3 DEF Poll
<1> QED
  BY <1>1, <1>2, <1>3, <1>4, <1>5, <1>6 DEF WatchNext

(* A link the dialog shows comes with SUCCEEDED and works, however the       *)
(* stream, the polls and the attempts that rewrite the row interleave.      *)
THEOREM ShownLinkAlwaysWorks == ComposedSpec => []ShownLinkWorks
<1>1. Init /\ WatchInit => WatchInv
  BY DEF WatchInit, InitialView, WatchInv, ShownLinkWorks, Views, Statuses, Errors
<1>2. IInv /\ WatchInv /\ [ComposedNext]_allVars => WatchInv'
  <2> SUFFICES ASSUME IInv, WatchInv, [ComposedNext]_allVars
               PROVE  WatchInv'
    OBVIOUS
  <2>1. CASE [Next]_vars /\ UNCHANGED watchVars
    <3>1. Truthful(object) \subseteq Truthful(object')
      BY <2>1, ObjectStays DEF Truthful
    <3>2. wire' \in Seq(Truthful(object'))
      BY <2>1, <3>1, SeqWidens DEF WatchInv, watchVars
    <3> QED
      BY <2>1, <3>2, ObjectStays DEF WatchInv, ShownLinkWorks, watchVars
  <2>2. CASE WatchNext /\ UNCHANGED vars
    BY <2>2, WatchStep
  <2> QED
    BY <2>1, <2>2 DEF ComposedNext, allVars
<1>3. WatchInv => ShownLinkWorks
  BY DEF WatchInv
<1> QED
  BY <1>1, <1>2, <1>3, OnlyWatches, Inductive, PTL DEF ComposedSpec
=============================================================================
