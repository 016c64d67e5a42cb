----------------------------- MODULE ExportJobs -----------------------------
(***************************************************************************)
(* The asynchronous Excel export: POST /exports inserts an export_jobs row *)
(* and enqueues an asynq task (internal/export/service.go); a worker       *)
(* attempt loads the row, marks it RUNNING, builds and uploads the sheet   *)
(* and finalises the row (internal/export/worker.go).  The queue delivers  *)
(* at least once: an attempt that errs, times out, loses its lease, is cut *)
(* short by a shutdown or dies with its process is followed by another,    *)
(* and the goroutine of the old one may still be running.                  *)
(*                                                                         *)
(* Three stores that share no transaction: Postgres (row), Redis (task)    *)
(* and COS (object).                                                       *)
(***************************************************************************)
EXTENDS Naturals, FiniteSets

CONSTANTS
    Jobs,        \* public job uuids
    StatsJobs,   \* the jobs of type PROJECT_STATS; the others are paginated
    Workers,     \* handler goroutines, over all worker processes
    NoJob,       \* what an idle goroutine works on
    MaxRetry,    \* asynq.MaxRetry of the task (3 in the code)
    MaxRows,     \* bound: rows a report can have
    PageSize,    \* rows per page (500 in the code)
    MaxRequests, \* bound: jobs requested
    MaxRestarts, \* bound: worker shutdowns that push a task back
    Faults       \* the faults the environment may inject

AllFaults == {"api", "db", "cos", "build", "timeout", "lease", "shutdown", "crash"}

ASSUME ExportAssumption ==
    /\ StatsJobs \subseteq Jobs
    /\ NoJob \notin Jobs
    /\ MaxRetry \in Nat
    /\ MaxRows \in Nat
    /\ PageSize \in Nat \ {0}
    /\ MaxRequests \in Nat
    /\ MaxRestarts \in Nat
    /\ Faults \subseteq AllFaults

VARIABLES
    row,      \* the export_jobs row of each job
    task,     \* the asynq task of each job, as Redis holds it
    object,   \* the jobs whose .xlsx is in COS
    api,      \* the progress of the POST /exports request that creates the job
    run,      \* the handler goroutines
    restarts  \* shutdowns so far (bound)

vars == <<row, task, object, api, run, restarts>>

-----------------------------------------------------------------------------
(* Values.                                                                 *)

Statuses == {"ABSENT", "PENDING", "RUNNING", "SUCCEEDED", "FAILED"}

\* total_rows and processed_rows only feed the progress bar and are left out;
\* the timestamps and the error text are kept as "set or NULL".
Rows == [status : Statuses, progress : Nat, result : BOOLEAN,
         error : BOOLEAN, started : BOOLEAN, finished : BOOLEAN]

NoRow == [status |-> "ABSENT", progress |-> 0, result |-> FALSE,
          error |-> FALSE, started |-> FALSE, finished |-> FALSE]

Tasks == [state : {"none", "queued", "active", "done", "archived"}, retried : Nat]

ApiStates == {"none", "inserted", "rollback", "replied", "refused"}

Runs == [pc : {"idle", "load", "mark", "count", "page", "put", "succeed",
               "fail", "returnOk", "returnErr"},
         job : Jobs \cup {NoJob},
         ctx : {"live", "cancelled"},
         owns : BOOLEAN,            \* the processor still waits for this goroutine
         total : Nat, processed : Nat]

Idle == [pc |-> "idle", job |-> NoJob, ctx |-> "live", owns |-> FALSE,
         total |-> 0, processed |-> 0]

TypeOK ==
    /\ row \in [Jobs -> Rows]
    /\ task \in [Jobs -> Tasks]
    /\ object \in SUBSET Jobs
    /\ api \in [Jobs -> ApiStates]
    /\ run \in [Workers -> Runs]
    /\ restarts \in Nat

Init ==
    /\ row = [j \in Jobs |-> NoRow]
    /\ task = [j \in Jobs |-> [state |-> "none", retried |-> 0]]
    /\ object = {}
    /\ api = [j \in Jobs |-> "none"]
    /\ run = [w \in Workers |-> Idle]
    /\ restarts = 0

-----------------------------------------------------------------------------
(* Service.Create: INSERT (autocommit), Enqueue, and DELETE on failure.    *)

PendingRow == [NoRow EXCEPT !.status = "PENDING"]

\* The INSERT commits; with an "api" fault its reply is lost and the handler
\* returns 500 without enqueueing.
InsertJob(j) ==
    /\ api[j] = "none"
    /\ Cardinality({k \in Jobs : api[k] # "none"}) < MaxRequests
    /\ row' = [row EXCEPT ![j] = PendingRow]
    /\ \/ api' = [api EXCEPT ![j] = "inserted"]
       \/ /\ "api" \in Faults
          /\ api' = [api EXCEPT ![j] = "refused"]
    /\ UNCHANGED <<task, object, run, restarts>>

EnqueueTask(j) ==
    /\ api[j] = "inserted"
    /\ task' = [task EXCEPT ![j].state = "queued"]
    /\ api' = [api EXCEPT ![j] = "replied"]
    /\ UNCHANGED <<row, object, run, restarts>>

\* Mutant: Create answers 201 although Enqueue failed.
EnqueueFailureIgnored(j) ==
    /\ "api" \in Faults
    /\ api[j] = "inserted"
    /\ api' = [api EXCEPT ![j] = "replied"]
    /\ UNCHANGED <<row, task, object, run, restarts>>

\* Enqueue returned an error: Redis may have stored the task all the same.
EnqueueFails(j) ==
    /\ "api" \in Faults
    /\ api[j] = "inserted"
    /\ \/ task' = [task EXCEPT ![j].state = "queued"]
       \/ task' = task
    /\ api' = [api EXCEPT ![j] = "rollback"]
    /\ UNCHANGED <<row, object, run, restarts>>

\* Mutant: the row is marked CANCELLED instead of being deleted.
RollbackCancels(j) ==
    /\ api[j] = "rollback"
    /\ row' = [row EXCEPT ![j].status = "CANCELLED"]
    /\ api' = [api EXCEPT ![j] = "refused"]
    /\ UNCHANGED <<task, object, run, restarts>>

\* Mutant: the DELETE is repeated in the background after the answer.
RollbackRepeated(j) ==
    /\ api[j] \in {"rollback", "refused"}
    /\ row' = [row EXCEPT ![j] = NoRow]
    /\ api' = [api EXCEPT ![j] = "refused"]
    /\ UNCHANGED <<task, object, run, restarts>>

\* DELETE FROM export_jobs; its error is ignored (it runs on the request's
\* context, which the client may have cancelled).
RollbackJob(j) ==
    /\ api[j] = "rollback"
    /\ \/ row' = [row EXCEPT ![j] = NoRow]
       \/ /\ "api" \in Faults
          /\ row' = row
    /\ api' = [api EXCEPT ![j] = "refused"]
    /\ UNCHANGED <<task, object, run, restarts>>

\* The API process dies between two of the calls above.
ApiCrash(j) ==
    /\ "api" \in Faults
    /\ api[j] \in {"inserted", "rollback"}
    /\ api' = [api EXCEPT ![j] = "refused"]
    /\ UNCHANGED <<row, task, object, run, restarts>>

-----------------------------------------------------------------------------
(* The asynq server around the handler.                                    *)

Settled(j) == task[j].state \in {"done", "archived"}

\* A failed delivery: back to the retry queue, or archived after MaxRetry.
Charge(j) ==
    task' = [task EXCEPT ![j] =
        IF @.retried < MaxRetry THEN [state |-> "queued", retried |-> @.retried + 1]
                                ELSE [@ EXCEPT !.state = "archived"]]

Deliver(w, j) ==
    /\ run[w].pc = "idle"
    /\ task[j].state = "queued"
    /\ task' = [task EXCEPT ![j].state = "active"]
    /\ run' = [run EXCEPT ![w] = [Idle EXCEPT !.pc = "load", !.job = j, !.owns = TRUE]]
    /\ UNCHANGED <<row, object, api, restarts>>

\* The goroutine ends; its result counts only if the processor still waits.
Return(w) ==
    LET j == run[w].job IN
    /\ run[w].pc \in {"returnOk", "returnErr"}
    /\ \/ /\ ~run[w].owns
          /\ task' = task
       \/ /\ run[w].owns
          /\ run[w].pc = "returnErr"
          /\ Charge(j)
       \/ /\ run[w].owns
          /\ run[w].pc = "returnOk"
          /\ task' = [task EXCEPT ![j].state = "done"]
    /\ run' = [run EXCEPT ![w] = Idle]
    /\ UNCHANGED <<row, object, api, restarts>>

\* exportRunTimeout: the context is cancelled and the delivery counted as
\* failed while the goroutine is still on its way out.
Timeout(w) ==
    /\ "timeout" \in Faults
    /\ run[w].owns
    /\ run' = [run EXCEPT ![w].ctx = "cancelled", ![w].owns = FALSE]
    /\ Charge(run[w].job)
    /\ UNCHANGED <<row, object, api, restarts>>

\* Heartbeats no longer reach Redis: the processor gives the task up (the
\* recoverer will pick it up) and cancels the context, which a goroutine of a
\* process that was stalled notices only after its next call.
LoseLease(w) ==
    /\ "lease" \in Faults
    /\ run[w].owns
    /\ \E c \in {"live", "cancelled"} :
          run' = [run EXCEPT ![w].ctx = c, ![w].owns = FALSE]
    /\ UNCHANGED <<row, task, object, api, restarts>>

\* srv.Shutdown after shutdownTimeout: the task is pushed back uncharged; the
\* goroutine runs on, context live, until its process exits.
Shutdown(w) ==
    /\ "shutdown" \in Faults
    /\ restarts < MaxRestarts
    /\ run[w].owns
    /\ run' = [run EXCEPT ![w].owns = FALSE]
    /\ task' = [task EXCEPT ![run[w].job].state = "queued"]
    /\ restarts' = restarts + 1
    /\ UNCHANGED <<row, object, api>>

\* The worker process dies; a task it held stays active under a stale lease.
Crash(w) ==
    /\ "crash" \in Faults
    /\ run[w].pc # "idle"
    /\ run' = [run EXCEPT ![w] = Idle]
    /\ UNCHANGED <<row, task, object, api, restarts>>

\* The recoverer finds an active task whose lease has expired.
Recover(j) ==
    /\ task[j].state = "active"
    /\ \A w \in Workers : ~(run[w].owns /\ run[w].job = j)
    /\ Charge(j)
    /\ UNCHANGED <<row, object, api, run, restarts>>

-----------------------------------------------------------------------------
(* Worker.handleRun.                                                       *)

At(w, l) == [run[w] EXCEPT !.pc = l]

\* UPDATE export_jobs ... WHERE id: no row, no effect and no error.
Update(j, new) ==
    row' = [row EXCEPT ![j] = IF @.status = "ABSENT" THEN @ ELSE new]

\* One autocommitted statement of goroutine w: it succeeds; it commits but its
\* reply is lost; or it fails, as every statement on a cancelled context does.
Statement(w, new, onOk, onErr) ==
    \/ /\ run[w].ctx = "live"
       /\ Update(run[w].job, new)
       /\ \/ run' = [run EXCEPT ![w] = onOk]
          \/ "db" \in Faults /\ run' = [run EXCEPT ![w] = onErr]
    \/ /\ "db" \in Faults \/ run[w].ctx = "cancelled"
       /\ row' = row
       /\ run' = [run EXCEPT ![w] = onErr]

\* percent and clampProgress: 0..100 whatever the rows did since the count.
Clamp(p) == IF p > 100 THEN 100 ELSE p
Percent(processed, total) ==
    IF total = 0 THEN 100 ELSE Clamp((processed * 100) \div total)

LoadJob(w) ==
    /\ run[w].pc = "load"
    /\ \/ /\ run[w].ctx = "live"
          /\ row[run[w].job].status # "ABSENT"
          /\ run' = [run EXCEPT ![w] = At(w, "mark")]
       \/ /\ \/ row[run[w].job].status = "ABSENT"
             \/ "db" \in Faults
             \/ run[w].ctx = "cancelled"
          /\ run' = [run EXCEPT ![w] = At(w, "returnErr")]
    /\ UNCHANGED <<row, task, object, api, restarts>>

\* Mutant: markRunning clears the result of an earlier attempt.
MarkRunningAfresh(w) ==
    /\ run[w].pc = "mark"
    /\ Statement(w, [NoRow EXCEPT !.status = "RUNNING", !.started = TRUE],
                 At(w, "count"), At(w, "returnErr"))
    /\ UNCHANGED <<task, object, api, restarts>>

\* markRunning never looks at the status it overwrites, and leaves progress,
\* error, finished_at and the result of an earlier attempt in place.
MarkRunning(w) ==
    /\ run[w].pc = "mark"
    /\ Statement(w, [row[run[w].job] EXCEPT !.status = "RUNNING", !.started = TRUE],
                 At(w, "count"), At(w, "returnErr"))
    /\ UNCHANGED <<task, object, api, restarts>>

\* The builder counts the rows (or lists the projects) and records the total.
CountRows(w) ==
    /\ run[w].pc = "count"
    /\ \E n \in 0..MaxRows :
          Statement(w, row[run[w].job],
                    [At(w, "page") EXCEPT !.total = n], At(w, "fail"))
    /\ UNCHANGED <<task, object, api, restarts>>

\* A page holds whatever the table holds now, not what was counted: a short
\* page ends the sheet.
WritePage(w) ==
    /\ run[w].pc = "page"
    /\ run[w].job \notin StatsJobs
    /\ \E n \in 0..PageSize :
          LET processed == run[w].processed + n IN
          /\ processed <= MaxRows
          /\ Statement(w,
                [row[run[w].job] EXCEPT !.progress = Percent(processed, run[w].total)],
                [At(w, IF n < PageSize THEN "put" ELSE "page") EXCEPT !.processed = processed],
                At(w, "fail"))
    /\ UNCHANGED <<task, object, api, restarts>>

\* PROJECT_STATS walks the list it counted, one project at a time.
WriteProject(w) ==
    /\ run[w].pc = "page"
    /\ run[w].job \in StatsJobs
    /\ run[w].processed < run[w].total
    /\ LET processed == run[w].processed + 1 IN
       Statement(w,
          [row[run[w].job] EXCEPT !.progress = Percent(processed, run[w].total)],
          [run[w] EXCEPT !.processed = processed], At(w, "fail"))
    /\ UNCHANGED <<task, object, api, restarts>>

\* Mutant: the loop over the projects waits for one more than there are.
LastProjectOffByOne(w) ==
    /\ run[w].pc = "page"
    /\ run[w].job \in StatsJobs
    /\ run[w].processed = run[w].total + 1
    /\ run' = [run EXCEPT ![w] = At(w, "put")]
    /\ UNCHANGED <<row, task, object, api, restarts>>

LastProject(w) ==
    /\ run[w].pc = "page"
    /\ run[w].job \in StatsJobs
    /\ run[w].processed = run[w].total
    /\ run' = [run EXCEPT ![w] = At(w, "put")]
    /\ UNCHANGED <<row, task, object, api, restarts>>

\* A query, the sheet writer or the serialisation fails.
BuildFails(w) ==
    /\ "build" \in Faults
    /\ run[w].pc \in {"count", "page", "put"}
    /\ run' = [run EXCEPT ![w] = At(w, "fail")]
    /\ UNCHANGED <<row, task, object, api, restarts>>

\* Mutant: the error of the upload is ignored.
PutResultUnchecked(w) ==
    /\ run[w].pc = "put"
    /\ object' = object \cup {run[w].job} \/ object' = object
    /\ run' = [run EXCEPT ![w] = At(w, "succeed")]
    /\ UNCHANGED <<row, task, api, restarts>>

\* The key is derived from the job uuid: attempts overwrite one object.
PutResult(w) ==
    /\ run[w].pc = "put"
    /\ \/ /\ run[w].ctx = "live"
          /\ object' = object \cup {run[w].job}
          /\ \/ run' = [run EXCEPT ![w] = At(w, "succeed")]
             \/ "cos" \in Faults /\ run' = [run EXCEPT ![w] = At(w, "fail")]
       \/ /\ "cos" \in Faults \/ run[w].ctx = "cancelled"
          /\ object' = object
          /\ run' = [run EXCEPT ![w] = At(w, "fail")]
    /\ UNCHANGED <<row, task, api, restarts>>

\* Mutant: the error of a failed attempt is left in the row.
MarkSucceededOverError(w) ==
    /\ run[w].pc = "succeed"
    /\ Statement(w,
          [row[run[w].job] EXCEPT !.status = "SUCCEEDED", !.progress = 100,
                                  !.result = TRUE, !.finished = TRUE],
          At(w, "returnOk"), At(w, "returnErr"))
    /\ UNCHANGED <<task, object, api, restarts>>

MarkSucceeded(w) ==
    /\ run[w].pc = "succeed"
    /\ Statement(w,
          [row[run[w].job] EXCEPT !.status = "SUCCEEDED", !.progress = 100,
                                  !.result = TRUE, !.error = FALSE, !.finished = TRUE],
          At(w, "returnOk"), At(w, "returnErr"))
    /\ UNCHANGED <<task, object, api, restarts>>

\* Mutant: handleRun returns nil after markFailed, so asynq drops the task.
MarkFailedSwallowed(w) ==
    /\ run[w].pc = "fail"
    /\ Statement(w,
          [row[run[w].job] EXCEPT !.status = "FAILED", !.error = TRUE, !.finished = TRUE],
          At(w, "returnOk"), At(w, "returnOk"))
    /\ UNCHANGED <<task, object, api, restarts>>

\* Mutant: a failed build returns its error and leaves the row RUNNING.
MarkFailedForgotten(w) ==
    /\ run[w].pc = "fail"
    /\ run' = [run EXCEPT ![w] = At(w, "returnErr")]
    /\ UNCHANGED <<row, task, object, api, restarts>>

\* markFailed on the handler's own context, its error ignored.
MarkFailed(w) ==
    /\ run[w].pc = "fail"
    /\ Statement(w,
          [row[run[w].job] EXCEPT !.status = "FAILED", !.error = TRUE, !.finished = TRUE],
          At(w, "returnErr"), At(w, "returnErr"))
    /\ UNCHANGED <<task, object, api, restarts>>

-----------------------------------------------------------------------------
Request(j) == InsertJob(j) \/ EnqueueTask(j) \/ EnqueueFails(j) \/ RollbackJob(j)

Handle(w) ==
    \/ LoadJob(w) \/ MarkRunning(w) \/ CountRows(w)
    \/ WritePage(w) \/ WriteProject(w) \/ LastProject(w)
    \/ PutResult(w) \/ MarkSucceeded(w) \/ MarkFailed(w) \/ Return(w)

Disturb(w) == BuildFails(w) \/ Timeout(w) \/ LoseLease(w) \/ Shutdown(w) \/ Crash(w)

Next ==
    \/ \E j \in Jobs : Request(j) \/ ApiCrash(j) \/ Recover(j)
    \/ \E w \in Workers : Handle(w) \/ Disturb(w) \/ (\E j \in Jobs : Deliver(w, j))

Spec == Init /\ [][Next]_vars

\* Requests and goroutines run on, a free worker takes a queued task, and the
\* recoverer scans periodically; no fault ever has to happen.
Fairness ==
    /\ \A j \in Jobs : /\ WF_vars(EnqueueTask(j) \/ RollbackJob(j))
                       /\ WF_vars(Recover(j))
                       /\ WF_vars(\E w \in Workers : Deliver(w, j))
    /\ \A w \in Workers : WF_vars(Handle(w))

FairSpec == Spec /\ Fairness

-----------------------------------------------------------------------------
(* What the export promises.                                               *)

\* No goroutine, current or left over, is working on the job.
Quiet(j) == \A w \in Workers : run[w].job # j

(* chk_export_progress can never abort a statement of the worker, however   *)
(* far the rows read run past the rows counted.                            *)
ProgressInRange == \A j \in Jobs : row[j].progress <= 100

(* A row that carries a result key names an object that is in COS, over     *)
(* every mix of attempts, so the result_url the API signs can be fetched.  *)
ResultIsStored == \A j \in Jobs : row[j].result => j \in object

(* What GET /exports shows hangs together whichever attempts wrote it: a    *)
(* SUCCEEDED row has a result, no error and both timestamps, a FAILED row  *)
(* has its error, and a PENDING row was touched by no attempt.             *)
RowConsistent ==
    \A j \in Jobs : LET r == row[j] IN
        /\ r.status = "SUCCEEDED" => r.result /\ ~r.error /\ r.started /\ r.finished
        /\ r.status = "FAILED" => r.error /\ r.started /\ r.finished
        /\ r.status = "PENDING" => r = PendingRow

(* "a client never gets a job that will never run" (service.go:84): behind  *)
(* every 201 there is a row and a task.                                    *)
PromisedJobIsScheduled ==
    \A j \in Jobs : api[j] = "replied" =>
        row[j].status # "ABSENT" /\ task[j].state # "none"

(* When asynq drops a task as completed, the row has its result, or is one  *)
(* that Create rolled back meanwhile.                                      *)
CompletedTaskHasResult ==
    \A j \in Jobs : task[j].state = "done" => row[j].result \/ row[j].status = "ABSENT"

\* What the client is told, what it finds, and what the queue is through with.
Answer(j) == CASE api[j] = "replied" -> "created"
               [] api[j] = "refused" -> "refused"
               [] OTHER -> "none"
Found(j) == IF row[j].status = "ABSENT" THEN "none"
            ELSE IF row[j].result THEN "ready" ELSE "waiting"
Over(j) == IF Answer(j) # "none" /\ Settled(j) /\ Quiet(j)
           THEN IF task[j].state = "done" THEN "done" ELSE "gaveUp"
           ELSE "no"

Seen == [j \in Jobs |-> [answer |-> Answer(j), found |-> Found(j), over |-> Over(j)]]

Contract == INSTANCE ExportPromise WITH job <- Seen

(* The API, the queue and any number of attempts, cut short, repeated or      *)
(* running side by side, look to the client like one job that appears, gets  *)
(* its file at most once, and is then concluded.                             *)
PromiseKept == Contract!Spec

(* A job the client was told of keeps its row, and its result once it has   *)
(* one, through every redelivery.                                          *)
ResultIsKept ==
    [][\A j \in Jobs : api[j] = "replied" =>
          /\ row'[j].status # "ABSENT"
          /\ row[j].result => row'[j].result]_vars

(* Once the queue is done with a job and its last goroutine is gone, the    *)
(* row is final: what a poll returns then it returns forever.              *)
QuietRowIsFinal ==
    [][\A j \in Jobs : Settled(j) /\ Quiet(j) /\ api[j] \in {"replied", "refused"} =>
          row'[j] = row[j]]_vars

(* The queue gives up on or completes every job the client was told of, and *)
(* no goroutine stays behind.                                              *)
PromisedJobSettles ==
    \A j \in Jobs : api[j] = "replied" ~> [](Settled(j) /\ Quiet(j))

\* No attempt has been cut off: none is past its timeout or lease, and no task
\* has lost its goroutine to a crash.
Uncut ==
    /\ \A w \in Workers : run[w].ctx = "live"
    /\ \A j \in Jobs : task[j].state = "active" =>
          \E w \in Workers : run[w].owns /\ run[w].job = j

(* If no attempt is ever cut off (nor its statements fail), the row of every  *)
(* job the client was told of comes to SUCCEEDED or FAILED for good, however *)
(* often builds and uploads fail.                                            *)
PromisedJobEnds ==
    []Uncut => \A j \in Jobs :
        api[j] = "replied" ~> [](row[j].status \in {"SUCCEEDED", "FAILED"})
=============================================================================
