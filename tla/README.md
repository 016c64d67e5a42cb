# Formal models of the 360 camera inspection system

TLA+ models of the backend (`src/backend`, Go) and the admin site
(`src/web-admin`, TypeScript) of the 360 camera inspection and annotation
system, checked with TLC, and proofs about them checked with TLAPS.

## 1. The system

The app records inspections (a track of points, problems, 360 pictures) and
uploads them in batches; the API keeps them in Postgres and pictures in COS; a
worker process derives picture tiers and builds Excel exports; the admin site
shows and edits it all. Processes: any number of API replicas, any number of
workers with many handler goroutines, one Redis (asynq queues, refresh tokens,
rate limits, casbin watcher), one Postgres, COS. Nothing spans two stores in
one transaction, and that is where most of the hard behaviour is.

| Component | State it keeps | Operations | Talks to | Correct when |
|---|---|---|---|---|
| export jobs (`internal/export`) | `export_jobs` row, asynq task, `.xlsx` object | Create, handleRun and its builders, mark* | queue, COS | an accepted job runs, its row never contradicts itself, a recorded result exists, every job ends |
| export watching (`export/sse.go`, `features/exports`, `shared/api/sse.ts`) | last reported row; dialog state | Events, Get; subscribe, fall back, poll | reads the row | a shown link works, a dialog ends with the job's verdict |
| media pipeline (`internal/media`) | `media_assets` rows, COS objects, derive task | UploadCredentials, Confirm, HandleDeriveTiers, Reap | STS, COS, queue | CONFIRMED means verified, tiers share a group and have objects, one derive per picture |
| sync batch (`internal/sync`) | rows of four tables in one transaction with savepoints | Process, upsert* | inspection, problem, media tables | an item is ingested once, reported only when it is there, and never without its owner |
| inspection (`internal/inspection`) | session row, points, route | Start, Finish | points of sync | the route of a finish has every point stored before it; a closed session stays |
| dict, app_config (`internal/dict`) and the site's cache (`shared/dict`) | items, version and hash of a type; versions of a config; one cached copy per browser | item and config writes, conditional reads | problems refer to items | no change without a new version, one active config version, no cached copy older than its version |
| auth session (`internal/auth`, `platform/jwt`, `shared/api/http.ts`, `shared/auth`), rate limiter (`server/middleware`), user management (`internal/user`) | refresh tokens and counters in Redis; accounts; token pair in the browser | Login, Refresh, Logout; single-flight refresh; over; Update, Delete | Redis, Postgres | a token is spent once, only a cause ends a session, no client is refused for ever |
| rbac policy (`internal/rbac`) | role table, casbin rules, a copy in every replica | CreateRole, DeleteRole, SetRolePermissions, SetUserRoles; Authz, Me | watcher | once quiet, every replica decides, and tells the console, by what was asked for |
| problem log (`internal/problem`) | problems, log | Create, Update, Delete, CreateLog | dict | the log tells every status a problem had |
| project lifecycle (`internal/project`) | projects, tasks | Create/Update/Delete | inspection | a code is used once |
| statistics (`internal/stats`) | none | Overview, ProjectsForExport | reads it all | figures add up, the export agrees |
| lists (`List` of every component, the paginated exports, the list pages of the site) | the page a reader is at | count, select a page, next page | the tables they list | no row that stayed is lost or repeated for nothing |
| bootstrap, adapters, pages | none worth a model | | | |

Hard behaviours, in the order they matter: at-least-once delivery with handlers
that are still running when the next one starts; a row, a queue entry and an
object written one after the other with a crash, timeout or lost reply in
between; compensation that may fail; concurrent requests over one row; readers
(event stream, dialog, cache, statistics) that see intermediate rows; READ
COMMITTED transactions that do not see each other's writes; a policy kept in
several memories. `PROJECT.json` lists each
hazard at its line with the properties that would catch it.

## 2. Modules

| Module | Models |
|---|---|
| `ExportJobs` | `export/service.go`, `worker.go`, the builders, and the asynq server around them |
| `ExportPromise` | abstract: what POST and GET `/exports` promise of a job; `ExportJobs` implements it |
| `ExportWatch` | `sse.go`, `handler.go`, `mapping.go` and the admin's `useExportProgress`; extends `ExportJobs`, the two step side by side (`ComposedSpec`) |
| `MediaPipeline` | `media/service.go`, `handler.go`, `worker.go`, `reaper.go`, and `upsertMedia` of `sync/service.go` |
| `PicturePromise` | abstract: what the media endpoints and the derive task promise of a picture; `MediaPipeline` implements it |
| `SyncInspection` | `sync/*.go`, `platform/db/tx.go`, Start and Finish of `inspection/service.go` |
| `ItemLedger` | abstract: what `/sync/batch` promises a device; `SyncInspection` implements it |
| `DictVersioning` | `dict/*.go`, `shared/dict` |
| `Casework` | `project/*.go`, `problem/*.go`, `stats/service.go` (Overview, ProjectsForExport), and the effect of deleting a user on them |
| `AuthSession` | `auth/*.go`, `ratelimit.go`, `rbac.Authn`, `user.Service.Update/Delete`, `shared/api/http.ts`, `shared/auth` |
| `RbacPolicy` | `rbac/*.go`, `auth.Service.Me` |
| `Listing` | the `List` operations of `user`, `problem`, `inspection`, `project`, the pages of `export/build_*.go`, the list pages of `web-admin/src/features` |
| `*Proofs` | the theorems about the module of that name (`ExportJobsProofs`: about `ExportWatch` too) |
| `MC*` | model values and symmetry for TLC |

Definitions carry the names of the code where it has one. Those marked
`Mutant:` are not part of any specification: each is a plausible bug in the
definition below it, there to show that a property can fail.

### ExportJobs

One variable per store: `row` (Postgres), `task` (Redis), `object` (COS), plus
`api` (where the POST handler of a job stands) and `run` (what each goroutine
is doing). Every statement of `handleRun` is an action of its own, so two
attempts interleave anywhere between statements.

* `Statement` is one autocommitted statement: it takes effect and returns, it
  takes effect and the reply is lost, or it fails. On a cancelled context it
  always fails; this is what makes a timed-out attempt unable to record FAILED.
* `InsertJob`, `EnqueueTask`, `EnqueueFails`, `RollbackJob` are the steps of
  `Service.Create`; the outcome of a failed enqueue is unknown, the DELETE's
  error is ignored as in the code.
* `owns` in a goroutine says that asynq still waits for its result. `Timeout`
  cancels the context and charges a retry; `LoseLease` and `Shutdown` leave the
  goroutine running, the first with its context cancelled or, for a process
  that was stalled, still live; `Crash` removes it. `Recover` is the periodic
  recoverer. asynq itself is a library and is modelled from how the code
  configures it (`MaxRetry(3)`, `Timeout(10m)`, `ShutdownTimeout`).
* The three builders share their control: count, then write, then upload. The
  two paginated ones (`WritePage`) see whatever the table holds now, so the
  rows written may exceed the rows counted; PROJECT_STATS (`WriteProject`)
  walks the list it counted.

Left out: `total_rows` and `processed_rows` (only shown), validation of
parameters, the content of the sheet, times (kept as set or NULL).

`ExportPromise` knows of a job only what its client can tell: what the POST
was answered, whether a GET finds the job and a result key on it, and whether
anything may still change. A step concerns one job: it appears, is answered
(`Promise`, or `Refuse`, which may leave the job behind: the DELETE can fail and
the task may have been stored), gets its file once, and is concluded. Nothing
follows `Conclude`, and "done" takes a file. The refinement (`Seen`,
`PromiseKept`) reads these off `api`, `row`, and `task` together with `run`: a
job is over when asynq has completed or archived its task and no goroutine of an
earlier delivery is left on it. So the queue, its retries and any overlap of
attempts are invisible but for the row, and what one attempt has recorded no
other takes back.

### ExportWatch

`stream` is the SSE handler and the row it last reported, `wire` the events
the browser has not read, `client` the dialog. `StreamTick` is the first read
and every tick of `streamJobEvents`; `FallBack` is `finishError`; `Poll` is one
round of `pollExportJob`, whose single failure ends it. `Subscribe` and
`CloseDialog` let the user leave and come back at any time, which discards the
old stream. CANCELLED exists in the enum but nothing writes it.

### MediaPipeline

One variable per store again: `asset` (the original's row), `sibling` (the
derived rows, by their media_group), `stored` and `derived` (COS), `task`,
and the processes `request` (POST /media/confirm) and `run` (derive
goroutines). `grant` and `stale` say whose uploader has credentials and whose
row is older than the reaper's TTL.

* The transaction of `Confirm` holds the row's lock from `LockAsset` to
  `CommitConfirm`; the HeadObject is a step of its own inside it, so uploads
  and other rows move in between. `EnqueueDerive` comes after the commit.
* `stored` counts how often the object was written: a version stands for an
  ETag and size, and the client's report is a version, 0 for one that matches
  nothing.
* `EnsureGroup` is the single `UPDATE ... COALESCE ... RETURNING`.
* The row lock is the only place where one database session waits for another.
* `Reap` takes the rows one at a time. A pass of the real reaper keeps the
  earlier rows locked until it commits, but no step reads `reaped`, so each row
  may take effect at once.

Left out: object keys (each original has a directory of its own, named after
the client_uuid, in both ways of registering), rows of other tiers than
original (D4: the app uploads originals only), the parts of a multipart upload,
expiry of STS credentials (a replayed request gives fresh ones). The derive
task's timeout and a worker shutdown are covered by `LoseLease` followed by
`Recover`: asynq gives the task out again while the goroutine may go on.

`PicturePromise` knows of a picture only what a viewer and an operator can tell:
whether it is there and confirmed, the ETag it was verified by, its group, its
tiers, and whether its derivation is pending, done or given up. A step concerns
one picture: it is registered, verified, scheduled, given a group, gains a tier
(the thumb after the web tier, and only in its group), and its derivation is
settled, each at most once; "done" takes both tiers. What is promised stops at
the faults the code does not repair: a picture may be verified and never
scheduled (the enqueue is lost), a synced picture may be confirmed and never
verified, and an attempt asynq has given up may still add a tier. The refinement
(`Shown`, `PromiseKept`) reads the abstract picture off `asset`, `sibling` and
`task`; requests, goroutines, objects, credentials and the reaper are invisible.

### SyncInspection and ItemLedger

A batch is a process with the items left to do, the rows its transaction holds
uncommitted (`mine`), the two maps of `batchState` (`known`) and the results so
far. `upsertInspection`, `upsertTrajectoryPoint`, `upsertProblem`,
`upsertMedia` resolve the owner and open the savepoint; `upsertReturningID` is
the insert with its three outcomes; `reject` and `acceptedOrDuplicate` close
the savepoint. `CommitBatch` makes the rows visible.

* Another transaction's uncommitted key makes the insert wait (`WaitsFor`), a
  cycle of waits is broken by Postgres (`BreakDeadlock`), the lock of a finish
  makes the foreign key of a point or problem wait (`KeyWaits`, `BatchHolds`).
* The device is the environment: it sends any set of items at any time, again
  and at once. Media owners have no foreign key, and may be a soft-deleted
  problem's uuid that is no longer found.
* `ItemLedger` says what the contract of docs/00 says: an item is ingested once,
  one request is told "accepted", nobody is told before it is there. The
  refinement reads `ingested` off the committed rows and `answer` off the
  requests that are about to reply.

Left out: the columns of an item but its owner, seq and an inspection's status
(FailItem stands for any of them being refused); the items of one envelope are
a set, as a repeated uuid in it behaves like a replay; mileage and duration,
derived in the same UPDATE as the route; updates of what was ingested (there are none);
batches of 200 items.

### DictVersioning

One type and one config key: others share no row with them. `tx` are the item
transactions, `put` the config ones. A statement that waits for a row lock or
a unique key is not enabled until the other ends (`HoldsItem`, `TypeLocked`,
`RetireActive`, `InsertVersion`), and then looks at the row again, as READ
COMMITTED does. `Seen` is what a transaction reads: the committed rows and its
own. Hashes are kept as what is hashed, in id order: a collision-free digest.
`published` remembers the items each version stood for. The browser fetches in
two server-side statements (`ReadType`, `ListItems`).

Left out: history of an item's columns, `effective_from`, the second cache (the
app's, not in this repository), the quota of sessionStorage, which `setCachedDict`
swallows.

### Casework

`update` are the transactions of `problem.Service.Update` (lock, write, log,
commit), `request` the operations that check in one statement and write in the
next (`DeleteProject`, `CreateTask`, `CreateLog`), `overview` the statements of
the statistics, of one overview (`countByDict`, `countByInspector`,
`countByProject`, `totals`) or of an export (`projectsInWindow`, then one
overview a project). A count is the set of rows it counts; a write turns the
overviews in progress into `overtaken` ones, of which nothing is claimed.
`first` is history. Status, name, dates and assignee of projects and tasks are
left out: any may be set to any value and no step reads them. The log's order is
that of its ids.

### AuthSession

A refresh token and the access token minted with it are one number. `request`
holds a login or refresh on its way through limiter, Redis and Postgres, one
command a step; the slot of a call is the one whose refresh it started.
`access`, `refresh` and `flight` are the console's store and `refreshPromise`,
`call` its API calls. The `app` slot sends tokens the console may send too.
`CommandFails` may come after a GETDEL has run; `AnswerLost` after everything
has. `disturbed` remembers that something happened that may end a session.

Left out: the password change and reset (they touch no token: refresh tokens
survive them), the reading of claims, the limiter's window as a clock (it may
end at any time), roles in the token (decisions go by `RbacPolicy`).

### RbacPolicy

`rules` is the table, `memory` what each replica decides by, `mail` the messages
of the watcher, `reload` a LoadPolicy between its read and its write. An edit is
the list of filters it clears and the rules it adds, one casbin call a step.
Casbin itself is external: that it skips a rule its memory has, and notifies
only when something changed, is what makes a stale replica dangerous. `wanted`
is what the edits asked for; `clean` that none was disturbed. What a replica
decides (`Enforce`) and answers (`Me`, `GetUserRoles`, `GetRolePermissions`) is
read off its memory and the role table.

Requests, rules and the catalog speak of one kind of thing, an object with an
action: `Rights`, of which the catalog is `Perms`. The matcher (`rbac/model.go`:
keyMatch2 of the objects, the action equal or `*` in the rule) is a parameter,
the relation `Matches`, of which only this is assumed: a permission of the
catalog matches a rule for itself. It is not the identity: `admin` is seeded
with a rule for `/api/v1/*` and any action, and one rule of the catalog may
match another permission of it. `Authz` and `Me` go by the matcher;
`GetRolePermissions` compares rules with the catalog letter by letter, as its
code does. `Seed` is what the migrations put into the table, before which no
replica loads it.

Left out: UpdateRole (a label), the effects the service's answers have in the
console, and a user named like a role, whom casbin's `g` takes for that role (the
seed's `admin` is one, and has the role by a rule as well): users and roles are
names apart.

### Listing

One list is read by one reader while its table changes. `SelectPage` is a
`SELECT ... ORDER BY ... LIMIT ... OFFSET`, `Count` a `SELECT count(*)`, each a
snapshot of its own; `ListThenCount`, `CountThenList` and `ExportPages` are the
three ways the code orders them, and each list has its ORDER BY (`ById`,
`LastId`, `Latest`). `Sorted` is every sequence that an ORDER BY allows.
`stayed`, `came` and `left` are history: what a reader may at most be owed.
`Repeats` has one element for each time a row was shown again.
Left out: the filters, of which only whether a row matches is kept, and what is
on a page besides the ids.

## 3. Runs

| Run | Question | Bounds |
|---|---|---|
| `export_faults` | do row, task and object stay consistent under every fault, and is that what `ExportPromise` says? | 2 jobs, one paginated and one PROJECT_STATS, of which 1 is requested (`MaxRequests`), 2 goroutines, 1 retry, reports of at most 2 rows in pages of 1, 1 shutdown |
| `watch_ends` | do job, queue and dialog come to an end, and does a shown link work? | 1 PROJECT_STATS job of at most 1 project, 2 goroutines, 1 retry, 3 events in flight, failing builds and uploads, timeouts, crashes, failing reads, cut streams, failed polls |
| `media_faults` | are rows, siblings, objects and the queue consistent, is that what `PicturePromise` says, and does the pipeline finish? | 1 original, 2 confirms, 2 goroutines, 2 uploads, 2 retries, 2 groups |
| `sync_batches` | is every item ingested once, reported truly and owned, over replays and overlaps? | 2 batches in all, at once or one after the other; 1 inspection, 2 points, 1 problem, 1 photo of it |
| `sync_finish` | what does a finish count, and does it stay? | 2 batches one after the other, 2 finishes at once, 1 inspection, 3 points, two with one seq |
| `dict_faults` | do versions, config and cache stay right under concurrent writers? | 2 item writers, 2 publishers, 3 writes in all, 1 browser, 2 items of one code |
| `case_faults` | is every status logged, and do the figures add up? | 2 projects of one code, 1 task, 1 problem, 1 inspector, 2 statuses, 2 updates at once, 1 client, 1 reader |
| `stats_export` | (violation) has the statistics export a row for every project the overview counts? | as `case_faults` |
| `list_pages` | does a reader of pages miss or repeat no more than what changed? | every list of the code, 4 ids, 2 times, pages of 2, 2 changes during a reading |
| `auth_faults` | is a token spent once, and who can end a session? | 1 account, 2 calls, 1 app, 3 token pairs, 1 login per window |
| `rbac_faults` | do replicas decide by what was asked for? | a system role that may do everything, a role to create and delete, 1 user, 2 permissions of which a rule for one matches both, 2 replicas, 2 edits at once |
| `dict_hash` | (violation) does the stored hash match the items? | 2 writers, 2 items |

Why these are enough: every interaction in the code is between two attempts (or
two requests) of the same job or picture, since no row, object or task is
shared by two of them; two goroutines, one retry and the faults between any two
statements give every overlap of an attempt with its successor. Two pages are
needed for the rows written to exceed the rows counted, two uploads for an
object that changes between HeadObject and UPDATE; `media_faults` allows two
retries for a third attempt after two overlapping ones. With more jobs than
goroutines a delivery only waits longer, which fairness to each job covers.
Goroutines and requests are interchangeable; symmetry is used in the runs that
check no liveness and have several of them. Several runs check an action
property too, which symmetry does not endanger. `CHECK_DEADLOCK FALSE`: each
instance ends once its jobs and bounds are used up. Where a request is repeated
by the client (confirm, credentials) the same handler slot takes it again. A
build that fails (`BuildFails`) is a disturbance, not a step of the handler: no
fairness forces it.

In the newer modules the interaction is again of two: two transactions over one
row or one key, and a reader across them. Two batches in all are enough for a
replay, an overlap and a deadlock on crossed keys; three writes for a change
before, between and after the two statements of a fetch, or for a publisher
that retires what two others have published. Three token pairs are a login and
two rotations, so that a token can be spent, spent again and outlived. Two
replicas and two edits give a message crossing an edit, two edits of one
replica interleaved, and a role given or filled and then deleted. Four rows in pages of two are two full pages, and a
change before and between them. `NoItem`, `NoRow` and the like are the nulls.

What the properties say is at their definitions. The ones a reviewer should
read first: `PromiseKept`, `RowConsistent`, `QuietRowIsFinal`,
`PromisedJobSettles`; `ShownLinkWorks`, `WatcherEnds`; `VerifiedWasStored`,
`TiersShareGroup`, `DeriveSettles` (`PromiseKept` is stated of `ExportJobs` and of
`MediaPipeline`); `IngestedOnce`,
`OwnersAreStored`, `FinishSeesEveryPoint`; `CachedItemsNotOlder`;
`StatusIsLogged`; `NoSpuriousLogout`; `PolicyIsAsEdited`; `MissedAtMostLeft`.

### Fairness

Weak fairness on the steps something in the code keeps driving: a started
request, a running goroutine, the delivery of a queued task to a free
goroutine, asynq's recoverer, the ticker, reader loop and poll timer. A fault,
a new request, an upload and the user opening or closing the dialog are never
forced. The reaper has strong fairness: the scheduler fires it every hour and
Postgres serves the waiters of a row lock in turn, so a row that confirms keep
locking is reaped between two of them. `PromisedJobEnds` claims a verdict only
of behaviours in which no attempt is ever cut off (`Uncut`): a timeout cancels
the very context the verdict is written with, a crash leaves nobody to write it
(see below). `PromisedJobSettles` holds of all: the queue is done with the job
and no goroutine stays behind. The modules of requests and responses
(`SyncInspection`, `DictVersioning`, `Casework`, `AuthSession`, `RbacPolicy`,
`Listing`) state safety only: a request that is not answered is retried by a
person or by the device, which the code does not force.

### Findings

* `dict_hash`: two item transactions of one type overlap under READ COMMITTED;
  the one that commits last hashed the items before the other's was visible, so
  the stored hash misses an item until the next write (`dict/repo.go:450`). What
  remains true is that each commit raises the version
  (`ItemChangeBumpsVersion`) and that a cache is not older than its version
  (`CachedItemsNotOlder`); but a browser revalidates by the hash alone.

* `stats_export`: a project with problems may be deleted (only inspections and
  tasks are dependents). `Overview` goes on counting its problems, while
  `projectsInWindow` selects live projects (`stats/service.go:290`), so the export
  has no row for it, although `stats/service.go:250` promises one for each project
  with a problem and a match with the overview.

Where else the code differs from what the repository says of it. The models
contain these behaviours, and the properties are stated so as to be true of
them; none has a run of its own.

* A timed-out export attempt calls `markFailed` on the cancelled context and
  drops the error, so the row stays RUNNING after the last retry
  (`export/worker.go:53`, docs/01:678 say FAILED).
* A failed DELETE, or a lost reply of the INSERT, leaves an `export_jobs` row
  PENDING with no task (`export/service.go:131`).
* Every failed attempt writes FAILED although asynq will retry it; stream and
  dialog stop there, and the job may then succeed (docs/01:677,
  `export/service.go:203` calls FAILED terminal).
* Any failing read of the ticker ends the stream with FAILED and "job not
  found" (`sse.go:57`).
* Nothing enqueues a derive task again once the enqueue after the commit has
  failed (`media/handler.go:125`, docs/01:638).
* `/sync/batch` inserts CONFIRMED pictures that were never verified
  (`sync/service.go:305`, docs/01:820), and FINISHED sessions without a route
  (`inspection/service.go:3`).
* The reaper's comment that flagged originals never re-enter the derive path
  (`reaper.go:24`) overlooks that Confirm does not read the flag.
* An item in a batch that runs into a soft-deleted problem of its uuid is
  rejected as INTERNAL, not answered as the duplicate it is
  (`sync/service.go:10`).
* An item that a problem is given between `itemIsReferenced` and the commit is
  deleted, not retired (`dict/repo.go:432`). A 304 keeps the old `extra`, which
  is not hashed (`useDict.ts:13`).
* A project is deleted while a task or inspection is being created in it
  (`project/service.go:122`); the same holds for a log entry of a problem.
* The log is listed by `created_at`, the beginning of a transaction, and two
  updates may commit the other way round (`problem/service.go:376`).
* `useLogout` posts no refresh token, so that none is revoked; a refresh that
  settles after it installs tokens again (`useLogout.ts:5`, `http.ts:62`).
* An edit on a replica that has missed a message clears the table by its filter,
  but adds no rule that its memory still has, and tells the others only of what
  changed in its memory. Roles are keyed by the user's name in casbin and outlive
  the account's soft delete.
* Permissions of the catalog overlap under keyMatch2: a rule for `user:update`
  (PUT `/api/v1/users/*`) matches `user:roles:write` (`/api/v1/users/*/roles`,
  `000002_seed.up.sql:44` and `:47`), one for `role:update` matches
  `role:perms:write` (`:51` and `:54`). A role that is given the first shows only
  that (`rbac/service.go:150` compares exactly), while its holders may do both and
  `/auth/me` lists both; for `admin` the tree shows nothing and `/auth/me` all.
  `PolicyIsAsEdited` therefore speaks of what matches a rule, and asks of the tree
  only that nothing it shows is denied.
* Any update of a task without `assignee_id` clears the assignee
  (`project/service.go:213` says so), whatever another editor has just set.
* A problem created again under the uuid of a deleted one inserts nothing, and the
  following SELECT of live rows answers 404 (`problem/service.go`).
* The task table shows one page of 20 with no next page, the pickers the first 100
  or 200; the user search sends `keyword` where the backend reads `q`.
* The worker's healthcheck asks for `/livez`, which its health mux does not serve
  (`cmd/worker/main.go:197`, `platform/obs/health.go:41`).
* `bootstrapAdmin` and `ChangePassword` read an account and write its hash in
  another statement (`cmd/api/main.go:189`, `auth/service.go:196`).

## 4. Proofs

The theorems hold for every set of jobs, pictures, requests, replicas, rows and
goroutines, every retry, page and row bound and every set of faults. They assume
only the named assumption of their module (`ExportAssumption`, `WatchAssumption`,
`MediaAssumption`, `SyncAssumption`, `AuthAssumption`, `DictAssumption`,
`CaseworkAssumption`, `RbacAssumption`, `ListingAssumption`), which types the
constants; `ListingAssumption` also says that a table has finitely many rows.
Every invariant and every action property that a run checks is proved. Each
module proves one inductive invariant `IInv` and takes its theorems from it; each
`IInv` was first checked by TLC as an invariant of the run.

**ExportJobsProofs.** No invariant of the run is inductive by itself: that a
SUCCEEDED row has a stored object depends on where each goroutine stands. `IInv`
adds `Bound` (a goroutine works on an enqueued job), `Requested` (what a request
has already written), `OneOwner` (asynq waits for one goroutine per active task)
and `Achieved` (a goroutine about to mark success has
uploaded; one that returns success has left a result in the row, or the row is
gone). `StatementStep` shows once that a statement of one goroutine cannot take
from another what it relies on; each step of `handleRun` is then an instance of
it. `QueueFrame` does the same for deliveries, timeouts and crashes. Proved: type
correctness, `ProgressInRange`, `ResultIsStored`, `RowConsistent`,
`PromisedJobIsScheduled`, `CompletedTaskHasResult` and the action properties
`ResultIsKept` and `QuietRowIsFinal`. The latter says that no step writes a row
whose job is answered, settled and quiet; `FinalForEver` adds that no step ends
that state (`SettledStep`: a goroutine takes up no other job, a settled task is
not delivered), so that what a poll returns then it returns for ever.

`Implementation` is the refinement of `ExportPromise`. `GoroutineStep` shows that
a step of a goroutine is local to its job, moves between "no row" and "a row" in
neither direction, and never takes a result back; it moves the goroutine on or
off the job, never to another. From that, `LocalStep` gets `Finish` (the row
gains its result while the goroutine that wrote it is still there, so the job is
not over), `Conclude` (the last goroutine leaves or the task settles: by
`CompletedTaskHasResult` "done" takes a file) or a stutter. `RequestImplements`
maps the steps of `Service.Create`, and `OneJob` lifts a step of one job to a step
of the contract.

For the composition with the watcher, `WatchInv` says that every event on the wire
that carries a link was written for a SUCCEEDED row whose object is in COS, and
`ObjectStays` that it stays there; the steps of the watcher leave the stores of
`ExportJobs` alone (`OnlyWatches`), so `ShownLinkWorks` holds of `ComposedSpec`.

**MediaPipelineProofs.** `IInv` adds what each confirm knows (`RequestInv`: a
request about to commit has seen its ETag in COS, one about to enqueue is the
only one of its row), what a row implies (`AssetInv`) and what each goroutine
has achieved (`RunInv`: the group it carries is the row's, the tier it is about
to insert is stored). `RowStep`, `MoveStep`, `TaskStep` and `EffectStep` are the
frames. Proved: type correctness, `VerifiedWasStored`, `TiersShareGroup`,
`SiblingIsStored`, `DoneHasSiblings`, `EnqueuedOnce` and the action property
`RowOnlyAdvances`.

`Implementation` is the refinement of `PicturePromise`. It needs one more inductive
invariant, `OneOwner`: asynq waits for at most one goroutine per task, and only while
Redis holds the task active, so a goroutine that was given up cannot settle the task
of its successor (`OwnerStep`; `HandlerOwns` shows that the handler itself passes no
task on). `RowImplements`, `TiersImplement` and `TaskImplements` say which changes of a
row, of the siblings and of a task are steps of the contract, `OnePicture` lifts a step
of one picture to one of the contract, and the rest goes through the actions:
`Schedule` takes the verified ETag from `VerifiedWasStored`, `Derive` the group and the
web tier from `RunInv`, and `Settle` both tiers from it.

**SyncInspectionProofs.** `IInv` adds two parts to the invariants. `BatchOK` says
what a batch may hold: its uncommitted rows are the items it will report as
accepted, no other batch has them, and each has its owner among the committed
rows and its own; a result "duplicate" is of a committed row. Without it
`OwnersAreStored` is not kept by `CommitBatch`. `FinishOK` says that a finish under
way is alone with a session in progress, that no batch holds points of it, and that
the route it has built counts every stored point. Proved: type correctness,
`OwnersAreStored`, `FinishSeesEveryPoint`, the action property `ClosedIsFinal`, and
`IngestedOnce`, the refinement: the initial states are initial in `ItemLedger`, and
every step is `Ingest`, `Create`, `Deliver`, `Lose` or a stutter.

**AuthSessionProofs.** `IInv` is `TypeOK`, `CounterExpires` and `Spending`: the token
a request has taken out of Redis is not in the store, has no successor and is held
by no other request, and a token in the store has no successor. It gives `SpentOnce`.
`NoSpuriousLogout` needs a second inductive invariant, for it is about several calls
at once: `Calm` says that only the slot `flight` names refreshes, and of an
undisturbed session that nothing of the last one is under way before the login
settles (`LoggedOut`), and after it that the console's refresh token is in the store
unless a request has just spent it, which then brings a fresh one (`LoggedIn`). Each
action keeps it or disturbs the session (`OneCall`, `RequestStep`).

**DictVersioningProofs.** `IInv` adds `Versions` (the type's version is the number of
the last contents published, which are the items as they are), `Working` (a
transaction is about some item), `Fetching` (a fetch under way carries a version that
exists, and brings contents of that version or a later one) and `Publishing` (one
publisher at a time is past its INSERT). Proved: type correctness,
`CachedItemsNotOlder`, `ConfigHasOneActive` and the action property
`ItemChangeBumpsVersion`.

**CaseworkProofs.** That the log is a chain (`StatusIsLogged`) is kept because of the
row lock: `OneHolder` (two transactions never hold one problem), `UpdateOK` (the
holder's `current` is the row's status, and it has its entry written exactly when it
is about to commit a change of status) and `ProblemInv` (a problem that is not there
has no entries). `ChainExtended` appends a link, `ChainKept` anything else.
`OverviewOK` says which figures an overview has collected at each statement and that
they are those of the rows as they are: a write that would make this false turns the
overview into an overtaken one. Proved: type correctness, `StatusIsLogged` and
`OverviewAddsUp`.

**RbacPolicyProofs.** `PolicyIsAsEdited` is about the moment when everything is
through; `IInv` says what holds on the way there, while nothing has disturbed the
edits (`clean`). `TableInv`: what is wanted is the table without what the edits under
way have yet to clear, and with what they have yet to add. `MemoryInv`: a replica
with no message to take and no reload under way has the table in its memory, and one
about to end its reload has read it as it is. `EditInv`: an edit runs on a replica
with no news, and on rules of its own. `WantedInv`: nobody is to have a deleted
role. Decisions follow from the memories for whatever relation `Matches` is; that
the tree shows nothing which is denied takes that it is reflexive on the catalog.
Proved: type correctness and `PolicyIsAsEdited`.

**ListingProofs.** The argument is about ranks: the rank of a row is how many rows the
ORDER BY puts before it, and a page is a range of ranks (`PageHolds`, for every
sequence that the ORDER BY allows). A row that enters or leaves shifts the ranks of
those behind it by one (`Shift`), so it carries at most one other row across the end
of the pages read so far (`Crossing`). `MissInv` counts the rows that were there all
along, lie below that end and were not shown, against `left`; `RepeatInv` counts the
repeats there were, and the rows shown that lie above it and so will be repeated,
against `came`; `CountInv` and `EndInv` take care of the lists that count first or
last. The order is shown to be strict for every list (`OrderStrict`). Proved: type
correctness (no reading goes past the last page there can be), `MissedAtMostLeft`
and `RepeatedAtMostCame`.

Only model-checked: what is claimed under fairness, `PromisedJobSettles`,
`PromisedJobEnds`, `WatcherEnds`, `DeriveSettles` and `StaleIsFlagged`, as liveness is
out of the prover's reach. Only proved: `ProgressInRange`, `ResultIsKept` (which
`PromiseKept` implies), `FinalForEver`, `DoneHasSiblings` and `RowOnlyAdvances`.

## 5. Plan

Done: `ExportJobs` with `ExportPromise`, `ExportWatch`, `MediaPipeline` with
`PicturePromise`;
`SyncInspection` with `ItemLedger`; `DictVersioning`; `AuthSession` with the
limiter; `RbacPolicy`; `Casework` with the statistics; `Listing`; the proofs of
section 4.

Left: passwords (create, change, reset and the bootstrap administrator), and an
abstract specification of the session that `AuthSession` would implement.

Not planned: Trend and map queries (single SELECTs), bootstrap and configuration,
clients of COS, STS and Postgres, the pages of the admin site: pure I/O and
rendering.
