--------------------------- MODULE MediaPipeline ---------------------------
(***************************************************************************)
(* A 360 picture on its way from the app to the viewer: a media_assets row *)
(* is registered (POST /media/upload-credentials or a /sync/batch item),   *)
(* the app uploads the original straight to COS, POST /media/confirm       *)
(* verifies it with a HeadObject under the row lock and enqueues a task,   *)
(* and a worker derives the web and thumb tiers                            *)
(* (internal/media/service.go, handler.go, worker.go, reaper.go,           *)
(* internal/sync/service.go upsertMedia).                                  *)
(*                                                                         *)
(* Keys: both ways of registering put an original in a directory of its    *)
(* own, named after the client_uuid, so object and sibling keys are        *)
(* identified by the asset.  Only rows of tier original are modelled (D4). *)
(***************************************************************************)
EXTENDS Naturals, FiniteSets

CONSTANTS
    Media,        \* client_uuids of originals
    Requests,     \* concurrent POST /media/confirm handlers
    Workers,      \* derive goroutines, over all worker processes
    Groups,       \* bound: media_group uuids that may be minted
    NoMedia, NoGroup,
    MaxVersions,  \* bound: how often an original is uploaded
    MaxRetry,     \* asynq's retries of a derive task (its default, 25)
    SyncStates,   \* the capture states a sync item may report
    Faults        \* the faults the environment may inject

AllFaults == {"api", "db", "cos", "redis", "lease", "crash"}

CaptureStates == {"CAPTURED_RAW", "STITCHED", "QUEUED", "UPLOADING", "UPLOADED", "CONFIRMED"}

ASSUME MediaAssumption ==
    /\ NoMedia \notin Media
    /\ NoGroup \notin Groups
    /\ MaxVersions \in Nat
    /\ MaxRetry \in Nat
    /\ SyncStates \subseteq CaptureStates
    /\ Faults \subseteq AllFaults

VARIABLES
    asset,    \* the media_assets row of each original
    sibling,  \* the media_group of each derived row, NoGroup while there is none
    stored,   \* the version of each original in COS (its ETag and size), 0 if none
    derived,  \* the derived objects in COS
    grant,    \* the originals whose uploader holds STS credentials
    stale,    \* the originals registered longer ago than the reaper's TTL
    request,  \* the confirm handlers
    task,     \* the derive task of each original, as Redis holds it
    run       \* the derive goroutines

vars == <<asset, sibling, stored, derived, grant, stale, request, task, run>>

-----------------------------------------------------------------------------
Tiers == {"web", "thumb"}

Assets == [state : CaptureStates \cup {"ABSENT"}, verified : BOOLEAN, etag : Nat,
           group : Groups \cup {NoGroup}, reaped : BOOLEAN]

NoAsset == [state |-> "ABSENT", verified |-> FALSE, etag |-> 0,
            group |-> NoGroup, reaped |-> FALSE]

\* etag is the client's report; 0 one that cannot match (another key or size).
ConfirmRequests == [pc : {"idle", "head", "commit", "enqueue"},
                    media : Media \cup {NoMedia}, etag : Nat]

NoRequest == [pc |-> "idle", media |-> NoMedia, etag |-> 0]

Tasks == [state : {"none", "queued", "active", "done", "archived"}, retried : Nat]

Runs == [pc : {"idle", "load", "group", "get", "put", "insert",
               "returnOk", "returnErr", "skipRetry"},
         media : Media \cup {NoMedia},
         group : Groups \cup {NoGroup},
         tier : Tiers,
         owns : BOOLEAN]  \* the processor still waits for this goroutine

Idle == [pc |-> "idle", media |-> NoMedia, group |-> NoGroup, tier |-> "web", owns |-> FALSE]

TypeOK ==
    /\ asset \in [Media -> Assets]
    /\ sibling \in [Media \X Tiers -> Groups \cup {NoGroup}]
    /\ stored \in [Media -> Nat]
    /\ derived \in SUBSET (Media \X Tiers)
    /\ grant \in SUBSET Media
    /\ stale \in SUBSET Media
    /\ request \in [Requests -> ConfirmRequests]
    /\ task \in [Media -> Tasks]
    /\ run \in [Workers -> Runs]

Init ==
    /\ asset = [m \in Media |-> NoAsset]
    /\ sibling = [k \in Media \X Tiers |-> NoGroup]
    /\ stored = [m \in Media |-> 0]
    /\ derived = {}
    /\ grant = {}
    /\ stale = {}
    /\ request = [r \in Requests |-> NoRequest]
    /\ task = [m \in Media |-> [state |-> "none", retried |-> 0]]
    /\ run = [w \in Workers |-> Idle]

-----------------------------------------------------------------------------
(* state.go.                                                               *)

captureOrder == [s \in CaptureStates |->
    CASE s = "CAPTURED_RAW" -> 0 [] s = "STITCHED" -> 1 [] s = "QUEUED" -> 2
      [] s = "UPLOADING" -> 3 [] s = "UPLOADED" -> 4 [] s = "CONFIRMED" -> 5]

canTransition(from, to) ==
    /\ {from, to} \subseteq CaptureStates
    /\ captureOrder[to] >= captureOrder[from]

-----------------------------------------------------------------------------
(* Registering and uploading.                                              *)

\* Mutant: ON CONFLICT (client_uuid) DO UPDATE, a replay starts the row over.
CredentialsRestart(m) ==
    /\ asset' = [asset EXCEPT ![m].state = "UPLOADING"]
    /\ grant' = grant \cup {m}
    /\ UNCHANGED <<sibling, stored, derived, stale, request, task, run>>

\* IssueUploadCredentials: the row is inserted or left as it is, CONFIRMED or
\* not; without an answer from STS the row stays behind.
IssueUploadCredentials(m) ==
    /\ asset' = [asset EXCEPT ![m] =
                    IF @.state = "ABSENT" THEN [NoAsset EXCEPT !.state = "UPLOADING"] ELSE @]
    /\ \/ grant' = grant \cup {m}
       \/ /\ "cos" \in Faults
          /\ grant' = grant
    /\ UNCHANGED <<sibling, stored, derived, stale, request, task, run>>

\* upsertMedia: the client's state and group verbatim, verified_at NULL.  The
\* etag it reports is not modelled: only Confirm's is ever read.
SyncMedia(m) ==
    /\ asset[m].state = "ABSENT"
    /\ \E s \in SyncStates, g \in Groups \cup {NoGroup} :
          asset' = [asset EXCEPT ![m] = [NoAsset EXCEPT !.state = s, !.group = g]]
    /\ UNCHANGED <<sibling, stored, derived, grant, stale, request, task, run>>

\* The app's multipart upload completes; the credentials outlive the confirm.
Upload(m) ==
    /\ m \in grant
    /\ stored[m] < MaxVersions
    /\ stored' = [stored EXCEPT ![m] = @ + 1]
    /\ UNCHANGED <<asset, sibling, derived, grant, stale, request, task, run>>

-----------------------------------------------------------------------------
(* POST /media/confirm: one transaction around the HeadObject, then the    *)
(* enqueue.                                                                *)

\* SELECT ... FOR UPDATE has the row until the transaction ends.
Locked(m) == \E r \in Requests : request[r].media = m /\ request[r].pc \in {"head", "commit"}

Go(r, l) == request' = [request EXCEPT ![r].pc = l]
Answer(r) == request' = [request EXCEPT ![r] = NoRequest]

\* Mutant: SELECT without FOR UPDATE.
LoadAsset(r, m) ==
    /\ request[r].pc = "idle"
    /\ asset[m].state \notin {"ABSENT", "CONFIRMED"}
    /\ \E e \in 0..MaxVersions :
          request' = [request EXCEPT ![r] = [pc |-> "head", media |-> m, etag |-> e]]
    /\ UNCHANGED <<asset, sibling, stored, derived, grant, stale, task, run>>

\* A row that is missing (404) or CONFIRMED (200, no enqueue) is answered at
\* once and changes nothing.
LockAsset(r, m) ==
    /\ request[r].pc = "idle"
    /\ asset[m].state \notin {"ABSENT", "CONFIRMED"}
    /\ ~Locked(m)
    /\ \E e \in 0..MaxVersions :
          request' = [request EXCEPT ![r] = [pc |-> "head", media |-> m, etag |-> e]]
    /\ UNCHANGED <<asset, sibling, stored, derived, grant, stale, task, run>>

\* Mutant: HeadObject finds the object, its ETag is not compared.
HeadExists(r) ==
    /\ request[r].pc = "head"
    /\ IF stored[request[r].media] # 0 THEN Go(r, "commit") ELSE Answer(r)
    /\ UNCHANGED <<asset, sibling, stored, derived, grant, stale, task, run>>

\* HeadObject; a mismatch is 409 and leaves the row as it is.
HeadObject(r) ==
    LET m == request[r].media
        verified == stored[m] # 0 /\ stored[m] = request[r].etag IN
    /\ request[r].pc = "head"
    /\ \/ /\ verified
          /\ canTransition(asset[m].state, "CONFIRMED")
          /\ Go(r, "commit")
       \/ /\ \/ "cos" \in Faults
             \/ ~verified
             \/ ~canTransition(asset[m].state, "CONFIRMED")
          /\ Answer(r)
    /\ UNCHANGED <<asset, sibling, stored, derived, grant, stale, task, run>>

Confirmed(a, e) == [a EXCEPT !.state = "CONFIRMED", !.verified = TRUE, !.etag = e]

\* UPDATE and COMMIT; an error, also of a commit that took place, is a 500.
CommitConfirm(r) ==
    LET m == request[r].media IN
    /\ request[r].pc = "commit"
    /\ \/ /\ asset' = [asset EXCEPT ![m] = Confirmed(@, request[r].etag)]
          /\ \/ Go(r, "enqueue")
             \/ "db" \in Faults /\ Answer(r)
       \/ /\ "db" \in Faults
          /\ asset' = asset
          /\ Answer(r)
    /\ UNCHANGED <<sibling, stored, derived, grant, stale, task, run>>

\* enqueueDerive: an error is logged and the request succeeds.
EnqueueDerive(r) ==
    /\ request[r].pc = "enqueue"
    /\ \/ task' = [task EXCEPT ![request[r].media] = [state |-> "queued", retried |-> 0]]
       \/ /\ "redis" \in Faults
          /\ task' = task
    /\ Answer(r)
    /\ UNCHANGED <<asset, sibling, stored, derived, grant, stale, run>>

\* The API process dies, or the request's context is cancelled.
ApiCrash(r) ==
    /\ "api" \in Faults
    /\ request[r].pc # "idle"
    /\ Answer(r)
    /\ UNCHANGED <<asset, sibling, stored, derived, grant, stale, task, run>>

-----------------------------------------------------------------------------
(* The reaper.                                                             *)

\* A row grows older than the TTL.
Age(m) ==
    /\ asset[m].state # "ABSENT"
    /\ m \notin stale
    /\ stale' = stale \cup {m}
    /\ UNCHANGED <<asset, sibling, stored, derived, grant, request, task, run>>

\* Mutant: the reaper gives the row a state of its own.
ReapExpires(m) ==
    /\ m \in stale
    /\ ~Locked(m)
    /\ asset[m].state = "UPLOADING"
    /\ asset' = [asset EXCEPT ![m].state = "EXPIRED"]
    /\ UNCHANGED <<sibling, stored, derived, grant, stale, request, task, run>>

\* Mutant: the reaper looks for UPLOADED rows, which nothing produces.
ReapUploaded(m) ==
    /\ m \in stale
    /\ ~Locked(m)
    /\ asset[m].state = "UPLOADED"
    /\ ~asset[m].reaped
    /\ asset' = [asset EXCEPT ![m].reaped = TRUE]
    /\ UNCHANGED <<sibling, stored, derived, grant, stale, request, task, run>>

\* One row of the reaper's UPDATE, which waits for a row that is locked and
\* then looks at it again.  A pass keeps the rows it has done locked until it
\* commits; as no other step reads `reaped`, each may take effect at once.
Reap(m) ==
    /\ m \in stale
    /\ ~Locked(m)
    /\ asset[m].state = "UPLOADING"
    /\ ~asset[m].reaped
    /\ asset' = [asset EXCEPT ![m].reaped = TRUE]
    /\ UNCHANGED <<sibling, stored, derived, grant, stale, request, task, run>>

-----------------------------------------------------------------------------
(* The asynq server around HandleDeriveTiers.                              *)

\* A failed delivery: back to the retry queue, or archived.
Charge(m) ==
    task' = [task EXCEPT ![m] =
        IF @.retried < MaxRetry THEN [state |-> "queued", retried |-> @.retried + 1]
                                ELSE [@ EXCEPT !.state = "archived"]]

Deliver(w, m) ==
    /\ run[w].pc = "idle"
    /\ task[m].state = "queued"
    /\ task' = [task EXCEPT ![m].state = "active"]
    /\ run' = [run EXCEPT ![w] = [Idle EXCEPT !.pc = "load", !.media = m, !.owns = TRUE]]
    /\ UNCHANGED <<asset, sibling, stored, derived, grant, stale, request>>

Return(w) ==
    LET m == run[w].media IN
    /\ run[w].pc \in {"returnOk", "returnErr", "skipRetry"}
    /\ \/ /\ ~run[w].owns
          /\ task' = task
       \/ /\ run[w].owns
          /\ run[w].pc = "returnOk"
          /\ task' = [task EXCEPT ![m].state = "done"]
       \/ /\ run[w].owns
          /\ run[w].pc = "returnErr"
          /\ Charge(m)
       \/ /\ run[w].owns
          /\ run[w].pc = "skipRetry"
          /\ task' = [task EXCEPT ![m].state = "archived"]
    /\ run' = [run EXCEPT ![w] = Idle]
    /\ UNCHANGED <<asset, sibling, stored, derived, grant, stale, request>>

\* The processor gives up on the goroutine (lease, timeout, shutdown); the
\* goroutine may still be in a call, and may or may not notice after it.
LoseLease(w) ==
    /\ "lease" \in Faults
    /\ run[w].owns
    /\ run' = [run EXCEPT ![w].owns = FALSE]
    /\ UNCHANGED <<asset, sibling, stored, derived, grant, stale, request, task>>

Crash(w) ==
    /\ "crash" \in Faults
    /\ run[w].pc # "idle"
    /\ run' = [run EXCEPT ![w] = Idle]
    /\ UNCHANGED <<asset, sibling, stored, derived, grant, stale, request, task>>

Recover(m) ==
    /\ task[m].state = "active"
    /\ \A w \in Workers : ~(run[w].owns /\ run[w].media = m)
    /\ Charge(m)
    /\ UNCHANGED <<asset, sibling, stored, derived, grant, stale, request, run>>

-----------------------------------------------------------------------------
(* Worker.HandleDeriveTiers.                                               *)

At(w, l) == [run[w] EXCEPT !.pc = l]

\* A call of goroutine w may err if its service may, or on a cancelled context.
MayErr(w, service) == service \in Faults \/ ~run[w].owns

Errs(w, service) == MayErr(w, service) /\ run' = [run EXCEPT ![w] = At(w, "returnErr")]

\* An effect on a service has happened; the goroutine goes on, or sees an error.
Then(w, service, next) == run' = [run EXCEPT ![w] = next] \/ Errs(w, service)

\* loadOriginal.
LoadOriginal(w) ==
    LET a == asset[run[w].media] IN
    /\ run[w].pc = "load"
    /\ \/ /\ a.state = "CONFIRMED"
          /\ run' = [run EXCEPT ![w].pc = IF a.group = NoGroup THEN "group" ELSE "get",
                                ![w].group = a.group]
       \/ /\ a.state # "CONFIRMED"
          /\ run' = [run EXCEPT ![w] = At(w, "skipRetry")]
       \/ Errs(w, "db")
    /\ UNCHANGED <<asset, sibling, stored, derived, grant, stale, request, task>>

\* Mutant: the UPDATE overwrites the group a concurrent attempt has set.
OwnGroups(m) == Groups \ {asset[n].group : n \in Media}

\* COALESCE(media_group, uuid.New()).
EffectiveGroups(m) ==
    IF asset[m].group = NoGroup THEN Groups \ {asset[n].group : n \in Media}
                                ELSE {asset[m].group}

\* ensureGroup: one UPDATE ... RETURNING media_group.  It would wait for a
\* confirm's lock, but no confirm locks a CONFIRMED row.
EnsureGroup(w) ==
    /\ run[w].pc = "group"
    /\ \/ \E effective \in EffectiveGroups(run[w].media) :
             /\ asset' = [asset EXCEPT ![run[w].media].group = effective]
             /\ Then(w, "db", [At(w, "get") EXCEPT !.group = effective])
       \/ asset' = asset /\ Errs(w, "db")
    /\ UNCHANGED <<sibling, stored, derived, grant, stale, request, task>>

GetOriginal(w) ==
    /\ run[w].pc = "get"
    /\ \/ /\ stored[run[w].media] # 0
          /\ run' = [run EXCEPT ![w] = At(w, "put")]
       \/ /\ stored[run[w].media] = 0
          /\ run' = [run EXCEPT ![w] = At(w, "returnErr")]
       \/ Errs(w, "cos")
    /\ UNCHANGED <<asset, sibling, stored, derived, grant, stale, request, task>>

\* Mutant: the error of the upload is ignored.
PutTierUnchecked(w) ==
    /\ run[w].pc = "put"
    /\ derived' = derived \cup {<<run[w].media, run[w].tier>>} \/ derived' = derived
    /\ run' = [run EXCEPT ![w] = At(w, "insert")]
    /\ UNCHANGED <<asset, sibling, stored, grant, stale, request, task>>

PutTier(w) ==
    /\ run[w].pc = "put"
    /\ \/ /\ derived' = derived \cup {<<run[w].media, run[w].tier>>}
          /\ Then(w, "cos", At(w, "insert"))
       \/ derived' = derived /\ Errs(w, "cos")
    /\ UNCHANGED <<asset, sibling, stored, grant, stale, request, task>>

\* Mutant: the attempt is over after its first tier.
InsertFirstOnly(w) ==
    LET k == <<run[w].media, run[w].tier>> IN
    /\ run[w].pc = "insert"
    /\ \/ /\ sibling' = [sibling EXCEPT ![k] = IF @ = NoGroup THEN run[w].group ELSE @]
          /\ Then(w, "db", At(w, "returnOk"))
       \/ sibling' = sibling /\ Errs(w, "db")
    /\ UNCHANGED <<asset, stored, derived, grant, stale, request, task>>

\* INSERT ... ON CONFLICT (cos_bucket, cos_key) DO NOTHING.
InsertSibling(w) ==
    LET k == <<run[w].media, run[w].tier>> IN
    /\ run[w].pc = "insert"
    /\ \/ /\ sibling' = [sibling EXCEPT ![k] = IF @ = NoGroup THEN run[w].group ELSE @]
          /\ Then(w, "db", IF run[w].tier = "web" THEN [At(w, "put") EXCEPT !.tier = "thumb"]
                                                 ELSE At(w, "returnOk"))
       \/ sibling' = sibling /\ Errs(w, "db")
    /\ UNCHANGED <<asset, stored, derived, grant, stale, request, task>>

-----------------------------------------------------------------------------
Register(m) == IssueUploadCredentials(m) \/ SyncMedia(m) \/ Upload(m) \/ Age(m)

Confirm(r) == HeadObject(r) \/ CommitConfirm(r) \/ EnqueueDerive(r)

Handle(w) ==
    \/ LoadOriginal(w) \/ EnsureGroup(w) \/ GetOriginal(w)
    \/ PutTier(w) \/ InsertSibling(w) \/ Return(w)

Next ==
    \/ \E m \in Media : Register(m) \/ Reap(m) \/ Recover(m)
    \/ \E r \in Requests : Confirm(r) \/ ApiCrash(r) \/ (\E m \in Media : LockAsset(r, m))
    \/ \E w \in Workers : Handle(w) \/ LoseLease(w) \/ Crash(w) \/ (\E m \in Media : Deliver(w, m))

Spec == Init /\ [][Next]_vars

\* A started request and a goroutine run on, queued tasks are delivered, the
\* recoverer scans.  The scheduler fires the reaper every hour, and Postgres
\* serves the waiters of a row lock in turn, so a row that confirms keep locking
\* is reaped between two of them.
Fairness ==
    /\ \A r \in Requests : WF_vars(Confirm(r))
    /\ \A w \in Workers : WF_vars(Handle(w))
    /\ \A m \in Media : /\ WF_vars(Recover(m))
                        /\ WF_vars(\E w \in Workers : Deliver(w, m))
                        /\ SF_vars(Reap(m))

FairSpec == Spec /\ Fairness

-----------------------------------------------------------------------------
(* What the pipeline promises.                                             *)

HasSibling(m, t) == sibling[<<m, t>>] # NoGroup

(* verified_at is the proof of a HeadObject: whoever re-uploads, confirms   *)
(* or crashes in between, the row is CONFIRMED and COS held the very bytes *)
(* whose ETag the row records.                                             *)
VerifiedWasStored ==
    \A m \in Media : asset[m].verified =>
        asset[m].state = "CONFIRMED" /\ asset[m].etag \in 1..stored[m]

(* All tiers of a picture carry the media_group of its original, also when  *)
(* two attempts found none and both proposed one (worker.go:88).           *)
TiersShareGroup ==
    \A m \in Media, t \in Tiers : HasSibling(m, t) => sibling[<<m, t>>] = asset[m].group

(* A sibling row, born CONFIRMED, has its object, and comes from an         *)
(* original that was verified: GET /media/{id} never signs a dead link.    *)
SiblingIsStored ==
    \A m \in Media, t \in Tiers : HasSibling(m, t) =>
        <<m, t>> \in derived /\ asset[m].verified

(* A derive task that asynq drops as completed has left both siblings.      *)
DoneHasSiblings ==
    \A m \in Media : task[m].state = "done" => \A t \in Tiers : HasSibling(m, t)

(* However many confirms race and are repeated, one of them enqueues.       *)
EnqueuedOnce ==
    \A r \in Requests : request[r].pc = "enqueue" =>
        /\ task[request[r].media].state = "none"
        /\ \A q \in Requests : request[q].media = request[r].media => q = r

\* What a viewer finds of an original, and what the queue makes of it.
Phase(m) == CASE asset[m].state = "ABSENT" -> "none"
              [] asset[m].state = "CONFIRMED" -> "confirmed"
              [] OTHER -> "waiting"
VerifiedBy(m) == IF asset[m].verified THEN asset[m].etag ELSE 0
TiersOf(m) == {t \in Tiers : HasSibling(m, t)}
Derivation(m) == CASE task[m].state = "none" -> "none"
                   [] task[m].state = "done" -> "done"
                   [] task[m].state = "archived" -> "gaveUp"
                   [] OTHER -> "pending"

Shown == [m \in Media |->
    [phase |-> Phase(m), etag |-> VerifiedBy(m), group |-> asset[m].group,
     tiers |-> TiersOf(m), derivation |-> Derivation(m)]]

Contract == INSTANCE PicturePromise WITH picture <- Shown

(* Uploads, repeated confirms and overlapping derive attempts, cut short    *)
(* anywhere, look like one picture that is registered, verified, grouped    *)
(* and derived, each once, and whose derivation is settled once.            *)
PromiseKept == Contract!Spec

(* The capture state never goes back (D4), and what a viewer may rely on -  *)
(* the verification, the group, the sibling rows - is never undone.        *)
RowOnlyAdvances ==
    [][/\ \A m \in Media : asset[m].state # "ABSENT" =>
             /\ canTransition(asset[m].state, asset'[m].state)
             /\ asset[m].verified => asset'[m].verified /\ asset'[m].etag = asset[m].etag
             /\ asset[m].group # NoGroup => asset'[m].group = asset[m].group
       /\ \A m \in Media, t \in Tiers : HasSibling(m, t) =>
             sibling'[<<m, t>>] = sibling[<<m, t>>]]_vars

(* A task that reached the queue is finished with: both siblings are there  *)
(* or its attempts are used up; no crash or lost lease leaves it hanging.  *)
DeriveSettles ==
    \A m \in Media : task[m].state = "queued" ~>
        [](\/ task[m].state = "archived"
           \/ task[m].state = "done" /\ \A t \in Tiers : HasSibling(m, t))

(* docs/01:639: an upload abandoned past the TTL ends up flagged,      *)
(* unless a confirm gets there first.                                      *)
StaleIsFlagged ==
    \A m \in Media : (m \in stale /\ asset[m].state = "UPLOADING") ~>
                        (asset[m].reaped \/ asset[m].state = "CONFIRMED")
=============================================================================
