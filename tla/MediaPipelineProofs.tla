------------------------ MODULE MediaPipelineProofs ------------------------
(***************************************************************************)
(* Proofs about MediaPipeline, for every set of originals, requests and    *)
(* goroutines, every number of uploads and retries and every combination   *)
(* of faults.                                                              *)
(***************************************************************************)
EXTENDS MediaPipeline, TLAPS

-----------------------------------------------------------------------------
(* The inductive invariant.                                                *)

\* A request that holds a row lock is alone and its row not yet CONFIRMED; the
\* one about to enqueue is alone too, and nothing was enqueued before it.
RequestInv ==
    /\ \A r \in Requests :
          /\ request[r].pc = "idle" => request[r].media = NoMedia
          /\ request[r].pc # "idle" => request[r].media \in Media
          /\ request[r].pc \in {"head", "commit"} =>
                asset[request[r].media].state \in CaptureStates \ {"CONFIRMED"}
          /\ request[r].pc = "commit" => request[r].etag \in 1..stored[request[r].media]
          /\ request[r].pc = "enqueue" =>
                asset[request[r].media].verified /\ task[request[r].media].state = "none"
    /\ \A q, r \in Requests : request[q].media = request[r].media =>
          q = r \/ request[q].pc = "idle"

\* An original without a row has nothing, and only a verified one has a task.
AssetInv == \A m \in Media :
    /\ asset[m].state = "ABSENT" => asset[m] = NoAsset
    /\ task[m].state # "none" => asset[m].verified

\* What a goroutine has achieved when it comes to a step.
AchievedBy(g, a, s, o, k) ==
    /\ g.media \in Media
    /\ a[g.media].verified
    /\ k[g.media].state # "none"
    /\ g.pc \in {"load", "group", "get"} => g.tier = "web"
    /\ g.pc \in {"get", "put", "insert", "returnOk"} =>
          g.group # NoGroup /\ g.group = a[g.media].group
    /\ g.pc = "insert" => <<g.media, g.tier>> \in o
    /\ g.tier = "thumb" => s[<<g.media, "web">>] # NoGroup
    /\ g.pc = "returnOk" => \A t \in Tiers : s[<<g.media, t>>] # NoGroup

RunInv == \A w \in Workers :
    IF run[w].pc = "idle" THEN run[w] = Idle ELSE AchievedBy(run[w], asset, sibling, derived, task)

IInv ==
    /\ TypeOK
    /\ RequestInv
    /\ AssetInv
    /\ RunInv
    /\ VerifiedWasStored
    /\ TiersShareGroup
    /\ SiblingIsStored
    /\ DoneHasSiblings

-----------------------------------------------------------------------------
(* Lemmas.                                                                 *)

\* The order of the capture states.
LEMMA Ranks ==
    /\ captureOrder \in [CaptureStates -> 0..5]
    /\ \A s \in CaptureStates : canTransition(s, s) /\ canTransition(s, "CONFIRMED")
<1>1. captureOrder \in [CaptureStates -> 0..5]
  BY DEF captureOrder, CaptureStates
<1>2. \A s \in CaptureStates : captureOrder["CONFIRMED"] >= captureOrder[s]
  BY DEF captureOrder, CaptureStates
<1>3. "CONFIRMED" \in CaptureStates
  BY DEF CaptureStates
<1> QED
  BY <1>1, <1>2, <1>3 DEF canTransition

\* The records the actions write are typed.
LEMMA Values ==
    /\ NoAsset \in Assets /\ NoAsset.state = "ABSENT" /\ ~NoAsset.verified
    /\ NoAsset.group = NoGroup
    /\ NoRequest \in ConfirmRequests /\ NoRequest.pc = "idle" /\ NoRequest.media = NoMedia
    /\ Idle \in Runs /\ Idle.pc = "idle" /\ Idle.tier = "web"
    /\ "ABSENT" \notin CaptureStates
BY DEF NoAsset, Assets, NoRequest, ConfirmRequests, Idle, Runs, Tiers, CaptureStates

\* The initial state satisfies the invariant.
LEMMA InitInv == Init => IInv
BY Values, MediaAssumption DEF Init, IInv, TypeOK, RequestInv, AssetInv, RunInv,
   VerifiedWasStored, TiersShareGroup, SiblingIsStored, DoneHasSiblings, HasSibling,
   Tasks, NoAsset, NoRequest, Idle, Tiers

\* A step that touches no goroutine and takes nothing back from the rows and
\* the objects keeps what the goroutines have achieved.
LEMMA RunFrame ==
    ASSUME RunInv, UNCHANGED <<run, sibling, derived>>,
           \A m \in Media : /\ asset[m].verified => asset'[m].verified
                            /\ asset[m].group # NoGroup => asset'[m].group = asset[m].group
                            /\ task[m].state # "none" => task'[m].state # "none"
    PROVE  RunInv'
BY DEF RunInv, AchievedBy

\* A goroutine that moves to a state it has earned keeps the invariant.
LEMMA MoveStep ==
    ASSUME IInv, NEW w \in Workers, NEW g \in Runs,
           run' = [run EXCEPT ![w] = g],
           g = Idle \/ (g.pc # "idle" /\ AchievedBy(g, asset, sibling, derived, task)),
           UNCHANGED <<asset, sibling, stored, derived, grant, stale, request, task>>
    PROVE  IInv'
<1>1. TypeOK'
  BY DEF IInv, TypeOK
<1>2. RunInv'
  BY Values DEF IInv, TypeOK, RunInv
<1> QED
  BY <1>1, <1>2 DEF IInv, RequestInv, AssetInv, VerifiedWasStored, TiersShareGroup,
                    SiblingIsStored, DoneHasSiblings, HasSibling

\* A step that writes one row and neither its verification nor, once it is
\* verified, what a viewer relies on, keeps the invariant.
LEMMA RowStep ==
    ASSUME IInv, NEW m \in Media, NEW a \in Assets,
           asset' = [asset EXCEPT ![m] = a],
           a.state # "ABSENT",
           asset[m].state # "ABSENT" => a.state = asset[m].state,
           a.verified = asset[m].verified,
           a.verified => a.etag = asset[m].etag /\ a.group = asset[m].group,
           UNCHANGED <<sibling, stored, derived, request, task, run>>,
           grant' \in SUBSET Media, stale' \in SUBSET Media
    PROVE  IInv'
<1>1. TypeOK'
  BY DEF IInv, TypeOK
<1>2. /\ asset'[m] = a
      /\ \A n \in Media : n # m => asset'[n] = asset[n]
      /\ m \in Media /\ asset[m] \in Assets
  BY DEF IInv, TypeOK
<1>3. RequestInv'
  BY <1>2, Values DEF IInv, RequestInv
<1>4. AssetInv'
  BY <1>2 DEF IInv, AssetInv
<1>5. RunInv'
  BY <1>2 DEF IInv, RunInv, AchievedBy
<1>6. VerifiedWasStored' /\ TiersShareGroup' /\ SiblingIsStored' /\ DoneHasSiblings'
  BY <1>2, Values DEF IInv, VerifiedWasStored, TiersShareGroup, SiblingIsStored, DoneHasSiblings,
     HasSibling, AssetInv
<1> QED
  BY <1>1, <1>3, <1>4, <1>5, <1>6 DEF IInv

-----------------------------------------------------------------------------
(* Registering, uploading and reaping.                                     *)

\* Registering an original, its uploads, its ageing and the reaper keep the
\* invariant.
LEMMA RegisterStep ==
    ASSUME IInv, NEW m \in Media, Register(m) \/ Reap(m)
    PROVE  IInv'
<1>1. asset[m] \in Assets /\ (asset[m].state = "ABSENT" => asset[m] = NoAsset)
  BY DEF IInv, TypeOK, AssetInv
<1>2. CASE IssueUploadCredentials(m)
  <2> DEFINE a == IF asset[m].state = "ABSENT" THEN [NoAsset EXCEPT !.state = "UPLOADING"]
                                               ELSE asset[m]
  <2>1. a \in Assets /\ a.state # "ABSENT" /\ a.verified = asset[m].verified
    BY <1>1, Values DEF Assets, NoAsset, CaptureStates
  <2> QED
    BY <1>1, <1>2, <2>1, RowStep, Values DEF IssueUploadCredentials, IInv, TypeOK
<1>3. CASE SyncMedia(m)
  <2>1. PICK s \in SyncStates, g \in Groups \cup {NoGroup} :
          asset' = [asset EXCEPT ![m] = [NoAsset EXCEPT !.state = s, !.group = g]]
    BY <1>3 DEF SyncMedia
  <2> DEFINE a == [NoAsset EXCEPT !.state = s, !.group = g]
  <2>2. a \in Assets /\ a.state # "ABSENT" /\ ~a.verified
    BY Values, MediaAssumption DEF Assets, NoAsset
  <2>3. asset' = [asset EXCEPT ![m] = a]
    BY <2>1
  <2> HIDE DEF a
  <2> QED
    <3>1. /\ asset[m].state = "ABSENT" /\ ~asset[m].verified
          /\ UNCHANGED <<sibling, stored, derived, grant, stale, request, task, run>>
      BY <1>1, <1>3, Values DEF SyncMedia
    <3>2. grant' \in SUBSET Media /\ stale' \in SUBSET Media
      BY <3>1 DEF IInv, TypeOK
    <3> QED
      <4>1. a.verified = asset[m].verified
        BY <1>1, <2>2, <3>1 DEF Assets
      <4> QED
        BY <2>2, <2>3, <3>1, <3>2, <4>1, RowStep
<1>4. CASE Reap(m)
  <2> DEFINE a == [asset[m] EXCEPT !.reaped = TRUE]
  <2>1. a \in Assets
    BY <1>1 DEF Assets
  <2> QED
    BY <1>1, <1>4, <2>1, RowStep DEF Reap, IInv, TypeOK, Assets
<1>5. CASE Upload(m)
  <2>1. TypeOK' /\ \A n \in Media : stored'[n] \in Nat /\ stored'[n] >= stored[n]
    BY <1>5 DEF Upload, IInv, TypeOK
  <2>2. RequestInv'
    BY <1>5, <2>1 DEF Upload, IInv, TypeOK, RequestInv
  <2>3. VerifiedWasStored'
    BY <1>5, <2>1 DEF Upload, IInv, TypeOK, VerifiedWasStored
  <2>4. RunInv'
    BY <1>5, RunFrame DEF Upload, IInv
  <2> QED
    BY <1>5, <2>1, <2>2, <2>3, <2>4
       DEF Upload, IInv, AssetInv, TiersShareGroup, SiblingIsStored, DoneHasSiblings, HasSibling
<1>6. CASE Age(m)
  <2>1. RunInv'
    BY <1>6, RunFrame DEF Age, IInv
  <2> QED
    BY <1>6, <2>1 DEF Age, IInv, TypeOK, RequestInv, AssetInv, VerifiedWasStored,
       TiersShareGroup, SiblingIsStored, DoneHasSiblings, HasSibling
<1> QED
  BY <1>2, <1>3, <1>4, <1>5, <1>6 DEF Register

-----------------------------------------------------------------------------
(* Confirming.                                                             *)

\* A request that changes only itself keeps the invariant if it earned its
\* place and holds no row that another one holds.
LEMMA RequestStep ==
    ASSUME IInv, NEW r \in Requests, NEW q \in ConfirmRequests,
           request' = [request EXCEPT ![r] = q],
           \/ q = NoRequest
           \/ /\ q.pc \in {"head", "commit"}
              /\ q.media \in Media
              /\ asset[q.media].state \in CaptureStates \ {"CONFIRMED"}
              /\ q.pc = "commit" => q.etag \in 1..stored[q.media]
              /\ \A p \in Requests : p # r => request[p].media # q.media \/ request[p].pc = "idle",
           UNCHANGED <<asset, sibling, stored, derived, grant, stale, task, run>>
    PROVE  IInv'
<1>1. TypeOK'
  BY DEF IInv, TypeOK
<1>2. request'[r] = q /\ \A p \in Requests : p # r => request'[p] = request[p]
  BY DEF IInv, TypeOK
<1>3. RequestInv'
  <2>1. \A p \in Requests : /\ request[p].pc = "idle" <=> request[p].media = NoMedia
                           /\ request[p].media = q.media => p = r \/ request[p].pc = "idle"
    BY Values, MediaAssumption DEF IInv, RequestInv
  <2> QED
    BY <1>2, <2>1, Values, MediaAssumption DEF IInv, RequestInv
<1>4. RunInv'
  BY RunFrame DEF IInv
<1> QED
  BY <1>1, <1>3, <1>4 DEF IInv, AssetInv, VerifiedWasStored, TiersShareGroup, SiblingIsStored,
                          DoneHasSiblings, HasSibling

\* LockAsset takes a row that no request holds; one about to enqueue has left
\* its row CONFIRMED, so it is not that row either.
LEMMA LockStep ==
    ASSUME IInv, NEW r \in Requests, NEW m \in Media, LockAsset(r, m)
    PROVE  IInv'
<1>1. PICK e \in 0..MaxVersions :
        request' = [request EXCEPT ![r] = [pc |-> "head", media |-> m, etag |-> e]]
  BY DEF LockAsset
<1> DEFINE q == [pc |-> "head", media |-> m, etag |-> e]
<1>2. q \in ConfirmRequests
  BY MediaAssumption DEF ConfirmRequests
<1>3. asset[m].state \in CaptureStates \ {"CONFIRMED"}
  BY DEF LockAsset, IInv, TypeOK, Assets
<1>4. \A p \in Requests : p # r => request[p].media # m \/ request[p].pc = "idle"
  BY <1>3 DEF LockAsset, Locked, IInv, TypeOK, ConfirmRequests, RequestInv, VerifiedWasStored
<1> QED
  BY <1>1, <1>2, <1>3, <1>4, RequestStep DEF LockAsset

\* HeadObject and a crash of the API keep the invariant.
LEMMA HeadStep ==
    ASSUME IInv, NEW r \in Requests, HeadObject(r) \/ ApiCrash(r)
    PROVE  IInv'
<1>1. CASE Answer(r) /\ UNCHANGED <<asset, sibling, stored, derived, grant, stale, task, run>>
  BY <1>1, RequestStep, Values DEF Answer
<1>2. CASE HeadObject(r) /\ Go(r, "commit")
  <2> DEFINE q == [request[r] EXCEPT !.pc = "commit"]
  <2>1. q \in ConfirmRequests /\ request' = [request EXCEPT ![r] = q]
    BY <1>2 DEF Go, IInv, TypeOK, ConfirmRequests
  <2>2. /\ request[r].media \in Media
        /\ asset[request[r].media].state \in CaptureStates \ {"CONFIRMED"}
        /\ \A p \in Requests : p # r =>
              request[p].media # request[r].media \/ request[p].pc = "idle"
    BY <1>2 DEF HeadObject, IInv, RequestInv
  <2>3. request[r].etag = stored[request[r].media] /\ stored[request[r].media] \in Nat \ {0}
    BY <1>2, <2>2 DEF HeadObject, Go, Answer, IInv, TypeOK, ConfirmRequests, NoRequest
  <2>4. q.pc = "commit" /\ q.media = request[r].media /\ q.etag \in 1..stored[q.media]
    BY <2>2, <2>3 DEF IInv, TypeOK, ConfirmRequests
  <2> HIDE DEF q
  <2> QED
    BY <1>2, <2>1, <2>2, <2>4, RequestStep DEF HeadObject
<1> QED
  BY <1>1, <1>2 DEF HeadObject, ApiCrash

\* The commit verifies the row; no goroutine works on it before that, so only
\* the request's own place in the invariant moves.
LEMMA CommitStep ==
    ASSUME IInv, NEW r \in Requests, CommitConfirm(r)
    PROVE  IInv'
<1> DEFINE m == request[r].media
<1>1. /\ m \in Media
      /\ asset[m] \in Assets
      /\ request[r].etag \in 1..stored[m]
      /\ ~asset[m].verified
      /\ \A p \in Requests : p # r => request[p].media # m
  BY MediaAssumption DEF CommitConfirm, IInv, TypeOK, RequestInv, VerifiedWasStored
<1>2. CASE asset' = asset /\ Answer(r)
  BY <1>2, RequestStep, Values DEF CommitConfirm, Answer
<1>3. CASE asset' = [asset EXCEPT ![m] = Confirmed(@, request[r].etag)]
  <2>1. PICK q \in ConfirmRequests :
          /\ request' = [request EXCEPT ![r] = q]
          /\ q = NoRequest \/ (q.pc = "enqueue" /\ q.media = m)
    BY <1>3, Values DEF CommitConfirm, Go, Answer, IInv, TypeOK, ConfirmRequests
  <2>2. /\ asset'[m] = Confirmed(asset[m], request[r].etag)
        /\ asset'[m] \in Assets /\ asset'[m].state = "CONFIRMED" /\ asset'[m].verified
        /\ asset'[m].etag = request[r].etag /\ asset'[m].group = asset[m].group
        /\ \A n \in Media : n # m => asset'[n] = asset[n]
    BY <1>1, <1>3 DEF Confirmed, Assets, CaptureStates, IInv, TypeOK, ConfirmRequests
  <2> HIDE DEF m
  <2>3. request'[r] = q /\ \A p \in Requests : p # r => request'[p] = request[p]
    BY <2>1 DEF IInv, TypeOK
  <2>4. UNCHANGED <<sibling, stored, derived, grant, stale, task, run>> /\ task[m].state = "none"
    BY <1>1 DEF CommitConfirm, IInv, AssetInv
  <2>5. TypeOK'
    BY <1>1, <1>3, <2>1, <2>2, <2>4 DEF IInv, TypeOK
  <2>6. RequestInv'
    BY <1>1, <2>1, <2>2, <2>3, <2>4, Values, MediaAssumption DEF IInv, RequestInv
  <2>7. AssetInv' /\ VerifiedWasStored'
    BY <1>1, <2>2, <2>4 DEF IInv, AssetInv, VerifiedWasStored
  <2>8. RunInv'
    BY <2>2, <2>4, RunFrame DEF IInv
  <2>9. TiersShareGroup' /\ SiblingIsStored' /\ DoneHasSiblings'
    BY <2>2, <2>4 DEF IInv, TiersShareGroup, SiblingIsStored, DoneHasSiblings, HasSibling
  <2> QED
    BY <2>5, <2>6, <2>7, <2>8, <2>9 DEF IInv
<1> QED
  BY <1>2, <1>3 DEF CommitConfirm

\* Enqueueing makes the first and only task of a verified original.
LEMMA EnqueueStep ==
    ASSUME IInv, NEW r \in Requests, EnqueueDerive(r)
    PROVE  IInv'
<1> DEFINE m == request[r].media
<1>1. CASE task' = task
  BY <1>1, RequestStep, Values DEF EnqueueDerive, Answer
<1>2. CASE task' = [task EXCEPT ![m] = [state |-> "queued", retried |-> 0]]
  <2>1. /\ m \in Media /\ asset[m].verified
        /\ \A p \in Requests : p # r => request[p].media # m
    BY MediaAssumption DEF EnqueueDerive, IInv, RequestInv
  <2>2. /\ request'[r] = NoRequest
        /\ \A p \in Requests : p # r => request'[p] = request[p]
        /\ UNCHANGED <<asset, sibling, stored, derived, grant, stale, run>>
    BY DEF EnqueueDerive, Answer, IInv, TypeOK
  <2>3. /\ task'[m].state = "queued"
        /\ \A n \in Media : n # m => task'[n] = task[n]
    BY <1>2, <2>1 DEF IInv, TypeOK
  <2>4. TypeOK'
    BY <1>2, <2>1, <2>2, Values DEF EnqueueDerive, Answer, IInv, TypeOK, Tasks
  <2> HIDE DEF m
  <2>5. RequestInv'
    BY <2>1, <2>2, <2>3, Values, MediaAssumption DEF IInv, RequestInv
  <2>6. RunInv'
    <3>1. \A n \in Media : task[n].state # "none" => task'[n].state # "none"
      BY <2>3
    <3> QED
      BY <2>2, <3>1, RunFrame DEF IInv
  <2> QED
    BY <2>1, <2>2, <2>3, <2>4, <2>5, <2>6 DEF IInv, AssetInv, VerifiedWasStored, TiersShareGroup,
       SiblingIsStored, DoneHasSiblings, HasSibling
<1> QED
  BY <1>1, <1>2 DEF EnqueueDerive

-----------------------------------------------------------------------------
(* The queue.                                                              *)

\* A step that changes the task of one verified original, and a goroutine only
\* to a state it earned, keeps the invariant.
LEMMA TaskStep ==
    ASSUME IInv, NEW m \in Media, task[m].state # "none",
           task' \in [Media -> Tasks], task'[m].state # "none",
           \A n \in Media : n # m => task'[n] = task[n],
           task'[m].state = "done" => \A t \in Tiers : HasSibling(m, t),
           \/ run' = run
           \/ \E w \in Workers, g \in Runs :
                 /\ run' = [run EXCEPT ![w] = g]
                 /\ g = Idle \/ (g.pc # "idle" /\ AchievedBy(g, asset, sibling, derived, task)),
           UNCHANGED <<asset, sibling, stored, derived, grant, stale, request>>
    PROVE  IInv'
<1>1. TypeOK'
  BY DEF IInv, TypeOK
<1>2. RequestInv'
  BY DEF IInv, RequestInv
<1>3. RunInv'
  <2>1. \A n \in Media : task[n].state # "none" => task'[n].state # "none"
    OBVIOUS
  <2>2. CASE run' = run
    BY <2>1, <2>2, RunFrame DEF IInv
  <2>3. CASE run' # run
    <3>1. PICK w \in Workers, g \in Runs :
            /\ run' = [run EXCEPT ![w] = g]
            /\ g = Idle \/ (g.pc # "idle" /\ AchievedBy(g, asset, sibling, derived, task))
      BY <2>3
    <3>2. run'[w] = g /\ \A v \in Workers : v # w => run'[v] = run[v]
      BY <3>1 DEF IInv, TypeOK
    <3>3. ASSUME NEW h, AchievedBy(h, asset, sibling, derived, task)
          PROVE  AchievedBy(h, asset', sibling', derived', task')
      BY <2>1, <3>3 DEF AchievedBy
    <3>4. ASSUME NEW v \in Workers
          PROVE  IF run'[v].pc = "idle" THEN run'[v] = Idle
                 ELSE AchievedBy(run'[v], asset', sibling', derived', task')
      <4>1. CASE v = w
        BY <3>1, <3>2, <3>3, <4>1, Values
      <4>2. CASE v # w
        BY <3>2, <3>3, <4>2 DEF IInv, RunInv
      <4> QED
        BY <4>1, <4>2
    <3> QED
      BY <3>4 DEF RunInv
  <2> QED
    BY <2>2, <2>3
<1> QED
  BY <1>1, <1>2, <1>3 DEF IInv, AssetInv, VerifiedWasStored, TiersShareGroup, SiblingIsStored,
                          DoneHasSiblings, HasSibling

\* A failed delivery requeues or archives a task, never completes it.
LEMMA ChargeStep ==
    ASSUME TypeOK, NEW m \in Media, Charge(m)
    PROVE  /\ task' \in [Media -> Tasks]
           /\ task'[m].state \in {"queued", "archived"}
           /\ \A n \in Media : n # m => task'[n] = task[n]
BY MediaAssumption DEF TypeOK, Tasks, Charge

\* A delivery starts a goroutine on a verified original.
LEMMA DeliverStep ==
    ASSUME IInv, NEW w \in Workers, NEW m \in Media, Deliver(w, m)
    PROVE  IInv'
<1> DEFINE g == [Idle EXCEPT !.pc = "load", !.media = m, !.owns = TRUE]
<1>1. g \in Runs /\ g.pc = "load" /\ AchievedBy(g, asset, sibling, derived, task)
  BY Values DEF Deliver, Idle, Runs, AchievedBy, IInv, AssetInv
<1>2. run' = [run EXCEPT ![w] = g]
  BY DEF Deliver
<1>3. /\ task' \in [Media -> Tasks] /\ task'[m].state = "active"
      /\ \A n \in Media : n # m => task'[n] = task[n]
  BY DEF Deliver, IInv, TypeOK, Tasks
<1> HIDE DEF g
<1> QED
  BY <1>1, <1>2, <1>3, TaskStep DEF Deliver

\* The recoverer keeps the invariant.
LEMMA RecoverStep ==
    ASSUME IInv, NEW m \in Media, Recover(m)
    PROVE  IInv'
<1>1. /\ task[m].state # "none" /\ task' \in [Media -> Tasks]
      /\ task'[m].state \in {"queued", "archived"}
      /\ \A n \in Media : n # m => task'[n] = task[n]
  BY ChargeStep DEF Recover, IInv
<1> QED
  BY <1>1, TaskStep DEF Recover

\* The end of a goroutine, or of the wait for it, keeps the invariant.
LEMMA ReturnStep ==
    ASSUME IInv, NEW w \in Workers, Return(w) \/ LoseLease(w) \/ Crash(w)
    PROVE  IInv'
<1>1. CASE Return(w)
  <2> DEFINE n == run[w].media
  <2>1. n \in Media /\ task[n].state # "none" /\ run' = [run EXCEPT ![w] = Idle]
    BY <1>1 DEF Return, IInv, RunInv, AchievedBy
  <2>2. run[w].pc = "returnOk" => \A t \in Tiers : HasSibling(n, t)
    BY DEF IInv, RunInv, AchievedBy, HasSibling
  <2>3. CASE ~run[w].owns /\ task' = task
    BY <1>1, <2>1, <2>3, Values, MoveStep DEF Return
  <2>4. CASE Charge(n)
    <3>1. /\ task' \in [Media -> Tasks] /\ task'[n].state \in {"queued", "archived"}
          /\ \A i \in Media : i # n => task'[i] = task[i]
      BY <2>1, <2>4, ChargeStep DEF IInv
    <3> HIDE DEF n
    <3> QED
      BY <1>1, <2>1, <3>1, Values, TaskStep DEF Return
  <2>5. CASE \E s \in {"done", "archived"} :
               /\ task' = [task EXCEPT ![n].state = s]
               /\ s = "done" => run[w].pc = "returnOk"
    <3>1. /\ task' \in [Media -> Tasks] /\ task'[n].state \in {"done", "archived"}
          /\ task'[n].state = "done" => \A t \in Tiers : HasSibling(n, t)
          /\ \A i \in Media : i # n => task'[i] = task[i]
      BY <2>1, <2>2, <2>5 DEF IInv, TypeOK, Tasks
    <3> HIDE DEF n
    <3> QED
      BY <1>1, <2>1, <3>1, Values, TaskStep DEF Return
  <2> QED
    BY <1>1, <2>3, <2>4, <2>5 DEF Return
<1>2. CASE LoseLease(w)
  <2> DEFINE g == [run[w] EXCEPT !.owns = FALSE]
  <2>1. g \in Runs /\ \A f \in {"pc", "media", "group", "tier"} : g[f] = run[w][f]
    BY DEF IInv, TypeOK, Runs
  <2>2. run[w].pc # "idle"
    BY <1>2 DEF LoseLease, IInv, RunInv, Idle
  <2>3. g.pc # "idle" /\ AchievedBy(g, asset, sibling, derived, task)
    BY <2>1, <2>2 DEF IInv, RunInv, AchievedBy
  <2>4. run' = [run EXCEPT ![w] = g]
    BY <1>2 DEF LoseLease, IInv, TypeOK, Runs
  <2> HIDE DEF g
  <2> QED
    BY <1>2, <2>1, <2>3, <2>4, MoveStep DEF LoseLease
<1>3. CASE Crash(w)
  BY <1>3, Values, MoveStep DEF Crash
<1> QED
  BY <1>1, <1>2, <1>3

-----------------------------------------------------------------------------
(* HandleDeriveTiers.                                                      *)

\* A goroutine may always turn to its error return.
LEMMA ErrStep ==
    ASSUME IInv, NEW w \in Workers, run[w].pc # "idle",
           run' = [run EXCEPT ![w] = At(w, "returnErr")] \/ run' = [run EXCEPT ![w] = At(w, "skipRetry")],
           UNCHANGED <<asset, sibling, stored, derived, grant, stale, request, task>>
    PROVE  IInv'
<1>1. PICK g \in {At(w, "returnErr"), At(w, "skipRetry")} : run' = [run EXCEPT ![w] = g]
  OBVIOUS
<1>2. /\ g \in Runs /\ g.pc \in {"returnErr", "skipRetry"}
      /\ g.media = run[w].media /\ g.tier = run[w].tier /\ g.group = run[w].group
  BY DEF At, IInv, TypeOK, Runs
<1>3. AchievedBy(g, asset, sibling, derived, task)
  BY <1>2 DEF IInv, RunInv, AchievedBy
<1> QED
  BY <1>1, <1>2, <1>3, MoveStep

\* Reading the row and the original keeps the invariant.
LEMMA ReadStep ==
    ASSUME IInv, NEW w \in Workers, LoadOriginal(w) \/ GetOriginal(w)
    PROVE  IInv'
<1>1. run[w].pc # "idle" /\ AchievedBy(run[w], asset, sibling, derived, task)
  BY DEF LoadOriginal, GetOriginal, IInv, RunInv
<1>2. run[w] \in Runs /\ run[w].media \in Media /\ asset[run[w].media].group \in Groups \cup {NoGroup}
  BY <1>1 DEF AchievedBy, IInv, TypeOK, Assets
<1>3. CASE run' = [run EXCEPT ![w] = At(w, "returnErr")] \/ run' = [run EXCEPT ![w] = At(w, "skipRetry")]
  BY <1>1, <1>3, ErrStep DEF LoadOriginal, GetOriginal
<1>4. CASE \E g \in {[run[w] EXCEPT !.pc = IF asset[run[w].media].group = NoGroup THEN "group" ELSE "get",
                                    !.group = asset[run[w].media].group]} :
             run[w].pc = "load" /\ run' = [run EXCEPT ![w] = g]
  <2>1. PICK g \in {[run[w] EXCEPT !.pc = IF asset[run[w].media].group = NoGroup THEN "group" ELSE "get",
                                  !.group = asset[run[w].media].group]} :
          run[w].pc = "load" /\ run' = [run EXCEPT ![w] = g]
    BY <1>4
  <2>2. /\ g \in Runs /\ g.media = run[w].media /\ g.tier = run[w].tier
        /\ g.group = asset[g.media].group
        /\ g.pc = "group" \/ (g.pc = "get" /\ g.group # NoGroup)
    BY <1>2, <2>1 DEF Runs
  <2>3. AchievedBy(g, asset, sibling, derived, task)
    BY <1>1, <2>1, <2>2 DEF AchievedBy
  <2> QED
    BY <2>1, <2>2, <2>3, MoveStep DEF LoadOriginal, GetOriginal
<1>5. CASE run[w].pc = "get" /\ run' = [run EXCEPT ![w] = At(w, "put")]
  <2>1. /\ At(w, "put") \in Runs /\ At(w, "put").pc = "put"
        /\ \A f \in {"media", "group", "tier"} : At(w, "put")[f] = run[w][f]
    BY <1>2 DEF At, Runs
  <2>2. AchievedBy(At(w, "put"), asset, sibling, derived, task)
    BY <1>1, <1>5, <2>1 DEF AchievedBy
  <2> QED
    BY <1>5, <2>1, <2>2, MoveStep DEF LoadOriginal, GetOriginal
<1> QED
  BY <1>3, <1>4, <1>5 DEF LoadOriginal, GetOriginal, Errs

\* A goroutine's effect on the stores, and where it goes from there, keep the
\* invariant if nothing is taken back and the new place is earned.
LEMMA EffectStep ==
    ASSUME IInv, NEW w \in Workers, run[w].pc # "idle", NEW g \in Runs,
           run' = [run EXCEPT ![w] = g], g.pc # "idle",
           AchievedBy(g, asset', sibling', derived', task'),
           TypeOK',
           \A m \in Media : \A f \in {"state", "verified", "etag", "reaped"} : asset'[m][f] = asset[m][f],
           \A m \in Media : /\ asset[m].group # NoGroup => asset'[m].group = asset[m].group
                            /\ asset[m].state = "ABSENT" => asset'[m] = asset[m],
           \A m \in Media, t \in Tiers : HasSibling(m, t) => sibling'[<<m, t>>] = sibling[<<m, t>>],
           \A m \in Media, t \in Tiers : HasSibling(m, t)' /\ ~HasSibling(m, t) =>
              /\ sibling'[<<m, t>>] = asset'[m].group
              /\ <<m, t>> \in derived
              /\ asset[m].verified,
           derived \subseteq derived',
           UNCHANGED <<stored, request, task>>
    PROVE  IInv'
<1>1. run'[w] = g /\ \A v \in Workers : v # w => run'[v] = run[v]
  BY DEF IInv, TypeOK
<1>2. RequestInv'
  BY DEF IInv, RequestInv
<1>3. AssetInv'
  BY DEF IInv, AssetInv
<1>4. \A v \in Workers : v # w /\ run[v].pc # "idle" =>
        AchievedBy(run'[v], asset', sibling', derived', task')
  BY <1>1 DEF IInv, RunInv, AchievedBy, HasSibling, Tiers
<1>5. RunInv'
  BY <1>1, <1>4 DEF IInv, RunInv
<1>6. VerifiedWasStored' /\ SiblingIsStored' /\ DoneHasSiblings'
  BY DEF IInv, VerifiedWasStored, SiblingIsStored, DoneHasSiblings, HasSibling
<1>7. TiersShareGroup'
  BY MediaAssumption DEF IInv, TypeOK, TiersShareGroup, HasSibling
<1> QED
  BY <1>2, <1>3, <1>5, <1>6, <1>7 DEF IInv

\* ensureGroup keeps the invariant: whoever comes second adopts the group that
\* stands.
LEMMA GroupStep ==
    ASSUME IInv, NEW w \in Workers, EnsureGroup(w)
    PROVE  IInv'
<1> DEFINE m == run[w].media
<1>1. run[w].pc = "group" /\ AchievedBy(run[w], asset, sibling, derived, task)
  BY DEF EnsureGroup, IInv, RunInv
<1>2. /\ m \in Media /\ asset[m] \in Assets /\ asset[m].verified /\ asset[m].state = "CONFIRMED"
      /\ run[w] \in Runs
  BY <1>1 DEF AchievedBy, IInv, TypeOK, VerifiedWasStored
<1>3. CASE asset' = asset /\ Errs(w, "db")
  BY <1>1, <1>3, ErrStep DEF EnsureGroup, Errs
<1>4. CASE \E effective \in EffectiveGroups(m) :
             /\ asset' = [asset EXCEPT ![m].group = effective]
             /\ Then(w, "db", [At(w, "get") EXCEPT !.group = effective])
  <2>1. PICK effective \in EffectiveGroups(m) :
             /\ asset' = [asset EXCEPT ![m].group = effective]
             /\ Then(w, "db", [At(w, "get") EXCEPT !.group = effective])
    BY <1>4
  <2>2. /\ effective \in Groups
        /\ asset[m].group # NoGroup => effective = asset[m].group
    BY <1>2, MediaAssumption DEF EffectiveGroups, Assets
  <2>3. /\ asset'[m] = [asset[m] EXCEPT !.group = effective]
        /\ asset'[m] \in Assets /\ asset'[m].group = effective
        /\ \A f \in {"state", "verified", "etag", "reaped"} : asset'[m][f] = asset[m][f]
        /\ \A n \in Media : n # m => asset'[n] = asset[n]
    BY <1>2, <2>1, <2>2 DEF IInv, TypeOK, Assets
  <2>4. PICK g \in {[At(w, "get") EXCEPT !.group = effective], At(w, "returnErr")} :
          run' = [run EXCEPT ![w] = g]
    BY <2>1 DEF Then, Errs
  <2>5. /\ g \in Runs /\ g.media = m /\ g.tier = run[w].tier
        /\ g.pc = "returnErr" \/ (g.pc = "get" /\ g.group = effective)
    BY <1>2, <2>2, <2>4 DEF At, Runs
  <2>6. UNCHANGED <<sibling, stored, derived, grant, stale, request, task>>
    BY DEF EnsureGroup
  <2>7. effective # NoGroup /\ asset[m].state # "ABSENT"
    BY <1>2, <2>2, MediaAssumption
  <2> HIDE DEF m
  <2>8. TypeOK'
    BY <1>2, <2>1, <2>3, <2>4, <2>5, <2>6 DEF IInv, TypeOK
  <2>9. AchievedBy(g, asset', sibling', derived', task')
    BY <1>1, <1>2, <2>3, <2>5, <2>6, <2>7 DEF AchievedBy, m
  <2>10. \A n \in Media :
           /\ \A f \in {"state", "verified", "etag", "reaped"} : asset'[n][f] = asset[n][f]
           /\ asset[n].group # NoGroup => asset'[n].group = asset[n].group
           /\ asset[n].state = "ABSENT" => asset'[n] = asset[n]
    <3>1. CASE asset[m].group = NoGroup
      BY <1>2, <2>3, <2>7, <3>1
    <3>2. CASE asset[m].group # NoGroup
      BY <1>2, <2>2, <2>3, <2>7, <3>2
    <3> QED
      BY <3>1, <3>2
  <2>11. \A n \in Media, t \in Tiers : HasSibling(n, t)' <=> HasSibling(n, t)
    BY <2>6 DEF HasSibling
  <2>12. run[w].pc # "idle" /\ g.pc # "idle" /\ g \in Runs /\ run' = [run EXCEPT ![w] = g]
    BY <1>1, <2>4, <2>5
  <2> QED
    BY <2>6, <2>8, <2>9, <2>10, <2>11, <2>12, EffectStep
<1> QED
  BY <1>3, <1>4 DEF EnsureGroup

\* Uploading a tier keeps the invariant.
LEMMA PutStep ==
    ASSUME IInv, NEW w \in Workers, PutTier(w)
    PROVE  IInv'
<1>1. run[w].pc = "put" /\ AchievedBy(run[w], asset, sibling, derived, task)
  BY DEF PutTier, IInv, RunInv
<1>2. run[w] \in Runs /\ <<run[w].media, run[w].tier>> \in Media \X Tiers
  BY <1>1 DEF AchievedBy, IInv, TypeOK, Runs
<1>3. PICK g \in {At(w, "insert"), At(w, "returnErr")} :
        /\ run' = [run EXCEPT ![w] = g]
        /\ \/ derived' = derived \cup {<<run[w].media, run[w].tier>>}
           \/ derived' = derived /\ g.pc = "returnErr"
  BY <1>2 DEF PutTier, Then, Errs, At, Runs
<1>4. /\ g \in Runs /\ g.pc \in {"insert", "returnErr"}
      /\ \A f \in {"media", "group", "tier"} : g[f] = run[w][f]
  BY <1>2 DEF At, Runs
<1>5. UNCHANGED <<asset, sibling, stored, grant, stale, request, task>>
  BY DEF PutTier
<1>6. TypeOK'
  BY <1>2, <1>3, <1>4, <1>5 DEF IInv, TypeOK
<1>7. AchievedBy(g, asset', sibling', derived', task')
  BY <1>1, <1>3, <1>4, <1>5 DEF AchievedBy
<1> QED
  BY <1>1, <1>3, <1>4, <1>5, <1>6, <1>7, EffectStep DEF HasSibling

\* Inserting a sibling, or finding it there, keeps the invariant.
LEMMA InsertStep ==
    ASSUME IInv, NEW w \in Workers, InsertSibling(w)
    PROVE  IInv'
<1> DEFINE k == <<run[w].media, run[w].tier>>
           next == IF run[w].tier = "web" THEN [At(w, "put") EXCEPT !.tier = "thumb"]
                                          ELSE At(w, "returnOk")
<1>1. run[w].pc = "insert" /\ AchievedBy(run[w], asset, sibling, derived, task)
  BY DEF InsertSibling, IInv, RunInv
<1>2. run[w] \in Runs /\ k \in Media \X Tiers /\ k \in derived /\ run[w].group # NoGroup
      /\ run[w].group = asset[run[w].media].group
  BY <1>1 DEF AchievedBy, IInv, TypeOK, Runs
<1>3. PICK g \in {next, At(w, "returnErr")} :
        /\ run' = [run EXCEPT ![w] = g]
        /\ \/ sibling' = [sibling EXCEPT ![k] = IF @ = NoGroup THEN run[w].group ELSE @]
           \/ sibling' = sibling /\ g = At(w, "returnErr")
  BY DEF InsertSibling, Then, Errs
<1>4. /\ g \in Runs /\ g.media = run[w].media /\ g.group = run[w].group
      /\ \/ g.pc = "returnErr" /\ g.tier = run[w].tier
         \/ g = next /\ g.pc = "put" /\ g.tier = "thumb" /\ run[w].tier = "web"
         \/ g = next /\ g.pc = "returnOk" /\ g.tier = "thumb" /\ run[w].tier = "thumb"
  <2>1. CASE g = At(w, "returnErr")
    BY <1>2, <2>1 DEF At, Runs
  <2>2. CASE g = next /\ run[w].tier = "web"
    BY <1>2, <2>2 DEF At, Runs, Tiers
  <2>3. CASE g = next /\ run[w].tier # "web"
    BY <1>2, <2>3 DEF At, Runs, Tiers
  <2> QED
    BY <1>3, <2>1, <2>2, <2>3
<1>5. UNCHANGED <<asset, stored, derived, grant, stale, request, task>>
  BY DEF InsertSibling
<1>6. /\ \A i \in Media \X Tiers : i # k => sibling'[i] = sibling[i]
      /\ sibling[k] # NoGroup => sibling'[k] = sibling[k]
      /\ sibling'[k] \in {sibling[k], run[w].group}
      /\ g.pc # "returnErr" => sibling'[k] # NoGroup
  <2>1. g = At(w, "returnErr") => g.pc = "returnErr"
    BY <1>2 DEF At, Runs
  <2>2. sibling \in [Media \X Tiers -> Groups \cup {NoGroup}]
    BY DEF IInv, TypeOK
  <2> HIDE DEF k, next
  <2> QED
    BY <1>2, <1>3, <2>1, <2>2
<1>7. TypeOK'
  BY <1>2, <1>3, <1>4, <1>5 DEF IInv, TypeOK, Runs
<1> HIDE DEF next
<1>8. AchievedBy(g, asset', sibling', derived', task')
  BY <1>1, <1>2, <1>4, <1>5, <1>6 DEF AchievedBy, Tiers
<1>9. \A m \in Media, t \in Tiers : <<m, t>> \in Media \X Tiers
                                  /\ (<<m, t>> = k => m = run[w].media)
  OBVIOUS
<1>10. asset[run[w].media].verified
  BY <1>1 DEF AchievedBy
<1> HIDE DEF k
<1>11. /\ \A m \in Media, t \in Tiers : HasSibling(m, t) => sibling'[<<m, t>>] = sibling[<<m, t>>]
       /\ \A m \in Media, t \in Tiers : HasSibling(m, t)' /\ ~HasSibling(m, t) =>
              /\ sibling'[<<m, t>>] = asset'[m].group
              /\ <<m, t>> \in derived
              /\ asset[m].verified
  BY <1>2, <1>5, <1>6, <1>9, <1>10 DEF HasSibling
<1>12. run[w].pc # "idle" /\ g.pc # "idle" /\ g \in Runs /\ run' = [run EXCEPT ![w] = g]
  BY <1>1, <1>3, <1>4
<1> QED
  BY <1>5, <1>7, <1>8, <1>11, <1>12, EffectStep

-----------------------------------------------------------------------------
(* The theorems.                                                           *)

\* Every step keeps the invariant.
LEMMA InductiveStep == IInv /\ [Next]_vars => IInv'
<1> SUFFICES ASSUME IInv, [Next]_vars PROVE IInv'
  OBVIOUS
<1>1. CASE UNCHANGED vars
  <2>1. UNCHANGED <<asset, sibling, stored, derived, grant, stale, request, task, run>>
    BY <1>1 DEF vars
  <2> QED
    BY <2>1 DEF IInv, TypeOK, RequestInv, AssetInv, RunInv, AchievedBy, VerifiedWasStored,
       TiersShareGroup, SiblingIsStored, DoneHasSiblings, HasSibling
<1>2. CASE \E m \in Media : Register(m) \/ Reap(m)
  BY <1>2, RegisterStep
<1>3. CASE \E m \in Media : Recover(m)
  BY <1>3, RecoverStep
<1>4. CASE \E r \in Requests : Confirm(r) \/ ApiCrash(r)
  BY <1>4, HeadStep, CommitStep, EnqueueStep DEF Confirm
<1>5. CASE \E r \in Requests, m \in Media : LockAsset(r, m)
  BY <1>5, LockStep
<1>6. CASE \E w \in Workers : Handle(w) \/ LoseLease(w) \/ Crash(w)
  BY <1>6, ReadStep, GroupStep, PutStep, InsertStep, ReturnStep DEF Handle
<1>7. CASE \E w \in Workers, m \in Media : Deliver(w, m)
  BY <1>7, DeliverStep
<1> QED
  BY <1>1, <1>2, <1>3, <1>4, <1>5, <1>6, <1>7 DEF Next

\* The invariant holds throughout.
LEMMA Inductive == Spec => []IInv
BY InitInv, InductiveStep, PTL DEF Spec

\* Type correctness.
THEOREM TypeCorrect == Spec => []TypeOK
<1>1. IInv => TypeOK
  BY DEF IInv
<1> QED
  BY <1>1, Inductive, PTL

\* verified_at and the ETag beside it are never a lie: whatever else races the
\* confirm, COS held those bytes while the row was locked (service.go Confirm).
THEOREM VerifiedSafe == Spec => []VerifiedWasStored
<1>1. IInv => VerifiedWasStored
  BY DEF IInv
<1> QED
  BY <1>1, Inductive, PTL

\* The tiers of a picture share one media_group, over any number of concurrent
\* derive attempts (worker.go ensureGroup).
THEOREM GroupSafe == Spec => []TiersShareGroup
<1>1. IInv => TiersShareGroup
  BY DEF IInv
<1> QED
  BY <1>1, Inductive, PTL

\* Every sibling row has its object and a verified original (worker.go: put
\* before insert).
THEOREM SiblingSafe == Spec => []SiblingIsStored
<1>1. IInv => SiblingIsStored
  BY DEF IInv
<1> QED
  BY <1>1, Inductive, PTL

\* A completed derive task has left both siblings.
THEOREM DoneSafe == Spec => []DoneHasSiblings
<1>1. IInv => DoneHasSiblings
  BY DEF IInv
<1> QED
  BY <1>1, Inductive, PTL

\* However confirms race, one derive task is enqueued for an original.
THEOREM EnqueueSafe == Spec => []EnqueuedOnce
<1>1. IInv => EnqueuedOnce
  BY DEF IInv, RequestInv, EnqueuedOnce
<1> QED
  BY <1>1, Inductive, PTL

\* What RowOnlyAdvances asks of a step, for one row and for the sibling rows.
Advances(a, b) ==
    a.state # "ABSENT" =>
        /\ canTransition(a.state, b.state)
        /\ a.verified => b.verified /\ b.etag = a.etag
        /\ a.group # NoGroup => b.group = a.group

SiblingsKept ==
    \A m \in Media, t \in Tiers : HasSibling(m, t) => sibling'[<<m, t>>] = sibling[<<m, t>>]

\* No step takes a row back.
LEMMA AdvanceStep ==
    ASSUME IInv, [Next]_vars
    PROVE  (\A m \in Media : Advances(asset[m], asset'[m])) /\ SiblingsKept
<1>1. \A a \in Assets : Advances(a, a)
  BY Ranks DEF Advances, Assets
<1>2. CASE asset' = asset
  <2>1. \A m \in Media : Advances(asset[m], asset'[m])
    BY <1>1, <1>2 DEF IInv, TypeOK
  <2>2. CASE sibling' = sibling
    BY <2>1, <2>2 DEF SiblingsKept
  <2>3. CASE \E w \in Workers : InsertSibling(w)
    BY <2>1, <2>3 DEF InsertSibling, SiblingsKept, HasSibling, IInv, TypeOK
  <2>4. sibling' = sibling \/ \E w \in Workers : InsertSibling(w)
    BY DEF Next, vars, Register, IssueUploadCredentials, SyncMedia, Upload, Age, Reap, Recover,
       Confirm, HeadObject, CommitConfirm, EnqueueDerive, ApiCrash, LockAsset, Handle,
       LoadOriginal, EnsureGroup, GetOriginal, PutTier, Return, LoseLease, Crash, Deliver
  <2> QED
    BY <2>2, <2>3, <2>4
<1>3. ASSUME NEW m \in Media, NEW b,
             asset' = [asset EXCEPT ![m] = b], Advances(asset[m], b), sibling' = sibling
      PROVE  (\A n \in Media : Advances(asset[n], asset'[n])) /\ SiblingsKept
  BY <1>1, <1>3 DEF IInv, TypeOK, SiblingsKept
<1>4. CASE \E m \in Media : IssueUploadCredentials(m) \/ SyncMedia(m) \/ Reap(m)
  <2>1. PICK m \in Media : IssueUploadCredentials(m) \/ SyncMedia(m) \/ Reap(m)
    BY <1>4
  <2>2. asset[m] \in Assets /\ sibling' = sibling
    BY <2>1 DEF IssueUploadCredentials, SyncMedia, Reap, IInv, TypeOK
  <2>3. PICK b : /\ asset' = [asset EXCEPT ![m] = b]
                 /\ asset[m].state = "ABSENT" \/ b = asset[m] \/ b = [asset[m] EXCEPT !.reaped = TRUE]
    BY <2>1 DEF IssueUploadCredentials, SyncMedia, Reap
  <2>4. Advances(asset[m], b)
    BY <2>2, <2>3, Ranks DEF Advances, Assets
  <2> QED
    BY <1>3, <2>2, <2>3, <2>4
<1>5. CASE \E r \in Requests : CommitConfirm(r) /\ asset' # asset
  <2>1. PICK r \in Requests : CommitConfirm(r) /\ asset' # asset
    BY <1>5
  <2> DEFINE m == request[r].media
             b == Confirmed(asset[m], request[r].etag)
  <2>2. m \in Media /\ asset[m] \in Assets /\ ~asset[m].verified /\ sibling' = sibling
    BY <2>1 DEF CommitConfirm, IInv, TypeOK, RequestInv, VerifiedWasStored
  <2>3. asset' = [asset EXCEPT ![m] = b]
    BY <2>1 DEF CommitConfirm
  <2>4. Advances(asset[m], b)
    BY <2>2, Ranks DEF Advances, Assets, Confirmed
  <2> HIDE DEF m, b
  <2> QED
    BY <1>3, <2>2, <2>3, <2>4
<1>6. CASE \E w \in Workers : EnsureGroup(w) /\ asset' # asset
  <2>1. PICK w \in Workers : EnsureGroup(w) /\ asset' # asset
    BY <1>6
  <2> DEFINE m == run[w].media
  <2>2. m \in Media /\ asset[m] \in Assets /\ sibling' = sibling
    BY <2>1 DEF EnsureGroup, IInv, TypeOK, RunInv, AchievedBy
  <2>3. PICK g \in EffectiveGroups(m) : asset' = [asset EXCEPT ![m].group = g]
    BY <2>1 DEF EnsureGroup
  <2> DEFINE b == [asset[m] EXCEPT !.group = g]
  <2>4. Advances(asset[m], b)
    BY <2>2, <2>3, Ranks DEF Advances, Assets, EffectiveGroups
  <2>5. asset' = [asset EXCEPT ![m] = b]
    BY <2>3
  <2> HIDE DEF m, b
  <2> QED
    BY <1>3, <2>2, <2>4, <2>5
<1> QED
  BY <1>2, <1>4, <1>5, <1>6
     DEF Next, vars, Register, Upload, Age, Recover,
         Confirm, HeadObject, EnqueueDerive, ApiCrash, LockAsset, Handle,
         LoadOriginal, GetOriginal, PutTier, InsertSibling, Return, LoseLease, Crash, Deliver

\* D4: the capture state only moves forward, and verification, group and
\* sibling rows are never undone.
THEOREM RowsAdvance == Spec => RowOnlyAdvances
<1>1. IInv /\ [Next]_vars =>
        [/\ \A m \in Media : asset[m].state # "ABSENT" =>
               /\ canTransition(asset[m].state, asset'[m].state)
               /\ asset[m].verified => asset'[m].verified /\ asset'[m].etag = asset[m].etag
               /\ asset[m].group # NoGroup => asset'[m].group = asset[m].group
         /\ \A m \in Media, t \in Tiers : HasSibling(m, t) =>
               sibling'[<<m, t>>] = sibling[<<m, t>>]]_vars
  BY AdvanceStep DEF Advances, SiblingsKept
<1> QED
  BY <1>1, Inductive, PTL DEF Spec, RowOnlyAdvances

-----------------------------------------------------------------------------
(* The contract: a task is settled once.                                   *)

\* The processor waits for at most one goroutine per task, and only while Redis
\* holds the task active.
OneOwner ==
    \A w \in Workers : run[w].owns =>
        /\ task[run[w].media].state = "active"
        /\ \A v \in Workers : run[v].owns /\ run[v].media = run[w].media => v = w

\* A step that leaves the tasks alone and gives no goroutine a task keeps it.
LEMMA OwnerFrame ==
    ASSUME OneOwner, task' = task,
           \A v \in Workers : run'[v].owns => run[v].owns /\ run'[v].media = run[v].media
    PROVE  OneOwner'
BY DEF OneOwner

\* The handler passes no task on.
LEMMA HandlerOwns ==
    ASSUME IInv, NEW w \in Workers, Handle(w), ~Return(w)
    PROVE  /\ \A v \in Workers : run'[v].owns => run[v].owns /\ run'[v].media = run[v].media
           /\ task' = task
<1>1. run \in [Workers -> Runs] /\ run[w] \in Runs
  BY DEF IInv, TypeOK
<1>2. \A l : At(w, l).owns = run[w].owns /\ At(w, l).media = run[w].media
  BY <1>1 DEF At, Runs
<1>3. task' = task
  BY DEF Handle, LoadOriginal, EnsureGroup, GetOriginal, PutTier, InsertSibling
<1>4. \E g : /\ run' = [run EXCEPT ![w] = g]
             /\ g.owns = run[w].owns /\ g.media = run[w].media
  <2>1. CASE LoadOriginal(w)
    <3>1. \/ \E l : run' = [run EXCEPT ![w] = At(w, l)]
          \/ \E l, h : run' = [run EXCEPT ![w].pc = l, ![w].group = h]
      BY <2>1 DEF LoadOriginal, Errs
    <3>2. CASE \E l : run' = [run EXCEPT ![w] = At(w, l)]
      BY <1>2, <3>2
    <3>3. ASSUME NEW l, NEW h, run' = [run EXCEPT ![w].pc = l, ![w].group = h]
          PROVE  \E g : /\ run' = [run EXCEPT ![w] = g]
                        /\ g.owns = run[w].owns /\ g.media = run[w].media
      <4>1. run' = [run EXCEPT ![w] = [run[w] EXCEPT !.pc = l, !.group = h]]
        BY <1>1, <3>3
      <4>2. /\ [run[w] EXCEPT !.pc = l, !.group = h].owns = run[w].owns
            /\ [run[w] EXCEPT !.pc = l, !.group = h].media = run[w].media
        BY <1>1 DEF Runs
      <4> QED
        BY <4>1, <4>2
    <3> QED
      BY <3>1, <3>2, <3>3
  <2>2. CASE EnsureGroup(w)
    <3>1. \/ \E l : run' = [run EXCEPT ![w] = At(w, l)]
          \/ \E h : run' = [run EXCEPT ![w] = [At(w, "get") EXCEPT !.group = h]]
      BY <2>2 DEF EnsureGroup, Then, Errs
    <3>2. ASSUME NEW h, run' = [run EXCEPT ![w] = [At(w, "get") EXCEPT !.group = h]]
          PROVE  \E g : /\ run' = [run EXCEPT ![w] = g]
                        /\ g.owns = run[w].owns /\ g.media = run[w].media
      <4>1. /\ [At(w, "get") EXCEPT !.group = h].owns = run[w].owns
            /\ [At(w, "get") EXCEPT !.group = h].media = run[w].media
        BY <1>1 DEF At, Runs
      <4> QED
        BY <3>2, <4>1
    <3>3. CASE \E l : run' = [run EXCEPT ![w] = At(w, l)]
      BY <1>2, <3>3
    <3> QED
      BY <3>1, <3>2, <3>3
  <2>3. CASE GetOriginal(w) \/ PutTier(w)
    <3>1. \E l : run' = [run EXCEPT ![w] = At(w, l)]
      BY <2>3 DEF GetOriginal, PutTier, Then, Errs
    <3> QED
      BY <1>2, <3>1
  <2>4. CASE InsertSibling(w)
    <3>1. \/ \E l : run' = [run EXCEPT ![w] = At(w, l)]
          \/ run' = [run EXCEPT ![w] = [At(w, "put") EXCEPT !.tier = "thumb"]]
      BY <2>4 DEF InsertSibling, Then, Errs
    <3>2. /\ [At(w, "put") EXCEPT !.tier = "thumb"].owns = run[w].owns
          /\ [At(w, "put") EXCEPT !.tier = "thumb"].media = run[w].media
      BY <1>1 DEF At, Runs
    <3> QED
      BY <1>2, <3>1, <3>2
  <2> QED
    BY <2>1, <2>2, <2>3, <2>4 DEF Handle
<1> QED
  BY <1>1, <1>3, <1>4

\* What asynq does to the task of one original.
LEMMA OwnerStep ==
    ASSUME IInv, OneOwner, Next
    PROVE  OneOwner'
<1>1. \A v \in Workers : run[v].pc = "idle" => ~run[v].owns
  BY DEF IInv, RunInv, Idle
<1>2. CASE \E m \in Media : Register(m) \/ Reap(m)
  BY <1>2, OwnerFrame DEF Register, IssueUploadCredentials, SyncMedia, Upload, Age, Reap
<1>3. CASE \E m \in Media : Recover(m)
  <2>1. PICK m \in Media : Recover(m)
    BY <1>3
  <2>2. run' = run /\ \A n \in Media : n # m => task'[n] = task[n]
    BY <2>1 DEF Recover, Charge, IInv, TypeOK
  <2>3. \A w \in Workers : run[w].owns => run[w].media \in Media /\ run[w].media # m
    BY <1>1, <2>1 DEF Recover, IInv, RunInv, AchievedBy
  <2> QED
    BY <2>2, <2>3 DEF OneOwner
<1>4. CASE \E r \in Requests : EnqueueDerive(r)
  <2>1. PICK r \in Requests : EnqueueDerive(r)
    BY <1>4
  <2>2. /\ run' = run /\ task[request[r].media].state = "none"
        /\ \A n \in Media : n # request[r].media => task'[n] = task[n]
    BY <2>1 DEF EnqueueDerive, IInv, TypeOK, RequestInv
  <2>3. \A w \in Workers : run[w].owns =>
            run[w].media \in Media /\ run[w].media # request[r].media
    BY <1>1, <2>2 DEF OneOwner, IInv, RunInv, AchievedBy
  <2> QED
    BY <2>2, <2>3 DEF OneOwner
<1>5. CASE \E r \in Requests : \/ HeadObject(r) \/ CommitConfirm(r) \/ ApiCrash(r)
                              \/ \E m \in Media : LockAsset(r, m)
  BY <1>5, OwnerFrame DEF HeadObject, CommitConfirm, ApiCrash, LockAsset
<1>6. CASE \E w \in Workers : LoseLease(w) \/ Crash(w)
  <2>1. PICK w \in Workers : LoseLease(w) \/ Crash(w)
    BY <1>6
  <2>2. /\ task' = task /\ ~run'[w].owns
        /\ \A v \in Workers : v # w => run'[v] = run[v]
    BY <2>1 DEF LoseLease, Crash, Idle, IInv, TypeOK, Runs
  <2> QED
    BY <2>2, OwnerFrame
<1>7. CASE \E w \in Workers : Return(w)
  <2>1. PICK w \in Workers : Return(w)
    BY <1>7
  <2>2. ~run'[w].owns /\ \A v \in Workers : v # w => run'[v] = run[v]
    BY <2>1 DEF Return, Idle, IInv, TypeOK
  <2>3. CASE ~run[w].owns
    BY <2>1, <2>2, <2>3, OwnerFrame DEF Return
  <2>4. CASE run[w].owns
    <3>1. \A n \in Media : n # run[w].media => task'[n] = task[n]
      BY <2>1 DEF Return, Charge, IInv, TypeOK
    <3>2. \A v \in Workers : v # w /\ run[v].owns =>
              run[v].media \in Media /\ run[v].media # run[w].media
      BY <1>1, <2>4 DEF OneOwner, IInv, RunInv, AchievedBy
    <3> QED
      BY <2>2, <3>1, <3>2 DEF OneOwner
  <2> QED
    BY <2>3, <2>4
<1>8. CASE \E w \in Workers : Handle(w) /\ ~Return(w)
  BY <1>8, HandlerOwns, OwnerFrame
<1>9. CASE \E w \in Workers, m \in Media : Deliver(w, m)
  <2>1. PICK w \in Workers, m \in Media : Deliver(w, m)
    BY <1>9
  <2>2. /\ run'[w].owns /\ run'[w].media = m
        /\ \A v \in Workers : v # w => run'[v] = run[v]
    BY <2>1 DEF Deliver, Idle, IInv, TypeOK
  <2>3. /\ task[m].state = "queued" /\ task'[m].state = "active"
        /\ \A n \in Media : n # m => task'[n] = task[n]
    BY <2>1 DEF Deliver, IInv, TypeOK, Tasks
  <2>4. \A v \in Workers : run[v].owns => run[v].media \in Media /\ run[v].media # m
    BY <1>1, <2>3 DEF OneOwner, IInv, RunInv, AchievedBy
  <2> QED
    BY <2>2, <2>3, <2>4 DEF OneOwner
<1> QED
  BY <1>2, <1>3, <1>4, <1>5, <1>6, <1>7, <1>8, <1>9 DEF Next, Confirm

LEMMA OwnerInductive == Spec => []OneOwner
<1>1. Init => OneOwner
  BY DEF Init, OneOwner, Idle
<1>2. IInv /\ OneOwner /\ [Next]_vars => OneOwner'
  <2>1. CASE UNCHANGED vars
    BY <2>1 DEF vars, OneOwner
  <2> QED
    BY <2>1, OwnerStep
<1> QED
  BY <1>1, <1>2, Inductive, PTL DEF Spec

-----------------------------------------------------------------------------
(* The contract: the steps that show.                                      *)

\* What a viewer finds of one original, now and after the step.
LEMMA ShownNow ==
    ASSUME NEW m \in Media
    PROVE  /\ Shown[m].phase = Phase(m) /\ Shown[m].etag = VerifiedBy(m)
           /\ Shown[m].group = asset[m].group /\ Shown[m].tiers = TiersOf(m)
           /\ Shown[m].derivation = Derivation(m)
           /\ Shown[m] = [phase |-> Shown[m].phase, etag |-> Shown[m].etag,
                          group |-> Shown[m].group, tiers |-> Shown[m].tiers,
                          derivation |-> Shown[m].derivation]
BY DEF Shown

LEMMA ShownNext ==
    ASSUME NEW m \in Media
    PROVE  /\ Shown'[m].phase = Phase(m)' /\ Shown'[m].etag = VerifiedBy(m)'
           /\ Shown'[m].group = asset'[m].group /\ Shown'[m].tiers = TiersOf(m)'
           /\ Shown'[m].derivation = Derivation(m)'
           /\ Shown'[m] = [phase |-> Shown'[m].phase, etag |-> Shown'[m].etag,
                           group |-> Shown'[m].group, tiers |-> Shown'[m].tiers,
                           derivation |-> Shown'[m].derivation]
BY DEF Shown

\* Only the row, the siblings and the task of an original show.
LEMMA RowShows ==
    ASSUME NEW m \in Media, asset'[m].state = asset[m].state,
           asset'[m].verified = asset[m].verified, asset'[m].etag = asset[m].etag
    PROVE  Phase(m)' = Phase(m) /\ VerifiedBy(m)' = VerifiedBy(m)
BY DEF Phase, VerifiedBy

LEMMA TiersShow ==
    ASSUME NEW m \in Media, \A t \in Tiers : sibling'[<<m, t>>] = sibling[<<m, t>>]
    PROVE  TiersOf(m)' = TiersOf(m)
BY DEF TiersOf, HasSibling

LEMMA TaskShows ==
    ASSUME NEW m \in Media, task'[m].state = task[m].state
    PROVE  Derivation(m)' = Derivation(m)
BY DEF Derivation

LEMMA SameShown ==
    ASSUME NEW m \in Media,
           Phase(m)' = Phase(m), VerifiedBy(m)' = VerifiedBy(m), asset'[m].group = asset[m].group,
           TiersOf(m)' = TiersOf(m), Derivation(m)' = Derivation(m)
    PROVE  Shown'[m] = Shown[m]
<1>1. Shown[m] = [phase |-> Phase(m), etag |-> VerifiedBy(m), group |-> asset[m].group,
                  tiers |-> TiersOf(m), derivation |-> Derivation(m)]
  BY ShownNow
<1>2. /\ Shown'[m].phase = Phase(m) /\ Shown'[m].etag = VerifiedBy(m)
      /\ Shown'[m].group = asset[m].group /\ Shown'[m].tiers = TiersOf(m)
      /\ Shown'[m].derivation = Derivation(m)
  BY ShownNext
<1>3. Shown'[m] = [phase |-> Phase(m), etag |-> VerifiedBy(m), group |-> asset[m].group,
                   tiers |-> TiersOf(m), derivation |-> Derivation(m)]
  BY <1>2, ShownNext
<1> QED
  BY <1>1, <1>3

\* A step that shows in one original, and there as a step of the contract, is
\* one.
LEMMA OnePicture ==
    ASSUME NEW k \in Media,
           \A i \in Media : i # k => Shown'[i] = Shown[i],
           Shown'[k] = Shown[k] \/ Contract!Step(Shown[k], Shown'[k])
    PROVE  [Contract!Next]_Shown
<1> DEFINE S == Shown
           T == Shown'
<1>1. S = [i \in Media |-> S[i]] /\ T = [i \in Media |-> T[i]]
  BY DEF Shown
<1> HIDE DEF S, T
<1>2. T = [S EXCEPT ![k] = T[k]]
  <2>1. \A i \in Media : i # k => T[i] = S[i]
    BY DEF S, T
  <2> QED
    BY <1>1, <2>1
<1>3. CASE Contract!Step(Shown[k], Shown'[k])
  BY <1>2, <1>3 DEF Contract!Next, S, T
<1>4. CASE T[k] = S[k]
  <2>1. T = S
    BY <1>1, <1>2, <1>4
  <2> QED
    BY <2>1 DEF S, T
<1> QED
  BY <1>3, <1>4 DEF S, T

\* A step that changes no row, sibling or task does not show.
LEMMA Unseen ==
    ASSUME UNCHANGED <<asset, sibling, task>>
    PROVE  [Contract!Next]_Shown
BY DEF Shown, Phase, VerifiedBy, TiersOf, HasSibling, Derivation

\* A step of one task schedules the derivation, settles it, or does not show.
LEMMA TaskImplements ==
    ASSUME NEW k \in Media, asset' = asset, sibling' = sibling,
           \A i \in Media : i # k => task'[i] = task[i],
           \/ Derivation(k)' = Derivation(k)
           \/ Derivation(k) = "none" /\ Derivation(k)' = "pending" /\ VerifiedBy(k) # 0
           \/ /\ Derivation(k) = "pending"
              /\ Derivation(k)' \in {"done", "gaveUp"}
              /\ Derivation(k)' = "done" => TiersOf(k) = Tiers
    PROVE  [Contract!Next]_Shown
<1>1. \A i \in Media : /\ Phase(i)' = Phase(i) /\ VerifiedBy(i)' = VerifiedBy(i)
                        /\ TiersOf(i)' = TiersOf(i)
  BY RowShows, TiersShow
<1>2. \A i \in Media : i # k => Derivation(i)' = Derivation(i)
  BY TaskShows
<1>3. \A i \in Media : i # k => Shown'[i] = Shown[i]
  BY <1>1, <1>2, SameShown
<1>4. CASE Derivation(k)' = Derivation(k)
  <2>1. Shown'[k] = Shown[k]
    BY <1>1, <1>4, SameShown
  <2> QED
    BY <1>3, <2>1, OnePicture
<1>5. CASE Derivation(k)' # Derivation(k)
  <2>1. Shown'[k] = [Shown[k] EXCEPT !.derivation = Derivation(k)']
    <3> DEFINE d == Derivation(k)'
    <3>1. Shown[k] = [phase |-> Phase(k), etag |-> VerifiedBy(k), group |-> asset[k].group,
                      tiers |-> TiersOf(k), derivation |-> Derivation(k)]
      BY ShownNow
    <3>2. /\ Shown'[k].phase = Phase(k) /\ Shown'[k].etag = VerifiedBy(k)
          /\ Shown'[k].group = asset[k].group /\ Shown'[k].tiers = TiersOf(k)
          /\ Shown'[k].derivation = d
      BY <1>1, ShownNext
    <3> HIDE DEF d
    <3>3. Shown'[k] = [phase |-> Phase(k), etag |-> VerifiedBy(k), group |-> asset[k].group,
                       tiers |-> TiersOf(k), derivation |-> d]
      BY <3>2, ShownNext
    <3>4. Shown'[k] = [Shown[k] EXCEPT !.derivation = d]
      BY <3>1, <3>3
    <3> QED
      BY <3>4 DEF d
  <2>2. /\ Shown[k].derivation = Derivation(k) /\ Shown[k].etag = VerifiedBy(k)
        /\ Shown[k].tiers = TiersOf(k)
    BY ShownNow
  <2>3. CASE Derivation(k) = "none" /\ Derivation(k)' = "pending" /\ VerifiedBy(k) # 0
    BY <1>3, <2>1, <2>2, <2>3, OnePicture DEF Contract!Step, Contract!Schedule
  <2>4. CASE /\ Derivation(k) = "pending"
             /\ Derivation(k)' \in {"done", "gaveUp"}
             /\ Derivation(k)' = "done" => TiersOf(k) = Tiers
    <3>1. Contract!Settle(Shown[k], Shown'[k])
      BY <2>1, <2>2, <2>4 DEF Contract!Settle, Contract!Tiers, Tiers
    <3> QED
      BY <1>3, <3>1, OnePicture DEF Contract!Step
  <2> QED
    BY <1>5, <2>3, <2>4
<1> QED
  BY <1>4, <1>5

\* A step of one row registers or verifies the picture, gives it its group, or
\* does not show.
LEMMA RowImplements ==
    ASSUME IInv, NEW k \in Media, sibling' = sibling, task' = task,
           \A i \in Media : i # k => asset'[i] = asset[i],
           \/ /\ Phase(k)' = Phase(k) /\ VerifiedBy(k)' = VerifiedBy(k)
              /\ asset'[k].group = asset[k].group
           \/ /\ asset[k].state = "ABSENT"
              /\ Phase(k)' \in {"waiting", "confirmed"} /\ VerifiedBy(k)' = 0
              /\ asset'[k].group \in Groups \cup {NoGroup}
           \/ /\ Phase(k) = "waiting" /\ Phase(k)' = "confirmed"
              /\ VerifiedBy(k)' \in Nat \ {0}
              /\ asset'[k].group = asset[k].group
           \/ /\ Phase(k)' = Phase(k) /\ VerifiedBy(k)' = VerifiedBy(k)
              /\ asset[k].group = NoGroup /\ asset'[k].group \in Groups
              /\ Derivation(k) # "none"
    PROVE  [Contract!Next]_Shown
<1>1. \A i \in Media : TiersOf(i)' = TiersOf(i) /\ Derivation(i)' = Derivation(i)
  BY TiersShow, TaskShows
<1>2. \A i \in Media : i # k => Phase(i)' = Phase(i) /\ VerifiedBy(i)' = VerifiedBy(i)
  BY RowShows
<1>3. \A i \in Media : i # k => Shown'[i] = Shown[i]
  BY <1>1, <1>2, SameShown
<1>4. /\ Shown[k] = [phase |-> Phase(k), etag |-> VerifiedBy(k), group |-> asset[k].group,
                     tiers |-> TiersOf(k), derivation |-> Derivation(k)]
      /\ Shown'[k] = [phase |-> Phase(k)', etag |-> VerifiedBy(k)', group |-> asset'[k].group,
                      tiers |-> TiersOf(k), derivation |-> Derivation(k)]
  <2>1. Shown[k] = [phase |-> Phase(k), etag |-> VerifiedBy(k), group |-> asset[k].group,
                    tiers |-> TiersOf(k), derivation |-> Derivation(k)]
    BY ShownNow
  <2>2. Shown'[k].tiers = TiersOf(k) /\ Shown'[k].derivation = Derivation(k)
    BY <1>1, ShownNext
  <2>3. Shown'[k] = [phase |-> Phase(k)', etag |-> VerifiedBy(k)', group |-> asset'[k].group,
                     tiers |-> TiersOf(k), derivation |-> Derivation(k)]
    BY <2>2, ShownNext
  <2> QED
    BY <2>1, <2>3
<1>5. CASE /\ Phase(k)' = Phase(k) /\ VerifiedBy(k)' = VerifiedBy(k)
           /\ asset'[k].group = asset[k].group
  <2>1. Shown'[k] = Shown[k]
    BY <1>1, <1>5, SameShown
  <2> QED
    BY <1>3, <2>1, OnePicture
<1>6. CASE /\ asset[k].state = "ABSENT"
           /\ Phase(k)' \in {"waiting", "confirmed"} /\ VerifiedBy(k)' = 0
           /\ asset'[k].group \in Groups \cup {NoGroup}
  <2>1. asset[k] = NoAsset /\ ~asset[k].verified /\ asset[k].group = NoGroup
    BY <1>6, Values DEF IInv, AssetInv
  <2>2. /\ Phase(k) = "none" /\ VerifiedBy(k) = 0
        /\ TiersOf(k) = {} /\ Derivation(k) = "none"
    BY <1>6, <2>1 DEF Phase, VerifiedBy, TiersOf, Derivation, IInv, AssetInv, SiblingIsStored
  <2>3. Shown[k] = Contract!Unknown
    BY <1>4, <2>1, <2>2 DEF Contract!Unknown
  <2>4. Shown'[k] = [Contract!Unknown EXCEPT !.phase = Phase(k)', !.group = asset'[k].group]
    <3>1. /\ Contract!Unknown = [phase |-> "none", etag |-> 0, group |-> NoGroup,
                                 tiers |-> {}, derivation |-> "none"]
          /\ Shown'[k] = [phase |-> Phase(k)', etag |-> 0, group |-> asset'[k].group,
                          tiers |-> {}, derivation |-> "none"]
      BY <1>4, <1>6, <2>2 DEF Contract!Unknown
    <3> DEFINE mid == [Contract!Unknown EXCEPT !.phase = Phase(k)']
    <3>2. mid = [phase |-> Phase(k)', etag |-> 0, group |-> NoGroup,
                 tiers |-> {}, derivation |-> "none"]
      BY <3>1
    <3>3. [Contract!Unknown EXCEPT !.phase = Phase(k)', !.group = asset'[k].group] =
            [mid EXCEPT !.group = asset'[k].group]
      OBVIOUS
    <3> HIDE DEF mid
    <3>4. [mid EXCEPT !.group = asset'[k].group] = Shown'[k]
      BY <3>1, <3>2
    <3> QED
      BY <3>3, <3>4
  <2>5. Contract!Register(Shown[k], Shown'[k])
    BY <1>6, <2>3, <2>4 DEF Contract!Register
  <2> QED
    BY <1>3, <2>5, OnePicture DEF Contract!Step
<1>7. CASE /\ Phase(k) = "waiting" /\ Phase(k)' = "confirmed"
           /\ VerifiedBy(k)' \in Nat \ {0}
           /\ asset'[k].group = asset[k].group
  <2>1. Shown[k].phase = "waiting" /\ Shown'[k].etag = VerifiedBy(k)'
    BY <1>7, ShownNow, ShownNext
  <2>2. Shown'[k] = [Shown[k] EXCEPT !.phase = "confirmed", !.etag = VerifiedBy(k)']
    <3>1. Shown'[k] = [phase |-> "confirmed", etag |-> VerifiedBy(k)', group |-> asset[k].group,
                       tiers |-> TiersOf(k), derivation |-> Derivation(k)]
      BY <1>4, <1>7
    <3> DEFINE mid == [Shown[k] EXCEPT !.phase = "confirmed"]
    <3>2. mid = [phase |-> "confirmed", etag |-> VerifiedBy(k), group |-> asset[k].group,
                 tiers |-> TiersOf(k), derivation |-> Derivation(k)]
      BY <1>4
    <3>3. [Shown[k] EXCEPT !.phase = "confirmed", !.etag = VerifiedBy(k)'] =
            [mid EXCEPT !.etag = VerifiedBy(k)']
      OBVIOUS
    <3> HIDE DEF mid
    <3>4. [mid EXCEPT !.etag = VerifiedBy(k)'] = Shown'[k]
      BY <3>1, <3>2
    <3> QED
      BY <3>3, <3>4
  <2>3. Contract!Verify(Shown[k], Shown'[k])
    BY <1>7, <2>1, <2>2 DEF Contract!Verify
  <2> QED
    BY <1>3, <2>3, OnePicture DEF Contract!Step
<1>8. CASE /\ Phase(k)' = Phase(k) /\ VerifiedBy(k)' = VerifiedBy(k)
           /\ asset[k].group = NoGroup /\ asset'[k].group \in Groups
           /\ Derivation(k) # "none"
  <2>1. /\ Shown[k].group = NoGroup /\ Shown[k].derivation # "none"
        /\ Shown'[k].group = asset'[k].group
    BY <1>8, ShownNow, ShownNext
  <2>2. Shown'[k] = [Shown[k] EXCEPT !.group = asset'[k].group]
    BY <1>4, <1>8
  <2>3. Contract!JoinGroup(Shown[k], Shown'[k])
    BY <1>8, <2>1, <2>2 DEF Contract!JoinGroup
  <2> QED
    BY <1>3, <2>3, OnePicture DEF Contract!Step
<1> QED
  BY <1>5, <1>6, <1>7, <1>8

\* Registering, confirming and reaping.
LEMMA RegisterImplements ==
    ASSUME IInv, NEW m \in Media, Register(m) \/ Reap(m)
    PROVE  [Contract!Next]_Shown
<1>1. asset[m] \in Assets /\ task' = task /\ sibling' = sibling
  BY DEF Register, IssueUploadCredentials, SyncMedia, Upload, Age, Reap, IInv, TypeOK
<1>2. CASE Upload(m) \/ Age(m)
  BY <1>2, Unseen DEF Upload, Age
<1>3. CASE asset[m].state # "ABSENT" /\ (IssueUploadCredentials(m) \/ Reap(m))
  <2>1. /\ asset'[m].state = asset[m].state /\ asset'[m].verified = asset[m].verified
        /\ asset'[m].etag = asset[m].etag /\ asset'[m].group = asset[m].group
        /\ \A i \in Media : i # m => asset'[i] = asset[i]
    BY <1>1, <1>3 DEF IssueUploadCredentials, Reap, IInv, TypeOK, Assets
  <2>2. Phase(m)' = Phase(m) /\ VerifiedBy(m)' = VerifiedBy(m)
    BY <2>1, RowShows
  <2> QED
    BY <1>1, <2>1, <2>2, RowImplements
<1>4. CASE asset[m].state = "ABSENT" /\ (IssueUploadCredentials(m) \/ SyncMedia(m))
  <2>1. /\ asset'[m].state \in CaptureStates /\ ~asset'[m].verified
        /\ asset'[m].group \in Groups \cup {NoGroup}
        /\ \A i \in Media : i # m => asset'[i] = asset[i]
    <3>1. CASE IssueUploadCredentials(m)
      BY <1>4, <3>1 DEF IssueUploadCredentials, IInv, TypeOK, NoAsset, CaptureStates
    <3>2. CASE SyncMedia(m)
      BY <3>2, MediaAssumption DEF SyncMedia, IInv, TypeOK, NoAsset
    <3> QED
      BY <1>4, <3>1, <3>2
  <2>2. Phase(m)' \in {"waiting", "confirmed"} /\ VerifiedBy(m)' = 0
    BY <2>1, Values DEF Phase, VerifiedBy
  <2> QED
    BY <1>1, <1>4, <2>1, <2>2, RowImplements
<1> QED
  BY <1>2, <1>3, <1>4, Values DEF Register, SyncMedia, Reap

LEMMA ConfirmImplements ==
    ASSUME IInv, NEW r \in Requests,
           Confirm(r) \/ ApiCrash(r) \/ \E m \in Media : LockAsset(r, m)
    PROVE  [Contract!Next]_Shown
<1>1. CASE HeadObject(r) \/ ApiCrash(r) \/ \E m \in Media : LockAsset(r, m)
  BY <1>1, Unseen DEF HeadObject, ApiCrash, LockAsset
<1>2. CASE CommitConfirm(r)
  <2>0. request[r].media \in Media
    BY <1>2 DEF CommitConfirm, IInv, RequestInv
  <2> PICK m \in Media : m = request[r].media
    BY <2>0
  <2>1. /\ asset[m] \in Assets /\ task' = task /\ sibling' = sibling
        /\ asset[m].state \in CaptureStates \ {"CONFIRMED"}
        /\ request[r].etag \in Nat \ {0}
    BY <1>2 DEF CommitConfirm, IInv, TypeOK, RequestInv
  <2>2. CASE asset' = asset
    BY <2>1, <2>2, Unseen
  <2>3. CASE asset' = [asset EXCEPT ![m] = Confirmed(@, request[r].etag)]
    <3>1. /\ asset'[m].state = "CONFIRMED" /\ asset'[m].verified
          /\ asset'[m].etag = request[r].etag /\ asset'[m].group = asset[m].group
          /\ \A i \in Media : i # m => asset'[i] = asset[i]
      BY <2>1, <2>3 DEF Confirmed, Assets, IInv, TypeOK
    <3>2. /\ Phase(m) = "waiting" /\ Phase(m)' = "confirmed"
          /\ VerifiedBy(m)' \in Nat \ {0}
      BY <2>1, <3>1, Values DEF Phase, VerifiedBy
    <3> QED
      BY <2>1, <3>1, <3>2, RowImplements
  <2> QED
    BY <1>2, <2>2, <2>3 DEF CommitConfirm
<1>3. CASE EnqueueDerive(r)
  <2>0. request[r].media \in Media
    BY <1>3 DEF EnqueueDerive, IInv, RequestInv
  <2> PICK m \in Media : m = request[r].media
    BY <2>0
  <2>1. /\ asset' = asset /\ sibling' = sibling
        /\ task[m].state = "none" /\ asset[m].verified
        /\ asset[m].etag \in 1..stored[m] /\ stored[m] \in Nat
    BY <1>3 DEF EnqueueDerive, IInv, TypeOK, RequestInv, VerifiedWasStored
  <2>2. CASE task' = task
    BY <2>1, <2>2, Unseen
  <2>3. CASE task' = [task EXCEPT ![m] = [state |-> "queued", retried |-> 0]]
    <3>1. task'[m].state = "queued" /\ \A i \in Media : i # m => task'[i] = task[i]
      BY <2>3 DEF IInv, TypeOK
    <3>2. /\ Derivation(m) = "none" /\ Derivation(m)' = "pending"
          /\ VerifiedBy(m) # 0
      BY <2>1, <3>1 DEF Derivation, VerifiedBy
    <3> QED
      BY <2>1, <3>1, <3>2, TaskImplements
  <2> QED
    BY <1>3, <2>2, <2>3 DEF EnqueueDerive
<1> QED
  BY <1>1, <1>2, <1>3 DEF Confirm

\* A delivery that fails leaves the derivation pending or gives it up.
LEMMA ChargeImplements ==
    ASSUME IInv, NEW m \in Media, task[m].state = "active", Charge(m),
           asset' = asset, sibling' = sibling
    PROVE  [Contract!Next]_Shown
<1>1. /\ task'[m].state \in {"queued", "archived"}
      /\ \A i \in Media : i # m => task'[i] = task[i]
  <2>1. task \in [Media -> Tasks]
    BY DEF IInv, TypeOK
  <2> QED
    BY <2>1 DEF Charge, Tasks
<1>2. Derivation(m) = "pending" /\ Derivation(m)' \in {"pending", "gaveUp"}
  BY <1>1 DEF Derivation
<1> QED
  BY <1>1, <1>2, TaskImplements

\* A delivery and a return.
LEMMA QueueImplements ==
    ASSUME IInv, OneOwner, NEW w \in Workers,
           Return(w) \/ \E m \in Media : Deliver(w, m)
    PROVE  [Contract!Next]_Shown
<1>1. ASSUME NEW m \in Media, Deliver(w, m) PROVE [Contract!Next]_Shown
  <2>0. task \in [Media -> Tasks]
    BY DEF IInv, TypeOK
  <2>1. /\ asset' = asset /\ sibling' = sibling
        /\ task[m].state = "queued" /\ task'[m].state = "active"
        /\ \A i \in Media : i # m => task'[i] = task[i]
    BY <1>1, <2>0 DEF Deliver, Tasks
  <2>2. Derivation(m)' = Derivation(m)
    BY <2>1 DEF Derivation
  <2> QED
    BY <2>1, <2>2, TaskImplements
<1>2. CASE Return(w)
  <2>1. asset' = asset /\ sibling' = sibling /\ run[w].pc # "idle" /\ run[w].media \in Media
    BY <1>2 DEF Return, IInv, RunInv, AchievedBy
  <2> PICK k \in Media : k = run[w].media
    BY <2>1
  <2>2. CASE task' = task
    BY <2>1, <2>2, Unseen
  <2>3. CASE run[w].owns
    <3>1. task[k].state = "active" /\ Derivation(k) = "pending"
      BY <2>3 DEF OneOwner, Derivation
    <3>2. CASE run[w].pc = "returnErr" /\ Charge(k)
      BY <2>1, <3>1, <3>2, ChargeImplements
    <3>3. CASE run[w].pc = "returnOk" /\ task' = [task EXCEPT ![k].state = "done"]
      <4>1. task'[k].state = "done" /\ \A i \in Media : i # k => task'[i] = task[i]
        BY <3>3 DEF IInv, TypeOK, Tasks
      <4>2. TiersOf(k) = Tiers
        BY <2>1, <3>3 DEF IInv, RunInv, AchievedBy, TiersOf, HasSibling
      <4>3. Derivation(k)' = "done"
        BY <4>1 DEF Derivation
      <4> QED
        BY <2>1, <3>1, <4>1, <4>2, <4>3, TaskImplements
    <3>4. CASE run[w].pc = "skipRetry" /\ task' = [task EXCEPT ![k].state = "archived"]
      <4>1. task'[k].state = "archived" /\ \A i \in Media : i # k => task'[i] = task[i]
        BY <3>4 DEF IInv, TypeOK, Tasks
      <4>2. Derivation(k)' = "gaveUp"
        BY <4>1 DEF Derivation
      <4> QED
        BY <2>1, <3>1, <4>1, <4>2, TaskImplements
    <3> QED
      BY <1>2, <2>2, <2>3, <3>2, <3>3, <3>4 DEF Return
  <2> QED
    BY <1>2, <2>2, <2>3 DEF Return
<1> QED
  BY <1>1, <1>2

\* A step that adds a tier to a picture that has its group, after the web tier
\* the thumb.
LEMMA TiersImplement ==
    ASSUME NEW k \in Media, NEW t \in Tiers, asset' = asset, task' = task,
           Derivation(k) # "none", asset[k].group # NoGroup,
           t = "thumb" => HasSibling(k, "web"), ~HasSibling(k, t),
           sibling'[<<k, t>>] = asset[k].group,
           \A i \in Media, u \in Tiers :
               i # k \/ u # t => sibling'[<<i, u>>] = sibling[<<i, u>>]
    PROVE  [Contract!Next]_Shown
<1>1. TiersOf(k)' = TiersOf(k) \cup {t} /\ t \in Tiers \ TiersOf(k)
  BY DEF TiersOf, HasSibling
<1>2. \A i \in Media : /\ Phase(i)' = Phase(i) /\ VerifiedBy(i)' = VerifiedBy(i)
                        /\ Derivation(i)' = Derivation(i)
  BY RowShows, TaskShows
<1>3. \A i \in Media : i # k => TiersOf(i)' = TiersOf(i)
  BY TiersShow
<1>4. \A i \in Media : i # k => Shown'[i] = Shown[i]
  BY <1>2, <1>3, SameShown
<1>5. Shown'[k] = [Shown[k] EXCEPT !.tiers = TiersOf(k)']
  <2> DEFINE ts == TiersOf(k)'
  <2>1. Shown[k] = [phase |-> Phase(k), etag |-> VerifiedBy(k), group |-> asset[k].group,
                    tiers |-> TiersOf(k), derivation |-> Derivation(k)]
    BY ShownNow
  <2>2. /\ Shown'[k].phase = Phase(k) /\ Shown'[k].etag = VerifiedBy(k)
        /\ Shown'[k].group = asset[k].group /\ Shown'[k].derivation = Derivation(k)
        /\ Shown'[k].tiers = ts
    BY <1>2, ShownNext
  <2> HIDE DEF ts
  <2>3. Shown'[k] = [phase |-> Phase(k), etag |-> VerifiedBy(k), group |-> asset[k].group,
                     tiers |-> ts, derivation |-> Derivation(k)]
    BY <2>2, ShownNext
  <2>4. Shown'[k] = [Shown[k] EXCEPT !.tiers = ts]
    BY <2>1, <2>3
  <2> QED
    BY <2>4 DEF ts
<1>6. /\ Shown[k].derivation # "none" /\ Shown[k].group # NoGroup
      /\ Shown[k].tiers = TiersOf(k)
      /\ t = "thumb" => "web" \in TiersOf(k)
  BY ShownNow DEF TiersOf, Tiers
<1>7. Contract!Derive(Shown[k], Shown'[k])
  <2>1. t \in Contract!Tiers \ Shown[k].tiers
    BY <1>1, <1>6 DEF Contract!Tiers, Tiers
  <2>2. Shown'[k] = [Shown[k] EXCEPT !.tiers = @ \cup {t}]
    BY <1>1, <1>5, <1>6
  <2> QED
    BY <1>6, <2>1, <2>2 DEF Contract!Derive
<1> QED
  BY <1>4, <1>7, OnePicture DEF Contract!Step

\* The handler: it gives the picture a group, and its tiers.
LEMMA HandlerImplements ==
    ASSUME IInv, NEW w \in Workers, Handle(w), ~Return(w)
    PROVE  [Contract!Next]_Shown
<1>0. run[w].pc # "idle" /\ run[w].media \in Media /\ task' = task
  BY DEF Handle, LoadOriginal, EnsureGroup, GetOriginal, PutTier, InsertSibling,
         IInv, RunInv, AchievedBy
<1> PICK k \in Media : k = run[w].media
  BY <1>0
<1>1. /\ AchievedBy(run[w], asset, sibling, derived, task)
      /\ asset[k].verified /\ Derivation(k) # "none"
  <2>1. AchievedBy(run[w], asset, sibling, derived, task)
    BY <1>0 DEF IInv, RunInv
  <2> QED
    BY <2>1 DEF AchievedBy, Derivation
<1>2. CASE LoadOriginal(w) \/ GetOriginal(w) \/ PutTier(w)
  BY <1>2, Unseen DEF LoadOriginal, GetOriginal, PutTier
<1>3. CASE EnsureGroup(w)
  <2>1. sibling' = sibling
    BY <1>3 DEF EnsureGroup
  <2>2. CASE asset' = asset
    BY <1>0, <2>1, <2>2, Unseen
  <2>3. CASE \E g \in EffectiveGroups(k) : asset' = [asset EXCEPT ![k].group = g]
    <3>1. PICK g \in EffectiveGroups(k) : asset' = [asset EXCEPT ![k].group = g]
      BY <2>3
    <3>2. /\ asset'[k].state = asset[k].state /\ asset'[k].verified = asset[k].verified
          /\ asset'[k].etag = asset[k].etag /\ asset'[k].group = g
          /\ \A i \in Media : i # k => asset'[i] = asset[i]
      BY <3>1 DEF IInv, TypeOK, Assets
    <3>3. IF asset[k].group = NoGroup THEN g \in Groups ELSE g = asset[k].group
      BY <3>1 DEF EffectiveGroups
    <3>4. Phase(k)' = Phase(k) /\ VerifiedBy(k)' = VerifiedBy(k)
      BY <3>2, RowShows
    <3> QED
      BY <1>0, <1>1, <2>1, <3>2, <3>3, <3>4, RowImplements
  <2> QED
    BY <1>3, <2>2, <2>3 DEF EnsureGroup
<1>4. CASE InsertSibling(w)
  <2> DEFINE t == run[w].tier
  <2>1. /\ asset' = asset /\ t \in Tiers
        /\ asset[k].group # NoGroup /\ run[w].group = asset[k].group
        /\ t = "thumb" => HasSibling(k, "web")
    BY <1>1, <1>4 DEF InsertSibling, AchievedBy, HasSibling, IInv, TypeOK, Runs
  <2>2. \/ sibling' = sibling
        \/ sibling[<<k, t>>] = NoGroup /\ sibling' = [sibling EXCEPT ![<<k, t>>] = run[w].group]
    BY <1>4, <2>1 DEF InsertSibling, IInv, TypeOK
  <2>3. CASE sibling' = sibling
    BY <1>0, <2>1, <2>3, Unseen
  <2>4. CASE sibling[<<k, t>>] = NoGroup /\ sibling' = [sibling EXCEPT ![<<k, t>>] = run[w].group]
    <3>1. /\ sibling'[<<k, t>>] = asset[k].group
          /\ \A i \in Media, u \in Tiers :
                i # k \/ u # t => sibling'[<<i, u>>] = sibling[<<i, u>>]
      BY <2>1, <2>4 DEF IInv, TypeOK
    <3> HIDE DEF t
    <3> QED
      BY <1>0, <1>1, <2>1, <2>4, <3>1, TiersImplement DEF HasSibling
  <2> QED
    BY <2>2, <2>3, <2>4
<1> QED
  BY <1>2, <1>3, <1>4 DEF Handle

(* Uploads, racing confirms, lost leases, crashes and overlapping attempts    *)
(* look to a viewer like one picture that is registered, verified, scheduled, *)
(* grouped and derived, each once, and whose derivation is settled once       *)
(* (Service.Confirm, Worker.HandleDeriveTiers).                               *)
THEOREM Implementation == Spec => PromiseKept
<1>1. Init => Contract!Init
  <2> SUFFICES ASSUME Init PROVE Shown = [m \in Media |-> Contract!Unknown]
    BY DEF Contract!Init
  <2>1. \A m \in Media : /\ Phase(m) = "none" /\ VerifiedBy(m) = 0 /\ asset[m].group = NoGroup
                        /\ TiersOf(m) = {} /\ Derivation(m) = "none"
    BY DEF Init, Phase, VerifiedBy, TiersOf, HasSibling, Derivation, NoAsset, Tiers
  <2> QED
    BY <2>1 DEF Shown, Contract!Unknown
<1>2. IInv /\ OneOwner /\ [Next]_vars => [Contract!Next]_Shown
  <2>1. ASSUME IInv, OneOwner, Next PROVE [Contract!Next]_Shown
    <3>1. CASE \E m \in Media : Register(m) \/ Reap(m)
      BY <2>1, <3>1, RegisterImplements
    <3>2. CASE \E m \in Media : Recover(m)
      BY <2>1, <3>2, ChargeImplements DEF Recover
    <3>3. CASE \E r \in Requests : \/ Confirm(r) \/ ApiCrash(r)
                                   \/ \E m \in Media : LockAsset(r, m)
      BY <2>1, <3>3, ConfirmImplements
    <3>4. CASE \E w \in Workers : \/ Handle(w) /\ ~Return(w)
                                  \/ LoseLease(w) \/ Crash(w)
      BY <2>1, <3>4, HandlerImplements, Unseen DEF LoseLease, Crash
    <3>5. CASE \E w \in Workers : Return(w) \/ \E m \in Media : Deliver(w, m)
      BY <2>1, <3>5, QueueImplements
    <3> QED
      BY <2>1, <3>1, <3>2, <3>3, <3>4, <3>5 DEF Next
  <2>2. CASE UNCHANGED vars
    BY <2>2, Unseen DEF vars
  <2> QED
    BY <2>1, <2>2
<1> QED
  BY <1>1, <1>2, Inductive, OwnerInductive, PTL DEF Spec, PromiseKept, Contract!Spec
=============================================================================
