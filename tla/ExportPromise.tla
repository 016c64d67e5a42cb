--------------------------- MODULE ExportPromise ---------------------------
(***************************************************************************)
(* What POST /exports and GET /exports/{uuid} promise the admin, whatever  *)
(* the queue, the workers and their faults make of the job: a request is   *)
(* answered once, and never with a job that is not there; the job of an    *)
(* answered request does not go away; once there is a file, there always   *)
(* is; and when the queue has concluded the job, nothing changes any more, *)
(* "done" meaning that the file is there.                                  *)
(***************************************************************************)
CONSTANT Jobs

VARIABLE job  \* per job: what the POST was answered ("none": nothing yet),
              \* what a GET finds, and what the queue has concluded

Views == [answer : {"none", "created", "refused"},
          found : {"none", "waiting", "ready"},
          over : {"no", "done", "gaveUp"}]

Unknown == [answer |-> "none", found |-> "none", over |-> "no"]

Init == job = [j \in Jobs |-> Unknown]

-----------------------------------------------------------------------------
(* The steps of one job, from what it was to what it is then.              *)

\* The job appears; the request may already fail.
Insert(old, new) ==
    /\ old = Unknown
    /\ \E a \in {"none", "refused"} :
          new = [answer |-> a, found |-> "waiting", over |-> "no"]

Promise(old, new) ==
    /\ old.answer = "none"
    /\ old.found # "none"
    /\ new = [old EXCEPT !.answer = "created"]

\* What can be concluded of a job when this is found of it.
Conclusions(found) == IF found = "waiting" THEN {"gaveUp"} ELSE {"done", "gaveUp"}

\* A refused request may leave its job behind, and the job may have run.
Refuse(old, new) ==
    /\ old.answer = "none"
    /\ new \in Views
    /\ new.answer = "refused"
    /\ new.found \in {"none", old.found}
    /\ new.over \in {"no"} \cup Conclusions(new.found)

Finish(old, new) ==
    /\ old.found = "waiting"
    /\ old.over = "no"
    /\ new = [old EXCEPT !.found = "ready"]

Conclude(old, new) ==
    /\ old.answer # "none"
    /\ old.over = "no"
    /\ \E c \in Conclusions(old.found) : new = [old EXCEPT !.over = c]

Step(old, new) ==
    /\ new # old
    /\ \/ Insert(old, new) \/ Promise(old, new) \/ Refuse(old, new)
       \/ Finish(old, new) \/ Conclude(old, new)

-----------------------------------------------------------------------------
Next == \E j \in Jobs : /\ Step(job[j], job'[j])
                        /\ job' = [job EXCEPT ![j] = job'[j]]

Spec == Init /\ [][Next]_job
=============================================================================
