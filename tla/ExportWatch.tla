----------------------------- MODULE ExportWatch -----------------------------
(***************************************************************************)
(* Watching an export: the server-sent event stream of the API             *)
(* (internal/export/sse.go, handler.go), which re-reads the row and writes *)
(* what changed, and the admin's progress dialog (features/exports/api.ts, *)
(* shared/api/sse.ts), which follows the stream and falls back to polling  *)
(* GET /exports/{uuid} when the stream ends without a verdict.             *)
(*                                                                         *)
(* Composed with ExportJobs: both read the row while attempts rewrite it.  *)
(***************************************************************************)
EXTENDS ExportJobs, Sequences

CONSTANTS
    Watched,     \* the job whose dialog is open
    MaxWire,     \* bound: events between server and browser
    WatchFaults  \* "read": the API's read fails, "net": the stream is cut,
                 \* "poll": a poll fails

ASSUME WatchAssumption ==
    /\ Watched \in Jobs
    /\ MaxWire \in Nat \ {0, 1}
    /\ WatchFaults \subseteq {"read", "net", "poll"}

VARIABLES
    stream,  \* the API's handler: its state and the row it last reported
    wire,    \* events written and not yet read by the browser
    client   \* the dialog

watchVars == <<stream, wire, client>>
allVars == <<vars, watchVars>>

-----------------------------------------------------------------------------
Terminal == {"SUCCEEDED", "FAILED"}

Errors == {"none", "row", "notFound", "poll"}

Events == [type : {"progress", "done"}, status : Statuses, url : BOOLEAN, error : Errors]

Streams == [state : {"closed", "requested", "opening", "open"},
            status : Statuses, progress : Nat]

\* status "ABSENT" stands for the null of the initial view.
Views == [mode : {"idle", "sse", "polling", "stopped"},
          status : Statuses, url : BOOLEAN, error : Errors]

InitialView == [mode |-> "idle", status |-> "ABSENT", url |-> FALSE, error |-> "none"]

Closed == [state |-> "closed", status |-> "ABSENT", progress |-> 0]

WatchInit == stream = Closed /\ wire = <<>> /\ client = InitialView

theRow == row[Watched]

\* Mutant: a result is signed whatever the status.
SignedWheneverThere == theRow.result

\* signedResultURL and toAPI: a URL only for a SUCCEEDED row with a result.
SignedUrl == theRow.status = "SUCCEEDED" /\ theRow.result
RowError == IF theRow.error THEN "row" ELSE "none"

-----------------------------------------------------------------------------
(* The API side.                                                           *)

ProgressEvent == [type |-> "progress", status |-> theRow.status, url |-> FALSE, error |-> "none"]
DoneEvent == [type |-> "done", status |-> theRow.status, url |-> SignedUrl, error |-> RowError]
NotFoundEvent == [type |-> "done", status |-> "FAILED", url |-> FALSE, error |-> "notFound"]

ReadFails == theRow.status = "ABSENT" \/ "read" \in WatchFaults
ReadWorks == theRow.status # "ABSENT"

\* Handler.Events: a job that cannot be loaded is a plain error response.
AcceptStream ==
    /\ stream.state = "requested"
    /\ \/ /\ ReadWorks
          /\ stream' = [stream EXCEPT !.state = "opening"]
       \/ /\ ReadFails
          /\ stream' = Closed
    /\ UNCHANGED <<wire, client>>

progressChanged == stream.status # theRow.status \/ stream.progress # theRow.progress

\* streamJobEvents: the first read always reports, a tick only what changed; a
\* terminal status adds the done event; a failed read reports a failure.
StreamTick ==
    /\ stream.state \in {"opening", "open"}
    /\ Len(wire) + 2 <= MaxWire
    /\ \/ /\ ReadFails
          /\ wire' = Append(wire, NotFoundEvent)
          /\ stream' = Closed
       \/ /\ ReadWorks
          /\ wire' = wire
                \o (IF stream.state = "opening" \/ progressChanged THEN <<ProgressEvent>> ELSE <<>>)
                \o (IF theRow.status \in Terminal THEN <<DoneEvent>> ELSE <<>>)
          /\ stream' = IF theRow.status \in Terminal THEN Closed
                       ELSE [state |-> "open", status |-> theRow.status,
                             progress |-> theRow.progress]
    /\ UNCHANGED client

\* The connection breaks; what was not yet read may be lost.
CutStream ==
    /\ "net" \in WatchFaults
    /\ stream.state # "closed"
    /\ stream' = Closed
    /\ \E n \in 0..Len(wire) : wire' = SubSeq(wire, 1, n)
    /\ UNCHANGED client

-----------------------------------------------------------------------------
(* The dialog.                                                             *)

\* The dialog opens on a job whose POST was answered.
Subscribe ==
    /\ client.mode = "idle"
    /\ api[Watched] = "replied"
    /\ client' = [InitialView EXCEPT !.mode = "sse"]
    /\ stream' = [Closed EXCEPT !.state = "requested"]
    /\ wire' = <<>>

\* Closing it aborts the stream and the polling.
CloseDialog ==
    /\ client.mode # "idle"
    /\ client' = InitialView
    /\ stream' = Closed
    /\ wire' = <<>>

\* `next ?? prev`: a missing error or URL keeps the one already shown.
Keep(e, prev) == IF e # "none" THEN e ELSE prev

ReadEvent ==
    /\ client.mode = "sse"
    /\ wire # <<>>
    /\ LET e == Head(wire) IN
       client' = IF e.type = "progress"
                 THEN [client EXCEPT !.status = e.status]                    \* applyProgress
                 ELSE [mode |-> "stopped", status |-> e.status,              \* applyDone
                       url |-> e.url \/ client.url, error |-> Keep(e.error, client.error)]
    /\ wire' = Tail(wire)
    /\ UNCHANGED stream

\* The stream was refused or ended without a done event: finishError.
FallBack ==
    /\ client.mode = "sse"
    /\ wire = <<>>
    /\ stream.state = "closed"
    /\ client' = [client EXCEPT !.mode = "polling"]
    /\ UNCHANGED <<stream, wire>>

\* Mutant: one poll and no more.
PollOnce ==
    /\ client.mode = "polling"
    /\ ReadWorks
    /\ client' = [mode |-> "stopped", status |-> theRow.status, url |-> SignedUrl, error |-> RowError]
    /\ UNCHANGED <<stream, wire>>

\* pollExportJob: one request at a time; a failed one rejects and ends it.
Poll ==
    /\ client.mode = "polling"
    /\ \/ /\ ReadWorks
          /\ client' = [mode |-> IF theRow.status \in Terminal THEN "stopped" ELSE "polling",
                        status |-> theRow.status,                            \* applyJob
                        url |-> SignedUrl \/ client.url,
                        error |-> Keep(RowError, client.error)]
       \/ /\ theRow.status = "ABSENT" \/ "poll" \in WatchFaults
          /\ client' = [client EXCEPT !.mode = "stopped",
                           !.status = IF @ = "ABSENT" THEN "FAILED" ELSE @,
                           !.error = Keep(@, "poll")]
    /\ UNCHANGED <<stream, wire>>

-----------------------------------------------------------------------------
WatchNext ==
    \/ AcceptStream \/ StreamTick \/ CutStream
    \/ Subscribe \/ CloseDialog \/ ReadEvent \/ FallBack \/ Poll

ComposedNext == \/ Next /\ UNCHANGED watchVars
                \/ WatchNext /\ UNCHANGED vars

ComposedSpec == Init /\ WatchInit /\ [][ComposedNext]_allVars

\* The ticker, the reader loop and the poll timer keep firing; the user need
\* never open or close the dialog.
WatchFairness ==
    /\ Fairness
    /\ \A A \in {"accept", "tick", "read", "fallback", "poll"} :
          WF_allVars(/\ CASE A = "accept"   -> AcceptStream
                          [] A = "tick"     -> StreamTick
                          [] A = "read"     -> ReadEvent
                          [] A = "fallback" -> FallBack
                          [] A = "poll"     -> Poll
                     /\ UNCHANGED vars)

FairComposedSpec == ComposedSpec /\ WatchFairness

-----------------------------------------------------------------------------
(* A download link is only ever shown with a SUCCEEDED verdict, and there   *)
(* is a file behind it, although the row may have been rewritten since.    *)
ShownLinkWorks ==
    client.url => /\ client.mode = "stopped"
                  /\ client.status = "SUCCEEDED"
                  /\ Watched \in object

(* If the job comes to a verdict, so does every opened dialog, unless a poll  *)
(* fails and it shows an error, whatever happens to the stream and however   *)
(* many attempts rewrite the row.                                            *)
WatcherEnds ==
    <>[](theRow.status \in Terminal) =>
        (client.mode = "sse" ~>
            \/ client.mode = "idle"
            \/ client.mode = "stopped" /\ (client.status \in Terminal \/ client.error # "none"))
=============================================================================
