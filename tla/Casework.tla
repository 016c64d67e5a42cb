------------------------------ MODULE Casework ------------------------------
(***************************************************************************)
(* Projects, their tasks, the problems found on them, the processing log   *)
(* of a problem (internal/project, internal/problem) and the statistics    *)
(* over all of it (internal/stats).                                        *)
(*                                                                         *)
(* A change of a problem is one READ COMMITTED transaction that holds the  *)
(* row.  Everything else is a chain of statements of their own: a check    *)
(* and, later, the write it was made for; a statistic after another.       *)
(* Rows are only ever soft-deleted, and a foreign key accepts a deleted    *)
(* row.                                                                    *)
(***************************************************************************)
EXTENDS Naturals, Sequences

CONSTANTS
    Projects, Tasks, Problems,  \* ids, one per INSERT
    codeOf,       \* the code of each project
    Inspectors,   \* the accounts that report problems
    inspectorOf,  \* who reports each problem
    StatusItems,  \* the dict_items a status may be
    NoStatus,     \* status_item_id is null
    NoRow,
    Updaters,     \* concurrent PUT /problems/{id} requests
    Clients,      \* concurrent requests that check first and then write
    Readers,      \* concurrent GET /stats/overview requests and PROJECT_STATS exports
    MaxEntries,   \* bound: updates and client log entries
    Faults        \* "db": a statement or COMMIT fails

ASSUME CaseworkAssumption ==
    /\ NoStatus \notin StatusItems
    /\ NoRow \notin Projects \cup Tasks \cup Problems
    /\ inspectorOf \in [Problems -> Inspectors]
    /\ MaxEntries \in Nat
    /\ Faults \subseteq {"db"}

VARIABLES
    project,    \* the projects rows
    task,       \* the inspection_tasks rows
    inspected,  \* the projects with an inspection
    employed,   \* the inspectors whose account is not deleted
    problem,    \* the problems rows
    log,        \* problem_processing_log, in the order of id
    update,     \* the transactions of problem.Service.Update
    request,    \* the other requests
    overview,   \* the statistics being collected
    first,      \* history: the status each problem was created with
    entries     \* updates and client log entries so far (bound)

vars == <<project, task, inspected, employed, problem, log, update, request, overview, first,
          entries>>

-----------------------------------------------------------------------------
RowStates == {"absent", "live", "deleted"}
MaybeStatus == StatusItems \cup {NoStatus}

\* A status of a project or a task may be set to any other, and nothing
\* depends on it: names, statuses, dates, assignees and areas are left out.
TaskRows == [state : RowStates, project : Projects \cup {NoRow}]
NoTaskRow == [state |-> "absent", project |-> NoRow]

ProblemRows == [state : RowStates, project : Projects \cup {NoRow}, status : MaybeStatus]
NoProblemRow == [state |-> "absent", project |-> NoRow, status |-> NoStatus]

LogRows == [problem : Problems, action : {"STATUS_CHANGE", "COMMENT", "REASSIGN"},
            from : MaybeStatus, to : MaybeStatus]

Updates == [pc : {"idle", "load", "write", "log", "commit"}, problem : Problems \cup {NoRow},
            requested : MaybeStatus, current : MaybeStatus,
            entry : BOOLEAN]  \* a STATUS_CHANGE row has been inserted
NoUpdate == [pc |-> "idle", problem |-> NoRow, requested |-> NoStatus, current |-> NoStatus,
             entry |-> FALSE]

Requests == [pc : {"idle", "task", "dependents", "delete", "log"},
             row : Projects \cup Problems \cup {NoRow}]
NoRequest == [pc |-> "idle", row |-> NoRow]

\* A count is the set of the rows it counts.  Of an overview that a write has
\* overtaken the figures are left out: they need not add up.
Overviews == [pc : {"idle", "inspector", "project", "total", "shown", "export",
                    "overtaken"},
              byStatus : [StatusItems -> SUBSET Problems],
              byInspector : [Inspectors -> SUBSET Problems],
              byProject : [Projects -> SUBSET Problems], total : SUBSET Problems,
              todo : SUBSET Projects]  \* rows an export has yet to compute
NoOverview == [pc |-> "idle", byStatus |-> [s \in StatusItems |-> {}],
               byInspector |-> [i \in Inspectors |-> {}],
               byProject |-> [p \in Projects |-> {}], total |-> {}, todo |-> {}]

TypeOK ==
    /\ project \in [Projects -> RowStates]
    /\ task \in [Tasks -> TaskRows]
    /\ inspected \in SUBSET Projects
    /\ employed \in SUBSET Inspectors
    /\ problem \in [Problems -> ProblemRows]
    /\ log \in Seq(LogRows)
    /\ update \in [Updaters -> Updates]
    /\ request \in [Clients -> Requests]
    /\ overview \in [Readers -> Overviews]
    /\ first \in [Problems -> MaybeStatus]
    /\ entries \in Nat

Init ==
    /\ project = [p \in Projects |-> "absent"]
    /\ task = [t \in Tasks |-> NoTaskRow]
    /\ inspected = {}
    /\ employed = Inspectors
    /\ problem = [q \in Problems |-> NoProblemRow]
    /\ log = <<>>
    /\ update = [u \in Updaters |-> NoUpdate]
    /\ request = [c \in Clients |-> NoRequest]
    /\ overview = [r \in Readers |-> NoOverview]
    /\ first = [q \in Problems |-> NoStatus]
    /\ entries = 0

rowVars == <<project, task, inspected, employed, problem, log, first, entries>>

Live(rows, x) == rows[x].state = "live"
\* A row is written.
Written ==
    overview' = [r \in Readers |->
        IF overview[r].pc = "idle" THEN NoOverview ELSE [NoOverview EXCEPT !.pc = "overtaken"]]

-----------------------------------------------------------------------------
(* Projects and tasks.                                                     *)

ProjectGo(rows) ==
    /\ project' = rows
    /\ Written
    /\ UNCHANGED <<task, inspected, employed, problem, log, update, first, entries>>

\* createProject: uq_projects_code_active.
CodeTaken(p) == \E r \in Projects : project[r] = "live" /\ codeOf[r] = codeOf[p]

CreateProject(p) ==
    /\ project[p] = "absent"
    /\ ~CodeTaken(p)
    /\ ProjectGo([project EXCEPT ![p] = "live"])
    /\ UNCHANGED request

UpdateProject(p) ==
    /\ project[p] = "live"
    /\ ProjectGo(project)
    /\ UNCHANGED request

RequestGo(c, pc, row) == request' = [request EXCEPT ![c] = [pc |-> pc, row |-> row]]
EndRequest(c) == request' = [request EXCEPT ![c] = NoRequest]

Ask(c, pc, row) ==
    /\ request[c].pc = "idle"
    /\ RequestGo(c, pc, row)
    /\ UNCHANGED <<rowVars, update, overview>>

\* DeleteProject: the project, its dependents and the soft delete in three
\* statements.  Problems are no dependents.
DeleteProject(c, p) == project[p] = "live" /\ Ask(c, "dependents", p)

projectHasDependents(c) ==
    LET p == request[c].row IN
    /\ request[c].pc = "dependents"
    /\ IF p \in inspected \/ \E t \in Tasks : Live(task, t) /\ task[t].project = p
          THEN EndRequest(c)
          ELSE RequestGo(c, "delete", p)
    /\ UNCHANGED <<rowVars, update, overview>>

\* Mutant: the row is marked in a way no query knows.
HideProject(c) ==
    /\ request[c].pc = "delete"
    /\ EndRequest(c)
    /\ ProjectGo([project EXCEPT ![request[c].row] = "hidden"])

softDeleteProject(c) ==
    /\ request[c].pc = "delete"
    /\ EndRequest(c)
    /\ ProjectGo([project EXCEPT ![request[c].row] = "deleted"])

\* CreateTask: projectExists, then the INSERT.
CreateTask(c, p) == project[p] = "live" /\ Ask(c, "task", p)

TaskGo(rows) ==
    /\ task' = rows
    /\ Written
    /\ UNCHANGED <<project, inspected, employed, problem, log, update, first, entries>>

createTask(c, t) ==
    /\ request[c].pc = "task"
    /\ task[t].state = "absent"
    /\ EndRequest(c)
    /\ TaskGo([task EXCEPT ![t] = [state |-> "live", project |-> request[c].row]])

UpdateTask(t) ==
    /\ Live(task, t)
    /\ TaskGo(task)
    /\ UNCHANGED request

DeleteTask(t) ==
    /\ Live(task, t)
    /\ TaskGo([task EXCEPT ![t].state = "deleted"])
    /\ UNCHANGED request

\* inspection.Service.Start, sync.Service.upsertInspection.
StartInspection(p) ==
    /\ project[p] # "absent"
    /\ inspected' = inspected \cup {p}
    /\ Written
    /\ UNCHANGED <<project, task, employed, problem, log, update, request, first, entries>>

\* user.Service.Delete.  What the account did stays, and may still arrive.
DeleteInspector(i) ==
    /\ i \in employed
    /\ employed' = employed \ {i}
    /\ Written
    /\ UNCHANGED <<project, task, inspected, problem, log, update, request, first, entries>>

-----------------------------------------------------------------------------
(* Problems and their log.                                                 *)

\* SELECT ... FOR UPDATE, held until the transaction ends.
Locked(q) == \E u \in Updaters : update[u].pc \in {"write", "log", "commit"} /\ update[u].problem = q

\* Create, upsertProblem of a batch: INSERT ... ON CONFLICT (client_uuid) DO
\* NOTHING; a replay changes nothing.  The project may be deleted.
Create(q, p, s) ==
    /\ project[p] # "absent"
    /\ problem[q].state = "absent"
    /\ problem' = [problem EXCEPT ![q] = [state |-> "live", project |-> p, status |-> s]]
    /\ first' = [first EXCEPT ![q] = s]
    /\ Written
    /\ UNCHANGED <<project, task, inspected, employed, log, update, request, entries>>

Delete(q) ==
    /\ Live(problem, q)
    /\ ~Locked(q)
    /\ problem' = [problem EXCEPT ![q].state = "deleted"]
    /\ Written
    /\ UNCHANGED <<project, task, inspected, employed, log, update, request, first, entries>>

UpdateGo(u, s) ==
    /\ update' = [update EXCEPT ![u] = s]
    /\ UNCHANGED request

\* requested is what status_item_id asks for.
Update(u, q, requested) ==
    /\ update[u].pc = "idle"
    /\ entries < MaxEntries
    /\ entries' = entries + 1
    /\ UpdateGo(u, [NoUpdate EXCEPT !.pc = "load", !.problem = q, !.requested = requested])
    /\ UNCHANGED <<project, task, inspected, employed, problem, log, first, overview>>

\* Mutant: SELECT without FOR UPDATE.
LoadUnlocked(u) ==
    LET q == update[u].problem IN
    /\ update[u].pc = "load"
    /\ UpdateGo(u, IF Live(problem, q)
                     THEN [update[u] EXCEPT !.pc = "write", !.current = problem[q].status]
                     ELSE NoUpdate)
    /\ UNCHANGED <<rowVars, overview>>

LoadForUpdate(u) ==
    LET q == update[u].problem IN
    /\ update[u].pc = "load"
    /\ ~Locked(q)
    /\ UpdateGo(u, IF Live(problem, q)
                     THEN [update[u] EXCEPT !.pc = "write", !.current = problem[q].status]
                     ELSE NoUpdate)
    /\ UNCHANGED <<rowVars, overview>>

statusChanged(requested, current) == requested # NoStatus /\ requested # current

\* The UPDATE of the row, COALESCE keeping a status that is not requested.
WriteProblem(u) ==
    /\ update[u].pc = "write"
    /\ UpdateGo(u, [update[u] EXCEPT
                      !.pc = IF statusChanged(update[u].requested, update[u].current)
                                THEN "log" ELSE "commit"])
    /\ UNCHANGED <<rowVars, overview>>

AppendStatusChange(u) ==
    /\ update[u].pc = "log"
    /\ UpdateGo(u, [update[u] EXCEPT !.pc = "commit", !.entry = TRUE])
    /\ UNCHANGED <<rowVars, overview>>

\* The row as the transaction leaves it.
Coalesced(u) == IF update[u].requested = NoStatus THEN update[u].current ELSE update[u].requested

StatusChange(u) ==
    [problem |-> update[u].problem, action |-> "STATUS_CHANGE",
     from |-> update[u].current, to |-> update[u].requested]

CommitUpdate(u) ==
    /\ update[u].pc = "commit"
    /\ problem' = [problem EXCEPT ![update[u].problem].status = Coalesced(u)]
    /\ log' = IF update[u].entry THEN Append(log, StatusChange(u)) ELSE log
    /\ Written
    /\ UpdateGo(u, NoUpdate)
    /\ UNCHANGED <<project, task, inspected, employed, first, entries>>

\* A statement or COMMIT fails, a dictionary item that does not exist among
\* the reasons: ROLLBACK.
AbortUpdate(u) ==
    /\ "db" \in Faults
    /\ update[u].pc # "idle"
    /\ UpdateGo(u, NoUpdate)
    /\ UNCHANGED <<rowVars, overview>>

\* CreateLog: assertProblemExists, then the INSERT.
CreateLog(c, q) == Live(problem, q) /\ Ask(c, "log", q)

validClientLogAction == {"COMMENT", "REASSIGN"}

InsertLog(c) ==
    /\ request[c].pc = "log"
    /\ entries < MaxEntries
    /\ entries' = entries + 1
    /\ \E a \in validClientLogAction :
          log' = Append(log, [problem |-> request[c].row, action |-> a,
                              from |-> NoStatus, to |-> NoStatus])
    /\ EndRequest(c)
    /\ UNCHANGED <<project, task, inspected, employed, problem, update, overview, first>>

\* A request whose check or write fails ends.
FailRequest(c) ==
    /\ "db" \in Faults
    /\ request[c].pc # "idle"
    /\ EndRequest(c)
    /\ UNCHANGED <<rowVars, update, overview>>

-----------------------------------------------------------------------------
(* stats.Service.Overview: a statement after the other, each with the      *)
(* problems that are not deleted (problemWhere).                           *)

problemWhere == {q \in Problems : Live(problem, q)}

\* project_id, joined to a project that may be deleted.
Under(p) == {q \in problemWhere : problem[q].project = p}

OverviewGo(r, o) ==
    /\ overview' = [overview EXCEPT ![r] = o]
    /\ UNCHANGED <<project, task, inspected, employed, problem, log, first, entries, update, request>>

\* A row without a status falls out of the join.
countByDict(r) ==
    /\ overview[r].pc = "idle"
    /\ OverviewGo(r, [NoOverview EXCEPT !.pc = "inspector",
          !.byStatus = [s \in StatusItems |-> {q \in problemWhere : problem[q].status = s}]])

\* The account is joined whether it is deleted or not.
countByInspector(r) ==
    /\ overview[r].pc = "inspector"
    /\ OverviewGo(r, [overview[r] EXCEPT !.pc = "project",
          !.byInspector = [i \in Inspectors |-> {q \in problemWhere : inspectorOf[q] = i}]])

\* Mutant: the join leaves out the problems of a deleted project.
countByLiveProject(r) ==
    /\ overview[r].pc = "project"
    /\ OverviewGo(r, [overview[r] EXCEPT !.pc = "total",
          !.byProject = [p \in Projects |-> {q \in Under(p) : project[p] = "live"}]])

countByProject(r) ==
    /\ overview[r].pc = "project"
    /\ OverviewGo(r, [overview[r] EXCEPT !.pc = "total",
          !.byProject = [p \in Projects |-> Under(p)]])

totals(r) ==
    /\ overview[r].pc = "total"
    /\ OverviewGo(r, [overview[r] EXCEPT !.pc = "shown", !.total = problemWhere])

\* ProjectsForExport: the projects, and then the figures of each, of which the
\* number of problems is kept.
projectsInWindow(r) ==
    /\ overview[r].pc = "idle"
    /\ OverviewGo(r, [NoOverview EXCEPT !.pc = "export",
          !.todo = {p \in Projects : project[p] = "live" /\ (p \in inspected \/ Under(p) # {})}])

ProjectsForExport(r) ==
    /\ overview[r].pc = "export"
    /\ \E p \in overview[r].todo :
          OverviewGo(r, [overview[r] EXCEPT !.todo = @ \ {p}, !.byProject[p] = Under(p)])

Exported(r) == overview[r].pc = "export" /\ overview[r].todo = {}

CloseOverview(r) ==
    /\ overview[r].pc \in {"shown", "overtaken"} \/ Exported(r)
    /\ OverviewGo(r, NoOverview)

-----------------------------------------------------------------------------
ProjectStep ==
    \/ \E p \in Projects : CreateProject(p) \/ UpdateProject(p) \/ StartInspection(p)
    \/ \E t \in Tasks : UpdateTask(t) \/ DeleteTask(t)
    \/ \E i \in Inspectors : DeleteInspector(i)

ClientStep(c) ==
    \/ \E p \in Projects : DeleteProject(c, p) \/ CreateTask(c, p)
    \/ \E t \in Tasks : createTask(c, t)
    \/ \E q \in Problems : CreateLog(c, q)
    \/ projectHasDependents(c) \/ softDeleteProject(c) \/ InsertLog(c) \/ FailRequest(c)

UpdateStep(u) ==
    \/ \E q \in Problems, s \in MaybeStatus : Update(u, q, s)
    \/ LoadForUpdate(u) \/ WriteProblem(u) \/ AppendStatusChange(u)
    \/ CommitUpdate(u) \/ AbortUpdate(u)

ReadStep(r) ==
    \/ countByDict(r) \/ countByInspector(r) \/ countByProject(r) \/ totals(r)
    \/ projectsInWindow(r) \/ ProjectsForExport(r) \/ CloseOverview(r)

Next ==
    \/ ProjectStep
    \/ \E q \in Problems : Delete(q) \/ \E p \in Projects, s \in MaybeStatus : Create(q, p, s)
    \/ \E c \in Clients : ClientStep(c)
    \/ \E u \in Updaters : UpdateStep(u)
    \/ \E r \in Readers : ReadStep(r)

Spec == Init /\ [][Next]_vars

-----------------------------------------------------------------------------
StatusChanges(q) == {i \in DOMAIN log : log[i].problem = q /\ log[i].action = "STATUS_CHANGE"}

(* The STATUS_CHANGE rows of a problem, in the order of their ids, lead from  *)
(* the status it was created with to the one it has, no step missing, none   *)
(* written twice and none that changes nothing, however updates, deletions   *)
(* and failed transactions interleave (D3).                                  *)
StatusIsLogged ==
    \A q \in Problems :
        LET changes == StatusChanges(q) IN
        /\ changes = {} => problem[q].status = first[q]
        /\ \A i \in changes :
              /\ log[i].from # log[i].to
              /\ (\A j \in changes : i <= j) => log[i].from = first[q]
              /\ (\A j \in changes : j <= i) => log[i].to = problem[q].status
              /\ \A j \in changes :
                    (i < j /\ \A k \in changes : k <= i \/ j <= k) => log[i].to = log[j].from

(* The figures of an overview come from separate statements and joins; if    *)
(* nothing was written meanwhile they add up: every problem is counted under *)
(* its project and its inspector, also when one of them was deleted since,   *)
(* and every problem with a status under that.                               *)
OverviewAddsUp ==
    \A r \in Readers : overview[r].pc = "shown" =>
        /\ UNION {overview[r].byProject[p] : p \in Projects} = overview[r].total
        /\ UNION {overview[r].byInspector[i] : i \in Inspectors} = overview[r].total
        /\ UNION {overview[r].byStatus[s] : s \in StatusItems}
             = {q \in overview[r].total : problem[q].status # NoStatus}

(* stats/service.go:252-254 has the rows of a PROJECT_STATS export always     *)
(* match /stats/overview exactly.  The overview counts the problems of a     *)
(* deleted project, and the export has no row for it.                        *)
ExportMatchesOverview ==
    \A r \in Readers : Exported(r) =>
        \A p \in Projects : overview[r].byProject[p] = Under(p)
=============================================================================
