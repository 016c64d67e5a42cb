--------------------------- MODULE CaseworkProofs ---------------------------
(***************************************************************************)
(* Proofs about Casework, for every set of projects, problems, inspectors  *)
(* and statuses and any number of concurrent requests: the log of a        *)
(* problem tells its status, and the figures of an overview add up.        *)
(***************************************************************************)
EXTENDS Casework, SequenceTheorems, TLAPS

-----------------------------------------------------------------------------
(* The inductive invariant.                                                *)

\* What a request has checked and is about to write for.
RequestInv ==
    \A c \in Clients :
        /\ request[c].pc \in {"task", "dependents", "delete"} => request[c].row \in Projects
        /\ request[c].pc = "log" => request[c].row \in Problems

Holding(x) == x.pc \in {"write", "log", "commit"}

\* A transaction that holds a row knows its status, and has logged the change
\* it is about to commit, if it is one.
UpdateOK(x) ==
    /\ x.pc # "idle" => x.problem \in Problems
    /\ Holding(x) => /\ problem[x.problem].state = "live"
                     /\ problem[x.problem].status = x.current
    /\ x.entry <=> x.pc = "commit" /\ statusChanged(x.requested, x.current)
    /\ x.pc = "log" => statusChanged(x.requested, x.current)

UpdateInv == \A u \in Updaters : UpdateOK(update[u])

\* SELECT ... FOR UPDATE excludes.
OneHolder ==
    \A u, v \in Updaters :
        Holding(update[u]) /\ Holding(update[v]) /\ update[u].problem = update[v].problem
            => u = v

\* What there is before a row is inserted, and what the INSERT requires.
ProblemInv ==
    \A q \in Problems :
        /\ problem[q].state # "absent" => problem[q].project \in Projects
        /\ problem[q].state = "absent" => StatusChanges(q) = {}

Counted == {"inspector", "project", "total", "shown"}

\* The figures collected so far are those of the rows as they are.
OverviewOK(o) ==
    /\ o.pc \in Counted =>
          o.byStatus = [s \in StatusItems |-> {q \in problemWhere : problem[q].status = s}]
    /\ o.pc \in Counted \ {"inspector"} =>
          o.byInspector = [i \in Inspectors |-> {q \in problemWhere : inspectorOf[q] = i}]
    /\ o.pc \in {"total", "shown"} => o.byProject = [p \in Projects |-> Under(p)]
    /\ o.pc = "shown" => o.total = problemWhere

OverviewInv == \A r \in Readers : OverviewOK(overview[r])

\* What makes StatusIsLogged inductive.
LogInv == UpdateInv /\ OneHolder /\ ProblemInv /\ StatusIsLogged

IInv == TypeOK /\ RequestInv /\ LogInv /\ OverviewInv

-----------------------------------------------------------------------------
(* Types.                                                                  *)

LEMMA NoOverviewTyped == NoOverview \in Overviews
<1>1. [s \in StatusItems |-> {}] \in [StatusItems -> SUBSET Problems]
  OBVIOUS
<1>2. [i \in Inspectors |-> {}] \in [Inspectors -> SUBSET Problems]
  OBVIOUS
<1>3. [p \in Projects |-> {}] \in [Projects -> SUBSET Problems]
  OBVIOUS
<1> QED
  BY <1>1, <1>2, <1>3 DEF NoOverview, Overviews

\* What a step leaves of the readers keeps its type.
LEMMA WrittenTyped ==
    ASSUME TypeOK, Written
    PROVE  overview' \in [Readers -> Overviews]
<1>1. NoOverview \in Overviews
  BY NoOverviewTyped
<1>2. \A o \in Overviews : [o EXCEPT !.pc = "overtaken"] \in Overviews
  BY DEF Overviews
<1>3. [NoOverview EXCEPT !.pc = "overtaken"] \in Overviews
  BY <1>1, <1>2
<1> QED
  BY <1>1, <1>3 DEF Written

LEMMA ProjectTyped ==
    ASSUME TypeOK, RequestInv, ProjectStep
    PROVE  TypeOK' /\ RequestInv'
<1>1. overview' \in [Readers -> Overviews]
  BY WrittenTyped DEF ProjectStep, CreateProject, UpdateProject, ProjectGo, StartInspection,
                      UpdateTask, DeleteTask, TaskGo, DeleteInspector
<1>2. request' = request
  BY DEF ProjectStep, CreateProject, UpdateProject, StartInspection, UpdateTask, DeleteTask,
         DeleteInspector
<1>3. CASE \E p \in Projects : CreateProject(p) \/ UpdateProject(p) \/ StartInspection(p)
  BY <1>1, <1>2, <1>3 DEF CreateProject, UpdateProject, ProjectGo, StartInspection, TypeOK,
                          RowStates, RequestInv
<1>4. CASE \E t \in Tasks : UpdateTask(t) \/ DeleteTask(t)
  BY <1>1, <1>2, <1>4 DEF UpdateTask, DeleteTask, TaskGo, TypeOK, RowStates, TaskRows, RequestInv
<1>5. CASE \E i \in Inspectors : DeleteInspector(i)
  BY <1>1, <1>2, <1>5 DEF DeleteInspector, TypeOK, RequestInv
<1> QED
  BY <1>3, <1>4, <1>5 DEF ProjectStep

\* A request moves on or ends.
LEMMA RequestTyped ==
    ASSUME TypeOK, RequestInv, NEW c \in Clients,
           \/ EndRequest(c)
           \/ \E row \in Projects, pc \in {"task", "dependents", "delete"} : RequestGo(c, pc, row)
           \/ \E row \in Problems : RequestGo(c, "log", row)
    PROVE  request' \in [Clients -> Requests] /\ RequestInv'
<1>1. CASE EndRequest(c)
  <2>1. NoRequest \in Requests /\ NoRequest.pc = "idle"
    BY DEF NoRequest, Requests
  <2> QED
    BY <1>1, <2>1 DEF EndRequest, TypeOK, RequestInv
<1>2. CASE \E row \in Projects, pc \in {"task", "dependents", "delete"} : RequestGo(c, pc, row)
  BY <1>2 DEF RequestGo, TypeOK, Requests, RequestInv
<1>3. CASE \E row \in Problems : RequestGo(c, "log", row)
  BY <1>3 DEF RequestGo, TypeOK, Requests, RequestInv
<1> QED
  BY <1>1, <1>2, <1>3

LEMMA ClientTyped ==
    ASSUME TypeOK, RequestInv, NEW c \in Clients, ClientStep(c)
    PROVE  TypeOK' /\ RequestInv'
<1>1. CASE \E p \in Projects : DeleteProject(c, p) \/ CreateTask(c, p)
  <2>1. request' \in [Clients -> Requests] /\ RequestInv'
    BY <1>1, RequestTyped DEF DeleteProject, CreateTask, Ask
  <2> QED
    BY <1>1, <2>1 DEF DeleteProject, CreateTask, Ask, rowVars, TypeOK
<1>2. CASE \E t \in Tasks : createTask(c, t)
  <2>1. request' \in [Clients -> Requests] /\ RequestInv'
    BY <1>2, RequestTyped DEF createTask
  <2>2. overview' \in [Readers -> Overviews]
    BY <1>2, WrittenTyped DEF createTask, TaskGo
  <2>3. PICK t \in Tasks : createTask(c, t)
    BY <1>2
  <2>4. request[c].row \in Projects
    BY <2>3 DEF createTask, RequestInv
  <2>5. task' \in [Tasks -> TaskRows]
    BY <2>3, <2>4 DEF createTask, TaskGo, TypeOK, TaskRows, RowStates
  <2> QED
    BY <2>1, <2>2, <2>3, <2>5 DEF createTask, TaskGo, TypeOK
<1>3. CASE \E q \in Problems : CreateLog(c, q)
  <2>1. request' \in [Clients -> Requests] /\ RequestInv'
    BY <1>3, RequestTyped DEF CreateLog, Ask
  <2> QED
    BY <1>3, <2>1 DEF CreateLog, Ask, rowVars, TypeOK
<1>4. CASE projectHasDependents(c)
  <2>1. request[c].row \in Projects
    BY <1>4 DEF projectHasDependents, RequestInv
  <2>2. request' \in [Clients -> Requests] /\ RequestInv'
    BY <1>4, <2>1, RequestTyped DEF projectHasDependents
  <2> QED
    BY <1>4, <2>2 DEF projectHasDependents, rowVars, TypeOK
<1>5. CASE softDeleteProject(c)
  <2>1. request' \in [Clients -> Requests] /\ RequestInv'
    BY <1>5, RequestTyped DEF softDeleteProject
  <2>2. overview' \in [Readers -> Overviews]
    BY <1>5, WrittenTyped DEF softDeleteProject, ProjectGo
  <2> QED
    BY <1>5, <2>1, <2>2 DEF softDeleteProject, ProjectGo, TypeOK, RowStates
<1>6. CASE InsertLog(c)
  <2>1. request' \in [Clients -> Requests] /\ RequestInv'
    BY <1>6, RequestTyped DEF InsertLog
  <2>2. PICK a \in validClientLogAction :
           log' = Append(log, [problem |-> request[c].row, action |-> a,
                               from |-> NoStatus, to |-> NoStatus])
    BY <1>6 DEF InsertLog
  <2>3. request[c].row \in Problems
    BY <1>6 DEF InsertLog, RequestInv
  <2>4. log' \in Seq(LogRows)
    BY <2>2, <2>3, AppendProperties DEF TypeOK, LogRows, validClientLogAction, MaybeStatus
  <2> QED
    BY <1>6, <2>1, <2>4 DEF InsertLog, TypeOK
<1>7. CASE FailRequest(c)
  <2>1. request' \in [Clients -> Requests] /\ RequestInv'
    BY <1>7, RequestTyped DEF FailRequest
  <2> QED
    BY <1>7, <2>1 DEF FailRequest, rowVars, TypeOK
<1> QED
  BY <1>1, <1>2, <1>3, <1>4, <1>5, <1>6, <1>7 DEF ClientStep

-----------------------------------------------------------------------------
(* Transactions.                                                           *)

LEMMA NoUpdateFits == NoUpdate \in Updates /\ UpdateOK(NoUpdate) /\ ~Holding(NoUpdate)
BY DEF NoUpdate, Updates, MaybeStatus, UpdateOK, Holding

\* A transaction moves on, and gains no row that another one holds.
LEMMA UpdateMoves ==
    ASSUME TypeOK, UpdateInv, OneHolder, NEW u \in Updaters, NEW s \in Updates, UpdateGo(u, s),
           problem' = problem, UpdateOK(s),
           Holding(s) => \/ Holding(update[u]) /\ s.problem = update[u].problem
                         \/ ~Locked(s.problem)
    PROVE  update' \in [Updaters -> Updates] /\ UpdateInv' /\ OneHolder'
<1>1. /\ update' = [update EXCEPT ![u] = s]
      /\ update' \in [Updaters -> Updates]
      /\ update'[u] = s
      /\ \A v \in Updaters \ {u} : update'[v] = update[v]
  BY DEF UpdateGo, TypeOK
<1>2. UpdateInv'
  <2>1. ASSUME NEW v \in Updaters PROVE UpdateOK(update[v])'
    <3>1. UpdateOK(update'[v])
      BY <1>1 DEF UpdateInv
    <3> QED
      BY <3>1 DEF UpdateOK, Holding
  <2> QED
    BY <2>1 DEF UpdateInv
<1>3. OneHolder'
  <2>1. \A v \in Updaters \ {u} :
           Holding(s) /\ Holding(update[v]) => s.problem # update[v].problem
    BY DEF OneHolder, Locked, Holding
  <2>2. ASSUME NEW v \in Updaters, NEW w \in Updaters,
               Holding(update'[v]), Holding(update'[w]), update'[v].problem = update'[w].problem
        PROVE  v = w
    BY <1>1, <2>1, <2>2 DEF OneHolder
  <2> QED
    BY <2>2 DEF OneHolder, Holding
<1> QED
  BY <1>1, <1>2, <1>3

\* Every step of a transaction but its COMMIT.
LEMMA UpdateAdvances ==
    ASSUME TypeOK, UpdateInv, OneHolder, NEW u \in Updaters,
           \/ \E q \in Problems, s \in MaybeStatus : Update(u, q, s)
           \/ LoadForUpdate(u) \/ WriteProblem(u) \/ AppendStatusChange(u) \/ AbortUpdate(u)
    PROVE  update' \in [Updaters -> Updates] /\ UpdateInv' /\ OneHolder'
<1>1. update[u] \in Updates /\ UpdateOK(update[u])
  BY DEF TypeOK, UpdateInv
<1>2. CASE \E q \in Problems, s \in MaybeStatus : Update(u, q, s)
  <2>1. PICK q \in Problems, r \in MaybeStatus : Update(u, q, r)
    BY <1>2
  <2> DEFINE s == [NoUpdate EXCEPT !.pc = "load", !.problem = q, !.requested = r]
  <2>2. s \in Updates /\ s.pc = "load" /\ s.problem = q /\ s.entry = FALSE
    BY DEF NoUpdate, Updates, MaybeStatus
  <2>3. UpdateGo(u, s) /\ problem' = problem
    BY <2>1 DEF Update
  <2> HIDE DEF s
  <2>4. UpdateOK(s) /\ ~Holding(s)
    BY <2>2 DEF UpdateOK, Holding
  <2> QED
    BY <2>2, <2>3, <2>4, UpdateMoves
<1>3. CASE LoadForUpdate(u)
  <2> DEFINE q == update[u].problem
             s == [update[u] EXCEPT !.pc = "write", !.current = problem[q].status]
  <2>1. update[u].pc = "load" /\ ~Locked(q) /\ problem' = problem
    BY <1>3 DEF LoadForUpdate, rowVars
  <2>2. q \in Problems /\ ~update[u].entry
    BY <1>1, <2>1 DEF UpdateOK
  <2>3. CASE Live(problem, q)
    <3>1. problem[q].status \in MaybeStatus
      BY <2>2 DEF TypeOK, ProblemRows
    <3>2. /\ s \in Updates /\ s.pc = "write" /\ s.problem = q /\ s.entry = update[u].entry
          /\ s.current = problem[q].status
      BY <1>1, <3>1 DEF Updates
    <3>3. UpdateGo(u, s)
      BY <1>3, <2>3 DEF LoadForUpdate
    <3> HIDE DEF s
    <3>4. UpdateOK(s)
      BY <2>2, <2>3, <3>2 DEF UpdateOK, Holding, Live
    <3> QED
      BY <2>1, <3>2, <3>3, <3>4, UpdateMoves
  <2>4. CASE ~Live(problem, q)
    BY <1>3, <2>1, <2>4, NoUpdateFits, UpdateMoves DEF LoadForUpdate
  <2> QED
    BY <2>3, <2>4
<1>4. CASE WriteProblem(u)
  <2> DEFINE s == [update[u] EXCEPT !.pc = IF statusChanged(update[u].requested, update[u].current)
                                             THEN "log" ELSE "commit"]
  <2>1. UpdateGo(u, s) /\ problem' = problem /\ update[u].pc = "write"
    BY <1>4 DEF WriteProblem, rowVars
  <2>2. /\ s \in Updates
        /\ s.pc = IF statusChanged(update[u].requested, update[u].current) THEN "log" ELSE "commit"
        /\ s.problem = update[u].problem /\ s.requested = update[u].requested
        /\ s.current = update[u].current /\ s.entry = update[u].entry
    BY <1>1 DEF Updates
  <2> HIDE DEF s
  <2>3. UpdateOK(s)
    BY <1>1, <2>1, <2>2 DEF UpdateOK, Holding
  <2> QED
    BY <2>1, <2>2, <2>3, UpdateMoves DEF Holding
<1>5. CASE AppendStatusChange(u)
  <2> DEFINE s == [update[u] EXCEPT !.pc = "commit", !.entry = TRUE]
  <2>1. UpdateGo(u, s) /\ problem' = problem /\ update[u].pc = "log"
    BY <1>5 DEF AppendStatusChange, rowVars
  <2>2. /\ s \in Updates /\ s.pc = "commit" /\ s.entry = TRUE
        /\ s.problem = update[u].problem /\ s.requested = update[u].requested
        /\ s.current = update[u].current
    BY <1>1 DEF Updates
  <2> HIDE DEF s
  <2>3. UpdateOK(s)
    BY <1>1, <2>1, <2>2 DEF UpdateOK, Holding
  <2> QED
    BY <2>1, <2>2, <2>3, UpdateMoves DEF Holding
<1>6. CASE AbortUpdate(u)
  BY <1>6, NoUpdateFits, UpdateMoves DEF AbortUpdate, rowVars
<1> QED
  BY <1>2, <1>3, <1>4, <1>5, <1>6

-----------------------------------------------------------------------------
(* The log.                                                                *)

\* StatusIsLogged, of one problem.
Chain(q) ==
    LET changes == StatusChanges(q) IN
    /\ changes = {} => problem[q].status = first[q]
    /\ \A i \in changes :
          /\ log[i].from # log[i].to
          /\ (\A j \in changes : i <= j) => log[i].from = first[q]
          /\ (\A j \in changes : j <= i) => log[i].to = problem[q].status
          /\ \A j \in changes :
                (i < j /\ \A k \in changes : k <= i \/ j <= k) => log[i].to = log[j].from

LEMMA StatusIsLoggedChain == StatusIsLogged <=> \A q \in Problems : Chain(q)
BY DEF StatusIsLogged, Chain

\* A row that is not a status change of q leaves q's.
LEMMA OtherEntry ==
    ASSUME log \in Seq(LogRows), NEW e \in LogRows, log' = Append(log, e), NEW q \in Problems,
           e.problem # q \/ e.action # "STATUS_CHANGE"
    PROVE  /\ StatusChanges(q)' = StatusChanges(q)
           /\ \A i \in StatusChanges(q) : log'[i] = log[i]
<1>1. /\ DOMAIN log = 1..Len(log) /\ DOMAIN log' = 1..(Len(log) + 1)
      /\ Len(log) \in Nat
      /\ \A i \in 1..Len(log) : log'[i] = log[i]
      /\ log'[Len(log) + 1] = e
  BY AppendProperties, LenProperties
<1> QED
  BY <1>1 DEF StatusChanges

LEMMA ChainKept ==
    ASSUME log \in Seq(LogRows), NEW q \in Problems, Chain(q),
           problem'[q].status = problem[q].status, first'[q] = first[q],
           \/ log' = log
           \/ \E e \in LogRows : /\ log' = Append(log, e)
                                 /\ e.problem # q \/ e.action # "STATUS_CHANGE"
    PROVE  Chain(q)'
<1>1. /\ StatusChanges(q)' = StatusChanges(q)
      /\ \A i \in StatusChanges(q) : log'[i] = log[i]
  BY OtherEntry DEF StatusChanges
<1> QED
  BY <1>1 DEF Chain

\* The status change that a COMMIT writes is the next link.
LEMMA ChainExtended ==
    ASSUME log \in Seq(LogRows), NEW q \in Problems, Chain(q), first'[q] = first[q],
           NEW e \in LogRows, log' = Append(log, e),
           e.problem = q, e.action = "STATUS_CHANGE",
           e.from = problem[q].status, e.to = problem'[q].status, e.from # e.to
    PROVE  Chain(q)'
<1> DEFINE n == Len(log) + 1
           old == StatusChanges(q)
<1>1. /\ DOMAIN log = 1..Len(log) /\ DOMAIN log' = 1..n
      /\ Len(log) \in Nat
      /\ \A i \in 1..Len(log) : log'[i] = log[i]
      /\ log'[n] = e
  BY AppendProperties, LenProperties
<1>2. /\ StatusChanges(q)' = old \cup {n}
      /\ \A i \in old : i \in Nat /\ i < n /\ log'[i] = log[i]
      /\ n \in Nat /\ n \notin old
  BY <1>1 DEF StatusChanges
<1> HIDE DEF n, old
<1>3. ASSUME NEW i \in old \cup {n}
      PROVE  /\ log'[i].from # log'[i].to
             /\ (\A j \in old \cup {n} : i <= j) => log'[i].from = first'[q]
             /\ (\A j \in old \cup {n} : j <= i) => log'[i].to = problem'[q].status
  <2>1. CASE i = n
    <3>1. (\A j \in old \cup {n} : i <= j) => old = {}
      BY <1>2, <2>1
    <3> QED
      BY <1>1, <1>2, <2>1, <3>1 DEF Chain, old
  <2>2. CASE i \in old
    <3>1. /\ log[i].from # log[i].to
          /\ (\A j \in old : i <= j) => log[i].from = first[q]
      BY <2>2 DEF Chain, old
    <3>2. ~\A j \in old \cup {n} : j <= i
      BY <1>2, <2>2
    <3> QED
      BY <1>2, <2>2, <3>1, <3>2
  <2> QED
    BY <2>1, <2>2
<1>4. ASSUME NEW i \in old \cup {n}, NEW j \in old \cup {n}, i < j,
             \A k \in old \cup {n} : k <= i \/ j <= k
      PROVE  log'[i].to = log'[j].from
  <2>1. i \in old
    BY <1>2, <1>4
  <2>2. CASE j = n
    <3>1. \A k \in old : k <= i
      BY <1>2, <1>4, <2>2
    <3>2. log[i].to = problem[q].status
      BY <2>1, <3>1 DEF Chain, old
    <3> QED
      BY <1>1, <1>2, <2>1, <2>2, <3>2
  <2>3. CASE j \in old
    <3>1. log[i].to = log[j].from
      BY <1>4, <2>1, <2>3 DEF Chain, old
    <3> QED
      BY <1>2, <2>1, <2>3, <3>1
  <2> QED
    BY <2>2, <2>3
<1> QED
  BY <1>2, <1>3, <1>4 DEF Chain

\* Steps that write no problem, no status change and no transaction.
LEMMA LogUntouched ==
    ASSUME LogInv, UNCHANGED <<problem, log, first, update>>
    PROVE  LogInv'
BY DEF LogInv, UpdateInv, UpdateOK, Holding, OneHolder, ProblemInv, StatusChanges, StatusIsLogged

\* Transactions know nothing of a row that none of them holds.
LEMMA UnheldRow ==
    ASSUME TypeOK, UpdateInv, OneHolder, update' = update, NEW q \in Problems,
           \A r \in Problems \ {q} : problem'[r] = problem[r],
           \A u \in Updaters : Holding(update[u]) => update[u].problem # q
    PROVE  UpdateInv' /\ OneHolder'
<1>1. ASSUME NEW u \in Updaters PROVE UpdateOK(update[u])'
  <2>1. UpdateOK(update[u])
    BY DEF UpdateInv
  <2>2. Holding(update[u]) => problem'[update[u].problem] = problem[update[u].problem]
    BY <2>1 DEF UpdateOK, Holding
  <2> QED
    BY <2>1, <2>2 DEF UpdateOK, Holding
<1> QED
  BY <1>1 DEF UpdateInv, OneHolder, Holding

LEMMA CreateStep ==
    ASSUME TypeOK, LogInv, NEW q \in Problems, NEW p \in Projects, NEW s \in MaybeStatus,
           Create(q, p, s)
    PROVE  /\ problem' \in [Problems -> ProblemRows] /\ first' \in [Problems -> MaybeStatus]
           /\ LogInv'
<1>1. /\ problem[q].state = "absent" /\ log' = log /\ update' = update
      /\ problem' = [problem EXCEPT ![q] = [state |-> "live", project |-> p, status |-> s]]
      /\ first' = [first EXCEPT ![q] = s]
  BY DEF Create
<1>2. problem' \in [Problems -> ProblemRows] /\ first' \in [Problems -> MaybeStatus]
  BY <1>1 DEF TypeOK, ProblemRows, RowStates
<1>3. /\ problem'[q] = [state |-> "live", project |-> p, status |-> s] /\ first'[q] = s
      /\ \A r \in Problems \ {q} : problem'[r] = problem[r] /\ first'[r] = first[r]
  BY <1>1 DEF TypeOK
<1>4. UpdateInv' /\ OneHolder'
  <2>1. \A u \in Updaters : Holding(update[u]) => update[u].problem # q
    BY <1>1 DEF LogInv, UpdateInv, UpdateOK
  <2> QED
    BY <1>1, <1>3, <2>1, UnheldRow DEF LogInv
<1>5. StatusChanges(q) = {} /\ \A r \in Problems : StatusChanges(r)' = StatusChanges(r)
  BY <1>1 DEF LogInv, ProblemInv, StatusChanges
<1>6. ProblemInv'
  BY <1>3, <1>5 DEF LogInv, ProblemInv
<1>7. ASSUME NEW r \in Problems PROVE Chain(r)'
  <2>1. CASE r = q
    BY <1>3, <1>5, <2>1 DEF Chain
  <2>2. CASE r # q
    BY <1>1, <1>3, <2>2, ChainKept, StatusIsLoggedChain DEF LogInv, TypeOK
  <2> QED
    BY <2>1, <2>2
<1>8. StatusIsLogged'
  BY <1>7 DEF StatusIsLogged, Chain
<1> QED
  BY <1>2, <1>4, <1>6, <1>8 DEF LogInv

LEMMA DeleteStep ==
    ASSUME TypeOK, LogInv, NEW q \in Problems, Delete(q)
    PROVE  problem' \in [Problems -> ProblemRows] /\ LogInv'
<1>1. /\ Live(problem, q) /\ ~Locked(q) /\ log' = log /\ update' = update /\ first' = first
      /\ problem' = [problem EXCEPT ![q].state = "deleted"]
  BY DEF Delete
<1>2. problem' \in [Problems -> ProblemRows]
  BY <1>1 DEF TypeOK, ProblemRows, RowStates
<1>3. /\ problem'[q].state = "deleted" /\ problem'[q].project = problem[q].project
      /\ problem'[q].status = problem[q].status
      /\ \A r \in Problems \ {q} : problem'[r] = problem[r]
  BY <1>1 DEF TypeOK, ProblemRows
<1>4. UpdateInv' /\ OneHolder'
  <2>1. \A u \in Updaters : Holding(update[u]) => update[u].problem # q
    BY <1>1 DEF Locked, Holding
  <2> QED
    BY <1>1, <1>3, <2>1, UnheldRow DEF LogInv
<1>5. ProblemInv'
  BY <1>1, <1>3 DEF LogInv, ProblemInv, StatusChanges, Live
<1>6. ASSUME NEW r \in Problems PROVE Chain(r)'
  <2>1. problem'[r].status = problem[r].status
    BY <1>3
  <2> QED
    BY <1>1, <2>1, ChainKept, StatusIsLoggedChain DEF LogInv, TypeOK
<1>7. StatusIsLogged'
  BY <1>6 DEF StatusIsLogged, Chain
<1> QED
  BY <1>2, <1>4, <1>5, <1>7 DEF LogInv

LEMMA InsertLogStep ==
    ASSUME TypeOK, LogInv, NEW c \in Clients, request[c].row \in Problems, InsertLog(c)
    PROVE  LogInv'
<1>1. PICK a \in validClientLogAction :
         log' = Append(log, [problem |-> request[c].row, action |-> a,
                             from |-> NoStatus, to |-> NoStatus])
  BY DEF InsertLog
<1> DEFINE e == [problem |-> request[c].row, action |-> a, from |-> NoStatus, to |-> NoStatus]
<1>2. e \in LogRows /\ e.action # "STATUS_CHANGE"
  BY DEF LogRows, MaybeStatus, validClientLogAction
<1>3. problem' = problem /\ first' = first /\ update' = update /\ log' = Append(log, e)
  BY <1>1 DEF InsertLog
<1> HIDE DEF e
<1>4. UpdateInv' /\ OneHolder'
  BY <1>3 DEF LogInv, UpdateInv, UpdateOK, Holding, OneHolder
<1>5. \A q \in Problems : StatusChanges(q)' = StatusChanges(q)
  BY <1>2, <1>3, OtherEntry DEF TypeOK
<1>6. ProblemInv'
  BY <1>3, <1>5 DEF LogInv, ProblemInv
<1>7. \A q \in Problems : Chain(q)'
  BY <1>2, <1>3, ChainKept, StatusIsLoggedChain DEF LogInv, TypeOK
<1>8. StatusIsLogged'
  BY <1>7 DEF StatusIsLogged, Chain
<1> QED
  BY <1>4, <1>6, <1>8 DEF LogInv

\* The COMMIT writes the status and, if it is another one, its link.
LEMMA CommitStep ==
    ASSUME TypeOK, LogInv, NEW u \in Updaters, CommitUpdate(u)
    PROVE  /\ problem' \in [Problems -> ProblemRows] /\ log' \in Seq(LogRows)
           /\ update' \in [Updaters -> Updates]
           /\ LogInv'
<1> DEFINE x == update[u]
           q == update[u].problem
           e == StatusChange(u)
<1>1. /\ x \in Updates /\ UpdateOK(x) /\ x.pc = "commit" /\ Holding(x)
      /\ q \in Problems /\ problem[q].state = "live" /\ problem[q].status = x.current
  BY DEF TypeOK, CommitUpdate, LogInv, UpdateInv, UpdateOK, Holding
<1>2. /\ problem' = [problem EXCEPT ![q].status = Coalesced(u)]
      /\ log' = IF x.entry THEN Append(log, e) ELSE log
      /\ update' = [update EXCEPT ![u] = NoUpdate]
      /\ first' = first
  BY DEF CommitUpdate, UpdateGo
<1>3. Coalesced(u) \in MaybeStatus
  BY <1>1 DEF Coalesced, Updates
<1>4. /\ problem' \in [Problems -> ProblemRows]
      /\ problem'[q].state = "live" /\ problem'[q].project = problem[q].project
      /\ problem'[q].status = Coalesced(u)
      /\ \A r \in Problems \ {q} : problem'[r] = problem[r]
  BY <1>1, <1>2, <1>3 DEF TypeOK, ProblemRows
<1>5. /\ e \in LogRows /\ e.problem = q /\ e.action = "STATUS_CHANGE"
      /\ e.from = x.current /\ e.to = x.requested
  BY <1>1 DEF StatusChange, LogRows, Updates
<1>6. /\ x.entry => Coalesced(u) = x.requested /\ x.requested # x.current
      /\ ~x.entry => Coalesced(u) = x.current
  BY <1>1 DEF UpdateOK, statusChanged, Coalesced
<1> HIDE DEF e
<1>7. log' \in Seq(LogRows)
  BY <1>2, <1>5, AppendProperties DEF TypeOK
<1>8. /\ update' \in [Updaters -> Updates] /\ update'[u] = NoUpdate
      /\ \A v \in Updaters \ {u} : update'[v] = update[v]
  BY <1>2, NoUpdateFits DEF TypeOK
<1>9. UpdateInv' /\ OneHolder'
  <2>1. ASSUME NEW v \in Updaters PROVE UpdateOK(update[v])'
    <3>1. CASE v = u
      BY <1>8, <3>1 DEF UpdateOK, Holding, NoUpdate
    <3>2. CASE v # u
      <4>1. UpdateOK(update[v])
        BY DEF LogInv, UpdateInv
      <4>2. Holding(update[v]) => update[v].problem # q
        BY <1>1, <3>2 DEF LogInv, OneHolder
      <4>3. Holding(update[v]) => problem'[update[v].problem] = problem[update[v].problem]
        BY <1>4, <4>1, <4>2 DEF UpdateOK, Holding
      <4> QED
        BY <1>8, <3>2, <4>1, <4>3 DEF UpdateOK, Holding
    <3> QED
      BY <3>1, <3>2
  <2>2. OneHolder'
    <3>1. \A v \in Updaters : Holding(update'[v]) => v # u /\ update'[v] = update[v]
      BY <1>8, NoUpdateFits
    <3>2. \A v, w \in Updaters :
             Holding(update'[v]) /\ Holding(update'[w])
                /\ update'[v].problem = update'[w].problem => v = w
      BY <3>1 DEF LogInv, OneHolder
    <3> QED
      BY <3>2 DEF OneHolder, Holding
  <2> QED
    BY <2>1, <2>2 DEF UpdateInv
<1>10. \A r \in Problems \ {q} : StatusChanges(r)' = StatusChanges(r)
  <2>1. CASE x.entry
    BY <1>2, <1>5, <2>1, OtherEntry DEF TypeOK
  <2>2. CASE ~x.entry
    BY <1>2, <2>2 DEF StatusChanges
  <2> QED
    BY <2>1, <2>2
<1>11. ProblemInv'
  BY <1>1, <1>4, <1>10 DEF LogInv, ProblemInv
<1>12. ASSUME NEW r \in Problems PROVE Chain(r)'
  <2>1. log \in Seq(LogRows) /\ Chain(r)
    BY StatusIsLoggedChain DEF TypeOK, LogInv
  <2>2. CASE r # q
    BY <1>2, <1>4, <1>5, <2>1, <2>2, ChainKept
  <2>3. CASE r = q /\ x.entry
    BY <1>1, <1>2, <1>4, <1>5, <1>6, <2>1, <2>3, ChainExtended
  <2>4. CASE r = q /\ ~x.entry
    BY <1>1, <1>2, <1>4, <1>6, <2>1, <2>4, ChainKept
  <2> QED
    BY <2>2, <2>3, <2>4 DEF Updates
<1>13. StatusIsLogged'
  BY <1>12 DEF StatusIsLogged, Chain
<1> QED
  BY <1>4, <1>7, <1>8, <1>9, <1>11, <1>13 DEF LogInv

-----------------------------------------------------------------------------
(* The overview.                                                           *)

LEMMA OverviewKept ==
    ASSUME OverviewInv, UNCHANGED <<problem, overview>>
    PROVE  OverviewInv'
BY DEF OverviewInv, OverviewOK, Counted, problemWhere, Under, Live

\* A write ends every overview under way.
LEMMA OverviewOvertaken ==
    ASSUME TypeOK, Written
    PROVE  OverviewInv'
<1>1. /\ NoOverview.pc = "idle"
      /\ \A o \in Overviews : [o EXCEPT !.pc = "overtaken"].pc = "overtaken"
  BY DEF NoOverview, Overviews
<1>2. \A r \in Readers : overview'[r].pc \in {"idle", "overtaken"}
  BY <1>1, NoOverviewTyped DEF Written
<1> QED
  BY <1>2 DEF OverviewInv, OverviewOK, Counted

\* One reader moves on.
LEMMA OverviewMoves ==
    ASSUME TypeOK, OverviewInv, NEW r \in Readers, NEW o \in Overviews, OverviewOK(o),
           OverviewGo(r, o)
    PROVE  overview' \in [Readers -> Overviews] /\ OverviewInv'
<1>1. /\ problem' = problem
      /\ overview' \in [Readers -> Overviews]
      /\ overview'[r] = o
      /\ \A x \in Readers \ {r} : overview'[x] = overview[x]
  BY DEF OverviewGo, TypeOK
<1>2. \A x \in Readers : OverviewOK(overview'[x])
  BY <1>1 DEF OverviewInv, OverviewOK
<1> QED
  BY <1>1, <1>2 DEF OverviewInv, OverviewOK, Counted, problemWhere, Under, Live

LEMMA ReadStepOK ==
    ASSUME CaseworkAssumption, TypeOK, OverviewInv, NEW r \in Readers, ReadStep(r)
    PROVE  overview' \in [Readers -> Overviews] /\ OverviewInv'
<1> DEFINE S == [s \in StatusItems |-> {q \in problemWhere : problem[q].status = s}]
           I == [i \in Inspectors |-> {q \in problemWhere : inspectorOf[q] = i}]
           P == [p \in Projects |-> Under(p)]
<1>1. /\ overview[r] \in Overviews /\ OverviewOK(overview[r])
      /\ NoOverview \in Overviews /\ NoOverview.pc = "idle"
  BY NoOverviewTyped DEF TypeOK, OverviewInv, OverviewOK, NoOverview
<1>2. /\ S \in [StatusItems -> SUBSET Problems]
      /\ I \in [Inspectors -> SUBSET Problems]
      /\ P \in [Projects -> SUBSET Problems]
      /\ problemWhere \in SUBSET Problems
  BY DEF problemWhere, Under
<1> HIDE DEF S, I, P
<1>3. CASE countByDict(r)
  <2> DEFINE o == [NoOverview EXCEPT !.pc = "inspector", !.byStatus = S]
  <2>1. \A x \in Overviews : /\ [x EXCEPT !.pc = "inspector", !.byStatus = S] \in Overviews
                             /\ [x EXCEPT !.pc = "inspector", !.byStatus = S].pc = "inspector"
                             /\ [x EXCEPT !.pc = "inspector", !.byStatus = S].byStatus = S
    BY <1>2 DEF Overviews
  <2>2. o \in Overviews /\ o.pc = "inspector" /\ o.byStatus = S
    BY <1>1, <2>1
  <2>3. OverviewGo(r, o)
    BY <1>3 DEF countByDict, S
  <2> HIDE DEF o
  <2>4. OverviewOK(o)
    BY <2>2 DEF OverviewOK, Counted, S
  <2> QED
    BY <2>2, <2>3, <2>4, OverviewMoves
<1>4. CASE countByInspector(r)
  <2> DEFINE o == [overview[r] EXCEPT !.pc = "project", !.byInspector = I]
  <2>1. /\ o \in Overviews /\ o.pc = "project" /\ o.byInspector = I
        /\ o.byStatus = overview[r].byStatus
    BY <1>1, <1>2 DEF Overviews
  <2>2. OverviewGo(r, o) /\ overview[r].pc = "inspector"
    BY <1>4 DEF countByInspector, I
  <2> HIDE DEF o
  <2>3. OverviewOK(o)
    BY <1>1, <2>1, <2>2 DEF OverviewOK, Counted, I
  <2> QED
    BY <2>1, <2>2, <2>3, OverviewMoves
<1>5. CASE countByProject(r)
  <2> DEFINE o == [overview[r] EXCEPT !.pc = "total", !.byProject = P]
  <2>1. /\ o \in Overviews /\ o.pc = "total" /\ o.byProject = P
        /\ o.byStatus = overview[r].byStatus /\ o.byInspector = overview[r].byInspector
    BY <1>1, <1>2 DEF Overviews
  <2>2. OverviewGo(r, o) /\ overview[r].pc = "project"
    BY <1>5 DEF countByProject, P
  <2> HIDE DEF o
  <2>3. OverviewOK(o)
    BY <1>1, <2>1, <2>2 DEF OverviewOK, Counted, P
  <2> QED
    BY <2>1, <2>2, <2>3, OverviewMoves
<1>6. CASE totals(r)
  <2> DEFINE o == [overview[r] EXCEPT !.pc = "shown", !.total = problemWhere]
  <2>1. /\ o \in Overviews /\ o.pc = "shown" /\ o.total = problemWhere
        /\ o.byStatus = overview[r].byStatus /\ o.byInspector = overview[r].byInspector
        /\ o.byProject = overview[r].byProject
    BY <1>1, <1>2 DEF Overviews
  <2>2. OverviewGo(r, o) /\ overview[r].pc = "total"
    BY <1>6 DEF totals
  <2> HIDE DEF o
  <2>3. OverviewOK(o)
    BY <1>1, <2>1, <2>2 DEF OverviewOK, Counted
  <2> QED
    BY <2>1, <2>2, <2>3, OverviewMoves
<1>7. CASE projectsInWindow(r)
  <2> DEFINE D == {p \in Projects : project[p] = "live" /\ (p \in inspected \/ Under(p) # {})}
             o == [NoOverview EXCEPT !.pc = "export", !.todo = D]
  <2>1. D \in SUBSET Projects
    OBVIOUS
  <2>2. OverviewGo(r, o)
    BY <1>7 DEF projectsInWindow
  <2> HIDE DEF D
  <2>3. \A x \in Overviews : /\ [x EXCEPT !.pc = "export", !.todo = D] \in Overviews
                             /\ [x EXCEPT !.pc = "export", !.todo = D].pc = "export"
    BY <2>1 DEF Overviews
  <2>4. o \in Overviews /\ o.pc = "export"
    BY <1>1, <2>3
  <2> HIDE DEF o
  <2>5. OverviewOK(o)
    BY <2>4 DEF OverviewOK, Counted
  <2> QED
    BY <2>2, <2>4, <2>5, OverviewMoves
<1>8. CASE ProjectsForExport(r)
  <2>1. PICK p \in overview[r].todo :
           OverviewGo(r, [overview[r] EXCEPT !.todo = @ \ {p}, !.byProject[p] = Under(p)])
    BY <1>8 DEF ProjectsForExport
  <2> DEFINE o == [overview[r] EXCEPT !.todo = @ \ {p}, !.byProject[p] = Under(p)]
  <2>2. overview[r].pc = "export" /\ Under(p) \in SUBSET Problems
    BY <1>8 DEF ProjectsForExport, Under, problemWhere
  <2>3. o \in Overviews /\ o.pc = "export"
    BY <1>1, <2>2 DEF Overviews
  <2>4. OverviewGo(r, o)
    BY <2>1
  <2> HIDE DEF o
  <2>5. OverviewOK(o)
    BY <2>3 DEF OverviewOK, Counted
  <2> QED
    BY <2>3, <2>4, <2>5, OverviewMoves
<1>9. CASE CloseOverview(r)
  <2>1. OverviewOK(NoOverview)
    BY <1>1 DEF OverviewOK, Counted
  <2> QED
    BY <1>1, <1>9, <2>1, OverviewMoves DEF CloseOverview
<1> QED
  BY <1>3, <1>4, <1>5, <1>6, <1>7, <1>8, <1>9 DEF ReadStep

-----------------------------------------------------------------------------
(* The theorems.                                                           *)

LEMMA InitOK == CaseworkAssumption /\ Init => IInv
<1> SUFFICES ASSUME CaseworkAssumption, Init PROVE IInv
  OBVIOUS
<1>1. TypeOK
  <2>1. /\ NoTaskRow \in TaskRows /\ NoProblemRow \in ProblemRows
        /\ NoRequest \in Requests /\ NoUpdate \in Updates /\ NoOverview \in Overviews
        /\ NoStatus \in MaybeStatus /\ "absent" \in RowStates
    BY NoOverviewTyped, NoUpdateFits DEF NoTaskRow, TaskRows, NoProblemRow, ProblemRows,
       NoRequest, Requests, RowStates, MaybeStatus
  <2>2. <<>> \in Seq(LogRows)
    BY EmptySeq
  <2> QED
    BY <2>1, <2>2 DEF Init, TypeOK
<1>2. RequestInv
  BY DEF Init, RequestInv, NoRequest
<1>3. \A q \in Problems : StatusChanges(q) = {}
  BY DEF Init, StatusChanges
<1>4. UpdateInv /\ OneHolder
  BY NoUpdateFits DEF Init, UpdateInv, OneHolder
<1>5. ProblemInv
  BY <1>3 DEF Init, ProblemInv, NoProblemRow
<1>6. StatusIsLogged
  BY <1>3 DEF Init, StatusIsLogged, NoProblemRow
<1>7. OverviewInv
  <2>1. \A r \in Readers : overview[r].pc = "idle"
    BY DEF Init, NoOverview
  <2> QED
    BY <2>1 DEF OverviewInv, OverviewOK, Counted
<1> QED
  BY <1>1, <1>2, <1>4, <1>5, <1>6, <1>7 DEF IInv, LogInv

LEMMA NextOK == CaseworkAssumption /\ IInv /\ [Next]_vars => IInv'
<1> SUFFICES ASSUME CaseworkAssumption, IInv, [Next]_vars PROVE IInv'
  OBVIOUS
<1>0. TypeOK /\ RequestInv /\ LogInv /\ UpdateInv /\ OneHolder /\ OverviewInv
  BY DEF IInv, LogInv
<1>1. CASE ProjectStep
  <2>1. TypeOK' /\ RequestInv'
    BY <1>0, <1>1, ProjectTyped
  <2>2. Written /\ UNCHANGED <<problem, log, first, update>>
    BY <1>1 DEF ProjectStep, CreateProject, UpdateProject, ProjectGo, StartInspection, UpdateTask,
                DeleteTask, TaskGo, DeleteInspector
  <2> QED
    BY <1>0, <2>1, <2>2, LogUntouched, OverviewOvertaken DEF IInv
<1>2. ASSUME NEW q \in Problems, Delete(q) PROVE IInv'
  <2>1. problem' \in [Problems -> ProblemRows] /\ LogInv'
    BY <1>0, <1>2, DeleteStep
  <2>2. Written
    BY <1>2 DEF Delete
  <2>3. TypeOK' /\ RequestInv'
    BY <1>0, <1>2, <2>1, <2>2, WrittenTyped DEF Delete, TypeOK, RequestInv
  <2> QED
    BY <1>0, <2>1, <2>2, <2>3, OverviewOvertaken DEF IInv
<1>3. ASSUME NEW q \in Problems, NEW p \in Projects, NEW s \in MaybeStatus, Create(q, p, s)
      PROVE  IInv'
  <2>1. /\ problem' \in [Problems -> ProblemRows] /\ first' \in [Problems -> MaybeStatus]
        /\ LogInv'
    BY <1>0, <1>3, CreateStep
  <2>2. Written
    BY <1>3 DEF Create
  <2>3. TypeOK' /\ RequestInv'
    BY <1>0, <1>3, <2>1, <2>2, WrittenTyped DEF Create, TypeOK, RequestInv
  <2> QED
    BY <1>0, <2>1, <2>2, <2>3, OverviewOvertaken DEF IInv
<1>4. ASSUME NEW c \in Clients, ClientStep(c) PROVE IInv'
  <2>1. TypeOK' /\ RequestInv'
    BY <1>0, <1>4, ClientTyped
  <2>2. LogInv'
    <3>1. CASE InsertLog(c)
      <4>1. request[c].row \in Problems
        BY <1>0, <3>1 DEF InsertLog, RequestInv
      <4> QED
        BY <1>0, <3>1, <4>1, InsertLogStep
    <3>2. CASE ~InsertLog(c)
      <4>1. UNCHANGED <<problem, log, first, update>>
        BY <1>4, <3>2 DEF ClientStep, DeleteProject, CreateTask, Ask, createTask, TaskGo, CreateLog,
           projectHasDependents, softDeleteProject, ProjectGo, FailRequest, rowVars
      <4> QED
        BY <1>0, <4>1, LogUntouched
    <3> QED
      BY <3>1, <3>2
  <2>3. OverviewInv'
    <3>1. Written \/ UNCHANGED <<problem, overview>>
      BY <1>4 DEF ClientStep, DeleteProject, CreateTask, Ask, createTask, TaskGo, CreateLog,
         projectHasDependents, softDeleteProject, ProjectGo, InsertLog, FailRequest, rowVars
    <3> QED
      BY <1>0, <3>1, OverviewKept, OverviewOvertaken
  <2> QED
    BY <2>1, <2>2, <2>3 DEF IInv
<1>5. ASSUME NEW u \in Updaters, UpdateStep(u) PROVE IInv'
  <2>1. CASE CommitUpdate(u)
    <3>1. /\ problem' \in [Problems -> ProblemRows] /\ log' \in Seq(LogRows)
          /\ update' \in [Updaters -> Updates] /\ LogInv'
      BY <1>0, <2>1, CommitStep
    <3>2. Written
      BY <2>1 DEF CommitUpdate
    <3>3. TypeOK' /\ RequestInv'
      BY <1>0, <2>1, <3>1, <3>2, WrittenTyped DEF CommitUpdate, UpdateGo, TypeOK, RequestInv
    <3> QED
      BY <1>0, <3>1, <3>2, <3>3, OverviewOvertaken DEF IInv
  <2>2. CASE ~CommitUpdate(u)
    <3>1. update' \in [Updaters -> Updates] /\ UpdateInv' /\ OneHolder'
      BY <1>0, <1>5, <2>2, UpdateAdvances DEF UpdateStep
    <3>2. /\ UNCHANGED <<project, task, inspected, employed, problem, log, request, overview, first>>
          /\ entries' \in {entries, entries + 1}
      BY <1>5, <2>2 DEF UpdateStep, Update, LoadForUpdate, WriteProblem, AppendStatusChange,
                        AbortUpdate, UpdateGo, rowVars
    <3>3. TypeOK' /\ RequestInv'
      BY <1>0, <3>1, <3>2 DEF TypeOK, RequestInv
    <3>4. ProblemInv' /\ StatusIsLogged'
      BY <1>0, <3>2 DEF LogInv, ProblemInv, StatusChanges, StatusIsLogged
    <3> QED
      BY <1>0, <3>1, <3>2, <3>3, <3>4, OverviewKept DEF IInv, LogInv
  <2> QED
    BY <2>1, <2>2
<1>6. ASSUME NEW r \in Readers, ReadStep(r) PROVE IInv'
  <2>1. overview' \in [Readers -> Overviews] /\ OverviewInv'
    BY <1>0, <1>6, ReadStepOK
  <2>2. UNCHANGED <<project, task, inspected, employed, problem, log, first, entries, update, request>>
    BY <1>6 DEF ReadStep, countByDict, countByInspector, countByProject, totals, projectsInWindow,
                ProjectsForExport, CloseOverview, OverviewGo
  <2>3. TypeOK' /\ RequestInv'
    BY <1>0, <2>1, <2>2 DEF TypeOK, RequestInv
  <2> QED
    BY <1>0, <2>1, <2>2, <2>3, LogUntouched DEF IInv
<1>7. CASE UNCHANGED vars
  BY <1>0, <1>7, LogUntouched, OverviewKept DEF vars, IInv, TypeOK, RequestInv
<1> QED
  BY <1>1, <1>2, <1>3, <1>4, <1>5, <1>6, <1>7 DEF Next

THEOREM Invariance == Spec => []IInv
BY InitOK, NextOK, CaseworkAssumption, PTL DEF Spec

\* Every row, request, transaction and figure stays of its type.
THEOREM TypeCorrect == Spec => []TypeOK
<1>1. IInv => TypeOK
  BY DEF IInv
<1> QED
  BY <1>1, Invariance, PTL

\* D3: the STATUS_CHANGE rows of a problem are a chain without a gap from the
\* status it was created with to the one it has.  Two updates that both read
\* before either writes would break it; SELECT ... FOR UPDATE lets one wait.
THEOREM StatusAlwaysLogged == Spec => []StatusIsLogged
<1>1. IInv => StatusIsLogged
  BY DEF IInv, LogInv
<1> QED
  BY <1>1, Invariance, PTL

LEMMA FiguresAddUp == CaseworkAssumption /\ IInv => OverviewAddsUp
<1> SUFFICES ASSUME CaseworkAssumption, IInv, NEW r \in Readers, overview[r].pc = "shown"
             PROVE  /\ UNION {overview[r].byProject[p] : p \in Projects} = overview[r].total
                    /\ UNION {overview[r].byInspector[i] : i \in Inspectors} = overview[r].total
                    /\ UNION {overview[r].byStatus[s] : s \in StatusItems}
                         = {q \in overview[r].total : problem[q].status # NoStatus}
  BY DEF OverviewAddsUp
<1>1. /\ overview[r].byStatus = [s \in StatusItems |-> {q \in problemWhere : problem[q].status = s}]
      /\ overview[r].byInspector = [i \in Inspectors |-> {q \in problemWhere : inspectorOf[q] = i}]
      /\ overview[r].byProject = [p \in Projects |-> Under(p)]
      /\ overview[r].total = problemWhere
  BY DEF IInv, OverviewInv, OverviewOK, Counted
<1>2. \A q \in problemWhere : /\ q \in Problems
                              /\ problem[q].project \in Projects
                              /\ inspectorOf[q] \in Inspectors
                              /\ problem[q].status \in StatusItems \cup {NoStatus}
  BY DEF IInv, LogInv, ProblemInv, TypeOK, ProblemRows, MaybeStatus, problemWhere, Live,
         CaseworkAssumption
<1>3. UNION {overview[r].byProject[p] : p \in Projects} = overview[r].total
  BY <1>1, <1>2 DEF Under
<1>4. UNION {overview[r].byInspector[i] : i \in Inspectors} = overview[r].total
  BY <1>1, <1>2
<1>5. UNION {overview[r].byStatus[s] : s \in StatusItems}
         = {q \in overview[r].total : problem[q].status # NoStatus}
  BY <1>1, <1>2 DEF CaseworkAssumption
<1> QED
  BY <1>3, <1>4, <1>5

\* The figures of an overview that no write has overtaken count the same
\* problems, whatever has been deleted before.
THEOREM OverviewAlwaysAddsUp == Spec => []OverviewAddsUp
BY FiguresAddUp, Invariance, CaseworkAssumption, PTL

=============================================================================
