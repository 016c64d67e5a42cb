------------------------------ MODULE Listing ------------------------------
(***************************************************************************)
(* Lists read page by page while their table changes: the tables of the    *)
(* admin site (users, problems, inspections, projects, tasks) and the two  *)
(* paginated exports.                                                      *)
(*                                                                         *)
(* Every statement is a READ COMMITTED snapshot of its own, and a page is  *)
(* a LIMIT and an OFFSET into what the statement sees.  A request for a    *)
(* page is two statements, the page and the number of rows, and the lists  *)
(* differ in which comes first.  The site offers a next page while the     *)
(* pages so far hold fewer rows than that number, but shows one page of    *)
(* tasks only; an export stops at a page that is not full.                 *)
(***************************************************************************)
EXTENDS Naturals, FiniteSetsExt, SequencesExt

CONSTANTS
    Ids,        \* ids of the rows, as the sequence of the table gives them
    Times,      \* captured_at, started_at
    Lists,      \* the lists read in this instance
    PageSize,   \* LIMIT
    MaxWrites   \* bound: rows entering or leaving the list during one reading

Site == {"users", "problems", "inspections", "projects", "tasks"}
Exports == {"INSPECTION_RECORDS", "PROBLEM_LIST"}

ASSUME ListingAssumption ==
    /\ Ids \subseteq Nat /\ IsFiniteSet(Ids) /\ Ids # {}
    /\ Times \subseteq Nat
    /\ Lists \subseteq Site \cup Exports
    /\ PageSize \in Nat \ {0}
    /\ MaxWrites \in Nat

VARIABLES
    list,    \* the list that is read
    row,     \* the rows of its table
    reader,  \* the reading
    shown,   \* how often a row has been on a page of this reading
    stayed,  \* rows that have been in the list since it began
    came, left  \* rows that have entered and left the list since

vars == <<list, row, reader, shown, stayed, came, left>>

-----------------------------------------------------------------------------
\* A row is in the list if it matches the WHERE of the request: "out" rows are
\* deleted or filtered out.  Its id and time never change.
Rows == [state : {"none", "in", "out"}, time : Times]
Matching == {i \in Ids : row[i].state = "in"}

Readers == [pc : {"closed", "ask", "second", "reply", "done"}, page : Nat, got : Nat, total : Nat]

\* The site asks for no page past the last row there can be; an export may ask
\* for one more, which is empty.
LastPage == IF list \in Exports THEN Cardinality(Ids) \div PageSize + 1
                                ELSE (Cardinality(Ids) + PageSize - 1) \div PageSize

TypeOK ==
    /\ list \in Lists
    /\ row \in [Ids -> Rows]
    /\ reader \in Readers /\ reader.page \in 0..LastPage
    /\ shown \in [Ids -> Nat]
    /\ stayed \in SUBSET Matching
    /\ came \in 0..MaxWrites
    /\ left \in 0..MaxWrites

NoReading == [pc |-> "closed", page |-> 0, got |-> 0, total |-> 0]
Unseen == [i \in Ids |-> 0]

Init ==
    /\ list \in Lists
    /\ row \in [Ids -> Rows]
    /\ reader = NoReading
    /\ shown = Unseen
    /\ stayed = {}
    /\ came = 0
    /\ left = 0

-----------------------------------------------------------------------------
(* ORDER BY.                                                               *)

ById == {p \in Ids \X Ids : p[1] < p[2]}
LastId == {p \in Ids \X Ids : p[1] > p[2]}

\* Mutant: rows of one time in whatever order the plan gives them.
LatestOnly == {p \in Ids \X Ids : row[p[1]].time > row[p[2]].time}

Latest == {p \in Ids \X Ids : \/ row[p[1]].time > row[p[2]].time
                             \/ (row[p[1]].time = row[p[2]].time /\ p \in LastId)}

\* What Postgres may return: any sequence that keeps to the ORDER BY.
Sorted(order) ==
    {s \in SetToSeqs(Matching) : \A m, n \in DOMAIN s : m < n => <<s[n], s[m]>> \notin order}

Offset(page) == (page - 1) * PageSize

Page(s, page) == {s[n] : n \in {m \in DOMAIN s : Offset(page) < m /\ m <= Offset(page) + PageSize}}

-----------------------------------------------------------------------------
(* The statements of a reading.                                            *)

Go(r) == reader' = r /\ UNCHANGED <<list, row, stayed, came, left>>

\* SELECT ... ORDER BY ... LIMIT ... OFFSET.
SelectPage(order, next) ==
    \E s \in Sorted(order) : LET page == Page(s, reader.page) IN
        /\ shown' = [i \in Ids |-> IF i \in page THEN shown[i] + 1 ELSE shown[i]]
        /\ Go([reader EXCEPT !.pc = next, !.got = Cardinality(page)])

\* SELECT count(*) with the same WHERE.
Count(next) ==
    /\ Go([reader EXCEPT !.pc = next, !.total = Cardinality(Matching)])
    /\ UNCHANGED shown

ListThenCount(order) ==
    \/ reader.pc = "ask" /\ SelectPage(order, "second")
    \/ reader.pc = "second" /\ Count("reply")

CountThenList(order) ==
    \/ reader.pc = "ask" /\ Count("second")
    \/ reader.pc = "second" /\ SelectPage(order, "reply")

\* An export counts once, for its progress, and then only reads pages.
ExportPages(order) ==
    \/ reader.pc = "ask" /\ reader.page = 1 /\ Count("second")
    \/ reader.pc = "ask" /\ reader.page > 1 /\ SelectPage(order, "reply")
    \/ reader.pc = "second" /\ SelectPage(order, "reply")

ListUsers == list = "users" /\ ListThenCount(ById)

\* Mutant: the number of rows is asked for first.
CountProblemsFirst == list = "problems" /\ CountThenList(Latest)
ListProblems == list = "problems" /\ ListThenCount(Latest)
ListInspections == list = "inspections" /\ ListThenCount(Latest)
ListProjects == list = "projects" /\ CountThenList(LastId)
ListTasks == list = "tasks" /\ CountThenList(LastId)
buildInspectionRecords == list = "INSPECTION_RECORDS" /\ ExportPages(Latest)
buildProblemList == list = "PROBLEM_LIST" /\ ExportPages(Latest)

-----------------------------------------------------------------------------
(* The reader.                                                             *)

\* The first page of a list, at any time and again.
Open ==
    /\ reader' = [NoReading EXCEPT !.pc = "ask", !.page = 1]
    /\ shown' = Unseen
    /\ stayed' = Matching
    /\ came' = 0
    /\ left' = 0
    /\ UNCHANGED <<list, row>>

\* Mutant: a full last page is followed by another.
MoreOrEqual ==
    IF list \in Exports THEN reader.got = PageSize
                        ELSE list # "tasks" /\ reader.page * PageSize <= reader.total

\* Is there a page after this one?
More ==
    IF list \in Exports THEN reader.got = PageSize
                        ELSE list # "tasks" /\ reader.page * PageSize < reader.total

NextPage ==
    /\ reader.pc = "reply"
    /\ Go(IF More THEN [reader EXCEPT !.pc = "ask", !.page = @ + 1]
                  ELSE [reader EXCEPT !.pc = "done"])
    /\ UNCHANGED shown

-----------------------------------------------------------------------------
(* Everyone else.                                                          *)

Write(i, r) ==
    /\ reader.pc \notin {"closed", "done"}
    /\ came + left < MaxWrites
    /\ row' = [row EXCEPT ![i] = r]
    /\ UNCHANGED <<list, reader, shown>>

\* A row of any free id and any time: ids are given before the commit, and a
\* device uploads what it recorded long ago.
Create(i, t) ==
    /\ row[i].state = "none"
    /\ Write(i, [state |-> "in", time |-> t])
    /\ came' = came + 1
    /\ UNCHANGED <<stayed, left>>

\* An update brings the row into the filter.
Match(i) ==
    /\ row[i].state = "out"
    /\ Write(i, [row[i] EXCEPT !.state = "in"])
    /\ came' = came + 1
    /\ UNCHANGED <<stayed, left>>

\* A soft delete, or an update that takes the row out of the filter.
Leave(i) ==
    /\ row[i].state = "in"
    /\ Write(i, [row[i] EXCEPT !.state = "out"])
    /\ left' = left + 1
    /\ stayed' = stayed \ {i}
    /\ UNCHANGED came

-----------------------------------------------------------------------------
Request ==
    \/ ListUsers \/ ListProblems \/ ListInspections \/ ListProjects \/ ListTasks
    \/ buildInspectionRecords \/ buildProblemList

Next ==
    \/ Open \/ Request \/ NextPage
    \/ \E i \in Ids : (\E t \in Times : Create(i, t)) \/ Match(i) \/ Leave(i)

Spec == Init /\ [][Next]_vars

-----------------------------------------------------------------------------

(* Reading to the last page misses no more of the rows that were there all    *)
(* along than rows have left meanwhile, each of which moves one row to a page *)
(* already read.  Projects ask for the number of rows first: a row that comes *)
(* between the two statements may push one off the last page as well.         *)
MissedAtMostLeft ==
    reader.pc = "done" /\ list # "tasks" =>
        Cardinality({i \in stayed : shown[i] = 0})
            <= left + (IF list = "projects" THEN came ELSE 0)

\* Every time a row has been on a page but for the first.
Repeats == UNION {{i} \X (2..shown[i]) : i \in Ids}

(* No row is on two pages (twice in an exported sheet) but for one that has   *)
(* come meanwhile, which moves one row to the next page.                      *)
RepeatedAtMostCame == Cardinality(Repeats) <= came
=============================================================================
