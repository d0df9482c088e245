------------------------------- MODULE Views -------------------------------
(***************************************************************************)
(* What a user is shown of the task table, and who is told of a change to  *)
(* it: the list query and the dashboards of the API (tasks.service.ts,     *)
(* dashboard.service.ts), the audience of a push (realtime/fanout.ts), and *)
(* the controls the client offers on a row (web lib/permissions.ts).       *)
(* A task table is a function from the ids of its rows to the rows.        *)
(*                                                                         *)
(* Titles, descriptions and priorities are left out, the order of rows and *)
(* the page limits too: the tables here fit on one page.                   *)
(***************************************************************************)
EXTENDS Access, Integers, FiniteSets, Functions

CONSTANTS NoDue,   \* the null due date
          Today    \* start of today, in days; due dates are days too

\* start of today through the end of the seventh day
ThisWeek(due) == due # NoDue /\ due \in Today .. Today + 7

IsOverdueNow(status, due) == due # NoDue /\ status # "DONE" /\ due < Today

-----------------------------------------------------------------------------
(* Lists *)

Sees(p, row) == TaskScope(p, row.project, row.assignee)

\* A query names the filters it sets; "overdue" is set to TRUE or FALSE.
Matches(query, row) ==
    /\ "project" \in DOMAIN query => row.project = query.project
    /\ "status" \in DOMAIN query => row.status \in query.status
    /\ "assignee" \in DOMAIN query => row.assignee = query.assignee
    /\ "unassigned" \in DOMAIN query => row.assignee = NoOne
    /\ "overdue" \in DOMAIN query => row.overdue = query.overdue
    /\ "dueFrom" \in DOMAIN query => row.due # NoDue /\ row.due >= query.dueFrom
    /\ "dueTo" \in DOMAIN query => row.due # NoDue /\ row.due <= query.dueTo

ListTasks(p, query, table) ==
    Restrict(table, {t \in DOMAIN table : Sees(p, table[t]) /\ Matches(query, table[t])})

\* The task, or nothing: 404.
GetTask(p, t, table) == Restrict(table, {t} \cap DOMAIN ListTasks(p, << >>, table))

-----------------------------------------------------------------------------
(* Dashboards: each role has a payload of its own.  completedThisWeek and   *)
(* the counts of projects, clients and users are left out.                 *)

Scoped(p, table) == {t \in DOMAIN table : Sees(p, table[t])}

ByStatus(table, ids) == [s \in Status |-> Cardinality({t \in ids : table[t].status = s})]

Late(table, ids) == {t \in ids : table[t].overdue}
Open(table, ids) == {t \in ids : table[t].status # "DONE"}
DueSoon(table, ids) == {t \in Open(table, ids) : ThisWeek(table[t].due)}

\* The totals.
Tiles(p, table) ==
    LET mine == Scoped(p, table)
    IN  [tasks |-> Cardinality(mine), overdue |-> Cardinality(Late(table, mine)),
         byStatus |-> ByStatus(table, mine)]

\* Mutant: the counts of the cards are read without the status.
CardsOfAnyStatus(p, table) ==
    IF IsManager(p)
    THEN LET In(x) == {t \in DOMAIN table : table[t].project = x}
         IN  [x \in {y \in Project : Manager[y] = p.id} |->
                 [open |-> Cardinality(In(x)), overdue |-> Cardinality(Late(table, In(x)))]]
    ELSE Restrict(table, IF IsAdmin(p) THEN Late(table, DOMAIN table) ELSE Scoped(p, table))

\* What the second half of the answer holds: the late tasks of an administrator,
\* the open and late counts of a manager's projects, a developer's open tasks.
Cards(p, table) ==
    IF IsManager(p)
    THEN LET In(x) == {t \in DOMAIN table : table[t].project = x}
         IN  [x \in {y \in Project : Manager[y] = p.id} |->
                 [open |-> Cardinality(Open(table, In(x))), overdue |-> Cardinality(Late(table, In(x)))]]
    ELSE Restrict(table, IF IsAdmin(p) THEN Late(table, DOMAIN table)
                         ELSE Open(table, Scoped(p, table)))

\* The tasks due this week: a manager's list, a developer's number.
DueThisWeek(p, table) ==
    IF IsManager(p) THEN Restrict(table, DueSoon(table, Scoped(p, table)))
    ELSE IF IsDeveloper(p) THEN Cardinality(DueSoon(table, Scoped(p, table)))
    ELSE 0

-----------------------------------------------------------------------------
(* Pushes *)

\* addressedRooms
Addressed(p, row, actor) == IsAdmin(p) \/ p.id \in {Manager[row.project], row.assignee, actor}

\* principalCanSeeTask
PrincipalCanSeeTask(p, row) ==
    \/ IsAdmin(p)
    \/ IsManager(p) /\ Manager[row.project] = p.id
    \/ IsDeveloper(p) /\ row.assignee = p.id

-----------------------------------------------------------------------------
(* What the client offers on a row *)

OffersManaging(p, row) == IsAdmin(p) \/ (IsManager(p) /\ Manager[row.project] = p.id)
OffersUpdate(p, row) == IF IsDeveloper(p) THEN row.assignee = p.id ELSE OffersManaging(p, row)
OffersFields(p, row) == ~IsDeveloper(p) /\ OffersUpdate(p, row)

\* Mutant: the select offers every status.
AnyTarget(p) == Status

AllowedStatusTargets(p) == IF IsDeveloper(p) THEN Status \ {"DONE"} ELSE Status

\* The status control of a row.
SelectOffers(p, row, patch) ==
    /\ DOMAIN patch = {"status"} /\ OffersUpdate(p, row)
    /\ patch["status"] \in AllowedStatusTargets(p)

\* The control or the dialog.
Offered(p, row, patch) == SelectOffers(p, row, patch) \/ OffersFields(p, row)
=============================================================================
