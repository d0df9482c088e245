----------------------------- MODULE Directory -----------------------------
(***************************************************************************)
(* What the API tells about projects, clients and people: the reads of     *)
(* projects.service.ts, clients.service.ts and users.service.ts, and the   *)
(* totals of the dashboards.  db is the whole database:                    *)
(*   users     role and isActive of each account                           *)
(*   clients   isArchived of each client                                   *)
(*   projects  client and status of each project                           *)
(*   members   pairs <<project, user>>                                     *)
(*   tasks     the task table of Views                                     *)
(* A refused read answers nothing.  Searching by text, sorting and paging  *)
(* are left out.                                                           *)
(***************************************************************************)
EXTENDS Views

\* A database, as the keys, the enumerations and the foreign keys of the schema
\* make it.  A task stays assigned to an account that has ended.
IsDatabase(db) ==
    /\ db = [users |-> db.users, clients |-> db.clients, projects |-> db.projects,
             members |-> db.members, tasks |-> db.tasks]
    /\ db.users \in [DOMAIN db.users -> [role : Role, active : BOOLEAN]] /\ DOMAIN db.users \subseteq User
    /\ db.clients \in [DOMAIN db.clients -> BOOLEAN]
    /\ DOMAIN db.projects \subseteq Project
    /\ \A x \in DOMAIN db.projects :
          db.projects[x].client \in DOMAIN db.clients /\ Manager[x] \in DOMAIN db.users
    /\ db.members \subseteq (DOMAIN db.projects) \X (DOMAIN db.users)
    /\ \A t \in DOMAIN db.tasks :
          /\ db.tasks[t].project \in DOMAIN db.projects /\ db.tasks[t].status \in Status
          /\ db.tasks[t].assignee \in DOMAIN db.users \cup {NoOne}
    /\ IsFiniteSet(DOMAIN db.projects) /\ IsFiniteSet(DOMAIN db.tasks)

Caller(u, db) == [id |-> u, role |-> db.users[u].role]
Callers(db) == {Caller(u, db) : u \in {v \in DOMAIN db.users : db.users[v].active}}

-----------------------------------------------------------------------------
(* Projects *)

TasksOf(x, db) == {t \in DOMAIN db.tasks : db.tasks[t].project = x}

ProjectScope(p, x, db) ==
    \/ IsAdmin(p)
    \/ IsManager(p) /\ Manager[x] = p.id
    \/ IsDeveloper(p) /\ \/ \E t \in TasksOf(x, db) : db.tasks[t].assignee = p.id
                         \/ <<x, p.id>> \in db.members

\* Only an administrator can pivot by manager: the filter of another is ignored.
ListProjects(p, query, db) ==
    {x \in DOMAIN db.projects :
        /\ ProjectScope(p, x, db)
        /\ "status" \in DOMAIN query => db.projects[x].status = query.status
        /\ "client" \in DOMAIN query => db.projects[x].client = query.client
        /\ "manager" \in DOMAIN query /\ IsAdmin(p) => Manager[x] = query.manager}

GetProject(p, x, db) == {x} \cap ListProjects(p, << >>, db)

ListProjectMembers(p, x, db) ==
    {u \in DOMAIN db.users : GetProject(p, x, db) # {} /\ <<x, u>> \in db.members}

\* Mutant: the whole project is counted for everybody.
Everything(p, row) == TRUE

\* countScopeFor: a card counts the whole project, but a developer's own work.
CountScope(p, row) == IsDeveloper(p) => row.assignee = p.id

TaskCounts(p, x, db) ==
    LET counted == {t \in TasksOf(x, db) : CountScope(p, db.tasks[t])}
    IN  [total |-> Cardinality(counted), byStatus |-> ByStatus(db.tasks, counted),
         overdue |-> Cardinality(Late(db.tasks, counted))]

-----------------------------------------------------------------------------
(* Clients *)

CanReadClients(p) == IsAdmin(p) \/ IsManager(p)

ProjectCount(p, c, db) ==
    Cardinality({x \in DOMAIN db.projects : ProjectScope(p, x, db) /\ db.projects[x].client = c})

\* totalProjectCount: nothing for a manager.
ClientDto(p, c, db) ==
    [archived |-> db.clients[c],
     projectCount |-> ProjectCount(p, c, db),
     totalProjectCount |-> IF IsAdmin(p) THEN {ProjectCount(p, c, db)} ELSE {}]

ListClients(p, includeArchived, db) ==
    [c \in {x \in DOMAIN db.clients : CanReadClients(p) /\ (includeArchived \/ ~db.clients[x])} |->
        ClientDto(p, c, db)]

-----------------------------------------------------------------------------
(* People *)

AdminUserDto(u, db) ==
    [role |-> db.users[u].role, active |-> db.users[u].active,
     openTasks |-> Cardinality({t \in Open(db.tasks, DOMAIN db.tasks) : db.tasks[t].assignee = u}),
     managedProjects |-> Cardinality({x \in DOMAIN db.projects : Manager[x] = u})]

\* roles: the filter, all of them when it is not set.
ListUsers(p, includeInactive, roles, db) ==
    [u \in {v \in DOMAIN db.users :
               /\ IsAdmin(p) /\ db.users[v].role \in roles
               /\ includeInactive \/ db.users[v].active} |-> AdminUserDto(u, db)]

\* resolveAssignee
Resolves(u, db) == db.users[u].active /\ db.users[u].role # "ADMIN"

\* scope: the project asked about, or none.
ListAssignableUsers(p, scope, db) ==
    {u \in DOMAIN db.users :
        /\ ~IsDeveloper(p)
        /\ db.users[u].active /\ db.users[u].role # "ADMIN"
        /\ \A x \in scope : \/ <<x, u>> \in db.members
                            \/ \E t \in TasksOf(x, db) : db.tasks[t].assignee = u}

-----------------------------------------------------------------------------
(* Dashboards *)

ActiveProjects(ids, db) == {x \in ids : db.projects[x].status = "ACTIVE"}

AdminTotals(db) ==
    [projects |-> Cardinality(DOMAIN db.projects),
     activeProjects |-> Cardinality(ActiveProjects(DOMAIN db.projects, db)),
     clients |-> Cardinality({c \in DOMAIN db.clients : ~db.clients[c]}),
     users |-> Cardinality({u \in DOMAIN db.users : db.users[u].active})]

ManagerTotals(p, db) ==
    LET mine == {x \in DOMAIN db.projects : ProjectScope(p, x, db)}
    IN  [projects |-> Cardinality(mine), activeProjects |-> Cardinality(ActiveProjects(mine, db))]

-----------------------------------------------------------------------------
(* What two screens say of the same rows *)

\* A project's card, the task list behind it and the manager's dashboard agree.
CardsAgree(p, db) ==
    \A x \in ListProjects(p, << >>, db) :
        LET counts == TaskCounts(p, x, db)
            listed == ListTasks(p, [project |-> x], db.tasks)
        IN  /\ counts.total = Cardinality(DOMAIN listed)
            /\ counts.byStatus = ByStatus(listed, DOMAIN listed)
            /\ counts.overdue = Cardinality(Late(listed, DOMAIN listed))
            /\ IsManager(p) =>
                  LET card == Cards(p, db.tasks)[x]
                  IN  card.open = counts.total - counts.byStatus["DONE"]
                      /\ card.overdue = counts.overdue

\* Who can open a task can open its project.
TasksLeadToProjects(p, db) ==
    \A t \in DOMAIN ListTasks(p, << >>, db.tasks) : GetProject(p, db.tasks[t].project, db) # {}

\* The number beside a client is the number of projects its filter lists.
ClientsAgree(p, db) ==
    LET shown == ListClients(p, TRUE, db)
    IN  \A c \in DOMAIN shown :
           /\ shown[c].projectCount = Cardinality(ListProjects(p, [client |-> c], db))
           /\ shown[c].totalProjectCount \subseteq {shown[c].projectCount}

\* The picker offers what a write accepts; without a project, all of it; for a
\* project, at least the team that is listed.
PickerAgrees(p, db) ==
    /\ ~IsDeveloper(p) => ListAssignableUsers(p, {}, db) = {u \in DOMAIN db.users : Resolves(u, db)}
    /\ \A x \in DOMAIN db.projects : \A u \in ListAssignableUsers(p, {x}, db) : Resolves(u, db)
    /\ ~IsDeveloper(p) => \A x \in DOMAIN db.projects : \A u \in ListProjectMembers(p, x, db) :
          Resolves(u, db) => u \in ListAssignableUsers(p, {x}, db)

\* The numbers beside an account are what the lists, filtered by it, hold.
PeopleAgree(p, db) ==
    LET shown == ListUsers(p, TRUE, Role, db)
    IN  \A u \in DOMAIN shown :
           /\ shown[u].openTasks =
                 Cardinality(DOMAIN ListTasks(p, [assignee |-> u, status |-> OpenStatuses], db.tasks))
           /\ shown[u].managedProjects = Cardinality(ListProjects(p, [manager |-> u], db))

\* The totals of a dashboard are the sums of the lists.
TotalsAgree(p, db) ==
    LET active == Cardinality(ListProjects(p, [status |-> "ACTIVE"], db))
        listed == Cardinality(ListProjects(p, << >>, db))
    IN  /\ IsManager(p) => ManagerTotals(p, db) = [projects |-> listed, activeProjects |-> active]
        /\ IsAdmin(p) => AdminTotals(db) =
              [projects |-> listed, activeProjects |-> active,
               clients |-> Cardinality(DOMAIN ListClients(p, FALSE, db)),
               users |-> Cardinality(DOMAIN ListUsers(p, FALSE, Role, db))]

ReadsAgreeIn(db) ==
    \A p \in Callers(db) :
        /\ CardsAgree(p, db) /\ TasksLeadToProjects(p, db) /\ ClientsAgree(p, db)
        /\ PickerAgrees(p, db) /\ PeopleAgree(p, db) /\ TotalsAgree(p, db)
=============================================================================
