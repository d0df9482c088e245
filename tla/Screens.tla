------------------------------ MODULE Screens ------------------------------
(***************************************************************************)
(* The screens that administer the portfolio: what the dialogs and buttons *)
(* of TeamPage, ClientsPage, ProjectDetailPage, TaskDialog and             *)
(* ProjectDialog offer and send, against what the services accept, and     *)
(* what each page shows after a save that was accepted.  db is the whole   *)
(* database, as in Directory.                                              *)
(***************************************************************************)
EXTENDS Directory

-----------------------------------------------------------------------------
(* What the services accept *)

\* requireManagedProject
Manages(p, x, db) == GetProject(p, x, db) # {} /\ CanManageProject(p, x)

AcceptsMember(p, x, u, db) == Manages(p, x, db) /\ db.users[u].active
AcceptsRemoval(p, x, u, db) == Manages(p, x, db) /\ <<x, u>> \in db.members

AcceptsAssignee(body, db) ==
    "assignee" \in DOMAIN body /\ body.assignee # NoOne => Resolves(body.assignee, db)
AcceptsTask(p, body, db) == Manages(p, body.project, db) /\ AcceptsAssignee(body, db)
AcceptsTaskPatch(p, row, patch, db) ==
    MayApplyPatch(p, row.project, row.assignee, patch) /\ AcceptsAssignee(patch, db)

\* createProject: only an administrator names a manager.
AcceptsProject(p, body, db) ==
    LET manager == IF "manager" \in DOMAIN body THEN body.manager ELSE p.id
    IN  /\ IsAdmin(p) \/ (IsManager(p) /\ manager = p.id)
        /\ db.users[manager].active /\ db.users[manager].role # "DEVELOPER"
        /\ body.client \in DOMAIN db.clients

AcceptsClientDeletion(p, c, db) ==
    IsAdmin(p) /\ \A x \in DOMAIN db.projects : db.projects[x].client # c

AcceptsProjectPatch(p, x, patch, db) ==
    /\ Manages(p, x, db)
    /\ "client" \in DOMAIN patch => patch["client"] \in DOMAIN db.clients

\* updateClient: nobody archives a client with work in flight.
WorkInFlight == {"ACTIVE", "ON_HOLD"}
AcceptsArchiving(p, c, archived, db) ==
    /\ IsAdmin(p)
    /\ archived => \A x \in DOMAIN db.projects :
                      db.projects[x].client = c => db.projects[x].status \notin WorkInFlight

\* The patch takes an administrator's rank, or access, away.
EndsRank(patch) ==
    \/ "active" \in DOMAIN patch /\ ~patch["active"]
    \/ "role" \in DOMAIN patch /\ patch["role"] # "ADMIN"

\* updateUser: nobody does that to themselves, or to the last administrator.
AcceptsUser(p, u, patch, db) ==
    /\ IsAdmin(p)
    /\ u = p.id => ~EndsRank(patch)
    /\ (db.users[u].role = "ADMIN" /\ EndsRank(patch)) =>
           \E v \in DOMAIN db.users \ {u} : db.users[v] = [role |-> "ADMIN", active |-> TRUE]

-----------------------------------------------------------------------------
(* What the screens offer *)

\* MemberList: who is not on the team may be added, who is may be removed.
OffersTeam(p, x) == OffersManaging(p, [project |-> x])
Candidates(p, x, db) ==
    {u \in ListAssignableUsers(p, {}, db) \ ListProjectMembers(p, x, db) : OffersTeam(p, x)}
Removable(p, x, db) == {u \in ListProjectMembers(p, x, db) : OffersTeam(p, x)}

\* TaskDialog: the people of the project, or nobody; an assignee who is not among
\* them stands until another is picked.
AssigneeOptions(p, x, db) == ListAssignableUsers(p, {x}, db) \cup {NoOne}

\* The form as the dialog opens it, with one field changed.
TaskForms(p, row, db) ==
    LET form == [status |-> row.status, due |-> row.due, assignee |-> row.assignee]
    IN  {[form EXCEPT !.status = s] : s \in Status}
        \cup {[form EXCEPT !.due = d] : d \in {NoDue, Today}}
        \cup {[form EXCEPT !.assignee = u] : u \in AssigneeOptions(p, row.project, db)}

\* Mutant: the whole form is sent.
WholeForm(form, row) == form

\* "Only changed fields are sent."
ChangedFields(form, row) == Restrict(form, {f \in DOMAIN form : form[f] # row[f]})

\* TaskDialog without a task: an assignee is sent if one was picked.
TaskBody(x, assignee) ==
    Restrict([project |-> x, assignee |-> assignee],
             {"project"} \cup {f \in {"assignee"} : assignee # NoOne})

\* ProjectDialog: an administrator may pick a manager, the clients are those that
\* are not archived.
ManagerOptions(p, db) ==
    {u \in ListAssignableUsers(p, {}, db) : IsAdmin(p) /\ db.users[u].role = "PROJECT_MANAGER"}
ClientOptions(p, db) == DOMAIN ListClients(p, FALSE, db)
ProjectBodies(p, db) ==
    {[client |-> c] : c \in ClientOptions(p, db)}
    \cup {[client |-> c, manager |-> u] : c \in ClientOptions(p, db), u \in ManagerOptions(p, db)}

\* ProjectDialog for a project: another client, or none picked.
ProjectPatches(p, x, db) ==
    {ChangedFields([client |-> c], db.projects[x]) :
        c \in ClientOptions(p, db) \cup {db.projects[x].client}}

\* ClientsPage: the button that deletes, and the one that archives and restores,
\* which is there whatever the client's projects are.
OffersClientDeletion(p, client) == IsAdmin(p) /\ client.totalProjectCount = {0}
OffersArchiving(p, client) == IsAdmin(p)

\* UserDialog: every role, active or not, whoever the account belongs to.
UserPatches(u, db) ==
    {ChangedFields(form, db.users[u]) : form \in [role : Role, active : BOOLEAN]}

-----------------------------------------------------------------------------
(* What a page shows after a save *)

\* setData of replaceRow: a row that is on the page takes the values of the answer.
ReplaceRow(rows, id, row) == [x \in DOMAIN rows |-> IF x = id THEN row ELSE rows[x]]

\* Mutant: the answer always replaces the row.
TeamReplaced(p, u, includeInactive, roles, old, new) ==
    ReplaceRow(ListUsers(p, includeInactive, roles, old), u, AdminUserDto(u, new))

\* TeamPage: an account that has left the default filter is read again.
TeamAfterSave(p, u, includeInactive, roles, old, new) ==
    IF new.users[u].active \/ includeInactive
    THEN ReplaceRow(ListUsers(p, includeInactive, roles, old), u, AdminUserDto(u, new))
    ELSE ListUsers(p, includeInactive, roles, new)

\* ClientsPage: setArchived.
ClientsAfterArchiving(p, c, includeArchived, old, new) ==
    IF includeArchived
    THEN ReplaceRow(ListClients(p, includeArchived, old), c, ClientDto(p, c, new))
    ELSE ListClients(p, includeArchived, new)

-----------------------------------------------------------------------------
(* Properties of a database *)

\* Whatever a dialog or a button offers is accepted, but for two things: to archive
\* a client one of whose projects, all of them behind the link of the row, is in
\* flight; and to end one's own rank.  The guard of the last administrator never
\* refuses what the dialog sends.  A client is offered for deletion whenever it may
\* be deleted.
TeamIsAccepted(p, db) ==
    \A x \in ListProjects(p, << >>, db) :
        /\ \A u \in Candidates(p, x, db) : AcceptsMember(p, x, u, db)
        /\ \A u \in Removable(p, x, db) : AcceptsRemoval(p, x, u, db)

TasksAreAccepted(p, db) ==
    /\ \A row \in Range(ListTasks(p, << >>, db.tasks)) :
          OffersFields(p, row) => \A form \in TaskForms(p, row, db) :
              AcceptsTaskPatch(p, row, ChangedFields(form, row), db)
    /\ ~IsDeveloper(p) => \A x \in ListProjects(p, << >>, db) :
          \A u \in AssigneeOptions(p, x, db) : AcceptsTask(p, TaskBody(x, u), db)

PortfolioIsAccepted(p, db) ==
    /\ ~IsDeveloper(p) => \A body \in ProjectBodies(p, db) : AcceptsProject(p, body, db)
    /\ \A x \in ListProjects(p, << >>, db) : OffersTeam(p, x) =>
          \A patch \in ProjectPatches(p, x, db) : AcceptsProjectPatch(p, x, patch, db)

ClientsAreAccepted(p, db) ==
    LET clients == ListClients(p, TRUE, db)
    IN  \A c \in DOMAIN clients :
           /\ OffersClientDeletion(p, clients[c]) <=> AcceptsClientDeletion(p, c, db)
           /\ OffersArchiving(p, clients[c]) =>
                 (AcceptsArchiving(p, c, ~clients[c].archived, db) <=>
                     \/ clients[c].archived
                     \/ \A x \in ListProjects(p, [client |-> c], db) :
                           db.projects[x].status \notin WorkInFlight)

AccountsAreAccepted(p, db) ==
    \A u \in DOMAIN ListUsers(p, TRUE, Role, db) : \A patch \in UserPatches(u, db) :
        AcceptsUser(p, u, patch, db) <=> ~(u = p.id /\ EndsRank(patch))

DialogsAreAcceptedIn(db) ==
    \A p \in Callers(db) :
        /\ TeamIsAccepted(p, db) /\ TasksAreAccepted(p, db) /\ PortfolioIsAccepted(p, db)
        /\ ClientsAreAccepted(p, db) /\ AccountsAreAccepted(p, db)

\* After a save the page shows what reading it again would: but a row that a
\* change of role takes out of the filter stays.
TeamIsCurrent(p, db) ==
    \A inactive \in BOOLEAN, roles \in {Role} \cup {{r} : r \in Role} :
        \A u \in DOMAIN ListUsers(p, inactive, roles, db), account \in [role : roles, active : BOOLEAN] :
            AcceptsUser(p, u, ChangedFields(account, db.users[u]), db) =>
                LET new == [db EXCEPT !.users[u] = account]
                IN  TeamAfterSave(p, u, inactive, roles, db, new) = ListUsers(p, inactive, roles, new)

ClientsAreCurrent(p, db) ==
    \A all \in BOOLEAN : \A c \in DOMAIN ListClients(p, all, db) :
        AcceptsArchiving(p, c, ~db.clients[c], db) =>
            LET new == [db EXCEPT !.clients[c] = ~@]
            IN  ClientsAfterArchiving(p, c, all, db, new) = ListClients(p, all, new)

SavesAreShownIn(db) ==
    \A p \in Callers(db) : TeamIsCurrent(p, db) /\ ClientsAreCurrent(p, db)
=============================================================================
