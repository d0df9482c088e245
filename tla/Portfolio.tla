------------------------------ MODULE Portfolio ------------------------------
(***************************************************************************)
(* Clients, projects and project members: clients.service.ts and           *)
(* projects.service.ts of server/src/modules, with the user administration *)
(* of Accounts going on at the same time.  A request authenticates once;   *)
(* from then on it acts as the principal it was, whatever happens to the   *)
(* account.  Its checks and its write are apart, and only the foreign keys *)
(* and unique indexes of the schema are checked again at the write.        *)
(*                                                                         *)
(* Manager[p] is the manager p is created with.  Deleting a project takes  *)
(* its members and its part of the activity log with it.                   *)
(***************************************************************************)
EXTENDS Accounts, Sequences

CONSTANTS Client,        \* client ids, never reused
          Desk,          \* concurrent portfolio requests
          SeedClients,   \* isArchived of the clients the seed creates
          SeedProjects,  \* the projects the seed creates, with their rows
          SeedHistory,   \* what the seed says of them, in the order of its dates
          NewProject,    \* the bodies of POST /projects
          ProjectPatch   \* the bodies of PATCH /projects/:id

ProjectStatus == {"ACTIVE", "ON_HOLD", "COMPLETED", "ARCHIVED"}
LiveStatuses == {"ACTIVE", "ON_HOLD"}
ProjectRow == [client : Client, status : ProjectStatus]

ASSUME IdAssumption == Client \cap Project = {}
ASSUME SeedClientsAssumption ==
    DOMAIN SeedClients \subseteq Client /\ \A c \in DOMAIN SeedClients : SeedClients[c] \in BOOLEAN
ASSUME SeedProjectsAssumption ==
    /\ DOMAIN SeedProjects \subseteq Project
    /\ \A p \in DOMAIN SeedProjects :
          /\ SeedProjects[p] \in ProjectRow
          /\ SeedProjects[p].client \in DOMAIN SeedClients
          /\ SeedProjects[p].status \in LiveStatuses => ~SeedClients[SeedProjects[p].client]
ASSUME SeedHistoryAssumption ==
    SeedHistory \in Seq([type : {"PROJECT_CREATED"}, project : DOMAIN SeedProjects, member : {NoOne}]
                        \cup [type : {"PROJECT_MEMBER_ADDED"}, project : DOMAIN SeedProjects,
                              member : User])
ASSUME ProjectBodyAssumption ==
    /\ NewProject \subseteq ProjectRow
    /\ \A patch \in ProjectPatch :
        /\ DOMAIN patch \subseteq {"client", "status"}
        /\ "client" \in DOMAIN patch => patch["client"] \in Client
        /\ "status" \in DOMAIN patch => patch["status"] \in ProjectStatus

VARIABLES
    clients,   \* the clients table: isArchived of the rows that exist
    projects,  \* the projects table
    members,   \* the project_members table: pairs <<project, user>>
    log,       \* the PROJECT_* rows of activity_events
    stamp,     \* the next activity_events.seq
    retired,   \* ids of deleted clients and projects
    work,      \* work[d]: what portfolio request d is doing
    late       \* history: projects made live under a client that was archived,
               \* or about to be archived by a request that had counted already

tables == <<clients, projects, members, log, stamp, retired>>
vars == <<accountVars, started, tables, work, late>>

LogEntry == [type : {"PROJECT_CREATED", "PROJECT_UPDATED",
                     "PROJECT_MEMBER_ADDED", "PROJECT_MEMBER_REMOVED"},
             project : Project, member : User \cup {NoOne}, seq : Nat]

Clients == DOMAIN clients
Projects == DOMAIN projects
ProjectsOf(c) == {p \in Projects : projects[p].client = c}

\* recordActivity, in the transaction of the write.
Record(type, p, member) ==
    /\ log' = log \cup {[type |-> type, project |-> p, member |-> member, seq |-> stamp]}
    /\ stamp' = stamp + 1

Done(d) == work' = [work EXCEPT ![d] = Idle]

\* The write finds a row, or a row it refers to, gone: the error handler answers
\* 404 or 409 and nothing is kept.
Refused(d) == Done(d) /\ UNCHANGED <<tables, late>>

Start(d, q) == /\ work[d] = Idle
               /\ Admit
               /\ work' = [work EXCEPT ![d] = q]
               /\ UNCHANGED <<accountVars, tables, late>>

-----------------------------------------------------------------------------
(* Clients *)

CreateClient ==
    /\ Admit
    /\ \E p \in Callers : IsAdmin(p)
    /\ \E c \in Client \ (Clients \cup retired) :
          clients' = [x \in Clients \cup {c} |-> IF x = c THEN FALSE ELSE clients[x]]
    /\ UNCHANGED <<accountVars, projects, members, log, stamp, retired, work, late>>

\* Mutant: work on hold does not count.
OnlyActive(c) == {p \in ProjectsOf(c) : projects[p].status = "ACTIVE"}

LiveProjects(c) == {p \in ProjectsOf(c) : projects[p].status \in LiveStatuses}

\* updateClient with isArchived: archiving goes through the count.
BeginArchive(d) ==
    \E p \in Callers, c \in Clients, archived \in BOOLEAN :
        /\ IsAdmin(p)
        /\ archived => LiveProjects(c) = {}
        /\ Start(d, [pc |-> "archive", client |-> c, archived |-> archived])

Archive(d) ==
    LET q == work[d]
    IN  /\ q.pc = "archive"
        /\ IF q.client \notin Clients THEN Refused(d)
           ELSE /\ clients' = [clients EXCEPT ![q.client] = q.archived]
                /\ Done(d)
                /\ UNCHANGED <<projects, members, log, stamp, retired, late>>
        /\ UNCHANGED <<accountVars, started>>

BeginDeleteClient(d) ==
    \E p \in Callers, c \in Clients :
        /\ IsAdmin(p)
        /\ ProjectsOf(c) = {}
        /\ Start(d, [pc |-> "dropClient", client |-> c])

\* Mutant: the relation restricts nothing.
FreeToGo(c) == c \in Clients

\* onDelete: Restrict has the last word.
Unreferenced(c) == c \in Clients /\ ProjectsOf(c) = {}

DeleteClient(d) ==
    LET q == work[d]
    IN  /\ q.pc = "dropClient"
        /\ IF ~Unreferenced(q.client) THEN Refused(d)
           ELSE /\ clients' = [x \in Clients \ {q.client} |-> clients[x]]
                /\ retired' = retired \cup {q.client}
                /\ Done(d)
                /\ UNCHANGED <<projects, members, log, stamp, late>>
        /\ UNCHANGED <<accountVars, started>>

-----------------------------------------------------------------------------
(* Projects *)

\* A request has counted the live projects of c and found none.
BeingArchived(c) == \E d \in Desk : /\ work[d].pc = "archive"
                                    /\ work[d].client = c /\ work[d].archived

\* History: what the rows now leave live under c, though c is or will be archived.
NoteLate(p) ==
    late' = IF /\ projects'[p].status \in LiveStatuses
               /\ clients[projects'[p].client] \/ BeingArchived(projects'[p].client)
            THEN late \cup {p} ELSE late \ {p}

\* The nominated manager is active and no developer.
MayManage(u) == u \in Known /\ users[u].active /\ users[u].role # "DEVELOPER"

\* A project manager always owns what he creates; an administrator may nominate.
BeginCreateProject(d) ==
    \E p \in Callers, owner \in User, row \in NewProject :
        /\ ~IsDeveloper(p)
        /\ owner = p.id \/ IsAdmin(p)
        /\ MayManage(owner)
        /\ row.client \in Clients
        /\ Start(d, [pc |-> "create", owner |-> owner, row |-> row])

CreateProject(d) ==
    LET q == work[d]
    IN  /\ q.pc = "create"
        /\ IF q.row.client \notin Clients THEN Refused(d)
           ELSE \E p \in Project \ (Projects \cup retired) :
                /\ Manager[p] = q.owner
                /\ projects' = [x \in Projects \cup {p} |-> IF x = p THEN q.row ELSE projects[x]]
                /\ Record("PROJECT_CREATED", p, NoOne)
                /\ NoteLate(p)
                /\ Done(d)
                /\ UNCHANGED <<clients, members, retired>>
        /\ UNCHANGED <<accountVars, started>>

BeginUpdateProject(d) ==
    \E a \in Callers, p \in Projects, patch \in ProjectPatch :
        /\ CanManageProject(a, p)
        /\ "client" \in DOMAIN patch => patch["client"] \in Clients
        /\ Start(d, [pc |-> "revise", project |-> p, patch |-> patch])

Revised(row, patch) ==
    [client |-> IF "client" \in DOMAIN patch THEN patch["client"] ELSE row.client,
     status |-> IF "status" \in DOMAIN patch THEN patch["status"] ELSE row.status]

UpdateProject(d) ==
    LET q == work[d]
    IN  /\ q.pc = "revise"
        /\ IF q.project \notin Projects \/ Revised(projects[q.project], q.patch).client \notin Clients
           THEN Refused(d)
           ELSE /\ projects' = [projects EXCEPT ![q.project] = Revised(@, q.patch)]
                /\ Record("PROJECT_UPDATED", q.project, NoOne)
                /\ NoteLate(q.project)
                /\ Done(d)
                /\ UNCHANGED <<clients, members, retired>>
        /\ UNCHANGED <<accountVars, started>>

\* Tasks, members and history go with the project.
DeleteProject ==
    /\ Admit
    /\ \E a \in Callers, p \in Projects :
        /\ IsAdmin(a)
        /\ projects' = [x \in Projects \ {p} |-> projects[x]]
        /\ members' = {m \in members : m[1] # p}
        /\ log' = {e \in log : e.project # p}
        /\ retired' = retired \cup {p}
        /\ late' = late \ {p}
    /\ UNCHANGED <<accountVars, clients, stamp, work>>

-----------------------------------------------------------------------------
(* Members *)

\* requireManagedProject, then the account.
BeginAddMember(d) ==
    \E a \in Callers, p \in Projects, u \in Known :
        /\ CanManageProject(a, p)
        /\ users[u].active
        /\ Start(d, [pc |-> "add", project |-> p, member |-> u])

\* An upsert with nothing to update is a look-up and an insert: the transaction
\* keeps no lock on a row it finds.
FindMember(d) ==
    LET q == work[d]
    IN  /\ q.pc = "add"
        /\ work' = [work EXCEPT ![d] =
               [pc |-> "adding", project |-> q.project, member |-> q.member,
                found |-> <<q.project, q.member>> \in members]]
        /\ UNCHANGED <<accountVars, started, tables, late>>

\* A second insert of the same pair breaks the primary key.
AddMember(d) ==
    LET q == work[d]
        pair == <<q.project, q.member>>
    IN  /\ q.pc = "adding"
        /\ IF q.project \notin Projects \/ (~q.found /\ pair \in members) THEN Refused(d)
           ELSE /\ members' = IF q.found THEN members ELSE members \cup {pair}
                /\ Record("PROJECT_MEMBER_ADDED", q.project, q.member)
                /\ Done(d)
                /\ UNCHANGED <<clients, projects, retired, late>>
        /\ UNCHANGED <<accountVars, started>>

BeginRemoveMember(d) ==
    \E a \in Callers, pair \in members :
        /\ CanManageProject(a, pair[1])
        /\ Start(d, [pc |-> "remove", project |-> pair[1], member |-> pair[2]])

\* Mutant: deleteMany, which does not mind a row that is gone.
StillMemberOrNot(pair) == pair[1] \in Projects

\* delete fails when the row is gone, and takes the entry with it.
StillMember(pair) == pair \in members

RemoveMember(d) ==
    LET q == work[d]
        pair == <<q.project, q.member>>
    IN  /\ q.pc = "remove"
        /\ IF ~StillMember(pair) THEN Refused(d)
           ELSE /\ members' = members \ {pair}
                /\ Record("PROJECT_MEMBER_REMOVED", q.project, q.member)
                /\ Done(d)
                /\ UNCHANGED <<clients, projects, retired, late>>
        /\ UNCHANGED <<accountVars, started>>

-----------------------------------------------------------------------------

\* seedActivity: one row after the other, in the order of the dates.
Inserted(i) == [type |-> SeedHistory[i].type, project |-> SeedHistory[i].project,
                member |-> SeedHistory[i].member, seq |-> i]

\* projectEvents: the log is derived from the projects and teams the seed creates.
SeedLog == {Inserted(i) : i \in DOMAIN SeedHistory}

SeedTeams == {<<e.project, e.member>> : e \in {x \in SeedLog : x.type = "PROJECT_MEMBER_ADDED"}}

Init ==
    /\ AccountInit
    /\ clients = SeedClients /\ projects = SeedProjects
    /\ members = SeedTeams
    /\ log = SeedLog /\ stamp = Len(SeedHistory) + 1
    /\ retired = {} /\ late = {}
    /\ work = [d \in Desk |-> Idle]

Administer(k) == /\ AccountStep(k) \/ FinishRevoke(k)
                 /\ UNCHANGED <<tables, work, late>>

DeskStep(d) ==
    \/ BeginArchive(d) \/ Archive(d)
    \/ BeginDeleteClient(d) \/ DeleteClient(d)
    \/ BeginCreateProject(d) \/ CreateProject(d)
    \/ BeginUpdateProject(d) \/ UpdateProject(d)
    \/ BeginAddMember(d) \/ FindMember(d) \/ AddMember(d)
    \/ BeginRemoveMember(d) \/ RemoveMember(d)

Next ==
    \/ \E k \in Clerk : Administer(k)
    \/ CreateClient \/ DeleteProject
    \/ \E d \in Desk : DeskStep(d)

Spec == Init /\ [][Next]_vars

-----------------------------------------------------------------------------
(* Properties *)

DeskState ==
    {Idle}
    \cup [pc : {"archive"}, client : Client, archived : BOOLEAN]
    \cup [pc : {"dropClient"}, client : Client]
    \cup [pc : {"create"}, owner : User, row : NewProject]
    \cup [pc : {"revise"}, project : Project, patch : ProjectPatch]
    \cup [pc : {"add", "remove"}, project : Project, member : User]
    \cup [pc : {"adding"}, project : Project, member : User, found : BOOLEAN]

TypeOK ==
    /\ AccountTypeOK
    /\ Clients \subseteq Client /\ \A c \in Clients : clients[c] \in BOOLEAN
    /\ Projects \subseteq Project
    /\ \A p \in Projects : projects[p] \in ProjectRow /\ projects[p].client \in Clients
    /\ members \subseteq Projects \X User
    /\ log \subseteq LogEntry /\ stamp \in Nat
    /\ retired \subseteq Client \cup Project
    /\ work \in [Desk -> DeskState]
    /\ late \subseteq Projects

Entries(type, pair) ==
    {e \in log : e.type = type /\ e.project = pair[1] /\ e.member = pair[2]}
Additions(pair) == Entries("PROJECT_MEMBER_ADDED", pair)
Removals(pair) == Entries("PROJECT_MEMBER_REMOVED", pair)

Audited(pair) ==
    /\ pair \in members =>
          \E a \in Additions(pair) : \A r \in Removals(pair) : r.seq < a.seq
    /\ \A r \in Removals(pair) :
          /\ \E a \in Additions(pair) : a.seq < r.seq
          /\ \A s \in Removals(pair) :
                r.seq < s.seq => \E a \in Additions(pair) : r.seq < a.seq /\ a.seq < s.seq
    /\ Additions(pair) # {} /\ pair \notin members => Removals(pair) # {}

\* The history of a project accounts for its team, however additions and
\* removals of the same person overlap: a member was added after every removal,
\* between two removals there is an addition, and who was added and is no
\* member was removed.
MembershipAudited == \A pair \in Projects \X User : Audited(pair)

\* A client is archived with no work in flight: a live project of an archived
\* client was put there, or woken up, when the client was archived already or
\* its archiving had been decided.
ArchivedClientIsQuiet ==
    \A p \in Projects :
        clients[projects[p].client] /\ projects[p].status \in LiveStatuses => p \in late
=============================================================================
