-------------------------- MODULE PortfolioProofs --------------------------
(***************************************************************************)
(* Theorems about Portfolio, for any number of accounts, clients, projects *)
(* and requests: types, the administrator who remains, the history that    *)
(* accounts for the teams, and the clients archived with no work in flight.*)
(***************************************************************************)
EXTENDS Portfolio, AccountsProofs

-----------------------------------------------------------------------------
(* Types *)

\* What a request can hold, by its control state.
LEMMA WorkHolds ==
    ASSUME TypeOK, NEW d \in Desk
    PROVE  /\ work[d] \in DeskState
           /\ work[d].pc = "archive" =>
                 work[d] \in [pc : {"archive"}, client : Client, archived : BOOLEAN]
           /\ work[d].pc = "dropClient" => work[d] \in [pc : {"dropClient"}, client : Client]
           /\ work[d].pc = "create" =>
                 work[d] \in [pc : {"create"}, owner : User, row : NewProject]
           /\ work[d].pc = "revise" =>
                 work[d] \in [pc : {"revise"}, project : Project, patch : ProjectPatch]
           /\ work[d].pc \in {"add", "remove"} =>
                 work[d] \in [pc : {"add", "remove"}, project : Project, member : User]
           /\ work[d].pc = "adding" =>
                 work[d] \in [pc : {"adding"}, project : Project, member : User, found : BOOLEAN]
<1>1. work[d] \in DeskState
  BY DEF TypeOK
<1> QED  BY <1>1 DEF DeskState, Idle

LEMMA WorkTyped ==
    ASSUME TypeOK, NEW d \in Desk, NEW q \in DeskState, work' = [work EXCEPT ![d] = q]
    PROVE  work' \in [Desk -> DeskState]
BY DEF TypeOK

LEMMA IdleIsDesk == Idle \in DeskState
BY DEF DeskState

LEMMA DoneTyped == ASSUME TypeOK, NEW d \in Desk, Done(d) PROVE work' \in [Desk -> DeskState]
BY WorkTyped, IdleIsDesk DEF Done

LEMMA AccountsStay ==
    ASSUME AccountTypeOK, UNCHANGED accountVars, started' = started \/ Admit
    PROVE  AccountTypeOK'
BY AccountTypeNext, AdmitTyped DEF AccountNext, AccountTypeOK

\* The tables do not change.
LEMMA TypeStays ==
    ASSUME TypeOK, AccountTypeOK', UNCHANGED <<tables, late>>, work' \in [Desk -> DeskState]
    PROVE  TypeOK'
BY DEF TypeOK, tables, Clients, Projects, ProjectRow

LEMMA StartTyped ==
    ASSUME TypeOK, NEW d \in Desk, NEW q \in DeskState, Start(d, q)
    PROVE  TypeOK'
BY AccountsStay, TypeStays, WorkTyped DEF Start, TypeOK

LEMMA RefusedTyped ==
    ASSUME TypeOK, NEW d \in Desk, Refused(d), UNCHANGED <<accountVars, started>>
    PROVE  TypeOK'
BY AccountsStay, TypeStays, DoneTyped DEF Refused, TypeOK

LEMMA RecordTyped ==
    ASSUME TypeOK, NEW type \in {"PROJECT_CREATED", "PROJECT_UPDATED",
                                 "PROJECT_MEMBER_ADDED", "PROJECT_MEMBER_REMOVED"},
           NEW p \in Project, NEW u \in User \cup {NoOne}, Record(type, p, u)
    PROVE  log' \subseteq LogEntry /\ stamp' \in Nat
BY DEF TypeOK, Record, LogEntry

LEMMA LateTyped ==
    ASSUME TypeOK, NEW p \in Projects', Projects \subseteq Projects', NoteLate(p)
    PROVE  late' \subseteq Projects'
BY DEF TypeOK, NoteLate

LEMMA RevisedTyped ==
    ASSUME NEW row \in ProjectRow, NEW patch \in ProjectPatch
    PROVE  Revised(row, patch) \in ProjectRow
BY ProjectBodyAssumption DEF Revised, ProjectRow

LEMMA SeedLogTyped ==
    /\ SeedLog \subseteq LogEntry
    /\ \A e \in SeedLog : e.seq \in 1 .. Len(SeedHistory) /\ e.project \in DOMAIN SeedProjects
    /\ \A e \in SeedLog : e.type \in {"PROJECT_CREATED", "PROJECT_MEMBER_ADDED"}
    /\ \A e \in SeedLog : e.type = "PROJECT_MEMBER_ADDED" => e.member \in User
    /\ Len(SeedHistory) \in Nat
<1>1. \A i \in DOMAIN SeedHistory :
         /\ i \in 1 .. Len(SeedHistory)
         /\ SeedHistory[i].project \in DOMAIN SeedProjects
         /\ SeedHistory[i].type \in {"PROJECT_CREATED", "PROJECT_MEMBER_ADDED"}
         /\ SeedHistory[i].member \in User \cup {NoOne}
         /\ SeedHistory[i].type = "PROJECT_MEMBER_ADDED" => SeedHistory[i].member \in User
  BY SeedHistoryAssumption
<1>2. Len(SeedHistory) \in Nat
  BY SeedHistoryAssumption
<1> QED  BY <1>1, <1>2, SeedProjectsAssumption DEF SeedLog, Inserted, LogEntry

LEMMA TypeInit == ASSUME Init PROVE TypeOK
<1>1. AccountTypeOK
  BY AccountTypeInit DEF Init
<1>2. /\ Clients \subseteq Client /\ \A c \in Clients : clients[c] \in BOOLEAN
      /\ Projects \subseteq Project
      /\ \A p \in Projects : projects[p] \in ProjectRow /\ projects[p].client \in Clients
  BY SeedClientsAssumption, SeedProjectsAssumption DEF Init, Clients, Projects
<1>3. log \subseteq LogEntry /\ stamp \in Nat /\ members \subseteq Projects \X User
  BY SeedLogTyped DEF Init, SeedTeams, Projects
<1>4. work \in [Desk -> DeskState]
  BY IdleIsDesk DEF Init
<1> QED  BY <1>1, <1>2, <1>3, <1>4 DEF TypeOK, Init

\* The requests that only read.
BeginStep(d) ==
    \/ BeginArchive(d) \/ BeginDeleteClient(d) \/ BeginCreateProject(d)
    \/ BeginUpdateProject(d) \/ BeginAddMember(d) \/ BeginRemoveMember(d)

\* None of them is an archiving but the one that found nothing live.
LEMMA BeginStarts ==
    ASSUME TypeOK, NEW d \in Desk, BeginStep(d)
    PROVE  \E q \in DeskState :
              /\ Start(d, q)
              /\ q.pc = "archive" /\ q.archived => LiveProjects(q.client) = {}
              /\ q.pc \in {"add", "remove", "revise"} => q.project \in Projects
              /\ q.pc # "adding"
<1>1. CASE BeginArchive(d)
  <2>1. PICK c \in Clients, archived \in BOOLEAN :
           /\ archived => LiveProjects(c) = {}
           /\ Start(d, [pc |-> "archive", client |-> c, archived |-> archived])
    BY <1>1 DEF BeginArchive
  <2>2. [pc |-> "archive", client |-> c, archived |-> archived] \in DeskState
    BY DEF DeskState, TypeOK
  <2> QED  BY <2>1, <2>2
<1>2. CASE BeginDeleteClient(d)
  <2>1. PICK c \in Clients : Start(d, [pc |-> "dropClient", client |-> c])
    BY <1>2 DEF BeginDeleteClient
  <2>2. [pc |-> "dropClient", client |-> c] \in DeskState
    BY DEF DeskState, TypeOK
  <2> QED  BY <2>1, <2>2
<1>3. CASE BeginCreateProject(d)
  <2>1. PICK owner \in User, row \in NewProject :
           Start(d, [pc |-> "create", owner |-> owner, row |-> row])
    BY <1>3 DEF BeginCreateProject
  <2>2. [pc |-> "create", owner |-> owner, row |-> row] \in DeskState
    BY DEF DeskState
  <2> QED  BY <2>1, <2>2
<1>4. CASE BeginUpdateProject(d)
  <2>1. PICK p \in Projects, patch \in ProjectPatch :
           Start(d, [pc |-> "revise", project |-> p, patch |-> patch])
    BY <1>4 DEF BeginUpdateProject
  <2>2. [pc |-> "revise", project |-> p, patch |-> patch] \in DeskState
    BY DEF DeskState, TypeOK
  <2> QED  BY <2>1, <2>2
<1>5. CASE BeginAddMember(d)
  <2>1. PICK p \in Projects, u \in Known : Start(d, [pc |-> "add", project |-> p, member |-> u])
    BY <1>5 DEF BeginAddMember
  <2>2. [pc |-> "add", project |-> p, member |-> u] \in DeskState
    BY DEF DeskState, TypeOK, AccountTypeOK
  <2> QED  BY <2>1, <2>2
<1>6. CASE BeginRemoveMember(d)
  <2>1. PICK pair \in members :
           Start(d, [pc |-> "remove", project |-> pair[1], member |-> pair[2]])
    BY <1>6 DEF BeginRemoveMember
  <2>2. pair \in Projects \X User
    BY DEF TypeOK
  <2>3. pair[1] \in Projects /\ pair[2] \in User
    BY <2>2
  <2>4. [pc |-> "remove", project |-> pair[1], member |-> pair[2]] \in DeskState
    BY <2>3 DEF DeskState, TypeOK
  <2> QED  BY <2>1, <2>3, <2>4
<1> QED  BY <1>1, <1>2, <1>3, <1>4, <1>5, <1>6 DEF BeginStep

LEMMA TypeNext == ASSUME TypeOK, [Next]_vars PROVE TypeOK'
<1>1. ASSUME NEW k \in Clerk, Administer(k)  PROVE TypeOK'
  <2>1. AccountTypeOK'
    BY <1>1, AccountTypeNext DEF Administer, AccountNext, TypeOK
  <2> QED  BY <1>1, <2>1, TypeStays DEF Administer, TypeOK
<1>2. CASE CreateClient
  <2>1. AccountTypeOK'
    BY <1>2, AccountsStay DEF CreateClient, TypeOK
  <2> QED  BY <1>2, <2>1 DEF CreateClient, TypeOK, Clients, Projects, ProjectRow
<1>3. CASE DeleteProject
  <2>1. AccountTypeOK'
    BY <1>3, AccountsStay DEF DeleteProject, TypeOK
  <2> QED  BY <1>3, <2>1 DEF DeleteProject, TypeOK, Clients, Projects, ProjectRow
<1>4. ASSUME NEW d \in Desk, BeginStep(d)  PROVE TypeOK'
  BY <1>4, BeginStarts, StartTyped
<1>5. ASSUME NEW d \in Desk, Archive(d)  PROVE TypeOK'
  <2>1. CASE Refused(d)
    BY <1>5, <2>1, RefusedTyped DEF Archive
  <2>2. CASE ~Refused(d)
    <3>1. work[d].archived \in BOOLEAN
      BY <1>5, WorkHolds DEF Archive
    <3>2. AccountTypeOK' /\ work' \in [Desk -> DeskState]
      BY <1>5, <2>2, AccountsStay, DoneTyped DEF Archive, TypeOK
    <3> QED  BY <1>5, <2>2, <3>1, <3>2 DEF Archive, TypeOK, Clients, Projects, ProjectRow
  <2> QED  BY <2>1, <2>2
<1>6. ASSUME NEW d \in Desk, DeleteClient(d)  PROVE TypeOK'
  <2>1. CASE Refused(d)
    BY <1>6, <2>1, RefusedTyped DEF DeleteClient
  <2>2. CASE ~Refused(d)
    <3>1. AccountTypeOK' /\ work' \in [Desk -> DeskState]
      BY <1>6, <2>2, AccountsStay, DoneTyped DEF DeleteClient, TypeOK
    <3> QED  BY <1>6, <2>2, <3>1
             DEF DeleteClient, Unreferenced, ProjectsOf, TypeOK, Clients, Projects, ProjectRow
  <2> QED  BY <2>1, <2>2
<1>7. ASSUME NEW d \in Desk, CreateProject(d)  PROVE TypeOK'
  <2>1. CASE Refused(d)
    BY <1>7, <2>1, RefusedTyped DEF CreateProject
  <2>2. CASE ~Refused(d)
    <3>1. work[d].row \in ProjectRow /\ work[d].row.client \in Clients
      BY <1>7, <2>2, WorkHolds, ProjectBodyAssumption DEF CreateProject
    <3>2. PICK p \in Project \ Projects :
             /\ projects' = [x \in Projects \cup {p} |->
                               IF x = p THEN work[d].row ELSE projects[x]]
             /\ Record("PROJECT_CREATED", p, NoOne)
             /\ NoteLate(p)
      BY <1>7, <2>2 DEF CreateProject
    <3>3. AccountTypeOK' /\ work' \in [Desk -> DeskState] /\ UNCHANGED <<clients, members, retired>>
      BY <1>7, <2>2, AccountsStay, DoneTyped DEF CreateProject, TypeOK
    <3>4. /\ Projects' = Projects \cup {p} /\ Clients' = Clients
          /\ \A x \in Projects' : projects'[x] \in ProjectRow /\ projects'[x].client \in Clients
      BY <3>1, <3>2, <3>3 DEF Projects, Clients, TypeOK
    <3>5. log' \subseteq LogEntry /\ stamp' \in Nat /\ late' \subseteq Projects'
      BY <3>2, <3>4, RecordTyped, LateTyped
    <3> QED  BY <3>2, <3>3, <3>4, <3>5 DEF TypeOK
  <2> QED  BY <2>1, <2>2
<1>8. ASSUME NEW d \in Desk, UpdateProject(d)  PROVE TypeOK'
  <2>1. CASE Refused(d)
    BY <1>8, <2>1, RefusedTyped DEF UpdateProject
  <2>2. CASE ~Refused(d)
    <3> DEFINE p == work[d].project
               row == Revised(projects[p], work[d].patch)
    <3>1. /\ p \in Projects /\ row \in ProjectRow /\ row.client \in Clients
          /\ projects' = [projects EXCEPT ![p] = row]
          /\ Record("PROJECT_UPDATED", p, NoOne) /\ NoteLate(p)
      BY <1>8, <2>2, WorkHolds, RevisedTyped DEF UpdateProject, TypeOK
    <3>2. AccountTypeOK' /\ work' \in [Desk -> DeskState] /\ UNCHANGED <<clients, members, retired>>
      BY <1>8, <2>2, AccountsStay, DoneTyped DEF UpdateProject, TypeOK
    <3>3. /\ Projects' = Projects /\ Clients' = Clients
          /\ \A x \in Projects' : projects'[x] \in ProjectRow /\ projects'[x].client \in Clients
      <4> HIDE DEF row
      <4> QED  BY <3>1, <3>2 DEF Projects, Clients, TypeOK
    <3>4. log' \subseteq LogEntry /\ stamp' \in Nat /\ late' \subseteq Projects'
      <4>1. p \in Project
        BY <3>1 DEF TypeOK
      <4> QED  BY <3>1, <3>3, <4>1, RecordTyped, LateTyped
    <3> QED  BY <3>2, <3>3, <3>4 DEF TypeOK
  <2> QED  BY <2>1, <2>2
<1>9. ASSUME NEW d \in Desk, FindMember(d)  PROVE TypeOK'
  <2>1. [pc |-> "adding", project |-> work[d].project, member |-> work[d].member,
         found |-> <<work[d].project, work[d].member>> \in members] \in DeskState
    BY <1>9, WorkHolds DEF FindMember, DeskState
  <2> QED  BY <1>9, <2>1, WorkTyped, AccountsStay, TypeStays DEF FindMember, TypeOK
<1>10. ASSUME NEW d \in Desk, AddMember(d) \/ RemoveMember(d)  PROVE TypeOK'
  <2>1. CASE Refused(d)
    BY <1>10, <2>1, RefusedTyped DEF AddMember, RemoveMember
  <2>2. CASE ~Refused(d)
    <3>1. /\ AccountTypeOK' /\ work' \in [Desk -> DeskState]
          /\ UNCHANGED <<clients, projects, retired, late>>
      BY <1>10, <2>2, AccountsStay, DoneTyped DEF AddMember, RemoveMember, TypeOK
    <3>2. work[d].project \in Projects /\ work[d].member \in User
      BY <1>10, <2>2, WorkHolds DEF AddMember, RemoveMember, StillMember, TypeOK
    <3>3. log' \subseteq LogEntry /\ stamp' \in Nat
      BY <1>10, <2>2, <3>2, RecordTyped DEF AddMember, RemoveMember, TypeOK
    <3>4. members' \subseteq Projects \X User
      BY <1>10, <2>2, <3>2 DEF AddMember, RemoveMember, TypeOK
    <3> QED  BY <3>1, <3>3, <3>4 DEF TypeOK, Clients, Projects
  <2> QED  BY <2>1, <2>2
<1>11. CASE UNCHANGED vars
  <2>1. AccountTypeOK'
    BY <1>11, AccountsStay DEF vars, TypeOK
  <2> QED  BY <1>11, <2>1, TypeStays DEF vars, TypeOK
<1> QED  BY <1>1, <1>2, <1>3, <1>4, <1>5, <1>6, <1>7, <1>8, <1>9, <1>10, <1>11
         DEF Next, DeskStep, BeginStep

\* The tables hold rows that refer to each other, requests hold what was sent,
\* and what they still have to do is well-formed.
THEOREM Typed == Spec => []TypeOK
<1> QED  BY TypeInit, TypeNext, PTL DEF Spec

-----------------------------------------------------------------------------
(* The administrator who remains *)

LEMMA AdminStep == ASSUME TypeOK, AdminLeft, [Next]_vars PROVE AdminLeft'
<1>1. AccountNext
  <2>1. ASSUME NEW k \in Clerk, Administer(k)  PROVE AccountNext
    BY <2>1 DEF Administer, AccountNext
  <2>2. ASSUME UNCHANGED accountVars, started' = started \/ Admit  PROVE AccountNext
    BY <2>2, AdmitTyped DEF AccountNext, TypeOK, AccountTypeOK
  <2>3. CASE CreateClient \/ DeleteProject \/ UNCHANGED vars
    BY <2>2, <2>3 DEF CreateClient, DeleteProject, vars
  <2>4. ASSUME NEW d \in Desk, BeginStep(d)  PROVE AccountNext
    BY <2>2, <2>4, BeginStarts DEF Start
  <2>5. ASSUME NEW d \in Desk, DeskStep(d), ~BeginStep(d)  PROVE AccountNext
    BY <2>2, <2>5 DEF DeskStep, BeginStep, Archive, DeleteClient, CreateProject, UpdateProject,
       FindMember, AddMember, RemoveMember
  <2> QED  BY <2>1, <2>3, <2>4, <2>5 DEF Next
<1> QED  BY <1>1, AdminNext DEF TypeOK

\* Somebody can always administer the system: an active administrator remains,
\* unless two requests that end an administrator's rank overlapped between check
\* and write.
THEOREM AlwaysAnAdmin == Spec => []AdminRemains
<1>1. Init => AdminLeft
  BY AdminInit DEF Init
<1>2. TypeOK /\ AdminLeft /\ [Next]_vars => AdminLeft'
  BY AdminStep
<1>3. AdminLeft => AdminRemains
  BY DEF AdminLeft, AdminRemains
<1> QED  BY <1>1, <1>2, <1>3, Typed, PTL DEF Spec

-----------------------------------------------------------------------------
(* Teams and their history *)

\* A request that found the member: the row is there, or its removal is in the
\* log, or the project is gone with both.
FoundHolds(d) ==
    LET pair == <<work[d].project, work[d].member>>
    IN  work[d].pc = "adding" /\ work[d].found /\ work[d].project \in Projects
            => pair \in members \/ Removals(pair) # {}

\* The row a request is going to write belongs to a project that existed.
Acquainted(d) ==
    work[d].pc \in {"add", "adding"} => work[d].project \in Projects \cup retired

TeamInv ==
    /\ \A e \in log : e.seq < stamp /\ e.project \in Projects
    /\ Projects \cap retired = {}
    /\ \A d \in Desk : Acquainted(d) /\ FoundHolds(d)
    /\ MembershipAudited

LEMMA TeamInit == ASSUME Init, TypeOK PROVE TeamInv
<1>1. /\ \A e \in log : e.seq < stamp /\ e.project \in Projects
      /\ Projects \cap retired = {}
      /\ \A d \in Desk : Acquainted(d) /\ FoundHolds(d)
  BY SeedLogTyped DEF Init, Projects, Acquainted, FoundHolds, Idle
<1>2. ASSUME NEW pair \in Projects \X User  PROVE Audited(pair)
  <2>1. Removals(pair) = {}
    BY SeedLogTyped DEF Init, Removals, Entries
  <2>2. pair \in members <=> Additions(pair) # {}
    <3>1. pair = <<pair[1], pair[2]>>
      OBVIOUS
    <3>2. \A e \in SeedLog : e.type = "PROJECT_MEMBER_ADDED" =>
             (<<e.project, e.member>> = pair <=> e.project = pair[1] /\ e.member = pair[2])
      BY <3>1
    <3> QED  BY <3>2 DEF Init, Additions, Entries, SeedTeams
  <2> QED  BY <2>1, <2>2 DEF Audited, Removals, Entries
<1> QED  BY <1>1, <1>2 DEF TeamInv, MembershipAudited

LEMMA AuditedStays ==
    ASSUME NEW pair, Audited(pair), pair \in members' <=> pair \in members,
           Additions(pair)' = Additions(pair), Removals(pair)' = Removals(pair)
    PROVE  Audited(pair)'
BY DEF Audited

\* The teams and their log do not change; what the requests now hold is known.
TeamsStay ==
    /\ UNCHANGED <<projects, members, log, stamp>>
    /\ retired \subseteq retired' /\ Projects \cap retired' = {}
    /\ \A d \in Desk : \/ work'[d] = work[d]
                       \/ Acquainted(d)' /\ FoundHolds(d)'

LEMMA TeamStays == ASSUME TeamInv, TeamsStay PROVE TeamInv'
<1>1. /\ Projects' = Projects
      /\ \A pair : Additions(pair)' = Additions(pair) /\ Removals(pair)' = Removals(pair)
  BY DEF TeamsStay, Projects, Additions, Removals, Entries
<1>2. \A d \in Desk : Acquainted(d)' /\ FoundHolds(d)'
  BY <1>1 DEF TeamsStay, TeamInv, Acquainted, FoundHolds
<1>3. \A pair \in Projects \X User : Audited(pair)'
  BY <1>1, AuditedStays DEF TeamsStay, TeamInv, MembershipAudited
<1> QED  BY <1>1, <1>2, <1>3 DEF TeamsStay, TeamInv, MembershipAudited

LEMMA StartKeepsTeams ==
    ASSUME TypeOK, TeamInv, NEW d \in Desk, NEW q \in DeskState, Start(d, q),
           q.pc \in {"add", "remove", "revise"} => q.project \in Projects, q.pc # "adding"
    PROVE  TeamInv'
<1>1. work' = [work EXCEPT ![d] = q] /\ UNCHANGED tables
  BY DEF Start
<1>2. Acquainted(d)' /\ FoundHolds(d)'
  BY <1>1 DEF Acquainted, FoundHolds, TypeOK, tables, Projects
<1>3. \A o \in Desk : o # d => work'[o] = work[o]
  BY <1>1 DEF TypeOK
<1> QED  BY <1>1, <1>2, <1>3, TeamStays DEF TeamsStay, TeamInv, tables

LEMMA DoneIsKnown ==
    ASSUME TypeOK, NEW d \in Desk, Done(d)
    PROVE  \A o \in Desk : \/ work'[o] = work[o] /\ o # d
                           \/ o = d /\ Acquainted(o)' /\ FoundHolds(o)'
BY DEF Done, TypeOK, Acquainted, FoundHolds, Idle

LEMMA RefusedKeepsTeams == ASSUME TypeOK, TeamInv, NEW d \in Desk, Refused(d) PROVE TeamInv'
BY DoneIsKnown, TeamStays DEF Refused, TeamsStay, TeamInv, tables

\* One entry more.
LEMMA Recorded ==
    ASSUME NEW type, NEW p, NEW u, Record(type, p, u), NEW pair
    PROVE  LET e == [type |-> type, project |-> p, member |-> u, seq |-> stamp]
           IN  /\ Additions(pair)' = Additions(pair) \cup
                     {x \in {e} : type = "PROJECT_MEMBER_ADDED" /\ p = pair[1] /\ u = pair[2]}
               /\ Removals(pair)' = Removals(pair) \cup
                     {x \in {e} : type = "PROJECT_MEMBER_REMOVED" /\ p = pair[1] /\ u = pair[2]}
BY DEF Record, Additions, Removals, Entries

LEMMA RecordedFor ==
    ASSUME NEW type \in {"PROJECT_MEMBER_ADDED", "PROJECT_MEMBER_REMOVED"}, NEW p, NEW u,
           Record(type, p, u)
    PROVE  LET e == [type |-> type, project |-> p, member |-> u, seq |-> stamp]
               mine == <<p, u>>
           IN  /\ Additions(mine)' = IF type = "PROJECT_MEMBER_ADDED"
                                     THEN Additions(mine) \cup {e} ELSE Additions(mine)
               /\ Removals(mine)' = IF type = "PROJECT_MEMBER_REMOVED"
                                    THEN Removals(mine) \cup {e} ELSE Removals(mine)
BY DEF Record, Additions, Removals, Entries

LEMMA RecordedBelow ==
    ASSUME TypeOK, TeamInv, NEW type, NEW p \in Projects', NEW u, Record(type, p, u),
           Projects \subseteq Projects'
    PROVE  \A e \in log' : e.seq < stamp' /\ e.project \in Projects'
BY DEF Record, TeamInv, TypeOK, LogEntry

\* A team that the step neither changes nor writes about.
LEMMA OtherPairs ==
    ASSUME TeamInv, NEW type, NEW p, NEW u, Record(type, p, u),
           NEW pair \in Projects \X User, pair \in members' <=> pair \in members,
           type \in {"PROJECT_MEMBER_ADDED", "PROJECT_MEMBER_REMOVED"} => pair # <<p, u>>
    PROVE  Audited(pair)'
<1>1. pair = <<pair[1], pair[2]>>
  OBVIOUS
<1>2. Additions(pair)' = Additions(pair) /\ Removals(pair)' = Removals(pair)
  BY <1>1, Recorded
<1> QED  BY <1>2, AuditedStays DEF TeamInv, MembershipAudited

\* The history of every team stays, and with it what the requests found.
LEMMA FoundStays ==
    ASSUME TypeOK, TeamInv, NEW d \in Desk, Done(d), NEW type, NEW p, NEW u, Record(type, p, u),
           Projects' \cap (Projects \cup retired) \subseteq Projects,
           Projects \subseteq Projects', retired' = retired,
           \A pair \in members \ members' : Removals(pair)' # {},
           \A x \in Projects' \ Projects : x \notin retired
    PROVE  \A o \in Desk : Acquainted(o)' /\ FoundHolds(o)'
<1>1. \A pair : Removals(pair) \subseteq Removals(pair)'
  BY Recorded
<1>2. ASSUME NEW o \in Desk, work'[o] = work[o]  PROVE Acquainted(o)' /\ FoundHolds(o)'
  <2>1. Acquainted(o) /\ FoundHolds(o)
    BY DEF TeamInv
  <2>2. Acquainted(o)'
    BY <1>2, <2>1 DEF Acquainted
  <2>3. work[o].pc = "adding" /\ work[o].project \in Projects' => work[o].project \in Projects
    BY <2>1 DEF Acquainted
  <2> QED  BY <1>1, <1>2, <2>1, <2>2, <2>3 DEF FoundHolds
<1> QED  BY <1>2, DoneIsKnown

LEMMA CreateKeepsTeams ==
    ASSUME TypeOK, TypeOK', TeamInv, NEW d \in Desk, CreateProject(d)
    PROVE  TeamInv'
<1>1. CASE Refused(d)
  BY <1>1, RefusedKeepsTeams
<1>2. CASE ~Refused(d)
  <2>1. PICK p \in Project \ (Projects \cup retired) :
           /\ projects' = [x \in Projects \cup {p} |->
                             IF x = p THEN work[d].row ELSE projects[x]]
           /\ Record("PROJECT_CREATED", p, NoOne)
           /\ Done(d) /\ UNCHANGED <<members, retired>>
    BY <1>2 DEF CreateProject
  <2>2. Projects' = Projects \cup {p}
    BY <2>1 DEF Projects
  <2>3. \A o \in Desk : Acquainted(o)' /\ FoundHolds(o)'
    BY <2>1, <2>2, FoundStays
  <2>4. \A e \in log' : e.seq < stamp' /\ e.project \in Projects'
    BY <2>1, <2>2, RecordedBelow
  <2>5. ASSUME NEW pair \in Projects' \X User  PROVE Audited(pair)'
    <3>1. CASE pair[1] \in Projects
      <4>1. pair \in Projects \X User
        BY <2>5, <3>1
      <4> QED  BY <2>1, <4>1, OtherPairs
    <3>2. CASE pair[1] = p
      <4>1. Additions(pair)' = {} /\ Removals(pair)' = {}
        BY <2>1, <3>2, Recorded DEF TeamInv, Additions, Removals, Entries
      <4>2. pair \notin members'
        BY <2>1, <3>2 DEF TypeOK
      <4> QED  BY <4>1, <4>2 DEF Audited
    <3> QED  BY <2>2, <2>5, <3>1, <3>2
  <2>6. Projects' \cap retired' = {}
    BY <2>1, <2>2 DEF TeamInv
  <2> QED  BY <2>3, <2>4, <2>5, <2>6 DEF TeamInv, MembershipAudited
<1> QED  BY <1>1, <1>2

LEMMA UpdateKeepsTeams ==
    ASSUME TypeOK, TeamInv, NEW d \in Desk, UpdateProject(d)
    PROVE  TeamInv'
<1>1. CASE Refused(d)
  BY <1>1, RefusedKeepsTeams
<1>2. CASE ~Refused(d)
  <2> DEFINE p == work[d].project
  <2>1. /\ p \in Projects /\ Projects' = Projects
        /\ Record("PROJECT_UPDATED", p, NoOne)
        /\ Done(d) /\ UNCHANGED <<members, retired>>
    BY <1>2 DEF UpdateProject, Projects
  <2>2. \A o \in Desk : Acquainted(o)' /\ FoundHolds(o)'
    BY <2>1, FoundStays
  <2>3. \A e \in log' : e.seq < stamp' /\ e.project \in Projects'
    BY <2>1, RecordedBelow
  <2>4. \A pair \in Projects' \X User : Audited(pair)'
    BY <2>1, OtherPairs
  <2> QED  BY <2>1, <2>2, <2>3, <2>4 DEF TeamInv, MembershipAudited
<1> QED  BY <1>1, <1>2

LEMMA DeleteKeepsTeams == ASSUME TypeOK, TypeOK', TeamInv, DeleteProject PROVE TeamInv'
<1>1. PICK p \in Projects :
         /\ projects' = [x \in Projects \ {p} |-> projects[x]]
         /\ members' = {m \in members : m[1] # p}
         /\ log' = {e \in log : e.project # p}
         /\ retired' = retired \cup {p}
         /\ UNCHANGED <<stamp, work>>
  BY DEF DeleteProject
<1>2. Projects' = Projects \ {p}
  BY <1>1 DEF Projects
<1>3. ASSUME NEW pair, pair[1] # p
      PROVE  /\ Additions(pair)' = Additions(pair) /\ Removals(pair)' = Removals(pair)
             /\ pair \in members' <=> pair \in members
  BY <1>1, <1>3 DEF Additions, Removals, Entries
<1>4. \A pair \in Projects' \X User : Audited(pair)'
  BY <1>2, <1>3, AuditedStays DEF TeamInv, MembershipAudited
<1>5. ASSUME NEW d \in Desk  PROVE Acquainted(d)' /\ FoundHolds(d)'
  <2>1. Acquainted(d) /\ FoundHolds(d)
    BY DEF TeamInv
  <2>2. Acquainted(d)'
    BY <1>1, <1>2, <2>1 DEF Acquainted
  <2>3. work[d].project \in Projects' => <<work[d].project, work[d].member>>[1] # p
    BY <1>2
  <2> QED  BY <1>1, <1>2, <1>3, <2>1, <2>2, <2>3 DEF FoundHolds
<1> QED  BY <1>1, <1>2, <1>4, <1>5 DEF TeamInv, MembershipAudited

LEMMA AddKeepsTeams == ASSUME TypeOK, TeamInv, NEW d \in Desk, AddMember(d) PROVE TeamInv'
<1>0. PICK p, u : p = work[d].project /\ u = work[d].member
  OBVIOUS
<1> DEFINE mine == <<p, u>>
<1>1. CASE Refused(d)
  BY <1>1, RefusedKeepsTeams
<1>2. CASE ~Refused(d)
  <2>1. /\ p \in Projects /\ u \in User /\ Projects' = Projects /\ work[d].pc = "adding"
        /\ members' = IF work[d].found THEN members ELSE members \cup {mine}
        /\ Record("PROJECT_MEMBER_ADDED", p, u)
        /\ Done(d) /\ retired' = retired
    BY <1>0, <1>2, WorkHolds DEF AddMember, Projects
  <2>2. \A o \in Desk : Acquainted(o)' /\ FoundHolds(o)'
    BY <2>1, FoundStays
  <2>3. \A e \in log' : e.seq < stamp' /\ e.project \in Projects'
    BY <2>1, RecordedBelow
  <2>4. \A pair \in Projects \X User : pair # mine => Audited(pair)'
    BY <2>1, OtherPairs
  <2>5. Audited(mine)'
    <3> DEFINE e == [type |-> "PROJECT_MEMBER_ADDED", project |-> p, member |-> u, seq |-> stamp]
    <3>1. Audited(mine) /\ FoundHolds(d)
      BY <2>1 DEF TeamInv, MembershipAudited
    <3>2. Additions(mine)' = Additions(mine) \cup {e} /\ Removals(mine)' = Removals(mine)
      BY <1>0, <2>1, RecordedFor
    <3>3. e.seq = stamp /\ \A r \in Removals(mine) : r.seq < stamp
      BY DEF Removals, Entries, TeamInv
    <3>4. mine \notin members' => Removals(mine) # {}
      BY <1>0, <2>1, <3>1 DEF FoundHolds
    <3>5. mine \in members' => \E a \in Additions(mine)' : \A r \in Removals(mine)' : r.seq < a.seq
      BY <3>2, <3>3
    <3>6. \A r \in Removals(mine)' :
             /\ \E a \in Additions(mine)' : a.seq < r.seq
             /\ \A s \in Removals(mine)' :
                   r.seq < s.seq => \E a \in Additions(mine)' : r.seq < a.seq /\ a.seq < s.seq
      BY <3>1, <3>2 DEF Audited
    <3> HIDE DEF e
    <3> QED  BY <3>2, <3>4, <3>5, <3>6 DEF Audited
  <2> QED  BY <2>1, <2>2, <2>3, <2>4, <2>5 DEF TeamInv, MembershipAudited
<1> QED  BY <1>1, <1>2

LEMMA RemoveKeepsTeams == ASSUME TypeOK, TeamInv, NEW d \in Desk, RemoveMember(d) PROVE TeamInv'
<1>0. PICK p, u : p = work[d].project /\ u = work[d].member
  OBVIOUS
<1> DEFINE mine == <<p, u>>
<1>1. CASE Refused(d)
  BY <1>1, RefusedKeepsTeams
<1>2. CASE ~Refused(d)
  <2>1. /\ mine \in members /\ Projects' = Projects
        /\ members' = members \ {mine}
        /\ Record("PROJECT_MEMBER_REMOVED", p, u)
        /\ Done(d) /\ retired' = retired
    BY <1>0, <1>2 DEF RemoveMember, StillMember, Projects
  <2>2. p \in Projects /\ u \in User
    BY <2>1 DEF TypeOK
  <2> DEFINE e == [type |-> "PROJECT_MEMBER_REMOVED", project |-> p, member |-> u, seq |-> stamp]
  <2>3. Removals(mine)' = Removals(mine) \cup {e} /\ Additions(mine)' = Additions(mine)
    BY <1>0, <2>1, RecordedFor
  <2>4. \A o \in Desk : Acquainted(o)' /\ FoundHolds(o)'
    <3>1. \A pair \in members \ members' : Removals(pair)' # {}
      BY <2>1, <2>3
    <3> QED  BY <2>1, <3>1, FoundStays
  <2>5. \A x \in log' : x.seq < stamp' /\ x.project \in Projects'
    BY <2>1, <2>2, RecordedBelow
  <2>6. \A pair \in Projects \X User : pair # mine => Audited(pair)'
    BY <2>1, OtherPairs
  <2>7. Audited(mine)'
    <3>1. Audited(mine)
      BY <2>2 DEF TeamInv, MembershipAudited
    <3>2. PICK a \in Additions(mine) : \A r \in Removals(mine) : r.seq < a.seq
      BY <2>1, <3>1 DEF Audited
    <3>3. /\ e.seq = stamp /\ a.seq < stamp
          /\ stamp \in Nat /\ a.seq \in Nat
          /\ \A r \in Removals(mine) : r.seq < stamp /\ r.seq \in Nat
      BY DEF Removals, Additions, Entries, TeamInv, TypeOK, LogEntry
    <3>4. mine \notin members' /\ Removals(mine)' # {}
      BY <2>1, <2>3
    <3>5. ASSUME NEW r \in Removals(mine)'
          PROVE  \E x \in Additions(mine)' : x.seq < r.seq
      BY <2>3, <3>1, <3>3 DEF Audited
    <3>6. ASSUME NEW r \in Removals(mine)', NEW s \in Removals(mine)', r.seq < s.seq
          PROVE  \E x \in Additions(mine)' : r.seq < x.seq /\ x.seq < s.seq
      <4>1. CASE r = e
        BY <2>3, <3>3, <3>6, <4>1
      <4>2. CASE r # e /\ s = e
        BY <2>3, <3>2, <3>3, <4>2
      <4>3. CASE r # e /\ s # e
        BY <2>3, <3>1, <3>6, <4>3 DEF Audited
      <4> QED  BY <4>1, <4>2, <4>3
    <3> QED  BY <3>4, <3>5, <3>6 DEF Audited
  <2> QED  BY <2>1, <2>4, <2>5, <2>6, <2>7 DEF TeamInv, MembershipAudited
<1> QED  BY <1>1, <1>2

LEMMA FindKeepsTeams ==
    ASSUME TypeOK, TeamInv, NEW d \in Desk, FindMember(d)
    PROVE  TeamInv'
<1>1. PICK p, u : p = work[d].project /\ u = work[d].member
  OBVIOUS
<1>2. /\ work[d].pc = "add" /\ UNCHANGED tables
      /\ work' = [work EXCEPT ![d] = [pc |-> "adding", project |-> p, member |-> u,
                                      found |-> <<p, u>> \in members]]
  BY <1>1 DEF FindMember
<1>3. work'[d] = [pc |-> "adding", project |-> p, member |-> u, found |-> <<p, u>> \in members]
  BY <1>2 DEF TypeOK
<1>4. Acquainted(d)' /\ FoundHolds(d)'
  <2>1. p \in Projects \cup retired
    BY <1>1, <1>2 DEF TeamInv, Acquainted
  <2>2. /\ work'[d].project = p /\ work'[d].member = u
        /\ work'[d].found => <<p, u>> \in members
    <3>1. CASE <<p, u>> \in members
      BY <1>3, <3>1
    <3>2. CASE <<p, u>> \notin members
      <4>1. work'[d] = [pc |-> "adding", project |-> p, member |-> u, found |-> FALSE]
        <5>1. (<<p, u>> \in members) = FALSE
          BY <3>2
        <5> QED  BY <1>3, <5>1, Zenon
      <4> QED  BY <4>1
    <3> QED  BY <3>1, <3>2
  <2>3. UNCHANGED <<projects, members, retired>> /\ Projects' = Projects
    BY <1>2 DEF tables, Projects
  <2>4. Acquainted(d)'
    BY <2>1, <2>2, <2>3 DEF Acquainted
  <2>5. FoundHolds(d)'
    BY <2>2, <2>3 DEF FoundHolds
  <2> QED  BY <2>4, <2>5
<1>5. \A o \in Desk : o # d => work'[o] = work[o]
  BY <1>2 DEF TypeOK
<1> QED  BY <1>2, <1>4, <1>5, TeamStays DEF TeamsStay, TeamInv, tables

LEMMA TeamNext == ASSUME TypeOK, TypeOK', TeamInv, [Next]_vars PROVE TeamInv'
<1>1. ASSUME UNCHANGED <<projects, members, log, stamp, retired, work>>  PROVE TeamInv'
  BY <1>1, TeamStays DEF TeamsStay, TeamInv
<1>2. ASSUME NEW k \in Clerk, Administer(k)  PROVE TeamInv'
  BY <1>1, <1>2 DEF Administer, tables
<1>3. CASE CreateClient \/ UNCHANGED vars
  BY <1>1, <1>3 DEF CreateClient, vars, tables
<1>4. CASE DeleteProject
  BY <1>4, DeleteKeepsTeams
<1>5. ASSUME NEW d \in Desk, BeginStep(d)  PROVE TeamInv'
  BY <1>5, BeginStarts, StartKeepsTeams
<1>6. ASSUME NEW d \in Desk, Archive(d) \/ DeleteClient(d)  PROVE TeamInv'
  <2>1. CASE Refused(d)
    BY <2>1, RefusedKeepsTeams
  <2>2. CASE ~Refused(d)
    <3>1. /\ Done(d) /\ UNCHANGED <<projects, members, log, stamp>>
          /\ work[d].client \in Client
          /\ retired' = retired \/ retired' = retired \cup {work[d].client}
      BY <1>6, <2>2, WorkHolds DEF Archive, DeleteClient
    <3>2. retired \subseteq retired' /\ Projects \cap retired' = {}
      BY <3>1, IdAssumption DEF TeamInv, TypeOK
    <3> QED  BY <3>1, <3>2, DoneIsKnown, TeamStays DEF TeamsStay
  <2> QED  BY <2>1, <2>2
<1> QED  BY <1>2, <1>3, <1>4, <1>5, <1>6, CreateKeepsTeams, UpdateKeepsTeams, FindKeepsTeams,
            AddKeepsTeams, RemoveKeepsTeams DEF Next, DeskStep, BeginStep

\* The history of a project accounts for its team, however additions and removals
\* of the same person overlap with each other and with the deletion of the
\* project.
THEOREM TeamsAreAudited == Spec => []MembershipAudited
<1>1. Init /\ TypeOK => TeamInv
  BY TeamInit
<1>2. TypeOK /\ TypeOK' /\ TeamInv /\ [Next]_vars => TeamInv'
  BY TeamNext
<1>3. TeamInv => MembershipAudited
  BY DEF TeamInv
<1> QED  BY <1>1, <1>2, <1>3, Typed, PTL DEF Spec

-----------------------------------------------------------------------------
(* Clients archived with no work in flight *)

\* A request that has decided to archive knows of no live project but those that
\* came after.
QuietInv ==
    /\ ArchivedClientIsQuiet
    /\ \A d \in Desk : work[d].pc = "archive" /\ work[d].archived =>
          LiveProjects(work[d].client) \subseteq late

LEMMA QuietInit == ASSUME Init PROVE QuietInv
<1>1. ArchivedClientIsQuiet
  BY SeedProjectsAssumption DEF Init, ArchivedClientIsQuiet, Projects
<1>2. \A d \in Desk : work[d].pc # "archive"
  BY DEF Init, Idle
<1> QED  BY <1>1, <1>2 DEF QuietInv

\* The projects and the flags do not change, and no archiving is decided upon
\* but one that found nothing live.
LEMMA QuietStays ==
    ASSUME TypeOK, QuietInv, UNCHANGED <<projects, late>>,
           \A p \in Projects : clients'[projects[p].client] = clients[projects[p].client],
           \A d \in Desk : \/ work'[d] = work[d] \/ work'[d].pc # "archive"
                           \/ work'[d].archived => LiveProjects(work'[d].client) = {}
    PROVE  QuietInv'
<1>1. Projects' = Projects /\ \A c : LiveProjects(c)' = LiveProjects(c)
  BY DEF Projects, LiveProjects, ProjectsOf
<1>2. ArchivedClientIsQuiet'
  BY <1>1 DEF ArchivedClientIsQuiet, QuietInv
<1> QED  BY <1>1, <1>2 DEF QuietInv

LEMMA DoneIsQuiet ==
    ASSUME TypeOK, NEW d \in Desk, Done(d)
    PROVE  \A o \in Desk : work'[o] = work[o] \/ work'[o].pc # "archive"
BY DEF Done, TypeOK, Idle

\* One project has a new row, and the history of that is noted.
LEMMA NotedIsQuiet ==
    ASSUME TypeOK, QuietInv, NEW d \in Desk, Done(d), clients' = clients, NEW p, NoteLate(p),
           Projects' = Projects \cup {p},
           \A x \in Projects : x # p => projects'[x] = projects[x]
    PROVE  QuietInv'
<1>1. ASSUME NEW x \in Projects', projects'[x].status \in LiveStatuses,
             \/ clients[projects'[x].client]
             \/ BeingArchived(projects'[x].client)
      PROVE  x \in late'
  <2>1. CASE x = p
    BY <1>1, <2>1 DEF NoteLate
  <2>2. CASE x # p
    <3>1. x \in late
      BY <1>1, <2>2 DEF QuietInv, ArchivedClientIsQuiet, BeingArchived, LiveProjects, ProjectsOf
    <3> QED  BY <2>2, <3>1 DEF NoteLate
  <2> QED  BY <2>1, <2>2
<1>2. ArchivedClientIsQuiet'
  BY <1>1 DEF ArchivedClientIsQuiet
<1>3. ASSUME NEW o \in Desk, work'[o].pc = "archive", work'[o].archived
      PROVE  (LiveProjects(work[o].client) \subseteq late)'
  <2>1. PICK c : c = work'[o].client
    OBVIOUS
  <2>2. BeingArchived(c)
    BY <1>3, <2>1, DoneIsQuiet DEF BeingArchived
  <2>3. LiveProjects(c)' \subseteq late'
    BY <1>1, <2>2 DEF LiveProjects, ProjectsOf
  <2> QED  BY <2>1, <2>3
<1> QED  BY <1>2, <1>3 DEF QuietInv

LEMMA QuietNext == ASSUME TypeOK, QuietInv, [Next]_vars PROVE QuietInv'
<1>1. ASSUME UNCHANGED <<clients, projects, late, work>>  PROVE QuietInv'
  BY <1>1, QuietStays
<1>2. ASSUME NEW k \in Clerk, Administer(k)  PROVE QuietInv'
  BY <1>1, <1>2 DEF Administer, tables
<1>3. CASE UNCHANGED vars
  BY <1>1, <1>3 DEF vars, tables
<1>4. CASE CreateClient
  <2>1. \A p \in Projects : clients'[projects[p].client] = clients[projects[p].client]
    BY <1>4 DEF CreateClient, TypeOK
  <2> QED  BY <1>4, <2>1, QuietStays DEF CreateClient
<1>5. CASE DeleteProject
  <2>1. PICK p \in Projects :
           /\ projects' = [x \in Projects \ {p} |-> projects[x]]
           /\ late' = late \ {p}
           /\ UNCHANGED <<clients, work>>
    BY <1>5 DEF DeleteProject
  <2>2. Projects' = Projects \ {p}
    BY <2>1 DEF Projects
  <2>3. ArchivedClientIsQuiet'
    BY <2>1, <2>2 DEF ArchivedClientIsQuiet, QuietInv
  <2>4. \A c : LiveProjects(c)' \subseteq LiveProjects(c) \ {p}
    BY <2>1, <2>2 DEF LiveProjects, ProjectsOf
  <2> QED  BY <2>1, <2>3, <2>4 DEF QuietInv
<1>6. ASSUME NEW d \in Desk, BeginStep(d)  PROVE QuietInv'
  <2>1. PICK q \in DeskState :
           Start(d, q) /\ (q.pc = "archive" /\ q.archived => LiveProjects(q.client) = {})
    BY <1>6, BeginStarts
  <2> QED  BY <2>1, QuietStays DEF Start, tables, TypeOK
<1>7. ASSUME NEW d \in Desk, Refused(d)  PROVE QuietInv'
  BY <1>7, DoneIsQuiet, QuietStays DEF Refused, tables
<1>8. ASSUME NEW d \in Desk, Archive(d), ~Refused(d)  PROVE QuietInv'
  <2>1. /\ clients' = [clients EXCEPT ![work[d].client] = work[d].archived]
        /\ work[d].pc = "archive" /\ Done(d) /\ UNCHANGED <<projects, late>>
    BY <1>8 DEF Archive
  <2>2. Projects' = Projects /\ \A c : LiveProjects(c)' = LiveProjects(c)
    BY <2>1 DEF Projects, LiveProjects, ProjectsOf
  <2>3. ASSUME NEW p \in Projects, clients'[projects[p].client],
               projects[p].status \in LiveStatuses
        PROVE  p \in late
    <3>1. projects[p].client \in Clients
      BY DEF TypeOK
    <3>2. CASE projects[p].client = work[d].client
      <4>1. work[d].archived
        BY <2>1, <2>3, <3>1, <3>2 DEF Clients
      <4> QED  BY <2>1, <2>3, <3>2, <4>1 DEF QuietInv, LiveProjects, ProjectsOf
    <3>3. CASE projects[p].client # work[d].client
      BY <2>1, <2>3, <3>1, <3>3 DEF QuietInv, ArchivedClientIsQuiet, Clients
    <3> QED  BY <3>2, <3>3
  <2>4. ArchivedClientIsQuiet'
    BY <2>1, <2>2, <2>3 DEF ArchivedClientIsQuiet
  <2> QED  BY <2>1, <2>2, <2>4, DoneIsQuiet DEF QuietInv
<1>9. ASSUME NEW d \in Desk, DeleteClient(d), ~Refused(d)  PROVE QuietInv'
  <2>1. /\ clients' = [x \in Clients \ {work[d].client} |-> clients[x]]
        /\ \A p \in Projects : projects[p].client # work[d].client
        /\ Done(d) /\ UNCHANGED <<projects, late>>
    BY <1>9 DEF DeleteClient, Unreferenced, ProjectsOf
  <2>2. \A p \in Projects : clients'[projects[p].client] = clients[projects[p].client]
    BY <2>1 DEF TypeOK
  <2> QED  BY <2>1, <2>2, DoneIsQuiet, QuietStays
<1>10. ASSUME NEW d \in Desk, CreateProject(d), ~Refused(d)  PROVE QuietInv'
  <2>1. PICK p \in Project \ Projects :
           /\ projects' = [x \in Projects \cup {p} |->
                             IF x = p THEN work[d].row ELSE projects[x]]
           /\ NoteLate(p) /\ Done(d) /\ clients' = clients
    BY <1>10 DEF CreateProject
  <2>2. Projects' = Projects \cup {p} /\ \A x \in Projects : x # p => projects'[x] = projects[x]
    BY <2>1 DEF Projects
  <2> QED  BY <2>1, <2>2, NotedIsQuiet
<1>11. ASSUME NEW d \in Desk, UpdateProject(d), ~Refused(d)  PROVE QuietInv'
  <2>1. PICK p : p = work[d].project
    OBVIOUS
  <2>2. /\ p \in Projects /\ NoteLate(p) /\ Done(d) /\ clients' = clients
        /\ projects' = [projects EXCEPT ![p] = Revised(@, work[d].patch)]
    BY <1>11, <2>1 DEF UpdateProject
  <2>3. Projects' = Projects \cup {p} /\ \A x \in Projects : x # p => projects'[x] = projects[x]
    BY <2>2 DEF Projects
  <2> QED  BY <2>2, <2>3, NotedIsQuiet
<1>12. ASSUME NEW d \in Desk, FindMember(d)  PROVE QuietInv'
  <2>1. \A o \in Desk : work'[o] = work[o] \/ work'[o].pc # "archive"
    BY <1>12 DEF FindMember, TypeOK
  <2> QED  BY <1>12, <2>1, QuietStays DEF FindMember, tables
<1>13. ASSUME NEW d \in Desk, AddMember(d) \/ RemoveMember(d), ~Refused(d)  PROVE QuietInv'
  BY <1>13, DoneIsQuiet, QuietStays DEF AddMember, RemoveMember
<1> QED  BY <1>2, <1>3, <1>4, <1>5, <1>6, <1>7, <1>8, <1>9, <1>10, <1>11, <1>12, <1>13
         DEF Next, DeskStep, BeginStep

\* A client is archived with no work in flight: a live project of an archived
\* client was put there, or woken up, when the client was archived already or its
\* archiving had been decided.
THEOREM ArchivedClientsAreQuiet == Spec => []ArchivedClientIsQuiet
<1>1. Init => QuietInv
  BY QuietInit
<1>2. TypeOK /\ QuietInv /\ [Next]_vars => QuietInv'
  BY QuietNext
<1>3. QuietInv => ArchivedClientIsQuiet
  BY DEF QuietInv
<1> QED  BY <1>1, <1>2, <1>3, Typed, PTL DEF Spec
=============================================================================
