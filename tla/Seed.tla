-------------------------------- MODULE Seed --------------------------------
(***************************************************************************)
(* The database a deployment starts from: server/prisma/seed.ts, which     *)
(* derives the task rows, the activity log, the notifications and the feed *)
(* cursors from one declaration of projects and tasks.  Everything here is *)
(* computed; the seeded board is then read as a state of Tasks.            *)
(*                                                                         *)
(* Times are minutes from the moment of seeding, so what was is negative.  *)
(* Names, texts and priorities are left out.                               *)
(***************************************************************************)
LOCAL INSTANCE Integers
LOCAL INSTANCE Sequences
LOCAL INSTANCE FiniteSets
LOCAL INSTANCE FiniteSetsExt
LOCAL INSTANCE SequencesExt
LOCAL INSTANCE TLC

CONSTANT Never  \* the deadline of a task without one

HoursAgo(h) == -60 * h
DaysAgo(d) == -1440 * d

\* Deadlines land at 18:00; clock: minutes of the day gone when the seed runs.
DueIn(days, clock) == 1440 * days + 18 * 60 - clock

ReadAfterDays == 14
UnseenWindowHours == 8

-----------------------------------------------------------------------------
(* The declaration *)

SeedRoles ==
    [priya |-> "ADMIN", arjun |-> "PROJECT_MANAGER", neha |-> "PROJECT_MANAGER",
     ravi |-> "DEVELOPER", sana |-> "DEVELOPER", daniel |-> "DEVELOPER", mei |-> "DEVELOPER"]
SeedUsers == DOMAIN SeedRoles

SeedClients == {"northwind", "lumen", "kestrel", "orchard"}
SeedArchived == {"orchard"}

Nobody == "nobody"

\* A task of this age, with the hours ago at which it made its moves.
Work(who, days, due, moves) ==
    [who |-> who, age |-> 24 * days, due |-> due, edits |-> << >>,
     moves |-> [i \in DOMAIN moves |->
                   [to |-> <<"IN_PROGRESS", "IN_REVIEW", "DONE">>[i], ago |-> moves[i]]]]
Edited(work, type, hours) == [work EXCEPT !.edits = <<[type |-> type, ago |-> hours]>>]

Storefront ==
    [client |-> "northwind", manager |-> "arjun", status |-> "ACTIVE", age |-> 34,
     members |-> <<"ravi", "sana">>,
     tasks |-> << Work("ravi", 26, -4, <<22 * 24, 3>>),
                  Edited(Work("sana", 24, 2, <<6>>), "TASK_PRIORITY_CHANGED", 7 * 24),
                  Work("ravi", 20, 5, << >>),
                  Work("sana", 30, 9, <<25 * 24, 10 * 24, 8 * 24>>),
                  Work("ravi", 12, 12, <<40>>),
                  Work(Nobody, 5, 14, << >>) >>]

LumenPortal ==
    [client |-> "lumen", manager |-> "arjun", status |-> "ACTIVE", age |-> 29,
     members |-> <<"sana", "daniel">>,
     tasks |-> << Work("daniel", 18, 3, <<14 * 24, 5>>),
                  Work("sana", 22, -1, <<16 * 24>>),
                  Work("daniel", 15, 6, << >>),
                  Work("sana", 28, 1, <<24 * 24, 20 * 24, 19 * 24>>),
                  Work("daniel", 9, Never, << >>),
                  Work("sana", 7, 8, <<30>>) >>]

FleetTracker ==
    [client |-> "kestrel", manager |-> "neha", status |-> "ACTIVE", age |-> 27,
     members |-> <<"daniel", "mei">>,
     tasks |-> << Work("daniel", 19, 4, <<15 * 24, 7>>),
                  Edited(Work("mei", 17, -6, <<11 * 24>>), "TASK_DUE_DATE_CHANGED", 12 * 24),
                  Work("mei", 13, 7, << >>),
                  Work("daniel", 25, 10, <<21 * 24, 15 * 24, 13 * 24>>),
                  Work("mei", 6, 2, <<20>>),
                  Work(Nobody, 4, Never, << >>) >>]

LoyaltyProgramme ==
    [client |-> "northwind", manager |-> "neha", status |-> "ON_HOLD", age |-> 18,
     members |-> <<"ravi", "mei">>,
     tasks |-> << Work("ravi", 16, 6, <<12 * 24, 9 * 24, 8 * 24>>),
                  Edited(Work("mei", 14, -2, <<9 * 24>>), "TASK_PRIORITY_CHANGED", 5 * 24),
                  Work("ravi", 10, 11, << >>),
                  Work("mei", 8, 4, <<4>>),
                  Work(Nobody, 3, 13, << >>),
                  Work("ravi", 11, 1, <<50, 2>>) >>]

SeedProjects == <<Storefront, LumenPortal, FleetTracker, LoyaltyProgramme>>
SeedManagers == [p \in DOMAIN SeedProjects |-> SeedProjects[p].manager]

-----------------------------------------------------------------------------
(* The rows *)

\* Task ids count through the projects.
Declared ==
    FlattenSeq([p \in DOMAIN SeedProjects |->
        [i \in DOMAIN SeedProjects[p].tasks |->
            [project |-> p, seed |-> SeedProjects[p].tasks[i]]]])
SeedTask == DOMAIN Declared
ProjectOf(t) == Declared[t].project
SeedOf(t) == Declared[t].seed

FinalStatus(seed) == IF seed.moves = << >> THEN "TODO" ELSE Last(seed.moves).to
DoneMoves(seed) == {i \in DOMAIN seed.moves : seed.moves[i].to = "DONE"}

\* No row is flagged, late or not: that is left to the sweep.
SeedRow(t, clock) ==
    LET seed == SeedOf(t)
    IN  [project |-> ProjectOf(t), status |-> FinalStatus(seed), assignee |-> seed.who,
         due |-> IF seed.due = Never THEN Never ELSE DueIn(seed.due, clock),
         overdue |-> FALSE, completed |-> DoneMoves(seed) # {}]

SeedRows(clock) == [t \in SeedTask |-> SeedRow(t, clock)]

-----------------------------------------------------------------------------
(* The history *)

NoTask == 0

ProjectEvent(p, at, type) ==
    [at |-> at, type |-> type, project |-> p, task |-> NoTask, actor |-> SeedProjects[p].manager,
     from |-> "NONE", to |-> "NONE", assignee |-> Nobody]

ProjectEvents(p) ==
    LET made == DaysAgo(SeedProjects[p].age)
    IN  <<ProjectEvent(p, made, "PROJECT_CREATED")>>
        \o [i \in DOMAIN SeedProjects[p].members |->
               ProjectEvent(p, made + 45 + 5 * (i - 1), "PROJECT_MEMBER_ADDED")]

\* Mutant: whoever holds the task signs it off.
HolderMoves(t, to) == IF SeedOf(t).who = Nobody THEN SeedManagers[ProjectOf(t)] ELSE SeedOf(t).who

\* A developer moves the task as far as In Review; the manager signs it off.
MoveActor(t, to) ==
    IF to = "DONE" \/ SeedOf(t).who = Nobody THEN SeedManagers[ProjectOf(t)] ELSE SeedOf(t).who

TaskEvent(t, at, type, actor, from, to, assignee) ==
    [at |-> at, type |-> type, project |-> ProjectOf(t), task |-> t, actor |-> actor,
     from |-> from, to |-> to, assignee |-> assignee]

TaskEvents(t) ==
    LET seed == SeedOf(t)
        manager == SeedManagers[ProjectOf(t)]
        made == HoursAgo(seed.age)
        From(i) == IF i = 1 THEN "TODO" ELSE seed.moves[i - 1].to
    IN  <<TaskEvent(t, made, "TASK_CREATED", manager, "NONE", "TODO", Nobody)>>
        \o (IF seed.who = Nobody THEN << >>
            ELSE <<TaskEvent(t, made + 2, "TASK_ASSIGNED", manager, "NONE", "NONE", seed.who)>>)
        \o [i \in DOMAIN seed.edits |->
               TaskEvent(t, HoursAgo(seed.edits[i].ago), seed.edits[i].type, manager,
                         "NONE", "NONE", Nobody)]
        \o [i \in DOMAIN seed.moves |->
               TaskEvent(t, HoursAgo(seed.moves[i].ago), "TASK_STATUS_CHANGED",
                         MoveActor(t, seed.moves[i].to), From(i), seed.moves[i].to, Nobody)]

\* Mutant: written as declared.
AsDeclared(events) == events

\* Oldest first, as declared where two are of the same moment; seq is the place.
Ordered(events) ==
    LET Before(i, j) == \/ events[i].at < events[j].at
                        \/ events[i].at = events[j].at /\ i < j
        order == SortSeq([i \in DOMAIN events |-> i], Before)
    IN  [n \in DOMAIN order |-> events[order[n]]]

SeedLog ==
    Ordered(FlattenSeq([p \in DOMAIN SeedProjects |-> ProjectEvents(p)])
            \o FlattenSeq([t \in SeedTask |-> TaskEvents(t)]))

-----------------------------------------------------------------------------
(* Notifications and cursors *)

SeedNote(t, at, type, recipient, actor) ==
    [at |-> at, type |-> type, task |-> t, recipient |-> recipient, actor |-> actor,
     read |-> at < DaysAgo(ReadAfterDays)]

NotesOf(t) ==
    LET seed == SeedOf(t)
        manager == SeedManagers[ProjectOf(t)]
        MovedTo(s) == {HoursAgo(seed.moves[i].ago) :
                          i \in {j \in DOMAIN seed.moves : seed.moves[j].to = s}}
    IN  IF seed.who = Nobody THEN {}
        ELSE {SeedNote(t, HoursAgo(seed.age) + 2, "TASK_ASSIGNED", seed.who, manager)}
             \cup {SeedNote(t, at, "TASK_IN_REVIEW", manager, seed.who) :
                      at \in IF FinalStatus(seed) = "IN_REVIEW" THEN MovedTo("IN_REVIEW") ELSE {}}
             \cup {SeedNote(t, at, "TASK_COMPLETED", seed.who, manager) : at \in MovedTo("DONE")}

SeedNotes == UNION {NotesOf(t) : t \in SeedTask}

\* Mutant: the cursors stand at the end of the log.
NothingUnseen(history) == Len(history)

\* The newest event older than the window; everybody starts there.
SeedCursor(history) ==
    Max({0} \cup {n \in DOMAIN history : history[n].at < HoursAgo(UnseenWindowHours)})

\* activityScope
MayRead(u, e) ==
    CASE SeedRoles[u] = "ADMIN" -> TRUE
      [] SeedRoles[u] = "PROJECT_MANAGER" -> SeedManagers[e.project] = u
      [] OTHER -> e.task # NoTask /\ SeedOf(e.task).who = u

-----------------------------------------------------------------------------
(* What the seeded database has to be; the properties over it are MCTasks' *)

\* Tasks counts time from some past moment: here forty days before the seed runs,
\* which is before anything it declares.
Clock(at) == at + 40 * 1440

\* An edit of title, description or priority is one type of entry in Tasks.
EntryType(e) == IF e.type = "TASK_PRIORITY_CHANGED" THEN "TASK_UPDATED" ELSE e.type

Stamped(e) == [type |-> EntryType(e), task |-> e.task, project |-> e.project, actor |-> e.actor,
               to |-> e.to, assignee |-> e.assignee, linked |-> TRUE, stamp |-> Clock(e.at)]

Dated(row) == [row EXCEPT !.due = IF @ = Never THEN @ ELSE Clock(@)]

\* A database of these rows, events and notifications, as a state of the board.
Board(rows, events, notes) == INSTANCE Tasks WITH
    User <- SeedUsers, NoOne <- Nobody, Project <- DOMAIN SeedProjects, Manager <- SeedManagers,
    RoleOf <- SeedRoles, Active <- SeedUsers, Task <- SeedTask, NoDue <- Never,
    Slot <- {}, Sweeper <- {}, Draft <- {}, Patch <- {}, DueDates <- Nat,
    BatchSize <- 0, MaxTime <- 0, MaxRequests <- 0, MaxFaults <- 0,
    tasks <- [t \in DOMAIN rows |-> Dated(rows[t])], now <- Clock(0), stamp <- Clock(0),
    request <- << >>, sweep <- << >>,
    started <- 0, faults <- 0, log <- events, notifications <- notes

\* Seeding at these minutes of the day leaves these rows, one log and one tray.
Clocks == {0, 18 * 60 - 1, 18 * 60, 18 * 60 + 1, 1439}
Boards == {SeedRows(clock) : clock \in Clocks}
BoardEvents(history) == {Stamped(e) : e \in {f \in ToSet(history) : f.task # NoTask}}
BoardNotes == {[type |-> n.type, task |-> n.task, recipient |-> n.recipient, stamp |-> Clock(n.at)] :
                   n \in SeedNotes}

Rules == INSTANCE Access WITH
    User <- SeedUsers, NoOne <- Nobody, Project <- DOMAIN SeedProjects, Manager <- SeedManagers

\* An event says what the application's rules allow its actor to do, after what
\* the history says before it.
Permitted(e, Earlier) ==
    LET p == [id |-> e.actor, role |-> SeedRoles[e.actor]]
    IN  CASE e.type = "TASK_STATUS_CHANGED" ->
               /\ Rules!MayApplyPatch(p, e.project, SeedOf(e.task).who, [status |-> e.to])
               /\ e.from # e.to
               /\ \E f \in Earlier : f.task = e.task /\ f.to = e.from
          [] e.type = "PROJECT_CREATED" -> \A f \in Earlier : f.project # e.project
          [] OTHER ->
               /\ Rules!CanManageProject(p, e.project)
               /\ \E f \in Earlier : f.type = "PROJECT_CREATED" /\ f.project = e.project

\* The seeded tables are those of a database the API may boot over.
RowsMatchHistory(rows, events, notes) == Board(rows, events, notes)!Boot

HistoryIsPermitted(history) ==
    \A n \in DOMAIN history :
        history[n].at < 0 /\ Permitted(history[n], {history[m] : m \in 1 .. n - 1})

LogFollowsTime(history) == \A n \in 2 .. Len(history) : history[n - 1].at <= history[n].at

\* Whom the rules set apart: the client of two managers, the developers of both.
Teams(u) == {p \in DOMAIN SeedProjects : u \in ToSet(SeedProjects[p].members)}
PortfolioIsMixed ==
    /\ \A p \in DOMAIN SeedProjects : SeedProjects[p].client \in SeedClients \ SeedArchived
    /\ {SeedManagers[p] : p \in {q \in DOMAIN SeedProjects : SeedProjects[q].client = "northwind"}}
          = {"arjun", "neha"}
    /\ \A u \in SeedUsers : SeedRoles[u] = "DEVELOPER" => Cardinality(Teams(u)) = 2
    /\ \A u \in {"daniel", "ravi"} : {SeedManagers[p] : p \in Teams(u)} = {"arjun", "neha"}
    /\ \A t \in SeedTask : SeedOf(t).who # Nobody => ProjectOf(t) \in Teams(SeedOf(t).who)

SeededHistory ==
    /\ \A history \in {SeedLog}, notes \in {BoardNotes} :
          /\ HistoryIsPermitted(history) /\ LogFollowsTime(history)
          /\ \A rows \in Boards : RowsMatchHistory(rows, BoardEvents(history), notes)
    /\ PortfolioIsMixed

\* The seeded agency, and what one more change makes of it: a task handed over or
\* moved, an account with another role or ended, a member dropped, a client or a
\* project put away.
Seeded ==
    [users |-> [u \in SeedUsers |-> [role |-> SeedRoles[u], active |-> TRUE]],
     clients |-> [c \in SeedClients |-> c \in SeedArchived],
     projects |-> [p \in DOMAIN SeedProjects |->
                      [client |-> SeedProjects[p].client, status |-> SeedProjects[p].status]],
     members |-> {<<p, u>> \in (DOMAIN SeedProjects) \X SeedUsers :
                     u \in ToSet(SeedProjects[p].members)},
     tasks |-> SeedRows(0)]

Agencies ==
    {[Seeded EXCEPT !.tasks[t].assignee = u, !.tasks[t].overdue = TRUE] :
        t \in SeedTask, u \in SeedUsers \cup {Nobody}}
    \cup {[Seeded EXCEPT !.tasks[t].status = s] : t \in SeedTask, s \in {"TODO", "DONE"}}
    \cup {[Seeded EXCEPT !.users[u] = [role |-> r, active |-> a]] :
             u \in SeedUsers, r \in {"ADMIN", "PROJECT_MANAGER", "DEVELOPER"}, a \in BOOLEAN}
    \cup {[Seeded EXCEPT !.members = @ \ {m}] : m \in Seeded.members}
    \cup {[Seeded EXCEPT !.clients[c] = ~@] : c \in SeedClients}
    \cup {[Seeded EXCEPT !.projects[p].status = "COMPLETED"] : p \in DOMAIN SeedProjects}

Reads == INSTANCE Screens WITH
    User <- SeedUsers, NoOne <- Nobody, Project <- DOMAIN SeedProjects, Manager <- SeedManagers,
    NoDue <- Never, Today <- 0

SeededReads == \A db \in Agencies : Reads!IsDatabase(db) /\ Reads!ReadsAgreeIn(db)
SeededDialogs == \A db \in Agencies : Reads!DialogsAreAcceptedIn(db)

\* The agency with a second administrator, or an account that has ended.
Offices ==
    {[Seeded EXCEPT !.users[u] = account] :
        u \in {"neha", "mei"},
        account \in {[role |-> "ADMIN", active |-> TRUE], [role |-> "DEVELOPER", active |-> FALSE]}}
SeededSaves == \A db \in Offices : Reads!IsDatabase(db) /\ Reads!SavesAreShownIn(db)

Unseen(u, history) == {n \in SeedCursor(history) + 1 .. Len(history) : MayRead(u, history[n])}

CatchUpForAll ==
    \A history \in {SeedLog} : \A u \in SeedUsers :
        Unseen(u, history) # {} /\ Cardinality(Unseen(u, history)) <= 20

WorkForAll ==
    \A u \in {v \in SeedUsers : SeedRoles[v] = "DEVELOPER"} :
        \E t \in SeedTask : SeedOf(t).who = u /\ FinalStatus(SeedOf(t)) # "DONE"

WorkForSweep ==
    \A rows \in Boards :
        LET late == {t \in SeedTask : Board(rows, {}, {})!Late(t)}
        IN  Cardinality(late) = 4 /\ \A t \in late : ~rows[t].overdue

SeededNews == CatchUpForAll /\ WorkForAll /\ WorkForSweep
=============================================================================
