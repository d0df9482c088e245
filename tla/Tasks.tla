------------------------------- MODULE Tasks -------------------------------
(***************************************************************************)
(* The task board: server/src/modules/tasks/tasks.service.ts and           *)
(* server/src/jobs/overdue.job.ts over one PostgreSQL database (READ       *)
(* COMMITTED).  A request reads a row, decides from that snapshot, and     *)
(* writes later in a transaction of its own; several API instances, each   *)
(* with its cron sweep, do so at once.                                     *)
(*                                                                         *)
(* Every write appends to the activity log in the transaction of the write.*)
(* The entries of one transaction share a stamp, which orders them as      *)
(* ActivityEvent.seq does; nothing below depends on their order inside one *)
(* transaction.  Pushing the committed result over the sockets does not    *)
(* change the database and is not part of this module.                     *)
(***************************************************************************)
EXTENDS Access, Naturals, FiniteSets

CONSTANTS Task,         \* task ids, never reused
          RoleOf,       \* RoleOf[u]: users.role
          Active,       \* the users with users.isActive
          Slot,         \* concurrent requests the API instances can serve
          Sweeper,      \* sweeps that can run at once: one per instance and
                        \* one more at its boot, which noOverlap does not cover
          Draft,        \* the creation bodies clients send
          Patch,        \* the update bodies clients send
          DueDates,     \* the due dates clients send
          NoDue,        \* the null due date
          BatchSize,    \* BATCH_SIZE of overdue.job.ts
          MaxTime,      \* bound: the clock stops there
          MaxRequests,  \* bound: requests started in a behaviour
          MaxFaults     \* bound: sweeps that fail and requests that die in a behaviour

Due == DueDates \cup {NoDue}
Assignee == User \cup {NoOne}

ASSUME DirectoryAssumption == RoleOf \in [User -> Role] /\ Active \subseteq User
ASSUME DueAssumption == DueDates \subseteq Nat /\ NoDue \notin Nat
ASSUME DraftAssumption ==
    Draft \subseteq [project : Project, status : Status, due : Due, assignee : Assignee]
ASSUME PatchAssumption ==
    \A patch \in Patch :
        /\ DOMAIN patch \subseteq Fields
        /\ "status" \in DOMAIN patch => patch["status"] \in Status
        /\ "assignee" \in DOMAIN patch => patch["assignee"] \in Assignee
        /\ "due" \in DOMAIN patch => patch["due"] \in Due
ASSUME BoundAssumption == {BatchSize, MaxTime, MaxRequests, MaxFaults} \subseteq Nat

VARIABLES
    tasks,          \* the task table: a function on the ids of its rows
    log,            \* the activity_events table
    notifications,  \* the notifications table
    stamp,          \* the stamp the next transaction that logs will use
    now,            \* wall-clock time
    request,        \* request[r]: what slot r is doing
    sweep,          \* sweep[i]: where sweep i stands
    started,        \* requests started so far
    faults          \* sweeps failed and requests lost so far

vars == <<tasks, log, notifications, stamp, now, request, sweep, started, faults>>
database == <<tasks, log, notifications, stamp>>

-----------------------------------------------------------------------------
(* Rows *)

TaskRow == [project : Project, status : Status, due : Due, assignee : Assignee,
            overdue : BOOLEAN, completed : BOOLEAN]

EventType == {"TASK_CREATED", "TASK_STATUS_CHANGED", "TASK_ASSIGNED",
              "TASK_UNASSIGNED", "TASK_DUE_DATE_CHANGED", "TASK_UPDATED",
              "TASK_OVERDUE", "TASK_DELETED"}

\* linked: the taskId column still points at the task (it is set to null when
\* the row goes); task itself stands for the denormalised taskNumber.
LogRow == [type : EventType, task : Task, project : Project, actor : Assignee,
           to : Status \cup {"NONE"}, assignee : Assignee,
           linked : BOOLEAN, stamp : Nat]

NotificationRow == [type : {"TASK_ASSIGNED", "TASK_IN_REVIEW", "TASK_OVERDUE", "TASK_COMPLETED"},
                    task : Task, recipient : User, stamp : Nat]

\* What a log entry says, at the stamp of the transaction being made.
Entry(type, t, project, actor, to, assignee) ==
    [type |-> type, task |-> t, project |-> project, actor |-> actor, to |-> to,
     assignee |-> assignee, linked |-> TRUE, stamp |-> stamp]

\* Mutant: the actor is told too.
NotifyActorToo(type, t, actor, recipient) ==
    IF recipient = NoOne THEN {}
    ELSE {[type |-> type, task |-> t, recipient |-> recipient, stamp |-> stamp]}

\* createNotification: nobody is told about their own action.
Notify(type, t, actor, recipient) ==
    IF recipient \in {NoOne, actor} THEN {}
    ELSE {[type |-> type, task |-> t, recipient |-> recipient, stamp |-> stamp]}

Live == DOMAIN tasks

\* A task id is drawn fresh; a created task has an entry in the log for ever.
Unused(t) == \A e \in log : e.task # t

PrincipalOf(u) == [id |-> u, role |-> RoleOf[u]]

\* resolveAssignee: an active user who is not an administrator.
Assignable(u) == u \in Active /\ RoleOf[u] # "ADMIN"

IsOverdueNow(status, due, at) == due # NoDue /\ status # "DONE" /\ due < at

-----------------------------------------------------------------------------
(* Creating a task *)

NewRow(draft) ==
    [project |-> draft.project, status |-> draft.status, due |-> draft.due,
     assignee |-> draft.assignee, completed |-> FALSE,
     overdue |-> IsOverdueNow(draft.status, draft.due, now)]

CreationEntries(u, t, draft) ==
    {Entry("TASK_CREATED", t, draft.project, u, draft.status, NoOne)}
    \cup (IF draft.assignee = NoOne THEN {}
          ELSE {Entry("TASK_ASSIGNED", t, draft.project, u, "NONE", draft.assignee)})

CreateTask ==
    /\ started < MaxRequests
    /\ \E u \in Active, t \in Task, draft \in Draft :
        /\ Unused(t)
        /\ CanManageProject(PrincipalOf(u), draft.project)
        /\ draft.assignee # NoOne => Assignable(draft.assignee)
        /\ tasks' = [x \in Live \cup {t} |-> IF x = t THEN NewRow(draft) ELSE tasks[x]]
        /\ log' = log \cup CreationEntries(u, t, draft)
        /\ notifications' = notifications \cup Notify("TASK_ASSIGNED", t, u, draft.assignee)
    /\ stamp' = stamp + 1
    /\ started' = started + 1
    /\ UNCHANGED <<now, request, sweep, faults>>

-----------------------------------------------------------------------------
(* Updating a task: read and authorise, then write what the snapshot says *)

Idle == [pc |-> "idle"]

BeginUpdate(r) ==
    /\ request[r] = Idle
    /\ started < MaxRequests
    /\ \E u \in Active, t \in Live, patch \in Patch :
        LET p == PrincipalOf(u)
            row == tasks[t]
        IN  /\ TaskScope(p, row.project, row.assignee)
            /\ MayApplyPatch(p, row.project, row.assignee, patch)
            /\ "assignee" \in DOMAIN patch =>
                  patch["assignee"] \in {NoOne, row.assignee} \/ Assignable(patch["assignee"])
            /\ request' = [request EXCEPT ![r] =
                   [pc |-> "update", actor |-> u, task |-> t, seen |-> row, patch |-> patch, at |-> now]]
    /\ started' = started + 1
    /\ UNCHANGED <<tasks, log, notifications, stamp, now, sweep, faults>>

\* The row the request q believes it leaves behind.
NextStatus(q) == IF "status" \in DOMAIN q.patch THEN q.patch["status"] ELSE q.seen.status
\* Mutant: a field the body leaves out is taken for a value.
NextAssigneeUnguarded(q) ==
    IF "assignee" \in DOMAIN q.patch THEN q.patch["assignee"] ELSE "undefined"
NextAssignee(q) == IF "assignee" \in DOMAIN q.patch THEN q.patch["assignee"] ELSE q.seen.assignee
NextDue(q) == IF "due" \in DOMAIN q.patch THEN q.patch["due"] ELSE q.seen.due
NextOverdue(q, at) == IsOverdueNow(NextStatus(q), NextDue(q), at)

StatusChanges(q) == NextStatus(q) # q.seen.status
AssigneeChanges(q) == NextAssignee(q) # q.seen.assignee
DueChanges(q) == NextDue(q) # q.seen.due
DetailsChange(q) == "details" \in DOMAIN q.patch
OverdueChanges(q, at) == NextOverdue(q, at) # q.seen.overdue

Writes(q, at) == \/ StatusChanges(q) \/ AssigneeChanges(q) \/ DueChanges(q)
                 \/ DetailsChange(q) \/ OverdueChanges(q, at)

\* Mutant: the whole snapshot is saved back, the patch applied.
WholeRowSaved(row, q, at) ==
    [q.seen EXCEPT
        !.status = NextStatus(q), !.assignee = NextAssignee(q), !.due = NextDue(q),
        !.completed = IF StatusChanges(q) THEN NextStatus(q) = "DONE" ELSE row.completed,
        !.overdue = NextOverdue(q, at)]

\* Mutant: completedAt is set on the way into Done and kept on the way out.
CompletionKept(row, q, at) ==
    [row EXCEPT
        !.status = IF StatusChanges(q) THEN NextStatus(q) ELSE row.status,
        !.completed = row.completed \/ (StatusChanges(q) /\ NextStatus(q) = "DONE"),
        !.assignee = IF AssigneeChanges(q) THEN NextAssignee(q) ELSE row.assignee,
        !.due = IF DueChanges(q) THEN NextDue(q) ELSE row.due,
        !.overdue = IF OverdueChanges(q, at) THEN NextOverdue(q, at) ELSE row.overdue]

\* Only the columns that differ from the snapshot are written, over whatever
\* the row holds by then.
UpdatedRow(row, q, at) ==
    [project   |-> row.project,
     status    |-> IF StatusChanges(q) THEN NextStatus(q) ELSE row.status,
     completed |-> IF StatusChanges(q) THEN NextStatus(q) = "DONE" ELSE row.completed,
     assignee  |-> IF AssigneeChanges(q) THEN NextAssignee(q) ELSE row.assignee,
     due       |-> IF DueChanges(q) THEN NextDue(q) ELSE row.due,
     overdue   |-> IF OverdueChanges(q, at) THEN NextOverdue(q, at) ELSE row.overdue]

UpdateEntries(q) ==
    LET Says(type, to, who) == {Entry(type, q.task, q.seen.project, q.actor, to, who)}
    IN  (IF StatusChanges(q) THEN Says("TASK_STATUS_CHANGED", NextStatus(q), NoOne) ELSE {})
        \cup (IF ~AssigneeChanges(q) THEN {}
              ELSE IF NextAssignee(q) = NoOne THEN Says("TASK_UNASSIGNED", "NONE", NoOne)
              ELSE Says("TASK_ASSIGNED", "NONE", NextAssignee(q)))
        \cup (IF DueChanges(q) THEN Says("TASK_DUE_DATE_CHANGED", "NONE", NoOne) ELSE {})
        \cup (IF DetailsChange(q) THEN Says("TASK_UPDATED", "NONE", NoOne) ELSE {})

UpdateNotifications(q) ==
    LET Tell(type, who) == Notify(type, q.task, q.actor, who)
    IN  (IF StatusChanges(q) /\ NextStatus(q) = "IN_REVIEW"
         THEN Tell("TASK_IN_REVIEW", Manager[q.seen.project]) ELSE {})
        \cup (IF StatusChanges(q) /\ NextStatus(q) = "DONE"
              THEN Tell("TASK_COMPLETED", q.seen.assignee) ELSE {})
        \cup (IF AssigneeChanges(q) THEN Tell("TASK_ASSIGNED", NextAssignee(q)) ELSE {})

\* The overdue predicate is evaluated at some moment between the read and the
\* commit.  A row deleted meanwhile makes the transaction fail as a whole.
CommitUpdate(r) ==
    LET q == request[r]
    IN  /\ q.pc = "update"
        /\ \E at \in q.at .. now :
              /\ Writes(q, at) /\ q.task \in Live
              /\ tasks' = [tasks EXCEPT ![q.task] = UpdatedRow(tasks[q.task], q, at)]
              /\ log' = log \cup UpdateEntries(q)
              /\ notifications' = notifications \cup UpdateNotifications(q)
        /\ stamp' = stamp + 1
        /\ request' = [request EXCEPT ![r] = Idle]
        /\ UNCHANGED <<now, sweep, started, faults>>

\* Nothing differs from the snapshot, or the row is gone.
DropUpdate(r) ==
    LET q == request[r]
    IN  /\ q.pc = "update"
        /\ q.task \notin Live \/ \E at \in q.at .. now : ~Writes(q, at)
        /\ request' = [request EXCEPT ![r] = Idle]
        /\ UNCHANGED <<database, now, sweep, started, faults>>

-----------------------------------------------------------------------------
(* Deleting a task.  The entry is inserted first, which share-locks the     *)
(* task row through its foreign key; the DELETE then needs the row alone.   *)

BeginDelete(r) ==
    /\ request[r] = Idle
    /\ started < MaxRequests
    /\ \E u \in Active, t \in Live :
        /\ TaskScope(PrincipalOf(u), tasks[t].project, tasks[t].assignee)
        /\ CanDeleteTask(PrincipalOf(u), tasks[t].project)
        /\ request' = [request EXCEPT ![r] =
               [pc |-> "delete", actor |-> u, task |-> t, project |-> tasks[t].project]]
    /\ started' = started + 1
    /\ UNCHANGED <<tasks, log, notifications, stamp, now, sweep, faults>>

\* INSERT of the TASK_DELETED entry: its stamp is taken now, and nobody sees it
\* before the commit.
RecordDeletion(r) ==
    LET q == request[r]
    IN  /\ q.pc = "delete"
        /\ q.task \in Live
        /\ request' = [request EXCEPT ![r] =
               [pc |-> "deleting", task |-> q.task,
                entry |-> Entry("TASK_DELETED", q.task, q.project, q.actor, "NONE", NoOne)]]
        /\ stamp' = stamp + 1
        /\ UNCHANGED <<tasks, log, notifications, now, sweep, started, faults>>

Deleting(r, t) == request[r].pc = "deleting" /\ request[r].task = t

\* Mutant: the DELETE waits for nobody.
RowNeverLocked(r, t) == TRUE

\* Nobody else share-locks the row.
RowFree(r, t) == \A other \in Slot \ {r} : ~Deleting(other, t)

\* An entry after the row of t goes: its taskId is null (onDelete: SetNull).
Detach(e, t) == IF e.task = t THEN [e EXCEPT !.linked = FALSE] ELSE e

\* DELETE of the row and commit: entries are detached, notifications cascade.
CommitDelete(r) ==
    LET q == request[r]
    IN  /\ q.pc = "deleting"
        /\ RowFree(r, q.task)
        /\ tasks' = [x \in Live \ {q.task} |-> tasks[x]]
        /\ log' = {Detach(e, q.task) : e \in log \cup {q.entry}}
        /\ notifications' = {n \in notifications : n.task # q.task}
        /\ request' = [request EXCEPT ![r] = Idle]
        /\ UNCHANGED <<stamp, now, sweep, started, faults>>

\* The row went before the entry's foreign key was checked, or two deletions
\* share-lock the row and PostgreSQL breaks the deadlock: one rolls back.
AbortDelete(r) ==
    LET q == request[r]
    IN  /\ \/ q.pc = "delete" /\ q.task \notin Live
           \/ q.pc = "deleting" /\ ~RowFree(r, q.task)
        /\ request' = [request EXCEPT ![r] = Idle]
        /\ UNCHANGED <<database, now, sweep, started, faults>>

-----------------------------------------------------------------------------
(* The overdue sweep.  Its three database steps are apart; at is the time   *)
(* the sweep took when it started.                                          *)

\* Mutant: only deadlines that moved are looked at.
StaleFlagOfDeadline(row, at) == row.overdue /\ (row.due = NoDue \/ row.due >= at)

StaleFlag(row, at) == row.overdue /\ (row.status = "DONE" \/ row.due = NoDue \/ row.due >= at)

\* clearStaleFlags: one UPDATE.
SweepClear(i) ==
    /\ sweep[i] = Idle
    /\ tasks' = [t \in Live |-> IF StaleFlag(tasks[t], now)
                                THEN [tasks[t] EXCEPT !.overdue = FALSE] ELSE tasks[t]]
    /\ sweep' = [sweep EXCEPT ![i] = [pc |-> "pick", at |-> now]]
    /\ UNCHANGED <<log, notifications, stamp, now, request, started, faults>>

\* Mutant: the query forgets isOverdue: false.
CandidateEvenIfFlagged(row, at) ==
    /\ row.status \in OpenStatuses
    /\ row.due # NoDue /\ row.due < at

Candidate(row, at) ==
    /\ ~row.overdue
    /\ row.status \in OpenStatuses
    /\ row.due # NoDue /\ row.due < at

\* The earliest BatchSize candidates, ties broken either way.
Batches(at) ==
    LET C == {t \in Live : Candidate(tasks[t], at)}
    IN  {ids \in SUBSET C :
            /\ Cardinality(ids) = IF Cardinality(C) < BatchSize THEN Cardinality(C) ELSE BatchSize
            /\ \A x \in ids, y \in C \ ids : tasks[x].due <= tasks[y].due}

SweepPick(i) ==
    /\ sweep[i].pc = "pick"
    /\ \E ids \in Batches(sweep[i].at) :
        sweep' = [sweep EXCEPT ![i] =
            IF ids = {} THEN Idle ELSE [pc |-> "claim", at |-> sweep[i].at, ids |-> ids]]
    /\ UNCHANGED <<database, now, request, started, faults>>

\* Mutant: the claim trusts the query that chose the batch.
ClaimableUnchecked(row, at) == row.status \in OpenStatuses /\ row.due # NoDue /\ row.due < at

\* The claim's WHERE clause, evaluated again on the rows as they are now.
Claimable(row, at) ==
    /\ ~row.overdue
    /\ row.status \in OpenStatuses
    /\ row.due # NoDue /\ row.due < at

Claimed(i) == {t \in sweep[i].ids \cap Live : Claimable(tasks[t], sweep[i].at)}

\* One transaction: flag, log, notify.
SweepClaim(i) ==
    /\ sweep[i].pc = "claim"
    /\ tasks' = [t \in Live |-> IF t \in Claimed(i)
                                THEN [tasks[t] EXCEPT !.overdue = TRUE] ELSE tasks[t]]
    /\ log' = log \cup {Entry("TASK_OVERDUE", t, tasks[t].project, NoOne, "NONE", NoOne) :
                           t \in Claimed(i)}
    /\ notifications' = notifications \cup
           UNION {Notify("TASK_OVERDUE", t, NoOne, tasks[t].assignee) : t \in Claimed(i)}
    /\ stamp' = IF Claimed(i) = {} THEN stamp ELSE stamp + 1
    /\ sweep' = [sweep EXCEPT ![i] = Idle]
    /\ UNCHANGED <<now, request, started, faults>>

\* The job throws between two steps and guard swallows it; or the instance dies
\* and restarts.
SweepFails(i) ==
    /\ sweep[i] # Idle
    /\ faults < MaxFaults
    /\ sweep' = [sweep EXCEPT ![i] = Idle]
    /\ faults' = faults + 1
    /\ UNCHANGED <<database, now, request, started>>

-----------------------------------------------------------------------------

\* The instance that serves the request exits, forced or by itself: its open
\* transaction rolls back, the row it share-locked is free again, and the stamp
\* it drew is never used.
RequestDies(r) ==
    /\ request[r] # Idle
    /\ faults < MaxFaults
    /\ request' = [request EXCEPT ![r] = Idle]
    /\ faults' = faults + 1
    /\ UNCHANGED <<database, now, sweep, started>>

Tick ==
    /\ now < MaxTime
    /\ now' = now + 1
    /\ UNCHANGED <<database, request, sweep, started, faults>>

Init ==
    /\ tasks = [t \in {} |-> Idle]
    /\ log = {}
    /\ notifications = {}
    /\ stamp = 1
    /\ now = 0
    /\ request = [r \in Slot |-> Idle]
    /\ sweep = [i \in Sweeper |-> Idle]
    /\ started = 0
    /\ faults = 0

RequestStep(r) ==
    \/ BeginUpdate(r) \/ CommitUpdate(r) \/ DropUpdate(r)
    \/ BeginDelete(r) \/ RecordDeletion(r) \/ CommitDelete(r) \/ AbortDelete(r)

SweepStep(i) == SweepClear(i) \/ SweepPick(i) \/ SweepClaim(i)

Next ==
    \/ CreateTask
    \/ \E r \in Slot : RequestStep(r) \/ RequestDies(r)
    \/ \E i \in Sweeper : SweepStep(i) \/ SweepFails(i)
    \/ Tick

Spec == Init /\ [][Next]_vars

\* Cron keeps starting sweeps, and a started sweep goes on to its next query.
\* Nothing is assumed of the requests or of the clock.
FairSpec == Spec /\ \A i \in Sweeper : WF_vars(SweepStep(i))

-----------------------------------------------------------------------------
(* Types *)

UpdateRequest == [pc : {"update"}, actor : User, task : Task, seen : TaskRow,
                  patch : Patch, at : Nat]
DeleteRequest == [pc : {"delete"}, actor : User, task : Task, project : Project]
                 \cup [pc : {"deleting"}, task : Task, entry : LogRow]
RunningSweep == [pc : {"pick"}, at : Nat]
                \cup [pc : {"claim"}, at : Nat, ids : SUBSET Task]

\* The types of the tables and of the requests and sweeps in progress.
TypeOK ==
    /\ Live \subseteq Task
    /\ tasks \in [Live -> TaskRow]
    /\ log \subseteq LogRow
    /\ notifications \subseteq NotificationRow
    /\ stamp \in Nat
    /\ now \in Nat
    /\ request \in [Slot -> {Idle} \cup UpdateRequest \cup DeleteRequest]
    /\ sweep \in [Sweeper -> {Idle} \cup RunningSweep]
    /\ started \in Nat
    /\ faults \in Nat

-----------------------------------------------------------------------------
(* Safety *)

StatusEntries(t) ==
    {e \in log : e.task = t /\ e.type \in {"TASK_CREATED", "TASK_STATUS_CHANGED"}}
AssigneeEntries(t) ==
    {e \in log : e.task = t /\ e.type \in {"TASK_ASSIGNED", "TASK_UNASSIGNED"}}
Deletions(t) == {e \in log : e.task = t /\ e.type = "TASK_DELETED"}

\* e is the one entry of E with the highest stamp.
IsLatest(e, E) == e \in E /\ \A f \in E \ {e} : f.stamp < e.stamp

StatusAudited(t) ==
    \E e \in StatusEntries(t) : IsLatest(e, StatusEntries(t)) /\ e.to = tasks[t].status

AssigneeAudited(t) ==
    \/ AssigneeEntries(t) = {} /\ tasks[t].assignee = NoOne
    \/ \E e \in AssigneeEntries(t) :
          IsLatest(e, AssigneeEntries(t)) /\ e.assignee = tasks[t].assignee

\* "Every entry is a row written in the same transaction as the change it
\* describes" (activity.service.ts): however updates decided on stale snapshots
\* interleave, the newest status entry of a task says the status its row has,
\* and the newest assignment entry says who holds it.
AuditMatchesRow == \A t \in Live : StatusAudited(t) /\ AssigneeAudited(t)

\* A task that is gone left exactly one TASK_DELETED entry and keeps its history,
\* detached; a task that is there has none, and its history still points at it
\* (deleteTask; onDelete: SetNull), even when deletions of it collide.
DeletionAudited ==
    \A e \in log :
        IF e.task \in Live
        THEN e.linked /\ Deletions(e.task) = {}
        ELSE ~e.linked /\ \E d \in log : Deletions(e.task) = {d}

\* The review gate (rbac.ts): whoever made a task Done, when creating it or
\* later, is an administrator or the manager of its project.
DoneIsSignedOff ==
    \A e \in log : e.to = "DONE" => CanManageProject(PrincipalOf(e.actor), e.project)

\* completedAt is set on no open task, whatever moved it in and out of Done.
OnlyDoneIsCompleted == \A t \in Live : tasks[t].completed => tasks[t].status = "DONE"

\* Every notification is about a task that exists and has its entry in the log,
\* made by somebody else: an assignment is announced to the new assignee, a
\* review request to the manager of the project.
NotificationsAreNews ==
    \A n \in notifications :
        /\ n.task \in Live
        /\ \E e \in log :
              /\ e.task = n.task /\ e.stamp = n.stamp /\ e.actor # n.recipient
              /\ \/ n.type \in {"TASK_ASSIGNED", "TASK_OVERDUE"} /\ e.type = n.type
                 \/ n.type = "TASK_IN_REVIEW" /\ e.to = "IN_REVIEW"
                 \/ n.type = "TASK_COMPLETED" /\ e.to = "DONE"
              /\ n.type = "TASK_ASSIGNED" => n.recipient = e.assignee
              /\ n.type = "TASK_IN_REVIEW" => n.recipient = Manager[e.project]

NewOverdueEntries(t) == {e \in log' \ log : e.task = t /\ e.type = "TASK_OVERDUE"}
NewlyTold(t) ==
    {n.recipient : n \in {m \in notifications' \ notifications :
                              m.task = t /\ m.type = "TASK_OVERDUE"}}

\* The flag of t goes up in this step by the hand of a sweep.
Flagged(t) == sweep' # sweep /\ ~tasks[t].overdue /\ tasks'[t].overdue

AnnouncedOnce(t) ==
    IF Flagged(t)
    THEN /\ IsOverdueNow(tasks[t].status, tasks[t].due, now)
         /\ \E e \in log' : NewOverdueEntries(t) = {e}
         /\ NewlyTold(t) = {tasks[t].assignee} \ {NoOne}
    ELSE NewOverdueEntries(t) = {} /\ NewlyTold(t) = {}

\* "One row change, one feed entry, one notification" (overdue.job.ts), whatever
\* other sweeps and updates do between the query and the claim: an overdue entry
\* is written exactly when a sweep raises the flag of a task that is late and was
\* not flagged, once, and exactly its assignee of that moment is told.
SweepIsExactlyOnce == [][\A t \in Live \cap DOMAIN tasks' : AnnouncedOnce(t)]_vars

-----------------------------------------------------------------------------
(* Booting over a database that exists: the seeded one, or what other        *)
(* instances and earlier deployments left.                                   *)

\* The tables of such a database: finitely many rows of their types, stamps that
\* have been handed out, and the invariants above.
Consistent ==
    /\ Live \subseteq Task /\ IsFiniteSet(Live) /\ tasks \in [Live -> TaskRow]
    /\ log \subseteq LogRow /\ \A e \in log : e.stamp < stamp
    /\ notifications \subseteq NotificationRow /\ \A n \in notifications : n.stamp < stamp
    /\ stamp \in Nat
    /\ AuditMatchesRow /\ DeletionAudited
    /\ DoneIsSignedOff /\ OnlyDoneIsCompleted
    /\ NotificationsAreNews

\* Nothing is under way yet.
Boot ==
    /\ Consistent
    /\ now \in Nat
    /\ request = [r \in Slot |-> Idle]
    /\ sweep = [i \in Sweeper |-> Idle]
    /\ started = 0
    /\ faults = 0

BootSpec == Boot /\ [][Next]_vars

-----------------------------------------------------------------------------
(* Liveness *)

Late(t) == IsOverdueNow(tasks[t].status, tasks[t].due, now)

\* A task that is late gets flagged, unless it stops being late: a batch limit,
\* other late tasks and failing sweeps only delay it.
LateTaskIsFlagged ==
    \A t \in Task : (t \in Live /\ Late(t)) ~> (t \in Live => ~Late(t) \/ tasks[t].overdue)

\* A flag that a race left on a task that is not late is taken back.
StaleFlagIsCleared ==
    \A t \in Task : (t \in Live /\ tasks[t].overdue) ~> (t \in Live => Late(t) \/ ~tasks[t].overdue)

-----------------------------------------------------------------------------
(* What the repository says and concurrent requests break *)

\* tasks.service.ts, "overdue reconciliation": completing a task does not leave
\* it showing as overdue until the next sweep.
DoneIsNotOverdue == \A t \in Live : tasks[t].status = "DONE" => ~tasks[t].overdue

\* overdue.job.ts: becoming overdue is a write with a feed entry, so every flag
\* that is up has a TASK_OVERDUE entry that says so.
OverdueIsAnnounced ==
    \A t \in Live : tasks[t].overdue => \E e \in log : e.task = t /\ e.type = "TASK_OVERDUE"
=============================================================================
