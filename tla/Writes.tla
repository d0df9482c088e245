------------------------------- MODULE Writes -------------------------------
(***************************************************************************)
(* Writes of tasks and what the API pushes after the commit, towards the   *)
(* socket of one browser tab: createTask, updateTask, deleteTask and       *)
(* publishTaskWrite of tasks.service.ts, the sweep of overdue.job.ts, and  *)
(* publishNotifications of notification.service.ts.  The database side of  *)
(* the writes, with every way they collide, is the subject of Tasks; here  *)
(* a write is its read and its commit.                                     *)
(*                                                                         *)
(* What the page in front of the user does not listen to is not followed:  *)
(* a message it would drop is not put on the line, and notifications exist *)
(* only when the page is the tray.                                         *)
(***************************************************************************)
EXTENDS Views, Sequences

CONSTANTS Task,        \* task ids, never reused
          RoleOf,      \* RoleOf[u]: users.role
          Author,      \* the users who write tasks in a behaviour
          Draft,       \* the creation bodies clients send
          Patch,       \* the update bodies clients send
          SeededTasks, \* the task table the behaviour starts from
          Writer,      \* requests and sweeps that run at once
          MaxRequests  \* bound: requests and losses in a behaviour

Row == [project : Project, status : Status, assignee : User \cup {NoOne}, due : Int \cup {NoDue},
        overdue : BOOLEAN, at : Nat]

\* A table: some tasks and their rows, finitely many.
IsTable(table) ==
    /\ table \in [DOMAIN table -> Row] /\ DOMAIN table \subseteq Task
    /\ IsFiniteSet(DOMAIN table)

\* The rows that clients send have been parsed; a body that changes nothing is
\* refused, and users are those of the users table.
ASSUME RoleAssumption == RoleOf \in [User -> Role]
ASSUME AuthorAssumption == Author \subseteq User
ASSUME TodayAssumption == Today \in Int
ASSUME DraftAssumption ==
    Draft \subseteq [project : Project, status : Status, due : Int \cup {NoDue},
                     assignee : User \cup {NoOne}]
ASSUME PatchAssumption ==
    \A patch \in Patch :
        /\ DOMAIN patch # {} /\ DOMAIN patch \subseteq Fields
        /\ "status" \in DOMAIN patch => patch.status \in Status
        /\ "due" \in DOMAIN patch => patch.due \in Int \cup {NoDue}
        /\ "assignee" \in DOMAIN patch => patch.assignee \in User \cup {NoOne}

ASSUME SeededTasksAssumption ==
    IsTable(SeededTasks) /\ \A t \in DOMAIN SeededTasks : SeededTasks[t].at <= 1

VARIABLES
    tasks,    \* the task table
    used,     \* task ids drawn so far
    notes,    \* the notifications of the user of the tab
    stamp,    \* commits so far: updatedAt, and the order of what was read when
    write,    \* write[w]: one request or sweep
    started,  \* requests and losses so far
    me,       \* the user of the tab
    page,     \* what the tab shows
    up,       \* the tab's socket is connected
    line      \* what the server has sent over it and the tab has not handled

database == <<tasks, used, notes, stamp>>
server == <<database, write>>
wire == <<up, line>>

Live == DOMAIN tasks
Idle == [pc |-> "idle"]
PrincipalOf(u) == [id |-> u, role |-> RoleOf[u]]
Me == PrincipalOf(me)
Assignable(u) == u # NoOne => RoleOf[u] # "ADMIN"

Lists == {"tasks", "project"}
PageKind == Lists \cup {"task", "dashboard", "tray"}

Admit == started < MaxRequests /\ started' = started + 1

-----------------------------------------------------------------------------
(* Sending *)

\* A dashboard listens to activity alone.
Listens(m) == page.kind = "dashboard" => m.kind = "activity"
Heeded(m) == IF Listens(m) THEN <<m>> ELSE << >>

Push(msgs) == line' = IF up THEN line \o msgs ELSE line

Change(job, gone) ==
    [kind |-> "changed", task |-> job.task, row |-> job.row, gone |-> gone, at |-> job.at]

-----------------------------------------------------------------------------
(* What a commit leaves to publish: jobs, each the activity of a task and    *)
(* then its task:changed, and the ids of notifications of the tab's user.   *)
(* here: the tab itself sent the request and waits for the answer.          *)

Job(t, row, actor, prev, gone, logged) ==
    [task |-> t, row |-> row, by |-> actor, prev |-> prev, gone |-> gone,
     stage |-> IF logged THEN "activity" ELSE "changed", at |-> stamp + 1]

Publishing(jobs, ids, here) ==
    [pc |-> "publish", jobs |-> IF page.kind = "tray" THEN << >> ELSE jobs, ids |-> ids,
     here |-> here, last |-> IF here THEN jobs ELSE << >>]

\* Nothing is left to do of q: it has ended.
Settled(q) == IF q.jobs = << >> /\ q.ids = {} /\ ~q.here THEN Idle ELSE q

NoteType == {"TASK_ASSIGNED", "TASK_IN_REVIEW", "TASK_COMPLETED", "TASK_OVERDUE"}

\* A notification row; at tells apart those of different commits.
NoteId(type, t) == [type |-> type, task |-> t, at |-> stamp + 1]

\* The ids that createNotification draws for the tab's user.
Notified(type, t, recipient, actor) ==
    IF page.kind = "tray" /\ recipient = me /\ recipient # actor THEN {NoteId(type, t)} ELSE {}

Inserted(ids) == [n \in DOMAIN notes \cup ids |-> IF n \in ids THEN FALSE ELSE notes[n]]

-----------------------------------------------------------------------------
(* Writes *)

Draw(t) == t \notin used /\ used' = used \cup {t}

Create(w) ==
    /\ write[w] = Idle /\ Admit
    /\ \E u \in Author, t \in Task, draft \in Draft :
        LET row == [project |-> draft.project, status |-> draft.status, due |-> draft.due,
                    assignee |-> draft.assignee, at |-> stamp + 1,
                    overdue |-> IsOverdueNow(draft.status, draft.due)]
            ids == Notified("TASK_ASSIGNED", t, draft.assignee, u)
        IN  /\ CanManageProject(PrincipalOf(u), draft.project) /\ Assignable(draft.assignee)
            /\ Draw(t)
            /\ tasks' = [x \in Live \cup {t} |-> IF x = t THEN row ELSE tasks[x]]
            /\ notes' = Inserted(ids)
            /\ write' = [write EXCEPT ![w] =
                   Settled(Publishing(<<Job(t, row, u, NoOne, FALSE, TRUE)>>, ids, FALSE))]
    /\ stamp' = stamp + 1

\* The tab's own user may have clicked on the task page.
Clicked(u, t) == u = me /\ page.kind = "task" /\ page.task = t

BeginUpdate(w) ==
    /\ write[w] = Idle /\ Admit
    /\ \E u \in Author, t \in Live, patch \in Patch, here \in BOOLEAN :
        /\ Sees(PrincipalOf(u), tasks[t])
        /\ MayApplyPatch(PrincipalOf(u), tasks[t].project, tasks[t].assignee, patch)
        /\ "assignee" \in DOMAIN patch => Assignable(patch.assignee)
        /\ here => Clicked(u, t)
        /\ write' = [write EXCEPT ![w] =
               [pc |-> "update", actor |-> u, task |-> t, seen |-> tasks[t],
                patch |-> patch, here |-> here]]
    /\ UNCHANGED database

BeginDelete(w) ==
    /\ write[w] = Idle /\ Admit
    /\ \E u \in Author, t \in Live, here \in BOOLEAN :
        /\ Sees(PrincipalOf(u), tasks[t]) /\ CanDeleteTask(PrincipalOf(u), tasks[t].project)
        /\ here => Clicked(u, t)
        /\ write' = [write EXCEPT ![w] =
               [pc |-> "delete", actor |-> u, task |-> t, seen |-> tasks[t], here |-> here]]
    /\ UNCHANGED database

\* The row as the request wants it, from the row it read.
Wanted(q) ==
    LET status == IF "status" \in DOMAIN q.patch THEN q.patch.status ELSE q.seen.status
        due == IF "due" \in DOMAIN q.patch THEN q.patch.due ELSE q.seen.due
    IN  [q.seen EXCEPT
            !.status = status, !.due = due, !.overdue = IsOverdueNow(status, due),
            !.assignee = IF "assignee" \in DOMAIN q.patch THEN q.patch.assignee ELSE @]

\* What the request changes: columns of the row it read, or texts the row leaves out.
Differs(q) == {c \in DOMAIN q.seen : Wanted(q)[c] # q.seen[c]} \cup ({"details"} \cap DOMAIN q.patch)

\* Only what differs is written, over the row as it is now.
Updated(q, row) ==
    [c \in DOMAIN row |-> IF c = "at" THEN stamp + 1
                          ELSE IF c \in Differs(q) THEN Wanted(q)[c] ELSE row[c]]

\* The overdue flag alone is written without an entry in the log.
Logged(q) == Differs(q) \ {"overdue"} # {}

UpdateNotes(q) ==
    (IF "status" \in Differs(q) /\ Wanted(q).status = "IN_REVIEW"
     THEN Notified("TASK_IN_REVIEW", q.task, Manager[q.seen.project], q.actor) ELSE {})
    \cup (IF "status" \in Differs(q) /\ Wanted(q).status = "DONE"
          THEN Notified("TASK_COMPLETED", q.task, q.seen.assignee, q.actor) ELSE {})
    \cup (IF "assignee" \in Differs(q)
          THEN Notified("TASK_ASSIGNED", q.task, Wanted(q).assignee, q.actor) ELSE {})

\* The assignee of the row that was read is told that the task is gone, unless
\* the row that was written is theirs.
CommitUpdate(w) ==
    LET q == write[w]
        row == Updated(q, tasks[q.task])
    IN  /\ q.pc = "update" /\ q.task \in Live /\ Differs(q) # {}
        /\ tasks' = [tasks EXCEPT ![q.task] = row]
        /\ notes' = Inserted(UpdateNotes(q))
        /\ write' = [write EXCEPT ![w] = Settled(Publishing(
               <<Job(q.task, row, q.actor, q.seen.assignee, FALSE, Logged(q))>>,
               UpdateNotes(q), q.here))]
        /\ stamp' = stamp + 1
        /\ UNCHANGED <<used, started>>

\* The row and its notifications go; everybody who saw the row that was read is
\* told.
CommitDelete(w) ==
    LET q == write[w]
    IN  /\ q.pc = "delete" /\ q.task \in Live
        /\ tasks' = Restrict(tasks, Live \ {q.task})
        /\ notes' = RestrictDomain(notes, LAMBDA n : n.task # q.task)
        /\ write' = [write EXCEPT ![w] = Settled(Publishing(
               <<Job(q.task, q.seen, q.actor, NoOne, TRUE, TRUE)>>, {}, q.here))]
        /\ stamp' = stamp + 1
        /\ UNCHANGED <<used, started>>

\* The row is gone: 404; or nothing differs: the row is answered as it was read.
Drop(w) ==
    LET q == write[w]
    IN  /\ \/ q.pc \in {"update", "delete"} /\ q.task \notin Live
           \/ q.pc = "update" /\ Differs(q) = {}
        /\ write' = [write EXCEPT ![w] =
               IF q.here /\ q.task \in Live
               THEN [Publishing(<<Job(q.task, q.seen, q.actor, NoOne, FALSE, FALSE)>>, {}, TRUE)
                        EXCEPT !.jobs = << >>]
               ELSE Idle]
        /\ UNCHANGED <<database, started>>

-----------------------------------------------------------------------------
(* The sweep *)

StaleFlag(row) == row.overdue /\ ~IsOverdueNow(row.status, row.due)
Due(row) == ~row.overdue /\ IsOverdueNow(row.status, row.due)

Flag(ids, value) ==
    tasks' = [t \in Live |-> IF t \in ids
                             THEN [tasks[t] EXCEPT !.overdue = value, !.at = stamp + 1]
                             ELSE tasks[t]]

\* clearStaleFlags tells nobody.
SweepClear ==
    LET stale == {t \in Live : StaleFlag(tasks[t])}
    IN  /\ stale # {}
        /\ Flag(stale, FALSE)
        /\ stamp' = stamp + 1
        /\ UNCHANGED <<used, notes, write, started>>

\* The claim, and the tasks it publishes one after the other, in any order.
SweepClaim(w) ==
    LET due == {t \in Live : Due(tasks[t])}
        ids == UNION {Notified("TASK_OVERDUE", t, tasks[t].assignee, NoOne) : t \in due}
    IN  /\ write[w] = Idle /\ due # {} /\ Admit
        /\ Flag(due, TRUE)
        /\ notes' = Inserted(ids)
        /\ \E order \in {s \in [1 .. Cardinality(due) -> due] : IsInjective(s)} :
              write' = [write EXCEPT ![w] = Settled(Publishing(
                  [i \in 1 .. Cardinality(due) |->
                      Job(order[i], tasks'[order[i]], NoOne, NoOne, FALSE, TRUE)], ids, FALSE))]
        /\ stamp' = stamp + 1
        /\ UNCHANGED used

-----------------------------------------------------------------------------
(* Publishing *)

Job1(w) == write[w].jobs[1]
Publishes(w, stage) ==
    write[w].pc = "publish" /\ write[w].jobs # << >> /\ Job1(w).stage = stage

PublishActivity(w) ==
    /\ Publishes(w, "activity")
    /\ Push(IF Addressed(Me, Job1(w).row, Job1(w).by)
            THEN Heeded([kind |-> "activity", project |-> Job1(w).row.project]) ELSE << >>)
    /\ write' = [write EXCEPT ![w].jobs[1].stage = "changed"]
    /\ UNCHANGED <<database, started, up>>

\* Mutant: whoever lost the task is not told.
NobodyElse(job) == << >>

\* emitTaskRemoved
ToFormerAssignee(job) ==
    IF job.prev = me /\ job.prev # job.row.assignee THEN Heeded(Change(job, TRUE)) ELSE << >>

\* The sockets are fetched, each is checked; whoever may see the task is in a
\* room that is addressed.
PublishChanged(w) ==
    /\ Publishes(w, "changed")
    /\ Push((IF Addressed(Me, Job1(w).row, NoOne) /\ PrincipalCanSeeTask(Me, Job1(w).row)
             THEN Heeded(Change(Job1(w), Job1(w).gone)) ELSE << >>) \o ToFormerAssignee(Job1(w)))
    /\ write' = [write EXCEPT ![w] = Settled([write[w] EXCEPT !.jobs = Tail(@)])]
    /\ UNCHANGED <<database, started, up>>

Unread == Cardinality({n \in DOMAIN notes : ~notes[n]})

\* The rows are read again, then the unread are counted, then both are sent.
FindNotes(w) ==
    LET q == write[w]
        found == q.ids \cap DOMAIN notes
    IN  /\ q.pc = "publish" /\ q.jobs = << >> /\ q.ids # {}
        /\ write' = [write EXCEPT ![w] =
               IF found = {} THEN Idle ELSE [pc |-> "found", rows |-> Restrict(notes, found)]]
        /\ UNCHANGED <<database, started, wire>>

CountNotes(w) ==
    /\ write[w].pc = "found"
    /\ write' = [write EXCEPT ![w] =
           [pc |-> "counted", rows |-> write[w].rows, unread |-> Unread, at |-> stamp]]
    /\ UNCHANGED <<database, started, wire>>

CountMessage(n, at) == [kind |-> "count", unread |-> n, at |-> at]

PushNotes(w) ==
    LET q == write[w]
    IN  /\ q.pc = "counted"
        /\ Push(<<[kind |-> "new", rows |-> q.rows], CountMessage(q.unread, q.at)>>)
        /\ write' = [write EXCEPT ![w] = Idle]
        /\ UNCHANGED <<database, started, up>>

-----------------------------------------------------------------------------

WritesInit ==
    /\ tasks = SeededTasks /\ used = DOMAIN SeededTasks
    /\ stamp = 1
    /\ write = [w \in Writer |-> Idle]
    /\ line = << >>

WritesTypeOK ==
    /\ Live \subseteq used /\ used \subseteq Task /\ \A t \in Live : tasks[t] \in Row
    /\ \A n \in DOMAIN notes : n.task \in Live /\ notes[n] \in BOOLEAN
    /\ \A w \in Writer :
          write[w].pc \in {"idle", "update", "delete", "publish", "found", "counted"}
    /\ \A i \in DOMAIN line : line[i].kind \in {"activity", "changed", "new", "count"}
=============================================================================
