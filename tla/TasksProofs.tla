---------------------------- MODULE TasksProofs ----------------------------
(***************************************************************************)
(* What holds of the task board for every number of users, tasks, requests *)
(* and sweeps.                                                             *)
(***************************************************************************)
EXTENDS Tasks, FiniteSetTheorems, TLAPS

-----------------------------------------------------------------------------
(* What a request may assume of its own snapshot and body *)

\* The values an update computes from its snapshot and its body are values of
\* their columns (the schema of the body and the row it read are both typed).
LEMMA NextValuesTyped ==
    ASSUME NEW q \in UpdateRequest, NEW at
    PROVE  /\ NextStatus(q) \in Status
           /\ NextAssignee(q) \in Assignee
           /\ NextDue(q) \in Due
           /\ NextOverdue(q, at) \in BOOLEAN
<1>1. q.seen \in TaskRow /\ q.patch \in Patch
  BY DEF UpdateRequest
<1>2. q.seen.status \in Status /\ q.seen.assignee \in Assignee /\ q.seen.due \in Due
  BY <1>1 DEF TaskRow
<1>3. QED
  BY <1>1, <1>2, PatchAssumption
     DEF NextStatus, NextAssignee, NextDue, NextOverdue, IsOverdueNow

LEMMA UpdatedRowTyped ==
    ASSUME NEW q \in UpdateRequest, NEW at, NEW row \in TaskRow
    PROVE  UpdatedRow(row, q, at) \in TaskRow
<1>1. /\ row.status \in Status /\ row.assignee \in Assignee /\ row.due \in Due
      /\ row.overdue \in BOOLEAN /\ row.completed \in BOOLEAN /\ row.project \in Project
  BY DEF TaskRow
<1>2. /\ NextStatus(q) \in Status /\ NextAssignee(q) \in Assignee /\ NextDue(q) \in Due
      /\ NextOverdue(q, at) \in BOOLEAN
  BY NextValuesTyped
<1>3. QED
  BY <1>1, <1>2 DEF UpdatedRow, TaskRow

\* A log entry about typed things is a row of the log table.
LEMMA EntryTyped ==
    ASSUME stamp \in Nat,
           NEW type \in EventType, NEW t \in Task, NEW project \in Project,
           NEW actor \in Assignee, NEW to \in Status \cup {"NONE"}, NEW who \in Assignee
    PROVE  Entry(type, t, project, actor, to, who) \in LogRow
BY DEF Entry, LogRow

LEMMA UpdateEntriesTyped ==
    ASSUME stamp \in Nat, NEW q \in UpdateRequest
    PROVE  UpdateEntries(q) \subseteq LogRow
<1>1. /\ q.task \in Task /\ q.seen.project \in Project /\ q.actor \in Assignee
      /\ NoOne \in Assignee
  BY DEF UpdateRequest, TaskRow, Assignee
<1>2. NextStatus(q) \in Status /\ NextAssignee(q) \in Assignee
  BY NextValuesTyped
<1>3. /\ Entry("TASK_STATUS_CHANGED", q.task, q.seen.project, q.actor, NextStatus(q), NoOne) \in LogRow
      /\ Entry("TASK_UNASSIGNED", q.task, q.seen.project, q.actor, "NONE", NoOne) \in LogRow
      /\ Entry("TASK_ASSIGNED", q.task, q.seen.project, q.actor, "NONE", NextAssignee(q)) \in LogRow
      /\ Entry("TASK_DUE_DATE_CHANGED", q.task, q.seen.project, q.actor, "NONE", NoOne) \in LogRow
      /\ Entry("TASK_UPDATED", q.task, q.seen.project, q.actor, "NONE", NoOne) \in LogRow
  BY <1>1, <1>2, EntryTyped DEF EventType
<1>4. QED
  BY <1>3 DEF UpdateEntries

\* A notification goes to a user, whoever is passed as its recipient.
LEMMA NotifyTyped ==
    ASSUME stamp \in Nat, NEW t \in Task, NEW actor, NEW recipient \in Assignee,
           NEW type \in {"TASK_ASSIGNED", "TASK_IN_REVIEW", "TASK_OVERDUE", "TASK_COMPLETED"}
    PROVE  Notify(type, t, actor, recipient) \subseteq NotificationRow
BY DEF Notify, NotificationRow, Assignee

LEMMA UpdateNotificationsTyped ==
    ASSUME stamp \in Nat, NEW q \in UpdateRequest
    PROVE  UpdateNotifications(q) \subseteq NotificationRow
<1>1. /\ q.task \in Task /\ q.seen.project \in Project /\ q.seen.assignee \in Assignee
  BY DEF UpdateRequest, TaskRow
<1>2. NextAssignee(q) \in Assignee /\ Manager[q.seen.project] \in Assignee
  BY <1>1, NextValuesTyped, ManagerAssumption DEF Assignee
<1>3. /\ Notify("TASK_IN_REVIEW", q.task, q.actor, Manager[q.seen.project]) \subseteq NotificationRow
      /\ Notify("TASK_COMPLETED", q.task, q.actor, q.seen.assignee) \subseteq NotificationRow
      /\ Notify("TASK_ASSIGNED", q.task, q.actor, NextAssignee(q)) \subseteq NotificationRow
  BY <1>1, <1>2, NotifyTyped
<1>4. QED
  BY <1>3 DEF UpdateNotifications

\* Detaching an entry from its row touches no other column, and no entry of
\* another task.
LEMMA DetachKeeps ==
    ASSUME NEW e \in LogRow, NEW t
    PROVE  /\ Detach(e, t) \in LogRow
           /\ Detach(e, t).type = e.type
           /\ Detach(e, t).task = e.task
           /\ Detach(e, t).to = e.to
           /\ Detach(e, t).assignee = e.assignee
           /\ Detach(e, t).stamp = e.stamp
           /\ Detach(e, t).linked = IF e.task = t THEN FALSE ELSE e.linked
           /\ e.task # t => Detach(e, t) = e
<1> DEFINE d == [e EXCEPT !.linked = FALSE]
<1>1. d \in LogRow /\ d.linked = FALSE
  BY DEF LogRow
<1>2. d.type = e.type /\ d.task = e.task /\ d.to = e.to
  BY DEF LogRow
<1>3. d.assignee = e.assignee /\ d.stamp = e.stamp
  BY DEF LogRow
<1>4. Detach(e, t) = IF e.task = t THEN d ELSE e
  BY DEF Detach
<1> HIDE DEF d
<1>5. QED
  BY <1>1, <1>2, <1>3, <1>4

-----------------------------------------------------------------------------
(* Type correctness *)

LEMMA TypeInit == Init => TypeOK
BY DEF Init, TypeOK, Live

LEMMA TypeNext == TypeOK /\ [Next]_vars => TypeOK'
<1> SUFFICES ASSUME TypeOK, [Next]_vars PROVE TypeOK'
  OBVIOUS
<1> USE DEF TypeOK, Live
<1>1. CASE UNCHANGED vars
  BY <1>1 DEF vars
<1>2. CASE CreateTask
  <2>1. PICK u \in Active, t \in Task, draft \in Draft :
          /\ tasks' = [x \in Live \cup {t} |-> IF x = t THEN NewRow(draft) ELSE tasks[x]]
          /\ log' = log \cup CreationEntries(u, t, draft)
          /\ notifications' = notifications \cup Notify("TASK_ASSIGNED", t, u, draft.assignee)
    BY <1>2 DEF CreateTask
  <2>2. /\ draft.project \in Project /\ draft.status \in Status
        /\ draft.due \in Due /\ draft.assignee \in Assignee
    BY DraftAssumption
  <2>3. u \in User /\ u \in Assignee /\ NoOne \in Assignee
    BY DirectoryAssumption DEF Assignee
  <2>4. NewRow(draft) \in TaskRow
    BY <2>2 DEF NewRow, TaskRow, IsOverdueNow
  <2>5. DOMAIN tasks' \subseteq Task /\ tasks' \in [DOMAIN tasks' -> TaskRow]
    BY <2>1, <2>4
  <2>6. log' \subseteq LogRow
    <3>1. /\ Entry("TASK_CREATED", t, draft.project, u, draft.status, NoOne) \in LogRow
          /\ Entry("TASK_ASSIGNED", t, draft.project, u, "NONE", draft.assignee) \in LogRow
      BY <2>2, <2>3, EntryTyped DEF EventType
    <3>2. QED
      BY <2>1, <3>1 DEF CreationEntries
  <2>7. notifications' \subseteq NotificationRow
    BY <2>1, <2>2, NotifyTyped
  <2>8. QED
    BY <1>2, <2>5, <2>6, <2>7 DEF CreateTask
<1>3. ASSUME NEW r \in Slot, BeginUpdate(r) PROVE TypeOK'
  <2>1. PICK u \in Active, t \in Live, patch \in Patch :
          request' = [request EXCEPT ![r] = [pc |-> "update", actor |-> u, task |-> t,
                          seen |-> tasks[t], patch |-> patch, at |-> now]]
    BY <1>3 DEF BeginUpdate
  <2>2. [pc |-> "update", actor |-> u, task |-> t, seen |-> tasks[t], patch |-> patch, at |-> now]
          \in UpdateRequest
    BY DirectoryAssumption DEF UpdateRequest
  <2>3. QED
    BY <1>3, <2>1, <2>2 DEF BeginUpdate
<1>4. ASSUME NEW r \in Slot, CommitUpdate(r) PROVE TypeOK'
  <2>1. request[r] \in UpdateRequest
    BY <1>4 DEF CommitUpdate, Idle, UpdateRequest, DeleteRequest
  <2>2. PICK at \in request[r].at .. now :
          /\ request[r].task \in Live
          /\ tasks' = [tasks EXCEPT ![request[r].task] =
                           UpdatedRow(tasks[request[r].task], request[r], at)]
          /\ log' = log \cup UpdateEntries(request[r])
          /\ notifications' = notifications \cup UpdateNotifications(request[r])
    BY <1>4 DEF CommitUpdate
  <2>3. UpdatedRow(tasks[request[r].task], request[r], at) \in TaskRow
    BY <2>1, <2>2, UpdatedRowTyped
  <2>4. DOMAIN tasks' \subseteq Task /\ tasks' \in [DOMAIN tasks' -> TaskRow]
    BY <2>2, <2>3
  <2>5. log' \subseteq LogRow /\ notifications' \subseteq NotificationRow
    BY <2>1, <2>2, UpdateEntriesTyped, UpdateNotificationsTyped
  <2>6. QED
    BY <1>4, <2>4, <2>5 DEF CommitUpdate
<1>5. ASSUME NEW r \in Slot, DropUpdate(r) \/ AbortDelete(r) \/ RequestDies(r) PROVE TypeOK'
  BY <1>5 DEF DropUpdate, AbortDelete, RequestDies, database
<1>6. ASSUME NEW r \in Slot, BeginDelete(r) PROVE TypeOK'
  <2>1. PICK u \in Active, t \in Live :
          request' = [request EXCEPT ![r] = [pc |-> "delete", actor |-> u, task |-> t,
                                             project |-> tasks[t].project]]
    BY <1>6 DEF BeginDelete
  <2>2. [pc |-> "delete", actor |-> u, task |-> t, project |-> tasks[t].project] \in DeleteRequest
    BY DirectoryAssumption DEF DeleteRequest, TaskRow
  <2>3. QED
    BY <1>6, <2>1, <2>2 DEF BeginDelete
<1>7. ASSUME NEW r \in Slot, RecordDeletion(r) PROVE TypeOK'
  <2> DEFINE q == request[r]
             e == Entry("TASK_DELETED", q.task, q.project, q.actor, "NONE", NoOne)
  <2>1. q.task \in Task /\ q.project \in Project /\ q.actor \in Assignee /\ NoOne \in Assignee
    BY <1>7 DEF RecordDeletion, Idle, UpdateRequest, DeleteRequest, Assignee
  <2>2. e \in LogRow
    BY <2>1, EntryTyped DEF EventType
  <2>3. [pc |-> "deleting", task |-> q.task, entry |-> e] \in DeleteRequest
    BY <2>1, <2>2 DEF DeleteRequest
  <2>4. request' = [request EXCEPT ![r] = [pc |-> "deleting", task |-> q.task, entry |-> e]]
    BY <1>7 DEF RecordDeletion
  <2> HIDE DEF e
  <2>5. QED
    BY <1>7, <2>3, <2>4 DEF RecordDeletion
<1>8. ASSUME NEW r \in Slot, CommitDelete(r) PROVE TypeOK'
  <2>1. request[r].entry \in LogRow
    BY <1>8 DEF CommitDelete, Idle, UpdateRequest, DeleteRequest
  <2>2. DOMAIN tasks' \subseteq Task /\ tasks' \in [DOMAIN tasks' -> TaskRow]
    BY <1>8 DEF CommitDelete
  <2>3. log' \subseteq LogRow
    <3>1. \A e \in log \cup {request[r].entry} : Detach(e, request[r].task) \in LogRow
      BY <2>1, DetachKeeps
    <3>2. QED
      BY <1>8, <3>1 DEF CommitDelete
  <2>4. notifications' \subseteq NotificationRow
    BY <1>8 DEF CommitDelete
  <2>5. QED
    BY <1>8, <2>2, <2>3, <2>4 DEF CommitDelete
<1>9. ASSUME NEW i \in Sweeper, SweepClear(i) PROVE TypeOK'
  <2>1. ASSUME NEW row \in TaskRow PROVE [row EXCEPT !.overdue = FALSE] \in TaskRow
    BY DEF TaskRow
  <2>2. DOMAIN tasks' \subseteq Task /\ tasks' \in [DOMAIN tasks' -> TaskRow]
    BY <1>9, <2>1 DEF SweepClear
  <2>3. sweep' \in [Sweeper -> {Idle} \cup RunningSweep]
    BY <1>9 DEF SweepClear, RunningSweep
  <2>4. QED
    BY <1>9, <2>2, <2>3 DEF SweepClear
<1>10. ASSUME NEW i \in Sweeper, SweepPick(i) PROVE TypeOK'
  <2>1. PICK ids \in Batches(sweep[i].at) :
          sweep' = [sweep EXCEPT ![i] =
              IF ids = {} THEN Idle ELSE [pc |-> "claim", at |-> sweep[i].at, ids |-> ids]]
    BY <1>10 DEF SweepPick
  <2>2. ids \subseteq Task /\ sweep[i].at \in Nat
    BY <1>10 DEF SweepPick, Batches, Idle, RunningSweep
  <2>3. [pc |-> "claim", at |-> sweep[i].at, ids |-> ids] \in RunningSweep
    BY <2>2 DEF RunningSweep
  <2>4. QED
    BY <1>10, <2>1, <2>3 DEF SweepPick, database
<1>11. ASSUME NEW i \in Sweeper, SweepClaim(i) PROVE TypeOK'
  <2>1. ASSUME NEW row \in TaskRow PROVE [row EXCEPT !.overdue = TRUE] \in TaskRow
    BY DEF TaskRow
  <2>2. DOMAIN tasks' \subseteq Task /\ tasks' \in [DOMAIN tasks' -> TaskRow]
    BY <1>11, <2>1 DEF SweepClaim
  <2>3. ASSUME NEW t \in Claimed(i)
        PROVE  /\ Entry("TASK_OVERDUE", t, tasks[t].project, NoOne, "NONE", NoOne) \in LogRow
               /\ Notify("TASK_OVERDUE", t, NoOne, tasks[t].assignee) \subseteq NotificationRow
    <3>1. t \in Task /\ tasks[t] \in TaskRow
      BY DEF Claimed
    <3>2. tasks[t].project \in Project /\ tasks[t].assignee \in Assignee /\ NoOne \in Assignee
      BY <3>1 DEF TaskRow, Assignee
    <3>3. QED
      BY <3>1, <3>2, EntryTyped, NotifyTyped DEF EventType
  <2>4. log' \subseteq LogRow /\ notifications' \subseteq NotificationRow
    BY <1>11, <2>3 DEF SweepClaim
  <2>5. QED
    BY <1>11, <2>2, <2>4 DEF SweepClaim
<1>12. ASSUME NEW i \in Sweeper, SweepFails(i) PROVE TypeOK'
  BY <1>12 DEF SweepFails, database
<1>13. CASE Tick
  BY <1>13 DEF Tick, database
<1>14. QED
  BY <1>1, <1>2, <1>3, <1>4, <1>5, <1>6, <1>7, <1>8, <1>9, <1>10, <1>11, <1>12, <1>13
     DEF Next, RequestStep, SweepStep

\* Every reachable state of the board is typed: no update writes a value the
\* columns do not have, whatever its body leaves out and whatever it read.
THEOREM TypeCorrect == Spec => []TypeOK
BY TypeInit, TypeNext, PTL DEF Spec

-----------------------------------------------------------------------------
(* Stamps.  The invariants below compare stamps, so they rest on this one:  *)
(* everything in the database, and the entry a deletion is about to commit, *)
(* carries a stamp that was handed out; a deletion holds its row; and a     *)
(* sweep works with a time that has passed.                                 *)

Pending(r) ==
    request[r].pc = "deleting" =>
        /\ request[r].entry.stamp < stamp
        /\ request[r].entry.type = "TASK_DELETED"
        /\ request[r].entry.task = request[r].task
        /\ request[r].task \in Live

Stamped ==
    /\ \A e \in log : e.stamp < stamp
    /\ \A n \in notifications : n.stamp < stamp
    /\ \A r \in Slot : Pending(r)
    /\ \A i \in Sweeper : sweep[i] # Idle => sweep[i].at <= now

\* The entries of an update carry its stamp and its task; at most one says a
\* status and at most one an assignee, and those say what the update writes.
LEMMA UpdateEntriesSay ==
    ASSUME NEW q, NEW e \in UpdateEntries(q)
    PROVE  /\ e.stamp = stamp /\ e.task = q.task /\ e.linked
           /\ e.type \in {"TASK_STATUS_CHANGED", "TASK_ASSIGNED", "TASK_UNASSIGNED",
                          "TASK_DUE_DATE_CHANGED", "TASK_UPDATED"}
           /\ e.type = "TASK_STATUS_CHANGED" =>
                 /\ StatusChanges(q)
                 /\ e = Entry("TASK_STATUS_CHANGED", q.task, q.seen.project, q.actor,
                              NextStatus(q), NoOne)
           /\ e.type \in {"TASK_ASSIGNED", "TASK_UNASSIGNED"} =>
                 /\ AssigneeChanges(q)
                 /\ e = Entry(IF NextAssignee(q) = NoOne THEN "TASK_UNASSIGNED"
                                                         ELSE "TASK_ASSIGNED",
                              q.task, q.seen.project, q.actor, "NONE", NextAssignee(q))
BY DEF UpdateEntries, Entry

LEMMA NotifyStamped ==
    ASSUME NEW type, NEW t, NEW actor, NEW recipient, NEW n \in Notify(type, t, actor, recipient)
    PROVE  /\ n.stamp = stamp /\ n.task = t /\ n.type = type /\ n.recipient = recipient
           /\ recipient # actor /\ recipient # NoOne
BY DEF Notify

LEMMA StampedInit == Init => Stamped
BY DEF Init, Stamped, Pending, Idle

LEMMA StampedNext == TypeOK /\ Stamped /\ [Next]_vars => Stamped'
<1> SUFFICES ASSUME TypeOK, Stamped, [Next]_vars PROVE Stamped'
  OBVIOUS
<1>t. /\ log \subseteq LogRow /\ notifications \subseteq NotificationRow
      /\ stamp \in Nat /\ now \in Nat
      /\ request \in [Slot -> {Idle} \cup UpdateRequest \cup DeleteRequest]
      /\ sweep \in [Sweeper -> {Idle} \cup RunningSweep]
  BY DEF TypeOK
<1>u. /\ \A e \in log : e.stamp \in Nat /\ e.stamp < stamp
      /\ \A n \in notifications : n.stamp \in Nat /\ n.stamp < stamp
      /\ \A r \in Slot : Pending(r)
      /\ \A i \in Sweeper : sweep[i] # Idle => sweep[i].at <= now
  BY <1>t DEF Stamped, LogRow, NotificationRow
<1>v. \A r \in Slot : request[r].pc = "deleting" => request[r].entry \in LogRow
  BY <1>t DEF Idle, UpdateRequest, DeleteRequest
<1>w. \A e \in LogRow : e.stamp \in Nat
  BY DEF LogRow
<1>1. CASE UNCHANGED vars
  BY <1>1 DEF vars, Stamped, Pending, Live
<1>2. CASE CreateTask
  <2>1. PICK u \in Active, t \in Task, draft \in Draft :
          /\ tasks' = [x \in Live \cup {t} |-> IF x = t THEN NewRow(draft) ELSE tasks[x]]
          /\ log' = log \cup CreationEntries(u, t, draft)
          /\ notifications' = notifications \cup Notify("TASK_ASSIGNED", t, u, draft.assignee)
    BY <1>2 DEF CreateTask
  <2>2. stamp' = stamp + 1 /\ UNCHANGED <<now, request, sweep>>
    BY <1>2 DEF CreateTask
  <2>3. \A e \in CreationEntries(u, t, draft) : e.stamp = stamp
    BY DEF CreationEntries, Entry
  <2>4. Live \subseteq Live'
    BY <2>1 DEF Live
  <2>5. \A r \in Slot : Pending(r)'
    BY <1>t, <1>u, <1>v, <1>w, <2>2, <2>4 DEF Pending
  <2>6. QED
    BY <1>t, <1>u, <2>1, <2>2, <2>3, <2>5, NotifyStamped DEF Stamped
<1>3. ASSUME NEW r \in Slot, BeginUpdate(r) \/ BeginDelete(r) PROVE Stamped'
  <2>1. request' = [request EXCEPT ![r] = request'[r]] /\ request'[r].pc # "deleting"
    BY <1>t, <1>3 DEF BeginUpdate, BeginDelete
  <2>2. UNCHANGED <<tasks, log, notifications, stamp, now, sweep>>
    BY <1>3 DEF BeginUpdate, BeginDelete
  <2>3. \A s \in Slot : Pending(s)'
    BY <1>t, <1>u, <2>1, <2>2 DEF Pending, Live
  <2>4. QED
    BY <1>u, <2>2, <2>3 DEF Stamped
<1>4. ASSUME NEW r \in Slot, CommitUpdate(r) PROVE Stamped'
  <2>1. /\ log' = log \cup UpdateEntries(request[r])
        /\ notifications' = notifications \cup UpdateNotifications(request[r])
        /\ stamp' = stamp + 1 /\ Live' = Live /\ UNCHANGED <<now, sweep>>
        /\ request' = [request EXCEPT ![r] = Idle]
    BY <1>4 DEF CommitUpdate, Live
  <2>2. \A n \in UpdateNotifications(request[r]) : n.stamp = stamp
    BY NotifyStamped DEF UpdateNotifications
  <2>3. \A e \in UpdateEntries(request[r]) : e.stamp = stamp
    BY UpdateEntriesSay
  <2>4. \A s \in Slot : Pending(s)'
    BY <1>t, <1>u, <1>v, <1>w, <2>1 DEF Pending, Idle
  <2>5. QED
    BY <1>t, <1>u, <2>1, <2>2, <2>3, <2>4 DEF Stamped
<1>5. ASSUME NEW r \in Slot, DropUpdate(r) \/ AbortDelete(r) \/ RequestDies(r) PROVE Stamped'
  <2>1. /\ request' = [request EXCEPT ![r] = Idle]
        /\ UNCHANGED <<tasks, log, notifications, stamp, now, sweep>>
    BY <1>5 DEF DropUpdate, AbortDelete, RequestDies, database
  <2>2. \A s \in Slot : Pending(s)'
    BY <1>t, <1>u, <2>1 DEF Pending, Live, Idle
  <2>3. QED
    BY <1>u, <2>1, <2>2 DEF Stamped
<1>6. ASSUME NEW r \in Slot, RecordDeletion(r) PROVE Stamped'
  <2>1. /\ request' = [request EXCEPT ![r] =
               [pc |-> "deleting", task |-> request[r].task,
                entry |-> Entry("TASK_DELETED", request[r].task, request[r].project,
                                request[r].actor, "NONE", NoOne)]]
        /\ request[r].task \in Live
        /\ stamp' = stamp + 1 /\ UNCHANGED <<tasks, log, notifications, now, sweep>>
    BY <1>6 DEF RecordDeletion
  <2>2. Pending(r)'
    BY <1>t, <2>1 DEF Pending, Entry, Live
  <2>3. \A s \in Slot \ {r} : Pending(s)'
    BY <1>t, <1>u, <1>v, <1>w, <2>1 DEF Pending, Live
  <2>4. QED
    BY <1>t, <1>u, <2>1, <2>2, <2>3 DEF Stamped
<1>7. ASSUME NEW r \in Slot, CommitDelete(r) PROVE Stamped'
  <2> DEFINE q == request[r]
  <2>1. /\ request[r].pc = "deleting"
        /\ RowFree(r, q.task)
        /\ Live' = Live \ {q.task}
        /\ log' = {Detach(e, q.task) : e \in log \cup {q.entry}}
        /\ notifications' \subseteq notifications
        /\ request' = [request EXCEPT ![r] = Idle]
        /\ UNCHANGED <<stamp, now, sweep>>
    BY <1>7 DEF CommitDelete, Live
  <2>2. \A e \in log \cup {q.entry} : e \in LogRow /\ e.stamp < stamp
    BY <1>t, <1>u, <1>v, <2>1 DEF Pending
  <2>3. \A e \in log' : e.stamp < stamp'
    <3>1. ASSUME NEW e \in log \cup {q.entry} PROVE Detach(e, q.task).stamp < stamp
      <4>1. Detach(e, q.task).stamp = e.stamp
        BY <2>2, DetachKeeps
      <4>2. QED
        BY <2>2, <4>1
    <3>2. QED
      BY <2>1, <3>1
  <2>4. \A s \in Slot : Pending(s)'
    BY <1>t, <1>u, <2>1 DEF Pending, RowFree, Deleting, Idle
  <2>5. QED
    BY <1>u, <2>1, <2>3, <2>4 DEF Stamped
<1>8. ASSUME NEW i \in Sweeper, SweepClear(i) \/ SweepPick(i) \/ SweepFails(i) PROVE Stamped'
  <2>1. UNCHANGED <<log, notifications, stamp, now, request>> /\ Live' = Live
    BY <1>8 DEF SweepClear, SweepPick, SweepFails, database, Live
  <2>2. /\ sweep' = [sweep EXCEPT ![i] = sweep'[i]]
        /\ sweep'[i] # Idle => sweep'[i].at <= now
    <3>1. CASE SweepClear(i)
      BY <1>t, <3>1 DEF SweepClear
    <3>2. CASE SweepPick(i)
      <4>1. PICK ids \in Batches(sweep[i].at) :
              sweep' = [sweep EXCEPT ![i] =
                  IF ids = {} THEN Idle ELSE [pc |-> "claim", at |-> sweep[i].at, ids |-> ids]]
        BY <3>2 DEF SweepPick
      <4>2. sweep[i] # Idle
        BY <3>2 DEF SweepPick, Idle
      <4>3. QED
        BY <1>t, <1>u, <4>1, <4>2
    <3>3. CASE SweepFails(i)
      BY <1>t, <3>3 DEF SweepFails
    <3>4. QED
      BY <1>8, <3>1, <3>2, <3>3
  <2>3. QED
    BY <1>t, <1>u, <2>1, <2>2 DEF Stamped, Pending
<1>9. ASSUME NEW i \in Sweeper, SweepClaim(i) PROVE Stamped'
  <2>1. /\ log' = log \cup {Entry("TASK_OVERDUE", t, tasks[t].project, NoOne, "NONE", NoOne) :
                               t \in Claimed(i)}
        /\ notifications' = notifications \cup
               UNION {Notify("TASK_OVERDUE", t, NoOne, tasks[t].assignee) : t \in Claimed(i)}
        /\ stamp' = IF Claimed(i) = {} THEN stamp ELSE stamp + 1
        /\ sweep' = [sweep EXCEPT ![i] = Idle]
        /\ Live' = Live /\ UNCHANGED <<now, request>>
    BY <1>9 DEF SweepClaim, Live
  <2>2. \A e \in log' : e.stamp < stamp'
    BY <1>t, <1>u, <2>1 DEF Entry
  <2>3. \A n \in notifications' : n.stamp < stamp'
    BY <1>t, <1>u, <2>1, NotifyStamped
  <2>4. \A s \in Slot : Pending(s)'
    BY <1>t, <1>u, <1>v, <1>w, <2>1 DEF Pending
  <2>5. QED
    BY <1>t, <1>u, <2>1, <2>2, <2>3, <2>4 DEF Stamped
<1>10. CASE Tick
  <2>1. now' = now + 1 /\ UNCHANGED <<tasks, log, notifications, stamp, request, sweep>>
    BY <1>10 DEF Tick, database
  <2>2. \A i \in Sweeper : sweep[i] # Idle => sweep[i].at <= now'
    <3>1. \A i \in Sweeper : sweep[i] # Idle => sweep[i].at \in Nat
      BY <1>t DEF RunningSweep
    <3>2. QED
      BY <1>t, <1>u, <2>1, <3>1
  <2>3. QED
    BY <1>u, <2>1, <2>2 DEF Stamped, Pending, Live
<1>11. QED
  BY <1>1, <1>2, <1>3, <1>4, <1>5, <1>6, <1>7, <1>8, <1>9, <1>10
     DEF Next, RequestStep, SweepStep

-----------------------------------------------------------------------------
(* The log tells the status and the assignee of every task                 *)

\* A step that adds no entry about t to either list, and leaves both columns,
\* leaves the two in agreement.
LEMMA AuditFrame ==
    ASSUME NEW t, StatusAudited(t), AssigneeAudited(t),
           StatusEntries(t)' = StatusEntries(t), AssigneeEntries(t)' = AssigneeEntries(t),
           tasks'[t].status = tasks[t].status, tasks'[t].assignee = tasks[t].assignee
    PROVE  StatusAudited(t)' /\ AssigneeAudited(t)'
BY DEF StatusAudited, AssigneeAudited, IsLatest

\* Entries of other kinds, or about other tasks, are in neither list.
LEMMA OtherEntries ==
    ASSUME NEW t, NEW added, log' = log \cup added,
           \A e \in added : \/ e.task # t
                            \/ e.type \notin {"TASK_CREATED", "TASK_STATUS_CHANGED",
                                              "TASK_ASSIGNED", "TASK_UNASSIGNED"}
    PROVE  StatusEntries(t)' = StatusEntries(t) /\ AssigneeEntries(t)' = AssigneeEntries(t)
BY DEF StatusEntries, AssigneeEntries

LEMMA AuditNext == TypeOK /\ Stamped /\ AuditMatchesRow /\ [Next]_vars => AuditMatchesRow'
<1> SUFFICES ASSUME TypeOK, Stamped, AuditMatchesRow, [Next]_vars PROVE AuditMatchesRow'
  OBVIOUS
<1>t. /\ log \subseteq LogRow /\ stamp \in Nat /\ tasks \in [Live -> TaskRow]
      /\ request \in [Slot -> {Idle} \cup UpdateRequest \cup DeleteRequest]
      /\ \A e \in log : e.stamp < stamp
  BY DEF TypeOK, Stamped
<1>a. \A t \in Live : StatusAudited(t) /\ AssigneeAudited(t)
  BY DEF AuditMatchesRow
<1>1. CASE UNCHANGED <<tasks, log>>
  BY <1>1, <1>a DEF AuditMatchesRow, StatusAudited, AssigneeAudited, StatusEntries,
                    AssigneeEntries, IsLatest, Live
<1>2. CASE CreateTask
  <2>1. PICK u \in Active, t \in Task, draft \in Draft :
          /\ Unused(t)
          /\ tasks' = [x \in Live \cup {t} |-> IF x = t THEN NewRow(draft) ELSE tasks[x]]
          /\ log' = log \cup CreationEntries(u, t, draft)
    BY <1>2 DEF CreateTask
  <2> DEFINE c == Entry("TASK_CREATED", t, draft.project, u, draft.status, NoOne)
             a == Entry("TASK_ASSIGNED", t, draft.project, u, "NONE", draft.assignee)
  <2>2. /\ tasks'[t].status = draft.status /\ tasks'[t].assignee = draft.assignee
        /\ Live' = Live \cup {t}
    BY <2>1 DEF NewRow, Live
  <2>3. StatusAudited(t)'
    <3>1. StatusEntries(t)' = {c}
      BY <2>1 DEF StatusEntries, Unused, CreationEntries, Entry
    <3>2. c.to = draft.status
      BY DEF Entry
    <3>3. QED
      BY <2>2, <3>1, <3>2 DEF StatusAudited, IsLatest
  <2>4. AssigneeAudited(t)'
    <3>1. AssigneeEntries(t)' = IF draft.assignee = NoOne THEN {} ELSE {a}
      BY <2>1 DEF AssigneeEntries, Unused, CreationEntries, Entry
    <3>2. a.assignee = draft.assignee
      BY DEF Entry
    <3>3. QED
      BY <2>2, <3>1, <3>2 DEF AssigneeAudited, IsLatest
  <2>5. ASSUME NEW x \in Live, x # t PROVE StatusAudited(x)' /\ AssigneeAudited(x)'
    <3>1. \A e \in CreationEntries(u, t, draft) : e.task # x
      BY <2>5 DEF CreationEntries, Entry
    <3>2. StatusEntries(x)' = StatusEntries(x) /\ AssigneeEntries(x)' = AssigneeEntries(x)
      BY <2>1, <3>1, OtherEntries
    <3>3. tasks'[x] = tasks[x]
      BY <2>1, <2>5
    <3>4. QED
      BY <1>a, <2>5, <3>2, <3>3, AuditFrame
  <2>6. QED
    BY <2>2, <2>3, <2>4, <2>5 DEF AuditMatchesRow
<1>3. ASSUME NEW r \in Slot, CommitUpdate(r) PROVE AuditMatchesRow'
  <2> DEFINE q == request[r]
             s == Entry("TASK_STATUS_CHANGED", q.task, q.seen.project, q.actor, NextStatus(q), NoOne)
             a == Entry(IF NextAssignee(q) = NoOne THEN "TASK_UNASSIGNED" ELSE "TASK_ASSIGNED",
                        q.task, q.seen.project, q.actor, "NONE", NextAssignee(q))
  <2>1. PICK at \in q.at .. now :
          /\ q.task \in Live
          /\ tasks' = [tasks EXCEPT ![q.task] = UpdatedRow(tasks[q.task], q, at)]
          /\ log' = log \cup UpdateEntries(q)
    BY <1>3 DEF CommitUpdate
  <2>2. Live' = Live
    BY <1>t, <2>1 DEF Live
  <2>3. ASSUME NEW x \in Live, x # q.task PROVE StatusAudited(x)' /\ AssigneeAudited(x)'
    <3>1. \A e \in UpdateEntries(q) : e.task # x
      BY <2>3, UpdateEntriesSay
    <3>2. StatusEntries(x)' = StatusEntries(x) /\ AssigneeEntries(x)' = AssigneeEntries(x)
      BY <2>1, <3>1, OtherEntries
    <3>3. tasks'[x] = tasks[x]
      BY <1>t, <2>1, <2>3
    <3>4. QED
      BY <1>a, <2>3, <3>2, <3>3, AuditFrame
  <2>4. tasks'[q.task] = UpdatedRow(tasks[q.task], q, at)
    BY <1>t, <2>1
  <2>5. ASSUME NEW t \in Live, t = q.task PROVE StatusAudited(t)'
    <3>1. CASE ~StatusChanges(q)
      <4>1. StatusEntries(t)' = StatusEntries(t)
        BY <2>1, <2>5, <3>1, UpdateEntriesSay DEF StatusEntries
      <4>2. tasks'[t].status = tasks[t].status
        BY <2>4, <2>5, <3>1 DEF UpdatedRow
      <4>3. QED
        BY <1>a, <4>1, <4>2 DEF StatusAudited, IsLatest
    <3>2. CASE StatusChanges(q)
      <4>1. s \in UpdateEntries(q)
        BY <3>2 DEF UpdateEntries
      <4>2. s.task = t /\ s.type = "TASK_STATUS_CHANGED" /\ s.stamp = stamp /\ s.to = NextStatus(q)
        BY <2>5 DEF Entry
      <4>3. StatusEntries(t)' = StatusEntries(t) \cup {s}
        BY <2>1, <2>5, <4>1, <4>2, UpdateEntriesSay DEF StatusEntries
      <4>4. \A f \in StatusEntries(t) : f.stamp < s.stamp
        BY <1>t, <4>2 DEF StatusEntries
      <4>5. tasks'[t].status = NextStatus(q)
        BY <2>4, <2>5, <3>2 DEF UpdatedRow
      <4> HIDE DEF s
      <4>6. QED
        BY <4>2, <4>3, <4>4, <4>5 DEF StatusAudited, IsLatest
    <3>3. QED
      BY <3>1, <3>2
  <2>6. ASSUME NEW t \in Live, t = q.task PROVE AssigneeAudited(t)'
    <3>1. CASE ~AssigneeChanges(q)
      <4>1. AssigneeEntries(t)' = AssigneeEntries(t)
        BY <2>1, <2>6, <3>1, UpdateEntriesSay DEF AssigneeEntries
      <4>2. tasks'[t].assignee = tasks[t].assignee
        BY <2>4, <2>6, <3>1 DEF UpdatedRow
      <4>3. QED
        BY <1>a, <4>1, <4>2 DEF AssigneeAudited, IsLatest
    <3>2. CASE AssigneeChanges(q)
      <4>1. a \in UpdateEntries(q)
        BY <3>2 DEF UpdateEntries
      <4>2. /\ a.task = t /\ a.type \in {"TASK_ASSIGNED", "TASK_UNASSIGNED"}
            /\ a.stamp = stamp /\ a.assignee = NextAssignee(q)
        BY <2>6 DEF Entry
      <4>3. AssigneeEntries(t)' = AssigneeEntries(t) \cup {a}
        BY <2>1, <2>6, <4>1, <4>2, UpdateEntriesSay DEF AssigneeEntries
      <4>4. \A f \in AssigneeEntries(t) : f.stamp < a.stamp
        BY <1>t, <4>2 DEF AssigneeEntries
      <4>5. tasks'[t].assignee = NextAssignee(q)
        BY <2>4, <2>6, <3>2 DEF UpdatedRow
      <4> HIDE DEF a
      <4>6. QED
        BY <4>2, <4>3, <4>4, <4>5 DEF AssigneeAudited, IsLatest
    <3>3. QED
      BY <3>1, <3>2
  <2>7. QED
    BY <2>2, <2>3, <2>5, <2>6 DEF AuditMatchesRow
<1>4. ASSUME NEW r \in Slot, CommitDelete(r) PROVE AuditMatchesRow'
  <2> DEFINE q == request[r]
  <2>1. /\ q.pc = "deleting"
        /\ tasks' = [x \in Live \ {q.task} |-> tasks[x]]
        /\ log' = {Detach(e, q.task) : e \in log \cup {q.entry}}
    BY <1>4 DEF CommitDelete
  <2>2. q.entry \in LogRow /\ q.entry.type = "TASK_DELETED"
    BY <1>t, <2>1 DEF Stamped, Pending, Idle, UpdateRequest, DeleteRequest
  <2>3. ASSUME NEW x \in Live' PROVE StatusAudited(x)' /\ AssigneeAudited(x)'
    <3>1. x \in Live /\ x # q.task /\ tasks'[x] = tasks[x]
      BY <2>1, <2>3 DEF Live
    <3>2. ASSUME NEW e \in log \cup {q.entry}
          PROVE  /\ Detach(e, q.task).task = e.task /\ Detach(e, q.task).type = e.type
                 /\ e.task = x => Detach(e, q.task) = e
      <4>1. e \in LogRow
        BY <1>t, <2>2
      <4>2. Detach(e, q.task).task = e.task /\ Detach(e, q.task).type = e.type
        BY <4>1, DetachKeeps
      <4>3. e.task = x => Detach(e, q.task) = e
        BY <3>1 DEF Detach
      <4>4. QED
        BY <4>2, <4>3
    <3>3. StatusEntries(x)' = StatusEntries(x) /\ AssigneeEntries(x)' = AssigneeEntries(x)
      BY <2>1, <2>2, <3>2 DEF StatusEntries, AssigneeEntries
    <3>4. QED
      BY <1>a, <3>1, <3>3, AuditFrame
  <2>4. QED
    BY <2>3 DEF AuditMatchesRow
<1>5. ASSUME NEW i \in Sweeper, SweepClear(i) \/ SweepClaim(i) PROVE AuditMatchesRow'
  <2>1. /\ Live' = Live
        /\ \A x \in Live : tasks'[x].status = tasks[x].status /\ tasks'[x].assignee = tasks[x].assignee
    <3>1. ASSUME NEW row \in TaskRow, NEW b \in BOOLEAN
          PROVE  [row EXCEPT !.overdue = b].status = row.status
                 /\ [row EXCEPT !.overdue = b].assignee = row.assignee
      BY DEF TaskRow
    <3>2. PICK C \in SUBSET Live, b \in BOOLEAN :
            tasks' = [x \in Live |-> IF x \in C THEN [tasks[x] EXCEPT !.overdue = b] ELSE tasks[x]]
      <4>1. CASE SweepClear(i)
        <5> DEFINE C == {x \in Live : StaleFlag(tasks[x], now)}
        <5>1. tasks' = [x \in Live |-> IF x \in C THEN [tasks[x] EXCEPT !.overdue = FALSE] ELSE tasks[x]]
          BY <4>1 DEF SweepClear
        <5>2. QED
          BY <5>1
      <4>2. CASE SweepClaim(i)
        <5>1. tasks' = [x \in Live |-> IF x \in Claimed(i) THEN [tasks[x] EXCEPT !.overdue = TRUE] ELSE tasks[x]]
          BY <4>2 DEF SweepClaim
        <5>2. Claimed(i) \in SUBSET Live
          BY DEF Claimed
        <5>3. QED
          BY <5>1, <5>2
      <4>3. QED
        BY <1>5, <4>1, <4>2
    <3>3. QED
      BY <1>t, <3>1, <3>2 DEF Live
  <2>2. PICK added : /\ log' = log \cup added
                     /\ \A e \in added : e.type = "TASK_OVERDUE"
    <3>1. CASE SweepClear(i)
      <4> DEFINE new == log' \ log
      <4>1. log' = log \cup new /\ \A e \in new : e.type = "TASK_OVERDUE"
        BY <3>1 DEF SweepClear
      <4> HIDE DEF new
      <4>2. QED
        BY <4>1
    <3>2. CASE SweepClaim(i)
      <4> DEFINE new == {Entry("TASK_OVERDUE", t, tasks[t].project, NoOne, "NONE", NoOne) :
                            t \in Claimed(i)}
      <4>1. log' = log \cup new /\ \A e \in new : e.type = "TASK_OVERDUE"
        BY <3>2 DEF SweepClaim, Entry
      <4>2. QED
        BY <4>1
    <3>3. QED
      BY <1>5, <3>1, <3>2
  <2>3. ASSUME NEW x \in Live PROVE StatusAudited(x)' /\ AssigneeAudited(x)'
    BY <1>a, <2>1, <2>2, <2>3, OtherEntries, AuditFrame
  <2>4. QED
    BY <2>1, <2>3 DEF AuditMatchesRow
<1>6. QED
  <2>1. ASSUME NEW r \in Slot,
               \/ BeginUpdate(r) \/ DropUpdate(r) \/ BeginDelete(r)
               \/ RecordDeletion(r) \/ AbortDelete(r) \/ RequestDies(r)
        PROVE  UNCHANGED <<tasks, log>>
    BY <2>1 DEF BeginUpdate, DropUpdate, BeginDelete, RecordDeletion, AbortDelete, RequestDies,
           database
  <2>2. ASSUME NEW i \in Sweeper, SweepPick(i) \/ SweepFails(i) PROVE UNCHANGED <<tasks, log>>
    BY <2>2 DEF SweepPick, SweepFails, database
  <2>3. Tick \/ UNCHANGED vars => UNCHANGED <<tasks, log>>
    BY DEF Tick, database, vars
  <2>4. QED
    BY <1>1, <1>2, <1>3, <1>4, <1>5, <2>1, <2>2, <2>3 DEF Next, RequestStep, SweepStep

\* The audit trail and the board agree, for every interleaving of any number of
\* updates decided on stale snapshots, deletions and sweeps.
THEOREM AuditCorrect == Spec => []AuditMatchesRow
<1>1. Init => AuditMatchesRow
  BY DEF Init, AuditMatchesRow, Live
<1>2. QED
  BY TypeInit, TypeNext, StampedInit, StampedNext, <1>1, AuditNext, PTL DEF Spec

-----------------------------------------------------------------------------
(* Deletions *)

LEMMA DeletionNext == TypeOK /\ Stamped /\ DeletionAudited /\ [Next]_vars => DeletionAudited'
<1> SUFFICES ASSUME TypeOK, Stamped, DeletionAudited, [Next]_vars PROVE DeletionAudited'
  OBVIOUS
<1>t. /\ log \subseteq LogRow /\ tasks \in [Live -> TaskRow]
      /\ request \in [Slot -> {Idle} \cup UpdateRequest \cup DeleteRequest]
  BY DEF TypeOK
<1>a. \A e \in log : IF e.task \in Live THEN e.linked /\ Deletions(e.task) = {}
                     ELSE ~e.linked /\ \E d \in log : Deletions(e.task) = {d}
  BY DEF DeletionAudited
\* Entries that are no deletions, about tasks that are there.
<1>b. ASSUME NEW added, log' = log \cup added, Live \subseteq Live',
             \A e \in log : e.task \in Live' => e.task \in Live,
             \A e \in added : e.linked /\ e.task \in Live' /\ e.type # "TASK_DELETED"
      PROVE  DeletionAudited'
  <2>1. \A e \in log' : Deletions(e.task)' = Deletions(e.task)
    BY <1>b DEF Deletions
  <2>2. \A e \in log' : e.task \in Live' \ Live => Deletions(e.task) = {}
    BY <1>b DEF Deletions
  <2>3. ASSUME NEW e \in log'
        PROVE  IF e.task \in Live' THEN e.linked /\ Deletions(e.task)' = {}
               ELSE ~e.linked /\ \E d \in log' : Deletions(e.task)' = {d}
    <3>1. CASE e \in log
      BY <1>a, <1>b, <2>1, <3>1
    <3>2. CASE e \in added
      <4>1. Deletions(e.task) = {}
        BY <1>a, <1>b, <2>2, <3>2 DEF Deletions
      <4>2. QED
        BY <1>b, <2>1, <3>2, <4>1
    <3>3. QED
      BY <1>b, <3>1, <3>2
  <2>4. QED
    BY <2>3 DEF DeletionAudited
<1>1. CASE UNCHANGED <<tasks, log>>
  BY <1>1, <1>a DEF DeletionAudited, Deletions, Live
<1>2. CASE CreateTask
  <2>1. PICK u \in Active, t \in Task, draft \in Draft :
          /\ Unused(t)
          /\ tasks' = [x \in Live \cup {t} |-> IF x = t THEN NewRow(draft) ELSE tasks[x]]
          /\ log' = log \cup CreationEntries(u, t, draft)
    BY <1>2 DEF CreateTask
  <2>2. Live' = Live \cup {t} /\ \A e \in log : e.task # t
    BY <2>1 DEF Live, Unused
  <2>3. \A e \in CreationEntries(u, t, draft) :
          e.linked /\ e.task \in Live' /\ e.type # "TASK_DELETED"
    BY <2>2 DEF CreationEntries, Entry
  <2>4. QED
    BY <1>b, <2>1, <2>2, <2>3
<1>3. ASSUME NEW r \in Slot, CommitUpdate(r) PROVE DeletionAudited'
  <2>1. PICK at : /\ request[r].task \in Live
                  /\ tasks' = [tasks EXCEPT ![request[r].task] =
                                   UpdatedRow(tasks[request[r].task], request[r], at)]
                  /\ log' = log \cup UpdateEntries(request[r])
    BY <1>3 DEF CommitUpdate
  <2>2. Live' = Live
    BY <1>t, <2>1 DEF Live
  <2>3. \A e \in UpdateEntries(request[r]) :
          e.linked /\ e.task \in Live' /\ e.type # "TASK_DELETED"
    BY <2>1, <2>2, UpdateEntriesSay
  <2>4. QED
    BY <1>b, <2>1, <2>2, <2>3
<1>4. ASSUME NEW r \in Slot, CommitDelete(r) PROVE DeletionAudited'
  <2> DEFINE q == request[r]
  <2>1. PICK t : t = q.task
    OBVIOUS
  <2>2. /\ q.pc = "deleting" /\ Live' = Live \ {t}
        /\ log' = {Detach(e, t) : e \in log \cup {q.entry}}
    BY <1>4, <2>1 DEF CommitDelete, Live
  <2>3. PICK d \in LogRow : d = q.entry /\ d.type = "TASK_DELETED" /\ d.task = t /\ t \in Live
    BY <1>t, <2>1, <2>2 DEF Stamped, Pending, Idle, UpdateRequest, DeleteRequest
  <2>4. ASSUME NEW e \in log \cup {d}
        PROVE  /\ Detach(e, t).task = e.task /\ Detach(e, t).type = e.type
               /\ e.task = t => ~Detach(e, t).linked
               /\ e.task # t => Detach(e, t) = e
    <3>1. e \in LogRow
      BY <1>t
    <3>2. Detach(e, t).linked = IF e.task = t THEN FALSE ELSE e.linked
      BY <3>1, DetachKeeps
    <3>3. QED
      BY <3>1, <3>2, DetachKeeps
  <2>5. Deletions(t)' = {Detach(d, t)}
    <3>1. \A e \in log : e.task = t => e.type # "TASK_DELETED"
      BY <1>a, <2>3 DEF Deletions
    <3>2. QED
      BY <2>2, <2>3, <2>4, <3>1 DEF Deletions
  <2>6. ASSUME NEW x, x # t PROVE Deletions(x)' = Deletions(x)
    BY <2>2, <2>3, <2>4, <2>6 DEF Deletions
  <2>7. ASSUME NEW e \in log \cup {d}, NEW f, f = Detach(e, t)
        PROVE  IF f.task \in Live' THEN f.linked /\ Deletions(f.task)' = {}
               ELSE ~f.linked /\ \E g \in log' : Deletions(f.task)' = {g}
    <3>1. CASE e.task = t
      BY <2>2, <2>3, <2>4, <2>5, <2>7, <3>1
    <3>2. CASE e.task # t
      <4>1. e \in log /\ f = e /\ (e.task \in Live' <=> e.task \in Live)
        BY <2>2, <2>3, <2>4, <2>7, <3>2
      <4>2. Deletions(e.task)' = Deletions(e.task)
        BY <2>6, <3>2
      <4>3. \A g \in Deletions(e.task) : g \in log'
        BY <2>2, <2>4, <3>2 DEF Deletions
      <4>4. QED
        BY <1>a, <4>1, <4>2, <4>3
    <3>3. QED
      BY <3>1, <3>2
  <2>8. QED
    BY <2>2, <2>3, <2>7 DEF DeletionAudited
<1>5. ASSUME NEW i \in Sweeper, SweepClear(i) PROVE DeletionAudited'
  <2>1. Live' = Live /\ log' = log
    BY <1>5 DEF SweepClear, Live
  <2>2. QED
    BY <1>a, <2>1 DEF DeletionAudited, Deletions
<1>6. ASSUME NEW i \in Sweeper, SweepClaim(i) PROVE DeletionAudited'
  <2> DEFINE new == {Entry("TASK_OVERDUE", t, tasks[t].project, NoOne, "NONE", NoOne) :
                        t \in Claimed(i)}
  <2>1. Live' = Live /\ log' = log \cup new
    BY <1>6 DEF SweepClaim, Live
  <2>2. \A e \in new : e.linked /\ e.task \in Live' /\ e.type # "TASK_DELETED"
    BY <2>1 DEF Entry, Claimed
  <2> HIDE DEF new
  <2>3. QED
    BY <1>b, <2>1, <2>2
<1>7. QED
  <2>1. ASSUME NEW r \in Slot,
               \/ BeginUpdate(r) \/ DropUpdate(r) \/ BeginDelete(r)
               \/ RecordDeletion(r) \/ AbortDelete(r) \/ RequestDies(r)
        PROVE  UNCHANGED <<tasks, log>>
    BY <2>1 DEF BeginUpdate, DropUpdate, BeginDelete, RecordDeletion, AbortDelete, RequestDies,
           database
  <2>2. ASSUME NEW i \in Sweeper, SweepPick(i) \/ SweepFails(i) PROVE UNCHANGED <<tasks, log>>
    BY <2>2 DEF SweepPick, SweepFails, database
  <2>3. Tick \/ UNCHANGED vars => UNCHANGED <<tasks, log>>
    BY DEF Tick, database, vars
  <2>4. QED
    BY <1>1, <1>2, <1>3, <1>4, <1>5, <1>6, <2>1, <2>2, <2>3 DEF Next, RequestStep, SweepStep

\* A deleted task leaves one TASK_DELETED entry and a history detached from it,
\* however many deletions, updates and sweeps reach it at once.
THEOREM DeletionCorrect == Spec => []DeletionAudited
<1>1. Init => DeletionAudited
  BY DEF Init, DeletionAudited
<1>2. QED
  BY TypeInit, TypeNext, StampedInit, StampedNext, <1>1, DeletionNext, PTL DEF Spec

-----------------------------------------------------------------------------
(* The sweep announces each late task once                                 *)

LEMMA SweepStepOnce ==
    TypeOK /\ Stamped /\ [Next]_vars => \A t \in Live \cap DOMAIN tasks' : AnnouncedOnce(t)
<1> SUFFICES ASSUME TypeOK, Stamped, [Next]_vars, NEW t \in Live, t \in DOMAIN tasks'
             PROVE  AnnouncedOnce(t)
  OBVIOUS
<1>t. /\ log \subseteq LogRow /\ tasks \in [Live -> TaskRow] /\ stamp \in Nat /\ now \in Nat
      /\ request \in [Slot -> {Idle} \cup UpdateRequest \cup DeleteRequest]
      /\ sweep \in [Sweeper -> {Idle} \cup RunningSweep]
  BY DEF TypeOK
<1>a. ASSUME ~Flagged(t),
             \A e \in log' \ log : e.task # t \/ e.type # "TASK_OVERDUE",
             \A n \in notifications' \ notifications : n.type # "TASK_OVERDUE"
      PROVE  AnnouncedOnce(t)
  BY <1>a DEF AnnouncedOnce, NewOverdueEntries, NewlyTold
<1>b. ASSUME ~Flagged(t), UNCHANGED <<log, notifications>> PROVE AnnouncedOnce(t)
  BY <1>a, <1>b
<1>1. CASE UNCHANGED vars
  BY <1>b, <1>1 DEF vars, Flagged
<1>2. CASE CreateTask
  <2>1. PICK u, x, draft :
          /\ log' = log \cup CreationEntries(u, x, draft)
          /\ notifications' = notifications \cup Notify("TASK_ASSIGNED", x, u, draft.assignee)
    BY <1>2 DEF CreateTask
  <2>2. \A e \in CreationEntries(u, x, draft) : e.type # "TASK_OVERDUE"
    BY DEF CreationEntries, Entry
  <2>3. ~Flagged(t)
    BY <1>2 DEF CreateTask, Flagged
  <2>4. QED
    BY <1>a, <2>1, <2>2, <2>3, NotifyStamped
<1>3. ASSUME NEW r \in Slot, CommitUpdate(r) PROVE AnnouncedOnce(t)
  <2>1. /\ log' = log \cup UpdateEntries(request[r])
        /\ notifications' = notifications \cup UpdateNotifications(request[r])
        /\ ~Flagged(t)
    BY <1>3 DEF CommitUpdate, Flagged
  <2>2. \A n \in UpdateNotifications(request[r]) : n.type # "TASK_OVERDUE"
    BY NotifyStamped DEF UpdateNotifications
  <2>3. \A e \in UpdateEntries(request[r]) : e.type # "TASK_OVERDUE"
    BY UpdateEntriesSay
  <2>4. QED
    BY <1>a, <2>1, <2>2, <2>3
<1>4. ASSUME NEW r \in Slot, CommitDelete(r) PROVE AnnouncedOnce(t)
  <2>1. /\ request[r].pc = "deleting" /\ t # request[r].task /\ ~Flagged(t)
        /\ log' = {Detach(e, request[r].task) : e \in log \cup {request[r].entry}}
        /\ notifications' \subseteq notifications
    BY <1>4 DEF CommitDelete, Flagged
  <2>2. request[r].entry.type = "TASK_DELETED" /\ request[r].entry.task = request[r].task
    BY <1>4, <2>1 DEF Stamped, Pending
  <2>3. \A e \in log \cup {request[r].entry} : e \in LogRow
    BY <1>t, <2>1 DEF Idle, UpdateRequest, DeleteRequest
  <2>4. ASSUME NEW e \in log \cup {request[r].entry}, Detach(e, request[r].task).task = t
        PROVE  Detach(e, request[r].task) \in log
    <3>1. e.task = t
      BY <2>3, <2>4, DetachKeeps
    <3>2. QED
      BY <2>1, <2>2, <3>1 DEF Detach
  <2>5. QED
    BY <1>a, <2>1, <2>4
<1>5. ASSUME NEW i \in Sweeper, SweepClear(i) PROVE AnnouncedOnce(t)
  <2>1. tasks'[t] = IF StaleFlag(tasks[t], now) THEN [tasks[t] EXCEPT !.overdue = FALSE] ELSE tasks[t]
    BY <1>5 DEF SweepClear
  <2>2. tasks[t] \in TaskRow
    BY <1>t
  <2>3. [tasks[t] EXCEPT !.overdue = FALSE].overdue = FALSE
    BY <2>2 DEF TaskRow
  <2>4. ~Flagged(t)
    BY <2>1, <2>3 DEF Flagged
  <2>5. QED
    BY <1>b, <1>5, <2>4 DEF SweepClear
<1>6. ASSUME NEW i \in Sweeper, SweepClaim(i) PROVE AnnouncedOnce(t)
  <2> DEFINE entry(x) == Entry("TASK_OVERDUE", x, tasks[x].project, NoOne, "NONE", NoOne)
             told(x) == Notify("TASK_OVERDUE", x, NoOne, tasks[x].assignee)
  <2>1. /\ tasks'[t] = IF t \in Claimed(i) THEN [tasks[t] EXCEPT !.overdue = TRUE] ELSE tasks[t]
        /\ log' = log \cup {entry(x) : x \in Claimed(i)}
        /\ notifications' = notifications \cup UNION {told(x) : x \in Claimed(i)}
        /\ sweep' = [sweep EXCEPT ![i] = Idle] /\ sweep[i].pc = "claim"
    BY <1>6 DEF SweepClaim
  <2>2. \A x : /\ entry(x).task = x /\ entry(x).type = "TASK_OVERDUE" /\ entry(x).stamp = stamp
               /\ \A n \in told(x) : n.task = x /\ n.stamp = stamp
    BY NotifyStamped DEF Entry
  <2>3. /\ \A e \in log : e.stamp # stamp
        /\ \A n \in notifications : n.stamp # stamp
    BY <1>t DEF Stamped
  <2> HIDE DEF entry, told
  <2>4. CASE t \in Claimed(i)
    <3>1. Claimable(tasks[t], sweep[i].at) /\ tasks[t] \in TaskRow
      BY <1>t, <2>4 DEF Claimed
    <3>2. sweep[i] \in RunningSweep /\ sweep[i].at <= now /\ sweep[i] # Idle
      BY <1>t, <2>1 DEF Stamped, Idle, RunningSweep
    <3>3. IsOverdueNow(tasks[t].status, tasks[t].due, now)
      <4>1. tasks[t].due \in Nat /\ sweep[i].at \in Nat
        BY <3>1, <3>2, DueAssumption DEF Claimable, TaskRow, Due, RunningSweep
      <4>2. tasks[t].due # NoDue /\ tasks[t].status # "DONE" /\ tasks[t].due < sweep[i].at
        BY <3>1 DEF Claimable, OpenStatuses
      <4>3. tasks[t].due < now
        BY <1>t, <3>2, <4>1, <4>2
      <4>4. QED
        BY <4>2, <4>3 DEF IsOverdueNow
    <3>4. NewOverdueEntries(t) = {entry(t)} /\ entry(t) \in log'
      BY <2>1, <2>2, <2>3, <2>4 DEF NewOverdueEntries
    <3>5. NewlyTold(t) = {tasks[t].assignee} \ {NoOne}
      <4>1. {n \in notifications' \ notifications : n.task = t /\ n.type = "TASK_OVERDUE"}
              = {n \in told(t) : n.type = "TASK_OVERDUE"}
        BY <2>1, <2>2, <2>3, <2>4
      <4>2. {n \in told(t) : n.type = "TASK_OVERDUE"} = told(t)
        BY NotifyStamped DEF told
      <4>3. {n.recipient : n \in told(t)} = {tasks[t].assignee} \ {NoOne}
        <5>1. CASE tasks[t].assignee = NoOne
          <6>1. told(t) = {}
            BY <5>1 DEF told, Notify
          <6>2. QED
            BY <5>1, <6>1
        <5>2. CASE tasks[t].assignee # NoOne
          <6>1. told(t) = {[type |-> "TASK_OVERDUE", task |-> t,
                            recipient |-> tasks[t].assignee, stamp |-> stamp]}
            BY <5>2 DEF told, Notify
          <6>2. QED
            BY <5>2, <6>1
        <5>3. QED
          BY <5>1, <5>2
      <4>4. QED
        BY <4>1, <4>2, <4>3 DEF NewlyTold
    <3>6. Flagged(t)
      <4>1. sweep' # sweep
        BY <1>t, <2>1, <3>2
      <4>2. [tasks[t] EXCEPT !.overdue = TRUE].overdue = TRUE
        BY <3>1 DEF TaskRow
      <4>3. QED
        BY <2>1, <2>4, <3>1, <4>1, <4>2 DEF Flagged, Claimable
    <3>7. QED
      BY <3>3, <3>4, <3>5, <3>6 DEF AnnouncedOnce
  <2>5. CASE t \notin Claimed(i)
    <3>1. ~Flagged(t)
      BY <2>1, <2>5 DEF Flagged
    <3>2. NewOverdueEntries(t) = {}
      BY <2>1, <2>2, <2>5 DEF NewOverdueEntries
    <3>3. NewlyTold(t) = {}
      BY <2>1, <2>2, <2>5 DEF NewlyTold
    <3>4. QED
      BY <3>1, <3>2, <3>3 DEF AnnouncedOnce
  <2>6. QED
    BY <2>4, <2>5
<1>7. QED
  <2>1. ASSUME NEW r \in Slot,
               \/ BeginUpdate(r) \/ DropUpdate(r) \/ BeginDelete(r)
               \/ RecordDeletion(r) \/ AbortDelete(r) \/ RequestDies(r)
        PROVE  UNCHANGED <<tasks, log, notifications>>
    BY <2>1 DEF BeginUpdate, DropUpdate, BeginDelete, RecordDeletion, AbortDelete, RequestDies,
           database
  <2>2. ASSUME NEW i \in Sweeper, SweepPick(i) \/ SweepFails(i)
        PROVE  UNCHANGED <<tasks, log, notifications>>
    BY <2>2 DEF SweepPick, SweepFails, database
  <2>3. Tick => UNCHANGED <<tasks, log, notifications>>
    BY DEF Tick, database
  <2>4. UNCHANGED <<tasks, log, notifications>> => AnnouncedOnce(t)
    BY <1>b DEF Flagged
  <2>5. QED
    BY <1>1, <1>2, <1>3, <1>4, <1>5, <1>6, <2>1, <2>2, <2>3, <2>4 DEF Next, RequestStep, SweepStep

\* However many sweeps run and whatever updates commit between their queries, a
\* task is announced as overdue once each time a sweep flags it, and to the user
\* who holds it then.
THEOREM SweepCorrect == Spec => SweepIsExactlyOnce
<1>1. TypeOK /\ Stamped /\ [Next]_vars
        => [\A t \in Live \cap DOMAIN tasks' : AnnouncedOnce(t)]_vars
  BY SweepStepOnce
<1>2. QED
  BY TypeInit, TypeNext, StampedInit, StampedNext, <1>1, PTL DEF Spec, SweepIsExactlyOnce
-----------------------------------------------------------------------------
(* Completion                                                              *)

\* A sweep leaves every column but the flag.
LEMMA SweepKeepsStatus ==
    ASSUME TypeOK, NEW i \in Sweeper, SweepClear(i) \/ SweepClaim(i)
    PROVE  /\ Live' = Live
           /\ \A t \in Live : /\ tasks'[t].status = tasks[t].status
                             /\ tasks'[t].completed = tasks[t].completed
<1>1. \A t \in Live : tasks[t] \in TaskRow
  BY DEF TypeOK
<1>2. ASSUME NEW row \in TaskRow, NEW b \in BOOLEAN
      PROVE  /\ [row EXCEPT !.overdue = b].status = row.status
             /\ [row EXCEPT !.overdue = b].completed = row.completed
  BY DEF TaskRow
<1>3. CASE SweepClear(i)
  BY <1>1, <1>2, <1>3 DEF SweepClear, Live
<1>4. CASE SweepClaim(i)
  BY <1>1, <1>2, <1>4 DEF SweepClaim, Live
<1>5. QED
  BY <1>3, <1>4

LEMMA CompletedNext == TypeOK /\ OnlyDoneIsCompleted /\ [Next]_vars => OnlyDoneIsCompleted'
<1> SUFFICES ASSUME TypeOK, OnlyDoneIsCompleted, [Next]_vars PROVE OnlyDoneIsCompleted'
  OBVIOUS
<1>t. tasks \in [Live -> TaskRow]
  BY DEF TypeOK
<1>a. \A t \in Live : tasks[t].completed => tasks[t].status = "DONE"
  BY DEF OnlyDoneIsCompleted
<1>1. CASE UNCHANGED tasks
  BY <1>1, <1>a DEF OnlyDoneIsCompleted, Live
<1>2. CASE CreateTask
  <2>1. PICK t \in Task, draft \in Draft :
          tasks' = [x \in Live \cup {t} |-> IF x = t THEN NewRow(draft) ELSE tasks[x]]
    BY <1>2 DEF CreateTask
  <2>2. ~NewRow(draft).completed
    BY DEF NewRow
  <2>3. QED
    BY <1>a, <2>1, <2>2 DEF OnlyDoneIsCompleted, Live
<1>3. ASSUME NEW r \in Slot, CommitUpdate(r) PROVE OnlyDoneIsCompleted'
  <2> DEFINE q == request[r]
  <2>1. PICK at : /\ q.task \in Live
                  /\ tasks' = [tasks EXCEPT ![q.task] = UpdatedRow(tasks[q.task], q, at)]
    BY <1>3 DEF CommitUpdate
  <2>2. Live' = Live /\ \A x \in Live : x # q.task => tasks'[x] = tasks[x]
    BY <1>t, <2>1 DEF Live
  <2>3. tasks'[q.task] = UpdatedRow(tasks[q.task], q, at)
    BY <1>t, <2>1
  <2>4. UpdatedRow(tasks[q.task], q, at).completed
          => UpdatedRow(tasks[q.task], q, at).status = "DONE"
    BY <1>a, <2>1 DEF UpdatedRow
  <2>5. QED
    BY <1>a, <2>2, <2>3, <2>4 DEF OnlyDoneIsCompleted
<1>4. ASSUME NEW r \in Slot, CommitDelete(r) PROVE OnlyDoneIsCompleted'
  BY <1>4, <1>a DEF CommitDelete, OnlyDoneIsCompleted, Live
<1>5. ASSUME NEW i \in Sweeper, SweepClear(i) \/ SweepClaim(i) PROVE OnlyDoneIsCompleted'
  BY <1>5, <1>a, SweepKeepsStatus DEF OnlyDoneIsCompleted
<1>6. QED
  <2>1. ASSUME NEW r \in Slot,
               \/ BeginUpdate(r) \/ DropUpdate(r) \/ BeginDelete(r)
               \/ RecordDeletion(r) \/ AbortDelete(r) \/ RequestDies(r)
        PROVE  UNCHANGED tasks
    BY <2>1 DEF BeginUpdate, DropUpdate, BeginDelete, RecordDeletion, AbortDelete, RequestDies,
           database
  <2>2. ASSUME NEW i \in Sweeper, SweepPick(i) \/ SweepFails(i) PROVE UNCHANGED tasks
    BY <2>2 DEF SweepPick, SweepFails, database
  <2>3. Tick \/ UNCHANGED vars => UNCHANGED tasks
    BY DEF Tick, database, vars
  <2>4. QED
    BY <1>1, <1>2, <1>3, <1>4, <1>5, <2>1, <2>2, <2>3 DEF Next, RequestStep, SweepStep

\* No open task carries a completion, in whatever order updates decided on stale
\* snapshots move it into Done and out of it.
THEOREM CompletionCorrect == Spec => []OnlyDoneIsCompleted
<1>1. Init => OnlyDoneIsCompleted
  BY DEF Init, OnlyDoneIsCompleted, Live
<1>2. QED
  BY TypeInit, TypeNext, <1>1, CompletedNext, PTL DEF Spec

-----------------------------------------------------------------------------
(* The review gate.  An entry is written long after the request was         *)
(* authorised, so the verdict is carried along: an update in progress that  *)
(* will report Done was started by a reviewer of the project it saw, and a  *)
(* deletion reports no status.                                              *)

Reviewed(r) ==
    /\ request[r].pc = "update" =>
          (StatusChanges(request[r]) /\ NextStatus(request[r]) = "DONE" =>
              CanManageProject(PrincipalOf(request[r].actor), request[r].seen.project))
    /\ request[r].pc = "deleting" => request[r].entry.to = "NONE"

SignedOff(e) == e.to = "DONE" => CanManageProject(PrincipalOf(e.actor), e.project)

ReviewInv == (\A e \in log : SignedOff(e)) /\ \A r \in Slot : Reviewed(r)

\* Identity and review gate together: who may put this patch on a task may, if
\* it says Done, manage the task's project.
LEMMA GateHolds ==
    ASSUME NEW p, NEW project, NEW assignee, NEW patch,
           MayApplyPatch(p, project, assignee, patch),
           "status" \in DOMAIN patch, patch["status"] = "DONE"
    PROVE  CanManageProject(p, project)
BY DEF MayApplyPatch, CanUpdateTask, CanManageProject, ForbiddenStatuses

\* Detaching an entry leaves the verdict on it.
LEMMA DetachKeepsVerdict ==
    ASSUME NEW e \in LogRow, NEW t, SignedOff(e)
    PROVE  SignedOff(Detach(e, t))
<1> DEFINE d == [e EXCEPT !.linked = FALSE]
<1>1. d.to = e.to /\ d.actor = e.actor /\ d.project = e.project
  BY DEF LogRow
<1>2. Detach(e, t) = IF e.task = t THEN d ELSE e
  BY DEF Detach
<1> HIDE DEF d
<1>3. QED
  BY <1>1, <1>2 DEF SignedOff

LEMMA ReviewNext == TypeOK /\ ReviewInv /\ [Next]_vars => ReviewInv'
<1> SUFFICES ASSUME TypeOK, ReviewInv, [Next]_vars PROVE ReviewInv'
  OBVIOUS
<1>t. /\ log \subseteq LogRow
      /\ request \in [Slot -> {Idle} \cup UpdateRequest \cup DeleteRequest]
  BY DEF TypeOK
<1>a. (\A e \in log : SignedOff(e)) /\ \A r \in Slot : Reviewed(r)
  BY DEF ReviewInv
\* One slot moves, and what it holds then is reviewed.
<1>b. ASSUME NEW r \in Slot, NEW q, request' = [request EXCEPT ![r] = q],
             q.pc = "update" =>
                 (StatusChanges(q) /\ NextStatus(q) = "DONE" =>
                      CanManageProject(PrincipalOf(q.actor), q.seen.project)),
             q.pc = "deleting" => q.entry.to = "NONE"
      PROVE  \A s \in Slot : Reviewed(s)'
  <2>1. ASSUME NEW s \in Slot, s # r PROVE Reviewed(s)'
    <3>1. request'[s] = request[s]
      BY <1>b, <2>1
    <3>2. QED
      BY <1>a, <3>1 DEF Reviewed, StatusChanges, NextStatus
  <2>2. request'[r] = q
    BY <1>b, <1>t
  <2>3. Reviewed(r)'
    BY <1>b, <2>2 DEF Reviewed, StatusChanges, NextStatus
  <2>4. QED
    BY <2>1, <2>3
<1>c. Idle.pc = "idle"
  BY DEF Idle
<1>d. UNCHANGED request => \A s \in Slot : Reviewed(s)'
  BY <1>a DEF Reviewed, StatusChanges, NextStatus
<1>e. \A e : SignedOff(e)' <=> SignedOff(e)
  BY DEF SignedOff
<1>1. CASE UNCHANGED <<log, request>>
  BY <1>1, <1>a, <1>d, <1>e DEF ReviewInv
<1>2. CASE CreateTask
  <2>1. PICK u \in Active, t \in Task, draft \in Draft :
          /\ CanManageProject(PrincipalOf(u), draft.project)
          /\ log' = log \cup CreationEntries(u, t, draft)
    BY <1>2 DEF CreateTask
  <2>2. \A e \in CreationEntries(u, t, draft) : e.actor = u /\ e.project = draft.project
    BY DEF CreationEntries, Entry
  <2>3. \A e \in log' : SignedOff(e)
    BY <1>a, <2>1, <2>2 DEF SignedOff
  <2>4. QED
    BY <1>2, <1>d, <1>e, <2>3 DEF CreateTask, ReviewInv
<1>3. ASSUME NEW r \in Slot, BeginUpdate(r) PROVE ReviewInv'
  <2>1. PICK u \in Active, t \in Live, patch \in Patch :
          /\ MayApplyPatch(PrincipalOf(u), tasks[t].project, tasks[t].assignee, patch)
          /\ request' = [request EXCEPT ![r] = [pc |-> "update", actor |-> u, task |-> t,
                             seen |-> tasks[t], patch |-> patch, at |-> now]]
    BY <1>3 DEF BeginUpdate
  <2> DEFINE q == [pc |-> "update", actor |-> u, task |-> t, seen |-> tasks[t],
                   patch |-> patch, at |-> now]
  <2>2. StatusChanges(q) /\ NextStatus(q) = "DONE"
          => CanManageProject(PrincipalOf(q.actor), q.seen.project)
    BY <2>1, GateHolds DEF StatusChanges, NextStatus
  <2>3. q.pc = "update" /\ request' = [request EXCEPT ![r] = q] /\ UNCHANGED log
    BY <1>3, <2>1 DEF BeginUpdate
  <2> HIDE DEF q
  <2>4. QED
    BY <1>a, <1>b, <1>e, <2>2, <2>3 DEF ReviewInv
<1>4. ASSUME NEW r \in Slot, CommitUpdate(r) PROVE ReviewInv'
  <2> DEFINE q == request[r]
  <2>1. /\ q.pc = "update" /\ log' = log \cup UpdateEntries(q)
        /\ request' = [request EXCEPT ![r] = Idle]
    BY <1>4 DEF CommitUpdate
  <2>2. StatusChanges(q) /\ NextStatus(q) = "DONE"
          => CanManageProject(PrincipalOf(q.actor), q.seen.project)
    BY <1>a, <2>1 DEF Reviewed
  <2> HIDE DEF q
  <2>3. ASSUME NEW e \in UpdateEntries(q) PROVE SignedOff(e)
    <3>1. e.to = "DONE" => StatusChanges(q) /\ NextStatus(q) = "DONE"
      BY DEF UpdateEntries, Entry
    <3>2. e.actor = q.actor /\ e.project = q.seen.project
      BY DEF UpdateEntries, Entry
    <3>3. QED
      BY <2>2, <3>1, <3>2 DEF SignedOff
  <2>4. QED
    BY <1>a, <1>b, <1>c, <1>e, <2>1, <2>3 DEF ReviewInv
<1>5. ASSUME NEW r \in Slot, DropUpdate(r) \/ AbortDelete(r) \/ RequestDies(r) PROVE ReviewInv'
  <2>1. request' = [request EXCEPT ![r] = Idle] /\ UNCHANGED log
    BY <1>5 DEF DropUpdate, AbortDelete, RequestDies, database
  <2>2. QED
    BY <1>a, <1>b, <1>c, <1>e, <2>1 DEF ReviewInv
<1>6. ASSUME NEW r \in Slot, BeginDelete(r) \/ RecordDeletion(r) PROVE ReviewInv'
  <2>1. CASE BeginDelete(r)
    <3>1. PICK u, t : /\ request' = [request EXCEPT ![r] =
                             [pc |-> "delete", actor |-> u, task |-> t, project |-> tasks[t].project]]
                      /\ UNCHANGED log
      BY <2>1 DEF BeginDelete
    <3> DEFINE q == [pc |-> "delete", actor |-> u, task |-> t, project |-> tasks[t].project]
    <3>2. q.pc = "delete" /\ request' = [request EXCEPT ![r] = q]
      BY <3>1
    <3> HIDE DEF q
    <3>3. QED
      BY <1>a, <1>b, <1>e, <3>1, <3>2 DEF ReviewInv
  <2>2. CASE RecordDeletion(r)
    <3> DEFINE o == request[r]
               q == [pc |-> "deleting", task |-> o.task,
                     entry |-> Entry("TASK_DELETED", o.task, o.project, o.actor, "NONE", NoOne)]
    <3>1. request' = [request EXCEPT ![r] = q] /\ UNCHANGED log
      BY <2>2 DEF RecordDeletion
    <3>2. q.pc = "deleting" /\ q.entry.to = "NONE"
      BY DEF Entry
    <3> HIDE DEF q
    <3>3. QED
      BY <1>a, <1>b, <1>e, <3>1, <3>2 DEF ReviewInv
  <2>3. QED
    BY <1>6, <2>1, <2>2
<1>7. ASSUME NEW r \in Slot, CommitDelete(r) PROVE ReviewInv'
  <2> DEFINE q == request[r]
  <2>1. /\ q.pc = "deleting" /\ log' = {Detach(e, q.task) : e \in log \cup {q.entry}}
        /\ request' = [request EXCEPT ![r] = Idle]
    BY <1>7 DEF CommitDelete
  <2>2. q.entry \in LogRow /\ SignedOff(q.entry)
    BY <1>a, <1>t, <2>1 DEF Reviewed, SignedOff, Idle, UpdateRequest, DeleteRequest
  <2> HIDE DEF q
  <2>3. ASSUME NEW e \in log \cup {q.entry} PROVE SignedOff(Detach(e, q.task))
    <3>1. e \in LogRow /\ SignedOff(e)
      BY <1>a, <1>t, <2>2
    <3>2. QED
      BY <3>1, DetachKeepsVerdict
  <2>4. QED
    BY <1>b, <1>c, <1>e, <2>1, <2>3 DEF ReviewInv
<1>8. ASSUME NEW i \in Sweeper, SweepClaim(i) PROVE ReviewInv'
  <2>1. log' = log \cup {Entry("TASK_OVERDUE", t, tasks[t].project, NoOne, "NONE", NoOne) :
                             t \in Claimed(i)}
    BY <1>8 DEF SweepClaim
  <2>2. \A e \in log' : SignedOff(e)
    BY <1>a, <2>1 DEF SignedOff, Entry
  <2>3. QED
    BY <1>8, <1>d, <1>e, <2>2 DEF SweepClaim, ReviewInv
<1>9. QED
  <2>1. ASSUME NEW i \in Sweeper, SweepClear(i) \/ SweepPick(i) \/ SweepFails(i)
        PROVE  UNCHANGED <<log, request>>
    BY <2>1 DEF SweepClear, SweepPick, SweepFails, database
  <2>2. Tick \/ UNCHANGED vars => UNCHANGED <<log, request>>
    BY DEF Tick, database, vars
  <2>3. QED
    BY <1>1, <1>2, <1>3, <1>4, <1>5, <1>6, <1>7, <1>8, <2>1, <2>2
       DEF Next, RequestStep, SweepStep

\* Whoever the log names for a move into Done could manage the project: no
\* request slips past the gate between its check and its write.
THEOREM ReviewCorrect == Spec => []DoneIsSignedOff
<1>1. Init => ReviewInv
  BY DEF Init, ReviewInv, Reviewed, Idle
<1>2. ReviewInv => DoneIsSignedOff
  BY DEF ReviewInv, SignedOff, DoneIsSignedOff
<1>3. QED
  BY TypeInit, TypeNext, <1>1, <1>2, ReviewNext, PTL DEF Spec

-----------------------------------------------------------------------------
(* Notifications                                                           *)

\* The entry e is what the notification n reports.
Reports(n, e) ==
    /\ e.task = n.task /\ e.stamp = n.stamp /\ e.actor # n.recipient
    /\ \/ n.type \in {"TASK_ASSIGNED", "TASK_OVERDUE"} /\ e.type = n.type
       \/ n.type = "TASK_IN_REVIEW" /\ e.to = "IN_REVIEW"
       \/ n.type = "TASK_COMPLETED" /\ e.to = "DONE"
    /\ n.type = "TASK_ASSIGNED" => n.recipient = e.assignee
    /\ n.type = "TASK_IN_REVIEW" => n.recipient = Manager[e.project]

News == \A n \in notifications : n.task \in Live /\ \E e \in log : Reports(n, e)

\* Every notification of an update has its entry among those of the update.
LEMMA UpdateIsReported ==
    ASSUME NEW q, NEW n \in UpdateNotifications(q)
    PROVE  n.task = q.task /\ \E e \in UpdateEntries(q) : Reports(n, e)
<1> DEFINE s == Entry("TASK_STATUS_CHANGED", q.task, q.seen.project, q.actor, NextStatus(q), NoOne)
           a == Entry("TASK_ASSIGNED", q.task, q.seen.project, q.actor, "NONE", NextAssignee(q))
<1>1. CASE /\ StatusChanges(q) /\ NextStatus(q) = "IN_REVIEW"
           /\ n \in Notify("TASK_IN_REVIEW", q.task, q.actor, Manager[q.seen.project])
  <2>1. s \in UpdateEntries(q)
    BY <1>1 DEF UpdateEntries
  <2>2. /\ n.stamp = stamp /\ n.task = q.task /\ n.type = "TASK_IN_REVIEW"
        /\ n.recipient = Manager[q.seen.project] /\ n.recipient # q.actor
    BY <1>1, NotifyStamped
  <2>3. Reports(n, s)
    BY <1>1, <2>2 DEF Reports, Entry
  <2>4. QED
    BY <2>1, <2>2, <2>3
<1>2. CASE /\ StatusChanges(q) /\ NextStatus(q) = "DONE"
           /\ n \in Notify("TASK_COMPLETED", q.task, q.actor, q.seen.assignee)
  <2>1. s \in UpdateEntries(q)
    BY <1>2 DEF UpdateEntries
  <2>2. /\ n.stamp = stamp /\ n.task = q.task /\ n.type = "TASK_COMPLETED"
        /\ n.recipient # q.actor
    BY <1>2, NotifyStamped
  <2>3. Reports(n, s)
    BY <1>2, <2>2 DEF Reports, Entry
  <2>4. QED
    BY <2>1, <2>2, <2>3
<1>3. CASE /\ AssigneeChanges(q)
           /\ n \in Notify("TASK_ASSIGNED", q.task, q.actor, NextAssignee(q))
  <2>1. /\ n.stamp = stamp /\ n.task = q.task /\ n.type = "TASK_ASSIGNED"
        /\ n.recipient = NextAssignee(q) /\ n.recipient # q.actor /\ NextAssignee(q) # NoOne
    BY <1>3, NotifyStamped
  <2>2. a \in UpdateEntries(q)
    BY <1>3, <2>1 DEF UpdateEntries
  <2>3. Reports(n, a)
    BY <2>1 DEF Reports, Entry
  <2>4. QED
    BY <2>1, <2>2, <2>3
<1>4. QED
  BY <1>1, <1>2, <1>3 DEF UpdateNotifications

LEMMA NewsNext == TypeOK /\ News /\ [Next]_vars => News'
<1> SUFFICES ASSUME TypeOK, News, [Next]_vars PROVE News'
  OBVIOUS
<1>t. tasks \in [Live -> TaskRow]
  BY DEF TypeOK
<1>a. \A n \in notifications : n.task \in Live /\ \E e \in log : Reports(n, e)
  BY DEF News
<1>b. \A n, e : Reports(n, e)' <=> Reports(n, e)
  BY DEF Reports
\* The log and the board only grow, and what is new is reported.
<1>c. ASSUME log \subseteq log', Live \subseteq Live',
             \A n \in notifications' \ notifications :
                 n.task \in Live' /\ \E e \in log' : Reports(n, e)
      PROVE  News'
  BY <1>a, <1>b, <1>c DEF News
<1>1. CASE UNCHANGED <<tasks, log, notifications>>
  BY <1>1, <1>c DEF Live
<1>2. CASE CreateTask
  <2>1. PICK u \in Active, t \in Task, draft \in Draft :
          /\ tasks' = [x \in Live \cup {t} |-> IF x = t THEN NewRow(draft) ELSE tasks[x]]
          /\ log' = log \cup CreationEntries(u, t, draft)
          /\ notifications' = notifications \cup Notify("TASK_ASSIGNED", t, u, draft.assignee)
    BY <1>2 DEF CreateTask
  <2>2. Live' = Live \cup {t}
    BY <2>1 DEF Live
  <2>3. ASSUME NEW n \in Notify("TASK_ASSIGNED", t, u, draft.assignee)
        PROVE  n.task \in Live' /\ \E e \in log' : Reports(n, e)
    <3> DEFINE e == Entry("TASK_ASSIGNED", t, draft.project, u, "NONE", draft.assignee)
    <3>1. /\ n.stamp = stamp /\ n.task = t /\ n.type = "TASK_ASSIGNED"
          /\ n.recipient = draft.assignee /\ draft.assignee # u /\ draft.assignee # NoOne
      BY <2>3, NotifyStamped
    <3>2. e \in log'
      BY <2>1, <3>1 DEF CreationEntries
    <3>3. Reports(n, e)
      BY <3>1 DEF Reports, Entry
    <3>4. QED
      BY <2>2, <3>1, <3>2, <3>3
  <2>4. QED
    BY <1>c, <2>1, <2>2, <2>3
<1>3. ASSUME NEW r \in Slot, CommitUpdate(r) PROVE News'
  <2>1. /\ request[r].task \in Live
        /\ log' = log \cup UpdateEntries(request[r])
        /\ notifications' = notifications \cup UpdateNotifications(request[r])
    BY <1>3 DEF CommitUpdate
  <2>2. Live' = Live
    BY <1>t, <1>3 DEF CommitUpdate, Live
  <2>3. QED
    BY <1>c, <2>1, <2>2, UpdateIsReported
<1>4. ASSUME NEW r \in Slot, CommitDelete(r) PROVE News'
  <2>1. PICK t : /\ Live' = Live \ {t}
                 /\ \A e \in log : Detach(e, t) \in log'
                 /\ notifications' = {n \in notifications : n.task # t}
    BY <1>4 DEF CommitDelete, Live
  <2>2. \A e \in log : e.task # t => e \in log'
    BY <2>1 DEF Detach
  <2>3. ASSUME NEW n \in notifications'
        PROVE  n.task \in Live' /\ \E e \in log' : Reports(n, e)
    <3>1. n \in notifications /\ n.task # t
      BY <2>1
    <3>2. PICK e \in log : Reports(n, e)
      BY <1>a, <3>1
    <3>3. e \in log'
      BY <2>2, <3>1, <3>2 DEF Reports
    <3>4. QED
      BY <1>a, <2>1, <3>1, <3>2, <3>3
  <2>4. QED
    BY <1>b, <2>3 DEF News
<1>5. ASSUME NEW i \in Sweeper, SweepClear(i) PROVE News'
  <2>1. Live' = Live /\ UNCHANGED <<log, notifications>>
    BY <1>5 DEF SweepClear, Live
  <2>2. QED
    BY <1>c, <2>1
<1>6. ASSUME NEW i \in Sweeper, SweepClaim(i) PROVE News'
  <2> DEFINE entry(x) == Entry("TASK_OVERDUE", x, tasks[x].project, NoOne, "NONE", NoOne)
             told(x) == Notify("TASK_OVERDUE", x, NoOne, tasks[x].assignee)
  <2>1. /\ Live' = Live /\ log' = log \cup {entry(x) : x \in Claimed(i)}
        /\ notifications' = notifications \cup UNION {told(x) : x \in Claimed(i)}
    BY <1>6 DEF SweepClaim, Live
  <2>2. ASSUME NEW x \in Claimed(i), NEW n \in told(x)
        PROVE  n.task \in Live /\ Reports(n, entry(x))
    <3>1. /\ n.stamp = stamp /\ n.task = x /\ n.type = "TASK_OVERDUE"
          /\ n.recipient = tasks[x].assignee /\ tasks[x].assignee # NoOne
      BY <2>2, NotifyStamped
    <3>2. QED
      BY <3>1 DEF Reports, Entry, Claimed
  <2> HIDE DEF entry, told
  <2>3. QED
    BY <1>c, <2>1, <2>2
<1>7. QED
  <2>1. ASSUME NEW r \in Slot,
               \/ BeginUpdate(r) \/ DropUpdate(r) \/ BeginDelete(r)
               \/ RecordDeletion(r) \/ AbortDelete(r) \/ RequestDies(r)
        PROVE  UNCHANGED <<tasks, log, notifications>>
    BY <2>1 DEF BeginUpdate, DropUpdate, BeginDelete, RecordDeletion, AbortDelete, RequestDies,
           database
  <2>2. ASSUME NEW i \in Sweeper, SweepPick(i) \/ SweepFails(i)
        PROVE  UNCHANGED <<tasks, log, notifications>>
    BY <2>2 DEF SweepPick, SweepFails, database
  <2>3. Tick \/ UNCHANGED vars => UNCHANGED <<tasks, log, notifications>>
    BY DEF Tick, database, vars
  <2>4. QED
    BY <1>1, <1>2, <1>3, <1>4, <1>5, <1>6, <2>1, <2>2, <2>3 DEF Next, RequestStep, SweepStep

\* Nobody is told of what did not happen, of their own doing, or of a task that
\* is gone, whatever overlaps: the entry of the same transaction says it.
THEOREM NotificationsCorrect == Spec => []NotificationsAreNews
<1>1. Init => News
  BY DEF Init, News
<1>2. News => NotificationsAreNews
  BY DEF News, Reports, NotificationsAreNews
<1>3. QED
  BY TypeInit, TypeNext, <1>1, <1>2, NewsNext, PTL DEF Spec

-----------------------------------------------------------------------------
(* Over a database that exists.  Every lemma above takes a step from any     *)
(* typed and stamped state, so all of it holds of a deployment that starts   *)
(* from tables somebody else filled; Init is the special case of none.       *)

BoardInv ==
    /\ TypeOK /\ Stamped /\ IsFiniteSet(Live)
    /\ AuditMatchesRow /\ DeletionAudited /\ OnlyDoneIsCompleted
    /\ ReviewInv /\ News

\* With nothing under way, consistent tables are all the invariants ask for.
LEMMA BootInv == Boot => BoardInv
<1> SUFFICES ASSUME Boot PROVE BoardInv
  OBVIOUS
<1>1. Consistent /\ request = [r \in Slot |-> Idle] /\ sweep = [i \in Sweeper |-> Idle]
  BY DEF Boot
<1>2. TypeOK
  BY DEF Boot, Consistent, TypeOK
<1>3. Stamped
  BY <1>1 DEF Consistent, Stamped, Pending, Idle
<1>4. ReviewInv
  BY <1>1 DEF Consistent, DoneIsSignedOff, ReviewInv, SignedOff, Reviewed, Idle
<1>5. News
  BY <1>1 DEF Consistent, NotificationsAreNews, News, Reports
<1> QED  BY <1>1, <1>2, <1>3, <1>4, <1>5 DEF BoardInv, Consistent

\* The tables of an empty board are consistent.
LEMMA InitBoots == Init => Boot
BY FS_EmptySet DEF Init, Boot, Consistent, Live, AuditMatchesRow, DeletionAudited, DoneIsSignedOff,
       OnlyDoneIsCompleted, NotificationsAreNews

LEMMA FiniteNext == TypeOK /\ IsFiniteSet(Live) /\ [Next]_vars => IsFiniteSet(Live)'
<1> SUFFICES ASSUME TypeOK, IsFiniteSet(Live), [Next]_vars PROVE IsFiniteSet(Live')
  OBVIOUS
<1>1. CASE CreateTask
  <2>1. PICK t \in Task : Live' = Live \cup {t}
    BY <1>1 DEF CreateTask, Live
  <2> QED  BY <2>1, FS_AddElement
<1>2. ASSUME NEW r \in Slot, CommitDelete(r) PROVE IsFiniteSet(Live')
  <2>1. Live' \subseteq Live
    BY <1>2 DEF CommitDelete, Live
  <2> QED  BY <2>1, FS_Subset
<1>3. ASSUME ~CreateTask, \A r \in Slot : ~CommitDelete(r) PROVE Live' = Live
  BY <1>3 DEF Next, vars, database, RequestStep, SweepStep, BeginUpdate, CommitUpdate, DropUpdate,
              BeginDelete, RecordDeletion, AbortDelete, RequestDies, SweepClear, SweepPick,
              SweepClaim, SweepFails, Tick, Live
<1> QED  BY <1>1, <1>2, <1>3

LEMMA BoardInvNext == BoardInv /\ [Next]_vars => BoardInv'
BY FiniteNext, TypeNext, StampedNext, AuditNext, DeletionNext, CompletedNext, ReviewNext, NewsNext
   DEF BoardInv

\* Whatever is under way, the tables are ones a deployment can boot over.
LEMMA BoardInvConsistent == BoardInv => Consistent
BY DEF BoardInv, Consistent, TypeOK, Stamped, ReviewInv, SignedOff, DoneIsSignedOff, News, Reports,
       NotificationsAreNews

\* A database that is consistent when the API boots stays so: any number of requests,
\* sweeps and instances, killed in the middle of a transaction or between two,
\* leave tables over which the next deployment can boot.  The seeded database is
\* such a database (SeedIsHistory), so the board it grows into is audited, signed
\* off and announced like one that started empty.
THEOREM ConsistentCorrect == BootSpec => []Consistent
BY BootInv, BoardInvNext, BoardInvConsistent, PTL DEF BootSpec

\* Over such a database, too, each late task is announced once each time a sweep
\* flags it: a flag that was up before the boot is not announced again.
THEOREM BootSweepCorrect == BootSpec => SweepIsExactlyOnce
<1>1. BoardInv /\ [Next]_vars => [\A t \in Live \cap DOMAIN tasks' : AnnouncedOnce(t)]_vars
  BY SweepStepOnce DEF BoardInv
<1> QED  BY BootInv, BoardInvNext, <1>1, PTL DEF BootSpec, SweepIsExactlyOnce

-----------------------------------------------------------------------------
(* What keeps a late task from being starved, step by step.  LateTaskIsFlagged *)
(* needs fairness besides; the two facts here are its other half.              *)

\* A query that finds a task overdue at its time takes it, or fills its batch with
\* tasks that are due no later; so only an empty board of candidates ends a sweep.
TakenOrFull(i, t) ==
    SweepPick(i) /\ t \in Live /\ Candidate(tasks[t], sweep[i].at) =>
        /\ sweep'[i].pc = "claim"
        /\ \/ t \in sweep'[i].ids
           \/ /\ Cardinality(sweep'[i].ids) = BatchSize
              /\ \A x \in sweep'[i].ids :
                    Candidate(tasks[x], sweep[i].at) /\ tasks[x].due <= tasks[t].due

\* Of the tasks a sweep claims, each one that is still there is flagged afterwards,
\* or was not overdue any more at the time of the sweep.
FlaggedOrRescued(i, t) ==
    SweepClaim(i) /\ t \in sweep[i].ids \cap Live =>
        /\ t \in Live'
        /\ tasks'[t].overdue \/ ~IsOverdueNow(tasks[t].status, tasks[t].due, sweep[i].at)
        /\ [tasks'[t] EXCEPT !.overdue = tasks[t].overdue] = tasks[t]

SweepAdvances ==
    [][\A i \in Sweeper, t \in Task : TakenOrFull(i, t) /\ FlaggedOrRescued(i, t)]_vars

LEMMA PickTakes ==
    ASSUME BatchSize > 0, TypeOK, IsFiniteSet(Live), NEW i \in Sweeper, NEW t \in Task
    PROVE  TakenOrFull(i, t)
<1> SUFFICES ASSUME SweepPick(i), t \in Live, Candidate(tasks[t], sweep[i].at)
             PROVE  /\ sweep'[i].pc = "claim"
                    /\ \/ t \in sweep'[i].ids
                       \/ /\ Cardinality(sweep'[i].ids) = BatchSize
                          /\ \A x \in sweep'[i].ids : /\ Candidate(tasks[x], sweep[i].at)
                                                      /\ tasks[x].due <= tasks[t].due
  BY DEF TakenOrFull
<1> DEFINE at == sweep[i].at
           C == {x \in Live : Candidate(tasks[x], at)}
<1>1. PICK ids \in Batches(at) :
        sweep' = [sweep EXCEPT ![i] =
            IF ids = {} THEN Idle ELSE [pc |-> "claim", at |-> at, ids |-> ids]]
  BY DEF SweepPick
<1>2. /\ ids \subseteq C
      /\ Cardinality(ids) = IF Cardinality(C) < BatchSize THEN Cardinality(C) ELSE BatchSize
      /\ \A x \in ids, y \in C \ ids : tasks[x].due <= tasks[y].due
  BY DEF Batches
<1>3. IsFiniteSet(C) /\ t \in C /\ Cardinality(C) \in Nat /\ BatchSize \in Nat
  <2>1. IsFiniteSet(C)
    BY FS_Subset
  <2> QED  BY <2>1, FS_CardinalityType, BoundAssumption
<1>4. Cardinality(C) # 0
  BY <1>3, FS_EmptySet
<1>5. Cardinality(ids) # 0
  BY <1>2, <1>3, <1>4
<1>6. ids # {}
  BY <1>5, FS_EmptySet
<1>7. CASE Cardinality(C) < BatchSize
  <2>1. ids = C
    BY <1>2, <1>3, <1>7, FS_Subset
  <2> QED  BY <1>1, <1>3, <1>6, <2>1 DEF TypeOK
<1>8. CASE ~(Cardinality(C) < BatchSize)
  BY <1>1, <1>2, <1>3, <1>6, <1>8 DEF TypeOK
<1> QED  BY <1>7, <1>8

LEMMA ClaimFlags ==
    ASSUME TypeOK, NEW i \in Sweeper, NEW t \in Task
    PROVE  FlaggedOrRescued(i, t)
<1> SUFFICES ASSUME SweepClaim(i), t \in sweep[i].ids \cap Live
             PROVE  /\ t \in Live'
                    /\ \/ tasks'[t].overdue
                       \/ ~IsOverdueNow(tasks[t].status, tasks[t].due, sweep[i].at)
                    /\ [tasks'[t] EXCEPT !.overdue = tasks[t].overdue] = tasks[t]
  BY DEF FlaggedOrRescued
<1> DEFINE row == tasks[t]
           flagged == [row EXCEPT !.overdue = TRUE]
<1>1. row \in TaskRow
  BY DEF TypeOK
<1>2. /\ flagged.overdue
      /\ [flagged EXCEPT !.overdue = row.overdue] = row /\ [row EXCEPT !.overdue = row.overdue] = row
  BY <1>1 DEF TaskRow
<1>3. t \in Live' /\ tasks'[t] = IF t \in Claimed(i) THEN flagged ELSE row
  BY DEF SweepClaim, Live
<1>4. t \notin Claimed(i)
        => row.overdue \/ ~IsOverdueNow(row.status, row.due, sweep[i].at)
  BY <1>1 DEF Claimed, Claimable, IsOverdueNow, TaskRow, Status, OpenStatuses
<1> HIDE DEF row, flagged
<1>5. QED
  BY <1>2, <1>3, <1>4 DEF row

\* However many tasks are late and whatever updates commit in between, a sweep passes
\* over a late task only for a full batch of tasks due no later, and it leaves each
\* task of its batch flagged, gone, or not overdue at its time: with every batch
\* fewer stand before the one that waits.
THEOREM ProgressCorrect ==
    ASSUME BatchSize > 0
    PROVE  BootSpec => SweepAdvances
<1>1. BoardInv => \A i \in Sweeper, t \in Task : TakenOrFull(i, t) /\ FlaggedOrRescued(i, t)
  BY PickTakes, ClaimFlags DEF BoardInv
<1> QED  BY BootInv, BoardInvNext, <1>1, PTL DEF BootSpec, SweepAdvances
=============================================================================
