-------------------------------- MODULE Live --------------------------------
(***************************************************************************)
(* One browser tab that stays current: the writes and pushes of the API    *)
(* (Writes) with the page in front of the user (Pages) or with the tray    *)
(* (Tray).  The page and the tray of a tab share nothing but the socket,   *)
(* so a behaviour follows one of them.                                     *)
(***************************************************************************)
EXTENDS Pages, Tray

CONSTANTS SeededNotes  \* the notifications the user of the tray starts with

ASSUME SeededNotesAssumption ==
    /\ SeededNotes \in [DOMAIN SeededNotes -> BOOLEAN] /\ IsFiniteSet(DOMAIN SeededNotes)
    /\ DOMAIN SeededNotes \subseteq [type : NoteType, task : DOMAIN SeededTasks, at : {0, 1}]

vars == <<server, started, me, wire, pageVars, trayVars>>

\* Nothing of the tab changes.
Unseen == UNCHANGED <<me, pageVars, trayVars>>

-----------------------------------------------------------------------------
(* The connection *)

\* What was on the line is lost; the server forgets the socket.
Disconnect ==
    /\ up /\ Admit
    /\ up' = FALSE /\ line' = << >>
    /\ Overlook(TRUE)
    /\ greeting' = NoGreeting
    /\ UNCHANGED <<server, me, items, unread, calls, last, newest, silent, tangled>>

\* The socket joins its rooms again; no page asks again.
Reconnect ==
    /\ ~up /\ up' = TRUE
    /\ greeting' = [pc |-> IF page.kind = "tray" THEN "due" ELSE "none"]
    /\ UNCHANGED <<server, started, me, line, pageVars, items, unread, calls, last, newest,
                   silent, tangled>>

-----------------------------------------------------------------------------

Init ==
    /\ WritesInit /\ PagesInit
    /\ notes = IF page.kind = "tray" THEN SeededNotes ELSE << >>
    /\ TrayInit

Begin(w) == (BeginUpdate(w) \/ BeginDelete(w)) /\ UNCHANGED wire /\ Unseen

Commit(w) ==
    /\ \/ Create(w) /\ Overlook(FALSE)
       \/ (CommitUpdate(w) \/ CommitDelete(w)) /\ Overlook(Untold(write[w]))
       \/ SweepClaim(w) /\ Overlook(FALSE)
    /\ Vanish
    /\ UNCHANGED <<me, wire>>

SilentSweep == SweepClear /\ Overlook(TRUE) /\ UNCHANGED <<me, wire, trayVars>>

Publish(w) ==
    /\ PublishActivity(w) \/ PublishChanged(w) \/ FindNotes(w) \/ CountNotes(w) \/ PushNotes(w)
    /\ Unseen

Browse ==
    /\ \/ \E r \in asked : Serve(r) \/ ServeTiles(r) \/ ServeCards(r) \/ Arrive(r) \/ Fail(r)
       \/ Retry \/ TimerFires \/ ChangeFilter
       \/ page.kind # "tray" /\ Deliver
       \/ \E w \in Writer : Reply(w)
    /\ UNCHANGED <<me, trayVars>>

Notice ==
    /\ \/ Refresh \/ MarkRead \/ MarkAllRead \/ MarkElsewhere \/ Greet
       \/ \E c \in calls : \/ ServeMark(c) \/ CountMarked(c) \/ PushCount(c) \/ ServeRefresh(c)
                           \/ CallSucceeds(c) \/ CallFails(c)
       \/ page.kind = "tray" /\ DeliverNote
    /\ UNCHANGED <<me, pageVars>>

Next ==
    \/ \E w \in Writer :
          Begin(w) \/ Commit(w) \/ (Drop(w) /\ UNCHANGED wire /\ Unseen) \/ Publish(w)
    \/ SilentSweep \/ Browse \/ Notice \/ Disconnect \/ Reconnect

Spec == Init /\ [][Next]_vars

-----------------------------------------------------------------------------
(* Properties *)

TypeOK == WritesTypeOK /\ PagesTypeOK /\ TrayTypeOK /\ me \in User /\ up \in BOOLEAN

\* Nothing is on its way: no publication, message, request or timer.
AtRest ==
    /\ up /\ line = << >> /\ ~timer /\ asked = {} /\ calls = {} /\ greeting = NoGreeting
    /\ \A w \in Writer : write[w].pc \in {"idle", "update", "delete"}

\* A list or a task on the screen, when everything has been delivered, is what
\* its query would answer now: no row is missing, left over or out of date,
\* through writes that overlap and are published late, patches, superseded
\* requests, reassignments and a changed filter.  What the code does not keep
\* up with is named: the connection broke or the change is one it tells nobody
\* (missed), older news overtook newer (crossed): a message handled after a later one, or
\* an answer computed before a push that was handled first.
BoardSettles ==
    AtRest /\ page.kind \in Lists \cup {"task"} /\ Screen # "error" /\ ~missed
    => LET now == Reading(page).rows
       IN  /\ HasRows
           /\ crossed = {} => (Screen = "empty" <=> now = << >>)
           /\ \A t \in Task \ crossed :
                 /\ t \in DOMAIN shown.rows <=> t \in DOMAIN now
                 /\ t \in DOMAIN now => shown.rows[t] = now[t]

\* The page never goes back in time: a row on the screen is not replaced by an
\* older one, whichever answers come late and however often the page asked, but
\* by the older news that crossed names: a message that arrives after a newer one,
\* and the page's own latest answer when it was computed before a change whose push
\* is handled first, or before a change the page itself saved.
NeverBackwards ==
    [][ HasRows /\ HasRows' /\ page' = page
        => \A t \in DOMAIN shown.rows \cap DOMAIN shown'.rows :
              shown.rows[t].at <= shown'.rows[t].at \/ t \in crossed' ]_vars

\* How many rows the tasks page would list.
Listed(q) == Cardinality(DOMAIN ListTasks(Me, q, tasks))

\* "The numbers a role sees are the numbers that role could reproduce by paging
\* through the corresponding list endpoint" (dashboard.service.ts): once nothing
\* is on its way, every number on the dashboard is the length of a list, although
\* its halves are read at different moments.
DashboardReproducible ==
    AtRest /\ page.kind = "dashboard" /\ Screen # "error" /\ ~missed
    => LET open == Status \ {"DONE"}
           week == [status |-> open, dueFrom |-> Today, dueTo |-> Today + 7]
       IN  /\ shown.kind = "dashboard"
           /\ shown.tiles.tasks = Listed(<< >>)
           /\ shown.tiles.overdue = Listed([overdue |-> TRUE])
           /\ \A s \in Status : shown.tiles.byStatus[s] = Listed([status |-> {s}])
           /\ IsManager(Me) =>
                 /\ shown.due = ListTasks(Me, week, tasks)
                 /\ \A p \in DOMAIN shown.cards :
                       /\ shown.cards[p].open = Listed([project |-> p, status |-> open])
                       /\ shown.cards[p].overdue = Listed([project |-> p, overdue |-> TRUE])
           /\ IsDeveloper(Me) =>
                 shown.due = Listed(week) /\ shown.cards = ListTasks(Me, [status |-> open], tasks)
           /\ IsAdmin(Me) => shown.cards = ListTasks(Me, [overdue |-> TRUE], tasks)

\* The client's copy of the rules (permissions.ts) and the server's: on every row
\* the page shows, however old, what the controls offer is what the API accepts
\* of this user for such a row, and the button that deletes likewise.
OfferedIsAllowed ==
    HasRows /\ Screen = "content" => \A t \in DOMAIN shown.rows :
        LET row == shown.rows[t]
        IN  /\ \A patch \in Patch :
                  Offered(Me, row, patch) <=> MayApplyPatch(Me, row.project, row.assignee, patch)
            /\ OffersManaging(Me, row) <=> CanDeleteTask(Me, row.project)

\* "The badge never drifts from the database" (notification.service.ts): once
\* nothing is on its way the badge is the number of unread notifications, through
\* marks of several devices, arrivals, refreshes and lost answers.  It may drift
\* in two ways: a count was handled after one that was read later, or unread
\* notifications went with a deleted task, which nobody counts.
BadgeSettles ==
    AtRest /\ page.kind = "tray" => unread = Unread \/ last < newest \/ last < silent

\* A notification the tray shows as read is read in the database once nothing is
\* on its way, although it is shown before the server is asked and requests fail;
\* unless all were marked while the mark of one was on its way (tangled).
TrayHonest ==
    AtRest /\ ~tangled => \A n \in DOMAIN items \cap DOMAIN notes : items[n] => notes[n]
=============================================================================
