# TLA+ specification of the real-time project dashboard

The repository is a project board shared by a small agency: a Fastify API with
PostgreSQL (through Prisma) and Socket.IO in `server/`, a React client in
`web/`. Administrators, project managers and developers create, move and finish
tasks; every change is logged, the log is a live feed, a job flags tasks that
are late, and people are notified.

This directory holds TLA+ modules of that system, the TLC configurations that
check them on small instances, and proofs for TLAPS. Every definition is
translated from the source; `PROJECT.json` gives the lines each one stands for.
Paths below are relative to the repository.

    tlc -workers 2 -config MCTasks.cfg MCTasks     # a run
    tlapm TasksProofs.tla                          # a proof module

Contents: [1 inventory](#1-inventory), [2 modules](#2-modules),
[3 runs](#3-runs), [4 proofs](#4-proofs), [5 where the code and its documents
differ](#5-where-the-code-and-its-documents-differ), [6 what is not
modelled](#6-what-is-not-modelled), [7 plan](#7-plan).

## 1. Inventory

### Components

| Component | Source | State it keeps | Operations that change it | Modules |
|---|---|---|---|---|
| Access rules | `server/src/access/rbac.ts`, `web/src/lib/permissions.ts` | none | none: scopes (WHERE clauses), capabilities, the client's copy | `Access`, `Views`, `Directory`, `Screens` |
| Tasks | `server/src/modules/tasks/` | `tasks` rows: status, assignee, due date, `isOverdue`, `completedAt` | create, update (one PATCH for every field), delete | `Tasks`, `Writes` |
| Overdue sweep, scheduler | `server/src/jobs/` | none of its own; writes `tasks`, the log, notifications | clear stale flags, query a batch, claim it; nightly token pruning | `Tasks`, `Writes`, `Sessions` |
| Activity log and feed | `server/src/modules/activity/`, `web/src/components/ActivityFeed.tsx` | `activity_events` (numbered by a sequence), `activity_cursors`, the list a tab shows | record in the transaction of the change, publish, read a page, catch up, acknowledge | `Feed`, `HighWater` |
| Notifications | `server/src/modules/notifications/`, `web/src/providers/NotificationProvider.tsx` | `notifications` rows, the tray and its badge | create, publish with the count, mark one, mark all, refresh | `Tasks`, `Writes`, `Tray` |
| Realtime | `server/src/realtime/` | rooms and the sockets in them, the presence registry, `socket.data` from the handshake | handshake, join, fan out, presence, revoke sockets | `Realtime`, `Connection`, `Writes` |
| Sessions | `server/src/modules/auth/`, `server/src/lib/tokens.ts`, `server/src/plugins/auth.plugin.ts` | `refresh_tokens` (families), the cookie | register, login, refresh (rotate), logout, revoke all, change password, prune | `Sessions`, `SessionLife` |
| User administration | `server/src/modules/users/` | `users`: role, `isActive` | register, create, update (role, activity, password), which revokes sessions | `Accounts`, `Screens` |
| Projects, members, clients | `server/src/modules/projects/`, `.../clients/` | `projects`, `project_members`, `clients` | create, update, delete; add and remove members; archive a client | `Portfolio`, `Directory`, `Screens` |
| Web session and socket client | `web/src/lib/api.ts`, `web/src/providers/AuthProvider.tsx`, `SocketProvider.tsx` | the access token, the single refresh under way, the timer, the socket | request, refresh, retry once, sign in and out, reconnect | `Connection` |
| Web board state | `web/src/hooks/`, the pages that use them | a loaded list, task or dashboard and the patches on it | fetch, patch on `task:changed`, refetch, filter | `Pages`, `Live` |
| Dashboards | `server/src/modules/dashboard/` | none | none: aggregates | `Views`, `Directory` |
| Schema and seed | `server/prisma/` | the tables and the fixture a deployment starts from | foreign-key actions on delete; the seed | `Seed`, all |
| Process | `server/src/index.ts`, `app.ts`, `plugins/`, `config/` | none | boot, shutdown | in part in `Feed` and `Tasks` |

### How they interact

* A request authenticates (session → account as the database has it now), reads
  one row, asks the access rules, and then writes row, log entries and
  notifications in **one** PostgreSQL transaction at READ COMMITTED. After the
  commit it publishes: it takes the committed rows, reads again what it needs
  (notifications, unread counts) and emits to the rooms that may see them.
* The sweep does the same from a cron timer, in every API instance; nothing
  elects a leader.
* The feed combines three sources in the browser: a page from the API, live
  events from the socket, and a cursor on the server that it moves by
  acknowledging what is first on the screen.
* A list, a task or a dashboard combines an answer of the API with pushes: lists
  are patched and asked again after a pause, dashboards only asked again.
* User administration and a change of password revoke sessions: the refresh
  rows in the database and the sockets that are open.
* The browser renews its access token through the refresh cookie, and reconnects
  its socket with the token it has.

### What is hard here

* **Stale snapshots.** Every service reads, decides, and writes later; no row is
  locked in between and the isolation level re-reads nothing.
* **Several writers of one fact.** `isOverdue` is written by creations, updates
  and sweeps; the audit log must agree with the row whoever wrote it last.
* **Numbers drawn before they are visible.** `activity_events.seq` is claimed at
  the INSERT and appears at the COMMIT; the cursor assumes a total order.
* **Publication after the commit.** Two requests commit in one order and publish
  in the other; a count is read in one moment and sent in another.
* **Lost calls.** Sockets drop, the API restarts between commit and publication,
  acknowledgements vanish, or their handler fails and nobody hears of it; handlers of
  several tabs interleave.
* **Answers that overtake events.** A page computed before a live event arrives
  after it and replaces it; a refresh is answered after a sign-out.
* **Guards by count.** The last-administrator guard, the archiving guard and the
  membership checks read a count or a row and write something else.
* **Two copies of one rule.** The client decides which controls to offer, and
  each dashboard number is the length of a list some other query computes.

### What makes each component correct

* Tasks: the log tells the row's true status and assignee; a deletion leaves one
  entry and a detached history; only a reviewer makes a task Done; everybody
  affected, and nobody else, is notified, of things that happened.
* Sweep: exactly one flag, entry and notification per transition, for any number
  of overlapping sweeps; no late task is starved by the batch limit; a wrong flag
  does not stay.
* Feed: nothing uncommitted is shown; the cursor never passes what the screens
  had, never goes back; what stays on a screen is acknowledged in the end, unless the
  database refuses the cursor write.
* Sessions: one usable token per family; a family that ends stays ended; a token
  that merely expired signs nobody out.
* Users: an active administrator is always left. Projects: the history accounts
  for the team; no live work under an archived client.
* Realtime: the registry lists whoever is connected and the administrators see
  it; a socket does not outlive the account or the role it was opened with.
* Web session: the tab acts as the account it shows.
* Board, dashboards, tray: when everything has been delivered the screen shows
  what the database holds, and until then it never goes back in time.

`PROJECT.json` lists the hazards one by one with their lines, and the properties
that watch them.

## 2. Modules

    Access ── Tasks ──────────────── MCTasks ── (Seed ── Screens)
       │        └── TasksProofs
       ├── Accounts ── Portfolio ─── MCPortfolio
       │      │           └── PortfolioProofs ── AccountsProofs
       │      └── Realtime ── Connection ── MCConnection
       │                          └── ConnectionProofs ── AccountsProofs
       └── Views ─┬─ Writes ─┬─ Pages ─┐
                  │          └─ Tray ──┴─ Live ─┬─ MCLive
                  │            (with Tasks) ... └─ LiveProofs ─┐
                  └─ Directory ── Screens ─────────────────────┴─ BoardProofs
    Feed (refines HighWater) ── MCFeed, FeedProofs
    Sessions (refines SessionLife) ── MCSessions, SessionsProofs

| Module | What it is |
|---|---|
| `Access` | the role rules of `rbac.ts` as predicates on one row |
| `Tasks` | tasks, activity log, notifications and overdue sweeps over one database |
| `Feed`, `HighWater` | the numbered log, its publication, the tabs that show it; the abstract cursor |
| `Sessions`, `SessionLife` | refresh-token families and cookies; the abstract life of a family |
| `Accounts` | the users table and its administration; no specification of its own |
| `Portfolio` | clients, projects and members, with `Accounts` beside them |
| `Realtime` | the socket server: handshake, rooms, presence, revocation, over `Accounts` |
| `Connection` | one tab of the client against `Realtime`: session, token, refresh, socket |
| `Views` | pure: what task lists and dashboards answer, who is told, what the controls offer |
| `Writes` | writes of tasks and sweeps, and what they push to one tab |
| `Pages` | the page of that tab: query hook, refetch, patches, navigation |
| `Tray` | the notification tray of that tab |
| `Live` | composes `Pages` and `Tray` with the connection |
| `Directory` | pure: the lists of projects, clients and people, and the totals |
| `Screens` | pure: what the screens of the administration offer, what the services accept, what a page shows after a save |
| `Seed` | pure: the fixture, computed from its declaration as `seed.ts` does |
| `MC*` + `.cfg` | instances for TLC |
| `*Proofs` | theorems |

The database side of a task write is in `Tasks`, with all its collisions; what a
write *publishes* is in `Writes`, where the database side is cut down to one read
and one commit. `Accounts` is composed twice: with the projects whose requests
it authorises, and with the sockets it revokes.

### Tasks

State: the three tables (`tasks`, `log`, `notifications`), a clock, and what each
concurrent request and sweep is doing. Each service function is cut where the
database can interleave others:

| Action | Code |
|---|---|
| `CreateTask` | `createTask`: its checks concern rows that do not change in this module, so it is one step |
| `BeginUpdate` / `CommitUpdate` / `DropUpdate` | `updateTask`: read, scope, capability, assignee check / the transaction / nothing to write, or the row is gone |
| `BeginDelete` / `RecordDeletion` / `CommitDelete` / `AbortDelete` | `deleteTask`: read and check / INSERT of the entry, which share-locks the task through its foreign key / DELETE and commit / the row is gone or PostgreSQL breaks a deadlock |
| `SweepClear` / `SweepPick` / `SweepClaim` / `SweepFails` | `clearStaleFlags` / the batch query / the claiming transaction / the job throws or its instance dies |
| `RequestDies` | `index.ts`: the process exits, forced or by itself, with the request half-way; its open transaction rolls back |
| `Tick` | time |

A request in progress is a record in `request[r]` holding the row it saw; its
commit recomputes, as the code does, what changes *relative to that snapshot* and
writes only those columns over whatever the row holds by then (`UpdatedRow`).
Title, description and priority are one field, `details`: they are compared,
written and logged alike. Entries of one transaction share a stamp.

`Spec` starts from empty tables. `BootSpec` starts from any tables that are
`Consistent`, which is to say typed and in the state the safety properties ask for,
with nothing under way: what a deployment finds that is not the first. The seeded
database is one, and so is every state `Spec` reaches (section 4).

### Feed

State: the sequence, open transactions (`writer`), committed events, the cursor of
one account, `activity:seen` handlers under way (`acks`), and per tab
(`screen[s]`) its socket, its page request, its page, its live events, the event
that arrived last and the acknowledgement timer. `held`, `acknowledged` and
`swallowed` are history; the last names the acknowledgements whose handler failed
and that the tab has not sent again.

| Action | Code |
|---|---|
| `Insert`, `Commit`, `Rollback` | `recordActivity` inside a service's transaction |
| `Publish` | `publishActivity` and `emitActivity` → `onActivity` of every connected tab |
| `Mount`, `Unmount` | the component appears with its filter, or goes |
| `ServePage`, `PageArrives`, `FetchFails`, `Retry` | `useApiQuery` on `GET /api/activity`: the query on the server / the answer, which replaces page and live events / an error / "try again" |
| `Ack` | the effect's timer: `markSeen` with the first event of the list |
| `AckUpdate`, `AckInsert` | the two statements of `advanceActivityCursor` |
| `AckFails` | `socket.server.ts:178-180`: a statement rejects, the handler logs it, socket and tab are told nothing |
| `Drop`, `Restart`, `Reconnect` | a socket goes, with or without what it sent; the API process goes; a socket returns |

`HighWater` says what the cursor promises: a mark that takes in one
acknowledgement at a time and keeps the highest. `Feed` implements it with the
cursor as the mark and the finished handlers as what it took in
(`CursorIsHighWater`).

### Sessions

State: the rows of `refresh_tokens` as sets of tokens (`live`, `revoked`,
`expired`; `issued` gives the family and account of every token ever signed), the
cookie of each browser (`jar[b]`), what each call under way is doing (`call[c]`),
`users.isActive`, and the accounts whose administration still has to revoke
sessions (`owed`). `disturbed` and `signedOut` are history: families whose
refreshes overlapped, that lost an answer or that somebody ended, and those a
sign-out ended.

| Action | Code |
|---|---|
| `BeginLogin`, `IssueSession` | `login` (and `register`): the checks / `issueSession` with a random family |
| `SendRefresh`, `ReadToken` | the browser sends its cookie / `refresh`: verification and lookup, with a branch for each refusal |
| `Rotate` | the transaction of `refresh`: it revokes the presented row *without asking whether it is revoked by now*, and creates the next |
| `RevokeFamily` | `revokeFamily`, after a token not on record, already exchanged, or of a deactivated account |
| `SendLogout`, `Logout` | `POST /logout` and `logout`; an expired token takes only its own row with it |
| `ChangePassword`, `PurgeOwn` | `changePassword`: the new hash / `revokeAllSessions` |
| `Revise`, `Reactivate`, `Purge`, `PurgeLost` | `updateUser`: the row / its sessions / the process goes away in between |
| `Arrive` | the browser stores what `Set-Cookie` says, whatever its cookie is by now |
| `RefreshFails`, `Lose` | a refresh throws, which clears the cookie / a call or its answer gets lost |
| `Expire`, `Prune` | a token reaches its age / `pruneRefreshTokens`, row by row |

`SessionLife` is what a family promises: a sign-in opens it, it can end, and it
never opens again. `Sessions` implements it under the mapping `Phase`: a family is
open while it has a usable token *or a refresh that has found its token current
and not exchanged it yet*. The second half is the point: without it the
refinement is false, because such a refresh brings a revoked family back
(`sessions_logout`).

### Accounts and Portfolio

`Accounts` keeps `users` (role and activity) and what each administrative request
(`edit[k]`) is doing. `contested` is history: two requests that end an
administrator's rank were both decided and not written.

| Action | Code |
|---|---|
| `BeginRegister`, `BeginCreateUser` / `InsertUser` | `register`, `createUser`: the e-mail is looked up / the INSERT, which the unique index may refuse |
| `BeginUpdateUser` / `CountAdmins` / `WriteUser` / `FinishRevoke` | `updateUser`: the row is read and the self-guards asked / `assertNotLastAdmin` / the UPDATE / `revokeAllSessions`, decided from the row that was *read* |

`Portfolio` adds `clients`, `projects`, `members` and the `PROJECT_*` part of the
log, with what each request (`work[d]`) is doing. Only foreign keys and unique
indexes are asked again at the write (`Refused`). `late` is history: projects
made live under a client that was archived, or whose archiving had been decided.

| Action | Code |
|---|---|
| `CreateClient`, `BeginArchive` / `Archive`, `BeginDeleteClient` / `DeleteClient` | `clients.service.ts`: the count of live projects, or of projects / the write |
| `BeginCreateProject` / `CreateProject` | `createProject`: client and manager are checked / the transaction |
| `BeginUpdateProject` / `UpdateProject`, `DeleteProject` | `updateProject`, `deleteProject`, which cascades to members and log |
| `BeginAddMember` / `FindMember` / `AddMember` | `addProjectMember`: the project and the user / the membership / the transaction |
| `BeginRemoveMember` / `RemoveMember` | `removeProjectMember`: the checks / the DELETE and its entry |

### Realtime and Connection

`Realtime` keeps per server-side socket what its handshake read (`conn[c]`: account,
role, and the list of people online it was last shown) and the presence registry
(`online`). `overtaken`, `crossed` and `unrevoked` are history: sockets whose account
was written between the handshake's read and the rooms; accounts written over a row
the request had not read; accounts that were written and whose revocation failed.

`Connection` adds one tab. `cookie` is the account of the browser's live refresh
token: rotation is the subject of `Sessions`. A refresh and a sign-in have two steps,
at the server and in the tab. A sign-in (`signing`) may be sent while the session is
still being restored, since `LoginPage` is on screen then, and its answer may come
when that has succeeded; one sign-in is under way at a time. A refresh that a sign-in
overtook is `stale`: the browser's cookie is not the one it carries. `strayed`
is history: an answer to a question of an earlier session was taken for news of a
later one.

| Action | Code |
|---|---|
| `Handshake` / `Join` / `Leave` / `Revoked` | the middleware of `socket.server.ts` reads token and account / rooms, registry, snapshot / `disconnect` / `revokeUserSockets` |
| `ServeRefresh`, `RefreshSucceeds`, `RefreshFails`, `TimerFires`, `TokenExpires` | `refreshSession` of `api.ts`, its single promise and whoever waits for it; the timer of `AuthProvider` |
| `SendCall`, `CallSucceeds`, `CallRefused`, `CallLost` | `request` of `api.ts` with its one retry; `bootstrapSession` is one such call; a change of password may send a wrong current password |
| `SendLogin`, `ServeLogin`, `LoginSucceeds`, `LoginRefused`, `LoginFails` | `LoginPage` sends a password / `login` checks it / the session begins / a 401, which `request` announces as `expired` although it retries nothing (`api.ts:187-189`) / another error |
| `Logout`, `LoggedOut` | `POST /auth/logout` and what its answer clears |
| `Connect`, `ConnectRefused`, `JoinRooms`, `Disconnect`, `ServerDisconnect`, `ConnectElsewhere` | `SocketProvider` and the server's side of it; sockets of other devices |
| `Administer`, `Revocation`, `RevocationFails` | the steps of `Accounts`; the last closes sockets and sessions, or fails at the refresh rows (`auth.service.ts:291`) and reaches neither, with the account written |

### Views, Writes, Pages, Tray, Live

`Views` holds what one query answers for one caller (`ListTasks`, `GetTask`,
`Tiles`, `Cards`, `DueThisWeek`), the audience of a push, and what the client
offers (`Offered`, from `permissions.ts` and the status control). `Writes`
follows each write from its read to its last push:

| Action | Code |
|---|---|
| `Create`, `BeginUpdate` / `CommitUpdate` / `Drop`, `BeginDelete` / `CommitDelete` | the three services, one read and one commit each |
| `SweepClear`, `SweepClaim` | the sweep |
| `PublishActivity`, `PublishChanged` | `publishTaskWrite`: `activity:new`, then `task:changed` (or `deleted` to the one who lost the task) |
| `FindNotes`, `CountNotes`, `PushNotes` | `publishNotifications`: its rows / one count per recipient / the pushes |

`Pages` is the tab's page: `Serve`, `ServeTiles`, `ServeCards` (a dashboard is read
in two halves), `Arrive`, `Fail`, `Retry` (`useApiQuery`, with its generations and
aborts), `TimerFires` (the debounced refetch), `ChangeFilter`, `Navigate`, `Deliver`
(the handlers of the two live hooks and of the task page), `Reply` (the answer to
one's own save). `news`, `crossed` and `missed` are history: what the page was told,
tasks of which older news was taken after newer (a message, or an answer computed
before a push that came first), and things it is not told. `Tray` is
`refresh`, `markRead`, `markAllRead` with their optimistic updates and rollbacks, the
count sent on connect, and a second device; `last`, `newest`, `silent`, `tangled`
are history. `Live` composes them with a socket that breaks and returns.

### Directory, Screens and Seed

Pure modules, evaluated on many databases rather than run. `Directory` has the
reads of projects, clients, people and the assignee picker for every caller, and the
dashboard totals; `IsDatabase` is what the schema makes of a database. `Screens` sets
side by side what a dialog or button offers (`Candidates`, `TaskForms`, `ProjectBodies`,
`ProjectPatches`, `UserPatches`, `OffersClientDeletion`, `OffersArchiving`), what it
sends (`ChangedFields`: "only changed fields are sent"), and what the services accept
(`Accepts...`); and what the team and
client tables show after a save, by replacing the row or by asking again, against what
the query would answer then. `Seed` declares the fixture as `seed.ts` does (accounts, clients,
projects, members, tasks with their chains of events) and computes from it rows,
log, notifications and cursors. It then instantiates `Tasks` with the seeded
tables - they are a state the API can boot over (`Boot`) - and `Screens` with the
seeded agency.

## 3. Runs

| Run | Instance | What it shows |
|---|---|---|
| `tasks_safety` | one task, two request slots, two sweeps, four requests, four accounts; and the seeded database | the audit trail agrees with the row, deletions leave one entry, Done is signed off, notifications are news, sweeps announce exactly once; the seed is a history the rules permit, and a database `BootSpec` may start from; two reads of one caller agree, what the screens offer is accepted but for two kinds of offer that are named, and a save is shown |
| `tasks_liveness` | two tasks, batches of one, one sweep that fails or request that dies | no late task is starved, no wrong flag stays |
| `feed` | one tab, two writers, two new events, one fault | nothing uncommitted is shown; the cursor is a high-water mark that never passes the screens; what is shown is acknowledged, unless the handler fails |
| `sessions` | one account, one browser, two calls at once, two families, three tokens, one fault | an ended session stays ended, a refresh is refused for a reason, a family without overlaps has one usable token |
| `administration` | two administrators, a manager and a guest; two clients, two projects; two account requests and two portfolio requests at once, four in all | an administrator remains, the history accounts for the team, archiving never overlooks live work |
| `connection` | an administrator and a manager who may be demoted or switched off; two server-side sockets; two account requests at once, two things in all that do not happen by themselves | presence, what an open socket may do, whom the tab acts as, and why a session ends |
| `live` | an administrator, a manager and two developers; a late task and one that may be created; two writers at once, three requests or losses; nine tabs | what a page and the tray show once all is delivered; that a page never goes back in time; that the controls offer what the API accepts |
| `done_overdue` | two requests | **violated**: a task can be Done and overdue until the next sweep |
| `silent_overdue` | two requests | **violated**: a flag can be up with no entry and nobody told |
| `feed_gap` | two writers, no fault | **violated**: an event that commits late falls below the cursor and is never reported |
| `feed_reconnect` | one writer, one restart | **violated**: a feed left open over a restart loses events |
| `sessions_logout` | two calls, one family, no fault | **violated**: a family that a sign-out ended has a usable token again |

What the passing runs of the later modules say, and what they do not:

* `AdminRemains` holds but for `contested`: the count of the guard and the write
  are apart, so two administrators who demote each other at once leave none. The
  property says that this is the only way.
* `ArchivedClientIsQuiet` holds but for `late`, the same shape: a project created
  or woken between the count and the archiving, or under a client whose
  archiving nobody asks about (`updateProject` does not look).
* `MembershipAudited` needs no exception: the DELETE of a member that is gone by
  now fails, and the unique index stops the second addition.
* `ShownIsAcknowledged` holds but for `swallowed`: when the database refuses the cursor
  write, the server logs a warning and the tab does not send again until its first
  event changes or it reconnects.
* `ConnectionIsCurrent` holds but in three cases: a handshake that read the
  account before it was written and joined its rooms after `revokeUserSockets`
  had looked there (`overtaken`); two updates of one account, of which the
  second decides on a row the first has changed (`crossed`); and a revocation that
  fails once the account is written (`unrevoked`).
* `TabActsAsShown` holds but while a sign-out is on its way and after `strayed`:
  the client does not tie an answer to the session that asked. A refused sign-in while
  the boot restores a session is such a case: it makes the tab anonymous, and the
  boot's refresh then stores a token with nobody shown.
* `SignedOutForCause` lists the causes there are in the model: among them that a
  mistyped current password ends the session, and that a refused sign-in sent before
  the session was restored ends it too (`SignInRefused`). The property holds of every
  step of `Connection`; ways to leave that `Connection` lacks (section 6) are not in it.
* `BoardSettles` and `DashboardReproducible` hold but for `missed` — the connection
  broke, or the change is one nobody tells this page — and, row by row, for
  `crossed`. `NeverBackwards` has only the second exception, which covers an older
  message handled after a newer one and the page's latest answer when a push, or the
  page's own save, overtook it: `useApiQuery` drops superseded answers, not outrun ones.
* `BadgeSettles` names the two ways a badge drifts: a count pushed after one that
  was read later, and unread notifications that went with their task.
* `OfferedIsAllowed` and `ReadsAgree` need no exception. `DialogsAreAccepted` has two,
  stated as equivalences, so that nothing else is refused: `ClientsPage` offers Archive
  for every client and the API refuses while one of its projects is active or on hold;
  `TeamPage` offers role and activity of one's own account and the API refuses what
  ends one's rank. The guard of the last administrator refuses nothing the dialog
  sends by itself: its caller is another one.
  `SavesAreShown` has one: an account that a change of role takes out of the
  role filter stays in the table (`TeamPage` asks again only after a deactivation).

The five violations are places where a document or comment of the repository
says more than the code does; `PROJECT.json` quotes both under `findings`. Each
trace is a plain sequence of legal calls:

* `done_overdue`: a request that will complete a task reads it, the sweep flags
  it, the request commits. It compares its own verdict (not overdue) with the
  flag it *read* (not overdue) and leaves the column alone. `StaleFlagIsCleared`
  shows the other half: a later sweep does take the flag back.
* `silent_overdue`: a task created with a past due date gets its flag from
  `createTask`, which records no `TASK_OVERDUE`; the sweep then skips it because
  it is already flagged.
* `feed_gap`: two transactions draw 1 and 2; 2 commits, is shown and
  acknowledged; then 1 commits. Nothing reports 1 any more.
* `feed_reconnect`: a restart loses the publication of event 1 while a feed is
  open. The feed reconnects without fetching, event 2 arrives live and is
  acknowledged over 1.
* `sessions_logout`: a refresh reads its token as current; a sign-out revokes the
  family; the refresh rotates, and its new token is live. If its answer arrives
  last, the browser is signed in again.

### Bounds, and why they are enough

* *Tasks.* Rows interact only through the sweep's batch limit, so the safety run
  needs one task; two requests and two sweeps give every pair of processes that
  can hold a snapshot of the same row. Four requests allow a creation, two
  overlapping changes and a third on their result. Two instants suffice: a due
  date is before or after now. Nothing fails in the safety run: what dies leaves the
  tables as it found them, and the theorems have any number of failures. The liveness
  run has more late tasks (2) than a batch (1). Symmetry (tasks, slots, sweeps) is
  used only where no liveness property is checked. `MaxRequests`, `MaxTime` and `MaxFaults` bound the
  counters `started`, `now` and `faults`, and appear in guards only.
* *Seed and reads.* The fixture is the real one, at five times of the day around
  the hours its offsets name. The reads are compared on the seeded agency and on
  every agency one change away: a task reassigned or moved, an account with
  another role or ended, a member dropped, a client or project put away. Each of
  them is a database (`IsDatabase`); every other is covered by the theorems.
* *Feed.* Two writers are what it takes for numbers to commit out of order, a
  project outside the account's scope what it takes for a gap in what is
  visible. `MaxSeq` bounds the numbers, `MaxFaults` the drops, restarts, failed
  requests and failed cursor writes together. The run has one tab: its acknowledgements overlap
  with its own earlier ones, which is enough for the two statements of the cursor
  to interleave. Several tabs are covered by the theorems. The account starts
  with a cursor: the first acknowledgement of an account without a row is a
  hazard of its own (listed).
* *Sessions.* Families interact only through a cookie that is replaced and through
  `revokeAllSessions`, so one account with two families shows both. Two calls give
  every pair of a refresh with another refresh, a sign-in, a sign-out or a change
  of password; administration runs beside them. Three tokens are a sign-in and two
  exchanges, or an exchange made twice. `MaxFaults` bounds lost calls, failed
  refreshes and lost revocations together. A second browser and longer chains are
  covered by the theorems.
* *Portfolio.* Two account requests and two portfolio requests give every pair
  that can stand between check and write together; two administrators are what
  the count needs to be wrong about, and one more person signs up or is made a
  member. `MaxRequests` (4) allows two overlapping requests and what makes their
  overlap matter before or after. More of each is covered by the theorems.
* *Connection.* Two server-side sockets are the tab's and another device's, or the
  tab's old and new one. `MaxRequests` (2) bounds administration, sign-ins
  (refused ones too), new passwords, other devices and everything the network loses:
  two of them together, which is a demotion and a race with it, or a sign-in and a sign-out. Everything
  the client does by itself (refreshing, retrying, reconnecting) is unbounded.
  More is covered by the theorems.
* *Live.* The page of a tab follows one list, task or dashboard, so each of nine
  starting tabs is a page and a role whose queries differ. A page depends on each
  task by itself, but for order and counts: one task changes and one may appear.
  Two writers overlap and publish in either order; three requests are two
  overlapping writes and a third on their result, or a loss between them. Seven
  tabs start with one spent (their state space is the larger). The bodies change status, assignee or
the texts alone, which the row leaves out and the page must hear of all the same. `Today` splits due
  dates into late, this week and none. More of each is covered by the theorems.

`CHECK_DEADLOCK FALSE` is set where a behaviour may end: in `administration`,
`connection` and `live` the bound on requests is spent and nothing is under way.

### Fairness

* `Tasks!FairSpec`: weak fairness on the steps of each sweep. `node-cron` keeps
  firing and `guard` swallows a failure, so a sweep is always started again and a
  started sweep reaches its next query. Failures are bounded
  by `MaxFaults`; nothing is assumed of requests or of the clock.
* `Feed!FairSpec`: a timer that stays armed fires (`setTimeout`), and a handler
  the server started comes to an end: it finishes its two statements, awaited in order,
  or one of them rejects (`AckUpdate`, `AckInsert` or `AckFails`). Nothing is
  assumed of writers, pages, or connections; `ShownIsAcknowledged` is therefore
  only claimed of a socket that stays up.

The other modules state no fairness. What a screen shows in the end is said as an
invariant of the states in which nothing is on its way (`AtRest`): it needs no
assumption about how long a request takes.

## 4. Proofs

The theorems hold for every value of the constants allowed by the named
assumptions of the modules: any number of users, projects, tasks, concurrent
requests, sweeps, transactions, sockets, tabs and faults.

**TasksProofs**

* `TypeCorrect`: `Spec => []TypeOK`, action by action. Its lemmas type what an
  update computes from its snapshot.
* `AuditCorrect`: `Spec => []AuditMatchesRow`. The invariant is not inductive by
  itself: a new entry is the latest only if its stamp is fresh. `Stamped` adds
  that: every stamp in the log, and every stamp a deletion in progress has taken,
  is below the counter. An update then either changes the status relative to its
  snapshot, and writes column and entry together, or changes neither.
* `DeletionCorrect`: `Spec => []DeletionAudited`, from `TypeOK` and `Stamped`. The
  case that matters is two deletions of one task: the second cannot commit while
  the first share-locks the row, and after it there is no row.
* `SweepCorrect`: `Spec => SweepIsExactlyOnce`, an action property: a claim
  re-evaluates its WHERE on the current rows, so each raised flag comes with one
  entry and one notification, and no other step writes an overdue entry.
* `ReviewCorrect`: `Spec => []DoneIsSignedOff`. The gate is asked at the read and
  the entry written at the commit, so `ReviewInv` carries the verdict: an update in
  progress that will report Done was started by somebody who manages the project
  of its snapshot (`GateHolds`: identity and gate together say so).
* `CompletionCorrect`: `Spec => []OnlyDoneIsCompleted`: an update moves status and
  `completedAt` together or neither, whatever the row holds by then.
* `NotificationsCorrect`: `Spec => []NotificationsAreNews`. Every notification of an
  update has its entry among those of the update (`UpdateIsReported`); entries of
  a task stay as they are until the task goes, and its notifications go with it.
* `ConsistentCorrect`: `BootSpec => []Consistent`. The five invariants above hold from
  every consistent database, not only from an empty one; `BoardInv` is their
  conjunction with types, stamps and finiteness. Nothing under way makes consistent
  tables enough (`BootInv`), and whatever is under way leaves them so
  (`BoardInvConsistent`), so restarts may follow one another. `InitBoots` says that
  `Init` is a special case; `SeedIsHistory` evaluates `Boot` on the seeded database, so
  the hypothesis is met by the tables a deployment of this repository starts with.
* `BootSweepCorrect`: `BootSpec => SweepIsExactlyOnce`.
* `ProgressCorrect`: `BootSpec => SweepAdvances`, for `BatchSize > 0`: what
  `LateTaskIsFlagged` rests on besides fairness. A sweep that finds a late task takes it,
  or takes a full batch of tasks due no later (`PickTakes`: a batch is as large as the
  limit and the candidates allow, and `Cardinality` of a subset tells it from the
  whole); and every task of a batch is flagged by the claim, gone, or was no longer
  late (`ClaimFlags`).

**FeedProofs**

* `TypeCorrect`, with the lemma that a non-empty set of numbers has a highest one
  (by well-founded induction from the library).
* `CommittedCorrect`: `Spec => []OnlyCommittedIsHeld`. Strengthened with `Sound`:
  pages under way, lists on screens and what is about to be published are all in
  the log.
* `NewsCorrect`: `Spec => []NewsIsReported`. Strengthened with `Acknowledged`: the
  cursor and every number in a handler is one that was held, or not above the
  initial cursor.
* `CursorCorrect`: `Spec => CursorIsHighWater`, for an account that has a cursor
  row (`InitialCursor > 0`). `Caught`: the row stays, and a handler at its second
  statement carries a number the cursor has reached, so that statement finds a
  row and inserts nothing. Each step of `Feed` is then an `Acknowledge` or a
  stutter.
* `RewindCorrect`: `Spec => NeverRewinds`, for an account with or without a cursor row:
  of two first acknowledgements the lower may win, which is why `CursorCorrect` needs
  its assumption, but no acknowledgement takes the cursor back.

  A handler that fails takes nothing in and leaves the cursor, so it is a stutter of
  `HighWater` and disturbs none of these.

**SessionsProofs**

* `TypeCorrect`: `Spec => []TypeOK`, with lemmas on what a call may become.
* `LifeCorrect`: `Spec => EndedStaysEnded`, the refinement. Every step of `Sessions`
  either opens one family (`Opens`, only `IssueSession`) or at most ends some
  (`OnlyEnds`). The lemmas say why: a family is open again only through a new
  usable token or a new exchange, an exchange begins only at a usable token
  (`ReadToken`), and `Rotate` puts a usable token where an exchange was.
* `ReuseCorrect`: `Spec => []ReuseHasACause`, and `OneTokenCorrect`:
  `Spec => []QuietFamilyHasOneToken`, from one inductive invariant,
  `QuietFamilies`. A family that nothing disturbed is in one place: at most one
  usable token, one call that carries any of its tokens, one browser that holds
  one; that call is of that browser, and what the browser presents next is
  current, expired, or about to be replaced by the answer on its way. None of
  these parts is inductive alone: one usable token needs the exchange to present
  *that* token (`CallsSound`), which needs the cookie to be sound when it is sent
  (`JarsSound`), which needs answers to arrive in the browser the cookie came from
  (`SamePlace`, `AnswersSound`). `QuietCall` treats all calls that hand out no
  token, `QuietIssue`, `QuietSend`, `QuietRotate` and `QuietArrive` the rest.

**AccountsProofs** has the lemmas both compositions need: the types of `Accounts`,
and `AdminLeft`, the strengthening of `AdminRemains`. Besides an active
administrator it says that every request decided to end somebody's rank leaves
another one, unless `contested`: the count found one, and nobody but another such
request can take that one away.

**PortfolioProofs**

* `Typed`: types and foreign keys: members belong to projects, projects to
  clients that exist.
* `AlwaysAnAdmin`: `Spec => []AdminRemains`, from `AdminLeft`.
* `TeamsAreAudited`: `Spec => []MembershipAudited`, from `TeamInv`: the stamps of the
  log are below the counter, a request that found a membership knows a project
  that exists or is gone for good, and the alternation itself.
* `ArchivedClientsAreQuiet`: `Spec => []ArchivedClientIsQuiet`, from `QuietInv`: a
  client whose archiving has been decided has no live project but late ones.

**ConnectionProofs**

* `TypeCorrect`: `Spec => []TypeOK`, for the server (`ServerTypeOK`), the tab (`TabOK`)
  and the sockets the tab holds up (`LineHeld`). `NextIsServerStep` maps every
  step of the composition to one of the server, or to none, so that what is
  said of the server is proved once.
* `PresenceCorrect`: `Spec => []PresenceIsCurrent`, from `ServerInv`: types, `Owned`
  (a socket belongs to an account that exists) and the property, which is
  inductive with them: closing several sockets at once is the case that matters.
* `ConnectionCorrect`: `Spec => []ConnectionIsCurrent`. `AllCurrent` says it of sockets
  still in their handshake as well; a write then either moves nothing the socket
  relies on, or owes a revocation, or counts as one of the first two exceptions; a
  revocation that fails makes the third.
* `TabCorrect`: `Spec => []TabActsAsShown`. `TabInv` adds what a tab in a session
  may hope for (`InSession`: token, cookie, refresh and calls under way all of
  the account it shows) and how it starts (`Booting`).
* `SignOutCorrect`: `Spec => SignedOutForCause`, an action property. `SigningInv` says
  whose sign-in is under way (an account's, or nobody's), `Renewed` and
  `OwnLine` say where a retried call and an open socket come from; `EndHasCause`
  goes through the steps that end a session on the screen.

**LiveProofs** is about the tab of `Live`, for any tasks, bodies, writers, filters,
notifications and tabs; of the constants it takes what parsing and the schema
guarantee (`PatchAssumption`, `DraftAssumption`, `SeededTasksAssumption` and the like).

* `LiveTypeCorrect`: `Spec => []TypeOK`, from `TypeInv`: every variable, job, message,
  request and call by its shape. What makes it more than a typing is `RequestInv`
  (one request at most is the latest, and it asks for the page as it is),
  `WriteInv` (only the page of a task waits for a write of its own) and `DbInv`
  (a notification is about a task that exists).
* `ControlsAgree`: `Spec => []OfferedIsAllowed`. The two copies of the rules agree on
  *any* row (`OfferIsAllowed`), so on whatever row a page still shows.
* `WritesAreThoseOfTasks`: `Spec => [][TableMovesAsInTasks]_vars`, the refinement of the
  write path. `Live` cuts `updateTask` to a read and a commit, with its own row and no log;
  `Tasks` has the whole transaction. Each step of `Live` that moves the table is, with
  the operators of `Tasks` on the same rows, bodies and clock, a creation, an update, a
  deletion, the clearing of stale flags or a claim, whichever of the rows have a
  completion time (which `Live` does not keep); it logs exactly when `Tasks` makes an
  entry, and gives the tray's user the notifications that `Tasks` inserts for them.
  `AllLetThrough` is the invariant it needs: a request that waits for its commit passed
  the guards of `Tasks` on the row it read. So what the other theorems of this module
  and the next say of a tab, they say of a tab beside the writes of `Tasks`.
* `TrayIsHonest`: `Spec => []TrayHonest`, from `HonestInv`. What came out of the
  database - in a publication, on the line, in the answer of a refresh, in what a
  rollback would restore - is *certain*: it says read only of what is read, and a
  notification that was read stays so (`NotesMove`). What the tray shows read and the
  database does not is what a call that is still to be served will mark.
* `BadgeIsRight`: `Spec => []BadgeSettles`, from `BadgeInv`: every count that is on its
  way or shown was right when it was read; and unless something will still count
  (`Settling`), the newest one is right now. At rest only the badge itself is left.

**BoardProofs** continues with the page of that tab.

* `Copied`: `Spec => []AgeInv`. Wherever a row of a task is kept - a request that
  read it, a publication, a message, an answer, the screen - it is a state that row
  was in: the present one, or an older one of the same project, of a task whose id
  was drawn (`Grows`: a commit replaces a row by a newer one or takes it away for
  good). The answer a page waits for is no older than the screen, but where the page
  has been told of the newer row (`NewsAge`).
* `PageGoesForward`: `Spec => NeverBackwards`, an action property, from `AgeInv`;
  `NewsAge` is where the exception for an outrun answer comes from.
* `BoardRight`: `Spec => []BoardInv`, the invariant behind the next two. A connected
  page that is not waiting for an unread answer, shows no error and has missed
  nothing (`Excused`) is either owed a reason to ask again - a timer, a message, or a
  job that will become one (`Stirred`) - or is `UpToDate`. For a dashboard that means
  its numbers are those of the tables. For rows it means `Sound`: each task is on the
  screen as the query would list it, or is left over and a message that takes it
  away is on the line or to be published, with no later one that would put it back
  (`Going`). An answer that has been read and not delivered is compared like the
  screen, but for rows the page has newer news of. The steps that matter: a commit
  leaves behind a job for everybody who saw the task or sees it now (`AllTold`, or the
  change is one `missed` names); a job becomes messages without losing its effect;
  a message is heeded; a read takes the tables as they are.
* `BoardIsRight`: `Spec => []BoardSettles`, and `NumbersReproducible`:
  `Spec => []DashboardReproducible`, from `BoardInv` at rest, where nothing is owed. The
  second adds that each number is the cardinality of the list that the tasks page
  would query (`NumbersListed`).
* `ReadsCohere`, `DialogsAccepted`, `SavesShown`: for *every* database
  (`IsDatabase`: typed rows, foreign keys, finitely many), `ReadsAgreeIn`,
  `DialogsAreAcceptedIn` and `SavesAreShownIn` hold for each of its callers.
  `tasks_safety` evaluates the same three on the seeded agency and those near it, all
  of them databases, so the hypothesis is met. The two kinds of offer that are refused
  are part of what `DialogsAccepted` says, as equivalences (`ClientsAccepted`,
  `AccountsAccepted`).

### Only model-checked

* Liveness (`LateTaskIsFlagged`, `StaleFlagIsCleared`, `ShownIsAcknowledged`) is
  beyond the prover. Of the first, what each step of a sweep achieves is proved
  (`ProgressCorrect`); that the steps come, and that they are enough of them, is
  checked.
* `SeedIsHistory` and `EverybodyHasNews` are evaluations of concrete data: what `Seed`
  computes goes through the folds of the library over sequences, and no prover here
  does induction over them. For the same reason `ReadsAgree`, `DialogsAreAccepted` and
  `SavesAreShown`, which say it of the seeded agencies, are checked, while what they
  say of each single database is proved for all.

## 5. Where the code and its documents differ

Five differences have a run (section 3). The following were met while modelling;
each is in the model as the code does it, and where a property has an exception
for it, the exception is named.

*Sessions and sockets*

* A mistyped current password answers 401, which the client takes for the end of
  the session (`AccountPage.tsx:65-66`, `api.ts:178-189`): `SignedOutForCause`.
* The comment of `login` says that a 401 there means "wrong password", not "expired
  session" (`api.ts:273-274`), but
  `request` announces any 401 as `expired` (`api.ts:187-189`): a wrong password sent
  while the boot restores a session signs that session out, or leaves a token with
  nobody shown (`SignInRefused`, `strayed`).
* `updateUser` writes the account before `revokeAllSessions`; when that fails the
  administrator sees an error, the change stands, and the open sockets of the account
  stay (`unrevoked`), contrary to "must reach connections that are already open"
  (`users.service.ts:276-277`).
* `AuthProvider.tsx:75-76` and `SocketProvider.tsx:92-93` say a refresh that fails is
  announced; the one the timer or a refused handshake starts is not, so the tab
  keeps a session that is over until its next request. Socket.IO does not retry
  a handshake the server refused, so such a tab also stays offline.
* An answer is not tied to the session that asked: a late refresh overwrites the
  token of a newer sign-in, the "who am I" of the boot overwrites a sign-in, the
  timer is armed again while a sign-out is on its way (`strayed`, `leaving`).

*Board and dashboards*

* No page asks again on a reconnection, nor on the first connection (`missed`).
* Writes that only move the overdue flag, and `clearStaleFlags`, are published to
  nobody or only as a change of the task: lists and dashboards stay behind
  (`missed`). A developer who loses a task keeps it on the dashboard.
* A `task:changed` that is published late overwrites a newer row (`crossed`).
* An assignee between two updates is not told when the second request still has
  the previous one as former assignee; a manager who was the assignee is told
  `deleted` of a task he still sees (`fanout.ts:147`).
* `PROJECT_*` events do not count as task events for the refetch, and steady
  activity keeps resetting its pause.
* The `total` of a list is stale after a pushed removal; a dialog that is open while
  its task is asked again saves a colleague's change back (`TaskDialog.tsx:72`,
  "Only changed fields are sent"). `Screens` compares a form with the row it was
  opened on; a dialog that stays open is not modelled.
* `completedThisWeek` cannot be reproduced through the list endpoint
  (`dashboard.service.ts:9-11`); it is left out of `DashboardReproducible`.

*Screens of the administration*

* After a change of role, `TeamPage` keeps a row that its role filter excludes
  (it asks again only when the account left the default filter): `SavesAreShown`.
* The comment of `TaskDialog` has the picker offer the project's people first; it
  offers nobody else.
* Archive is offered for clients the API refuses to archive, and one's own role and
  activity for changes it refuses; the page then shows the API's message:
  `DialogsAreAccepted`.

*Tray*

* A deletion takes unread notifications with it and pushes no count
  (`notification.service.ts:94-95` says the badge never drifts): `silent`.
* The rollback of "mark all" drops what arrived meanwhile, and can leave an item
  read that is unread (`tangled`); the answer of a refresh can drop an arrival.

*Seed*

* The documented counts of the fixture (`README.md:108-132`) are not those it has:
  it yields 8 To Do, 8 In Progress, 4 In Review and 4 Done, 88 events and 29
  notifications; Neha's feed holds 46 of them.
* `seed.ts` says that each project has one unassigned task, which Lumen has not, and
  that Ravi and Mei work for both managers, which Mei does not. `PortfolioIsMixed`
  states what holds.

## 6. What is not modelled

* In `Tasks`: project membership, archived projects and changes of a role while a
  request runs (constants here; `Portfolio` has them beside each other); the order
  of entries inside one transaction.
* In `Feed`: loading older pages (it does not change what is newest), the
  "you missed N" banner, a reader whose scope changes, the cursor of an account
  without a row in the passing run.
* In `Sessions`: password hashes, hence a sign-in with the old password that
  overlaps its change; rate limits. In `logout`, the fallback to the single row is
  modelled for a token that no longer verifies, not for a database that refuses
  the first of two statements.
* In `Portfolio`: names and texts, the notification of a new member, the change of
  a project while its tasks are written.
* In `Realtime` and `Connection`: `project:subscribe` and the project room (whoever
  passes its per-socket check is in another addressed room as well); a second
  sign-in sent before the first was answered; a second tab
  that changes the shared cookie; several API processes, which would need an
  adapter the code has not.
* In `Live`: paging, sorting and text search of lists; the twenty items the tray
  keeps; a tab whose user changes role.
* In `Directory`: order, limits, recent activity, who is online.
* In `Screens`: texts and their validation, a form that stays open while its row
  changes, the refusal of a request that overlaps another (`Portfolio`, `Accounts`).
* Never: rendering, wording, avatars, configuration, logging, the deployment files.

## 7. Plan

What the project would take up next, in this order:

1. `Portfolio` composed with `Tasks`: a project deleted, or a member removed, under
   a task request (`projects.service.ts`, `tasks.service.ts`); the constants of `Tasks`
   become variables.
2. The feed of an account without a cursor row, and of a reader whose role or
   projects change, as an instance of `Feed` of its own.
3. A second tab on one cookie in `Connection`, which joins it to `Sessions`.
4. A page of the administration in `Pages`, so that what `Screens` says of one save is
   said of saves that overlap.
