------------------------------- MODULE Pages -------------------------------
(***************************************************************************)
(* The page of one browser tab: the query hook (useApiQuery.ts), the two   *)
(* ways a page follows the socket (useLiveTasks.ts), and the pages that    *)
(* use them: TasksPage, ProjectDetailPage, TaskDetailPage, DashboardPage.  *)
(*                                                                         *)
(* A page is its kind and what it asks for.  A list is filtered by a query,*)
(* which on the tasks page is the URL; a project page pins its project.    *)
(***************************************************************************)
EXTENDS Writes

CONSTANTS Tab,     \* the tabs a behaviour may follow: user, page, whether the page is
                   \* there and the socket connected or both on their way, and how
                   \* many of MaxRequests are spent
          Filters  \* the queries of the tasks page

Page == [kind : {"tasks"}, query : Filters \cup {<< >>}]
        \cup [kind : {"project"}, query : [project : Project]]
        \cup [kind : {"task"}, task : Task]
        \cup [kind : {"dashboard", "tray"}]

ASSUME TabAssumption == Tab \subseteq [user : User, page : Page, loaded : BOOLEAN, started : Nat]

VARIABLES
    shown,    \* useApiQuery: data
    failed,   \* useApiQuery: error
    asked,    \* requests on their way; latest is the generation check
    timer,    \* useRefetchOnActivity: the debounce timer
    news,     \* history: news[t], the newest write of t the page was told of by a
              \* push, or by the answer to a save
    crossed,  \* history: tasks of which older news, a message or an answer,
              \* overwrote newer
    missed    \* history: something happened since the page was read that the
              \* server does not tell this page, or told it while offline

pageVars == <<page, shown, failed, asked, timer, news, crossed, missed>>

Nothing == [kind |-> "nothing"]
Rows(f) == [kind |-> "rows", rows |-> f]

HasRows == shown.kind = "rows"

-----------------------------------------------------------------------------
(* Requests *)

Request(pg) == [pc |-> "sent", page |-> pg, answer |-> Nothing, latest |-> TRUE, whole |-> TRUE]

\* Mutant: requests are neither aborted nor told apart.
AllStay(rs) == rs

\* A new request supersedes those before: what was not answered is aborted.
Supersede(rs) == {[r EXCEPT !.latest = FALSE] : r \in {q \in rs : q.pc = "answered"}}

Ask(pg) == asked' = Supersede(asked) \cup {Request(pg)}

\* What the queries of a page hold now.
Reading(pg) ==
    IF pg.kind = "task" THEN Rows(GetTask(Me, pg.task, tasks))
    ELSE Rows(ListTasks(Me, pg.query, tasks))

Answer(pg) ==
    IF pg.kind # "dashboard" THEN Reading(pg)
    ELSE [kind |-> "dashboard", tiles |-> Tiles(Me, tasks),
          cards |-> Cards(Me, tasks), due |-> DueThisWeek(Me, tasks)]

\* The server answers.
Serve(r) ==
    /\ r \in asked /\ r.pc = "sent" /\ r.page.kind # "dashboard"
    /\ asked' = (asked \ {r}) \cup
           {[r EXCEPT !.pc = "answered", !.answer = Reading(r.page), !.whole = up]}
    /\ UNCHANGED <<server, started, wire, page, shown, failed, timer, news, crossed, missed>>

\* The queries of a dashboard are separate reads.
ServeTiles(r) ==
    /\ r \in asked /\ r.pc = "sent" /\ r.page.kind = "dashboard"
    /\ asked' = (asked \ {r}) \cup
           {[r EXCEPT !.pc = "half", !.whole = up,
                      !.answer = [kind |-> "tiles", tiles |-> Tiles(Me, tasks)]]}
    /\ UNCHANGED <<server, started, wire, page, shown, failed, timer, news, crossed, missed>>

ServeCards(r) ==
    /\ r \in asked /\ r.pc = "half"
    /\ asked' = (asked \ {r}) \cup
           {[r EXCEPT !.pc = "answered", !.answer = [Answer(r.page) EXCEPT !.tiles = r.answer.tiles]]}
    /\ UNCHANGED <<server, started, wire, page, shown, failed, timer, news, crossed, missed>>

\* Mutant: any answer is taken, in the order of arrival.
Whichever(r) == TRUE

\* generation.current === current
Latest(r) == r.latest

\* Rows of an answer that are older than what the page was told.
Overtaken(answer) ==
    IF answer.kind # "rows" THEN {}
    ELSE {t \in DOMAIN answer.rows : answer.rows[t].at < news[t]}

Arrive(r) ==
    /\ r \in asked /\ r.pc = "answered"
    /\ asked' = asked \ {r}
    /\ IF Latest(r)
       THEN /\ shown' = r.answer /\ failed' = FALSE
            /\ crossed' = Overtaken(r.answer) /\ missed' = ~r.whole
       ELSE UNCHANGED <<shown, failed, crossed, missed>>
    /\ UNCHANGED <<server, started, wire, page, timer, news>>

\* The network; the error stands until a request succeeds.
Fail(r) ==
    /\ r \in asked /\ r.latest /\ Admit
    /\ asked' = asked \ {r}
    /\ failed' = TRUE
    /\ UNCHANGED <<server, wire, page, shown, timer, news, crossed, missed>>

Retry ==
    /\ failed /\ Ask(page)
    /\ UNCHANGED <<server, started, wire, page, shown, failed, timer, news, crossed, missed>>

-----------------------------------------------------------------------------
(* What is drawn *)

Pending == \E r \in asked : r.latest

\* An error hides what was read before; a list says when it has no rows.
Screen ==
    CASE failed -> "error"
      [] ~failed /\ shown = Nothing /\ Pending -> "loading"
      [] ~failed /\ (IF HasRows THEN DOMAIN shown.rows = {} ELSE shown = Nothing /\ ~Pending) -> "empty"
      [] OTHER -> "content"

-----------------------------------------------------------------------------
(* Following the socket *)

TimerFires ==
    /\ timer /\ timer' = FALSE
    /\ Ask(page)
    /\ UNCHANGED <<server, started, wire, page, shown, failed, news, crossed, missed>>

\* Another page: what the one before had is gone.
Navigate(pg) ==
    /\ page' = pg
    /\ shown' = Nothing /\ failed' = FALSE /\ timer' = FALSE /\ crossed' = {} /\ missed' = FALSE
    /\ asked' = {Request(pg)}

\* useLiveTaskPatch: rows that are there take the values of the message, whatever
\* it says they were before.
Patched(m) ==
    IF m.gone THEN Restrict(shown.rows, DOMAIN shown.rows \ {m.task})
    ELSE [t \in DOMAIN shown.rows |-> IF t = m.task THEN m.row ELSE shown.rows[t]]

\* m says of a row on the page what the page has known better: an older value,
\* or that it is gone although the page was read after.
Backward(m) ==
    /\ HasRows /\ m.task \in DOMAIN shown.rows
    /\ IF m.gone THEN m.at <= shown.rows[m.task].at ELSE m.at < shown.rows[m.task].at

OnActivity(m) ==
    /\ m.kind = "activity"
    /\ timer' = (timer \/ page.kind \in {"tasks", "dashboard"}
                       \/ (page.kind = "project" /\ page.query.project = m.project))
    /\ UNCHANGED <<page, shown, failed, asked, news, crossed, missed>>

Heard(t, at) == news' = [news EXCEPT ![t] = IF at > @ THEN at ELSE @]

OnListChanged(m) ==
    /\ m.kind = "changed" /\ page.kind \in Lists
    /\ shown' = IF HasRows THEN Rows(Patched(m)) ELSE shown
    /\ Heard(m.task, m.at)
    /\ crossed' = IF Backward(m) THEN crossed \cup {m.task} ELSE crossed
    /\ UNCHANGED <<page, failed, asked, timer, missed>>

OnTaskChanged(m) ==
    /\ m.kind = "changed" /\ page.kind = "task"
    /\ IF m.task # page.task THEN UNCHANGED pageVars
       ELSE IF m.gone THEN Navigate([kind |-> "tasks", query |-> << >>]) /\ UNCHANGED news
       ELSE Ask(page) /\ UNCHANGED <<page, shown, failed, timer, news, crossed, missed>>

Deliver ==
    /\ line # << >>
    /\ line' = Tail(line)
    /\ OnActivity(Head(line)) \/ OnListChanged(Head(line)) \/ OnTaskChanged(Head(line))
    /\ UNCHANGED <<server, started, up>>

\* TasksPage: the query is the URL.
ChangeFilter ==
    /\ page.kind = "tasks" /\ Admit
    /\ \E q \in Filters :
        /\ q # page.query
        /\ page' = [page EXCEPT !.query = q]
        /\ Ask(page')
    /\ UNCHANGED <<server, wire, shown, failed, timer, news, crossed, missed>>

-----------------------------------------------------------------------------
(* The answer to what the tab itself sent *)

\* The dialog of the task page shows what the save answered; the status control
\* and a page that was left do nothing.  After a deletion: the project's page.
Reply(w) ==
    LET q == write[w]
        job == q.last[1]
    IN  /\ q.pc = "publish" /\ q.here /\ q.jobs = << >>
        /\ write' = [write EXCEPT ![w] = Idle]
        /\ \/ /\ job.gone
              /\ Navigate([kind |-> "project", query |-> [project |-> job.row.project]])
              /\ UNCHANGED news
           \/ /\ ~job.gone /\ page.kind = "task"
              /\ shown' = Rows([t \in {job.task} |-> job.row])
              /\ crossed' = IF HasRows /\ \E t \in DOMAIN shown.rows : shown.rows[t].at <= job.row.at
                            THEN crossed ELSE crossed \cup {job.task}
              /\ Heard(job.task, job.row.at)
              /\ UNCHANGED <<page, failed, asked, timer, missed>>
           \/ /\ ~job.gone
              /\ UNCHANGED pageVars
        /\ UNCHANGED <<database, started, wire>>

-----------------------------------------------------------------------------
(* What a commit does that the page is not told *)

Loses(q) == Sees(Me, tasks[q.task]) /\ ~Sees(Me, tasks'[q.task])

\* Only the flag changes, and the page does not listen to that; or the user loses
\* the task, and nobody told them, or the page listens to activity alone; or the
\* user came to the task after the deletion looked who to tell.
Untold(q) ==
    \/ q.pc = "update" /\ ~Logged(q) /\ page.kind # "task"
    \/ q.pc = "update" /\ Loses(q) /\ (page.kind = "dashboard" \/ q.seen.assignee # me)
    \/ q.pc = "delete" /\ Sees(Me, tasks[q.task]) /\ ~Sees(Me, q.seen)

Overlook(b) ==
    /\ missed' = (missed \/ b)
    /\ asked' = IF b THEN {[r EXCEPT !.whole = FALSE] : r \in asked} ELSE asked
    /\ UNCHANGED <<page, shown, failed, timer, news, crossed>>

PagesInit ==
    /\ \E tab \in Tab :
        /\ me = tab.user /\ page = tab.page /\ up = tab.loaded /\ started = tab.started
        /\ shown = IF tab.loaded /\ page.kind # "tray" THEN Answer(page) ELSE Nothing
        /\ asked = IF tab.loaded \/ page.kind = "tray" THEN {} ELSE {Request(page)}
    /\ failed = FALSE /\ timer = FALSE
    /\ news = [t \in Task |-> 0] /\ crossed = {} /\ missed = FALSE

PagesTypeOK ==
    /\ page.kind \in PageKind
    /\ failed \in BOOLEAN /\ timer \in BOOLEAN /\ missed \in BOOLEAN
    /\ news \in [Task -> Nat] /\ crossed \subseteq Task
    /\ \A r \in asked : r.pc \in {"sent", "half", "answered"}
    /\ Cardinality({r \in asked : r.latest}) <= 1
    /\ shown.kind \in {"nothing", "rows", "dashboard"}
    /\ shown.kind = "dashboard" => page.kind = "dashboard"
    /\ HasRows => DOMAIN shown.rows \subseteq Task
=============================================================================
