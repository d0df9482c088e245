-------------------------------- MODULE Feed --------------------------------
(***************************************************************************)
(* The activity feed of one account, from the INSERT of an event to the    *)
(* high-water mark of what the account has seen:                           *)
(*   - server/src/modules/activity/activity.service.ts: the numbered log,  *)
(*     written in the transaction of the change it describes, published    *)
(*     after the commit, read a page at a time; the cursor of the account; *)
(*   - server/src/realtime: delivery to the sockets that are connected;    *)
(*   - web/src/components/ActivityFeed.tsx in several browser tabs: one    *)
(*     page from the database, live events on top, acknowledgements.       *)
(* An event is its number; the module does not ask what it says.  Who may  *)
(* see which project is a constant here: the account's role does not       *)
(* change.                                                                 *)
(***************************************************************************)
EXTENDS Naturals, FiniteSets

CONSTANTS Writer,         \* transactions that can be open at once
          Screen,         \* browser tabs of the account
          Project,        \* project ids
          Scope,          \* the projects whose events the account may read
          View,           \* what a feed can show: sets of projects
          PageSize,       \* rows of a page (limit)
          InitialCursor,  \* the account's cursor at the start, 0 when it has no row
          MaxSeq,         \* bound: the number the log grows to
          MaxFaults       \* bound: connections lost, API restarts, failed requests and handlers

ASSUME ScopeAssumption == Scope \subseteq Project
ASSUME ViewAssumption == View \subseteq SUBSET Project
ASSUME FeedBoundAssumption ==
    {PageSize, InitialCursor, MaxSeq, MaxFaults} \subseteq Nat /\ InitialCursor <= MaxSeq

VARIABLES
    nextSeq,       \* the sequence behind activity_events.seq
    writer,        \* writer[w]: the transaction w runs, and what it has left to publish
    events,        \* the committed events: a function from numbers to projects
    cursor,        \* activity_cursors.lastSeenSeq of the account, 0 for no row
    acks,          \* activity:seen handlers under way on the server
    screen,        \* screen[s]: the socket of tab s and the feed it shows
    held,          \* history: the events some feed has had in its list
    acknowledged,  \* history: the numbers whose handler has finished
    swallowed,     \* history: the acknowledgements that failed and were not sent again
    faults         \* connections lost, restarts, failed requests and handlers so far

vars == <<nextSeq, writer, events, cursor, acks, screen, held, acknowledged, swallowed, faults>>
server == <<nextSeq, writer, events, cursor, acks, acknowledged, swallowed>>

Seqs == 1 .. MaxSeq

-----------------------------------------------------------------------------
(* The log *)

Idle == [pc |-> "idle"]

\* Mutant: the number is MAX(seq) + 1, read and not claimed.
NotClaimed(n) == n

\* nextval: the number is claimed at the INSERT, committed or not.
Claim(n) == n + 1

Insert(w) ==
    /\ nextSeq <= MaxSeq
    /\ \/ /\ writer[w] = Idle
          /\ \E p \in Project :
                writer' = [writer EXCEPT ![w] = [pc |-> "open", project |-> p, seqs |-> {nextSeq}]]
       \/ /\ writer[w].pc = "open"
          /\ writer' = [writer EXCEPT ![w].seqs = writer[w].seqs \cup {nextSeq}]
    /\ nextSeq' = Claim(nextSeq)
    /\ UNCHANGED <<events, cursor, acks, acknowledged, swallowed, screen, held, faults>>

Commit(w) ==
    /\ writer[w].pc = "open"
    /\ events' = [n \in DOMAIN events \cup writer[w].seqs |->
                     IF n \in writer[w].seqs THEN writer[w].project ELSE events[n]]
    /\ writer' = [writer EXCEPT ![w].pc = "committed"]
    /\ UNCHANGED <<nextSeq, cursor, acks, acknowledged, swallowed, screen, held, faults>>

\* The numbers it claimed are never used.
Rollback(w) ==
    /\ writer[w].pc = "open"
    /\ writer' = [writer EXCEPT ![w] = Idle]
    /\ UNCHANGED <<nextSeq, events, cursor, acks, acknowledged, swallowed, screen, held, faults>>

-----------------------------------------------------------------------------
(* A feed on a screen *)

Highest(S) == IF S = {} THEN 0 ELSE CHOOSE n \in S : \A m \in S : m <= n

\* The list the component builds: live events over the page.
Listed(x) == x.live \cup x.page

\* Mutant: the head of the log is acknowledged, whatever the list holds.
HeadOfLog(x) == Highest(DOMAIN events)

\* The number of the first event of that list: live events come first, the last
\* to arrive on top, whatever its number.
Newest(x) == IF x.live # {} THEN x.top ELSE Highest(x.page)

NoFeed(up) == [mounted |-> FALSE, view |-> {}, up |-> up, fetch |-> "none", answer |-> {},
               page |-> {}, live |-> {}, top |-> 0, error |-> FALSE, armed |-> FALSE]

\* The timer behind an acknowledgement restarts when the first event changes.
Rearmed(x, y) ==
    [y EXCEPT !.armed = y.up /\ Newest(y) > 0 /\ (x.armed \/ Newest(y) # Newest(x))]

\* Tab s goes from its state to y.
Becomes(s, y) ==
    /\ screen' = [screen EXCEPT ![s] = y]
    /\ held' = held \cup Listed(y)

-----------------------------------------------------------------------------
(* Publishing *)

\* Mutant: the broadcast is made inside the transaction.
PublishableEarly(w) == writer[w].pc \in {"open", "committed"}

Publishable(w) == writer[w].pc = "committed"

\* addressedRooms, then the filter of the component.
Receives(x, project) == x.up /\ x.mounted /\ project \in Scope \cap x.view

Arrive(x, seqs) ==
    Rearmed(x, [x EXCEPT !.live = x.live \cup seqs, !.top = Highest(seqs)])

\* The events of a transaction are emitted in one go, in the order of their numbers.
Publish(w) ==
    LET q == writer[w]
    IN  /\ Publishable(w)
        /\ screen' = [s \in Screen |-> IF Receives(screen[s], q.project)
                                       THEN Arrive(screen[s], q.seqs) ELSE screen[s]]
        /\ held' = held \cup UNION {Listed(screen'[s]) : s \in Screen}
        /\ writer' = [writer EXCEPT ![w] = Idle]
        /\ UNCHANGED <<nextSeq, events, cursor, acks, acknowledged, swallowed, faults>>

-----------------------------------------------------------------------------
(* Reading a page *)

Mount(s, view) ==
    /\ ~screen[s].mounted
    /\ Becomes(s, [NoFeed(screen[s].up) EXCEPT !.mounted = TRUE, !.view = view, !.fetch = "sent"])
    /\ UNCHANGED <<server, faults>>

Unmount(s) ==
    /\ screen[s].mounted
    /\ Becomes(s, NoFeed(screen[s].up))
    /\ UNCHANGED <<server, faults>>

Visible(view) == {n \in DOMAIN events : events[n] \in Scope \cap view}

\* The newest PageSize events the account may read (listActivity).
PageOf(view) ==
    {n \in Visible(view) : Cardinality({m \in Visible(view) : n < m}) < PageSize}

\* The query runs on the server ...
ServePage(s) ==
    /\ screen[s].fetch = "sent"
    /\ Becomes(s, [screen[s] EXCEPT !.fetch = "served", !.answer = PageOf(screen[s].view)])
    /\ UNCHANGED <<server, faults>>

\* ... and its answer reaches the tab later, where it replaces the live events.
PageArrives(s) ==
    LET x == screen[s]
    IN  /\ x.fetch = "served"
        /\ Becomes(s, Rearmed(x, [x EXCEPT !.fetch = "none", !.answer = {}, !.page = x.answer,
                                           !.live = {}, !.top = 0, !.error = FALSE]))
        /\ UNCHANGED <<server, faults>>

FetchFails(s) ==
    /\ screen[s].fetch # "none"
    /\ faults < MaxFaults
    /\ Becomes(s, [screen[s] EXCEPT !.fetch = "none", !.answer = {}, !.error = TRUE])
    /\ faults' = faults + 1
    /\ UNCHANGED server

\* The "try again" button of the error state.
Retry(s) ==
    /\ screen[s].error /\ screen[s].fetch = "none"
    /\ Becomes(s, [screen[s] EXCEPT !.fetch = "sent"])
    /\ UNCHANGED <<server, faults>>

-----------------------------------------------------------------------------
(* Acknowledging *)

Sent(s, n) == [from |-> s, seq |-> n]

\* The timer fires: activity:seen with the number of the first event (markSeen).
Ack(s) ==
    LET x == screen[s]
    IN  /\ x.armed
        /\ Newest(x) > 0
        /\ acks' = acks \cup {[from |-> s, seq |-> Newest(x), pc |-> "update"]}
        /\ screen' = [screen EXCEPT ![s].armed = FALSE]
        /\ swallowed' = swallowed \ {Sent(s, Newest(x))}
        /\ UNCHANGED <<nextSeq, writer, events, cursor, acknowledged, held, faults>>

\* Mutant: the row is set to what arrived.
RewindsCursor(n) == cursor > 0

\* The WHERE of the updateMany: a row, below n.
RaisesCursor(n) == 0 < cursor /\ cursor < n

Handler == [from : Screen, seq : Seqs, pc : {"update", "insert"}]

\* advanceActivityCursor, first statement ...
AckUpdate(a) ==
    /\ a \in acks /\ a.pc = "update"
    /\ IF RaisesCursor(a.seq)
       THEN /\ cursor' = a.seq
            /\ acks' = acks \ {a}
            /\ acknowledged' = acknowledged \cup {a.seq}
       ELSE /\ acks' = (acks \ {a}) \cup {[a EXCEPT !.pc = "insert"]}
            /\ UNCHANGED <<cursor, acknowledged>>
    /\ UNCHANGED <<nextSeq, writer, events, swallowed, screen, held, faults>>

\* ... and second: a row is created unless there is one.
AckInsert(a) ==
    /\ a \in acks /\ a.pc = "insert"
    /\ cursor' = IF cursor = 0 THEN a.seq ELSE cursor
    /\ acks' = acks \ {a}
    /\ acknowledged' = acknowledged \cup {a.seq}
    /\ UNCHANGED <<nextSeq, writer, events, swallowed, screen, held, faults>>

\* A statement fails: the handler logs it, and neither the socket nor the tab
\* hears of it.
AckFails(a) ==
    /\ a \in acks
    /\ faults < MaxFaults
    /\ acks' = acks \ {a}
    /\ swallowed' = swallowed \cup {Sent(a.from, a.seq)}
    /\ faults' = faults + 1
    /\ UNCHANGED <<nextSeq, writer, events, cursor, acknowledged, screen, held>>

-----------------------------------------------------------------------------
(* Connections *)

Down(x) == [x EXCEPT !.up = FALSE, !.armed = FALSE]

\* A tab loses its socket, and perhaps the acknowledgements on their way.
Drop(s) ==
    /\ screen[s].up
    /\ faults < MaxFaults
    /\ screen' = [screen EXCEPT ![s] = Down(screen[s])]
    /\ acks' \in {acks, {a \in acks : a.from # s \/ a.pc # "update"}}
    /\ faults' = faults + 1
    /\ UNCHANGED <<nextSeq, writer, events, cursor, acknowledged, swallowed, held>>

\* The API process goes away: open transactions roll back, what was committed
\* and not published is never published, handlers stop, sockets drop.
Restart ==
    /\ faults < MaxFaults
    /\ writer' = [w \in Writer |-> Idle]
    /\ acks' = {}
    /\ screen' = [s \in Screen |-> Down(screen[s])]
    /\ faults' = faults + 1
    /\ UNCHANGED <<nextSeq, events, cursor, acknowledged, swallowed, held>>

\* Mutant: only a new first event starts the timer.
ReconnectedUnarmed(x) == [x EXCEPT !.up = TRUE]

\* connected is a dependency of the acknowledging effect; nothing is fetched.
Reconnected(x) == [x EXCEPT !.up = TRUE, !.armed = Newest(x) > 0]

Reconnect(s) ==
    /\ ~screen[s].up
    /\ screen' = [screen EXCEPT ![s] = Reconnected(screen[s])]
    /\ UNCHANGED <<server, held, faults>>

-----------------------------------------------------------------------------

\* The account is signed in: its tabs are connected and none shows a feed yet.
Init ==
    /\ nextSeq = InitialCursor + 1
    /\ writer = [w \in Writer |-> Idle]
    /\ events \in [1 .. InitialCursor -> Project]
    /\ cursor = InitialCursor
    /\ acks = {}
    /\ screen = [s \in Screen |-> NoFeed(TRUE)]
    /\ held = {}
    /\ acknowledged = {}
    /\ swallowed = {}
    /\ faults = 0

WriterStep(w) == Insert(w) \/ Commit(w) \/ Rollback(w) \/ Publish(w)

ScreenStep(s) ==
    \/ \E view \in View : Mount(s, view)
    \/ Unmount(s) \/ ServePage(s) \/ PageArrives(s) \/ FetchFails(s) \/ Retry(s)
    \/ Ack(s) \/ Drop(s) \/ Reconnect(s)

Next ==
    \/ \E w \in Writer : WriterStep(w)
    \/ \E s \in Screen : ScreenStep(s)
    \/ \E a \in acks : AckUpdate(a) \/ AckInsert(a) \/ AckFails(a)
    \/ Restart

Spec == Init /\ [][Next]_vars

\* The timer of a tab fires, and the server comes to an end with every handler it
\* started, done or failed.
\* Nothing is assumed of the writers, of the pages or of the connections.
FairSpec ==
    /\ Spec
    /\ \A s \in Screen : WF_vars(Ack(s))
    /\ \A a \in Handler : WF_vars(AckUpdate(a) \/ AckInsert(a) \/ AckFails(a))

-----------------------------------------------------------------------------
(* Types *)

Claimed == 1 .. (nextSeq - 1)

OpenWriter == [pc : {"open", "committed"}, project : Project, seqs : (SUBSET Claimed) \ {{}}]

FeedState == [mounted : BOOLEAN, view : SUBSET Project, up : BOOLEAN,
              fetch : {"none", "sent", "served"}, answer : SUBSET Claimed,
              page : SUBSET Claimed, live : SUBSET Claimed, top : {0} \cup Claimed,
              error : BOOLEAN, armed : BOOLEAN]

\* Everything that names an event names a number the sequence has given out.
TypeOK ==
    /\ nextSeq \in 1 .. (MaxSeq + 1)
    /\ writer \in [Writer -> {Idle} \cup OpenWriter]
    /\ DOMAIN events \subseteq Claimed
    /\ events \in [DOMAIN events -> Project]
    /\ cursor \in {0} \cup Claimed
    /\ acks \subseteq [from : Screen, seq : Claimed, pc : {"update", "insert"}]
    /\ screen \in [Screen -> FeedState]
    /\ held \subseteq Claimed
    /\ acknowledged \subseteq Claimed
    /\ swallowed \subseteq [from : Screen, seq : Claimed]
    /\ faults \in Nat

-----------------------------------------------------------------------------
(* Safety *)

\* "Nothing is broadcast before it is committed" (activity.service.ts): an event
\* that was ever in the list of a feed, live or from a page, is in the log, also
\* when its transaction could have rolled back.
OnlyCommittedIsHeld == held \subseteq DOMAIN events

\* What the catch-up query reports as missed (catchUpActivity).
Missed == {n \in DOMAIN events : events[n] \in Scope /\ cursor < n}

\* The account is told of an event that is newer than everything any of its
\* feeds has had, however acknowledgements of several tabs and API restarts
\* interleave: the cursor never runs ahead of the screens.
NewsIsReported ==
    \A n \in DOMAIN events :
        events[n] \in Scope /\ InitialCursor < n /\ (\A m \in held : m < n) => n \in Missed

\* The cursor is a high-water mark ("a late or out-of-order acknowledgement can
\* never rewind the cursor", activity.service.ts): its two statements, taken
\* apart by other handlers, act as one that keeps the highest number.  It holds
\* when the account has a cursor row.
Mark == INSTANCE HighWater WITH Start <- InitialCursor, Number <- Seqs,
                                mark <- cursor, taken <- acknowledged

CursorIsHighWater == Mark!Spec

-----------------------------------------------------------------------------
(* Liveness *)

\* What stays first on a connected screen gets acknowledged: an acknowledgement
\* lost with its connection is sent again after the reconnection.  One whose
\* handler failed is not, until the tab reconnects or its first event changes:
\* socket.server.ts swallows the error and the component does not ask.
ShownIsAcknowledged ==
    \A s \in Screen, n \in Seqs :
        (screen[s].up /\ Newest(screen[s]) = n)
            ~> (n <= cursor \/ Sent(s, n) \in swallowed
                \/ ~screen[s].up \/ Newest(screen[s]) # n)

-----------------------------------------------------------------------------
(* What the repository says and reconnections and open transactions break *)

\* README.md, on catch-up by number: unlike a timestamp, an integer sequence has
\* no race that loses an event.  An event that commits while the account has no
\* feed open is reported by the catch-up query.
CommittedWhileAwayIsReported ==
    [][(\A s \in Screen : ~screen[s].mounted) =>
           \A n \in DOMAIN events' \ DOMAIN events : events'[n] \in Scope => n \in Missed']_vars

BeingPublished(n) == \E w \in Writer : writer[w].pc = "committed" /\ n \in writer[w].seqs

\* README.md: the client reconnects and back-fills what it missed through the
\* cursor, "so nothing is lost".  When a feed is open and connected and nothing
\* is on its way to it, every event of its view was in a feed or is reported.
OpenFeedIsBackfilled ==
    \A s \in Screen :
        screen[s].mounted /\ screen[s].up /\ screen[s].fetch = "none" /\ ~screen[s].error =>
            \A n \in Visible(screen[s].view) :
                InitialCursor < n => n \in held \cup Missed \/ BeingPublished(n)
=============================================================================
