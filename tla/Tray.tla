-------------------------------- MODULE Tray --------------------------------
(***************************************************************************)
(* The notification tray of one browser tab: NotificationProvider.tsx and  *)
(* the bell, against notification.service.ts and the count the socket      *)
(* server sends on connect.  items maps the notifications of the tray to   *)
(* whether they are shown read; their order is left out, and the twenty    *)
(* the tray keeps are never reached.                                       *)
(***************************************************************************)
EXTENDS Writes

VARIABLES
    items,    \* NotificationProvider: the tray
    unread,   \* NotificationProvider: the badge
    calls,    \* requests of the tray, and of another device of the user
    greeting, \* the socket server counts for the socket that has connected
    last,     \* history: when the count the badge shows was read
    newest,   \* history: when the newest count it ever showed was read
    silent,   \* history: when unread notifications last went with a task
    tangled   \* history: all were marked while the mark of one was on its way

trayVars == <<items, unread, calls, greeting, last, newest, silent, tangled>>

NoGreeting == [pc |-> "none"]

\* A call; here: the tab sent it and waits.
Call(kind, id, here) ==
    [pc |-> "sent", kind |-> kind, id |-> id, here |-> here, before |-> items]

Becomes(c, d) == calls' = (calls \ {c}) \cup {d}
InFlight(kind, id) == \E c \in calls : c.kind = kind /\ c.id = id

\* setUnread of a count that was read at this time.
SetUnread(n, at) ==
    /\ unread' = n
    /\ last' = at /\ newest' = IF at > newest THEN at ELSE newest

-----------------------------------------------------------------------------
(* The tab *)

All == "all"
ShownUnread == {n \in DOMAIN items : ~items[n]}

\* refresh: on sign-in and whenever the bell is opened.
Refresh ==
    /\ page.kind = "tray" /\ Admit
    /\ ~InFlight("refresh", All)
    /\ calls' = calls \cup {Call("refresh", All, TRUE)}
    /\ UNCHANGED <<server, wire, items, unread, greeting, last, newest, silent, tangled>>

\* Shown read before the server has been asked.
MarkRead ==
    /\ Admit
    /\ \E n \in ShownUnread :
        /\ ~InFlight("mark", n)
        /\ calls' = calls \cup {Call("mark", n, TRUE)}
        /\ items' = [items EXCEPT ![n] = TRUE]
    /\ UNCHANGED <<server, wire, unread, greeting, last, newest, silent, tangled>>

MarkAllRead ==
    /\ items # << >> /\ Admit
    /\ ~InFlight("all", All)
    /\ calls' = calls \cup {Call("all", All, TRUE)}
    /\ items' = [n \in DOMAIN items |-> TRUE]
    /\ tangled' = (tangled \/ \E c \in calls : c.kind = "mark" /\ c.here)
    /\ UNCHANGED <<server, wire, unread, greeting, last, newest, silent>>

\* Another device of the user marks one.
MarkElsewhere ==
    /\ page.kind = "tray" /\ Admit
    /\ \E n \in DOMAIN notes :
        /\ ~InFlight("mark", n)
        /\ calls' = calls \cup {Call("mark", n, FALSE)}
    /\ UNCHANGED <<server, wire, items, unread, greeting, last, newest, silent, tangled>>

\* Mutant: a mark that failed stays on the screen.
KeptRead(c) == items

\* What the tray shows when the call has failed.
RolledBack(c) ==
    CASE c.kind = "mark" -> [n \in DOMAIN items |-> IF n = c.id THEN FALSE ELSE items[n]]
      [] c.kind = "all" -> c.before
      [] OTHER -> items

\* The request or its answer is lost, or the notification is gone: 404.
CallFails(c) ==
    /\ c \in calls /\ c.here
    /\ \/ c.pc \in {"sent", "answered"} /\ Admit
       \/ c.pc = "refused" /\ UNCHANGED started
    /\ calls' = calls \ {c}
    /\ items' = RolledBack(c)
    /\ UNCHANGED <<server, wire, unread, greeting, last, newest, silent, tangled>>

CallSucceeds(c) ==
    /\ c \in calls /\ c.pc = "answered" /\ c.here
    /\ calls' = calls \ {c}
    /\ SetUnread(c.unread, c.at)
    /\ items' = IF c.kind = "refresh" THEN c.rows ELSE items
    /\ UNCHANGED <<server, started, wire, greeting, silent, tangled>>

-----------------------------------------------------------------------------
(* The server *)

With(c, pc, n, at) ==
    [pc |-> pc, kind |-> c.kind, id |-> c.id, here |-> c.here, before |-> c.before,
     unread |-> n, at |-> at]

\* updateMany: one, or all that are there; then the number that is unread is
\* counted, or known to be none.
ServeMark(c) ==
    /\ c \in calls /\ c.pc = "sent" /\ c.kind \in {"mark", "all"}
    /\ IF c.kind = "mark" /\ c.id \notin DOMAIN notes
       THEN /\ calls' = (calls \ {c}) \cup IF c.here THEN {[c EXCEPT !.pc = "refused"]} ELSE {}
            /\ UNCHANGED <<notes, stamp>>
       ELSE /\ notes' = [n \in DOMAIN notes |-> notes[n] \/ c.kind = "all" \/ n = c.id]
            /\ stamp' = IF notes' = notes THEN stamp ELSE stamp + 1
            /\ Becomes(c, IF c.kind = "all" THEN With(c, "counted", 0, stamp')
                          ELSE [c EXCEPT !.pc = "marked"])
    /\ UNCHANGED <<tasks, used, write, started, wire, items, unread, greeting, last, newest,
                   silent, tangled>>

CountMarked(c) ==
    /\ c \in calls /\ c.pc = "marked"
    /\ Becomes(c, With(c, "counted", Unread, stamp))
    /\ UNCHANGED <<server, started, wire, items, unread, greeting, last, newest, silent, tangled>>

\* emitUnreadCount, and the answer.
PushCount(c) ==
    /\ c \in calls /\ c.pc = "counted"
    /\ Push(<<CountMessage(c.unread, c.at)>>)
    /\ calls' = (calls \ {c}) \cup IF c.here THEN {[c EXCEPT !.pc = "answered"]} ELSE {}
    /\ UNCHANGED <<server, started, up, items, unread, greeting, last, newest, silent, tangled>>

\* listNotifications: the rows and the count are two reads.
ServeRefresh(c) ==
    /\ c \in calls /\ c.kind = "refresh"
    /\ \/ /\ c.pc = "sent"
          /\ Becomes(c, [c EXCEPT !.pc = "listed", !.before = notes])
       \/ /\ c.pc = "listed"
          /\ Becomes(c, [pc |-> "answered", kind |-> "refresh", id |-> All, here |-> TRUE,
                         rows |-> c.before, unread |-> Unread, at |-> stamp])
    /\ UNCHANGED <<server, started, wire, items, unread, greeting, last, newest, silent, tangled>>

\* on connection
Greet ==
    /\ up
    /\ \/ /\ greeting.pc = "due"
          /\ greeting' = [pc |-> "counted", unread |-> Unread, at |-> stamp]
          /\ UNCHANGED line
       \/ /\ greeting.pc = "counted"
          /\ Push(<<CountMessage(greeting.unread, greeting.at)>>)
          /\ greeting' = NoGreeting
    /\ UNCHANGED <<server, started, up, items, unread, calls, last, newest, silent, tangled>>

-----------------------------------------------------------------------------

\* What is new is put in, unless it is there.
OnNew(m) ==
    /\ m.kind = "new"
    /\ items' = [n \in DOMAIN items \cup DOMAIN m.rows |->
                    IF n \in DOMAIN items THEN items[n] ELSE m.rows[n]]
    /\ UNCHANGED <<unread, calls, greeting, last, newest, silent, tangled>>

\* Mutant: what is pushed while the tab waits for an answer is ignored.
CountWhenIdle(m) ==
    /\ m.kind = "count"
    /\ IF calls = {} THEN SetUnread(m.unread, m.at) ELSE UNCHANGED <<unread, last, newest>>
    /\ UNCHANGED <<items, calls, greeting, silent, tangled>>

OnCount(m) ==
    /\ m.kind = "count"
    /\ SetUnread(m.unread, m.at)
    /\ UNCHANGED <<items, calls, greeting, silent, tangled>>

DeliverNote ==
    /\ line # << >>
    /\ line' = Tail(line)
    /\ OnNew(Head(line)) \/ OnCount(Head(line))
    /\ UNCHANGED <<server, started, up>>

\* A task goes and takes unread notifications with it: nobody counts.
Vanish ==
    /\ silent' = IF \E n \in DOMAIN notes \ DOMAIN notes' : ~notes[n] THEN stamp' ELSE silent
    /\ UNCHANGED <<items, unread, calls, greeting, last, newest, tangled>>

TrayInit ==
    /\ items = (IF up THEN notes ELSE << >>)
    /\ unread = (IF up THEN Unread ELSE 0)
    /\ calls = IF page.kind = "tray" /\ ~up THEN {Call("refresh", All, TRUE)} ELSE {}
    /\ greeting = NoGreeting
    /\ last = 0 /\ newest = 0 /\ silent = 0 /\ tangled = FALSE

TrayTypeOK ==
    /\ \A n \in DOMAIN items : items[n] \in BOOLEAN
    /\ unread \in Nat /\ {last, newest, silent} \subseteq Nat /\ last <= newest
    /\ tangled \in BOOLEAN
    /\ greeting.pc \in {"none", "due", "counted"}
    /\ \A c \in calls : c.kind \in {"mark", "all", "refresh"}
    /\ page.kind # "tray" => trayVars = <<<< >>, 0, {}, NoGreeting, 0, 0, 0, FALSE>>
=============================================================================
