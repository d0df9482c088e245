----------------------------- MODULE Connection -----------------------------
(***************************************************************************)
(* One browser tab of the web client against the server: the session state *)
(* of AuthProvider.tsx, the token store, the single refresh under way and  *)
(* the retry of lib/api.ts, and the socket of SocketProvider.tsx; with the *)
(* administration of accounts and the sockets of other devices.            *)
(*                                                                         *)
(* cookie is the account whose live refresh token the browser holds: how   *)
(* tokens rotate is the subject of Sessions.  A refresh, a sign-in and a   *)
(* sign-out are answered in two steps, at the server and in the tab; one   *)
(* sign-in is under way at a time.  An access token that was fresh when a  *)
(* request left is fresh when it arrives.                                  *)
(*                                                                         *)
(* MaxRequests bounds what does not happen by itself: administration,      *)
(* sign-ins, new passwords, connections of other devices, and everything   *)
(* else the network loses.                                                 *)
(***************************************************************************)
EXTENDS Realtime

VARIABLES
    status,    \* AuthProvider: "loading", "authenticated" or "anonymous"
    user,      \* AuthProvider: the account on the screen
    leaving,   \* AuthProvider: the tab waits for the answer of POST /auth/logout
    token,     \* lib/api.ts: the access token, and whether it has expired
    timer,     \* AuthProvider: the refresh timer is set
    flight,    \* lib/api.ts: refreshPromise
    call,      \* call[w]: one request of the page, and bootstrapSession
    signing,   \* the POST /auth/login, or /auth/register, under way
    sock,      \* SocketProvider: "off", "trying", "refused" or "up"
    line,      \* the server-side sockets the tab still holds up
    cookie,    \* the account of the browser's live refresh cookie
    strayed    \* history: an answer asked for before a sign-in or the end of a
               \* session was taken for news of what came after

tabVars == <<status, user, leaving, token, timer, flight, call, signing, sock, line, cookie,
             strayed>>
vars == <<accountVars, started, serverVars, tabVars>>

NoToken == [of |-> NoOne, fresh |-> FALSE]
Fresh(u) == [of |-> u, fresh |-> TRUE]
NoFlight == [pc |-> "none"]
NoCall == [pc |-> "none"]
NoSigning == [pc |-> "none"]
Requests == {"page", "boot"}
Waiter == Requests \cup {"timer"}

\* What goes on beside the tab, and the sign-in it has sent there.
server == <<accountVars, serverVars, signing>>
screen == <<status, user, leaving, timer, sock, line>>

Lost(lost) == IF lost THEN Admit ELSE UNCHANGED started

-----------------------------------------------------------------------------
(* refreshSession: whoever asks while a refresh is under way joins it; by    *)
(* are those who go on from its outcome.                                    *)

\* Mutant: a second refresh replaces the first.
SecondFlight(ws) == [pc |-> "asked", by |-> ws, of |-> cookie, live |-> TRUE,
                     old |-> status = "anonymous", stale |-> FALSE]

\* old: nobody was signed in when the request was sent, or since then somebody
\* signed in or out or a sign-in was refused.  stale: a sign-in has put another
\* cookie in the browser since.
Asking(ws) ==
    IF flight = NoFlight
    THEN [pc |-> "asked", by |-> ws, of |-> cookie, live |-> TRUE,
          old |-> status = "anonymous", stale |-> FALSE]
    ELSE [flight EXCEPT !.by = @ \cup ws]

Aged(f) == IF f = NoFlight THEN f ELSE [f EXCEPT !.old = TRUE]

Replaced(f) == IF f = NoFlight THEN f ELSE [f EXCEPT !.old = TRUE, !.stale = TRUE]

\* The sessions of u end on the server, the one a refresh is carrying among them,
\* whichever way it travels.
Ended(u, f) ==
    IF f.pc = "asked" /\ f.of = u THEN [f EXCEPT !.of = NoOne]
    ELSE IF f.pc = "answered" /\ f.of = u THEN [f EXCEPT !.live = FALSE]
    ELSE f

\* And so does the one a sign-in has just begun.
EndedSigning(u) == IF signing.pc = "answered" /\ signing.of = u THEN [signing EXCEPT !.live = FALSE]
                   ELSE signing

\* The server answers: an access token and a new cookie, or a refusal.
ServeRefresh ==
    /\ flight.pc = "asked"
    /\ flight' = [flight EXCEPT !.pc = "answered",
                     !.of = IF @ \in Known /\ users[@].active THEN @ ELSE NoOne]
    /\ UNCHANGED <<server, started, screen, token, call, cookie, strayed>>

-----------------------------------------------------------------------------
(* The session on the screen *)

\* Mutant: the token outlives the session it belongs to.
KeepToken == token' = token

DropToken == token' = NoToken

\* announceSessionLost, and what the providers do on it.
SessionLost ==
    /\ DropToken
    /\ timer' = FALSE
    /\ status' = "anonymous" /\ user' = NoOne
    /\ sock' = "off" /\ line' = {}
    /\ strayed' = FALSE
    /\ UNCHANGED leaving

\* A session begins on the screen; the socket is created anew with the identity.
SessionBegins(u) ==
    /\ status' = "authenticated" /\ user' = u
    /\ timer' = TRUE
    /\ IF status = "authenticated" /\ user = u THEN UNCHANGED <<sock, line>>
       ELSE sock' = "trying" /\ line' = {}
    /\ UNCHANGED leaving

\* bootstrapSession came to nothing.
NothingRestored ==
    /\ status' = "anonymous" /\ sock' = "off" /\ line' = {}
    /\ strayed' = (strayed \/ status # "loading")
    /\ UNCHANGED <<user, leaving, timer>>

-----------------------------------------------------------------------------
(* Settling a refresh: every waiter goes on *)

\* A request that waited is sent again, and GET /auth/me for the first time, with
\* the token that is there now.
Resent(t) ==
    [w \in Requests |->
        IF w \notin flight.by THEN call[w]
        ELSE [call[w] EXCEPT !.pc = IF @ = "waiting" THEN "retry" ELSE "sent", !.token = t]]

Unsent == [w \in Requests |-> IF w \in flight.by THEN NoCall ELSE call[w]]

RefreshSucceeds ==
    /\ flight.pc = "answered" /\ flight.of # NoOne
    /\ token' = Fresh(flight.of)
    /\ cookie' = IF flight.live THEN flight.of ELSE NoOne
    /\ timer' = (timer \/ "timer" \in flight.by)
    /\ call' = Resent(Fresh(flight.of))
    /\ flight' = NoFlight
    /\ strayed' = (strayed \/ flight.old)
    /\ UNCHANGED <<server, started, status, user, leaving, sock, line>>

\* A request waits that was refused for want of a session.
RefusedRequestWaits == \E w \in Requests \cap flight.by : call[w].pc = "waiting"

\* Refused, or lost on the way, before it was served or after.  Nobody but a
\* refused request announces it.
RefreshFails(lost) ==
    /\ flight # NoFlight
    /\ lost \/ (flight.pc = "answered" /\ flight.of = NoOne)
    /\ Lost(lost)
    /\ cookie' = IF lost /\ (flight.pc = "asked" \/ flight.of = NoOne \/ flight.stale)
                 THEN cookie ELSE NoOne
    /\ IF RefusedRequestWaits THEN SessionLost
       ELSE /\ UNCHANGED token
            /\ IF "boot" \in flight.by THEN NothingRestored
               ELSE UNCHANGED <<screen, strayed>>
    /\ call' = Unsent
    /\ flight' = NoFlight
    /\ UNCHANGED server

\* The timer has gone off; it is set again only by a refresh that succeeds.
TimerFires ==
    /\ timer
    /\ timer' = FALSE
    /\ flight' = Asking({"timer"})
    /\ UNCHANGED <<server, started, status, user, leaving, token, call, sock, line, cookie,
                   strayed>>

TokenExpires ==
    /\ token.fresh
    /\ token' = [token EXCEPT !.fresh = FALSE]
    /\ UNCHANGED <<server, started, screen, flight, call, cookie, strayed>>

-----------------------------------------------------------------------------
(* Requests *)

\* A page asks for something, or the account page sends a new password with the
\* right or a wrong current one.
SendCall ==
    /\ status = "authenticated"
    /\ call["page"] = NoCall
    /\ \E kind \in {"read", "password", "mistyped"} :
          /\ Lost(kind # "read")
          /\ call' = [call EXCEPT !["page"] = [pc |-> "sent", kind |-> kind, token |-> token]]
    /\ UNCHANGED <<server, screen, token, flight, cookie, strayed>>

\* The account's sockets are closed and its sessions end; a tab whose socket is
\* closed that way is told session:revoked.
RevokeAll(u) ==
    LET cs == Revoked(u)
    IN  /\ Leave(cs)
        /\ signing' = EndedSigning(u)
        /\ IF line \cap cs # {} THEN SessionLost /\ flight' = Ended(u, Aged(flight))
           ELSE flight' = Ended(u, flight) /\ UNCHANGED <<token, screen, strayed>>

\* The answer of GET /auth/me begins the session on the screen.
CallSucceeds(w) ==
    LET q == call[w]
    IN  /\ q.pc \in {"sent", "retry"} /\ Accepted(q.token) /\ q.kind # "mistyped"
        /\ call' = [call EXCEPT ![w] = NoCall]
        /\ \/ /\ q.kind = "read"
              /\ UNCHANGED <<serverVars, signing, screen, token, flight, cookie, strayed>>
           \/ /\ q.kind = "password"
              /\ RevokeAll(q.token.of)
              /\ cookie' = NoOne
           \/ /\ q.kind = "me"
              /\ SessionBegins(q.token.of)
              /\ strayed' = (strayed \/ status # "loading")
              /\ UNCHANGED <<serverVars, signing, token, flight, cookie>>
        /\ UNCHANGED <<accountVars, started>>

\* Mutant: a refused request ends the session at once.
NeverAgain(w) == FALSE

FirstRefusal(w) == call[w].pc = "sent"

\* 401, which a wrong current password gets too: the first time the request waits
\* for a refresh, the second time the session is over.
CallRefused(w) ==
    /\ call[w].pc \in {"sent", "retry"}
    /\ ~Accepted(call[w].token) \/ call[w].kind = "mistyped"
    /\ IF FirstRefusal(w)
       THEN /\ flight' = Asking({w})
            /\ call' = [call EXCEPT ![w].pc = "waiting"]
            /\ UNCHANGED <<screen, token, strayed>>
       ELSE /\ SessionLost
            /\ flight' = Aged(flight)
            /\ call' = [call EXCEPT ![w] = NoCall]
    /\ UNCHANGED <<server, started, cookie>>

\* The network: a page shows an error and the session stays; a session that
\* could not be restored is not there.
CallLost(w) ==
    /\ call[w].pc \in {"sent", "retry"}
    /\ Admit
    /\ call' = [call EXCEPT ![w] = NoCall]
    /\ IF w = "boot" THEN DropToken /\ NothingRestored ELSE UNCHANGED <<token, screen, strayed>>
    /\ UNCHANGED <<server, flight, cookie>>

-----------------------------------------------------------------------------
(* Signing in and out *)

\* The sign-in page is there whenever nobody is signed in, also while the session
\* is being restored, and its request goes on when the page is gone.  Its password
\* is that of an account, or nobody's.
SendLogin ==
    /\ status # "authenticated"
    /\ signing = NoSigning
    /\ Admit
    /\ \E u \in Known \cup {NoOne} : signing' = [pc |-> "asked", of |-> u, live |-> TRUE]
    /\ UNCHANGED <<accountVars, serverVars, screen, token, flight, call, cookie, strayed>>

\* The server begins a session of an active account, or refuses.
ServeLogin ==
    /\ signing.pc = "asked"
    /\ signing' = [signing EXCEPT !.pc = "answered",
                       !.of = IF @ \in Known /\ users[@].active THEN @ ELSE NoOne]
    /\ UNCHANGED <<accountVars, serverVars, started, screen, token, flight, call, cookie, strayed>>

\* Whoever is on the screen makes way.  Only a socket that stays can have come
\* from an earlier session.
LoginSucceeds ==
    /\ signing.pc = "answered" /\ signing.of # NoOne
    /\ token' = Fresh(signing.of)
    /\ cookie' = IF signing.live THEN signing.of ELSE NoOne
    /\ SessionBegins(signing.of)
    /\ flight' = Replaced(flight)
    /\ strayed' = (strayed /\ status = "authenticated" /\ user = signing.of)
    /\ signing' = NoSigning
    /\ UNCHANGED <<accountVars, serverVars, started, call>>

\* A 401 of the sign-in itself is announced as the end of the session, whoever's
\* session is on the screen by then (request, skipAuthRetry).
LoginRefused ==
    /\ signing.pc = "answered" /\ signing.of = NoOne
    /\ SessionLost
    /\ flight' = Aged(flight)
    /\ signing' = NoSigning
    /\ UNCHANGED <<accountVars, serverVars, started, call, cookie>>

\* The network, or any other error: the page shows it and nothing changes.
LoginFails ==
    /\ signing # NoSigning
    /\ signing' = NoSigning
    /\ UNCHANGED <<accountVars, serverVars, started, screen, token, flight, call, cookie, strayed>>

\* The server ends the session; the tab waits for the answer.
Logout ==
    /\ status = "authenticated" /\ ~leaving
    /\ leaving' = TRUE /\ timer' = FALSE
    /\ flight' = IF flight = NoFlight \/ cookie = NoOne \/ flight.stale THEN flight
                 ELSE Ended(cookie, flight)
    /\ cookie' = NoOne
    /\ UNCHANGED <<server, started, status, user, token, call, sock, line, strayed>>

\* finally: with the answer, which clears the cookie, or without.
LoggedOut(lost) ==
    /\ leaving
    /\ Lost(lost)
    /\ leaving' = FALSE
    /\ DropToken
    /\ status' = "anonymous" /\ user' = NoOne
    /\ sock' = "off" /\ line' = {}
    /\ cookie' = IF lost THEN cookie ELSE NoOne
    /\ flight' = Aged(flight)
    /\ strayed' = FALSE
    /\ UNCHANGED <<server, timer, call>>

-----------------------------------------------------------------------------
(* The socket *)

\* A handshake that is let through.
Connect ==
    /\ sock = "trying" /\ Accepted(token)
    /\ Handshake(token.of)
    /\ sock' = "up" /\ line' = {NewSocket}
    /\ UNCHANGED <<accountVars, started, status, user, leaving, token, timer, flight, call,
                   signing, cookie, strayed>>

\* connect_error: one refresh.  The library does not try a handshake again that
\* the server refused.
ConnectRefused ==
    /\ sock = "trying" /\ ~Accepted(token)
    /\ sock' = "refused"
    /\ flight' = Asking({})
    /\ UNCHANGED <<server, started, status, user, leaving, token, timer, call, line, cookie,
                   strayed>>

JoinRooms(c) ==
    /\ Join(c)
    /\ UNCHANGED <<accountVars, started, tabVars>>

\* The connection breaks; the client tries again, the server finds out later.
Disconnect ==
    /\ line # {}
    /\ Admit
    /\ sock' = "trying" /\ line' = {}
    /\ UNCHANGED <<server, status, user, leaving, token, timer, flight, call, cookie,
                   strayed>>

\* The server notices that nobody is at the other end: the tab has gone, or,
\* for a socket of another device, that device has.
ServerDisconnect(c) ==
    /\ conn[c].pc = "joined" /\ c \notin line
    /\ Leave({c})
    /\ UNCHANGED <<accountVars, started, tabVars>>

\* Another device of an account connects.
ConnectElsewhere ==
    /\ Admit
    /\ \E u \in {v \in Known : users[v].active} : Handshake(u)
    /\ UNCHANGED <<accountVars, tabVars>>

-----------------------------------------------------------------------------
(* Administration *)

Revocation(k) ==
    /\ FinishRevoke(k)
    /\ RevokeAll(edit[k].target)
    /\ cookie' = IF cookie = edit[k].target THEN NoOne ELSE cookie
    /\ UNCHANGED call

\* The row stays written and the administrator is shown an error; nobody's session
\* or socket is reached.
RevocationFails(k) ==
    /\ FinishRevoke(k)
    /\ NoteFailure(edit[k].target)
    /\ UNCHANGED tabVars

Administer(k) ==
    /\ AccountStep(k)
    /\ IF edit[k].pc = "write" THEN NoteWrite(edit[k]) ELSE UNCHANGED serverVars
    /\ UNCHANGED tabVars

\* The page has been loaded and exchanges the cookie.
Init ==
    /\ AccountInit /\ ServerInit
    /\ status = "loading" /\ user = NoOne /\ leaving = FALSE
    /\ token = NoToken /\ timer = FALSE
    /\ cookie \in DOMAIN Seeded \cup {NoOne}
    /\ flight = [pc |-> "asked", by |-> {"boot"}, of |-> cookie, live |-> TRUE, old |-> FALSE,
                 stale |-> FALSE]
    /\ signing = NoSigning
    /\ call = [w \in Requests |->
                  IF w = "boot" THEN [pc |-> "first", kind |-> "me", token |-> NoToken] ELSE NoCall]
    /\ sock = "off" /\ line = {}
    /\ strayed = FALSE

Next ==
    \/ ServeRefresh \/ RefreshSucceeds \/ \E lost \in BOOLEAN : RefreshFails(lost)
    \/ TimerFires \/ TokenExpires
    \/ SendCall
    \/ \E w \in Requests : CallSucceeds(w) \/ CallRefused(w) \/ CallLost(w)
    \/ SendLogin \/ ServeLogin \/ LoginSucceeds \/ LoginRefused \/ LoginFails
    \/ Logout \/ \E lost \in BOOLEAN : LoggedOut(lost)
    \/ Connect \/ ConnectRefused \/ Disconnect \/ ConnectElsewhere
    \/ \E c \in Conn : JoinRooms(c) \/ ServerDisconnect(c)
    \/ \E k \in Clerk : Administer(k) \/ Revocation(k) \/ RevocationFails(k)

Spec == Init /\ [][Next]_vars

-----------------------------------------------------------------------------
(* Properties *)

TypeOK ==
    /\ AccountTypeOK /\ ServerTypeOK
    /\ status \in {"loading", "authenticated", "anonymous"}
    /\ user \in User \cup {NoOne} /\ (status = "authenticated" => user # NoOne)
    /\ leaving \in BOOLEAN /\ timer \in BOOLEAN /\ strayed \in BOOLEAN
    /\ token \in [of : User \cup {NoOne}, fresh : BOOLEAN]
    /\ flight = NoFlight
       \/ flight \in [pc : {"asked", "answered"}, by : SUBSET Waiter,
                      of : User \cup {NoOne}, live : BOOLEAN, old : BOOLEAN, stale : BOOLEAN]
    /\ signing = NoSigning
       \/ signing \in [pc : {"asked", "answered"}, of : User \cup {NoOne}, live : BOOLEAN]
    /\ call \in [Requests -> {NoCall} \cup
                     [pc : {"first", "sent", "waiting", "retry"},
                      kind : {"me", "read", "password", "mistyped"},
                      token : [of : User \cup {NoOne}, fresh : BOOLEAN]]]
    /\ \A w \in Requests :
          call[w].pc \in {"first", "waiting"} <=> flight # NoFlight /\ w \in flight.by
    /\ sock \in {"off", "trying", "refused", "up"}
    /\ line \subseteq Conn /\ (sock = "up" <=> line # {})
    /\ \A c \in line : conn[c] # Closed
    /\ cookie \in User \cup {NoOne}

\* What the tab sends is sent as the account it shows, and what it could renew is
\* that account's session; a tab that shows nobody holds no token.  Through
\* refreshes, sign-ins and sign-outs that overlap, a refused sign-in during the
\* restoring of a session included, only an answer to a question of an earlier
\* session (strayed) breaks this.
TabActsAsShown ==
    strayed \/ leaving
    \/ /\ status = "authenticated" => token.of = user /\ cookie \in {user, NoOne}
       /\ status = "anonymous" => token = NoToken /\ user = NoOne

\* A sign-in was refused in this step.
SignInRefused == signing # NoSigning /\ signing.of = NoOne /\ signing' = NoSigning

\* Nobody is signed out by a token that merely expired: when a session ends on
\* the screen unasked, the browser's session is over or its account was switched
\* off, or the network failed, or a wrong current password was sent, or a sign-in
\* that was sent before the session was there was refused, or the answer was
\* meant for an earlier session.
SignedOutForCause ==
    [][ status = "authenticated" /\ status' = "anonymous"
        => \/ leaving \/ strayed
           \/ cookie = NoOne \/ cookie' = NoOne \/ ~users[user].active
           \/ started' > started
           \/ call["page"] # NoCall /\ call["page"].kind = "mistyped"
           \/ SignInRefused
           \/ flight # NoFlight /\ flight.old
           \/ \E w \in Requests : call[w].pc = "retry" /\ call[w].token.of # user ]_vars
=============================================================================
