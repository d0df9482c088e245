------------------------------ MODULE Sessions ------------------------------
(***************************************************************************)
(* Sign-in sessions: server/src/modules/auth/auth.service.ts, its routes,  *)
(* and the cookie the browser keeps for it.  A sign-in starts a family of  *)
(* refresh tokens; a refresh exchanges the token in the cookie for the     *)
(* next one of its family; a token presented after it was exchanged ends   *)
(* the family.  Every service function awaits between its read and its     *)
(* writes, so calls of several tabs and the administration of the account  *)
(* interleave there.                                                       *)
(*                                                                         *)
(* Tokens and families are ids.  Access tokens, which the server does not  *)
(* store, and the tab a call comes from are left out: any call may come    *)
(* from any tab of the browser, and any tab may be signed in.              *)
(***************************************************************************)
EXTENDS Naturals

CONSTANTS Account,   \* user ids
          Browser,   \* cookie jars
          Call,      \* calls that can be under way at once
          Family,    \* family ids
          Token,     \* refresh tokens
          NoToken,   \* no cookie
          MaxFaults  \* bound: answers, calls and revocations that get lost

ASSUME NoTokenAssumption == NoToken \notin Token
ASSUME SessionBoundAssumption == MaxFaults \in Nat

VARIABLES
    active,     \* users.isActive
    issued,     \* the tokens ever signed: a function to their family and account
    live,       \* the tokens with a row that has no revokedAt
    revoked,    \* the tokens with a row that has one; a pruned token is in neither
    expired,    \* the tokens past their lifetime, whose rows no call looks at
    jar,        \* jar[b]: the refresh cookie of browser b
    call,       \* call[c]: what call c is doing
    owed,       \* accounts whose administration still has to revoke their sessions
    disturbed,  \* history: families with an overlap, a lost answer or an end on purpose
    signedOut,  \* history: families that a sign-out ended
    faults      \* calls, answers and revocations lost so far

vars == <<active, issued, live, revoked, expired, jar, call, owed, disturbed, signedOut, faults>>
rows == <<issued, live, revoked, expired>>
history == <<disturbed, signedOut>>

Cookie == Token \cup {NoToken}

Idle == [pc |-> "idle"]

FamilyOf(t) == issued[t].family
AccountOf(t) == issued[t].account

InFamily(f) == {t \in DOMAIN issued : FamilyOf(t) = f}
OfAccount(a) == {t \in DOMAIN issued : AccountOf(t) = a}

\* updateMany where revokedAt is null: the rows of S that are live are revoked.
Revoke(S) ==
    /\ live' = live \ S
    /\ revoked' = revoked \cup (live \cap S)

\* Mutant: the row of a token is not written.
RowForgotten(t, f, a) == issued

\* refreshToken.create for a new token t.
WithRow(t, f, a) ==
    [x \in DOMAIN issued \cup {t} |->
        IF x = t THEN [family |-> f, account |-> a] ELSE issued[x]]

\* The call goes on as q.
Continue(c, q) == call' = [call EXCEPT ![c] = q]

\* Its answer sets the cookie of browser b to t, or clears it; spent is the
\* token it was exchanged for, if any.
Answer(b, t, spent) == [pc |-> "answer", browser |-> b, cookie |-> t, spent |-> spent]

-----------------------------------------------------------------------------
(* Signing in: register and login *)

\* The account was found, its password verified, and it is active.
BeginLogin(c, b, a) ==
    /\ call[c] = Idle
    /\ active[a]
    /\ Continue(c, [pc |-> "login", browser |-> b, account |-> a])
    /\ UNCHANGED <<active, rows, jar, owed, history, faults>>

\* issueSession, with a random family.
IssueSession(c) ==
    LET q == call[c]
    IN  /\ q.pc = "login"
        /\ \E t \in Token \ DOMAIN issued, f \in {g \in Family : InFamily(g) = {}} :
              /\ issued' = WithRow(t, f, q.account)
              /\ live' = live \cup {t}
              /\ Continue(c, Answer(q.browser, t, NoToken))
        /\ UNCHANGED <<active, revoked, expired, jar, owed, history, faults>>

-----------------------------------------------------------------------------
(* Refreshing *)

\* A call that presented a token of f, or whose answer carries the next one.
RefreshUnderWay(c, f) ==
    \/ call[c].pc \in {"refresh", "rotate", "revoke"} /\ FamilyOf(call[c].token) = f
    \/ call[c].pc = "answer" /\ call[c].spent # NoToken /\ FamilyOf(call[c].spent) = f

SendRefresh(c, b) ==
    /\ call[c] = Idle
    /\ jar[b] # NoToken
    /\ Continue(c, [pc |-> "refresh", browser |-> b, token |-> jar[b]])
    /\ disturbed' = IF \E d \in Call : RefreshUnderWay(d, FamilyOf(jar[b]))
                    THEN disturbed \cup {FamilyOf(jar[b])} ELSE disturbed
    /\ UNCHANGED <<active, rows, jar, owed, signedOut, faults>>

\* Mutant: no reuse detection.
CurrentIfOnRecord(t) == t \in live \cup revoked

\* On record and not revoked.
Current(t) == t \in live

\* verifyRefreshToken and the lookup, with the branches they lead to: expired,
\* not on record or already exchanged, account deactivated, current.
ReadToken(c) ==
    LET q == call[c]
        t == call[c].token
        Next(pc) == [pc |-> pc, browser |-> q.browser, token |-> t]
    IN  /\ q.pc = "refresh"
        /\ \/ /\ t \in expired
              /\ Continue(c, Answer(q.browser, NoToken, t))
              /\ UNCHANGED disturbed
           \/ /\ t \notin expired /\ ~Current(t)
              /\ Continue(c, Next("revoke"))
              /\ UNCHANGED disturbed
           \/ /\ t \notin expired /\ Current(t) /\ ~active[AccountOf(t)]
              /\ Continue(c, Next("revoke"))
              /\ disturbed' = disturbed \cup {FamilyOf(t)}
           \/ /\ t \notin expired /\ Current(t) /\ active[AccountOf(t)]
              /\ Continue(c, Next("rotate"))
              /\ UNCHANGED disturbed
        /\ UNCHANGED <<active, rows, jar, owed, signedOut, faults>>

\* Mutant: the presented token stays current.
NothingSpent(t) == {}

\* Mutant: the answer leaves the old cookie in the browser.
OldCookie(q, n) == q.token

Spent(t) == {t}
NewCookie(q, n) == n

\* One transaction: the presented token is revoked, whatever its row says by
\* now, and the next one is created.
Rotate(c) ==
    LET q == call[c]
    IN  /\ q.pc = "rotate"
        /\ \E n \in Token \ DOMAIN issued :
              /\ issued' = WithRow(n, FamilyOf(q.token), AccountOf(q.token))
              /\ live' = (live \ Spent(q.token)) \cup {n}
              /\ revoked' = revoked \cup Spent(q.token)
              /\ Continue(c, Answer(q.browser, NewCookie(q, n), q.token))
        /\ UNCHANGED <<active, expired, jar, owed, history, faults>>

\* revokeFamily, after a refresh was refused.
RevokeFamily(c) ==
    LET q == call[c]
    IN  /\ q.pc = "revoke"
        /\ Revoke(InFamily(FamilyOf(q.token)))
        /\ Continue(c, Answer(q.browser, NoToken, q.token))
        /\ UNCHANGED <<active, issued, expired, jar, owed, history, faults>>

-----------------------------------------------------------------------------
(* Signing out, and a change of password *)

\* Without a cookie there is nothing to revoke; the answer clears it all the same.
SendLogout(c, b) ==
    /\ call[c] = Idle
    /\ \/ jar[b] # NoToken /\ Continue(c, [pc |-> "logout", browser |-> b, token |-> jar[b]])
       \/ jar[b] = NoToken /\ Continue(c, Answer(b, NoToken, NoToken))
    /\ UNCHANGED <<active, rows, jar, owed, history, faults>>

\* logout revokes the family of a token that verifies; of an expired one only
\* its own row.
Logout(c) ==
    LET q == call[c]
        f == FamilyOf(q.token)
    IN  /\ q.pc = "logout"
        /\ IF q.token \in expired
           THEN UNCHANGED <<live, revoked, history>>
           ELSE /\ Revoke(InFamily(f))
                /\ disturbed' = disturbed \cup {f}
                /\ signedOut' = signedOut \cup {f}
        /\ Continue(c, Answer(q.browser, NoToken, NoToken))
        /\ UNCHANGED <<active, issued, expired, jar, owed, faults>>

\* revokeAllSessions, for the rows; a purpose, not an accident.
RevokeAll(a) ==
    /\ Revoke(OfAccount(a))
    /\ disturbed' = disturbed \cup {FamilyOf(t) : t \in OfAccount(a)}

\* The new hash is written; its sessions are revoked next.
ChangePassword(c, b, a) ==
    /\ call[c] = Idle
    /\ active[a]
    /\ Continue(c, [pc |-> "purge", browser |-> b, account |-> a])
    /\ UNCHANGED <<active, rows, jar, owed, history, faults>>

PurgeOwn(c) ==
    /\ call[c].pc = "purge"
    /\ RevokeAll(call[c].account)
    /\ Continue(c, Answer(call[c].browser, NoToken, NoToken))
    /\ UNCHANGED <<active, issued, expired, jar, owed, signedOut, faults>>

-----------------------------------------------------------------------------
(* Administration (updateUser): the row first, its sessions after it *)

\* Deactivated, or a new role or password for an account that stays as it is.
Revise(a) ==
    /\ active' \in {active, [active EXCEPT ![a] = FALSE]}
    /\ owed' = owed \cup {a}
    /\ UNCHANGED <<rows, jar, call, history, faults>>

Reactivate(a) ==
    /\ ~active[a]
    /\ active' = [active EXCEPT ![a] = TRUE]
    /\ UNCHANGED <<rows, jar, call, owed, history, faults>>

Purge(a) ==
    /\ a \in owed
    /\ RevokeAll(a)
    /\ owed' = owed \ {a}
    /\ UNCHANGED <<active, issued, expired, jar, call, signedOut, faults>>

\* The API goes away in between.
PurgeLost(a) ==
    /\ a \in owed
    /\ faults < MaxFaults
    /\ owed' = owed \ {a}
    /\ faults' = faults + 1
    /\ UNCHANGED <<active, rows, jar, call, history>>

-----------------------------------------------------------------------------
(* Answers *)

\* The browser stores what Set-Cookie says, whatever its cookie is by now.
Arrive(c) ==
    /\ call[c].pc = "answer"
    /\ jar' = [jar EXCEPT ![call[c].browser] = call[c].cookie]
    /\ Continue(c, Idle)
    /\ UNCHANGED <<active, rows, owed, history, faults>>

\* The database refuses while a refresh is under way: any failure clears the cookie.
RefreshFails(c) ==
    /\ call[c].pc \in {"refresh", "rotate", "revoke"}
    /\ faults < MaxFaults
    /\ Continue(c, Answer(call[c].browser, NoToken, call[c].token))
    /\ faults' = faults + 1
    /\ UNCHANGED <<active, rows, jar, owed, history>>

\* The call gets lost on its way, on the server or on its way back.
Lose(c) ==
    /\ call[c] # Idle
    /\ faults < MaxFaults
    /\ disturbed' = IF call[c].pc = "answer" /\ NoToken \notin {call[c].cookie, call[c].spent}
                    THEN disturbed \cup {FamilyOf(call[c].spent)} ELSE disturbed
    /\ Continue(c, Idle)
    /\ faults' = faults + 1
    /\ UNCHANGED <<active, rows, jar, owed, signedOut>>

-----------------------------------------------------------------------------
(* Time *)

\* The token reaches its age, which row and signature share, and the cookie
\* that carries it, too.
Expire(t) ==
    /\ t \in DOMAIN issued \ expired
    /\ live' = live \ {t}
    /\ revoked' = revoked \ {t}
    /\ expired' = expired \cup {t}
    /\ jar' = [b \in Browser |-> IF jar[b] = t THEN NoToken ELSE jar[b]]
    /\ UNCHANGED <<active, issued, call, owed, history, faults>>

\* pruneRefreshTokens, row by row: a day after the token was revoked, which is
\* more than an exchange takes, and mostly before it expires.
Prune(t) ==
    /\ t \in revoked
    /\ \A c \in Call : call[c].pc = "rotate" => call[c].token # t
    /\ revoked' = revoked \ {t}
    /\ UNCHANGED <<active, issued, live, expired, jar, call, owed, history, faults>>

-----------------------------------------------------------------------------

Init ==
    /\ active = [a \in Account |-> TRUE]
    /\ issued = [t \in {} |-> Idle]
    /\ live = {}
    /\ revoked = {}
    /\ expired = {}
    /\ jar = [b \in Browser |-> NoToken]
    /\ call = [c \in Call |-> Idle]
    /\ owed = {}
    /\ disturbed = {}
    /\ signedOut = {}
    /\ faults = 0

CallStep(c) ==
    \/ \E b \in Browser, a \in Account : BeginLogin(c, b, a) \/ ChangePassword(c, b, a)
    \/ \E b \in Browser : SendRefresh(c, b) \/ SendLogout(c, b)
    \/ IssueSession(c) \/ ReadToken(c) \/ Rotate(c) \/ RevokeFamily(c)
    \/ Logout(c) \/ PurgeOwn(c) \/ Arrive(c) \/ RefreshFails(c) \/ Lose(c)

Administration(a) == Revise(a) \/ Reactivate(a) \/ Purge(a) \/ PurgeLost(a)

Next ==
    \/ \E c \in Call : CallStep(c)
    \/ \E a \in Account : Administration(a)
    \/ \E t \in Token : Expire(t) \/ Prune(t)

Spec == Init /\ [][Next]_vars

-----------------------------------------------------------------------------
(* Types *)

Issued == DOMAIN issued

CallState ==
    {Idle}
    \cup [pc : {"login", "purge"}, browser : Browser, account : Account]
    \cup [pc : {"refresh", "rotate", "revoke", "logout"}, browser : Browser, token : Issued]
    \cup [pc : {"answer"}, browser : Browser, cookie : Issued \cup {NoToken},
          spent : Issued \cup {NoToken}]

\* Every token a row, a cookie or a call names is one that was issued.
TypeOK ==
    /\ active \in [Account -> BOOLEAN]
    /\ Issued \subseteq Token
    /\ issued \in [Issued -> [family : Family, account : Account]]
    /\ live \subseteq Issued
    /\ revoked \subseteq Issued
    /\ expired \subseteq Issued
    /\ jar \in [Browser -> Issued \cup {NoToken}]
    /\ call \in [Call -> CallState]
    /\ owed \subseteq Account
    /\ disturbed \subseteq Family
    /\ signedOut \subseteq Family
    /\ faults \in Nat

-----------------------------------------------------------------------------
(* Safety *)

Usable(f) == live \cap InFamily(f)

\* A refresh of f has found its token current and not exchanged it yet.
Exchanging(f) == \E c \in Call : call[c].pc = "rotate" /\ FamilyOf(call[c].token) = f

Phase(f) ==
    IF InFamily(f) = {} THEN "none"
    ELSE IF Usable(f) # {} \/ Exchanging(f) THEN "open" ELSE "ended"

\* A session that has ended, by sign-out, revocation, reuse or age, never comes
\* back; only a refresh that had read its token before the end can keep it open.
Life == INSTANCE SessionLife WITH phase <- [f \in Family |-> Phase(f)]

EndedStaysEnded == Life!Spec

\* "The only explanations are a stolen cookie being replayed or a client bug"
\* (auth.service.ts): in a family whose refreshes never overlapped, that lost no
\* answer and that nobody ended, no refresh is taken for a replay.
ReuseHasACause ==
    \A c \in Call : call[c].pc = "revoke" => FamilyOf(call[c].token) \in disturbed

\* "A refresh token is therefore single-use" (auth.service.ts), as far as it goes:
\* a family whose refreshes never overlapped has one usable token at most.
QuietFamilyHasOneToken ==
    \A f \in Family \ disturbed : \A t, n \in Usable(f) : t = n

-----------------------------------------------------------------------------
(* What the repository says and overlapping calls break *)

\* auth.service.ts, on logout: signing out "ends that device's session chain
\* rather than leaving a rotated descendant usable".
SignedOutIsOver == \A f \in signedOut : Usable(f) = {}
=============================================================================
