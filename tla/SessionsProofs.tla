--------------------------- MODULE SessionsProofs ---------------------------
(***************************************************************************)
(* Theorems about Sessions, for any number of accounts, browsers, calls,   *)
(* families, tokens and faults: types, families that end for good, and     *)
(* what holds of a family whose refreshes do not overlap.                  *)
(***************************************************************************)
EXTENDS Sessions, TLAPS

-----------------------------------------------------------------------------
(* Types *)

LEMMA WithRowTyped ==
    ASSUME TypeOK, NEW t \in Token \ Issued, NEW f \in Family, NEW a \in Account,
           issued' = WithRow(t, f, a)
    PROVE  /\ Issued' = Issued \cup {t}
           /\ Issued' \subseteq Token
           /\ issued' \in [Issued' -> [family : Family, account : Account]]
           /\ \A x \in Issued : issued'[x] = issued[x]
           /\ FamilyOf(t)' = f /\ AccountOf(t)' = a
BY DEF TypeOK, WithRow, Issued, FamilyOf, AccountOf

\* A call keeps its type while more tokens are issued.
LEMMA CallsKeepType ==
    ASSUME TypeOK, Issued \subseteq Issued'
    PROVE  /\ call \in [Call -> CallState']
           /\ jar \in [Browser -> Issued' \cup {NoToken}]
<1>1. CallState \subseteq CallState'
  BY DEF CallState, Idle
<1> QED  BY <1>1 DEF TypeOK

\* What a call can hold, by its control state.
LEMMA CallHolds ==
    ASSUME TypeOK, NEW c \in Call
    PROVE  /\ call[c].pc \in {"login", "purge"} =>
                 /\ call[c] \in [pc : {"login", "purge"}, browser : Browser, account : Account]
           /\ call[c].pc \in {"refresh", "rotate", "revoke", "logout"} =>
                 call[c] \in [pc : {"refresh", "rotate", "revoke", "logout"},
                              browser : Browser, token : Issued]
           /\ call[c].pc = "answer" =>
                 call[c] \in [pc : {"answer"}, browser : Browser,
                              cookie : Issued \cup {NoToken}, spent : Issued \cup {NoToken}]
           /\ call[c].pc \in {"idle", "login", "purge", "refresh", "rotate", "revoke", "logout",
                              "answer"}
           /\ call[c].pc = "idle" => call[c] = Idle
<1>1. call[c] \in CallState
  BY DEF TypeOK
<1> QED  BY <1>1 DEF CallState, Idle

\* A call that goes on with a typed record stays typed.
LEMMA ContinueTyped ==
    ASSUME TypeOK, Issued \subseteq Issued', NEW c \in Call, NEW q \in CallState', Continue(c, q)
    PROVE  call' \in [Call -> CallState']
BY CallsKeepType DEF Continue

LEMMA TypeInit == ASSUME Init PROVE TypeOK
BY SessionBoundAssumption DEF Init, TypeOK, Issued, CallState

LEMMA TypeNext == ASSUME TypeOK, [Next]_vars PROVE TypeOK'
<1> USE DEF Issued, rows, history
<1>b. ASSUME NEW c \in Call, NEW b \in Browser, NEW a \in Account,
             BeginLogin(c, b, a) \/ ChangePassword(c, b, a)
      PROVE  TypeOK'
  BY <1>b DEF BeginLogin, ChangePassword, TypeOK, Continue, CallState
<1>s. ASSUME NEW c \in Call, NEW b \in Browser, SendRefresh(c, b)
      PROVE  TypeOK'
  <2>1. jar[b] \in Issued /\ FamilyOf(jar[b]) \in Family
    BY <1>s DEF SendRefresh, TypeOK, FamilyOf
  <2>2. [pc |-> "refresh", browser |-> b, token |-> jar[b]] \in CallState'
    BY <1>s, <2>1 DEF SendRefresh, CallState
  <2> QED  BY <1>s, <2>1, <2>2, ContinueTyped DEF SendRefresh, TypeOK
<1>o. ASSUME NEW c \in Call, NEW b \in Browser, SendLogout(c, b)
      PROVE  TypeOK'
  <2>1. \E q \in CallState' : Continue(c, q)
    BY <1>o DEF SendLogout, TypeOK, CallState, Answer
  <2> QED  BY <1>o, <2>1, ContinueTyped DEF SendLogout, TypeOK
<1>i. ASSUME NEW c \in Call, IssueSession(c)
      PROVE  TypeOK'
  <2>1. call[c].browser \in Browser /\ call[c].account \in Account
    BY <1>i, CallHolds DEF IssueSession
  <2>2. PICK t \in Token \ DOMAIN issued, f \in Family :
            /\ issued' = WithRow(t, f, call[c].account)
            /\ live' = live \cup {t}
            /\ Continue(c, Answer(call[c].browser, t, NoToken))
    BY <1>i DEF IssueSession
  <2>3. /\ Issued' = Issued \cup {t}
        /\ Issued' \subseteq Token
        /\ issued' \in [Issued' -> [family : Family, account : Account]]
    BY <2>1, <2>2, WithRowTyped
  <2>4. Answer(call[c].browser, t, NoToken) \in CallState'
    BY <2>1, <2>3 DEF Answer, CallState
  <2> QED  BY <1>i, <2>2, <2>3, <2>4, ContinueTyped, CallsKeepType DEF IssueSession, TypeOK
<1>r. ASSUME NEW c \in Call, ReadToken(c)
      PROVE  TypeOK'
  <2>1. call[c].browser \in Browser /\ call[c].token \in Issued
        /\ FamilyOf(call[c].token) \in Family
    BY <1>r, CallHolds DEF ReadToken, TypeOK, FamilyOf
  <2>2. \E q \in CallState' : Continue(c, q)
    BY <1>r, <2>1 DEF ReadToken, CallState, Answer
  <2>3. disturbed' \subseteq Family
    BY <1>r, <2>1 DEF ReadToken, TypeOK
  <2> QED  BY <1>r, <2>2, <2>3, ContinueTyped DEF ReadToken, TypeOK
<1>t. ASSUME NEW c \in Call, Rotate(c)
      PROVE  TypeOK'
  <2>1. /\ call[c].browser \in Browser /\ call[c].token \in Issued
        /\ FamilyOf(call[c].token) \in Family /\ AccountOf(call[c].token) \in Account
    BY <1>t, CallHolds DEF Rotate, TypeOK, FamilyOf, AccountOf
  <2>2. PICK n \in Token \ DOMAIN issued :
            /\ issued' = WithRow(n, FamilyOf(call[c].token), AccountOf(call[c].token))
            /\ live' = (live \ Spent(call[c].token)) \cup {n}
            /\ Continue(c, Answer(call[c].browser, NewCookie(call[c], n), call[c].token))
    BY <1>t DEF Rotate
  <2>3. /\ Issued' = Issued \cup {n}
        /\ Issued' \subseteq Token
        /\ issued' \in [Issued' -> [family : Family, account : Account]]
    BY <2>1, <2>2, WithRowTyped
  <2>4. Answer(call[c].browser, NewCookie(call[c], n), call[c].token) \in CallState'
    BY <2>1, <2>3 DEF Answer, CallState, NewCookie
  <2> QED
    BY <1>t, <2>1, <2>2, <2>3, <2>4, ContinueTyped, CallsKeepType DEF Rotate, Spent, TypeOK
<1>v. ASSUME NEW c \in Call, RevokeFamily(c)
      PROVE  TypeOK'
  <2>1. Answer(call[c].browser, NoToken, call[c].token) \in CallState'
    BY <1>v, CallHolds DEF RevokeFamily, Answer, CallState
  <2> QED  BY <1>v, <2>1, ContinueTyped DEF RevokeFamily, Revoke, TypeOK
<1>l. ASSUME NEW c \in Call, Logout(c)
      PROVE  TypeOK'
  <2>1. call[c].browser \in Browser /\ FamilyOf(call[c].token) \in Family
    BY <1>l, CallHolds DEF Logout, TypeOK, FamilyOf
  <2>2. Answer(call[c].browser, NoToken, NoToken) \in CallState'
    BY <2>1 DEF Answer, CallState
  <2> QED  BY <1>l, <2>1, <2>2, ContinueTyped DEF Logout, Revoke, TypeOK
<1>a. \A x : {FamilyOf(t) : t \in OfAccount(x)} \subseteq Family
  BY DEF TypeOK, FamilyOf, OfAccount
<1>p. ASSUME NEW c \in Call, PurgeOwn(c)
      PROVE  TypeOK'
  <2>1. Answer(call[c].browser, NoToken, NoToken) \in CallState'
    BY <1>p, CallHolds DEF PurgeOwn, Answer, CallState
  <2> QED  BY <1>p, <1>a, <2>1, ContinueTyped DEF PurgeOwn, RevokeAll, Revoke, TypeOK
<1>w. ASSUME NEW c \in Call, Arrive(c)
      PROVE  TypeOK'
  <2>1. call[c].browser \in Browser /\ call[c].cookie \in Issued \cup {NoToken}
    BY <1>w, CallHolds DEF Arrive
  <2>2. Idle \in CallState'
    BY DEF CallState
  <2> QED  BY <1>w, <2>1, <2>2, ContinueTyped DEF Arrive, TypeOK
<1>f. ASSUME NEW c \in Call, RefreshFails(c)
      PROVE  TypeOK'
  <2>1. Answer(call[c].browser, NoToken, call[c].token) \in CallState'
    BY <1>f, CallHolds DEF RefreshFails, Answer, CallState
  <2> QED  BY <1>f, <2>1, ContinueTyped DEF RefreshFails, TypeOK
<1>x. ASSUME NEW c \in Call, Lose(c)
      PROVE  TypeOK'
  <2>1. disturbed' \subseteq Family
    BY <1>x, CallHolds DEF Lose, TypeOK, FamilyOf
  <2>2. Idle \in CallState'
    BY DEF CallState
  <2> QED  BY <1>x, <2>1, <2>2, ContinueTyped DEF Lose, TypeOK
<1>m. ASSUME NEW a \in Account, Administration(a)
      PROVE  TypeOK'
  <2>1. CASE Revise(a)
    BY <2>1 DEF Revise, TypeOK, CallState
  <2>2. CASE Reactivate(a)
    BY <2>2 DEF Reactivate, TypeOK, CallState
  <2>3. CASE Purge(a)
    BY <2>3, <1>a DEF Purge, RevokeAll, Revoke, TypeOK, CallState
  <2>4. CASE PurgeLost(a)
    BY <2>4 DEF PurgeLost, TypeOK, CallState
  <2> QED  BY <1>m, <2>1, <2>2, <2>3, <2>4 DEF Administration
<1>e. ASSUME NEW t \in Token, Expire(t) \/ Prune(t)
      PROVE  TypeOK'
  BY <1>e DEF Expire, Prune, TypeOK, CallState
<1>u. CASE UNCHANGED vars
  BY <1>u DEF vars, TypeOK, CallState
<1> QED
  BY <1>b, <1>s, <1>o, <1>i, <1>r, <1>t, <1>v, <1>l, <1>p, <1>w, <1>f, <1>x, <1>m, <1>e, <1>u
  DEF Next, CallStep

\* Every token a row, a cookie or a call names is one that was issued.
THEOREM TypeCorrect == Spec => []TypeOK
<1>1. Init => TypeOK
  BY TypeInit
<1>2. TypeOK /\ [Next]_vars => TypeOK'
  BY TypeNext
<1> QED  BY <1>1, <1>2, PTL DEF Spec

-----------------------------------------------------------------------------
(* A family that has ended stays ended *)

\* A step that issues nothing, makes no token usable and starts no exchange but
\* of a usable token can only end families.
LEMMA PhaseOnlyEnds ==
    ASSUME TypeOK, issued' = issued, live' \subseteq live, NEW f \in Family,
           Exchanging(f)' => Exchanging(f) \/ Usable(f) # {}
    PROVE  Phase(f)' = Phase(f) \/ (Phase(f) = "open" /\ Phase(f)' = "ended")
<1>1. InFamily(f)' = InFamily(f)
  BY DEF InFamily, FamilyOf
<1>2. Usable(f)' \subseteq Usable(f)
  BY <1>1 DEF Usable
<1> QED  BY <1>1, <1>2 DEF Phase

\* Only a call that goes to "rotate" starts an exchange.
LEMMA ContinueExchanging ==
    ASSUME TypeOK, issued' = issued, NEW f \in Family, NEW c \in Call, NEW q,
           Continue(c, q), q.pc # "rotate"
    PROVE  Exchanging(f)' => Exchanging(f)
BY DEF TypeOK, Exchanging, Continue, FamilyOf

\* What a step does to the families: it opens one, or it ends some.
Opens(f) ==
    /\ Phase(f) = "none" /\ Phase(f)' = "open"
    /\ \A g \in Family \ {f} : Phase(g)' = Phase(g)
OnlyEnds ==
    \A f \in Family : Phase(f)' = Phase(f) \/ (Phase(f) = "open" /\ Phase(f)' = "ended")

LEMMA IssueOpens ==
    ASSUME TypeOK, NEW c \in Call, IssueSession(c)
    PROVE  \E f \in Family : Opens(f)
<1> USE DEF Issued
<1>1. call[c].pc = "login" /\ call[c].account \in Account
  BY CallHolds DEF IssueSession
<1>2. PICK t \in Token \ DOMAIN issued, f \in {g \in Family : InFamily(g) = {}} :
          /\ issued' = WithRow(t, f, call[c].account)
          /\ live' = live \cup {t}
          /\ Continue(c, Answer(call[c].browser, t, NoToken))
  BY DEF IssueSession
<1>3. /\ DOMAIN issued' = DOMAIN issued \cup {t}
      /\ \A x \in DOMAIN issued : issued'[x] = issued[x]
      /\ FamilyOf(t)' = f
  BY <1>1, <1>2, WithRowTyped
<1>4. Phase(f) = "none" /\ Phase(f)' = "open"
  <2>1. t \in Usable(f)'
    BY <1>2, <1>3 DEF Usable, InFamily
  <2> QED  BY <1>2, <2>1 DEF Phase, Usable
<1>5. ASSUME NEW g \in Family \ {f} PROVE Phase(g)' = Phase(g)
  <2>1. InFamily(g)' = InFamily(g)
    BY <1>3 DEF InFamily, FamilyOf
  <2>2. Usable(g)' = Usable(g)
    BY <1>2, <1>3, <2>1 DEF Usable, InFamily
  <2>3. \A d \in Call : /\ call'[d].pc = "rotate" <=> call[d].pc = "rotate"
                        /\ call[d].pc = "rotate" =>
                              /\ call'[d] = call[d] /\ call[d].token \in DOMAIN issued
    BY <1>1, <1>2, CallHolds DEF Continue, Answer, TypeOK
  <2>4. Exchanging(g)' <=> Exchanging(g)
    BY <1>3, <2>3 DEF Exchanging, FamilyOf
  <2> QED  BY <2>1, <2>2, <2>4 DEF Phase
<1> QED  BY <1>2, <1>4, <1>5 DEF Opens

LEMMA RotateKeepsPhase ==
    ASSUME TypeOK, NEW c \in Call, Rotate(c), NEW f \in Family
    PROVE  Phase(f)' = Phase(f)
<1> USE DEF Issued
<1> DEFINE t == call[c].token
<1>1. /\ call[c].pc = "rotate" /\ t \in DOMAIN issued
      /\ FamilyOf(t) \in Family /\ AccountOf(t) \in Account
  BY CallHolds DEF Rotate, TypeOK, FamilyOf, AccountOf
<1>2. PICK n \in Token \ DOMAIN issued :
          /\ issued' = WithRow(n, FamilyOf(t), AccountOf(t))
          /\ live' = (live \ {t}) \cup {n}
          /\ Continue(c, Answer(call[c].browser, NewCookie(call[c], n), t))
  BY DEF Rotate, Spent
<1>3. /\ DOMAIN issued' = DOMAIN issued \cup {n}
      /\ \A x \in DOMAIN issued : issued'[x] = issued[x]
      /\ FamilyOf(n)' = FamilyOf(t)
  BY <1>1, <1>2, WithRowTyped
<1>4. CASE f = FamilyOf(t)
  <2>1. n \in Usable(f)' /\ n \in InFamily(f)' /\ t \in InFamily(f) /\ Exchanging(f)
    BY <1>1, <1>2, <1>3, <1>4 DEF Usable, InFamily, Exchanging
  <2> QED  BY <2>1 DEF Phase
<1>5. CASE f # FamilyOf(t)
  <2>1. InFamily(f)' = InFamily(f)
    BY <1>3, <1>5 DEF InFamily, FamilyOf
  <2>2. Usable(f)' = Usable(f)
    BY <1>1, <1>2, <1>3, <1>5, <2>1 DEF Usable, InFamily, FamilyOf
  <2>3. \A d \in Call \ {c} : call'[d] = call[d]
    BY <1>2 DEF Continue, TypeOK
  <2>4. \A d \in Call : call[d].pc = "rotate" => call[d].token \in DOMAIN issued
    BY CallHolds
  <2>5. call'[c].pc # "rotate"
    BY <1>2 DEF Continue, Answer, TypeOK
  <2>6. Exchanging(f)' <=> Exchanging(f)
    BY <1>1, <1>3, <1>5, <2>3, <2>4, <2>5 DEF Exchanging, FamilyOf
  <2> QED  BY <2>1, <2>2, <2>6 DEF Phase
<1> QED  BY <1>4, <1>5

LEMMA PhasesStep ==
    ASSUME TypeOK, [Next]_vars
    PROVE  OnlyEnds \/ \E f \in Family : Opens(f)
<1> USE DEF rows, Answer, Idle
<1>a. ASSUME NEW c \in Call, issued' = issued, live' = live, NEW q, Continue(c, q), q.pc # "rotate"
      PROVE  OnlyEnds
  BY <1>a, ContinueExchanging, PhaseOnlyEnds DEF OnlyEnds
<1>b. ASSUME NEW c \in Call, NEW b \in Browser, NEW a \in Account,
             BeginLogin(c, b, a) \/ ChangePassword(c, b, a)
      PROVE  OnlyEnds
  BY <1>a, <1>b DEF BeginLogin, ChangePassword
<1>s. ASSUME NEW c \in Call, NEW b \in Browser, SendRefresh(c, b) \/ SendLogout(c, b)
      PROVE  OnlyEnds
  BY <1>a, <1>s DEF SendRefresh, SendLogout
<1>r. ASSUME NEW c \in Call, ReadToken(c)
      PROVE  OnlyEnds
  <2> SUFFICES ASSUME NEW f \in Family PROVE Exchanging(f)' => Exchanging(f) \/ Usable(f) # {}
    BY <1>r, PhaseOnlyEnds DEF OnlyEnds, ReadToken
  <2> DEFINE t == call[c].token
  <2>1. issued' = issued /\ t \in DOMAIN issued
    BY <1>r, CallHolds DEF ReadToken, Issued
  <2>2. CASE \E q : Continue(c, q) /\ q.pc # "rotate"
    BY <2>1, <2>2, ContinueExchanging
  <2>3. CASE t \in live /\ Continue(c, [pc |-> "rotate", browser |-> call[c].browser, token |-> t])
    <3>1. t \in Usable(FamilyOf(t))
      BY <2>1, <2>3 DEF Usable, InFamily
    <3>2. /\ call'[c].token = t
          /\ \A d \in Call \ {c} : call'[d] = call[d]
      BY <2>3 DEF Continue, TypeOK
    <3> QED  BY <2>1, <3>1, <3>2 DEF Exchanging, FamilyOf
  <2> QED  BY <1>r, <2>2, <2>3 DEF ReadToken, Current
<1>v. ASSUME NEW c \in Call,
             \/ RevokeFamily(c) \/ Logout(c) \/ PurgeOwn(c)
             \/ Arrive(c) \/ RefreshFails(c) \/ Lose(c)
      PROVE  OnlyEnds
  <2>1. issued' = issued /\ live' \subseteq live /\ \E q : Continue(c, q) /\ q.pc # "rotate"
    BY <1>v DEF RevokeFamily, Logout, PurgeOwn, Arrive, RefreshFails, Lose, RevokeAll, Revoke
  <2> QED  BY <2>1, ContinueExchanging, PhaseOnlyEnds DEF OnlyEnds
<1>m. ASSUME \/ \E a \in Account : Administration(a)
             \/ \E t \in Token : Expire(t) \/ Prune(t)
             \/ UNCHANGED vars
      PROVE  OnlyEnds
  <2>1. issued' = issued /\ live' \subseteq live /\ call' = call
    BY <1>m DEF Administration, Revise, Reactivate, Purge, PurgeLost, RevokeAll, Revoke,
                Expire, Prune, vars
  <2>2. \A f \in Family : Exchanging(f)' => Exchanging(f)
    BY <2>1 DEF Exchanging, FamilyOf
  <2> QED  BY <2>1, <2>2, PhaseOnlyEnds DEF OnlyEnds
<1>t. ASSUME NEW c \in Call, Rotate(c)
      PROVE  OnlyEnds
  BY <1>t, RotateKeepsPhase DEF OnlyEnds
<1>c. ASSUME NEW c \in Call, CallStep(c)
      PROVE  OnlyEnds \/ \E f \in Family : Opens(f)
  <2>1. CASE IssueSession(c)
    BY <2>1, IssueOpens
  <2>2. CASE \E b \in Browser, a \in Account : BeginLogin(c, b, a) \/ ChangePassword(c, b, a)
    BY <1>b, <2>2
  <2>3. CASE \E b \in Browser : SendRefresh(c, b) \/ SendLogout(c, b)
    BY <1>s, <2>3
  <2> QED  BY <1>c, <1>r, <1>v, <1>t, <2>1, <2>2, <2>3 DEF CallStep
<1> QED  BY <1>c, <1>m DEF Next

\* Sessions implements SessionLife: a family that has ended, whatever ended it
\* and whatever calls were under way, is never open again.
THEOREM LifeCorrect == Spec => EndedStaysEnded
<1>1. Init => Life!Init
  BY DEF Init, Life!Init, Phase, InFamily
<1>2. TypeOK /\ [Next]_vars => Life!Next
  <2> SUFFICES ASSUME TypeOK, [Next]_vars PROVE Life!Next
    OBVIOUS
  <2> DEFINE phase == [f \in Family |-> Phase(f)]
  <2>1. CASE \E f \in Family : Opens(f)
    <3>1. PICK f \in Family : Opens(f)
      BY <2>1
    <3>2. Life!Open(f)
      BY <3>1 DEF Opens, Life!Open
    <3> QED  BY <3>2 DEF Life!Next
  <2>2. CASE OnlyEnds
    <3> DEFINE S == {f \in Family : Phase(f) = "open" /\ Phase(f)' = "ended"}
    <3>1. Life!End(S)
      BY <2>2 DEF OnlyEnds, Life!End
    <3> QED  BY <3>1 DEF Life!Next
  <2> QED  BY <2>1, <2>2, PhasesStep
<1> QED  BY <1>1, <1>2, TypeCorrect, PTL DEF Spec, EndedStaysEnded, Life!Spec

-----------------------------------------------------------------------------
(* Families whose refreshes do not overlap *)

\* A call that presented a token of f, or whose answer carries one.
Pending(c, f) ==
    \/ RefreshUnderWay(c, f)
    \/ call[c].pc = "answer" /\ call[c].cookie # NoToken /\ FamilyOf(call[c].cookie) = f

Holds(b, f) == jar[b] # NoToken /\ FamilyOf(jar[b]) = f

\* To present t is no sign of a replay.
Sound(t) == t \in live \cup expired

\* The token after t is on its way to browser b.
Exchanged(b, t) ==
    \E c \in Call : /\ call[c].pc = "answer" /\ call[c].browser = b
                    /\ call[c].spent = t /\ call[c].cookie # NoToken

\* A family nothing has disturbed is in one place: one usable token, one call,
\* one browser, and they agree.
OneToken(f) == \A t, n \in Usable(f) : t = n
OneCall(f) == \A c, d \in Call : Pending(c, f) /\ Pending(d, f) => c = d
CallsSound(f) ==
    \A c \in Call :
        call[c].pc \in {"refresh", "rotate"} /\ FamilyOf(call[c].token) = f =>
            /\ Sound(call[c].token)
            /\ call[c].pc = "rotate" => Usable(f) \subseteq {call[c].token}
JarsSound(f) == \A b \in Browser : Holds(b, f) => Sound(jar[b]) \/ Exchanged(b, jar[b])
AnswersSound(f) ==
    \A c \in Call :
        call[c].pc = "answer" /\ call[c].cookie # NoToken /\ FamilyOf(call[c].cookie) = f =>
            /\ Sound(call[c].cookie)
            /\ IF call[c].spent = NoToken THEN \A b \in Browser : ~Holds(b, f)
                                          ELSE FamilyOf(call[c].spent) = f
OneJar(f) == \A a, b \in Browser : Holds(a, f) /\ Holds(b, f) => a = b
SamePlace(f) ==
    \A c \in Call, b \in Browser : Pending(c, f) /\ Holds(b, f) => b = call[c].browser

Quiet(f) ==
    /\ OneToken(f) /\ OneCall(f) /\ CallsSound(f) /\ JarsSound(f)
    /\ AnswersSound(f) /\ OneJar(f) /\ SamePlace(f)

\* The strengthening of ReuseHasACause and QuietFamilyHasOneToken that is inductive.
QuietFamilies == ReuseHasACause /\ \A f \in Family \ disturbed : Quiet(f)

LEMMA QuietInit == ASSUME Init PROVE QuietFamilies
BY DEF Init, QuietFamilies, ReuseHasACause, Quiet, OneToken, OneCall, CallsSound, JarsSound,
       AnswersSound, OneJar, SamePlace, Pending, RefreshUnderWay, Holds, Usable, Idle

\* Call c goes on as q without handing out a token of f, and not from an answer
\* that did; the tokens of f stay as sound as they were.
Harmless(c, q, f) ==
    /\ issued' = issued /\ jar' = jar /\ live' \subseteq live
    /\ \A t \in InFamily(f) : Sound(t) => Sound(t)'
    /\ Continue(c, q)
    /\ q.pc \in {"idle", "login", "purge", "refresh", "logout", "rotate", "revoke", "answer"}
    /\ q.pc \in {"refresh", "rotate"} /\ FamilyOf(q.token) = f => q.token \in live'
    /\ q.pc = "answer" => q.cookie = NoToken
    /\ Pending(c, f)' => Pending(c, f) /\ q.browser = call[c].browser
    /\ \/ call[c].pc # "answer" \/ NoToken \in {call[c].spent, call[c].cookie}
       \/ FamilyOf(call[c].spent) # f

LEMMA QuietCall ==
    ASSUME TypeOK, NEW f \in Family, Quiet(f), NEW c \in Call, NEW q, Harmless(c, q, f)
    PROVE  Quiet(f)'
<1> USE DEF Harmless
<1>1. /\ call'[c] = q
      /\ \A d \in Call \ {c} : call'[d] = call[d]
  BY DEF Continue, TypeOK
<1>2. /\ InFamily(f)' = InFamily(f) /\ Usable(f)' \subseteq Usable(f)
      /\ \A t : FamilyOf(t)' = FamilyOf(t)
      /\ \A b \in Browser : Holds(b, f)' <=> Holds(b, f)
  BY DEF InFamily, Usable, FamilyOf, Holds
<1>3. \A d \in Call : Pending(d, f)' => Pending(d, f) /\ call'[d].browser = call[d].browser
  <2> SUFFICES ASSUME NEW d \in Call \ {c}, Pending(d, f)' PROVE Pending(d, f)
    BY <1>1
  <2> QED  BY <1>1, <1>2 DEF Pending, RefreshUnderWay
<1>4. OneToken(f)'
  BY <1>2 DEF Quiet, OneToken
<1>5. OneCall(f)'
  BY <1>3 DEF Quiet, OneCall
<1>6. CallsSound(f)'
  <2> SUFFICES ASSUME NEW d \in Call, call'[d].pc \in {"refresh", "rotate"},
                      FamilyOf(call'[d].token) = f
               PROVE  /\ Sound(call[d].token)'
                      /\ call'[d].pc = "rotate" => Usable(f)' \subseteq {call'[d].token}
    BY <1>2 DEF CallsSound
  <2>1. CASE d = c
    <3>1. q.token \in live' /\ q.token \in Issued /\ FamilyOf(q.token) = f /\ call'[d] = q
      BY <1>1, <2>1 DEF TypeOK
    <3>2. q.token \in Usable(f)'
      BY <1>2, <3>1 DEF Usable, InFamily, Issued
    <3> QED  BY <1>4, <3>1, <3>2 DEF OneToken, Sound
  <2>2. CASE d # c
    <3>1. call[d].token \in InFamily(f) /\ call'[d] = call[d]
      BY <1>1, <2>2, CallHolds DEF InFamily, Issued
    <3>2. /\ Sound(call[d].token)
          /\ call[d].pc = "rotate" => Usable(f) \subseteq {call[d].token}
      BY <3>1 DEF Quiet, CallsSound
    <3> QED  BY <1>2, <3>1, <3>2 DEF Sound
  <2> QED  BY <2>1, <2>2
<1>7. JarsSound(f)'
  <2> SUFFICES ASSUME NEW b \in Browser, Holds(b, f), ~Sound(jar[b])'
               PROVE  Exchanged(b, jar[b])'
    BY <1>2 DEF JarsSound
  <2>1. jar[b] \in InFamily(f) /\ jar[b] # NoToken /\ FamilyOf(jar[b]) = f
    BY DEF Holds, InFamily, TypeOK, Issued
  <2>2. Exchanged(b, jar[b])
    BY <2>1 DEF Quiet, JarsSound, Sound
  <2>3. PICK d \in Call : /\ call[d].pc = "answer" /\ call[d].browser = b
                          /\ call[d].spent = jar[b] /\ call[d].cookie # NoToken
    BY <2>2 DEF Exchanged
  <2> QED  BY <1>1, <2>1, <2>3 DEF Exchanged
<1>8. AnswersSound(f)'
  <2> SUFFICES ASSUME NEW d \in Call, call'[d].pc = "answer", call'[d].cookie # NoToken,
                      FamilyOf(call'[d].cookie) = f
               PROVE  /\ Sound(call[d].cookie)'
                      /\ IF call'[d].spent = NoToken THEN \A b \in Browser : ~Holds(b, f)
                                                     ELSE FamilyOf(call'[d].spent) = f
    BY <1>2 DEF AnswersSound
  <2>1. d # c
    BY <1>1
  <2>2. call[d].cookie \in InFamily(f)
    BY <1>1, <2>1, CallHolds DEF InFamily, Issued
  <2> QED  BY <1>1, <2>1, <2>2 DEF Quiet, AnswersSound
<1>9. OneJar(f)'
  BY <1>2 DEF Quiet, OneJar
<1>10. SamePlace(f)'
  BY <1>2, <1>3 DEF Quiet, SamePlace
<1> QED  BY <1>4, <1>5, <1>6, <1>7, <1>8, <1>9, <1>10 DEF Quiet

\* No call goes on; the tokens of f, where they are, stay as sound as they were,
\* and a browser may lose its cookie.
LEMMA QuietRows ==
    ASSUME TypeOK, NEW f \in Family, Quiet(f),
           issued' = issued, call' = call, live' \subseteq live,
           \A t \in InFamily(f) : Sound(t) => Sound(t)',
           \A b \in Browser : jar'[b] \in {jar[b], NoToken}
    PROVE  Quiet(f)'
<1>1. /\ InFamily(f)' = InFamily(f) /\ Usable(f)' \subseteq Usable(f)
      /\ \A t : FamilyOf(t)' = FamilyOf(t)
      /\ \A b \in Browser : Holds(b, f)' => Holds(b, f) /\ jar'[b] = jar[b]
      /\ \A c \in Call : Pending(c, f)' <=> Pending(c, f)
      /\ \A b, t : Exchanged(b, t)' <=> Exchanged(b, t)
  BY DEF InFamily, Usable, FamilyOf, Holds, Pending, RefreshUnderWay, Exchanged
<1>2. \A t \in Issued : FamilyOf(t) = f /\ Sound(t) => Sound(t)'
  BY DEF InFamily, Issued
<1>3. OneToken(f)' /\ OneCall(f)' /\ OneJar(f)' /\ SamePlace(f)'
  BY <1>1 DEF Quiet, OneToken, OneCall, OneJar, SamePlace
<1>4. CallsSound(f)'
  BY <1>1, <1>2, CallHolds DEF Quiet, CallsSound
<1>5. JarsSound(f)'
  BY <1>1, <1>2 DEF Quiet, JarsSound, TypeOK, Holds
<1>6. AnswersSound(f)'
  BY <1>1, <1>2, CallHolds DEF Quiet, AnswersSound
<1> QED  BY <1>3, <1>4, <1>5, <1>6 DEF Quiet

\* A row for a new token n of family g says nothing new of the others.
LEMMA RowAdded ==
    ASSUME NEW n, n \notin Issued, NEW g, NEW a, issued' = WithRow(n, g, a)
    PROVE  /\ Issued' = Issued \cup {n}
           /\ FamilyOf(n)' = g
           /\ \A t \in Issued : FamilyOf(t)' = FamilyOf(t)
           /\ \A f : f # g => InFamily(f)' = InFamily(f)
<1>1. /\ Issued' = Issued \cup {n}
      /\ FamilyOf(n)' = g
      /\ \A t \in Issued : FamilyOf(t)' = FamilyOf(t)
  BY DEF Issued, WithRow, FamilyOf
<1> QED  BY <1>1 DEF InFamily, Issued

\* A new token n of another family is answered with.
LEMMA QuietElsewhere ==
    ASSUME TypeOK, NEW f \in Family, Quiet(f),
           NEW n, n \notin Issued, n # NoToken, NEW g, g # f, NEW a, issued' = WithRow(n, g, a),
           \A t \in InFamily(f) : t \in live' <=> t \in live,
           expired' = expired, jar' = jar,
           NEW c \in Call, ~Pending(c, f), NEW s \in Issued \cup {NoToken},
           s # NoToken => FamilyOf(s) = g, Continue(c, Answer(call[c].browser, n, s))
    PROVE  Quiet(f)'
<1>1. /\ Issued' = Issued \cup {n}
      /\ FamilyOf(n)' = g
      /\ \A t \in Issued : FamilyOf(t)' = FamilyOf(t)
      /\ InFamily(f)' = InFamily(f)
  BY RowAdded
<1>2. /\ call'[c] = Answer(call[c].browser, n, s)
      /\ \A d \in Call \ {c} : call'[d] = call[d]
  BY DEF Continue, TypeOK
<1>3. Usable(f)' = Usable(f) /\ \A t \in InFamily(f) : Sound(t)' <=> Sound(t)
  BY <1>1 DEF Usable, Sound
<1>4. \A b \in Browser : Holds(b, f)' <=> Holds(b, f)
  BY <1>1 DEF Holds, TypeOK
<1>5. ~Pending(c, f)'
  BY <1>1, <1>2 DEF Pending, RefreshUnderWay, Answer
<1>6. \A d \in Call \ {c} : Pending(d, f)' <=> Pending(d, f)
  BY <1>1, <1>2, CallHolds DEF Pending, RefreshUnderWay
<1>7. OneToken(f)' /\ OneCall(f)' /\ OneJar(f)'
  BY <1>3, <1>4, <1>5, <1>6 DEF Quiet, OneToken, OneCall, OneJar
<1>8. SamePlace(f)'
  BY <1>2, <1>4, <1>5, <1>6 DEF Quiet, SamePlace
<1>9. CallsSound(f)'
  <2> SUFFICES ASSUME NEW d \in Call, call'[d].pc \in {"refresh", "rotate"},
                      FamilyOf(call[d].token)' = f
               PROVE  /\ Sound(call[d].token)'
                      /\ call'[d].pc = "rotate" => Usable(f)' \subseteq {call'[d].token}
    BY DEF CallsSound
  <2>1. d # c /\ call'[d] = call[d]
    BY <1>2 DEF Answer
  <2>2. call[d].token \in InFamily(f) /\ FamilyOf(call[d].token) = f
    BY <1>1, <2>1, CallHolds DEF InFamily, Issued
  <2> QED  BY <1>3, <2>1, <2>2 DEF Quiet, CallsSound, Sound
<1>10. JarsSound(f)'
  <2> SUFFICES ASSUME NEW b \in Browser, Holds(b, f), ~Sound(jar[b])'
               PROVE  Exchanged(b, jar[b])'
    BY <1>4 DEF JarsSound
  <2>1. jar[b] \in InFamily(f) /\ jar[b] # NoToken /\ FamilyOf(jar[b]) = f
    BY DEF Holds, InFamily, TypeOK, Issued
  <2>2. ~Sound(jar[b])
    BY <1>3, <2>1 DEF Sound
  <2>3. PICK d \in Call : /\ call[d].pc = "answer" /\ call[d].browser = b
                          /\ call[d].spent = jar[b] /\ call[d].cookie # NoToken
    BY <2>2 DEF Quiet, JarsSound, Exchanged
  <2>4. Pending(d, f)
    BY <2>1, <2>3 DEF Pending, RefreshUnderWay
  <2>5. call'[d] = call[d]
    BY <1>2, <2>4
  <2> QED  BY <2>3, <2>5 DEF Exchanged
<1>11. AnswersSound(f)'
  <2> SUFFICES ASSUME NEW d \in Call, call'[d].pc = "answer", call'[d].cookie # NoToken,
                      FamilyOf(call[d].cookie)' = f
               PROVE  /\ Sound(call[d].cookie)'
                      /\ IF call'[d].spent = NoToken THEN \A b \in Browser : ~Holds(b, f)'
                                                     ELSE FamilyOf(call[d].spent)' = f
    BY DEF AnswersSound
  <2>1. d # c /\ call'[d] = call[d]
    BY <1>1, <1>2 DEF Answer
  <2>2. /\ call[d].cookie \in InFamily(f) /\ FamilyOf(call[d].cookie) = f
        /\ call[d].spent \in Issued \cup {NoToken}
    BY <1>1, <2>1, CallHolds DEF InFamily, Issued
  <2> QED  BY <1>1, <1>3, <1>4, <2>1, <2>2 DEF Quiet, AnswersSound, Sound
<1> QED  BY <1>7, <1>8, <1>9, <1>10, <1>11 DEF Quiet

\* A new session is the only one of its family.
LEMMA QuietIssue ==
    ASSUME TypeOK, NEW f \in Family, Quiet(f), NEW c \in Call, IssueSession(c)
    PROVE  Quiet(f)'
<1>1. PICK t \in Token \ DOMAIN issued, g \in {h \in Family : InFamily(h) = {}} :
          /\ issued' = WithRow(t, g, call[c].account)
          /\ live' = live \cup {t}
          /\ Continue(c, Answer(call[c].browser, t, NoToken))
  BY DEF IssueSession
<1>2. t \notin Issued /\ t # NoToken /\ expired' = expired /\ jar' = jar /\ call[c].pc = "login"
  BY <1>1, NoTokenAssumption DEF IssueSession, Issued
<1>3. ~Pending(c, f)
  BY <1>2 DEF Pending, RefreshUnderWay
<1>4. CASE g # f
  <2>1. \A x \in InFamily(f) : x \in live' <=> x \in live
    BY <1>1, <1>2 DEF InFamily, Issued
  <2> QED  BY <1>1, <1>2, <1>3, <1>4, <2>1, QuietElsewhere
<1>5. CASE g = f
  <2>1. /\ Issued' = Issued \cup {t}
        /\ FamilyOf(t)' = f
        /\ \A x \in Issued : FamilyOf(x)' = FamilyOf(x) /\ FamilyOf(x) # f
    BY <1>1, <1>2, <1>5, RowAdded DEF InFamily, Issued
  <2>2. InFamily(f)' = {t} /\ Usable(f)' = {t}
    BY <1>1, <2>1 DEF InFamily, Issued, Usable
  <2>3. /\ call'[c] = Answer(call[c].browser, t, NoToken)
        /\ \A d \in Call \ {c} : call'[d] = call[d]
    BY <1>1 DEF Continue, TypeOK
  <2>4. \A d \in Call : Pending(d, f)' => d = c
    BY <2>1, <2>3, CallHolds DEF Pending, RefreshUnderWay
  <2>5. \A b \in Browser : ~Holds(b, f)'
    BY <1>2, <2>1 DEF Holds, TypeOK
  <2>6. OneToken(f)' /\ OneCall(f)' /\ JarsSound(f)' /\ OneJar(f)' /\ SamePlace(f)'
    BY <2>2, <2>4, <2>5 DEF OneToken, OneCall, JarsSound, OneJar, SamePlace
  <2>7. CallsSound(f)'
    BY <2>3, <2>4 DEF CallsSound, Pending, RefreshUnderWay, Answer
  <2>8. AnswersSound(f)'
    BY <1>1, <2>3, <2>4, <2>5 DEF AnswersSound, Pending, Answer, Sound
  <2> QED  BY <2>6, <2>7, <2>8 DEF Quiet
<1> QED  BY <1>4, <1>5

\* A cookie is presented, and no other call of its family is under way.
LEMMA QuietSend ==
    ASSUME TypeOK, NEW f \in Family, Quiet(f), NEW c \in Call, NEW b \in Browser,
           SendRefresh(c, b), f \notin disturbed'
    PROVE  Quiet(f)'
<1> DEFINE q == [pc |-> "refresh", browser |-> b, token |-> jar[b]]
<1>1. /\ call[c] = Idle /\ jar[b] # NoToken /\ Continue(c, q)
      /\ issued' = issued /\ live' = live /\ expired' = expired /\ jar' = jar
  BY DEF SendRefresh, rows
<1>2. /\ call'[c] = q
      /\ \A d \in Call \ {c} : call'[d] = call[d]
      /\ \A t : FamilyOf(t)' = FamilyOf(t)
  BY <1>1 DEF Continue, TypeOK, FamilyOf
<1>3. CASE FamilyOf(jar[b]) # f
  <2>1. ~Pending(c, f)'
    BY <1>2, <1>3 DEF Pending, RefreshUnderWay
  <2>2. Harmless(c, q, f)
    BY <1>1, <1>3, <2>1 DEF Harmless, Sound, Idle
  <2> QED  BY <2>2, QuietCall
<1>4. CASE FamilyOf(jar[b]) = f
  <2>1. Holds(b, f)
    BY <1>1, <1>4 DEF Holds
  <2>2. \A d \in Call : ~RefreshUnderWay(d, f)
    BY <1>4 DEF SendRefresh
  <2>3. \A d \in Call : ~Pending(d, f)
    BY <2>1, <2>2 DEF Pending, RefreshUnderWay, Quiet, AnswersSound
  <2>4. Sound(jar[b])
    BY <1>1, <1>4, <2>1, <2>2 DEF Quiet, JarsSound, Exchanged, RefreshUnderWay
  <2>5. \A d \in Call : Pending(d, f)' => d = c
    BY <1>2, <2>3 DEF Pending, RefreshUnderWay
  <2>6. Usable(f)' = Usable(f) /\ \A t : Sound(t)' <=> Sound(t)
    BY <1>1 DEF Usable, InFamily, FamilyOf, Sound
  <2>7. \A a \in Browser : Holds(a, f)' => Holds(a, f) /\ a = b /\ jar'[a] = jar[a]
    BY <1>1, <1>2, <2>1 DEF Holds, Quiet, OneJar
  <2>8. OneToken(f)' /\ OneCall(f)' /\ OneJar(f)'
    BY <2>5, <2>6, <2>7 DEF Quiet, OneToken, OneCall, OneJar
  <2>9. SamePlace(f)'
    BY <1>2, <2>5, <2>7 DEF SamePlace
  <2>10. CallsSound(f)' /\ AnswersSound(f)'
    BY <1>2, <2>4, <2>5, <2>6 DEF CallsSound, AnswersSound, Pending, RefreshUnderWay
  <2>11. JarsSound(f)'
    BY <2>4, <2>6, <2>7 DEF JarsSound
  <2> QED  BY <2>8, <2>9, <2>10, <2>11 DEF Quiet
<1> QED  BY <1>3, <1>4

\* The one current token of the family is exchanged for the next.
LEMMA QuietRotate ==
    ASSUME TypeOK, NEW f \in Family, Quiet(f), NEW c \in Call, Rotate(c)
    PROVE  Quiet(f)'
<1> DEFINE t == call[c].token
<1> DEFINE w == call[c].browser
<1>1. PICK n \in Token \ DOMAIN issued :
          /\ issued' = WithRow(n, FamilyOf(t), AccountOf(t))
          /\ live' = (live \ {t}) \cup {n}
          /\ Continue(c, Answer(w, n, t))
  BY DEF Rotate, Spent, NewCookie
<1>2. /\ n \notin Issued /\ n # NoToken /\ expired' = expired /\ jar' = jar
      /\ call[c].pc = "rotate" /\ t \in Issued /\ t # NoToken /\ w \in Browser
  BY <1>1, CallHolds, NoTokenAssumption DEF Rotate, Issued, TypeOK
<1>3. CASE FamilyOf(t) # f
  <2>1. ~Pending(c, f)
    BY <1>2, <1>3 DEF Pending, RefreshUnderWay
  <2>2. \A x \in InFamily(f) : x \in live' <=> x \in live
    BY <1>1, <1>2, <1>3 DEF InFamily, Issued
  <2> QED  BY <1>1, <1>2, <1>3, <2>1, <2>2, QuietElsewhere
<1>4. CASE FamilyOf(t) = f
  <2>1. /\ Issued' = Issued \cup {n}
        /\ FamilyOf(n)' = f
        /\ \A x \in Issued : FamilyOf(x)' = FamilyOf(x)
    BY <1>1, <1>2, <1>4, RowAdded
  <2>2. Usable(f) \subseteq {t}
    BY <1>2, <1>4 DEF Quiet, CallsSound
  <2>3. Usable(f)' = {n}
    BY <1>1, <2>1, <2>2 DEF Usable, InFamily, Issued
  <2>4. /\ call'[c] = Answer(w, n, t)
        /\ \A d \in Call \ {c} : call'[d] = call[d]
    BY <1>1 DEF Continue, TypeOK
  <2>5. Pending(c, f)
    BY <1>2, <1>4 DEF Pending, RefreshUnderWay
  <2>6. \A d \in Call \ {c} : ~Pending(d, f)
    BY <2>5 DEF Quiet, OneCall
  <2>7. \A d \in Call : Pending(d, f)' => d = c
    BY <2>1, <2>4, <2>6, CallHolds DEF Pending, RefreshUnderWay
  <2>8. \A a \in Browser : Holds(a, f)' => Holds(a, f) /\ a = w
    BY <1>2, <2>1, <2>5 DEF Holds, Quiet, SamePlace, TypeOK
  <2>9. OneToken(f)' /\ OneCall(f)' /\ OneJar(f)'
    BY <2>3, <2>7, <2>8 DEF OneToken, OneCall, OneJar
  <2>10. SamePlace(f)'
    BY <2>4, <2>7, <2>8 DEF SamePlace, Answer
  <2>11. CallsSound(f)'
    BY <2>4, <2>7 DEF CallsSound, Pending, RefreshUnderWay, Answer
  <2>12. AnswersSound(f)'
    BY <1>1, <1>2, <1>4, <2>1, <2>4, <2>7 DEF AnswersSound, Pending, Answer, Sound
  <2>13. JarsSound(f)'
    <3> SUFFICES ASSUME NEW b \in Browser, Holds(b, f)'
                 PROVE  Sound(jar[b])' \/ Exchanged(b, jar[b])'
      BY DEF JarsSound
    <3>1. Holds(b, f) /\ b = w /\ jar'[b] = jar[b] /\ jar[b] \in InFamily(f)
      BY <1>2, <2>8 DEF Holds, InFamily, TypeOK, Issued
    <3>2. CASE jar[b] \in expired
      BY <1>2, <3>1, <3>2 DEF Sound
    <3>3. CASE jar[b] \in live
      <4>1. jar[b] = t
        BY <2>2, <3>1, <3>3 DEF Usable
      <4> QED  BY <1>2, <2>4, <3>1, <4>1 DEF Exchanged, Answer
    <3>4. ~Exchanged(b, jar[b])
      BY <1>2, <2>6, <3>1 DEF Exchanged, Pending, RefreshUnderWay, Holds
    <3> QED  BY <3>1, <3>2, <3>3, <3>4 DEF Quiet, JarsSound, Sound
  <2> QED  BY <2>9, <2>10, <2>11, <2>12, <2>13 DEF Quiet
<1> QED  BY <1>3, <1>4

\* The cookie of the call's browser is replaced.
LEMMA QuietArrive ==
    ASSUME TypeOK, NEW f \in Family, Quiet(f), NEW c \in Call, Arrive(c)
    PROVE  Quiet(f)'
<1> DEFINE t == call[c].cookie
<1> DEFINE w == call[c].browser
<1>1. /\ issued' = issued /\ live' = live /\ expired' = expired
      /\ call[c].pc = "answer" /\ Continue(c, Idle) /\ jar' = [jar EXCEPT ![w] = t]
  BY DEF Arrive, rows
<1>2. w \in Browser /\ t \in Issued \cup {NoToken}
  BY <1>1, CallHolds
<1>3. /\ call'[c] = Idle
      /\ \A d \in Call \ {c} : call'[d] = call[d]
      /\ jar'[w] = t
      /\ \A b \in Browser \ {w} : jar'[b] = jar[b]
  BY <1>1, <1>2 DEF Continue, TypeOK
<1>4. /\ Usable(f)' = Usable(f)
      /\ \A x : (Sound(x)' <=> Sound(x)) /\ FamilyOf(x)' = FamilyOf(x)
  BY <1>1 DEF Usable, InFamily, FamilyOf, Sound
<1>5. ~Pending(c, f)' /\ \A d \in Call \ {c} : Pending(d, f)' => Pending(d, f)
  BY <1>3, <1>4 DEF Pending, RefreshUnderWay, Idle
<1>6. OneToken(f)' /\ OneCall(f)'
  BY <1>4, <1>5 DEF Quiet, OneToken, OneCall
<1>7. CallsSound(f)'
  BY <1>3, <1>4 DEF Quiet, CallsSound, Idle
<1>8. CASE t = NoToken \/ FamilyOf(t) # f
  <2>1. \A b \in Browser : Holds(b, f)' => Holds(b, f) /\ b # w /\ jar'[b] = jar[b]
    BY <1>3, <1>4, <1>8 DEF Holds
  <2>2. OneJar(f)' /\ SamePlace(f)' /\ AnswersSound(f)'
    BY <1>3, <1>4, <1>5, <2>1 DEF Quiet, OneJar, SamePlace, AnswersSound, Idle
  <2>3. JarsSound(f)'
    BY <1>3, <1>4, <2>1 DEF Quiet, JarsSound, Exchanged
  <2> QED  BY <1>6, <1>7, <2>2, <2>3 DEF Quiet
<1>9. CASE t # NoToken /\ FamilyOf(t) = f
  <2>1. Pending(c, f) /\ Sound(t)
    BY <1>1, <1>9 DEF Pending, Quiet, AnswersSound
  <2>2. \A d \in Call : ~Pending(d, f)'
    BY <1>5, <2>1 DEF Quiet, OneCall
  <2>3. \A b \in Browser : Holds(b, f)' => b = w
    BY <1>3, <1>4, <2>1 DEF Holds, Quiet, SamePlace
  <2>4. OneJar(f)' /\ SamePlace(f)'
    BY <2>2, <2>3 DEF OneJar, SamePlace
  <2>5. AnswersSound(f)'
    BY <2>2 DEF AnswersSound, Pending
  <2>6. JarsSound(f)'
    BY <1>3, <1>4, <2>1, <2>3 DEF JarsSound
  <2> QED  BY <1>6, <1>7, <2>4, <2>5, <2>6 DEF Quiet
<1> QED  BY <1>8, <1>9

\* A call goes on, and if it is about to revoke a family, then a disturbed one.
LEMMA ReuseKept ==
    ASSUME TypeOK, ReuseHasACause, NEW c \in Call, NEW q, Continue(c, q),
           \A t \in Issued : FamilyOf(t)' = FamilyOf(t), disturbed \subseteq disturbed',
           q.pc = "revoke" => FamilyOf(q.token)' \in disturbed'
    PROVE  ReuseHasACause'
<1> SUFFICES ASSUME NEW d \in Call, call'[d].pc = "revoke"
             PROVE  FamilyOf(call[d].token)' \in disturbed'
  BY DEF ReuseHasACause
<1>1. /\ call'[c] = q
      /\ \A e \in Call \ {c} : call'[e] = call[e]
  BY DEF Continue, TypeOK
<1>2. CASE d = c
  BY <1>1, <1>2
<1>3. CASE d # c
  <2>1. call'[d] = call[d] /\ call[d].token \in Issued
    BY <1>1, <1>3, CallHolds
  <2> QED  BY <2>1 DEF ReuseHasACause
<1> QED  BY <1>2, <1>3

\* A refresh is refused only in a disturbed family: elsewhere its token is current
\* or expired.
LEMMA ReuseRead ==
    ASSUME TypeOK, QuietFamilies, NEW c \in Call, ReadToken(c)
    PROVE  ReuseHasACause'
<1> DEFINE t == call[c].token
<1>1. call[c].pc = "refresh" /\ t \in Issued /\ issued' = issued /\ FamilyOf(t) \in Family
  BY CallHolds DEF ReadToken, TypeOK, FamilyOf, rows
<1>2. disturbed \subseteq disturbed' /\ \A x : FamilyOf(x)' = FamilyOf(x)
  BY <1>1 DEF ReadToken, FamilyOf
<1>3. t \notin expired /\ t \notin live => FamilyOf(t) \in disturbed
  BY <1>1 DEF QuietFamilies, Quiet, CallsSound, Sound
<1>4. \E q : /\ Continue(c, q)
             /\ q.pc = "revoke" => FamilyOf(q.token) \in disturbed'
  BY <1>2, <1>3 DEF ReadToken, Current, Answer
<1> QED  BY <1>2, <1>4, ReuseKept DEF QuietFamilies

LEMMA ReuseNext ==
    ASSUME TypeOK, QuietFamilies, [Next]_vars
    PROVE  ReuseHasACause'
<1>1. ASSUME NEW c \in Call,
             \/ \E b \in Browser, a \in Account : BeginLogin(c, b, a) \/ ChangePassword(c, b, a)
             \/ \E b \in Browser : SendRefresh(c, b) \/ SendLogout(c, b)
             \/ RevokeFamily(c) \/ Logout(c) \/ PurgeOwn(c)
             \/ Arrive(c) \/ RefreshFails(c) \/ Lose(c)
      PROVE  ReuseHasACause'
  <2>1. /\ issued' = issued /\ disturbed \subseteq disturbed'
    BY <1>1 DEF BeginLogin, ChangePassword, SendRefresh, SendLogout, RevokeFamily, Logout,
                PurgeOwn, RevokeAll, Arrive, RefreshFails, Lose, rows, history
  <2>2. CASE RevokeFamily(c) \/ Logout(c) \/ PurgeOwn(c) \/ RefreshFails(c)
    <3>1. \E b, s : Continue(c, Answer(b, NoToken, s))
      BY <2>2 DEF RevokeFamily, Logout, PurgeOwn, RefreshFails
    <3> QED  BY <2>1, <3>1, ReuseKept DEF Answer, QuietFamilies, FamilyOf
  <2>3. CASE \E b \in Browser, a \in Account : BeginLogin(c, b, a) \/ ChangePassword(c, b, a)
    <3>1. PICK q : Continue(c, q) /\ q.pc \in {"login", "purge"}
      BY <2>3 DEF BeginLogin, ChangePassword
    <3> QED  BY <2>1, <3>1, ReuseKept DEF QuietFamilies, FamilyOf
  <2>4. CASE \E b \in Browser : SendLogout(c, b)
    <3>1. \E q : Continue(c, q) /\ q.pc # "revoke"
      BY <2>4 DEF SendLogout, Answer
    <3> QED  BY <2>1, <3>1, ReuseKept DEF QuietFamilies, FamilyOf
  <2>5. CASE Arrive(c) \/ Lose(c)
    <3>1. Continue(c, Idle)
      BY <2>5 DEF Arrive, Lose
    <3> QED  BY <2>1, <3>1, ReuseKept DEF Idle, QuietFamilies, FamilyOf
  <2>6. CASE \E b \in Browser : SendRefresh(c, b)
    <3>1. PICK b, t : Continue(c, [pc |-> "refresh", browser |-> b, token |-> t])
      BY <2>6 DEF SendRefresh
    <3> QED  BY <2>1, <3>1, ReuseKept DEF QuietFamilies, FamilyOf
  <2> QED  BY <1>1, <2>2, <2>3, <2>4, <2>5, <2>6
<1>2. ASSUME NEW c \in Call, IssueSession(c) \/ Rotate(c)
      PROVE  ReuseHasACause'
  <2>1. PICK n, g, a : n \notin Issued /\ issued' = WithRow(n, g, a)
    BY <1>2 DEF IssueSession, Rotate, Issued
  <2>2. disturbed' = disturbed /\ \E b, t, s : Continue(c, Answer(b, t, s))
    BY <1>2 DEF IssueSession, Rotate, history
  <2> QED  BY <2>1, <2>2, RowAdded, ReuseKept DEF Answer, QuietFamilies
<1>3. ASSUME \/ \E a \in Account : Administration(a)
             \/ \E t \in Token : Expire(t) \/ Prune(t)
             \/ UNCHANGED vars
      PROVE  ReuseHasACause'
  <2>1. issued' = issued /\ call' = call /\ disturbed \subseteq disturbed'
    BY <1>3 DEF Administration, Revise, Reactivate, Purge, PurgeLost, RevokeAll, Expire, Prune,
                rows, history, vars
  <2> QED  BY <2>1 DEF QuietFamilies, ReuseHasACause, FamilyOf
<1> QED  BY <1>1, <1>2, <1>3, ReuseRead DEF Next, CallStep

\* The rest of what a call does.
LEMMA QuietStep ==
    ASSUME TypeOK, ReuseHasACause, NEW f \in Family, Quiet(f), f \notin disturbed',
           NEW c \in Call,
           \/ \E b \in Browser, a \in Account : BeginLogin(c, b, a) \/ ChangePassword(c, b, a)
           \/ \E b \in Browser : SendLogout(c, b)
           \/ ReadToken(c) \/ RevokeFamily(c) \/ Logout(c) \/ PurgeOwn(c)
           \/ RefreshFails(c) \/ Lose(c)
    PROVE  Quiet(f)'
<1> SUFFICES \E q : Harmless(c, q, f)
  BY QuietCall
<1>c. ASSUME NEW q, Continue(c, q) PROVE call'[c] = q
  BY <1>c DEF Continue, TypeOK
<1>1. CASE \E b \in Browser, a \in Account : BeginLogin(c, b, a) \/ ChangePassword(c, b, a)
  <2>1. PICK q : Continue(c, q) /\ q.pc \in {"login", "purge"}
    BY <1>1 DEF BeginLogin, ChangePassword
  <2>2. ~Pending(c, f)'
    BY <1>c, <2>1 DEF Pending, RefreshUnderWay
  <2>3. /\ issued' = issued /\ jar' = jar /\ live' = live /\ expired' = expired
        /\ call[c].pc = "idle"
    BY <1>1 DEF BeginLogin, ChangePassword, rows, Idle
  <2> QED  BY <2>1, <2>2, <2>3 DEF Harmless, Sound
<1>2. CASE \E b \in Browser : SendLogout(c, b)
  <2>1. PICK q : /\ Continue(c, q) /\ q.pc \in {"logout", "answer"}
                 /\ q.pc = "answer" => q.cookie = NoToken /\ q.spent = NoToken
    BY <1>2 DEF SendLogout, Answer
  <2>2. ~Pending(c, f)'
    BY <1>c, <2>1 DEF Pending, RefreshUnderWay
  <2>3. /\ issued' = issued /\ jar' = jar /\ live' = live /\ expired' = expired
        /\ call[c].pc = "idle"
    BY <1>2 DEF SendLogout, rows, Idle
  <2> QED  BY <2>1, <2>2, <2>3 DEF Harmless, Sound
<1>3. CASE ReadToken(c) \/ RefreshFails(c)
  <2>1. PICK q : /\ Continue(c, q) /\ q.browser = call[c].browser
                 /\ q.pc \in {"answer", "revoke", "rotate"}
                 /\ q.pc = "answer" => q.cookie = NoToken /\ q.spent = call[c].token
                 /\ q.pc \in {"revoke", "rotate"} => q.token = call[c].token
                 /\ q.pc = "rotate" => q.token \in live
    BY <1>3 DEF ReadToken, RefreshFails, Answer, Current
  <2>2. /\ issued' = issued /\ jar' = jar /\ live' = live /\ expired' = expired
        /\ call[c].pc \in {"refresh", "rotate", "revoke"}
    BY <1>3 DEF ReadToken, RefreshFails, rows
  <2>3. Pending(c, f)' => Pending(c, f)
    BY <1>c, <2>1, <2>2 DEF Pending, RefreshUnderWay, FamilyOf
  <2> QED  BY <2>1, <2>2, <2>3 DEF Harmless, Sound
<1>4. CASE RevokeFamily(c)
  <2>1. FamilyOf(call[c].token) # f
    BY <1>4 DEF RevokeFamily, history, ReuseHasACause
  <2>2. /\ issued' = issued /\ jar' = jar /\ expired' = expired
        /\ live' = live \ InFamily(FamilyOf(call[c].token)) /\ call[c].pc = "revoke"
        /\ Continue(c, Answer(call[c].browser, NoToken, call[c].token))
    BY <1>4 DEF RevokeFamily, Revoke
  <2>3. ~Pending(c, f)'
    BY <1>c, <2>1, <2>2 DEF Pending, RefreshUnderWay, Answer, FamilyOf
  <2>4. \A t \in InFamily(f) : Sound(t) => Sound(t)'
    BY <2>1, <2>2 DEF InFamily, Sound
  <2> QED  BY <2>2, <2>3, <2>4 DEF Harmless, Answer
<1>5. CASE Logout(c) \/ PurgeOwn(c)
  <2>1. PICK b : Continue(c, Answer(b, NoToken, NoToken))
    BY <1>5 DEF Logout, PurgeOwn
  <2>2. ~Pending(c, f)'
    BY <1>c, <2>1 DEF Pending, RefreshUnderWay, Answer
  <2>3. /\ issued' = issued /\ jar' = jar /\ expired' = expired
        /\ call[c].pc \in {"logout", "purge"}
        /\ live' \subseteq live /\ live \cap InFamily(f) \subseteq live'
    BY <1>5 DEF Logout, PurgeOwn, RevokeAll, Revoke, InFamily, OfAccount
  <2> QED  BY <2>1, <2>2, <2>3 DEF Harmless, Answer, Sound
<1>6. CASE Lose(c)
  <2>1. /\ issued' = issued /\ jar' = jar /\ live' = live /\ expired' = expired
        /\ Continue(c, Idle)
        /\ call[c].pc # "answer" \/ NoToken \in {call[c].spent, call[c].cookie}
             \/ FamilyOf(call[c].spent) # f
    BY <1>6 DEF Lose, rows
  <2>2. ~Pending(c, f)'
    BY <1>c, <2>1 DEF Pending, RefreshUnderWay, Idle
  <2> QED  BY <2>1, <2>2 DEF Harmless, Idle, Sound
<1> QED  BY <1>1, <1>2, <1>3, <1>4, <1>5, <1>6

\* What goes on beside the calls.
LEMMA QuietBeside ==
    ASSUME TypeOK, NEW f \in Family, Quiet(f), f \notin disturbed',
           \/ \E a \in Account : Administration(a)
           \/ \E t \in Token : Expire(t) \/ Prune(t)
           \/ UNCHANGED vars
    PROVE  Quiet(f)'
<1>1. CASE \E a \in Account : Purge(a)
  <2>1. /\ issued' = issued /\ call' = call /\ jar' = jar /\ expired' = expired
        /\ live' \subseteq live /\ live \cap InFamily(f) \subseteq live'
    BY <1>1 DEF Purge, RevokeAll, Revoke, InFamily, OfAccount
  <2> QED  BY <2>1, QuietRows DEF Sound
<1>2. CASE \E t \in Token : Expire(t)
  <2>1. /\ issued' = issued /\ call' = call /\ live' \subseteq live
        /\ live \cup expired \subseteq live' \cup expired'
        /\ \A b \in Browser : jar'[b] \in {jar[b], NoToken}
    BY <1>2 DEF Expire
  <2> QED  BY <2>1, QuietRows DEF Sound
<1>3. CASE \/ \E a \in Account : Revise(a) \/ Reactivate(a) \/ PurgeLost(a)
           \/ \E t \in Token : Prune(t)
           \/ UNCHANGED vars
  <2>1. /\ issued' = issued /\ call' = call /\ jar' = jar /\ live' = live
        /\ expired' = expired
    BY <1>3 DEF Revise, Reactivate, PurgeLost, Prune, rows, vars
  <2> QED  BY <2>1, QuietRows DEF Sound
<1> QED  BY <1>1, <1>2, <1>3 DEF Administration

LEMMA QuietNext ==
    ASSUME TypeOK, QuietFamilies, [Next]_vars
    PROVE  QuietFamilies'
<1>1. ReuseHasACause'
  BY ReuseNext
<1>2. ASSUME NEW f \in Family, f \notin disturbed' PROVE Quiet(f)'
  <2>1. disturbed \subseteq disturbed'
    BY DEF Next, CallStep, BeginLogin, ChangePassword, SendRefresh, SendLogout, IssueSession,
           ReadToken, Rotate, RevokeFamily, Logout, PurgeOwn, RevokeAll, Arrive, RefreshFails,
           Lose, Administration, Revise, Reactivate, Purge, PurgeLost, Expire, Prune, history, vars
  <2>2. Quiet(f)
    BY <1>2, <2>1 DEF QuietFamilies
  <2>3. ASSUME NEW c \in Call, CallStep(c) PROVE Quiet(f)'
    <3>1. CASE \E b \in Browser : SendRefresh(c, b)
      BY <1>2, <2>2, <3>1, QuietSend
    <3>2. CASE IssueSession(c) \/ Rotate(c) \/ Arrive(c)
      BY <2>2, <3>2, QuietIssue, QuietRotate, QuietArrive
    <3> QED  BY <1>2, <2>2, <2>3, <3>1, <3>2, QuietStep DEF CallStep, QuietFamilies
  <2> QED  BY <1>2, <2>2, <2>3, QuietBeside DEF Next
<1> QED  BY <1>1, <1>2 DEF QuietFamilies

LEMMA QuietCorrect == Spec => []QuietFamilies
BY QuietInit, QuietNext, TypeCorrect, PTL DEF Spec

\* A refresh that is taken for a replay has a cause, for every number of calls,
\* browsers, tokens and families.
THEOREM ReuseCorrect == Spec => []ReuseHasACause
BY QuietCorrect, PTL DEF QuietFamilies

\* A family whose refreshes never overlap, that loses no answer and that nobody
\* ends has one usable token at most.
THEOREM OneTokenCorrect == Spec => []QuietFamilyHasOneToken
<1>1. QuietFamilies => QuietFamilyHasOneToken
  BY DEF QuietFamilies, QuietFamilyHasOneToken, Quiet, OneToken
<1> QED  BY <1>1, QuietCorrect, PTL
=============================================================================
