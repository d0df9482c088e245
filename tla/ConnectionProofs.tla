-------------------------- MODULE ConnectionProofs --------------------------
(***************************************************************************)
(* What the socket server keeps while tabs, other devices and account      *)
(* requests overlap, for any number of accounts, sockets and requests: who *)
(* is online, and what an open socket stands for.                          *)
(***************************************************************************)
EXTENDS Connection, AccountsProofs, TLAPS

\* What a step of the composition does to the accounts and to the server.
ServerStep ==
    \/ UNCHANGED <<accountVars, serverVars>>
    \/ /\ UNCHANGED accountVars
       /\ \/ \E u \in Known : users[u].active /\ Handshake(u)
          \/ \E c \in Conn : Join(c)
          \/ \E cs \in SUBSET Conn : Leave(cs)
    \/ \E k \in Clerk : FinishRevoke(k) /\ Leave(Revoked(edit[k].target))
    \/ \E k \in Clerk : FinishRevoke(k) /\ NoteFailure(edit[k].target)
    \/ \E k \in Clerk : /\ AccountStep(k)
                        /\ IF edit[k].pc = "write" THEN NoteWrite(edit[k])
                           ELSE UNCHANGED serverVars

-----------------------------------------------------------------------------

LEMMA RevokeLeaves ==
    ASSUME NEW u, RevokeAll(u)
    PROVE  Leave(Revoked(u)) /\ Revoked(u) \in SUBSET Conn
BY DEF RevokeAll, Revoked, SocketsOf, Joined

LEMMA AdmitCounts == ASSUME AccountTypeOK, Admit \/ UNCHANGED started
                     PROVE  started' \in 0 .. MaxRequests
BY AdmitTyped DEF AccountTypeOK

LEMMA LostCounts == ASSUME AccountTypeOK, NEW lost \in BOOLEAN, Lost(lost)
                    PROVE  started' \in 0 .. MaxRequests
BY AdmitCounts DEF Lost

\* Every step of the tab is one of the server's, or none of its business.
LEMMA NextIsServerStep ==
    ASSUME AccountTypeOK, [Next]_vars
    PROVE  ServerStep /\ AccountNext
<1> DEFINE Counted == started' \in 0 .. MaxRequests
<1>1. CASE ServeRefresh \/ RefreshSucceeds \/ TimerFires \/ TokenExpires
  BY <1>1, AdmitCounts DEF ServeRefresh, RefreshSucceeds, TimerFires, TokenExpires, server,
                           serverVars, ServerStep, AccountNext
<1>2. ASSUME NEW lost \in BOOLEAN, RefreshFails(lost) \/ LoggedOut(lost)
      PROVE  ServerStep /\ AccountNext
  BY <1>2, LostCounts DEF RefreshFails, LoggedOut, server, serverVars, ServerStep, AccountNext
<1>3. CASE SendCall
  <2>1. PICK kind \in {"read", "password", "mistyped"} : Lost(kind # "read")
    BY <1>3 DEF SendCall
  <2> QED  BY <1>3, <2>1, LostCounts DEF SendCall, server, serverVars, ServerStep, AccountNext
<1>4. ASSUME NEW w \in Requests, CallSucceeds(w)  PROVE ServerStep /\ AccountNext
  <2>1. UNCHANGED <<accountVars, started>>
    BY <1>4 DEF CallSucceeds
  <2>2. \/ UNCHANGED serverVars
        \/ RevokeAll(call[w].token.of)
    BY <1>4 DEF CallSucceeds
  <2>3. UNCHANGED serverVars \/ \E cs \in SUBSET Conn : Leave(cs)
    BY <2>2, RevokeLeaves
  <2> QED  BY <2>1, <2>3, AdmitCounts DEF ServerStep, AccountNext
<1>5. ASSUME NEW w \in Requests, CallRefused(w) \/ CallLost(w)  PROVE ServerStep /\ AccountNext
  BY <1>5, AdmitCounts DEF CallRefused, CallLost, server, serverVars, ServerStep, AccountNext
<1>6. CASE Logout \/ ConnectRefused \/ Disconnect \/ UNCHANGED vars
  BY <1>6, AdmitCounts DEF Logout, ConnectRefused, Disconnect, vars, server, serverVars,
                           ServerStep, AccountNext
<1>12. CASE SendLogin \/ ServeLogin \/ LoginSucceeds \/ LoginRefused \/ LoginFails
  BY <1>12, AdmitCounts DEF SendLogin, ServeLogin, LoginSucceeds, LoginRefused, LoginFails,
                            serverVars, ServerStep, AccountNext
<1>7. CASE Connect
  BY <1>7, AdmitCounts DEF Connect, Accepted, ServerStep, AccountNext
<1>8. CASE ConnectElsewhere
  BY <1>8, AdmitCounts DEF ConnectElsewhere, ServerStep, AccountNext
<1>9. ASSUME NEW c \in Conn, JoinRooms(c) \/ ServerDisconnect(c)  PROVE ServerStep /\ AccountNext
  <2>1. UNCHANGED <<accountVars, started>> /\ (Join(c) \/ Leave({c}))
    BY <1>9 DEF JoinRooms, ServerDisconnect
  <2>2. {c} \in SUBSET Conn
    OBVIOUS
  <2> QED  BY <2>1, <2>2, AdmitCounts DEF ServerStep, AccountNext
<1>10. ASSUME NEW k \in Clerk, Revocation(k)  PROVE ServerStep /\ AccountNext
  BY <1>10, RevokeLeaves DEF Revocation, ServerStep, AccountNext
<1>11. ASSUME NEW k \in Clerk, Administer(k)  PROVE ServerStep /\ AccountNext
  BY <1>11 DEF Administer, ServerStep, AccountNext
<1>13. ASSUME NEW k \in Clerk, RevocationFails(k)  PROVE ServerStep /\ AccountNext
  BY <1>13 DEF RevocationFails, ServerStep, AccountNext
<1> QED  BY <1>1, <1>2, <1>3, <1>4, <1>5, <1>6, <1>7, <1>8, <1>9, <1>10, <1>11, <1>12, <1>13
         DEF Next

-----------------------------------------------------------------------------
(* Types *)

Reading == [pc : {"read"}, user : User, role : Role]
Open == [pc : {"joined"}, user : User, role : Role, tile : SUBSET User]
Sockets == [Conn -> {Closed} \cup Reading \cup Open]

IsOpen(s) == s.pc = "joined"
IsAdminSocket(s) == IsOpen(s) /\ s.role = "ADMIN"

\* A socket belongs to an account.
Owned == \A c \in Conn : conn[c] # Closed => conn[c].user \in Known

LEMMA SocketHolds ==
    ASSUME NEW cn \in Sockets, NEW c \in Conn
    PROVE  /\ cn[c] = Closed \/ cn[c] \in Reading \/ cn[c] \in Open
           /\ cn[c].pc = "closed" <=> cn[c] = Closed
           /\ cn[c].pc = "read" <=> cn[c] \in Reading
           /\ cn[c].pc = "joined" <=> cn[c] \in Open
BY DEF Sockets, Closed, Reading, Open

\* Showing who is online changes nothing but the tiles, and makes them agree.
LEMMA AnnounceKeeps ==
    ASSUME NEW cn \in Sockets, NEW reg, DOMAIN reg \subseteq User
    PROVE  /\ Announce(cn, reg) \in Sockets
           /\ \A c \in Conn : /\ Announce(cn, reg)[c] = Closed <=> cn[c] = Closed
                              /\ Announce(cn, reg)[c].pc = cn[c].pc
                              /\ cn[c] # Closed => /\ Announce(cn, reg)[c].user = cn[c].user
                                                   /\ Announce(cn, reg)[c].role = cn[c].role
           /\ \A c \in Conn :
                 /\ IsAdminSocket(Announce(cn, reg)[c])
                 /\ cn[c].tile \in {DOMAIN online, DOMAIN reg}
                 => Announce(cn, reg)[c].tile = DOMAIN reg
<1>1. ASSUME NEW c \in Conn
      PROVE  LET s == Shown(cn, reg)[c]
             IN  /\ s \in {Closed} \cup Reading \cup Open
                 /\ s = Closed <=> cn[c] = Closed
                 /\ s.pc = cn[c].pc
                 /\ cn[c] # Closed => s.user = cn[c].user /\ s.role = cn[c].role
                 /\ IsAdminSocket(s) => s.tile = DOMAIN reg
  <2>1. CASE cn[c].pc = "joined" /\ cn[c].role = "ADMIN"
    <3>1. cn[c] \in Open /\ Shown(cn, reg)[c] = [cn[c] EXCEPT !.tile = DOMAIN reg]
      BY <2>1, SocketHolds DEF Shown
    <3> QED  BY <2>1, <3>1 DEF Open, Closed
  <2>2. CASE ~(cn[c].pc = "joined" /\ cn[c].role = "ADMIN")
    BY <2>2, SocketHolds DEF Shown, IsAdminSocket, IsOpen
  <2> QED  BY <2>1, <2>2
<1>2. Shown(cn, reg) \in Sockets
  BY <1>1 DEF Shown, Sockets
<1> QED  BY <1>1, <1>2 DEF Announce, IsAdminSocket, IsOpen

-----------------------------------------------------------------------------
(* Presence *)

LEMMA RegistryLoses ==
    ASSUME NEW reg, NEW cs
    PROVE  /\ DOMAIN Disconnected(reg, cs) \subseteq DOMAIN reg
           /\ \A u \in DOMAIN reg : u \in DOMAIN Disconnected(reg, cs) <=> reg[u] \ cs # {}
           /\ \A u \in DOMAIN Disconnected(reg, cs) : Disconnected(reg, cs)[u] = reg[u] \ cs
BY DEF Disconnected

\* The types of the server's variables go with what it shows.
ServerInv == ServerTypeOK /\ Owned /\ PresenceIsCurrent

\* A step that opens no room and closes none.
LEMMA PresenceStays ==
    ASSUME ServerInv, UNCHANGED <<conn, online>>, Known \subseteq Known',
           overtaken' \subseteq Conn, crossed' \subseteq User, unrevoked' \subseteq User
    PROVE  ServerInv'
BY DEF ServerInv, ServerTypeOK, Owned, PresenceIsCurrent, SocketsOf, Joined

LEMMA LeaveKeepsPresence ==
    ASSUME ServerInv, NEW cs \in SUBSET Conn, Leave(cs), Known \subseteq Known'
    PROVE  ServerInv'
<1>1. PICK reg, cn : /\ reg = Disconnected(online, cs)
                     /\ cn = [c \in Conn |-> IF c \in cs THEN Closed ELSE conn[c]]
  OBVIOUS
<1>2. /\ online' = reg /\ conn' = Announce(cn, reg)
      /\ overtaken' \subseteq Conn /\ crossed' \subseteq User /\ unrevoked' \subseteq User
  BY <1>1 DEF Leave, ServerInv, ServerTypeOK
<1>3. cn \in Sockets
  BY <1>1 DEF ServerInv, ServerTypeOK, Sockets, Reading, Open
<1>4. /\ DOMAIN reg \subseteq DOMAIN online
      /\ \A u \in DOMAIN online : u \in DOMAIN reg <=> online[u] \ cs # {}
      /\ \A u \in DOMAIN reg : reg[u] = online[u] \ cs
  BY <1>1, RegistryLoses
<1>5. DOMAIN reg \subseteq User /\ \A u \in DOMAIN reg : reg[u] \subseteq Conn
  BY <1>4 DEF ServerInv, ServerTypeOK
<1>6. /\ conn' \in Sockets
      /\ \A c \in Conn : /\ conn'[c] = Closed <=> cn[c] = Closed
                         /\ conn'[c].pc = cn[c].pc
                         /\ cn[c] # Closed => conn'[c].user = cn[c].user /\ conn'[c].role = cn[c].role
      /\ \A c \in Conn : IsAdminSocket(conn'[c]) /\ cn[c].tile \in {DOMAIN online, DOMAIN reg}
                            => conn'[c].tile = DOMAIN reg
  BY <1>2, <1>3, <1>5, AnnounceKeeps
<1>7. ServerTypeOK'
  BY <1>2, <1>5, <1>6 DEF ServerTypeOK, Sockets, Reading, Open
<1>8. Owned'
  BY <1>1, <1>6 DEF ServerInv, Owned
<1>9. \A u \in User : SocketsOf(u)' = SocketsOf(u) \ cs
  BY <1>1, <1>6 DEF SocketsOf, Joined, Closed
<1>10. \A u \in User : u \in DOMAIN online' <=> SocketsOf(u)' # {}
  BY <1>2, <1>4, <1>9 DEF ServerInv, PresenceIsCurrent
<1>11. \A u \in DOMAIN online' : online'[u] = SocketsOf(u)'
  BY <1>2, <1>4, <1>5, <1>9 DEF ServerInv, PresenceIsCurrent
<1>12. \A c \in Joined' : conn'[c].role = "ADMIN" => conn'[c].tile = DOMAIN online'
  <2> SUFFICES ASSUME NEW c \in Conn, conn'[c].pc = "joined", conn'[c].role = "ADMIN"
               PROVE  conn'[c].tile = DOMAIN online'
    BY DEF Joined
  <2>1. cn[c] = conn[c] /\ conn[c].pc = "joined" /\ conn[c].role = "ADMIN"
    BY <1>1, <1>6 DEF Closed
  <2>2. cn[c].tile = DOMAIN online
    BY <2>1 DEF ServerInv, PresenceIsCurrent, Joined
  <2> QED  BY <1>2, <1>6, <2>2 DEF IsAdminSocket, IsOpen
<1> QED  BY <1>7, <1>8, <1>10, <1>11, <1>12 DEF ServerInv, PresenceIsCurrent

LEMMA JoinKeepsPresence ==
    ASSUME ServerInv, NEW c \in Conn, Join(c), Known \subseteq Known'
    PROVE  ServerInv'
<1>1. conn[c] \in Reading /\ conn[c].pc = "read"
  BY SocketHolds DEF Join, ServerInv, ServerTypeOK, Sockets, Reading, Open
<1>2. PICK u, role, reg, cn :
        /\ u = conn[c].user /\ role = conn[c].role
        /\ reg = Connected(online, u, c)
        /\ cn = [conn EXCEPT ![c] = [pc |-> "joined", user |-> u, role |-> role,
                                     tile |-> IF role = "ADMIN" THEN DOMAIN reg ELSE {}]]
  OBVIOUS
<1>3. /\ online' = reg /\ conn' = Announce(cn, reg)
      /\ overtaken' \subseteq Conn /\ crossed' \subseteq User /\ unrevoked' \subseteq User
  BY <1>2 DEF Join, ServerInv, ServerTypeOK
<1>4. u \in User /\ role \in Role /\ u \in Known
  BY <1>1, <1>2 DEF Reading, ServerInv, Owned, Closed
<1>5. /\ DOMAIN reg = DOMAIN online \cup {u}
      /\ \A v \in DOMAIN online : v # u => reg[v] = online[v]
      /\ u \in DOMAIN online => reg[u] = online[u] \cup {c}
      /\ u \notin DOMAIN online => reg[u] = {c}
  <2>1. reg = Connected(online, u, c)
    BY <1>2
  <2>2. /\ DOMAIN Connected(online, u, c) = DOMAIN online \cup {u}
        /\ \A v \in DOMAIN online : v # u => Connected(online, u, c)[v] = online[v]
        /\ u \in DOMAIN online => Connected(online, u, c)[u] = online[u] \cup {c}
        /\ u \notin DOMAIN online => Connected(online, u, c)[u] = {c}
    BY DEF Connected
  <2> QED  BY <2>1, <2>2
<1>6. DOMAIN reg \subseteq User /\ \A v \in DOMAIN reg : reg[v] \subseteq Conn
  BY <1>4, <1>5 DEF ServerInv, ServerTypeOK
<1>7. cn \in Sockets
  <2>1. (IF role = "ADMIN" THEN DOMAIN reg ELSE {}) \subseteq User
    BY <1>6
  <2> QED  BY <1>2, <1>4, <2>1 DEF ServerInv, ServerTypeOK, Sockets, Reading, Open
<1>8. /\ conn' \in Sockets
      /\ \A d \in Conn : /\ conn'[d] = Closed <=> cn[d] = Closed
                         /\ conn'[d].pc = cn[d].pc
                         /\ cn[d] # Closed => conn'[d].user = cn[d].user /\ conn'[d].role = cn[d].role
      /\ \A d \in Conn : IsAdminSocket(conn'[d]) /\ cn[d].tile \in {DOMAIN online, DOMAIN reg}
                            => conn'[d].tile = DOMAIN reg
  BY <1>3, <1>6, <1>7, AnnounceKeeps
<1>9. /\ cn[c].pc = "joined" /\ cn[c] # Closed /\ cn[c].user = u /\ cn[c].role = role
      /\ role = "ADMIN" => cn[c].tile = DOMAIN reg
      /\ \A d \in Conn : d # c => cn[d] = conn[d]
  BY <1>2 DEF ServerInv, ServerTypeOK, Closed
<1>10. ServerTypeOK'
  BY <1>3, <1>6, <1>8 DEF ServerTypeOK, Sockets, Reading, Open
<1>11. Owned'
  BY <1>4, <1>8, <1>9 DEF ServerInv, Owned
<1>12. \A v \in User : SocketsOf(v)' = IF v = u THEN SocketsOf(u) \cup {c} ELSE SocketsOf(v)
  <2> SUFFICES ASSUME NEW v \in User, NEW d \in Conn
               PROVE  d \in SocketsOf(v)' <=> d \in IF v = u THEN SocketsOf(u) \cup {c} ELSE SocketsOf(v)
    BY DEF SocketsOf, Joined
  <2>1. CASE d = c
    BY <1>1, <1>8, <1>9, <2>1 DEF SocketsOf, Joined
  <2>2. CASE d # c
    BY <1>8, <1>9, <2>2 DEF SocketsOf, Joined, Closed
  <2> QED  BY <2>1, <2>2
<1>13. \A v \in User : v \in DOMAIN online' <=> SocketsOf(v)' # {}
  BY <1>3, <1>5, <1>12 DEF ServerInv, PresenceIsCurrent
<1>14. \A v \in DOMAIN online' : online'[v] = SocketsOf(v)'
  BY <1>3, <1>4, <1>5, <1>6, <1>12 DEF ServerInv, PresenceIsCurrent
<1>15. \A d \in Joined' : conn'[d].role = "ADMIN" => conn'[d].tile = DOMAIN online'
  <2> SUFFICES ASSUME NEW d \in Conn, conn'[d].pc = "joined", conn'[d].role = "ADMIN"
               PROVE  conn'[d].tile = DOMAIN online'
    BY DEF Joined
  <2>1. CASE d = c
    BY <1>3, <1>8, <1>9, <2>1 DEF IsAdminSocket, IsOpen
  <2>2. CASE d # c
    <3>1. cn[d] = conn[d] /\ conn[d].pc = "joined" /\ conn[d].role = "ADMIN"
      BY <1>8, <1>9, <2>2 DEF Closed
    <3>2. cn[d].tile = DOMAIN online
      BY <3>1 DEF ServerInv, PresenceIsCurrent, Joined
    <3> QED  BY <1>3, <1>8, <3>2 DEF IsAdminSocket, IsOpen
  <2> QED  BY <2>1, <2>2
<1> QED  BY <1>10, <1>11, <1>13, <1>14, <1>15 DEF ServerInv, PresenceIsCurrent

LEMMA HandshakeKeepsPresence ==
    ASSUME ServerInv, AccountTypeOK, NEW u \in Known, Handshake(u), Known \subseteq Known'
    PROVE  ServerInv'
<1>1. PICK c \in Conn : conn[c] = Closed /\ c = NewSocket
  BY DEF Handshake, NewSocket
<1>2. PICK s : s = [pc |-> "read", user |-> u, role |-> users[u].role]
  OBVIOUS
<1>3. s \in Reading /\ s # Closed /\ s.pc # "joined" /\ s.user = u
  BY <1>2 DEF AccountTypeOK, Account, Reading, Closed
<1>4. /\ conn' = [conn EXCEPT ![c] = s]
      /\ UNCHANGED <<online, overtaken, crossed, unrevoked>>
  BY <1>1, <1>2 DEF Handshake
<1>5. /\ conn'[c] = s /\ conn[c].pc = "closed"
      /\ \A d \in Conn : d # c => conn'[d] = conn[d]
  BY <1>1, <1>4 DEF ServerInv, ServerTypeOK, Closed
<1>6. ServerTypeOK'
  BY <1>3, <1>4 DEF ServerInv, ServerTypeOK, Reading
<1>7. Owned'
  BY <1>3, <1>5 DEF ServerInv, Owned
<1>8. Joined' = Joined /\ \A d \in Joined : conn'[d] = conn[d]
  BY <1>3, <1>5 DEF Joined
<1>9. \A v \in User : SocketsOf(v)' = SocketsOf(v)
  BY <1>8 DEF SocketsOf
<1> QED  BY <1>4, <1>6, <1>7, <1>8, <1>9 DEF ServerInv, PresenceIsCurrent, ServerTypeOK

\* No account ever goes away.
LEMMA AccountsStay == ASSUME AccountTypeOK, AccountNext PROVE Known \subseteq Known'
<1>1. ASSUME NEW k \in Clerk, BeginRegister(k) \/ BeginCreateUser(k) \/ BeginUpdateUser(k)
                             \/ CountAdmins(k) \/ FinishRevoke(k)
      PROVE  users' = users
  BY <1>1 DEF BeginRegister, BeginCreateUser, LookUp, BeginUpdateUser, CountAdmins, FinishRevoke
<1>2. ASSUME NEW k \in Clerk, InsertUser(k)  PROVE Known \subseteq Known'
  BY <1>2 DEF InsertUser, Known
<1>3. ASSUME NEW k \in Clerk, WriteUser(k)  PROVE Known \subseteq Known'
  BY <1>3 DEF WriteUser, Known
<1> QED  BY <1>1, <1>2, <1>3 DEF AccountNext, AccountStep, accountVars, Known

LEMMA ServerNext ==
    ASSUME AccountTypeOK, AccountNext, ServerInv, ServerStep
    PROVE  ServerInv'
<1>1. Known \subseteq Known'
  BY AccountsStay
<1>2. CASE UNCHANGED serverVars
  BY <1>1, <1>2, PresenceStays DEF serverVars, ServerInv, ServerTypeOK
<1>3. ASSUME NEW u \in Known, Handshake(u)  PROVE ServerInv'
  BY <1>1, <1>3, HandshakeKeepsPresence
<1>4. ASSUME NEW c \in Conn, Join(c)  PROVE ServerInv'
  BY <1>1, <1>4, JoinKeepsPresence
<1>5. ASSUME NEW cs \in SUBSET Conn, Leave(cs)  PROVE ServerInv'
  BY <1>1, <1>5, LeaveKeepsPresence
<1>6. ASSUME NEW k \in Clerk, Leave(Revoked(edit[k].target))  PROVE ServerInv'
  <2>1. Revoked(edit[k].target) \in SUBSET Conn
    BY DEF Revoked, SocketsOf, Joined
  <2> QED  BY <1>5, <1>6, <2>1
<1>7. ASSUME NEW k \in Clerk, edit[k].pc = "write", NoteWrite(edit[k])  PROVE ServerInv'
  <2>1. edit[k].target \in User
    BY <1>7, EditHolds
  <2> QED  BY <1>1, <1>7, <2>1, PresenceStays DEF NoteWrite, ServerInv, ServerTypeOK
<1>8. ASSUME NEW k \in Clerk, FinishRevoke(k), NoteFailure(edit[k].target)  PROVE ServerInv'
  <2>1. edit[k].target \in User
    BY <1>8, EditHolds DEF FinishRevoke, AccountTypeOK
  <2> QED  BY <1>1, <1>8, <2>1, PresenceStays DEF NoteFailure, ServerInv, ServerTypeOK
<1> QED  BY <1>2, <1>3, <1>4, <1>5, <1>6, <1>7, <1>8 DEF ServerStep, serverVars

LEMMA ServerInitial == ASSUME Init PROVE AccountTypeOK /\ ServerInv
BY AccountTypeInit DEF Init, ServerInit, ServerInv, ServerTypeOK, Owned, PresenceIsCurrent,
                       SocketsOf, Joined, Closed

LEMMA ServerHolds == Spec => [](AccountTypeOK /\ ServerInv)
<1>1. Init => AccountTypeOK /\ ServerInv
  BY ServerInitial
<1>2. AccountTypeOK /\ ServerInv /\ [Next]_vars => (AccountTypeOK /\ ServerInv)'
  BY NextIsServerStep, AccountTypeNext, ServerNext
<1> QED  BY <1>1, <1>2, PTL DEF Spec

\* The registry of presence agrees with the sockets that are open, and so does
\* what every administrator's screen was told, however sockets of one user come,
\* go and are closed together.
THEOREM PresenceCorrect == Spec => []PresenceIsCurrent
<1>1. ServerInv => PresenceIsCurrent
  BY DEF ServerInv
<1> QED  BY <1>1, ServerHolds, PTL

-----------------------------------------------------------------------------
(* What a connection stands for *)

Standing(c) == users[conn[c].user] = [role |-> conn[c].role, active |-> TRUE]

Excused(c) ==
    \/ c \in overtaken \/ conn[c].user \in crossed \/ conn[c].user \in unrevoked
    \/ \E k \in Clerk : edit[k].pc = "revoke" /\ edit[k].target = conn[c].user

\* ConnectionIsCurrent speaks of sockets in their rooms only; one that is still
\* in its handshake stands for the account as it is, unless the account was
\* written meanwhile.
Current(c) ==
    /\ conn[c].pc = "read" => c \in overtaken \/ Standing(c)
    /\ conn[c].pc = "joined" => Excused(c) \/ Standing(c)

AllCurrent == \A c \in Conn : Current(c)

LEMMA LeaveKeepsCurrent ==
    ASSUME ServerInv, AllCurrent, NEW cs \in SUBSET Conn, Leave(cs), UNCHANGED users,
           \A k \in Clerk : edit[k].pc = "revoke" =>
               \/ edit'[k] = edit[k]
               \/ \A c \in Conn : conn[c].pc = "joined" /\ conn[c].user = edit[k].target => c \in cs
    PROVE  AllCurrent'
<1>1. PICK reg, cn : /\ reg = Disconnected(online, cs)
                     /\ cn = [c \in Conn |-> IF c \in cs THEN Closed ELSE conn[c]]
  OBVIOUS
<1>2. conn' = Announce(cn, reg) /\ overtaken' = overtaken \ cs /\ UNCHANGED <<crossed, unrevoked>>
  BY <1>1 DEF Leave
<1>3. cn \in Sockets
  BY <1>1 DEF ServerInv, ServerTypeOK, Sockets, Reading, Open
<1>4. DOMAIN reg \subseteq User
  BY <1>1, RegistryLoses DEF ServerInv, ServerTypeOK
<1>5. \A c \in Conn : /\ conn'[c].pc = cn[c].pc
                      /\ cn[c] # Closed => conn'[c].user = cn[c].user /\ conn'[c].role = cn[c].role
  BY <1>2, <1>3, <1>4, AnnounceKeeps
<1> SUFFICES ASSUME NEW c \in Conn  PROVE Current(c)'
  BY DEF AllCurrent
<1>6. CASE c \in cs \/ conn[c] = Closed
  BY <1>1, <1>5, <1>6 DEF Current, Closed
<1>7. CASE c \notin cs /\ conn[c] # Closed
  <2>1. conn'[c].pc = conn[c].pc /\ conn'[c].user = conn[c].user /\ conn'[c].role = conn[c].role
    BY <1>1, <1>5, <1>7
  <2>2. c \in overtaken => c \in overtaken'
    BY <1>2, <1>7
  <2> QED  BY <1>2, <1>7, <2>1, <2>2 DEF AllCurrent, Current, Standing, Excused
<1> QED  BY <1>6, <1>7

LEMMA JoinKeepsCurrent ==
    ASSUME ServerInv, AllCurrent, NEW c \in Conn, Join(c), UNCHANGED <<users, edit>>
    PROVE  AllCurrent'
<1>1. conn[c] \in Reading /\ conn[c].pc = "read" /\ conn[c].user \in Known
  <2>1. conn[c].pc = "read"
    BY DEF Join
  <2> QED  BY <2>1, SocketHolds DEF ServerInv, ServerTypeOK, Sockets, Reading, Open, Owned, Closed
<1>2. PICK u, role, reg, cn :
        /\ u = conn[c].user /\ role = conn[c].role
        /\ reg = Connected(online, u, c)
        /\ cn = [conn EXCEPT ![c] = [pc |-> "joined", user |-> u, role |-> role,
                                     tile |-> IF role = "ADMIN" THEN DOMAIN reg ELSE {}]]
  OBVIOUS
<1>3. conn' = Announce(cn, reg) /\ UNCHANGED <<overtaken, crossed, unrevoked>>
  BY <1>2 DEF Join
<1>4. DOMAIN reg \subseteq User
  <2>1. DOMAIN Connected(online, u, c) = DOMAIN online \cup {u}
    BY DEF Connected
  <2> QED  BY <1>1, <1>2, <2>1 DEF ServerInv, ServerTypeOK, Reading
<1>5. cn \in Sockets
  <2>1. (IF role = "ADMIN" THEN DOMAIN reg ELSE {}) \subseteq User
    BY <1>4
  <2> QED  BY <1>1, <1>2, <2>1 DEF ServerInv, ServerTypeOK, Sockets, Reading, Open
<1>6. \A d \in Conn : /\ conn'[d].pc = cn[d].pc
                      /\ cn[d] # Closed => conn'[d].user = cn[d].user /\ conn'[d].role = cn[d].role
  BY <1>3, <1>4, <1>5, AnnounceKeeps
<1>7. /\ cn[c].pc = "joined" /\ cn[c] # Closed /\ cn[c].user = u /\ cn[c].role = role
      /\ \A d \in Conn : d # c => cn[d] = conn[d]
  BY <1>2 DEF ServerInv, ServerTypeOK, Closed
<1> SUFFICES ASSUME NEW d \in Conn  PROVE Current(d)'
  BY DEF AllCurrent
<1>8. CASE d = c
  <2>1. c \in overtaken \/ Standing(c)
    BY <1>1 DEF AllCurrent, Current
  <2>2. /\ conn'[c].pc = "joined" /\ conn'[c].user = conn[c].user
        /\ conn'[c].role = conn[c].role
    BY <1>2, <1>6, <1>7
  <2>3. c \in overtaken' \/ Standing(c)'
    BY <1>3, <2>1, <2>2 DEF Standing
  <2> QED  BY <1>8, <2>2, <2>3 DEF Current, Excused
<1>9. CASE conn[d] = Closed /\ d # c
  BY <1>6, <1>7, <1>9 DEF Current, Closed
<1>10. CASE conn[d] # Closed /\ d # c
  BY <1>3, <1>6, <1>7, <1>10 DEF AllCurrent, Current, Standing, Excused
<1> QED  BY <1>8, <1>9, <1>10

LEMMA HandshakeKeepsCurrent ==
    ASSUME ServerInv, AccountTypeOK, AllCurrent, NEW u \in Known, users[u].active, Handshake(u),
           UNCHANGED <<users, edit>>
    PROVE  AllCurrent'
<1>1. PICK c \in Conn : conn[c] = Closed /\ c = NewSocket
  BY DEF Handshake, NewSocket
<1>2. PICK role : role = users[u].role
  OBVIOUS
<1>3. users[u] = [role |-> role, active |-> TRUE]
  <2>1. users[u] \in Account
    BY DEF AccountTypeOK
  <2> QED  BY <1>2, <2>1 DEF Account
<1>4. /\ conn' = [conn EXCEPT ![c] = [pc |-> "read", user |-> u, role |-> role]]
      /\ UNCHANGED <<overtaken, crossed, unrevoked>>
  BY <1>1, <1>2 DEF Handshake
<1>5. /\ conn'[c] = [pc |-> "read", user |-> u, role |-> role]
      /\ \A d \in Conn : d # c => conn'[d] = conn[d]
  BY <1>4 DEF ServerInv, ServerTypeOK
<1>6. Current(c)'
  BY <1>3, <1>5 DEF Current, Standing
<1>7. ASSUME NEW d \in Conn, d # c  PROVE Current(d)'
  BY <1>4, <1>5, <1>7 DEF AllCurrent, Current, Standing, Excused
<1> QED  BY <1>6, <1>7 DEF AllCurrent

\* The write of an account: whoever is in a room is noted, or about to be closed.
LEMMA WriteKeepsCurrent ==
    ASSUME ServerInv, AccountTypeOK, AllCurrent, NEW k \in Clerk, WriteUser(k), NoteWrite(edit[k])
    PROVE  AllCurrent'
<1>1. PICK q : q = edit[k]
  OBVIOUS
<1>2. /\ q.pc = "write" /\ q.target \in Known /\ q.seen \in Account /\ q.patch \in AccountPatch
  BY <1>1, EditHolds DEF WriteUser
<1>3. /\ users' = [users EXCEPT ![q.target] = Patched(users[q.target], q.patch)]
      /\ edit' = [edit EXCEPT ![k] =
             IF RevokesSessions(q) THEN [pc |-> "revoke", target |-> q.target] ELSE Idle]
  BY <1>1 DEF WriteUser
<1>4. /\ overtaken' = overtaken
             \cup {c \in Conn : conn[c].pc = "read" /\ conn[c].user = q.target}
      /\ crossed' = IF q.seen # users[q.target] THEN crossed \cup {q.target} ELSE crossed
      /\ conn' = conn /\ unrevoked' = unrevoked
  BY <1>1 DEF NoteWrite
<1>5. \A o \in Clerk : edit[o].pc = "revoke" => edit'[o] = edit[o]
  BY <1>1, <1>2, <1>3 DEF AccountTypeOK
<1>6. \A u \in Known : u # q.target => users'[u] = users[u]
  BY <1>3 DEF Known
<1> SUFFICES ASSUME NEW c \in Conn, conn[c] # Closed  PROVE Current(c)'
  BY <1>4 DEF AllCurrent, Current, Closed
<1>7. conn[c].user \in Known
  BY DEF ServerInv, Owned
<1>8. CASE conn[c].user # q.target
  BY <1>4, <1>5, <1>6, <1>7, <1>8 DEF AllCurrent, Current, Standing, Excused
<1>9. CASE conn[c].user = q.target /\ conn[c].pc = "read"
  BY <1>4, <1>9 DEF Current
<1>10. CASE conn[c].user = q.target /\ conn[c].pc = "joined"
  <2>1. CASE Excused(c)
    BY <1>4, <1>5, <1>10, <2>1 DEF Current, Excused
  <2>2. CASE ~Excused(c) /\ q.seen # users[q.target]
    BY <1>4, <1>10, <2>2 DEF Current, Excused
  <2>3. CASE ~Excused(c) /\ q.seen = users[q.target]
    <3>1. users[q.target] = [role |-> conn[c].role, active |-> TRUE]
      BY <1>10, <2>3 DEF AllCurrent, Current, Standing
    <3>2. CASE RevokesSessions(q)
      <4>1. edit'[k] = [pc |-> "revoke", target |-> q.target]
        BY <1>3, <3>2 DEF AccountTypeOK
      <4> QED  BY <1>4, <1>10, <4>1 DEF Current, Excused
    <3>3. CASE ~RevokesSessions(q)
      <4>1. Patched(users[q.target], q.patch) = [role |-> conn[c].role, active |-> TRUE]
        <5>1. "role" \in DOMAIN q.patch => q.patch["role"] = conn[c].role
          BY <2>3, <3>1, <3>3 DEF RevokesSessions
        <5>2. "active" \in DOMAIN q.patch => q.patch["active"] = TRUE
          BY <1>2, <2>3, <3>1, <3>3, AccountPatchAssumption DEF RevokesSessions
        <5>3. users[q.target].role = conn[c].role /\ users[q.target].active = TRUE
          BY <3>1
        <5>4. (IF "role" \in DOMAIN q.patch THEN q.patch["role"] ELSE users[q.target].role)
                = conn[c].role
          BY <5>1, <5>3
        <5>5. (IF "active" \in DOMAIN q.patch THEN q.patch["active"] ELSE users[q.target].active)
                = TRUE
          BY <5>2, <5>3, Zenon
        <5> QED  BY <5>4, <5>5, Zenon DEF Patched
      <4>2. users'[q.target] = Patched(users[q.target], q.patch)
        BY <1>2, <1>3 DEF Known
      <4> QED  BY <1>4, <1>10, <4>1, <4>2 DEF Current, Standing
    <3> QED  BY <3>2, <3>3
  <2> QED  BY <2>1, <2>2, <2>3
<1> QED  BY <1>8, <1>9, <1>10, SocketHolds DEF ServerInv, ServerTypeOK, Sockets, Reading, Open, Closed

\* Requests about accounts that write none that is there and end no revocation.
LEMMA OtherStepsKeepCurrent ==
    ASSUME ServerInv, AccountTypeOK, AllCurrent, UNCHANGED serverVars,
           \A u \in Known : users'[u] = users[u],
           \A k \in Clerk : edit[k].pc = "revoke" => edit'[k] = edit[k]
    PROVE  AllCurrent'
BY DEF AllCurrent, Current, Standing, Excused, serverVars, ServerInv, Owned, Closed

LEMMA CurrentNext ==
    ASSUME AccountTypeOK, ServerInv, AllCurrent, ServerStep
    PROVE  AllCurrent'
<1>1. CASE UNCHANGED <<accountVars, serverVars>>
  BY <1>1, OtherStepsKeepCurrent DEF accountVars, serverVars
<1>2. ASSUME UNCHANGED accountVars, NEW u \in Known, users[u].active, Handshake(u)
      PROVE  AllCurrent'
  BY <1>2, HandshakeKeepsCurrent DEF accountVars
<1>3. ASSUME UNCHANGED accountVars, NEW c \in Conn, Join(c)  PROVE AllCurrent'
  BY <1>3, JoinKeepsCurrent DEF accountVars
<1>4. ASSUME UNCHANGED accountVars, NEW cs \in SUBSET Conn, Leave(cs)  PROVE AllCurrent'
  BY <1>4, LeaveKeepsCurrent DEF accountVars
<1>5. ASSUME NEW k \in Clerk, FinishRevoke(k), Leave(Revoked(edit[k].target))  PROVE AllCurrent'
  <2>1. PICK cs : cs = Revoked(edit[k].target)
    OBVIOUS
  <2>2. /\ cs \in SUBSET Conn
        /\ \A c \in Conn : conn[c].pc = "joined" /\ conn[c].user = edit[k].target => c \in cs
    BY <2>1 DEF Revoked, SocketsOf, Joined
  <2>3. users' = users /\ \A o \in Clerk : o # k => edit'[o] = edit[o]
    BY <1>5 DEF FinishRevoke, AccountTypeOK
  <2>4. \A o \in Clerk : edit[o].pc = "revoke" =>
            \/ edit'[o] = edit[o]
            \/ \A c \in Conn : conn[c].pc = "joined" /\ conn[c].user = edit[o].target => c \in cs
    BY <2>2, <2>3
  <2> QED  BY <1>5, <2>1, <2>2, <2>3, <2>4, LeaveKeepsCurrent
<1>6. ASSUME NEW k \in Clerk, AccountStep(k), edit[k].pc = "write", NoteWrite(edit[k])
      PROVE  AllCurrent'
  <2>1. WriteUser(k)
    BY <1>6 DEF AccountStep, BeginRegister, BeginCreateUser, LookUp, InsertUser, BeginUpdateUser,
                CountAdmins, Idle
  <2> QED  BY <1>6, <2>1, WriteKeepsCurrent
<1>7. ASSUME NEW k \in Clerk, AccountStep(k), edit[k].pc # "write", UNCHANGED serverVars
      PROVE  AllCurrent'
  <2>1. \A u \in Known : users'[u] = users[u]
    BY <1>7 DEF AccountStep, BeginRegister, BeginCreateUser, LookUp, InsertUser, BeginUpdateUser,
                CountAdmins, WriteUser, Known
  <2>2. \A o \in Clerk : edit[o].pc = "revoke" => edit'[o] = edit[o]
    <3>1. edit[k].pc # "revoke" /\ \A o \in Clerk : o # k => edit'[o] = edit[o]
      BY <1>7 DEF AccountStep, BeginRegister, BeginCreateUser, LookUp, InsertUser,
                  BeginUpdateUser, CountAdmins, WriteUser, Idle, AccountTypeOK
    <3> QED  BY <3>1
  <2> QED  BY <1>7, <2>1, <2>2, OtherStepsKeepCurrent
<1>8. ASSUME NEW k \in Clerk, FinishRevoke(k), NoteFailure(edit[k].target)  PROVE AllCurrent'
  <2>1. users' = users /\ \A o \in Clerk : o # k => edit'[o] = edit[o]
    BY <1>8 DEF FinishRevoke, AccountTypeOK
  <2>2. /\ UNCHANGED <<conn, overtaken, crossed>>
        /\ unrevoked \subseteq unrevoked' /\ edit[k].target \in unrevoked'
    BY <1>8 DEF NoteFailure
  <2> QED  BY <2>1, <2>2 DEF AllCurrent, Current, Standing, Excused
<1> QED  BY <1>1, <1>2, <1>3, <1>4, <1>5, <1>6, <1>7, <1>8 DEF ServerStep

\* A connection does not outlive what it was opened with, whatever the accounts,
\* the tabs and the devices do: the account of an open socket is active and has
\* the role of the handshake, or its sockets are about to be closed, but for the
\* two overlaps the code leaves open and a revocation that failed after the account
\* was written.
THEOREM ConnectionCorrect == Spec => []ConnectionIsCurrent
<1>1. Init => AllCurrent
  BY DEF Init, ServerInit, AllCurrent, Current, Closed
<1>2. AccountTypeOK /\ ServerInv /\ AllCurrent /\ [Next]_vars => AllCurrent'
  BY NextIsServerStep, CurrentNext
<1>3. AllCurrent => ConnectionIsCurrent
  BY DEF AllCurrent, ConnectionIsCurrent, Current, Standing, Excused, Joined
<1> QED  BY <1>1, <1>2, <1>3, ServerHolds, PTL DEF Spec

-----------------------------------------------------------------------------
(* Types of the tab *)

Token == [of : User \cup {NoOne}, fresh : BOOLEAN]
FlightState == [pc : {"asked", "answered"}, by : SUBSET Waiter,
                of : User \cup {NoOne}, live : BOOLEAN, old : BOOLEAN, stale : BOOLEAN]
SigningState == [pc : {"asked", "answered"}, of : User \cup {NoOne}, live : BOOLEAN]
CallState == {NoCall} \cup [pc : {"first", "sent", "waiting", "retry"},
                            kind : {"me", "read", "password", "mistyped"}, token : Token]

ScreenOK ==
    /\ status \in {"loading", "authenticated", "anonymous"}
    /\ user \in User \cup {NoOne} /\ (status = "authenticated" => user # NoOne)
    /\ leaving \in BOOLEAN /\ timer \in BOOLEAN /\ strayed \in BOOLEAN
    /\ sock \in {"off", "trying", "refused", "up"}
    /\ line \subseteq Conn /\ (sock = "up" <=> line # {})

FlightOK == flight = NoFlight \/ flight \in FlightState
CallOK == call \in [Requests -> CallState]

\* Whoever waits for a refresh is on its list.
Waits(w) == call[w].pc \in {"first", "waiting"} <=> flight # NoFlight /\ w \in flight.by

TabOK == /\ ScreenOK /\ FlightOK /\ CallOK
         /\ token \in Token /\ cookie \in User \cup {NoOne}
         /\ \A w \in Requests : Waits(w)

LineHeld == \A c \in line : conn[c] # Closed

\* The sign-in under way is an account's, or nobody's.
SigningOK == signing = NoSigning \/ signing \in SigningState
SigningInv == SigningOK /\ (signing # NoSigning => signing.of \in Known \cup {NoOne})

LEMMA TypeIsTyped == TypeOK <=> AccountTypeOK /\ ServerTypeOK /\ TabOK /\ LineHeld /\ SigningOK
BY DEF TypeOK, TabOK, ScreenOK, FlightOK, CallOK, SigningOK, SigningState, Token, FlightState, CallState,
       Waits, LineHeld

LEMMA AskedTyped ==
    ASSUME FlightOK, cookie \in User \cup {NoOne}, NEW ws \in SUBSET Waiter
    PROVE  /\ Asking(ws) \in FlightState /\ Asking(ws) # NoFlight
           /\ Asking(ws).by = (IF flight = NoFlight THEN ws ELSE flight.by \cup ws)
           /\ flight = NoFlight => Asking(ws).of = cookie
           /\ flight # NoFlight => Asking(ws).of = flight.of
<1>1. (status = "anonymous") \in BOOLEAN
  OBVIOUS
<1>2. CASE flight = NoFlight
  <2>1. PICK old \in BOOLEAN : old = (status = "anonymous")
    BY <1>1
  <2>2. Asking(ws) = [pc |-> "asked", by |-> ws, of |-> cookie, live |-> TRUE, old |-> old,
                      stale |-> FALSE]
    BY <1>2, <2>1, Zenon DEF Asking
  <2> QED  BY <1>2, <2>2 DEF FlightState, NoFlight
<1>3. CASE flight # NoFlight
  BY <1>3 DEF Asking, FlightOK, FlightState, NoFlight
<1> QED  BY <1>2, <1>3

LEMMA AgedTyped ==
    ASSUME NEW f, f = NoFlight \/ f \in FlightState
    PROVE  /\ Aged(f) = NoFlight \/ Aged(f) \in FlightState
           /\ Aged(f) = NoFlight <=> f = NoFlight
           /\ f # NoFlight => /\ Aged(f).by = f.by /\ Aged(f).of = f.of /\ Aged(f).pc = f.pc
                              /\ Aged(f).old = TRUE
BY DEF Aged, FlightState, NoFlight

LEMMA ReplacedTyped ==
    ASSUME NEW f, f = NoFlight \/ f \in FlightState
    PROVE  /\ Replaced(f) = NoFlight \/ Replaced(f) \in FlightState
           /\ Replaced(f) = NoFlight <=> f = NoFlight
           /\ f # NoFlight => Replaced(f).by = f.by /\ Replaced(f).old = TRUE
BY DEF Replaced, FlightState, NoFlight

LEMMA EndedTyped ==
    ASSUME NEW u, NEW f, f = NoFlight \/ f \in FlightState
    PROVE  /\ Ended(u, f) = NoFlight \/ Ended(u, f) \in FlightState
           /\ Ended(u, f) = NoFlight <=> f = NoFlight
           /\ f # NoFlight => /\ Ended(u, f).by = f.by /\ Ended(u, f).old = f.old
                              /\ Ended(u, f).of \in {f.of, NoOne}
BY DEF Ended, FlightState, NoFlight

LEMMA CallHolds ==
    ASSUME CallOK, NEW w \in Requests
    PROVE  /\ call[w] \in CallState
           /\ call[w].pc \in {"first", "sent", "waiting", "retry"} => call[w] # NoCall /\ call[w].token \in Token
           /\ call[w].pc \in {"none", "first", "sent", "waiting", "retry"}
           /\ call[w].pc = "none" <=> call[w] = NoCall
BY DEF CallOK, CallState, NoCall

LEMMA NothingTyped == NoToken \in Token /\ NoCall \in CallState /\ NoCall.pc = "none"
BY DEF NoToken, Token, NoCall, CallState

LEMMA FreshTyped == ASSUME NEW u \in User \cup {NoOne}
                    PROVE  Fresh(u) \in Token /\ Fresh(u).of = u
BY DEF Fresh, Token

\* The end of a session leaves a typed screen.
LEMMA LostTyped == ASSUME ScreenOK, SessionLost PROVE ScreenOK' /\ token' \in Token
BY NothingTyped DEF ScreenOK, SessionLost, DropToken

LEMMA NothingRestoredTyped ==
    ASSUME ScreenOK, NothingRestored PROVE ScreenOK'
<1>1. strayed' \in BOOLEAN
  BY Zenon DEF NothingRestored
<1> QED  BY <1>1 DEF ScreenOK, NothingRestored

LEMMA BeginsTyped ==
    ASSUME ScreenOK, NEW u \in User, SessionBegins(u), strayed' \in BOOLEAN, NoOne \notin User
    PROVE  ScreenOK'
BY DEF ScreenOK, SessionBegins

\* What is left alone.
LEMMA WaitsStay ==
    ASSUME \A w \in Requests : Waits(w),
           flight' = NoFlight <=> flight = NoFlight, flight # NoFlight => flight'.by = flight.by,
           \A w \in Requests : \/ call'[w].pc = call[w].pc
                               \/ /\ call[w].pc \notin {"first", "waiting"}
                                  /\ call'[w].pc \notin {"first", "waiting"}
    PROVE  \A w \in Requests : Waits(w)'
BY DEF Waits

\* Settling: nobody is on the list any more, and nobody waits.
LEMMA SettledWaits ==
    ASSUME \A w \in Requests : Waits(w), flight # NoFlight, flight' = NoFlight,
           \A w \in Requests : IF w \in flight.by THEN call'[w].pc \notin {"first", "waiting"}
                               ELSE call'[w] = call[w]
    PROVE  \A w \in Requests : Waits(w)'
BY DEF Waits

LEMMA SucceedsTyped == ASSUME TabOK, RefreshSucceeds PROVE TabOK'
<1>1. flight \in FlightState /\ flight # NoFlight /\ flight.of \in User
  BY DEF RefreshSucceeds, TabOK, FlightOK, FlightState, NoFlight
<1>2. PICK t : t = Fresh(flight.of)
  OBVIOUS
<1>3. t \in Token /\ token' = t /\ call' = Resent(t) /\ flight' = NoFlight
  BY <1>1, <1>2, FreshTyped DEF RefreshSucceeds
<1>4. \A w \in Requests : /\ call'[w] \in CallState
                          /\ IF w \in flight.by THEN call'[w].pc \notin {"first", "waiting"}
                             ELSE call'[w] = call[w]
  <2> SUFFICES ASSUME NEW w \in Requests
               PROVE  /\ call'[w] \in CallState
                      /\ IF w \in flight.by THEN call'[w].pc \notin {"first", "waiting"}
                         ELSE call'[w] = call[w]
    OBVIOUS
  <2>1. CASE w \notin flight.by
    BY <1>3, <2>1 DEF Resent, TabOK, CallOK
  <2>2. CASE w \in flight.by
    <3>1. call[w] \in CallState /\ call[w] # NoCall
      BY <1>1, <2>2, CallHolds DEF TabOK, Waits
    <3>2. CASE call[w].pc = "waiting"
      <4>1. call'[w] = [call[w] EXCEPT !.pc = "retry", !.token = t]
        BY <1>3, <2>2, <3>2 DEF Resent
      <4>2. call'[w] \in CallState /\ call'[w].pc = "retry"
        BY <1>3, <3>1, <4>1 DEF CallState, NoCall
      <4> QED  BY <2>2, <4>2
    <3>3. CASE call[w].pc # "waiting"
      <4>1. call'[w] = [call[w] EXCEPT !.pc = "sent", !.token = t]
        BY <1>3, <2>2, <3>3 DEF Resent
      <4>2. call'[w] \in CallState /\ call'[w].pc = "sent"
        BY <1>3, <3>1, <4>1 DEF CallState, NoCall
      <4> QED  BY <2>2, <4>2
    <3> QED  BY <3>2, <3>3
  <2> QED  BY <2>1, <2>2
<1>5. CallOK'
  BY <1>3, <1>4 DEF CallOK, Resent
<1>6. timer' \in BOOLEAN
  BY Zenon DEF RefreshSucceeds
<1>7. strayed' \in BOOLEAN
  BY Zenon DEF RefreshSucceeds
<1>8. ScreenOK'
  BY <1>6, <1>7 DEF RefreshSucceeds, TabOK, ScreenOK
<1>9. \A w \in Requests : Waits(w)'
  BY <1>1, <1>3, <1>4, SettledWaits DEF TabOK
<1>10. cookie' \in User \cup {NoOne}
  BY <1>1 DEF RefreshSucceeds
<1> QED  BY <1>3, <1>5, <1>8, <1>9, <1>10 DEF TabOK, FlightOK

LEMMA FailsTyped == ASSUME TabOK, NEW lost \in BOOLEAN, RefreshFails(lost) PROVE TabOK'
<1>1. flight \in FlightState /\ flight # NoFlight /\ flight' = NoFlight /\ call' = Unsent
  BY DEF RefreshFails, TabOK, FlightOK
<1>2. \A w \in Requests : /\ call'[w] \in CallState
                          /\ IF w \in flight.by THEN call'[w].pc \notin {"first", "waiting"}
                             ELSE call'[w] = call[w]
  BY <1>1, NothingTyped DEF Unsent, TabOK, CallOK
<1>3. CallOK'
  BY <1>1, <1>2 DEF CallOK, Unsent
<1>4. \A w \in Requests : Waits(w)'
  BY <1>1, <1>2, SettledWaits DEF TabOK
<1>5. ScreenOK' /\ token' \in Token
  <2>1. CASE RefusedRequestWaits
    BY <2>1, LostTyped DEF RefreshFails, TabOK
  <2>2. CASE ~RefusedRequestWaits /\ "boot" \in flight.by
    BY <2>2, NothingRestoredTyped DEF RefreshFails, TabOK
  <2>3. CASE ~RefusedRequestWaits /\ "boot" \notin flight.by
    BY <2>3 DEF RefreshFails, TabOK, ScreenOK, screen
  <2> QED  BY <2>1, <2>2, <2>3
<1>6. cookie' \in User \cup {NoOne}
  BY DEF RefreshFails, TabOK
<1> QED  BY <1>1, <1>3, <1>4, <1>5, <1>6 DEF TabOK, FlightOK

LEMMA ServeTyped == ASSUME TabOK, ServeRefresh PROVE TabOK'
<1>1. flight \in FlightState /\ flight # NoFlight
  BY DEF ServeRefresh, TabOK, FlightOK, NoFlight
<1>2. PICK of \in User \cup {NoOne} : flight' = [flight EXCEPT !.pc = "answered", !.of = of]
  BY <1>1 DEF ServeRefresh, FlightState
<1>3. flight' \in FlightState /\ flight' # NoFlight /\ flight'.by = flight.by
  BY <1>1, <1>2 DEF FlightState, NoFlight
<1>4. ScreenOK' /\ CallOK' /\ token' \in Token /\ cookie' \in User \cup {NoOne} /\ call' = call
  BY DEF ServeRefresh, TabOK, ScreenOK, screen, CallOK
<1> QED  BY <1>1, <1>3, <1>4, WaitsStay DEF TabOK, FlightOK

LEMMA FiresTyped == ASSUME TabOK, TimerFires PROVE TabOK'
<1>1. {"timer"} \in SUBSET Waiter /\ "timer" \notin Requests
  BY DEF Waiter, Requests
<1>2. /\ flight' \in FlightState /\ flight' # NoFlight
      /\ flight'.by = (IF flight = NoFlight THEN {"timer"} ELSE flight.by \cup {"timer"})
  BY <1>1, AskedTyped DEF TimerFires, TabOK
<1>3. ScreenOK' /\ CallOK' /\ token' \in Token /\ cookie' \in User \cup {NoOne} /\ call' = call
  BY DEF TimerFires, TabOK, ScreenOK, CallOK
<1>4. \A w \in Requests : Waits(w)'
  BY <1>1, <1>2, <1>3 DEF TabOK, Waits
<1> QED  BY <1>2, <1>3, <1>4 DEF TabOK, FlightOK

LEMMA ExpiresTyped == ASSUME TabOK, TokenExpires PROVE TabOK'
<1>1. token' \in Token
  BY DEF TokenExpires, TabOK, Token
<1>2. ScreenOK' /\ CallOK' /\ FlightOK' /\ cookie' \in User \cup {NoOne} /\ UNCHANGED <<call, flight>>
  BY DEF TokenExpires, TabOK, ScreenOK, screen, CallOK, FlightOK
<1> QED  BY <1>1, <1>2, WaitsStay DEF TabOK

LEMMA SendTyped == ASSUME TabOK, SendCall PROVE TabOK'
<1>1. PICK kind \in {"read", "password", "mistyped"} :
         call' = [call EXCEPT !["page"] = [pc |-> "sent", kind |-> kind, token |-> token]]
  BY DEF SendCall
<1>2. [pc |-> "sent", kind |-> kind, token |-> token] \in CallState
  BY DEF CallState, TabOK
<1>3. CallOK'
  BY <1>1, <1>2 DEF TabOK, CallOK
<1>4. /\ ScreenOK' /\ FlightOK' /\ token' \in Token /\ cookie' \in User \cup {NoOne}
      /\ UNCHANGED flight
  BY DEF SendCall, TabOK, ScreenOK, screen, FlightOK
<1>5. \A w \in Requests : \/ call'[w].pc = call[w].pc
                          \/ /\ call[w].pc \notin {"first", "waiting"}
                             /\ call'[w].pc \notin {"first", "waiting"}
  BY <1>1, NothingTyped DEF SendCall, TabOK, CallOK
<1> QED  BY <1>3, <1>4, <1>5, WaitsStay DEF TabOK

\* The end of the sessions of an account.
LEMMA RevokeTyped ==
    ASSUME TabOK, NEW u \in User, RevokeAll(u)
    PROVE  /\ ScreenOK' /\ FlightOK' /\ token' \in Token
           /\ flight' = NoFlight <=> flight = NoFlight
           /\ flight # NoFlight => flight'.by = flight.by
<1>1. CASE line \cap Revoked(u) # {}
  <2>1. SessionLost /\ flight' = Ended(u, Aged(flight))
    BY <1>1 DEF RevokeAll
  <2>2. PICK f : f = Aged(flight)
    OBVIOUS
  <2>3. /\ f = NoFlight \/ f \in FlightState
        /\ f = NoFlight <=> flight = NoFlight
        /\ flight # NoFlight => f.by = flight.by
    BY <2>2, AgedTyped DEF TabOK, FlightOK
  <2> QED  BY <2>1, <2>2, <2>3, EndedTyped, LostTyped DEF TabOK, FlightOK
<1>2. CASE line \cap Revoked(u) = {}
  <2>1. flight' = Ended(u, flight) /\ UNCHANGED <<token, screen, strayed>>
    BY <1>2 DEF RevokeAll
  <2>2. ScreenOK' /\ token' \in Token
    BY <2>1 DEF TabOK, ScreenOK, screen
  <2> QED  BY <2>1, <2>2, EndedTyped DEF TabOK, FlightOK
<1> QED  BY <1>1, <1>2

\* One request takes a step that has nothing to do with a refresh.
LEMMA StepWaits ==
    ASSUME TabOK, NEW w \in Requests, NEW q \in CallState, call' = [call EXCEPT ![w] = q],
           call[w].pc \notin {"first", "waiting"}, q.pc \notin {"first", "waiting"},
           flight' = NoFlight <=> flight = NoFlight, flight # NoFlight => flight'.by = flight.by
    PROVE  CallOK' /\ \A x \in Requests : Waits(x)'
<1>1. CallOK'
  BY DEF TabOK, CallOK
<1>2. \A x \in Requests : \/ call'[x].pc = call[x].pc
                          \/ /\ call[x].pc \notin {"first", "waiting"}
                             /\ call'[x].pc \notin {"first", "waiting"}
  BY DEF TabOK, CallOK
<1> QED  BY <1>1, <1>2, WaitsStay DEF TabOK

LEMMA CallSucceedsTyped ==
    ASSUME AccountTypeOK, TabOK, NEW w \in Requests, CallSucceeds(w)
    PROVE  TabOK'
<1>1. PICK u : u = call[w].token.of
  OBVIOUS
<1>2. /\ u \in User
      /\ call[w].pc \in {"sent", "retry"}
      /\ call' = [call EXCEPT ![w] = NoCall]
  BY <1>1 DEF CallSucceeds, Accepted, AccountTypeOK
<1>3. CASE UNCHANGED <<serverVars, screen, token, flight, cookie, strayed>>
  <2>1. ScreenOK' /\ FlightOK' /\ token' \in Token /\ cookie' \in User \cup {NoOne}
    BY <1>3 DEF TabOK, ScreenOK, screen, FlightOK
  <2>2. CallOK' /\ \A x \in Requests : Waits(x)'
    BY <1>2, <1>3, NothingTyped, StepWaits
  <2> QED  BY <2>1, <2>2 DEF TabOK
<1>4. CASE RevokeAll(u) /\ cookie' = NoOne
  <2>1. /\ ScreenOK' /\ FlightOK' /\ token' \in Token
        /\ flight' = NoFlight <=> flight = NoFlight
        /\ flight # NoFlight => flight'.by = flight.by
    BY <1>2, <1>4, RevokeTyped
  <2>2. CallOK' /\ \A x \in Requests : Waits(x)'
    BY <1>2, <2>1, NothingTyped, StepWaits
  <2> QED  BY <1>4, <2>1, <2>2 DEF TabOK
<1>5. CASE /\ SessionBegins(u) /\ strayed' = (strayed \/ status # "loading")
           /\ UNCHANGED <<serverVars, token, flight, cookie>>
  <2>1. strayed' \in BOOLEAN
    BY <1>5, Zenon
  <2>2. ScreenOK' /\ FlightOK' /\ token' \in Token /\ cookie' \in User \cup {NoOne}
    BY <1>2, <1>5, <2>1, BeginsTyped, NoOneAssumption DEF TabOK, FlightOK
  <2>3. CallOK' /\ \A x \in Requests : Waits(x)'
    BY <1>2, <1>5, NothingTyped, StepWaits
  <2> QED  BY <2>2, <2>3 DEF TabOK
<1> QED  BY <1>1, <1>3, <1>4, <1>5 DEF CallSucceeds

LEMMA CallRefusedTyped ==
    ASSUME TabOK, NEW w \in Requests, CallRefused(w)
    PROVE  TabOK'
<1>1. call[w].pc \in {"sent", "retry"} /\ call[w] \in CallState /\ call[w] # NoCall
  BY CallHolds DEF CallRefused, TabOK
<1>2. CASE FirstRefusal(w)
  <2>1. /\ flight' = Asking({w}) /\ call' = [call EXCEPT ![w].pc = "waiting"]
        /\ UNCHANGED <<screen, token, strayed, cookie>>
    BY <1>2 DEF CallRefused
  <2>2. {w} \in SUBSET Waiter
    BY DEF Waiter
  <2>3. /\ flight' \in FlightState /\ flight' # NoFlight
        /\ flight'.by = (IF flight = NoFlight THEN {w} ELSE flight.by \cup {w})
    BY <2>1, <2>2, AskedTyped DEF TabOK
  <2>4. [call[w] EXCEPT !.pc = "waiting"] \in CallState /\ [call[w] EXCEPT !.pc = "waiting"].pc = "waiting"
    BY <1>1 DEF CallState, NoCall
  <2>5. /\ call'[w] = [call[w] EXCEPT !.pc = "waiting"]
        /\ \A x \in Requests : x # w => call'[x] = call[x]
        /\ CallOK'
    BY <2>1, <2>4 DEF TabOK, CallOK
  <2>6. \A x \in Requests : Waits(x)'
    BY <2>3, <2>4, <2>5 DEF TabOK, Waits
  <2>7. ScreenOK' /\ token' \in Token /\ cookie' \in User \cup {NoOne}
    BY <2>1 DEF TabOK, ScreenOK, screen
  <2> QED  BY <2>3, <2>5, <2>6, <2>7 DEF TabOK, FlightOK
<1>3. CASE ~FirstRefusal(w)
  <2>1. /\ SessionLost /\ flight' = Aged(flight)
        /\ call' = [call EXCEPT ![w] = NoCall] /\ cookie' = cookie
    BY <1>3 DEF CallRefused
  <2>2. ScreenOK' /\ token' \in Token
    BY <2>1, LostTyped DEF TabOK
  <2>3. /\ FlightOK' /\ (flight' = NoFlight <=> flight = NoFlight)
        /\ flight # NoFlight => flight'.by = flight.by
    BY <2>1, AgedTyped DEF TabOK, FlightOK
  <2>4. CallOK' /\ \A x \in Requests : Waits(x)'
    BY <1>1, <2>1, <2>3, NothingTyped, StepWaits
  <2> QED  BY <2>1, <2>2, <2>3, <2>4 DEF TabOK
<1> QED  BY <1>2, <1>3

LEMMA CallLostTyped ==
    ASSUME TabOK, NEW w \in Requests, CallLost(w)
    PROVE  TabOK'
<1>1. /\ call[w].pc \in {"sent", "retry"} /\ call' = [call EXCEPT ![w] = NoCall]
      /\ UNCHANGED <<flight, cookie>>
  BY DEF CallLost
<1>2. CallOK' /\ \A x \in Requests : Waits(x)'
  BY <1>1, NothingTyped, StepWaits
<1>3. ScreenOK' /\ token' \in Token
  <2>1. CASE w = "boot"
    BY <2>1, NothingRestoredTyped, NothingTyped DEF CallLost, DropToken, TabOK
  <2>2. CASE w # "boot"
    BY <2>2 DEF CallLost, TabOK, ScreenOK, screen
  <2> QED  BY <2>1, <2>2
<1> QED  BY <1>1, <1>2, <1>3 DEF TabOK, FlightOK

\* A sign-in that is sent, served or lost is none of the rest's business.
SigningOnly == UNCHANGED <<screen, token, flight, call, cookie, strayed>>

LEMMA SigningSteps ==
    ASSUME SendLogin \/ ServeLogin \/ LoginFails
    PROVE  SigningOnly /\ UNCHANGED <<accountVars, serverVars>>
BY DEF SendLogin, ServeLogin, LoginFails, SigningOnly

LEMMA LoginSucceedsTyped == ASSUME AccountTypeOK, TabOK, SigningInv, LoginSucceeds PROVE TabOK'
<1>1. PICK u : u = signing.of
  OBVIOUS
<1>2. u \in User
  BY <1>1 DEF LoginSucceeds, SigningInv, NoSigning, AccountTypeOK
<1>3. token' = Fresh(u) /\ cookie' \in {u, NoOne} /\ SessionBegins(u)
  BY <1>1 DEF LoginSucceeds
<1>4. strayed' \in BOOLEAN
  BY Zenon DEF LoginSucceeds
<1>5. ScreenOK' /\ token' \in Token /\ cookie' \in User \cup {NoOne}
  BY <1>2, <1>3, <1>4, BeginsTyped, FreshTyped, NoOneAssumption DEF TabOK
<1>6. flight' = Replaced(flight) /\ call' = call
  BY DEF LoginSucceeds
<1>7. /\ FlightOK' /\ (flight' = NoFlight <=> flight = NoFlight)
      /\ flight # NoFlight => flight'.by = flight.by
  BY <1>6, ReplacedTyped DEF TabOK, FlightOK
<1> QED  BY <1>5, <1>6, <1>7, WaitsStay DEF TabOK, CallOK

LEMMA LoginRefusedTyped == ASSUME TabOK, LoginRefused PROVE TabOK'
<1>1. SessionLost /\ flight' = Aged(flight) /\ call' = call /\ cookie' = cookie
  BY DEF LoginRefused
<1>2. ScreenOK' /\ token' \in Token
  BY <1>1, LostTyped DEF TabOK
<1>3. /\ FlightOK' /\ (flight' = NoFlight <=> flight = NoFlight)
      /\ flight # NoFlight => flight'.by = flight.by
  BY <1>1, AgedTyped DEF TabOK, FlightOK
<1> QED  BY <1>1, <1>2, <1>3, WaitsStay DEF TabOK, CallOK

LEMMA LogoutTyped == ASSUME TabOK, Logout PROVE TabOK'
<1>1. ScreenOK' /\ token' \in Token /\ cookie' \in User \cup {NoOne} /\ call' = call /\ CallOK'
  BY DEF Logout, TabOK, ScreenOK, CallOK
<1>2. /\ FlightOK' /\ (flight' = NoFlight <=> flight = NoFlight)
      /\ flight # NoFlight => flight'.by = flight.by
  BY EndedTyped DEF Logout, TabOK, FlightOK
<1> QED  BY <1>1, <1>2, WaitsStay DEF TabOK

LEMMA LoggedOutTyped == ASSUME TabOK, NEW lost \in BOOLEAN, LoggedOut(lost) PROVE TabOK'
<1>1. ScreenOK' /\ token' \in Token /\ cookie' \in User \cup {NoOne} /\ call' = call /\ CallOK'
  BY NothingTyped DEF LoggedOut, DropToken, TabOK, ScreenOK, CallOK
<1>2. /\ FlightOK' /\ (flight' = NoFlight <=> flight = NoFlight)
      /\ flight # NoFlight => flight'.by = flight.by
  BY AgedTyped DEF LoggedOut, TabOK, FlightOK
<1> QED  BY <1>1, <1>2, WaitsStay DEF TabOK

LEMMA ConnectRefusedTyped == ASSUME TabOK, ConnectRefused PROVE TabOK'
<1>1. {} \in SUBSET Waiter
  OBVIOUS
<1>2. /\ flight' \in FlightState /\ flight' # NoFlight
      /\ flight'.by = (IF flight = NoFlight THEN {} ELSE flight.by)
  BY <1>1, AskedTyped DEF ConnectRefused, TabOK
<1>3. ScreenOK' /\ token' \in Token /\ cookie' \in User \cup {NoOne} /\ call' = call /\ CallOK'
  BY DEF ConnectRefused, TabOK, ScreenOK, CallOK
<1>4. \A w \in Requests : Waits(w)'
  BY <1>2, <1>3 DEF TabOK, Waits
<1> QED  BY <1>2, <1>3, <1>4 DEF TabOK, FlightOK

\* Steps that touch the socket of the tab, or nothing of it.
LEMMA SocketStepTyped ==
    ASSUME TabOK, UNCHANGED <<status, user, leaving, token, timer, flight, call, strayed>>,
           \/ Connect \/ Disconnect
           \/ UNCHANGED <<sock, line>> /\ cookie' \in {cookie, NoOne}
    PROVE  TabOK'
<1>1. ScreenOK'
  <2>1. CASE Connect
    <3>1. NewSocket \in Conn
      BY <2>1 DEF Connect, Handshake, NewSocket
    <3> QED  BY <2>1, <3>1 DEF Connect, TabOK, ScreenOK
  <2>2. CASE Disconnect
    BY <2>2 DEF Disconnect, TabOK, ScreenOK
  <2>3. CASE UNCHANGED <<sock, line>>
    BY <2>3 DEF TabOK, ScreenOK
  <2> QED  BY <2>1, <2>2, <2>3
<1>2. cookie' \in User \cup {NoOne}
  BY DEF Connect, Disconnect, TabOK
<1> QED  BY <1>1, <1>2, WaitsStay DEF TabOK, FlightOK, CallOK

LEMMA RevocationTyped ==
    ASSUME AccountTypeOK, TabOK, NEW k \in Clerk, Revocation(k)
    PROVE  TabOK'
<1>1. PICK u : u = edit[k].target
  OBVIOUS
<1>2. u \in User /\ RevokeAll(u) /\ call' = call /\ cookie' \in User \cup {NoOne}
  <2>1. edit[k].pc = "revoke"
    BY DEF Revocation, FinishRevoke
  <2> QED  BY <1>1, <2>1, EditHolds DEF Revocation, AccountTypeOK, TabOK
<1>3. /\ ScreenOK' /\ FlightOK' /\ token' \in Token
      /\ flight' = NoFlight <=> flight = NoFlight
      /\ flight # NoFlight => flight'.by = flight.by
  BY <1>2, RevokeTyped
<1> QED  BY <1>2, <1>3, WaitsStay DEF TabOK, CallOK

LEMMA TabNext == ASSUME AccountTypeOK, TabOK, SigningInv, [Next]_vars PROVE TabOK'
<1>1. CASE UNCHANGED vars
  BY <1>1, SocketStepTyped DEF vars, tabVars
<1>2. CASE ConnectElsewhere
  BY <1>2, SocketStepTyped DEF ConnectElsewhere, tabVars
<1>3. CASE Connect \/ Disconnect
  BY <1>3, SocketStepTyped DEF Connect, Disconnect
<1>4. ASSUME NEW c \in Conn, JoinRooms(c) \/ ServerDisconnect(c)  PROVE TabOK'
  BY <1>4, SocketStepTyped DEF JoinRooms, ServerDisconnect, tabVars
<1>5. ASSUME NEW k \in Clerk, Administer(k) \/ RevocationFails(k)  PROVE TabOK'
  BY <1>5, SocketStepTyped DEF Administer, RevocationFails, tabVars
<1>6. CASE SendLogin \/ ServeLogin \/ LoginFails
  BY <1>6, SigningSteps, SocketStepTyped DEF SigningOnly, screen
<1> QED  BY <1>1, <1>2, <1>3, <1>4, <1>5, <1>6, ServeTyped, SucceedsTyped, FailsTyped, FiresTyped,
            ExpiresTyped, SendTyped, CallSucceedsTyped, CallRefusedTyped, CallLostTyped,
            LoginSucceedsTyped, LoginRefusedTyped, LogoutTyped, LoggedOutTyped, ConnectRefusedTyped, RevocationTyped
         DEF Next

\* The sign-in under way stays its account's.
LEMMA SigningNext ==
    ASSUME AccountTypeOK, AccountNext, SigningInv, [Next]_vars
    PROVE  SigningInv'
<1>0. Known \subseteq Known' /\ Known \subseteq User
  BY AccountsStay DEF AccountTypeOK
<1>1. CASE UNCHANGED signing
  BY <1>0, <1>1 DEF SigningInv, SigningOK
<1>2. CASE SendLogin
  <2>1. PICK u \in Known \cup {NoOne} : signing' = [pc |-> "asked", of |-> u, live |-> TRUE]
    BY <1>2 DEF SendLogin
  <2> QED  BY <1>0, <2>1 DEF SigningInv, SigningOK, SigningState
<1>3. CASE ServeLogin
  <2>1. signing \in SigningState
    BY <1>3 DEF ServeLogin, SigningInv, SigningOK, NoSigning
  <2>2. PICK of \in {signing.of, NoOne} : signing' = [signing EXCEPT !.pc = "answered", !.of = of]
    BY <1>3 DEF ServeLogin
  <2>3. of \in Known \cup {NoOne}
    BY <2>1, <2>2 DEF SigningInv, SigningState, NoSigning
  <2> QED  BY <1>0, <2>1, <2>2, <2>3 DEF SigningInv, SigningOK, SigningState
<1>4. CASE LoginSucceeds \/ LoginRefused \/ LoginFails
  BY <1>4 DEF LoginSucceeds, LoginRefused, LoginFails, SigningInv, SigningOK
<1>5. ASSUME NEW u, RevokeAll(u)  PROVE SigningInv'
  <2>1. signing' = signing \/ signing' = [signing EXCEPT !.live = FALSE]
    BY <1>5 DEF RevokeAll, EndedSigning
  <2>2. CASE signing = NoSigning
    BY <1>5, <2>2 DEF RevokeAll, EndedSigning, NoSigning, SigningInv, SigningOK
  <2>3. CASE signing \in SigningState
    BY <1>0, <2>1, <2>3 DEF SigningInv, SigningOK, SigningState, NoSigning
  <2> QED  BY <2>2, <2>3 DEF SigningInv, SigningOK
<1>6. ASSUME NEW w \in Requests, CallSucceeds(w)  PROVE SigningInv'
  BY <1>1, <1>5, <1>6 DEF CallSucceeds
<1>7. ASSUME NEW k \in Clerk, Revocation(k)  PROVE SigningInv'
  BY <1>5, <1>7 DEF Revocation
<1>8. CASE \/ ServeRefresh \/ RefreshSucceeds \/ \E lost \in BOOLEAN : RefreshFails(lost) \/ LoggedOut(lost)
           \/ TimerFires \/ TokenExpires \/ SendCall
           \/ \E w \in Requests : CallRefused(w) \/ CallLost(w)
           \/ Logout \/ ConnectRefused \/ Disconnect
  BY <1>1, <1>8 DEF ServeRefresh, RefreshSucceeds, RefreshFails, LoggedOut, TimerFires, TokenExpires,
                    SendCall, CallRefused, CallLost, Logout, ConnectRefused, Disconnect, server
<1>9. CASE \/ Connect \/ ConnectElsewhere \/ UNCHANGED vars
           \/ \E c \in Conn : JoinRooms(c) \/ ServerDisconnect(c)
           \/ \E k \in Clerk : Administer(k) \/ RevocationFails(k)
  BY <1>1, <1>9 DEF Connect, ConnectElsewhere, vars, JoinRooms, ServerDisconnect, Administer,
                    RevocationFails, tabVars
<1> QED  BY <1>2, <1>3, <1>4, <1>6, <1>7, <1>8, <1>9 DEF Next

-----------------------------------------------------------------------------
(* What the tab holds up is there *)

LEMMA LeaveHolds ==
    ASSUME ServerInv, NEW cs \in SUBSET Conn, Leave(cs)
    PROVE  \A c \in Conn \ cs : conn[c] # Closed => conn'[c] # Closed
<1>1. PICK reg, cn : /\ reg = Disconnected(online, cs)
                     /\ cn = [c \in Conn |-> IF c \in cs THEN Closed ELSE conn[c]]
  OBVIOUS
<1>2. conn' = Announce(cn, reg)
  BY <1>1 DEF Leave
<1>3. cn \in Sockets /\ DOMAIN reg \subseteq User
  BY <1>1, RegistryLoses DEF ServerInv, ServerTypeOK, Sockets, Reading, Open
<1> QED  BY <1>1, <1>2, <1>3, AnnounceKeeps

LEMMA JoinHolds ==
    ASSUME ServerInv, NEW c \in Conn, Join(c)
    PROVE  \A d \in Conn : conn[d] # Closed => conn'[d] # Closed
<1>1. PICK reg, cn :
        /\ reg = Connected(online, conn[c].user, c)
        /\ cn = [conn EXCEPT ![c] = [pc |-> "joined", user |-> conn[c].user, role |-> conn[c].role,
                                     tile |-> IF conn[c].role = "ADMIN" THEN DOMAIN reg ELSE {}]]
  OBVIOUS
<1>2. conn' = Announce(cn, reg) /\ conn[c] \in Reading
  <2>1. conn[c].pc = "read"
    BY DEF Join
  <2> QED  BY <1>1, <2>1, SocketHolds DEF Join, ServerInv, ServerTypeOK, Sockets, Reading, Open
<1>3. DOMAIN reg \subseteq User
  <2>1. DOMAIN reg = DOMAIN online \cup {conn[c].user}
    BY <1>1 DEF Connected
  <2> QED  BY <1>2, <2>1 DEF ServerInv, ServerTypeOK, Reading
<1>4. cn \in Sockets
  <2>1. (IF conn[c].role = "ADMIN" THEN DOMAIN reg ELSE {}) \subseteq User
    BY <1>3
  <2> QED  BY <1>1, <1>2, <2>1 DEF ServerInv, ServerTypeOK, Sockets, Reading, Open
<1>5. \A d \in Conn : conn[d] # Closed => cn[d] # Closed
  BY <1>1 DEF ServerInv, ServerTypeOK, Closed
<1> QED  BY <1>2, <1>3, <1>4, <1>5, AnnounceKeeps

\* The tab gives up a socket, or the server keeps it.
LEMMA LineStays ==
    ASSUME TabOK, LineHeld, line' = line \/ line' = {}, ServerInv,
           \/ conn' = conn
           \/ \E c \in Conn : Join(c)
           \/ \E cs \in SUBSET Conn : Leave(cs) /\ line' \cap cs = {}
    PROVE  LineHeld'
BY LeaveHolds, JoinHolds DEF TabOK, ScreenOK, LineHeld

LEMMA LineNext == ASSUME TabOK, LineHeld, ServerInv, [Next]_vars PROVE LineHeld'
<1>1. CASE Connect
  <2>1. PICK c \in Conn : conn[c] = Closed /\ c = NewSocket
    BY <1>1 DEF Connect, Handshake, NewSocket
  <2>2. line' = {c}
    BY <1>1, <2>1 DEF Connect
  <2>3. conn'[c].pc = "read"
    BY <1>1, <2>1 DEF Connect, Handshake, ServerInv, ServerTypeOK
  <2> QED  BY <2>2, <2>3 DEF LineHeld, Closed
<1>2. CASE ConnectElsewhere
  <2>1. PICK u : Handshake(u)
    BY <1>2 DEF ConnectElsewhere
  <2>2. PICK c \in Conn : conn[c] = Closed /\ c = NewSocket
    BY <2>1 DEF Handshake, NewSocket
  <2>3. /\ \A d \in Conn : d # c => conn'[d] = conn[d]
        /\ line' = line
    BY <1>2, <2>1, <2>2 DEF ConnectElsewhere, tabVars, Handshake, ServerInv, ServerTypeOK
  <2> QED  BY <2>2, <2>3 DEF LineHeld, TabOK, ScreenOK
<1>3. ASSUME NEW u, RevokeAll(u)  PROVE LineHeld'
  <2>1. Leave(Revoked(u)) /\ Revoked(u) \in SUBSET Conn
    BY <1>3, RevokeLeaves
  <2>2. line' = {} \/ (line' = line /\ line \cap Revoked(u) = {})
    BY <1>3 DEF RevokeAll, SessionLost, screen
  <2> QED  BY <2>1, <2>2, LineStays
<1>4. ASSUME NEW w \in Requests, CallSucceeds(w)  PROVE LineHeld'
  <2>1. \/ RevokeAll(call[w].token.of)
        \/ UNCHANGED conn /\ (line' = line \/ line' = {})
    BY <1>4 DEF CallSucceeds, serverVars, screen, SessionBegins
  <2> QED  BY <1>3, <2>1, LineStays
<1>5. ASSUME NEW k \in Clerk, Revocation(k)  PROVE LineHeld'
  BY <1>3, <1>5 DEF Revocation
<1>6. ASSUME NEW c \in Conn, JoinRooms(c) \/ ServerDisconnect(c)  PROVE LineHeld'
  <2>1. line' = line /\ (Join(c) \/ (Leave({c}) /\ line' \cap {c} = {}))
    BY <1>6 DEF JoinRooms, ServerDisconnect, tabVars
  <2> QED  BY <2>1, LineStays
<1>7. ASSUME NEW k \in Clerk, Administer(k) \/ RevocationFails(k)  PROVE LineHeld'
  BY <1>7, LineStays DEF Administer, RevocationFails, NoteWrite, NoteFailure, serverVars, tabVars
<1>8. ASSUME NEW lost \in BOOLEAN, RefreshFails(lost) \/ LoggedOut(lost)  PROVE LineHeld'
  BY <1>8, LineStays DEF RefreshFails, LoggedOut, SessionLost, NothingRestored, screen, server,
                         serverVars
<1>9. ASSUME NEW w \in Requests, CallRefused(w) \/ CallLost(w)  PROVE LineHeld'
  BY <1>9, LineStays DEF CallRefused, CallLost, SessionLost, NothingRestored, screen, server,
                         serverVars
<1>10. CASE ServeRefresh \/ RefreshSucceeds \/ TimerFires \/ TokenExpires \/ SendCall
  BY <1>10, LineStays DEF ServeRefresh, RefreshSucceeds, TimerFires, TokenExpires, SendCall,
                          screen, server, serverVars
<1>11. CASE Logout \/ ConnectRefused \/ Disconnect \/ UNCHANGED vars
  BY <1>11, LineStays DEF Logout, ConnectRefused, Disconnect, vars, server, serverVars, tabVars
<1>12. CASE SendLogin \/ ServeLogin \/ LoginFails
  BY <1>12, SigningSteps, LineStays DEF SigningOnly, screen, serverVars
<1>13. CASE LoginSucceeds \/ LoginRefused
  BY <1>13, LineStays DEF LoginSucceeds, SessionBegins, LoginRefused, SessionLost, serverVars
<1> QED  BY <1>1, <1>2, <1>4, <1>5, <1>6, <1>7, <1>8, <1>9, <1>10, <1>11, <1>12, <1>13 DEF Next

LEMMA TabInitial == ASSUME Init PROVE TabOK /\ LineHeld /\ SigningInv
<1>1. cookie \in User \cup {NoOne}
  BY SeedAssumption DEF Init
<1>2. flight \in FlightState /\ flight # NoFlight /\ flight.by = {"boot"}
  BY <1>1 DEF Init, FlightState, Waiter, Requests, NoFlight
<1>3. /\ CallOK
      /\ call["boot"].pc = "first" /\ call["page"].pc = "none"
  BY NothingTyped DEF Init, CallOK, CallState, Requests, NoCall
<1>4. \A w \in Requests : Waits(w)
  BY <1>2, <1>3 DEF Waits, Requests
<1>5. ScreenOK /\ token \in Token /\ LineHeld
  BY NothingTyped DEF Init, ScreenOK, LineHeld
<1>6. SigningInv
  BY DEF Init, SigningInv, SigningOK
<1> QED  BY <1>1, <1>2, <1>3, <1>4, <1>5, <1>6 DEF TabOK, FlightOK

\* Every reachable state of tab and server is typed, for any number of accounts,
\* sockets and requests; the list of a refresh under way is exactly who waits for
\* it, and the socket the tab holds up is one the server has not given up.
THEOREM TypeCorrect == Spec => []TypeOK
<1>1. Init => TabOK /\ LineHeld /\ SigningInv
  BY TabInitial
<1>2. AccountTypeOK /\ ServerInv /\ TabOK /\ LineHeld /\ SigningInv /\ [Next]_vars
        => (TabOK /\ LineHeld /\ SigningInv)'
  BY TabNext, LineNext, SigningNext, NextIsServerStep
<1>3. AccountTypeOK /\ ServerInv /\ TabOK /\ LineHeld /\ SigningInv => TypeOK
  BY TypeIsTyped DEF ServerInv, SigningInv
<1> QED  BY <1>1, <1>2, <1>3, ServerHolds, PTL DEF Spec

-----------------------------------------------------------------------------
(* The tab acts as the account it shows *)

\* While the session is being restored nothing else has happened: the only
\* refresh is the one of the start, and the answer that is still to come is the
\* account's whose token the tab has.
Booting ==
    status = "loading" =>
        /\ user = NoOne /\ ~leaving /\ ~timer /\ ~strayed /\ sock = "off"
        /\ call["page"] = NoCall
        /\ flight # NoFlight => flight.by = {"boot"} /\ ~flight.old
        /\ call["boot"].pc = "first" => token = NoToken
        /\ call["boot"].pc \in {"sent", "retry"} =>
              token.of = call["boot"].token.of /\ cookie \in {token.of, NoOne}

\* A refresh that was asked for in this session carries this session's account;
\* nobody is signed in means no refresh can bring anything back unnoticed.
InSession ==
    /\ status = "authenticated" =>
          /\ token.of = user /\ cookie \in {user, NoOne}
          /\ flight # NoFlight => flight.old \/ flight.of \in {user, NoOne}
    /\ status = "anonymous" =>
          /\ token = NoToken /\ user = NoOne
          /\ flight # NoFlight => flight.old

TabInv == Booting /\ (strayed \/ leaving \/ InSession)

LEMMA TabInvInit == ASSUME Init PROVE TabInv
BY DEF Init, TabInv, Booting, InSession, NoCall, Requests

\* A session has just ended.
LEMMA LostIsQuiet ==
    ASSUME SessionLost, flight' # NoFlight => flight'.old
    PROVE  TabInv'
BY DEF SessionLost, DropToken, TabInv, Booting, InSession

LEMMA ServeFaithful == ASSUME TabOK, TabInv, ServeRefresh PROVE TabInv'
<1>1. flight \in FlightState /\ flight # NoFlight
  BY DEF ServeRefresh, TabOK, FlightOK, NoFlight
<1>2. PICK of \in {flight.of, NoOne} : flight' = [flight EXCEPT !.pc = "answered", !.of = of]
  BY DEF ServeRefresh
<1>3. flight'.by = flight.by /\ flight'.old = flight.old /\ flight'.of \in {flight.of, NoOne}
  BY <1>1, <1>2 DEF FlightState
<1> QED  BY <1>1, <1>3 DEF ServeRefresh, screen, TabInv, Booting, InSession

LEMMA SucceedsFaithful == ASSUME TabOK, TabInv, RefreshSucceeds PROVE TabInv'
<1>1. flight \in FlightState /\ flight # NoFlight
  BY DEF RefreshSucceeds, TabOK, FlightOK, FlightState, NoFlight
<1>2. /\ token'.of = flight.of /\ cookie' \in {flight.of, NoOne} /\ flight' = NoFlight
      /\ UNCHANGED <<status, user, leaving, sock>>
      /\ call' = Resent(Fresh(flight.of))
  BY DEF RefreshSucceeds, Fresh
<1>3. strayed \/ flight.old => strayed'
  BY Zenon DEF RefreshSucceeds
<1>4. CASE status = "loading"
  <2>1. flight.by = {"boot"} /\ ~flight.old /\ ~strayed /\ ~timer
    BY <1>1, <1>4 DEF TabInv, Booting
  <2>2. ~strayed' /\ ~timer'
    BY <2>1, Zenon DEF RefreshSucceeds
  <2>3. call'["page"] = call["page"]
    BY <1>2, <2>1 DEF Resent, Requests
  <2>4. call'["boot"].token = Fresh(flight.of) /\ call'["boot"].pc # "first"
    <3>1. call["boot"] \in CallState /\ call["boot"] # NoCall
      BY <1>1, <2>1, CallHolds DEF TabOK, Waits, Requests
    <3>2. call'["boot"] = [call["boot"] EXCEPT
                              !.pc = IF call["boot"].pc = "waiting" THEN "retry" ELSE "sent",
                              !.token = Fresh(flight.of)]
      BY <1>2, <2>1 DEF Resent, Requests
    <3> QED  BY <3>1, <3>2 DEF CallState, NoCall
  <2> QED  BY <1>2, <1>4, <2>2, <2>3, <2>4 DEF TabInv, Booting, InSession, Fresh
<1>5. CASE status # "loading"
  <2>1. flight.of # NoOne
    BY DEF RefreshSucceeds
  <2> QED  BY <1>1, <1>2, <1>3, <1>5, <2>1 DEF TabInv, Booting, InSession
<1> QED  BY <1>4, <1>5

LEMMA NothingRestoredFaithful ==
    ASSUME TabOK, TabInv, NothingRestored, status = "loading" => token' = NoToken,
           flight' = NoFlight
    PROVE  TabInv'
<1>1. status # "loading" => strayed'
  BY Zenon DEF NothingRestored
<1> QED  BY <1>1 DEF NothingRestored, TabInv, Booting, InSession

LEMMA FailsFaithful == ASSUME TabOK, TabInv, NEW lost \in BOOLEAN, RefreshFails(lost) PROVE TabInv'
<1>1. flight # NoFlight /\ flight' = NoFlight /\ cookie' \in {cookie, NoOne}
  BY DEF RefreshFails
<1>2. CASE RefusedRequestWaits
  BY <1>1, <1>2, LostIsQuiet DEF RefreshFails
<1>3. CASE ~RefusedRequestWaits /\ "boot" \in flight.by
  <2>1. token' = token /\ NothingRestored
    BY <1>3 DEF RefreshFails
  <2>2. call["boot"].pc = "first"
    BY <1>1, <1>3 DEF TabOK, Waits, Requests, RefusedRequestWaits
  <2> QED  BY <1>1, <2>1, <2>2, NothingRestoredFaithful DEF TabInv, Booting
<1>4. CASE ~RefusedRequestWaits /\ "boot" \notin flight.by
  <2>1. UNCHANGED <<token, screen, strayed>>
    BY <1>4 DEF RefreshFails
  <2>2. status # "loading"
    BY <1>1, <1>4 DEF TabInv, Booting
  <2> QED  BY <1>1, <2>1, <2>2 DEF TabInv, Booting, InSession, screen
<1> QED  BY <1>2, <1>3, <1>4

\* A refresh asked for outside the start is of this session, or of nobody's.
LEMMA AskedFaithful ==
    ASSUME TabOK, TabInv, status # "loading", NEW ws \in SUBSET Waiter, flight' = Asking(ws),
           UNCHANGED <<status, user, leaving, token, strayed, cookie>>
    PROVE  TabInv'
<1>1. flight = NoFlight => flight'.of = cookie
  BY AskedTyped DEF TabOK
<1>2. flight # NoFlight => flight'.of = flight.of /\ flight'.old = flight.old
  BY AskedTyped DEF TabOK, FlightOK, Asking, FlightState, NoFlight
<1>3. flight = NoFlight /\ status = "anonymous" => flight'.old
  BY DEF Asking
<1> QED  BY <1>1, <1>2, <1>3 DEF TabInv, Booting, InSession

LEMMA FiresFaithful == ASSUME TabOK, TabInv, TimerFires PROVE TabInv'
<1>1. status # "loading"
  BY DEF TimerFires, TabInv, Booting
<1>2. {"timer"} \in SUBSET Waiter
  BY DEF Waiter
<1> QED  BY <1>1, <1>2, AskedFaithful DEF TimerFires

LEMMA ExpiresFaithful == ASSUME TabOK, TabInv, TokenExpires PROVE TabInv'
<1>1. token'.of = token.of /\ token # NoToken
  BY DEF TokenExpires, TabOK, Token, NoToken
<1> QED  BY <1>1 DEF TokenExpires, screen, TabInv, Booting, InSession

LEMMA SendFaithful == ASSUME TabOK, TabInv, SendCall PROVE TabInv'
BY DEF SendCall, screen, TabInv, Booting, InSession

\* The sessions of an account end; the cookie stays or is gone with them.
LEMMA RevokeFaithful ==
    ASSUME TabOK, TabInv, NEW u \in User, RevokeAll(u), cookie' \in {cookie, NoOne},
           call'["page"] \in {call["page"], NoCall}, call'["boot"] \in {call["boot"], NoCall}
    PROVE  TabInv'
<1>1. CASE line \cap Revoked(u) # {}
  <2>1. SessionLost /\ flight' = Ended(u, Aged(flight))
    BY <1>1 DEF RevokeAll
  <2>2. PICK f : f = Aged(flight)
    OBVIOUS
  <2>3. /\ f = NoFlight \/ f \in FlightState
        /\ f # NoFlight => f.old
    BY <2>2, AgedTyped DEF TabOK, FlightOK
  <2>4. flight' # NoFlight => flight'.old
    BY <2>1, <2>2, <2>3, EndedTyped
  <2> QED  BY <2>1, <2>4, LostIsQuiet
<1>2. CASE line \cap Revoked(u) = {}
  <2>1. flight' = Ended(u, flight) /\ UNCHANGED <<token, screen, strayed>>
    BY <1>2 DEF RevokeAll
  <2>2. /\ flight' = NoFlight <=> flight = NoFlight
        /\ flight # NoFlight => /\ flight'.by = flight.by /\ flight'.old = flight.old
                                /\ flight'.of \in {flight.of, NoOne}
    BY <2>1, EndedTyped DEF TabOK, FlightOK
  <2> QED  BY <2>1, <2>2 DEF screen, TabInv, Booting, InSession, NoCall
<1> QED  BY <1>1, <1>2

LEMMA CallSucceedsFaithful ==
    ASSUME AccountTypeOK, TabOK, TabInv, NEW w \in Requests, CallSucceeds(w)
    PROVE  TabInv'
<1>1. PICK u : u = call[w].token.of
  OBVIOUS
<1>2. u \in User /\ call[w].pc \in {"sent", "retry"} /\ call' = [call EXCEPT ![w] = NoCall]
  BY <1>1 DEF CallSucceeds, Accepted, AccountTypeOK
<1>3. call'["page"] = call["page"] \/ call'["page"] = NoCall
  BY <1>2 DEF TabOK, CallOK, Requests
<1>4. call'["boot"] = call["boot"] \/ call'["boot"] = NoCall
  BY <1>2 DEF TabOK, CallOK, Requests
<1>5. CASE UNCHANGED <<serverVars, screen, token, flight, cookie, strayed>>
  BY <1>3, <1>4, <1>5 DEF screen, TabInv, Booting, InSession, NoCall
<1>6. CASE RevokeAll(u) /\ cookie' = NoOne
  BY <1>2, <1>3, <1>4, <1>6, RevokeFaithful
<1>7. CASE /\ SessionBegins(u) /\ strayed' = (strayed \/ status # "loading")
           /\ UNCHANGED <<serverVars, token, flight, cookie>>
  <2>1. status # "loading" => strayed'
    BY <1>7, Zenon
  <2>2. CASE status = "loading"
    <3>1. w = "boot"
      BY <1>2, <2>2 DEF TabInv, Booting, NoCall, Requests
    <3>2. token.of = u /\ cookie \in {u, NoOne}
      BY <1>1, <1>2, <2>2, <3>1 DEF TabInv, Booting
    <3>3. flight # NoFlight => flight.by = {"boot"}
      BY <2>2 DEF TabInv, Booting
    <3>4. flight = NoFlight
      BY <1>2, <3>1, <3>3 DEF TabOK, Waits, Requests
    <3> QED  BY <1>7, <3>2, <3>4 DEF SessionBegins, TabInv, Booting, InSession
  <2> QED  BY <1>7, <2>1, <2>2 DEF SessionBegins, TabInv, Booting
<1> QED  BY <1>1, <1>5, <1>6, <1>7 DEF CallSucceeds

LEMMA CallRefusedFaithful ==
    ASSUME TabOK, TabInv, NEW w \in Requests, CallRefused(w)
    PROVE  TabInv'
<1>1. call[w].pc \in {"sent", "retry"}
  BY DEF CallRefused
<1>2. CASE ~FirstRefusal(w)
  <2>1. SessionLost /\ flight' = Aged(flight)
    BY <1>2 DEF CallRefused
  <2>2. flight' # NoFlight => flight'.old
    BY <2>1, AgedTyped DEF TabOK, FlightOK
  <2> QED  BY <2>1, <2>2, LostIsQuiet
<1>3. CASE FirstRefusal(w)
  <2>1. /\ flight' = Asking({w}) /\ call' = [call EXCEPT ![w].pc = "waiting"]
        /\ UNCHANGED <<screen, token, strayed, cookie>>
    BY <1>3 DEF CallRefused
  <2>2. {w} \in SUBSET Waiter
    BY DEF Waiter
  <2>3. CASE status # "loading"
    BY <2>1, <2>2, <2>3, AskedFaithful DEF screen
  <2>4. CASE status = "loading"
    <3>1. w = "boot"
      BY <1>1, <2>4 DEF TabInv, Booting, NoCall, Requests
    <3>2. flight = NoFlight
      BY <1>1, <2>4, <3>1 DEF TabInv, Booting, TabOK, Waits
    <3>3. flight'.by = {"boot"}
      BY <2>1, <2>2, <3>1, <3>2, AskedTyped DEF TabOK
    <3>4. ~flight'.old
      BY <2>1, <2>4, <3>2 DEF Asking
    <3>5. call'["page"] = call["page"] /\ call'["boot"].pc = "waiting"
      <4>1. call["boot"] \in CallState /\ call["boot"] # NoCall
        BY <1>1, <3>1, CallHolds DEF TabOK
      <4>2. call'["boot"] = [call["boot"] EXCEPT !.pc = "waiting"]
        BY <2>1, <3>1 DEF TabOK, CallOK
      <4>3. call'["page"] = call["page"]
        BY <2>1, <3>1 DEF TabOK, CallOK, Requests
      <4> QED  BY <4>1, <4>2, <4>3 DEF CallState, NoCall
    <3> QED  BY <2>1, <2>4, <3>3, <3>4, <3>5 DEF screen, TabInv, Booting, InSession
  <2> QED  BY <2>3, <2>4
<1> QED  BY <1>2, <1>3

LEMMA CallLostFaithful ==
    ASSUME TabOK, TabInv, NEW w \in Requests, CallLost(w)
    PROVE  TabInv'
<1>1. /\ call[w].pc \in {"sent", "retry"} /\ call' = [call EXCEPT ![w] = NoCall]
      /\ UNCHANGED <<flight, cookie>>
  BY DEF CallLost
<1>2. CASE w = "boot"
  <2>1. token' = NoToken /\ NothingRestored
    BY <1>2 DEF CallLost, DropToken
  <2>2. status # "loading" => strayed'
    BY <2>1, Zenon DEF NothingRestored
  <2>3. status = "loading" => flight = NoFlight
    BY <1>1, <1>2 DEF TabInv, Booting, TabOK, Waits, Requests
  <2> QED  BY <1>1, <2>1, <2>2, <2>3 DEF NothingRestored, TabInv, Booting, InSession
<1>3. CASE w # "boot"
  <2>1. UNCHANGED <<token, screen, strayed>>
    BY <1>3 DEF CallLost
  <2>2. status # "loading"
    BY <1>1, <1>3 DEF TabInv, Booting, NoCall, Requests
  <2> QED  BY <1>1, <2>1, <2>2 DEF screen, TabInv, Booting, InSession
<1> QED  BY <1>2, <1>3

LEMMA LoginSucceedsFaithful == ASSUME TabOK, TabInv, LoginSucceeds PROVE TabInv'
<1>1. PICK u : u = signing.of
  OBVIOUS
<1>2. token' = Fresh(u) /\ cookie' \in {u, NoOne} /\ SessionBegins(u)
  BY <1>1 DEF LoginSucceeds
<1>3. flight' # NoFlight => flight'.old
  BY ReplacedTyped DEF LoginSucceeds, TabOK, FlightOK
<1> QED  BY <1>2, <1>3 DEF SessionBegins, Fresh, TabInv, Booting, InSession

LEMMA LoginRefusedFaithful == ASSUME TabOK, TabInv, LoginRefused PROVE TabInv'
<1>1. flight' # NoFlight => flight'.old
  BY AgedTyped DEF LoginRefused, TabOK, FlightOK
<1> QED  BY <1>1, LostIsQuiet DEF LoginRefused

LEMMA LogoutFaithful == ASSUME TabOK, TabInv, Logout PROVE TabInv'
BY DEF Logout, TabInv, Booting

LEMMA LoggedOutFaithful == ASSUME TabOK, TabInv, NEW lost \in BOOLEAN, LoggedOut(lost) PROVE TabInv'
<1>1. flight' # NoFlight => flight'.old
  BY AgedTyped DEF LoggedOut, TabOK, FlightOK
<1> QED  BY <1>1 DEF LoggedOut, DropToken, TabInv, Booting, InSession

LEMMA ConnectRefusedFaithful == ASSUME TabOK, TabInv, ConnectRefused PROVE TabInv'
<1>1. status # "loading"
  BY DEF ConnectRefused, TabInv, Booting
<1>2. {} \in SUBSET Waiter
  OBVIOUS
<1> QED  BY <1>1, <1>2, AskedFaithful DEF ConnectRefused

LEMMA RevocationFaithful ==
    ASSUME AccountTypeOK, TabOK, TabInv, NEW k \in Clerk, Revocation(k)
    PROVE  TabInv'
<1>1. PICK u : u = edit[k].target
  OBVIOUS
<1>2. u \in User /\ RevokeAll(u) /\ call' = call /\ cookie' \in {cookie, NoOne}
  <2>1. edit[k].pc = "revoke"
    BY DEF Revocation, FinishRevoke
  <2> QED  BY <1>1, <2>1, EditHolds DEF Revocation, AccountTypeOK
<1> QED  BY <1>2, RevokeFaithful

\* Steps that are none of the screen's business.
LEMMA OtherStepsFaithful ==
    ASSUME TabInv, UNCHANGED <<status, user, leaving, token, timer, flight, call, cookie, strayed>>,
           status = "loading" => sock' = sock
    PROVE  TabInv'
BY DEF TabInv, Booting, InSession

LEMMA FaithfulNext == ASSUME AccountTypeOK, TabOK, TabInv, [Next]_vars PROVE TabInv'
<1>1. CASE UNCHANGED vars
  BY <1>1, OtherStepsFaithful DEF vars, tabVars
<1>2. CASE ConnectElsewhere
  BY <1>2, OtherStepsFaithful DEF ConnectElsewhere, tabVars
<1>3. CASE Connect
  <2>1. status # "loading"
    BY <1>3 DEF Connect, TabInv, Booting
  <2> QED  BY <1>3, <2>1, OtherStepsFaithful DEF Connect
<1>4. CASE Disconnect
  <2>1. sock = "up"
    BY <1>4 DEF Disconnect, TabOK, ScreenOK
  <2>2. status # "loading"
    BY <2>1 DEF TabInv, Booting
  <2> QED  BY <1>4, <2>2, OtherStepsFaithful DEF Disconnect
<1>5. ASSUME NEW c \in Conn, JoinRooms(c) \/ ServerDisconnect(c)  PROVE TabInv'
  BY <1>5, OtherStepsFaithful DEF JoinRooms, ServerDisconnect, tabVars
<1>6. ASSUME NEW k \in Clerk, Administer(k) \/ RevocationFails(k)  PROVE TabInv'
  BY <1>6, OtherStepsFaithful DEF Administer, RevocationFails, tabVars
<1>7. CASE SendLogin \/ ServeLogin \/ LoginFails
  BY <1>7, SigningSteps, OtherStepsFaithful DEF SigningOnly, screen
<1> QED  BY <1>1, <1>2, <1>3, <1>4, <1>5, <1>6, <1>7, ServeFaithful, SucceedsFaithful, FailsFaithful,
            FiresFaithful, ExpiresFaithful, SendFaithful, CallSucceedsFaithful,
            CallRefusedFaithful, CallLostFaithful, LoginSucceedsFaithful, LoginRefusedFaithful,
            LogoutFaithful,
            LoggedOutFaithful, ConnectRefusedFaithful, RevocationFaithful
         DEF Next

\* What the tab sends is sent as the account it shows, and what it could renew is
\* that account's session, through refreshes, sign-ins and sign-outs that
\* overlap; only an answer to a question of an earlier session breaks this.
THEOREM TabCorrect == Spec => []TabActsAsShown
<1>1. Init => TabInv /\ TabOK /\ SigningInv
  BY TabInvInit, TabInitial
<1>2. AccountTypeOK /\ TabOK /\ TabInv /\ SigningInv /\ [Next]_vars => (TabOK /\ TabInv /\ SigningInv)'
  BY TabNext, FaithfulNext, SigningNext, NextIsServerStep
<1>3. TabInv => TabActsAsShown
  BY DEF TabInv, InSession, TabActsAsShown
<1> QED  BY <1>1, <1>2, <1>3, ServerHolds, PTL DEF Spec

-----------------------------------------------------------------------------
(* Nobody is signed out without a cause *)

\* A request that is sent again carries a token that is fresh, and whoever is
\* signed in has an account.
Renewed ==
    /\ status = "authenticated" => user \in Known
    /\ \A w \in Requests : call[w].pc = "retry" => call[w].token.fresh
    /\ call["boot"] # NoCall => call["boot"].kind = "me"

\* The socket of the tab is the shown account's.
OwnLine == strayed \/ leaving \/ (status = "authenticated" => \A c \in line : conn[c].user = user)

LEMMA RenewedInit == ASSUME Init PROVE Renewed /\ OwnLine
BY DEF Init, Renewed, OwnLine, Requests, NoCall

\* Nothing but a refresh that succeeds makes a request one that is sent again.
LEMMA RenewedStays ==
    ASSUME TabOK, Renewed, Known \subseteq Known',
           status' = "authenticated" => (status = "authenticated" /\ user' = user) \/ user' \in Known,
           \A w \in Requests : \/ call'[w] = call[w] \/ call'[w] = NoCall
                               \/ w # "boot" /\ call'[w].pc # "retry"
                               \/ /\ w = "boot" /\ call'[w].pc # "retry" /\ call[w] # NoCall
                                  /\ call'[w].kind = call[w].kind
    PROVE  Renewed'
BY DEF Renewed, NoCall, Requests

LEMMA RenewedNext ==
    ASSUME AccountTypeOK, AccountNext, TabOK, SigningInv, Renewed, [Next]_vars
    PROVE  Renewed'
<1>0. Known \subseteq Known'
  BY AccountsStay
<1>1. CASE RefreshSucceeds
  <2>1. flight \in FlightState /\ flight # NoFlight /\ UNCHANGED <<status, user>>
    BY <1>1 DEF RefreshSucceeds, TabOK, FlightOK, FlightState, NoFlight
  <2>2. PICK t : t = Fresh(flight.of)
    OBVIOUS
  <2>3. call' = Resent(t)
    BY <1>1, <2>2 DEF RefreshSucceeds
  <2>4. ASSUME NEW w \in Requests, w \in flight.by
        PROVE  call'[w].token = t /\ call'[w].kind = call[w].kind /\ call[w] # NoCall
    <3>1. call[w] \in CallState /\ call[w] # NoCall
      BY <2>1, <2>4, CallHolds DEF TabOK, Waits
    <3>2. CASE call[w].pc = "waiting"
      <4>1. call'[w] = [call[w] EXCEPT !.pc = "retry", !.token = t]
        BY <2>3, <2>4, <3>2 DEF Resent
      <4> QED  BY <3>1, <4>1 DEF CallState, NoCall
    <3>3. CASE call[w].pc # "waiting"
      <4>1. call'[w] = [call[w] EXCEPT !.pc = "sent", !.token = t]
        BY <2>3, <2>4, <3>3 DEF Resent
      <4> QED  BY <3>1, <4>1 DEF CallState, NoCall
    <3> QED  BY <3>2, <3>3
  <2>5. ASSUME NEW w \in Requests, w \notin flight.by  PROVE call'[w] = call[w]
    BY <2>3, <2>5 DEF Resent
  <2>6. \A w \in Requests : call'[w].pc = "retry" => call'[w].token.fresh
    <3>1. t.fresh = TRUE
      BY <2>2 DEF Fresh
    <3> QED  BY <2>4, <2>5, <3>1 DEF Renewed
  <2>7. call'["boot"] # NoCall => call'["boot"].kind = "me"
    BY <2>4, <2>5 DEF Renewed, Requests
  <2> QED  BY <1>0, <2>1, <2>6, <2>7 DEF Renewed
<1>2. ASSUME NEW lost \in BOOLEAN, RefreshFails(lost)  PROVE Renewed'
  <2>1. \A w \in Requests : call'[w] = call[w] \/ call'[w] = NoCall
    BY <1>2 DEF RefreshFails, Unsent
  <2>2. status' = "authenticated" => status = "authenticated" /\ user' = user
    BY <1>2 DEF RefreshFails, SessionLost, NothingRestored, screen
  <2> QED  BY <1>0, <2>1, <2>2, RenewedStays
<1>3. CASE SendCall
  <2>1. PICK kind : call' = [call EXCEPT !["page"] = [pc |-> "sent", kind |-> kind, token |-> token]]
    BY <1>3 DEF SendCall
  <2>2. \A w \in Requests : call'[w] = call[w] \/ (w # "boot" /\ call'[w].pc # "retry")
    BY <2>1 DEF TabOK, CallOK, Requests
  <2> QED  BY <1>0, <1>3, <2>2, RenewedStays DEF SendCall, screen
<1>4. ASSUME NEW w \in Requests, CallSucceeds(w)  PROVE Renewed'
  <2>1. \A x \in Requests : call'[x] = call[x] \/ call'[x] = NoCall
    BY <1>4 DEF CallSucceeds, TabOK, CallOK
  <2>2. call[w].token.of \in Known
    BY <1>4 DEF CallSucceeds, Accepted
  <2>3. status' = "authenticated" => (status = "authenticated" /\ user' = user) \/ user' \in Known
    BY <1>4, <2>2 DEF CallSucceeds, RevokeAll, SessionLost, SessionBegins, screen
  <2> QED  BY <1>0, <2>1, <2>3, RenewedStays
<1>5. ASSUME NEW w \in Requests, CallRefused(w)  PROVE Renewed'
  <2>1. status' = "authenticated" => status = "authenticated" /\ user' = user
    BY <1>5 DEF CallRefused, SessionLost, screen
  <2>2. CASE FirstRefusal(w)
    <3>1. call[w] \in CallState /\ call[w] # NoCall
      BY <1>5, CallHolds DEF CallRefused, TabOK
    <3>2. /\ call'[w] = [call[w] EXCEPT !.pc = "waiting"]
          /\ \A x \in Requests : x # w => call'[x] = call[x]
      BY <1>5, <2>2 DEF CallRefused, TabOK, CallOK
    <3>3. call'[w].pc = "waiting" /\ call'[w].kind = call[w].kind
      BY <3>1, <3>2 DEF CallState, NoCall
    <3> QED  BY <1>0, <2>1, <3>1, <3>2, <3>3, RenewedStays
  <2>3. CASE ~FirstRefusal(w)
    <3>1. \A x \in Requests : call'[x] = call[x] \/ call'[x] = NoCall
      BY <1>5, <2>3 DEF CallRefused, TabOK, CallOK
    <3> QED  BY <1>0, <2>1, <3>1, RenewedStays
  <2> QED  BY <2>2, <2>3
<1>6. ASSUME NEW w \in Requests, CallLost(w)  PROVE Renewed'
  <2>1. \A x \in Requests : call'[x] = call[x] \/ call'[x] = NoCall
    BY <1>6 DEF CallLost, TabOK, CallOK
  <2>2. status' = "authenticated" => status = "authenticated" /\ user' = user
    BY <1>6 DEF CallLost, NothingRestored, screen
  <2> QED  BY <1>0, <2>1, <2>2, RenewedStays
<1>7. CASE ServeRefresh \/ TimerFires \/ TokenExpires \/ Connect \/ ConnectRefused \/ Disconnect
           \/ ConnectElsewhere \/ UNCHANGED vars
  BY <1>0, <1>7, RenewedStays DEF ServeRefresh, TimerFires, TokenExpires, Connect, ConnectRefused,
                                  Disconnect, ConnectElsewhere, vars, screen, tabVars
<1>8. CASE LoginSucceeds
  <2>1. signing.of \in Known
    BY <1>8 DEF LoginSucceeds, SigningInv, NoSigning
  <2> QED  BY <1>0, <1>8, <2>1, RenewedStays DEF LoginSucceeds, SessionBegins
<1>12. CASE LoginRefused
  BY <1>0, <1>12, RenewedStays DEF LoginRefused, SessionLost
<1>13. CASE SendLogin \/ ServeLogin \/ LoginFails
  BY <1>0, <1>13, SigningSteps, RenewedStays DEF SigningOnly, screen
<1>9. ASSUME Logout \/ \E lost \in BOOLEAN : LoggedOut(lost)  PROVE Renewed'
  BY <1>0, <1>9, RenewedStays DEF Logout, LoggedOut
<1>10. ASSUME NEW c \in Conn, JoinRooms(c) \/ ServerDisconnect(c)  PROVE Renewed'
  BY <1>0, <1>10, RenewedStays DEF JoinRooms, ServerDisconnect, tabVars
<1>11. ASSUME NEW k \in Clerk, Administer(k) \/ Revocation(k) \/ RevocationFails(k)
       PROVE  Renewed'
  BY <1>0, <1>11, RenewedStays DEF Administer, Revocation, RevocationFails, RevokeAll, SessionLost,
                                  screen, tabVars
<1> QED  BY <1>1, <1>2, <1>3, <1>4, <1>5, <1>6, <1>7, <1>8, <1>9, <1>10, <1>11, <1>12, <1>13 DEF Next

\* An account's socket stays that account's for as long as the tab holds it.
LEMMA OwnersStay ==
    ASSUME ServerInv, ServerStep, NEW c \in Conn, conn[c] # Closed, conn'[c] # Closed
    PROVE  conn'[c].user = conn[c].user
<1>1. CASE UNCHANGED conn
  BY <1>1
<1>2. ASSUME NEW u \in Known, Handshake(u)  PROVE conn'[c] = conn[c]
  <2>1. PICK d \in Conn : conn[d] = Closed /\ d = NewSocket
    BY <1>2 DEF Handshake, NewSocket
  <2> QED  BY <1>2, <2>1 DEF Handshake, ServerInv, ServerTypeOK
<1>3. ASSUME NEW d \in Conn, Join(d)  PROVE conn'[c].user = conn[c].user
  <2>1. PICK reg, cn :
          /\ reg = Connected(online, conn[d].user, d)
          /\ cn = [conn EXCEPT ![d] = [pc |-> "joined", user |-> conn[d].user, role |-> conn[d].role,
                                       tile |-> IF conn[d].role = "ADMIN" THEN DOMAIN reg ELSE {}]]
    OBVIOUS
  <2>2. conn' = Announce(cn, reg) /\ conn[d] \in Reading
    <3>1. conn[d].pc = "read"
      BY <1>3 DEF Join
    <3> QED  BY <1>3, <2>1, <3>1, SocketHolds DEF Join, ServerInv, ServerTypeOK, Sockets, Reading, Open
  <2>3. DOMAIN reg \subseteq User
    <3>1. DOMAIN reg = DOMAIN online \cup {conn[d].user}
      BY <2>1 DEF Connected
    <3> QED  BY <2>2, <3>1 DEF ServerInv, ServerTypeOK, Reading
  <2>4. cn \in Sockets
    <3>1. (IF conn[d].role = "ADMIN" THEN DOMAIN reg ELSE {}) \subseteq User
      BY <2>3
    <3> QED  BY <2>1, <2>2, <3>1 DEF ServerInv, ServerTypeOK, Sockets, Reading, Open
  <2>5. cn[c] # Closed /\ cn[c].user = conn[c].user
    BY <2>1 DEF ServerInv, ServerTypeOK, Closed
  <2> QED  BY <2>2, <2>3, <2>4, <2>5, AnnounceKeeps
<1>4. ASSUME NEW cs \in SUBSET Conn, Leave(cs)  PROVE conn'[c].user = conn[c].user
  <2>1. PICK reg, cn : /\ reg = Disconnected(online, cs)
                       /\ cn = [x \in Conn |-> IF x \in cs THEN Closed ELSE conn[x]]
    OBVIOUS
  <2>2. conn' = Announce(cn, reg)
    BY <1>4, <2>1 DEF Leave
  <2>3. cn \in Sockets /\ DOMAIN reg \subseteq User
    BY <2>1, RegistryLoses DEF ServerInv, ServerTypeOK, Sockets, Reading, Open
  <2>4. cn[c] = Closed \/ cn[c] = conn[c]
    BY <2>1
  <2> QED  BY <2>2, <2>3, <2>4, AnnounceKeeps
<1>5. ASSUME NEW k \in Clerk, Leave(Revoked(edit[k].target))  PROVE conn'[c].user = conn[c].user
  BY <1>4, <1>5 DEF Revoked, SocketsOf, Joined
<1> QED  BY <1>1, <1>2, <1>3, <1>4, <1>5 DEF ServerStep, serverVars, NoteWrite, NoteFailure

\* The tab gives up its sockets, or keeps some, as the account it was.
LEMMA OwnLineStays ==
    ASSUME ServerInv, ServerStep, TabOK, LineHeld, LineHeld', OwnLine,
           \/ line' = {} \/ strayed' \/ leaving'
           \/ status' # "authenticated"
           \/ /\ line' = line /\ status = "authenticated" /\ user' = user
              /\ leaving' = leaving /\ strayed' = strayed
    PROVE  OwnLine'
<1>1. ASSUME line' = line, NEW c \in line  PROVE conn'[c].user = conn[c].user
  BY <1>1, OwnersStay DEF LineHeld, TabOK, ScreenOK
<1> QED  BY <1>1 DEF OwnLine

LEMMA OwnLineNext ==
    ASSUME AccountTypeOK, ServerInv, ServerStep, TabOK, LineHeld, LineHeld', TabInv, OwnLine,
           [Next]_vars
    PROVE  OwnLine'
<1>1. CASE Connect
  <2>1. PICK c \in Conn : conn[c] = Closed /\ c = NewSocket
    BY <1>1 DEF Connect, Handshake, NewSocket
  <2>2. line' = {c} /\ UNCHANGED <<status, user, leaving, strayed, token>>
    BY <1>1, <2>1 DEF Connect
  <2>3. conn'[c].user = token.of
    BY <1>1, <2>1 DEF Connect, Handshake, ServerInv, ServerTypeOK
  <2> QED  BY <2>2, <2>3 DEF OwnLine, TabInv, InSession
<1>2. CASE status # "authenticated" /\ status' # "authenticated"
  BY <1>2 DEF OwnLine
<1>3. CASE RefreshSucceeds
  <2>1. strayed => strayed'
    BY <1>3, Zenon DEF RefreshSucceeds
  <2>2. \A c \in line : conn[c] # Closed => UNCHANGED <<conn, line, user, status, leaving>>
    BY <1>3 DEF RefreshSucceeds, server, serverVars
  <2> QED  BY <1>3, <2>1, <2>2 DEF OwnLine, RefreshSucceeds, server, serverVars
<1>4. ASSUME NEW lost \in BOOLEAN, RefreshFails(lost) \/ LoggedOut(lost)  PROVE OwnLine'
  BY <1>2, <1>4, OwnLineStays DEF RefreshFails, LoggedOut, SessionLost, NothingRestored, screen
<1>5. ASSUME NEW u, RevokeAll(u)  PROVE OwnLine'
  BY <1>2, <1>5, OwnLineStays DEF RevokeAll, SessionLost, screen
<1>6. ASSUME NEW w \in Requests, CallSucceeds(w)  PROVE OwnLine'
  <2>1. CASE RevokeAll(call[w].token.of)
    BY <1>5, <2>1
  <2>2. CASE UNCHANGED <<serverVars, screen, token, flight, cookie, strayed>>
    BY <1>2, <2>2, OwnLineStays DEF screen
  <2>3. CASE SessionBegins(call[w].token.of) /\ strayed' = (strayed \/ status # "loading")
    <3>1. status # "loading" => strayed'
      BY <2>3, Zenon
    <3> QED  BY <2>3, <3>1, OwnLineStays DEF SessionBegins
  <2> QED  BY <1>6, <2>1, <2>2, <2>3 DEF CallSucceeds
<1>7. ASSUME NEW w \in Requests, CallRefused(w) \/ CallLost(w)  PROVE OwnLine'
  BY <1>2, <1>7, OwnLineStays DEF CallRefused, CallLost, SessionLost, NothingRestored, screen
<1>8. CASE LoginSucceeds
  <2>1. CASE status = "authenticated" /\ user = signing.of
    <3>1. strayed' = strayed
      BY <1>8, <2>1, Zenon DEF LoginSucceeds, TabOK, ScreenOK
    <3> QED  BY <1>8, <2>1, <3>1, OwnLineStays DEF LoginSucceeds, SessionBegins
  <2>2. CASE ~(status = "authenticated" /\ user = signing.of)
    <3>1. line' = {}
      BY <1>8, <2>2 DEF LoginSucceeds, SessionBegins
    <3> QED  BY <3>1 DEF OwnLine
  <2> QED  BY <2>1, <2>2
<1>14. CASE LoginRefused
  BY <1>14 DEF LoginRefused, SessionLost, OwnLine
<1>15. CASE SendLogin \/ ServeLogin \/ LoginFails
  BY <1>2, <1>15, SigningSteps, OwnLineStays DEF SigningOnly, screen
<1>9. CASE Logout
  BY <1>9, OwnLineStays DEF Logout
<1>10. CASE ServeRefresh \/ TimerFires \/ TokenExpires \/ SendCall \/ ConnectRefused \/ Disconnect
            \/ ConnectElsewhere \/ UNCHANGED vars
  BY <1>2, <1>10, OwnLineStays DEF ServeRefresh, TimerFires, TokenExpires, SendCall,
                                  ConnectRefused, Disconnect, ConnectElsewhere, vars, screen, tabVars
<1>11. ASSUME NEW c \in Conn, JoinRooms(c) \/ ServerDisconnect(c)  PROVE OwnLine'
  BY <1>2, <1>11, OwnLineStays DEF JoinRooms, ServerDisconnect, tabVars
<1>12. ASSUME NEW k \in Clerk, Administer(k) \/ RevocationFails(k)  PROVE OwnLine'
  BY <1>2, <1>12, OwnLineStays DEF Administer, RevocationFails, tabVars
<1>13. ASSUME NEW k \in Clerk, Revocation(k)  PROVE OwnLine'
  BY <1>5, <1>13 DEF Revocation
<1> QED  BY <1>1, <1>3, <1>4, <1>6, <1>7, <1>8, <1>9, <1>10, <1>11, <1>12, <1>13, <1>14, <1>15 DEF Next

\* A session that ends on the screen, unasked and in its own right, has a cause.
Cause ==
    \/ leaving \/ strayed
    \/ cookie = NoOne \/ cookie' = NoOne \/ ~users[user].active
    \/ started' > started
    \/ call["page"] # NoCall /\ call["page"].kind = "mistyped"
    \/ SignInRefused
    \/ flight # NoFlight /\ flight.old
    \/ \E w \in Requests : call[w].pc = "retry" /\ call[w].token.of # user

LEMMA AdmitGrows == ASSUME AccountTypeOK, Admit PROVE started' > started
BY RequestBoundAssumption DEF AccountTypeOK, Admit

LEMMA EndHasCause ==
    ASSUME AccountTypeOK, ServerInv, TabOK, LineHeld, TabInv, Renewed, OwnLine, [Next]_vars,
           status = "authenticated", status' = "anonymous"
    PROVE  Cause
<1> SUFFICES ASSUME ~leaving, ~strayed  PROVE Cause
  BY DEF Cause
<1>1. user \in Known /\ cookie \in {user, NoOne}
  BY DEF TabInv, InSession, Renewed
<1>2. ASSUME NEW lost \in BOOLEAN, RefreshFails(lost)  PROVE Cause
  <2>1. CASE lost
    BY <1>2, <2>1, AdmitGrows DEF RefreshFails, Lost, Cause
  <2>2. CASE ~lost
    BY <1>2, <2>2 DEF RefreshFails, Cause
  <2> QED  BY <2>1, <2>2
<1>3. ASSUME NEW u, u \in User, RevokeAll(u), cookie' = IF cookie = u THEN NoOne ELSE cookie
      PROVE  Cause
  <2>1. line \cap Revoked(u) # {}
    BY <1>3 DEF RevokeAll, screen
  <2>2. u = user
    BY <2>1 DEF OwnLine, Revoked, SocketsOf
  <2> QED  BY <1>1, <1>3, <2>2 DEF Cause
<1>4. ASSUME NEW w \in Requests, CallSucceeds(w)  PROVE Cause
  BY <1>4 DEF CallSucceeds, SessionBegins, screen, Cause
<1>5. ASSUME NEW w \in Requests, CallRefused(w)  PROVE Cause
  <2>1. call[w].pc = "retry"
    BY <1>5 DEF CallRefused, FirstRefusal, screen
  <2>2. CASE call[w].kind = "mistyped"
    BY <2>1, <2>2, NothingTyped DEF Renewed, Requests, NoCall, Cause
  <2>3. CASE ~Accepted(call[w].token)
    BY <1>1, <2>1, <2>3 DEF Accepted, Renewed, Cause
  <2> QED  BY <1>5, <2>2, <2>3 DEF CallRefused
<1>6. ASSUME NEW w \in Requests, CallLost(w)  PROVE Cause
  BY <1>6, AdmitGrows DEF CallLost, Cause
<1>7. ASSUME NEW k \in Clerk, Revocation(k)  PROVE Cause
  <2>1. edit[k].target \in User
    BY <1>7, EditHolds DEF Revocation, FinishRevoke, AccountTypeOK
  <2> QED  BY <1>3, <1>7, <2>1 DEF Revocation
<1>8. CASE \/ ServeRefresh \/ RefreshSucceeds \/ TimerFires \/ TokenExpires \/ SendCall
           \/ Connect \/ ConnectRefused \/ Disconnect \/ ConnectElsewhere \/ Logout
           \/ \E lost \in BOOLEAN : LoggedOut(lost)
           \/ \E c \in Conn : JoinRooms(c) \/ ServerDisconnect(c)
           \/ \E k \in Clerk : Administer(k) \/ RevocationFails(k)
           \/ UNCHANGED vars
  BY <1>8 DEF ServeRefresh, RefreshSucceeds, TimerFires, TokenExpires, SendCall, Connect,
              ConnectRefused, Disconnect, ConnectElsewhere, Logout, LoggedOut,
              JoinRooms, ServerDisconnect, Administer, RevocationFails, vars, screen, tabVars
<1>9. CASE LoginSucceeds
  BY <1>9 DEF LoginSucceeds, SessionBegins
<1>10. CASE LoginRefused
  <2>1. SignInRefused
    BY <1>10 DEF LoginRefused, SignInRefused, NoSigning
  <2> QED  BY <2>1 DEF Cause
<1>11. CASE SendLogin \/ ServeLogin \/ LoginFails
  BY <1>11, SigningSteps DEF SigningOnly, screen
<1> QED  BY <1>2, <1>4, <1>5, <1>6, <1>7, <1>8, <1>9, <1>10, <1>11 DEF Next

\* Nobody is signed out by a token that merely expired: the browser's session is
\* over, or its account was switched off, or the network failed, or a wrong
\* current password was sent, or a sign-in sent before the session was there was
\* refused, or the answer was meant for an earlier session.
THEOREM SignOutCorrect == Spec => SignedOutForCause
<1> DEFINE Inv == TabOK /\ LineHeld /\ TabInv /\ Renewed /\ OwnLine /\ SigningInv
<1>1. Init => Inv
  BY TabInitial, TabInvInit, RenewedInit
<1>2. AccountTypeOK /\ ServerInv /\ Inv /\ [Next]_vars => Inv'
  <2> SUFFICES ASSUME AccountTypeOK, ServerInv, Inv, [Next]_vars  PROVE Inv'
    OBVIOUS
  <2>1. ServerStep /\ AccountNext
    BY NextIsServerStep
  <2>2. TabOK' /\ LineHeld' /\ TabInv' /\ Renewed' /\ SigningInv'
    BY <2>1, TabNext, LineNext, FaithfulNext, RenewedNext, SigningNext
  <2> QED  BY <2>1, <2>2, OwnLineNext
<1>3. AccountTypeOK /\ ServerInv /\ Inv /\ [Next]_vars
        => [status = "authenticated" /\ status' = "anonymous" => Cause]_vars
  BY EndHasCause
<1> QED  BY <1>1, <1>2, <1>3, ServerHolds, PTL DEF Spec, SignedOutForCause, Cause
=============================================================================
