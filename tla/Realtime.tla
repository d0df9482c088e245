------------------------------ MODULE Realtime ------------------------------
(***************************************************************************)
(* The socket server of one API process: the handshake, the user and role  *)
(* rooms and the presence registry (server/src/realtime), with the account *)
(* administration that closes sockets.  A socket keeps the account and the *)
(* role its handshake read; the handshake reads them before the socket is  *)
(* in any room.                                                            *)
(*                                                                         *)
(* The steps are composed with those of a browser tab in Connection.       *)
(***************************************************************************)
EXTENDS Accounts

CONSTANTS Conn   \* server-side sockets

VARIABLES
    conn,       \* conn[c]: the socket, its data and the presence it was shown
    online,     \* the presence registry: the sockets of each user it lists
    overtaken,  \* history: sockets whose account was written during the handshake
    crossed,    \* history: accounts written over a row the request had not read
    unrevoked   \* history: accounts whose revocation failed after the write

serverVars == <<conn, online, overtaken, crossed, unrevoked>>

Closed == [pc |-> "closed"]

Joined == {c \in Conn : conn[c].pc = "joined"}
SocketsOf(u) == {c \in Joined : conn[c].user = u}

\* What verifyAccessToken and the look-up of the handshake, and of every
\* request, let through.
Accepted(token) == /\ token.fresh
                   /\ token.of \in Known /\ users[token.of].active

-----------------------------------------------------------------------------
(* Presence *)

\* Mutant: a user goes offline with the first socket.
FirstSocketGone(reg, cs) == [u \in {v \in DOMAIN reg : reg[v] \cap cs = {}} |-> reg[u]]

\* trackDisconnection: a user goes offline with the last socket.
Disconnected(reg, cs) == [u \in {v \in DOMAIN reg : reg[v] \ cs # {}} |-> reg[u] \ cs]

\* trackConnection
Connected(reg, u, c) ==
    [v \in DOMAIN reg \cup {u} |-> (IF v \in DOMAIN reg THEN reg[v] ELSE {})
                                   \cup (IF v = u THEN {c} ELSE {})]

\* emitPresence to the room of the administrators, who are those whose
\* handshake said so.
Shown(cn, reg) ==
    [c \in Conn |-> IF cn[c].pc = "joined" /\ cn[c].role = "ADMIN"
                    THEN [cn[c] EXCEPT !.tile = DOMAIN reg] ELSE cn[c]]

\* Only a change of who is online is sent.
Announce(cn, reg) == IF DOMAIN reg # DOMAIN online THEN Shown(cn, reg) ELSE cn

-----------------------------------------------------------------------------

\* A socket is a new object for every connection: which of the free ones does
\* not matter.
NewSocket == CHOOSE c \in Conn : conn[c] = Closed

\* server.use: the account is read; nothing lists the socket yet.
Handshake(u) ==
    /\ \E c \in Conn : conn[c] = Closed
    /\ conn' = [conn EXCEPT ![NewSocket] = [pc |-> "read", user |-> u, role |-> users[u].role]]
    /\ UNCHANGED <<online, overtaken, crossed, unrevoked>>

\* on connection: rooms, registry, and the snapshot for a further socket of an
\* administrator.
Join(c) ==
    LET s == conn[c]
        reg == Connected(online, s.user, c)
        cn == [conn EXCEPT ![c] = [pc |-> "joined", user |-> s.user, role |-> s.role,
                                   tile |-> IF s.role = "ADMIN" THEN DOMAIN reg ELSE {}]]
    IN  /\ s.pc = "read"
        /\ online' = reg
        /\ conn' = Announce(cn, reg)
        /\ UNCHANGED <<overtaken, crossed, unrevoked>>

\* The server gives up these sockets; one still in its handshake was in no room
\* and in no registry.
Leave(cs) ==
    LET reg == Disconnected(online, cs)
    IN  /\ online' = reg
        /\ conn' = Announce([c \in Conn |-> IF c \in cs THEN Closed ELSE conn[c]], reg)
        /\ overtaken' = overtaken \ cs
        /\ UNCHANGED <<crossed, unrevoked>>

\* The row is written: history only.
NoteWrite(q) ==
    /\ overtaken' = overtaken \cup {c \in Conn : conn[c].pc = "read" /\ conn[c].user = q.target}
    /\ crossed' = IF q.seen # users[q.target] THEN crossed \cup {q.target} ELSE crossed
    /\ UNCHANGED <<conn, online, unrevoked>>

\* The refresh rows cannot be updated, and the sockets are not reached: history only.
NoteFailure(u) ==
    /\ unrevoked' = unrevoked \cup {u}
    /\ UNCHANGED <<conn, online, overtaken, crossed>>

\* Mutant: the process forgets to close sockets when the role changed.
ClosedByDeactivation(u) == IF users[u].active THEN {} ELSE SocketsOf(u)

\* revokeUserSockets: whatever is in the room of the user.
Revoked(u) == SocketsOf(u)

ServerInit ==
    /\ conn = [c \in Conn |-> Closed]
    /\ online = [u \in {} |-> {}]
    /\ overtaken = {} /\ crossed = {} /\ unrevoked = {}

ServerTypeOK ==
    /\ conn \in [Conn -> {Closed} \cup [pc : {"read"}, user : User, role : Role]
                         \cup [pc : {"joined"}, user : User, role : Role, tile : SUBSET User]]
    /\ DOMAIN online \subseteq User /\ \A u \in DOMAIN online : online[u] \subseteq Conn
    /\ overtaken \subseteq Conn /\ crossed \subseteq User /\ unrevoked \subseteq User

-----------------------------------------------------------------------------
(* Properties *)

\* The tile "online right now": the registry lists a user exactly while a socket
\* of theirs is in a room, and every administrator's socket was shown who is
\* online now, through any interleaving of several sockets per user coming,
\* going and being closed together.
PresenceIsCurrent ==
    /\ \A u \in User : u \in DOMAIN online <=> SocketsOf(u) # {}
    /\ \A u \in DOMAIN online : online[u] = SocketsOf(u)
    /\ \A c \in Joined : conn[c].role = "ADMIN" => conn[c].tile = DOMAIN online

\* A connection does not outlive what it was opened with: the account of an open
\* socket is active and has the role the socket was given, or its sockets are
\* about to be closed.  The three exceptions are the ones the code has: the account
\* was written between the handshake's read and the rooms, two updates of one
\* account overlapped, and the revocation failed after the account was written.
ConnectionIsCurrent ==
    \A c \in Joined :
        \/ c \in overtaken \/ conn[c].user \in crossed \/ conn[c].user \in unrevoked
        \/ \E k \in Clerk : edit[k].pc = "revoke" /\ edit[k].target = conn[c].user
        \/ users[conn[c].user] = [role |-> conn[c].role, active |-> TRUE]
=============================================================================
