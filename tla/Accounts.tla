------------------------------ MODULE Accounts ------------------------------
(***************************************************************************)
(* User administration: server/src/modules/users/users.service.ts, and the *)
(* self-registration of auth.service.ts, over the users table.  An account *)
(* is named by its email address, which is unique; accounts are switched   *)
(* off, never deleted.  Each request authenticates, reads, decides and     *)
(* writes in database calls of its own, and several run at once.           *)
(*                                                                         *)
(* This module has no specification of its own: Portfolio and Connection   *)
(* compose its steps with theirs.                                          *)
(***************************************************************************)
EXTENDS Access, FiniteSets, Naturals

CONSTANTS Seeded,        \* Seeded[u]: role of an account that exists from the start
          Clerk,         \* concurrent account requests
          AccountPatch,  \* the bodies of PATCH /users/:id
          MaxRequests    \* bound: requests started in a behaviour

ASSUME SeedAssumption ==
    /\ DOMAIN Seeded \subseteq User /\ \A u \in DOMAIN Seeded : Seeded[u] \in Role
    /\ \E u \in DOMAIN Seeded : Seeded[u] = "ADMIN"
ASSUME AccountPatchAssumption ==
    \A patch \in AccountPatch :
        /\ DOMAIN patch \subseteq {"role", "active", "password"}
        /\ "role" \in DOMAIN patch => patch["role"] \in Role
        /\ "active" \in DOMAIN patch => patch["active"] \in BOOLEAN
ASSUME RequestBoundAssumption == MaxRequests \in Nat

VARIABLES
    users,     \* the users table: a function on the accounts that exist
    edit,      \* edit[k]: what account request k is doing
    started,   \* requests started so far, of every kind
    contested  \* history: an administrator lost the rank while another such
               \* request stood between its check and its write

accountVars == <<users, edit, contested>>

Idle == [pc |-> "idle"]

Account == [role : Role, active : BOOLEAN]
Known == DOMAIN users
ActiveAdmins == {u \in Known : users[u].active /\ users[u].role = "ADMIN"}

\* authenticateRequest: the caller as the database describes it right now.
Callers == {[id |-> u, role |-> users[u].role] : u \in {v \in Known : users[v].active}}

Admit == started < MaxRequests /\ started' = started + 1

-----------------------------------------------------------------------------
(* createUser and register: the address is looked up, the password hashed,  *)
(* the row inserted; the unique index has the last word.                    *)

LookUp(k, role) ==
    /\ edit[k] = Idle
    /\ Admit
    /\ \E u \in User \ Known :
          edit' = [edit EXCEPT ![k] = [pc |-> "create", target |-> u, role |-> role]]
    /\ UNCHANGED <<users, contested>>

\* Whoever signs up is a developer.
BeginRegister(k) == LookUp(k, "DEVELOPER")

BeginCreateUser(k) == \E p \in Callers, role \in Role : IsAdmin(p) /\ LookUp(k, role)

InsertUser(k) ==
    /\ edit[k].pc = "create"
    /\ users' = IF edit[k].target \in Known THEN users
                ELSE [u \in Known \cup {edit[k].target} |->
                         IF u = edit[k].target THEN [role |-> edit[k].role, active |-> TRUE]
                         ELSE users[u]]
    /\ edit' = [edit EXCEPT ![k] = Idle]
    /\ UNCHANGED <<started, contested>>

-----------------------------------------------------------------------------
(* updateUser *)

\* The patch would end the rank of an active administrator.
Weakens(patch) ==
    \/ "active" \in DOMAIN patch /\ ~patch["active"]
    \/ "role" \in DOMAIN patch /\ patch["role"] # "ADMIN"

\* The row is read; nobody locks himself out.  Only a patch that would weaken an
\* administrator, as the row was read, goes through the count.
BeginUpdateUser(k) ==
    /\ edit[k] = Idle
    /\ Admit
    /\ \E p \in Callers, u \in Known, patch \in AccountPatch :
        /\ IsAdmin(p)
        /\ u = p.id => ~Weakens(patch)
        /\ edit' = [edit EXCEPT ![k] =
               [pc |-> IF users[u].role = "ADMIN" /\ Weakens(patch) THEN "count" ELSE "write",
                target |-> u, seen |-> users[u], patch |-> patch]]
    /\ UNCHANGED <<users, contested>>

\* Mutant: the account itself is counted too.
AnyAdmins(u) == ActiveAdmins

OtherAdmins(u) == ActiveAdmins \ {u}

CountAdmins(k) ==
    /\ edit[k].pc = "count"
    /\ edit' = [edit EXCEPT ![k] =
           IF OtherAdmins(edit[k].target) = {} THEN Idle ELSE [edit[k] EXCEPT !.pc = "write"]]
    /\ UNCHANGED <<users, started, contested>>

Patched(row, patch) ==
    [role   |-> IF "role" \in DOMAIN patch THEN patch["role"] ELSE row.role,
     active |-> IF "active" \in DOMAIN patch THEN patch["active"] ELSE row.active]

\* Decided on the row that was read before the write, not on the row that was
\* written over.
RevokesSessions(q) ==
    \/ "role" \in DOMAIN q.patch /\ q.patch["role"] # q.seen.role
    \/ "active" \in DOMAIN q.patch /\ ~q.patch["active"] /\ q.seen.active
    \/ "password" \in DOMAIN q.patch

\* A request that has decided to weaken an account and has not written yet.
AboutToWeaken(k) == edit[k].pc = "write" /\ Weakens(edit[k].patch)

WriteUser(k) ==
    LET q == edit[k]
    IN  /\ q.pc = "write"
        /\ users' = [users EXCEPT ![q.target] = Patched(@, q.patch)]
        /\ edit' = [edit EXCEPT ![k] =
               IF RevokesSessions(q) THEN [pc |-> "revoke", target |-> q.target] ELSE Idle]
        /\ contested' = (contested \/ (Weakens(q.patch) /\ \E o \in Clerk \ {k} : AboutToWeaken(o)))
        /\ UNCHANGED started

\* revokeAllSessions, after the row is written.  What it closes belongs to the
\* modules that compose this step.
FinishRevoke(k) ==
    /\ edit[k].pc = "revoke"
    /\ edit' = [edit EXCEPT ![k] = Idle]
    /\ UNCHANGED <<users, started, contested>>

AccountInit ==
    /\ users = [u \in DOMAIN Seeded |-> [role |-> Seeded[u], active |-> TRUE]]
    /\ edit = [k \in Clerk |-> Idle]
    /\ started = 0
    /\ contested = FALSE

\* Everything but the revocation.
AccountStep(k) ==
    \/ BeginRegister(k) \/ BeginCreateUser(k) \/ InsertUser(k)
    \/ BeginUpdateUser(k) \/ CountAdmins(k) \/ WriteUser(k)

-----------------------------------------------------------------------------

EditState ==
    {Idle}
    \cup [pc : {"create"}, target : User, role : Role]
    \cup [pc : {"count", "write"}, target : User, seen : Account, patch : AccountPatch]
    \cup [pc : {"revoke"}, target : User]

AccountTypeOK ==
    /\ Known \subseteq User /\ \A u \in Known : users[u] \in Account
    /\ edit \in [Clerk -> EditState]
    /\ \A k \in Clerk : edit[k].pc \in {"count", "write", "revoke"} => edit[k].target \in Known
    /\ started \in 0 .. MaxRequests
    /\ contested \in BOOLEAN

\* Somebody can always administer the system: an active administrator remains,
\* unless two requests that end an administrator's rank overlapped between
\* check and write.  The count of updateUser, its self-guards, and promotions
\* and reactivations in between decide it.
AdminRemains == ~contested => ActiveAdmins # {}
=============================================================================
