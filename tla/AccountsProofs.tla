--------------------------- MODULE AccountsProofs ---------------------------
(***************************************************************************)
(* What the steps of Accounts keep, whatever they are composed with, for   *)
(* any number of accounts and requests: types, and the administrator who   *)
(* remains.                                                                *)
(***************************************************************************)
EXTENDS Accounts, TLAPS

AccountNext == \/ \E k \in Clerk : AccountStep(k) \/ FinishRevoke(k)
               \/ UNCHANGED accountVars /\ started' \in 0 .. MaxRequests

-----------------------------------------------------------------------------
(* Types *)

LEMMA AccountTypeInit == ASSUME AccountInit PROVE AccountTypeOK
<1>1. Known \subseteq User /\ \A u \in Known : users[u] \in Account
  BY SeedAssumption DEF AccountInit, Known, Account
<1>2. edit \in [Clerk -> EditState] /\ \A k \in Clerk : edit[k].pc = "idle"
  <2>1. Idle \in EditState /\ Idle.pc = "idle"
    BY DEF EditState, Idle
  <2> QED  BY <2>1 DEF AccountInit
<1>3. started \in 0 .. MaxRequests
  BY RequestBoundAssumption DEF AccountInit
<1>4. contested \in BOOLEAN
  BY Zenon DEF AccountInit
<1> QED  BY <1>1, <1>2, <1>3, <1>4 DEF AccountTypeOK

\* What a request can hold, by its control state.
LEMMA EditHolds ==
    ASSUME AccountTypeOK, NEW k \in Clerk
    PROVE  /\ edit[k] \in EditState
           /\ edit[k].pc = "create" =>
                 edit[k] \in [pc : {"create"}, target : User, role : Role]
           /\ edit[k].pc \in {"count", "write"} =>
                 /\ edit[k] \in [pc : {"count", "write"}, target : User, seen : Account,
                                 patch : AccountPatch]
                 /\ edit[k].target \in Known
           /\ edit[k].pc = "revoke" => edit[k].target \in Known
<1>1. edit[k] \in EditState
  BY DEF AccountTypeOK
<1> QED  BY <1>1 DEF EditState, Idle, AccountTypeOK

\* A request goes on with a typed record whose account is there.
LEMMA EditTyped ==
    ASSUME AccountTypeOK, NEW k \in Clerk, NEW q \in EditState,
           Known \subseteq Known', q.pc \in {"count", "write", "revoke"} => q.target \in Known',
           edit' = [edit EXCEPT ![k] = q]
    PROVE  /\ edit' \in [Clerk -> EditState]
           /\ \A o \in Clerk : edit'[o].pc \in {"count", "write", "revoke"} =>
                                  edit'[o].target \in Known'
BY DEF AccountTypeOK

LEMMA AdmitTyped == ASSUME AccountTypeOK, Admit PROVE started' \in 0 .. MaxRequests
BY RequestBoundAssumption DEF AccountTypeOK, Admit

LEMMA PatchedTyped ==
    ASSUME NEW row \in Account, NEW patch \in AccountPatch
    PROVE  Patched(row, patch) \in Account
BY AccountPatchAssumption DEF Patched, Account

LEMMA IdleIsEdit == Idle \in EditState /\ Idle.pc = "idle"
BY DEF Idle, EditState

LEMMA AccountTypeNext == ASSUME AccountTypeOK, AccountNext PROVE AccountTypeOK'
<1>1. ASSUME NEW k \in Clerk, BeginRegister(k) \/ BeginCreateUser(k)  PROVE AccountTypeOK'
  <2>1. PICK role \in Role : LookUp(k, role)
    BY <1>1 DEF BeginRegister, BeginCreateUser, Role
  <2>2. PICK u \in User :
           edit' = [edit EXCEPT ![k] = [pc |-> "create", target |-> u, role |-> role]]
    BY <2>1 DEF LookUp
  <2>3. [pc |-> "create", target |-> u, role |-> role] \in EditState
    BY DEF EditState
  <2>4. started' \in 0 .. MaxRequests /\ UNCHANGED <<users, contested>>
    BY <2>1, AdmitTyped DEF LookUp
  <2>5. /\ edit' \in [Clerk -> EditState]
        /\ \A o \in Clerk : edit'[o].pc \in {"count", "write", "revoke"} => edit'[o].target \in Known'
    BY <2>2, <2>3, <2>4, EditTyped DEF Known
  <2> QED  BY <2>4, <2>5 DEF AccountTypeOK, Known
<1>2. ASSUME NEW k \in Clerk, InsertUser(k)  PROVE AccountTypeOK'
  <2>1. edit[k].target \in User /\ [role |-> edit[k].role, active |-> TRUE] \in Account
    BY <1>2, EditHolds DEF InsertUser, Account
  <2>2. Known' \subseteq User /\ Known \subseteq Known' /\ \A u \in Known' : users'[u] \in Account
    BY <1>2, <2>1 DEF InsertUser, Known, AccountTypeOK
  <2>3. /\ edit' \in [Clerk -> EditState]
        /\ \A o \in Clerk : edit'[o].pc \in {"count", "write", "revoke"} => edit'[o].target \in Known'
    BY <1>2, <2>2, IdleIsEdit, EditTyped DEF InsertUser
  <2> QED  BY <1>2, <2>2, <2>3 DEF InsertUser, AccountTypeOK
<1>3. ASSUME NEW k \in Clerk, BeginUpdateUser(k)  PROVE AccountTypeOK'
  <2>1. PICK u \in Known, patch \in AccountPatch, pc \in {"count", "write"} :
           edit' = [edit EXCEPT ![k] = [pc |-> pc, target |-> u, seen |-> users[u],
                                        patch |-> patch]]
    BY <1>3 DEF BeginUpdateUser
  <2>2. [pc |-> pc, target |-> u, seen |-> users[u], patch |-> patch] \in EditState
    BY DEF EditState, AccountTypeOK
  <2>3. started' \in 0 .. MaxRequests /\ UNCHANGED <<users, contested>>
    BY <1>3, AdmitTyped DEF BeginUpdateUser
  <2>4. /\ edit' \in [Clerk -> EditState]
        /\ \A o \in Clerk : edit'[o].pc \in {"count", "write", "revoke"} => edit'[o].target \in Known'
    BY <2>1, <2>2, <2>3, EditTyped DEF Known
  <2> QED  BY <2>3, <2>4 DEF AccountTypeOK, Known
<1>4. ASSUME NEW k \in Clerk, CountAdmins(k)  PROVE AccountTypeOK'
  <2> DEFINE q == IF OtherAdmins(edit[k].target) = {} THEN Idle ELSE [edit[k] EXCEPT !.pc = "write"]
  <2>1. q \in EditState /\ (q.pc \in {"count", "write", "revoke"} => q.target \in Known)
    BY <1>4, EditHolds, IdleIsEdit DEF CountAdmins, EditState
  <2>2. UNCHANGED <<users, started, contested>> /\ edit' = [edit EXCEPT ![k] = q]
    BY <1>4 DEF CountAdmins
  <2>3. /\ edit' \in [Clerk -> EditState]
        /\ \A o \in Clerk : edit'[o].pc \in {"count", "write", "revoke"} => edit'[o].target \in Known'
    <3> HIDE DEF q
    <3> QED  BY <2>1, <2>2, EditTyped DEF Known
  <2> QED  BY <2>2, <2>3 DEF AccountTypeOK, Known
<1>5. ASSUME NEW k \in Clerk, WriteUser(k)  PROVE AccountTypeOK'
  <2> DEFINE q == edit[k]
             next == IF RevokesSessions(q) THEN [pc |-> "revoke", target |-> q.target] ELSE Idle
  <2>1. q.target \in Known /\ q.target \in User /\ q.patch \in AccountPatch
    BY <1>5, EditHolds DEF WriteUser
  <2>2. Known' = Known /\ \A u \in Known' : users'[u] \in Account
    BY <1>5, <2>1, PatchedTyped DEF WriteUser, Known, AccountTypeOK
  <2>3. next \in EditState /\ (next.pc \in {"count", "write", "revoke"} => next.target \in Known)
    BY <2>1, IdleIsEdit DEF EditState
  <2>4. edit' = [edit EXCEPT ![k] = next] /\ contested' \in BOOLEAN /\ UNCHANGED started
    BY <1>5 DEF WriteUser, AccountTypeOK
  <2>5. /\ edit' \in [Clerk -> EditState]
        /\ \A o \in Clerk : edit'[o].pc \in {"count", "write", "revoke"} => edit'[o].target \in Known'
    <3> HIDE DEF next
    <3> QED  BY <2>2, <2>3, <2>4, EditTyped
  <2> QED  BY <2>2, <2>4, <2>5 DEF AccountTypeOK
<1>6. ASSUME NEW k \in Clerk, FinishRevoke(k)  PROVE AccountTypeOK'
  BY <1>6, IdleIsEdit, EditTyped DEF FinishRevoke, AccountTypeOK, Known
<1>7. ASSUME UNCHANGED accountVars, started' \in 0 .. MaxRequests  PROVE AccountTypeOK'
  BY <1>7 DEF accountVars, AccountTypeOK, Known
<1> QED  BY <1>1, <1>2, <1>3, <1>4, <1>5, <1>6, <1>7 DEF AccountNext, AccountStep

-----------------------------------------------------------------------------
(* The administrator who remains *)

\* AdminRemains is not inductive: what decides is that a request about to end a
\* rank leaves somebody else in office, unless the write of another crosses it.
AdminLeft ==
    ~contested => /\ ActiveAdmins # {}
                  /\ \A k \in Clerk : AboutToWeaken(k) => OtherAdmins(edit[k].target) # {}

LEMMA AdminInit == ASSUME AccountInit PROVE AdminLeft
BY SeedAssumption DEF AccountInit, AdminLeft, ActiveAdmins, Known, AboutToWeaken, Idle

\* Nobody is removed, no request comes to be about to weaken.
LEMMA AdminKept ==
    ASSUME AdminLeft, ActiveAdmins \subseteq ActiveAdmins', contested' = contested,
           \A k \in Clerk : AboutToWeaken(k)' =>
               \/ AboutToWeaken(k) /\ edit'[k].target = edit[k].target
               \/ OtherAdmins(edit'[k].target) # {}
    PROVE  AdminLeft'
BY DEF AdminLeft, OtherAdmins

LEMMA AdminNext == ASSUME AccountTypeOK, AdminLeft, AccountNext PROVE AdminLeft'
<1>1. ASSUME NEW k \in Clerk, BeginRegister(k) \/ BeginCreateUser(k)  PROVE AdminLeft'
  <2>1. PICK role : LookUp(k, role)
    BY <1>1 DEF BeginRegister, BeginCreateUser
  <2> QED  BY <2>1, AdminKept DEF LookUp, AboutToWeaken, ActiveAdmins, Known, AccountTypeOK
<1>2. ASSUME NEW k \in Clerk, InsertUser(k)  PROVE AdminLeft'
  <2>1. ActiveAdmins \subseteq ActiveAdmins'
    BY <1>2 DEF InsertUser, ActiveAdmins, Known
  <2> QED  BY <1>2, <2>1, AdminKept DEF InsertUser, AboutToWeaken, Idle, AccountTypeOK
<1>3. ASSUME NEW k \in Clerk, BeginUpdateUser(k)  PROVE AdminLeft'
  <2>1. PICK p \in Callers, u \in Known, patch \in AccountPatch :
           /\ IsAdmin(p)
           /\ u = p.id => ~Weakens(patch)
           /\ edit' = [edit EXCEPT ![k] =
                  [pc |-> IF users[u].role = "ADMIN" /\ Weakens(patch) THEN "count" ELSE "write",
                   target |-> u, seen |-> users[u], patch |-> patch]]
    BY <1>3 DEF BeginUpdateUser
  <2>2. UNCHANGED <<users, contested>>
    BY <1>3 DEF BeginUpdateUser
  <2>3. p.id \in ActiveAdmins
    BY <2>1 DEF Callers, IsAdmin, ActiveAdmins
  <2>4. Weakens(patch) => OtherAdmins(u) # {}
    BY <2>1, <2>3 DEF OtherAdmins
  <2>5. ActiveAdmins' = ActiveAdmins
    BY <2>2 DEF ActiveAdmins, Known
  <2>6. \A o \in Clerk : AboutToWeaken(o)' =>
           \/ AboutToWeaken(o) /\ edit'[o].target = edit[o].target
           \/ OtherAdmins(edit'[o].target) # {}
    BY <2>1, <2>4 DEF AboutToWeaken, AccountTypeOK
  <2> QED  BY <2>2, <2>5, <2>6, AdminKept
<1>4. ASSUME NEW k \in Clerk, CountAdmins(k)  PROVE AdminLeft'
  <2>1. ActiveAdmins' = ActiveAdmins
    BY <1>4 DEF CountAdmins, ActiveAdmins, Known
  <2>2. edit[k].target = [edit[k] EXCEPT !.pc = "write"].target
    BY <1>4, EditHolds DEF CountAdmins
  <2>3. \A o \in Clerk : AboutToWeaken(o)' =>
           \/ AboutToWeaken(o) /\ edit'[o].target = edit[o].target
           \/ OtherAdmins(edit'[o].target) # {}
    BY <1>4, <2>2 DEF CountAdmins, AboutToWeaken, Idle, AccountTypeOK
  <2> QED  BY <1>4, <2>1, <2>3, AdminKept DEF CountAdmins
<1>5. ASSUME NEW k \in Clerk, WriteUser(k)  PROVE AdminLeft'
  <2> DEFINE q == edit[k]
  <2>1. q.target \in Known /\ q.pc = "write"
    BY <1>5, EditHolds DEF WriteUser
  <2>2. users' = [users EXCEPT ![q.target] = Patched(users[q.target], q.patch)]
    BY <1>5 DEF WriteUser
  <2>3. OtherAdmins(q.target) \subseteq ActiveAdmins'
    BY <2>2 DEF OtherAdmins, ActiveAdmins, Known
  <2>4. \A o \in Clerk : AboutToWeaken(o)' => o # k /\ AboutToWeaken(o) /\ edit'[o] = edit[o]
    BY <1>5 DEF WriteUser, AboutToWeaken, Idle, AccountTypeOK
  <2>5. CASE Weakens(q.patch)
    <3>1. AboutToWeaken(k)
      BY <2>1, <2>5 DEF AboutToWeaken
    <3>2. ~contested' => ~contested /\ \A o \in Clerk \ {k} : ~AboutToWeaken(o)
      BY <1>5, <2>5 DEF WriteUser
    <3> QED  BY <2>3, <2>4, <3>1, <3>2 DEF AdminLeft
  <2>6. CASE ~Weakens(q.patch)
    <3>1. ActiveAdmins \subseteq ActiveAdmins'
      <4>1. q.patch \in AccountPatch
        BY <1>5, EditHolds DEF WriteUser
      <4>2. users[q.target].active /\ users[q.target].role = "ADMIN"
              => users'[q.target].active /\ users'[q.target].role = "ADMIN"
        BY <2>1, <2>2, <2>6, <4>1, AccountPatchAssumption DEF Weakens, Patched, Known
      <4> QED  BY <2>2, <4>2 DEF ActiveAdmins, Known
    <3>2. contested' = contested
      BY <1>5, <2>6 DEF WriteUser, AccountTypeOK
    <3> QED  BY <2>4, <3>1, <3>2, AdminKept
  <2> QED  BY <2>5, <2>6
<1>6. ASSUME NEW k \in Clerk, FinishRevoke(k)  PROVE AdminLeft'
  BY <1>6, AdminKept DEF FinishRevoke, AboutToWeaken, Idle, ActiveAdmins, Known, AccountTypeOK
<1>7. ASSUME UNCHANGED accountVars  PROVE AdminLeft'
  BY <1>7 DEF accountVars, AdminLeft, AboutToWeaken, ActiveAdmins, OtherAdmins, Known
<1> QED  BY <1>1, <1>2, <1>3, <1>4, <1>5, <1>6, <1>7 DEF AccountNext, AccountStep
=============================================================================
