----------------------------- MODULE LiveProofs -----------------------------
(***************************************************************************)
(* Proofs about the tab that stays current, for any tasks, bodies, writers,*)
(* filters and tabs: its types, that what the controls offer is allowed,   *)
(* that the tray and its badge tell what the database holds, and that what *)
(* is written beside the tab is what Tasks writes.                         *)
(***************************************************************************)
EXTENDS Live, FiniteSetTheorems, TLAPS

-----------------------------------------------------------------------------
(* What the variables hold *)

NoteT == [type : NoteType, task : Task, at : Nat]
NotesT == UNION {[S -> BOOLEAN] : S \in SUBSET NoteT}
TableT == UNION {[S -> Row] : S \in SUBSET Task}

JobT == [task : Task, row : Row, by : User \cup {NoOne}, prev : User \cup {NoOne},
         gone : BOOLEAN, stage : {"activity", "changed"}, at : Nat]
UpdateT == [pc : {"update"}, actor : User, task : Task, seen : Row, patch : Patch, here : BOOLEAN]
DeletionT == [pc : {"delete"}, actor : User, task : Task, seen : Row, here : BOOLEAN]
PublicationT == [pc : {"publish"}, jobs : Seq(JobT), ids : SUBSET NoteT, here : BOOLEAN,
                 last : Seq(JobT)]
FoundT == [pc : {"found"}, rows : NotesT]
CountedT == [pc : {"counted"}, rows : NotesT, unread : Nat, at : Nat]
WriteT == {Idle} \cup UpdateT \cup DeletionT \cup PublicationT \cup FoundT \cup CountedT

ChangeT == [kind : {"changed"}, task : Task, row : Row, gone : BOOLEAN, at : Nat]
MessageT == [kind : {"activity"}, project : Project] \cup ChangeT
            \cup [kind : {"new"}, rows : NotesT] \cup [kind : {"count"}, unread : Nat, at : Nat]

RowsT == [kind : {"rows"}, rows : TableT]
TilesT == [tasks : Nat, overdue : Nat, byStatus : [Status -> Nat]]
CountsT == UNION {[S -> [open : Nat, overdue : Nat]] : S \in SUBSET Project}
CardsT == CountsT \cup TableT
DashboardT == [kind : {"dashboard"}, tiles : TilesT, cards : CardsT, due : TableT \cup Nat]
SentT == [pc : {"sent"}, page : Page, answer : {Nothing}, latest : BOOLEAN, whole : BOOLEAN]
HalfT == [pc : {"half"}, page : [kind : {"dashboard"}], answer : [kind : {"tiles"}, tiles : TilesT],
          latest : BOOLEAN, whole : BOOLEAN]
AnsweredT == [pc : {"answered"}, page : Page, answer : RowsT \cup DashboardT,
              latest : BOOLEAN, whole : BOOLEAN]
RequestT == SentT \cup HalfT \cup AnsweredT

IdT == NoteT \cup {All}
CallT == [pc : {"sent"}, kind : {"mark", "all", "refresh"}, id : IdT, here : BOOLEAN, before : NotesT]
         \cup [pc : {"marked", "refused"}, kind : {"mark"}, id : IdT, here : BOOLEAN, before : NotesT]
         \cup [pc : {"listed"}, kind : {"refresh"}, id : IdT, here : BOOLEAN, before : NotesT]
         \cup [pc : {"counted", "answered"}, kind : {"mark", "all"}, id : IdT, here : BOOLEAN,
               before : NotesT, unread : Nat, at : Nat]
         \cup [pc : {"answered"}, kind : {"refresh"}, id : {All}, here : {TRUE}, rows : NotesT,
               unread : Nat, at : Nat]
GreetingT == {NoGreeting} \cup [pc : {"due"}] \cup [pc : {"counted"}, unread : Nat, at : Nat]

\* The database.
DbInv ==
    /\ tasks \in TableT /\ IsFiniteSet(Live) /\ used \subseteq Task /\ Live \subseteq used
    /\ stamp \in Nat
    /\ notes \in NotesT /\ IsFiniteSet(DOMAIN notes)
    /\ \A n \in DOMAIN notes : n.task \in Live

\* The tab itself writes from the page of a task alone, and waits for the answer.
Here(q) == q.pc \in {"update", "delete", "publish"} /\ q.here
WriteInv ==
    /\ write \in [Writer -> WriteT]
    /\ \A w \in Writer : Here(write[w]) =>
          /\ page.kind \notin {"tray", "dashboard"}
          /\ write[w].pc = "publish" => write[w].last # << >>

WireInv == up \in BOOLEAN /\ line \in Seq(MessageT)

PageInv ==
    /\ me \in User /\ page \in Page
    /\ shown \in {Nothing} \cup RowsT \cup DashboardT
    /\ shown.kind = "dashboard" => page.kind = "dashboard"
    /\ failed \in BOOLEAN /\ timer \in BOOLEAN /\ missed \in BOOLEAN
    /\ news \in [Task -> Nat] /\ crossed \subseteq Task

\* At most one request is the latest, and it asks for the page as it is.
RequestInv ==
    /\ asked \subseteq RequestT
    /\ \A r \in asked :
          /\ r.pc = "sent" => r.latest
          /\ r.latest => r.page = page
          /\ r.pc = "answered" => (r.answer.kind = "dashboard" <=> r.page.kind = "dashboard")
    /\ \A r, s \in asked : r.latest /\ s.latest => r = s

TrayInv ==
    /\ items \in NotesT /\ unread \in Nat /\ calls \subseteq CallT /\ greeting \in GreetingT
    /\ {last, newest, silent} \subseteq Nat /\ last <= newest /\ tangled \in BOOLEAN

\* Other pages than the tray have no notifications.
QuietInv ==
    page.kind # "tray" =>
        DOMAIN notes = {} /\ trayVars = <<<< >>, 0, {}, NoGreeting, 0, 0, 0, FALSE>>

TypeInv == DbInv /\ WriteInv /\ WireInv /\ PageInv /\ RequestInv /\ TrayInv /\ QuietInv

-----------------------------------------------------------------------------
(* Sequences and tables *)

\* What is put on the line is a message, and so is what is taken from it.
LEMMA PushTyped ==
    ASSUME NEW T, NEW s \in Seq(T), NEW t \in Seq(T)
    PROVE  s \o t \in Seq(T)
OBVIOUS

LEMMA TailTyped ==
    ASSUME NEW T, NEW s \in Seq(T), s # << >>
    PROVE  Tail(s) \in Seq(T) /\ Head(s) \in T
OBVIOUS

LEMMA TableTyped ==
    ASSUME NEW f \in TableT
    PROVE  f \in [DOMAIN f -> Row] /\ DOMAIN f \subseteq Task /\ \A t \in DOMAIN f : f[t] \in Row
BY DEF TableT

LEMMA TableIntro ==
    ASSUME NEW S \in SUBSET Task, NEW f \in [S -> Row]
    PROVE  f \in TableT
BY DEF TableT

LEMMA RestrictTyped ==
    ASSUME NEW f \in TableT, NEW S \in SUBSET DOMAIN f
    PROVE  /\ Restrict(f, S) \in TableT
           /\ DOMAIN Restrict(f, S) = S
           /\ \A t \in S : Restrict(f, S)[t] = f[t]
<1>1. Restrict(f, S) \in [S -> Row] /\ S \in SUBSET Task
  BY TableTyped DEF Restrict
<1> QED  BY <1>1, TableIntro DEF Restrict

LEMMA NotesTyped ==
    ASSUME NEW f \in NotesT
    PROVE  f \in [DOMAIN f -> BOOLEAN] /\ DOMAIN f \subseteq NoteT /\ \A n \in DOMAIN f : f[n] \in BOOLEAN
BY DEF NotesT

LEMMA NotesIntro ==
    ASSUME NEW S \in SUBSET NoteT, NEW f \in [S -> BOOLEAN]
    PROVE  f \in NotesT
BY DEF NotesT

\* A list of a table is a part of it.
LEMMA ListTyped ==
    ASSUME NEW p, NEW query, NEW f \in TableT
    PROVE  /\ ListTasks(p, query, f) \in TableT
           /\ \A t : t \in DOMAIN ListTasks(p, query, f) <=>
                    t \in DOMAIN f /\ Sees(p, f[t]) /\ Matches(query, f[t])
           /\ \A t \in DOMAIN ListTasks(p, query, f) : ListTasks(p, query, f)[t] = f[t]
<1> DEFINE S == {t \in DOMAIN f : Sees(p, f[t]) /\ Matches(query, f[t])}
<1>1. S \in SUBSET DOMAIN f
  OBVIOUS
<1> HIDE DEF S
<1>2. ListTasks(p, query, f) = Restrict(f, S)
  BY DEF ListTasks, S
<1>3. QED  BY <1>1, <1>2, RestrictTyped DEF S

LEMMA GetTyped ==
    ASSUME NEW p, NEW t, NEW f \in TableT
    PROVE  /\ GetTask(p, t, f) \in TableT
           /\ \A x : x \in DOMAIN GetTask(p, t, f) <=> x \in DOMAIN f /\ x = t /\ Sees(p, f[x])
           /\ \A x \in DOMAIN GetTask(p, t, f) : GetTask(p, t, f)[x] = f[x]
<1> DEFINE all == << >>
           L == DOMAIN ListTasks(p, all, f)
           S == {t} \cap L
<1>1. \A x \in DOMAIN f : Matches(all, f[x])
  BY DEF Matches
<1>6. GetTask(p, t, f) = Restrict(f, S)
  BY DEF GetTask
<1> HIDE DEF all
<1>4. \A x : x \in L <=> x \in DOMAIN f /\ Sees(p, f[x]) /\ Matches(all, f[x])
  BY ListTyped
<1> HIDE DEF L
<1>5. \A x : x \in L <=> x \in DOMAIN f /\ Sees(p, f[x])
  BY <1>1, <1>4
<1>2. S = {x \in DOMAIN f : x = t /\ Sees(p, f[x])}
  BY <1>5
<1>3. S \in SUBSET DOMAIN f
  BY <1>2
<1> HIDE DEF S
<1> QED  BY <1>2, <1>3, <1>6, RestrictTyped

-----------------------------------------------------------------------------
(* What each group of steps leaves alone *)

LEMMA BeginFrame ==
    ASSUME NEW w \in Writer, Begin(w)
    PROVE  UNCHANGED <<database, wire, me, pageVars, trayVars>>
BY DEF Begin, BeginUpdate, BeginDelete, Unseen

LEMMA DropFrame ==
    ASSUME NEW w \in Writer, Drop(w), UNCHANGED wire, Unseen
    PROVE  UNCHANGED <<database, started, wire, me, pageVars, trayVars>>
BY DEF Drop, Unseen

LEMMA PublishFrame ==
    ASSUME NEW w \in Writer, Publish(w)
    PROVE  UNCHANGED <<database, started, up, me, pageVars, trayVars>>
BY DEF Publish, PublishActivity, PublishChanged, FindNotes, CountNotes, PushNotes, Unseen, wire

LEMMA CommitFrame ==
    ASSUME NEW w \in Writer, Commit(w)
    PROVE  UNCHANGED <<wire, me, page, shown, failed, timer, news, crossed, items, unread, calls,
                       greeting, last, newest, tangled>>
BY DEF Commit, Overlook, Vanish

LEMMA BrowseFrame ==
    ASSUME Browse
    PROVE  UNCHANGED <<database, up, me, trayVars>>
<1>1. ASSUME NEW r \in asked, Serve(r) \/ ServeTiles(r) \/ ServeCards(r) \/ Arrive(r) \/ Fail(r)
      PROVE  UNCHANGED <<database, up>>
  BY <1>1 DEF Serve, ServeTiles, ServeCards, Arrive, Fail, server, wire
<1>2. ASSUME Retry \/ TimerFires \/ ChangeFilter \/ Deliver
      PROVE  UNCHANGED <<database, up>>
  BY <1>2 DEF Retry, TimerFires, ChangeFilter, Deliver, server, wire
<1>3. ASSUME NEW w \in Writer, Reply(w)
      PROVE  UNCHANGED <<database, up>>
  BY <1>3 DEF Reply, wire
<1> QED  BY <1>1, <1>2, <1>3 DEF Browse

LEMMA NoticeFrame ==
    ASSUME Notice
    PROVE  UNCHANGED <<tasks, used, write, up, me, pageVars>>
<1>1. ASSUME Refresh \/ MarkRead \/ MarkAllRead \/ MarkElsewhere \/ Greet \/ DeliverNote
      PROVE  UNCHANGED <<tasks, used, write, up>>
  BY <1>1 DEF Refresh, MarkRead, MarkAllRead, MarkElsewhere, Greet, DeliverNote, server, database, wire
<1>2. ASSUME NEW c \in calls, ServeMark(c) \/ CountMarked(c) \/ PushCount(c) \/ ServeRefresh(c)
                              \/ CallSucceeds(c) \/ CallFails(c)
      PROVE  UNCHANGED <<tasks, used, write, up>>
  BY <1>2 DEF ServeMark, CountMarked, PushCount, ServeRefresh, CallSucceeds, CallFails, server,
              database, wire
<1> QED  BY <1>1, <1>2 DEF Notice

-----------------------------------------------------------------------------
(* Types: the database *)

LEMMA RowShape ==
    ASSUME NEW row \in Row
    PROVE  /\ DOMAIN row = {"project", "status", "assignee", "due", "overdue", "at"}
           /\ row.project \in Project /\ row.status \in Status /\ row.due \in Int \cup {NoDue}
           /\ row.assignee \in User \cup {NoOne} /\ row.overdue \in BOOLEAN /\ row.at \in Nat
BY DEF Row

\* The row a request wants is a row, and so is the one it writes.
LEMMA WantedTyped ==
    ASSUME NEW q \in UpdateT
    PROVE  /\ Wanted(q) \in Row
           /\ Wanted(q).project = q.seen.project /\ Wanted(q).at = q.seen.at
<1> DEFINE status == IF "status" \in DOMAIN q.patch THEN q.patch.status ELSE q.seen.status
           due == IF "due" \in DOMAIN q.patch THEN q.patch.due ELSE q.seen.due
           assignee == IF "assignee" \in DOMAIN q.patch THEN q.patch.assignee ELSE q.seen.assignee
           overdue == IsOverdueNow(status, due)
<1>1. q.seen \in Row /\ q.patch \in Patch
  BY DEF UpdateT
<1>2. status \in Status /\ due \in Int \cup {NoDue} /\ assignee \in User \cup {NoOne}
  BY <1>1, RowShape, PatchAssumption
<1>3. overdue \in BOOLEAN
  BY DEF IsOverdueNow
<1>4. Wanted(q) = [q.seen EXCEPT !.status = status, !.due = due, !.overdue = overdue,
                                 !.assignee = assignee]
  BY DEF Wanted
<1> HIDE DEF status, due, assignee, overdue
<1> QED  BY <1>1, <1>2, <1>3, <1>4 DEF Row

LEMMA UpdatedTyped ==
    ASSUME NEW q \in UpdateT, NEW row \in Row, stamp \in Nat
    PROVE  /\ Updated(q, row) \in Row /\ Updated(q, row).at = stamp + 1
           /\ \A c \in DOMAIN row \ {"at"} :
                 Updated(q, row)[c] = IF c \in Differs(q) THEN Wanted(q)[c] ELSE row[c]
<1> DEFINE new == Updated(q, row)
           Value(c) == IF c = "at" THEN stamp + 1
                       ELSE IF c \in Differs(q) THEN Wanted(q)[c] ELSE row[c]
<1>1. new = [c \in DOMAIN row |-> Value(c)]
  BY DEF Updated
<1>2. Wanted(q) \in Row
  BY WantedTyped
<1>3. DOMAIN row = {"project", "status", "assignee", "due", "overdue", "at"}
  BY RowShape
<1>4. /\ new["project"] = Value("project") /\ new["status"] = Value("status")
      /\ new["assignee"] = Value("assignee") /\ new["due"] = Value("due")
      /\ new["overdue"] = Value("overdue") /\ new["at"] = stamp + 1
  BY <1>1, <1>3
<1>5. /\ Value("project") \in Project /\ Value("status") \in Status
      /\ Value("assignee") \in User \cup {NoOne} /\ Value("due") \in Int \cup {NoDue}
      /\ Value("overdue") \in BOOLEAN
  BY <1>2, RowShape
<1>6. \A c \in DOMAIN row \ {"at"} : new[c] = IF c \in Differs(q) THEN Wanted(q)[c] ELSE row[c]
  BY <1>1
<1>7. new = [c \in {"project", "status", "assignee", "due", "overdue", "at"} |-> new[c]]
  BY <1>1, <1>3
<1> HIDE DEF new, Value
<1>8. new \in Row
  BY <1>4, <1>5, <1>7 DEF Row
<1> QED  BY <1>4, <1>6, <1>8 DEF new

LEMMA NotifiedTyped ==
    ASSUME NEW type \in NoteType, NEW t \in Task, NEW u, NEW v, stamp \in Nat
    PROVE  /\ Notified(type, t, u, v) \in SUBSET NoteT /\ IsFiniteSet(Notified(type, t, u, v))
           /\ \A n \in Notified(type, t, u, v) :
                 n.task = t /\ n.at = stamp + 1 /\ page.kind = "tray"
<1>1. NoteId(type, t) \in NoteT /\ NoteId(type, t).task = t /\ NoteId(type, t).at = stamp + 1
  BY DEF NoteId, NoteT
<1> QED  BY <1>1, FS_Singleton, FS_EmptySet DEF Notified

LEMMA UpdateNotesTyped ==
    ASSUME NEW q \in UpdateT, stamp \in Nat
    PROVE  /\ UpdateNotes(q) \in SUBSET NoteT /\ IsFiniteSet(UpdateNotes(q))
           /\ \A n \in UpdateNotes(q) : n.task = q.task /\ n.at = stamp + 1 /\ page.kind = "tray"
<1> DEFINE A == IF "status" \in Differs(q) /\ Wanted(q).status = "IN_REVIEW"
                THEN Notified("TASK_IN_REVIEW", q.task, Manager[q.seen.project], q.actor) ELSE {}
           B == IF "status" \in Differs(q) /\ Wanted(q).status = "DONE"
                THEN Notified("TASK_COMPLETED", q.task, q.seen.assignee, q.actor) ELSE {}
           C == IF "assignee" \in Differs(q)
                THEN Notified("TASK_ASSIGNED", q.task, Wanted(q).assignee, q.actor) ELSE {}
<1>1. q.task \in Task
  BY DEF UpdateT
<1>2. IsFiniteSet(A) /\ A \in SUBSET NoteT
      /\ \A n \in A : n.task = q.task /\ n.at = stamp + 1 /\ page.kind = "tray"
  BY <1>1, NotifiedTyped, FS_EmptySet DEF NoteType
<1>3. IsFiniteSet(B) /\ B \in SUBSET NoteT
      /\ \A n \in B : n.task = q.task /\ n.at = stamp + 1 /\ page.kind = "tray"
  BY <1>1, NotifiedTyped, FS_EmptySet DEF NoteType
<1>4. IsFiniteSet(C) /\ C \in SUBSET NoteT
      /\ \A n \in C : n.task = q.task /\ n.at = stamp + 1 /\ page.kind = "tray"
  BY <1>1, NotifiedTyped, FS_EmptySet DEF NoteType
<1>5. UpdateNotes(q) = (A \cup B) \cup C
  BY DEF UpdateNotes
<1> HIDE DEF A, B, C
<1>6. IsFiniteSet(A \cup B)
  BY <1>2, <1>3, FS_Union
<1>7. IsFiniteSet((A \cup B) \cup C)
  BY <1>4, <1>6, FS_Union
<1> QED  BY <1>2, <1>3, <1>4, <1>5, <1>7

LEMMA InsertedTyped ==
    ASSUME notes \in NotesT, IsFiniteSet(DOMAIN notes), NEW ids \in SUBSET NoteT, IsFiniteSet(ids)
    PROVE  /\ Inserted(ids) \in NotesT /\ IsFiniteSet(DOMAIN Inserted(ids))
           /\ DOMAIN Inserted(ids) = DOMAIN notes \cup ids
           /\ \A n \in DOMAIN Inserted(ids) :
                 Inserted(ids)[n] = IF n \in ids THEN FALSE ELSE notes[n]
<1>1. Inserted(ids) \in [DOMAIN notes \cup ids -> BOOLEAN] /\ DOMAIN notes \cup ids \in SUBSET NoteT
  BY NotesTyped DEF Inserted
<1>2. IsFiniteSet(DOMAIN notes \cup ids)
  BY FS_Union
<1> QED  BY <1>1, <1>2, NotesIntro DEF Inserted

\* The notifications of a sweep, one for each late task of the user.
SweepNotes(due) == UNION {Notified("TASK_OVERDUE", t, tasks[t].assignee, NoOne) : t \in due}

LEMMA SweepNotesTyped ==
    ASSUME NEW due \in SUBSET Task, IsFiniteSet(due), stamp \in Nat
    PROVE  /\ SweepNotes(due) \in SUBSET NoteT /\ IsFiniteSet(SweepNotes(due))
           /\ \A n \in SweepNotes(due) : n.task \in due /\ n.at = stamp + 1 /\ page.kind = "tray"
<1> DEFINE N(t) == Notified("TASK_OVERDUE", t, tasks[t].assignee, NoOne)
           f == [t \in due |-> NoteId("TASK_OVERDUE", t)]
<1>1. \A t \in due : /\ N(t) \in SUBSET NoteT
                     /\ \A n \in N(t) : n.task = t /\ n.at = stamp + 1 /\ page.kind = "tray"
  BY NotifiedTyped DEF NoteType
<1>2. IsFiniteSet({f[t] : t \in due})
  <2>1. f \in Surjection(due, {f[t] : t \in due})
    BY DEF Surjection
  <2> QED  BY <2>1, FS_Surjection
<1>3. SweepNotes(due) \subseteq {f[t] : t \in due}
  BY DEF SweepNotes, Notified
<1>4. IsFiniteSet(SweepNotes(due))
  BY <1>2, <1>3, FS_Subset
<1>5. SweepNotes(due) = UNION {N(t) : t \in due}
  BY DEF SweepNotes
<1> HIDE DEF N
<1> QED  BY <1>1, <1>4, <1>5

LEMMA FlaggedTyped ==
    ASSUME NEW row \in Row, NEW value \in BOOLEAN, NEW n \in Nat
    PROVE  [row EXCEPT !.overdue = value, !.at = n] \in Row
BY DEF Row

LEMMA FlagTyped ==
    ASSUME tasks \in TableT, stamp \in Nat, NEW ids, NEW value \in BOOLEAN, Flag(ids, value)
    PROVE  /\ tasks' \in TableT /\ Live' = Live
           /\ \A t \in Live : tasks'[t] = IF t \in ids
                THEN [tasks[t] EXCEPT !.overdue = value, !.at = stamp + 1] ELSE tasks[t]
<1>1. \A t \in Live : tasks[t] \in Row
  BY TableTyped DEF Live
<1>2. \A t \in Live : [tasks[t] EXCEPT !.overdue = value, !.at = stamp + 1] \in Row
  <2>1. stamp + 1 \in Nat
    OBVIOUS
  <2> QED  BY <1>1, <2>1, FlaggedTyped
<1>3. tasks' \in [Live -> Row]
  BY <1>1, <1>2 DEF Flag
<1>4. Live \in SUBSET Task
  BY TableTyped DEF Live
<1> QED  BY <1>3, <1>4, TableIntro DEF Flag, Live

\* The statements of the writes, one by one.
LEMMA CreateDb ==
    ASSUME DbInv, NEW w \in Writer, Create(w)
    PROVE  DbInv'
<1>1. PICK u \in Author, t \in Task, draft \in Draft :
        LET row == [project |-> draft.project, status |-> draft.status, due |-> draft.due,
                    assignee |-> draft.assignee, at |-> stamp + 1,
                    overdue |-> IsOverdueNow(draft.status, draft.due)]
        IN  /\ Draw(t)
            /\ tasks' = [x \in Live \cup {t} |-> IF x = t THEN row ELSE tasks[x]]
            /\ notes' = Inserted(Notified("TASK_ASSIGNED", t, draft.assignee, u))
            /\ stamp' = stamp + 1
  BY DEF Create
<1> DEFINE row == [project |-> draft.project, status |-> draft.status, due |-> draft.due,
                   assignee |-> draft.assignee, at |-> stamp + 1,
                   overdue |-> IsOverdueNow(draft.status, draft.due)]
           ids == Notified("TASK_ASSIGNED", t, draft.assignee, u)
<1>2. stamp \in Nat /\ stamp' \in Nat
  BY <1>1 DEF DbInv
<1>3. row \in Row
  <2>1. IsOverdueNow(draft.status, draft.due) \in BOOLEAN
    BY DEF IsOverdueNow
  <2> QED  BY <1>2, <2>1, DraftAssumption DEF Row
<1> HIDE DEF row
<1>4. tasks' = [x \in Live \cup {t} |-> IF x = t THEN row ELSE tasks[x]]
  BY <1>1 DEF row
<1>5. /\ tasks' \in [Live \cup {t} -> Row] /\ Live \cup {t} \in SUBSET Task /\ Live' = Live \cup {t}
  BY <1>3, <1>4, TableTyped DEF DbInv, Live
<1>6. IsFiniteSet(Live \cup {t})
  BY FS_AddElement DEF DbInv
<1>7. ids \in SUBSET NoteT /\ IsFiniteSet(ids) /\ \A n \in ids : n.task = t
  BY <1>2, NotifiedTyped DEF NoteType
<1>8. /\ notes' \in NotesT /\ IsFiniteSet(DOMAIN notes') /\ DOMAIN notes' = DOMAIN notes \cup ids
  BY <1>1, <1>7, InsertedTyped DEF DbInv
<1>9. used' = used \cup {t}
  BY <1>1 DEF Draw
<1> HIDE DEF ids
<1> QED  BY <1>2, <1>5, <1>6, <1>7, <1>8, <1>9, TableIntro DEF DbInv

LEMMA UpdateDb ==
    ASSUME DbInv, WriteInv, NEW w \in Writer, CommitUpdate(w)
    PROVE  DbInv' /\ write[w] \in UpdateT
<1> DEFINE q == write[w]
           row == Updated(q, tasks[q.task])
<1>1. q \in UpdateT
  BY DEF CommitUpdate, WriteInv, WriteT, Idle, DeletionT, PublicationT, FoundT, CountedT
<1>2. /\ q.task \in Live /\ tasks' = [tasks EXCEPT ![q.task] = row]
      /\ notes' = Inserted(UpdateNotes(q)) /\ stamp' = stamp + 1 /\ used' = used
  BY DEF CommitUpdate
<1>3. stamp \in Nat /\ tasks \in [Live -> Row] /\ Live \in SUBSET Task
  BY TableTyped DEF DbInv, Live
<1> HIDE DEF q, row
<1>4. row \in Row
  BY <1>1, <1>2, <1>3, UpdatedTyped DEF row
<1>5. tasks' \in [Live -> Row] /\ Live' = Live
  BY <1>2, <1>3, <1>4 DEF Live
<1>6. notes' \in NotesT /\ IsFiniteSet(DOMAIN notes') /\ DOMAIN notes' = DOMAIN notes \cup UpdateNotes(q)
  BY <1>1, <1>2, <1>3, UpdateNotesTyped, InsertedTyped DEF DbInv
<1>7. \A n \in UpdateNotes(q) : n.task = q.task
  BY <1>1, <1>3, UpdateNotesTyped
<1>8. \A n \in DOMAIN notes' : n.task \in Live'
  BY <1>2, <1>5, <1>6, <1>7 DEF DbInv
<1>9. tasks' \in TableT /\ IsFiniteSet(Live')
  BY <1>3, <1>5, TableIntro DEF DbInv
<1> QED  BY <1>1, <1>2, <1>3, <1>5, <1>6, <1>8, <1>9 DEF DbInv, q

LEMMA DeleteDb ==
    ASSUME DbInv, WriteInv, NEW w \in Writer, CommitDelete(w)
    PROVE  DbInv' /\ write[w] \in DeletionT
<1> DEFINE q == write[w]
           kept == {n \in DOMAIN notes : n.task # q.task}
<1>1. q \in DeletionT
  BY DEF CommitDelete, WriteInv, WriteT, Idle, UpdateT, PublicationT, FoundT, CountedT
<1>2. /\ tasks' = Restrict(tasks, Live \ {q.task})
      /\ notes' = Restrict(notes, kept) /\ stamp' = stamp + 1 /\ used' = used
  BY DEF CommitDelete, RestrictDomain
<1>3. tasks' \in TableT /\ Live' = Live \ {q.task}
  BY <1>2, RestrictTyped DEF DbInv, Live
<1>4. IsFiniteSet(Live')
  BY <1>3, FS_Subset DEF DbInv
<1>5. notes' \in [kept -> BOOLEAN] /\ kept \in SUBSET NoteT
  BY <1>2, NotesTyped DEF DbInv, Restrict
<1>6. notes' \in NotesT /\ DOMAIN notes' = kept
  BY <1>5, NotesIntro
<1>7. IsFiniteSet(kept)
  BY FS_Subset DEF DbInv
<1>8. \A n \in DOMAIN notes' : n.task \in Live'
  BY <1>3, <1>6 DEF DbInv
<1>9. used' \subseteq Task /\ Live' \subseteq used' /\ stamp' \in Nat
  BY <1>2, <1>3 DEF DbInv
<1> HIDE DEF kept
<1> QED  BY <1>1, <1>3, <1>4, <1>6, <1>7, <1>8, <1>9 DEF DbInv

LEMMA SweepDb ==
    ASSUME DbInv, (\E w \in Writer : SweepClaim(w)) \/ SweepClear
    PROVE  DbInv'
<1> DEFINE due == {t \in Live : Due(tasks[t])}
<1>1. due \in SUBSET Task /\ IsFiniteSet(due) /\ stamp \in Nat
  BY FS_Subset DEF DbInv
<1>2. CASE SweepClear
  <2>1. tasks' \in TableT /\ Live' = Live
    BY <1>2, FlagTyped DEF DbInv, SweepClear
  <2> QED  BY <1>2, <2>1 DEF DbInv, SweepClear
<1>3. CASE \E w \in Writer : SweepClaim(w)
  <2>1. tasks' \in TableT /\ Live' = Live
    BY <1>3, FlagTyped DEF DbInv, SweepClaim
  <2>2. notes' = Inserted(SweepNotes(due)) /\ stamp' = stamp + 1 /\ used' = used
    BY <1>3 DEF SweepClaim, SweepNotes
  <2> HIDE DEF due
  <2>3. /\ SweepNotes(due) \in SUBSET NoteT /\ IsFiniteSet(SweepNotes(due))
        /\ \A n \in SweepNotes(due) : n.task \in due
    BY <1>1, SweepNotesTyped
  <2>4. notes' \in NotesT /\ IsFiniteSet(DOMAIN notes') /\ DOMAIN notes' = DOMAIN notes \cup SweepNotes(due)
    BY <2>2, <2>3, InsertedTyped DEF DbInv
  <2>5. \A n \in DOMAIN notes' : n.task \in Live'
    BY <2>1, <2>3, <2>4 DEF DbInv, due
  <2>6. stamp' \in Nat
    BY <1>1, <2>2
  <2> QED  BY <2>1, <2>2, <2>4, <2>5, <2>6 DEF DbInv
<1> QED  BY <1>2, <1>3

LEMMA MarkDb ==
    ASSUME DbInv, NEW c \in calls, ServeMark(c)
    PROVE  DbInv'
<1>1. tasks' = tasks /\ used' = used
  BY DEF ServeMark
<1>2. CASE UNCHANGED <<notes, stamp>>
  BY <1>1, <1>2 DEF DbInv, Live
<1>3. CASE notes' = [n \in DOMAIN notes |-> notes[n] \/ c.kind = "all" \/ n = c.id]
           /\ stamp' = IF notes' = notes THEN stamp ELSE stamp + 1
  <2>1. notes' \in [DOMAIN notes -> BOOLEAN] /\ DOMAIN notes' = DOMAIN notes
    BY <1>3
  <2>2. notes' \in NotesT
    BY <2>1, NotesTyped, NotesIntro DEF DbInv
  <2> QED  BY <1>1, <1>3, <2>1, <2>2 DEF DbInv, Live
<1> QED  BY <1>2, <1>3 DEF ServeMark

LEMMA CommitDb ==
    ASSUME DbInv, WriteInv, NEW w \in Writer, Commit(w)
    PROVE  DbInv'
BY CreateDb, UpdateDb, DeleteDb, SweepDb DEF Commit

LEMMA NoticeDb ==
    ASSUME DbInv, Notice
    PROVE  DbInv'
<1>1. CASE \E c \in calls : ServeMark(c)
  BY <1>1, MarkDb
<1>2. CASE UNCHANGED database
  BY <1>2 DEF database, DbInv, Live
<1>3. ASSUME Refresh \/ MarkRead \/ MarkAllRead \/ MarkElsewhere \/ Greet \/ DeliverNote
      PROVE  UNCHANGED database
  BY <1>3 DEF Refresh, MarkRead, MarkAllRead, MarkElsewhere, Greet, DeliverNote, server
<1>4. ASSUME NEW c \in calls, CountMarked(c) \/ PushCount(c) \/ ServeRefresh(c)
                              \/ CallSucceeds(c) \/ CallFails(c)
      PROVE  UNCHANGED database
  BY <1>4 DEF CountMarked, PushCount, ServeRefresh, CallSucceeds, CallFails, server
<1> QED  BY <1>1, <1>2, <1>3, <1>4 DEF Notice

LEMMA DbStep ==
    ASSUME DbInv, WriteInv, Next
    PROVE  DbInv'
<1>1. ASSUME UNCHANGED database  PROVE DbInv'
  BY <1>1 DEF database, DbInv, Live
<1>2. ASSUME NEW w \in Writer, Begin(w) \/ Commit(w) \/ (Drop(w) /\ UNCHANGED wire /\ Unseen) \/ Publish(w)
      PROVE  DbInv'
  BY <1>1, <1>2, BeginFrame, CommitDb, DropFrame, PublishFrame
<1>3. CASE SilentSweep
  BY <1>3, SweepDb DEF SilentSweep
<1>4. CASE Browse
  BY <1>1, <1>4, BrowseFrame
<1>5. CASE Notice
  BY <1>5, NoticeDb
<1>6. CASE Disconnect \/ Reconnect
  BY <1>1, <1>6 DEF Disconnect, Reconnect, server
<1> QED  BY <1>2, <1>3, <1>4, <1>5, <1>6 DEF Next

-----------------------------------------------------------------------------
(* Types: the writes *)

LEMMA JobTyped ==
    ASSUME NEW t \in Task, NEW row \in Row, NEW u \in User \cup {NoOne},
           NEW v \in User \cup {NoOne}, NEW gone \in BOOLEAN, NEW logged, stamp \in Nat
    PROVE  /\ Job(t, row, u, v, gone, logged) \in JobT
           /\ <<Job(t, row, u, v, gone, logged)>> \in Seq(JobT)
<1>1. stamp + 1 \in Nat
  OBVIOUS
<1>2. Job(t, row, u, v, gone, logged) \in JobT
  BY <1>1 DEF Job, JobT
<1> QED  BY <1>2

LEMMA PublishingTyped ==
    ASSUME NEW jobs \in Seq(JobT), NEW ids \in SUBSET NoteT, NEW here \in BOOLEAN
    PROVE  LET q == Publishing(jobs, ids, here)
           IN  q \in PublicationT /\ q.here = here /\ q.ids = ids /\ q.last = IF here THEN jobs ELSE << >>
<1>1. << >> \in Seq(JobT)
  OBVIOUS
<1> QED  BY <1>1 DEF Publishing, PublicationT

LEMMA SettledTyped ==
    ASSUME NEW q \in PublicationT
    PROVE  /\ Settled(q) \in {q, Idle}
           /\ Settled(q) \in WriteT
           /\ q.here => Settled(q) = q
BY DEF Settled, WriteT

\* A write is replaced by another that is one.
LEMMA WritePut ==
    ASSUME WriteInv, NEW w \in Writer, NEW q \in WriteT, write' = [write EXCEPT ![w] = q],
           Here(q) => /\ page.kind \notin {"tray", "dashboard"}
                      /\ q.pc = "publish" => q.last # << >>,
           page.kind \notin {"tray", "dashboard"} => page'.kind \notin {"tray", "dashboard"}
    PROVE  WriteInv'
<1>1. write' \in [Writer -> WriteT]
  BY DEF WriteInv
<1>2. ASSUME NEW v \in Writer, Here(write'[v])
      PROVE  /\ page'.kind \notin {"tray", "dashboard"}
             /\ write'[v].pc = "publish" => write'[v].last # << >>
  <2>1. CASE v = w
    BY <1>2, <2>1 DEF WriteInv
  <2>2. CASE v # w
    BY <1>2, <2>2 DEF WriteInv
  <2> QED  BY <2>1, <2>2
<1>3. \A v \in Writer : Here(write[v])' <=> Here(write'[v])
  BY DEF Here
<1> QED  BY <1>1, <1>2, <1>3 DEF WriteInv

LEMMA WriteKinds ==
    ASSUME WriteInv, NEW w \in Writer
    PROVE  /\ write[w].pc = "update" => write[w] \in UpdateT
           /\ write[w].pc = "delete" => write[w] \in DeletionT
           /\ write[w].pc = "publish" => write[w] \in PublicationT
           /\ write[w].pc = "found" => write[w] \in FoundT
           /\ write[w].pc = "counted" => write[w] \in CountedT
           /\ write[w] = Idle <=> write[w].pc = "idle"
           /\ write[w].pc \in {"idle", "update", "delete", "publish", "found", "counted"}
BY DEF WriteInv, WriteT, Idle, UpdateT, DeletionT, PublicationT, FoundT, CountedT

LEMMA BeginWrite ==
    ASSUME TypeInv, NEW w \in Writer, Begin(w)
    PROVE  WriteInv'
<1>1. \A t \in Live : tasks[t] \in Row /\ t \in Task
  BY TableTyped DEF TypeInv, DbInv, Live
<1>2. page' = page
  BY BeginFrame DEF pageVars
<1>3. CASE BeginUpdate(w)
  <2>1. PICK u \in Author, t \in Live, patch \in Patch, here \in BOOLEAN :
          /\ here => Clicked(u, t)
          /\ write' = [write EXCEPT ![w] =
                 [pc |-> "update", actor |-> u, task |-> t, seen |-> tasks[t],
                  patch |-> patch, here |-> here]]
    BY <1>3 DEF BeginUpdate
  <2> DEFINE q == [pc |-> "update", actor |-> u, task |-> t, seen |-> tasks[t],
                   patch |-> patch, here |-> here]
  <2>2. q \in UpdateT /\ q \in WriteT /\ q.pc = "update" /\ q.here = here
    BY <1>1, AuthorAssumption DEF UpdateT, WriteT
  <2>3. Here(q) => page.kind \notin {"tray", "dashboard"}
    BY <2>1, <2>2 DEF Here, Clicked
  <2>4. write' = [write EXCEPT ![w] = q]
    BY <2>1
  <2> HIDE DEF q
  <2> QED  BY <1>2, <2>2, <2>3, <2>4, WritePut DEF TypeInv
<1>4. CASE BeginDelete(w)
  <2>1. PICK u \in Author, t \in Live, here \in BOOLEAN :
          /\ here => Clicked(u, t)
          /\ write' = [write EXCEPT ![w] =
                 [pc |-> "delete", actor |-> u, task |-> t, seen |-> tasks[t], here |-> here]]
    BY <1>4 DEF BeginDelete
  <2> DEFINE q == [pc |-> "delete", actor |-> u, task |-> t, seen |-> tasks[t], here |-> here]
  <2>2. q \in DeletionT /\ q \in WriteT /\ q.pc = "delete" /\ q.here = here
    BY <1>1, AuthorAssumption DEF DeletionT, WriteT
  <2>3. Here(q) => page.kind \notin {"tray", "dashboard"}
    BY <2>1, <2>2 DEF Here, Clicked
  <2>4. write' = [write EXCEPT ![w] = q]
    BY <2>1
  <2> HIDE DEF q
  <2> QED  BY <1>2, <2>2, <2>3, <2>4, WritePut DEF TypeInv
<1> QED  BY <1>3, <1>4 DEF Begin

\* The row of a new task.
Drafted(draft) ==
    [project |-> draft.project, status |-> draft.status, due |-> draft.due,
     assignee |-> draft.assignee, at |-> stamp + 1, overdue |-> IsOverdueNow(draft.status, draft.due)]

LEMMA DraftedTyped ==
    ASSUME NEW draft \in Draft, stamp \in Nat
    PROVE  Drafted(draft) \in Row /\ Drafted(draft).at = stamp + 1
<1>1. IsOverdueNow(draft.status, draft.due) \in BOOLEAN
  BY DEF IsOverdueNow
<1>2. stamp + 1 \in Nat
  OBVIOUS
<1> QED  BY <1>1, <1>2, DraftAssumption DEF Row, Drafted

\* What a creation does.
Creates(w, u, t, draft) ==
    LET row == Drafted(draft)
        ids == Notified("TASK_ASSIGNED", t, draft.assignee, u)
    IN  /\ tasks' = [x \in Live \cup {t} |-> IF x = t THEN row ELSE tasks[x]]
        /\ used' = used \cup {t} /\ stamp' = stamp + 1
        /\ notes' = Inserted(ids)
        /\ write[w] = Idle
        /\ write' = [write EXCEPT ![w] =
               Settled(Publishing(<<Job(t, row, u, NoOne, FALSE, TRUE)>>, ids, FALSE))]

LEMMA CreateShape ==
    ASSUME NEW w \in Writer, Create(w)
    PROVE  \E u \in Author, t \in Task \ used, draft \in Draft : Creates(w, u, t, draft)
<1>1. PICK u \in Author, t \in Task, draft \in Draft :
         LET row == Drafted(draft)
             ids == Notified("TASK_ASSIGNED", t, draft.assignee, u)
         IN  /\ Draw(t)
             /\ tasks' = [x \in Live \cup {t} |-> IF x = t THEN row ELSE tasks[x]]
             /\ notes' = Inserted(ids)
             /\ write' = [write EXCEPT ![w] =
                    Settled(Publishing(<<Job(t, row, u, NoOne, FALSE, TRUE)>>, ids, FALSE))]
  BY DEF Create, Drafted
<1>2. stamp' = stamp + 1 /\ write[w] = Idle
  BY DEF Create
<1>3. t \in Task \ used /\ used' = used \cup {t}
  BY <1>1 DEF Draw
<1>4. Creates(w, u, t, draft)
  BY <1>1, <1>2, <1>3 DEF Creates
<1> QED  BY <1>3, <1>4

LEMMA CreateWrite ==
    ASSUME TypeInv, NEW w \in Writer, Create(w), page' = page
    PROVE  WriteInv'
<1>1. PICK u \in Author, t \in Task \ used, draft \in Draft : Creates(w, u, t, draft)
  BY CreateShape
<1> DEFINE jobs == <<Job(t, Drafted(draft), u, NoOne, FALSE, TRUE)>>
           ids == Notified("TASK_ASSIGNED", t, draft.assignee, u)
           q == Publishing(jobs, ids, FALSE)
<1>2. jobs \in Seq(JobT)
  BY JobTyped, DraftedTyped, AuthorAssumption DEF TypeInv, DbInv
<1>3. ids \in SUBSET NoteT
  BY NotifiedTyped DEF TypeInv, DbInv, NoteType
<1>4. write' = [write EXCEPT ![w] = Settled(q)]
  BY <1>1 DEF Creates
<1> HIDE DEF jobs, ids
<1>5. q \in PublicationT /\ ~q.here
  BY <1>2, <1>3, PublishingTyped
<1> HIDE DEF q
<1>6. Settled(q) \in WriteT /\ ~Here(Settled(q))
  BY <1>5, SettledTyped DEF Here, Idle
<1> QED  BY <1>4, <1>6, WritePut DEF TypeInv

\* A write that was here, or any write, goes on as a publication.
LEMMA CommitWrite ==
    ASSUME TypeInv, NEW w \in Writer, CommitUpdate(w) \/ CommitDelete(w), page' = page
    PROVE  WriteInv'
<1> DEFINE q == write[w]
<1>1. CASE CommitUpdate(w)
  <2> DEFINE row == Updated(q, tasks[q.task])
             jobs == <<Job(q.task, row, q.actor, q.seen.assignee, FALSE, Logged(q))>>
             p == Publishing(jobs, UpdateNotes(q), q.here)
  <2>1. q \in UpdateT /\ q.task \in Live
    BY <1>1, UpdateDb DEF TypeInv, CommitUpdate
  <2>2. write' = [write EXCEPT ![w] = Settled(p)]
    BY <1>1 DEF CommitUpdate
  <2>3. stamp \in Nat /\ tasks[q.task] \in Row
    BY <2>1, TableTyped DEF TypeInv, DbInv, Live
  <2>4. /\ q.task \in Task /\ q.actor \in User /\ q.seen.assignee \in User \cup {NoOne}
        /\ q.here \in BOOLEAN
    BY <2>1, RowShape DEF UpdateT
  <2>5. row \in Row
    BY <2>1, <2>3, UpdatedTyped
  <2>6. UpdateNotes(q) \in SUBSET NoteT
    BY <2>1, <2>3, UpdateNotesTyped
  <2>7. Here(q) <=> q.here
    BY <2>1 DEF Here, UpdateT
  <2> HIDE DEF q, row
  <2>8. jobs \in Seq(JobT) /\ jobs # << >>
    BY <2>3, <2>4, <2>5, JobTyped
  <2> HIDE DEF jobs
  <2>9. p \in PublicationT /\ p.here = q.here /\ p.last = IF q.here THEN jobs ELSE << >>
    BY <2>4, <2>6, <2>8, PublishingTyped
  <2> HIDE DEF p
  <2>10. /\ Settled(p) \in WriteT
         /\ Here(Settled(p)) => Here(q) /\ Settled(p) = p /\ p.here
    BY <2>7, <2>9, SettledTyped DEF Here, Idle
  <2>11. Here(Settled(p)) => /\ page.kind \notin {"tray", "dashboard"}
                             /\ Settled(p).pc = "publish" => Settled(p).last # << >>
    BY <2>8, <2>9, <2>10 DEF TypeInv, WriteInv, q
  <2> QED  BY <2>2, <2>10, <2>11, WritePut DEF TypeInv
<1>2. CASE CommitDelete(w)
  <2> DEFINE jobs == <<Job(q.task, q.seen, q.actor, NoOne, TRUE, TRUE)>>
             p == Publishing(jobs, {}, q.here)
  <2>1. q \in DeletionT
    BY <1>2, DeleteDb DEF TypeInv
  <2>2. write' = [write EXCEPT ![w] = Settled(p)]
    BY <1>2 DEF CommitDelete
  <2>4. /\ q.task \in Task /\ q.actor \in User /\ q.seen \in Row /\ q.here \in BOOLEAN
    BY <2>1 DEF DeletionT
  <2>7. Here(q) <=> q.here
    BY <2>1 DEF Here, DeletionT
  <2> HIDE DEF q
  <2>8. jobs \in Seq(JobT) /\ jobs # << >>
    BY <2>4, JobTyped DEF TypeInv, DbInv
  <2> HIDE DEF jobs
  <2>9. p \in PublicationT /\ p.here = q.here /\ p.last = IF q.here THEN jobs ELSE << >>
    BY <2>4, <2>8, PublishingTyped
  <2> HIDE DEF p
  <2>10. /\ Settled(p) \in WriteT
         /\ Here(Settled(p)) => Here(q) /\ Settled(p) = p /\ p.here
    BY <2>7, <2>9, SettledTyped DEF Here, Idle
  <2>11. Here(Settled(p)) => /\ page.kind \notin {"tray", "dashboard"}
                             /\ Settled(p).pc = "publish" => Settled(p).last # << >>
    BY <2>8, <2>9, <2>10 DEF TypeInv, WriteInv, q
  <2> QED  BY <2>2, <2>10, <2>11, WritePut DEF TypeInv
<1> QED  BY <1>1, <1>2

LEMMA DropWrite ==
    ASSUME TypeInv, NEW w \in Writer, Drop(w), page' = page
    PROVE  WriteInv'
<1> DEFINE q == write[w]
           jobs == <<Job(q.task, q.seen, q.actor, NoOne, FALSE, FALSE)>>
           p == Publishing(jobs, {}, TRUE)
           answered == [p EXCEPT !.jobs = << >>]
<1>1. q \in UpdateT \cup DeletionT
  BY WriteKinds DEF Drop, TypeInv
<1>2. write' = [write EXCEPT ![w] = IF q.here /\ q.task \in Live THEN answered ELSE Idle]
  BY DEF Drop
<1>3. q.task \in Task /\ q.actor \in User /\ q.seen \in Row /\ q.here \in BOOLEAN /\ (Here(q) <=> q.here)
  BY <1>1 DEF UpdateT, DeletionT, Here
<1>4. q.here => page.kind \notin {"tray", "dashboard"}
  BY <1>3 DEF TypeInv, WriteInv
<1> HIDE DEF q
<1>5. jobs \in Seq(JobT) /\ jobs # << >>
  BY <1>3, JobTyped DEF TypeInv, DbInv
<1> HIDE DEF jobs
<1>6. p \in PublicationT /\ p.here /\ p.last = jobs
  BY <1>5, PublishingTyped
<1> HIDE DEF p
<1>7. << >> \in Seq(JobT)
  OBVIOUS
<1>8. answered \in PublicationT /\ answered.last = jobs
  BY <1>6, <1>7 DEF PublicationT
<1> HIDE DEF answered
<1>9. CASE q.here /\ q.task \in Live
  BY <1>2, <1>4, <1>5, <1>8, <1>9, WritePut DEF TypeInv, WriteT
<1>10. CASE ~(q.here /\ q.task \in Live)
  <2>1. Idle \in WriteT /\ ~Here(Idle)
    BY DEF WriteT, Here, Idle
  <2> QED  BY <1>2, <1>10, <2>1, WritePut DEF TypeInv
<1> QED  BY <1>9, <1>10

\* The order of a sweep is a sequence of jobs.
SweepJobs(due, order) ==
    [i \in 1 .. Cardinality(due) |-> Job(order[i], tasks'[order[i]], NoOne, NoOne, FALSE, TRUE)]

LEMMA SweepShape ==
    ASSUME DbInv, NEW w \in Writer, SweepClaim(w)
    PROVE  LET due == {t \in Live : Due(tasks[t])}
           IN  /\ due \in SUBSET Task /\ IsFiniteSet(due) /\ Cardinality(due) \in Nat
               /\ tasks' \in TableT /\ Live' = Live /\ stamp' = stamp + 1 /\ used' = used
               /\ \A t \in Live : tasks'[t] = IF t \in due
                     THEN [tasks[t] EXCEPT !.overdue = TRUE, !.at = stamp + 1] ELSE tasks[t]
               /\ notes' = Inserted(SweepNotes(due))
               /\ write[w] = Idle
               /\ \E order \in [1 .. Cardinality(due) -> due] :
                     write' = [write EXCEPT ![w] =
                        Settled(Publishing(SweepJobs(due, order), SweepNotes(due), FALSE))]
<1> DEFINE due == {t \in Live : Due(tasks[t])}
<1>1. due \in SUBSET Task /\ IsFiniteSet(due)
  BY FS_Subset DEF DbInv
<1>2. /\ Flag(due, TRUE) /\ stamp' = stamp + 1 /\ used' = used /\ write[w] = Idle
      /\ notes' = Inserted(SweepNotes(due))
      /\ \E order \in [1 .. Cardinality(due) -> due] :
            write' = [write EXCEPT ![w] =
               Settled(Publishing(SweepJobs(due, order), SweepNotes(due), FALSE))]
  BY DEF SweepClaim, SweepNotes, SweepJobs
<1> HIDE DEF due
<1>3. Cardinality(due) \in Nat
  BY <1>1, FS_CardinalityType
<1>4. /\ tasks' \in TableT /\ Live' = Live
      /\ \A t \in Live : tasks'[t] = IF t \in due
            THEN [tasks[t] EXCEPT !.overdue = TRUE, !.at = stamp + 1] ELSE tasks[t]
  BY <1>2, FlagTyped DEF DbInv
<1> QED  BY <1>1, <1>2, <1>3, <1>4 DEF due

LEMMA SweepJobsTyped ==
    ASSUME NEW due \in SUBSET Live, Cardinality(due) \in Nat, tasks' \in TableT, Live' = Live,
           NEW order \in [1 .. Cardinality(due) -> due], stamp \in Nat
    PROVE  /\ SweepJobs(due, order) \in Seq(JobT) /\ Len(SweepJobs(due, order)) = Cardinality(due)
           /\ \A i \in 1 .. Cardinality(due) :
                 /\ order[i] \in due
                 /\ SweepJobs(due, order)[i] = Job(order[i], tasks'[order[i]], NoOne, NoOne, FALSE, TRUE)
<1> DEFINE n == Cardinality(due)
           jobs == SweepJobs(due, order)
<1>1. \A i \in 1 .. n : order[i] \in due /\ order[i] \in Task /\ tasks'[order[i]] \in Row
  BY TableTyped DEF Live
<1>2. \A i \in 1 .. n : Job(order[i], tasks'[order[i]], NoOne, NoOne, FALSE, TRUE) \in JobT
  BY <1>1, JobTyped
<1>3. jobs \in [1 .. n -> JobT]
  BY <1>2 DEF SweepJobs
<1> HIDE DEF n
<1>4. jobs \in Seq(JobT) /\ Len(jobs) = n
  BY <1>3 DEF n
<1> QED  BY <1>1, <1>4 DEF SweepJobs, n

LEMMA SweepWrite ==
    ASSUME TypeInv, NEW w \in Writer, SweepClaim(w), page' = page
    PROVE  WriteInv'
<1> DEFINE due == {t \in Live : Due(tasks[t])}
<1>1. due \in SUBSET Live /\ due \in SUBSET Task /\ IsFiniteSet(due) /\ Cardinality(due) \in Nat
      /\ tasks' \in TableT /\ Live' = Live
  BY SweepShape DEF TypeInv
<1>2. PICK order \in [1 .. Cardinality(due) -> due] :
         write' = [write EXCEPT ![w] =
            Settled(Publishing(SweepJobs(due, order), SweepNotes(due), FALSE))]
  BY SweepShape DEF TypeInv
<1> HIDE DEF due
<1> DEFINE jobs == SweepJobs(due, order)
           ids == SweepNotes(due)
           p == Publishing(jobs, ids, FALSE)
<1>3. jobs \in Seq(JobT)
  BY <1>1, SweepJobsTyped DEF TypeInv, DbInv
<1>4. ids \in SUBSET NoteT
  BY <1>1, SweepNotesTyped DEF TypeInv, DbInv
<1> HIDE DEF jobs, ids
<1>5. p \in PublicationT /\ ~p.here
  BY <1>3, <1>4, PublishingTyped
<1>6. write' = [write EXCEPT ![w] = Settled(p)]
  BY <1>2 DEF jobs, ids
<1> HIDE DEF p
<1>7. Settled(p) \in WriteT /\ ~Here(Settled(p))
  BY <1>5, SettledTyped DEF Here, Idle
<1> QED  BY <1>6, <1>7, WritePut DEF TypeInv

\* The first job of a publication.
LEMMA PublishesShape ==
    ASSUME WriteInv, NEW w \in Writer, NEW stage, Publishes(w, stage)
    PROVE  /\ write[w] \in PublicationT /\ write[w].jobs \in Seq(JobT) /\ write[w].jobs # << >>
           /\ Job1(w) \in JobT /\ Job1(w).stage = stage
           /\ 1 \in DOMAIN write[w].jobs
<1>1. write[w] \in PublicationT /\ write[w].jobs # << >> /\ Job1(w).stage = stage
  BY WriteKinds DEF Publishes
<1>2. write[w].jobs \in Seq(JobT)
  BY <1>1 DEF PublicationT
<1> QED  BY <1>1, <1>2 DEF Job1

\* The write after the activity of its first job has been published.
Announced(q) == [q EXCEPT !.jobs[1].stage = "changed"]

LEMMA AnnouncedTyped ==
    ASSUME NEW q \in PublicationT, q.jobs # << >>
    PROVE  /\ Announced(q) \in PublicationT
           /\ Announced(q).jobs # << >> /\ Announced(q).here = q.here /\ Announced(q).last = q.last
           /\ Announced(q).ids = q.ids
           /\ DOMAIN Announced(q).jobs = DOMAIN q.jobs
           /\ \A i \in DOMAIN q.jobs : Announced(q).jobs[i] =
                 IF i = 1 THEN [q.jobs[1] EXCEPT !.stage = "changed"] ELSE q.jobs[i]
<1> DEFINE job == [q.jobs[1] EXCEPT !.stage = "changed"]
           jobs == [q.jobs EXCEPT ![1] = job]
<1>1. q.jobs \in Seq(JobT)
  BY DEF PublicationT
<1>2. q.jobs[1] \in JobT /\ 1 \in DOMAIN q.jobs
  BY <1>1
<1>3. job \in JobT
  BY <1>2 DEF JobT
<1> HIDE DEF job
<1>4. jobs \in Seq(JobT) /\ jobs # << >> /\ DOMAIN jobs = DOMAIN q.jobs
      /\ \A i \in DOMAIN q.jobs : jobs[i] = IF i = 1 THEN job ELSE q.jobs[i]
  BY <1>1, <1>2, <1>3
<1>5. Announced(q) = [q EXCEPT !.jobs = jobs]
  BY DEF Announced, job
<1> HIDE DEF jobs
<1>6. Announced(q) \in PublicationT /\ Announced(q).here = q.here /\ Announced(q).last = q.last
      /\ Announced(q).ids = q.ids /\ Announced(q).jobs = jobs
  BY <1>4, <1>5 DEF PublicationT
<1> QED  BY <1>4, <1>6 DEF job

\* The write after its first job has been published.
Shortened(q) == [q EXCEPT !.jobs = Tail(@)]

LEMMA ShortenedTyped ==
    ASSUME NEW q \in PublicationT, q.jobs # << >>
    PROVE  /\ Shortened(q) \in PublicationT
           /\ Shortened(q).jobs = Tail(q.jobs) /\ Shortened(q).here = q.here
           /\ Shortened(q).last = q.last /\ Shortened(q).ids = q.ids
<1>1. q.jobs \in Seq(JobT)
  BY DEF PublicationT
<1>2. Tail(q.jobs) \in Seq(JobT)
  BY <1>1
<1> DEFINE jobs == Tail(q.jobs)
<1>3. Shortened(q) = [q EXCEPT !.jobs = jobs]
  BY DEF Shortened
<1> HIDE DEF jobs
<1> QED  BY <1>2, <1>3 DEF PublicationT, jobs

LEMMA PublishWrite ==
    ASSUME TypeInv, NEW w \in Writer, Publish(w)
    PROVE  WriteInv'
<1> DEFINE q == write[w]
<1>1. page' = page
  BY PublishFrame DEF pageVars
<1>2. Idle \in WriteT /\ ~Here(Idle)
  BY DEF WriteT, Here, Idle
<1>3. CASE PublishActivity(w)
  <2>1. q \in PublicationT /\ q.jobs # << >>
    BY <1>3, PublishesShape DEF PublishActivity, TypeInv
  <2>2. write' = [write EXCEPT ![w] = Announced(q)]
    BY <1>3 DEF PublishActivity, Announced
  <2>3. Announced(q) \in WriteT /\ (Here(Announced(q)) => Here(q)) /\ Announced(q).last = q.last
        /\ q.pc = "publish"
    BY <2>1, AnnouncedTyped DEF WriteT, Here, PublicationT
  <2>4. Here(Announced(q)) => /\ page.kind \notin {"tray", "dashboard"}
                              /\ Announced(q).last # << >>
    BY <2>3 DEF TypeInv, WriteInv
  <2> HIDE DEF q
  <2> QED  BY <1>1, <2>2, <2>3, <2>4, WritePut DEF TypeInv
<1>4. CASE PublishChanged(w)
  <2>1. q \in PublicationT /\ q.jobs # << >>
    BY <1>4, PublishesShape DEF PublishChanged, TypeInv
  <2>2. write' = [write EXCEPT ![w] = Settled(Shortened(q))]
    BY <1>4 DEF PublishChanged, Shortened
  <2>3. Shortened(q) \in PublicationT /\ Shortened(q).here = q.here /\ Shortened(q).last = q.last
    BY <2>1, ShortenedTyped
  <2>4. /\ Settled(Shortened(q)) \in WriteT
        /\ Here(Settled(Shortened(q))) => q.here /\ Settled(Shortened(q)) = Shortened(q)
    BY <2>3, SettledTyped DEF Here, Idle
  <2>5. q.here => Here(q) /\ q.pc = "publish"
    BY <2>1 DEF Here, PublicationT
  <2>6. Here(Settled(Shortened(q))) =>
           /\ page.kind \notin {"tray", "dashboard"} /\ Settled(Shortened(q)).last # << >>
    BY <2>3, <2>4, <2>5 DEF TypeInv, WriteInv
  <2> HIDE DEF q
  <2> QED  BY <1>1, <2>2, <2>4, <2>6, WritePut DEF TypeInv
<1>5. CASE FindNotes(w)
  <2> DEFINE found == q.ids \cap DOMAIN notes
             p == IF found = {} THEN Idle ELSE [pc |-> "found", rows |-> Restrict(notes, found)]
  <2>1. notes \in NotesT
    BY DEF TypeInv, DbInv
  <2>2. found \in SUBSET NoteT /\ Restrict(notes, found) \in [found -> BOOLEAN]
    BY <2>1, NotesTyped DEF Restrict
  <2>3. Restrict(notes, found) \in NotesT
    BY <2>2, NotesIntro
  <2>4. write' = [write EXCEPT ![w] = p]
    BY <1>5 DEF FindNotes
  <2> HIDE DEF found
  <2>5. p \in WriteT /\ ~Here(p)
    BY <1>2, <2>3 DEF WriteT, FoundT, Here
  <2> HIDE DEF p
  <2> QED  BY <1>1, <2>4, <2>5, WritePut DEF TypeInv
<1>6. CASE CountNotes(w)
  <2> DEFINE p == [pc |-> "counted", rows |-> q.rows, unread |-> Unread, at |-> stamp]
  <2>1. IsFiniteSet({n \in DOMAIN notes : ~notes[n]})
    BY FS_Subset DEF TypeInv, DbInv
  <2>2. Unread \in Nat
    BY <2>1, FS_CardinalityType DEF Unread
  <2>3. q \in FoundT
    BY <1>6, WriteKinds DEF CountNotes, TypeInv
  <2>4. write' = [write EXCEPT ![w] = p]
    BY <1>6 DEF CountNotes
  <2>5. p \in WriteT /\ ~Here(p)
    BY <2>2, <2>3 DEF TypeInv, DbInv, WriteT, FoundT, CountedT, Here
  <2> HIDE DEF p
  <2> QED  BY <1>1, <2>4, <2>5, WritePut DEF TypeInv
<1>7. CASE PushNotes(w)
  <2>1. write' = [write EXCEPT ![w] = Idle]
    BY <1>7 DEF PushNotes
  <2> QED  BY <1>1, <1>2, <2>1, WritePut DEF TypeInv
<1> QED  BY <1>3, <1>4, <1>5, <1>6, <1>7 DEF Publish

\* An answer to a write is for a page that may write, and tells what was written.
LEMMA ReplyShape ==
    ASSUME TypeInv, NEW w \in Writer, Reply(w)
    PROVE  /\ write[w] \in PublicationT /\ write[w].last[1] \in JobT
           /\ page.kind \notin {"tray", "dashboard"}
           /\ write' = [write EXCEPT ![w] = Idle]
<1>1. /\ write[w] \in PublicationT /\ write[w].here
      /\ write' = [write EXCEPT ![w] = Idle]
  BY WriteKinds DEF Reply, TypeInv
<1>2. Here(write[w]) /\ write[w].pc = "publish"
  BY <1>1 DEF Here, PublicationT
<1>3. page.kind \notin {"tray", "dashboard"} /\ write[w].last # << >>
  BY <1>2 DEF TypeInv, WriteInv
<1>4. write[w].last \in Seq(JobT)
  BY <1>1 DEF PublicationT
<1> QED  BY <1>1, <1>3, <1>4

\* Pages lead to pages, and the tray and the dashboard to themselves.
Leads == page' \in Page /\ (page.kind \in {"tray", "dashboard"} \/ page'.kind \in {"tray", "dashboard"}
                            => page' = page)

LEMMA PageShape ==
    ASSUME NEW pg \in Page
    PROVE  /\ pg.kind \in {"tasks", "project", "task", "dashboard", "tray"}
           /\ pg.kind = "tasks" => \A q \in Filters \cup {<< >>} :
                 [pg EXCEPT !.query = q] \in Page /\ [pg EXCEPT !.query = q].kind = "tasks"
           /\ pg.kind = "task" => pg.task \in Task
<1>1. pg.kind = "tasks" => pg \in [kind : {"tasks"}, query : Filters \cup {<< >>}]
  BY DEF Page
<1>2. pg.kind = "task" => pg \in [kind : {"task"}, task : Task]
  BY DEF Page
<1>3. pg.kind \in {"tasks", "project", "task", "dashboard", "tray"}
  BY DEF Page
<1>4. ASSUME pg \in [kind : {"tasks"}, query : Filters \cup {<< >>}], NEW q \in Filters \cup {<< >>}
      PROVE  [pg EXCEPT !.query = q] \in Page /\ [pg EXCEPT !.query = q].kind = "tasks"
  BY <1>4 DEF Page
<1> QED  BY <1>1, <1>2, <1>3, <1>4

LEMMA PageStep ==
    ASSUME TypeInv, Next
    PROVE  Leads
<1> USE DEF TypeInv, PageInv
<1>1. ASSUME page' = page  PROVE Leads
  BY <1>1 DEF Leads
<1>2. CASE ChangeFilter
  <2>1. PICK q \in Filters : page.kind = "tasks" /\ page' = [page EXCEPT !.query = q]
    BY <1>2 DEF ChangeFilter
  <2> QED  BY <2>1, PageShape DEF Leads
<1>3. CASE Deliver
  <2>1. page' = page \/ (page.kind = "task" /\ page' = [kind |-> "tasks", query |-> << >>])
    BY <1>3 DEF Deliver, OnActivity, OnListChanged, OnTaskChanged, Navigate, pageVars
  <2>2. [kind |-> "tasks", query |-> << >>] \in Page
    BY DEF Page
  <2> QED  BY <1>1, <2>1, <2>2 DEF Leads
<1>4. ASSUME NEW w \in Writer, Reply(w)  PROVE Leads
  <2>1. write[w].last[1] \in JobT /\ page.kind \notin {"tray", "dashboard"}
    BY <1>4, ReplyShape
  <2>2. \/ page' = page
        \/ page' = [kind |-> "project", query |-> [project |-> write[w].last[1].row.project]]
    BY <1>4 DEF Reply, Navigate, pageVars
  <2>3. write[w].last[1].row.project \in Project
    BY <2>1, RowShape DEF JobT
  <2>4. [kind |-> "project", query |-> [project |-> write[w].last[1].row.project]] \in Page
    BY <2>3 DEF Page
  <2> HIDE DEF TypeInv, PageInv
  <2> QED  BY <1>1, <2>1, <2>2, <2>4 DEF Leads
<1>5. ASSUME NEW r \in asked, Serve(r) \/ ServeTiles(r) \/ ServeCards(r) \/ Arrive(r) \/ Fail(r)
      PROVE  page' = page
  BY <1>5 DEF Serve, ServeTiles, ServeCards, Arrive, Fail
<1>6. ASSUME Retry \/ TimerFires  PROVE page' = page
  BY <1>6 DEF Retry, TimerFires
<1>7. CASE Browse
  BY <1>1, <1>2, <1>3, <1>4, <1>5, <1>6, <1>7 DEF Browse
<1>8. ASSUME NEW w \in Writer, Begin(w) \/ Commit(w) \/ (Drop(w) /\ UNCHANGED wire /\ Unseen) \/ Publish(w)
      PROVE  page' = page
  BY <1>8, BeginFrame, CommitFrame, DropFrame, PublishFrame DEF pageVars
<1>9. CASE Notice
  BY <1>1, <1>9, NoticeFrame DEF pageVars
<1>10. CASE SilentSweep \/ Disconnect \/ Reconnect
  BY <1>1, <1>10 DEF SilentSweep, Disconnect, Reconnect, Overlook, pageVars
<1> QED  BY <1>1, <1>7, <1>8, <1>9, <1>10 DEF Next

LEMMA WriteStep ==
    ASSUME TypeInv, Next
    PROVE  WriteInv'
<1>1. Leads
  BY PageStep
<1>2. ASSUME UNCHANGED write  PROVE WriteInv'
  <2>1. \A v \in Writer : Here(write[v])' <=> Here(write[v])
    BY <1>2 DEF Here
  <2> QED  BY <1>1, <1>2, <2>1 DEF TypeInv, WriteInv, Leads
<1>3. ASSUME NEW w \in Writer, Begin(w) \/ Commit(w) \/ (Drop(w) /\ UNCHANGED wire /\ Unseen) \/ Publish(w)
      PROVE  WriteInv'
  <2>1. page' = page
    BY <1>3, BeginFrame, CommitFrame, DropFrame, PublishFrame DEF pageVars
  <2> QED  BY <1>3, <2>1, BeginWrite, CreateWrite, CommitWrite, SweepWrite, DropWrite, PublishWrite
           DEF Commit
<1>4. CASE SilentSweep
  BY <1>2, <1>4 DEF SilentSweep, SweepClear
<1>5. ASSUME NEW w \in Writer, Reply(w)  PROVE WriteInv'
  <2>1. page'.kind \notin {"tray", "dashboard"} /\ write' = [write EXCEPT ![w] = Idle]
    BY <1>1, <1>5, ReplyShape DEF Leads
  <2>2. Idle \in WriteT /\ ~Here(Idle)
    BY DEF WriteT, Here, Idle
  <2> QED  BY <2>1, <2>2, WritePut DEF TypeInv
<1>6. ASSUME NEW r \in asked, Serve(r) \/ ServeTiles(r) \/ ServeCards(r) \/ Arrive(r) \/ Fail(r)
      PROVE  UNCHANGED write
  BY <1>6 DEF Serve, ServeTiles, ServeCards, Arrive, Fail, server
<1>7. ASSUME Retry \/ TimerFires \/ ChangeFilter \/ Deliver
      PROVE  UNCHANGED write
  BY <1>7 DEF Retry, TimerFires, ChangeFilter, Deliver, server
<1>8. CASE Browse
  BY <1>2, <1>5, <1>6, <1>7, <1>8 DEF Browse
<1>9. CASE Notice
  BY <1>2, <1>9, NoticeFrame
<1>10. CASE Disconnect \/ Reconnect
  BY <1>2, <1>10 DEF Disconnect, Reconnect, server
<1> QED  BY <1>3, <1>4, <1>8, <1>9, <1>10 DEF Next

-----------------------------------------------------------------------------
(* Types: the line *)

LEMMA PushedTyped ==
    ASSUME WireInv, NEW msgs \in Seq(MessageT), Push(msgs), up' = up
    PROVE  WireInv'
BY PushTyped DEF WireInv, Push

LEMMA HeededTyped ==
    ASSUME NEW m \in MessageT
    PROVE  Heeded(m) \in Seq(MessageT) /\ Heeded(m) \in {<<m>>, << >>}
BY DEF Heeded

\* What a job says of its task.
LEMMA ChangeTyped ==
    ASSUME NEW job \in JobT, NEW gone \in BOOLEAN
    PROVE  Change(job, gone) \in ChangeT /\ Change(job, gone) \in MessageT
BY DEF Change, JobT, ChangeT, MessageT

LEMMA CountMessageTyped ==
    ASSUME NEW n \in Nat, NEW at \in Nat
    PROVE  CountMessage(n, at) \in MessageT /\ <<CountMessage(n, at)>> \in Seq(MessageT)
<1>1. CountMessage(n, at) \in MessageT
  BY DEF CountMessage, MessageT
<1> HIDE DEF MessageT
<1> QED  BY <1>1

\* The messages that tell of a change: to whoever sees the task, to whoever lost it.
Told(w) == (IF Addressed(Me, Job1(w).row, NoOne) /\ PrincipalCanSeeTask(Me, Job1(w).row)
            THEN Heeded(Change(Job1(w), Job1(w).gone)) ELSE << >>)
           \o ToFormerAssignee(Job1(w))

LEMMA ToldTyped ==
    ASSUME WriteInv, NEW w \in Writer, Publishes(w, "changed")
    PROVE  Told(w) \in Seq(MessageT)
<1>1. Job1(w) \in JobT
  BY PublishesShape
<1>2. Job1(w).gone \in BOOLEAN
  BY <1>1 DEF JobT
<1>3. Heeded(Change(Job1(w), Job1(w).gone)) \in Seq(MessageT)
  BY <1>1, <1>2, ChangeTyped, HeededTyped
<1>4. Heeded(Change(Job1(w), TRUE)) \in Seq(MessageT)
  BY <1>1, ChangeTyped, HeededTyped
<1> DEFINE S == Seq(MessageT)
           A == IF Addressed(Me, Job1(w).row, NoOne) /\ PrincipalCanSeeTask(Me, Job1(w).row)
                THEN Heeded(Change(Job1(w), Job1(w).gone)) ELSE << >>
           B == ToFormerAssignee(Job1(w))
<1>5. << >> \in Seq(MessageT)
  OBVIOUS
<1>6. A \in Seq(MessageT) /\ B \in Seq(MessageT)
  BY <1>3, <1>4, <1>5 DEF ToFormerAssignee
<1>7. Told(w) = A \o B
  BY DEF Told
<1> HIDE DEF A, B
<1> QED  BY <1>6, <1>7, PushTyped

LEMMA PublishWire ==
    ASSUME TypeInv, NEW w \in Writer, Publish(w)
    PROVE  WireInv'
<1> USE DEF TypeInv
<1>1. CASE PublishActivity(w)
  <2> DEFINE m == [kind |-> "activity", project |-> Job1(w).row.project]
  <2>1. Job1(w) \in JobT
    BY <1>1, PublishesShape DEF PublishActivity
  <2>2. m \in MessageT
    BY <2>1, RowShape DEF JobT, MessageT
  <2>3. Push(IF Addressed(Me, Job1(w).row, Job1(w).by) THEN Heeded(m) ELSE << >>) /\ up' = up
    BY <1>1 DEF PublishActivity
  <2> HIDE DEF m, TypeInv
  <2>4. Heeded(m) \in Seq(MessageT) /\ << >> \in Seq(MessageT)
    BY <2>2, HeededTyped
  <2> QED  BY <2>3, <2>4, PushedTyped DEF TypeInv
<1>2. CASE PublishChanged(w)
  <2>1. Push(Told(w)) /\ up' = up /\ Publishes(w, "changed")
    BY <1>2 DEF PublishChanged, Told
  <2> QED  BY <2>1, ToldTyped, PushedTyped
<1>3. CASE PushNotes(w)
  <2> DEFINE q == write[w]
             m == [kind |-> "new", rows |-> q.rows]
             c == CountMessage(q.unread, q.at)
  <2>1. q \in CountedT
    BY <1>3, WriteKinds DEF PushNotes
  <2>2. m \in MessageT /\ c \in MessageT
    BY <2>1, CountMessageTyped DEF CountedT, MessageT
  <2>3. Push(<<m, c>>) /\ up' = up
    BY <1>3 DEF PushNotes
  <2> HIDE DEF m, c, TypeInv
  <2>4. <<m, c>> \in Seq(MessageT)
    BY <2>2
  <2> QED  BY <2>3, <2>4, PushedTyped DEF TypeInv
<1>4. CASE FindNotes(w) \/ CountNotes(w)
  BY <1>4 DEF FindNotes, CountNotes, wire, WireInv
<1> QED  BY <1>1, <1>2, <1>3, <1>4 DEF Publish

\* The calls by what they are at.
LEMMA CallShape ==
    ASSUME NEW c \in CallT
    PROVE  /\ c.pc \in {"sent", "marked", "refused", "listed", "counted", "answered"}
           /\ c.kind \in {"mark", "all", "refresh"} /\ c.id \in IdT /\ c.here \in BOOLEAN
           /\ c.kind # "refresh" => c.before \in NotesT
           /\ c.pc \in {"sent", "listed"} => c.before \in NotesT
           /\ c.pc \in {"marked", "refused"} => c.kind = "mark"
           /\ c.pc = "listed" => c.kind = "refresh"
           /\ c.pc = "counted" => c.kind # "refresh"
           /\ c.pc \in {"counted", "answered"} => c.unread \in Nat /\ c.at \in Nat
           /\ c.pc = "answered" /\ c.kind = "refresh" => c.rows \in NotesT
           /\ c.kind = "refresh" /\ c.pc = "answered" => c.here
BY DEF CallT, IdT

LEMMA WireStep ==
    ASSUME TypeInv, Next
    PROVE  WireInv'
<1> USE DEF TypeInv
<1>1. ASSUME UNCHANGED wire  PROVE WireInv'
  BY <1>1 DEF wire, WireInv
<1>2. ASSUME up' = up, line # << >>, line' = Tail(line)  PROVE WireInv'
  BY <1>2, TailTyped DEF WireInv
<1>3. ASSUME NEW w \in Writer, Begin(w) \/ Commit(w) \/ (Drop(w) /\ UNCHANGED wire /\ Unseen) \/ Publish(w)
      PROVE  WireInv'
  BY <1>1, <1>3, BeginFrame, CommitFrame, PublishWire
<1>4. CASE SilentSweep
  BY <1>1, <1>4 DEF SilentSweep
<1>5. CASE Browse
  <2>1. ASSUME NEW r \in asked, Serve(r) \/ ServeTiles(r) \/ ServeCards(r) \/ Arrive(r) \/ Fail(r)
        PROVE  UNCHANGED wire
    BY <2>1 DEF Serve, ServeTiles, ServeCards, Arrive, Fail
  <2>2. ASSUME Retry \/ TimerFires \/ ChangeFilter \/ \E w \in Writer : Reply(w)
        PROVE  UNCHANGED wire
    BY <2>2 DEF Retry, TimerFires, ChangeFilter, Reply
  <2>3. CASE Deliver
    BY <1>2, <2>3 DEF Deliver
  <2> QED  BY <1>1, <1>5, <2>1, <2>2, <2>3 DEF Browse
<1>6. CASE Notice
  <2>1. ASSUME Refresh \/ MarkRead \/ MarkAllRead \/ MarkElsewhere
        PROVE  UNCHANGED wire
    BY <2>1 DEF Refresh, MarkRead, MarkAllRead, MarkElsewhere
  <2>2. ASSUME NEW c \in calls, ServeMark(c) \/ CountMarked(c) \/ ServeRefresh(c)
                                \/ CallSucceeds(c) \/ CallFails(c)
        PROVE  UNCHANGED wire
    BY <2>2 DEF ServeMark, CountMarked, ServeRefresh, CallSucceeds, CallFails
  <2>3. CASE DeliverNote
    BY <1>2, <2>3 DEF DeliverNote
  <2>4. ASSUME NEW c \in calls, PushCount(c)
        PROVE  WireInv'
    <3>1. c.unread \in Nat /\ c.at \in Nat
      BY <2>4, CallShape DEF PushCount, TrayInv
    <3>2. Push(<<CountMessage(c.unread, c.at)>>) /\ up' = up
      BY <2>4 DEF PushCount
    <3> QED  BY <3>1, <3>2, CountMessageTyped, PushedTyped
  <2>5. CASE Greet
    <3>1. CASE UNCHANGED <<up, line>>
      BY <1>1, <3>1 DEF wire
    <3>2. CASE greeting.pc = "counted" /\ Push(<<CountMessage(greeting.unread, greeting.at)>>) /\ up' = up
      <4>1. greeting.unread \in Nat /\ greeting.at \in Nat
        BY <3>2 DEF TrayInv, GreetingT, NoGreeting
      <4> QED  BY <3>2, <4>1, CountMessageTyped, PushedTyped
    <3> QED  BY <2>5, <3>1, <3>2 DEF Greet
  <2> QED  BY <1>1, <1>6, <2>1, <2>2, <2>3, <2>4, <2>5 DEF Notice
<1>7. CASE Disconnect \/ Reconnect
  <2>1. << >> \in Seq(MessageT)
    OBVIOUS
  <2> QED  BY <1>7, <2>1 DEF Disconnect, Reconnect, WireInv
<1> QED  BY <1>3, <1>4, <1>5, <1>6, <1>7 DEF Next

-----------------------------------------------------------------------------
(* Types: answers *)

LEMMA ReadingTyped ==
    ASSUME tasks \in TableT, NEW pg
    PROVE  /\ Reading(pg) \in RowsT
           /\ \A t \in DOMAIN Reading(pg).rows : t \in Live /\ Reading(pg).rows[t] = tasks[t]
           /\ pg.kind = "task" => DOMAIN Reading(pg).rows \subseteq {pg.task}
<1>1. CASE pg.kind = "task"
  <2>1. Reading(pg) = Rows(GetTask(Me, pg.task, tasks))
    BY <1>1 DEF Reading
  <2> DEFINE f == GetTask(Me, pg.task, tasks)
  <2>2. f \in TableT /\ \A t \in DOMAIN f : t \in Live /\ t = pg.task /\ f[t] = tasks[t]
    BY GetTyped DEF Live
  <2> HIDE DEF f
  <2> QED  BY <2>1, <2>2 DEF Rows, RowsT, f
<1>2. CASE pg.kind # "task"
  <2>1. Reading(pg) = Rows(ListTasks(Me, pg.query, tasks))
    BY <1>2 DEF Reading
  <2> DEFINE f == ListTasks(Me, pg.query, tasks)
  <2>2. f \in TableT /\ \A t \in DOMAIN f : t \in Live /\ f[t] = tasks[t]
    BY ListTyped DEF Live
  <2> HIDE DEF f
  <2> QED  BY <1>2, <2>1, <2>2 DEF Rows, RowsT, f
<1> QED  BY <1>1, <1>2

\* A part of a finite table has a number of rows.
LEMMA CountTyped ==
    ASSUME NEW S, IsFiniteSet(S), NEW T \in SUBSET S
    PROVE  IsFiniteSet(T) /\ Cardinality(T) \in Nat
BY FS_Subset, FS_CardinalityType

LEMMA TilesTyped ==
    ASSUME IsFiniteSet(Live)
    PROVE  Tiles(Me, tasks) \in TilesT
<1> DEFINE mine == Scoped(Me, tasks)
<1>1. mine \in SUBSET Live
  BY DEF Scoped, Live
<1>2. Late(tasks, mine) \in SUBSET Live /\ \A s \in Status : {t \in mine : tasks[t].status = s} \in SUBSET Live
  BY <1>1 DEF Late
<1>3. Cardinality(mine) \in Nat /\ Cardinality(Late(tasks, mine)) \in Nat
  BY <1>1, <1>2, CountTyped
<1>4. ByStatus(tasks, mine) \in [Status -> Nat]
  BY <1>2, CountTyped DEF ByStatus
<1> QED  BY <1>3, <1>4 DEF Tiles, TilesT

LEMMA CardsTyped ==
    ASSUME tasks \in TableT, IsFiniteSet(Live)
    PROVE  Cards(Me, tasks) \in CardsT /\ DueThisWeek(Me, tasks) \in TableT \cup Nat
<1> DEFINE In(x) == {t \in Live : tasks[t].project = x}
           mine == Scoped(Me, tasks)
<1>1. mine \in SUBSET Live /\ Open(tasks, mine) \in SUBSET Live /\ DueSoon(tasks, mine) \in SUBSET Live
      /\ Late(tasks, Live) \in SUBSET Live
  BY DEF Scoped, Live, Open, DueSoon, Late
<1>2. \A x : Open(tasks, In(x)) \in SUBSET Live /\ Late(tasks, In(x)) \in SUBSET Live
  BY DEF Open, Late
<1>3. \A x : Cardinality(Open(tasks, In(x))) \in Nat /\ Cardinality(Late(tasks, In(x))) \in Nat
  BY <1>2, CountTyped
<1>4. CASE IsManager(Me)
  <2>1. Cards(Me, tasks) = [x \in {y \in Project : Manager[y] = me} |->
             [open |-> Cardinality(Open(tasks, In(x))), overdue |-> Cardinality(Late(tasks, In(x)))]]
    BY <1>4 DEF Cards, Me, PrincipalOf, Live
  <2> DEFINE card(x) == [open |-> Cardinality(Open(tasks, In(x))),
                         overdue |-> Cardinality(Late(tasks, In(x)))]
  <2>5. \A x : card(x) \in [open : Nat, overdue : Nat]
    BY <1>3
  <2>6. Cards(Me, tasks) = [x \in {y \in Project : Manager[y] = me} |-> card(x)]
    BY <2>1
  <2> HIDE DEF card
  <2>2. Cards(Me, tasks) \in [{y \in Project : Manager[y] = me} -> [open : Nat, overdue : Nat]]
    BY <2>5, <2>6
  <2>3. DueThisWeek(Me, tasks) = Restrict(tasks, DueSoon(tasks, mine))
    BY <1>4 DEF DueThisWeek
  <2>4. DueThisWeek(Me, tasks) \in TableT
    BY <1>1, <2>3, RestrictTyped DEF Live
  <2> QED  BY <2>2, <2>4 DEF CardsT, CountsT
<1>5. CASE ~IsManager(Me)
  <2>1. Cards(Me, tasks) = Restrict(tasks, IF IsAdmin(Me) THEN Late(tasks, Live) ELSE Open(tasks, mine))
    BY <1>5 DEF Cards, Live
  <2>2. Cards(Me, tasks) \in TableT
    BY <1>1, <2>1, RestrictTyped DEF Live
  <2>3. Cardinality(DueSoon(tasks, mine)) \in Nat
    BY <1>1, CountTyped
  <2>4. DueThisWeek(Me, tasks) \in Nat
    BY <1>5, <2>3 DEF DueThisWeek
  <2> QED  BY <2>2, <2>4 DEF CardsT
<1> QED  BY <1>4, <1>5

LEMMA AnswerTyped ==
    ASSUME DbInv, NEW pg
    PROVE  /\ pg.kind # "dashboard" => Answer(pg) = Reading(pg) /\ Answer(pg) \in RowsT
           /\ pg.kind = "dashboard" => Answer(pg) \in DashboardT
           /\ Answer(pg).kind = "dashboard" <=> pg.kind = "dashboard"
<1>1. tasks \in TableT /\ IsFiniteSet(Live)
  BY DEF DbInv
<1>2. CASE pg.kind # "dashboard"
  BY <1>1, <1>2, ReadingTyped DEF Answer, RowsT
<1>3. CASE pg.kind = "dashboard"
  BY <1>1, <1>3, TilesTyped, CardsTyped DEF Answer, DashboardT
<1> QED  BY <1>2, <1>3

-----------------------------------------------------------------------------
(* Types: requests *)

LEMMA RequestTyped ==
    ASSUME NEW pg \in Page
    PROVE  Request(pg) \in SentT /\ Request(pg) \in RequestT /\ Request(pg).latest
           /\ Request(pg).page = pg /\ Request(pg).pc = "sent" /\ Request(pg).whole
           /\ Request(pg).answer = Nothing
BY DEF Request, SentT, RequestT, Nothing

\* What a request is at says what it holds.
LEMMA RequestShape ==
    ASSUME NEW r \in RequestT
    PROVE  /\ r.pc \in {"sent", "half", "answered"} /\ r.page \in Page
           /\ r.latest \in BOOLEAN /\ r.whole \in BOOLEAN
           /\ r.pc = "sent" => r \in SentT
           /\ r.pc = "half" => r \in HalfT /\ r.page.kind = "dashboard" /\ r.answer.tiles \in TilesT
           /\ r.pc = "answered" => r \in AnsweredT /\ r.answer \in RowsT \cup DashboardT
<1>1. [kind : {"dashboard"}] \subseteq Page
  BY DEF Page
<1> HIDE DEF Page
<1> QED  BY <1>1 DEF RequestT, SentT, HalfT, AnsweredT

LEMMA SupersededShape ==
    ASSUME asked \subseteq RequestT, NEW s \in Supersede(asked)
    PROVE  /\ s \in AnsweredT /\ s \in RequestT /\ s.pc = "answered" /\ ~s.latest
           /\ \E r \in asked : /\ r.pc = "answered" /\ s.page = r.page /\ s.answer = r.answer
                               /\ s.whole = r.whole
<1>1. PICK r \in asked : r.pc = "answered" /\ s = [r EXCEPT !.latest = FALSE]
  BY DEF Supersede
<1>2. r \in AnsweredT
  BY <1>1, RequestShape
<1>3. s \in AnsweredT /\ ~s.latest /\ s.page = r.page /\ s.answer = r.answer /\ s.whole = r.whole
      /\ s.pc = "answered"
  BY <1>1, <1>2 DEF AnsweredT
<1> QED  BY <1>1, <1>3 DEF RequestT

LEMMA AskTyped ==
    ASSUME RequestInv, NEW pg \in Page, Ask(pg), page' = pg
    PROVE  RequestInv'
<1>1. asked' = Supersede(asked) \cup {Request(pg)}
  BY DEF Ask
<1>2. asked' \subseteq RequestT
  BY <1>1, SupersededShape, RequestTyped DEF RequestInv
<1>3. ASSUME NEW r \in asked'
      PROVE  /\ r.pc = "sent" => r.latest
             /\ r.latest => r.page = page' /\ r = Request(pg)
             /\ r.pc = "answered" => (r.answer.kind = "dashboard" <=> r.page.kind = "dashboard")
  <2>1. CASE r = Request(pg)
    BY <2>1, RequestTyped
  <2>2. CASE r \in Supersede(asked)
    BY <2>2, SupersededShape DEF RequestInv
  <2> QED  BY <1>1, <1>3, <2>1, <2>2
<1> QED  BY <1>2, <1>3 DEF RequestInv

LEMMA ReplaceTyped ==
    ASSUME RequestInv, NEW r \in asked, NEW s \in RequestT, page' = page,
           s.latest = r.latest, s.page = r.page, s.pc # "sent",
           s.pc = "answered" => (s.answer.kind = "dashboard" <=> s.page.kind = "dashboard"),
           asked' = (asked \ {r}) \cup {s}
    PROVE  RequestInv'
<1>1. asked' \subseteq RequestT
  BY DEF RequestInv
<1>2. ASSUME NEW q \in asked'
      PROVE  /\ q.pc = "sent" => q.latest
             /\ q.latest => q.page = page'
             /\ q.pc = "answered" => (q.answer.kind = "dashboard" <=> q.page.kind = "dashboard")
  BY DEF RequestInv
<1>3. ASSUME NEW q1 \in asked', NEW q2 \in asked', q1.latest, q2.latest
      PROVE  q1 = q2
  BY <1>3 DEF RequestInv
<1> QED  BY <1>1, <1>2, <1>3 DEF RequestInv

LEMMA FewerTyped ==
    ASSUME RequestInv, asked' \subseteq asked, page' = page
    PROVE  RequestInv'
BY DEF RequestInv

LEMMA OverlookTyped ==
    ASSUME RequestInv, NEW b, Overlook(b)
    PROVE  RequestInv'
<1>1. CASE ~b
  BY <1>1 DEF Overlook, RequestInv
<1>2. CASE b
  <2>1. asked' = {[r EXCEPT !.whole = FALSE] : r \in asked} /\ page' = page
    BY <1>2 DEF Overlook
  <2>2. ASSUME NEW r \in asked
        PROVE  LET s == [r EXCEPT !.whole = FALSE]
               IN  /\ s \in RequestT /\ s.pc = r.pc /\ s.latest = r.latest /\ s.page = r.page
                   /\ s.answer = r.answer
    <3>1. r \in RequestT
      BY DEF RequestInv
    <3> QED  BY <3>1 DEF RequestT, SentT, HalfT, AnsweredT
  <2>3. asked' \subseteq RequestT
    BY <2>1, <2>2
  <2>4. ASSUME NEW s \in asked'
        PROVE  \E r \in asked : /\ s = [r EXCEPT !.whole = FALSE]
                                /\ s.pc = r.pc /\ s.latest = r.latest /\ s.page = r.page
                                /\ s.answer = r.answer
    BY <2>1, <2>2
  <2>5. ASSUME NEW s \in asked'
        PROVE  /\ s.pc = "sent" => s.latest
               /\ s.latest => s.page = page'
               /\ s.pc = "answered" => (s.answer.kind = "dashboard" <=> s.page.kind = "dashboard")
    BY <2>1, <2>4 DEF RequestInv
  <2>6. ASSUME NEW s1 \in asked', NEW s2 \in asked', s1.latest, s2.latest  PROVE s1 = s2
    <3>1. PICK r1 \in asked : s1 = [r1 EXCEPT !.whole = FALSE] /\ s1.latest = r1.latest
      BY <2>4
    <3>2. PICK r2 \in asked : s2 = [r2 EXCEPT !.whole = FALSE] /\ s2.latest = r2.latest
      BY <2>4
    <3>3. r1 = r2
      BY <2>6, <3>1, <3>2 DEF RequestInv
    <3> QED  BY <3>1, <3>2, <3>3
  <2> QED  BY <2>3, <2>5, <2>6 DEF RequestInv
<1> QED  BY <1>1, <1>2

\* What the server makes of a request.
LEMMA ServeTyped ==
    ASSUME DbInv, up \in BOOLEAN, RequestInv, NEW r \in asked, Serve(r) \/ ServeTiles(r) \/ ServeCards(r)
    PROVE  RequestInv'
<1>1. r \in RequestT
  BY DEF RequestInv
<1>2. CASE Serve(r)
  <2> DEFINE s == [r EXCEPT !.pc = "answered", !.answer = Reading(r.page), !.whole = up]
  <2>1. r \in SentT /\ r.page.kind # "dashboard" /\ page' = page /\ asked' = (asked \ {r}) \cup {s}
    BY <1>1, <1>2, RequestShape DEF Serve
  <2>2. Reading(r.page) \in RowsT
    BY ReadingTyped DEF DbInv
  <2>3. /\ s \in AnsweredT /\ s.latest = r.latest /\ s.page = r.page /\ s.pc = "answered"
        /\ s.answer = Reading(r.page)
    BY <2>1, <2>2 DEF SentT, AnsweredT
  <2>4. s.answer.kind = "rows"
    BY <2>2, <2>3 DEF RowsT
  <2> HIDE DEF s
  <2>5. s \in RequestT
    BY <2>3 DEF RequestT
  <2> QED  BY <2>1, <2>3, <2>4, <2>5, ReplaceTyped
<1>3. CASE ServeTiles(r)
  <2> DEFINE s == [r EXCEPT !.pc = "half", !.whole = up,
                            !.answer = [kind |-> "tiles", tiles |-> Tiles(Me, tasks)]]
  <2>1. r \in SentT /\ r.page.kind = "dashboard" /\ page' = page /\ asked' = (asked \ {r}) \cup {s}
    BY <1>1, <1>3, RequestShape DEF ServeTiles
  <2>2. Tiles(Me, tasks) \in TilesT
    BY TilesTyped DEF DbInv
  <2>3. r.page \in [kind : {"dashboard"}]
    BY <2>1 DEF SentT, Page
  <2>4. s \in HalfT /\ s.latest = r.latest /\ s.page = r.page /\ s.pc = "half"
    BY <2>1, <2>2, <2>3 DEF SentT, HalfT
  <2> HIDE DEF s
  <2>5. s \in RequestT
    BY <2>4 DEF RequestT
  <2> QED  BY <2>1, <2>4, <2>5, ReplaceTyped
<1>4. CASE ServeCards(r)
  <2> DEFINE a == [Answer(r.page) EXCEPT !.tiles = r.answer.tiles]
             s == [r EXCEPT !.pc = "answered", !.answer = a]
  <2>1. r \in HalfT /\ r.page.kind = "dashboard" /\ r.answer.tiles \in TilesT /\ page' = page
        /\ asked' = (asked \ {r}) \cup {s} /\ r.page \in Page
    BY <1>1, <1>4, RequestShape DEF ServeCards
  <2>2. Answer(r.page) \in DashboardT
    BY <2>1, AnswerTyped
  <2>3. a \in DashboardT /\ a.kind = "dashboard"
    BY <2>1, <2>2 DEF DashboardT
  <2> HIDE DEF a
  <2>4. s \in AnsweredT /\ s.latest = r.latest /\ s.page = r.page /\ s.pc = "answered" /\ s.answer = a
    BY <2>1, <2>3 DEF HalfT, AnsweredT
  <2> HIDE DEF s
  <2>5. s \in RequestT
    BY <2>4 DEF RequestT
  <2> QED  BY <2>1, <2>3, <2>4, <2>5, ReplaceTyped
<1> QED  BY <1>2, <1>3, <1>4

LEMMA NavigateTyped ==
    ASSUME NEW pg \in Page, asked' = {Request(pg)}, page' = pg
    PROVE  RequestInv'
BY RequestTyped DEF RequestInv

LEMMA RequestStep ==
    ASSUME TypeInv, Next
    PROVE  RequestInv'
<1> USE DEF TypeInv
<1>1. ASSUME UNCHANGED <<page, asked>>  PROVE RequestInv'
  BY <1>1 DEF RequestInv
<1>2. page' \in Page /\ page \in Page
  BY PageStep DEF Leads, PageInv
<1>3. ASSUME NEW r \in asked, Serve(r) \/ ServeTiles(r) \/ ServeCards(r) \/ Arrive(r) \/ Fail(r)
      PROVE  RequestInv'
  <2>1. CASE Serve(r) \/ ServeTiles(r) \/ ServeCards(r)
    BY <2>1, ServeTyped DEF WireInv
  <2>2. CASE Arrive(r) \/ Fail(r)
    BY <2>2, FewerTyped DEF Arrive, Fail
  <2> QED  BY <1>3, <2>1, <2>2
<1>4. CASE Retry \/ TimerFires
  BY <1>2, <1>4, AskTyped DEF Retry, TimerFires
<1>5. CASE ChangeFilter
  <2>1. Ask(page')
    BY <1>5 DEF ChangeFilter
  <2>2. PICK pg \in Page : page' = pg
    BY <1>2
  <2>3. Ask(pg)
    BY <2>1, <2>2 DEF Ask
  <2> QED  BY <2>2, <2>3, AskTyped
<1>6. CASE Deliver
  <2>1. ASSUME OnTaskChanged(Head(line))  PROVE RequestInv'
    <3> DEFINE pg == [kind |-> "tasks", query |-> << >>]
    <3>1. pg \in Page
      BY DEF Page
    <3>2. \/ UNCHANGED <<page, asked>> \/ (Ask(page) /\ page' = page)
          \/ asked' = {Request(pg)} /\ page' = pg
      BY <2>1 DEF OnTaskChanged, Navigate, pageVars
    <3> HIDE DEF pg, TypeInv
    <3> QED  BY <1>1, <1>2, <3>1, <3>2, AskTyped, NavigateTyped DEF TypeInv
  <2>2. ASSUME OnActivity(Head(line)) \/ OnListChanged(Head(line))  PROVE RequestInv'
    BY <1>1, <2>2 DEF OnActivity, OnListChanged
  <2> QED  BY <1>6, <2>1, <2>2 DEF Deliver
<1>7. ASSUME NEW w \in Writer, Reply(w)  PROVE RequestInv'
  <2> DEFINE pg == [kind |-> "project", query |-> [project |-> write[w].last[1].row.project]]
  <2>1. write[w].last[1].row.project \in Project
    BY <1>7, ReplyShape, RowShape DEF JobT
  <2>2. pg \in Page
    BY <2>1 DEF Page
  <2>4. ASSUME write[w].last[1].gone  PROVE asked' = {Request(pg)} /\ page' = pg
    BY <1>7, <2>4 DEF Reply, Navigate, pageVars
  <2>5. ASSUME ~write[w].last[1].gone  PROVE UNCHANGED <<page, asked>>
    BY <1>7, <2>5 DEF Reply, pageVars
  <2>3. \/ UNCHANGED <<page, asked>>
        \/ asked' = {Request(pg)} /\ page' = pg
    BY <2>4, <2>5
  <2> HIDE DEF pg
  <2> QED  BY <1>1, <2>2, <2>3, NavigateTyped
<1>8. CASE Browse
  BY <1>3, <1>4, <1>5, <1>6, <1>7, <1>8 DEF Browse
<1>9. ASSUME NEW w \in Writer, Begin(w) \/ Commit(w) \/ (Drop(w) /\ UNCHANGED wire /\ Unseen) \/ Publish(w)
      PROVE  RequestInv'
  <2>1. CASE Commit(w)
    BY <2>1, OverlookTyped DEF Commit
  <2> QED  BY <1>1, <1>9, <2>1, BeginFrame, DropFrame, PublishFrame DEF pageVars
<1>10. CASE SilentSweep \/ Disconnect
  BY <1>10, OverlookTyped DEF SilentSweep, Disconnect
<1>11. CASE Notice \/ Reconnect
  BY <1>1, <1>11, NoticeFrame DEF Reconnect, pageVars
<1> QED  BY <1>8, <1>9, <1>10, <1>11 DEF Next

-----------------------------------------------------------------------------
(* Types: the page *)

LEMMA PatchedTyped ==
    ASSUME shown \in RowsT, NEW m \in ChangeT
    PROVE  /\ Rows(Patched(m)) \in RowsT
           /\ DOMAIN Patched(m) \subseteq DOMAIN shown.rows
           /\ \A t \in DOMAIN Patched(m) :
                 \/ Patched(m)[t] = shown.rows[t] /\ (t # m.task)
                 \/ Patched(m)[t] = m.row /\ t = m.task /\ ~m.gone
<1>1. shown.rows \in TableT /\ m.row \in Row /\ m.gone \in BOOLEAN
  BY DEF RowsT, ChangeT
<1>2. CASE m.gone
  <2> DEFINE kept == DOMAIN shown.rows \ {m.task}
             f == Restrict(shown.rows, kept)
  <2>1. Patched(m) = f
    BY <1>2 DEF Patched
  <2>2. kept \in SUBSET DOMAIN shown.rows
    OBVIOUS
  <2>3. f \in TableT /\ DOMAIN f = kept /\ \A t \in kept : f[t] = shown.rows[t]
    BY <1>1, <2>2, RestrictTyped
  <2> HIDE DEF f
  <2> QED  BY <2>1, <2>3 DEF Rows, RowsT
<1>3. CASE ~m.gone
  <2> DEFINE f == [t \in DOMAIN shown.rows |-> IF t = m.task THEN m.row ELSE shown.rows[t]]
  <2>1. Patched(m) = f
    BY <1>3 DEF Patched
  <2>2. f \in [DOMAIN shown.rows -> Row] /\ DOMAIN shown.rows \in SUBSET Task
    BY <1>1, TableTyped
  <2>3. f \in TableT
    BY <2>2, TableIntro
  <2> QED  BY <1>3, <2>1, <2>3 DEF Rows, RowsT
<1> QED  BY <1>1, <1>2, <1>3

LEMMA HeardTyped ==
    ASSUME news \in [Task -> Nat], NEW t \in Task, NEW at \in Nat, Heard(t, at)
    PROVE  /\ news' \in [Task -> Nat] /\ news'[t] >= at
           /\ \A x \in Task : news'[x] >= news[x] /\ (x # t => news'[x] = news[x])
           /\ news'[t] \in {news[t], at}
BY DEF Heard

LEMMA PageInvStep ==
    ASSUME TypeInv, Next
    PROVE  PageInv'
<1> USE DEF TypeInv
<1>0. page' \in Page /\ page \in Page
  BY PageStep DEF Leads, PageInv
<1>1. ASSUME UNCHANGED <<me, page, shown, failed, timer, missed, news, crossed>>  PROVE PageInv'
  BY <1>1 DEF PageInv
<1>2. me' = me
  <2>1. ASSUME NEW w \in Writer, Begin(w) \/ Commit(w) \/ (Drop(w) /\ UNCHANGED wire /\ Unseen) \/ Publish(w)
        PROVE  me' = me
    BY <2>1, BeginFrame, CommitFrame, DropFrame, PublishFrame
  <2> QED  BY <2>1, BrowseFrame, NoticeFrame DEF Next, SilentSweep, Disconnect, Reconnect
<1>3. ASSUME NEW b \in BOOLEAN, Overlook(b)  PROVE PageInv'
  BY <1>2, <1>3 DEF Overlook, PageInv
<1>4. ASSUME NEW r \in asked, Arrive(r)  PROVE PageInv'
  <2>1. r \in RequestT /\ r.pc = "answered" /\ page' = page /\ timer' = timer /\ news' = news
    BY <1>4 DEF RequestInv, Arrive
  <2>2. r.answer \in RowsT \cup DashboardT /\ r.whole \in BOOLEAN
    BY <2>1, RequestShape
  <2>3. CASE r.latest
    <3>1. shown' = r.answer /\ failed' = FALSE /\ crossed' = Overtaken(r.answer) /\ missed' = ~r.whole
      BY <1>4, <2>3 DEF Arrive, Latest
    <3>2. r.answer.kind = "dashboard" => page.kind = "dashboard"
      BY <2>1, <2>3 DEF RequestInv
    <3>3. Overtaken(r.answer) \subseteq Task
      BY <2>2, TableTyped DEF Overtaken, RowsT, DashboardT
    <3> QED  BY <1>2, <2>1, <2>2, <3>1, <3>2, <3>3 DEF PageInv
  <2>4. CASE ~r.latest
    BY <1>1, <1>2, <1>4, <2>1, <2>4 DEF Arrive, Latest
  <2> QED  BY <2>3, <2>4
<1>5. ASSUME NEW r \in asked, Serve(r) \/ ServeTiles(r) \/ ServeCards(r) \/ Fail(r)
      PROVE  PageInv'
  <2>1. UNCHANGED <<page, shown, timer, missed, news, crossed>> /\ failed' \in {failed, TRUE}
    BY <1>5 DEF Serve, ServeTiles, ServeCards, Fail
  <2> QED  BY <1>2, <2>1 DEF PageInv
<1>6. CASE Retry \/ TimerFires
  <2>1. UNCHANGED <<page, shown, failed, missed, news, crossed>> /\ timer' \in {timer, FALSE}
    BY <1>6 DEF Retry, TimerFires
  <2> QED  BY <1>2, <2>1 DEF PageInv
<1>7. CASE ChangeFilter
  <2>1. UNCHANGED <<shown, failed, timer, missed, news, crossed>> /\ page.kind = "tasks"
    BY <1>7 DEF ChangeFilter
  <2> QED  BY <1>0, <1>2, <2>1 DEF PageInv
<1>8. ASSUME NEW pg \in Page, Navigate(pg), news' = news  PROVE PageInv'
  BY <1>2, <1>8 DEF PageInv, Navigate, Nothing
<1>9. CASE Deliver
  <2> DEFINE m == Head(line)
  <2>1. m \in MessageT
    BY <1>9, TailTyped DEF Deliver, WireInv
  <2>2. CASE OnActivity(m)
    <3>1. UNCHANGED <<page, shown, failed, missed, news, crossed>> /\ timer' \in BOOLEAN
      BY <2>2 DEF OnActivity
    <3> QED  BY <1>2, <3>1 DEF PageInv
  <2>3. CASE OnListChanged(m)
    <3>1. m \in ChangeT
      BY <2>1, <2>3 DEF OnListChanged, MessageT
    <3>2. m.task \in Task /\ m.at \in Nat
      BY <3>1 DEF ChangeT
    <3> HIDE DEF m
    <3>3. UNCHANGED <<page, failed, timer, missed>>
      BY <2>3 DEF OnListChanged
    <3>4. news' \in [Task -> Nat] /\ crossed' \subseteq Task
      BY <2>3, <3>2, HeardTyped DEF OnListChanged, PageInv
    <3>5. shown' = shown \/ (HasRows /\ shown' = Rows(Patched(m)))
      BY <2>3 DEF OnListChanged
    <3>6. HasRows => shown \in RowsT
      BY DEF HasRows, PageInv, DashboardT, Nothing
    <3>7. shown' = shown \/ shown' \in RowsT
      BY <3>1, <3>5, <3>6, PatchedTyped
    <3>8. shown' \in RowsT => shown'.kind # "dashboard"
      BY DEF RowsT
    <3> QED  BY <1>2, <3>3, <3>4, <3>7, <3>8 DEF PageInv
  <2>4. CASE OnTaskChanged(m)
    <3> DEFINE pg == [kind |-> "tasks", query |-> << >>]
    <3>1. pg \in Page
      BY DEF Page
    <3>2. \/ UNCHANGED <<page, shown, failed, timer, missed, news, crossed>>
          \/ Navigate(pg) /\ news' = news
      BY <2>4 DEF OnTaskChanged, pageVars
    <3> HIDE DEF pg
    <3> QED  BY <1>1, <1>2, <1>8, <3>1, <3>2
  <2> QED  BY <1>9, <2>2, <2>3, <2>4 DEF Deliver
<1>10. ASSUME NEW w \in Writer, Reply(w)  PROVE PageInv'
  <2> DEFINE job == write[w].last[1]
             pg == [kind |-> "project", query |-> [project |-> job.row.project]]
             rows == [t \in {job.task} |-> job.row]
  <2>1. job \in JobT
    BY <1>10, ReplyShape
  <2>2. job.row \in Row /\ job.task \in Task
    BY <2>1 DEF JobT
  <2>3. pg \in Page
    BY <2>2, RowShape DEF Page
  <2>4. rows \in TableT
    BY <2>2, TableIntro
  <2>5. \/ Navigate(pg) /\ news' = news
        \/ /\ shown' = Rows(rows) /\ Heard(job.task, job.row.at)
           /\ crossed' \in {crossed, crossed \cup {job.task}}
           /\ UNCHANGED <<page, failed, timer, missed>>
        \/ UNCHANGED pageVars
    BY <1>10 DEF Reply
  <2>6. job.row.at \in Nat
    BY <2>2, RowShape
  <2> HIDE DEF job, pg, rows
  <2>7. ASSUME shown' = Rows(rows), Heard(job.task, job.row.at),
               crossed' \in {crossed, crossed \cup {job.task}},
               UNCHANGED <<page, failed, timer, missed>>
        PROVE  PageInv'
    <3>1. news' \in [Task -> Nat]
      BY <2>2, <2>6, <2>7, HeardTyped DEF PageInv
    <3>2. shown' \in RowsT /\ shown'.kind = "rows"
      BY <2>4, <2>7 DEF Rows, RowsT
    <3> QED  BY <1>2, <2>2, <2>7, <3>1, <3>2 DEF PageInv
  <2> QED  BY <1>1, <1>2, <1>8, <2>3, <2>5, <2>7 DEF pageVars
<1>11. CASE Browse
  BY <1>4, <1>5, <1>6, <1>7, <1>9, <1>10, <1>11 DEF Browse
<1>12. ASSUME NEW w \in Writer, Begin(w) \/ Commit(w) \/ (Drop(w) /\ UNCHANGED wire /\ Unseen) \/ Publish(w)
      PROVE  PageInv'
  <2>1. CASE Commit(w)
    <3>1. PICK b \in BOOLEAN : Overlook(b)
      <4>1. Untold(write[w]) \in BOOLEAN
        BY DEF Untold
      <4> QED  BY <2>1, <4>1 DEF Commit
    <3> QED  BY <1>3, <3>1
  <2> QED  BY <1>1, <1>12, <2>1, BeginFrame, DropFrame, PublishFrame DEF pageVars
<1>13. CASE SilentSweep \/ Disconnect
  BY <1>3, <1>13 DEF SilentSweep, Disconnect
<1>14. CASE Notice \/ Reconnect
  BY <1>1, <1>2, <1>14, NoticeFrame DEF Reconnect, pageVars
<1> QED  BY <1>11, <1>12, <1>13, <1>14 DEF Next

-----------------------------------------------------------------------------
(* Types: the tray *)

LEMMA UnreadTyped ==
    ASSUME DbInv
    PROVE  Unread \in Nat /\ IsFiniteSet({n \in DOMAIN notes : ~notes[n]})
<1>1. IsFiniteSet({n \in DOMAIN notes : ~notes[n]})
  BY FS_Subset DEF DbInv
<1> QED  BY <1>1, FS_CardinalityType DEF Unread

LEMMA CallTyped ==
    ASSUME items \in NotesT, NEW kind \in {"mark", "all", "refresh"}, NEW id \in IdT, NEW here \in BOOLEAN
    PROVE  Call(kind, id, here) \in CallT
BY DEF Call, CallT

LEMMA WithTyped ==
    ASSUME NEW c \in CallT, c.kind \in {"mark", "all"}, NEW n \in Nat, NEW at \in Nat
    PROVE  With(c, "counted", n, at) \in CallT
<1>1. c.kind \in {"mark", "all"} /\ c.id \in IdT /\ c.here \in BOOLEAN /\ c.before \in NotesT
  BY CallShape
<1> QED  BY <1>1 DEF With, CallT

\* What a call becomes when only its place in the handler changes.
LEMMA CallMoves ==
    ASSUME NEW c \in CallT
    PROVE  /\ c.pc = "sent" /\ c.kind = "mark" =>
                 [c EXCEPT !.pc = "refused"] \in CallT /\ [c EXCEPT !.pc = "marked"] \in CallT
           /\ c.pc = "counted" => [c EXCEPT !.pc = "answered"] \in CallT
           /\ c.pc = "sent" /\ c.kind = "refresh" =>
                 \A f \in NotesT : [c EXCEPT !.pc = "listed", !.before = f] \in CallT
<1>1. ASSUME c.pc = "sent"
      PROVE  c \in [pc : {"sent"}, kind : {"mark", "all", "refresh"}, id : IdT, here : BOOLEAN, before : NotesT]
  BY <1>1 DEF CallT
<1>2. ASSUME c.pc = "counted"
      PROVE  c \in [pc : {"counted", "answered"}, kind : {"mark", "all"}, id : IdT, here : BOOLEAN,
                    before : NotesT, unread : Nat, at : Nat]
  BY <1>2 DEF CallT
<1> HIDE DEF IdT, NotesT
<1>3. ASSUME c.pc = "sent", c.kind = "mark"
      PROVE  [c EXCEPT !.pc = "refused"] \in CallT /\ [c EXCEPT !.pc = "marked"] \in CallT
  BY <1>1, <1>3 DEF CallT
<1>4. ASSUME c.pc = "counted"  PROVE [c EXCEPT !.pc = "answered"] \in CallT
  BY <1>2, <1>4 DEF CallT
<1>5. ASSUME c.pc = "sent", c.kind = "refresh", NEW f \in NotesT
      PROVE  [c EXCEPT !.pc = "listed", !.before = f] \in CallT
  BY <1>1, <1>5 DEF CallT
<1> QED  BY <1>3, <1>4, <1>5

LEMMA SetUnreadTyped ==
    ASSUME TrayInv, NEW n \in Nat, NEW at \in Nat, SetUnread(n, at)
    PROVE  unread' \in Nat /\ last' \in Nat /\ newest' \in Nat /\ last' <= newest' /\ newest <= newest'
BY DEF SetUnread, TrayInv

\* A call is replaced by one call, or by none.
LEMMA CallsTyped ==
    ASSUME TrayInv, NEW gone, NEW come \in SUBSET CallT, calls' = (calls \ gone) \cup come,
           UNCHANGED <<items, unread, greeting, last, newest, silent, tangled>>
    PROVE  TrayInv'
BY DEF TrayInv

LEMMA NoticeTray ==
    ASSUME TypeInv, Notice
    PROVE  TrayInv'
<1> USE DEF TypeInv
<1>1. CASE Refresh
  <2>1. Call("refresh", All, TRUE) \in CallT
    BY CallTyped DEF TrayInv, IdT
  <2>2. calls' = calls \cup {Call("refresh", All, TRUE)}
        /\ UNCHANGED <<items, unread, greeting, last, newest, silent, tangled>>
    BY <1>1 DEF Refresh
  <2> HIDE DEF TypeInv
  <2> QED  BY <2>1, <2>2 DEF TypeInv, TrayInv
<1>2. CASE MarkRead
  <2>1. PICK n \in ShownUnread : /\ calls' = calls \cup {Call("mark", n, TRUE)}
                                 /\ items' = [items EXCEPT ![n] = TRUE]
    BY <1>2 DEF MarkRead
  <2>2. n \in NoteT /\ n \in DOMAIN items /\ items \in [DOMAIN items -> BOOLEAN]
        /\ DOMAIN items \in SUBSET NoteT
    BY NotesTyped DEF ShownUnread, TrayInv
  <2>3. items' \in NotesT
    BY <2>1, <2>2, NotesIntro
  <2>4. Call("mark", n, TRUE) \in CallT
    BY <2>2, CallTyped DEF TrayInv, IdT
  <2>5. UNCHANGED <<unread, greeting, last, newest, silent, tangled>>
    BY <1>2 DEF MarkRead
  <2> QED  BY <2>1, <2>3, <2>4, <2>5 DEF TrayInv
<1>3. CASE MarkAllRead
  <2>1. items' = [n \in DOMAIN items |-> TRUE] /\ calls' = calls \cup {Call("all", All, TRUE)}
    BY <1>3 DEF MarkAllRead
  <2>2. items' \in NotesT
    BY <2>1, NotesTyped, NotesIntro DEF TrayInv
  <2>3. Call("all", All, TRUE) \in CallT
    BY CallTyped DEF TrayInv, IdT
  <2>4. UNCHANGED <<unread, greeting, last, newest, silent>> /\ tangled' \in BOOLEAN
    BY <1>3 DEF MarkAllRead, TrayInv
  <2> QED  BY <2>1, <2>2, <2>3, <2>4 DEF TrayInv
<1>4. CASE MarkElsewhere
  <2>1. PICK n \in DOMAIN notes : calls' = calls \cup {Call("mark", n, FALSE)}
    BY <1>4 DEF MarkElsewhere
  <2>2. n \in NoteT
    BY NotesTyped DEF DbInv
  <2>3. Call("mark", n, FALSE) \in CallT
    BY <2>2, CallTyped DEF TrayInv, IdT
  <2>4. UNCHANGED <<items, unread, greeting, last, newest, silent, tangled>>
    BY <1>4 DEF MarkElsewhere
  <2> QED  BY <2>1, <2>3, <2>4 DEF TrayInv
<1>5. CASE Greet
  <2>1. UNCHANGED <<items, unread, calls, last, newest, silent, tangled>>
    BY <1>5 DEF Greet
  <2>2. greeting' = NoGreeting \/ greeting' = [pc |-> "counted", unread |-> Unread, at |-> stamp]
    BY <1>5 DEF Greet
  <2>3. greeting' \in GreetingT
    BY <2>2, UnreadTyped DEF GreetingT, DbInv
  <2> QED  BY <2>1, <2>3 DEF TrayInv
<1>6. ASSUME NEW c \in calls, ServeMark(c)  PROVE TrayInv'
  <2>1. c \in CallT /\ c.pc = "sent" /\ c.kind \in {"mark", "all"}
    BY <1>6 DEF TrayInv, ServeMark
  <2>2. stamp' \in Nat
    BY <1>6, MarkDb DEF DbInv
  <2>3. PICK come \in SUBSET CallT : calls' = (calls \ {c}) \cup come
    <3>1. With(c, "counted", 0, stamp') \in CallT
      BY <2>1, <2>2, WithTyped
    <3>2. c.kind = "mark" => [c EXCEPT !.pc = "refused"] \in CallT /\ [c EXCEPT !.pc = "marked"] \in CallT
      BY <2>1, CallMoves
    <3>3. \/ c.kind = "mark" /\ calls' = (calls \ {c}) \cup IF c.here THEN {[c EXCEPT !.pc = "refused"]} ELSE {}
          \/ c.kind = "all" /\ calls' = (calls \ {c}) \cup {With(c, "counted", 0, stamp')}
          \/ c.kind = "mark" /\ calls' = (calls \ {c}) \cup {[c EXCEPT !.pc = "marked"]}
      BY <1>6, <2>1 DEF ServeMark, Becomes
    <3> QED  BY <3>1, <3>2, <3>3
  <2>4. UNCHANGED <<items, unread, greeting, last, newest, silent, tangled>>
    BY <1>6 DEF ServeMark
  <2> QED  BY <2>3, <2>4, CallsTyped
<1>7. ASSUME NEW c \in calls, CountMarked(c)  PROVE TrayInv'
  <2>1. c \in CallT /\ c.pc = "marked" /\ c.kind = "mark"
    BY <1>7, CallShape DEF TrayInv, CountMarked
  <2>2. With(c, "counted", Unread, stamp) \in CallT
    BY <2>1, UnreadTyped, WithTyped DEF DbInv
  <2>3. /\ calls' = (calls \ {c}) \cup {With(c, "counted", Unread, stamp)}
        /\ UNCHANGED <<items, unread, greeting, last, newest, silent, tangled>>
    BY <1>7 DEF CountMarked, Becomes
  <2> QED  BY <2>2, <2>3, CallsTyped
<1>8. ASSUME NEW c \in calls, PushCount(c)  PROVE TrayInv'
  <2>1. [c EXCEPT !.pc = "answered"] \in CallT
    BY <1>8, CallMoves DEF TrayInv, PushCount
  <2>2. /\ calls' = (calls \ {c}) \cup IF c.here THEN {[c EXCEPT !.pc = "answered"]} ELSE {}
        /\ UNCHANGED <<items, unread, greeting, last, newest, silent, tangled>>
    BY <1>8 DEF PushCount
  <2>3. (IF c.here THEN {[c EXCEPT !.pc = "answered"]} ELSE {}) \in SUBSET CallT
    BY <2>1
  <2> QED  BY <2>2, <2>3, CallsTyped
<1>9. ASSUME NEW c \in calls, ServeRefresh(c)  PROVE TrayInv'
  <2>1. c \in CallT /\ c.kind = "refresh"
    BY <1>9 DEF TrayInv, ServeRefresh
  <2>2. UNCHANGED <<items, unread, greeting, last, newest, silent, tangled>>
    BY <1>9 DEF ServeRefresh
  <2>3. CASE c.pc = "sent"
    <3>1. calls' = (calls \ {c}) \cup {[c EXCEPT !.pc = "listed", !.before = notes]}
      BY <1>9, <2>3 DEF ServeRefresh, Becomes
    <3>2. [c EXCEPT !.pc = "listed", !.before = notes] \in CallT
      BY <2>1, <2>3, CallMoves DEF DbInv
    <3> QED  BY <2>2, <3>1, <3>2, CallsTyped
  <2>4. CASE c.pc = "listed"
    <3> DEFINE d == [pc |-> "answered", kind |-> "refresh", id |-> All, here |-> TRUE,
                     rows |-> c.before, unread |-> Unread, at |-> stamp]
    <3>1. calls' = (calls \ {c}) \cup {d}
      BY <1>9, <2>4 DEF ServeRefresh, Becomes
    <3>2. c.before \in NotesT
      BY <2>1, <2>4, CallShape
    <3>3. d \in CallT
      BY <3>2, UnreadTyped DEF DbInv, CallT
    <3> QED  BY <2>2, <3>1, <3>3, CallsTyped
  <2> QED  BY <1>9, <2>3, <2>4 DEF ServeRefresh
<1>10. ASSUME NEW c \in calls, CallSucceeds(c)  PROVE TrayInv'
  <2>1. c \in CallT /\ c.pc = "answered"
    BY <1>10 DEF TrayInv, CallSucceeds
  <2>2. c.unread \in Nat /\ c.at \in Nat /\ (c.kind = "refresh" => c.rows \in NotesT)
    BY <2>1, CallShape
  <2>3. /\ calls' = calls \ {c} /\ SetUnread(c.unread, c.at)
        /\ items' = IF c.kind = "refresh" THEN c.rows ELSE items
        /\ UNCHANGED <<greeting, silent, tangled>>
    BY <1>10 DEF CallSucceeds
  <2> QED  BY <2>2, <2>3, SetUnreadTyped DEF TrayInv
<1>11. ASSUME NEW c \in calls, CallFails(c)  PROVE TrayInv'
  <2>1. c \in CallT /\ calls' = calls \ {c} /\ items' = RolledBack(c)
        /\ UNCHANGED <<unread, greeting, last, newest, silent, tangled>>
    BY <1>11 DEF TrayInv, CallFails
  <2>2. items \in [DOMAIN items -> BOOLEAN] /\ DOMAIN items \in SUBSET NoteT
    BY NotesTyped DEF TrayInv
  <2>3. [n \in DOMAIN items |-> IF n = c.id THEN FALSE ELSE items[n]] \in NotesT
    BY <2>2, NotesIntro
  <2>4. c.kind # "refresh" => c.before \in NotesT
    BY <2>1, CallShape
  <2>5. items' \in NotesT
    BY <2>1, <2>3, <2>4 DEF RolledBack, TrayInv
  <2> QED  BY <2>1, <2>5 DEF TrayInv
<1>12. CASE DeliverNote
  <2> DEFINE m == Head(line)
  <2>1. m \in MessageT
    BY <1>12, TailTyped DEF DeliverNote, WireInv
  <2>2. CASE OnNew(m)
    <3>1. m.rows \in NotesT
      BY <2>1, <2>2 DEF OnNew, MessageT, ChangeT
    <3> DEFINE f == [n \in DOMAIN items \cup DOMAIN m.rows |->
                        IF n \in DOMAIN items THEN items[n] ELSE m.rows[n]]
    <3>2. items' = f /\ UNCHANGED <<unread, calls, greeting, last, newest, silent, tangled>>
      BY <2>2 DEF OnNew
    <3>3. f \in NotesT
      BY <3>1, NotesTyped, NotesIntro DEF TrayInv
    <3> HIDE DEF f, m
    <3> QED  BY <3>2, <3>3 DEF TrayInv
  <2>3. CASE OnCount(m)
    <3>1. m.unread \in Nat /\ m.at \in Nat
      BY <2>1, <2>3 DEF OnCount, MessageT, ChangeT
    <3>2. SetUnread(m.unread, m.at) /\ UNCHANGED <<items, calls, greeting, silent, tangled>>
      BY <2>3 DEF OnCount
    <3> HIDE DEF m
    <3> QED  BY <3>1, <3>2, SetUnreadTyped DEF TrayInv
  <2> QED  BY <1>12, <2>2, <2>3 DEF DeliverNote
<1> QED  BY <1>1, <1>2, <1>3, <1>4, <1>5, <1>6, <1>7, <1>8, <1>9, <1>10, <1>11, <1>12 DEF Notice

LEMMA TrayStep ==
    ASSUME TypeInv, Next
    PROVE  TrayInv'
<1> USE DEF TypeInv
<1>1. ASSUME UNCHANGED trayVars  PROVE TrayInv'
  BY <1>1 DEF trayVars, TrayInv
<1>2. ASSUME NEW w \in Writer, Commit(w)  PROVE TrayInv'
  <2>1. stamp' \in Nat /\ silent' \in {silent, stamp'}
    BY <1>2, CommitDb DEF DbInv, Commit, Vanish
  <2>2. UNCHANGED <<items, unread, calls, greeting, last, newest, tangled>>
    BY <1>2, CommitFrame
  <2> QED  BY <2>1, <2>2 DEF TrayInv
<1>3. ASSUME NEW w \in Writer, Begin(w) \/ Commit(w) \/ (Drop(w) /\ UNCHANGED wire /\ Unseen) \/ Publish(w)
      PROVE  TrayInv'
  BY <1>1, <1>2, <1>3, BeginFrame, DropFrame, PublishFrame
<1>4. CASE Browse
  BY <1>1, <1>4, BrowseFrame
<1>5. CASE SilentSweep
  BY <1>1, <1>5 DEF SilentSweep
<1>6. CASE Disconnect
  <2>1. greeting' \in GreetingT /\ UNCHANGED <<items, unread, calls, last, newest, silent, tangled>>
    BY <1>6 DEF Disconnect, GreetingT
  <2> QED  BY <2>1 DEF TrayInv
<1>7. CASE Reconnect
  <2>1. greeting' \in GreetingT /\ UNCHANGED <<items, unread, calls, last, newest, silent, tangled>>
    BY <1>7 DEF Reconnect, GreetingT, NoGreeting
  <2> QED  BY <2>1 DEF TrayInv
<1> QED  BY <1>3, <1>4, <1>5, <1>6, <1>7, NoticeTray DEF Next

\* Without a tray there is nothing to notify.
LEMMA QuietCommit ==
    ASSUME TypeInv, NEW w \in Writer, Commit(w), page.kind # "tray"
    PROVE  DOMAIN notes' = {} /\ UNCHANGED trayVars
<1> USE DEF TypeInv
<1>1. DOMAIN notes = {}
  BY DEF QuietInv
<1>2. \A type, t, u, v : Notified(type, t, u, v) = {}
  BY DEF Notified
<1>3. ASSUME notes' = Inserted({})  PROVE DOMAIN notes' = {}
  BY <1>1, <1>3 DEF Inserted
<1>4. ASSUME Create(w)  PROVE DOMAIN notes' = {}
  <2>1. PICK u \in Author, t \in Task \ used, draft \in Draft : Creates(w, u, t, draft)
    BY <1>4, CreateShape
  <2>2. notes' = Inserted({})
    BY <1>2, <2>1 DEF Creates
  <2> QED  BY <1>3, <2>2
<1>5. ASSUME CommitUpdate(w)  PROVE DOMAIN notes' = {}
  <2>1. UpdateNotes(write[w]) = {}
    BY <1>2 DEF UpdateNotes
  <2>2. notes' = Inserted({})
    BY <1>5, <2>1 DEF CommitUpdate
  <2> QED  BY <1>3, <2>2
<1>6. ASSUME CommitDelete(w)  PROVE DOMAIN notes' = {}
  <2>1. notes' = Restrict(notes, {n \in DOMAIN notes : n.task # write[w].task})
    BY <1>6 DEF CommitDelete, RestrictDomain
  <2>2. notes' = [n \in {} |-> notes[n]]
    BY <1>1, <2>1 DEF Restrict
  <2> QED  BY <2>2
<1>7. ASSUME SweepClaim(w)  PROVE DOMAIN notes' = {}
  <2> DEFINE due == {t \in Live : Due(tasks[t])}
  <2>1. notes' = Inserted(SweepNotes(due))
    BY <1>7, SweepShape
  <2> HIDE DEF due
  <2>2. SweepNotes(due) = {}
    BY <1>2 DEF SweepNotes
  <2>3. notes' = Inserted({})
    BY <2>1, <2>2
  <2> QED  BY <1>3, <2>3
<1>8. DOMAIN notes' = {}
  BY <1>4, <1>5, <1>6, <1>7 DEF Commit
<1>9. UNCHANGED trayVars
  <2>1. silent' = silent
    BY <1>1 DEF Commit, Vanish
  <2> QED  BY <2>1, CommitFrame DEF trayVars
<1> QED  BY <1>8, <1>9

LEMMA QuietNotice ==
    ASSUME TypeInv, Notice
    PROVE  page.kind = "tray"
<1> USE DEF TypeInv
<1>1. SUFFICES ASSUME page.kind # "tray"  PROVE FALSE
  OBVIOUS
<1>2. DOMAIN notes = {} /\ items = << >> /\ calls = {} /\ greeting = NoGreeting
  BY <1>1 DEF QuietInv, trayVars
<1>3. ~Refresh /\ ~MarkElsewhere
  BY <1>1 DEF Refresh, MarkElsewhere
<1>4. ~MarkAllRead
  BY <1>2 DEF MarkAllRead
<1>5. ~MarkRead
  <2>1. DOMAIN items = {}
    BY <1>2
  <2> QED  BY <2>1 DEF MarkRead, ShownUnread
<1>6. ~Greet
  BY <1>2 DEF Greet, NoGreeting
<1> QED  BY <1>1, <1>2, <1>3, <1>4, <1>5, <1>6 DEF Notice

LEMMA QuietStep ==
    ASSUME TypeInv, Next
    PROVE  QuietInv'
<1> USE DEF TypeInv
<1>1. SUFFICES ASSUME page'.kind # "tray"
               PROVE  DOMAIN notes' = {} /\ UNCHANGED trayVars
  <2>1. page'.kind # "tray" => page.kind # "tray"
    BY PageStep DEF Leads
  <2> QED  BY <2>1 DEF QuietInv, trayVars
<1>2. page.kind # "tray"
  BY <1>1, PageStep DEF Leads
<1>3. DOMAIN notes = {} /\ greeting = NoGreeting
  BY <1>2 DEF QuietInv, trayVars
<1>4. ASSUME NEW w \in Writer, Begin(w) \/ Commit(w) \/ (Drop(w) /\ UNCHANGED wire /\ Unseen) \/ Publish(w)
      PROVE  DOMAIN notes' = {} /\ UNCHANGED trayVars
  BY <1>2, <1>3, <1>4, BeginFrame, DropFrame, PublishFrame, QuietCommit DEF database
<1>5. CASE Browse
  BY <1>3, <1>5, BrowseFrame DEF database
<1>6. CASE Notice
  BY <1>2, <1>6, QuietNotice
<1>7. CASE SilentSweep
  BY <1>3, <1>7 DEF SilentSweep, SweepClear
<1>8. CASE Disconnect
  BY <1>3, <1>8 DEF Disconnect, server, database, trayVars
<1>9. CASE Reconnect
  <2>1. greeting' = NoGreeting
    BY <1>9, <1>2 DEF Reconnect, NoGreeting
  <2> QED  BY <1>3, <1>9, <2>1 DEF Reconnect, server, database, trayVars
<1> QED  BY <1>4, <1>5, <1>6, <1>7, <1>8, <1>9 DEF Next

-----------------------------------------------------------------------------
(* The theorem *)

LEMMA SeedTyped ==
    ASSUME Init
    PROVE  DbInv
<1>1. SeededTasks \in [DOMAIN SeededTasks -> Row] /\ DOMAIN SeededTasks \in SUBSET Task
      /\ IsFiniteSet(DOMAIN SeededTasks)
  BY SeededTasksAssumption DEF IsTable
<1>2. tasks = SeededTasks /\ used = DOMAIN SeededTasks /\ stamp = 1
  BY DEF Init, WritesInit
<1>3. notes = SeededNotes \/ notes = << >>
  BY DEF Init
<1>4. SeededNotes \in NotesT /\ IsFiniteSet(DOMAIN SeededNotes)
      /\ \A n \in DOMAIN SeededNotes : n.task \in DOMAIN SeededTasks
  <2>1. DOMAIN SeededNotes \in SUBSET NoteT
    BY <1>1, SeededNotesAssumption DEF NoteT
  <2> QED  BY <2>1, SeededNotesAssumption, NotesIntro
<1>5. << >> \in NotesT /\ DOMAIN << >> = {} /\ IsFiniteSet({})
  <2>1. << >> \in [{} -> BOOLEAN]
    OBVIOUS
  <2> QED  BY <2>1, NotesIntro, FS_EmptySet
<1>6. notes \in NotesT /\ IsFiniteSet(DOMAIN notes) /\ \A n \in DOMAIN notes : n.task \in Live
  BY <1>2, <1>3, <1>4, <1>5 DEF Live
<1> QED  BY <1>1, <1>2, <1>6, TableIntro DEF DbInv, Live

LEMMA InitTyped ==
    ASSUME Init
    PROVE  TypeInv
<1>1. DbInv
  BY SeedTyped
<1>2. PICK tab \in Tab :
        /\ me = tab.user /\ page = tab.page /\ up = tab.loaded /\ started = tab.started
        /\ shown = IF tab.loaded /\ page.kind # "tray" THEN Answer(page) ELSE Nothing
        /\ asked = IF tab.loaded \/ page.kind = "tray" THEN {} ELSE {Request(page)}
  BY DEF Init, PagesInit
<1>3. me \in User /\ page \in Page /\ up \in BOOLEAN
  BY <1>2, TabAssumption
<1>4. WriteInv
  <2>1. write = [w \in Writer |-> Idle]
    BY DEF Init, WritesInit
  <2> QED  BY <2>1 DEF WriteInv, WriteT, Here, Idle
<1>5. WireInv
  BY <1>3 DEF Init, WritesInit, WireInv
<1>6. PageInv
  <2>1. shown \in {Nothing} \cup RowsT \cup DashboardT /\ (shown.kind = "dashboard" => page.kind = "dashboard")
    <3>1. Nothing.kind # "dashboard"
      BY DEF Nothing
    <3> QED  BY <1>1, <1>2, <3>1, AnswerTyped
  <2>2. failed = FALSE /\ timer = FALSE /\ news = [t \in Task |-> 0] /\ crossed = {} /\ missed = FALSE
    BY DEF Init, PagesInit
  <2> QED  BY <1>3, <2>1, <2>2 DEF PageInv
<1>7. RequestInv
  BY <1>2, <1>3, RequestTyped DEF RequestInv
<1>8. TrayInv /\ QuietInv
  <2>1. /\ items = (IF up THEN notes ELSE << >>) /\ unread = (IF up THEN Unread ELSE 0)
        /\ calls = IF page.kind = "tray" /\ ~up THEN {Call("refresh", All, TRUE)} ELSE {}
        /\ greeting = NoGreeting /\ last = 0 /\ newest = 0 /\ silent = 0 /\ tangled = FALSE
    BY DEF Init, TrayInit
  <2>2. << >> \in NotesT
    <3>1. << >> \in [{} -> BOOLEAN]
      OBVIOUS
    <3> QED  BY <3>1, NotesIntro
  <2>3. items \in NotesT /\ unread \in Nat
    BY <1>1, <2>1, <2>2, UnreadTyped DEF DbInv
  <2>4. calls \subseteq CallT
    BY <2>1, <2>3, CallTyped DEF IdT
  <2>8. greeting \in GreetingT /\ last = 0 /\ newest = 0 /\ silent = 0 /\ tangled \in BOOLEAN
    BY <2>1 DEF GreetingT
  <2>5. TrayInv
    BY <2>3, <2>4, <2>8 DEF TrayInv
  <2>6. ASSUME page.kind # "tray"  PROVE notes = << >> /\ items = << >> /\ unread = 0
    <3>1. notes = << >>
      BY <2>6 DEF Init
    <3>2. {n \in DOMAIN notes : ~notes[n]} = {}
      BY <3>1
    <3>3. Unread = 0
      BY <3>2, FS_EmptySet DEF Unread
    <3> QED  BY <2>1, <3>1, <3>3
  <2>9. ASSUME page.kind # "tray"
        PROVE  trayVars = <<<< >>, 0, {}, NoGreeting, 0, 0, 0, FALSE>>
    BY <2>1, <2>6, <2>9 DEF trayVars
  <2>10. DOMAIN << >> = {}
    OBVIOUS
  <2>7. QuietInv
    BY <2>6, <2>9, <2>10 DEF QuietInv
  <2> QED  BY <2>5, <2>7
<1> QED  BY <1>1, <1>3, <1>4, <1>5, <1>6, <1>7, <1>8 DEF TypeInv

LEMMA StutterTyped ==
    ASSUME TypeInv, UNCHANGED vars
    PROVE  TypeInv'
<1> USE DEF vars, server, database, wire, pageVars, trayVars
<1>1. DbInv' /\ WireInv' /\ PageInv' /\ RequestInv'
  BY DEF TypeInv, DbInv, Live, WireInv, PageInv, RequestInv
<1>2. WriteInv'
  BY DEF TypeInv, WriteInv, Here
<1>3. TrayInv' /\ QuietInv'
  BY DEF TypeInv, TrayInv, QuietInv
<1> QED  BY <1>1, <1>2, <1>3 DEF TypeInv

LEMMA TypeStep ==
    ASSUME TypeInv, [Next]_vars
    PROVE  TypeInv'
<1>1. CASE Next
  BY <1>1, DbStep, WriteStep, WireStep, PageInvStep, RequestStep, TrayStep, QuietStep DEF TypeInv
<1>2. CASE UNCHANGED vars
  BY <1>2, StutterTyped
<1> QED  BY <1>1, <1>2

THEOREM Typed == Spec => []TypeInv
BY InitTyped, TypeStep, PTL DEF Spec

\* The types the run checks follow.
LEMMA TypedIsOK ==
    ASSUME TypeInv
    PROVE  TypeOK
<1> USE DEF TypeInv
<1>1. WritesTypeOK
  <2>1. Live \subseteq used /\ used \subseteq Task /\ \A t \in Live : tasks[t] \in Row
    BY TableTyped DEF DbInv, Live
  <2>2. \A n \in DOMAIN notes : n.task \in Live /\ notes[n] \in BOOLEAN
    BY NotesTyped DEF DbInv
  <2>3. \A w \in Writer :
           write[w].pc \in {"idle", "update", "delete", "publish", "found", "counted"}
    BY WriteKinds
  <2>4. \A i \in DOMAIN line : line[i].kind \in {"activity", "changed", "new", "count"}
    <3>1. \A i \in DOMAIN line : line[i] \in MessageT
      BY DEF WireInv
    <3>2. \A m \in MessageT : m.kind \in {"activity", "changed", "new", "count"}
      BY DEF MessageT, ChangeT
    <3> QED  BY <3>1, <3>2
  <2> QED  BY <2>1, <2>2, <2>3, <2>4 DEF WritesTypeOK
<1>2. Cardinality({r \in asked : r.latest}) <= 1
  <2> DEFINE newest1 == {r \in asked : r.latest}
  <2>1. CASE newest1 = {}
    BY <2>1, FS_EmptySet
  <2>2. CASE newest1 # {}
    <3>1. PICK r \in newest1 : TRUE
      BY <2>2
    <3>2. newest1 = {r}
      BY <3>1 DEF RequestInv
    <3>3. Cardinality({r}) = 1
      BY FS_Singleton
    <3> QED  BY <3>2, <3>3
  <2> QED  BY <2>1, <2>2
<1>3. PagesTypeOK
  <2>1. page.kind \in PageKind
    BY PageShape DEF PageInv, PageKind, Lists
  <2>2. \A r \in asked : r.pc \in {"sent", "half", "answered"}
    BY RequestShape DEF RequestInv
  <2>3. shown.kind \in {"nothing", "rows", "dashboard"}
    BY DEF PageInv, Nothing, RowsT, DashboardT
  <2>4. HasRows => DOMAIN shown.rows \subseteq Task
    <3>1. HasRows => shown \in RowsT
      BY DEF HasRows, PageInv, Nothing, DashboardT
    <3> QED  BY <3>1, TableTyped DEF RowsT
  <2> QED  BY <1>2, <2>1, <2>2, <2>3, <2>4 DEF PagesTypeOK, PageInv
<1>4. TrayTypeOK
  <2>1. \A n \in DOMAIN items : items[n] \in BOOLEAN
    BY NotesTyped DEF TrayInv
  <2>2. greeting.pc \in {"none", "due", "counted"}
    BY DEF TrayInv, GreetingT, NoGreeting
  <2>3. \A c \in calls : c.kind \in {"mark", "all", "refresh"}
    BY CallShape DEF TrayInv
  <2> QED  BY <2>1, <2>2, <2>3 DEF TrayTypeOK, TrayInv, QuietInv
<1> QED  BY <1>1, <1>3, <1>4 DEF TypeOK, PageInv, WireInv

\* The database, the writes, the line, the page and the tray hold what they
\* should in every reachable state, for any tasks, bodies, writers and tabs: at
\* most one request is the one whose answer counts, every notification is about a
\* task that exists, and only a dashboard shows a dashboard.
THEOREM LiveTypeCorrect == Spec => []TypeOK
BY Typed, TypedIsOK, PTL

-----------------------------------------------------------------------------
(* What the controls offer *)

LEMMA OfferIsAllowed ==
    ASSUME NEW p, p.role \in Role, NEW row \in Row, NEW patch \in Patch
    PROVE  Offered(p, row, patch) <=> MayApplyPatch(p, row.project, row.assignee, patch)
<1>1. /\ DOMAIN patch # {} /\ DOMAIN patch \subseteq Fields
      /\ "status" \in DOMAIN patch => patch["status"] \in Status
  BY PatchAssumption
<1>2. CASE IsDeveloper(p)
  <2>1. Offered(p, row, patch) <=> /\ DOMAIN patch = {"status"} /\ row.assignee = p.id
                                   /\ patch["status"] \in Status \ {"DONE"}
    BY <1>2 DEF Offered, SelectOffers, OffersFields, OffersUpdate, AllowedStatusTargets
  <2>2. MayApplyPatch(p, row.project, row.assignee, patch)
        <=> /\ row.assignee = p.id /\ DOMAIN patch \subseteq {"status"}
            /\ "status" \in DOMAIN patch => patch["status"] # "DONE"
    BY <1>2 DEF MayApplyPatch, CanUpdateTask, WritableFields, ForbiddenStatuses, IsDeveloper,
                IsAdmin, IsManager
  <2> QED  BY <1>1, <2>1, <2>2
<1>3. CASE ~IsDeveloper(p)
  <2>1. Offered(p, row, patch) <=> OffersManaging(p, row)
    BY <1>3 DEF Offered, SelectOffers, OffersFields, OffersUpdate
  <2>2. MayApplyPatch(p, row.project, row.assignee, patch) <=> OffersManaging(p, row)
    BY <1>1, <1>3 DEF MayApplyPatch, CanUpdateTask, WritableFields, ForbiddenStatuses,
                      OffersManaging
  <2> QED  BY <2>1, <2>2
<1> QED  BY <1>2, <1>3

LEMMA TypedIsOffered ==
    ASSUME TypeInv
    PROVE  OfferedIsAllowed
<1>1. Me.role \in Role
  BY RoleAssumption DEF TypeInv, PageInv, Me, PrincipalOf
<1>2. SUFFICES ASSUME HasRows, NEW t \in DOMAIN shown.rows
      PROVE  /\ \A patch \in Patch :
                   Offered(Me, shown.rows[t], patch)
                   <=> MayApplyPatch(Me, shown.rows[t].project, shown.rows[t].assignee, patch)
             /\ OffersManaging(Me, shown.rows[t]) <=> CanDeleteTask(Me, shown.rows[t].project)
  BY DEF OfferedIsAllowed
<1>3. shown \in RowsT
  BY <1>2 DEF HasRows, TypeInv, PageInv, Nothing, DashboardT
<1>4. shown.rows[t] \in Row
  BY <1>2, <1>3, TableTyped DEF RowsT
<1>5. OffersManaging(Me, shown.rows[t]) <=> CanDeleteTask(Me, shown.rows[t].project)
  BY DEF OffersManaging, CanDeleteTask, CanManageProject
<1> HIDE DEF Me
<1> QED  BY <1>1, <1>4, <1>5, OfferIsAllowed

\* permissions.ts and rbac.ts agree: on every row a page shows, however stale,
\* the controls offer what the API would accept of this user for such a row, and
\* nothing else.
THEOREM ControlsAgree == Spec => []OfferedIsAllowed
BY Typed, TypedIsOffered, PTL

-----------------------------------------------------------------------------
(* How writes, notifications and the line move *)

\* Only the write that steps changes.
LEMMA WriteMoves ==
    ASSUME TypeInv, Next, NEW v \in Writer
    PROVE  write'[v] = write[v] \/ Begin(v) \/ Commit(v) \/ Drop(v) \/ Publish(v) \/ Reply(v)
<1> DEFINE Frame(w) == \A x \in Writer : x # w => write'[x] = write[x]
<1>1. ASSUME NEW w \in Writer, \E q : write' = [write EXCEPT ![w] = q]  PROVE Frame(w)
  BY <1>1 DEF TypeInv, WriteInv
<1>2. ASSUME NEW w \in Writer, Begin(w)  PROVE Frame(w)
  <2>1. \E q : write' = [write EXCEPT ![w] = q]
    BY <1>2 DEF Begin, BeginUpdate, BeginDelete
  <2> QED  BY <1>1, <2>1
<1>3. ASSUME NEW w \in Writer, Commit(w)  PROVE Frame(w)
  <2>1. CASE Create(w)
    BY <1>1, <2>1, CreateShape DEF Creates
  <2>2. CASE CommitUpdate(w) \/ CommitDelete(w)
    <3>1. \E q : write' = [write EXCEPT ![w] = q]
      BY <2>2 DEF CommitUpdate, CommitDelete
    <3> QED  BY <1>1, <3>1
  <2>3. CASE SweepClaim(w)
    <3>1. \E q : write' = [write EXCEPT ![w] = q]
      BY <2>3, SweepShape DEF TypeInv
    <3> QED  BY <1>1, <3>1
  <2> QED  BY <1>3, <2>1, <2>2, <2>3 DEF Commit
<1>4. ASSUME NEW w \in Writer, Drop(w)  PROVE Frame(w)
  <2>1. \E q : write' = [write EXCEPT ![w] = q]
    BY <1>4 DEF Drop
  <2> QED  BY <1>1, <2>1
<1>5. ASSUME NEW w \in Writer, Publish(w)  PROVE Frame(w)
  <2>1. CASE PublishActivity(w)
    <3>1. write' = [write EXCEPT ![w] = Announced(write[w])]
      BY <2>1 DEF PublishActivity, Announced
    <3> QED  BY <1>1, <3>1
  <2>2. ASSUME PublishChanged(w) \/ FindNotes(w) \/ CountNotes(w) \/ PushNotes(w)  PROVE Frame(w)
    <3>1. \E q : write' = [write EXCEPT ![w] = q]
      BY <2>2 DEF PublishChanged, FindNotes, CountNotes, PushNotes
    <3> QED  BY <1>1, <3>1
  <2> QED  BY <1>5, <2>1, <2>2 DEF Publish
<1>6. ASSUME NEW w \in Writer, Reply(w)  PROVE Frame(w)
  BY <1>1, <1>6 DEF Reply
<1> HIDE DEF Frame
<1>7. ASSUME UNCHANGED write  PROVE write'[v] = write[v]
  BY <1>7
<1>8. ASSUME NEW w \in Writer, Begin(w) \/ Commit(w) \/ Drop(w) \/ Publish(w) \/ Reply(w)
      PROVE  write'[v] = write[v] \/ Begin(v) \/ Commit(v) \/ Drop(v) \/ Publish(v) \/ Reply(v)
  BY <1>2, <1>3, <1>4, <1>5, <1>6, <1>8 DEF Frame
<1>9. CASE Browse
  <2>1. ASSUME NEW r \in asked, Serve(r) \/ ServeTiles(r) \/ ServeCards(r) \/ Arrive(r) \/ Fail(r)
        PROVE  UNCHANGED write
    BY <2>1 DEF Serve, ServeTiles, ServeCards, Arrive, Fail, server
  <2>2. ASSUME Retry \/ TimerFires \/ ChangeFilter \/ Deliver
        PROVE  UNCHANGED write
    BY <2>2 DEF Retry, TimerFires, ChangeFilter, Deliver, server
  <2> QED  BY <1>7, <1>8, <1>9, <2>1, <2>2 DEF Browse
<1>10. CASE SilentSweep \/ Notice \/ Disconnect \/ Reconnect
  BY <1>7, <1>10, NoticeFrame DEF SilentSweep, SweepClear, Disconnect, Reconnect, server
<1> QED  BY <1>8, <1>9, <1>10 DEF Next

\* What a commit does to the notifications: some are put in, and the write has
\* them to tell of; or those of a task go.
NotifiesOf(w, ids) ==
    /\ ids \in SUBSET NoteT /\ \A n \in ids : n.at = stamp + 1
    /\ stamp' = stamp + 1
    /\ write'[w].pc \in {"idle", "publish"}
    /\ ids # {} => write'[w].pc = "publish" /\ write'[w].ids = ids
    /\ \/ notes' = Inserted(ids)
       \/ ids = {} /\ \E kept \in SUBSET DOMAIN notes : notes' = Restrict(notes, kept)

LEMMA SettledKeeps ==
    ASSUME NEW jobs, NEW ids, NEW here
    PROVE  LET q == Settled(Publishing(jobs, ids, here))
           IN  q.pc \in {"idle", "publish"} /\ (ids # {} => q.pc = "publish" /\ q.ids = ids)
BY DEF Settled, Publishing, Idle

LEMMA CommitNotes ==
    ASSUME TypeInv, NEW w \in Writer, Commit(w)
    PROVE  \E ids : NotifiesOf(w, ids)
<1> USE DEF TypeInv
<1>1. stamp \in Nat
  BY DEF DbInv
<1>2. ASSUME NEW jobs, NEW ids, NEW here,
             write' = [write EXCEPT ![w] = Settled(Publishing(jobs, ids, here))]
      PROVE  write'[w].pc \in {"idle", "publish"}
             /\ (ids # {} => write'[w].pc = "publish" /\ write'[w].ids = ids)
  <2>1. write'[w] = Settled(Publishing(jobs, ids, here))
    BY <1>2 DEF WriteInv
  <2> QED  BY <2>1, SettledKeeps
<1>3. CASE Create(w)
  <2>1. PICK u \in Author, t \in Task \ used, draft \in Draft : Creates(w, u, t, draft)
    BY <1>3, CreateShape
  <2> DEFINE ids == Notified("TASK_ASSIGNED", t, draft.assignee, u)
             jobs == <<Job(t, Drafted(draft), u, NoOne, FALSE, TRUE)>>
  <2>2. ids \in SUBSET NoteT /\ \A n \in ids : n.at = stamp + 1
    BY <1>1, NotifiedTyped DEF NoteType
  <2>3. notes' = Inserted(ids) /\ stamp' = stamp + 1
        /\ write' = [write EXCEPT ![w] = Settled(Publishing(jobs, ids, FALSE))]
    BY <2>1 DEF Creates
  <2> HIDE DEF ids, jobs
  <2> QED  BY <1>2, <2>2, <2>3 DEF NotifiesOf
<1>4. CASE CommitUpdate(w)
  <2> DEFINE ids == UpdateNotes(write[w])
             jobs == <<Job(write[w].task, Updated(write[w], tasks[write[w].task]), write[w].actor,
                           write[w].seen.assignee, FALSE, Logged(write[w]))>>
  <2>1. write[w] \in UpdateT
    BY <1>4, UpdateDb
  <2>2. ids \in SUBSET NoteT /\ \A n \in ids : n.at = stamp + 1
    BY <1>1, <2>1, UpdateNotesTyped
  <2>3. notes' = Inserted(ids) /\ stamp' = stamp + 1
        /\ write' = [write EXCEPT ![w] = Settled(Publishing(jobs, ids, write[w].here))]
    BY <1>4 DEF CommitUpdate
  <2> HIDE DEF ids, jobs
  <2> QED  BY <1>2, <2>2, <2>3 DEF NotifiesOf
<1>5. CASE CommitDelete(w)
  <2> DEFINE jobs == <<Job(write[w].task, write[w].seen, write[w].actor, NoOne, TRUE, TRUE)>>
             kept == {n \in DOMAIN notes : n.task # write[w].task}
  <2>1. notes' = Restrict(notes, kept) /\ stamp' = stamp + 1
        /\ write' = [write EXCEPT ![w] = Settled(Publishing(jobs, {}, write[w].here))]
    BY <1>5 DEF CommitDelete, RestrictDomain
  <2>2. kept \in SUBSET DOMAIN notes
    OBVIOUS
  <2> HIDE DEF jobs, kept
  <2>3. NotifiesOf(w, {})
    BY <1>2, <2>1, <2>2 DEF NotifiesOf
  <2> QED  BY <2>3
<1>6. CASE SweepClaim(w)
  <2> DEFINE due == {t \in Live : Due(tasks[t])}
             ids == SweepNotes(due)
  <2>1. due \in SUBSET Task /\ IsFiniteSet(due) /\ notes' = Inserted(ids) /\ stamp' = stamp + 1
    BY <1>6, SweepShape
  <2>2. PICK order \in [1 .. Cardinality(due) -> due] :
           write' = [write EXCEPT ![w] = Settled(Publishing(SweepJobs(due, order), ids, FALSE))]
    BY <1>6, SweepShape
  <2> HIDE DEF due
  <2>3. ids \in SUBSET NoteT /\ \A n \in ids : n.at = stamp + 1
    BY <1>1, <2>1, SweepNotesTyped
  <2> HIDE DEF ids
  <2> QED  BY <1>2, <2>1, <2>2, <2>3 DEF NotifiesOf
<1> QED  BY <1>3, <1>4, <1>5, <1>6 DEF Commit

\* What a step leaves of the notifications there were: a read one stays read, and
\* a new one is of a later commit than all before.
NotesGoOn ==
    /\ stamp <= stamp'
    /\ \A n \in DOMAIN notes' :
          IF n \in DOMAIN notes /\ n.at <= stamp THEN notes[n] => notes'[n] ELSE n.at = stamp' /\ n.at > stamp

LEMMA NotesMove ==
    ASSUME TypeInv, Next, \A n \in DOMAIN notes : n.at <= stamp
    PROVE  NotesGoOn
<1> USE DEF TypeInv
<1>1. stamp \in Nat /\ notes \in NotesT
  BY DEF DbInv
<1>2. ASSUME UNCHANGED <<notes, stamp>>  PROVE NotesGoOn
  BY <1>1, <1>2 DEF NotesGoOn
<1>3. ASSUME NEW w \in Writer, Commit(w)  PROVE NotesGoOn
  <2>1. PICK ids : NotifiesOf(w, ids)
    BY <1>3, CommitNotes
  <2>2. CASE notes' = Inserted(ids)
    <3>1. \A n \in ids : n.at = stamp' /\ n.at > stamp
      BY <1>1, <2>1 DEF NotifiesOf
    <3>2. DOMAIN notes' = DOMAIN notes \cup ids
          /\ \A n \in DOMAIN notes' : notes'[n] = IF n \in ids THEN FALSE ELSE notes[n]
      BY <2>2 DEF Inserted
    <3>3. ASSUME NEW n \in DOMAIN notes'
          PROVE  IF n \in DOMAIN notes /\ n.at <= stamp THEN notes[n] => notes'[n]
                 ELSE n.at = stamp' /\ n.at > stamp
      <4>1. CASE n \in ids
        <5>1. ~(n.at <= stamp)
          BY <1>1, <2>1, <4>1 DEF NotifiesOf
        <5> QED  BY <3>1, <4>1, <5>1
      <4>2. CASE n \notin ids
        <5>1. n \in DOMAIN notes /\ notes'[n] = notes[n]
          BY <3>2, <4>2
        <5> QED  BY <5>1
      <4> QED  BY <4>1, <4>2
    <3>4. stamp <= stamp'
      BY <1>1, <2>1 DEF NotifiesOf
    <3> QED  BY <3>3, <3>4 DEF NotesGoOn
  <2>3. ASSUME NEW kept \in SUBSET DOMAIN notes, notes' = Restrict(notes, kept)
        PROVE  NotesGoOn
    <3>1. DOMAIN notes' = kept /\ \A n \in kept : notes'[n] = notes[n]
      BY <2>3 DEF Restrict
    <3> QED  BY <1>1, <2>1, <3>1 DEF NotesGoOn, NotifiesOf
  <2> QED  BY <2>1, <2>2, <2>3 DEF NotifiesOf
<1>4. CASE SilentSweep
  <2>1. notes' = notes /\ stamp' = stamp + 1
    BY <1>4 DEF SilentSweep, SweepClear
  <2> QED  BY <1>1, <2>1 DEF NotesGoOn
<1>5. ASSUME NEW c \in calls, ServeMark(c)  PROVE NotesGoOn
  <2>1. \/ UNCHANGED <<notes, stamp>>
        \/ /\ notes' = [n \in DOMAIN notes |-> notes[n] \/ c.kind = "all" \/ n = c.id]
           /\ stamp' \in {stamp, stamp + 1}
    BY <1>5 DEF ServeMark
  <2>2. ASSUME notes' = [n \in DOMAIN notes |-> notes[n] \/ c.kind = "all" \/ n = c.id]
        PROVE  DOMAIN notes' = DOMAIN notes /\ \A n \in DOMAIN notes' : notes[n] => notes'[n]
    BY <2>2
  <2> QED  BY <1>1, <1>2, <2>1, <2>2 DEF NotesGoOn
<1>6. ASSUME Refresh \/ MarkRead \/ MarkAllRead \/ MarkElsewhere \/ Greet \/ DeliverNote
      PROVE  UNCHANGED <<notes, stamp>>
  BY <1>6 DEF Refresh, MarkRead, MarkAllRead, MarkElsewhere, Greet, DeliverNote, server, database
<1>7. ASSUME NEW c \in calls, CountMarked(c) \/ PushCount(c) \/ ServeRefresh(c)
                              \/ CallSucceeds(c) \/ CallFails(c)
      PROVE  UNCHANGED <<notes, stamp>>
  BY <1>7 DEF CountMarked, PushCount, ServeRefresh, CallSucceeds, CallFails, server, database
<1>8. CASE Notice
  BY <1>2, <1>5, <1>6, <1>7, <1>8 DEF Notice
<1>9. ASSUME NEW w \in Writer, Begin(w) \/ (Drop(w) /\ UNCHANGED wire /\ Unseen) \/ Publish(w)
      PROVE  UNCHANGED <<notes, stamp>>
  BY <1>9, BeginFrame, DropFrame, PublishFrame DEF database
<1>10. CASE Browse
  BY <1>2, <1>10, BrowseFrame DEF database
<1>11. CASE Disconnect \/ Reconnect
  BY <1>2, <1>11 DEF Disconnect, Reconnect, server, database
<1> QED  BY <1>2, <1>3, <1>4, <1>8, <1>9, <1>10, <1>11 DEF Next

-----------------------------------------------------------------------------
(* The tray is honest.  What came from the database says read only of what  *)
(* is read, for good; what the tray shows read and is not yet is what a     *)
(* call that has not been served will mark.                                *)

Dated(f, s) == \A n \in DOMAIN f : n.at <= s
Certain(f, s, m) == \A n \in DOMAIN f : n.at <= s /\ (n \in DOMAIN m /\ f[n] => m[n])

CallHonest(c, s, m, lax) ==
    /\ c.kind = "all" => /\ c.here /\ c.id = All /\ Dated(c.before, s)
                         /\ lax \/ Certain(c.before, s, m)
    /\ c.kind = "refresh" /\ c.pc = "listed" => Certain(c.before, s, m)
    /\ c.kind = "refresh" /\ c.pc = "answered" => Certain(c.rows, s, m)

Covers(c, n) == c.here /\ c.pc = "sent" /\ ((c.kind = "mark" /\ c.id = n) \/ c.kind = "all")

Explained ==
    \/ tangled
    \/ \A n \in DOMAIN items \cap DOMAIN notes :
          items[n] /\ ~notes[n] => \E c \in calls : Covers(c, n)

WritesCertain ==
    \A w \in Writer : write[w].pc \in {"found", "counted"} => Certain(write[w].rows, stamp, notes)
LineCertain == \A i \in DOMAIN line : line[i].kind = "new" => Certain(line[i].rows, stamp, notes)

ItemsHonest ==
    /\ Dated(items, stamp)
    /\ \A c \in calls : CallHonest(c, stamp, notes, tangled)
    /\ Explained

HonestInv == Dated(notes, stamp) /\ WritesCertain /\ LineCertain /\ ItemsHonest

LEMMA CertainKept ==
    ASSUME TypeInv, NotesGoOn, stamp' \in Nat, NEW f \in NotesT, Certain(f, stamp, notes)
    PROVE  Certain(f, stamp', notes')
<1>1. ASSUME NEW n \in DOMAIN f
      PROVE  n.at <= stamp' /\ (n \in DOMAIN notes' /\ f[n] => notes'[n])
  <2>1. n.at \in Nat /\ stamp \in Nat
    BY NotesTyped DEF NoteT, TypeInv, DbInv
  <2>2. n.at <= stamp /\ (n \in DOMAIN notes /\ f[n] => notes[n])
    BY DEF Certain
  <2>3. n.at <= stamp'
    BY <2>1, <2>2 DEF NotesGoOn
  <2>4. ASSUME n \in DOMAIN notes'  PROVE n \in DOMAIN notes /\ (notes[n] => notes'[n])
    <3>1. ~(n.at > stamp)
      BY <2>1, <2>2 DEF TypeInv, DbInv
    <3> QED  BY <2>2, <2>4, <3>1 DEF NotesGoOn
  <2> QED  BY <2>2, <2>3, <2>4
<1> QED  BY <1>1 DEF Certain

LEMMA DatedKept ==
    ASSUME TypeInv, NotesGoOn, stamp' \in Nat, NEW f \in NotesT, Dated(f, stamp)
    PROVE  Dated(f, stamp')
<1>1. ASSUME NEW n \in DOMAIN f  PROVE n.at <= stamp'
  <2>1. n.at \in Nat /\ stamp \in Nat
    BY NotesTyped DEF NoteT, TypeInv, DbInv
  <2> QED  BY <2>1 DEF Dated, NotesGoOn
<1> QED  BY <1>1 DEF Dated

LEMMA NotesDated ==
    ASSUME TypeInv, TypeInv', NotesGoOn, Dated(notes, stamp)
    PROVE  Dated(notes', stamp')
<1>1. ASSUME NEW n \in DOMAIN notes'  PROVE n.at <= stamp'
  <2>1. n.at \in Nat /\ stamp \in Nat /\ stamp' \in Nat
    BY NotesTyped DEF NoteT, TypeInv, DbInv
  <2> QED  BY <2>1 DEF NotesGoOn
<1> QED  BY <1>1 DEF Dated

\* What is read now is certain.
LEMMA ReadIsCertain ==
    ASSUME Dated(notes, stamp), NEW f, DOMAIN f \subseteq DOMAIN notes, \A n \in DOMAIN f : f[n] = notes[n]
    PROVE  Certain(f, stamp, notes)
BY DEF Certain, Dated

\* A write has notifications to tell of by reading them, and counts once.
LEMMA WriteTells ==
    ASSUME TypeInv, Next, NEW w \in Writer, write'[w].pc \in {"found", "counted"}
    PROVE  write'[w] = write[w] \/ FindNotes(w) \/ CountNotes(w)
<1>1. ~Begin(w)
  BY DEF Begin, BeginUpdate, BeginDelete, TypeInv, WriteInv
<1>2. ~Commit(w)
  BY CommitNotes DEF NotifiesOf
<1>3. ~Drop(w)
  <2>1. ASSUME Drop(w)  PROVE FALSE
    <3> DEFINE p == Publishing(<<Job(write[w].task, write[w].seen, write[w].actor, NoOne, FALSE, FALSE)>>,
                               {}, TRUE)
               d == [p EXCEPT !.jobs = << >>]
    <3>1. write' = [write EXCEPT ![w] = IF write[w].here /\ write[w].task \in Live THEN d ELSE Idle]
      BY <2>1 DEF Drop
    <3>2. d.pc = "publish"
      BY DEF Publishing
    <3> HIDE DEF d
    <3>3. write'[w] = d \/ write'[w] = Idle
      BY <3>1 DEF TypeInv, WriteInv
    <3>4. Idle.pc = "idle"
      BY DEF Idle
    <3> QED  BY <3>2, <3>3, <3>4
  <2> QED  BY <2>1
<1>4. ~Reply(w) /\ ~PushNotes(w)
  BY DEF Reply, PushNotes, TypeInv, WriteInv, Idle
<1>5. ~PublishActivity(w)
  <2>1. ASSUME PublishActivity(w)  PROVE FALSE
    <3>1. write[w] \in PublicationT /\ write[w].jobs # << >>
      BY <2>1, PublishesShape DEF PublishActivity, TypeInv
    <3>2. write'[w] = Announced(write[w])
      BY <2>1 DEF PublishActivity, Announced, TypeInv, WriteInv
    <3>3. write'[w] \in PublicationT
      BY <3>1, <3>2, AnnouncedTyped
    <3> QED  BY <3>3 DEF PublicationT
  <2> QED  BY <2>1
<1>6. ~PublishChanged(w)
  <2>1. ASSUME PublishChanged(w)  PROVE FALSE
    <3>1. write[w] \in PublicationT /\ write[w].jobs # << >>
      BY <2>1, PublishesShape DEF PublishChanged, TypeInv
    <3>2. write'[w] = Settled(Shortened(write[w]))
      BY <2>1 DEF PublishChanged, Shortened, TypeInv, WriteInv
    <3>3. write'[w] \in PublicationT \cup {Idle}
      BY <3>1, <3>2, ShortenedTyped, SettledTyped
    <3> QED  BY <3>3 DEF PublicationT, Idle
  <2> QED  BY <2>1
<1> QED  BY <1>1, <1>2, <1>3, <1>4, <1>5, <1>6, WriteMoves DEF Publish

LEMMA WritesStayCertain ==
    ASSUME TypeInv, TypeInv', Next, HonestInv, NotesGoOn
    PROVE  WritesCertain'
<1>1. SUFFICES ASSUME NEW w \in Writer, write'[w].pc \in {"found", "counted"}
               PROVE  Certain(write'[w].rows, stamp', notes')
  BY DEF WritesCertain
<1>2. stamp' \in Nat
  BY DEF TypeInv, DbInv
<1>3. CASE write'[w] = write[w]
  <2>1. write[w].rows \in NotesT
    BY <1>1, <1>3, WriteKinds DEF TypeInv, FoundT, CountedT
  <2> QED  BY <1>1, <1>2, <1>3, <2>1, CertainKept DEF HonestInv, WritesCertain
<1>4. CASE CountNotes(w)
  <2>1. write[w].pc = "found" /\ write'[w].rows = write[w].rows
    BY <1>4 DEF CountNotes, TypeInv, WriteInv
  <2>2. write[w].rows \in NotesT
    BY <2>1, WriteKinds DEF TypeInv, FoundT
  <2> QED  BY <1>2, <2>1, <2>2, CertainKept DEF HonestInv, WritesCertain
<1>5. CASE FindNotes(w)
  <2> DEFINE found == write[w].ids \cap DOMAIN notes
  <2>1. UNCHANGED <<notes, stamp>>
    BY <1>5 DEF FindNotes, database
  <2>2. write'[w] = IF found = {} THEN Idle ELSE [pc |-> "found", rows |-> Restrict(notes, found)]
    BY <1>5 DEF FindNotes, TypeInv, WriteInv
  <2>3. write'[w].rows = Restrict(notes, found)
    BY <1>1, <2>2 DEF Idle
  <2>4. DOMAIN Restrict(notes, found) = found /\ \A n \in found : Restrict(notes, found)[n] = notes[n]
    BY DEF Restrict
  <2>5. found \subseteq DOMAIN notes
    OBVIOUS
  <2> HIDE DEF found
  <2>6. Certain(Restrict(notes, found), stamp, notes)
    BY <2>4, <2>5, ReadIsCertain DEF HonestInv
  <2> QED  BY <2>1, <2>3, <2>6
<1> QED  BY <1>1, <1>3, <1>4, <1>5, WriteTells

\* Where a message on the line comes from.
LEMMA ConcatMoves ==
    ASSUME NEW T, NEW s \in Seq(T), NEW t \in Seq(T)
    PROVE  /\ \A i \in DOMAIN (s \o t) : \/ i \in DOMAIN s /\ (s \o t)[i] = s[i]
                                         \/ \E j \in DOMAIN t : (s \o t)[i] = t[j]
           /\ \A i \in DOMAIN s : i \in DOMAIN (s \o t) /\ (s \o t)[i] = s[i]
           /\ \A j \in DOMAIN t : \E i \in DOMAIN (s \o t) : (s \o t)[i] = t[j]
<1>1. Len(s) \in Nat /\ Len(t) \in Nat /\ DOMAIN s = 1 .. Len(s) /\ DOMAIN t = 1 .. Len(t)
      /\ DOMAIN (s \o t) = 1 .. (Len(s) + Len(t))
  OBVIOUS
<1>2. \A i \in 1 .. (Len(s) + Len(t)) : (s \o t)[i] = IF i <= Len(s) THEN s[i] ELSE t[i - Len(s)]
  OBVIOUS
<1>3. ASSUME NEW i \in DOMAIN (s \o t)
      PROVE  \/ i \in DOMAIN s /\ (s \o t)[i] = s[i]
             \/ \E j \in DOMAIN t : (s \o t)[i] = t[j]
  <2>1. CASE i <= Len(s)
    BY <1>1, <1>2, <2>1
  <2>2. CASE ~(i <= Len(s))
    <3>1. i - Len(s) \in DOMAIN t /\ (s \o t)[i] = t[i - Len(s)]
      BY <1>1, <1>2, <2>2
    <3> QED  BY <3>1
  <2> QED  BY <2>1, <2>2
<1>4. ASSUME NEW j \in DOMAIN t  PROVE \E i \in DOMAIN (s \o t) : (s \o t)[i] = t[j]
  <2>1. j + Len(s) \in DOMAIN (s \o t) /\ (s \o t)[j + Len(s)] = t[j]
    BY <1>1, <1>2
  <2> QED  BY <2>1
<1> QED  BY <1>1, <1>2, <1>3, <1>4

LEMMA TailMoves ==
    ASSUME NEW T, NEW s \in Seq(T), s # << >>
    PROVE  /\ \A i \in DOMAIN Tail(s) : i + 1 \in DOMAIN s /\ Tail(s)[i] = s[i + 1]
           /\ \A i \in DOMAIN s : s[i] = Head(s) \/ (i - 1 \in DOMAIN Tail(s) /\ Tail(s)[i - 1] = s[i])
           /\ 1 \in DOMAIN s /\ Head(s) = s[1]
OBVIOUS

LEMMA OneOrNone ==
    ASSUME NEW T, NEW m \in T, NEW s, s = <<m>> \/ s = << >>
    PROVE  s \in Seq(T) /\ \A j \in DOMAIN s : s[j] = m
<1>1. CASE s = <<m>>
  BY <1>1
<1>2. CASE s = << >>
  BY <1>2
<1> QED  BY <1>1, <1>2

LEMMA PushMoves ==
    ASSUME WireInv, NEW msgs \in Seq(MessageT), Push(msgs), NEW i \in DOMAIN line'
    PROVE  (\E j \in DOMAIN line : line'[i] = line[j]) \/ (\E j \in DOMAIN msgs : line'[i] = msgs[j])
<1>1. line \in Seq(MessageT)
  BY DEF WireInv
<1>2. CASE up
  <2>1. line' = line \o msgs
    BY <1>2 DEF Push
  <2>2. i \in DOMAIN (line \o msgs)
    BY <2>1
  <2>3. \/ i \in DOMAIN line /\ (line \o msgs)[i] = line[i]
        \/ \E j \in DOMAIN msgs : (line \o msgs)[i] = msgs[j]
    BY <1>1, <2>2, ConcatMoves
  <2> QED  BY <2>1, <2>3
<1>3. CASE ~up
  BY <1>3 DEF Push
<1> QED  BY <1>2, <1>3

News(m) ==
    \/ \E w \in Writer : PublishActivity(w) /\ m.kind = "activity"
    \/ \E w \in Writer : /\ PublishChanged(w)
                         /\ m = Change(Job1(w), Job1(w).gone) \/ m = Change(Job1(w), TRUE)
    \/ \E w \in Writer : /\ PushNotes(w)
                         /\ \/ m = [kind |-> "new", rows |-> write[w].rows]
                            \/ m = CountMessage(write[w].unread, write[w].at)
    \/ \E c \in calls : PushCount(c) /\ m = CountMessage(c.unread, c.at)
    \/ Greet /\ greeting.pc = "counted" /\ m = CountMessage(greeting.unread, greeting.at)

LEMMA LineMoves ==
    ASSUME TypeInv, Next, NEW i \in DOMAIN line'
    PROVE  (\E j \in DOMAIN line : line'[i] = line[j]) \/ News(line'[i])
<1> DEFINE Old == \E j \in DOMAIN line : line'[i] = line[j]
<1> USE DEF TypeInv
<1>0. line \in Seq(MessageT) /\ line' \in Seq(MessageT)
  BY WireStep DEF WireInv
<1>1. ASSUME UNCHANGED line  PROVE Old
  BY <1>1
<1>2. ASSUME line # << >>, line' = Tail(line)  PROVE Old
  <2>1. i + 1 \in DOMAIN line /\ line'[i] = line[i + 1]
    BY <1>0, <1>2, TailMoves
  <2> QED  BY <2>1
<1>3. ASSUME NEW w \in Writer, PublishActivity(w)  PROVE Old \/ News(line'[i])
  <2> DEFINE m == [kind |-> "activity", project |-> Job1(w).row.project]
             msgs == IF Addressed(Me, Job1(w).row, Job1(w).by) THEN Heeded(m) ELSE << >>
  <2>1. Job1(w) \in JobT
    BY <1>3, PublishesShape DEF PublishActivity
  <2>2. m \in MessageT /\ m.kind = "activity"
    BY <2>1, RowShape DEF JobT, MessageT
  <2>3. Push(msgs)
    BY <1>3 DEF PublishActivity
  <2> HIDE DEF m, TypeInv
  <2>4. msgs \in Seq(MessageT) /\ \A j \in DOMAIN msgs : msgs[j] = m
    BY <2>2, HeededTyped
  <2> HIDE DEF msgs
  <2>5. Old \/ line'[i] = m
    BY <2>3, <2>4, PushMoves DEF TypeInv
  <2> QED  BY <1>3, <2>2, <2>5 DEF News
<1>4. ASSUME NEW w \in Writer, PublishChanged(w)  PROVE Old \/ News(line'[i])
  <2> DEFINE m1 == Change(Job1(w), Job1(w).gone)
             m2 == Change(Job1(w), TRUE)
             A == IF Addressed(Me, Job1(w).row, NoOne) /\ PrincipalCanSeeTask(Me, Job1(w).row)
                  THEN Heeded(m1) ELSE << >>
             B == ToFormerAssignee(Job1(w))
  <2>1. Push(Told(w)) /\ Publishes(w, "changed") /\ Told(w) = A \o B
    BY <1>4 DEF PublishChanged, Told
  <2>2. Job1(w) \in JobT
    BY <2>1, PublishesShape
  <2>3. m1 \in MessageT /\ m2 \in MessageT
    BY <2>2, ChangeTyped DEF JobT
  <2>4. A \in Seq(MessageT) /\ \A j \in DOMAIN A : A[j] = m1
    BY <2>3, HeededTyped
  <2>5. B \in Seq(MessageT) /\ \A j \in DOMAIN B : B[j] = m2
    <3>1. B = Heeded(m2) \/ B = << >>
      BY DEF ToFormerAssignee
    <3> HIDE DEF B, m1, m2
    <3>2. Heeded(m2) \in Seq(MessageT) /\ (Heeded(m2) = <<m2>> \/ Heeded(m2) = << >>)
      BY <2>3, HeededTyped
    <3>3. B = <<m2>> \/ B = << >>
      BY <3>1, <3>2
    <3> QED  BY <2>3, <3>3, OneOrNone
  <2> HIDE DEF A, B, m1, m2, TypeInv
  <2>6. Told(w) \in Seq(MessageT) /\ \A j \in DOMAIN Told(w) : Told(w)[j] \in {m1, m2}
    <3>1. A \o B \in Seq(MessageT)
      BY <2>4, <2>5, PushTyped
    <3>2. ASSUME NEW j \in DOMAIN (A \o B)  PROVE (A \o B)[j] \in {m1, m2}
      BY <2>4, <2>5, ConcatMoves
    <3> QED  BY <2>1, <3>1, <3>2
  <2>7. Old \/ line'[i] \in {m1, m2}
    BY <2>1, <2>6, PushMoves DEF TypeInv
  <2> QED  BY <1>4, <2>7 DEF News, m1, m2
<1>5. ASSUME NEW w \in Writer, PushNotes(w)  PROVE Old \/ News(line'[i])
  <2> DEFINE m == [kind |-> "new", rows |-> write[w].rows]
             c == CountMessage(write[w].unread, write[w].at)
  <2>1. write[w] \in CountedT
    BY <1>5, WriteKinds DEF PushNotes
  <2>2. m \in MessageT /\ c \in MessageT
    BY <2>1, CountMessageTyped DEF CountedT, MessageT
  <2>3. Push(<<m, c>>)
    BY <1>5 DEF PushNotes
  <2> HIDE DEF m, c, TypeInv
  <2>4. <<m, c>> \in Seq(MessageT) /\ \A j \in DOMAIN <<m, c>> : <<m, c>>[j] \in {m, c}
    BY <2>2
  <2>5. Old \/ line'[i] \in {m, c}
    BY <2>3, <2>4, PushMoves DEF TypeInv
  <2> QED  BY <1>5, <2>5 DEF News, m, c
<1>6. ASSUME NEW m \in MessageT, Push(<<m>>)  PROVE Old \/ line'[i] = m
  <2>1. <<m>> \in Seq(MessageT) /\ \A j \in DOMAIN <<m>> : <<m>>[j] = m
    OBVIOUS
  <2> QED  BY <1>6, <2>1, PushMoves
<1>7. ASSUME NEW c \in calls, PushCount(c)  PROVE Old \/ News(line'[i])
  <2>1. c.unread \in Nat /\ c.at \in Nat
    BY <1>7, CallShape DEF PushCount, TrayInv
  <2>2. CountMessage(c.unread, c.at) \in MessageT /\ Push(<<CountMessage(c.unread, c.at)>>)
    BY <1>7, <2>1, CountMessageTyped DEF PushCount
  <2> HIDE DEF TypeInv
  <2> QED  BY <1>6, <1>7, <2>2 DEF News
<1>8. CASE Greet
  <2>1. CASE UNCHANGED line
    BY <1>1, <2>1
  <2>2. CASE greeting.pc = "counted" /\ Push(<<CountMessage(greeting.unread, greeting.at)>>)
    <3>1. greeting.unread \in Nat /\ greeting.at \in Nat
      BY <2>2 DEF TrayInv, GreetingT, NoGreeting
    <3>2. CountMessage(greeting.unread, greeting.at) \in MessageT
      BY <3>1, CountMessageTyped
    <3> HIDE DEF TypeInv
    <3> QED  BY <1>6, <1>8, <2>2, <3>2 DEF News
  <2> QED  BY <1>8, <2>1, <2>2 DEF Greet
<1> HIDE DEF TypeInv
<1>9. ASSUME NEW w \in Writer, Begin(w) \/ Commit(w) \/ (Drop(w) /\ UNCHANGED wire /\ Unseen) \/ Publish(w)
      PROVE  Old \/ News(line'[i])
  <2>1. ASSUME FindNotes(w) \/ CountNotes(w)  PROVE UNCHANGED line
    BY <2>1 DEF FindNotes, CountNotes, wire
  <2> QED  BY <1>1, <1>3, <1>4, <1>5, <1>9, <2>1, BeginFrame, CommitFrame DEF wire, Publish
<1>10. CASE Browse
  <2>1. ASSUME NEW r \in asked, Serve(r) \/ ServeTiles(r) \/ ServeCards(r) \/ Arrive(r) \/ Fail(r)
        PROVE  UNCHANGED line
    BY <2>1 DEF Serve, ServeTiles, ServeCards, Arrive, Fail, wire
  <2>2. ASSUME Retry \/ TimerFires \/ ChangeFilter \/ \E w \in Writer : Reply(w)
        PROVE  UNCHANGED line
    BY <2>2 DEF Retry, TimerFires, ChangeFilter, Reply, wire
  <2>3. CASE Deliver
    BY <1>2, <2>3 DEF Deliver
  <2> QED  BY <1>1, <1>10, <2>1, <2>2, <2>3 DEF Browse
<1>11. CASE Notice
  <2>1. ASSUME Refresh \/ MarkRead \/ MarkAllRead \/ MarkElsewhere
        PROVE  UNCHANGED line
    BY <2>1 DEF Refresh, MarkRead, MarkAllRead, MarkElsewhere, wire
  <2>2. ASSUME NEW c \in calls, ServeMark(c) \/ CountMarked(c) \/ ServeRefresh(c)
                                \/ CallSucceeds(c) \/ CallFails(c)
        PROVE  UNCHANGED line
    BY <2>2 DEF ServeMark, CountMarked, ServeRefresh, CallSucceeds, CallFails, wire
  <2>3. CASE DeliverNote
    BY <1>2, <2>3 DEF DeliverNote
  <2> QED  BY <1>1, <1>7, <1>8, <1>11, <2>1, <2>2, <2>3 DEF Notice
<1>12. CASE SilentSweep \/ Reconnect
  BY <1>1, <1>12 DEF SilentSweep, Reconnect, wire
<1>13. CASE Disconnect
  BY <1>13 DEF Disconnect
<1> QED  BY <1>9, <1>10, <1>11, <1>12, <1>13 DEF Next

LEMMA LineStaysCertain ==
    ASSUME TypeInv, TypeInv', Next, HonestInv, NotesGoOn
    PROVE  LineCertain'
<1>1. SUFFICES ASSUME NEW i \in DOMAIN line', line'[i].kind = "new"
               PROVE  Certain(line'[i].rows, stamp', notes')
  BY DEF LineCertain
<1>2. stamp' \in Nat
  BY DEF TypeInv, DbInv
<1>3. CASE \E j \in DOMAIN line : line'[i] = line[j]
  <2>1. PICK j \in DOMAIN line : line'[i] = line[j]
    BY <1>3
  <2>2. line[j] \in MessageT
    BY DEF TypeInv, WireInv
  <2>3. line[j].rows \in NotesT
    BY <1>1, <2>1, <2>2 DEF MessageT, ChangeT
  <2> QED  BY <1>1, <1>2, <2>1, <2>3, CertainKept DEF HonestInv, LineCertain
<1>4. CASE News(line'[i])
  <2>1. PICK w \in Writer : PushNotes(w) /\ line'[i] = [kind |-> "new", rows |-> write[w].rows]
    BY <1>1, <1>4 DEF News, Change, CountMessage
  <2>2. write[w].pc = "counted"
    BY <2>1 DEF PushNotes
  <2>3. write[w].rows \in NotesT
    BY <2>2, WriteKinds DEF TypeInv, CountedT
  <2> QED  BY <1>2, <2>1, <2>2, <2>3, CertainKept DEF HonestInv, WritesCertain
<1> QED  BY <1>3, <1>4, LineMoves

LEMMA CallStaysHonest ==
    ASSUME TypeInv, NotesGoOn, stamp' \in Nat, tangled => tangled',
           NEW c \in CallT, CallHonest(c, stamp, notes, tangled)
    PROVE  CallHonest(c, stamp', notes', tangled')
<1>1. ASSUME c.kind = "all"
      PROVE  c.here /\ c.id = All /\ Dated(c.before, stamp')
             /\ (tangled' \/ Certain(c.before, stamp', notes'))
  <2>1. c.before \in NotesT
    BY <1>1, CallShape
  <2> QED  BY <1>1, <2>1, CertainKept, DatedKept DEF CallHonest
<1>2. ASSUME c.kind = "refresh", c.pc = "listed"  PROVE Certain(c.before, stamp', notes')
  <2>1. c.before \in NotesT
    BY <1>2, CallShape
  <2> QED  BY <1>2, <2>1, CertainKept DEF CallHonest
<1>3. ASSUME c.kind = "refresh", c.pc = "answered"  PROVE Certain(c.rows, stamp', notes')
  <2>1. c.rows \in NotesT
    BY <1>3, CallShape
  <2> QED  BY <1>3, <2>1, CertainKept DEF CallHonest
<1> QED  BY <1>1, <1>2, <1>3 DEF CallHonest

\* A call that has been sent still covers what it covered, unless it is done.
LEMMA ExplainedKept ==
    ASSUME TypeInv, HonestInv, NotesGoOn, UNCHANGED <<items, tangled>>,
           \A c \in calls, n \in DOMAIN notes \cap DOMAIN notes' :
              Covers(c, n) /\ ~notes'[n] => \E d \in calls' : Covers(d, n)
    PROVE  Explained'
<1>1. SUFFICES ASSUME ~tangled, NEW n \in DOMAIN items' \cap DOMAIN notes', items'[n], ~notes'[n]
               PROVE  \E d \in calls' : Covers(d, n)
  BY DEF Explained, Covers
<1>2. n \in DOMAIN notes /\ ~notes[n]
  <2>1. n.at <= stamp /\ n.at \in Nat /\ stamp \in Nat
    BY NotesTyped DEF HonestInv, ItemsHonest, Dated, TypeInv, DbInv, TrayInv, NoteT
  <2>2. ~(n.at > stamp)
    BY <2>1
  <2> QED  BY <1>1, <2>1, <2>2 DEF NotesGoOn
<1>3. PICK c \in calls : Covers(c, n)
  BY <1>1, <1>2 DEF HonestInv, ItemsHonest, Explained
<1> QED  BY <1>1, <1>2, <1>3

\* One call turns into another, or into none, and what it covered is done.
LEMMA CallTurned ==
    ASSUME TypeInv, HonestInv, NotesGoOn, stamp' \in Nat, UNCHANGED <<items, tangled>>,
           NEW c \in calls, NEW come, calls' = (calls \ {c}) \cup come,
           \A d \in come : CallHonest(d, stamp', notes', tangled'),
           \A n \in DOMAIN notes \cap DOMAIN notes' : Covers(c, n) => notes'[n]
    PROVE  ItemsHonest'
<1>1. Dated(items', stamp')
  BY DatedKept DEF HonestInv, ItemsHonest, TypeInv, TrayInv
<1>2. ASSUME NEW d \in calls'  PROVE CallHonest(d, stamp', notes', tangled')
  <2>1. CASE d \in calls
    <3>1. d \in CallT /\ CallHonest(d, stamp, notes, tangled)
      BY <2>1 DEF HonestInv, ItemsHonest, TypeInv, TrayInv
    <3> QED  BY <3>1, CallStaysHonest
  <2>2. CASE d \in come
    BY <2>2
  <2> QED  BY <2>1, <2>2
<1>3. ASSUME NEW d \in calls, NEW n \in DOMAIN notes \cap DOMAIN notes', Covers(d, n), ~notes'[n]
      PROVE  \E e \in calls' : Covers(e, n)
  BY <1>3
<1>4. Explained'
  BY <1>3, ExplainedKept
<1> QED  BY <1>1, <1>2, <1>4 DEF ItemsHonest

LEMMA CallBecame ==
    ASSUME TypeInv, HonestInv, NotesGoOn, stamp' \in Nat, UNCHANGED <<items, tangled>>,
           NEW c \in calls, NEW d, calls' = (calls \ {c}) \cup {d},
           CallHonest(d, stamp', notes', tangled'),
           \A n \in DOMAIN notes \cap DOMAIN notes' : Covers(c, n) => notes'[n]
    PROVE  ItemsHonest'
<1> DEFINE come == {d}
<1>1. calls' = (calls \ {c}) \cup come /\ \A e \in come : CallHonest(e, stamp', notes', tangled')
  OBVIOUS
<1> HIDE DEF come
<1> QED  BY <1>1, CallTurned

\* More calls, and what the tray shows read more is what they cover.
LEMMA CallAdded ==
    ASSUME TypeInv, HonestInv, UNCHANGED <<notes, stamp>>, tangled => tangled',
           DOMAIN items' = DOMAIN items, NEW d, calls' = calls \cup {d},
           CallHonest(d, stamp, notes, tangled'),
           \A n \in DOMAIN items : items'[n] => items[n] \/ Covers(d, n)
    PROVE  ItemsHonest'
<1>1. Dated(items', stamp')
  BY DEF HonestInv, ItemsHonest, Dated
<1>2. ASSUME NEW c \in calls'  PROVE CallHonest(c, stamp', notes', tangled')
  <2>1. CASE c \in calls
    <3>1. CallHonest(c, stamp, notes, tangled)
      BY <2>1 DEF HonestInv, ItemsHonest
    <3> QED  BY <3>1 DEF CallHonest
  <2>2. CASE c = d
    BY <2>2
  <2> QED  BY <2>1, <2>2
<1>3. Explained'
  <2>1. SUFFICES ASSUME ~tangled', NEW n \in DOMAIN items \cap DOMAIN notes, items'[n], ~notes[n]
                 PROVE  \E e \in calls' : Covers(e, n)
    BY DEF Explained, Covers
  <2>2. CASE items[n]
    <3>1. PICK c \in calls : Covers(c, n)
      BY <2>1, <2>2 DEF HonestInv, ItemsHonest, Explained
    <3> QED  BY <3>1
  <2>3. CASE Covers(d, n)
    BY <2>3
  <2> QED  BY <2>1, <2>2, <2>3
<1> QED  BY <1>1, <1>2, <1>3 DEF ItemsHonest

\* What the tray takes over is certain.
LEMMA ItemsReplaced ==
    ASSUME TypeInv, HonestInv, UNCHANGED <<notes, stamp, tangled>>,
           NEW gone, calls' = calls \ gone,
           \A n \in DOMAIN items' :
              \/ n.at <= stamp /\ (~tangled /\ n \in DOMAIN notes /\ items'[n] => notes[n])
              \/ /\ n \in DOMAIN items /\ items'[n] = items[n]
                 /\ \A c \in gone : Covers(c, n) => n \notin DOMAIN notes \/ notes[n]
    PROVE  ItemsHonest'
<1>1. Dated(items', stamp')
  BY DEF HonestInv, ItemsHonest, Dated
<1>2. \A c \in calls' : CallHonest(c, stamp', notes', tangled')
  BY DEF HonestInv, ItemsHonest
<1>3. Explained'
  <2>1. SUFFICES ASSUME ~tangled', NEW n \in DOMAIN items' \cap DOMAIN notes, items'[n], ~notes[n]
                 PROVE  \E e \in calls' : Covers(e, n)
    BY DEF Explained, Covers
  <2>2. /\ n \in DOMAIN items /\ items[n]
        /\ \A c \in gone : ~Covers(c, n)
    BY <2>1
  <2>3. PICK c \in calls : Covers(c, n)
    BY <2>1, <2>2 DEF HonestInv, ItemsHonest, Explained
  <2> QED  BY <2>2, <2>3
<1> QED  BY <1>1, <1>2, <1>3 DEF ItemsHonest

LEMMA AskIsHonest ==
    ASSUME TypeInv, HonestInv, Refresh \/ MarkRead \/ MarkAllRead \/ MarkElsewhere
    PROVE  ItemsHonest'
<1>0. UNCHANGED <<notes, stamp>>
  BY DEF Refresh, MarkRead, MarkAllRead, MarkElsewhere, server, database
<1>1. CASE Refresh
  <2> DEFINE d == Call("refresh", All, TRUE)
  <2>1. calls' = calls \cup {d} /\ UNCHANGED <<items, tangled>>
    BY <1>1 DEF Refresh
  <2>2. CallHonest(d, stamp, notes, tangled')
    BY DEF CallHonest, Call
  <2> HIDE DEF d
  <2> QED  BY <1>0, <2>1, <2>2, CallAdded
<1>2. CASE MarkRead
  <2>1. PICK n \in ShownUnread : calls' = calls \cup {Call("mark", n, TRUE)}
                                 /\ items' = [items EXCEPT ![n] = TRUE] /\ tangled' = tangled
    BY <1>2 DEF MarkRead
  <2> DEFINE d == Call("mark", n, TRUE)
  <2>2. CallHonest(d, stamp, notes, tangled') /\ Covers(d, n)
    BY DEF CallHonest, Call, Covers
  <2> HIDE DEF d
  <2>3. DOMAIN items' = DOMAIN items /\ \A x \in DOMAIN items : items'[x] => items[x] \/ Covers(d, x)
    BY <2>1, <2>2
  <2> QED  BY <1>0, <2>1, <2>2, <2>3, CallAdded DEF d
<1>3. CASE MarkAllRead
  <2> DEFINE d == Call("all", All, TRUE)
  <2>1. /\ calls' = calls \cup {d} /\ items' = [n \in DOMAIN items |-> TRUE] /\ ~InFlight("all", All)
        /\ tangled' = (tangled \/ \E c \in calls : c.kind = "mark" /\ c.here)
    BY <1>3 DEF MarkAllRead
  <2>2. d.kind = "all" /\ d.here /\ d.id = All /\ d.pc = "sent" /\ d.before = items
    BY DEF Call
  <2>3. ASSUME ~tangled'  PROVE Certain(items, stamp, notes)
    <3>1. ASSUME NEW c \in calls, NEW n  PROVE ~Covers(c, n)
      BY <2>1, <2>3 DEF Covers, InFlight, HonestInv, ItemsHonest, CallHonest
    <3> QED  BY <2>1, <2>3, <3>1 DEF HonestInv, ItemsHonest, Explained, Certain, Dated
  <2> HIDE DEF d
  <2>4. CallHonest(d, stamp, notes, tangled') /\ \A n : Covers(d, n)
    BY <2>2, <2>3 DEF CallHonest, Covers, HonestInv, ItemsHonest
  <2>5. DOMAIN items' = DOMAIN items /\ tangled => tangled'
    BY <2>1
  <2> QED  BY <1>0, <2>1, <2>4, <2>5, CallAdded
<1>4. CASE MarkElsewhere
  <2>1. PICK n \in DOMAIN notes : calls' = calls \cup {Call("mark", n, FALSE)} /\ UNCHANGED <<items, tangled>>
    BY <1>4 DEF MarkElsewhere
  <2> DEFINE d == Call("mark", n, FALSE)
  <2>2. CallHonest(d, stamp, notes, tangled')
    BY DEF CallHonest, Call
  <2> HIDE DEF d
  <2> QED  BY <1>0, <2>1, <2>2, CallAdded DEF d
<1> QED  BY <1>1, <1>2, <1>3, <1>4

LEMMA ServerIsHonest ==
    ASSUME TypeInv, TypeInv', HonestInv, NotesGoOn, NEW c \in calls,
           ServeMark(c) \/ CountMarked(c) \/ PushCount(c) \/ ServeRefresh(c)
    PROVE  ItemsHonest'
<1>1. UNCHANGED <<items, tangled>> /\ stamp' \in Nat
  BY DEF ServeMark, CountMarked, PushCount, ServeRefresh, TypeInv, DbInv
<1>2. c \in CallT /\ CallHonest(c, stamp, notes, tangled)
  BY DEF HonestInv, ItemsHonest, TypeInv, TrayInv
<1>3. CallHonest(c, stamp', notes', tangled')
  BY <1>1, <1>2, CallStaysHonest
<1>4. CASE ServeMark(c)
  <2>1. CASE c.kind = "mark" /\ c.id \notin DOMAIN notes
    <3> DEFINE come == IF c.here THEN {[c EXCEPT !.pc = "refused"]} ELSE {}
    <3>1. calls' = (calls \ {c}) \cup come
      BY <1>4, <2>1 DEF ServeMark
    <3>2. [c EXCEPT !.pc = "refused"].kind = "mark"
      BY <1>2, <2>1, CallMoves, CallShape, <1>4 DEF ServeMark, CallT
    <3>3. \A d \in come : CallHonest(d, stamp', notes', tangled')
      BY <3>2 DEF CallHonest
    <3>4. \A n \in DOMAIN notes : ~Covers(c, n)
      BY <2>1 DEF Covers
    <3> HIDE DEF come
    <3> QED  BY <1>1, <3>1, <3>3, <3>4, CallTurned
  <2>2. CASE ~(c.kind = "mark" /\ c.id \notin DOMAIN notes)
    <3> DEFINE d == IF c.kind = "all" THEN With(c, "counted", 0, stamp') ELSE [c EXCEPT !.pc = "marked"]
    <3>1. /\ calls' = (calls \ {c}) \cup {d} /\ c.kind \in {"mark", "all"} /\ c.pc = "sent"
          /\ notes' = [n \in DOMAIN notes |-> notes[n] \/ c.kind = "all" \/ n = c.id]
      BY <1>4, <2>2 DEF ServeMark, Becomes
    <3>2. CASE c.kind = "all"
      <4>1. d.kind = "all" /\ d.here = c.here /\ d.id = c.id /\ d.before = c.before
        BY <3>2 DEF With
      <4> HIDE DEF d
      <4>2. CallHonest(d, stamp', notes', tangled')
        BY <1>3, <3>2, <4>1 DEF CallHonest
      <4>3. \A n \in DOMAIN notes : notes'[n]
        BY <3>1, <3>2
      <4> QED  BY <1>1, <3>1, <4>2, <4>3, CallBecame
    <3>3. CASE c.kind = "mark"
      <4>1. d.kind = "mark"
        BY <1>2, <3>1, <3>3 DEF CallT
      <4> HIDE DEF d
      <4>2. CallHonest(d, stamp', notes', tangled')
        BY <4>1 DEF CallHonest
      <4>3. \A n \in DOMAIN notes : Covers(c, n) => notes'[n]
        BY <3>1, <3>3 DEF Covers
      <4> QED  BY <1>1, <3>1, <4>2, <4>3, CallBecame
    <3> QED  BY <3>1, <3>2, <3>3
  <2> QED  BY <2>1, <2>2
<1>5. CASE CountMarked(c)
  <2> DEFINE d == With(c, "counted", Unread, stamp)
  <2>1. calls' = (calls \ {c}) \cup {d} /\ c.pc = "marked"
    BY <1>5 DEF CountMarked, Becomes
  <2>2. d.kind = "mark"
    BY <1>2, <2>1, CallShape DEF With
  <2>3. CallHonest(d, stamp', notes', tangled')
    BY <2>2 DEF CallHonest
  <2>4. \A n : ~Covers(c, n)
    BY <2>1 DEF Covers
  <2> HIDE DEF d
  <2> QED  BY <1>1, <2>1, <2>3, <2>4, CallBecame
<1>6. CASE PushCount(c)
  <2> DEFINE come == IF c.here THEN {[c EXCEPT !.pc = "answered"]} ELSE {}
  <2>1. calls' = (calls \ {c}) \cup come /\ c.pc = "counted"
    BY <1>6 DEF PushCount
  <2>2. \A d \in come : d.kind = c.kind /\ d.here = c.here /\ d.id = c.id /\ d.before = c.before
    BY <1>2, <2>1 DEF CallT
  <2>3. c.kind # "refresh"
    BY <1>2, <2>1, CallShape
  <2> HIDE DEF come
  <2>4. \A d \in come : CallHonest(d, stamp', notes', tangled')
    BY <1>3, <2>2, <2>3 DEF CallHonest
  <2>5. \A n : ~Covers(c, n)
    BY <2>1 DEF Covers
  <2> QED  BY <1>1, <2>1, <2>4, <2>5, CallTurned
<1>7. CASE ServeRefresh(c)
  <2>1. UNCHANGED <<notes, stamp>> /\ c.kind = "refresh"
    BY <1>7 DEF ServeRefresh, server, database
  <2>2. \A n : ~Covers(c, n)
    BY <2>1 DEF Covers
  <2>3. CASE c.pc = "sent"
    <3> DEFINE d == [c EXCEPT !.pc = "listed", !.before = notes]
    <3>1. calls' = (calls \ {c}) \cup {d}
      BY <1>7, <2>3 DEF ServeRefresh, Becomes
    <3>2. d.kind = "refresh" /\ d.pc = "listed" /\ d.before = notes
      BY <1>2, <2>1, <2>3 DEF CallT
    <3> HIDE DEF d
    <3>3. CallHonest(d, stamp', notes', tangled')
      BY <2>1, <3>2 DEF CallHonest, Certain, HonestInv, Dated
    <3> QED  BY <1>1, <2>2, <3>1, <3>3, CallBecame
  <2>4. CASE c.pc = "listed"
    <3> DEFINE d == [pc |-> "answered", kind |-> "refresh", id |-> All, here |-> TRUE,
                     rows |-> c.before, unread |-> Unread, at |-> stamp]
    <3>1. calls' = (calls \ {c}) \cup {d}
      BY <1>7, <2>4 DEF ServeRefresh, Becomes
    <3>2. d.kind = "refresh" /\ d.pc = "answered" /\ d.rows = c.before
      OBVIOUS
    <3> HIDE DEF d
    <3>3. CallHonest(d, stamp', notes', tangled')
      BY <1>3, <2>1, <2>4, <3>2 DEF CallHonest
    <3> QED  BY <1>1, <2>2, <3>1, <3>3, CallBecame
  <2> QED  BY <1>7, <2>3, <2>4 DEF ServeRefresh
<1> QED  BY <1>4, <1>5, <1>6, <1>7

LEMMA AnswerIsHonest ==
    ASSUME TypeInv, HonestInv, NEW c \in calls, CallFails(c) \/ CallSucceeds(c)
    PROVE  ItemsHonest'
<1>0. /\ UNCHANGED <<notes, stamp, tangled>> /\ calls' = calls \ {c}
      /\ c \in CallT /\ CallHonest(c, stamp, notes, tangled)
  BY DEF CallFails, CallSucceeds, server, database, HonestInv, ItemsHonest, TypeInv, TrayInv
<1>1. \A n \in DOMAIN items : n.at <= stamp
  BY DEF HonestInv, ItemsHonest, Dated
<1> DEFINE Fine(n) ==
             \/ n.at <= stamp /\ (~tangled /\ n \in DOMAIN notes /\ items'[n] => notes[n])
             \/ /\ n \in DOMAIN items /\ items'[n] = items[n]
                /\ \A e \in {c} : Covers(e, n) => n \notin DOMAIN notes \/ notes[n]
<1>2. SUFFICES ASSUME NEW n \in DOMAIN items'  PROVE Fine(n)
  <2>1. \A n \in DOMAIN items' : Fine(n)
    BY <1>2
  <2> DEFINE gone == {c}
  <2>2. calls' = calls \ gone
        /\ \A n \in DOMAIN items' :
              \/ n.at <= stamp /\ (~tangled /\ n \in DOMAIN notes /\ items'[n] => notes[n])
              \/ /\ n \in DOMAIN items /\ items'[n] = items[n]
                 /\ \A e \in gone : Covers(e, n) => n \notin DOMAIN notes \/ notes[n]
    BY <1>0, <2>1
  <2> HIDE DEF gone, Fine
  <2> QED  BY <1>0, <2>2, ItemsReplaced
<1>3. CASE CallFails(c)
  <2>0. items' = RolledBack(c)
    BY <1>3 DEF CallFails
  <2>1. CASE c.kind = "mark"
    <3>1. DOMAIN items' = DOMAIN items /\ items'[n] = IF n = c.id THEN FALSE ELSE items[n]
      BY <2>0, <2>1 DEF RolledBack
    <3> QED  BY <1>1, <2>1, <3>1 DEF Covers
  <2>2. CASE c.kind = "all"
    <3>1. items' = c.before
      BY <2>0, <2>2 DEF RolledBack
    <3> QED  BY <1>0, <2>2, <3>1 DEF CallHonest, Certain, Dated
  <2>3. CASE c.kind = "refresh"
    <3>1. items' = items
      BY <2>0, <2>3 DEF RolledBack
    <3> QED  BY <2>3, <3>1 DEF Covers
  <2> QED  BY <1>0, <2>1, <2>2, <2>3, CallShape
<1>4. CASE CallSucceeds(c)
  <2>1. c.pc = "answered" /\ items' = IF c.kind = "refresh" THEN c.rows ELSE items
    BY <1>4 DEF CallSucceeds
  <2>2. CASE c.kind = "refresh"
    BY <1>0, <2>1, <2>2 DEF CallHonest, Certain
  <2>3. CASE c.kind # "refresh"
    BY <2>1, <2>3 DEF Covers
  <2> QED  BY <2>2, <2>3
<1> QED  BY <1>3, <1>4

LEMMA NewsIsHonest ==
    ASSUME TypeInv, HonestInv, DeliverNote
    PROVE  ItemsHonest'
<1>1. /\ line \in Seq(MessageT) /\ line # << >> /\ UNCHANGED <<notes, stamp, calls, tangled>>
      /\ OnNew(Head(line)) \/ OnCount(Head(line))
  BY DEF DeliverNote, OnNew, OnCount, server, database, TypeInv, WireInv
<1>2. 1 \in DOMAIN line /\ Head(line) = line[1]
  BY <1>1, TailMoves
<1> DEFINE none == {}
           Fine(n) ==
             \/ n.at <= stamp /\ (~tangled /\ n \in DOMAIN notes /\ items'[n] => notes[n])
             \/ n \in DOMAIN items /\ items'[n] = items[n]
<1>3. ASSUME NEW n \in DOMAIN items'  PROVE Fine(n)
  <2>1. CASE OnNew(Head(line))
    <3> DEFINE m == Head(line)
    <3>1. Certain(m.rows, stamp, notes)
      BY <1>2, <2>1 DEF OnNew, HonestInv, LineCertain
    <3>2. items' = [x \in DOMAIN items \cup DOMAIN m.rows |->
                       IF x \in DOMAIN items THEN items[x] ELSE m.rows[x]]
      BY <2>1 DEF OnNew
    <3> HIDE DEF m
    <3>3. n \in DOMAIN items \cup DOMAIN m.rows
          /\ items'[n] = IF n \in DOMAIN items THEN items[n] ELSE m.rows[n]
      BY <1>3, <3>2
    <3> QED  BY <3>1, <3>3 DEF Certain
  <2>2. CASE OnCount(Head(line))
    BY <1>3, <2>2 DEF OnCount
  <2> QED  BY <1>1, <2>1, <2>2
<1>4. calls' = calls \ none
  BY <1>1
<1>5. \A n \in DOMAIN items' :
         \/ n.at <= stamp /\ (~tangled /\ n \in DOMAIN notes /\ items'[n] => notes[n])
         \/ /\ n \in DOMAIN items /\ items'[n] = items[n]
            /\ \A c \in none : Covers(c, n) => n \notin DOMAIN notes \/ notes[n]
  BY <1>3
<1> HIDE DEF none
<1> QED  BY <1>1, <1>4, <1>5, ItemsReplaced

LEMMA ElsewhereIsHonest ==
    ASSUME TypeInv, TypeInv', HonestInv, NotesGoOn, UNCHANGED <<items, calls, tangled>>
    PROVE  ItemsHonest'
<1>1. stamp' \in Nat
  BY DEF TypeInv, DbInv
<1>2. Dated(items', stamp')
  BY <1>1, DatedKept DEF HonestInv, ItemsHonest, TypeInv, TrayInv
<1>3. ASSUME NEW c \in calls'  PROVE CallHonest(c, stamp', notes', tangled')
  <2>1. c \in CallT /\ CallHonest(c, stamp, notes, tangled)
    BY <1>3 DEF HonestInv, ItemsHonest, TypeInv, TrayInv
  <2> QED  BY <1>1, <2>1, CallStaysHonest
<1>4. Explained'
  BY ExplainedKept
<1> QED  BY <1>2, <1>3, <1>4 DEF ItemsHonest

LEMMA HonestStep ==
    ASSUME TypeInv, TypeInv', Next, HonestInv
    PROVE  HonestInv'
<1>1. NotesGoOn
  BY NotesMove DEF HonestInv, Dated
<1>2. Dated(notes', stamp') /\ WritesCertain' /\ LineCertain'
  BY <1>1, NotesDated, WritesStayCertain, LineStaysCertain DEF HonestInv
<1>3. ASSUME Notice  PROVE ItemsHonest'
  <2>1. ASSUME Greet  PROVE ItemsHonest'
    <3>1. UNCHANGED <<items, calls, tangled>>
      BY <2>1 DEF Greet
    <3> QED  BY <1>1, <3>1, ElsewhereIsHonest
  <2> QED  BY <1>1, <1>3, <2>1, AskIsHonest, ServerIsHonest, AnswerIsHonest, NewsIsHonest DEF Notice
<1>4. ASSUME ~Notice  PROVE ItemsHonest'
  <2>1. ASSUME NEW w \in Writer,
               Begin(w) \/ Commit(w) \/ (Drop(w) /\ UNCHANGED wire /\ Unseen) \/ Publish(w)
        PROVE  UNCHANGED <<items, calls, tangled>>
    BY <2>1, BeginFrame, CommitFrame, DropFrame, PublishFrame DEF trayVars
  <2>2. UNCHANGED <<items, calls, tangled>>
    BY <1>4, <2>1, BrowseFrame DEF Next, SilentSweep, Disconnect, Reconnect, trayVars
  <2> QED  BY <1>1, <2>2, ElsewhereIsHonest
<1> QED  BY <1>2, <1>3, <1>4 DEF HonestInv

LEMMA HonestInit ==
    ASSUME Init
    PROVE  HonestInv
<1>1. stamp = 1 /\ line = << >> /\ write = [w \in Writer |-> Idle]
  BY DEF Init, WritesInit
<1>2. \A n \in DOMAIN notes : n.at <= 1
  <2>1. CASE page.kind = "tray"
    <3>1. notes = SeededNotes
      BY <2>1 DEF Init
    <3>2. \A n \in DOMAIN SeededNotes : n.at \in {0, 1}
      BY SeededNotesAssumption
    <3> QED  BY <3>1, <3>2
  <2>2. CASE page.kind # "tray"
    BY <2>2 DEF Init
  <2> QED  BY <2>1, <2>2
<1>3. items = notes \/ items = << >>
  BY DEF Init, TrayInit
<1>4. Dated(notes, stamp) /\ Dated(items, stamp)
  BY <1>1, <1>2, <1>3 DEF Dated
<1>5. \A c \in calls : c.kind = "refresh" /\ c.pc = "sent"
  BY DEF Init, TrayInit, Call
<1>6. \A c \in calls : CallHonest(c, stamp, notes, tangled)
  BY <1>5 DEF CallHonest
<1>7. Explained
  BY <1>3 DEF Explained
<1>8. WritesCertain
  BY <1>1 DEF WritesCertain, Idle
<1>9. LineCertain
  BY <1>1 DEF LineCertain
<1> QED  BY <1>4, <1>6, <1>7, <1>8, <1>9 DEF HonestInv, ItemsHonest

LEMMA HonestStutter ==
    ASSUME HonestInv, UNCHANGED vars
    PROVE  HonestInv'
<1> USE DEF vars, server, database, wire, pageVars, trayVars
<1>1. ItemsHonest'
  BY DEF HonestInv, ItemsHonest, Dated, CallHonest, Explained, Covers, Certain
<1>2. Dated(notes', stamp') /\ WritesCertain' /\ LineCertain'
  BY DEF HonestInv, Dated, WritesCertain, LineCertain, Certain
<1> QED  BY <1>1, <1>2 DEF HonestInv

THEOREM Honest == Spec => []HonestInv
<1>1. TypeInv /\ TypeInv' /\ [Next]_vars /\ HonestInv => HonestInv'
  BY HonestStep, HonestStutter
<1> QED  BY <1>1, HonestInit, Typed, PTL DEF Spec

\* Once nothing is on its way, what the tray of notifications shows as read is
\* read in the database, for every set of notifications, writers and calls, through
\* optimistic marks, their rollbacks, pushes and refreshes that overlap (TrayHonest).
THEOREM TrayIsHonest == Spec => []TrayHonest
<1>1. HonestInv => TrayHonest
  BY DEF TrayHonest, AtRest, HonestInv, ItemsHonest, Explained
<1> QED  BY <1>1, Honest, PTL

-----------------------------------------------------------------------------
(* The badge settles.  A count that is on its way or shown, is as old as it *)
(* says and was right at that time; unless something will still count, the  *)
(* newest of them is right now.                                             *)

Of(x) == <<x.unread, x.at>>

\* The counts on their way to the badge, and those with what else may set it.
Coming ==
    {Of(line[i]) : i \in {j \in DOMAIN line : line[j].kind = "count"}}
    \cup {Of(write[w]) : w \in {v \in Writer : write[v].pc = "counted"}}
    \cup {Of(c) : c \in {e \in calls : e.pc = "counted"}}
    \cup (IF greeting.pc = "counted" THEN {Of(greeting)} ELSE {})
Counted == Coming \cup {Of(c) : c \in {e \in calls : e.pc = "answered"}} \cup {<<unread, last>>}

\* A publication that has unread notifications to tell of.
Ahead(q, m) == q.pc = "found" \/ (q.pc = "publish" /\ \E n \in q.ids : n \in DOMAIN m /\ ~m[n])

\* Something will count.
Settling ==
    \/ ~up \/ greeting.pc = "due"
    \/ \E w \in Writer : Ahead(write[w], notes)
    \/ \E c \in calls : c.pc = "marked"

Right(d, s, n) == d[2] <= s /\ (d[2] = s => d[1] = n)
Newest(d) == (\A e \in Coming : e[2] <= d[2]) /\ newest <= d[2] /\ silent <= d[2]

BadgeInv ==
    page.kind = "tray" =>
        /\ \A d \in Counted : Right(d, stamp, Unread)
        /\ newest <= stamp /\ silent <= stamp
        /\ Settling \/ \A d \in Counted : Newest(d) => d[1] = Unread

LEMMA CountedTyped ==
    ASSUME TypeInv
    PROVE  Counted \subseteq Nat \X Nat /\ Coming \subseteq Counted
<1> USE DEF TypeInv
<1>1. ASSUME NEW i \in DOMAIN line, line[i].kind = "count"  PROVE Of(line[i]) \in Nat \X Nat
  <2>1. line[i] \in MessageT
    BY DEF WireInv
  <2>2. line[i].unread \in Nat /\ line[i].at \in Nat
    BY <1>1, <2>1 DEF MessageT, ChangeT
  <2> QED  BY <2>2 DEF Of
<1>2. ASSUME NEW w \in Writer, write[w].pc = "counted"  PROVE Of(write[w]) \in Nat \X Nat
  <2>1. write[w].unread \in Nat /\ write[w].at \in Nat
    BY <1>2, WriteKinds DEF CountedT
  <2> QED  BY <2>1 DEF Of
<1>3. ASSUME NEW c \in calls, c.pc \in {"counted", "answered"}  PROVE Of(c) \in Nat \X Nat
  <2>1. c.unread \in Nat /\ c.at \in Nat
    BY <1>3, CallShape DEF TrayInv
  <2> QED  BY <2>1 DEF Of
<1>4. ASSUME greeting.pc = "counted"  PROVE Of(greeting) \in Nat \X Nat
  <2>1. greeting.unread \in Nat /\ greeting.at \in Nat
    BY <1>4 DEF TrayInv, GreetingT, NoGreeting
  <2> QED  BY <2>1 DEF Of
<1>5. <<unread, last>> \in Nat \X Nat
  BY DEF TrayInv
<1> HIDE DEF TypeInv
<1>6. Coming \subseteq Nat \X Nat
  BY <1>1, <1>2, <1>3, <1>4 DEF Coming
<1> QED  BY <1>3, <1>5, <1>6 DEF Counted

LEMMA ComingNow ==
    /\ \A i \in DOMAIN line : line[i].kind = "count" => Of(line[i]) \in Coming
    /\ \A w \in Writer : write[w].pc = "counted" => Of(write[w]) \in Coming
    /\ \A c \in calls : c.pc = "counted" => Of(c) \in Coming
    /\ greeting.pc = "counted" => Of(greeting) \in Coming
    /\ \A d \in Coming : \/ \E i \in DOMAIN line : line[i].kind = "count" /\ d = Of(line[i])
                         \/ \E w \in Writer : write[w].pc = "counted" /\ d = Of(write[w])
                         \/ \E c \in calls : c.pc = "counted" /\ d = Of(c)
                         \/ greeting.pc = "counted" /\ d = Of(greeting)
BY DEF Coming

LEMMA ComingNext ==
    /\ \A i \in DOMAIN line' : line'[i].kind = "count" => Of(line'[i]) \in Coming'
    /\ \A w \in Writer : write'[w].pc = "counted" => Of(write'[w]) \in Coming'
    /\ \A c \in calls' : c.pc = "counted" => Of(c) \in Coming'
    /\ greeting'.pc = "counted" => Of(greeting') \in Coming'
    /\ \A d \in Coming' : \/ \E i \in DOMAIN line' : line'[i].kind = "count" /\ d = Of(line'[i])
                          \/ \E w \in Writer : write'[w].pc = "counted" /\ d = Of(write'[w])
                          \/ \E c \in calls' : c.pc = "counted" /\ d = Of(c)
                          \/ greeting'.pc = "counted" /\ d = Of(greeting')
BY DEF Coming, Of

\* What is to be shown of a step.
LEMMA BadgeKept ==
    ASSUME TypeInv, TypeInv', BadgeInv, page.kind = "tray",
           stamp <= stamp', stamp' = stamp => Unread' = Unread,
           newest <= newest', newest' <= stamp', silent <= silent', silent' <= stamp',
           \A d \in Counted' : d \in Counted \/ d = <<Unread', stamp'>>,
           \/ Settling'
           \/ stamp < silent'
           \/ <<Unread', stamp'>> \in Coming'
           \/ ~Settling /\ Unread' = Unread /\ \A e \in Coming : e \in Coming' \/ e[2] <= newest'
    PROVE  BadgeInv'
<1> DEFINE now == Unread
           then == Unread'
<1>1. stamp \in Nat /\ stamp' \in Nat /\ {newest, newest', silent, silent'} \subseteq Nat
  BY DEF TypeInv, DbInv, TrayInv
<1>2. now \in Nat /\ then \in Nat
  <2>1. IsFiniteSet(DOMAIN notes) /\ IsFiniteSet(DOMAIN notes')
    BY DEF TypeInv, DbInv
  <2>2. IsFiniteSet({n \in DOMAIN notes : ~notes[n]}) /\ IsFiniteSet({n \in DOMAIN notes' : ~notes'[n]})
    BY <2>1, FS_Subset
  <2> QED  BY <2>2, FS_CardinalityType DEF Unread
<1>3. Counted \subseteq Nat \X Nat /\ Coming \subseteq Counted
  BY CountedTyped
<1>4. Coming' \subseteq Counted'
  BY DEF Counted
<1>5. /\ \A d \in Counted : Right(d, stamp, now)
      /\ Settling \/ \A d \in Counted : Newest(d) => d[1] = now
  BY DEF BadgeInv
<1>6. /\ \A d \in Counted' : d \in Counted \/ d = <<then, stamp'>>
      /\ stamp' = stamp => then = now
      /\ \/ Settling' \/ stamp < silent' \/ <<then, stamp'>> \in Coming'
         \/ ~Settling /\ then = now /\ \A e \in Coming : e \in Coming' \/ e[2] <= newest'
  OBVIOUS
<1>7. BadgeInv' <=> (page'.kind = "tray" =>
        /\ \A d \in Counted' : Right(d, stamp', then)
        /\ newest' <= stamp' /\ silent' <= stamp'
        /\ Settling' \/ \A d \in Counted' : ((\A e \in Coming' : e[2] <= d[2]) /\ newest' <= d[2] /\ silent' <= d[2])
                                            => d[1] = then)
  BY DEF BadgeInv, Newest, Right
<1> HIDE DEF now, then
<1>8. ASSUME NEW d \in Counted'  PROVE d \in Nat \X Nat /\ Right(d, stamp', then)
  <2>1. CASE d \in Counted
    <3>1. d[1] \in Nat /\ d[2] \in Nat /\ d \in Nat \X Nat
      BY <1>3, <2>1
    <3> QED  BY <1>1, <1>5, <1>6, <2>1, <3>1 DEF Right
  <2>2. CASE d = <<then, stamp'>>
    BY <1>1, <1>2, <2>2 DEF Right
  <2> QED  BY <1>6, <1>8, <2>1, <2>2
<1>9. ASSUME ~Settling', NEW d \in Counted', \A e \in Coming' : e[2] <= d[2], newest' <= d[2], silent' <= d[2]
      PROVE  d[1] = then
  <2>1. d[1] \in Nat /\ d[2] \in Nat
    BY <1>8, <1>9
  <2>2. CASE stamp < silent'
    <3>1. d \notin Counted
      BY <1>1, <1>5, <1>9, <2>1, <2>2 DEF Right
    <3> QED  BY <1>6, <1>9, <3>1
  <2>3. CASE <<then, stamp'>> \in Coming'
    <3>1. stamp' <= d[2]
      BY <1>9, <2>3
    <3> QED  BY <1>1, <1>8, <1>9, <2>1, <3>1 DEF Right
  <2>4. CASE ~Settling /\ then = now /\ \A e \in Coming : e \in Coming' \/ e[2] <= newest'
    <3>1. CASE d \in Counted
      <4>1. ASSUME NEW e \in Coming  PROVE e[2] <= d[2]
        <5>1. e[2] \in Nat
          BY <1>3, <4>1
        <5> QED  BY <1>1, <1>9, <2>1, <2>4, <4>1, <5>1
      <4>2. Newest(d)
        BY <1>1, <1>9, <2>1, <4>1 DEF Newest
      <4> QED  BY <1>5, <2>4, <3>1, <4>2
    <3>2. CASE d = <<then, stamp'>>
      BY <3>2
    <3> QED  BY <1>6, <1>9, <3>1, <3>2
  <2> QED  BY <1>6, <1>9, <2>2, <2>3, <2>4
<1> QED  BY <1>7, <1>8, <1>9

\* Where the calls of a tray come from, and which go on.
LEMMA CallsMove ==
    ASSUME TypeInv, Next
    PROVE  /\ \A d \in calls' : \/ d \in calls \/ d.pc \in {"sent", "refused", "marked", "listed"}
                                \/ Of(d) = <<Unread', stamp'>>
                                \/ \E c \in calls : PushCount(c) /\ Of(d) = Of(c)
           /\ \A c \in calls : \/ c \in calls' \/ c.pc \in {"sent", "refused", "listed", "answered"}
                               \/ CountMarked(c) \/ PushCount(c)
<1> DEFINE Moves == \A d \in calls' : \/ d \in calls \/ d.pc \in {"sent", "refused", "marked", "listed"}
                                      \/ Of(d) = <<Unread', stamp'>>
                                      \/ \E c \in calls : PushCount(c) /\ Of(d) = Of(c)
           Stay == \A c \in calls : \/ c \in calls' \/ c.pc \in {"sent", "refused", "listed", "answered"}
                                    \/ CountMarked(c) \/ PushCount(c)
<1>0. calls \subseteq CallT
  BY DEF TypeInv, TrayInv
<1>1. ASSUME UNCHANGED calls  PROVE Moves /\ Stay
  BY <1>1
<1>2. ASSUME Refresh \/ MarkRead \/ MarkAllRead \/ MarkElsewhere  PROVE Moves /\ Stay
  <2>1. \E kind, id, here : calls' = calls \cup {Call(kind, id, here)}
    BY <1>2 DEF Refresh, MarkRead, MarkAllRead, MarkElsewhere
  <2>2. \A kind, id, here : Call(kind, id, here).pc = "sent"
    BY DEF Call
  <2> QED  BY <2>1, <2>2
<1>3. ASSUME NEW c \in calls, NEW come, calls' = (calls \ {c}) \cup come,
             c.pc \in {"sent", "refused", "listed", "answered"} \/ CountMarked(c) \/ PushCount(c),
             \A d \in come : \/ d.pc \in {"refused", "marked", "listed"}
                             \/ Of(d) = <<Unread', stamp'>>
                             \/ PushCount(c) /\ Of(d) = Of(c)
      PROVE  Moves /\ Stay
  <2>1. ASSUME NEW d \in calls', d \notin calls
        PROVE  \/ d.pc \in {"refused", "marked", "listed"} \/ Of(d) = <<Unread', stamp'>>
               \/ \E e \in calls : PushCount(e) /\ Of(d) = Of(e)
    BY <1>3, <2>1
  <2>2. \A d \in calls \ {c} : d \in calls'
    BY <1>3
  <2>3. Moves
    BY <2>1
  <2>4. Stay
    BY <1>3, <2>2
  <2> QED  BY <2>3, <2>4
<1> HIDE DEF Moves, Stay
<1>4. ASSUME NEW c \in calls, ServeMark(c)  PROVE Moves /\ Stay
  <2>0. c \in CallT /\ c.pc = "sent" /\ c.kind \in {"mark", "all"}
    BY <1>0, <1>4 DEF ServeMark
  <2>1. CASE c.kind = "mark" /\ c.id \notin DOMAIN notes
    <3> DEFINE come == IF c.here THEN {[c EXCEPT !.pc = "refused"]} ELSE {}
    <3>1. calls' = (calls \ {c}) \cup come
      BY <1>4, <2>1 DEF ServeMark
    <3>2. \A d \in come : d.pc = "refused"
      BY <2>0 DEF CallT
    <3> HIDE DEF come
    <3> QED  BY <1>3, <2>0, <3>1, <3>2
  <2>2. CASE c.kind = "mark" /\ c.id \in DOMAIN notes
    <3> DEFINE come == {[c EXCEPT !.pc = "marked"]}
    <3>1. calls' = (calls \ {c}) \cup come
      BY <1>4, <2>2 DEF ServeMark, Becomes
    <3>2. \A d \in come : d.pc = "marked"
      BY <2>0 DEF CallT
    <3> HIDE DEF come
    <3> QED  BY <1>3, <2>0, <3>1, <3>2
  <2>3. CASE c.kind = "all"
    <3> DEFINE come == {With(c, "counted", 0, stamp')}
    <3>1. calls' = (calls \ {c}) \cup come
          /\ notes' = [n \in DOMAIN notes |-> notes[n] \/ c.kind = "all" \/ n = c.id]
      BY <1>4, <2>3 DEF ServeMark, Becomes
    <3>2. {n \in DOMAIN notes' : ~notes'[n]} = {}
      BY <2>3, <3>1
    <3>3. Unread' = 0
      BY <3>2, FS_EmptySet DEF Unread
    <3>4. \A d \in come : Of(d) = <<Unread', stamp'>>
      BY <3>3 DEF With, Of
    <3> HIDE DEF come
    <3> QED  BY <1>3, <2>0, <3>1, <3>4
  <2> QED  BY <2>0, <2>1, <2>2, <2>3
<1>5. ASSUME NEW c \in calls, CountMarked(c)  PROVE Moves /\ Stay
  <2> DEFINE come == {With(c, "counted", Unread, stamp)}
  <2>1. calls' = (calls \ {c}) \cup come /\ UNCHANGED <<notes, stamp>>
    BY <1>5 DEF CountMarked, Becomes, server, database
  <2>2. \A d \in come : Of(d) = <<Unread', stamp'>>
    BY <2>1 DEF With, Of, Unread
  <2> HIDE DEF come
  <2> QED  BY <1>3, <1>5, <2>1, <2>2
<1>6. ASSUME NEW c \in calls, PushCount(c)  PROVE Moves /\ Stay
  <2> DEFINE come == IF c.here THEN {[c EXCEPT !.pc = "answered"]} ELSE {}
  <2>1. calls' = (calls \ {c}) \cup come /\ c \in CallT /\ c.pc = "counted"
    BY <1>0, <1>6 DEF PushCount
  <2>2. \A d \in come : Of(d) = Of(c)
    BY <2>1 DEF CallT, Of
  <2> HIDE DEF come
  <2> QED  BY <1>3, <1>6, <2>1, <2>2
<1>7. ASSUME NEW c \in calls, ServeRefresh(c)  PROVE Moves /\ Stay
  <2>1. c \in CallT /\ c.kind = "refresh" /\ UNCHANGED <<notes, stamp>>
    BY <1>0, <1>7 DEF ServeRefresh, server, database
  <2>2. CASE c.pc = "sent"
    <3> DEFINE come == {[c EXCEPT !.pc = "listed", !.before = notes]}
    <3>1. calls' = (calls \ {c}) \cup come
      BY <1>7, <2>2 DEF ServeRefresh, Becomes
    <3>2. \A d \in come : d.pc = "listed"
      BY <2>1, <2>2 DEF CallT
    <3> HIDE DEF come
    <3> QED  BY <1>3, <2>2, <3>1, <3>2
  <2>3. CASE c.pc = "listed"
    <3> DEFINE come == {[pc |-> "answered", kind |-> "refresh", id |-> All, here |-> TRUE,
                         rows |-> c.before, unread |-> Unread, at |-> stamp]}
    <3>1. calls' = (calls \ {c}) \cup come
      BY <1>7, <2>3 DEF ServeRefresh, Becomes
    <3>2. \A d \in come : Of(d) = <<Unread', stamp'>>
      BY <2>1 DEF Of, Unread
    <3> HIDE DEF come
    <3> QED  BY <1>3, <2>3, <3>1, <3>2
  <2> QED  BY <1>7, <2>2, <2>3 DEF ServeRefresh
<1>8. ASSUME NEW c \in calls, CallSucceeds(c) \/ CallFails(c)  PROVE Moves /\ Stay
  <2> DEFINE come == {}
  <2>1. calls' = (calls \ {c}) \cup come /\ c.pc \in {"sent", "refused", "answered"}
    BY <1>8 DEF CallSucceeds, CallFails
  <2>2. \A d \in come : d.pc = "refused"
    OBVIOUS
  <2> HIDE DEF come
  <2> QED  BY <1>3, <2>1, <2>2
<1>9. CASE Notice
  <2>1. ASSUME Greet \/ DeliverNote  PROVE UNCHANGED calls
    BY <2>1 DEF Greet, DeliverNote, OnNew, OnCount
  <2> QED  BY <1>1, <1>2, <1>4, <1>5, <1>6, <1>7, <1>8, <1>9, <2>1 DEF Notice, Moves, Stay
<1>10. ASSUME ~Notice  PROVE UNCHANGED calls
  <2>1. ASSUME NEW w \in Writer,
               Begin(w) \/ Commit(w) \/ (Drop(w) /\ UNCHANGED wire /\ Unseen) \/ Publish(w)
        PROVE  UNCHANGED calls
    BY <2>1, BeginFrame, CommitFrame, DropFrame, PublishFrame DEF trayVars
  <2> QED  BY <1>10, <2>1, BrowseFrame DEF Next, SilentSweep, Disconnect, Reconnect, trayVars
<1> QED  BY <1>1, <1>9, <1>10 DEF Moves, Stay

LEMMA GreetingMoves ==
    ASSUME Next
    PROVE  \/ greeting' = greeting
           \/ Greet /\ greeting.pc = "counted" /\ greeting'.pc = "none"
           \/ Greet /\ greeting.pc = "due" /\ greeting'.pc = "counted" /\ Of(greeting') = <<Unread', stamp'>>
           \/ Disconnect /\ greeting'.pc = "none"
           \/ Reconnect /\ greeting'.pc = IF page.kind = "tray" THEN "due" ELSE "none"
<1>1. CASE Greet
  <2>1. UNCHANGED <<notes, stamp>>
    BY <1>1 DEF Greet, server, database
  <2>2. CASE greeting.pc = "due" /\ greeting' = [pc |-> "counted", unread |-> Unread, at |-> stamp]
    BY <1>1, <2>1, <2>2 DEF Of, Unread
  <2>3. CASE greeting.pc = "counted" /\ greeting' = NoGreeting
    BY <1>1, <2>3 DEF NoGreeting
  <2> QED  BY <1>1, <2>2, <2>3 DEF Greet
<1>2. CASE Notice
  <2>1. ASSUME NEW c \in calls, ServeMark(c) \/ CountMarked(c) \/ PushCount(c) \/ ServeRefresh(c)
                                \/ CallSucceeds(c) \/ CallFails(c)
        PROVE  UNCHANGED greeting
    BY <2>1 DEF ServeMark, CountMarked, PushCount, ServeRefresh, CallSucceeds, CallFails
  <2>2. ASSUME Refresh \/ MarkRead \/ MarkAllRead \/ MarkElsewhere \/ DeliverNote
        PROVE  UNCHANGED greeting
    BY <2>2 DEF Refresh, MarkRead, MarkAllRead, MarkElsewhere, DeliverNote, OnNew, OnCount
  <2> QED  BY <1>1, <1>2, <2>1, <2>2 DEF Notice
<1>3. CASE Disconnect
  BY <1>3 DEF Disconnect, NoGreeting
<1>4. CASE Reconnect
  BY <1>4 DEF Reconnect
<1>5. ASSUME NEW w \in Writer,
             Begin(w) \/ Commit(w) \/ (Drop(w) /\ UNCHANGED wire /\ Unseen) \/ Publish(w)
      PROVE  UNCHANGED greeting
  BY <1>5, BeginFrame, CommitFrame, DropFrame, PublishFrame DEF trayVars
<1>6. CASE SilentSweep \/ Browse
  BY <1>6, BrowseFrame DEF SilentSweep, trayVars
<1> QED  BY <1>2, <1>3, <1>4, <1>5, <1>6 DEF Next

\* The badge is set by an answer or by a push.
LEMMA BadgeMoves ==
    ASSUME Next
    PROVE  \/ UNCHANGED <<unread, last, newest>>
           \/ \E c \in calls : CallSucceeds(c) /\ SetUnread(c.unread, c.at)
           \/ DeliverNote /\ OnCount(Head(line)) /\ SetUnread(Head(line).unread, Head(line).at)
<1>1. CASE Notice
  <2>1. ASSUME NEW c \in calls, ServeMark(c) \/ CountMarked(c) \/ PushCount(c) \/ ServeRefresh(c) \/ CallFails(c)
        PROVE  UNCHANGED <<unread, last, newest>>
    BY <2>1 DEF ServeMark, CountMarked, PushCount, ServeRefresh, CallFails
  <2>2. ASSUME Refresh \/ MarkRead \/ MarkAllRead \/ MarkElsewhere \/ Greet
        PROVE  UNCHANGED <<unread, last, newest>>
    BY <2>2 DEF Refresh, MarkRead, MarkAllRead, MarkElsewhere, Greet
  <2>3. ASSUME NEW c \in calls, CallSucceeds(c)  PROVE SetUnread(c.unread, c.at)
    BY <2>3 DEF CallSucceeds
  <2>4. ASSUME DeliverNote, ~UNCHANGED <<unread, last, newest>>
        PROVE  OnCount(Head(line)) /\ SetUnread(Head(line).unread, Head(line).at)
    BY <2>4 DEF DeliverNote, OnNew, OnCount
  <2> QED  BY <1>1, <2>1, <2>2, <2>3, <2>4 DEF Notice
<1>2. ASSUME NEW w \in Writer,
             Begin(w) \/ Commit(w) \/ (Drop(w) /\ UNCHANGED wire /\ Unseen) \/ Publish(w)
      PROVE  UNCHANGED <<unread, last, newest>>
  BY <1>2, BeginFrame, CommitFrame, DropFrame, PublishFrame DEF trayVars
<1>3. CASE SilentSweep \/ Browse \/ Disconnect \/ Reconnect
  BY <1>3, BrowseFrame DEF SilentSweep, Disconnect, Reconnect, trayVars
<1> QED  BY <1>1, <1>2, <1>3 DEF Next

LEMMA CountsMove ==
    ASSUME TypeInv, Next, NEW d \in Counted'
    PROVE  d \in Counted \/ d = <<Unread', stamp'>>
<1> DEFINE Fine == d \in Counted \/ d = <<Unread', stamp'>>
<1>0. Coming \subseteq Counted
  BY DEF Counted
<1>1. ASSUME NEW i \in DOMAIN line', line'[i].kind = "count", d = Of(line'[i])  PROVE Fine
  <2>1. CASE \E j \in DOMAIN line : line'[i] = line[j]
    BY <1>0, <1>1, <2>1, ComingNow
  <2>2. CASE News(line'[i])
    <3>1. \A x : Of(CountMessage(x.unread, x.at)) = Of(x)
      BY DEF Of, CountMessage
    <3>2. ASSUME NEW w \in Writer, PushNotes(w), line'[i] = CountMessage(write[w].unread, write[w].at)
          PROVE  Fine
      BY <1>0, <1>1, <3>1, <3>2, ComingNow DEF PushNotes
    <3>3. ASSUME NEW c \in calls, PushCount(c), line'[i] = CountMessage(c.unread, c.at)  PROVE Fine
      BY <1>0, <1>1, <3>1, <3>3, ComingNow DEF PushCount
    <3>4. ASSUME greeting.pc = "counted", line'[i] = CountMessage(greeting.unread, greeting.at)  PROVE Fine
      BY <1>0, <1>1, <3>1, <3>4, ComingNow
    <3> HIDE DEF Fine
    <3> QED  BY <1>1, <2>2, <3>2, <3>3, <3>4 DEF News, Change
  <2> QED  BY <2>1, <2>2, LineMoves
<1>2. ASSUME NEW w \in Writer, write'[w].pc = "counted", d = Of(write'[w])  PROVE Fine
  <2>1. CASE write'[w] = write[w]
    BY <1>0, <1>2, <2>1, ComingNow
  <2>2. CASE FindNotes(w)
    BY <1>2, <2>2 DEF FindNotes, Idle, TypeInv, WriteInv
  <2>3. CASE CountNotes(w)
    <3>1. write'[w] = [pc |-> "counted", rows |-> write[w].rows, unread |-> Unread, at |-> stamp]
          /\ UNCHANGED <<notes, stamp>>
      BY <2>3 DEF CountNotes, TypeInv, WriteInv, database
    <3> QED  BY <1>2, <3>1 DEF Of, Unread
  <2> QED  BY <1>2, <2>1, <2>2, <2>3, WriteTells
<1>3. ASSUME NEW c \in calls', c.pc \in {"counted", "answered"}, d = Of(c)  PROVE Fine
  <2>1. CASE c \in calls
    BY <1>3, <2>1 DEF Counted, Coming
  <2>2. ASSUME NEW e \in calls, PushCount(e), Of(c) = Of(e)  PROVE Fine
    BY <1>0, <1>3, <2>2, ComingNow DEF PushCount
  <2> QED  BY <1>3, <2>1, <2>2, CallsMove
<1>4. ASSUME greeting'.pc = "counted", d = Of(greeting')  PROVE Fine
  <2>1. CASE greeting' = greeting
    BY <1>0, <1>4, <2>1, ComingNow
  <2> QED  BY <1>4, <2>1, GreetingMoves
<1>5. ASSUME d = <<unread', last'>>  PROVE Fine
  <2>1. CASE UNCHANGED <<unread, last, newest>>
    BY <1>5, <2>1 DEF Counted
  <2>2. ASSUME NEW c \in calls, CallSucceeds(c), SetUnread(c.unread, c.at)  PROVE Fine
    <3>1. c.pc = "answered" /\ d = Of(c)
      BY <1>5, <2>2 DEF CallSucceeds, SetUnread, Of
    <3> QED  BY <3>1 DEF Counted
  <2>3. CASE DeliverNote /\ OnCount(Head(line)) /\ SetUnread(Head(line).unread, Head(line).at)
    <3>1. 1 \in DOMAIN line /\ Head(line) = line[1]
      BY <2>3, TailMoves DEF DeliverNote, TypeInv, WireInv
    <3>2. line[1].kind = "count" /\ d = Of(line[1])
      BY <1>5, <2>3, <3>1 DEF OnCount, SetUnread, Of
    <3> QED  BY <1>0, <3>1, <3>2, ComingNow
  <2> QED  BY <2>1, <2>2, <2>3, BadgeMoves
<1> HIDE DEF Fine
<1>6. \/ \E i \in DOMAIN line' : line'[i].kind = "count" /\ d = Of(line'[i])
      \/ \E w \in Writer : write'[w].pc = "counted" /\ d = Of(write'[w])
      \/ \E c \in calls' : c.pc \in {"counted", "answered"} /\ d = Of(c)
      \/ greeting'.pc = "counted" /\ d = Of(greeting')
      \/ d = <<unread', last'>>
  BY ComingNext DEF Counted
<1> QED  BY <1>1, <1>2, <1>3, <1>4, <1>5, <1>6 DEF Fine

\* What a push leaves on the line.
LEMMA PushStays ==
    ASSUME WireInv, up, NEW msgs \in Seq(MessageT), Push(msgs)
    PROVE  /\ \A i \in DOMAIN line : \E j \in DOMAIN line' : line'[j] = line[i]
           /\ \A i \in DOMAIN msgs : \E j \in DOMAIN line' : line'[j] = msgs[i]
<1>1. line \in Seq(MessageT) /\ line' = line \o msgs
  BY DEF WireInv, Push
<1>2. /\ \A i \in DOMAIN line : i \in DOMAIN (line \o msgs) /\ (line \o msgs)[i] = line[i]
      /\ \A j \in DOMAIN msgs : \E i \in DOMAIN (line \o msgs) : (line \o msgs)[i] = msgs[j]
  BY <1>1, ConcatMoves
<1> QED  BY <1>1, <1>2

LEMMA PushOneStays ==
    ASSUME WireInv, up, NEW m \in MessageT, Push(<<m>>)
    PROVE  /\ \A i \in DOMAIN line : \E j \in DOMAIN line' : line'[j] = line[i]
           /\ \E j \in DOMAIN line' : line'[j] = m
<1> DEFINE msgs == <<m>>
<1>1. msgs \in Seq(MessageT) /\ Push(msgs) /\ 1 \in DOMAIN msgs /\ msgs[1] = m
  OBVIOUS
<1> HIDE DEF msgs
<1> QED  BY <1>1, PushStays

LEMMA LineStays ==
    ASSUME TypeInv, Next, up, up', NEW i \in DOMAIN line
    PROVE  \/ \E j \in DOMAIN line' : line'[j] = line[i]
           \/ line[i] = Head(line) /\ (Deliver \/ DeliverNote)
<1> DEFINE Stays == \E j \in DOMAIN line' : line'[j] = line[i]
           Taken == line[i] = Head(line)
<1> USE DEF TypeInv
<1>0. line \in Seq(MessageT)
  BY DEF WireInv
<1>1. ASSUME UNCHANGED line  PROVE Stays
  BY <1>1
<1>2. ASSUME line # << >>, line' = Tail(line)  PROVE Stays \/ Taken
  <2>1. line[i] = Head(line) \/ (i - 1 \in DOMAIN Tail(line) /\ Tail(line)[i - 1] = line[i])
    BY <1>0, <1>2, TailMoves
  <2> QED  BY <1>2, <2>1
<1>3. ASSUME NEW msgs \in Seq(MessageT), Push(msgs)  PROVE Stays
  BY <1>3, PushStays
<1> HIDE DEF Stays, Taken
<1>4. ASSUME NEW w \in Writer, PublishActivity(w)  PROVE Stays
  <2> DEFINE m == [kind |-> "activity", project |-> Job1(w).row.project]
             msgs == IF Addressed(Me, Job1(w).row, Job1(w).by) THEN Heeded(m) ELSE << >>
  <2>1. Job1(w) \in JobT
    BY <1>4, PublishesShape DEF PublishActivity
  <2>2. m \in MessageT
    BY <2>1, RowShape DEF JobT, MessageT
  <2>3. Push(msgs)
    BY <1>4 DEF PublishActivity
  <2> HIDE DEF m, TypeInv
  <2>4. msgs \in Seq(MessageT)
    BY <2>2, HeededTyped
  <2> HIDE DEF msgs
  <2> QED  BY <1>3, <2>3, <2>4
<1>5. ASSUME NEW w \in Writer, PublishChanged(w)  PROVE Stays
  <2>1. Push(Told(w)) /\ Publishes(w, "changed")
    BY <1>5 DEF PublishChanged, Told
  <2> QED  BY <1>3, <2>1, ToldTyped
<1>6. ASSUME NEW w \in Writer, PushNotes(w)  PROVE Stays
  <2> DEFINE m == [kind |-> "new", rows |-> write[w].rows]
             c == CountMessage(write[w].unread, write[w].at)
  <2>1. write[w] \in CountedT
    BY <1>6, WriteKinds DEF PushNotes
  <2>2. m \in MessageT /\ c \in MessageT
    BY <2>1, CountMessageTyped DEF CountedT, MessageT
  <2>3. Push(<<m, c>>)
    BY <1>6 DEF PushNotes
  <2> HIDE DEF m, c, TypeInv
  <2>4. <<m, c>> \in Seq(MessageT)
    BY <2>2
  <2> QED  BY <1>3, <2>3, <2>4
<1>7. ASSUME NEW c \in calls, PushCount(c)  PROVE Stays
  <2>1. c.unread \in Nat /\ c.at \in Nat
    BY <1>7, CallShape DEF PushCount, TrayInv
  <2>2. CountMessage(c.unread, c.at) \in MessageT /\ Push(<<CountMessage(c.unread, c.at)>>)
    BY <1>7, <2>1, CountMessageTyped DEF PushCount
  <2> QED  BY <2>2, PushOneStays DEF Stays
<1>8. CASE Greet
  <2>1. CASE greeting.pc = "counted" /\ Push(<<CountMessage(greeting.unread, greeting.at)>>)
    <3>1. greeting.unread \in Nat /\ greeting.at \in Nat
      BY <2>1 DEF TrayInv, GreetingT, NoGreeting
    <3>2. CountMessage(greeting.unread, greeting.at) \in MessageT
      BY <3>1, CountMessageTyped
    <3>3. Stays
      BY <2>1, <3>2, PushOneStays DEF Stays
    <3> QED  BY <3>3 DEF Stays
  <2> QED  BY <1>1, <1>8, <2>1 DEF Greet, Stays
<1> HIDE DEF TypeInv
<1>9. ASSUME NEW w \in Writer, Begin(w) \/ Commit(w) \/ (Drop(w) /\ UNCHANGED wire /\ Unseen) \/ Publish(w)
      PROVE  Stays
  <2>1. ASSUME FindNotes(w) \/ CountNotes(w)  PROVE UNCHANGED line
    BY <2>1 DEF FindNotes, CountNotes, wire
  <2> QED  BY <1>1, <1>4, <1>5, <1>6, <1>9, <2>1, BeginFrame, CommitFrame DEF wire, Publish
<1>10. CASE Browse
  <2>1. ASSUME NEW r \in asked, Serve(r) \/ ServeTiles(r) \/ ServeCards(r) \/ Arrive(r) \/ Fail(r)
        PROVE  UNCHANGED line
    BY <2>1 DEF Serve, ServeTiles, ServeCards, Arrive, Fail, wire
  <2>2. ASSUME Retry \/ TimerFires \/ ChangeFilter \/ \E w \in Writer : Reply(w)
        PROVE  UNCHANGED line
    BY <2>2 DEF Retry, TimerFires, ChangeFilter, Reply, wire
  <2>3. ASSUME Deliver  PROVE Stays \/ Taken
    BY <1>2, <2>3 DEF Deliver
  <2> QED  BY <1>1, <1>10, <2>1, <2>2, <2>3 DEF Browse, Stays, Taken
<1>11. CASE Notice
  <2>1. ASSUME Refresh \/ MarkRead \/ MarkAllRead \/ MarkElsewhere
        PROVE  UNCHANGED line
    BY <2>1 DEF Refresh, MarkRead, MarkAllRead, MarkElsewhere, wire
  <2>2. ASSUME NEW c \in calls, ServeMark(c) \/ CountMarked(c) \/ ServeRefresh(c)
                                \/ CallSucceeds(c) \/ CallFails(c)
        PROVE  UNCHANGED line
    BY <2>2 DEF ServeMark, CountMarked, ServeRefresh, CallSucceeds, CallFails, wire
  <2>3. ASSUME DeliverNote  PROVE Stays \/ Taken
    BY <1>2, <2>3 DEF DeliverNote
  <2> QED  BY <1>1, <1>7, <1>8, <1>11, <2>1, <2>2, <2>3 DEF Notice, Stays, Taken
<1>12. CASE SilentSweep
  BY <1>1, <1>12 DEF SilentSweep, wire, Stays
<1> QED  BY <1>9, <1>10, <1>11, <1>12 DEF Next, Disconnect, Reconnect, Stays

LEMMA UpMoves ==
    ASSUME Next
    PROVE  up' = up \/ (Disconnect /\ ~up') \/ (Reconnect /\ ~up /\ up')
<1>1. ASSUME NEW w \in Writer,
             Begin(w) \/ Commit(w) \/ (Drop(w) /\ UNCHANGED wire /\ Unseen) \/ Publish(w)
      PROVE  UNCHANGED up
  BY <1>1, BeginFrame, CommitFrame, DropFrame, PublishFrame DEF wire
<1> QED  BY <1>1, BrowseFrame, NoticeFrame DEF Next, SilentSweep, wire, Disconnect, Reconnect

\* A pushed count is on the line, for as long as the socket is there.
LEMMA PushedCounts ==
    ASSUME TypeInv, up
    PROVE  /\ \A w \in Writer : PushNotes(w) => Of(write[w]) \in Coming'
           /\ \A c \in calls : PushCount(c) => Of(c) \in Coming'
           /\ Greet /\ greeting.pc = "counted" => Of(greeting) \in Coming'
<1> USE DEF TypeInv
<1>0. \A x : CountMessage(x.unread, x.at).kind = "count" /\ Of(CountMessage(x.unread, x.at)) = Of(x)
  BY DEF Of, CountMessage
<1>1. ASSUME NEW w \in Writer, PushNotes(w)  PROVE Of(write[w]) \in Coming'
  <2> DEFINE m == [kind |-> "new", rows |-> write[w].rows]
             c == CountMessage(write[w].unread, write[w].at)
             msgs == <<m, c>>
  <2>1. write[w] \in CountedT
    BY <1>1, WriteKinds DEF PushNotes
  <2>2. m \in MessageT /\ c \in MessageT
    BY <2>1, CountMessageTyped DEF CountedT, MessageT
  <2>3. Push(msgs)
    BY <1>1 DEF PushNotes
  <2> HIDE DEF m, c, TypeInv
  <2>4. msgs \in Seq(MessageT) /\ 2 \in DOMAIN msgs /\ msgs[2] = c
    BY <2>2
  <2> HIDE DEF msgs
  <2>5. PICK j \in DOMAIN line' : line'[j] = c
    BY <2>3, <2>4, PushStays DEF TypeInv
  <2> QED  BY <1>0, <2>5, ComingNext DEF c
<1>2. ASSUME NEW m \in MessageT, m.kind = "count", Push(<<m>>)  PROVE Of(m) \in Coming'
  <2>1. PICK j \in DOMAIN line' : line'[j] = m
    BY <1>2, PushOneStays
  <2> QED  BY <1>2, <2>1, ComingNext
<1>3. ASSUME NEW c \in calls, PushCount(c)  PROVE Of(c) \in Coming'
  <2>1. c.unread \in Nat /\ c.at \in Nat
    BY <1>3, CallShape DEF PushCount, TrayInv
  <2>2. CountMessage(c.unread, c.at) \in MessageT /\ Push(<<CountMessage(c.unread, c.at)>>)
    BY <1>3, <2>1, CountMessageTyped DEF PushCount
  <2> HIDE DEF TypeInv
  <2> QED  BY <1>0, <1>2, <2>2
<1>4. ASSUME Greet, greeting.pc = "counted"  PROVE Of(greeting) \in Coming'
  <2>1. greeting.unread \in Nat /\ greeting.at \in Nat /\ Push(<<CountMessage(greeting.unread, greeting.at)>>)
    BY <1>4 DEF TrayInv, GreetingT, NoGreeting, Greet
  <2>2. CountMessage(greeting.unread, greeting.at) \in MessageT
    BY <2>1, CountMessageTyped
  <2> HIDE DEF TypeInv
  <2> QED  BY <1>0, <1>2, <2>1, <2>2
<1> QED  BY <1>1, <1>3, <1>4

\* A count on its way stays on its way until the badge shows one as new.
LEMMA CountsStay ==
    ASSUME TypeInv, TypeInv', Next, page.kind = "tray", ~Settling', NEW e \in Coming
    PROVE  e \in Coming' \/ e[2] <= newest'
<1>0. up /\ up'
  <2>1. up' /\ greeting'.pc # "due" /\ up \in BOOLEAN
    BY DEF Settling, TypeInv, WireInv
  <2>2. ~Reconnect
    BY <2>1 DEF Reconnect
  <2> QED  BY <2>1, <2>2, UpMoves
<1>1. ASSUME NEW i \in DOMAIN line, line[i].kind = "count", e = Of(line[i])
      PROVE  e \in Coming' \/ e[2] <= newest'
  <2>1. CASE \E j \in DOMAIN line' : line'[j] = line[i]
    BY <1>1, <2>1, ComingNext
  <2>2. CASE line[i] = Head(line) /\ (Deliver \/ DeliverNote)
    <3>1. CASE DeliverNote
      <4>1. SetUnread(line[i].unread, line[i].at)
        BY <1>1, <2>2, <3>1 DEF DeliverNote, OnNew, OnCount
      <4>2. line[i] \in MessageT
        BY DEF TypeInv, WireInv
      <4>3. line[i].at \in Nat /\ newest \in Nat
        BY <1>1, <4>2 DEF MessageT, ChangeT, TypeInv, TrayInv
      <4> QED  BY <1>1, <4>1, <4>3 DEF SetUnread, Of
    <3>2. CASE Deliver
      BY <1>1, <2>2, <3>2 DEF Deliver, OnActivity, OnListChanged, OnTaskChanged
    <3> QED  BY <2>2, <3>1, <3>2
  <2> QED  BY <1>0, <2>1, <2>2, LineStays
<1>2. ASSUME NEW w \in Writer, write[w].pc = "counted", e = Of(write[w])  PROVE e \in Coming'
  <2>1. CASE write'[w] = write[w]
    BY <1>2, <2>1, ComingNext
  <2>2. CASE PushNotes(w)
    BY <1>0, <1>2, <2>2, PushedCounts
  <2>3. ~Begin(w) /\ ~Commit(w) /\ ~Drop(w)
    <3>1. write[w] # Idle
      BY <1>2 DEF Idle
    <3>2. ~Begin(w) /\ ~Create(w) /\ ~SweepClaim(w)
      BY <3>1 DEF Begin, BeginUpdate, BeginDelete, Create, SweepClaim
    <3> QED  BY <1>2, <3>2 DEF Commit, CommitUpdate, CommitDelete, Drop
  <2>4. ~PublishActivity(w) /\ ~PublishChanged(w) /\ ~FindNotes(w) /\ ~CountNotes(w) /\ ~Reply(w)
    BY <1>2 DEF PublishActivity, PublishChanged, Publishes, FindNotes, CountNotes, Reply
  <2> QED  BY <2>1, <2>2, <2>3, <2>4, WriteMoves DEF Publish
<1>3. ASSUME NEW c \in calls, c.pc = "counted", e = Of(c)  PROVE e \in Coming'
  <2>1. CASE c \in calls'
    BY <1>3, <2>1, ComingNext
  <2>2. CASE PushCount(c)
    BY <1>0, <1>3, <2>2, PushedCounts
  <2> QED  BY <1>3, <2>1, <2>2, CallsMove DEF CountMarked
<1>4. ASSUME greeting.pc = "counted", e = Of(greeting)  PROVE e \in Coming'
  <2>1. CASE greeting' = greeting
    BY <1>4, <2>1, ComingNext
  <2>2. CASE Greet
    BY <1>0, <1>4, <2>2, PushedCounts
  <2> QED  BY <1>0, <1>4, <2>1, <2>2, GreetingMoves DEF Disconnect, Reconnect
<1> QED  BY <1>1, <1>2, <1>3, <1>4, ComingNow

LEMMA SilentMoves ==
    ASSUME TypeInv, Next
    PROVE  silent' = silent \/ (silent' = stamp' /\ stamp' = stamp + 1)
<1>1. ASSUME NEW w \in Writer, Commit(w)  PROVE silent' = silent \/ (silent' = stamp' /\ stamp' = stamp + 1)
  <2>1. stamp' = stamp + 1
    BY <1>1, CommitNotes DEF NotifiesOf
  <2> QED  BY <1>1, <2>1 DEF Commit, Vanish
<1>2. ASSUME NEW w \in Writer, Begin(w) \/ (Drop(w) /\ UNCHANGED wire /\ Unseen) \/ Publish(w)
      PROVE  UNCHANGED silent
  BY <1>2, BeginFrame, DropFrame, PublishFrame DEF trayVars
<1>3. CASE Notice
  <2>1. ASSUME NEW c \in calls, ServeMark(c) \/ CountMarked(c) \/ PushCount(c) \/ ServeRefresh(c)
                                \/ CallSucceeds(c) \/ CallFails(c)
        PROVE  UNCHANGED silent
    BY <2>1 DEF ServeMark, CountMarked, PushCount, ServeRefresh, CallSucceeds, CallFails
  <2>2. ASSUME Refresh \/ MarkRead \/ MarkAllRead \/ MarkElsewhere \/ Greet \/ DeliverNote
        PROVE  UNCHANGED silent
    BY <2>2 DEF Refresh, MarkRead, MarkAllRead, MarkElsewhere, Greet, DeliverNote, OnNew, OnCount
  <2> QED  BY <1>3, <2>1, <2>2 DEF Notice
<1>4. CASE SilentSweep \/ Browse \/ Disconnect \/ Reconnect
  BY <1>4, BrowseFrame DEF SilentSweep, Disconnect, Reconnect, trayVars
<1> QED  BY <1>1, <1>2, <1>3, <1>4 DEF Next

\* Notifications change with a commit or a mark.
LEMMA NotesChange ==
    ASSUME Next
    PROVE  \/ UNCHANGED <<notes, stamp>> \/ (notes' = notes /\ stamp' = stamp + 1)
           \/ (\E w \in Writer : Commit(w)) \/ (\E c \in calls : ServeMark(c))
<1>1. ASSUME Refresh \/ MarkRead \/ MarkAllRead \/ MarkElsewhere \/ Greet \/ DeliverNote
      PROVE  UNCHANGED <<notes, stamp>>
  BY <1>1 DEF Refresh, MarkRead, MarkAllRead, MarkElsewhere, Greet, DeliverNote, server, database
<1>2. ASSUME NEW c \in calls, CountMarked(c) \/ PushCount(c) \/ ServeRefresh(c)
                              \/ CallSucceeds(c) \/ CallFails(c)
      PROVE  UNCHANGED <<notes, stamp>>
  BY <1>2 DEF CountMarked, PushCount, ServeRefresh, CallSucceeds, CallFails, server, database
<1>3. ASSUME NEW w \in Writer, Begin(w) \/ (Drop(w) /\ UNCHANGED wire /\ Unseen) \/ Publish(w)
      PROVE  UNCHANGED <<notes, stamp>>
  BY <1>3, BeginFrame, DropFrame, PublishFrame DEF database
<1>4. ASSUME Browse \/ Disconnect \/ Reconnect  PROVE UNCHANGED <<notes, stamp>>
  BY <1>4, BrowseFrame DEF Disconnect, Reconnect, server, database
<1>5. ASSUME SilentSweep  PROVE notes' = notes /\ stamp' = stamp + 1
  BY <1>5 DEF SilentSweep, SweepClear
<1>6. ASSUME Notice  PROVE UNCHANGED <<notes, stamp>> \/ \E d \in calls : ServeMark(d)
  <2> DEFINE Fine == UNCHANGED <<notes, stamp>> \/ \E d \in calls : ServeMark(d)
  <2>1. ASSUME Refresh \/ MarkRead \/ MarkAllRead \/ MarkElsewhere \/ Greet \/ DeliverNote  PROVE Fine
    BY <1>1, <2>1
  <2>2. ASSUME NEW c \in calls, ServeMark(c)  PROVE Fine
    BY <2>2
  <2>3. ASSUME NEW c \in calls, CountMarked(c) \/ PushCount(c) \/ ServeRefresh(c)
                                \/ CallSucceeds(c) \/ CallFails(c)
        PROVE  Fine
    BY <1>2, <2>3
  <2> HIDE DEF Fine
  <2>4. Fine
    BY <1>6, <2>1, <2>2, <2>3 DEF Notice
  <2> QED  BY <2>4 DEF Fine
<1> DEFINE Fine == \/ UNCHANGED <<notes, stamp>> \/ (notes' = notes /\ stamp' = stamp + 1)
                   \/ (\E w \in Writer : Commit(w)) \/ (\E c \in calls : ServeMark(c))
<1>7. ASSUME NEW w \in Writer, Begin(w) \/ (Drop(w) /\ UNCHANGED wire /\ Unseen) \/ Publish(w)  PROVE Fine
  BY <1>3, <1>7
<1>8. ASSUME NEW w \in Writer, Commit(w)  PROVE Fine
  BY <1>8
<1>9. ASSUME Browse \/ Disconnect \/ Reconnect \/ SilentSweep \/ Notice  PROVE Fine
  BY <1>4, <1>5, <1>6, <1>9
<1> HIDE DEF Fine
<1>10. Fine
  BY <1>7, <1>8, <1>9 DEF Next
<1> QED  BY <1>10 DEF Fine

\* A mark is counted, or will be.
LEMMA MarkCounts ==
    ASSUME TypeInv, NEW c \in calls, ServeMark(c)
    PROVE  UNCHANGED <<notes, stamp>> \/ Settling' \/ <<Unread', stamp'>> \in Coming'
<1>0. c \in CallT /\ c.pc = "sent" /\ c.kind \in {"mark", "all"}
  BY DEF ServeMark, TypeInv, TrayInv
<1>1. CASE c.kind = "mark" /\ c.id \notin DOMAIN notes
  BY <1>1 DEF ServeMark
<1>2. CASE c.kind = "mark" /\ c.id \in DOMAIN notes
  <2>1. [c EXCEPT !.pc = "marked"] \in calls'
    BY <1>2 DEF ServeMark, Becomes
  <2>2. [c EXCEPT !.pc = "marked"].pc = "marked"
    BY <1>0 DEF CallT
  <2> QED  BY <2>1, <2>2 DEF Settling
<1>3. CASE c.kind = "all"
  <2> DEFINE d == With(c, "counted", 0, stamp')
  <2>1. d \in calls' /\ notes' = [n \in DOMAIN notes |-> notes[n] \/ c.kind = "all" \/ n = c.id]
    BY <1>3 DEF ServeMark, Becomes
  <2>2. {n \in DOMAIN notes' : ~notes'[n]} = {}
    BY <1>3, <2>1
  <2>3. Unread' = 0
    BY <2>2, FS_EmptySet DEF Unread
  <2>4. d.pc = "counted" /\ Of(d) = <<Unread', stamp'>>
    BY <2>3 DEF With, Of
  <2> HIDE DEF d
  <2> QED  BY <2>1, <2>4, ComingNext
<1> QED  BY <1>0, <1>1, <1>2, <1>3

\* A commit that changes what is unread tells of it, or takes it away in silence.
LEMMA CommitCounts ==
    ASSUME TypeInv, NEW w \in Writer, Commit(w)
    PROVE  \/ Settling' \/ stamp < silent'
           \/ {n \in DOMAIN notes' : ~notes'[n]} = {n \in DOMAIN notes : ~notes[n]}
<1>1. PICK ids : NotifiesOf(w, ids)
  BY CommitNotes
<1>2. stamp' = stamp + 1 /\ stamp \in Nat
  BY <1>1 DEF NotifiesOf, TypeInv, DbInv
<1>3. CASE ids # {}
  <2>1. write'[w].pc = "publish" /\ write'[w].ids = ids /\ notes' = Inserted(ids)
    BY <1>1, <1>3 DEF NotifiesOf
  <2>2. PICK n : n \in ids
    BY <1>3
  <2>3. n \in DOMAIN notes' /\ ~notes'[n]
    BY <2>1, <2>2 DEF Inserted
  <2>4. Ahead(write'[w], notes')
    BY <2>1, <2>2, <2>3 DEF Ahead
  <2> QED  BY <2>4 DEF Settling, Ahead
<1>4. CASE ids = {} /\ notes' = Inserted(ids)
  <2>1. DOMAIN notes' = DOMAIN notes /\ \A n \in DOMAIN notes : notes'[n] = notes[n]
    BY <1>4 DEF Inserted
  <2> QED  BY <2>1
<1>5. ASSUME NEW kept \in SUBSET DOMAIN notes, notes' = Restrict(notes, kept), ~(stamp < silent')
      PROVE  {n \in DOMAIN notes' : ~notes'[n]} = {n \in DOMAIN notes : ~notes[n]}
  <2>1. DOMAIN notes' = kept /\ \A n \in kept : notes'[n] = notes[n]
    BY <1>5 DEF Restrict
  <2>2. \A n \in DOMAIN notes \ kept : notes[n]
    BY <1>2, <1>5, <2>1 DEF Commit, Vanish
  <2> QED  BY <2>1, <2>2
<1> QED  BY <1>1, <1>3, <1>4, <1>5 DEF NotifiesOf

LEMMA UnreadMoves ==
    ASSUME TypeInv, Next
    PROVE  /\ stamp <= stamp' /\ (stamp' = stamp => Unread' = Unread)
           /\ Unread' = Unread \/ Settling' \/ stamp < silent' \/ <<Unread', stamp'>> \in Coming'
<1>1. stamp \in Nat
  BY DEF TypeInv, DbInv
<1>2. ASSUME notes' = notes  PROVE Unread' = Unread
  BY <1>2 DEF Unread
<1>3. ASSUME NEW w \in Writer, Commit(w)
      PROVE  stamp' = stamp + 1 /\ (Unread' = Unread \/ Settling' \/ stamp < silent')
  <2>1. stamp' = stamp + 1
    BY <1>3, CommitNotes DEF NotifiesOf
  <2>2. CASE {n \in DOMAIN notes' : ~notes'[n]} = {n \in DOMAIN notes : ~notes[n]}
    BY <2>1, <2>2 DEF Unread
  <2> QED  BY <1>3, <2>1, <2>2, CommitCounts
<1>4. ASSUME NEW c \in calls, ServeMark(c)
      PROVE  /\ stamp' \in {stamp, stamp + 1} /\ (stamp' = stamp => notes' = notes)
             /\ notes' = notes \/ Settling' \/ <<Unread', stamp'>> \in Coming'
  <2>1. stamp' \in {stamp, stamp + 1} /\ (stamp' = stamp => notes' = notes)
    BY <1>1, <1>4 DEF ServeMark
  <2> QED  BY <1>4, <2>1, MarkCounts
<1> QED  BY <1>1, <1>2, <1>3, <1>4, NotesChange

\* A publication that has unread notifications to tell of goes on to tell of them.
LEMMA AheadGoesOn ==
    ASSUME TypeInv, Next, page.kind = "tray", NEW w \in Writer, Ahead(write[w], notes)
    PROVE  Settling' \/ stamp < silent' \/ <<Unread', stamp'>> \in Coming'
<1> DEFINE Done == Settling' \/ stamp < silent' \/ <<Unread', stamp'>> \in Coming'
<1>1. ASSUME Ahead(write'[w], notes')  PROVE Done
  BY <1>1 DEF Settling, Ahead
<1>2. /\ write \in [Writer -> WriteT] /\ write[w].pc \in {"found", "publish"} /\ stamp \in Nat
      /\ write[w] # Idle
  BY DEF Ahead, TypeInv, WriteInv, DbInv, Idle
<1>3. ~Begin(w) /\ ~Commit(w) /\ ~Drop(w)
  <2>1. ~Begin(w) /\ ~Create(w) /\ ~SweepClaim(w)
    BY <1>2 DEF Begin, BeginUpdate, BeginDelete, Create, SweepClaim
  <2> QED  BY <1>2, <2>1 DEF Commit, CommitUpdate, CommitDelete, Drop
<1>4. ~Reply(w)
  BY ReplyShape
<1>5. CASE write[w].pc = "found"
  <2>1. CASE write'[w] = write[w]
    BY <1>1, <1>5, <2>1 DEF Ahead
  <2>2. CASE CountNotes(w)
    <3>1. write'[w] = [pc |-> "counted", rows |-> write[w].rows, unread |-> Unread, at |-> stamp]
          /\ UNCHANGED <<notes, stamp>>
      BY <1>2, <2>2 DEF CountNotes, database
    <3>2. write'[w].pc = "counted" /\ Of(write'[w]) = <<Unread', stamp'>>
      BY <3>1 DEF Of, Unread
    <3> QED  BY <3>2, ComingNext
  <2>3. ~PublishActivity(w) /\ ~PublishChanged(w) /\ ~FindNotes(w) /\ ~PushNotes(w)
    BY <1>5 DEF PublishActivity, PublishChanged, Publishes, FindNotes, PushNotes
  <2> HIDE DEF Done
  <2> QED  BY <1>3, <1>4, <2>1, <2>2, <2>3, WriteMoves DEF Publish, Done
<1>6. CASE write[w].pc = "publish"
  <2>1. PICK n \in write[w].ids : n \in DOMAIN notes /\ ~notes[n]
    BY <1>6 DEF Ahead
  <2>2. write[w] \in PublicationT
    BY <1>6, WriteKinds DEF TypeInv
  <2>3. CASE n \in DOMAIN notes' /\ ~notes'[n] /\ write'[w].pc = "publish" /\ write'[w].ids = write[w].ids
    BY <1>1, <2>1, <2>3 DEF Ahead
  <2>4. CASE FindNotes(w)
    <3>1. write'[w].pc = "found"
      BY <1>2, <2>1, <2>4 DEF FindNotes
    <3> QED  BY <1>1, <3>1 DEF Ahead
  <2>5. CASE PublishActivity(w)
    <3>1. write[w].jobs # << >> /\ write'[w] = Announced(write[w]) /\ notes' = notes
      BY <1>2, <2>5 DEF PublishActivity, Publishes, Announced, database
    <3>2. write'[w].pc = "publish" /\ write'[w].ids = write[w].ids
      BY <2>2, <3>1, AnnouncedTyped DEF PublicationT
    <3> QED  BY <2>1, <2>3, <3>1, <3>2
  <2>6. CASE PublishChanged(w)
    <3>1. write[w].jobs # << >> /\ write'[w] = Settled(Shortened(write[w])) /\ notes' = notes
      BY <1>2, <2>6 DEF PublishChanged, Publishes, Shortened, database
    <3>2. Shortened(write[w]) \in PublicationT /\ Shortened(write[w]).ids = write[w].ids
      BY <2>2, <3>1, ShortenedTyped
    <3>3. write'[w] = Shortened(write[w])
      BY <2>1, <3>1, <3>2 DEF Settled
    <3>4. write'[w].pc = "publish" /\ write'[w].ids = write[w].ids
      BY <3>2, <3>3 DEF PublicationT
    <3> QED  BY <2>1, <2>3, <3>1, <3>4
  <2>7. CASE write'[w] = write[w]
    <3>1. CASE n \in DOMAIN notes' /\ ~notes'[n]
      BY <1>6, <2>3, <2>7, <3>1
    <3>2. CASE ~(n \in DOMAIN notes' /\ ~notes'[n])
      <4>1. notes' # notes
        BY <2>1, <3>2
      <4>2. ASSUME NEW v \in Writer, Commit(v)  PROVE Done
        <5>1. {x \in DOMAIN notes' : ~notes'[x]} # {x \in DOMAIN notes : ~notes[x]}
          BY <2>1, <3>2
        <5> QED  BY <4>2, <5>1, CommitCounts
      <4>3. ASSUME NEW c \in calls, ServeMark(c)  PROVE Done
        BY <4>1, <4>3, MarkCounts
      <4> HIDE DEF Done
      <4>4. Done
        BY <4>1, <4>2, <4>3, NotesChange
      <4> QED  BY <4>4 DEF Done
    <3> QED  BY <3>1, <3>2
  <2>8. ~CountNotes(w) /\ ~PushNotes(w)
    BY <1>6 DEF CountNotes, PushNotes
  <2> HIDE DEF Done
  <2>9. Done
    BY <1>3, <1>4, <2>4, <2>5, <2>6, <2>7, <2>8, WriteMoves DEF Publish, Done
  <2> QED  BY <2>9 DEF Done
<1> QED  BY <1>2, <1>5, <1>6

LEMMA SettlingEnds ==
    ASSUME TypeInv, TypeInv', Next, page.kind = "tray", Settling
    PROVE  Settling' \/ stamp < silent' \/ <<Unread', stamp'>> \in Coming'
<1> DEFINE Done == Settling' \/ stamp < silent' \/ <<Unread', stamp'>> \in Coming'
<1>1. CASE ~up
  <2>1. CASE Reconnect
    BY <2>1 DEF Reconnect, Settling
  <2>2. CASE ~Reconnect
    BY <1>1, <2>2, UpMoves DEF Settling
  <2> QED  BY <2>1, <2>2
<1>2. CASE greeting.pc = "due"
  <2>1. CASE greeting' = greeting
    BY <1>2, <2>1 DEF Settling
  <2>2. CASE greeting'.pc = "counted" /\ Of(greeting') = <<Unread', stamp'>>
    BY <2>2, ComingNext
  <2>3. CASE Disconnect \/ (Reconnect /\ greeting'.pc = "due")
    BY <2>3 DEF Disconnect, Settling
  <2> QED  BY <1>2, <2>1, <2>2, <2>3, GreetingMoves
<1>3. ASSUME NEW w \in Writer, Ahead(write[w], notes)  PROVE Done
  BY <1>3, AheadGoesOn
<1>4. ASSUME NEW c \in calls, c.pc = "marked"  PROVE Done
  <2>1. CASE c \in calls'
    BY <1>4, <2>1 DEF Settling
  <2>2. CASE CountMarked(c)
    <3> DEFINE d == With(c, "counted", Unread, stamp)
    <3>1. d \in calls' /\ UNCHANGED <<notes, stamp>>
      BY <2>2 DEF CountMarked, Becomes, server, database
    <3>2. d.pc = "counted" /\ Of(d) = <<Unread', stamp'>>
      BY <3>1 DEF With, Of, Unread
    <3> HIDE DEF d
    <3> QED  BY <3>1, <3>2, ComingNext
  <2> HIDE DEF Done
  <2>3. ~PushCount(c)
    BY <1>4 DEF PushCount
  <2> QED  BY <1>4, <2>1, <2>2, <2>3, CallsMove DEF Done
<1> HIDE DEF Done
<1> QED  BY <1>1, <1>2, <1>3, <1>4 DEF Settling, Done

LEMMA BadgeStep ==
    ASSUME TypeInv, TypeInv', Next, BadgeInv
    PROVE  BadgeInv'
<1>1. SUFFICES ASSUME page'.kind = "tray"  PROVE BadgeInv'
  BY DEF BadgeInv
<1>2. page.kind = "tray"
  BY <1>1, PageStep DEF Leads
<1>3. {stamp, stamp', newest, newest', silent, silent'} \subseteq Nat
  BY DEF TypeInv, DbInv, TrayInv
<1>4. newest <= stamp /\ silent <= stamp /\ \A d \in Counted : d[2] <= stamp
  BY <1>2 DEF BadgeInv, Right
<1>5. newest <= newest' /\ (newest' <= stamp)
  <2>1. ASSUME NEW n, NEW at \in Nat, SetUnread(n, at), <<n, at>> \in Counted
        PROVE  newest <= newest' /\ newest' <= stamp
    <3>1. at <= stamp
      BY <1>4, <2>1
    <3> QED  BY <1>3, <1>4, <2>1, <3>1 DEF SetUnread
  <2>2. CASE UNCHANGED <<unread, last, newest>>
    BY <1>3, <1>4, <2>2
  <2>3. ASSUME NEW c \in calls, CallSucceeds(c), SetUnread(c.unread, c.at)
        PROVE  newest <= newest' /\ newest' <= stamp
    <3>1. c.pc = "answered"
      BY <2>3 DEF CallSucceeds
    <3>2. c.at \in Nat /\ <<c.unread, c.at>> \in Counted
      BY <3>1, CallShape DEF Counted, Of, TypeInv, TrayInv
    <3> QED  BY <2>1, <2>3, <3>2
  <2>4. CASE DeliverNote /\ OnCount(Head(line)) /\ SetUnread(Head(line).unread, Head(line).at)
    <3>1. 1 \in DOMAIN line /\ Head(line) = line[1] /\ line[1] \in MessageT
      BY <2>4, TailMoves DEF DeliverNote, TypeInv, WireInv
    <3>2. line[1].kind = "count" /\ SetUnread(line[1].unread, line[1].at)
      BY <2>4, <3>1 DEF OnCount
    <3>3. Of(line[1]) \in Counted /\ line[1].at \in Nat
      BY <3>1, <3>2, ComingNow, CountedTyped DEF MessageT, ChangeT
    <3> QED  BY <2>1, <3>2, <3>3 DEF Of
  <2> QED  BY <2>2, <2>3, <2>4, BadgeMoves
<1>6. stamp <= stamp' /\ (stamp' = stamp => Unread' = Unread)
      /\ (Unread' = Unread \/ Settling' \/ stamp < silent' \/ <<Unread', stamp'>> \in Coming')
  BY UnreadMoves
<1>7. silent <= silent' /\ silent' <= stamp' /\ newest' <= stamp'
  BY <1>3, <1>4, <1>5, <1>6, SilentMoves
<1>8. \A d \in Counted' : d \in Counted \/ d = <<Unread', stamp'>>
  BY CountsMove
<1>9. Settling => Settling' \/ stamp < silent' \/ <<Unread', stamp'>> \in Coming'
  BY <1>2, SettlingEnds
<1>10. ~Settling' => \A e \in Coming : e \in Coming' \/ e[2] <= newest'
  BY <1>2, CountsStay
<1> QED  BY <1>2, <1>5, <1>6, <1>7, <1>8, <1>9, <1>10, BadgeKept

LEMMA BadgeInit ==
    ASSUME Init
    PROVE  BadgeInv
<1>1. SUFFICES ASSUME page.kind = "tray"
               PROVE  /\ \A d \in Counted : Right(d, stamp, Unread)
                      /\ newest <= stamp /\ silent <= stamp
                      /\ Settling \/ \A d \in Counted : Newest(d) => d[1] = Unread
  BY DEF BadgeInv
<1>2. /\ stamp = 1 /\ line = << >> /\ write = [w \in Writer |-> Idle]
      /\ greeting = NoGreeting /\ last = 0 /\ newest = 0 /\ silent = 0
      /\ unread = IF up THEN Unread ELSE 0
  BY DEF Init, WritesInit, TrayInit
<1>3. \A c \in calls : c.pc = "sent"
  BY DEF Init, TrayInit, Call
<1>4. Counted = {<<unread, last>>}
  <2>1. Coming = {}
    BY <1>2, <1>3 DEF Coming, Idle, NoGreeting
  <2> QED  BY <1>3, <2>1 DEF Counted
<1>5. \A d \in Counted : Right(d, stamp, Unread)
  BY <1>2, <1>4 DEF Right
<1>6. Settling \/ \A d \in Counted : d[1] = Unread
  BY <1>2, <1>4 DEF Settling
<1> QED  BY <1>2, <1>5, <1>6

LEMMA BadgeStutter ==
    ASSUME BadgeInv, UNCHANGED vars
    PROVE  BadgeInv'
<1>1. UNCHANGED <<page, stamp, notes, up, line, write, calls, greeting, unread, last, newest, silent>>
  BY DEF vars, server, database, wire, pageVars, trayVars
<1>2. Unread' = Unread
  BY <1>1 DEF Unread
<1>3. Coming' = Coming
  BY <1>1 DEF Coming, Of
<1>4. Counted' = Counted
  BY <1>1, <1>3 DEF Counted, Of
<1>5. Settling' = Settling
  BY <1>1 DEF Settling, Ahead
<1> QED  BY <1>1, <1>2, <1>3, <1>4, <1>5 DEF BadgeInv, Newest, Right

THEOREM BadgeRight == Spec => []BadgeInv
<1>1. TypeInv /\ TypeInv' /\ [Next]_vars /\ BadgeInv => BadgeInv'
  BY BadgeStep, BadgeStutter
<1> QED  BY <1>1, BadgeInit, Typed, PTL DEF Spec

\* Once nothing is on its way the badge is the number of unread notifications, or
\* it drifted in one of the two ways that are named: for every interleaving of
\* marks, pushes, refreshes, greetings and commits (BadgeSettles).
THEOREM BadgeIsRight == Spec => []BadgeSettles
<1>1. ASSUME TypeInv, BadgeInv, AtRest, page.kind = "tray"
      PROVE  unread = Unread \/ last < newest \/ last < silent
  <2>1. up /\ line = << >> /\ calls = {} /\ greeting.pc = "none"
        /\ \A w \in Writer : write[w].pc \in {"idle", "update", "delete"}
    BY <1>1 DEF AtRest, NoGreeting
  <2>2. ~Settling
    BY <2>1 DEF Settling, Ahead
  <2>3. Coming = {}
    BY <2>1 DEF Coming
  <2>4. <<unread, last>> \in Counted
    BY DEF Counted
  <2>5. {last, newest, silent} \subseteq Nat
    BY <1>1 DEF TypeInv, TrayInv
  <2>6. CASE newest <= last /\ silent <= last
    <3>1. Newest(<<unread, last>>)
      BY <2>3, <2>6 DEF Newest
    <3> QED  BY <1>1, <2>2, <2>4, <3>1 DEF BadgeInv
  <2> QED  BY <2>5, <2>6
<1>2. TypeInv /\ BadgeInv => BadgeSettles
  BY <1>1 DEF BadgeSettles
<1> QED  BY <1>2, BadgeRight, Typed, PTL

-----------------------------------------------------------------------------
(* Live and Tasks model one tasks.service.ts.  What Live writes, logs and    *)
(* tells its user is what Tasks does with the same row, body and clock.      *)

\* Tasks over the table of this behaviour.  Only its operators are used: the
\* tables that Live leaves out stand empty.
Board == INSTANCE Tasks WITH
    Active <- User, Slot <- Writer, Sweeper <- {}, DueDates <- {}, BatchSize <- 0, MaxTime <- 0,
    MaxFaults <- 0, log <- {}, notifications <- {}, now <- Today, request <- write, sweep <- << >>,
    faults <- 0

\* A row as Tasks has it: no version, and whether it has a completion time.
InTasks(row, completed) ==
    [project |-> row.project, status |-> row.status, due |-> row.due, assignee |-> row.assignee,
     overdue |-> row.overdue, completed |-> completed]

\* The same request, in Tasks.
AskedOfTasks(q) ==
    [pc |-> "update", actor |-> q.actor, task |-> q.task, seen |-> InTasks(q.seen, FALSE),
     patch |-> q.patch, at |-> Today]

LEMMA SamePredicate ==
    \A status, due : Board!IsOverdueNow(status, due, Today) = IsOverdueNow(status, due)
BY DEF Board!IsOverdueNow, IsOverdueNow

LEMMA SameWanted ==
    ASSUME NEW q \in UpdateT
    PROVE  /\ Board!NextStatus(AskedOfTasks(q)) = Wanted(q).status
           /\ Board!NextAssignee(AskedOfTasks(q)) = Wanted(q).assignee
           /\ Board!NextDue(AskedOfTasks(q)) = Wanted(q).due
           /\ Board!NextOverdue(AskedOfTasks(q), Today) = Wanted(q).overdue
           /\ Wanted(q).project = q.seen.project /\ Wanted(q).at = q.seen.at
BY SamePredicate DEF UpdateT, Row, Wanted, AskedOfTasks, InTasks, Board!NextStatus,
   Board!NextAssignee, Board!NextDue, Board!NextOverdue

LEMMA SameDifferences ==
    ASSUME NEW q \in UpdateT
    PROVE  /\ Board!StatusChanges(AskedOfTasks(q)) <=> "status" \in Differs(q)
           /\ Board!AssigneeChanges(AskedOfTasks(q)) <=> "assignee" \in Differs(q)
           /\ Board!DueChanges(AskedOfTasks(q)) <=> "due" \in Differs(q)
           /\ Board!DetailsChange(AskedOfTasks(q)) <=> "details" \in Differs(q)
           /\ Board!OverdueChanges(AskedOfTasks(q), Today) <=> "overdue" \in Differs(q)
           /\ Differs(q) \subseteq {"status", "assignee", "due", "details", "overdue"}
<1> DEFINE s == AskedOfTasks(q)
           want == Wanted(q)
<1>1. DOMAIN q.seen = {"project", "status", "assignee", "due", "overdue", "at"}
  BY DEF UpdateT, Row
<1>2. /\ s.patch = q.patch /\ s.seen.status = q.seen.status
      /\ s.seen.assignee = q.seen.assignee /\ s.seen.due = q.seen.due
      /\ s.seen.overdue = q.seen.overdue
  BY DEF AskedOfTasks, InTasks
<1>3. /\ Board!NextStatus(s) = want.status /\ Board!NextAssignee(s) = want.assignee
      /\ Board!NextDue(s) = want.due /\ Board!NextOverdue(s, Today) = want.overdue
      /\ want.project = q.seen.project /\ want.at = q.seen.at
  BY SameWanted
<1>4. Differs(q) = {c \in {"project", "status", "assignee", "due", "overdue", "at"} :
                       want[c] # q.seen[c]} \cup ({"details"} \cap DOMAIN q.patch)
  BY <1>1 DEF Differs
<1> HIDE DEF s, want
<1>5. /\ Board!StatusChanges(s) <=> "status" \in Differs(q)
      /\ Board!AssigneeChanges(s) <=> "assignee" \in Differs(q)
      /\ Board!DueChanges(s) <=> "due" \in Differs(q)
      /\ Board!DetailsChange(s) <=> "details" \in Differs(q)
      /\ Board!OverdueChanges(s, Today) <=> "overdue" \in Differs(q)
  BY <1>2, <1>3, <1>4 DEF Board!StatusChanges, Board!AssigneeChanges, Board!DueChanges,
     Board!DetailsChange, Board!OverdueChanges
<1>6. Differs(q) \subseteq {"status", "assignee", "due", "details", "overdue"}
  BY <1>3, <1>4
<1> QED  BY <1>5, <1>6 DEF s

\* The row left behind, column by column.
LEMMA SameRow ==
    ASSUME NEW q \in UpdateT, NEW row \in Row, NEW done \in BOOLEAN
    PROVE  LET after == Board!UpdatedRow(InTasks(row, done), AskedOfTasks(q), Today)
           IN  InTasks(Updated(q, row), after.completed) = after
<1> DEFINE s == AskedOfTasks(q)
           was == InTasks(row, done)
           new == Updated(q, row)
           after == Board!UpdatedRow(was, s, Today)
<1>1. DOMAIN row = {"project", "status", "assignee", "due", "overdue", "at"}
  BY DEF Row
<1>2. /\ new.status = IF "status" \in Differs(q) THEN Wanted(q).status ELSE row.status
      /\ new.assignee = IF "assignee" \in Differs(q) THEN Wanted(q).assignee ELSE row.assignee
      /\ new.due = IF "due" \in Differs(q) THEN Wanted(q).due ELSE row.due
      /\ new.overdue = IF "overdue" \in Differs(q) THEN Wanted(q).overdue ELSE row.overdue
  BY <1>1 DEF Updated
<1>3. new.project = row.project
  BY <1>1, SameDifferences DEF Updated
<1>4. /\ was.project = row.project /\ was.status = row.status /\ was.assignee = row.assignee
      /\ was.due = row.due /\ was.overdue = row.overdue
  BY DEF InTasks
<1> HIDE DEF s, was, new
<1>5. /\ after.project = row.project
      /\ after.status = IF Board!StatusChanges(s) THEN Board!NextStatus(s) ELSE row.status
      /\ after.assignee = IF Board!AssigneeChanges(s) THEN Board!NextAssignee(s) ELSE row.assignee
      /\ after.due = IF Board!DueChanges(s) THEN Board!NextDue(s) ELSE row.due
      /\ after.overdue =
            IF Board!OverdueChanges(s, Today) THEN Board!NextOverdue(s, Today) ELSE row.overdue
      /\ after = [project |-> after.project, status |-> after.status, due |-> after.due,
                  assignee |-> after.assignee, overdue |-> after.overdue,
                  completed |-> after.completed]
  BY <1>4 DEF Board!UpdatedRow
<1> HIDE DEF after
<1>6. /\ new.project = after.project /\ new.status = after.status /\ new.due = after.due
      /\ new.assignee = after.assignee /\ new.overdue = after.overdue
  BY <1>2, <1>3, <1>5, SameDifferences, SameWanted DEF s
<1>7. InTasks(new, after.completed) = after
  BY <1>5, <1>6 DEF InTasks
<1> QED  BY <1>7 DEF after, was, s, new

\* Written, and logged: together.
LEMMA SameEntries ==
    ASSUME NEW q \in UpdateT
    PROVE  /\ Board!Writes(AskedOfTasks(q), Today) <=> Differs(q) # {}
           /\ Board!UpdateEntries(AskedOfTasks(q)) # {} <=> Logged(q)
<1> DEFINE s == AskedOfTasks(q)
<1>1. /\ Board!StatusChanges(s) <=> "status" \in Differs(q)
      /\ Board!AssigneeChanges(s) <=> "assignee" \in Differs(q)
      /\ Board!DueChanges(s) <=> "due" \in Differs(q)
      /\ Board!DetailsChange(s) <=> "details" \in Differs(q)
      /\ Board!OverdueChanges(s, Today) <=> "overdue" \in Differs(q)
      /\ Differs(q) \subseteq {"status", "assignee", "due", "details", "overdue"}
  BY SameDifferences
<1> HIDE DEF s
<1>2. Board!Writes(s, Today) <=> Differs(q) # {}
  BY <1>1 DEF Board!Writes
<1>3. Board!UpdateEntries(s) # {} <=> \/ Board!StatusChanges(s) \/ Board!AssigneeChanges(s)
                                      \/ Board!DueChanges(s) \/ Board!DetailsChange(s)
  BY DEF Board!UpdateEntries
<1>4. Logged(q) <=> \E c \in {"status", "assignee", "due", "details"} : c \in Differs(q)
  BY <1>1 DEF Logged
<1> QED  BY <1>1, <1>2, <1>3, <1>4 DEF s

\* The ids Live draws for its user are those of the rows Tasks inserts for them.
OfMe(rows) == {NoteId(n.type, n.task) : n \in {m \in rows : m.recipient = me}}

LEMMA SameNotify ==
    ASSUME NEW type, NEW t, NEW actor, NEW recipient, me # NoOne
    PROVE  OfMe(Board!Notify(type, t, actor, recipient))
           = IF recipient = me /\ recipient # actor THEN {NoteId(type, t)} ELSE {}
<1> DEFINE rows == Board!Notify(type, t, actor, recipient)
           n == [type |-> type, task |-> t, recipient |-> recipient, stamp |-> stamp]
<1>1. rows = IF recipient \in {NoOne, actor} THEN {} ELSE {n}
  BY DEF Board!Notify
<1>2. n.type = type /\ n.task = t /\ n.recipient = recipient
  OBVIOUS
<1> HIDE DEF rows, n
<1>3. CASE recipient = me /\ recipient # actor
  <2>1. {m \in rows : m.recipient = me} = {n}
    BY <1>1, <1>2, <1>3
  <2> QED  BY <2>1, <1>2, <1>3 DEF OfMe, rows
<1>4. CASE ~(recipient = me /\ recipient # actor)
  <2>1. {m \in rows : m.recipient = me} = {}
    BY <1>1, <1>2, <1>4
  <2> QED  BY <2>1, <1>4 DEF OfMe, rows
<1> QED  BY <1>3, <1>4

LEMMA SameNotes ==
    ASSUME NEW q \in UpdateT, me # NoOne, page.kind = "tray"
    PROVE  UpdateNotes(q) = OfMe(Board!UpdateNotifications(AskedOfTasks(q)))
<1> DEFINE s == AskedOfTasks(q)
           a == IF "status" \in Differs(q) /\ Wanted(q).status = "IN_REVIEW"
                THEN Board!Notify("TASK_IN_REVIEW", q.task, q.actor, Manager[q.seen.project])
                ELSE {}
           b == IF "status" \in Differs(q) /\ Wanted(q).status = "DONE"
                THEN Board!Notify("TASK_COMPLETED", q.task, q.actor, q.seen.assignee) ELSE {}
           c == IF "assignee" \in Differs(q)
                THEN Board!Notify("TASK_ASSIGNED", q.task, q.actor, Wanted(q).assignee) ELSE {}
<1>1. /\ Board!StatusChanges(s) <=> "status" \in Differs(q)
      /\ Board!AssigneeChanges(s) <=> "assignee" \in Differs(q)
      /\ Board!NextStatus(s) = Wanted(q).status /\ Board!NextAssignee(s) = Wanted(q).assignee
  BY SameDifferences, SameWanted
<1>2. /\ s.task = q.task /\ s.actor = q.actor /\ s.seen.project = q.seen.project
      /\ s.seen.assignee = q.seen.assignee
  BY DEF AskedOfTasks, InTasks
<1> HIDE DEF s
<1>3. Board!UpdateNotifications(s) = a \cup b \cup c
  BY <1>1, <1>2 DEF Board!UpdateNotifications
<1>4. \A type, t, actor, recipient :
          Notified(type, t, recipient, actor) = OfMe(Board!Notify(type, t, actor, recipient))
  BY SameNotify DEF Notified
<1>5. OfMe({}) = {}
  BY DEF OfMe
<1>6. UpdateNotes(q) = OfMe(a) \cup OfMe(b) \cup OfMe(c)
  BY <1>4, <1>5 DEF UpdateNotes
<1> HIDE DEF a, b, c
<1>7. OfMe(a \cup b \cup c) = OfMe(a) \cup OfMe(b) \cup OfMe(c)
  BY DEF OfMe
<1> QED  BY <1>3, <1>6, <1>7 DEF s

-----------------------------------------------------------------------------
(* The steps of Live, on the table, are those of Tasks                       *)

\* Tasks lets the body through before the request waits for its commit.
LetThrough(q) ==
    /\ q.pc = "update" =>
          /\ TaskScope(PrincipalOf(q.actor), q.seen.project, q.seen.assignee)
          /\ MayApplyPatch(PrincipalOf(q.actor), q.seen.project, q.seen.assignee, q.patch)
          /\ "assignee" \in DOMAIN q.patch =>
                \/ q.patch["assignee"] \in {NoOne, q.seen.assignee}
                \/ Board!Assignable(q.patch["assignee"])
    /\ q.pc = "delete" =>
          /\ TaskScope(PrincipalOf(q.actor), q.seen.project, q.seen.assignee)
          /\ CanDeleteTask(PrincipalOf(q.actor), q.seen.project)

AllLetThrough == \A w \in Writer : LetThrough(write[w])

\* The table as Tasks has it; which rows have a completion time is not kept here.
BoardOf(table, done) == [t \in DOMAIN table |-> InTasks(table[t], done[t])]

\* The tray's user has been told of these rows of Tasks.
Relayed(rows) == page.kind = "tray" => notes' = Inserted(OfMe(rows))

CreateInTasks(old, new) ==
    \E u \in User, t \in Task, draft \in Draft :
        /\ t \notin used
        /\ CanManageProject(PrincipalOf(u), draft.project)
        /\ draft.assignee # NoOne => Board!Assignable(draft.assignee)
        /\ new = [x \in DOMAIN old \cup {t} |-> IF x = t THEN Board!NewRow(draft) ELSE old[x]]
        /\ Relayed(Board!Notify("TASK_ASSIGNED", t, u, draft.assignee))

UpdateInTasks(old, new) ==
    \E w \in Writer :
        LET q == AskedOfTasks(write[w])
        IN  /\ write[w].pc = "update" /\ LetThrough(write[w])
            /\ Board!Writes(q, Today) /\ q.task \in DOMAIN old
            /\ new = [old EXCEPT ![q.task] = Board!UpdatedRow(old[q.task], q, Today)]
            /\ Logged(write[w]) <=> Board!UpdateEntries(q) # {}
            /\ Relayed(Board!UpdateNotifications(q))

DeleteInTasks(old, new) ==
    \E w \in Writer :
        LET q == write[w]
        IN  /\ q.pc = "delete" /\ LetThrough(q) /\ q.task \in DOMAIN old
            /\ new = [x \in DOMAIN old \ {q.task} |-> old[x]]
            /\ DOMAIN notes' = {n \in DOMAIN notes : n.task # q.task}

ClearInTasks(old, new) ==
    /\ new = [t \in DOMAIN old |-> IF Board!StaleFlag(old[t], Today)
                                   THEN [old[t] EXCEPT !.overdue = FALSE] ELSE old[t]]
    /\ notes' = notes

\* A claim whose batch holds all that is due.
ClaimInTasks(old, new) ==
    LET due == {t \in DOMAIN old : Board!Claimable(old[t], Today)}
    IN  /\ new = [t \in DOMAIN old |->
                     IF t \in due THEN [old[t] EXCEPT !.overdue = TRUE] ELSE old[t]]
        /\ Relayed(UNION {Board!Notify("TASK_OVERDUE", t, NoOne, old[t].assignee) : t \in due})

StepInTasks(old, new) ==
    \/ CreateInTasks(old, new) \/ UpdateInTasks(old, new) \/ DeleteInTasks(old, new)
    \/ ClearInTasks(old, new) \/ ClaimInTasks(old, new)

\* Whatever the completion times were, a step leaves the table alone or is one
\* of those of Tasks.
TableMovesAsInTasks ==
    \/ tasks' = tasks
    \/ \A done \in [Task -> BOOLEAN] : \E after \in [Task -> BOOLEAN] :
          StepInTasks(BoardOf(tasks, done), BoardOf(tasks', after))

LEMMA BoardOfRows ==
    ASSUME NEW table \in TableT, NEW done \in [Task -> BOOLEAN]
    PROVE  /\ DOMAIN BoardOf(table, done) = DOMAIN table
           /\ \A t \in DOMAIN table : BoardOf(table, done)[t] = InTasks(table[t], done[t])
BY DEF BoardOf

\* Roles do not change here, and a request keeps the row it read: what let it
\* through at the read still does.
LEMMA BeginLetsThrough ==
    ASSUME TypeInv, NEW w \in Writer, Begin(w)
    PROVE  LetThrough(write'[w])
<1>1. write \in [Writer -> WriteT] /\ \A t \in Live : tasks[t] \in Row
  BY TableTyped DEF TypeInv, DbInv, WriteInv, Live
<1>2. CASE BeginUpdate(w)
  <2>1. PICK u \in Author, t \in Live, patch \in Patch, here \in BOOLEAN :
          /\ Sees(PrincipalOf(u), tasks[t])
          /\ MayApplyPatch(PrincipalOf(u), tasks[t].project, tasks[t].assignee, patch)
          /\ "assignee" \in DOMAIN patch => Assignable(patch.assignee)
          /\ write' = [write EXCEPT ![w] =
                 [pc |-> "update", actor |-> u, task |-> t, seen |-> tasks[t],
                  patch |-> patch, here |-> here]]
    BY <1>2 DEF BeginUpdate
  <2> DEFINE q == write'[w]
  <2>2. /\ q.pc = "update" /\ q.actor = u /\ q.seen = tasks[t] /\ q.patch = patch
    BY <1>1, <2>1
  <2>3. "assignee" \in DOMAIN patch => patch["assignee"] \in User \cup {NoOne}
    BY PatchAssumption
  <2>4. "assignee" \in DOMAIN patch =>
           patch["assignee"] = NoOne \/ Board!Assignable(patch["assignee"])
    BY <2>1, <2>3 DEF Assignable, Board!Assignable
  <2> HIDE DEF q
  <2> QED  BY <2>1, <2>2, <2>4 DEF LetThrough, Sees, q
<1>3. CASE BeginDelete(w)
  <2>1. PICK u \in Author, t \in Live, here \in BOOLEAN :
          /\ Sees(PrincipalOf(u), tasks[t]) /\ CanDeleteTask(PrincipalOf(u), tasks[t].project)
          /\ write' = [write EXCEPT ![w] =
                 [pc |-> "delete", actor |-> u, task |-> t, seen |-> tasks[t], here |-> here]]
    BY <1>3 DEF BeginDelete
  <2> DEFINE q == write'[w]
  <2>2. /\ q.pc = "delete" /\ q.actor = u /\ q.seen = tasks[t]
    BY <1>1, <2>1
  <2> HIDE DEF q
  <2> QED  BY <2>1, <2>2 DEF LetThrough, Sees, q
<1> QED  BY <1>2, <1>3 DEF Begin

LEMMA CommitSettles ==
    ASSUME TypeInv, NEW w \in Writer, Commit(w)
    PROVE  write'[w].pc \in {"idle", "publish"}
<1>1. write \in [Writer -> WriteT]
  BY DEF TypeInv, WriteInv
<1>2. \A jobs, ids, here : Settled(Publishing(jobs, ids, here)).pc \in {"idle", "publish"}
  BY SettledKeeps
<1>3. ASSUME NEW jobs, NEW ids, NEW here,
             write' = [write EXCEPT ![w] = Settled(Publishing(jobs, ids, here))]
      PROVE  write'[w].pc \in {"idle", "publish"}
  BY <1>1, <1>2, <1>3
<1>4. CASE Create(w)
  BY <1>3, <1>4, CreateShape DEF Creates
<1>5. CASE CommitUpdate(w)
  BY <1>3, <1>5 DEF CommitUpdate
<1>6. CASE CommitDelete(w)
  BY <1>3, <1>6 DEF CommitDelete
<1>7. CASE SweepClaim(w)
  <2> DEFINE due == {t \in Live : Due(tasks[t])}
  <2>1. PICK order \in [1 .. Cardinality(due) -> due] : write' = [write EXCEPT ![w] =
           Settled(Publishing(SweepJobs(due, order), SweepNotes(due), FALSE))]
    BY <1>7, SweepShape DEF TypeInv
  <2> HIDE DEF due
  <2> QED  BY <1>3, <2>1
<1> QED  BY <1>4, <1>5, <1>6, <1>7 DEF Commit

LEMMA LetThroughStep ==
    ASSUME TypeInv, AllLetThrough, Next
    PROVE  AllLetThrough'
<1>1. write \in [Writer -> WriteT]
  BY DEF TypeInv, WriteInv
<1>2. ASSUME NEW w \in Writer  PROVE LetThrough(write'[w])
  <2>1. CASE write'[w] = write[w]
    BY <2>1 DEF AllLetThrough
  <2>2. CASE Begin(w)
    BY <2>2, BeginLetsThrough
  <2>3. ASSUME write'[w].pc \notin {"update", "delete"}  PROVE LetThrough(write'[w])
    BY <2>3 DEF LetThrough
  <2>4. CASE Commit(w)
    BY <2>3, <2>4, CommitSettles
  <2>5. CASE Drop(w)
    <3> DEFINE q == IF write[w].here /\ write[w].task \in Live
                    THEN [Publishing(<<Job(write[w].task, write[w].seen, write[w].actor, NoOne,
                                           FALSE, FALSE)>>, {}, TRUE) EXCEPT !.jobs = << >>]
                    ELSE Idle
    <3>1. write'[w] = q
      BY <1>1, <2>5 DEF Drop
    <3>2. q.pc \in {"idle", "publish"}
      BY DEF Publishing, Idle
    <3> QED  BY <2>3, <3>1, <3>2
  <2>6. CASE Publish(w)
    <3>1. CASE PublishActivity(w)
      <4>1. write[w] \in PublicationT /\ write[w].jobs # << >>
        BY <3>1, PublishesShape DEF PublishActivity, TypeInv
      <4>2. write'[w] = Announced(write[w]) /\ Announced(write[w]) \in PublicationT
        BY <1>1, <3>1, <4>1, AnnouncedTyped DEF PublishActivity, Announced
      <4> QED  BY <2>3, <4>2 DEF PublicationT
    <3>2. CASE PublishChanged(w)
      <4>1. write[w] \in PublicationT /\ write[w].jobs # << >>
        BY <3>2, PublishesShape DEF PublishChanged, TypeInv
      <4>2. write'[w] = Settled(Shortened(write[w])) /\ Shortened(write[w]) \in PublicationT
        BY <1>1, <3>2, <4>1, ShortenedTyped DEF PublishChanged, Shortened
      <4> QED  BY <2>3, <4>2 DEF PublicationT, Settled, Idle
    <3>3. ASSUME FindNotes(w) \/ CountNotes(w) \/ PushNotes(w)
          PROVE  write'[w].pc \notin {"update", "delete"}
      BY <1>1, <3>3 DEF FindNotes, CountNotes, PushNotes, Idle
    <3> QED  BY <2>3, <2>6, <3>1, <3>2, <3>3 DEF Publish
  <2>7. CASE Reply(w)
    BY <1>1, <2>3, <2>7, ReplyShape DEF Idle
  <2> QED  BY <2>1, <2>2, <2>4, <2>5, <2>6, <2>7, WriteMoves
<1>3. \A w \in Writer : LetThrough(write[w])' <=> LetThrough(write'[w])
  BY DEF LetThrough, Board!Assignable
<1> QED  BY <1>2, <1>3 DEF AllLetThrough

LEMMA CreateMovesTable ==
    ASSUME TypeInv, NEW w \in Writer, Create(w), NEW done \in [Task -> BOOLEAN]
    PROVE  \E after \in [Task -> BOOLEAN] : CreateInTasks(BoardOf(tasks, done), BoardOf(tasks', after))
<1>1. PICK u \in Author, t \in Task, draft \in Draft :
         /\ CanManageProject(PrincipalOf(u), draft.project) /\ Assignable(draft.assignee)
         /\ Draw(t)
         /\ tasks' = [x \in Live \cup {t} |-> IF x = t THEN Drafted(draft) ELSE tasks[x]]
         /\ notes' = Inserted(Notified("TASK_ASSIGNED", t, draft.assignee, u))
  BY DEF Create, Drafted
<1>2. u \in User /\ draft.assignee \in User \cup {NoOne} /\ t \notin used
  BY <1>1, AuthorAssumption, DraftAssumption DEF Draw
<1>3. draft.assignee # NoOne => Board!Assignable(draft.assignee)
  BY <1>1, <1>2 DEF Assignable, Board!Assignable
<1>4. me # NoOne
  BY NoOneAssumption DEF TypeInv, PageInv
<1>5. Relayed(Board!Notify("TASK_ASSIGNED", t, u, draft.assignee))
  BY <1>1, <1>4, SameNotify DEF Relayed, Notified
<1> DEFINE after == [x \in Task |-> IF x = t THEN FALSE ELSE done[x]]
           old == BoardOf(tasks, done)
           new == BoardOf(tasks', after)
<1>6. after \in [Task -> BOOLEAN]
  OBVIOUS
<1>7. DOMAIN old = Live /\ Live \subseteq Task /\ \A x \in Live : old[x] = InTasks(tasks[x], done[x])
  BY BoardOfRows, TableTyped DEF TypeInv, DbInv, Live
<1>8. t \notin Live
  BY <1>2 DEF TypeInv, DbInv
<1>9. InTasks(Drafted(draft), FALSE) = Board!NewRow(draft)
  BY SamePredicate DEF InTasks, Drafted, Board!NewRow
<1>10. DOMAIN new = Live \cup {t}
       /\ \A x \in Live \cup {t} : new[x] = InTasks(tasks'[x], after[x])
  BY <1>1 DEF BoardOf
<1>11. \A x \in Live \cup {t} : new[x] = IF x = t THEN Board!NewRow(draft) ELSE old[x]
  BY <1>1, <1>7, <1>8, <1>9, <1>10
<1>12. new = [x \in DOMAIN new |-> new[x]]
  BY DEF BoardOf
<1> HIDE DEF old, new, after
<1>13. new = [x \in DOMAIN old \cup {t} |-> IF x = t THEN Board!NewRow(draft) ELSE old[x]]
  BY <1>7, <1>10, <1>11, <1>12
<1>14. CreateInTasks(old, new)
  BY <1>1, <1>2, <1>3, <1>5, <1>13 DEF CreateInTasks
<1> QED  BY <1>6, <1>14 DEF old, new

LEMMA UpdateMovesTable ==
    ASSUME TypeInv, AllLetThrough, NEW w \in Writer, CommitUpdate(w), NEW done \in [Task -> BOOLEAN]
    PROVE  \E after \in [Task -> BOOLEAN] : UpdateInTasks(BoardOf(tasks, done), BoardOf(tasks', after))
<1> DEFINE q == write[w]
           s == AskedOfTasks(q)
           t == q.task
           left == Board!UpdatedRow(InTasks(tasks[t], done[t]), s, Today)
           after == [x \in Task |-> IF x = t THEN left.completed ELSE done[x]]
           old == BoardOf(tasks, done)
           new == BoardOf(tasks', after)
<1>1. /\ q.pc = "update" /\ t \in Live /\ Differs(q) # {}
      /\ tasks' = [tasks EXCEPT ![t] = Updated(q, tasks[t])]
      /\ notes' = Inserted(UpdateNotes(q))
  BY DEF CommitUpdate
<1>2. q \in UpdateT
  BY <1>1, WriteKinds DEF TypeInv
<1>3. tasks \in [Live -> Row] /\ Live \subseteq Task
  BY TableTyped DEF TypeInv, DbInv, Live
<1>4. me # NoOne
  BY NoOneAssumption DEF TypeInv, PageInv
<1>5. s.task = t
  BY DEF AskedOfTasks
<1>6. DOMAIN old = Live /\ \A x \in Live : old[x] = InTasks(tasks[x], done[x])
  BY <1>3 DEF BoardOf
<1> HIDE DEF q, s
<1>7. tasks[t] \in Row /\ done[t] \in BOOLEAN
  BY <1>1, <1>3
<1>8. InTasks(Updated(q, tasks[t]), left.completed) = left
  BY <1>2, <1>7, SameRow DEF s
<1>9. left.completed \in BOOLEAN
  <2>1. left.completed = IF Board!StatusChanges(s) THEN Board!NextStatus(s) = "DONE"
                         ELSE InTasks(tasks[t], done[t]).completed
    BY DEF Board!UpdatedRow
  <2>2. InTasks(tasks[t], done[t]).completed = done[t]
    BY DEF InTasks
  <2> HIDE DEF left
  <2> QED  BY <1>7, <2>1, <2>2
<1> HIDE DEF left
<1>10. after \in [Task -> BOOLEAN]
  BY <1>9
<1>11. /\ DOMAIN new = Live /\ \A x \in Live : new[x] = InTasks(tasks'[x], after[x])
       /\ new = [x \in DOMAIN new |-> new[x]] /\ old = [x \in DOMAIN old |-> old[x]]
  BY <1>1, <1>3 DEF BoardOf
<1>12. \A x \in Live : tasks'[x] = IF x = t THEN Updated(q, tasks[t]) ELSE tasks[x]
  BY <1>1, <1>3
<1>13. \A x \in Live : after[x] = IF x = t THEN left.completed ELSE done[x]
  BY <1>3
<1> HIDE DEF old, new, after
<1>14. \A x \in Live : new[x] = IF x = t THEN left ELSE old[x]
  BY <1>6, <1>8, <1>11, <1>12, <1>13
<1>15. new = [old EXCEPT ![t] = left]
  BY <1>6, <1>11, <1>14
<1>16. left = Board!UpdatedRow(old[t], s, Today)
  BY <1>1, <1>6 DEF left
<1>17. /\ Board!Writes(s, Today) /\ (Logged(q) <=> Board!UpdateEntries(s) # {})
  BY <1>1, <1>2, SameEntries DEF s
<1>18. Relayed(Board!UpdateNotifications(s))
  BY <1>1, <1>2, <1>4, SameNotes DEF Relayed, s
<1>19. LetThrough(q)
  BY DEF AllLetThrough, q
<1>20. UpdateInTasks(old, new)
  BY <1>1, <1>5, <1>6, <1>15, <1>16, <1>17, <1>18, <1>19 DEF UpdateInTasks, q, s
<1> QED  BY <1>10, <1>20 DEF old, new

LEMMA DeleteMovesTable ==
    ASSUME TypeInv, AllLetThrough, NEW w \in Writer, CommitDelete(w), NEW done \in [Task -> BOOLEAN]
    PROVE  DeleteInTasks(BoardOf(tasks, done), BoardOf(tasks', done))
<1> DEFINE q == write[w]
           t == q.task
           old == BoardOf(tasks, done)
           new == BoardOf(tasks', done)
<1>1. /\ q.pc = "delete" /\ t \in Live
      /\ tasks' = [x \in Live \ {t} |-> tasks[x]]
      /\ notes' = [n \in {m \in DOMAIN notes : m.task # t} |-> notes[n]]
  BY DEF CommitDelete, RestrictDomain, Restrict
<1> HIDE DEF q
<1>2. DOMAIN notes' = {n \in DOMAIN notes : n.task # t}
  BY <1>1
<1>3. DOMAIN old = Live /\ \A x \in Live : old[x] = InTasks(tasks[x], done[x])
  BY DEF BoardOf, Live
<1>4. DOMAIN new = Live \ {t} /\ \A x \in Live \ {t} : new[x] = InTasks(tasks'[x], done[x])
  BY <1>1 DEF BoardOf
<1>5. \A x \in Live \ {t} : tasks'[x] = tasks[x]
  BY <1>1
<1>6. new = [x \in DOMAIN new |-> new[x]]
  BY DEF BoardOf
<1> HIDE DEF old, new
<1>7. \A x \in DOMAIN new : new[x] = old[x]
  BY <1>3, <1>4, <1>5
<1>8. new = [x \in DOMAIN old \ {t} |-> old[x]]
  BY <1>3, <1>4, <1>6, <1>7
<1>9. LetThrough(q)
  BY DEF AllLetThrough, q
<1>10. DeleteInTasks(old, new)
  BY <1>1, <1>2, <1>3, <1>8, <1>9 DEF DeleteInTasks, q
<1> QED  BY <1>10 DEF old, new

LEMMA SameFlags ==
    ASSUME NEW row \in Row, NEW done
    PROVE  /\ Board!StaleFlag(InTasks(row, done), Today) <=> StaleFlag(row)
           /\ Board!Claimable(InTasks(row, done), Today) <=> Due(row)
<1> DEFINE was == InTasks(row, done)
<1>1. was.overdue = row.overdue /\ was.status = row.status /\ was.due = row.due
  BY DEF InTasks
<1>2. row.status \in Status /\ row.due \in Int \cup {NoDue}
  BY RowShape
<1> HIDE DEF was
<1>3. row.status # "DONE" <=> row.status \in OpenStatuses
  BY <1>2 DEF Status, OpenStatuses
<1>4. row.due = NoDue \/ (row.due < Today <=> ~(row.due >= Today))
  BY <1>2, TodayAssumption
<1>5. Board!StaleFlag(was, Today) <=> StaleFlag(row)
  BY <1>1, <1>4 DEF Board!StaleFlag, StaleFlag, IsOverdueNow
<1>6. Board!Claimable(was, Today) <=> Due(row)
  BY <1>1, <1>3 DEF Board!Claimable, Due, IsOverdueNow, OpenStatuses, Board!OpenStatuses
<1> QED  BY <1>5, <1>6 DEF was

\* What raising or lowering the flag of some tasks does to the table.
LEMMA FlagMovesRows ==
    ASSUME TypeInv, NEW ids \in SUBSET Live, NEW value \in BOOLEAN, Flag(ids, value),
           NEW done \in [Task -> BOOLEAN]
    PROVE  LET old == BoardOf(tasks, done)
           IN  /\ DOMAIN old = Live
               /\ BoardOf(tasks', done) = [t \in DOMAIN old |->
                     IF t \in ids THEN [old[t] EXCEPT !.overdue = value] ELSE old[t]]
<1> DEFINE old == BoardOf(tasks, done)
           new == BoardOf(tasks', done)
           flagged == [t \in DOMAIN old |->
                          IF t \in ids THEN [old[t] EXCEPT !.overdue = value] ELSE old[t]]
<1>1. DOMAIN old = Live /\ \A t \in Live : old[t] = InTasks(tasks[t], done[t])
  BY DEF BoardOf, Live
<1>2. DOMAIN tasks' = Live
      /\ \A t \in Live : tasks'[t] = IF t \in ids
            THEN [tasks[t] EXCEPT !.overdue = value, !.at = stamp + 1] ELSE tasks[t]
  BY DEF Flag
<1>3. \A t \in Live : tasks[t] \in Row
  BY TableTyped DEF TypeInv, DbInv, Live
<1>4. \A row \in Row : \A at, completed :
         InTasks([row EXCEPT !.overdue = value, !.at = at], completed)
         = [InTasks(row, completed) EXCEPT !.overdue = value]
  BY DEF Row, InTasks
<1>5. DOMAIN new = Live /\ \A t \in Live : new[t] = InTasks(tasks'[t], done[t])
  BY <1>2 DEF BoardOf
<1>6. new = [t \in DOMAIN new |-> new[t]]
  BY DEF BoardOf
<1>7. \A t \in Live : new[t] = IF t \in ids THEN [old[t] EXCEPT !.overdue = value] ELSE old[t]
  <2> TAKE t \in Live
  <2>1. CASE t \in ids
    <3>1. tasks'[t] = [tasks[t] EXCEPT !.overdue = value, !.at = stamp + 1]
      BY <1>2, <2>1
    <3>2. InTasks([tasks[t] EXCEPT !.overdue = value, !.at = stamp + 1], done[t])
          = [InTasks(tasks[t], done[t]) EXCEPT !.overdue = value]
      BY <1>3, <1>4
    <3>3. new[t] = InTasks(tasks'[t], done[t])
      BY <1>5
    <3>4. old[t] = InTasks(tasks[t], done[t])
      BY <1>1
    <3> HIDE DEF old, new
    <3> QED  BY <2>1, <3>1, <3>2, <3>3, <3>4
  <2>2. CASE t \notin ids
    BY <1>1, <1>2, <1>5, <2>2
  <2> HIDE DEF old, new
  <2> QED  BY <2>1, <2>2
<1> HIDE DEF old, new
<1>8. new = flagged
  BY <1>1, <1>5, <1>6, <1>7
<1> QED  BY <1>1, <1>8 DEF old, new

LEMMA ClearMovesTable ==
    ASSUME TypeInv, SweepClear, NEW done \in [Task -> BOOLEAN]
    PROVE  ClearInTasks(BoardOf(tasks, done), BoardOf(tasks', done))
<1> DEFINE stale == {t \in Live : StaleFlag(tasks[t])}
           old == BoardOf(tasks, done)
           new == BoardOf(tasks', done)
<1>0. stale \in SUBSET Live
  OBVIOUS
<1>1. Flag(stale, FALSE) /\ notes' = notes
  BY DEF SweepClear
<1> HIDE DEF stale
<1>2. DOMAIN old = Live
      /\ new = [t \in DOMAIN old |-> IF t \in stale THEN [old[t] EXCEPT !.overdue = FALSE] ELSE old[t]]
  BY <1>0, <1>1, FlagMovesRows
<1>3. \A t \in Live : old[t] = InTasks(tasks[t], done[t]) /\ tasks[t] \in Row
  BY TableTyped DEF BoardOf, Live, TypeInv, DbInv
<1>4. \A t \in Live : t \in stale <=> Board!StaleFlag(old[t], Today)
  BY <1>3, SameFlags DEF stale
<1> HIDE DEF old, new
<1>5. new = [t \in DOMAIN old |-> IF Board!StaleFlag(old[t], Today)
                                  THEN [old[t] EXCEPT !.overdue = FALSE] ELSE old[t]]
  BY <1>2, <1>4
<1> QED  BY <1>1, <1>5 DEF ClearInTasks, old, new

LEMMA ClaimMovesTable ==
    ASSUME TypeInv, NEW w \in Writer, SweepClaim(w), NEW done \in [Task -> BOOLEAN]
    PROVE  ClaimInTasks(BoardOf(tasks, done), BoardOf(tasks', done))
<1> DEFINE due == {t \in Live : Due(tasks[t])}
           old == BoardOf(tasks, done)
           new == BoardOf(tasks', done)
           claimed == {t \in DOMAIN old : Board!Claimable(old[t], Today)}
           told == {Board!Notify("TASK_OVERDUE", t, NoOne, old[t].assignee) : t \in claimed}
<1>0. due \in SUBSET Live
  OBVIOUS
<1>1. Flag(due, TRUE) /\ notes' = Inserted(SweepNotes(due))
  BY DEF SweepClaim, SweepNotes
<1> HIDE DEF due
<1>2. DOMAIN old = Live
      /\ new = [t \in DOMAIN old |-> IF t \in due THEN [old[t] EXCEPT !.overdue = TRUE] ELSE old[t]]
  BY <1>0, <1>1, FlagMovesRows
<1>3. \A t \in Live : old[t] = InTasks(tasks[t], done[t]) /\ tasks[t] \in Row
  BY TableTyped DEF BoardOf, Live, TypeInv, DbInv
<1>4. claimed = due
  BY <1>2, <1>3, SameFlags DEF due
<1>5. \A t \in Live : old[t].assignee = tasks[t].assignee
  <2>1. \A row, completed : InTasks(row, completed).assignee = row.assignee
    BY DEF InTasks
  <2> HIDE DEF old
  <2> QED  BY <1>3, <2>1
<1>6. me # NoOne
  BY NoOneAssumption DEF TypeInv, PageInv
<1> HIDE DEF old, new
<1>7. ASSUME page.kind = "tray"  PROVE SweepNotes(due) = OfMe(UNION told)
  <2>1. \A t \in due : Notified("TASK_OVERDUE", t, tasks[t].assignee, NoOne)
                       = OfMe(Board!Notify("TASK_OVERDUE", t, NoOne, old[t].assignee))
    BY <1>0, <1>5, <1>6, <1>7, SameNotify DEF Notified
  <2>2. SweepNotes(due) = UNION {OfMe(Board!Notify("TASK_OVERDUE", t, NoOne, old[t].assignee)) :
                                    t \in due}
    BY <2>1 DEF SweepNotes
  <2> HIDE DEF claimed
  <2>3. \A n : n \in OfMe(UNION told) <=> \E t \in due :
                  n \in OfMe(Board!Notify("TASK_OVERDUE", t, NoOne, old[t].assignee))
    BY <1>4 DEF OfMe
  <2> QED  BY <2>2, <2>3
<1>8. Relayed(UNION told)
  BY <1>1, <1>7 DEF Relayed
<1>9. new = [t \in DOMAIN old |-> IF t \in claimed THEN [old[t] EXCEPT !.overdue = TRUE] ELSE old[t]]
  BY <1>2, <1>4
<1>10. ClaimInTasks(old, new)
  BY <1>8, <1>9 DEF ClaimInTasks
<1> QED  BY <1>10 DEF old, new

LEMMA TableMoves ==
    ASSUME TypeInv, AllLetThrough, [Next]_vars
    PROVE  TableMovesAsInTasks
<1> DEFINE Moves(done) == \E after \in [Task -> BOOLEAN] :
                             StepInTasks(BoardOf(tasks, done), BoardOf(tasks', after))
<1>1. ASSUME tasks' = tasks  PROVE TableMovesAsInTasks
  BY <1>1 DEF TableMovesAsInTasks
<1>2. ASSUME \A done \in [Task -> BOOLEAN] : Moves(done)  PROVE TableMovesAsInTasks
  BY <1>2 DEF TableMovesAsInTasks
<1>3. ASSUME NEW w \in Writer, Commit(w)  PROVE TableMovesAsInTasks
  <2>1. ASSUME NEW done \in [Task -> BOOLEAN], Create(w)  PROVE Moves(done)
    BY <2>1, CreateMovesTable DEF StepInTasks
  <2>2. ASSUME NEW done \in [Task -> BOOLEAN], CommitUpdate(w)  PROVE Moves(done)
    BY <2>2, UpdateMovesTable DEF StepInTasks
  <2>3. ASSUME NEW done \in [Task -> BOOLEAN], CommitDelete(w)  PROVE Moves(done)
    BY <2>3, DeleteMovesTable DEF StepInTasks
  <2>4. ASSUME NEW done \in [Task -> BOOLEAN], SweepClaim(w)  PROVE Moves(done)
    BY <2>4, ClaimMovesTable DEF StepInTasks
  <2> HIDE DEF Moves
  <2> QED  BY <1>2, <1>3, <2>1, <2>2, <2>3, <2>4 DEF Commit
<1>4. CASE SilentSweep
  <2>1. ASSUME NEW done \in [Task -> BOOLEAN]  PROVE Moves(done)
    BY <1>4, ClearMovesTable DEF SilentSweep, StepInTasks
  <2> QED  BY <1>2, <2>1
<1> HIDE DEF Moves
<1>5. ASSUME NEW w \in Writer, Begin(w) \/ (Drop(w) /\ UNCHANGED wire /\ Unseen) \/ Publish(w)
      PROVE  tasks' = tasks
  BY <1>5, BeginFrame, DropFrame, PublishFrame DEF database
<1>6. CASE Browse \/ Notice \/ Disconnect \/ Reconnect
  BY <1>1, <1>6, BrowseFrame, NoticeFrame DEF Disconnect, Reconnect, server, database
<1>7. CASE UNCHANGED vars
  BY <1>1, <1>7 DEF vars, server, database
<1> QED  BY <1>1, <1>3, <1>4, <1>5, <1>6, <1>7 DEF Next

LEMMA InitLetsThrough ==
    ASSUME Init
    PROVE  AllLetThrough
BY DEF Init, WritesInit, Idle, AllLetThrough, LetThrough

LEMMA StutterLetsThrough ==
    ASSUME AllLetThrough, UNCHANGED vars
    PROVE  AllLetThrough'
BY DEF AllLetThrough, LetThrough, Board!Assignable, vars, server

\* Every step of the server beside the tab is, on the task table and on the
\* notifications of its user, a step of Tasks by a request that Tasks lets through.
THEOREM WritesAreThoseOfTasks == Spec => [][TableMovesAsInTasks]_vars
<1>1. Init => AllLetThrough
  BY InitLetsThrough
<1>2. TypeInv /\ AllLetThrough /\ [Next]_vars => AllLetThrough'
  BY LetThroughStep, StutterLetsThrough
<1>3. TypeInv /\ AllLetThrough /\ [Next]_vars => TableMovesAsInTasks
  BY TableMoves
<1> QED  BY <1>1, <1>2, <1>3, Typed, PTL DEF Spec
=============================================================================
