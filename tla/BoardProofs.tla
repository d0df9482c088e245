---------------------------- MODULE BoardProofs ----------------------------
(***************************************************************************)
(* Proofs about the page of the tab, for any tasks, bodies, writers,       *)
(* filters and tabs: it never goes back in time, and shows what the        *)
(* database holds once everything has been delivered; and about what other *)
(* screens read, offer and show, for any database.                         *)
(***************************************************************************)
EXTENDS LiveProofs, Screens

-----------------------------------------------------------------------------
(* Copies of rows.  Whatever holds a row of a task - a request that read it, *)
(* a publication, a message, an answer, the screen - holds a state the row   *)
(* was in: what it is now, or something older, of the same project.          *)

Copy(t, row, u, tb) ==
    /\ t \in u
    /\ t \in DOMAIN tb => row.project = tb[t].project /\ (row = tb[t] \/ row.at < tb[t].at)
Copies(f, u, tb) == \A t \in DOMAIN f : Copy(t, f[t], u, tb)

\* A job or a message carries the row of the write it tells of, and a task that
\* is there has not been written before it.
Truthful(m, u, tb) ==
    /\ Copy(m.task, m.row, u, tb) /\ (~m.gone => m.row.at = m.at)
    /\ m.task \in DOMAIN tb => m.at <= tb[m.task].at

Aged(q, u, tb) ==
    /\ q.pc \in {"update", "delete"} => Copy(q.task, q.seen, u, tb)
    /\ q.pc = "publish" =>
          /\ \A i \in DOMAIN q.jobs : Truthful(q.jobs[i], u, tb)
          /\ \A i \in DOMAIN q.last : Copy(q.last[i].task, q.last[i].row, u, tb)

\* The task a request of the tab itself is about.
Target(q) == IF q.pc = "publish" THEN q.last[1].task ELSE q.task

OfPage(pg, f, u, tb) == Copies(f, u, tb) /\ (pg.kind = "task" => DOMAIN f \subseteq {pg.task})

DbAge == \A t \in Live : tasks[t].at <= stamp
WriteAge == \A w \in Writer : Aged(write[w], used, tasks)
HomeAge == \A w \in Writer : Here(write[w]) /\ page.kind = "task" => Target(write[w]) = page.task
LineAge == \A i \in DOMAIN line : line[i].kind = "changed" => Truthful(line[i], used, tasks)
AskedAge == \A r \in asked : r.pc = "answered" /\ r.answer.kind = "rows"
                => OfPage(r.page, r.answer.rows, used, tasks)
ShownAge == HasRows => OfPage(page, shown.rows, used, tasks)

\* The answer the page waits for is no older than the screen, but where the page
\* was told of the newer row.
NotBehind(f, g, n) == \A t \in DOMAIN f \cap DOMAIN g : f[t].at <= g[t].at \/ f[t].at <= n[t]
NewsAge ==
    HasRows => \A r \in asked : r.latest /\ r.pc = "answered" /\ r.answer.kind = "rows"
                   => NotBehind(shown.rows, r.answer.rows, news)

AgeInv == DbAge /\ WriteAge /\ HomeAge /\ LineAge /\ AskedAge /\ ShownAge /\ NewsAge

-----------------------------------------------------------------------------
(* A row is replaced by a newer one of its project, and an id is not used again. *)

Grows ==
    /\ used \subseteq used'
    /\ \A t \in used : t \in Live' => /\ t \in Live
                                      /\ tasks'[t].project = tasks[t].project
                                      /\ tasks'[t] = tasks[t] \/ tasks[t].at < tasks'[t].at

LEMMA GrowsUnchanged ==
    ASSUME UNCHANGED <<tasks, used>>
    PROVE  Grows
BY DEF Grows, Live

LEMMA FlagGrows ==
    ASSUME DbInv, DbAge, NEW ids, NEW value \in BOOLEAN, Flag(ids, value), stamp' = stamp + 1, used' = used
    PROVE  Grows /\ DbAge'
<1>1. stamp \in Nat /\ tasks \in TableT
  BY DEF DbInv
<1>2. /\ tasks' \in TableT /\ Live' = Live
      /\ \A t \in Live : tasks'[t] = IF t \in ids
            THEN [tasks[t] EXCEPT !.overdue = value, !.at = stamp + 1] ELSE tasks[t]
  BY <1>1, FlagTyped
<1>3. \A t \in Live : tasks[t] \in Row /\ tasks[t].at \in Nat
  BY <1>1, TableTyped, RowShape DEF Live
<1>4. ASSUME NEW row \in Row
      PROVE  /\ [row EXCEPT !.overdue = value, !.at = stamp + 1].at = stamp + 1
             /\ [row EXCEPT !.overdue = value, !.at = stamp + 1].project = row.project
  BY <1>4 DEF Row
<1>5. ASSUME NEW t \in Live
      PROVE  /\ tasks[t].at \in Nat /\ tasks[t].at <= stamp
             /\ tasks'[t].project = tasks[t].project
             /\ tasks'[t] = tasks[t] \/ tasks'[t].at = stamp + 1
  BY <1>2, <1>3, <1>4, <1>5 DEF DbAge
<1>6. Live' = Live
  BY <1>2
<1>7. Grows
  BY <1>1, <1>5, <1>6 DEF Grows
<1>8. DbAge'
  BY <1>1, <1>5, <1>6 DEF DbAge
<1> QED  BY <1>7, <1>8

\* An update leaves the project.
LEMMA UpdatedProject ==
    ASSUME NEW q \in UpdateT, NEW row \in Row, stamp \in Nat
    PROVE  Updated(q, row).at = stamp + 1 /\ Updated(q, row).project = row.project
<1>1. "project" \in DOMAIN row \ {"at"}
  BY RowShape
<1>2. "project" \notin Differs(q)
  <2>1. q.seen \in Row
    BY DEF UpdateT
  <2>2. Wanted(q)["project"] = q.seen["project"]
    BY WantedTyped
  <2> QED  BY <2>2 DEF Differs
<1>3. Updated(q, row)["project"] = row["project"]
  BY <1>1, <1>2, UpdatedTyped
<1> QED  BY <1>3, UpdatedTyped

LEMMA CommitGrows ==
    ASSUME TypeInv, DbAge, NEW w \in Writer, Commit(w)
    PROVE  Grows /\ DbAge'
<1> USE DEF TypeInv
<1>1. stamp \in Nat /\ tasks \in TableT /\ tasks \in [Live -> Row] /\ Live \subseteq Task /\ Live \subseteq used
  BY TableTyped DEF DbInv, Live
<1>2. \A t \in Live : tasks[t] \in Row /\ tasks[t].at \in Nat /\ tasks[t].at <= stamp
  BY <1>1, RowShape DEF DbAge
<1>3. CASE Create(w)
  <2>1. PICK u \in Author, t \in Task \ used, draft \in Draft : Creates(w, u, t, draft)
    BY <1>3, CreateShape
  <2> DEFINE row == Drafted(draft)
  <2>2. row.at = stamp + 1
    BY <1>1, DraftedTyped
  <2>3. /\ tasks' = [x \in Live \cup {t} |-> IF x = t THEN row ELSE tasks[x]]
        /\ used' = used \cup {t} /\ stamp' = stamp + 1
    BY <2>1 DEF Creates
  <2> HIDE DEF row
  <2>4. Live' = Live \cup {t} /\ tasks'[t] = row /\ \A x \in Live : tasks'[x] = tasks[x]
    BY <1>1, <2>3 DEF Live
  <2>5. Grows
    BY <1>1, <2>3, <2>4 DEF Grows
  <2>6. DbAge'
    BY <1>1, <1>2, <2>2, <2>3, <2>4 DEF DbAge
  <2> QED  BY <2>5, <2>6
<1>4. CASE CommitUpdate(w)
  <2> DEFINE q == write[w]
             row == Updated(q, tasks[q.task])
  <2>1. /\ q.task \in Live /\ tasks' = [tasks EXCEPT ![q.task] = row]
        /\ stamp' = stamp + 1 /\ used' = used
    BY <1>4 DEF CommitUpdate
  <2>2. q \in UpdateT
    BY <1>4, UpdateDb
  <2>3. row.at = stamp + 1 /\ row.project = tasks[q.task].project
    BY <1>1, <1>2, <2>1, <2>2, UpdatedProject
  <2> HIDE DEF row, q
  <2>4. Live' = Live /\ tasks'[q.task] = row /\ \A x \in Live \ {q.task} : tasks'[x] = tasks[x]
    BY <1>1, <2>1 DEF Live
  <2>5. \A x \in Live : tasks'[x] = tasks[x] \/ tasks'[x].at = stamp + 1
    BY <2>3, <2>4
  <2>8. \A x \in Live : tasks'[x].project = tasks[x].project
    BY <2>3, <2>4
  <2>9. \A x \in Live : tasks'[x] = tasks[x] \/ tasks[x].at < tasks'[x].at
    BY <1>1, <1>2, <2>5
  <2>6. Grows
    BY <1>1, <2>1, <2>4, <2>8, <2>9 DEF Grows
  <2>7. DbAge'
    BY <1>1, <1>2, <2>1, <2>4, <2>5 DEF DbAge
  <2> QED  BY <2>6, <2>7
<1>5. CASE CommitDelete(w)
  <2> DEFINE kept == Live \ {write[w].task}
  <2>1. tasks' = Restrict(tasks, kept) /\ stamp' = stamp + 1 /\ used' = used
    BY <1>5 DEF CommitDelete
  <2>2. kept \in SUBSET DOMAIN tasks
    BY DEF Live
  <2> HIDE DEF kept
  <2>3. Live' = kept /\ \A t \in kept : tasks'[t] = tasks[t]
    BY <1>1, <2>1, <2>2, RestrictTyped DEF Live
  <2>4. kept \subseteq Live
    BY DEF kept
  <2>5. Grows
    BY <2>1, <2>3, <2>4 DEF Grows
  <2>6. DbAge'
    BY <1>1, <1>2, <2>1, <2>3, <2>4 DEF DbAge
  <2> QED  BY <2>5, <2>6
<1>6. CASE SweepClaim(w)
  <2>1. Flag({t \in Live : Due(tasks[t])}, TRUE) /\ stamp' = stamp + 1 /\ used' = used
    BY <1>6 DEF SweepClaim
  <2> QED  BY <2>1, FlagGrows
<1> QED  BY <1>3, <1>4, <1>5, <1>6 DEF Commit

\* Whatever happens, rows only get newer.
LEMMA TableGrows ==
    ASSUME TypeInv, DbAge, Next
    PROVE  Grows /\ DbAge'
<1>1. ASSUME UNCHANGED database  PROVE Grows /\ DbAge'
  BY <1>1, GrowsUnchanged DEF database, DbAge, Live
<1>2. CASE Browse
  BY <1>1, <1>2, BrowseFrame
<1>3. CASE Disconnect \/ Reconnect
  BY <1>1, <1>3 DEF Disconnect, Reconnect, server
<1>4. CASE Notice
  <2>1. UNCHANGED <<tasks, used>>
    BY <1>4, NoticeFrame
  <2>0. ASSUME NEW c \in calls, ServeMark(c)  PROVE stamp' = stamp \/ stamp' = stamp + 1
    BY <2>0 DEF ServeMark
  <2>2. (\E w \in Writer : Commit(w)) \/ stamp' = stamp \/ stamp' = stamp + 1
    BY <2>0, NotesChange
  <2>3. stamp \in Nat /\ \A t \in Live : tasks[t].at \in Nat
    BY TableTyped, RowShape DEF TypeInv, DbInv, Live
  <2>4. ASSUME stamp' = stamp \/ stamp' = stamp + 1  PROVE DbAge'
    BY <2>1, <2>3, <2>4 DEF DbAge, Live
  <2> QED  BY <2>1, <2>2, <2>4, GrowsUnchanged, CommitGrows
<1>5. CASE SilentSweep
  <2>1. Flag({t \in Live : StaleFlag(tasks[t])}, FALSE) /\ stamp' = stamp + 1 /\ used' = used
    BY <1>5 DEF SilentSweep, SweepClear
  <2> QED  BY <2>1, FlagGrows DEF TypeInv
<1>6. ASSUME NEW w \in Writer, Begin(w) \/ (Drop(w) /\ UNCHANGED wire /\ Unseen) \/ Publish(w)
      PROVE  Grows /\ DbAge'
  BY <1>1, <1>6, BeginFrame, DropFrame, PublishFrame
<1>7. ASSUME NEW w \in Writer, Commit(w)  PROVE Grows /\ DbAge'
  BY <1>7, CommitGrows
<1> QED  BY <1>2, <1>3, <1>4, <1>5, <1>6, <1>7 DEF Next

-----------------------------------------------------------------------------
(* What was read stays a copy. *)

LEMMA CopyKept ==
    ASSUME Grows, DbInv, DbInv', NEW t, NEW row \in Row, Copy(t, row, used, tasks)
    PROVE  Copy(t, row, used', tasks')
<1>1. row.at \in Nat
  BY RowShape
<1>2. ASSUME t \in Live'
      PROVE  /\ t \in Live /\ tasks[t].at \in Nat /\ tasks'[t].at \in Nat
             /\ tasks'[t] = tasks[t] \/ tasks[t].at < tasks'[t].at
             /\ row = tasks[t] \/ row.at < tasks[t].at
             /\ row.project = tasks'[t].project
  <2>1. t \in Live /\ (tasks'[t] = tasks[t] \/ tasks[t].at < tasks'[t].at)
    BY <1>2 DEF Grows, Copy
  <2>2. tasks[t] \in Row /\ tasks'[t] \in Row
    BY <1>2, <2>1, TableTyped DEF DbInv, Live
  <2>3. tasks[t].at \in Nat /\ tasks'[t].at \in Nat
    BY <2>2, RowShape
  <2>4. row.project = tasks'[t].project
    BY <1>2, <2>1 DEF Grows, Copy, Live
  <2> QED  BY <2>1, <2>3, <2>4 DEF Copy, Live
<1>3. t \in used'
  BY DEF Grows, Copy
<1> QED  BY <1>1, <1>2, <1>3 DEF Copy, Live

LEMMA CopiesKept ==
    ASSUME Grows, DbInv, DbInv', NEW f \in TableT, Copies(f, used, tasks)
    PROVE  Copies(f, used', tasks')
<1>1. \A t \in DOMAIN f : f[t] \in Row
  BY TableTyped
<1> QED  BY <1>1, CopyKept DEF Copies

LEMMA TruthfulKept ==
    ASSUME Grows, DbInv, DbInv', NEW m, m.row \in Row, m.at \in Nat, Truthful(m, used, tasks)
    PROVE  Truthful(m, used', tasks')
<1>1. ASSUME m.task \in Live'  PROVE m.at <= tasks'[m.task].at
  <2>1. m.task \in Live /\ (tasks'[m.task] = tasks[m.task] \/ tasks[m.task].at < tasks'[m.task].at)
    BY <1>1 DEF Grows, Truthful, Copy
  <2>2. tasks[m.task].at \in Nat /\ tasks'[m.task].at \in Nat
    BY <1>1, <2>1, TableTyped, RowShape DEF DbInv, Live
  <2> QED  BY <2>1, <2>2 DEF Truthful, Live
<1> QED  BY <1>1, CopyKept DEF Truthful, Live

LEMMA AgedKept ==
    ASSUME Grows, DbInv, DbInv', NEW q \in WriteT, Aged(q, used, tasks)
    PROVE  Aged(q, used', tasks')
<1>1. ASSUME q.pc = "publish"
      PROVE  /\ \A i \in DOMAIN q.jobs : q.jobs[i].row \in Row /\ q.jobs[i].at \in Nat
             /\ \A i \in DOMAIN q.last : q.last[i].row \in Row
  <2>1. q \in PublicationT
    BY <1>1 DEF WriteT, Idle, UpdateT, DeletionT, FoundT, CountedT
  <2>2. q.jobs \in Seq(JobT) /\ q.last \in Seq(JobT)
    BY <2>1 DEF PublicationT
  <2>3. \A j \in JobT : j.row \in Row /\ j.at \in Nat
    BY DEF JobT
  <2> QED  BY <2>2, <2>3
<1>2. ASSUME q.pc \in {"update", "delete"}  PROVE q.seen \in Row
  BY <1>2 DEF WriteT, Idle, UpdateT, DeletionT, FoundT, CountedT, PublicationT
<1>3. ASSUME q.pc \in {"update", "delete"}  PROVE Copy(q.task, q.seen, used', tasks')
  BY <1>2, <1>3, CopyKept DEF Aged
<1>4. ASSUME q.pc = "publish", NEW i \in DOMAIN q.jobs  PROVE Truthful(q.jobs[i], used', tasks')
  BY <1>1, <1>4, TruthfulKept DEF Aged
<1>5. ASSUME q.pc = "publish", NEW i \in DOMAIN q.last
      PROVE  Copy(q.last[i].task, q.last[i].row, used', tasks')
  BY <1>1, <1>5, CopyKept DEF Aged
<1> QED  BY <1>3, <1>4, <1>5 DEF Aged

-----------------------------------------------------------------------------
(* Writes *)

\* What a commit publishes is the row it wrote, or the row it deleted.
LEMMA PublishedAged ==
    ASSUME NEW jobs, NEW ids, NEW here, NEW u, NEW tb,
           \A i \in DOMAIN jobs : Truthful(jobs[i], u, tb)
    PROVE  Aged(Settled(Publishing(jobs, ids, here)), u, tb)
<1> DEFINE q == Publishing(jobs, ids, here)
<1>1. q.pc = "publish" /\ q.jobs \in {jobs, << >>} /\ q.last \in {jobs, << >>}
  BY DEF Publishing
<1>2. Settled(q) = q \/ Settled(q) = Idle
  BY DEF Settled
<1>3. Aged(Idle, u, tb)
  BY DEF Aged, Idle
<1> HIDE DEF q
<1>4. Aged(q, u, tb)
  BY <1>1 DEF Aged, Truthful
<1> QED  BY <1>2, <1>3, <1>4 DEF q

LEMMA JobTruthful ==
    ASSUME NEW t, NEW row, NEW u, NEW v, NEW gone, NEW logged, NEW s, NEW tb,
           Copy(t, row, s, tb), ~gone => row.at = stamp + 1,
           t \in DOMAIN tb => stamp + 1 <= tb[t].at
    PROVE  LET jobs == <<Job(t, row, u, v, gone, logged)>>
           IN  \A i \in DOMAIN jobs : Truthful(jobs[i], s, tb)
<1> DEFINE j == Job(t, row, u, v, gone, logged)
<1>1. j.task = t /\ j.row = row /\ j.gone = gone /\ j.at = stamp + 1
  BY DEF Job
<1> HIDE DEF j
<1>2. Truthful(j, s, tb)
  BY <1>1 DEF Truthful
<1>3. \A i \in DOMAIN <<j>> : <<j>>[i] = j
  OBVIOUS
<1> QED  BY <1>2, <1>3 DEF j

LEMMA CommitAged ==
    ASSUME TypeInv, TypeInv', DbAge, WriteAge, Grows, NEW w \in Writer, Commit(w)
    PROVE  Aged(write'[w], used', tasks')
<1> USE DEF TypeInv
<1>1. stamp \in Nat /\ tasks \in TableT /\ tasks' \in TableT /\ tasks \in [Live -> Row] /\ write \in [Writer -> WriteT]
      /\ Live \subseteq used
  BY TableTyped DEF DbInv, Live, WriteInv
<1>2. CASE Create(w)
  <2>1. PICK u \in Author, t \in Task \ used, draft \in Draft : Creates(w, u, t, draft)
    BY <1>2, CreateShape
  <2> DEFINE row == Drafted(draft)
             jobs == <<Job(t, row, u, NoOne, FALSE, TRUE)>>
             ids == Notified("TASK_ASSIGNED", t, draft.assignee, u)
  <2>2. row.at = stamp + 1
    BY <1>1, DraftedTyped
  <2>3. /\ tasks' = [x \in Live \cup {t} |-> IF x = t THEN row ELSE tasks[x]]
        /\ used' = used \cup {t}
        /\ write' = [write EXCEPT ![w] = Settled(Publishing(jobs, ids, FALSE))]
    BY <2>1 DEF Creates
  <2> HIDE DEF row
  <2>4. Copy(t, row, used', tasks') /\ tasks'[t].at = stamp + 1
    BY <2>2, <2>3 DEF Copy
  <2>7. stamp + 1 <= tasks'[t].at
    BY <1>1, <2>4
  <2>5. \A i \in DOMAIN jobs : Truthful(jobs[i], used', tasks')
    BY <2>2, <2>4, <2>7, JobTruthful
  <2> HIDE DEF jobs, ids
  <2>6. write'[w] = Settled(Publishing(jobs, ids, FALSE))
    BY <1>1, <2>3
  <2> QED  BY <2>5, <2>6, PublishedAged
<1>3. CASE CommitUpdate(w)
  <2> DEFINE q == write[w]
             row == Updated(q, tasks[q.task])
             jobs == <<Job(q.task, row, q.actor, q.seen.assignee, FALSE, Logged(q))>>
             ids == UpdateNotes(q)
  <2>1. /\ q.task \in Live /\ tasks' = [tasks EXCEPT ![q.task] = row] /\ used' = used
        /\ write' = [write EXCEPT ![w] = Settled(Publishing(jobs, ids, q.here))]
    BY <1>3 DEF CommitUpdate
  <2>2. q \in UpdateT
    BY <1>3, UpdateDb
  <2>3. row.at = stamp + 1
    <3>1. tasks[q.task] \in Row
      BY <1>1, <2>1
    <3> QED  BY <1>1, <2>2, <3>1, UpdatedTyped
  <2> HIDE DEF row
  <2>4. Copy(q.task, row, used', tasks') /\ tasks'[q.task].at = stamp + 1
    BY <1>1, <2>1, <2>3 DEF Copy
  <2>7. stamp + 1 <= tasks'[q.task].at
    BY <1>1, <2>4
  <2>5. \A i \in DOMAIN jobs : Truthful(jobs[i], used', tasks')
    BY <2>3, <2>4, <2>7, JobTruthful
  <2> HIDE DEF jobs, ids
  <2>6. write'[w] = Settled(Publishing(jobs, ids, q.here))
    BY <1>1, <2>1
  <2> QED  BY <2>5, <2>6, PublishedAged
<1>4. CASE CommitDelete(w)
  <2> DEFINE q == write[w]
             jobs == <<Job(q.task, q.seen, q.actor, NoOne, TRUE, TRUE)>>
  <2>1. q.pc = "delete" /\ write' = [write EXCEPT ![w] = Settled(Publishing(jobs, {}, q.here))]
    BY <1>4 DEF CommitDelete
  <2>2. q \in DeletionT
    BY <1>4, DeleteDb
  <2>3. q.seen \in Row
    BY <2>2 DEF DeletionT
  <2>4. Copy(q.task, q.seen, used, tasks)
    BY <2>1 DEF WriteAge, Aged
  <2>5. Copy(q.task, q.seen, used', tasks')
    BY <2>3, <2>4, CopyKept
  <2>8. q.task \notin DOMAIN tasks'
    <3>1. tasks' = Restrict(tasks, Live \ {q.task})
      BY <1>4 DEF CommitDelete
    <3>2. DOMAIN Restrict(tasks, Live \ {q.task}) = Live \ {q.task}
      BY DEF Restrict
    <3> QED  BY <3>1, <3>2
  <2>6. \A i \in DOMAIN jobs : Truthful(jobs[i], used', tasks')
    BY <2>5, <2>8, JobTruthful
  <2> HIDE DEF jobs
  <2>7. write'[w] = Settled(Publishing(jobs, {}, q.here))
    BY <1>1, <2>1
  <2> QED  BY <2>6, <2>7, PublishedAged
<1>5. CASE SweepClaim(w)
  <2> DEFINE due == {t \in Live : Due(tasks[t])}
             ids == SweepNotes(due)
             Claimed(t) == [tasks[t] EXCEPT !.overdue = TRUE, !.at = stamp + 1]
  <2>1. /\ due \in SUBSET Live /\ Cardinality(due) \in Nat /\ Live' = Live /\ used' = used
        /\ \A t \in Live : tasks'[t] = IF t \in due THEN Claimed(t) ELSE tasks[t]
    BY <1>5, SweepShape
  <2>2. PICK order \in [1 .. Cardinality(due) -> due] :
           write' = [write EXCEPT ![w] = Settled(Publishing(SweepJobs(due, order), ids, FALSE))]
    BY <1>5, SweepShape
  <2> HIDE DEF due
  <2>3. ASSUME NEW row \in Row  PROVE [row EXCEPT !.overdue = TRUE, !.at = stamp + 1].at = stamp + 1
    BY <2>3 DEF Row
  <2>4. ASSUME NEW t \in due  PROVE tasks'[t].at = stamp + 1
    <3>1. tasks[t] \in Row /\ tasks'[t] = Claimed(t)
      BY <1>1, <2>1
    <3> QED  BY <2>3, <3>1
  <2> HIDE DEF Claimed, ids
  <2>5. ASSUME NEW i \in DOMAIN SweepJobs(due, order)
        PROVE  Truthful(SweepJobs(due, order)[i], used', tasks')
    <3>1. /\ i \in 1 .. Cardinality(due) /\ order[i] \in due
          /\ SweepJobs(due, order)[i] = Job(order[i], tasks'[order[i]], NoOne, NoOne, FALSE, TRUE)
      BY <1>1, <2>1, SweepJobsTyped DEF SweepJobs
    <3>2. SweepJobs(due, order)[i].row.at = stamp + 1 /\ SweepJobs(due, order)[i].at = stamp + 1
          /\ SweepJobs(due, order)[i].task = order[i] /\ SweepJobs(due, order)[i].row = tasks'[order[i]]
      BY <2>4, <3>1 DEF Job
    <3>3. order[i] \in used'
      BY <1>1, <2>1, <3>1
    <3>4. SweepJobs(due, order)[i].at <= tasks'[order[i]].at
      <4>1. tasks'[order[i]].at = stamp + 1
        BY <2>4, <3>1
      <4> QED  BY <1>1, <3>2, <4>1
    <3> QED  BY <3>2, <3>3, <3>4 DEF Truthful, Copy
  <2>6. write'[w] = Settled(Publishing(SweepJobs(due, order), ids, FALSE))
    BY <1>1, <2>2
  <2> QED  BY <2>5, <2>6, PublishedAged
<1> QED  BY <1>2, <1>3, <1>4, <1>5 DEF Commit

LEMMA BeginAged ==
    ASSUME TypeInv, NEW w \in Writer, Begin(w)
    PROVE  Aged(write'[w], used', tasks')
<1>1. write \in [Writer -> WriteT] /\ Live \subseteq used
  BY DEF TypeInv, WriteInv, DbInv
<1>2. UNCHANGED <<tasks, used>>
  BY BeginFrame DEF database
<1>3. ASSUME NEW q, NEW t \in Live, write' = [write EXCEPT ![w] = q], q.pc \in {"update", "delete"},
             q.task = t, q.seen = tasks[t]
      PROVE  Aged(write'[w], used', tasks')
  <2>1. write'[w] = q
    BY <1>1, <1>3
  <2>2. Copy(q.task, q.seen, used', tasks')
    BY <1>1, <1>2, <1>3 DEF Copy
  <2> QED  BY <1>3, <2>1, <2>2 DEF Aged
<1>4. CASE BeginUpdate(w)
  <2>1. PICK u \in Author, t \in Live, patch \in Patch, here \in BOOLEAN :
           write' = [write EXCEPT ![w] = [pc |-> "update", actor |-> u, task |-> t,
                                          seen |-> tasks[t], patch |-> patch, here |-> here]]
    BY <1>4 DEF BeginUpdate
  <2> QED  BY <1>3, <2>1
<1>5. CASE BeginDelete(w)
  <2>1. PICK u \in Author, t \in Live, here \in BOOLEAN :
           write' = [write EXCEPT ![w] = [pc |-> "delete", actor |-> u, task |-> t,
                                          seen |-> tasks[t], here |-> here]]
    BY <1>5 DEF BeginDelete
  <2> QED  BY <1>3, <2>1
<1> QED  BY <1>4, <1>5 DEF Begin

LEMMA IdleAged ==
    ASSUME NEW u, NEW tb, NEW q, q.pc \in {"idle", "found", "counted"}
    PROVE  Aged(q, u, tb)
BY DEF Aged

LEMMA DropAged ==
    ASSUME TypeInv, WriteAge, NEW w \in Writer, Drop(w)
    PROVE  Aged(write'[w], used', tasks')
<1> DEFINE q == write[w]
           j == Job(q.task, q.seen, q.actor, NoOne, FALSE, FALSE)
           p == [Publishing(<<j>>, {}, TRUE) EXCEPT !.jobs = << >>]
<1>1. /\ q.pc \in {"update", "delete"} /\ UNCHANGED <<tasks, used>>
      /\ write' = [write EXCEPT ![w] = IF q.here /\ q.task \in Live THEN p ELSE Idle]
  BY DEF Drop, database
<1>2. Copy(q.task, q.seen, used, tasks)
  BY <1>1 DEF WriteAge, Aged
<1>3. j.task = q.task /\ j.row = q.seen
  BY DEF Job
<1> HIDE DEF j
<1>4. p.pc = "publish" /\ p.jobs = << >> /\ p.last = <<j>>
  BY DEF Publishing
<1> HIDE DEF p
<1>5. Aged(p, used', tasks')
  <2>1. \A i \in DOMAIN <<j>> : <<j>>[i] = j
    OBVIOUS
  <2> QED  BY <1>1, <1>2, <1>3, <1>4, <2>1 DEF Aged
<1>6. write'[w] \in {p, Idle}
  BY <1>1 DEF TypeInv, WriteInv
<1> QED  BY <1>5, <1>6, IdleAged DEF Idle

LEMMA PublishAged ==
    ASSUME TypeInv, WriteAge, NEW w \in Writer, Publish(w)
    PROVE  Aged(write'[w], used', tasks')
<1> DEFINE q == write[w]
<1> USE DEF TypeInv
<1>1. write \in [Writer -> WriteT] /\ Aged(q, used, tasks) /\ UNCHANGED <<tasks, used>>
  BY PublishFrame DEF WriteInv, WriteAge, database
<1>2. CASE PublishActivity(w)
  <2>1. q \in PublicationT /\ q.jobs # << >> /\ q.jobs \in Seq(JobT) /\ 1 \in DOMAIN q.jobs
    BY <1>2, PublishesShape DEF PublishActivity
  <2>2. write'[w] = Announced(q)
    BY <1>1, <1>2 DEF PublishActivity, Announced
  <2>3. /\ Announced(q).pc = "publish" /\ q.pc = "publish" /\ Announced(q).last = q.last
        /\ DOMAIN Announced(q).jobs = DOMAIN q.jobs
    BY <2>1, AnnouncedTyped DEF PublicationT
  <2> HIDE DEF q
  <2>4. ASSUME NEW i \in DOMAIN q.jobs  PROVE Truthful(Announced(q).jobs[i], used, tasks)
    <3>1. Announced(q).jobs[i] = IF i = 1 THEN [q.jobs[1] EXCEPT !.stage = "changed"] ELSE q.jobs[i]
      BY <2>1, <2>4, AnnouncedTyped
    <3>2. ASSUME NEW j \in JobT
          PROVE  LET k == [j EXCEPT !.stage = "changed"]
                 IN  k.task = j.task /\ k.row = j.row /\ k.gone = j.gone /\ k.at = j.at
      BY <3>2 DEF JobT
    <3>3. q.jobs[i] \in JobT
      BY <2>1, <2>4
    <3>4. Truthful(q.jobs[i], used, tasks)
      BY <1>1, <2>3, <2>4 DEF Aged
    <3> DEFINE k == [q.jobs[1] EXCEPT !.stage = "changed"]
    <3>5. CASE i = 1
      <4>1. k.task = q.jobs[i].task /\ k.row = q.jobs[i].row /\ k.gone = q.jobs[i].gone /\ k.at = q.jobs[i].at
        BY <3>2, <3>3, <3>5
      <4>2. Announced(q).jobs[i] = k
        BY <3>1, <3>5
      <4> HIDE DEF k
      <4> QED  BY <3>4, <4>1, <4>2 DEF Truthful
    <3>6. CASE i # 1
      <4>1. Announced(q).jobs[i] = q.jobs[i]
        BY <3>1, <3>6
      <4> QED  BY <3>4, <4>1
    <3> QED  BY <3>5, <3>6
  <2>5. \A i \in DOMAIN q.last : Copy(q.last[i].task, q.last[i].row, used, tasks)
    BY <1>1, <2>3 DEF Aged
  <2>6. Aged(Announced(q), used, tasks)
    BY <2>3, <2>4, <2>5 DEF Aged
  <2> QED  BY <1>1, <2>2, <2>6
<1>3. CASE PublishChanged(w)
  <2>1. q \in PublicationT /\ q.jobs # << >> /\ q.jobs \in Seq(JobT)
    BY <1>3, PublishesShape DEF PublishChanged
  <2>2. write'[w] = Settled(Shortened(q))
    BY <1>1, <1>3 DEF PublishChanged, Shortened
  <2>3. /\ Shortened(q) \in PublicationT /\ Shortened(q).jobs = Tail(q.jobs) /\ Shortened(q).last = q.last
        /\ q.pc = "publish"
    BY <2>1, ShortenedTyped DEF PublicationT
  <2> HIDE DEF q
  <2>4. ASSUME NEW i \in DOMAIN Tail(q.jobs)  PROVE Truthful(Tail(q.jobs)[i], used, tasks)
    <3>1. i + 1 \in DOMAIN q.jobs /\ Tail(q.jobs)[i] = q.jobs[i + 1]
      BY <2>1, <2>4, TailMoves
    <3> QED  BY <1>1, <2>3, <3>1 DEF Aged
  <2>5. \A i \in DOMAIN q.last : Copy(q.last[i].task, q.last[i].row, used, tasks)
    BY <1>1, <2>3 DEF Aged
  <2>6. Aged(Shortened(q), used, tasks)
    <3>1. /\ \A i \in DOMAIN Shortened(q).jobs : Truthful(Shortened(q).jobs[i], used, tasks)
          /\ \A i \in DOMAIN Shortened(q).last :
                Copy(Shortened(q).last[i].task, Shortened(q).last[i].row, used, tasks)
      BY <2>3, <2>4, <2>5
    <3>2. Shortened(q).pc = "publish"
      BY <2>3 DEF PublicationT
    <3> QED  BY <3>1, <3>2 DEF Aged
  <2>7. Settled(Shortened(q)) \in {Shortened(q), Idle}
    BY <2>3, SettledTyped
  <2> QED  BY <1>1, <2>2, <2>6, <2>7, IdleAged DEF Idle
<1>4. ASSUME FindNotes(w) \/ CountNotes(w) \/ PushNotes(w)  PROVE Aged(write'[w], used', tasks')
  <2>1. write'[w].pc \in {"idle", "found", "counted"}
    BY <1>1, <1>4 DEF FindNotes, CountNotes, PushNotes, Idle
  <2> QED  BY <2>1, IdleAged
<1> QED  BY <1>2, <1>3, <1>4 DEF Publish

LEMMA WriteAgeStep ==
    ASSUME TypeInv, TypeInv', AgeInv, Grows, Next
    PROVE  WriteAge'
<1> SUFFICES ASSUME NEW v \in Writer  PROVE Aged(write'[v], used', tasks')
  BY DEF WriteAge
<1>1. write'[v] = write[v] \/ Begin(v) \/ Commit(v) \/ Drop(v) \/ Publish(v) \/ Reply(v)
  BY WriteMoves
<1>2. ASSUME write'[v] = write[v]  PROVE Aged(write'[v], used', tasks')
  <2>1. write[v] \in WriteT /\ Aged(write[v], used, tasks)
    BY DEF TypeInv, WriteInv, AgeInv, WriteAge
  <2> QED  BY <1>2, <2>1, AgedKept DEF TypeInv
<1>3. ASSUME Reply(v)  PROVE Aged(write'[v], used', tasks')
  <2>1. write'[v] = Idle
    BY <1>3, ReplyShape DEF TypeInv, WriteInv
  <2> QED  BY <2>1, IdleAged DEF Idle
<1> QED  BY <1>1, <1>2, <1>3, BeginAged, CommitAged, DropAged, PublishAged DEF AgeInv

\* The page of a task is not come to, only left.
LEMMA PageKept ==
    ASSUME TypeInv, Next, page'.kind = "task"
    PROVE  page' = page
<1>1. ASSUME NEW pg, Navigate(pg), pg.kind # "task"  PROVE FALSE
  BY <1>1 DEF Navigate
<1>2. CASE ChangeFilter
  <2>1. PICK q \in Filters : page.kind = "tasks" /\ page' = [page EXCEPT !.query = q]
    BY <1>2 DEF ChangeFilter
  <2> QED  BY <2>1, PageShape DEF TypeInv, PageInv
<1>3. ASSUME NEW w \in Writer, Reply(w)  PROVE page' = page
  <2>1. UNCHANGED page \/ Navigate([kind |-> "project", query |-> [project |-> write[w].last[1].row.project]])
    BY <1>3 DEF Reply, pageVars
  <2> QED  BY <1>1, <2>1
<1>4. CASE Deliver
  <2>1. UNCHANGED page \/ Navigate([kind |-> "tasks", query |-> << >>])
    BY <1>4 DEF Deliver, OnActivity, OnListChanged, OnTaskChanged, pageVars
  <2> QED  BY <1>1, <2>1
<1>5. ASSUME NEW r \in asked, Serve(r) \/ ServeTiles(r) \/ ServeCards(r) \/ Arrive(r) \/ Fail(r)
      PROVE  page' = page
  BY <1>5 DEF Serve, ServeTiles, ServeCards, Arrive, Fail
<1>6. CASE Browse
  BY <1>2, <1>3, <1>4, <1>5, <1>6 DEF Browse, Retry, TimerFires
<1>7. CASE SilentSweep \/ Notice \/ Disconnect \/ Reconnect
  BY <1>7, NoticeFrame DEF SilentSweep, Overlook, Disconnect, Reconnect, pageVars
<1>8. ASSUME NEW w \in Writer, Begin(w) \/ (Drop(w) /\ UNCHANGED wire /\ Unseen) \/ Publish(w) \/ Commit(w)
      PROVE  page' = page
  BY <1>8, BeginFrame, DropFrame, PublishFrame, CommitFrame DEF pageVars
<1> QED  BY <1>6, <1>7, <1>8 DEF Next

\* A request of the tab itself stays about the task of its page.
LEMMA TargetKept ==
    ASSUME TypeInv, TypeInv', Next, NEW v \in Writer, Here(write'[v]), page.kind = "task"
    PROVE  \/ Here(write[v]) /\ Target(write'[v]) = Target(write[v])
           \/ Target(write'[v]) = page.task
<1> USE DEF TypeInv
<1> DEFINE q == write[v]
<1>1. write \in [Writer -> WriteT]
  BY DEF WriteInv
<1>2. ASSUME NEW jobs, NEW ids, NEW here, write'[v] = Settled(Publishing(jobs, ids, here))
      PROVE  here /\ write'[v].pc = "publish" /\ write'[v].last = jobs
  <2>1. write'[v] # Idle
    BY DEF Here, Idle
  <2>2. write'[v] = Publishing(jobs, ids, here)
    BY <1>2, <2>1 DEF Settled
  <2>3. write'[v].here = here
    BY <2>2 DEF Publishing
  <2>4. here
    BY <2>3 DEF Here
  <2> QED  BY <2>2, <2>4 DEF Publishing
<1>3. CASE write'[v] = write[v]
  BY <1>3
<1>4. CASE Begin(v)
  <2>1. ASSUME NEW p, write' = [write EXCEPT ![v] = p], p.pc \in {"update", "delete"},
               p.here => p.task = page.task
        PROVE  Target(write'[v]) = page.task
    <3>1. write'[v] = p
      BY <1>1, <2>1
    <3> QED  BY <2>1, <3>1 DEF Here, Target
  <2>2. CASE BeginUpdate(v)
    <3>1. PICK u \in Author, t \in Live, patch \in Patch, here \in BOOLEAN :
             /\ here => Clicked(u, t)
             /\ write' = [write EXCEPT ![v] = [pc |-> "update", actor |-> u, task |-> t,
                                               seen |-> tasks[t], patch |-> patch, here |-> here]]
      <4> HIDE DEF TypeInv, q
      <4> QED  BY <2>2, ZenonT(60) DEF BeginUpdate
    <3> QED  BY <2>1, <3>1 DEF Clicked
  <2>3. CASE BeginDelete(v)
    <3>1. PICK u \in Author, t \in Live, here \in BOOLEAN :
             /\ here => Clicked(u, t)
             /\ write' = [write EXCEPT ![v] = [pc |-> "delete", actor |-> u, task |-> t,
                                               seen |-> tasks[t], here |-> here]]
      BY <2>3 DEF BeginDelete
    <3> QED  BY <2>1, <3>1 DEF Clicked
  <2> QED  BY <1>4, <2>2, <2>3 DEF Begin
<1>5. CASE Commit(v)
  <2>1. CASE Create(v)
    <3>1. PICK u \in Author, t \in Task \ used, draft \in Draft : Creates(v, u, t, draft)
      BY <2>1, CreateShape
    <3> DEFINE jobs == <<Job(t, Drafted(draft), u, NoOne, FALSE, TRUE)>>
               ids == Notified("TASK_ASSIGNED", t, draft.assignee, u)
    <3>2. write'[v] = Settled(Publishing(jobs, ids, FALSE))
      BY <1>1, <3>1 DEF Creates
    <3> HIDE DEF jobs, ids
    <3> QED  BY <1>2, <3>2
  <2>2. CASE CommitUpdate(v)
    <3> DEFINE j == Job(q.task, Updated(q, tasks[q.task]), q.actor, q.seen.assignee, FALSE, Logged(q))
    <3>1. q.pc = "update" /\ write'[v] = Settled(Publishing(<<j>>, UpdateNotes(q), q.here))
      BY <1>1, <2>2 DEF CommitUpdate
    <3>2. j.task = q.task
      BY DEF Job
    <3> HIDE DEF j
    <3> QED  BY <1>2, <3>1, <3>2 DEF Here, Target
  <2>3. CASE CommitDelete(v)
    <3> DEFINE j == Job(q.task, q.seen, q.actor, NoOne, TRUE, TRUE)
    <3>1. q.pc = "delete" /\ write'[v] = Settled(Publishing(<<j>>, {}, q.here))
      BY <1>1, <2>3 DEF CommitDelete
    <3>2. j.task = q.task
      BY DEF Job
    <3> HIDE DEF j
    <3> QED  BY <1>2, <3>1, <3>2 DEF Here, Target
  <2>4. CASE SweepClaim(v)
    <3> DEFINE due == {t \in Live : Due(tasks[t])}
    <3>1. PICK order \in [1 .. Cardinality(due) -> due] : write' = [write EXCEPT ![v] =
             Settled(Publishing(SweepJobs(due, order), SweepNotes(due), FALSE))]
      BY <2>4, SweepShape
    <3> HIDE DEF due
    <3>2. write'[v] = Settled(Publishing(SweepJobs(due, order), SweepNotes(due), FALSE))
      BY <1>1, <3>1
    <3> QED  BY <1>2, <3>2
  <2> QED  BY <1>5, <2>1, <2>2, <2>3, <2>4 DEF Commit
<1>6. CASE Drop(v)
  <2> DEFINE j == Job(q.task, q.seen, q.actor, NoOne, FALSE, FALSE)
             p == [Publishing(<<j>>, {}, TRUE) EXCEPT !.jobs = << >>]
  <2>1. /\ q.pc \in {"update", "delete"}
        /\ write' = [write EXCEPT ![v] = IF q.here /\ q.task \in Live THEN p ELSE Idle]
    BY <1>6 DEF Drop
  <2>2. j.task = q.task
    BY DEF Job
  <2> HIDE DEF j
  <2>3. p.pc = "publish" /\ p.last = <<j>>
    BY DEF Publishing
  <2> HIDE DEF p
  <2>4. write'[v] = p /\ q.here
    BY <1>1, <2>1 DEF Here, Idle
  <2> QED  BY <2>1, <2>2, <2>3, <2>4 DEF Here, Target
<1>7. CASE Publish(v)
  <2>1. CASE PublishActivity(v)
    <3>1. q \in PublicationT /\ q.jobs # << >>
      BY <2>1, PublishesShape DEF PublishActivity
    <3>2. write'[v] = Announced(q)
      BY <1>1, <2>1 DEF PublishActivity, Announced
    <3>3. Announced(q) \in PublicationT /\ Announced(q).here = q.here /\ Announced(q).last = q.last
      BY <3>1, AnnouncedTyped
    <3> QED  BY <3>1, <3>2, <3>3 DEF Here, Target, PublicationT
  <2>2. CASE PublishChanged(v)
    <3>1. q \in PublicationT /\ q.jobs # << >>
      BY <2>2, PublishesShape DEF PublishChanged
    <3>2. write'[v] = Settled(Shortened(q))
      BY <1>1, <2>2 DEF PublishChanged, Shortened
    <3>3. Shortened(q) \in PublicationT /\ Shortened(q).here = q.here /\ Shortened(q).last = q.last
      BY <3>1, ShortenedTyped
    <3>4. write'[v] = Shortened(q)
      BY <3>2, <3>3, SettledTyped DEF Here, Idle
    <3> QED  BY <3>1, <3>3, <3>4 DEF Here, Target, PublicationT
  <2>3. ASSUME FindNotes(v) \/ CountNotes(v) \/ PushNotes(v)  PROVE FALSE
    <3>1. write'[v].pc \in {"idle", "found", "counted"}
      BY <1>1, <2>3 DEF FindNotes, CountNotes, PushNotes, Idle
    <3> QED  BY <3>1 DEF Here
  <2> QED  BY <1>7, <2>1, <2>2, <2>3 DEF Publish
<1>8. CASE Reply(v)
  <2>1. write'[v] = Idle
    BY <1>1, <1>8, ReplyShape
  <2> QED  BY <2>1 DEF Here, Idle
<1> QED  BY <1>3, <1>4, <1>5, <1>6, <1>7, <1>8, WriteMoves

LEMMA HomeAgeStep ==
    ASSUME TypeInv, TypeInv', AgeInv, Next
    PROVE  HomeAge'
<1> SUFFICES ASSUME NEW v \in Writer, Here(write'[v]), page'.kind = "task"
             PROVE  Target(write'[v]) = page'.task
  BY DEF HomeAge
<1>1. page' = page
  BY PageKept
<1> QED  BY <1>1, TargetKept DEF AgeInv, HomeAge

-----------------------------------------------------------------------------
(* The line and the requests *)

LEMMA LineAgeStep ==
    ASSUME TypeInv, TypeInv', AgeInv, Grows, Next
    PROVE  LineAge'
<1> SUFFICES ASSUME NEW i \in DOMAIN line', line'[i].kind = "changed"
             PROVE  Truthful(line'[i], used', tasks')
  BY DEF LineAge
<1> USE DEF TypeInv
<1> DEFINE m == line'[i]
<1>1. m \in ChangeT
  BY DEF WireInv, MessageT
<1>2. m.row \in Row /\ m.at \in Nat
  BY <1>1 DEF ChangeT
<1> HIDE DEF m
<1>3. ASSUME Truthful(m, used, tasks)  PROVE Truthful(m, used', tasks')
  BY <1>2, <1>3, TruthfulKept
<1>4. ASSUME NEW j \in DOMAIN line, m = line[j]  PROVE Truthful(m, used, tasks)
  BY <1>4 DEF AgeInv, LineAge, m
<1>5. ASSUME NEW w \in Writer, PublishChanged(w), NEW gone \in BOOLEAN, m = Change(Job1(w), gone),
             Job1(w).gone => gone
      PROVE  Truthful(m, used, tasks)
  <2>1. Publishes(w, "changed") /\ write[w].pc = "publish"
    BY <1>5 DEF PublishChanged, Publishes
  <2>2. 1 \in DOMAIN write[w].jobs
    BY <2>1, PublishesShape
  <2>3. Truthful(Job1(w), used, tasks)
    BY <2>1, <2>2 DEF AgeInv, WriteAge, Aged, Job1
  <2>4. m.task = Job1(w).task /\ m.row = Job1(w).row /\ m.gone = gone /\ m.at = Job1(w).at
    BY <1>5 DEF Change
  <2> QED  BY <1>5, <2>3, <2>4 DEF Truthful
<1>6. ASSUME NEW w \in Writer, PublishChanged(w)  PROVE Job1(w).gone \in BOOLEAN
  BY <1>6, PublishesShape DEF PublishChanged, JobT
<1>7. ASSUME News(m)  PROVE Truthful(m, used, tasks)
  <2>1. m.kind = "changed"
    BY DEF m
  <2>2. \E w \in Writer : /\ PublishChanged(w)
                          /\ m = Change(Job1(w), Job1(w).gone) \/ m = Change(Job1(w), TRUE)
    <3>1. \A w \in Writer : m # [kind |-> "new", rows |-> write[w].rows]
      BY <2>1
    <3>2. \A n, at : m # CountMessage(n, at)
      BY <2>1 DEF CountMessage
    <3> QED  BY <1>7, <2>1, <3>1, <3>2 DEF News
  <2> QED  BY <1>5, <1>6, <2>2
<1>8. (\E j \in DOMAIN line : m = line[j]) \/ News(m)
  BY LineMoves DEF m
<1> QED  BY <1>3, <1>4, <1>7, <1>8 DEF m

\* An answer with rows was on its way already, or is what the server read just now.
Same(s, r) == /\ s.pc = r.pc /\ s.page = r.page /\ s.answer = r.answer /\ (s.latest => r.latest)
              /\ (s.whole => r.whole)

LEMMA AskedMoves ==
    ASSUME TypeInv, Next, NEW s \in asked'
    PROVE  \/ \E r \in asked : Same(s, r)
           \/ s = Request(page')
           \/ /\ \E r \in asked : /\ Serve(r) /\ s.page = r.page /\ s.latest = r.latest
                                  /\ s.pc = "answered" /\ s.answer = Reading(s.page) /\ s.whole = up
              /\ UNCHANGED <<shown, news, page, tasks, used>>
           \/ /\ \E r \in asked : ServeTiles(r) \/ ServeCards(r)
              /\ s.page.kind = "dashboard"
<1> DEFINE Old == \E r \in asked : Same(s, r)
           Goal == \/ Old
                   \/ s = Request(page')
                   \/ /\ \E r \in asked : /\ Serve(r) /\ s.page = r.page /\ s.latest = r.latest
                                          /\ s.pc = "answered" /\ s.answer = Reading(s.page) /\ s.whole = up
                      /\ UNCHANGED <<shown, news, page, tasks, used>>
                   \/ /\ \E r \in asked : ServeTiles(r) \/ ServeCards(r)
                      /\ s.page.kind = "dashboard"
<1> USE DEF TypeInv
<1>0. asked \subseteq RequestT
  BY DEF RequestInv
<1>15. ASSUME Old \/ s = Request(page')  PROVE Goal
  BY <1>15
<1>1. ASSUME s \in asked  PROVE Old
  BY <1>1 DEF Same
<1>2. ASSUME NEW pg, Ask(pg)  PROVE Old \/ s = Request(pg)
  <2>1. s \in Supersede(asked) \/ s = Request(pg)
    BY <1>2 DEF Ask
  <2>2. ASSUME s \in Supersede(asked)  PROVE Old
    <3>1. s.pc = "answered" /\ ~s.latest /\ \E r \in asked : /\ r.pc = "answered" /\ s.page = r.page
             /\ s.answer = r.answer /\ s.whole = r.whole
      BY <1>0, <2>2, SupersededShape
    <3> QED  BY <3>1 DEF Same
  <2> QED  BY <2>1, <2>2
<1>3. ASSUME NEW b, Overlook(b)  PROVE Old
  <2>1. ASSUME NEW r \in asked, s = [r EXCEPT !.whole = FALSE]  PROVE Same(s, r)
    <3>1. r \in RequestT
      BY <1>0
    <3> QED  BY <2>1, <3>1 DEF Same, RequestT, SentT, HalfT, AnsweredT
  <2>2. s \in asked \/ \E r \in asked : s = [r EXCEPT !.whole = FALSE]
    BY <1>3 DEF Overlook
  <2> QED  BY <1>1, <2>1, <2>2
<1>4. ASSUME NEW r \in asked, Serve(r)  PROVE Goal
  <2> DEFINE t == [r EXCEPT !.pc = "answered", !.answer = Reading(r.page), !.whole = up]
  <2>1. s \in asked \/ s = t
    BY <1>0, <1>4, RequestShape DEF Serve
  <2>2. r \in SentT
    BY <1>0, <1>4, RequestShape DEF Serve
  <2>3. t.page = r.page /\ t.latest = r.latest /\ t.pc = "answered" /\ t.answer = Reading(r.page)
        /\ t.whole = up
    BY <2>2 DEF SentT
  <2>4. UNCHANGED <<shown, news, page, tasks, used>>
    BY <1>4 DEF Serve, server, database
  <2> HIDE DEF t
  <2> QED  BY <1>1, <1>4, <2>1, <2>3, <2>4
<1>5. ASSUME NEW r \in asked, ServeTiles(r) \/ ServeCards(r)  PROVE Goal
  <2>1. s \in asked \/ s.page = r.page
    <3>1. CASE ServeTiles(r)
      <4> DEFINE t == [r EXCEPT !.pc = "half", !.whole = up,
                                !.answer = [kind |-> "tiles", tiles |-> Tiles(Me, tasks)]]
      <4>1. r \in SentT /\ (s \in asked \/ s = t)
        BY <1>0, <3>1, RequestShape DEF ServeTiles
      <4>2. t.page = r.page
        BY <4>1 DEF SentT
      <4> QED  BY <4>1, <4>2
    <3>2. CASE ServeCards(r)
      <4> DEFINE a == [Answer(r.page) EXCEPT !.tiles = r.answer.tiles]
                 t == [r EXCEPT !.pc = "answered", !.answer = a]
      <4>1. r \in HalfT /\ (s \in asked \/ s = t)
        BY <1>0, <3>2, RequestShape DEF ServeCards
      <4> HIDE DEF a
      <4>2. t.page = r.page
        BY <4>1 DEF HalfT
      <4> QED  BY <4>1, <4>2
    <3> QED  BY <1>5, <3>1, <3>2
  <2>2. r.page.kind = "dashboard"
    BY <1>0, <1>5, RequestShape DEF ServeTiles, ServeCards
  <2> QED  BY <1>1, <1>5, <2>1, <2>2
<1>6. ASSUME NEW r \in asked, Arrive(r) \/ Fail(r)  PROVE Old
  BY <1>1, <1>6 DEF Arrive, Fail
<1>7. ASSUME Retry \/ TimerFires \/ ChangeFilter  PROVE Old \/ s = Request(page')
  <2>1. CASE Retry \/ TimerFires
    BY <1>2, <2>1 DEF Retry, TimerFires
  <2>2. CASE ChangeFilter
    <3>1. PICK pg : page' = pg
      OBVIOUS
    <3>2. Ask(pg)
      BY <2>2, <3>1 DEF ChangeFilter, Ask
    <3> QED  BY <1>2, <3>1, <3>2
  <2> QED  BY <1>7, <2>1, <2>2
<1>8. ASSUME NEW pg, Navigate(pg)  PROVE s = Request(page')
  BY <1>8 DEF Navigate
<1>9. ASSUME Deliver  PROVE Old \/ s = Request(page')
  <2> DEFINE pg == [kind |-> "tasks", query |-> << >>]
  <2>1. UNCHANGED asked \/ Navigate(pg) \/ (Ask(page) /\ page' = page)
    BY <1>9 DEF Deliver, OnActivity, OnListChanged, OnTaskChanged, pageVars
  <2> HIDE DEF pg
  <2> QED  BY <1>1, <1>2, <1>8, <2>1
<1>10. ASSUME NEW w \in Writer, Reply(w)  PROVE Old \/ s = Request(page')
  <2> DEFINE pg == [kind |-> "project", query |-> [project |-> write[w].last[1].row.project]]
  <2>1. UNCHANGED asked \/ Navigate(pg)
    BY <1>10 DEF Reply, pageVars
  <2> HIDE DEF pg
  <2> QED  BY <1>1, <1>8, <2>1
<1> HIDE DEF Old
<1> HIDE DEF Goal, TypeInv
<1>11. ASSUME Browse  PROVE Goal
  BY <1>4, <1>5, <1>6, <1>7, <1>9, <1>10, <1>11, <1>15 DEF Browse
<1>12. ASSUME NEW w \in Writer, Begin(w) \/ Commit(w) \/ (Drop(w) /\ UNCHANGED wire /\ Unseen) \/ Publish(w)
       PROVE  Old
  <2>1. CASE Commit(w)
    BY <1>3, <2>1 DEF Commit
  <2> QED  BY <1>1, <1>12, <2>1, BeginFrame, DropFrame, PublishFrame DEF pageVars
<1>13. ASSUME SilentSweep \/ Disconnect  PROVE Old
  BY <1>3, <1>13 DEF SilentSweep, Disconnect
<1>14. ASSUME Notice \/ Reconnect  PROVE Old
  BY <1>1, <1>14, NoticeFrame DEF Reconnect, pageVars
<1>16. Goal
  BY <1>11, <1>12, <1>13, <1>14, <1>15 DEF Next
<1> QED  BY <1>16 DEF Goal, Old

LEMMA AskedAgeStep ==
    ASSUME TypeInv, TypeInv', AgeInv, Grows, Next
    PROVE  AskedAge'
<1> SUFFICES ASSUME NEW s \in asked', s.pc = "answered", s.answer.kind = "rows"
             PROVE  OfPage(s.page, s.answer.rows, used', tasks')
  BY DEF AskedAge
<1>0. s \in RequestT /\ s.page.kind # "dashboard" /\ asked \subseteq RequestT
  BY DEF TypeInv, RequestInv
<1>1. ASSUME NEW r \in asked, Same(s, r)  PROVE OfPage(s.page, s.answer.rows, used', tasks')
  <2>1. OfPage(s.page, s.answer.rows, used, tasks)
    BY <1>1 DEF Same, AgeInv, AskedAge
  <2>2. s.answer.rows \in TableT
    BY <1>0, RequestShape DEF RowsT, DashboardT
  <2> QED  BY <2>1, <2>2, CopiesKept DEF OfPage, TypeInv
<1>2. ASSUME s.answer = Reading(s.page), UNCHANGED <<tasks, used>>
      PROVE  OfPage(s.page, s.answer.rows, used', tasks')
  <2>1. tasks \in TableT /\ Live \subseteq used
    BY DEF TypeInv, DbInv
  <2>2. /\ \A t \in DOMAIN s.answer.rows : t \in Live /\ s.answer.rows[t] = tasks[t]
        /\ s.page.kind = "task" => DOMAIN s.answer.rows \subseteq {s.page.task}
    BY <1>2, <2>1, ReadingTyped
  <2> QED  BY <1>2, <2>1, <2>2 DEF OfPage, Copies, Copy
<1>3. s # Request(page')
  BY DEF Request
<1> QED  BY <1>0, <1>1, <1>2, <1>3, AskedMoves

-----------------------------------------------------------------------------
(* The screen *)

\* The save of the tab itself was answered.
Saved(w) ==
    LET job == write[w].last[1]
    IN  /\ Reply(w) /\ Here(write[w]) /\ write[w].pc = "publish" /\ job \in JobT
        /\ ~job.gone /\ page.kind = "task"
        /\ shown' = Rows([t \in {job.task} |-> job.row])
        /\ crossed' = IF HasRows /\ \E t \in DOMAIN shown.rows : shown.rows[t].at <= job.row.at
                      THEN crossed ELSE crossed \cup {job.task}
        /\ Heard(job.task, job.row.at)
        /\ UNCHANGED <<page, failed, asked, timer, missed>>

LEMMA PageMoves ==
    ASSUME TypeInv, Next
    PROVE  \/ shown' = Nothing
           \/ UNCHANGED <<shown, news, crossed>> /\ (page' = page \/ page'.kind = "tasks")
           \/ \E r \in asked : Arrive(r) /\ r.latest
           \/ Deliver /\ OnListChanged(Head(line))
           \/ \E w \in Writer : Saved(w)
<1> DEFINE Still == UNCHANGED <<shown, news, crossed>> /\ (page' = page \/ page'.kind = "tasks")
           Goal == \/ shown' = Nothing
                   \/ Still
                   \/ \E r \in asked : Arrive(r) /\ r.latest
                   \/ Deliver /\ OnListChanged(Head(line))
                   \/ \E w \in Writer : Saved(w)
<1>1. ASSUME UNCHANGED pageVars  PROVE Still
  BY <1>1 DEF pageVars
<1>2. ASSUME NEW b, Overlook(b)  PROVE Still
  BY <1>2 DEF Overlook
<1>3. ASSUME NEW r \in asked, Serve(r) \/ ServeTiles(r) \/ ServeCards(r) \/ Fail(r)  PROVE Still
  BY <1>3 DEF Serve, ServeTiles, ServeCards, Fail
<1>4. ASSUME NEW r \in asked, Arrive(r)  PROVE Still \/ (Arrive(r) /\ r.latest)
  BY <1>4 DEF Arrive, Latest
<1>5. ASSUME Retry \/ TimerFires  PROVE Still
  BY <1>5 DEF Retry, TimerFires
<1>6. ASSUME ChangeFilter  PROVE Still
  <2>1. PICK q \in Filters : page.kind = "tasks" /\ page' = [page EXCEPT !.query = q]
    BY <1>6 DEF ChangeFilter
  <2>2. page'.kind = "tasks"
    BY <2>1, PageShape DEF TypeInv, PageInv
  <2> QED  BY <1>6, <2>2 DEF ChangeFilter
<1>7. ASSUME NEW pg, Navigate(pg)  PROVE shown' = Nothing
  BY <1>7 DEF Navigate
<1>8. ASSUME Deliver  PROVE shown' = Nothing \/ Still \/ (Deliver /\ OnListChanged(Head(line)))
  <2> DEFINE pg == [kind |-> "tasks", query |-> << >>]
  <2>1. ASSUME OnActivity(Head(line))  PROVE Still
    BY <2>1 DEF OnActivity
  <2>2. ASSUME OnTaskChanged(Head(line))  PROVE Still \/ Navigate(pg)
    BY <2>2 DEF OnTaskChanged, pageVars
  <2> HIDE DEF Still, pg
  <2> QED  BY <1>7, <1>8, <2>1, <2>2 DEF Deliver
<1>9. ASSUME NEW w \in Writer, Reply(w)  PROVE shown' = Nothing \/ Still \/ Saved(w)
  <2> DEFINE job == write[w].last[1]
             pg == [kind |-> "project", query |-> [project |-> job.row.project]]
  <2>1. write[w].pc = "publish" /\ Here(write[w]) /\ job \in JobT
    BY <1>9, ReplyShape DEF Reply, Here
  <2>2. ASSUME job.gone  PROVE Navigate(pg)
    BY <1>9, <2>2 DEF Reply
  <2>3. ASSUME ~job.gone, ~UNCHANGED pageVars  PROVE Saved(w)
    BY <1>9, <2>1, <2>3 DEF Reply, Saved
  <2> HIDE DEF Still, pg
  <2> QED  BY <1>1, <1>7, <2>2, <2>3
<1> HIDE DEF Still
<1>10. ASSUME Browse  PROVE Goal
  BY <1>3, <1>4, <1>5, <1>6, <1>8, <1>9, <1>10 DEF Browse
<1>11. ASSUME NEW w \in Writer, Begin(w) \/ Commit(w) \/ (Drop(w) /\ UNCHANGED wire /\ Unseen) \/ Publish(w)
       PROVE  Still
  <2>1. CASE Commit(w)
    BY <1>2, <2>1 DEF Commit
  <2> QED  BY <1>1, <1>11, <2>1, BeginFrame, DropFrame, PublishFrame
<1>12. ASSUME SilentSweep \/ Disconnect  PROVE Still
  BY <1>2, <1>12 DEF SilentSweep, Disconnect
<1>13. ASSUME Notice \/ Reconnect  PROVE Still
  BY <1>1, <1>13, NoticeFrame DEF Reconnect
<1>14. Goal
  BY <1>10, <1>11, <1>12, <1>13 DEF Next
<1> QED  BY <1>14 DEF Still

LEMMA ShownTyped ==
    ASSUME TypeInv, HasRows
    PROVE  /\ shown \in RowsT /\ shown.rows \in TableT /\ DOMAIN shown.rows \subseteq Task
           /\ \A t \in DOMAIN shown.rows : shown.rows[t] \in Row /\ shown.rows[t].at \in Nat
<1>1. shown \in RowsT
  BY DEF TypeInv, PageInv, HasRows, Nothing, DashboardT
<1>2. shown.rows \in TableT
  BY <1>1 DEF RowsT
<1> QED  BY <1>1, <1>2, TableTyped, RowShape

LEMMA AnswerShape ==
    ASSUME TypeInv, NEW r \in asked, r.pc = "answered", r.answer.kind = "rows"
    PROVE  /\ r.answer \in RowsT /\ r.answer.rows \in TableT /\ DOMAIN r.answer.rows \subseteq Task
           /\ \A t \in DOMAIN r.answer.rows : r.answer.rows[t].at \in Nat
<1>1. r.answer \in RowsT
  BY RequestShape DEF TypeInv, RequestInv, DashboardT
<1>2. r.answer.rows \in TableT
  BY <1>1 DEF RowsT
<1> QED  BY <1>1, <1>2, TableTyped, RowShape

\* The change a list is told of.
LEMMA ListChange ==
    ASSUME TypeInv, AgeInv, Deliver, OnListChanged(Head(line))
    PROVE  LET m == Head(line)
           IN  /\ m \in ChangeT /\ m.task \in Task /\ m.row \in Row /\ m.at \in Nat
               /\ Truthful(m, used, tasks)
               /\ page.kind \in Lists /\ page' = page /\ asked' = asked
               /\ shown' = IF HasRows THEN Rows(Patched(m)) ELSE shown
<1> DEFINE m == Head(line)
<1>1. line # << >> /\ line \in Seq(MessageT) /\ m.kind = "changed"
  BY DEF TypeInv, WireInv, Deliver, OnListChanged
<1>2. 1 \in DOMAIN line /\ m = line[1] /\ m \in MessageT
  BY <1>1, TailMoves, TailTyped
<1>3. Truthful(m, used, tasks)
  BY <1>1, <1>2 DEF AgeInv, LineAge
<1>4. m \in ChangeT
  BY <1>1, <1>2 DEF MessageT
<1> HIDE DEF m
<1>5. m.task \in Task /\ m.row \in Row /\ m.at \in Nat
  BY <1>4 DEF ChangeT
<1> QED  BY <1>3, <1>4, <1>5 DEF OnListChanged, m

LEMMA ShownAgeStep ==
    ASSUME TypeInv, TypeInv', AgeInv, Grows, Next
    PROVE  ShownAge'
<1> SUFFICES ASSUME shown'.kind = "rows"
             PROVE  OfPage(page', shown'.rows, used', tasks')
  BY DEF ShownAge, HasRows
<1> DEFINE Goal == OfPage(page', shown'.rows, used', tasks')
<1>0. shown'.rows \in TableT
  BY ShownTyped DEF HasRows, TypeInv, PageInv, RowsT, Nothing, DashboardT
<1>1. ASSUME OfPage(page, shown'.rows, used, tasks), page' = page \/ page'.kind = "tasks"  PROVE Goal
  <2>1. Copies(shown'.rows, used', tasks')
    BY <1>0, <1>1, CopiesKept DEF OfPage, TypeInv
  <2> QED  BY <1>1, <2>1 DEF OfPage
<1>2. CASE UNCHANGED <<shown, news, crossed>> /\ (page' = page \/ page'.kind = "tasks")
  BY <1>1, <1>2 DEF AgeInv, ShownAge, HasRows
<1>3. ASSUME NEW r \in asked, Arrive(r), r.latest  PROVE Goal
  <2>1. shown' = r.answer /\ page' = page /\ r.pc = "answered" /\ r.page = page
    BY <1>3 DEF Arrive, Latest, TypeInv, RequestInv
  <2> QED  BY <1>1, <2>1 DEF AgeInv, AskedAge
<1>4. CASE Deliver /\ OnListChanged(Head(line))
  <2> DEFINE m == Head(line)
  <2>1. /\ m \in ChangeT /\ Truthful(m, used, tasks) /\ page.kind \in Lists /\ page' = page
        /\ shown' = IF HasRows THEN Rows(Patched(m)) ELSE shown
    BY <1>4, ListChange
  <2>2. HasRows
    BY <2>1 DEF HasRows
  <2>3. OfPage(page, shown.rows, used, tasks) /\ shown'.rows = Patched(m)
    BY <2>1, <2>2 DEF AgeInv, ShownAge, Rows
  <2> HIDE DEF m
  <2>4. DOMAIN Patched(m) \subseteq DOMAIN shown.rows
        /\ \A t \in DOMAIN Patched(m) : \/ Patched(m)[t] = shown.rows[t] /\ (t # m.task)
                                        \/ Patched(m)[t] = m.row /\ t = m.task /\ ~m.gone
    BY <2>1, <2>2, ShownTyped, PatchedTyped
  <2>5. Copies(Patched(m), used, tasks)
    BY <2>1, <2>3, <2>4 DEF OfPage, Copies, Truthful
  <2> QED  BY <1>1, <2>1, <2>3, <2>5 DEF OfPage, Lists
<1>5. ASSUME NEW w \in Writer, Saved(w)  PROVE Goal
  <2> DEFINE job == write[w].last[1]
             rows == [t \in {job.task} |-> job.row]
  <2>1. /\ Here(write[w]) /\ write[w].pc = "publish" /\ page.kind = "task" /\ page' = page
        /\ shown'.rows = rows
    BY <1>5 DEF Saved, Rows
  <2>2. 1 \in DOMAIN write[w].last
    <3>1. write[w] \in PublicationT /\ write[w].last # << >>
      BY <2>1, WriteKinds DEF TypeInv, WriteInv
    <3>2. write[w].last \in Seq(JobT)
      BY <3>1 DEF PublicationT
    <3> QED  BY <3>1, <3>2
  <2>3. Copy(job.task, job.row, used, tasks) /\ job.task = page.task
    BY <2>1, <2>2 DEF AgeInv, WriteAge, HomeAge, Aged, Target
  <2> HIDE DEF job
  <2>4. OfPage(page, rows, used, tasks)
    BY <2>3 DEF OfPage, Copies
  <2> QED  BY <1>1, <2>1, <2>4
<1>6. shown' # Nothing
  BY DEF Nothing
<1> QED  BY <1>2, <1>3, <1>4, <1>5, <1>6, PageMoves

LEMMA NewsAgeStep ==
    ASSUME TypeInv, TypeInv', AgeInv, Next
    PROVE  NewsAge'
<1> SUFFICES ASSUME shown'.kind = "rows", NEW s \in asked', s.latest, s.pc = "answered",
                    s.answer.kind = "rows",
                    NEW t \in DOMAIN shown'.rows \cap DOMAIN s.answer.rows
             PROVE  shown'.rows[t].at <= s.answer.rows[t].at \/ shown'.rows[t].at <= news'[t]
  BY DEF NewsAge, NotBehind, HasRows
<1> DEFINE Goal == shown'.rows[t].at <= s.answer.rows[t].at \/ shown'.rows[t].at <= news'[t]
<1>0. news \in [Task -> Nat] /\ shown'.kind = "rows" /\ shown' # Nothing
  BY DEF TypeInv, PageInv, Nothing
<1>1. ASSUME NEW r \in asked, Same(s, r), HasRows, t \in DOMAIN shown.rows, shown'.rows[t] = shown.rows[t],
             news'[t] >= news[t]
      PROVE  Goal
  <2>1. shown.rows[t].at <= s.answer.rows[t].at \/ shown.rows[t].at <= news[t]
    BY <1>1 DEF AgeInv, NewsAge, NotBehind, Same
  <2>2. shown.rows[t].at \in Nat /\ t \in Task
    BY <1>1, ShownTyped
  <2>3. news[t] \in Nat /\ news'[t] \in Nat
    BY <2>2 DEF TypeInv, PageInv
  <2> QED  BY <1>1, <2>1, <2>2, <2>3
<1>2. ASSUME NEW r \in asked, Same(s, r)  PROVE Goal
  <2>1. CASE UNCHANGED <<shown, news, crossed>>
    <3>1. t \in Task
      BY <2>1, ShownTyped DEF HasRows
    <3>2. news[t] \in Nat
      BY <3>1 DEF TypeInv, PageInv
    <3> QED  BY <1>1, <1>2, <2>1, <3>2 DEF HasRows
  <2>2. ASSUME NEW r0 \in asked, Arrive(r0), r0.latest  PROVE FALSE
    <3>1. s \in asked /\ s # r0
      BY <2>2 DEF Arrive
    <3> QED  BY <2>2, <3>1 DEF TypeInv, RequestInv
  <2>3. CASE Deliver /\ OnListChanged(Head(line))
    <3> DEFINE m == Head(line)
    <3>1. /\ m \in ChangeT /\ m.task \in Task /\ m.at \in Nat /\ Truthful(m, used, tasks)
          /\ shown' = IF HasRows THEN Rows(Patched(m)) ELSE shown
      BY <2>3, ListChange
    <3>2. HasRows
      BY <3>1 DEF HasRows
    <3>3. shown'.rows = Patched(m)
      BY <3>1, <3>2 DEF Rows
    <3>4. Heard(m.task, m.at)
      BY <2>3 DEF OnListChanged
    <3> HIDE DEF m
    <3>5. \/ shown'.rows[t] = shown.rows[t] /\ t # m.task /\ t \in DOMAIN shown.rows
          \/ shown'.rows[t] = m.row /\ t = m.task /\ ~m.gone
      BY <3>1, <3>2, <3>3, ShownTyped, PatchedTyped
    <3>6. /\ news'[m.task] >= m.at
          /\ \A x \in Task : news'[x] >= news[x]
      BY <1>0, <3>1, <3>4, HeardTyped
    <3>7. t \in Task
      BY <3>1, <3>2, <3>5, ShownTyped
    <3>8. CASE shown'.rows[t] = shown.rows[t] /\ t # m.task /\ t \in DOMAIN shown.rows
      BY <1>1, <1>2, <3>2, <3>6, <3>7, <3>8
    <3>9. CASE shown'.rows[t] = m.row /\ t = m.task /\ ~m.gone
      BY <3>1, <3>6, <3>9 DEF Truthful
    <3> QED  BY <3>5, <3>8, <3>9
  <2>4. ASSUME NEW w \in Writer, Saved(w)  PROVE Goal
    <3> DEFINE job == write[w].last[1]
               rows == [x \in {job.task} |-> job.row]
    <3>1. shown'.rows = rows /\ Heard(job.task, job.row.at) /\ job \in JobT
      BY <2>4 DEF Saved, Rows
    <3>2. job.task \in Task /\ job.row.at \in Nat
      BY <3>1, RowShape DEF JobT
    <3> HIDE DEF job
    <3>3. t = job.task /\ shown'.rows[t] = job.row
      BY <3>1
    <3>4. news'[job.task] >= job.row.at /\ news'[job.task] \in Nat
      BY <1>0, <3>1, <3>2, HeardTyped
    <3> QED  BY <3>2, <3>3, <3>4
  <2> QED  BY <1>0, <2>1, <2>2, <2>3, <2>4, PageMoves
<1>3. ASSUME s.answer = Reading(s.page), UNCHANGED <<shown, news, page, tasks, used>>  PROVE Goal
  <2>1. t \in Live /\ s.answer.rows[t] = tasks[t]
    BY <1>3, ReadingTyped DEF TypeInv, DbInv
  <2>2. Copy(t, shown.rows[t], used, tasks) /\ t \in DOMAIN shown.rows /\ HasRows
    BY <1>3 DEF AgeInv, ShownAge, OfPage, Copies, HasRows
  <2>3. shown.rows[t].at \in Nat /\ tasks[t].at \in Nat
    BY <2>1, <2>2, ShownTyped, TableTyped, RowShape DEF TypeInv, DbInv, Live
  <2> QED  BY <1>3, <2>1, <2>2, <2>3 DEF Copy, Live
<1>4. s # Request(page') /\ s.page.kind # "dashboard"
  BY DEF Request, TypeInv, RequestInv
<1> HIDE DEF Goal
<1>5. Goal
  BY <1>2, <1>3, <1>4, AskedMoves
<1> QED  BY <1>5 DEF Goal

LEMMA AgeStep ==
    ASSUME TypeInv, TypeInv', Next, AgeInv
    PROVE  AgeInv'
<1>1. Grows /\ DbAge'
  BY TableGrows DEF AgeInv
<1> QED  BY <1>1, WriteAgeStep, HomeAgeStep, LineAgeStep, AskedAgeStep, ShownAgeStep, NewsAgeStep DEF AgeInv

LEMMA AgeInit ==
    ASSUME Init
    PROVE  AgeInv
<1>1. TypeInv
  BY InitTyped
<1>2. /\ tasks = SeededTasks /\ used = DOMAIN SeededTasks /\ stamp = 1
      /\ write = [w \in Writer |-> Idle] /\ line = << >>
  BY DEF Init, WritesInit
<1>3. PICK tab \in Tab :
         /\ shown = IF tab.loaded /\ page.kind # "tray" THEN Answer(page) ELSE Nothing
         /\ asked = IF tab.loaded \/ page.kind = "tray" THEN {} ELSE {Request(page)}
  BY DEF Init, PagesInit
<1>4. DbAge
  BY <1>2, SeededTasksAssumption DEF DbAge, Live
<1>5. WriteAge /\ HomeAge
  <2>1. \A w \in Writer : write[w] = Idle
    BY <1>2
  <2> QED  BY <2>1, IdleAged DEF WriteAge, HomeAge, Idle, Here
<1>6. LineAge
  BY <1>2 DEF LineAge
<1>7. \A r \in asked : r.pc = "sent"
  BY <1>3 DEF Request
<1>8. AskedAge /\ NewsAge
  BY <1>7 DEF AskedAge, NewsAge
<1>9. ShownAge
  <2> SUFFICES ASSUME HasRows  PROVE OfPage(page, shown.rows, used, tasks)
    BY DEF ShownAge
  <2>1. shown = Answer(page)
    BY <1>3 DEF HasRows, Nothing
  <2>2. page.kind # "dashboard" => Answer(page) = Reading(page)
    BY <1>1, AnswerTyped DEF TypeInv
  <2>3. page.kind # "dashboard"
    BY <1>1, <2>1, AnswerTyped DEF HasRows, TypeInv
  <2>4. tasks \in TableT /\ Live \subseteq used
    BY <1>1 DEF TypeInv, DbInv
  <2>5. /\ \A t \in DOMAIN shown.rows : t \in Live /\ shown.rows[t] = tasks[t]
        /\ page.kind = "task" => DOMAIN shown.rows \subseteq {page.task}
    BY <2>1, <2>2, <2>3, <2>4, ReadingTyped
  <2> QED  BY <2>4, <2>5 DEF OfPage, Copies, Copy
<1> QED  BY <1>4, <1>5, <1>6, <1>8, <1>9 DEF AgeInv

LEMMA AgeStutter ==
    ASSUME AgeInv, UNCHANGED vars
    PROVE  AgeInv'
<1>1. UNCHANGED <<tasks, used, stamp, write, page, line, shown, asked, news>>
  BY DEF vars, server, database, wire, pageVars
<1> QED  BY <1>1 DEF AgeInv, DbAge, WriteAge, HomeAge, LineAge, AskedAge, ShownAge, NewsAge, Live, HasRows

\* Every copy of a row - in a request, a publication, a message, an answer or on
\* the screen - is a state that row was in, of a task that was there.
THEOREM Copied == Spec => []AgeInv
<1>1. Init => AgeInv
  BY AgeInit
<1>2. TypeInv /\ TypeInv' /\ AgeInv /\ [Next]_vars => AgeInv'
  BY AgeStep, AgeStutter
<1> QED  BY <1>1, <1>2, Typed, PTL DEF Spec

\* A step of the page.
LEMMA ForwardStep ==
    ASSUME TypeInv, AgeInv, Next, HasRows, shown'.kind = "rows", page' = page,
           NEW t \in DOMAIN shown.rows \cap DOMAIN shown'.rows
    PROVE  shown.rows[t].at <= shown'.rows[t].at \/ t \in crossed'
<1> DEFINE Goal == shown.rows[t].at <= shown'.rows[t].at \/ t \in crossed'
<1>0. shown.rows[t].at \in Nat /\ t \in Task /\ shown' # Nothing
  BY ShownTyped DEF Nothing
<1>1. CASE shown' = shown
  BY <1>0, <1>1
<1>2. ASSUME NEW r \in asked, Arrive(r), r.latest  PROVE Goal
  <2>1. shown' = r.answer /\ crossed' = Overtaken(r.answer) /\ r.pc = "answered"
    BY <1>2 DEF Arrive, Latest
  <2>2. t \in DOMAIN r.answer.rows /\ r.answer.kind = "rows" /\ r.answer.rows[t].at \in Nat
    BY <2>1, AnswerShape
  <2>3. shown.rows[t].at <= r.answer.rows[t].at \/ shown.rows[t].at <= news[t]
    BY <1>2, <2>1, <2>2 DEF AgeInv, NewsAge, NotBehind
  <2>4. news[t] \in Nat
    BY <1>0 DEF TypeInv, PageInv
  <2>5. r.answer.rows[t].at < news[t] => t \in crossed'
    BY <2>1, <2>2 DEF Overtaken
  <2> QED  BY <1>0, <2>1, <2>2, <2>3, <2>4, <2>5
<1>3. ASSUME Deliver, OnListChanged(Head(line))  PROVE Goal
  <2> DEFINE m == Head(line)
  <2>1. /\ m \in ChangeT /\ m.task \in Task /\ m.at \in Nat /\ Truthful(m, used, tasks)
        /\ shown'.rows = Patched(m)
    BY <1>3, ListChange DEF Rows
  <2>2. crossed' = IF Backward(m) THEN crossed \cup {m.task} ELSE crossed
    BY <1>3 DEF OnListChanged
  <2> HIDE DEF m
  <2>3. \/ shown'.rows[t] = shown.rows[t]
        \/ shown'.rows[t] = m.row /\ t = m.task /\ ~m.gone
    BY <2>1, ShownTyped, PatchedTyped
  <2>4. CASE shown'.rows[t] = shown.rows[t]
    BY <1>0, <2>4
  <2>5. CASE shown'.rows[t] = m.row /\ t = m.task /\ ~m.gone
    <3>1. m.row.at = m.at
      BY <2>1, <2>5 DEF Truthful
    <3>2. m.at < shown.rows[t].at => Backward(m)
      BY <2>5 DEF Backward
    <3> QED  BY <1>0, <2>1, <2>2, <2>5, <3>1, <3>2
  <2> QED  BY <2>3, <2>4, <2>5
<1>4. ASSUME NEW w \in Writer, Saved(w)  PROVE Goal
  <2> DEFINE job == write[w].last[1]
             rows == [x \in {job.task} |-> job.row]
  <2>1. /\ shown'.rows = rows /\ page.kind = "task" /\ Here(write[w]) /\ write[w].pc = "publish"
        /\ job \in JobT
        /\ crossed' = IF HasRows /\ \E x \in DOMAIN shown.rows : shown.rows[x].at <= job.row.at
                      THEN crossed ELSE crossed \cup {job.task}
    BY <1>4 DEF Saved, Rows
  <2>2. job.task = page.task /\ DOMAIN shown.rows \subseteq {page.task}
    BY <2>1 DEF AgeInv, HomeAge, Target, ShownAge, OfPage
  <2>3. job.row.at \in Nat
    BY <2>1, RowShape DEF JobT
  <2> HIDE DEF job
  <2>4. t = job.task /\ shown'.rows[t] = job.row
    BY <2>1
  <2>5. ASSUME NEW x \in DOMAIN shown.rows  PROVE x = t
    BY <2>2, <2>4, <2>5
  <2>6. CASE shown.rows[t].at <= job.row.at
    BY <2>4, <2>6
  <2>7. CASE ~(shown.rows[t].at <= job.row.at)
    <3>1. ~ \E x \in DOMAIN shown.rows : shown.rows[x].at <= job.row.at
      BY <2>5, <2>7
    <3> QED  BY <2>1, <2>4, <3>1
  <2> QED  BY <2>6, <2>7
<1> HIDE DEF Goal
<1>5. Goal
  <2>1. CASE UNCHANGED <<shown, news, crossed>>
    BY <1>1, <2>1 DEF Goal
  <2> QED  BY <1>0, <1>2, <1>3, <1>4, <2>1, PageMoves
<1> QED  BY <1>5 DEF Goal

\* A row on the screen is never replaced by an older one, whichever answers come
\* late and however often the page asked, but by the older news that crossed
\* names: an older message, or the latest answer itself when a push or the page's
\* own save overtook it (useApiQuery.ts, useLiveTasks.ts).
THEOREM PageGoesForward == Spec => NeverBackwards
<1>1. TypeInv /\ AgeInv /\ [Next]_vars
      => [HasRows /\ HasRows' /\ page' = page
            => \A t \in DOMAIN shown.rows \cap DOMAIN shown'.rows :
                  shown.rows[t].at <= shown'.rows[t].at \/ t \in crossed']_vars
  BY ForwardStep DEF HasRows
<1> QED  BY <1>1, Typed, Copied, PTL DEF Spec, NeverBackwards

-----------------------------------------------------------------------------
(* The page settles.  What is owed to the page is on the line or still to be *)
(* published: something that makes it ask again, or the news that a row left *)
(* its list.  Short of that, and of an excuse, it shows what its queries     *)
(* would answer.                                                             *)

JobsOf(q) == IF q.pc = "publish" THEN Range(q.jobs) ELSE {}
Jobs(wr) == UNION {JobsOf(wr[w]) : w \in Writer}

\* A page of a project or of a task is about that alone.
Concerns(pg, t, project) ==
    /\ pg.kind = "project" => pg.query.project = project
    /\ pg.kind = "task" => pg.task = t

\* The page's query would list the row.
Fits(p, pg, t, row) ==
    Sees(p, row) /\ IF pg.kind = "task" THEN t = pg.task ELSE Matches(pg.query, row)

\* The user sees the task, and it concerns the page.
View(p, pg, t, tb) == t \in DOMAIN tb /\ Sees(p, tb[t]) /\ Concerns(pg, t, tb[t].project)

\* The rows f hold of t what the page's query would answer.
Agree(p, pg, tb, f, t) ==
    IF t \in DOMAIN tb /\ Fits(p, pg, t, tb[t])
    THEN t \in DOMAIN f /\ f[t] = tb[t]
    ELSE t \notin DOMAIN f

\* What a job says to the user: that the task changed, that it is gone.
Lost(p, job) == job.prev = p.id /\ job.prev # job.row.assignee
GoneFor(p, job) == (job.gone /\ Sees(p, job.row)) \/ Lost(p, job)
KeptFor(p, job) == ~job.gone /\ Sees(p, job.row)

\* Of the messages ms and the jobs js, one of write n says that t is gone, or is
\* still there.
SaysGone(p, ms, js, t, n) ==
    \/ \E m \in ms : m.kind = "changed" /\ m.gone /\ m.task = t /\ m.at = n
    \/ \E j \in js : GoneFor(p, j) /\ j.task = t /\ j.at = n
SaysKept(p, ms, js, t, n) ==
    \/ \E m \in ms : m.kind = "changed" /\ ~m.gone /\ m.task = t /\ m.at = n
    \/ \E j \in js : KeptFor(p, j) /\ j.task = t /\ j.at = n

\* The row of t in f is left over, and a list will be told so.
Going(p, pg, tb, ms, js, f, t) ==
    /\ pg.kind \in Lists /\ t \in DOMAIN f
    /\ t \in DOMAIN tb => ~Sees(p, tb[t]) /\ Concerns(pg, t, tb[t].project)
    /\ \E n \in Nat : f[t].at < n /\ SaysGone(p, ms, js, t, n)
    /\ \A n \in Nat : SaysKept(p, ms, js, t, n) => n <= f[t].at

Sound(p, pg, tb, ms, js, f, t) == Agree(p, pg, tb, f, t) \/ Going(p, pg, tb, ms, js, f, t)

\* A message, a job, that makes the page ask again.
AsksFor(pg, m) ==
    IF pg.kind = "task" THEN m.kind = "changed" /\ m.task = pg.task
    ELSE m.kind = "activity" /\ (pg.kind = "project" => pg.query.project = m.project)
LeadsTo(p, pg, job) ==
    IF pg.kind = "task" THEN job.task = pg.task /\ (Sees(p, job.row) \/ Lost(p, job))
    ELSE /\ job.stage = "activity" /\ Addressed(p, job.row, job.by)
         /\ Concerns(pg, job.task, job.row.project)

Stirred(p, pg, tm, ms, js) ==
    tm \/ (\E m \in ms : AsksFor(pg, m)) \/ (\E j \in js : LeadsTo(p, pg, j))

\* Nothing can be said of the page: its request has not been read, or something
\* was not told since; or it shows an error, or missed something.
Excused == IF Pending THEN \A r \in asked : r.latest => r.pc = "sent" \/ ~r.whole
           ELSE failed \/ missed

RowsRight ==
    /\ \A r \in asked : r.latest /\ r.pc # "sent" => \A t \in Task :
          \/ Sound(Me, page, tasks, Range(line), Jobs(write), r.answer.rows, t)
          \/ t \in DOMAIN r.answer.rows /\ r.answer.rows[t].at < news[t]
    /\ ~Pending => HasRows /\ \A t \in Task \ crossed :
          Sound(Me, page, tasks, Range(line), Jobs(write), shown.rows, t)

NumbersRight ==
    /\ \A r \in asked : r.latest =>
          /\ r.pc = "half" => r.answer.tiles = Tiles(Me, tasks)
          /\ r.pc = "answered" => r.answer = Answer(page)
    /\ ~Pending => shown = Answer(page)

UpToDate == IF page.kind = "dashboard" THEN NumbersRight ELSE RowsRight

BoardInv ==
    page.kind # "tray" =>
        Excused \/ (up /\ (Stirred(Me, page, timer, Range(line), Jobs(write)) \/ UpToDate))

-----------------------------------------------------------------------------
(* What a user sees they are told of, and what a page's query would list     *)
(* concerns the page.                                                        *)

LEMMA SeenIsTold ==
    ASSUME NEW p, NEW row, NEW actor
    PROVE  /\ PrincipalCanSeeTask(p, row) <=> Sees(p, row)
           /\ Sees(p, row) => Addressed(p, row, actor)
BY DEF PrincipalCanSeeTask, Sees, TaskScope, Addressed

LEMMA FitsConcerns ==
    ASSUME NEW p, NEW pg \in Page, pg.kind \in Lists \cup {"task"}, NEW t, NEW row, Fits(p, pg, t, row)
    PROVE  Sees(p, row) /\ Concerns(pg, t, row.project)
<1>1. CASE pg.kind = "project"
  <2>1. "project" \in DOMAIN pg.query
    BY <1>1 DEF Page
  <2>2. Matches(pg.query, row)
    BY <1>1 DEF Fits
  <2>3. row.project = pg.query.project
    BY <2>1, <2>2 DEF Matches
  <2> QED  BY <1>1, <2>3 DEF Fits, Concerns
<1> QED  BY <1>1 DEF Fits, Concerns, Lists

\* Nothing that the page could see of t changes.
Still(t) ==
    /\ View(Me, page, t, tasks') <=> View(Me, page, t, tasks)
    /\ View(Me, page, t, tasks) => tasks'[t] = tasks[t]

LEMMA AgreeStill ==
    ASSUME page \in Page, page.kind \in Lists \cup {"task"}, NEW t, Still(t),
           NEW f, Agree(Me, page, tasks, f, t)
    PROVE  Agree(Me, page, tasks', f, t)
<1>1. ASSUME NEW tb, t \in DOMAIN tb, Fits(Me, page, t, tb[t])  PROVE View(Me, page, t, tb)
  BY <1>1, FitsConcerns DEF View
<1>2. t \in DOMAIN tasks' /\ Fits(Me, page, t, tasks'[t]) <=> t \in DOMAIN tasks /\ Fits(Me, page, t, tasks[t])
  <2>1. ASSUME View(Me, page, t, tasks)  PROVE t \in DOMAIN tasks /\ t \in DOMAIN tasks' /\ tasks'[t] = tasks[t]
    BY <2>1 DEF Still, View
  <2> QED  BY <1>1, <2>1 DEF Still
<1>3. t \in DOMAIN tasks /\ Fits(Me, page, t, tasks[t]) => tasks'[t] = tasks[t]
  BY <1>1 DEF Still
<1> QED  BY <1>2, <1>3 DEF Agree

-----------------------------------------------------------------------------
(* What is owed to the page, and how it moves *)

LEMMA OwedMore ==
    ASSUME NEW p, NEW pg, NEW tm, NEW tn, NEW ms, NEW ns, NEW js, NEW ks,
           tm => tn, ms \subseteq ns, js \subseteq ks
    PROVE  /\ Stirred(p, pg, tm, ms, js) => Stirred(p, pg, tn, ns, ks)
           /\ \A t, n : SaysGone(p, ms, js, t, n) => SaysGone(p, ns, ks, t, n)
           /\ \A t, n : SaysKept(p, ms, js, t, n) => SaysKept(p, ns, ks, t, n)
BY DEF Stirred, SaysGone, SaysKept

LEMMA JobsPut ==
    ASSUME write \in [Writer -> WriteT], NEW w \in Writer, NEW q, write' = [write EXCEPT ![w] = q]
    PROVE  /\ JobsOf(q) \subseteq Jobs(write')
           /\ Jobs(write') \subseteq Jobs(write) \cup JobsOf(q)
           /\ Jobs(write) \subseteq Jobs(write') \cup JobsOf(write[w])
<1>1. write'[w] = q /\ \A v \in Writer \ {w} : write'[v] = write[v]
  OBVIOUS
<1>2. \A j : (j \in Jobs(write) <=> \E v \in Writer : j \in JobsOf(write[v]))
  BY DEF Jobs
<1>3. \A j : (j \in Jobs(write') <=> \E v \in Writer : j \in JobsOf(write'[v]))
  BY DEF Jobs
<1>4. JobsOf(q) \subseteq Jobs(write')
  BY <1>1, <1>3
<1>5. ASSUME NEW j \in Jobs(write')  PROVE j \in Jobs(write) \cup JobsOf(q)
  <2>1. PICK v \in Writer : j \in JobsOf(write'[v])
    BY <1>3, <1>5
  <2> QED  BY <1>1, <1>2, <2>1
<1>6. ASSUME NEW j \in Jobs(write)  PROVE j \in Jobs(write') \cup JobsOf(write[w])
  <2>1. PICK v \in Writer : j \in JobsOf(write[v])
    BY <1>2, <1>6
  <2> QED  BY <1>1, <1>3, <2>1
<1> QED  BY <1>4, <1>5, <1>6

LEMMA JobsAre ==
    ASSUME WriteInv, NEW j \in Jobs(write)
    PROVE  /\ j \in JobT
           /\ \E w \in Writer : write[w].pc = "publish" /\ \E i \in DOMAIN write[w].jobs : j = write[w].jobs[i]
<1>1. PICK w \in Writer : j \in JobsOf(write[w])
  BY DEF Jobs
<1>2. write[w].pc = "publish" /\ \E i \in DOMAIN write[w].jobs : j = write[w].jobs[i]
  BY <1>1 DEF JobsOf, Range
<1>3. write[w].jobs \in Seq(JobT)
  <2>1. write[w] \in PublicationT
    BY <1>2, WriteKinds
  <2> QED  BY <2>1 DEF PublicationT
<1>4. \A i \in DOMAIN write[w].jobs : write[w].jobs[i] \in JobT
  BY <1>3
<1> QED  BY <1>2, <1>4

\* Whatever was published or is on the line tells the truth.
LEMMA OwedIsTrue ==
    ASSUME TypeInv, AgeInv
    PROVE  /\ \A j \in Jobs(write) : j \in JobT /\ Truthful(j, used, tasks)
           /\ \A m \in Range(line) : m \in MessageT
           /\ \A m \in Range(line) : m.kind = "changed" => m \in ChangeT /\ Truthful(m, used, tasks)
<1>1. ASSUME NEW j \in Jobs(write)  PROVE j \in JobT /\ Truthful(j, used, tasks)
  BY <1>1, JobsAre DEF TypeInv, AgeInv, WriteAge, Aged
<1>2. ASSUME NEW m \in Range(line)  PROVE m \in MessageT /\ \E i \in DOMAIN line : m = line[i]
  BY <1>2 DEF Range, TypeInv, WireInv
<1>3. ASSUME NEW m \in Range(line), m.kind = "changed"  PROVE m \in ChangeT /\ Truthful(m, used, tasks)
  <2>1. m \in ChangeT
    BY <1>2, <1>3 DEF MessageT
  <2> QED  BY <1>2, <1>3, <2>1 DEF AgeInv, LineAge
<1> QED  BY <1>1, <1>2, <1>3

LEMMA BeginJobs ==
    ASSUME TypeInv, NEW w \in Writer, Begin(w) \/ Drop(w)
    PROVE  Jobs(write') = Jobs(write)
<1>0. write \in [Writer -> WriteT]
  BY DEF TypeInv, WriteInv
<1>1. ASSUME NEW q, write' = [write EXCEPT ![w] = q], JobsOf(q) = {}, write[w].pc # "publish"
      PROVE  Jobs(write') = Jobs(write)
  BY <1>0, <1>1, JobsPut DEF JobsOf
<1>2. JobsOf(Idle) = {} /\ Idle.pc # "publish"
  BY DEF JobsOf, Idle
<1>3. CASE Begin(w)
  <2>1. write[w] = Idle
    BY <1>3 DEF Begin, BeginUpdate, BeginDelete
  <2>2. ASSUME NEW q, write' = [write EXCEPT ![w] = q], q.pc \in {"update", "delete"}
        PROVE  Jobs(write') = Jobs(write)
    BY <1>1, <1>2, <2>1, <2>2 DEF JobsOf
  <2>3. ASSUME BeginUpdate(w)  PROVE Jobs(write') = Jobs(write)
    <3>1. PICK u \in Author, t \in Live, patch \in Patch, here \in BOOLEAN :
             write' = [write EXCEPT ![w] = [pc |-> "update", actor |-> u, task |-> t,
                                            seen |-> tasks[t], patch |-> patch, here |-> here]]
      BY <2>3 DEF BeginUpdate
    <3> QED  BY <2>2, <3>1
  <2>4. ASSUME BeginDelete(w)  PROVE Jobs(write') = Jobs(write)
    <3>1. PICK u \in Author, t \in Live, here \in BOOLEAN :
             write' = [write EXCEPT ![w] = [pc |-> "delete", actor |-> u, task |-> t,
                                            seen |-> tasks[t], here |-> here]]
      BY <2>4 DEF BeginDelete
    <3> QED  BY <2>2, <3>1
  <2> QED  BY <1>3, <2>3, <2>4 DEF Begin
<1>4. CASE Drop(w)
  <2> DEFINE q == write[w]
             j == Job(q.task, q.seen, q.actor, NoOne, FALSE, FALSE)
             p == [Publishing(<<j>>, {}, TRUE) EXCEPT !.jobs = << >>]
  <2>1. /\ q.pc \in {"update", "delete"}
        /\ write' = [write EXCEPT ![w] = IF q.here /\ q.task \in Live THEN p ELSE Idle]
    BY <1>4 DEF Drop
  <2>2. p.jobs = << >>
    BY DEF Publishing
  <2>3. JobsOf(p) = {}
    BY <2>2 DEF JobsOf, Range
  <2> HIDE DEF p
  <2> QED  BY <1>1, <1>2, <2>1, <2>3
<1> QED  BY <1>3, <1>4

\* The messages on the line, as a set.
LEMMA RangeConcat ==
    ASSUME NEW T, NEW s \in Seq(T), NEW t \in Seq(T)
    PROVE  Range(s \o t) = Range(s) \cup Range(t)
<1>1. /\ \A i \in DOMAIN (s \o t) : \/ i \in DOMAIN s /\ (s \o t)[i] = s[i]
                                    \/ \E j \in DOMAIN t : (s \o t)[i] = t[j]
      /\ \A i \in DOMAIN s : i \in DOMAIN (s \o t) /\ (s \o t)[i] = s[i]
      /\ \A j \in DOMAIN t : \E i \in DOMAIN (s \o t) : (s \o t)[i] = t[j]
  BY ConcatMoves
<1> DEFINE c == s \o t
<1> HIDE DEF c
<1>2. \A x : (x \in Range(c) <=> \E i \in DOMAIN c : c[i] = x)
  BY DEF Range
<1>3. \A x : (x \in Range(s) <=> \E i \in DOMAIN s : s[i] = x)
  BY DEF Range
<1>4. \A x : (x \in Range(t) <=> \E i \in DOMAIN t : t[i] = x)
  BY DEF Range
<1>5. ASSUME NEW x \in Range(c)  PROVE x \in Range(s) \cup Range(t)
  <2>1. PICK i \in DOMAIN c : c[i] = x
    BY <1>2, <1>5
  <2> QED  BY <1>1, <1>3, <1>4, <2>1 DEF c
<1>6. ASSUME NEW x \in Range(s)  PROVE x \in Range(c)
  <2>1. PICK i \in DOMAIN s : s[i] = x
    BY <1>3, <1>6
  <2> QED  BY <1>1, <1>2, <2>1 DEF c
<1>7. ASSUME NEW x \in Range(t)  PROVE x \in Range(c)
  <2>1. PICK i \in DOMAIN t : t[i] = x
    BY <1>4, <1>7
  <2> QED  BY <1>1, <1>2, <2>1 DEF c
<1> QED  BY <1>5, <1>6, <1>7 DEF c

LEMMA RangePush ==
    ASSUME WireInv, up, NEW msgs \in Seq(MessageT), Push(msgs)
    PROVE  Range(line') = Range(line) \cup Range(msgs)
BY RangeConcat DEF WireInv, Push

LEMMA RangeTail ==
    ASSUME NEW T, NEW s \in Seq(T), s # << >>
    PROVE  /\ Range(Tail(s)) \subseteq Range(s) /\ Range(s) \subseteq Range(Tail(s)) \cup {Head(s)}
           /\ Head(s) \in Range(s)
<1>1. /\ \A i \in DOMAIN Tail(s) : i + 1 \in DOMAIN s /\ Tail(s)[i] = s[i + 1]
      /\ \A i \in DOMAIN s : s[i] = Head(s) \/ (i - 1 \in DOMAIN Tail(s) /\ Tail(s)[i - 1] = s[i])
      /\ 1 \in DOMAIN s /\ Head(s) = s[1]
  BY TailMoves
<1> QED  BY <1>1 DEF Range

LEMMA RangeHeeded ==
    ASSUME NEW m
    PROVE  Range(Heeded(m)) = IF Listens(m) THEN {m} ELSE {}
<1>1. Range(<<m>>) = {m} /\ Range(<< >>) = {}
  BY DEF Range
<1> QED  BY <1>1 DEF Heeded

LEMMA SettledJobs ==
    ASSUME NEW q, q.pc = "publish"
    PROVE  JobsOf(Settled(q)) = JobsOf(q)
<1>1. Range(<< >>) = {}
  BY DEF Range
<1>2. JobsOf(Idle) = {}
  BY DEF JobsOf, Idle
<1> QED  BY <1>1, <1>2 DEF Settled, JobsOf

\* What the page is owed goes on, when a job is published.
Owes(tm, ms, js, tn, ns, ks) ==
    /\ Stirred(Me, page, tm, ms, js) => Stirred(Me, page, tn, ns, ks)
    /\ page.kind \in Lists => \A t, n : SaysGone(Me, ms, js, t, n) => SaysGone(Me, ns, ks, t, n)
    /\ \A t, n : SaysKept(Me, ns, ks, t, n) => SaysKept(Me, ms, js, t, n)

LEMMA OwedMoves ==
    ASSUME NEW tm, NEW ms, NEW js, NEW ns, NEW ks, NEW job \in js,
           ms \subseteq ns, js \subseteq ks \cup {job},
           LeadsTo(Me, page, job) => Stirred(Me, page, tm, ns, ks),
           page.kind \in Lists /\ GoneFor(Me, job) => SaysGone(Me, ns, ks, job.task, job.at),
           \A k \in ks : k \in js \/ (KeptFor(Me, k) => /\ KeptFor(Me, job)
                                                        /\ k.task = job.task /\ k.at = job.at),
           \A m \in ns : m \in ms \/ (m.kind = "changed" /\ ~m.gone => /\ KeptFor(Me, job)
                                                                       /\ m.task = job.task /\ m.at = job.at)
    PROVE  Owes(tm, ms, js, tm, ns, ks)
<1>1. Stirred(Me, page, tm, ms, js) => Stirred(Me, page, tm, ns, ks)
  BY DEF Stirred
<1>2. ASSUME page.kind \in Lists, NEW t, NEW n, SaysGone(Me, ms, js, t, n)
      PROVE  SaysGone(Me, ns, ks, t, n)
  BY <1>2 DEF SaysGone
<1>3. ASSUME NEW t, NEW n, SaysKept(Me, ns, ks, t, n)
      PROVE  SaysKept(Me, ms, js, t, n)
  BY <1>3 DEF SaysKept
<1> QED  BY <1>1, <1>2, <1>3 DEF Owes

LEMMA OwedSame ==
    ASSUME NEW tm, NEW ms, NEW js
    PROVE  Owes(tm, ms, js, tm, ms, js)
BY DEF Owes

LEMMA ActivityOwes ==
    ASSUME TypeInv, up, NEW w \in Writer, PublishActivity(w)
    PROVE  Owes(timer, Range(line), Jobs(write), timer, Range(line'), Jobs(write'))
<1> DEFINE q == write[w]
           j0 == Job1(w)
           j1 == [j0 EXCEPT !.stage = "changed"]
           m == [kind |-> "activity", project |-> j0.row.project]
           msgs == IF Addressed(Me, j0.row, j0.by) THEN Heeded(m) ELSE << >>
<1>1. /\ q \in PublicationT /\ q.jobs # << >> /\ q.pc = "publish" /\ 1 \in DOMAIN q.jobs
      /\ j0 \in JobT /\ j0.stage = "activity" /\ j0 = q.jobs[1]
  BY PublishesShape DEF PublishActivity, TypeInv, Publishes, Job1
<1>2. write' = [write EXCEPT ![w] = Announced(q)] /\ write \in [Writer -> WriteT]
  BY DEF PublishActivity, Announced, TypeInv, WriteInv
<1>3. /\ j1.task = j0.task /\ j1.row = j0.row /\ j1.prev = j0.prev /\ j1.gone = j0.gone /\ j1.at = j0.at
  BY <1>1 DEF JobT
<1>4. /\ KeptFor(Me, j1) <=> KeptFor(Me, j0)
      /\ GoneFor(Me, j1) <=> GoneFor(Me, j0)
      /\ page.kind = "task" => (LeadsTo(Me, page, j1) <=> LeadsTo(Me, page, j0))
  BY <1>3 DEF KeptFor, GoneFor, Lost, LeadsTo
<1>5. /\ JobsOf(q) \subseteq JobsOf(Announced(q)) \cup {j0}
      /\ JobsOf(Announced(q)) \subseteq JobsOf(q) \cup {j1}
      /\ j1 \in JobsOf(Announced(q)) /\ j0 \in JobsOf(q)
  <2>1. /\ Announced(q).pc = "publish" /\ DOMAIN Announced(q).jobs = DOMAIN q.jobs
        /\ \A i \in DOMAIN q.jobs : Announced(q).jobs[i] = IF i = 1 THEN j1 ELSE q.jobs[i]
    BY <1>1, AnnouncedTyped DEF PublicationT
  <2> HIDE DEF j1, q, j0
  <2> QED  BY <1>1, <2>1 DEF JobsOf, Range
<1> HIDE DEF j1
<1>6. /\ Jobs(write) \subseteq Jobs(write') \cup {j0} /\ j1 \in Jobs(write')
      /\ Jobs(write') \subseteq Jobs(write) \cup {j1} /\ j0 \in Jobs(write)
  <2>1. /\ JobsOf(Announced(q)) \subseteq Jobs(write')
        /\ Jobs(write') \subseteq Jobs(write) \cup JobsOf(Announced(q))
        /\ Jobs(write) \subseteq Jobs(write') \cup JobsOf(q)
    BY <1>2, JobsPut
  <2>2. JobsOf(q) \subseteq Jobs(write)
    BY DEF Jobs
  <2> HIDE DEF q, j0
  <2> QED  BY <1>5, <2>1, <2>2
<1>7. /\ m \in MessageT /\ m.kind = "activity" /\ m.project = j0.row.project
      /\ Listens(m)
  BY <1>1, RowShape DEF JobT, MessageT, Listens
<1> HIDE DEF m, q
<1>8. msgs \in Seq(MessageT) /\ Range(msgs) = IF Addressed(Me, j0.row, j0.by) THEN {m} ELSE {}
  <2>1. Range(<< >>) = {}
    BY DEF Range
  <2>2. Heeded(m) \in Seq(MessageT) /\ << >> \in Seq(MessageT)
    BY <1>7, HeededTyped
  <2> QED  BY <1>7, <2>1, <2>2, RangeHeeded
<1>9. Range(line') = Range(line) \cup Range(msgs)
  <2>1. Push(msgs)
    BY DEF PublishActivity, m
  <2> HIDE DEF msgs
  <2> QED  BY <1>8, <2>1, RangePush DEF TypeInv
<1> HIDE DEF msgs, j0
<1>10. LeadsTo(Me, page, j0) => Stirred(Me, page, timer, Range(line'), Jobs(write'))
  <2>1. CASE page.kind = "task"
    BY <1>4, <1>6, <2>1 DEF Stirred
  <2>2. ASSUME page.kind # "task", LeadsTo(Me, page, j0)
        PROVE  Stirred(Me, page, timer, Range(line'), Jobs(write'))
    <3>1. m \in Range(line')
      BY <1>8, <1>9, <2>2 DEF LeadsTo
    <3>2. AsksFor(page, m)
      BY <1>7, <2>2 DEF AsksFor, LeadsTo, Concerns
    <3> QED  BY <3>1, <3>2 DEF Stirred
  <2> QED  BY <2>1, <2>2
<1>11. GoneFor(Me, j0) => SaysGone(Me, Range(line'), Jobs(write'), j0.task, j0.at)
  BY <1>3, <1>4, <1>6 DEF SaysGone
<1>12. \A k \in Jobs(write') : k \in Jobs(write) \/ (KeptFor(Me, k) =>
          /\ KeptFor(Me, j0) /\ k.task = j0.task /\ k.at = j0.at)
  BY <1>3, <1>4, <1>6
<1>13. \A x \in Range(line') : x \in Range(line) \/ x.kind # "changed"
  BY <1>7, <1>8, <1>9
<1>14. Range(line) \subseteq Range(line')
  BY <1>9
<1> QED  BY <1>6, <1>10, <1>11, <1>12, <1>13, <1>14, OwedMoves

LEMMA ChangedOwes ==
    ASSUME TypeInv, up, page.kind # "tray", NEW w \in Writer, PublishChanged(w)
    PROVE  Owes(timer, Range(line), Jobs(write), timer, Range(line'), Jobs(write'))
<1> DEFINE q == write[w]
           job == Job1(w)
           m1 == Change(job, job.gone)
           m2 == Change(job, TRUE)
           A == IF Addressed(Me, job.row, NoOne) /\ PrincipalCanSeeTask(Me, job.row)
                THEN Heeded(m1) ELSE << >>
           B == ToFormerAssignee(job)
<1>1. /\ q \in PublicationT /\ q.jobs \in Seq(JobT) /\ q.jobs # << >> /\ q.pc = "publish"
      /\ job \in JobT /\ job.stage = "changed" /\ job = q.jobs[1] /\ job = Head(q.jobs)
  BY PublishesShape DEF PublishChanged, TypeInv, Publishes, Job1
<1>2. write' = [write EXCEPT ![w] = Settled(Shortened(q))] /\ write \in [Writer -> WriteT]
  BY DEF PublishChanged, Shortened, TypeInv, WriteInv
<1>3. /\ JobsOf(Settled(Shortened(q))) \subseteq JobsOf(q)
      /\ JobsOf(q) \subseteq JobsOf(Settled(Shortened(q))) \cup {job}
  <2>1. Shortened(q).pc = "publish" /\ Shortened(q).jobs = Tail(q.jobs)
    BY <1>1, ShortenedTyped DEF PublicationT
  <2>2. JobsOf(Settled(Shortened(q))) = Range(Tail(q.jobs)) /\ JobsOf(q) = Range(q.jobs)
    BY <1>1, <2>1, SettledJobs DEF JobsOf
  <2> HIDE DEF q, job
  <2> QED  BY <1>1, <2>2, RangeTail
<1>4. /\ Jobs(write) \subseteq Jobs(write') \cup {job}
      /\ Jobs(write') \subseteq Jobs(write) /\ job \in Jobs(write)
  <2>1. /\ Jobs(write') \subseteq Jobs(write) \cup JobsOf(Settled(Shortened(q)))
        /\ Jobs(write) \subseteq Jobs(write') \cup JobsOf(q)
        /\ JobsOf(Settled(Shortened(q))) \subseteq Jobs(write')
    BY <1>2, JobsPut
  <2>2. JobsOf(q) \subseteq Jobs(write)
    BY DEF Jobs
  <2>3. job \in JobsOf(q)
    BY <1>1, RangeTail DEF JobsOf
  <2> HIDE DEF q, job
  <2> QED  BY <1>3, <2>1, <2>2, <2>3
<1>5. /\ m1 \in MessageT /\ m1.kind = "changed" /\ m1.task = job.task /\ m1.at = job.at /\ m1.gone = job.gone
      /\ m2 \in MessageT /\ m2.kind = "changed" /\ m2.task = job.task /\ m2.at = job.at /\ m2.gone
  BY <1>1, ChangeTyped DEF Change, JobT
<1>6. page.kind # "dashboard" => Listens(m1) /\ Listens(m2)
  BY DEF Listens
<1>7. Push(A \o B)
  BY DEF PublishChanged
<1>8. B = IF Lost(Me, job) THEN Heeded(m2) ELSE << >>
  BY DEF ToFormerAssignee, Lost, Me, PrincipalOf
<1>9. A = IF Sees(Me, job.row) THEN Heeded(m1) ELSE << >>
  BY SeenIsTold
<1> HIDE DEF m1, m2, A, B, q, job
<1>10. /\ A \in Seq(MessageT) /\ B \in Seq(MessageT)
       /\ \A x \in Range(A) : x = m1 /\ Sees(Me, job.row)
       /\ \A x \in Range(B) : x = m2
       /\ page.kind # "dashboard" /\ Sees(Me, job.row) => m1 \in Range(A)
       /\ page.kind # "dashboard" /\ Lost(Me, job) => m2 \in Range(B)
  <2>1. Range(<< >>) = {} /\ << >> \in Seq(MessageT)
    BY DEF Range
  <2>2. Heeded(m1) \in Seq(MessageT) /\ Heeded(m2) \in Seq(MessageT)
    BY <1>5, HeededTyped
  <2>3. /\ Range(Heeded(m1)) = IF Listens(m1) THEN {m1} ELSE {}
        /\ Range(Heeded(m2)) = IF Listens(m2) THEN {m2} ELSE {}
    BY RangeHeeded
  <2> QED  BY <1>6, <1>8, <1>9, <2>1, <2>2, <2>3
<1>11. Range(line') = Range(line) \cup Range(A) \cup Range(B)
  <2>1. A \o B \in Seq(MessageT) /\ Range(A \o B) = Range(A) \cup Range(B)
    BY <1>10, PushTyped, RangeConcat
  <2>2. Range(line') = Range(line) \cup Range(A \o B)
    BY <1>7, <2>1, RangePush DEF TypeInv
  <2> QED  BY <2>1, <2>2
<1>12. LeadsTo(Me, page, job) => Stirred(Me, page, timer, Range(line'), Jobs(write'))
  <2>1. ASSUME LeadsTo(Me, page, job)
        PROVE  Stirred(Me, page, timer, Range(line'), Jobs(write'))
    <3>1. page.kind = "task" /\ job.task = page.task /\ (Sees(Me, job.row) \/ Lost(Me, job))
      BY <1>1, <2>1 DEF LeadsTo
    <3>2. m1 \in Range(line') \/ m2 \in Range(line')
      BY <1>10, <1>11, <3>1
    <3>3. AsksFor(page, m1) /\ AsksFor(page, m2)
      BY <1>5, <3>1 DEF AsksFor
    <3> QED  BY <3>2, <3>3 DEF Stirred
  <2> QED  BY <2>1
<1>13. page.kind \in Lists /\ GoneFor(Me, job) => SaysGone(Me, Range(line'), Jobs(write'), job.task, job.at)
  <2>1. ASSUME page.kind \in Lists, GoneFor(Me, job)
        PROVE  SaysGone(Me, Range(line'), Jobs(write'), job.task, job.at)
    <3>1. page.kind # "dashboard"
      BY <2>1 DEF Lists
    <3>2. (m1 \in Range(line') /\ job.gone) \/ m2 \in Range(line')
      BY <1>10, <1>11, <2>1, <3>1 DEF GoneFor
    <3> QED  BY <1>5, <3>2 DEF SaysGone
  <2> QED  BY <2>1
<1>14. \A x \in Range(line') : x \in Range(line) \/ (x.kind = "changed" /\ ~x.gone =>
          /\ KeptFor(Me, job) /\ x.task = job.task /\ x.at = job.at)
  BY <1>5, <1>10, <1>11 DEF KeptFor
<1>15. Range(line) \subseteq Range(line')
  BY <1>11
<1>16. \A k \in Jobs(write') : k \in Jobs(write) \/ (KeptFor(Me, k) =>
          /\ KeptFor(Me, job) /\ k.task = job.task /\ k.at = job.at)
  BY <1>4
<1> QED  BY <1>4, <1>12, <1>13, <1>14, <1>15, <1>16, OwedMoves

LEMMA PublishOwes ==
    ASSUME TypeInv, up, page.kind # "tray", NEW w \in Writer, Publish(w)
    PROVE  Owes(timer, Range(line), Jobs(write), timer, Range(line'), Jobs(write'))
<1>0. write \in [Writer -> WriteT]
  BY DEF TypeInv, WriteInv
<1>1. ASSUME NEW q, write' = [write EXCEPT ![w] = q], JobsOf(q) = {}, JobsOf(write[w]) = {}
      PROVE  Jobs(write') = Jobs(write)
  BY <1>0, <1>1, JobsPut
<1>2. Range(<< >>) = {}
  BY DEF Range
<1>3. JobsOf(Idle) = {}
  BY DEF JobsOf, Idle
<1>4. ASSUME FindNotes(w)
      PROVE  Owes(timer, Range(line), Jobs(write), timer, Range(line'), Jobs(write'))
  <2> DEFINE found == write[w].ids \cap DOMAIN notes
             p == IF found = {} THEN Idle ELSE [pc |-> "found", rows |-> Restrict(notes, found)]
  <2>1. write' = [write EXCEPT ![w] = p] /\ write[w].jobs = << >> /\ line' = line
    BY <1>4 DEF FindNotes, wire
  <2>2. JobsOf(p) = {}
    BY <1>3 DEF JobsOf
  <2> HIDE DEF p
  <2>3. JobsOf(write[w]) = {}
    BY <1>2, <2>1 DEF JobsOf
  <2> QED  BY <1>1, <2>1, <2>2, <2>3, OwedSame
<1>5. ASSUME CountNotes(w)
      PROVE  Owes(timer, Range(line), Jobs(write), timer, Range(line'), Jobs(write'))
  <2> DEFINE p == [pc |-> "counted", rows |-> write[w].rows, unread |-> Unread, at |-> stamp]
  <2>1. write' = [write EXCEPT ![w] = p] /\ write[w].pc = "found" /\ line' = line
    BY <1>5 DEF CountNotes, wire
  <2>2. JobsOf(p) = {}
    BY DEF JobsOf
  <2> HIDE DEF p
  <2>3. JobsOf(write[w]) = {}
    BY <2>1 DEF JobsOf
  <2> QED  BY <1>1, <2>1, <2>2, <2>3, OwedSame
<1>6. ASSUME PushNotes(w)
      PROVE  Owes(timer, Range(line), Jobs(write), timer, Range(line'), Jobs(write'))
  <2> DEFINE q == write[w]
             m == [kind |-> "new", rows |-> q.rows]
             c == CountMessage(q.unread, q.at)
  <2>1. q \in CountedT /\ q.pc = "counted"
    BY <1>6, WriteKinds DEF PushNotes, TypeInv
  <2>2. m \in MessageT /\ c \in MessageT /\ m.kind = "new" /\ c.kind = "count"
    BY <2>1, CountMessageTyped DEF CountedT, MessageT, CountMessage
  <2>3. Push(<<m, c>>) /\ write' = [write EXCEPT ![w] = Idle]
    BY <1>6 DEF PushNotes
  <2>4. Jobs(write') = Jobs(write)
    <3>1. JobsOf(q) = {}
      BY <2>1 DEF JobsOf
    <3> QED  BY <1>1, <1>3, <2>3, <3>1
  <2> HIDE DEF m, c, q
  <2>5. <<m, c>> \in Seq(MessageT) /\ Range(<<m, c>>) = {m, c}
    BY <2>2 DEF Range
  <2>6. Range(line') = Range(line) \cup {m, c}
    BY <2>3, <2>5, RangePush DEF TypeInv
  <2>7. ASSUME NEW x \in Range(line')  PROVE x \in Range(line) \/ x.kind # "changed"
    BY <2>2, <2>6, <2>7
  <2>8. Range(line) \subseteq Range(line')
    BY <2>6
  <2> QED  BY <2>4, <2>7, <2>8, OwedMore DEF Owes, SaysKept
<1> QED  BY <1>4, <1>5, <1>6, ActivityOwes, ChangedOwes DEF Publish

-----------------------------------------------------------------------------
(* Steps that leave the page, and the request it waits for, as they are *)

LEMMA SoundOwed ==
    ASSUME NEW tm, NEW ms, NEW js, NEW tn, NEW ns, NEW ks, Owes(tm, ms, js, tn, ns, ks),
           NEW f, NEW t, Sound(Me, page, tasks, ms, js, f, t)
    PROVE  Sound(Me, page, tasks, ns, ks, f, t)
<1>1. ASSUME Going(Me, page, tasks, ms, js, f, t)  PROVE Going(Me, page, tasks, ns, ks, f, t)
  <2>1. page.kind \in Lists
    BY <1>1 DEF Going
  <2>2. \E n \in Nat : f[t].at < n /\ SaysGone(Me, ns, ks, t, n)
    BY <1>1, <2>1 DEF Going, Owes
  <2>3. \A n \in Nat : SaysKept(Me, ns, ks, t, n) => n <= f[t].at
    BY <1>1 DEF Going, Owes
  <2> QED  BY <1>1, <2>2, <2>3 DEF Going
<1> QED  BY <1>1 DEF Sound

LEMMA SameAnswer ==
    ASSUME UNCHANGED <<me, page, tasks>>
    PROVE  Me' = Me /\ Answer(page)' = Answer(page)
<1>1. Me' = Me
  BY DEF Me, PrincipalOf
<1> QED  BY <1>1 DEF Answer, Reading

LEMMA QuietBoard ==
    ASSUME BoardInv, UNCHANGED <<me, page, shown, failed, news, crossed, missed, tasks, up>>,
           \A x : x.latest => (x \in asked' <=> x \in asked),
           up /\ page.kind # "tray" =>
               Owes(timer, Range(line), Jobs(write), timer', Range(line'), Jobs(write'))
    PROVE  BoardInv'
<1> SUFFICES ASSUME page.kind # "tray"
             PROVE  Excused' \/ (up' /\ (Stirred(Me, page, timer, Range(line), Jobs(write)) \/ UpToDate)')
  BY DEF BoardInv
<1>1. CASE Excused
  BY <1>1 DEF Excused, Pending
<1>2. CASE ~Excused
  <2>1. up /\ up' /\ (Stirred(Me, page, timer, Range(line), Jobs(write)) \/ UpToDate)
    BY <1>2 DEF BoardInv
  <2>2. Owes(timer, Range(line), Jobs(write), timer', Range(line'), Jobs(write'))
    BY <2>1
  <2>3. Me' = Me /\ Answer(page)' = Answer(page)
    BY SameAnswer
  <2>4. ASSUME Stirred(Me, page, timer, Range(line), Jobs(write))
        PROVE  Stirred(Me, page, timer, Range(line), Jobs(write))'
    BY <2>2, <2>3, <2>4 DEF Owes
  <2>5. ASSUME UpToDate  PROVE UpToDate'
    <3>1. CASE page.kind = "dashboard"
      <4>1. NumbersRight
        BY <2>5, <3>1 DEF UpToDate
      <4>2. NumbersRight'
        BY <2>3, <4>1 DEF NumbersRight, Pending
      <4> QED  BY <3>1, <4>2 DEF UpToDate
    <3>2. CASE page.kind # "dashboard"
      <4> DEFINE S(f, t) == Sound(Me, page, tasks, Range(line), Jobs(write), f, t)
      <4>1. RowsRight
        BY <2>5, <3>2 DEF UpToDate
      <4>2. ASSUME NEW f, NEW t, S(f, t)
            PROVE  Sound(Me', page', tasks', Range(line'), Jobs(write'), f, t)
        BY <2>2, <2>3, <4>2, SoundOwed
      <4>3. RowsRight'
        BY <4>1, <4>2 DEF RowsRight, Pending, HasRows
      <4> QED  BY <3>2, <4>3 DEF UpToDate
    <3> QED  BY <3>1, <3>2
  <2> QED  BY <2>1, <2>4, <2>5
<1> QED  BY <1>1, <1>2

-----------------------------------------------------------------------------
(* Requests *)

\* A page that has just asked is excused.
LEMMA AskExcuses ==
    ASSUME TypeInv, NEW pg \in Page, Ask(pg) \/ asked' = {Request(pg)}
    PROVE  Excused'
<1>1. Request(pg).latest /\ Request(pg).pc = "sent" /\ Request(pg) \in asked'
  BY RequestTyped DEF Ask
<1>2. ASSUME NEW s \in asked', s.latest  PROVE s = Request(pg)
  <2>1. ASSUME NEW x \in Supersede(asked)  PROVE ~x.latest
    BY <2>1, SupersededShape DEF TypeInv, RequestInv
  <2> QED  BY <1>2, <2>1 DEF Ask
<1> QED  BY <1>1, <1>2 DEF Excused, Pending

LEMMA ReadingAgrees ==
    ASSUME TypeInv, page.kind \in Lists \cup {"task"}, NEW t
    PROVE  Agree(Me, page, tasks, Reading(page).rows, t)
<1>1. tasks \in TableT
  BY DEF TypeInv, DbInv
<1>2. CASE page.kind = "task"
  <2>1. Reading(page).rows = GetTask(Me, page.task, tasks)
    BY <1>2 DEF Reading, Rows
  <2> DEFINE g == GetTask(Me, page.task, tasks)
  <2>2. /\ t \in DOMAIN g <=> t \in DOMAIN tasks /\ t = page.task /\ Sees(Me, tasks[t])
        /\ t \in DOMAIN g => g[t] = tasks[t]
    BY <1>1, GetTyped
  <2> HIDE DEF g
  <2> QED  BY <1>2, <2>1, <2>2 DEF Agree, Fits, g
<1>3. CASE page.kind # "task"
  <2>1. Reading(page).rows = ListTasks(Me, page.query, tasks)
    BY <1>3 DEF Reading, Rows
  <2> DEFINE g == ListTasks(Me, page.query, tasks)
  <2>2. /\ t \in DOMAIN g <=> t \in DOMAIN tasks /\ Sees(Me, tasks[t]) /\ Matches(page.query, tasks[t])
        /\ t \in DOMAIN g => g[t] = tasks[t]
    BY <1>1, ListTyped
  <2> HIDE DEF g
  <2> QED  BY <1>3, <2>1, <2>2 DEF Agree, Fits, g
<1> QED  BY <1>2, <1>3

\* The only request that is the latest becomes s.
LEMMA LatestBecomes ==
    ASSUME TypeInv, NEW r \in asked, r.latest, NEW s, s.latest, asked' = (asked \ {r}) \cup {s}
    PROVE  \A x \in asked' : x.latest => x = s
BY DEF TypeInv, RequestInv

LEMMA RowsServed ==
    ASSUME TypeInv, BoardInv, me' = me, NEW r \in asked, Serve(r)
    PROVE  BoardInv'
<1> SUFFICES ASSUME page.kind # "tray"  PROVE BoardInv'
  BY DEF Serve, BoardInv
<1> DEFINE s == [r EXCEPT !.pc = "answered", !.answer = Reading(r.page), !.whole = up]
<1>1. /\ asked' = (asked \ {r}) \cup {s} /\ r.pc = "sent" /\ r.page.kind # "dashboard"
      /\ UNCHANGED <<tasks, page, up>>
  BY DEF Serve, server, database, wire
<1>2. r \in SentT /\ r.latest /\ r.page = page
  BY <1>1, RequestShape DEF TypeInv, RequestInv
<1>3. s.latest /\ s.answer = Reading(page) /\ s.whole = up /\ s.pc = "answered"
  BY <1>2 DEF SentT
<1> HIDE DEF s
<1>4. \A x \in asked' : x.latest => x = s
  BY <1>1, <1>2, <1>3, LatestBecomes
<1>5. Pending'
  BY <1>1, <1>3 DEF Pending
<1>6. CASE ~up
  <2>1. Excused'
    BY <1>3, <1>4, <1>5, <1>6 DEF Excused
  <2> QED  BY <2>1 DEF BoardInv
<1>7. CASE up
  <2>1. page \in Page /\ page.kind \in Lists \cup {"task"}
    BY <1>1, <1>2, PageShape DEF TypeInv, PageInv, Lists
  <2>2. Me' = Me
    BY DEF Me, PrincipalOf
  <2>3. \A t \in Task : Agree(Me', page', tasks', s.answer.rows, t)
    BY <1>1, <1>3, <2>1, <2>2, ReadingAgrees
  <2>4. RowsRight'
    BY <1>4, <1>5, <2>3 DEF RowsRight, Sound
  <2>5. UpToDate'
    BY <1>1, <1>2, <2>4 DEF UpToDate
  <2> QED  BY <1>1, <1>7, <2>5 DEF BoardInv
<1> QED  BY <1>6, <1>7

LEMMA TilesServed ==
    ASSUME TypeInv, BoardInv, me' = me, NEW r \in asked, ServeTiles(r)
    PROVE  BoardInv'
<1> DEFINE s == [r EXCEPT !.pc = "half", !.whole = up,
                          !.answer = [kind |-> "tiles", tiles |-> Tiles(Me, tasks)]]
<1>1. /\ asked' = (asked \ {r}) \cup {s} /\ r.pc = "sent" /\ r.page.kind = "dashboard"
      /\ UNCHANGED <<tasks, page, up>>
  BY DEF ServeTiles, server, database, wire
<1>2. r \in SentT /\ r.latest /\ r.page = page
  BY <1>1, RequestShape DEF TypeInv, RequestInv
<1>3. s.latest /\ s.answer.tiles = Tiles(Me, tasks) /\ s.whole = up /\ s.pc = "half"
  BY <1>2 DEF SentT
<1> HIDE DEF s
<1>4. \A x \in asked' : x.latest => x = s
  BY <1>1, <1>2, <1>3, LatestBecomes
<1>5. Pending'
  BY <1>1, <1>3 DEF Pending
<1>6. CASE ~up
  <2>1. Excused'
    BY <1>3, <1>4, <1>5, <1>6 DEF Excused
  <2> QED  BY <2>1 DEF BoardInv
<1>7. CASE up
  <2>1. Me' = Me
    BY DEF Me, PrincipalOf
  <2>2. NumbersRight'
    BY <1>1, <1>3, <1>4, <1>5, <2>1 DEF NumbersRight
  <2>3. UpToDate'
    BY <1>1, <1>2, <2>2 DEF UpToDate
  <2> QED  BY <1>1, <1>7, <2>3 DEF BoardInv
<1> QED  BY <1>6, <1>7

LEMMA CardsServed ==
    ASSUME TypeInv, BoardInv, me' = me, NEW r \in asked, ServeCards(r)
    PROVE  BoardInv'
<1> DEFINE s == [r EXCEPT !.pc = "answered",
                          !.answer = [Answer(r.page) EXCEPT !.tiles = r.answer.tiles]]
<1>1. /\ asked' = (asked \ {r}) \cup {s} /\ r.pc = "half"
      /\ UNCHANGED <<tasks, write, line, page, shown, failed, timer, news, crossed, missed, up>>
  BY DEF ServeCards, server, database, wire
<1>2. r \in HalfT /\ r.page.kind = "dashboard"
  BY <1>1, RequestShape DEF TypeInv, RequestInv
<1>3. /\ s.latest = r.latest /\ s.whole = r.whole /\ s.pc = "answered"
      /\ s.answer = [Answer(r.page) EXCEPT !.tiles = r.answer.tiles]
  BY <1>2 DEF HalfT
<1> HIDE DEF s
<1>4. CASE ~r.latest
  <2>1. \A x : x.latest => (x \in asked' <=> x \in asked)
    BY <1>1, <1>3, <1>4
  <2> QED  BY <1>1, <2>1, QuietBoard, OwedSame
<1>5. CASE r.latest /\ page.kind # "tray"
  <2>1. \A x \in asked' : x.latest => x = s
    BY <1>1, <1>3, <1>5, LatestBecomes
  <2>2. Pending' /\ Pending /\ r.page = page
    BY <1>1, <1>3, <1>5 DEF Pending, TypeInv, RequestInv
  <2>3. CASE Excused
    <3>1. ~s.whole
      BY <1>1, <1>3, <1>5, <2>2, <2>3 DEF Excused
    <3>2. Excused'
      BY <2>1, <2>2, <3>1 DEF Excused
    <3> QED  BY <3>2 DEF BoardInv
  <2>4. CASE ~Excused
    <3>1. up /\ up' /\ (Stirred(Me, page, timer, Range(line), Jobs(write)) \/ UpToDate)
      BY <1>1, <1>5, <2>4 DEF BoardInv
    <3>2. Me' = Me /\ Answer(page)' = Answer(page)
      BY <1>1, SameAnswer
    <3>3. ASSUME Stirred(Me, page, timer, Range(line), Jobs(write))  PROVE BoardInv'
      BY <1>1, <3>1, <3>2, <3>3 DEF BoardInv
    <3>4. ASSUME UpToDate  PROVE BoardInv'
      <4>1. NumbersRight
        BY <1>2, <2>2, <3>4 DEF UpToDate
      <4>2. r.answer.tiles = Tiles(Me, tasks)
        BY <1>1, <1>5, <4>1 DEF NumbersRight
      <4>3. [Answer(page) EXCEPT !.tiles = Tiles(Me, tasks)] = Answer(page)
        BY <1>2, <2>2 DEF Answer
      <4>4. s.answer = Answer(page)'
        BY <1>3, <2>2, <3>2, <4>2, <4>3
      <4>5. NumbersRight'
        BY <1>3, <2>1, <2>2, <4>4 DEF NumbersRight
      <4>6. UpToDate'
        BY <1>1, <1>2, <2>2, <4>5 DEF UpToDate
      <4> QED  BY <3>1, <4>6 DEF BoardInv
    <3> QED  BY <3>1, <3>3, <3>4
  <2> QED  BY <2>3, <2>4
<1>6. CASE page.kind = "tray"
  BY <1>1, <1>6 DEF BoardInv
<1> QED  BY <1>4, <1>5, <1>6 DEF TypeInv, RequestInv, RequestT, HalfT

LEMMA AnswerArrives ==
    ASSUME TypeInv, BoardInv, me' = me, NEW r \in asked, Arrive(r)
    PROVE  BoardInv'
<1>1. /\ asked' = asked \ {r} /\ r.pc = "answered"
      /\ UNCHANGED <<tasks, write, line, page, timer, news, up>>
  BY DEF Arrive, server, database, wire
<1>2. CASE page.kind = "tray"
  BY <1>1, <1>2 DEF BoardInv
<1>3. CASE ~r.latest
  <2>1. \A x : x.latest => (x \in asked' <=> x \in asked)
    BY <1>1, <1>3
  <2>2. UNCHANGED <<shown, failed, crossed, missed>>
    BY <1>3 DEF Arrive, Latest
  <2> QED  BY <1>1, <2>1, <2>2, QuietBoard, OwedSame
<1>4. CASE r.latest /\ page.kind # "tray"
  <2>1. /\ shown' = r.answer /\ failed' = FALSE
        /\ crossed' = Overtaken(r.answer) /\ missed' = ~r.whole
    BY <1>4 DEF Arrive, Latest
  <2>2. Pending /\ ~Pending' /\ (\A x \in asked' : ~x.latest) /\ r.page = page
    BY <1>1, <1>4 DEF Pending, TypeInv, RequestInv
  <2>3. CASE Excused
    <3>1. ~r.whole
      BY <1>1, <1>4, <2>2, <2>3 DEF Excused
    <3>2. Excused'
      BY <2>1, <2>2, <3>1 DEF Excused
    <3> QED  BY <3>2 DEF BoardInv
  <2>4. CASE ~Excused
    <3>1. up /\ up' /\ (Stirred(Me, page, timer, Range(line), Jobs(write)) \/ UpToDate)
      BY <1>1, <1>4, <2>4 DEF BoardInv
    <3>2. Me' = Me /\ Answer(page)' = Answer(page)
      BY <1>1, SameAnswer
    <3>3. ASSUME Stirred(Me, page, timer, Range(line), Jobs(write))  PROVE BoardInv'
      BY <1>1, <3>1, <3>2, <3>3 DEF BoardInv
    <3>4. ASSUME UpToDate, page.kind = "dashboard"  PROVE BoardInv'
      <4>1. r.answer = Answer(page)
        BY <1>1, <1>4, <3>4 DEF UpToDate, NumbersRight
      <4>2. NumbersRight'
        BY <2>1, <2>2, <3>2, <4>1 DEF NumbersRight
      <4>3. UpToDate'
        BY <1>1, <3>4, <4>2 DEF UpToDate
      <4> QED  BY <3>1, <4>3 DEF BoardInv
    <3>5. ASSUME UpToDate, page.kind # "dashboard"  PROVE BoardInv'
      <4>1. RowsRight
        BY <3>5 DEF UpToDate
      <4>2. r.answer.kind = "rows"
        <5>1. r.answer \in RowsT \cup DashboardT
          BY <1>1, RequestShape DEF TypeInv, RequestInv
        <5>2. r.answer.kind # "dashboard"
          BY <1>1, <2>2, <3>5 DEF TypeInv, RequestInv
        <5> QED  BY <5>1, <5>2 DEF RowsT, DashboardT
      <4>3. ASSUME NEW t \in Task \ crossed'
            PROVE  Sound(Me, page, tasks, Range(line), Jobs(write), r.answer.rows, t)
        <5>1. ~(t \in DOMAIN r.answer.rows /\ r.answer.rows[t].at < news[t])
          BY <2>1, <4>2, <4>3 DEF Overtaken
        <5> QED  BY <1>1, <1>4, <4>1, <5>1 DEF RowsRight
      <4>4. RowsRight'
        BY <1>1, <2>1, <2>2, <3>2, <4>2, <4>3 DEF RowsRight, HasRows
      <4>5. UpToDate'
        BY <1>1, <3>5, <4>4 DEF UpToDate
      <4> QED  BY <3>1, <4>5 DEF BoardInv
    <3> QED  BY <3>1, <3>3, <3>4, <3>5
  <2> QED  BY <2>3, <2>4
<1> QED  BY <1>2, <1>3, <1>4, RequestShape DEF TypeInv, RequestInv

LEMMA RequestFails ==
    ASSUME TypeInv, NEW r \in asked, Fail(r)
    PROVE  BoardInv'
<1>1. asked' = asked \ {r} /\ r.latest /\ failed' = TRUE
  BY DEF Fail
<1>2. ~Pending'
  BY <1>1 DEF Pending, TypeInv, RequestInv
<1>3. Excused'
  BY <1>1, <1>2 DEF Excused
<1> QED  BY <1>3 DEF BoardInv

-----------------------------------------------------------------------------
(* Messages *)

LEMMA LineTaken ==
    ASSUME TypeInv, line # << >>, line' = Tail(line)
    PROVE  /\ Range(line') \subseteq Range(line) /\ Range(line) \subseteq Range(line') \cup {Head(line)}
           /\ Head(line) \in Range(line)
BY RangeTail DEF TypeInv, WireInv

LEMMA ActivityDelivered ==
    ASSUME TypeInv, BoardInv, me' = me, Deliver, OnActivity(Head(line))
    PROVE  BoardInv'
<1> DEFINE m == Head(line)
<1>1. /\ line # << >> /\ line' = Tail(line) /\ UNCHANGED <<tasks, write, up>> /\ m.kind = "activity"
      /\ UNCHANGED <<page, shown, failed, asked, news, crossed, missed>>
      /\ timer' = (timer \/ page.kind \in {"tasks", "dashboard"}
                         \/ (page.kind = "project" /\ page.query.project = m.project))
  BY DEF Deliver, OnActivity, server, database
<1>2. /\ Range(line') \subseteq Range(line) /\ Range(line) \subseteq Range(line') \cup {m}
  BY <1>1, LineTaken
<1> HIDE DEF m
<1>3. page.kind # "tray" /\ AsksFor(page, m) => timer'
  <2>1. page.kind \in {"tasks", "project", "task", "dashboard", "tray"}
    BY PageShape DEF TypeInv, PageInv
  <2> QED  BY <1>1, <2>1 DEF AsksFor
<1>4. page.kind # "tray" => Owes(timer, Range(line), Jobs(write), timer', Range(line'), Jobs(write'))
  <2>1. \A t, n : SaysGone(Me, Range(line), Jobs(write), t, n) => SaysGone(Me, Range(line'), Jobs(write), t, n)
    BY <1>1, <1>2 DEF SaysGone
  <2>2. \A t, n : SaysKept(Me, Range(line'), Jobs(write), t, n) => SaysKept(Me, Range(line), Jobs(write), t, n)
    BY <1>2 DEF SaysKept
  <2>3. ASSUME page.kind # "tray", Stirred(Me, page, timer, Range(line), Jobs(write))
        PROVE  Stirred(Me, page, timer', Range(line'), Jobs(write))
    BY <1>1, <1>2, <1>3, <2>3 DEF Stirred
  <2> QED  BY <1>1, <2>1, <2>2, <2>3 DEF Owes
<1> QED  BY <1>1, <1>4, QuietBoard

LEMMA TaskDelivered ==
    ASSUME TypeInv, BoardInv, me' = me, Deliver, OnTaskChanged(Head(line))
    PROVE  BoardInv'
<1> DEFINE m == Head(line)
           pg == [kind |-> "tasks", query |-> << >>]
<1>1. /\ line # << >> /\ line' = Tail(line) /\ UNCHANGED <<tasks, write, up>>
      /\ m.kind = "changed" /\ page.kind = "task"
  BY DEF Deliver, OnTaskChanged, server, database
<1>2. /\ Range(line') \subseteq Range(line) /\ Range(line) \subseteq Range(line') \cup {m}
  BY <1>1, LineTaken
<1>3. CASE m.task # page.task
  <2>1. UNCHANGED pageVars
    BY <1>3 DEF OnTaskChanged
  <2> HIDE DEF m
  <2>2. Stirred(Me, page, timer, Range(line), Jobs(write)) => Stirred(Me, page, timer, Range(line'), Jobs(write))
    BY <1>1, <1>2, <1>3 DEF Stirred, AsksFor
  <2>3. \A t, n : SaysKept(Me, Range(line'), Jobs(write), t, n) => SaysKept(Me, Range(line), Jobs(write), t, n)
    BY <1>2 DEF SaysKept
  <2>4. Owes(timer, Range(line), Jobs(write), timer', Range(line'), Jobs(write'))
    BY <1>1, <2>1, <2>2, <2>3 DEF Owes, Lists, pageVars
  <2> QED  BY <1>1, <2>1, <2>4, QuietBoard DEF pageVars
<1>4. CASE m.task = page.task /\ m.gone
  <2>1. asked' = {Request(pg)}
    BY <1>4 DEF OnTaskChanged, Navigate
  <2>2. pg \in Page
    BY DEF Page
  <2> QED  BY <2>1, <2>2, AskExcuses DEF BoardInv
<1>5. CASE m.task = page.task /\ ~m.gone
  <2>1. Ask(page)
    BY <1>5 DEF OnTaskChanged
  <2> QED  BY <2>1, AskExcuses DEF BoardInv, TypeInv, PageInv
<1> QED  BY <1>3, <1>4, <1>5

\* What a message about the task t leaves to be said.
LEMMA SoundAfter ==
    ASSUME NEW m, m.kind = "changed", NEW ms, NEW ns, NEW js,
           ns \subseteq ms, ms \subseteq ns \cup {m},
           NEW f, NEW t, Sound(Me, page, tasks, ms, js, f, t)
    PROVE  \/ Sound(Me, page, tasks, ns, js, f, t)
           \/ /\ m.gone /\ t = m.task /\ t \in DOMAIN f /\ f[t].at < m.at
              /\ Going(Me, page, tasks, ms, js, f, t)
<1>1. CASE Agree(Me, page, tasks, f, t)
  BY <1>1 DEF Sound
<1>2. CASE Going(Me, page, tasks, ms, js, f, t)
  <2>1. PICK n \in Nat : f[t].at < n /\ SaysGone(Me, ms, js, t, n)
    BY <1>2 DEF Going
  <2>2. SaysGone(Me, ns, js, t, n) \/ (m.gone /\ t = m.task /\ n = m.at)
    BY <2>1 DEF SaysGone
  <2>3. \A k : SaysKept(Me, ns, js, t, k) => SaysKept(Me, ms, js, t, k)
    BY DEF SaysKept
  <2>4. SaysGone(Me, ns, js, t, n) => Going(Me, page, tasks, ns, js, f, t)
    BY <1>2, <2>1, <2>3 DEF Going
  <2>5. t \in DOMAIN f
    BY <1>2 DEF Going
  <2> QED  BY <1>2, <2>1, <2>2, <2>4, <2>5 DEF Sound
<1> QED  BY <1>1, <1>2 DEF Sound

LEMMA ListDelivered ==
    ASSUME TypeInv, TypeInv', AgeInv, BoardInv, me' = me, Deliver, OnListChanged(Head(line))
    PROVE  BoardInv'
<1> DEFINE m == Head(line)
           ms == Range(line)
           ns == Range(line')
           js == Jobs(write)
<1>1. /\ line # << >> /\ line' = Tail(line) /\ UNCHANGED <<tasks, write, up>>
      /\ m.kind = "changed" /\ UNCHANGED <<page, failed, asked, timer, missed>>
      /\ Heard(m.task, m.at) /\ crossed' = IF Backward(m) THEN crossed \cup {m.task} ELSE crossed
  BY DEF Deliver, OnListChanged, server, database
<1>2. /\ m \in ChangeT /\ m.task \in Task /\ m.row \in Row /\ m.at \in Nat
      /\ Truthful(m, used, tasks)
      /\ page.kind \in Lists
      /\ shown' = IF HasRows THEN Rows(Patched(m)) ELSE shown
  BY ListChange
<1>3. ns \subseteq ms /\ ms \subseteq ns \cup {m} /\ m \in ms
  BY <1>1, LineTaken
<1>4. Me' = Me
  BY DEF Me, PrincipalOf
<1>5. Stirred(Me, page, timer, ms, js) => Stirred(Me', page', timer', ns, js)
  <2>1. ~AsksFor(page, m)
    BY <1>1, <1>2 DEF AsksFor, Lists
  <2> HIDE DEF m, ms, ns, js
  <2> QED  BY <1>1, <1>3, <1>4, <2>1 DEF Stirred
<1> HIDE DEF m, ms, ns, js
<1>6. CASE Excused
  <2>1. Excused'
    BY <1>1, <1>6 DEF Excused, Pending
  <2> QED  BY <2>1 DEF BoardInv
<1>7. CASE ~Excused
  <2>1. up /\ up' /\ (Stirred(Me, page, timer, ms, js) \/ UpToDate)
    BY <1>1, <1>2, <1>7 DEF BoardInv, Lists, ms, js
  <2>2. ASSUME Stirred(Me, page, timer, ms, js)  PROVE BoardInv'
    BY <1>1, <1>5, <2>1, <2>2 DEF BoardInv, ns, js
  <2>3. ASSUME UpToDate  PROVE BoardInv'
    <3>1. RowsRight
      BY <1>2, <2>3 DEF UpToDate, Lists
    <3>2. \A t \in Task : news[t] \in Nat /\ news'[t] \in Nat /\ news[t] <= news'[t]
      <4>1. \A t \in Task : news'[t] >= news[t]
        BY <1>1, <1>2, HeardTyped DEF TypeInv, PageInv
      <4> QED  BY <4>1 DEF TypeInv, PageInv
    <3>3. m.at <= news'[m.task]
      <4>1. news'[m.task] >= m.at
        BY <1>1, <1>2, HeardTyped DEF TypeInv, PageInv
      <4> QED  BY <1>2, <3>2, <4>1
    <3>4. ASSUME NEW r \in asked', r.latest, r.pc # "sent", NEW t \in Task
          PROVE  \/ Sound(Me, page, tasks, ns, js, r.answer.rows, t)
                 \/ t \in DOMAIN r.answer.rows /\ r.answer.rows[t].at < news'[t]
      <4> DEFINE f == r.answer.rows
      <4>1. r \in asked
        BY <1>1, <3>4
      <4>2. t \in DOMAIN f => f[t].at \in Nat
        <5>1. r.page = page /\ r.pc = "answered"
          BY <1>2, <3>4, <4>1, RequestShape DEF TypeInv, RequestInv, Lists
        <5>2. r.answer.kind = "rows"
          BY <1>2, <4>1, <5>1, RequestShape DEF TypeInv, RequestInv, RowsT, DashboardT, Lists
        <5> QED  BY <4>1, <5>1, <5>2, AnswerShape
      <4>3. Sound(Me, page, tasks, ms, js, f, t) \/ (t \in DOMAIN f /\ f[t].at < news[t])
        BY <3>1, <3>4, <4>1 DEF RowsRight, ms, js
      <4> HIDE DEF f
      <4>4. ASSUME t \in DOMAIN f, f[t].at < news[t]  PROVE f[t].at < news'[t]
        BY <3>2, <4>2, <4>4
      <4>5. ASSUME Sound(Me, page, tasks, ms, js, f, t)
            PROVE  Sound(Me, page, tasks, ns, js, f, t) \/ (t \in DOMAIN f /\ f[t].at < news'[t])
        <5>1. \/ Sound(Me, page, tasks, ns, js, f, t)
              \/ t = m.task /\ t \in DOMAIN f /\ f[t].at < m.at
          BY <1>1, <1>3, <4>5, SoundAfter
        <5>2. ASSUME t = m.task, t \in DOMAIN f, f[t].at < m.at  PROVE f[t].at < news'[t]
          BY <1>2, <3>2, <3>3, <4>2, <5>2
        <5> QED  BY <5>1, <5>2
      <4> QED  BY <4>3, <4>4, <4>5 DEF f
    <3>5. ASSUME ~Pending', NEW t \in Task \ crossed'
          PROVE  shown'.kind = "rows" /\ Sound(Me, page, tasks, ns, js, shown'.rows, t)
      <4> DEFINE f == shown.rows
                 g == Patched(m)
      <4>1. ~Pending
        BY <1>1, <3>5 DEF Pending
      <4>2. HasRows /\ t \notin crossed /\ Sound(Me, page, tasks, ms, js, f, t)
        BY <1>1, <3>1, <3>5, <4>1 DEF RowsRight, ms, js
      <4>3. shown'.kind = "rows" /\ shown'.rows = g
        BY <1>2, <4>2 DEF Rows
      <4>4. /\ f \in TableT /\ \A x \in DOMAIN f : f[x] \in Row /\ f[x].at \in Nat
        BY <4>2, ShownTyped
      <4>5. \/ m.gone /\ DOMAIN g = DOMAIN f \ {m.task} /\ \A x \in DOMAIN g : g[x] = f[x]
            \/ ~m.gone /\ DOMAIN g = DOMAIN f
               /\ \A x \in DOMAIN g : g[x] = IF x = m.task THEN m.row ELSE f[x]
        BY DEF Patched, Restrict
      <4>6. t = m.task => ~(t \in DOMAIN f /\ IF m.gone THEN m.at <= f[t].at ELSE m.at < f[t].at)
        BY <1>1, <3>5, <4>2 DEF Backward
      <4>7. Sound(Me, page, tasks, ns, js, f, t)
            \/ (m.gone /\ t = m.task /\ Going(Me, page, tasks, ms, js, f, t))
        BY <1>1, <1>3, <4>2, SoundAfter
      <4> HIDE DEF f, g
      <4>8. CASE t # m.task
        <5>1. Sound(Me, page, tasks, ns, js, f, t)
          BY <4>7, <4>8
        <5>2. (t \in DOMAIN g <=> t \in DOMAIN f) /\ (t \in DOMAIN f => g[t] = f[t])
          BY <4>5, <4>8
        <5>3. Sound(Me, page, tasks, ns, js, g, t)
          BY <5>1, <5>2 DEF Sound, Agree, Going
        <5> QED  BY <4>3, <5>3
      <4>9. CASE t = m.task /\ t \notin DOMAIN f
        <5>1. Agree(Me, page, tasks, f, t)
          BY <4>2, <4>9 DEF Sound, Going
        <5>2. t \notin DOMAIN g
          BY <4>5, <4>9
        <5>3. Agree(Me, page, tasks, g, t)
          BY <4>9, <5>1, <5>2 DEF Agree
        <5> QED  BY <4>3, <5>3 DEF Sound
      <4>10. CASE t = m.task /\ t \in DOMAIN f /\ m.gone
        <5>1. t \notin DOMAIN g /\ f[t].at < m.at
          BY <1>2, <4>4, <4>5, <4>6, <4>10
        <5>2. t \in DOMAIN tasks => m.at <= tasks[t].at
          BY <1>2, <4>10 DEF Truthful
        <5>3. ~(t \in DOMAIN tasks /\ Fits(Me, page, t, tasks[t]))
          <6>1. CASE Agree(Me, page, tasks, f, t)
            <7>1. t \in DOMAIN tasks => tasks[t] # f[t]
              BY <1>2, <4>4, <4>10, <5>1, <5>2
            <7> QED  BY <4>10, <6>1, <7>1 DEF Agree
          <6>2. CASE Going(Me, page, tasks, ms, js, f, t)
            BY <6>2 DEF Going, Fits
          <6> QED  BY <4>2, <6>1, <6>2 DEF Sound
        <5>4. Agree(Me, page, tasks, g, t)
          BY <5>1, <5>3 DEF Agree
        <5> QED  BY <4>3, <5>4 DEF Sound
      <4>11. CASE t = m.task /\ t \in DOMAIN f /\ ~m.gone
        <5>1. t \in DOMAIN g /\ g[t] = m.row /\ m.row.at = m.at /\ f[t].at <= m.at
          BY <1>2, <4>4, <4>5, <4>6, <4>11 DEF Truthful
        <5>2. CASE Agree(Me, page, tasks, f, t)
          <6>1. t \in DOMAIN tasks /\ Fits(Me, page, t, tasks[t]) /\ f[t] = tasks[t]
            BY <4>11, <5>2 DEF Agree
          <6>2. m.row = tasks[t] \/ m.row.at < tasks[t].at
            BY <1>2, <4>11, <6>1 DEF Truthful, Copy
          <6>3. m.row = tasks[t]
            BY <1>2, <4>4, <4>11, <5>1, <6>1, <6>2
          <6>4. Agree(Me, page, tasks, g, t)
            BY <5>1, <6>1, <6>3 DEF Agree
          <6> QED  BY <4>3, <6>4 DEF Sound
        <5>3. CASE Going(Me, page, tasks, ms, js, f, t)
          <6>1. SaysKept(Me, ms, js, t, m.at)
            BY <1>1, <1>3, <4>11 DEF SaysKept
          <6>2. f[t].at = m.at
            BY <1>2, <4>4, <4>11, <5>1, <5>3, <6>1 DEF Going
          <6>3. Going(Me, page, tasks, ns, js, f, t) \/ Agree(Me, page, tasks, f, t)
            BY <4>7, <4>11 DEF Sound
          <6>4. Going(Me, page, tasks, ns, js, f, t) => Going(Me, page, tasks, ns, js, g, t)
            BY <5>1, <6>2 DEF Going
          <6>5. ~Agree(Me, page, tasks, f, t)
            BY <4>11, <5>3 DEF Agree, Going, Fits
          <6> QED  BY <4>3, <6>3, <6>4, <6>5 DEF Sound
        <5> QED  BY <4>2, <5>2, <5>3 DEF Sound
      <4> QED  BY <4>8, <4>9, <4>10, <4>11
    <3>6. ~Pending' => shown'.kind = "rows"
      BY <1>1, <1>2, <3>1 DEF Pending, RowsRight, HasRows, Rows
    <3>7. RowsRight'
      BY <1>1, <1>4, <3>4, <3>5, <3>6 DEF RowsRight, HasRows, ns, js
    <3>8. UpToDate'
      BY <1>1, <1>2, <3>7 DEF UpToDate, Lists
    <3> QED  BY <2>1, <3>8 DEF BoardInv
  <2> QED  BY <2>1, <2>2, <2>3
<1> QED  BY <1>6, <1>7

-----------------------------------------------------------------------------
(* What the tab does itself *)

\* An answer to a save ends its request; nothing is left to publish of it.
LEMMA ReplyJobs ==
    ASSUME TypeInv, NEW w \in Writer, Reply(w)
    PROVE  Jobs(write') = Jobs(write)
<1>1. write' = [write EXCEPT ![w] = Idle] /\ write[w].jobs = << >> /\ write \in [Writer -> WriteT]
  BY DEF Reply, TypeInv, WriteInv
<1>2. JobsOf(write[w]) = {} /\ JobsOf(Idle) = {}
  BY <1>1 DEF JobsOf, Range, Idle
<1> QED  BY <1>1, <1>2, JobsPut

LEMMA SavedBoard ==
    ASSUME TypeInv, TypeInv', AgeInv, BoardInv, me' = me, NEW w \in Writer, Saved(w)
    PROVE  BoardInv'
<1> DEFINE job == write[w].last[1]
           g == [t \in {job.task} |-> job.row]
<1>1. /\ Here(write[w]) /\ write[w].pc = "publish" /\ page.kind = "task"
      /\ UNCHANGED <<page, failed, asked, timer, missed, tasks, up, line>>
      /\ shown' = Rows(g) /\ Heard(job.task, job.row.at) /\ job \in JobT
      /\ crossed' = IF HasRows /\ \E t \in DOMAIN shown.rows : shown.rows[t].at <= job.row.at
                    THEN crossed ELSE crossed \cup {job.task}
  BY DEF Saved, Reply, database, wire
<1>2. Jobs(write') = Jobs(write)
  BY ReplyJobs DEF Saved
<1>3. Me' = Me
  BY DEF Me, PrincipalOf
<1>4. Copy(job.task, job.row, used, tasks) /\ job.task = page.task
  <2>1. 1 \in DOMAIN write[w].last
    <3>1. write[w] \in PublicationT /\ write[w].last # << >>
      BY <1>1, WriteKinds DEF TypeInv, WriteInv
    <3>2. write[w].last \in Seq(JobT)
      BY <3>1 DEF PublicationT
    <3> QED  BY <3>1, <3>2
  <2> QED  BY <1>1, <2>1 DEF AgeInv, WriteAge, HomeAge, Aged, Target
<1>5. job.row \in Row /\ job.row.at \in Nat /\ job.task \in Task
  <2>1. job.row \in Row /\ job.task \in Task
    BY <1>1 DEF JobT
  <2> QED  BY <2>1, RowShape
<1>6. DOMAIN g = {job.task} /\ g[job.task] = job.row
  OBVIOUS
<1> HIDE DEF job, g
<1>7. CASE Excused
  <2>1. Excused'
    BY <1>1, <1>7 DEF Excused, Pending
  <2> QED  BY <2>1 DEF BoardInv
<1>8. CASE ~Excused
  <2>1. up /\ up' /\ (Stirred(Me, page, timer, Range(line), Jobs(write)) \/ UpToDate)
    BY <1>1, <1>8 DEF BoardInv
  <2>2. ASSUME Stirred(Me, page, timer, Range(line), Jobs(write))  PROVE BoardInv'
    BY <1>1, <1>2, <1>3, <2>1, <2>2 DEF BoardInv
  <2>3. ASSUME UpToDate  PROVE BoardInv'
    <3>1. RowsRight
      BY <1>1, <2>3 DEF UpToDate
    <3>2. \A t \in Task : news[t] \in Nat /\ news'[t] \in Nat /\ news[t] <= news'[t]
      <4>1. \A t \in Task : news'[t] >= news[t]
        BY <1>1, <1>5, HeardTyped DEF TypeInv, PageInv
      <4> QED  BY <4>1 DEF TypeInv, PageInv
    <3>3. ASSUME NEW r \in asked', r.latest, r.pc # "sent", NEW t \in Task
          PROVE  \/ Sound(Me, page, tasks, Range(line), Jobs(write), r.answer.rows, t)
                 \/ t \in DOMAIN r.answer.rows /\ r.answer.rows[t].at < news'[t]
      <4> DEFINE f == r.answer.rows
      <4>1. r \in asked
        BY <1>1, <3>3
      <4>2. t \in DOMAIN f => f[t].at \in Nat
        <5>1. r.page = page /\ r.pc = "answered"
          BY <1>1, <3>3, <4>1, RequestShape DEF TypeInv, RequestInv
        <5>2. r.answer.kind = "rows"
          BY <1>1, <4>1, <5>1, RequestShape DEF TypeInv, RequestInv, RowsT, DashboardT
        <5> QED  BY <4>1, <5>1, <5>2, AnswerShape
      <4>3. \/ Sound(Me, page, tasks, Range(line), Jobs(write), f, t)
            \/ t \in DOMAIN f /\ f[t].at < news[t]
        BY <3>1, <3>3, <4>1 DEF RowsRight
      <4> HIDE DEF f
      <4>4. ASSUME t \in DOMAIN f, f[t].at < news[t]  PROVE f[t].at < news'[t]
        BY <3>2, <4>2, <4>4
      <4> QED  BY <4>3, <4>4 DEF f
    <3>4. ASSUME ~Pending', NEW t \in Task \ crossed'
          PROVE  Agree(Me, page, tasks, g, t)
      <4> DEFINE f == shown.rows
      <4>1. ~Pending
        BY <1>1, <3>4 DEF Pending
      <4>2. CASE t # page.task
        BY <1>1, <1>4, <1>6, <4>2 DEF Agree, Fits
      <4>3. CASE t = page.task
        <5>1. HasRows /\ t \notin crossed /\ \E x \in DOMAIN f : f[x].at <= job.row.at
          BY <1>1, <1>4, <3>4, <4>3
        <5>2. DOMAIN f \subseteq {page.task}
          BY <1>1, <5>1 DEF AgeInv, ShownAge, OfPage
        <5>3. t \in DOMAIN f /\ f[t].at <= job.row.at
          BY <4>3, <5>1, <5>2
        <5>4. f[t].at \in Nat
          BY <5>1, <5>3, ShownTyped
        <5>5. Sound(Me, page, tasks, Range(line), Jobs(write), f, t)
          BY <3>1, <3>4, <4>1, <5>1 DEF RowsRight
        <5>6. Agree(Me, page, tasks, f, t)
          BY <1>1, <5>5 DEF Sound, Going, Lists
        <5> HIDE DEF f
        <5>7. t \in DOMAIN tasks /\ Fits(Me, page, t, tasks[t]) /\ f[t] = tasks[t]
          BY <5>3, <5>6 DEF Agree
        <5>8. job.row = tasks[t] \/ job.row.at < tasks[t].at
          BY <1>4, <4>3, <5>7 DEF Copy
        <5>9. job.row = tasks[t]
          BY <1>5, <5>3, <5>4, <5>7, <5>8
        <5> QED  BY <1>4, <1>6, <4>3, <5>7, <5>9 DEF Agree
      <4> QED  BY <4>2, <4>3
    <3>5. shown'.kind = "rows" /\ shown'.rows = g
      BY <1>1 DEF Rows
    <3>6. RowsRight'
      BY <1>1, <1>2, <1>3, <3>3, <3>4, <3>5 DEF RowsRight, HasRows, Sound
    <3>7. UpToDate'
      BY <1>1, <3>6 DEF UpToDate
    <3> QED  BY <2>1, <3>7 DEF BoardInv
  <2> QED  BY <2>1, <2>2, <2>3
<1> QED  BY <1>7, <1>8

LEMMA ReplyBoard ==
    ASSUME TypeInv, TypeInv', AgeInv, BoardInv, me' = me, NEW w \in Writer, Reply(w)
    PROVE  BoardInv'
<1> DEFINE job == write[w].last[1]
           pg == [kind |-> "project", query |-> [project |-> job.row.project]]
<1>1. write[w].pc = "publish" /\ Here(write[w]) /\ job \in JobT
  BY ReplyShape DEF Reply, Here
<1>2. CASE job.gone
  <2>1. asked' = {Request(pg)}
    BY <1>2 DEF Reply, Navigate
  <2>2. pg \in Page
    <3>1. job.row.project \in Project
      BY <1>1, RowShape DEF JobT
    <3> HIDE DEF job
    <3> QED  BY <3>1 DEF Page
  <2> QED  BY <2>1, <2>2, AskExcuses DEF BoardInv
<1>3. CASE ~job.gone /\ UNCHANGED pageVars
  <2>1. UNCHANGED <<tasks, up, line>>
    BY DEF Reply, database, wire
  <2>2. Jobs(write') = Jobs(write)
    BY ReplyJobs
  <2> QED  BY <1>3, <2>1, <2>2, QuietBoard, OwedSame DEF pageVars
<1>4. CASE ~job.gone /\ ~UNCHANGED pageVars
  <2>1. Saved(w)
    BY <1>1, <1>4 DEF Reply, Saved
  <2> QED  BY <2>1, SavedBoard
<1> QED  BY <1>2, <1>3, <1>4

LEMMA BrowseBoard ==
    ASSUME TypeInv, TypeInv', AgeInv, BoardInv, Browse
    PROVE  BoardInv'
<1>1. me' = me
  BY DEF Browse
<1>2. ASSUME Retry \/ TimerFires \/ ChangeFilter  PROVE BoardInv'
  <2>1. Ask(page) \/ Ask(page')
    BY <1>2 DEF Retry, TimerFires, ChangeFilter
  <2> QED  BY <2>1, AskExcuses DEF BoardInv, TypeInv, PageInv
<1>3. ASSUME Deliver  PROVE BoardInv'
  BY <1>1, <1>3, ActivityDelivered, ListDelivered, TaskDelivered DEF Deliver
<1> QED  BY <1>1, <1>2, <1>3, RowsServed, TilesServed, CardsServed, AnswerArrives, RequestFails, ReplyBoard
         DEF Browse

\* What happens without a word, or while the connection is down, is missed.
LEMMA MissedExcuses ==
    ASSUME TypeInv, Overlook(TRUE)
    PROVE  Excused'
<1>1. /\ missed' = TRUE /\ asked' = {[r EXCEPT !.whole = FALSE] : r \in asked}
  BY DEF Overlook
<1>2. ASSUME NEW s \in asked', s.latest  PROVE ~s.whole
  <2>1. PICK r \in asked : s = [r EXCEPT !.whole = FALSE]
    BY <1>1, <1>2
  <2>2. r \in RequestT
    BY DEF TypeInv, RequestInv
  <2> QED  BY <2>1, <2>2 DEF RequestT, SentT, HalfT, AnsweredT
<1> QED  BY <1>1, <1>2 DEF Excused, Pending

-----------------------------------------------------------------------------
(* Commits: each is announced by a job that makes the page ask again, or     *)
(* takes a row from the list the page shows and says so, or leaves what the  *)
(* page could see alone.                                                     *)

\* t has left what the user sees, and a job tells them.
Leaves(t) ==
    /\ page.kind \in Lists /\ View(Me, page, t, tasks) /\ t \in Live' /\ ~Sees(Me, tasks'[t])
    /\ \E j \in Jobs(write') : GoneFor(Me, j) /\ j.task = t /\ j.at = stamp + 1

AllTold ==
    /\ Jobs(write) \subseteq Jobs(write')
    /\ \A j \in Jobs(write') \ Jobs(write) :
          j.at = stamp + 1 /\ (j.gone \/ (j.task \in Live' /\ j.row = tasks'[j.task]))
    /\ \/ \E j \in Jobs(write') : LeadsTo(Me, page, j)
       \/ \A t \in Task : Still(t) \/ Leaves(t)

LEMMA JobsAdded ==
    ASSUME write \in [Writer -> WriteT], page.kind # "tray", NEW w \in Writer, write[w].pc # "publish",
           NEW jobs, NEW ids, NEW here,
           write' = [write EXCEPT ![w] = Settled(Publishing(jobs, ids, here))]
    PROVE  Jobs(write') = Jobs(write) \cup Range(jobs)
<1> DEFINE p == Publishing(jobs, ids, here)
<1>1. p.pc = "publish" /\ p.jobs = jobs
  BY DEF Publishing
<1> HIDE DEF p
<1>2. JobsOf(Settled(p)) = Range(jobs)
  BY <1>1, SettledJobs DEF JobsOf
<1>3. JobsOf(write[w]) = {}
  BY DEF JobsOf
<1>4. write' = [write EXCEPT ![w] = Settled(p)]
  BY DEF p
<1> QED  BY <1>2, <1>3, <1>4, JobsPut

LEMMA RangeOne ==
    ASSUME NEW x
    PROVE  Range(<<x>>) = {x}
BY DEF Range

\* A job of a row that the user sees and that concerns the page, when the page
\* listens to it.
LEMMA ConcernLeads ==
    ASSUME page \in Page, page.kind # "tray", NEW j, Sees(Me, j.row),
           Concerns(page, j.task, j.row.project), page.kind = "task" \/ j.stage = "activity"
    PROVE  LeadsTo(Me, page, j)
BY SeenIsTold DEF LeadsTo, Concerns

\* Who does not see a task of the project any more was its assignee.
LEMMA OnceSeen ==
    ASSUME NEW p, NEW old, NEW new, new.project = old.project, Sees(p, old), ~Sees(p, new)
    PROVE  old.assignee = p.id /\ new.assignee # p.id
BY DEF Sees, TaskScope

LEMMA CreateMoves ==
    ASSUME TypeInv, page.kind # "tray", NEW w \in Writer, Create(w)
    PROVE  AllTold
<1>1. PICK u \in Author, t \in Task \ used, draft \in Draft : Creates(w, u, t, draft)
  BY CreateShape
<1> DEFINE row == Drafted(draft)
           j == Job(t, row, u, NoOne, FALSE, TRUE)
           ids == Notified("TASK_ASSIGNED", t, draft.assignee, u)
<1>2. /\ tasks' = [x \in Live \cup {t} |-> IF x = t THEN row ELSE tasks[x]]
      /\ write' = [write EXCEPT ![w] = Settled(Publishing(<<j>>, ids, FALSE))]
  BY <1>1 DEF Creates
<1>3. write[w].pc # "publish"
  <2>1. write[w] = Idle
    BY DEF Create
  <2> QED  BY <2>1 DEF Idle
<1>4. j.task = t /\ j.row = row /\ j.gone = FALSE /\ j.at = stamp + 1 /\ j.stage = "activity"
  BY DEF Job
<1> HIDE DEF j, ids
<1>5. Jobs(write') = Jobs(write) \cup {j}
  BY <1>2, <1>3, JobsAdded, RangeOne DEF TypeInv, WriteInv
<1> HIDE DEF row
<1>6. /\ Live' = Live \cup {t} /\ tasks'[t] = row /\ t \notin Live
      /\ \A x \in Live : tasks'[x] = tasks[x]
  BY <1>2 DEF Live, TypeInv, DbInv
<1>7. \A x \in Task \ {t} : Still(x)
  BY <1>6 DEF Still, View, Live
<1>8. CASE View(Me, page, t, tasks')
  <2>1. LeadsTo(Me, page, j)
    BY <1>4, <1>6, <1>8, ConcernLeads DEF View, TypeInv, PageInv
  <2> QED  BY <1>4, <1>5, <1>6, <2>1 DEF AllTold
<1>9. CASE ~View(Me, page, t, tasks')
  <2>1. Still(t)
    BY <1>6, <1>9 DEF Still, View, Live
  <2> QED  BY <1>4, <1>5, <1>6, <1>7, <2>1 DEF AllTold
<1> QED  BY <1>8, <1>9

LEMMA UpdateMoves ==
    ASSUME TypeInv, page.kind # "tray", NEW w \in Writer, CommitUpdate(w), ~Untold(write[w])
    PROVE  AllTold
<1> DEFINE q == write[w]
           t == q.task
           row == Updated(q, tasks[t])
           j == Job(t, row, q.actor, q.seen.assignee, FALSE, Logged(q))
<1>1. /\ q.pc = "update" /\ t \in Live /\ tasks' = [tasks EXCEPT ![t] = row]
      /\ write' = [write EXCEPT ![w] = Settled(Publishing(<<j>>, UpdateNotes(q), q.here))]
  BY DEF CommitUpdate
<1>2. q \in UpdateT
  BY UpdateDb DEF TypeInv
<1>3. tasks \in [Live -> Row] /\ Live \subseteq Task /\ page \in Page /\ Me.id = me
  BY TableTyped DEF TypeInv, DbInv, PageInv, Live, Me, PrincipalOf
<1>4. row.project = tasks[t].project
  <2>1. tasks[t] \in Row
    BY <1>1, <1>3
  <2> QED  BY <1>2, <2>1, UpdatedProject DEF TypeInv, DbInv
<1>5. /\ j.task = t /\ j.row = row /\ j.gone = FALSE /\ j.at = stamp + 1
      /\ j.prev = q.seen.assignee /\ (Logged(q) => j.stage = "activity")
  BY DEF Job
<1>6. Jobs(write') = Jobs(write) \cup {j}
  <2> HIDE DEF j
  <2> QED  BY <1>1, JobsAdded, RangeOne DEF TypeInv, WriteInv
<1>7. /\ page.kind # "task" => Logged(q)
      /\ Loses(q) => page.kind # "dashboard" /\ q.seen.assignee = me
  BY <1>1 DEF Untold
<1>8. Live' = Live /\ tasks'[t] = row /\ \A x \in Live \ {t} : tasks'[x] = tasks[x]
  <2> HIDE DEF row
  <2> QED  BY <1>1, <1>3 DEF Live
<1>9. Loses(q) <=> Sees(Me, tasks[t]) /\ ~Sees(Me, row)
  BY <1>8 DEF Loses
<1> HIDE DEF j, row, q
<1>10. \A x \in Task \ {t} : Still(x)
  BY <1>8 DEF Still, View, Live
<1>11. ASSUME \/ \E k \in Jobs(write') : LeadsTo(Me, page, k)
              \/ Still(t) \/ Leaves(t)
       PROVE  AllTold
  BY <1>1, <1>5, <1>6, <1>8, <1>10, <1>11 DEF AllTold
<1>12. CASE ~Concerns(page, t, row.project)
  <2>1. Still(t)
    BY <1>4, <1>8, <1>12 DEF Still, View, Live
  <2> QED  BY <1>11, <2>1
<1>13. CASE Concerns(page, t, row.project) /\ Sees(Me, row)
  <2>1. LeadsTo(Me, page, j)
    BY <1>3, <1>5, <1>7, <1>13, ConcernLeads
  <2> QED  BY <1>6, <1>11, <2>1
<1>14. CASE ~Sees(Me, row) /\ ~Sees(Me, tasks[t])
  <2>1. Still(t)
    BY <1>8, <1>14 DEF Still, View, Live
  <2> QED  BY <1>11, <2>1
<1>15. CASE Concerns(page, t, row.project) /\ ~Sees(Me, row) /\ Sees(Me, tasks[t])
  <2>1. page.kind # "dashboard" /\ Lost(Me, j)
    <3>1. row.assignee # me
      BY <1>3, <1>4, <1>15, OnceSeen
    <3> QED  BY <1>3, <1>5, <1>7, <1>9, <1>15, <3>1 DEF Lost
  <2>2. CASE page.kind = "task"
    <3>1. LeadsTo(Me, page, j)
      BY <1>5, <1>15, <2>1, <2>2 DEF LeadsTo, Concerns
    <3> QED  BY <1>6, <1>11, <3>1
  <2>3. CASE page.kind \in Lists
    <3>1. View(Me, page, t, tasks)
      BY <1>1, <1>4, <1>15 DEF View, Live
    <3>2. j \in Jobs(write') /\ GoneFor(Me, j)
      BY <1>6, <2>1 DEF GoneFor
    <3>3. Leaves(t)
      BY <1>1, <1>5, <1>8, <1>15, <2>3, <3>1, <3>2 DEF Leaves
    <3> QED  BY <1>11, <3>3
  <2>4. page.kind \in {"tasks", "project", "task", "dashboard", "tray"}
    BY <1>3 DEF Page
  <2> QED  BY <2>1, <2>2, <2>3, <2>4 DEF Lists
<1> QED  BY <1>12, <1>13, <1>14, <1>15

LEMMA DeleteMoves ==
    ASSUME TypeInv, WriteAge, page.kind # "tray", NEW w \in Writer, CommitDelete(w), ~Untold(write[w])
    PROVE  AllTold
<1> DEFINE q == write[w]
           t == q.task
           j == Job(t, q.seen, q.actor, NoOne, TRUE, TRUE)
           kept == Live \ {t}
<1>1. /\ q.pc = "delete" /\ t \in Live /\ tasks' = Restrict(tasks, kept)
      /\ write' = [write EXCEPT ![w] = Settled(Publishing(<<j>>, {}, q.here))]
  BY DEF CommitDelete
<1>2. q.seen.project = tasks[t].project
  BY <1>1 DEF WriteAge, Aged, Copy, Live
<1>3. j.task = t /\ j.row = q.seen /\ j.gone = TRUE /\ j.at = stamp + 1 /\ j.stage = "activity"
  BY DEF Job
<1>4. Jobs(write') = Jobs(write) \cup {j}
  <2> HIDE DEF j
  <2> QED  BY <1>1, JobsAdded, RangeOne DEF TypeInv, WriteInv
<1>5. Sees(Me, tasks[t]) => Sees(Me, q.seen)
  BY <1>1 DEF Untold
<1>6. Live' = kept /\ \A x \in kept : tasks'[x] = tasks[x]
  <2>1. kept \in SUBSET DOMAIN tasks /\ tasks \in TableT
    BY DEF Live, TypeInv, DbInv
  <2> HIDE DEF kept
  <2> QED  BY <1>1, <2>1, RestrictTyped DEF Live
<1> HIDE DEF j, q
<1>7. \A x \in Task \ {t} : Still(x)
  BY <1>6 DEF Still, View, Live
<1>8. CASE View(Me, page, t, tasks)
  <2>1. LeadsTo(Me, page, j)
    BY <1>2, <1>3, <1>5, <1>8, ConcernLeads DEF View, TypeInv, PageInv
  <2> QED  BY <1>3, <1>4, <2>1 DEF AllTold
<1>9. CASE ~View(Me, page, t, tasks)
  <2>1. Still(t)
    BY <1>6, <1>9 DEF Still, View, Live
  <2> QED  BY <1>3, <1>4, <1>7, <2>1 DEF AllTold
<1> QED  BY <1>8, <1>9

\* Every task of the claim has its job.
LEMMA SweepMoves ==
    ASSUME TypeInv, page.kind # "tray", NEW w \in Writer, SweepClaim(w)
    PROVE  AllTold
<1> DEFINE due == {t \in Live : Due(tasks[t])}
           n == Cardinality(due)
           Claimed(t) == [tasks[t] EXCEPT !.overdue = TRUE, !.at = stamp + 1]
<1>1. /\ due \in SUBSET Task /\ IsFiniteSet(due) /\ n \in Nat
      /\ Live' = Live /\ tasks' \in TableT /\ write[w] = Idle
  BY SweepShape DEF TypeInv
<1>2. \A t \in Live : tasks'[t] = IF t \in due THEN Claimed(t) ELSE tasks[t]
  BY SweepShape DEF TypeInv
<1>3. PICK order \in [1 .. n -> due] :
         /\ IsInjective(order)
         /\ write' = [write EXCEPT ![w] =
               Settled(Publishing(SweepJobs(due, order), SweepNotes(due), FALSE))]
  BY DEF SweepClaim, SweepNotes, SweepJobs
<1>4. due \subseteq Live
  OBVIOUS
<1> HIDE DEF due
<1>5. n \in Nat
  BY <1>1
<1> HIDE DEF n
<1>6. \A t \in due : \E i \in 1 .. n : order[i] = t
  <2>1. order \in Injection(1 .. n, due)
    BY <1>3 DEF Injection
  <2>2. Cardinality(1 .. n) = n
    BY <1>5, FS_Interval
  <2>3. order \in Surjection(1 .. n, due)
    BY <1>1, <2>1, <2>2, FS_Injection DEF n
  <2> QED  BY <2>3 DEF Surjection
<1> DEFINE jobs == SweepJobs(due, order)
           J(t) == Job(t, tasks'[t], NoOne, NoOne, FALSE, TRUE)
<1>7. DOMAIN jobs = 1 .. n /\ \A i \in 1 .. n : order[i] \in due /\ jobs[i] = J(order[i])
  <2>1. jobs = [i \in 1 .. n |-> J(order[i])]
    BY DEF SweepJobs, n
  <2> HIDE DEF jobs, J
  <2> QED  BY <2>1
<1> HIDE DEF jobs
<1>8. Range(jobs) = {J(t) : t \in due}
  <2>1. ASSUME NEW j \in Range(jobs)  PROVE j \in {J(t) : t \in due}
    <3> HIDE DEF J
    <3>1. DOMAIN jobs = 1 .. n
      BY <1>7
    <3>2. PICK i \in 1 .. n : j = jobs[i]
      BY <2>1, <3>1 DEF Range
    <3>3. j = J(order[i]) /\ order[i] \in due
      BY <1>7, <3>2
    <3> QED  BY <3>3
  <2>2. ASSUME NEW t \in due  PROVE J(t) \in Range(jobs)
    <3> HIDE DEF J, Claimed
    <3>1. PICK i \in 1 .. n : order[i] = t
      BY <1>6, <2>2
    <3>2. i \in DOMAIN jobs /\ jobs[i] = J(t)
      BY <1>7, <3>1
    <3> QED  BY <3>2 DEF Range
  <2> QED  BY <2>1, <2>2
<1>9. \A t : J(t).task = t /\ J(t).row = tasks'[t] /\ J(t).at = stamp + 1 /\ J(t).stage = "activity"
  BY DEF Job
<1> HIDE DEF J
<1>10. Jobs(write') = Jobs(write) \cup {J(t) : t \in due}
  <2>1. write[w].pc # "publish"
    BY <1>1 DEF Idle
  <2> QED  BY <1>3, <1>8, <2>1, JobsAdded DEF jobs, TypeInv, WriteInv
<1>11. \A t \in due : /\ tasks'[t].project = tasks[t].project
                     /\ tasks'[t].assignee = tasks[t].assignee
  <2>1. ASSUME NEW t \in due  PROVE tasks[t] \in Row /\ tasks'[t] = Claimed(t)
    BY <1>4, <1>2, <2>1, TableTyped DEF TypeInv, DbInv, Live
  <2> QED  BY <2>1 DEF Row
<1>12. \A t \in Live \ due : tasks'[t] = tasks[t]
  BY <1>2
<1> HIDE DEF Claimed
<1>13. \A j \in Jobs(write') \ Jobs(write) :
          j.at = stamp + 1 /\ j.task \in Live' /\ j.row = tasks'[j.task]
  BY <1>4, <1>1, <1>9, <1>10
<1>14. \A t : View(Me, page, t, tasks') <=> View(Me, page, t, tasks)
  <2>1. \A t \in Live : Sees(Me, tasks'[t]) <=> Sees(Me, tasks[t])
    BY <1>11, <1>12 DEF Sees
  <2>2. \A t \in Live : tasks'[t].project = tasks[t].project
    BY <1>11, <1>12
  <2> QED  BY <1>1, <2>1, <2>2 DEF View, Live
<1>15. CASE \E t \in due : View(Me, page, t, tasks')
  <2>1. PICK t \in due : View(Me, page, t, tasks')
    BY <1>15
  <2>2. LeadsTo(Me, page, J(t))
    BY <1>9, <2>1, ConcernLeads DEF View, TypeInv, PageInv
  <2>3. J(t) \in Jobs(write')
    BY <1>10
  <2> QED  BY <1>10, <1>13, <2>2, <2>3 DEF AllTold
<1>16. CASE \A t \in due : ~View(Me, page, t, tasks')
  <2>1. \A t : Still(t)
    BY <1>12, <1>14, <1>16 DEF Still, View, Live
  <2> QED  BY <1>10, <1>13, <2>1 DEF AllTold
<1> QED  BY <1>15, <1>16

\* Whatever the commit is that the page is told of.
LEMMA CommitTold ==
    ASSUME TypeInv, WriteAge, page.kind # "tray", NEW w \in Writer, Commit(w)
    PROVE  Overlook(TRUE) \/ (Overlook(FALSE) /\ AllTold)
<1>1. CASE Create(w) \/ SweepClaim(w)
  <2>1. Overlook(FALSE) \/ ((CommitUpdate(w) \/ CommitDelete(w)) /\ Overlook(Untold(write[w])))
    BY DEF Commit
  <2>2. write[w] = Idle
    BY <1>1, SweepShape DEF Create, TypeInv
  <2>3. ~CommitUpdate(w) /\ ~CommitDelete(w)
    BY <2>2 DEF Idle, CommitUpdate, CommitDelete
  <2> QED  BY <1>1, <2>1, <2>3, CreateMoves, SweepMoves
<1>2. CASE (CommitUpdate(w) \/ CommitDelete(w)) /\ Overlook(Untold(write[w]))
  <2>1. CASE Untold(write[w])
    BY <1>2, <2>1 DEF Overlook
  <2>2. CASE ~Untold(write[w])
    <3>1. Overlook(FALSE)
      BY <1>2, <2>2 DEF Overlook
    <3> QED  BY <1>2, <2>2, <3>1, UpdateMoves, DeleteMoves
  <2> QED  BY <2>1, <2>2
<1> QED  BY <1>1, <1>2 DEF Commit

\* The numbers of a dashboard depend on the tasks its user sees alone.
LEMMA SameScope ==
    ASSUME NEW p, NEW f \in TableT, NEW g \in TableT, Scoped(p, f) = Scoped(p, g),
           \A t \in Scoped(p, f) : f[t] = g[t]
    PROVE  Tiles(p, f) = Tiles(p, g) /\ Cards(p, f) = Cards(p, g) /\ DueThisWeek(p, f) = DueThisWeek(p, g)
<1> DEFINE S == Scoped(p, f)
<1>1. S = Scoped(p, g) /\ \A t \in S : f[t] = g[t]
  OBVIOUS
<1>2. S \subseteq DOMAIN f /\ S \subseteq DOMAIN g
  BY <1>1 DEF Scoped
<1>3. \A t : t \in S <=> t \in DOMAIN f /\ Sees(p, f[t])
  BY DEF Scoped
<1>4. \A t : t \in S <=> t \in DOMAIN g /\ Sees(p, g[t])
  BY <1>1 DEF Scoped
<1>5. Scoped(p, f) = S /\ Scoped(p, g) = S
  BY <1>1
<1> HIDE DEF S
<1>6. ASSUME NEW T \in SUBSET S
      PROVE  /\ Late(f, T) = Late(g, T) /\ Open(f, T) = Open(g, T) /\ DueSoon(f, T) = DueSoon(g, T)
             /\ Late(f, T) \subseteq S /\ Open(f, T) \subseteq S /\ DueSoon(f, T) \subseteq S
             /\ Restrict(f, T) = Restrict(g, T)
  <2>1. Late(f, T) = Late(g, T) /\ Late(f, T) \subseteq S
    BY <1>1, <1>6 DEF Late
  <2>2. Open(f, T) = Open(g, T) /\ Open(f, T) \subseteq S
    BY <1>1, <1>6 DEF Open
  <2>3. DueSoon(f, T) = DueSoon(g, T) /\ DueSoon(f, T) \subseteq S
    <3>1. \A t \in Open(f, T) : f[t] = g[t]
      BY <1>1, <2>2
    <3> QED  BY <2>2, <3>1 DEF DueSoon
  <2>4. Restrict(f, T) = Restrict(g, T)
    BY <1>1, <1>6 DEF Restrict
  <2> QED  BY <2>1, <2>2, <2>3, <2>4
<1>7. ByStatus(f, S) = ByStatus(g, S)
  <2>1. \A s \in Status : {t \in S : f[t].status = s} = {t \in S : g[t].status = s}
    BY <1>1
  <2> QED  BY <2>1 DEF ByStatus
<1>8. Tiles(p, f) = Tiles(p, g)
  <2>1. Late(f, S) = Late(g, S)
    BY <1>6
  <2> QED  BY <1>5, <1>7, <2>1 DEF Tiles
<1>9. DueThisWeek(p, f) = DueThisWeek(p, g)
  <2>1. DueSoon(f, S) = DueSoon(g, S) /\ DueSoon(f, S) \in SUBSET S
    BY <1>6
  <2>2. Restrict(f, DueSoon(f, S)) = Restrict(g, DueSoon(g, S))
    BY <1>6, <2>1
  <2> QED  BY <1>5, <2>1, <2>2 DEF DueThisWeek
<1>10. Cards(p, f) = Cards(p, g)
  <2> DEFINE In(h, x) == {t \in DOMAIN h : h[t].project = x}
             Card(h, x) == [open |-> Cardinality(Open(h, In(h, x))),
                            overdue |-> Cardinality(Late(h, In(h, x)))]
             Shown(h) == IF IsAdmin(p) THEN Late(h, DOMAIN h) ELSE Open(h, Scoped(p, h))
  <2>1. CASE IsManager(p)
    <3>1. ASSUME NEW x \in {y \in Project : Manager[y] = p.id}  PROVE Card(f, x) = Card(g, x)
      <4>1. \A t \in DOMAIN f : f[t].project = x => t \in S
        BY <1>3, <2>1, <3>1 DEF Sees, TaskScope
      <4>2. \A t \in DOMAIN g : g[t].project = x => t \in S
        BY <1>4, <2>1, <3>1 DEF Sees, TaskScope
      <4>3. In(f, x) = In(g, x) /\ In(f, x) \in SUBSET S
        BY <1>1, <1>2, <4>1, <4>2
      <4> HIDE DEF In
      <4>4. Open(f, In(f, x)) = Open(g, In(g, x)) /\ Late(f, In(f, x)) = Late(g, In(g, x))
        BY <1>6, <4>3
      <4> QED  BY <4>4
    <3>2. /\ Cards(p, f) = [x \in {y \in Project : Manager[y] = p.id} |-> Card(f, x)]
          /\ Cards(p, g) = [x \in {y \in Project : Manager[y] = p.id} |-> Card(g, x)]
      BY <2>1 DEF Cards
    <3> HIDE DEF Card
    <3> QED  BY <3>1, <3>2
  <2>2. CASE ~IsManager(p)
    <3>1. Cards(p, f) = Restrict(f, Shown(f)) /\ Cards(p, g) = Restrict(g, Shown(g))
      BY <2>2 DEF Cards
    <3>2. Shown(f) = Shown(g) /\ Shown(f) \in SUBSET S
      <4>1. CASE IsAdmin(p)
        <5>1. \A r : Sees(p, r)
          BY <4>1 DEF Sees, TaskScope
        <5>2. DOMAIN f = S /\ DOMAIN g = S
          BY <1>3, <1>4, <5>1
        <5>3. Late(f, S) = Late(g, S) /\ Late(f, S) \in SUBSET S
          BY <1>6
        <5> QED  BY <4>1, <5>2, <5>3
      <4>2. CASE ~IsAdmin(p)
        <5>1. Open(f, S) = Open(g, S) /\ Open(f, S) \in SUBSET S
          BY <1>6
        <5> QED  BY <1>5, <4>2, <5>1
      <4> QED  BY <4>1, <4>2
    <3> HIDE DEF Shown
    <3> QED  BY <1>6, <3>1, <3>2
  <2> QED  BY <2>1, <2>2
<1> QED  BY <1>8, <1>9, <1>10

\* A row that was what its query would answer, or going, is so after the commit.
LEMMA SoundCommits ==
    ASSUME TypeInv, AgeInv, Grows, AllTold, page.kind \in Lists \cup {"task"},
           NEW t \in Task, Still(t) \/ Leaves(t), NEW f \in TableT, Copies(f, used, tasks),
           Sound(Me, page, tasks, Range(line), Jobs(write), f, t)
    PROVE  Sound(Me, page, tasks', Range(line), Jobs(write'), f, t)
<1> DEFINE ms == Range(line)
           js == Jobs(write)
           ks == Jobs(write')
<1>1. js \subseteq ks
  BY DEF AllTold
<1>2. ASSUME t \in Live' => ~Sees(Me, tasks'[t]), NEW n, SaysKept(Me, ms, ks, t, n)
      PROVE  SaysKept(Me, ms, js, t, n)
  <2>1. ASSUME NEW j \in ks \ js  PROVE ~(KeptFor(Me, j) /\ j.task = t)
    BY <1>2, <2>1 DEF AllTold, KeptFor
  <2> HIDE DEF ms, js, ks
  <2> QED  BY <1>2, <2>1 DEF SaysKept
<1>3. \A n : SaysGone(Me, ms, js, t, n) => SaysGone(Me, ms, ks, t, n)
  BY <1>1 DEF SaysGone
<1>4. t \in used /\ t \in Live' => t \in Live /\ tasks'[t].project = tasks[t].project
  BY DEF Grows
<1>5. t \in DOMAIN f => t \in used /\ f[t].at \in Nat
  <2>1. ASSUME t \in DOMAIN f  PROVE f[t] \in Row
    BY <2>1, TableTyped
  <2> QED  BY <2>1, RowShape DEF Copies, Copy
<1>6. CASE Agree(Me, page, tasks, f, t) /\ Still(t)
  <2>1. Agree(Me, page, tasks', f, t)
    BY <1>6, AgreeStill DEF TypeInv, PageInv
  <2> QED  BY <2>1 DEF Sound
<1>7. CASE Going(Me, page, tasks, ms, js, f, t) /\ Still(t)
  <2>1. t \in DOMAIN f /\ page.kind \in Lists
    BY <1>7 DEF Going
  <2>2. ASSUME t \in Live'  PROVE ~Sees(Me, tasks'[t]) /\ Concerns(page, t, tasks'[t].project)
    <3>1. t \in Live /\ tasks'[t].project = tasks[t].project
      BY <1>4, <1>5, <2>1, <2>2
    <3>2. ~Sees(Me, tasks[t]) /\ Concerns(page, t, tasks[t].project)
      BY <1>7, <3>1 DEF Going, Live
    <3> QED  BY <1>7, <2>2, <3>1, <3>2 DEF Still, View, Live
  <2>3. \E n \in Nat : f[t].at < n /\ SaysGone(Me, ms, ks, t, n)
    BY <1>3, <1>7 DEF Going
  <2>4. \A n \in Nat : SaysKept(Me, ms, ks, t, n) => n <= f[t].at
    BY <1>2, <1>7, <2>2 DEF Going
  <2> QED  BY <2>1, <2>2, <2>3, <2>4 DEF Sound, Going, Live
<1>8. CASE Leaves(t)
  <2>1. /\ page.kind \in Lists /\ t \in Live /\ Sees(Me, tasks[t]) /\ t \in Live' /\ ~Sees(Me, tasks'[t])
        /\ Concerns(page, t, tasks[t].project)
    BY <1>8 DEF Leaves, View, Live
  <2>2. Agree(Me, page, tasks, f, t)
    BY <2>1 DEF Sound, Going, Live
  <2>3. CASE t \notin DOMAIN f
    BY <2>1, <2>3 DEF Sound, Agree, Fits
  <2>4. CASE t \in DOMAIN f
    <3>1. f[t] = tasks[t] /\ f[t].at \in Nat /\ f[t].at <= stamp /\ stamp \in Nat
      BY <1>5, <2>1, <2>2, <2>4 DEF Agree, AgeInv, DbAge, TypeInv, DbInv
    <3>2. tasks'[t].project = tasks[t].project
      BY <1>4, <2>1 DEF TypeInv, DbInv
    <3>3. stamp + 1 \in Nat /\ f[t].at < stamp + 1
      BY <3>1
    <3>4. SaysGone(Me, ms, ks, t, stamp + 1)
      BY <1>8 DEF Leaves, SaysGone
    <3>5. ASSUME NEW n \in Nat, SaysKept(Me, ms, ks, t, n)  PROVE n <= f[t].at
      <4>1. SaysKept(Me, ms, js, t, n)
        BY <1>2, <2>1, <3>5
      <4>2. /\ \A j \in js : Truthful(j, used, tasks)
            /\ \A m \in ms : m.kind = "changed" => Truthful(m, used, tasks)
        BY OwedIsTrue
      <4> HIDE DEF ms, js
      <4> QED  BY <2>1, <3>1, <4>1, <4>2 DEF SaysKept, Truthful, Live
    <3> QED  BY <2>1, <2>4, <3>2, <3>3, <3>4, <3>5 DEF Sound, Going, Live
  <2> QED  BY <2>3, <2>4
<1> QED  BY <1>6, <1>7, <1>8 DEF Sound

\* The rows a request or the screen holds.
LEMMA RowsHeld ==
    ASSUME TypeInv, AgeInv, page.kind # "dashboard"
    PROVE  /\ \A r \in asked : r.latest /\ r.pc # "sent" =>
                 r.answer.rows \in TableT /\ Copies(r.answer.rows, used, tasks)
           /\ HasRows => shown.rows \in TableT /\ Copies(shown.rows, used, tasks)
<1>1. ASSUME NEW r \in asked, r.latest, r.pc # "sent"
      PROVE  r.answer.rows \in TableT /\ Copies(r.answer.rows, used, tasks)
  <2>1. r.page = page /\ r.pc = "answered"
    BY <1>1, RequestShape DEF TypeInv, RequestInv
  <2>2. r.answer.kind = "rows" /\ r.answer \in RowsT
    BY <1>1, <2>1, RequestShape DEF TypeInv, RequestInv, RowsT, DashboardT
  <2>3. r.answer.rows \in TableT
    BY <2>2 DEF RowsT
  <2> QED  BY <1>1, <2>1, <2>2, <2>3 DEF AgeInv, AskedAge, OfPage
<1>2. ASSUME HasRows  PROVE shown.rows \in TableT /\ Copies(shown.rows, used, tasks)
  <2>1. shown \in RowsT
    BY <1>2 DEF HasRows, TypeInv, PageInv, Nothing, DashboardT
  <2>2. shown.rows \in TableT
    BY <2>1 DEF RowsT
  <2> QED  BY <1>2, <2>2 DEF AgeInv, ShownAge, OfPage
<1> QED  BY <1>1, <1>2

LEMMA CommitBoard ==
    ASSUME TypeInv, TypeInv', AgeInv, Grows, BoardInv, NEW w \in Writer, Commit(w)
    PROVE  BoardInv'
<1>1. UNCHANGED <<wire, me, page, shown, failed, timer, news, crossed>>
  BY CommitFrame
<1>2. Me' = Me
  BY <1>1 DEF Me, PrincipalOf
<1>3. CASE page.kind = "tray"
  BY <1>1, <1>3 DEF BoardInv
<1>4. CASE Overlook(TRUE)
  BY <1>4, MissedExcuses DEF BoardInv
<1>5. CASE page.kind # "tray" /\ Overlook(FALSE) /\ AllTold
  <2>1. UNCHANGED <<asked, missed>>
    BY <1>5 DEF Overlook, TypeInv, PageInv
  <2>2. CASE Excused
    BY <1>1, <2>1, <2>2 DEF BoardInv, Excused, Pending
  <2>3. CASE ~Excused
    <3>1. up /\ up' /\ (Stirred(Me, page, timer, Range(line), Jobs(write)) \/ UpToDate)
      BY <1>1, <1>5, <2>3 DEF BoardInv, wire
    <3>2. ASSUME Stirred(Me, page, timer, Range(line), Jobs(write'))  PROVE BoardInv'
      BY <1>1, <1>2, <3>1, <3>2 DEF BoardInv, wire
    <3>3. CASE Stirred(Me, page, timer, Range(line), Jobs(write))
      <4>1. Stirred(Me, page, timer, Range(line), Jobs(write'))
        BY <1>5, <3>3, OwedMore DEF AllTold
      <4> QED  BY <3>2, <4>1
    <3>4. CASE \E j \in Jobs(write') : LeadsTo(Me, page, j)
      <4>1. Stirred(Me, page, timer, Range(line), Jobs(write'))
        BY <3>4 DEF Stirred
      <4> QED  BY <3>2, <4>1
    <3>5. ASSUME UpToDate, \A t \in Task : Still(t) \/ Leaves(t)  PROVE BoardInv'
      <4>1. CASE page.kind = "dashboard"
        <5>1. \A t \in Task : Still(t)
          BY <3>5, <4>1 DEF Leaves, Lists
        <5>2. \A t \in Task : /\ t \in DOMAIN tasks' /\ Sees(Me, tasks'[t])
                                   <=> t \in DOMAIN tasks /\ Sees(Me, tasks[t])
                              /\ t \in DOMAIN tasks /\ Sees(Me, tasks[t]) => tasks'[t] = tasks[t]
          BY <4>1, <5>1 DEF Still, View, Concerns
        <5>3. tasks \in TableT /\ tasks' \in TableT /\ DOMAIN tasks \subseteq Task /\ DOMAIN tasks' \subseteq Task
          BY TableTyped DEF TypeInv, DbInv
        <5>4. Scoped(Me, tasks') = Scoped(Me, tasks) /\ \A t \in Scoped(Me, tasks) : tasks'[t] = tasks[t]
          BY <5>2, <5>3 DEF Scoped
        <5>5. /\ Tiles(Me, tasks') = Tiles(Me, tasks) /\ Cards(Me, tasks') = Cards(Me, tasks)
              /\ DueThisWeek(Me, tasks') = DueThisWeek(Me, tasks)
          BY <5>3, <5>4, SameScope
        <5>6. Answer(page)' = Answer(page)
          BY <1>1, <1>2, <4>1, <5>5 DEF Answer
        <5>7. NumbersRight
          BY <3>5, <4>1 DEF UpToDate
        <5>8. NumbersRight'
          BY <1>1, <1>2, <2>1, <5>5, <5>6, <5>7 DEF NumbersRight, Pending
        <5> QED  BY <1>1, <3>1, <4>1, <5>8 DEF BoardInv, UpToDate
      <4>2. CASE page.kind # "dashboard"
        <5>1. page.kind \in Lists \cup {"task"}
          BY <1>5, <4>2 DEF TypeInv, PageInv, Page, Lists
        <5>2. RowsRight
          BY <3>5, <4>2 DEF UpToDate
        <5>3. ASSUME NEW f \in TableT, Copies(f, used, tasks), NEW t \in Task,
                     Sound(Me, page, tasks, Range(line), Jobs(write), f, t)
              PROVE  Sound(Me', page', tasks', Range(line'), Jobs(write'), f, t)
          BY <1>1, <1>2, <1>5, <3>5, <5>1, <5>3, SoundCommits DEF wire
        <5>4. RowsRight'
          BY <1>1, <2>1, <4>2, <5>2, <5>3, RowsHeld DEF RowsRight, Pending, HasRows
        <5> QED  BY <1>1, <3>1, <4>2, <5>4 DEF BoardInv, UpToDate
      <4> QED  BY <4>1, <4>2
    <3> QED  BY <1>5, <3>1, <3>3, <3>4, <3>5 DEF AllTold
  <2> QED  BY <2>2, <2>3
<1> QED  BY <1>3, <1>4, <1>5, CommitTold DEF AgeInv

-----------------------------------------------------------------------------
(* Every step *)

LEMMA BoardStep ==
    ASSUME TypeInv, TypeInv', AgeInv, BoardInv, Next
    PROVE  BoardInv'
<1>1. Grows
  BY TableGrows DEF AgeInv
<1>2. ASSUME NEW w \in Writer, Begin(w) \/ (Drop(w) /\ UNCHANGED wire /\ Unseen)
      PROVE  BoardInv'
  <2>1. UNCHANGED <<tasks, wire, me, pageVars>>
    BY <1>2, BeginFrame, DropFrame DEF database
  <2>2. Jobs(write') = Jobs(write)
    BY <1>2, BeginJobs
  <2> QED  BY <2>1, <2>2, QuietBoard, OwedSame DEF wire, pageVars
<1>3. ASSUME NEW w \in Writer, Publish(w)  PROVE BoardInv'
  <2>1. UNCHANGED <<tasks, up, me, pageVars>>
    BY <1>3, PublishFrame DEF database
  <2>2. up /\ page.kind # "tray" =>
           Owes(timer, Range(line), Jobs(write), timer, Range(line'), Jobs(write'))
    BY <1>3, PublishOwes
  <2> QED  BY <2>1, <2>2, QuietBoard DEF pageVars
<1>4. ASSUME SilentSweep \/ Disconnect  PROVE BoardInv'
  <2>1. Overlook(TRUE)
    BY <1>4 DEF SilentSweep, Disconnect
  <2> QED  BY <2>1, MissedExcuses DEF BoardInv
<1>5. ASSUME Reconnect  PROVE BoardInv'
  <2>1. ~up /\ UNCHANGED pageVars
    BY <1>5 DEF Reconnect
  <2> QED  BY <2>1 DEF BoardInv, Excused, Pending, pageVars
<1>6. ASSUME Notice  PROVE BoardInv'
  <2>1. page.kind = "tray" /\ page' = page
    BY <1>6, QuietNotice, NoticeFrame DEF pageVars
  <2> QED  BY <2>1 DEF BoardInv
<1> QED  BY <1>1, <1>2, <1>3, <1>4, <1>5, <1>6, CommitBoard, BrowseBoard DEF Next

LEMMA BoardInit ==
    ASSUME Init
    PROVE  BoardInv
<1>1. TypeInv
  BY InitTyped
<1>2. PICK tab \in Tab :
         /\ up = tab.loaded
         /\ shown = IF tab.loaded /\ page.kind # "tray" THEN Answer(page) ELSE Nothing
         /\ asked = IF tab.loaded \/ page.kind = "tray" THEN {} ELSE {Request(page)}
  BY DEF Init, PagesInit
<1> SUFFICES ASSUME page.kind # "tray"  PROVE BoardInv
  BY DEF BoardInv
<1>3. CASE ~tab.loaded
  <2>1. asked = {Request(page)} /\ Request(page).latest /\ Request(page).pc = "sent"
    BY <1>2, <1>3 DEF Request
  <2>2. Excused
    <3> HIDE DEF Request
    <3> QED  BY <2>1 DEF Excused, Pending
  <2> QED  BY <2>2 DEF BoardInv
<1>4. CASE tab.loaded
  <2>1. up /\ shown = Answer(page) /\ asked = {}
    BY <1>2, <1>4
  <2>2. CASE page.kind = "dashboard"
    BY <2>1, <2>2 DEF BoardInv, UpToDate, NumbersRight
  <2>3. CASE page.kind # "dashboard"
    <3>1. page.kind \in Lists \cup {"task"}
      BY <1>1, <2>3 DEF TypeInv, PageInv, Page, Lists
    <3>2. shown = Reading(page) /\ HasRows
      <4>1. shown = Reading(page)
        BY <2>1, <2>3 DEF Answer
      <4> QED  BY <4>1 DEF Reading, Rows, HasRows
    <3>3. \A t : Agree(Me, page, tasks, shown.rows, t)
      BY <1>1, <3>1, <3>2, ReadingAgrees
    <3> QED  BY <2>1, <2>3, <3>2, <3>3 DEF BoardInv, UpToDate, RowsRight, Sound
  <2> QED  BY <2>2, <2>3
<1> QED  BY <1>3, <1>4

LEMMA BoardStutter ==
    ASSUME BoardInv, UNCHANGED vars
    PROVE  BoardInv'
<1>1. UNCHANGED <<tasks, write, me, page, up, line, shown, failed, asked, timer, news, crossed, missed>>
  BY DEF vars, server, database, wire, pageVars
<1> QED  BY <1>1, QuietBoard, OwedSame

\* A connected page that reads and misses nothing is owed a reason to ask again,
\* or shows what its queries would answer, but for rows a message will take away.
THEOREM BoardRight == Spec => []BoardInv
<1>1. Init => BoardInv
  BY BoardInit
<1>2. TypeInv /\ TypeInv' /\ AgeInv /\ BoardInv /\ [Next]_vars => BoardInv'
  BY BoardStep, BoardStutter
<1> QED  BY <1>1, <1>2, Typed, Copied, PTL DEF Spec

-----------------------------------------------------------------------------
(* At rest *)

LEMMA RestIsRight ==
    ASSUME BoardInv, AtRest, page.kind # "tray", Screen # "error", ~missed
    PROVE  /\ UpToDate /\ ~Pending /\ ~failed
           /\ \A f, t : Sound(Me, page, tasks, Range(line), Jobs(write), f, t) => Agree(Me, page, tasks, f, t)
<1>1. ~Pending /\ ~failed
  BY DEF AtRest, Pending, Screen
<1>2. Range(line) = {}
  BY DEF AtRest, Range
<1>3. Jobs(write) = {}
  BY DEF AtRest, Jobs, JobsOf
<1>4. ~Stirred(Me, page, timer, Range(line), Jobs(write))
  BY <1>2, <1>3 DEF Stirred, AtRest
<1>5. UpToDate
  BY <1>1, <1>4 DEF BoardInv, Excused
<1>6. ASSUME NEW f, NEW t, Going(Me, page, tasks, Range(line), Jobs(write), f, t)  PROVE FALSE
  BY <1>2, <1>3, <1>6 DEF Going, SaysGone
<1> QED  BY <1>1, <1>5, <1>6 DEF Sound

LEMMA EmptyTable ==
    ASSUME NEW f \in TableT
    PROVE  f = << >> <=> DOMAIN f = {}
<1>1. << >> \in [{} -> Row]
  OBVIOUS
<1>2. f \in [DOMAIN f -> Row]
  BY TableTyped
<1> QED  BY <1>1, <1>2

LEMMA RestSettles ==
    ASSUME TypeInv, BoardInv
    PROVE  BoardSettles
<1> DEFINE now == Reading(page).rows
<1> SUFFICES ASSUME AtRest, page.kind \in Lists \cup {"task"}, Screen # "error", ~missed
             PROVE  /\ HasRows
                    /\ crossed = {} => (Screen = "empty" <=> now = << >>)
                    /\ \A t \in Task \ crossed :
                          /\ t \in DOMAIN shown.rows <=> t \in DOMAIN now
                          /\ t \in DOMAIN now => shown.rows[t] = now[t]
  BY DEF BoardSettles
<1>1. page.kind # "tray" /\ page.kind # "dashboard"
  BY DEF Lists
<1>2. /\ RowsRight /\ ~Pending /\ ~failed
      /\ \A f, t : Sound(Me, page, tasks, Range(line), Jobs(write), f, t) => Agree(Me, page, tasks, f, t)
  BY <1>1, RestIsRight DEF UpToDate
<1>3. HasRows /\ \A t \in Task \ crossed : Agree(Me, page, tasks, shown.rows, t)
  BY <1>2 DEF RowsRight
<1>4. \A t : Agree(Me, page, tasks, now, t)
  BY ReadingAgrees
<1>5. now \in TableT /\ shown.rows \in TableT
  <2>1. Reading(page) \in RowsT
    BY ReadingTyped DEF TypeInv, DbInv
  <2>2. shown \in RowsT
    BY <1>3 DEF HasRows, TypeInv, PageInv, Nothing, DashboardT
  <2> QED  BY <2>1, <2>2 DEF RowsT
<1> HIDE DEF now
<1>6. \A t \in Task \ crossed : /\ t \in DOMAIN shown.rows <=> t \in DOMAIN now
                                /\ t \in DOMAIN now => shown.rows[t] = now[t]
  BY <1>3, <1>4 DEF Agree
<1>7. Screen = "empty" <=> DOMAIN shown.rows = {}
  <2>1. shown # Nothing
    BY <1>3 DEF HasRows, Nothing
  <2> QED  BY <1>2, <1>3, <2>1 DEF Screen
<1>8. crossed = {} => DOMAIN shown.rows = DOMAIN now
  <2>1. DOMAIN shown.rows \subseteq Task /\ DOMAIN now \subseteq Task
    BY <1>5, TableTyped
  <2> QED  BY <1>6, <2>1
<1> QED  BY <1>3, <1>5, <1>6, <1>7, <1>8, EmptyTable

\* A list or a task on the screen is, once everything has been delivered, what
\* its query would answer, whatever was written, in whatever order it was read,
\* published and told.
THEOREM BoardIsRight == Spec => []BoardSettles
<1>1. TypeInv /\ BoardInv => BoardSettles
  BY RestSettles
<1> QED  BY <1>1, Typed, BoardRight, PTL

-----------------------------------------------------------------------------
(* The queries that would reproduce the numbers *)

LEMMA QueriesMatch ==
    ASSUME NEW row \in Row, NEW S, NEW p
    PROVE  /\ Matches(<< >>, row)
           /\ Matches([overdue |-> TRUE], row) <=> row.overdue
           /\ Matches([status |-> S], row) <=> row.status \in S
           /\ Matches([project |-> p, status |-> S], row) <=> row.project = p /\ row.status \in S
           /\ Matches([project |-> p, overdue |-> TRUE], row) <=> row.project = p /\ row.overdue
           /\ Matches([status |-> S, dueFrom |-> Today, dueTo |-> Today + 7], row)
                 <=> row.status \in S /\ ThisWeek(row.due)
<1>1. row.overdue \in BOOLEAN /\ row.due \in Int \cup {NoDue}
  BY RowShape
<1>2. Matches(<< >>, row)
  BY DEF Matches
<1>3. Matches([overdue |-> TRUE], row) <=> row.overdue
  BY <1>1 DEF Matches
<1>4. Matches([status |-> S], row) <=> row.status \in S
  BY DEF Matches
<1>5. Matches([project |-> p, status |-> S], row) <=> row.project = p /\ row.status \in S
  BY DEF Matches
<1>6. Matches([project |-> p, overdue |-> TRUE], row) <=> row.project = p /\ row.overdue
  BY <1>1 DEF Matches
<1>7. Matches([status |-> S, dueFrom |-> Today, dueTo |-> Today + 7], row)
         <=> row.status \in S /\ ThisWeek(row.due)
  <2>1. row.due # NoDue => row.due \in Int
    BY <1>1
  <2>2. ThisWeek(row.due) <=> row.due # NoDue /\ row.due >= Today /\ row.due <= Today + 7
    BY <2>1, TodayAssumption DEF ThisWeek
  <2> QED  BY <2>2 DEF Matches
<1> QED  BY <1>2, <1>3, <1>4, <1>5, <1>6, <1>7

LEMMA ListedAre ==
    ASSUME tasks \in TableT, NEW query, NEW S,
           \A t : t \in S <=> t \in DOMAIN tasks /\ Sees(Me, tasks[t]) /\ Matches(query, tasks[t])
    PROVE  ListTasks(Me, query, tasks) = Restrict(tasks, S) /\ Listed(query) = Cardinality(S)
<1>1. S = {t \in DOMAIN tasks : Sees(Me, tasks[t]) /\ Matches(query, tasks[t])}
  OBVIOUS
<1>2. ListTasks(Me, query, tasks) = Restrict(tasks, S)
  BY <1>1 DEF ListTasks
<1>3. DOMAIN Restrict(tasks, S) = S
  BY DEF Restrict
<1> QED  BY <1>2, <1>3 DEF Listed

LEMMA NumbersListed ==
    ASSUME tasks \in TableT, NEW open, NEW week, open = Status \ {"DONE"},
           week = [status |-> open, dueFrom |-> Today, dueTo |-> Today + 7]
    PROVE  /\ Tiles(Me, tasks).tasks = Listed(<< >>)
           /\ Tiles(Me, tasks).overdue = Listed([overdue |-> TRUE])
           /\ \A s \in Status : Tiles(Me, tasks).byStatus[s] = Listed([status |-> {s}])
           /\ IsManager(Me) =>
                 /\ DueThisWeek(Me, tasks) = ListTasks(Me, week, tasks)
                 /\ \A p \in DOMAIN Cards(Me, tasks) :
                       /\ Cards(Me, tasks)[p].open = Listed([project |-> p, status |-> open])
                       /\ Cards(Me, tasks)[p].overdue = Listed([project |-> p, overdue |-> TRUE])
           /\ IsDeveloper(Me) => /\ DueThisWeek(Me, tasks) = Listed(week)
                                 /\ Cards(Me, tasks) = ListTasks(Me, [status |-> open], tasks)
           /\ IsAdmin(Me) => Cards(Me, tasks) = ListTasks(Me, [overdue |-> TRUE], tasks)
<1> DEFINE mine == Scoped(Me, tasks)
           late == Late(tasks, mine)
           due == DueSoon(tasks, mine)
           pending == Open(tasks, mine)
           Held(s) == {t \in mine : tasks[t].status = s}
           In(p) == {t \in DOMAIN tasks : tasks[t].project = p}
<1>1. \A t \in DOMAIN tasks : tasks[t] \in Row /\ tasks[t].status \in Status
  BY TableTyped, RowShape
<1>2. \A t : t \in mine <=> t \in DOMAIN tasks /\ Sees(Me, tasks[t])
  BY DEF Scoped
<1>3. \A t \in DOMAIN tasks :
         /\ Matches(<< >>, tasks[t])
         /\ Matches([overdue |-> TRUE], tasks[t]) <=> tasks[t].overdue
         /\ Matches([status |-> open], tasks[t]) <=> tasks[t].status # "DONE"
         /\ Matches(week, tasks[t]) <=> tasks[t].status # "DONE" /\ ThisWeek(tasks[t].due)
  <2> TAKE t \in DOMAIN tasks
  <2> DEFINE row == tasks[t]
  <2>1. row \in Row /\ row.status \in Status
    BY <1>1
  <2> HIDE DEF row
  <2>2. /\ Matches(<< >>, row) /\ (Matches([overdue |-> TRUE], row) <=> row.overdue)
        /\ Matches([status |-> open], row) <=> row.status \in open
        /\ Matches([status |-> open, dueFrom |-> Today, dueTo |-> Today + 7], row)
              <=> row.status \in open /\ ThisWeek(row.due)
    BY <2>1, QueriesMatch
  <2>3. row.status \in open <=> row.status # "DONE"
    BY <2>1
  <2> QED  BY <2>2, <2>3 DEF row
<1>4. \A t \in DOMAIN tasks : \A s : Matches([status |-> {s}], tasks[t]) <=> tasks[t].status = s
  <2> TAKE t \in DOMAIN tasks
  <2> TAKE s
  <2> DEFINE one == {s}
  <2>1. tasks[t].status \in one <=> tasks[t].status = s
    OBVIOUS
  <2> HIDE DEF one
  <2>2. Matches([status |-> one], tasks[t]) <=> tasks[t].status \in one
    BY <1>1, QueriesMatch
  <2> QED  BY <2>1, <2>2 DEF one
<1>5. \A t \in DOMAIN tasks : \A p :
         /\ Matches([project |-> p, status |-> open], tasks[t])
               <=> tasks[t].project = p /\ tasks[t].status # "DONE"
         /\ Matches([project |-> p, overdue |-> TRUE], tasks[t])
               <=> tasks[t].project = p /\ tasks[t].overdue
  BY <1>1, QueriesMatch
<1>6. /\ \A t : t \in late <=> t \in mine /\ tasks[t].overdue
      /\ \A t : t \in pending <=> t \in mine /\ tasks[t].status # "DONE"
      /\ \A t : t \in due <=> t \in mine /\ tasks[t].status # "DONE" /\ ThisWeek(tasks[t].due)
  BY DEF Late, DueSoon, Open
<1> HIDE DEF mine, late, due, pending
<1>7. Listed(<< >>) = Cardinality(mine)
  <2> DEFINE all == << >>
  <2>1. \A t : t \in mine <=> t \in DOMAIN tasks /\ Sees(Me, tasks[t]) /\ Matches(all, tasks[t])
    BY <1>2, <1>3
  <2> HIDE DEF all
  <2>2. Listed(all) = Cardinality(mine)
    BY <2>1, ListedAre
  <2> QED  BY <2>2 DEF all
<1>8. /\ Listed([overdue |-> TRUE]) = Cardinality(late)
      /\ ListTasks(Me, [overdue |-> TRUE], tasks) = Restrict(tasks, late)
  <2> DEFINE q == [overdue |-> TRUE]
  <2>1. \A t : t \in late <=> t \in DOMAIN tasks /\ Sees(Me, tasks[t]) /\ Matches(q, tasks[t])
    BY <1>2, <1>3, <1>6
  <2> HIDE DEF q
  <2>2. Listed(q) = Cardinality(late) /\ ListTasks(Me, q, tasks) = Restrict(tasks, late)
    BY <2>1, ListedAre
  <2> QED  BY <2>2 DEF q
<1>9. ListTasks(Me, [status |-> open], tasks) = Restrict(tasks, pending)
  <2> DEFINE q == [status |-> open]
  <2>1. \A t : t \in pending <=> t \in DOMAIN tasks /\ Sees(Me, tasks[t]) /\ Matches(q, tasks[t])
    BY <1>2, <1>3, <1>6
  <2> HIDE DEF q
  <2>2. ListTasks(Me, q, tasks) = Restrict(tasks, pending)
    BY <2>1, ListedAre
  <2> QED  BY <2>2 DEF q
<1>10. Listed(week) = Cardinality(due) /\ ListTasks(Me, week, tasks) = Restrict(tasks, due)
  <2>1. \A t : t \in due <=> t \in DOMAIN tasks /\ Sees(Me, tasks[t]) /\ Matches(week, tasks[t])
    BY <1>2, <1>3, <1>6
  <2> QED  BY <2>1, ListedAre
<1>11. ASSUME NEW s \in Status  PROVE Listed([status |-> {s}]) = Cardinality(Held(s))
  <2> DEFINE q == [status |-> {s}]
             of == Held(s)
  <2>1. \A t : t \in of <=> t \in DOMAIN tasks /\ Sees(Me, tasks[t]) /\ Matches(q, tasks[t])
    BY <1>2, <1>4
  <2> HIDE DEF q, of
  <2>2. Listed(q) = Cardinality(of)
    BY <2>1, ListedAre
  <2> QED  BY <2>2 DEF q, of
<1>12. /\ Tiles(Me, tasks).tasks = Cardinality(mine) /\ Tiles(Me, tasks).overdue = Cardinality(late)
       /\ \A s \in Status : Tiles(Me, tasks).byStatus[s] = Cardinality(Held(s))
  BY DEF Tiles, ByStatus, mine, late
<1>13. ASSUME IsManager(Me)
       PROVE  /\ DueThisWeek(Me, tasks) = ListTasks(Me, week, tasks)
              /\ \A p \in DOMAIN Cards(Me, tasks) :
                    /\ Cards(Me, tasks)[p].open = Listed([project |-> p, status |-> open])
                    /\ Cards(Me, tasks)[p].overdue = Listed([project |-> p, overdue |-> TRUE])
  <2>1. DueThisWeek(Me, tasks) = Restrict(tasks, due)
    BY <1>13 DEF DueThisWeek, due, mine
  <2> DEFINE cards == [p \in {y \in Project : Manager[y] = Me.id} |->
                          [open |-> Cardinality(Open(tasks, In(p))),
                           overdue |-> Cardinality(Late(tasks, In(p)))]]
  <2>2. Cards(Me, tasks) = cards
    BY <1>13 DEF Cards
  <2>3. ASSUME NEW p \in {y \in Project : Manager[y] = Me.id}
        PROVE  /\ Cardinality(Open(tasks, In(p))) = Listed([project |-> p, status |-> open])
               /\ Cardinality(Late(tasks, In(p))) = Listed([project |-> p, overdue |-> TRUE])
    <3> DEFINE q == [project |-> p, status |-> open]
               r == [project |-> p, overdue |-> TRUE]
               A == Open(tasks, In(p))
               B == Late(tasks, In(p))
    <3>1. \A t \in DOMAIN tasks : tasks[t].project = p => Sees(Me, tasks[t])
      BY <1>13, <2>3 DEF Sees, TaskScope
    <3>2. \A t \in DOMAIN tasks :
             /\ Matches(q, tasks[t]) <=> tasks[t].project = p /\ tasks[t].status # "DONE"
             /\ Matches(r, tasks[t]) <=> tasks[t].project = p /\ tasks[t].overdue
      BY <1>5
    <3>3. /\ \A t : t \in A <=> t \in DOMAIN tasks /\ tasks[t].project = p /\ tasks[t].status # "DONE"
          /\ \A t : t \in B <=> t \in DOMAIN tasks /\ tasks[t].project = p /\ tasks[t].overdue
      BY DEF Open, Late
    <3> HIDE DEF q, r, A, B
    <3>4. \A t : t \in A <=> t \in DOMAIN tasks /\ Sees(Me, tasks[t]) /\ Matches(q, tasks[t])
      BY <3>1, <3>2, <3>3
    <3>5. \A t : t \in B <=> t \in DOMAIN tasks /\ Sees(Me, tasks[t]) /\ Matches(r, tasks[t])
      BY <3>1, <3>2, <3>3
    <3>6. Listed(q) = Cardinality(A) /\ Listed(r) = Cardinality(B)
      BY <3>4, <3>5, ListedAre
    <3> QED  BY <3>6 DEF q, r, A, B
  <2> HIDE DEF In
  <2>4. /\ DOMAIN cards = {y \in Project : Manager[y] = Me.id}
        /\ \A p \in DOMAIN cards : /\ cards[p].open = Cardinality(Open(tasks, In(p)))
                                   /\ cards[p].overdue = Cardinality(Late(tasks, In(p)))
    OBVIOUS
  <2> HIDE DEF cards
  <2>5. \A p \in DOMAIN cards : /\ cards[p].open = Listed([project |-> p, status |-> open])
                                /\ cards[p].overdue = Listed([project |-> p, overdue |-> TRUE])
    BY <2>3, <2>4
  <2> QED  BY <1>10, <2>1, <2>2, <2>5
<1>14. IsDeveloper(Me) => /\ DueThisWeek(Me, tasks) = Cardinality(due)
                          /\ Cards(Me, tasks) = Restrict(tasks, pending)
  BY DEF DueThisWeek, Cards, due, pending, mine, IsDeveloper, IsManager, IsAdmin
<1>15. IsAdmin(Me) => Cards(Me, tasks) = Restrict(tasks, late)
  <2> SUFFICES ASSUME IsAdmin(Me)  PROVE Cards(Me, tasks) = Restrict(tasks, late)
    OBVIOUS
  <2>1. mine = DOMAIN tasks
    BY <1>2 DEF Sees, TaskScope
  <2>2. Cards(Me, tasks) = Restrict(tasks, Late(tasks, DOMAIN tasks))
    BY DEF Cards, IsAdmin, IsManager
  <2> QED  BY <2>1, <2>2 DEF late
<1> HIDE DEF Held
<1> QED  BY <1>7, <1>8, <1>9, <1>10, <1>11, <1>12, <1>13, <1>14, <1>15

LEMMA RestReproduces ==
    ASSUME TypeInv, BoardInv
    PROVE  DashboardReproducible
<1> DEFINE open == Status \ {"DONE"}
           week == [status |-> open, dueFrom |-> Today, dueTo |-> Today + 7]
<1> SUFFICES ASSUME AtRest, page.kind = "dashboard", Screen # "error", ~missed
             PROVE  /\ shown.kind = "dashboard"
                    /\ shown.tiles.tasks = Listed(<< >>)
                    /\ shown.tiles.overdue = Listed([overdue |-> TRUE])
                    /\ \A s \in Status : shown.tiles.byStatus[s] = Listed([status |-> {s}])
                    /\ IsManager(Me) =>
                          /\ shown.due = ListTasks(Me, week, tasks)
                          /\ \A p \in DOMAIN shown.cards :
                                /\ shown.cards[p].open = Listed([project |-> p, status |-> open])
                                /\ shown.cards[p].overdue = Listed([project |-> p, overdue |-> TRUE])
                    /\ IsDeveloper(Me) =>
                          shown.due = Listed(week) /\ shown.cards = ListTasks(Me, [status |-> open], tasks)
                    /\ IsAdmin(Me) => shown.cards = ListTasks(Me, [overdue |-> TRUE], tasks)
  BY DEF DashboardReproducible
<1>1. shown = Answer(page)
  <2>1. UpToDate /\ ~Pending
    BY RestIsRight
  <2> QED  BY <2>1 DEF UpToDate, NumbersRight
<1>2. /\ shown.kind = "dashboard" /\ shown.tiles = Tiles(Me, tasks)
      /\ shown.cards = Cards(Me, tasks) /\ shown.due = DueThisWeek(Me, tasks)
  BY <1>1 DEF Answer
<1>3. tasks \in TableT
  BY DEF TypeInv, DbInv
<1> HIDE DEF open, week
<1>4. open = Status \ {"DONE"} /\ week = [status |-> open, dueFrom |-> Today, dueTo |-> Today + 7]
  BY DEF open, week
<1> QED  BY <1>2, <1>3, <1>4, NumbersListed

\* Every number a dashboard shows, once everything has been delivered, is the
\* length of the list its reader could page through, although its halves are read
\* at different moments.
THEOREM NumbersReproducible == Spec => []DashboardReproducible
<1>1. TypeInv /\ BoardInv => DashboardReproducible
  BY RestReproduces
<1> QED  BY <1>1, Typed, BoardRight, PTL

-----------------------------------------------------------------------------
(* The screens of the administration, for every database *)

\* What a list holds, whatever its rows are.
LEMMA ListHolds ==
    ASSUME NEW p, NEW query, NEW table
    PROVE  /\ \A t : t \in DOMAIN ListTasks(p, query, table) <=>
                    t \in DOMAIN table /\ Sees(p, table[t]) /\ Matches(query, table[t])
           /\ \A t \in DOMAIN ListTasks(p, query, table) : ListTasks(p, query, table)[t] = table[t]
BY DEF ListTasks, Restrict

LEMMA RowsMatch ==
    ASSUME NEW row, NEW x
    PROVE  /\ Matches(<< >>, row)
           /\ Matches([project |-> x], row) <=> row.project = x
<1>1. Matches(<< >>, row)
  BY DEF Matches
<1>2. Matches([project |-> x], row) <=> row.project = x
  BY DEF Matches
<1> QED  BY <1>1, <1>2

LEMMA ProjectsHold ==
    ASSUME NEW p, NEW db
    PROVE  /\ \A x : x \in ListProjects(p, << >>, db) <=> x \in DOMAIN db.projects /\ ProjectScope(p, x, db)
           /\ \A x, s : x \in ListProjects(p, [status |-> s], db) <=>
                 x \in DOMAIN db.projects /\ ProjectScope(p, x, db) /\ db.projects[x].status = s
           /\ \A x, c : x \in ListProjects(p, [client |-> c], db) <=>
                 x \in DOMAIN db.projects /\ ProjectScope(p, x, db) /\ db.projects[x].client = c
           /\ \A x, u : x \in ListProjects(p, [manager |-> u], db) <=>
                 /\ x \in DOMAIN db.projects /\ ProjectScope(p, x, db)
                 /\ IsAdmin(p) => Manager[x] = u
<1>1. \A x : x \in ListProjects(p, << >>, db) <=> x \in DOMAIN db.projects /\ ProjectScope(p, x, db)
  BY DEF ListProjects
<1>2. ASSUME NEW x, NEW s
      PROVE  x \in ListProjects(p, [status |-> s], db) <=>
                 x \in DOMAIN db.projects /\ ProjectScope(p, x, db) /\ db.projects[x].status = s
  BY DEF ListProjects
<1>3. ASSUME NEW x, NEW c
      PROVE  x \in ListProjects(p, [client |-> c], db) <=>
                 x \in DOMAIN db.projects /\ ProjectScope(p, x, db) /\ db.projects[x].client = c
  BY DEF ListProjects
<1>4. ASSUME NEW x, NEW u
      PROVE  x \in ListProjects(p, [manager |-> u], db) <=>
                 /\ x \in DOMAIN db.projects /\ ProjectScope(p, x, db)
                 /\ IsAdmin(p) => Manager[x] = u
  BY DEF ListProjects
<1> QED  BY <1>1, <1>2, <1>3, <1>4

LEMMA OpensProject ==
    ASSUME NEW p, NEW db, NEW x
    PROVE  GetProject(p, x, db) # {} <=> x \in DOMAIN db.projects /\ ProjectScope(p, x, db)
BY ProjectsHold DEF GetProject

LEMMA CallerIs ==
    ASSUME NEW db, IsDatabase(db), NEW p \in Callers(db)
    PROVE  /\ p.id \in DOMAIN db.users /\ db.users[p.id].active
           /\ p.role = db.users[p.id].role /\ p.role \in Role
<1>1. PICK u \in DOMAIN db.users : db.users[u].active /\ p = [id |-> u, role |-> db.users[u].role]
  BY DEF Callers, Caller
<1>2. db.users[u].role \in Role
  BY DEF IsDatabase
<1> QED  BY <1>1, <1>2

\* A card counts the tasks its project's list would show this caller.
LEMMA CardsCount ==
    ASSUME NEW db, IsDatabase(db), NEW p \in Callers(db)
    PROVE  CardsAgree(p, db)
<1> SUFFICES ASSUME NEW x \in ListProjects(p, << >>, db)
             PROVE  LET counts == TaskCounts(p, x, db)
                        listed == ListTasks(p, [project |-> x], db.tasks)
                    IN  /\ counts.total = Cardinality(DOMAIN listed)
                        /\ counts.byStatus = ByStatus(listed, DOMAIN listed)
                        /\ counts.overdue = Cardinality(Late(listed, DOMAIN listed))
                        /\ IsManager(p) =>
                              LET card == Cards(p, db.tasks)[x]
                              IN  card.open = counts.total - counts.byStatus["DONE"]
                                  /\ card.overdue = counts.overdue
  BY DEF CardsAgree
<1> DEFINE tb == db.tasks
           here == TasksOf(x, db)
           counted == {t \in here : CountScope(p, tb[t])}
           listed == ListTasks(p, [project |-> x], tb)
           done == {t \in counted : tb[t].status = "DONE"}
           open == Open(tb, counted)
<1>1. x \in DOMAIN db.projects /\ ProjectScope(p, x, db) /\ p.role \in Role
  BY ProjectsHold, CallerIs
<1>2. \A t : t \in here <=> t \in DOMAIN tb /\ tb[t].project = x
  BY DEF TasksOf
<1>3. ASSUME NEW t \in here  PROVE Sees(p, tb[t]) <=> CountScope(p, tb[t])
  BY <1>1, <1>2 DEF Sees, TaskScope, CountScope, ProjectScope, Role, IsAdmin, IsManager, IsDeveloper
<1>4. \A t : t \in DOMAIN listed <=> t \in DOMAIN tb /\ Sees(p, tb[t]) /\ tb[t].project = x
  BY ListHolds, RowsMatch
<1>5. DOMAIN listed = counted /\ \A t \in counted : listed[t] = tb[t]
  <2>1. \A t : t \in DOMAIN listed <=> t \in here /\ Sees(p, tb[t])
    BY <1>2, <1>4
  <2>2. \A t : t \in counted <=> t \in here /\ CountScope(p, tb[t])
    OBVIOUS
  <2>3. \A t \in DOMAIN listed : listed[t] = tb[t]
    BY ListHolds
  <2> HIDE DEF listed, counted, here
  <2>4. DOMAIN listed = counted
    BY <1>3, <2>1, <2>2
  <2> QED  BY <2>3, <2>4
<1> HIDE DEF listed
<1>6. ByStatus(listed, DOMAIN listed) = ByStatus(tb, counted)
  <2>1. \A s : {t \in counted : listed[t].status = s} = {t \in counted : tb[t].status = s}
    BY <1>5
  <2> QED  BY <1>5, <2>1 DEF ByStatus
<1>7. Late(listed, DOMAIN listed) = Late(tb, counted)
  BY <1>5 DEF Late
<1>8. ASSUME IsManager(p)
      PROVE  /\ Cards(p, tb)[x].open = Cardinality(open)
             /\ Cards(p, tb)[x].overdue = Cardinality(Late(tb, counted))
  <2> DEFINE In(y) == {t \in DOMAIN tb : tb[t].project = y}
             mine == {y \in Project : Manager[y] = p.id}
  <2>1. x \in mine
    BY <1>1, <1>8 DEF IsDatabase, ProjectScope, IsAdmin, IsManager, IsDeveloper
  <2>2. In(x) = counted
    BY <1>2, <1>8 DEF CountScope, IsManager, IsDeveloper
  <2>3. Cards(p, tb) = [y \in mine |-> [open |-> Cardinality(Open(tb, In(y))),
                                        overdue |-> Cardinality(Late(tb, In(y)))]]
    BY <1>8 DEF Cards
  <2> HIDE DEF mine, In
  <2>4. Cards(p, tb)[x] = [open |-> Cardinality(Open(tb, In(x))),
                           overdue |-> Cardinality(Late(tb, In(x)))]
    BY <2>1, <2>3
  <2> QED  BY <2>2, <2>4
<1>9. Cardinality(open) = Cardinality(counted) - Cardinality(done)
  <2>1. IsFiniteSet(counted)
    BY FS_Subset, <1>2 DEF IsDatabase
  <2>2. open = counted \ done /\ done \subseteq counted
    BY DEF Open
  <2> HIDE DEF open, done, counted
  <2>3. IsFiniteSet(done) /\ IsFiniteSet(open)
    BY <2>1, <2>2, FS_Subset
  <2>4. open \cup done = counted /\ open \cap done = {}
    BY <2>2
  <2>5. Cardinality(open) \in Nat /\ Cardinality(done) \in Nat /\ Cardinality({}) = 0
    BY <2>3, FS_CardinalityType, FS_EmptySet
  <2>6. Cardinality(counted) = Cardinality(open) + Cardinality(done) - Cardinality({})
    BY <2>3, <2>4, FS_Union
  <2> QED  BY <2>5, <2>6
<1> DEFINE counts == TaskCounts(p, x, db)
<1>10. /\ counts.total = Cardinality(counted) /\ counts.byStatus = ByStatus(tb, counted)
       /\ counts.overdue = Cardinality(Late(tb, counted))
  BY DEF TaskCounts
<1>11. counts.byStatus["DONE"] = Cardinality(done)
  BY <1>10 DEF ByStatus, Status
<1> HIDE DEF counts, counted, open, done
<1>12. counts.total = Cardinality(DOMAIN listed) /\ counts.byStatus = ByStatus(listed, DOMAIN listed)
       /\ counts.overdue = Cardinality(Late(listed, DOMAIN listed))
  BY <1>5, <1>6, <1>7, <1>10
<1>13. IsManager(p) => /\ Cards(p, tb)[x].open = counts.total - counts.byStatus["DONE"]
                       /\ Cards(p, tb)[x].overdue = counts.overdue
  BY <1>8, <1>9, <1>10, <1>11
<1> QED  BY <1>12, <1>13 DEF counts, listed

LEMMA ProjectsOpen ==
    ASSUME NEW db, IsDatabase(db), NEW p \in Callers(db)
    PROVE  TasksLeadToProjects(p, db)
<1> SUFFICES ASSUME NEW t \in DOMAIN ListTasks(p, << >>, db.tasks)
             PROVE  GetProject(p, db.tasks[t].project, db) # {}
  BY DEF TasksLeadToProjects
<1> DEFINE x == db.tasks[t].project
<1>1. t \in DOMAIN db.tasks /\ Sees(p, db.tasks[t])
  BY ListHolds
<1>2. x \in DOMAIN db.projects /\ t \in TasksOf(x, db)
  BY <1>1 DEF IsDatabase, TasksOf
<1>3. ProjectScope(p, x, db)
  BY <1>1, <1>2 DEF Sees, TaskScope, ProjectScope
<1> QED  BY <1>2, <1>3, OpensProject

LEMMA ClientsCount ==
    ASSUME NEW db, NEW p
    PROVE  ClientsAgree(p, db)
<1> DEFINE clients == ListClients(p, TRUE, db)
<1>1. ASSUME NEW c \in DOMAIN clients
      PROVE  /\ clients[c].projectCount = ProjectCount(p, c, db)
             /\ clients[c].totalProjectCount \subseteq {ProjectCount(p, c, db)}
  <2>1. clients[c] = ClientDto(p, c, db)
    BY <1>1 DEF ListClients
  <2> HIDE DEF clients
  <2> QED  BY <2>1 DEF ClientDto
<1>2. ASSUME NEW c  PROVE ProjectCount(p, c, db) = Cardinality(ListProjects(p, [client |-> c], db))
  <2>1. {x \in DOMAIN db.projects : ProjectScope(p, x, db) /\ db.projects[x].client = c}
           = ListProjects(p, [client |-> c], db)
    BY ProjectsHold
  <2> QED  BY <2>1 DEF ProjectCount
<1> QED  BY <1>1, <1>2 DEF ClientsAgree

LEMMA PickerHolds ==
    ASSUME NEW p, NEW db
    PROVE  PickerAgrees(p, db)
<1>1. ~IsDeveloper(p) => ListAssignableUsers(p, {}, db) = {u \in DOMAIN db.users : Resolves(u, db)}
  BY DEF ListAssignableUsers, Resolves
<1>2. \A x : \A u \in ListAssignableUsers(p, {x}, db) : Resolves(u, db)
  BY DEF ListAssignableUsers, Resolves
<1>3. ASSUME ~IsDeveloper(p), NEW x, NEW u \in ListProjectMembers(p, x, db), Resolves(u, db)
      PROVE  u \in ListAssignableUsers(p, {x}, db)
  BY <1>3 DEF ListProjectMembers, ListAssignableUsers, Resolves
<1> QED  BY <1>1, <1>2, <1>3 DEF PickerAgrees

LEMMA PeopleCount ==
    ASSUME NEW db, IsDatabase(db), NEW p
    PROVE  PeopleAgree(p, db)
<1> DEFINE accounts == ListUsers(p, TRUE, Role, db)
<1> SUFFICES ASSUME NEW u \in DOMAIN accounts
             PROVE  /\ accounts[u].openTasks = Cardinality(DOMAIN
                          ListTasks(p, [assignee |-> u, status |-> OpenStatuses], db.tasks))
                    /\ accounts[u].managedProjects = Cardinality(ListProjects(p, [manager |-> u], db))
  BY DEF PeopleAgree
<1> DEFINE held == {t \in Open(db.tasks, DOMAIN db.tasks) : db.tasks[t].assignee = u}
           listed == DOMAIN ListTasks(p, [assignee |-> u, status |-> OpenStatuses], db.tasks)
           managed == {x \in DOMAIN db.projects : Manager[x] = u}
<1>1. accounts[u] = AdminUserDto(u, db) /\ IsAdmin(p)
  BY DEF ListUsers
<1> HIDE DEF accounts
<1>2. accounts[u].openTasks = Cardinality(held) /\ accounts[u].managedProjects = Cardinality(managed)
  BY <1>1 DEF AdminUserDto
<1>3. held = listed
  <2>1. \A t \in DOMAIN db.tasks : Sees(p, db.tasks[t]) /\ db.tasks[t].status \in Status
    BY <1>1 DEF Sees, TaskScope, IsDatabase
  <2>2. \A t \in DOMAIN db.tasks : Matches([assignee |-> u, status |-> OpenStatuses], db.tasks[t])
           <=> db.tasks[t].assignee = u /\ db.tasks[t].status \in OpenStatuses
    BY DEF Matches
  <2>3. \A t : t \in listed <=>
           t \in DOMAIN db.tasks /\ Matches([assignee |-> u, status |-> OpenStatuses], db.tasks[t])
    BY <2>1, ListHolds
  <2> HIDE DEF listed
  <2>4. \A t : t \in listed <=> /\ t \in DOMAIN db.tasks /\ db.tasks[t].assignee = u
                                /\ db.tasks[t].status \in OpenStatuses
    BY <2>2, <2>3
  <2>5. \A t \in DOMAIN db.tasks : db.tasks[t].status \in OpenStatuses <=> db.tasks[t].status # "DONE"
    BY <2>1 DEF Status, OpenStatuses
  <2>6. \A t : t \in held <=> /\ t \in DOMAIN db.tasks /\ db.tasks[t].assignee = u
                              /\ db.tasks[t].status # "DONE"
    BY DEF Open
  <2> HIDE DEF held
  <2> QED  BY <2>4, <2>5, <2>6
<1>4. managed = ListProjects(p, [manager |-> u], db)
  <2>1. \A x : ProjectScope(p, x, db)
    BY <1>1 DEF ProjectScope
  <2> QED  BY <1>1, <2>1, ProjectsHold
<1> QED  BY <1>2, <1>3, <1>4

LEMMA TotalsCount ==
    ASSUME NEW db, IsDatabase(db), NEW p
    PROVE  TotalsAgree(p, db)
<1> DEFINE active == ListProjects(p, [status |-> "ACTIVE"], db)
           listed == ListProjects(p, << >>, db)
           mine == {x \in DOMAIN db.projects : ProjectScope(p, x, db)}
<1>1. mine = listed /\ ActiveProjects(mine, db) = active
  BY ProjectsHold DEF ActiveProjects
<1>2. IsManager(p) => ManagerTotals(p, db) = [projects |-> Cardinality(listed),
                                             activeProjects |-> Cardinality(active)]
  BY <1>1 DEF ManagerTotals
<1>3. ASSUME IsAdmin(p)
      PROVE  AdminTotals(db) = [projects |-> Cardinality(listed), activeProjects |-> Cardinality(active),
                                clients |-> Cardinality(DOMAIN ListClients(p, FALSE, db)),
                                users |-> Cardinality(DOMAIN ListUsers(p, FALSE, Role, db))]
  <2>1. mine = DOMAIN db.projects
    BY <1>3 DEF ProjectScope
  <2>2. DOMAIN ListClients(p, FALSE, db) = {c \in DOMAIN db.clients : ~db.clients[c]}
    BY <1>3 DEF ListClients, CanReadClients
  <2>3. DOMAIN ListUsers(p, FALSE, Role, db) = {u \in DOMAIN db.users : db.users[u].active}
    BY <1>3 DEF ListUsers, IsDatabase
  <2> HIDE DEF mine, listed, active
  <2> QED  BY <1>1, <2>1, <2>2, <2>3 DEF AdminTotals
<1> QED  BY <1>2, <1>3 DEF TotalsAgree

\* In every database, not only the seeded one, two reads of one caller agree: a
\* project card with the list behind it and the dashboard, the numbers beside a
\* client and a person with the lists they filter, the picker with what a write
\* accepts, the totals with the lists they sum up.
THEOREM ReadsCohere == \A db : IsDatabase(db) => ReadsAgreeIn(db)
BY CardsCount, ProjectsOpen, ClientsCount, PickerHolds, PeopleCount, TotalsCount DEF ReadsAgreeIn

LEMMA TeamAccepted ==
    ASSUME NEW p, NEW db
    PROVE  TeamIsAccepted(p, db)
<1> SUFFICES ASSUME NEW x \in ListProjects(p, << >>, db)
             PROVE  /\ \A u \in Candidates(p, x, db) : AcceptsMember(p, x, u, db)
                    /\ \A u \in Removable(p, x, db) : AcceptsRemoval(p, x, u, db)
  BY DEF TeamIsAccepted
<1>1. GetProject(p, x, db) # {}
  BY ProjectsHold, OpensProject
<1>2. OffersTeam(p, x) => Manages(p, x, db)
  BY <1>1 DEF OffersTeam, OffersManaging, Manages, CanManageProject
<1>3. \A u \in Candidates(p, x, db) : OffersTeam(p, x) /\ db.users[u].active
  BY DEF Candidates, ListAssignableUsers
<1>4. \A u \in Removable(p, x, db) : OffersTeam(p, x) /\ <<x, u>> \in db.members
  BY DEF Removable, ListProjectMembers
<1> QED  BY <1>2, <1>3, <1>4 DEF AcceptsMember, AcceptsRemoval

\* Only what was changed is sent, and only what the dialog offers.
LEMMA FormsAccepted ==
    ASSUME NEW p, NEW db, NEW row, OffersFields(p, row), NEW form \in TaskForms(p, row, db)
    PROVE  AcceptsTaskPatch(p, row, ChangedFields(form, row), db)
<1> DEFINE patch == ChangedFields(form, row)
           opened == [status |-> row.status, due |-> row.due, assignee |-> row.assignee]
           fields == {"status", "due", "assignee"}
<1>1. /\ DOMAIN form = fields
      /\ form.assignee = row.assignee \/ form.assignee \in AssigneeOptions(p, row.project, db)
  <2> DEFINE users == AssigneeOptions(p, row.project, db)
  <2>1. \/ \E s \in Status : form = [opened EXCEPT !.status = s]
        \/ \E d \in {NoDue, Today} : form = [opened EXCEPT !.due = d]
        \/ \E u \in users : form = [opened EXCEPT !.assignee = u]
    BY DEF TaskForms
  <2> HIDE DEF users
  <2>2. ASSUME NEW s, form = [opened EXCEPT !.status = s]
        PROVE  DOMAIN form = fields /\ form.assignee = row.assignee
    BY <2>2
  <2>3. ASSUME NEW d, form = [opened EXCEPT !.due = d]
        PROVE  DOMAIN form = fields /\ form.assignee = row.assignee
    BY <2>3
  <2>4. ASSUME NEW u \in users, form = [opened EXCEPT !.assignee = u]
        PROVE  DOMAIN form = fields /\ form.assignee \in users
    BY <2>4
  <2> HIDE DEF opened
  <2> QED  BY <2>1, <2>2, <2>3, <2>4 DEF users
<1>2. /\ DOMAIN patch \subseteq fields
      /\ \A f \in DOMAIN patch : patch[f] = form[f] /\ form[f] # row[f]
  BY <1>1 DEF ChangedFields, Restrict
<1>3. ~IsDeveloper(p) /\ CanUpdateTask(p, row.project, row.assignee)
  BY DEF OffersFields, OffersUpdate, OffersManaging, CanUpdateTask
<1> HIDE DEF patch
<1>4. MayApplyPatch(p, row.project, row.assignee, patch)
  BY <1>2, <1>3 DEF MayApplyPatch, WritableFields, ForbiddenStatuses, Fields
<1>5. ASSUME "assignee" \in DOMAIN patch, patch["assignee"] # NoOne
      PROVE  Resolves(patch["assignee"], db)
  <2>1. patch["assignee"] = form["assignee"] /\ form["assignee"] # row["assignee"]
    BY <1>2, <1>5
  <2>2. form.assignee \in ListAssignableUsers(p, {row.project}, db)
    BY <1>1, <1>5, <2>1 DEF AssigneeOptions
  <2> QED  BY <2>1, <2>2 DEF ListAssignableUsers, Resolves
<1>6. AcceptsAssignee(patch, db)
  BY <1>5 DEF AcceptsAssignee
<1> QED  BY <1>4, <1>6 DEF AcceptsTaskPatch, patch

LEMMA TaskAccepted ==
    ASSUME NEW db, IsDatabase(db), NEW p \in Callers(db)
    PROVE  TasksAreAccepted(p, db)
<1>1. ASSUME ~IsDeveloper(p), NEW x \in ListProjects(p, << >>, db), NEW u \in AssigneeOptions(p, x, db)
      PROVE  AcceptsTask(p, TaskBody(x, u), db)
  <2> DEFINE body == TaskBody(x, u)
  <2>1. body.project = x /\ ("assignee" \in DOMAIN body => body.assignee = u)
    BY DEF TaskBody, Restrict
  <2>2. x \in DOMAIN db.projects /\ ProjectScope(p, x, db)
    BY ProjectsHold
  <2>3. Manages(p, x, db)
    BY <1>1, <2>2, OpensProject DEF Manages, ProjectScope, CanManageProject
  <2>4. u = NoOne \/ Resolves(u, db)
    BY <1>1 DEF AssigneeOptions, ListAssignableUsers, Resolves
  <2> HIDE DEF body
  <2>5. AcceptsAssignee(body, db)
    BY <2>1, <2>4 DEF AcceptsAssignee
  <2> QED  BY <2>1, <2>3, <2>5 DEF AcceptsTask, body
<1> QED  BY <1>1, FormsAccepted DEF TasksAreAccepted

LEMMA PortfolioAccepted ==
    ASSUME NEW db, IsDatabase(db), NEW p \in Callers(db)
    PROVE  PortfolioIsAccepted(p, db)
<1>1. ASSUME ~IsDeveloper(p), NEW body \in ProjectBodies(p, db)
      PROVE  AcceptsProject(p, body, db)
  <2>1. p.role \in Role /\ p.role # "DEVELOPER" /\ db.users[p.id].active /\ db.users[p.id].role = p.role
    BY <1>1, CallerIs DEF IsDeveloper
  <2>2. PICK c \in ClientOptions(p, db) :
           \/ body = [client |-> c]
           \/ \E u \in ManagerOptions(p, db) : body = [client |-> c, manager |-> u]
    <3> DEFINE clients == ClientOptions(p, db)
               users == ManagerOptions(p, db)
    <3>1. \/ \E c \in clients : body = [client |-> c]
          \/ \E c \in clients, u \in users : body = [client |-> c, manager |-> u]
      BY DEF ProjectBodies
    <3> QED  BY <3>1
  <2>3. c \in DOMAIN db.clients
    BY DEF ClientOptions, ListClients
  <2>4. CASE body = [client |-> c]
    <3>1. body.client = c /\ "manager" \notin DOMAIN body
      BY <2>4
    <3>2. IsAdmin(p) \/ IsManager(p)
      BY <2>1 DEF Role, IsAdmin, IsManager
    <3> QED  BY <2>1, <2>3, <3>1, <3>2 DEF AcceptsProject
  <2>5. ASSUME NEW u \in ManagerOptions(p, db), body = [client |-> c, manager |-> u]
        PROVE  AcceptsProject(p, body, db)
    <3>1. body.client = c /\ "manager" \in DOMAIN body /\ body.manager = u
      BY <2>5
    <3>2. IsAdmin(p) /\ db.users[u].active /\ db.users[u].role # "DEVELOPER"
      BY <2>5 DEF ManagerOptions, ListAssignableUsers
    <3> QED  BY <2>3, <3>1, <3>2 DEF AcceptsProject
  <2> QED  BY <2>2, <2>4, <2>5
<1>2. ASSUME NEW x \in ListProjects(p, << >>, db), OffersTeam(p, x),
             NEW patch \in ProjectPatches(p, x, db)
      PROVE  AcceptsProjectPatch(p, x, patch, db)
  <2>1. x \in DOMAIN db.projects /\ ProjectScope(p, x, db)
    BY ProjectsHold
  <2>2. Manages(p, x, db)
    BY <1>2, <2>1, OpensProject DEF OffersTeam, OffersManaging, Manages, CanManageProject
  <2>3. ClientOptions(p, db) \cup {db.projects[x].client} \subseteq DOMAIN db.clients
    BY <2>1 DEF ClientOptions, ListClients, IsDatabase
  <2>4. PICK c \in DOMAIN db.clients : patch = ChangedFields([client |-> c], db.projects[x])
    BY <2>3 DEF ProjectPatches
  <2>5. "client" \in DOMAIN patch => patch["client"] = c
    BY <2>4 DEF ChangedFields, Restrict
  <2> QED  BY <2>2, <2>4, <2>5 DEF AcceptsProjectPatch
<1> QED  BY <1>1, <1>2 DEF PortfolioIsAccepted

LEMMA ClientsAccepted ==
    ASSUME NEW db, IsDatabase(db), NEW p \in Callers(db)
    PROVE  ClientsAreAccepted(p, db)
<1> SUFFICES ASSUME NEW c \in DOMAIN ListClients(p, TRUE, db)
             PROVE  LET client == ListClients(p, TRUE, db)[c]
                    IN  /\ OffersClientDeletion(p, client) <=> AcceptsClientDeletion(p, c, db)
                        /\ OffersArchiving(p, client) =>
                              (AcceptsArchiving(p, c, ~client.archived, db) <=>
                                  \/ client.archived
                                  \/ \A x \in ListProjects(p, [client |-> c], db) :
                                        db.projects[x].status \notin WorkInFlight)
  BY DEF ClientsAreAccepted
<1> DEFINE client == ListClients(p, TRUE, db)[c]
           its == {x \in DOMAIN db.projects : ProjectScope(p, x, db) /\ db.projects[x].client = c}
<1>1. client = ClientDto(p, c, db) /\ c \in DOMAIN db.clients /\ db.clients[c] \in BOOLEAN
  BY DEF ListClients, IsDatabase
<1> HIDE DEF client
<1>2. /\ client.totalProjectCount = IF IsAdmin(p) THEN {ProjectCount(p, c, db)} ELSE {}
      /\ client.archived = db.clients[c]
  BY <1>1 DEF ClientDto
<1>3. IsAdmin(p) => (its = {} <=> \A x \in DOMAIN db.projects : db.projects[x].client # c)
  BY DEF ProjectScope
<1>4. OffersClientDeletion(p, client) <=> AcceptsClientDeletion(p, c, db)
  <2>1. OffersClientDeletion(p, client) <=> IsAdmin(p) /\ ProjectCount(p, c, db) = 0
    BY <1>2 DEF OffersClientDeletion
  <2>2. ProjectCount(p, c, db) = 0 <=> its = {}
    <3>1. IsFiniteSet(its)
      BY FS_Subset DEF IsDatabase
    <3> QED  BY <3>1, FS_EmptySet DEF ProjectCount
  <2> QED  BY <1>3, <2>1, <2>2 DEF AcceptsClientDeletion
<1>5. ASSUME OffersArchiving(p, client)
      PROVE  AcceptsArchiving(p, c, ~client.archived, db) <=>
                \/ client.archived
                \/ \A x \in ListProjects(p, [client |-> c], db) : db.projects[x].status \notin WorkInFlight
  <2>1. IsAdmin(p)
    BY <1>5 DEF OffersArchiving
  <2>2. \A x : x \in ListProjects(p, [client |-> c], db)
                 <=> x \in DOMAIN db.projects /\ db.projects[x].client = c
    BY <2>1, ProjectsHold DEF ProjectScope
  <2> QED  BY <1>1, <1>2, <2>1, <2>2 DEF AcceptsArchiving
<1> QED  BY <1>4, <1>5 DEF client

LEMMA AccountsAccepted ==
    ASSUME NEW db, IsDatabase(db), NEW p \in Callers(db)
    PROVE  AccountsAreAccepted(p, db)
<1> SUFFICES ASSUME NEW u \in DOMAIN ListUsers(p, TRUE, Role, db), NEW patch \in UserPatches(u, db)
             PROVE  AcceptsUser(p, u, patch, db) <=> ~(u = p.id /\ EndsRank(patch))
  BY DEF AccountsAreAccepted
<1>1. IsAdmin(p) /\ p.role = "ADMIN"
  BY DEF ListUsers, IsAdmin
<1>2. p.id \in DOMAIN db.users /\ db.users[p.id] \in [role : Role, active : BOOLEAN]
  BY CallerIs DEF IsDatabase
<1>3. db.users[p.id].active /\ db.users[p.id].role = "ADMIN"
  BY <1>1, CallerIs
<1>4. db.users[p.id] = [role |-> "ADMIN", active |-> TRUE]
  BY <1>2, <1>3
<1>5. u # p.id => \E v \in DOMAIN db.users \ {u} : db.users[v] = [role |-> "ADMIN", active |-> TRUE]
  BY <1>2, <1>4
<1> QED  BY <1>1, <1>5 DEF AcceptsUser

\* In every database, what a dialog or a button of the administration offers is
\* accepted: a member to add or remove, each change of a task or a project, a new
\* task or project, an account's role and activity.  Refused are, exactly, the
\* archiving of a client with a project in flight and the end of one's own rank;
\* and a client may be deleted exactly when it is offered.
THEOREM DialogsAccepted == \A db : IsDatabase(db) => DialogsAreAcceptedIn(db)
BY TeamAccepted, TaskAccepted, PortfolioAccepted, ClientsAccepted, AccountsAccepted
DEF DialogsAreAcceptedIn

LEMMA TeamShown ==
    ASSUME NEW db, IsDatabase(db), NEW p
    PROVE  TeamIsCurrent(p, db)
<1> SUFFICES ASSUME NEW inactive \in BOOLEAN, NEW roles \in {Role} \cup {{r} : r \in Role},
                    NEW u \in DOMAIN ListUsers(p, inactive, roles, db),
                    NEW account \in [role : roles, active : BOOLEAN]
             PROVE  LET new == [db EXCEPT !.users[u] = account]
                    IN  TeamAfterSave(p, u, inactive, roles, db, new) = ListUsers(p, inactive, roles, new)
  BY DEF TeamIsCurrent
<1> DEFINE new == [db EXCEPT !.users[u] = account]
           old == ListUsers(p, inactive, roles, db)
           next == ListUsers(p, inactive, roles, new)
<1>1. /\ new.tasks = db.tasks /\ new.projects = db.projects
      /\ new.users = [db.users EXCEPT ![u] = account]
  BY DEF IsDatabase
<1> HIDE DEF new
<1>2. IsAdmin(p) /\ u \in DOMAIN db.users /\ db.users[u].role \in roles /\ (inactive \/ db.users[u].active)
  BY DEF ListUsers
<1>3. /\ DOMAIN new.users = DOMAIN db.users /\ new.users[u] = account
      /\ \A v \in DOMAIN db.users : v # u => new.users[v] = db.users[v]
  BY <1>1, <1>2 DEF IsDatabase
<1>4. ASSUME account.active \/ inactive
      PROVE  ReplaceRow(old, u, AdminUserDto(u, new)) = next
  <2>1. account.role \in roles
    OBVIOUS
  <2>2. DOMAIN old = DOMAIN next
    BY <1>2, <1>3, <1>4, <2>1 DEF ListUsers
  <2>3. \A v \in DOMAIN next : next[v] = AdminUserDto(v, new)
    BY DEF ListUsers
  <2>4. \A v \in DOMAIN old : v \in DOMAIN db.users /\ old[v] = AdminUserDto(v, db)
    BY DEF ListUsers
  <2>5. \A v \in DOMAIN db.users : v # u => AdminUserDto(v, new) = AdminUserDto(v, db)
    BY <1>1, <1>3 DEF AdminUserDto
  <2>6. next = [v \in DOMAIN next |-> next[v]]
    BY DEF ListUsers
  <2> HIDE DEF old, next
  <2> QED  BY <2>2, <2>3, <2>4, <2>5, <2>6 DEF ReplaceRow
<1> QED  BY <1>3, <1>4 DEF TeamAfterSave, new

LEMMA ClientsShown ==
    ASSUME NEW db, IsDatabase(db), NEW p
    PROVE  ClientsAreCurrent(p, db)
<1> SUFFICES ASSUME NEW all \in BOOLEAN, NEW c \in DOMAIN ListClients(p, all, db)
             PROVE  LET new == [db EXCEPT !.clients[c] = ~@]
                    IN  ClientsAfterArchiving(p, c, all, db, new) = ListClients(p, all, new)
  BY DEF ClientsAreCurrent
<1> DEFINE new == [db EXCEPT !.clients[c] = ~@]
           old == ListClients(p, all, db)
           next == ListClients(p, all, new)
<1>1. /\ new.tasks = db.tasks /\ new.projects = db.projects /\ new.members = db.members
      /\ DOMAIN new.clients = DOMAIN db.clients
      /\ \A x \in DOMAIN db.clients : x # c => new.clients[x] = db.clients[x]
  BY DEF IsDatabase
<1> HIDE DEF new
<1>2. ASSUME all
      PROVE  ReplaceRow(old, c, ClientDto(p, c, new)) = next
  <2>1. DOMAIN old = DOMAIN next
    BY <1>1, <1>2 DEF ListClients
  <2>2. \A x \in DOMAIN next : next[x] = ClientDto(p, x, new)
    BY DEF ListClients
  <2>3. \A x \in DOMAIN old : x \in DOMAIN db.clients /\ old[x] = ClientDto(p, x, db)
    BY DEF ListClients
  <2>4. \A x : ProjectCount(p, x, new) = ProjectCount(p, x, db)
    BY <1>1 DEF ProjectCount, ProjectScope, TasksOf
  <2>5. \A x \in DOMAIN db.clients : x # c => ClientDto(p, x, new) = ClientDto(p, x, db)
    BY <1>1, <2>4 DEF ClientDto
  <2>6. next = [x \in DOMAIN next |-> next[x]]
    BY DEF ListClients
  <2> HIDE DEF old, next
  <2> QED  BY <2>1, <2>2, <2>3, <2>5, <2>6 DEF ReplaceRow
<1> QED  BY <1>2 DEF ClientsAfterArchiving, new

\* In every database, the team and client tables show after a save what their
\* queries would answer, whether the row was replaced or the list read again.
THEOREM SavesShown == \A db : IsDatabase(db) => SavesAreShownIn(db)
BY TeamShown, ClientsShown DEF SavesAreShownIn
=============================================================================
