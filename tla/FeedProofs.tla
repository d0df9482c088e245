----------------------------- MODULE FeedProofs -----------------------------
(***************************************************************************)
(* Proofs about the feed, for any number of transactions, tabs, projects   *)
(* and events: its types; that only committed events reach a list; that    *)
(* the cursor never runs ahead of the lists; and that the two statements   *)
(* of an acknowledgement implement the high-water mark.                    *)
(***************************************************************************)
EXTENDS Feed, FiniteSetTheorems, WellFoundedInduction, TLAPS

-----------------------------------------------------------------------------
(* The highest number of a set *)

\* Among the sets of what lies above an element, one has no smaller one: the
\* element it belongs to is the highest.
LEMMA HighestIsIn ==
    ASSUME NEW k \in Nat, NEW S \in SUBSET (1 .. k), S # {}
    PROVE  Highest(S) \in S
<1> DEFINE Above(n) == {m \in S : n < m}
           T == {Above(n) : n \in S}
<1>1. IsFiniteSet(1 .. k)
  BY FS_Interval
<1>2. \A n \in S : Above(n) \in FiniteSubsetsOf(1 .. k)
  BY <1>1, FS_Subset DEF FiniteSubsetsOf
<1>3. T \subseteq FiniteSubsetsOf(1 .. k)
  BY <1>2
<1>4. T # {}
  OBVIOUS
<1>5. IsWellFoundedOn(StrictSubsetOrdering(1 .. k), FiniteSubsetsOf(1 .. k))
  BY FS_StrictSubsetOrderingWellFounded
<1>6. \E x \in T : \A y \in T : ~(<<y, x>> \in StrictSubsetOrdering(1 .. k))
  BY <1>3, <1>4, <1>5, WFMin
<1>7. PICK n \in S : \A y \in T : ~(<<y, Above(n)>> \in StrictSubsetOrdering(1 .. k))
  BY <1>6
<1>8. \A m \in S : m <= n
  <2> SUFFICES ASSUME NEW m \in S, n < m PROVE FALSE
    OBVIOUS
  <2> \A x \in S : x \in Nat
    OBVIOUS
  <2>1. Above(m) \subseteq Above(n)
    <3>1. \A x \in S : m < x => n < x
      OBVIOUS
    <3> QED  BY <3>1
  <2>2. m \in Above(n) /\ m \notin Above(m)
    OBVIOUS
  <2>3. Above(m) # Above(n)
    BY <2>2
  <2>4. Above(m) \in SUBSET (1 .. k) /\ Above(n) \in SUBSET (1 .. k)
    OBVIOUS
  <2>5. <<Above(m), Above(n)>> \in StrictSubsetOrdering(1 .. k)
    <3> HIDE DEF Above
    <3> QED  BY <2>1, <2>3, <2>4 DEF StrictSubsetOrdering
  <2> QED  BY <1>7, <2>5
<1> QED  BY <1>8 DEF Highest
-----------------------------------------------------------------------------
(* Type correctness *)

\* A list that is not empty has its highest number in it, and so has the first
\* event of a feed.
LEMMA NewestTyped ==
    ASSUME TypeOK, NEW x \in FeedState
    PROVE  Newest(x) \in {0} \cup Claimed
<1>1. nextSeq - 1 \in Nat
  BY FeedBoundAssumption DEF TypeOK
<1>2. x.page # {} => Highest(x.page) \in Claimed
  BY <1>1, HighestIsIn DEF FeedState, Claimed
<1>3. x.page = {} => Highest(x.page) = 0
  BY DEF Highest
<1> QED  BY <1>2, <1>3 DEF Newest, FeedState

LEMMA RearmedTyped ==
    ASSUME TypeOK, NEW x \in FeedState, NEW y \in FeedState
    PROVE  Rearmed(x, y) \in FeedState
<1> DEFINE b == y.up /\ Newest(y) > 0 /\ (x.armed \/ Newest(y) # Newest(x))
<1>1. b \in BOOLEAN
  OBVIOUS
<1>2. Rearmed(x, y) = [y EXCEPT !.armed = b]
  BY DEF Rearmed
<1> HIDE DEF b
<1> QED  BY <1>1, <1>2 DEF FeedState

LEMMA ArrivalTyped ==
    ASSUME NEW x \in FeedState, NEW L \in SUBSET Claimed, NEW n \in Claimed
    PROVE  [x EXCEPT !.live = L, !.top = n] \in FeedState
BY DEF FeedState

\* The feed and the history after a step of one tab.
LEMMA BecomesTyped ==
    ASSUME TypeOK, NEW s \in Screen, NEW y \in FeedState, Becomes(s, y)
    PROVE  screen' \in [Screen -> FeedState] /\ held' \subseteq Claimed
<1>1. Listed(y) \subseteq Claimed
  BY DEF Listed, FeedState
<1> QED  BY <1>1 DEF Becomes, TypeOK

LEMMA TypeInit == ASSUME Init PROVE TypeOK
<1>1. {0} \cup Claimed = {0} \cup (1 .. InitialCursor)
  BY FeedBoundAssumption DEF Init, Claimed
<1>2. NoFeed(TRUE) \in FeedState
  BY DEF NoFeed, FeedState
<1>3. DOMAIN events = 1 .. InitialCursor /\ events \in [1 .. InitialCursor -> Project]
  BY DEF Init
<1>4. Claimed = 1 .. InitialCursor
  BY FeedBoundAssumption DEF Init, Claimed
<1>5. cursor \in {0} \cup Claimed
  BY <1>1, FeedBoundAssumption DEF Init
<1>6. nextSeq \in 1 .. (MaxSeq + 1)
  BY FeedBoundAssumption DEF Init
<1> QED  BY <1>2, <1>3, <1>4, <1>5, <1>6 DEF Init, TypeOK

LEMMA TypeNext == ASSUME TypeOK, [Next]_vars PROVE TypeOK'
<1> USE DEF TypeOK
<1>1. ASSUME NEW w \in Writer, Insert(w) PROVE TypeOK'
  <2>1. nextSeq \in Nat /\ nextSeq' = nextSeq + 1 /\ nextSeq <= MaxSeq
    BY <1>1, FeedBoundAssumption DEF Insert, Claim
  <2>2. Claimed \subseteq Claimed' /\ nextSeq \in Claimed'
    BY <2>1 DEF Claimed
  <2>3. OpenWriter \subseteq OpenWriter'
    BY <2>2 DEF OpenWriter
  <2>4. writer' \in [Writer -> {Idle} \cup OpenWriter']
    <3>1. CASE \E p \in Project :
                 writer' = [writer EXCEPT ![w] = [pc |-> "open", project |-> p, seqs |-> {nextSeq}]]
      <4>1. PICK p \in Project :
               writer' = [writer EXCEPT ![w] = [pc |-> "open", project |-> p, seqs |-> {nextSeq}]]
        BY <3>1
      <4>2. [pc |-> "open", project |-> p, seqs |-> {nextSeq}] \in OpenWriter'
        BY <2>2 DEF OpenWriter
      <4> QED  BY <2>3, <4>1, <4>2
    <3>2. CASE /\ writer[w].pc = "open"
               /\ writer' = [writer EXCEPT ![w].seqs = writer[w].seqs \cup {nextSeq}]
      <4>1. writer[w] \in OpenWriter
        BY <3>2 DEF Idle
      <4>2. [writer[w] EXCEPT !.seqs = writer[w].seqs \cup {nextSeq}] \in OpenWriter'
        BY <2>2, <4>1 DEF OpenWriter
      <4> QED  BY <2>3, <3>2, <4>2
    <3> QED  BY <1>1, <3>1, <3>2 DEF Insert
  <2>5. FeedState \subseteq FeedState'
    BY <2>2 DEF FeedState
  <2>6. nextSeq' \in 1 .. (MaxSeq + 1)
    BY <2>1, FeedBoundAssumption
  <2>7. screen' \in [Screen -> FeedState']
    BY <1>1, <2>5 DEF Insert
  <2>8. acks' \subseteq [from : Screen, seq : Claimed', pc : {"update", "insert"}]
    BY <1>1, <2>2 DEF Insert
  <2>9. DOMAIN events' \subseteq Claimed' /\ events' \in [DOMAIN events' -> Project]
        /\ cursor' \in {0} \cup Claimed' /\ held' \subseteq Claimed' /\ acknowledged' \subseteq Claimed'
        /\ swallowed' \subseteq [from : Screen, seq : Claimed']
    BY <1>1, <2>2 DEF Insert
  <2>10. faults' \in Nat
    BY <1>1 DEF Insert
  <2> QED  BY <2>4, <2>6, <2>7, <2>8, <2>9, <2>10
<1>2. ASSUME NEW w \in Writer, Commit(w) PROVE TypeOK'
  <2>1. writer[w] \in OpenWriter
    BY <1>2 DEF Commit, Idle
  <2>2. [writer[w] EXCEPT !.pc = "committed"] \in OpenWriter
    BY <2>1 DEF OpenWriter
  <2>3. writer' \in [Writer -> {Idle} \cup OpenWriter]
    BY <1>2, <2>2 DEF Commit
  <2>4. writer[w].seqs \subseteq Claimed /\ writer[w].project \in Project
    BY <2>1 DEF OpenWriter
  <2>5. DOMAIN events' = DOMAIN events \cup writer[w].seqs
        /\ events' \in [DOMAIN events \cup writer[w].seqs -> Project]
    BY <1>2, <2>4 DEF Commit
  <2> QED  BY <1>2, <2>3, <2>4, <2>5 DEF Commit, Claimed, OpenWriter, FeedState
<1>3. ASSUME NEW w \in Writer, Rollback(w) PROVE TypeOK'
  BY <1>3 DEF Rollback, Claimed, OpenWriter, FeedState
<1>4. ASSUME NEW w \in Writer, Publish(w) PROVE TypeOK'
  <2>1. writer[w] \in OpenWriter
    BY <1>4 DEF Publish, Publishable, Idle
  <2>2. Highest(writer[w].seqs) \in Claimed
    <3>1. nextSeq - 1 \in Nat
      BY FeedBoundAssumption
    <3>2. writer[w].seqs \in SUBSET Claimed /\ writer[w].seqs # {}
      BY <2>1 DEF OpenWriter
    <3> QED  BY <3>1, <3>2, HighestIsIn DEF Claimed
  <2>3. \A s \in Screen : Arrive(screen[s], writer[w].seqs) \in FeedState
    <3> SUFFICES ASSUME NEW s \in Screen PROVE Arrive(screen[s], writer[w].seqs) \in FeedState
      OBVIOUS
    <3> DEFINE x == screen[s]
               y == [x EXCEPT !.live = x.live \cup writer[w].seqs, !.top = Highest(writer[w].seqs)]
    <3>0. writer[w].seqs \in SUBSET Claimed /\ x.live \in SUBSET Claimed
      BY <2>1 DEF FeedState, OpenWriter
    <3>1. y \in FeedState
      BY <2>2, <3>0, ArrivalTyped
    <3>2. Arrive(x, writer[w].seqs) = Rearmed(x, y)
      BY DEF Arrive
    <3> HIDE DEF y
    <3> QED  BY <3>1, <3>2, RearmedTyped
  <2>4. screen' \in [Screen -> FeedState]
    BY <1>4, <2>3 DEF Publish
  <2>5. held' \subseteq Claimed
    <3>1. \A s \in Screen : Listed(screen'[s]) \subseteq Claimed
      BY <2>4 DEF Listed, FeedState
    <3> QED  BY <1>4, <3>1 DEF Publish
  <2> QED  BY <1>4, <2>4, <2>5 DEF Publish, Claimed, OpenWriter, FeedState
<1>5. ASSUME NEW s \in Screen, NEW view \in View, Mount(s, view) PROVE TypeOK'
  <2> DEFINE y == [NoFeed(screen[s].up) EXCEPT !.mounted = TRUE, !.view = view, !.fetch = "sent"]
  <2>1. y \in FeedState
    BY ViewAssumption DEF NoFeed, FeedState
  <2>2. Becomes(s, y)
    BY <1>5 DEF Mount
  <2> HIDE DEF y
  <2> QED  BY <1>5, <2>1, <2>2, BecomesTyped DEF Mount, server, Claimed, OpenWriter, FeedState
<1>6. ASSUME NEW s \in Screen, Unmount(s) PROVE TypeOK'
  <2>1. NoFeed(screen[s].up) \in FeedState
    BY DEF NoFeed, FeedState
  <2> QED  BY <1>6, <2>1, BecomesTyped DEF Unmount, server, Claimed, OpenWriter, FeedState
<1>7. ASSUME NEW s \in Screen, ServePage(s) PROVE TypeOK'
  <2> DEFINE y == [screen[s] EXCEPT !.fetch = "served", !.answer = PageOf(screen[s].view)]
  <2>1. PageOf(screen[s].view) \subseteq Claimed
    BY DEF PageOf, Visible
  <2>2. y \in FeedState
    BY <2>1 DEF FeedState
  <2>3. Becomes(s, y)
    BY <1>7 DEF ServePage
  <2> HIDE DEF y
  <2> QED  BY <1>7, <2>2, <2>3, BecomesTyped DEF ServePage, server, Claimed, OpenWriter, FeedState
<1>8. ASSUME NEW s \in Screen, PageArrives(s) PROVE TypeOK'
  <2> DEFINE x == screen[s]
             y == [x EXCEPT !.fetch = "none", !.answer = {}, !.page = x.answer,
                            !.live = {}, !.top = 0, !.error = FALSE]
  <2>1. y \in FeedState
    BY DEF FeedState
  <2>2. Becomes(s, Rearmed(x, y))
    BY <1>8 DEF PageArrives
  <2>3. Rearmed(x, y) \in FeedState
    <3> HIDE DEF y
    <3> QED  BY <2>1, RearmedTyped
  <2> HIDE DEF y
  <2> QED  BY <1>8, <2>2, <2>3, BecomesTyped DEF PageArrives, server, Claimed, OpenWriter, FeedState
<1>9. ASSUME NEW s \in Screen, FetchFails(s) PROVE TypeOK'
  <2> DEFINE y == [screen[s] EXCEPT !.fetch = "none", !.answer = {}, !.error = TRUE]
  <2>1. y \in FeedState
    BY DEF FeedState
  <2>2. Becomes(s, y)
    BY <1>9 DEF FetchFails
  <2> HIDE DEF y
  <2> QED  BY <1>9, <2>1, <2>2, BecomesTyped DEF FetchFails, server, Claimed, OpenWriter, FeedState
<1>10. ASSUME NEW s \in Screen, Retry(s) PROVE TypeOK'
  <2> DEFINE y == [screen[s] EXCEPT !.fetch = "sent"]
  <2>1. y \in FeedState
    BY DEF FeedState
  <2>2. Becomes(s, y)
    BY <1>10 DEF Retry
  <2> HIDE DEF y
  <2> QED  BY <1>10, <2>1, <2>2, BecomesTyped DEF Retry, server, Claimed, OpenWriter, FeedState
<1>11. ASSUME NEW s \in Screen, Ack(s) PROVE TypeOK'
  <2>1. [screen[s] EXCEPT !.armed = FALSE] \in FeedState
    BY DEF FeedState
  <2>2. Newest(screen[s]) \in {0} \cup Claimed
    BY NewestTyped
  <2>3. Newest(screen[s]) \in Claimed
    BY <1>11, <2>2 DEF Ack
  <2>4. screen' \in [Screen -> FeedState]
    BY <1>11, <2>1 DEF Ack
  <2> QED  BY <1>11, <2>3, <2>4 DEF Ack, Claimed, OpenWriter, FeedState
<1>12. ASSUME NEW s \in Screen, Drop(s) PROVE TypeOK'
  <2>1. Down(screen[s]) \in FeedState
    BY DEF Down, FeedState
  <2>2. screen' \in [Screen -> FeedState]
    BY <1>12, <2>1 DEF Drop
  <2>3. acks' \subseteq acks
    BY <1>12 DEF Drop
  <2> QED  BY <1>12, <2>2, <2>3 DEF Drop, Claimed, OpenWriter, FeedState
<1>13. ASSUME NEW s \in Screen, Reconnect(s) PROVE TypeOK'
  <2> DEFINE b == Newest(screen[s]) > 0
  <2>1. b \in BOOLEAN
    OBVIOUS
  <2>2. Reconnected(screen[s]) = [screen[s] EXCEPT !.up = TRUE, !.armed = b]
    BY DEF Reconnected
  <2>3. Reconnected(screen[s]) \in FeedState
    <3>1. screen[s] \in FeedState
      OBVIOUS
    <3>2. screen[s].live \in SUBSET Claimed
      BY <3>1 DEF FeedState
    <3> HIDE DEF b
    <3> QED  BY <2>1, <2>2, <3>1 DEF FeedState
  <2>4. screen' \in [Screen -> FeedState]
    BY <1>13, <2>3 DEF Reconnect
  <2> QED  BY <1>13, <2>4 DEF Reconnect, server, Claimed, OpenWriter, FeedState
<1>14. ASSUME NEW a \in acks, AckUpdate(a) PROVE TypeOK'
  <2>1. a.seq \in Claimed /\ [a EXCEPT !.pc = "insert"]
           \in [from : Screen, seq : Claimed, pc : {"update", "insert"}]
    OBVIOUS
  <2> QED  BY <1>14, <2>1 DEF AckUpdate, Claimed, OpenWriter, FeedState
<1>15. ASSUME NEW a \in acks, AckInsert(a) PROVE TypeOK'
  BY <1>15 DEF AckInsert, Claimed, OpenWriter, FeedState
<1>16. ASSUME NEW a \in acks, AckFails(a) PROVE TypeOK'
  <2>1. Sent(a.from, a.seq) \in [from : Screen, seq : Claimed]
    BY DEF Sent
  <2> QED  BY <1>16, <2>1 DEF AckFails, Claimed, OpenWriter, FeedState
<1>17. ASSUME Restart PROVE TypeOK'
  <2>1. \A s \in Screen : Down(screen[s]) \in FeedState
    BY DEF Down, FeedState
  <2>2. screen' \in [Screen -> FeedState]
    BY <1>17, <2>1 DEF Restart
  <2> QED  BY <1>17, <2>2 DEF Restart, Claimed, OpenWriter, FeedState
<1>18. ASSUME UNCHANGED vars PROVE TypeOK'
  BY <1>18 DEF vars, Claimed, OpenWriter, FeedState
<1> QED
  BY <1>1, <1>2, <1>3, <1>4, <1>5, <1>6, <1>7, <1>8, <1>9, <1>10, <1>11, <1>12, <1>13, <1>14,
     <1>15, <1>16, <1>17, <1>18
  DEF Next, WriterStep, ScreenStep

\* Everything that names an event names a number the sequence has given out.
THEOREM TypeCorrect == Spec => []TypeOK
<1>1. Init => TypeOK
  BY TypeInit
<1>2. TypeOK /\ [Next]_vars => TypeOK'
  BY TypeNext
<1> QED  BY <1>1, <1>2, PTL DEF Spec

-----------------------------------------------------------------------------
(* Only committed events reach a list *)

\* What a feed has, or has been answered, is in the log and in its history; the
\* last live event to arrive is one of its live events.
SoundFeed(x) ==
    /\ x.answer \subseteq DOMAIN events
    /\ Listed(x) \subseteq held
    /\ x.live # {} => x.top \in x.live

\* The strengthening of OnlyCommittedIsHeld that is inductive: it speaks of what
\* is about to be published and of the pages on their way, too.
Sound ==
    /\ \A w \in Writer : writer[w].pc = "committed" => writer[w].seqs \subseteq DOMAIN events
    /\ \A s \in Screen : SoundFeed(screen[s])
    /\ held \subseteq DOMAIN events

LEMMA RearmedKeeps ==
    ASSUME NEW x \in FeedState, NEW y \in FeedState
    PROVE  /\ Rearmed(x, y).answer = y.answer
           /\ Rearmed(x, y).page = y.page
           /\ Rearmed(x, y).live = y.live
           /\ Rearmed(x, y).top = y.top
BY DEF Rearmed, FeedState

\* A step of one tab that lists nothing but events of the log keeps Sound.
LEMMA BecomesSound ==
    ASSUME TypeOK, Sound, NEW s \in Screen, NEW y, Becomes(s, y), UNCHANGED <<events, writer>>,
           y.answer \subseteq DOMAIN events, Listed(y) \subseteq DOMAIN events,
           y.live # {} => y.top \in y.live
    PROVE  Sound'
<1>1. held' = held \cup Listed(y) /\ screen' = [screen EXCEPT ![s] = y]
  BY DEF Becomes
<1>2. \A r \in Screen : screen'[r] = IF r = s THEN y ELSE screen[r]
  BY <1>1 DEF TypeOK
<1>3. ASSUME NEW r \in Screen PROVE SoundFeed(screen[r])'
  <2>1. CASE r = s
    BY <1>1, <1>2, <2>1 DEF SoundFeed, Listed
  <2>2. CASE r # s
    BY <1>1, <1>2, <2>2 DEF SoundFeed, Sound, Listed
  <2> QED  BY <2>1, <2>2
<1> QED  BY <1>1, <1>3 DEF Sound

\* So does a step that leaves the lists alone.
LEMMA ListsKeptSound ==
    ASSUME TypeOK, Sound, held' = held, UNCHANGED <<events, writer>>,
           \A s \in Screen : /\ screen'[s].answer = screen[s].answer
                             /\ screen'[s].page = screen[s].page
                             /\ screen'[s].live = screen[s].live
                             /\ screen'[s].top = screen[s].top
    PROVE  Sound'
BY DEF Sound, SoundFeed, Listed

LEMMA SoundInit == ASSUME Init PROVE Sound
<1>1. \A s \in Screen : screen[s] = NoFeed(TRUE)
  BY DEF Init
<1>2. SoundFeed(NoFeed(TRUE))
  BY DEF SoundFeed, NoFeed, Listed
<1>3. \A w \in Writer : writer[w].pc # "committed"
  BY DEF Init, Idle
<1> QED  BY <1>1, <1>2, <1>3 DEF Init, Sound

LEMMA SoundNext == ASSUME TypeOK, Sound, [Next]_vars PROVE Sound'
<1>1. ASSUME NEW w \in Writer, Insert(w) PROVE Sound'
  <2>1. \A v \in Writer : writer'[v].pc = "committed" => writer'[v] = writer[v]
    <3> SUFFICES ASSUME NEW v \in Writer, v = w PROVE writer'[v].pc # "committed"
      BY <1>1 DEF Insert, TypeOK
    <3>1. CASE \E p \in Project :
                 writer' = [writer EXCEPT ![w] = [pc |-> "open", project |-> p, seqs |-> {nextSeq}]]
      BY <3>1 DEF TypeOK
    <3>2. CASE /\ writer[w].pc = "open"
               /\ writer' = [writer EXCEPT ![w].seqs = writer[w].seqs \cup {nextSeq}]
      <4>1. writer[w] \in OpenWriter
        BY <3>2 DEF Idle, TypeOK
      <4>2. [writer[w] EXCEPT !.seqs = writer[w].seqs \cup {nextSeq}].pc = "open"
        BY <3>2, <4>1 DEF OpenWriter
      <4> QED  BY <3>2, <4>2 DEF TypeOK
    <3> QED  BY <1>1, <3>1, <3>2 DEF Insert
  <2> QED  BY <1>1, <2>1 DEF Insert, Sound, SoundFeed
<1>2. ASSUME NEW w \in Writer, Commit(w) PROVE Sound'
  <2>1. writer[w] \in OpenWriter
    BY <1>2 DEF Commit, Idle, TypeOK
  <2>2. DOMAIN events' = DOMAIN events \cup writer[w].seqs
    BY <1>2 DEF Commit
  <2>3. \A v \in Writer : writer'[v].seqs = writer[v].seqs /\ (v # w => writer'[v] = writer[v])
    BY <1>2, <2>1 DEF Commit, TypeOK, OpenWriter
  <2>4. \A v \in Writer : writer'[v].pc = "committed" => writer'[v].seqs \subseteq DOMAIN events'
    BY <2>2, <2>3 DEF Sound
  <2> QED  BY <1>2, <2>2, <2>4 DEF Commit, Sound, SoundFeed
<1>3. ASSUME NEW w \in Writer, Rollback(w) PROVE Sound'
  <2>1. \A v \in Writer : writer'[v].pc = "committed" => writer'[v] = writer[v]
    BY <1>3 DEF Rollback, TypeOK, Idle
  <2> QED  BY <1>3, <2>1 DEF Rollback, Sound, SoundFeed
<1>4. ASSUME NEW w \in Writer, Publish(w) PROVE Sound'
  <2> DEFINE seqs == writer[w].seqs
  <2>1. writer[w] \in OpenWriter /\ seqs \subseteq DOMAIN events
    BY <1>4 DEF Publish, Publishable, Idle, TypeOK, Sound
  <2>2. Highest(seqs) \in seqs
    <3>1. nextSeq - 1 \in Nat
      BY FeedBoundAssumption DEF TypeOK
    <3>2. seqs \in SUBSET (1 .. (nextSeq - 1)) /\ seqs # {}
      BY <2>1 DEF OpenWriter, Claimed
    <3> HIDE DEF seqs
    <3> QED  BY <3>1, <3>2, HighestIsIn
  <2>3. Highest(seqs) \in Claimed /\ seqs \in SUBSET Claimed
    BY <2>1, <2>2 DEF OpenWriter
  <2>4. ASSUME NEW s \in Screen
        PROVE  /\ screen'[s].answer = screen[s].answer
               /\ screen'[s].page = screen[s].page
               /\ \/ screen'[s].live = screen[s].live /\ screen'[s].top = screen[s].top
                  \/ screen'[s].live = screen[s].live \cup seqs /\ screen'[s].top = Highest(seqs)
    <3> DEFINE x == screen[s]
               y == [x EXCEPT !.live = x.live \cup seqs, !.top = Highest(seqs)]
    <3>1. x \in FeedState
      BY DEF TypeOK
    <3>2. x.live \cup seqs \in SUBSET Claimed
      BY <2>3, <3>1 DEF FeedState
    <3>3. y \in FeedState
      BY <2>3, <3>1, <3>2, ArrivalTyped
    <3>4. /\ y.answer = x.answer /\ y.page = x.page
          /\ y.live = x.live \cup seqs /\ y.top = Highest(seqs)
      BY <3>1 DEF FeedState
    <3>5. Arrive(x, seqs) = Rearmed(x, y)
      BY DEF Arrive
    <3>6. screen'[s] = Arrive(x, seqs) \/ screen'[s] = x
      BY <1>4 DEF Publish
    <3> HIDE DEF y
    <3> QED  BY <3>1, <3>3, <3>4, <3>5, <3>6, RearmedKeeps
  <2>5. held' = held \cup UNION {Listed(screen'[s]) : s \in Screen}
    BY <1>4 DEF Publish
  <2>6. \A s \in Screen : Listed(screen'[s]) \subseteq held \cup seqs
    BY <2>4 DEF Listed, Sound, SoundFeed
  <2>7. held' \subseteq DOMAIN events
    BY <2>1, <2>5, <2>6 DEF Sound
  <2>8. \A s \in Screen : SoundFeed(screen[s])'
    <3> SUFFICES ASSUME NEW s \in Screen PROVE SoundFeed(screen[s])'
      OBVIOUS
    <3>1. events' = events
      BY <1>4 DEF Publish
    <3>2. Listed(screen'[s]) \subseteq held'
      BY <2>5
    <3>3. screen'[s].live # {} => screen'[s].top \in screen'[s].live
      BY <2>2, <2>4 DEF Sound, SoundFeed
    <3> QED  BY <2>4, <3>1, <3>2, <3>3 DEF Sound, SoundFeed, Listed
  <2>9. \A v \in Writer : writer'[v].pc = "committed" => writer'[v] = writer[v]
    BY <1>4 DEF Publish, TypeOK, Idle
  <2> QED  BY <1>4, <2>7, <2>8, <2>9 DEF Publish, Sound
<1>5. ASSUME NEW s \in Screen, NEW view \in View, Mount(s, view) PROVE Sound'
  <2> DEFINE y == [NoFeed(screen[s].up) EXCEPT !.mounted = TRUE, !.view = view, !.fetch = "sent"]
  <2>1. y.answer = {} /\ y.live = {} /\ y.page = {}
    BY DEF NoFeed
  <2>2. Becomes(s, y)
    BY <1>5 DEF Mount
  <2> HIDE DEF y
  <2> QED  BY <1>5, <2>1, <2>2, BecomesSound DEF Mount, server, Listed
<1>6. ASSUME NEW s \in Screen, Unmount(s) PROVE Sound'
  <2> DEFINE y == NoFeed(screen[s].up)
  <2>1. y.answer = {} /\ y.live = {} /\ y.page = {}
    BY DEF NoFeed
  <2>2. Becomes(s, y)
    BY <1>6 DEF Unmount
  <2> HIDE DEF y
  <2> QED  BY <1>6, <2>1, <2>2, BecomesSound DEF Unmount, server, Listed
<1>7. ASSUME NEW s \in Screen, ServePage(s) PROVE Sound'
  <2> DEFINE x == screen[s]
             y == [x EXCEPT !.fetch = "served", !.answer = PageOf(x.view)]
  <2>1. y.answer = PageOf(x.view) /\ y.page = x.page /\ y.live = x.live /\ y.top = x.top
    BY DEF TypeOK, FeedState
  <2>2. PageOf(x.view) \subseteq DOMAIN events
    BY DEF PageOf, Visible
  <2>3. Becomes(s, y)
    BY <1>7 DEF ServePage
  <2>4. Listed(x) \subseteq DOMAIN events /\ (x.live # {} => x.top \in x.live)
    BY DEF Sound, SoundFeed
  <2> HIDE DEF x, y
  <2> QED  BY <1>7, <2>1, <2>2, <2>3, <2>4, BecomesSound DEF ServePage, server, Listed
<1>8. ASSUME NEW s \in Screen, PageArrives(s) PROVE Sound'
  <2> DEFINE x == screen[s]
             y == [x EXCEPT !.fetch = "none", !.answer = {}, !.page = x.answer,
                            !.live = {}, !.top = 0, !.error = FALSE]
             z == Rearmed(x, y)
  <2>1. x \in FeedState /\ y \in FeedState
    BY DEF TypeOK, FeedState
  <2>2. y.answer = {} /\ y.page = x.answer /\ y.live = {}
    BY <2>1 DEF FeedState
  <2>3. z.answer = {} /\ z.page = x.answer /\ z.live = {}
    <3> HIDE DEF x, y
    <3> QED  BY <2>1, <2>2, RearmedKeeps
  <2>4. Becomes(s, z)
    BY <1>8 DEF PageArrives
  <2>5. x.answer \subseteq DOMAIN events
    BY DEF Sound, SoundFeed
  <2> HIDE DEF x, y, z
  <2> QED  BY <1>8, <2>3, <2>4, <2>5, BecomesSound DEF PageArrives, server, Listed
<1>9. ASSUME NEW s \in Screen, FetchFails(s) PROVE Sound'
  <2> DEFINE x == screen[s]
             y == [x EXCEPT !.fetch = "none", !.answer = {}, !.error = TRUE]
  <2>1. y.answer = {} /\ y.page = x.page /\ y.live = x.live /\ y.top = x.top
    BY DEF TypeOK, FeedState
  <2>2. Becomes(s, y)
    BY <1>9 DEF FetchFails
  <2>3. Listed(x) \subseteq DOMAIN events /\ (x.live # {} => x.top \in x.live)
    BY DEF Sound, SoundFeed
  <2> HIDE DEF x, y
  <2> QED  BY <1>9, <2>1, <2>2, <2>3, BecomesSound DEF FetchFails, server, Listed
<1>10. ASSUME NEW s \in Screen, Retry(s) PROVE Sound'
  <2> DEFINE x == screen[s]
             y == [x EXCEPT !.fetch = "sent"]
  <2>1. y.answer = x.answer /\ y.page = x.page /\ y.live = x.live /\ y.top = x.top
    BY DEF TypeOK, FeedState
  <2>2. Becomes(s, y)
    BY <1>10 DEF Retry
  <2>3. /\ x.answer \subseteq DOMAIN events /\ Listed(x) \subseteq DOMAIN events
        /\ x.live # {} => x.top \in x.live
    BY DEF Sound, SoundFeed
  <2> HIDE DEF x, y
  <2> QED  BY <1>10, <2>1, <2>2, <2>3, BecomesSound DEF Retry, server, Listed
<1>11. ASSUME NEW s \in Screen, Ack(s) PROVE Sound'
  BY <1>11, ListsKeptSound DEF Ack, TypeOK, FeedState
<1>12. ASSUME NEW s \in Screen, Drop(s) PROVE Sound'
  BY <1>12, ListsKeptSound DEF Drop, Down, TypeOK, FeedState
<1>13. ASSUME NEW s \in Screen, Reconnect(s) PROVE Sound'
  BY <1>13, ListsKeptSound DEF Reconnect, Reconnected, server, TypeOK, FeedState
<1>14. ASSUME NEW a \in acks, AckUpdate(a) \/ AckInsert(a) \/ AckFails(a) PROVE Sound'
  BY <1>14, ListsKeptSound DEF AckUpdate, AckInsert, AckFails
<1>15. ASSUME Restart PROVE Sound'
  <2>1. \A s \in Screen : /\ screen'[s].answer = screen[s].answer
                          /\ screen'[s].page = screen[s].page
                          /\ screen'[s].live = screen[s].live
                          /\ screen'[s].top = screen[s].top
    BY <1>15 DEF Restart, Down, TypeOK, FeedState
  <2>2. \A w \in Writer : writer'[w].pc # "committed"
    BY <1>15 DEF Restart, Idle
  <2> QED  BY <1>15, <2>1, <2>2 DEF Restart, Sound, SoundFeed, Listed
<1>16. ASSUME UNCHANGED vars PROVE Sound'
  BY <1>16 DEF vars, Sound, SoundFeed
<1> QED
  BY <1>1, <1>2, <1>3, <1>4, <1>5, <1>6, <1>7, <1>8, <1>9, <1>10, <1>11, <1>12, <1>13, <1>14,
     <1>15, <1>16
  DEF Next, WriterStep, ScreenStep

\* Nothing reaches the list of a feed before it is committed, whatever open
\* transactions do and however often pages and connections fail.
THEOREM CommittedCorrect == Spec => []OnlyCommittedIsHeld
<1>1. Init => Sound
  BY SoundInit
<1>2. TypeOK /\ Sound /\ [Next]_vars => Sound'
  BY SoundNext
<1>3. Sound => OnlyCommittedIsHeld
  BY DEF Sound, OnlyCommittedIsHeld
<1> QED  BY <1>1, <1>2, <1>3, TypeCorrect, PTL DEF Spec

-----------------------------------------------------------------------------
(* The cursor never runs ahead of the feeds *)

\* What is acknowledged has been in a list, and so has what the cursor says
\* once it has moved.
Acknowledged ==
    /\ \A a \in acks : a.seq \in held
    /\ cursor \in {InitialCursor} \cup held

\* The first event of a feed is one of its events.
LEMMA NewestIsListed ==
    ASSUME TypeOK, Sound, NEW s \in Screen, Newest(screen[s]) > 0
    PROVE  Newest(screen[s]) \in held
<1> DEFINE x == screen[s]
<1>1. x \in FeedState /\ SoundFeed(x)
  BY DEF TypeOK, Sound
<1>2. nextSeq - 1 \in Nat
  BY FeedBoundAssumption DEF TypeOK
<1>3. x.page # {} => Highest(x.page) \in x.page
  BY <1>1, <1>2, HighestIsIn DEF FeedState, Claimed
<1>4. x.page = {} => Highest(x.page) = 0
  BY DEF Highest
<1>5. ~(0 > 0)
  OBVIOUS
<1>6. Newest(x) \in Listed(x)
  BY <1>1, <1>3, <1>4, <1>5 DEF Newest, Listed, SoundFeed
<1> QED  BY <1>1, <1>6 DEF SoundFeed

LEMMA HistoryGrows == ASSUME TypeOK, [Next]_vars PROVE held \subseteq held'
BY DEF Next, vars, WriterStep, ScreenStep, Insert, Commit, Rollback, Publish, Mount, Unmount,
       ServePage, PageArrives, FetchFails, Retry, Becomes, Ack, Drop, Reconnect, AckUpdate,
       AckInsert, AckFails, Restart

LEMMA AcknowledgedNext ==
    ASSUME TypeOK, Sound, Acknowledged, [Next]_vars
    PROVE  Acknowledged'
<1>1. held \subseteq held'
  BY HistoryGrows
<1>2. ASSUME NEW s \in Screen, Ack(s) PROVE Acknowledged'
  <2>1. Newest(screen[s]) \in held
    BY <1>2, NewestIsListed DEF Ack
  <2> QED  BY <1>1, <1>2, <2>1 DEF Ack, Acknowledged
<1>3. ASSUME NEW a \in acks, AckUpdate(a) PROVE Acknowledged'
  <2>1. [a EXCEPT !.pc = "insert"].seq = a.seq
    BY DEF TypeOK
  <2> QED  BY <1>1, <1>3, <2>1 DEF AckUpdate, Acknowledged
<1>4. ASSUME NEW a \in acks, AckInsert(a) PROVE Acknowledged'
  BY <1>1, <1>4 DEF AckInsert, Acknowledged
<1>5. ASSUME acks' \subseteq acks, cursor' = cursor PROVE Acknowledged'
  BY <1>1, <1>5 DEF Acknowledged
<1>6. ASSUME NEW s \in Screen, Drop(s) PROVE Acknowledged'
  BY <1>5, <1>6 DEF Drop
<1>7. ASSUME Restart PROVE Acknowledged'
  BY <1>5, <1>7 DEF Restart
<1>8. ASSUME NEW w \in Writer, WriterStep(w) PROVE Acknowledged'
  BY <1>5, <1>8 DEF WriterStep, Insert, Commit, Rollback, Publish
<1>9. ASSUME NEW s \in Screen, ScreenStep(s), ~Ack(s), ~Drop(s) PROVE Acknowledged'
  BY <1>5, <1>9 DEF ScreenStep, Mount, Unmount, ServePage, PageArrives, FetchFails, Retry,
                    Reconnect, server
<1>10. ASSUME NEW a \in acks, AckFails(a) PROVE Acknowledged'
  BY <1>5, <1>10 DEF AckFails
<1>11. ASSUME UNCHANGED vars PROVE Acknowledged'
  BY <1>5, <1>11 DEF vars
<1> QED  BY <1>2, <1>3, <1>4, <1>6, <1>7, <1>8, <1>9, <1>10, <1>11 DEF Next

\* The account is told of every event that is newer than everything its feeds
\* have had: acknowledgements that overtake one another, repeat or get lost never
\* move the cursor past it.
THEOREM NewsCorrect == Spec => []NewsIsReported
<1>1. Init => Sound /\ Acknowledged
  BY SoundInit DEF Init, Acknowledged
<1>2. TypeOK /\ Sound /\ Acknowledged /\ [Next]_vars => Sound' /\ Acknowledged'
  BY SoundNext, AcknowledgedNext
<1>3. Acknowledged => NewsIsReported
  BY DEF Acknowledged, NewsIsReported, Missed
<1> QED  BY <1>1, <1>2, <1>3, TypeCorrect, PTL DEF Spec

-----------------------------------------------------------------------------
(* An acknowledgement is one step of the high-water mark *)

\* An account that has a cursor row keeps it, and an acknowledgement that found
\* nothing to raise stays below the cursor until its second statement.
Caught ==
    InitialCursor > 0 =>
        /\ cursor > 0
        /\ \A a \in acks : a.pc = "insert" => a.seq <= cursor

LEMMA CaughtNext == ASSUME TypeOK, Caught, [Next]_vars PROVE Caught'
<1> SUFFICES ASSUME InitialCursor > 0
             PROVE  cursor' > 0 /\ \A a \in acks' : a.pc = "insert" => a.seq <= cursor'
  BY DEF Caught
<1>1. /\ cursor > 0 /\ cursor \in Nat
      /\ \A a \in acks : a.seq \in Nat /\ (a.pc = "insert" => a.seq <= cursor)
  BY DEF Caught, TypeOK, Claimed
<1>2. ASSUME NEW s \in Screen, Ack(s)
      PROVE  cursor' > 0 /\ \A a \in acks' : a.pc = "insert" => a.seq <= cursor'
  BY <1>1, <1>2 DEF Ack
<1>3. ASSUME NEW a \in acks, AckUpdate(a)
      PROVE  cursor' > 0 /\ \A b \in acks' : b.pc = "insert" => b.seq <= cursor'
  <2>1. [a EXCEPT !.pc = "insert"].seq = a.seq
    BY DEF TypeOK
  <2>2. CASE RaisesCursor(a.seq)
    BY <1>1, <1>3, <2>2 DEF AckUpdate, RaisesCursor
  <2>3. CASE ~RaisesCursor(a.seq)
    <3>1. a.seq <= cursor
      BY <1>1, <2>3 DEF RaisesCursor
    <3> QED  BY <1>1, <1>3, <2>1, <2>3, <3>1 DEF AckUpdate
  <2> QED  BY <2>2, <2>3
<1>4. ASSUME NEW a \in acks, AckInsert(a)
      PROVE  cursor' > 0 /\ \A b \in acks' : b.pc = "insert" => b.seq <= cursor'
  BY <1>1, <1>4 DEF AckInsert
<1>5. ASSUME acks' \subseteq acks, cursor' = cursor
      PROVE  cursor' > 0 /\ \A a \in acks' : a.pc = "insert" => a.seq <= cursor'
  BY <1>1, <1>5
<1>6. \/ acks' \subseteq acks /\ cursor' = cursor
      \/ \E s \in Screen : Ack(s)
      \/ \E a \in acks : AckUpdate(a) \/ AckInsert(a)
  BY DEF Next, vars, server, WriterStep, ScreenStep, Insert, Commit, Rollback, Publish, Mount,
         Unmount, ServePage, PageArrives, FetchFails, Retry, Drop, Reconnect, AckFails,
         Restart
<1> QED  BY <1>2, <1>3, <1>4, <1>5, <1>6

LEMMA MarkStep ==
    ASSUME TypeOK, Caught, InitialCursor > 0, [Next]_vars
    PROVE  [Mark!Next]_<<cursor, acknowledged>>
<1>1. /\ cursor > 0 /\ cursor \in Nat
      /\ \A a \in acks : a.seq \in Seqs /\ (a.pc = "insert" => a.seq <= cursor)
  BY FeedBoundAssumption DEF Caught, TypeOK, Claimed, Seqs
<1>2. ASSUME NEW a \in acks, AckUpdate(a)
      PROVE  UNCHANGED <<cursor, acknowledged>> \/ Mark!Acknowledge(a.seq)
  BY <1>1, <1>2 DEF AckUpdate, RaisesCursor, Mark!Acknowledge
<1>3. ASSUME NEW a \in acks, AckInsert(a) PROVE Mark!Acknowledge(a.seq)
  <2>1. a.seq <= cursor /\ a.seq \in Nat
    BY <1>1, <1>3 DEF AckInsert, Seqs
  <2>2. cursor' = cursor /\ ~(cursor < a.seq)
    BY <1>1, <1>3, <2>1 DEF AckInsert
  <2> QED  BY <1>3, <2>2 DEF AckInsert, Mark!Acknowledge
<1>4. \/ UNCHANGED <<cursor, acknowledged>>
      \/ \E a \in acks : AckUpdate(a) \/ AckInsert(a)
  BY DEF Next, vars, server, WriterStep, ScreenStep, Insert, Commit, Rollback, Publish, Mount,
         Unmount, ServePage, PageArrives, FetchFails, Retry, Ack, Drop, Reconnect, AckFails,
         Restart
<1> QED  BY <1>1, <1>2, <1>3, <1>4 DEF Mark!Next

\* For an account with a cursor row, the conditional update and the insert that
\* may follow it act together as one step of a high-water mark, however the
\* handlers of several acknowledgements interleave.
THEOREM CursorCorrect ==
    ASSUME InitialCursor > 0
    PROVE  Spec => CursorIsHighWater
<1>1. Init => Caught /\ Mark!Init
  BY FeedBoundAssumption DEF Init, Caught, Mark!Init
<1>2. TypeOK /\ Caught /\ [Next]_vars => Caught'
  BY CaughtNext
<1>3. TypeOK /\ Caught /\ [Next]_vars => [Mark!Next]_<<cursor, acknowledged>>
  BY MarkStep
<1> QED  BY <1>1, <1>2, <1>3, TypeCorrect, PTL DEF Spec, CursorIsHighWater, Mark!Spec

-----------------------------------------------------------------------------
(* An account with or without a cursor row *)

\* "A late or out-of-order acknowledgement can never rewind the cursor"
\* (activity.service.ts).
NeverRewinds == [][cursor <= cursor']_vars

\* The first acknowledgement that inserts the row may win over a higher one, so the
\* cursor of an account that had none is not the highest acknowledged number; but
\* it does not go back either, however the handlers interleave, and it stays on
\* numbers the screens had (NewsCorrect).
THEOREM RewindCorrect == Spec => NeverRewinds
<1>1. ASSUME TypeOK, [Next]_vars PROVE cursor <= cursor'
  <2>1. cursor \in Nat /\ \A a \in acks : a.seq \in Nat
    BY <1>1 DEF TypeOK, Claimed
  <2>2. ASSUME NEW a \in acks, AckUpdate(a) PROVE cursor <= cursor'
    BY <2>1, <2>2 DEF AckUpdate, RaisesCursor
  <2>3. ASSUME NEW a \in acks, AckInsert(a) PROVE cursor <= cursor'
    BY <2>1, <2>3 DEF AckInsert
  <2>4. cursor' = cursor \/ \E a \in acks : AckUpdate(a) \/ AckInsert(a)
    BY <1>1 DEF Next, vars, server, WriterStep, ScreenStep, Insert, Commit, Rollback, Publish,
                Mount, Unmount, ServePage, PageArrives, FetchFails, Retry, Ack, Drop, Reconnect,
                AckFails, Restart
  <2> QED  BY <2>1, <2>2, <2>3, <2>4
<1>2. TypeOK /\ [Next]_vars => [cursor <= cursor']_vars
  BY <1>1
<1> QED  BY <1>2, TypeCorrect, PTL DEF Spec, NeverRewinds
=============================================================================
