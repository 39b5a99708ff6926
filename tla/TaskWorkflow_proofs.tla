-------------------------- MODULE TaskWorkflow_proofs --------------------------
(***************************************************************************)
(* Proofs about TaskWorkflow for any number of tasks, learners and         *)
(* requests. The inductive invariant says what a request knows at each     *)
(* phase, that submissions are kept apart by the assignment and by their   *)
(* time, and that a computed completion stays right while the learner's    *)
(* lock is held. LockInv, above it, says which locks a request holds at    *)
(* each phase; from it follows where requests may wait in a circle. The    *)
(* last part is about requests that are handled one after the other.       *)
(***************************************************************************)
EXTENDS TaskWorkflow, FiniteSetTheorems, TLAPS

Active(r) == phase[r] \in {"read", "ready", "flushed", "scored"}

\* What a request has chosen and read by each phase.
ShapeOf(r) ==
    /\ phase[r] \in {"begun", "read", "ready", "flushed", "scored"} =>
        /\ kind[r] # "view" => task[r] \in Tasks
        /\ kind[r] = "view" => task[r] = "none"
        /\ kind[r] \in {"start", "submit", "mark", "view"} => who[r] \in Learners
        /\ kind[r] = "review" => want[r] \in Verdicts
        /\ kind[r] = "patch" => want[r] # "none"
    /\ phase[r] = "read" => kind[r] # "view"
    /\ phase[r] = "ready" => kind[r] \in {"start", "submit", "mark", "review"}
    /\ phase[r] = "flushed" => kind[r] # "view"
    /\ phase[r] = "scored" => kind[r] \in {"submit", "review", "view"}
    /\ kind[r] = "review" /\ Active(r) => who[r] \in Learners /\ seen[r].row = "submitted"
    /\ kind[r] = "review" /\ phase[r] \in {"ready", "flushed", "scored"} =>
          pick[r] \in work[task[r]][who[r]]

\* All of them, by kind.
Shape == \A r \in Requests : (phase[r] # "new" => kind[r] \in Kinds) /\ ShapeOf(r)

\* Rows stay; an individual task has one; a missing row is inserted for global tasks.
RowsKnown ==
    /\ \A t \in Tasks :
        /\ first[t].by = "none" <=> first[t].who = "nobody"
        /\ first[t].who = "nobody" => \A l \in Learners : status[t][l] = "none"
        /\ first[t].who # "nobody" => status[t][first[t].who] # "none"
        /\ scope[t] = "individual" =>
              \A l, k \in Learners : status[t][l] # "none" /\ status[t][k] # "none" => l = k
    /\ \A r \in Requests :
        /\ kind[r] \in {"start", "submit", "mark"} /\ Active(r) /\ seen[r].row = "none" =>
              scope[task[r]] = "all"
        /\ kind[r] \in {"start", "submit", "mark", "review"} /\ Active(r) /\ seen[r].row # "none" =>
              status[task[r]][who[r]] # "none"
        /\ kind[r] = "patch" /\ phase[r] = "flushed" =>
             IF who[r] = "nobody"
             THEN scope[task[r]] = "individual" => \A l \in Learners : status[task[r]][l] = "none"
             ELSE seen[r].row # "none" /\ status[task[r]][who[r]] # "none"

\* Submissions are committed, belong to their assignment and differ in time.
WorkIsApart ==
    /\ \A t \in Tasks, l \in Learners : \A q \in work[t][l] :
          task[q] = t /\ who[q] = l /\ phase[q] = "ended" /\ stamp[q] # 0
    /\ \A j \in judged : phase[j.sub] = "ended"
    /\ \A r \in Requests :
          phase[r] \in {"new", "begun"} \/ (phase[r] = "read" /\ ~Inserts(r)) => stamp[r] = 0
    /\ \A r \in Requests :
          kind[r] \in {"start", "submit", "mark"} /\ phase[r] \in {"ready", "flushed", "scored"} =>
             stamp[r] # 0

\* The time is taken once, and each time is later than the earlier ones.
TimesDiffer ==
    /\ \A r, q \in Requests : stamp[r] = stamp[q] /\ stamp[r] # 0 => r = q
    /\ \A r \in Requests : stamp[r] < Clock

\* A request that has computed the completion holds the learner, and its result
\* is what the learner's assignments will show.
ResultIsRight ==
    /\ \A r \in Requests : phase[r] = "scored" => userLock[who[r]] = r
    /\ \A r \in Requests :
          phase[r] = "scored" /\ who[r] \notin unscored => result[r] = Percent(StatusSeen(r))

IInv ==
    /\ TypeOK
    /\ Shape
    /\ RowsKnown
    /\ WorkIsApart
    /\ TimesDiffer
    /\ VerdictIsOnLatestWork
    /\ UnjudgedIsVisible
    /\ ResultIsRight
    /\ ScoreIsCurrent
    /\ TaskFollowsAssignment

\* A completion is one of those a learner's assignments can have.
LEMMA PercentIsScore ==
    ASSUME NEW st \in [Tasks -> Statuses \cup {"none"}]
    PROVE  Percent(st) \in Scores
  BY DEF Scores

\* The clock is a number above those taken, and ticks when one is taken.
LEMMA ClockTicks ==
    ASSUME TypeOK
    PROVE  /\ Clock \in Nat \ {0}
           /\ \A r \in Requests : stamp[r] = 0 /\ stamp' = [stamp EXCEPT ![r] = Clock]
                 => Clock' = Clock + 1
<1> DEFINE taken == {q \in Requests : stamp[q] # 0}
<1>1. IsFiniteSet(taken) /\ Cardinality(taken) \in Nat
  BY RequestsAssumption, FS_Subset, FS_CardinalityType
<1>2. Clock \in Nat \ {0}
  BY <1>1 DEF Clock
<1>3. ASSUME NEW r \in Requests, stamp[r] = 0, stamp' = [stamp EXCEPT ![r] = Clock]
      PROVE  Clock' = Clock + 1
  <2>1. {q \in Requests : stamp'[q] # 0} = taken \cup {r}
    BY <1>2, <1>3 DEF TypeOK
  <2>2. r \notin taken
    BY <1>3
  <2>3. Cardinality(taken \cup {r}) = Cardinality(taken) + 1
    BY <1>1, <2>2, FS_AddElement
  <2> QED
    BY <1>1, <2>1, <2>3 DEF Clock
<1> QED
  BY <1>2, <1>3

\* Otherwise it stands still.
LEMMA ClockStays == UNCHANGED stamp => Clock' = Clock
  BY DEF Clock

\* What a request leaves in the two status columns.
LEMMA NewValues ==
    ASSUME IInv, NEW r \in Requests, phase[r] \in {"read", "ready", "flushed", "scored"},
           kind[r] \in {"start", "submit", "mark", "review", "patch"}
    PROVE  /\ NewRow(r) \in Statuses
           /\ NewTask(r) \in TaskStatuses
           /\ AssignmentStatus(NewTask(r)) = NewRow(r)
           /\ kind[r] = "review" => NewRow(r) = want[r]
           /\ kind[r] = "review" => NewRow(r) # seen[r].row
  BY NamesAssumption DEF IInv, TypeOK, Shape, ShapeOf, Active, tables, locks, locals, history, Kinds, Phases, Statuses, TaskStatuses, Verdicts, NewRow, NewTask, Submits, AssignmentStatus, TaskStatus

\* What a commit does to the assignment and the task it is about.
LEMMA Committed ==
    ASSUME IInv, NEW r \in Requests, Commit(r)
    PROVE  /\ task[r] \in Tasks /\ who[r] \in Learners /\ kind[r] \in Kinds \ {"view"}
           /\ phase[r] \in {"flushed", "scored"}
           /\ RowAfter(r) \in Statuses
           /\ TaskAfter(r) \in TaskStatuses
           /\ NewRow(r) = seen[r].row => RowAfter(r) = status[task[r]][who[r]]
           /\ NewRow(r) # seen[r].row => RowAfter(r) = NewRow(r)
           /\ seen[r].row = "none" => NewRow(r) # seen[r].row
<1> USE NamesAssumption DEF IInv, TypeOK, Shape, ShapeOf, Active, tables, locks, locals, history, Kinds, Phases, Statuses, TaskStatuses, Verdicts
<1>1. task[r] \in Tasks /\ who[r] \in Learners /\ kind[r] \in Kinds \ {"view"} /\ phase[r] \in {"flushed", "scored"}
  BY DEF Commit, Recomputes
<1>2. NewRow(r) \in Statuses /\ NewTask(r) \in TaskStatuses
  BY <1>1, NewValues
<1>3. seen[r].row = "none" => NewRow(r) # seen[r].row
  BY <1>2
<1>4. NewRow(r) = seen[r].row => status[task[r]][who[r]] # "none"
  BY <1>1, <1>3 DEF RowsKnown
<1>5. status[task[r]][who[r]] \in Statuses \cup {"none"} /\ taskStatus[task[r]] \in TaskStatuses
  BY <1>1
<1> HIDE DEF IInv, TypeOK, Shape, ShapeOf, Active, tables, locks, locals, history, Kinds, Phases, Statuses, TaskStatuses, Verdicts
<1>6. RowAfter(r) \in Statuses /\ TaskAfter(r) \in TaskStatuses
  BY <1>2, <1>4, <1>5 DEF RowAfter, TaskAfter, Written
<1> QED
  BY <1>1, <1>3, <1>6 DEF RowAfter, Written

\* A stored completion is one that can be computed.
LEMMA ScoreTyped ==
    ASSUME IInv, NEW r \in Requests, phase[r] = "scored"
    PROVE  who[r] \in Learners /\ ScoreAfter(r) \in Scores
<1>1. who[r] \in Learners /\ result[r] \in Scores \cup {0} /\ score[who[r]] \in Scores
  BY DEF IInv, TypeOK, Shape, ShapeOf, Active, tables, locks, locals, history, Kinds, Phases, Statuses, TaskStatuses, Verdicts
<1>2. 0 \in Scores
  <2>1. [t \in Tasks |-> "none"] \in [Tasks -> Statuses \cup {"none"}]
    OBVIOUS
  <2>2. Percent([t \in Tasks |-> "none"]) = 0
    BY DEF Percent
  <2> QED
    BY <2>1, <2>2, PercentIsScore
<1> QED
  BY <1>1, <1>2 DEF ScoreAfter, Written

SeenType == [task : TaskStatuses, row : Statuses \cup {"none"}, score : Scores \cup {0}]

\* What is read has the right type.
LEMMA SeenTyped ==
    ASSUME TypeOK, NEW r \in Requests, NEW s \in Statuses \cup {"none"}, NEW c \in Scores
    PROVE  /\ [seen EXCEPT ![r].row = s] \in [Requests -> SeenType]
           /\ [seen EXCEPT ![r].score = c] \in [Requests -> SeenType]
<1>1. seen \in [Requests -> SeenType]
  BY DEF TypeOK, SeenType
<1>2. [seen[r] EXCEPT !.row = s] \in SeenType /\ [seen[r] EXCEPT !.score = c] \in SeenType
  BY <1>1 DEF SeenType
<1> QED
  BY <1>1, <1>2

\* The steps that read or lock keep the types of what they change.
LEMMA ReadTyped ==
    ASSUME IInv, NEW r \in Requests, ReadOwn(r) \/ ReadFirst(r) \/ ReadPatched(r)
    PROVE  seen' \in [Requests -> SeenType] /\ who' \in [Requests -> Learners \cup {"nobody"}]
<1>1. task[r] \in Tasks /\ (ReadOwn(r) => who[r] \in Learners) /\ who \in [Requests -> Learners \cup {"nobody"}]
  BY DEF IInv, TypeOK, Shape, ShapeOf, ReadOwn, ReadFirst, ReadPatched
<1>2. \A l \in Learners : status[task[r]][l] \in Statuses \cup {"none"}
  BY <1>1 DEF IInv, TypeOK
<1>3. first[task[r]].who \in Learners \cup {"nobody"}
  BY <1>1 DEF IInv, TypeOK
<1>4. PICK s \in Statuses \cup {"none"} : seen' = [seen EXCEPT ![r].row = s]
  BY <1>1, <1>2, <1>3 DEF ReadOwn, ReadFirst, ReadPatched
<1>5. \E c \in Scores : TRUE
  <2>1. [t \in Tasks |-> "none"] \in [Tasks -> Statuses \cup {"none"}]
    OBVIOUS
  <2> QED
    BY <2>1, PercentIsScore
<1>6. seen' \in [Requests -> SeenType]
  BY <1>4, <1>5, SeenTyped DEF IInv
<1> QED
  BY <1>1, <1>3, <1>6 DEF ReadOwn, ReadFirst, ReadPatched

LEMMA LockTyped ==
    ASSUME IInv, NEW r \in Requests,
           Insert(r) \/ Prepare(r) \/ Flush(r) \/ FlushTask(r) \/ Post(r) \/ Note(r)
    PROVE  /\ rowLock' \in [Tasks -> [Learners -> Requests \cup {"nobody"}]]
           /\ taskLock' \in [Tasks -> Requests \cup {"nobody"}]
           /\ share' \in [Learners -> SUBSET Requests]
<1>1. /\ task[r] \in Tasks /\ (~FlushTask(r) => who[r] \in Learners)
      /\ rowLock \in [Tasks -> [Learners -> Requests \cup {"nobody"}]]
      /\ taskLock \in [Tasks -> Requests \cup {"nobody"}]
      /\ share \in [Learners -> SUBSET Requests]
  BY DEF IInv, TypeOK, Shape, ShapeOf, Active, Insert, Prepare, Inserts, Flush, FlushTask, Post, Note, Kinds
<1>2. CASE FlushTask(r)
  BY <1>1, <1>2 DEF FlushTask
<1>3. CASE ~FlushTask(r)
  <2>1. rowLock' = rowLock \/ rowLock' = [rowLock EXCEPT ![task[r]][who[r]] = r]
    BY <1>3 DEF Insert, Prepare, Flush, Post, Note
  <2>2. taskLock' = taskLock \/ taskLock' = [taskLock EXCEPT ![task[r]] = r]
    BY <1>3 DEF Insert, Prepare, Flush, Post, Note
  <2>3. share' = share \/ share' = [share EXCEPT ![who[r]] = @ \cup {r}]
    BY <1>3 DEF Insert, Prepare, Flush, Post, Note
  <2> QED
    BY <1>1, <1>3, <2>1, <2>2, <2>3
<1> QED
  BY <1>2, <1>3

LEMMA ScoringTyped ==
    ASSUME IInv, NEW r \in Requests, Score(r)
    PROVE  /\ who[r] \in Learners /\ result' \in [Requests -> Scores \cup {0}]
           /\ seen' \in [Requests -> SeenType]
<1>1. /\ who[r] \in Learners /\ kind[r] \in {"submit", "review", "view"}
      /\ kind[r] # "view" => phase[r] = "flushed"
  BY DEF Score, ScoreNext, Recomputes, IInv, Shape, ShapeOf, Active
<1>2. kind[r] # "view" => NewRow(r) \in Statuses
  BY <1>1, NewValues
<1>3. kind[r] = "view" => task[r] \notin Tasks
  BY NamesAssumption DEF IInv, Shape, ShapeOf, Score, ScoreNext
<1>4. \A t \in Tasks : status[t][who[r]] \in Statuses \cup {"none"}
  BY <1>1 DEF IInv, TypeOK
<1>5. StatusSeen(r) \in [Tasks -> Statuses \cup {"none"}]
  BY <1>1, <1>2, <1>3, <1>4 DEF StatusSeen, Written
<1>6. Percent(StatusSeen(r)) \in Scores
  BY <1>5, PercentIsScore
<1>7. result \in [Requests -> Scores \cup {0}] /\ seen \in [Requests -> SeenType] /\ score[who[r]] \in Scores
  BY <1>1 DEF IInv, TypeOK, SeenType
<1>8. [seen EXCEPT ![r].score = score[who[r]]] \in [Requests -> SeenType]
  BY <1>7, SeenTyped DEF IInv
<1> QED
  BY <1>1, <1>6, <1>7, <1>8 DEF Score, ScoreNext

\* The types are preserved.
LEMMA TypeStep == IInv /\ [Next]_vars => TypeOK'
<1> SUFFICES ASSUME IInv, [Next]_vars PROVE TypeOK'
  OBVIOUS
<1> USE NamesAssumption DEF IInv, TypeOK, tables, locks, locals, history, Phases
<1>1. ASSUME NEW r \in Requests, NEW k \in Kinds, NEW t \in Tasks, NEW l \in Learners,
               NEW w \in Wanted(k), Begin(r, k, t, l, w)
      PROVE  TypeOK'
  <2>1. w \in TaskStatuses \cup {"none"}
    BY ChangesAssumption DEF Wanted
  <2> QED
    BY <1>1, <2>1 DEF Begin, Statuses, TaskStatuses, Verdicts
<1>2. ASSUME NEW r \in Requests, ReadOwn(r)
      PROVE  TypeOK'
  BY <1>2, ReadTyped DEF ReadOwn, SeenType
<1>3. ASSUME NEW r \in Requests, ReadFirst(r)
      PROVE  TypeOK'
  BY <1>3, ReadTyped DEF ReadFirst, SeenType
<1>4. ASSUME NEW r \in Requests, Prepare(r)
      PROVE  TypeOK'
  <2>1. stamp' \in [Requests -> Nat]
    BY <1>4, ClockTicks DEF Prepare
  <2> QED
    BY <1>4, <2>1, LockTyped DEF Prepare
<1>5. ASSUME NEW r \in Requests, Pick(r)
      PROVE  TypeOK'
  BY <1>5 DEF Pick
<1>6. ASSUME NEW r \in Requests, Flush(r)
      PROVE  TypeOK'
  BY <1>6, LockTyped DEF Flush
<1>7. ASSUME NEW r \in Requests, FlushTask(r)
      PROVE  TypeOK'
  BY <1>7, LockTyped DEF FlushTask
<1>8. ASSUME NEW r \in Requests, ReadPatched(r)
      PROVE  TypeOK'
  BY <1>8, ReadTyped DEF ReadPatched, SeenType
<1>9. ASSUME NEW r \in Requests, Score(r)
      PROVE  TypeOK'
  BY <1>9, ScoringTyped DEF Score, ScoreNext, Recomputes, SeenType
<1>10. ASSUME NEW r \in Requests, Commit(r)
      PROVE  TypeOK'
  <2>1. RowAfter(r) \in Statuses /\ TaskAfter(r) \in TaskStatuses /\ task[r] \in Tasks /\ who[r] \in Learners
    BY <1>10, Committed
  <2>2. FirstAfter(r) \in [who : Learners \cup {"nobody"}, by : Requests \cup {"job", "none"}]
    BY <2>1 DEF FirstAfter
  <2>3. Recomputes(r) => ScoreAfter(r) \in Scores
    BY <1>10, <2>1, ScoreTyped DEF Commit
  <2>a. kind[r] = "review" => pick[r] \in Requests /\ want[r] \in Verdicts
    BY <1>10, <2>1, Committed DEF Shape, ShapeOf, Active
  <2>4. Given(r) \subseteq [sub : Requests, verdict : Verdicts]
    BY <2>a DEF Given
  <2>5. status' \in [Tasks -> [Learners -> Statuses \cup {"none"}]] /\ taskStatus' \in [Tasks -> TaskStatuses]
    BY <1>10, <2>1 DEF Commit
  <2>6. first' \in [Tasks -> [who : Learners \cup {"nobody"}, by : Requests \cup {"job", "none"}]]
    BY <1>10, <2>1, <2>2 DEF Commit
  <2>7. work' \in [Tasks -> [Learners -> SUBSET Requests]] /\ judged' \subseteq [sub : Requests, verdict : Verdicts]
    BY <1>10, <2>1, <2>4 DEF Commit
  <2>8. score' \in [Learners -> Scores]
    BY <1>10, <2>1, <2>3 DEF Commit
  <2>9. masked' \subseteq Tasks \X Learners /\ torn' \subseteq Tasks /\ unscored' \subseteq Learners /\ phase' \in [Requests -> Phases]
    BY <1>10, <2>1 DEF Commit
  <2> QED
    BY <1>10, <2>5, <2>6, <2>7, <2>8, <2>9 DEF Commit, Unlocked
<1>11. ASSUME NEW r \in Requests, CommitTask(r)
      PROVE  TypeOK'
  <2>1. NewTask(r) \in TaskStatuses
    BY <1>11, NewValues DEF CommitTask
  <2>2. TaskAfter(r) \in TaskStatuses \/ task[r] \notin Tasks
    BY <1>11, <2>1 DEF TaskAfter, Written, CommitTask
  <2>3. taskStatus' \in [Tasks -> TaskStatuses]
    BY <1>11, <2>2 DEF CommitTask
  <2> QED
    BY <1>11, <2>3 DEF CommitTask, Unlocked
<1>12. ASSUME NEW r \in Requests, CommitView(r)
      PROVE  TypeOK'
  <2>1. who[r] \in Learners /\ ScoreAfter(r) \in Scores
    BY <1>12, ScoreTyped DEF CommitView
  <2> QED
    BY <1>12, <2>1 DEF CommitView, Unlocked
<1>13. ASSUME NEW r \in Requests, Fail(r)
      PROVE  TypeOK'
  BY <1>13 DEF Fail, Unlocked
<1>15. ASSUME NEW r \in Requests, Insert(r)
      PROVE  TypeOK'
  BY <1>15, ClockTicks, LockTyped DEF Insert
<1>16. ASSUME NEW r \in Requests, Post(r)
      PROVE  TypeOK'
  BY <1>16, LockTyped DEF Post
<1>17. ASSUME NEW r \in Requests, Note(r)
      PROVE  TypeOK'
  BY <1>17, LockTyped DEF Note
<1>14. CASE UNCHANGED vars
  BY <1>14 DEF vars
<1> HIDE DEF IInv, TypeOK, tables, locks, locals, history, Phases
<1> QED
  BY <1>1, <1>2, <1>3, <1>4, <1>5, <1>6, <1>7, <1>8, <1>9, <1>10, <1>11, <1>12, <1>13, <1>14, <1>15, <1>16, <1>17 DEF Next, Step

\* What requests know is preserved.
LEMMA ShapeStep == IInv /\ [Next]_vars => Shape'
<1> SUFFICES ASSUME IInv, [Next]_vars PROVE Shape'
  OBVIOUS
<1> USE NamesAssumption DEF IInv, TypeOK, Shape, ShapeOf, Active, tables, locks, locals, history, Kinds, Phases, Statuses, TaskStatuses, Verdicts, RowsKnown
<1>1. ASSUME NEW r \in Requests, NEW k \in Kinds, NEW t \in Tasks, NEW l \in Learners,
               NEW w \in Wanted(k), Begin(r, k, t, l, w)
      PROVE  Shape'
  <2>1. /\ k = "review" => w \in Verdicts
        /\ k = "patch" => w # "none"
    BY ChangesAssumption DEF Wanted
  <2> QED
    BY <1>1, <2>1 DEF Begin
<1>2. ASSUME NEW r \in Requests, ReadOwn(r)
      PROVE  Shape'
  BY <1>2 DEF ReadOwn
<1>3. ASSUME NEW r \in Requests, ReadFirst(r)
      PROVE  Shape'
  BY <1>3 DEF ReadFirst
<1>4. ASSUME NEW r \in Requests, Prepare(r)
      PROVE  Shape'
  BY <1>4 DEF Prepare, Inserts
<1>5. ASSUME NEW r \in Requests, Pick(r)
      PROVE  Shape'
  BY <1>5 DEF Pick, IsLatest
<1>6. ASSUME NEW r \in Requests, Flush(r)
      PROVE  Shape'
  BY <1>6 DEF Flush, Submits
<1>7. ASSUME NEW r \in Requests, FlushTask(r)
      PROVE  Shape'
  BY <1>7 DEF FlushTask
<1>8. ASSUME NEW r \in Requests, ReadPatched(r)
      PROVE  Shape'
  BY <1>8 DEF ReadPatched
<1>9. ASSUME NEW r \in Requests, Score(r)
      PROVE  Shape'
  BY <1>9 DEF Score, ScoreNext, Recomputes
<1>10. ASSUME NEW r \in Requests, Commit(r)
      PROVE  Shape'
  <2>1. task[r] \in Tasks /\ who[r] \in Learners
    BY <1>10, Committed
  <2>2. \A t \in Tasks, l \in Learners : work[t][l] \subseteq work'[t][l]
    BY <1>10, <2>1 DEF Commit
  <2>3. UNCHANGED <<kind, task, who, want, seen, stamp, pick>> /\ phase' = [phase EXCEPT ![r] = "ended"]
    BY <1>10 DEF Commit
  <2>4. ASSUME NEW q \in Requests, kind[q] = "review", phase'[q] \in {"ready", "flushed", "scored"}
        PROVE  pick[q] \in work'[task[q]][who[q]]
    <3>1. phase[q] = phase'[q] /\ pick[q] \in work[task[q]][who[q]] /\ task[q] \in Tasks /\ who[q] \in Learners
      BY <2>3, <2>4
    <3> QED
      BY <2>2, <3>1
  <2>5. \A q \in Requests : phase'[q] = IF q = r THEN "ended" ELSE phase[q]
    BY <2>3
  <2>6. \A q \in Requests : phase'[q] # "ended" => phase'[q] = phase[q] /\ UNCHANGED <<kind[q], task[q], who[q], want[q], seen[q], stamp[q], pick[q]>>
    BY <2>3, <2>5
  <2>7. phase'[r] = "ended" /\ UNCHANGED <<kind[r], task[r], who[r]>> /\ kind[r] \in Kinds
    BY <1>10, <2>3, <2>5, Committed
  <2>8. Shape
    OBVIOUS
  <2> HIDE DEF IInv, TypeOK, Statuses, TaskStatuses, Verdicts, Kinds, Phases, RowsKnown
  <2> SUFFICES ASSUME NEW q \in Requests
               PROVE  /\ phase'[q] # "new" => kind'[q] \in Kinds
                      /\ phase'[q] # "ended" => ShapeOf(q)'
    BY <2>6, <2>7 DEF ShapeOf
  <2>9. phase'[q] # "ended" => ShapeOf(q)
    BY <2>6, <2>8 DEF ShapeOf
  <2>10. phase'[q] # "new" => kind'[q] \in Kinds
    <3>1. kind'[q] = kind[q] /\ (phase'[q] = phase[q] \/ q = r)
      BY <2>3, <2>5
    <3>2. phase[q] # "new" => kind[q] \in Kinds
      BY <2>8
    <3> QED
      BY <2>7, <3>1, <3>2
  <2>11. ASSUME phase'[q] # "ended"
         PROVE  ShapeOf(q)'
    <3>1. phase'[q] = phase[q] /\ UNCHANGED <<kind[q], task[q], who[q], want[q], seen[q], pick[q]>>
      BY <2>6, <2>11
    <3>2. Active(q)' = Active(q)
      BY <3>1 DEF Active
    <3>3. ShapeOf(q)
      BY <2>9, <2>11
    <3>4. kind[q] = "review" /\ phase'[q] \in {"ready", "flushed", "scored"} => pick[q] \in work'[task[q]][who[q]]
      BY <2>4
    <3> HIDE DEF Active
    <3> QED
      BY <3>1, <3>2, <3>3, <3>4 DEF ShapeOf
  <2> QED
    BY <2>10, <2>11
<1>11. ASSUME NEW r \in Requests, CommitTask(r)
      PROVE  Shape'
  BY <1>11 DEF CommitTask, Unlocked
<1>12. ASSUME NEW r \in Requests, CommitView(r)
      PROVE  Shape'
  BY <1>12 DEF CommitView, Recomputes, Unlocked
<1>13. ASSUME NEW r \in Requests, Fail(r)
      PROVE  Shape'
  BY <1>13 DEF Fail, Unlocked
<1>15. ASSUME NEW r \in Requests, Insert(r)
      PROVE  Shape'
  BY <1>15 DEF Insert
<1>16. ASSUME NEW r \in Requests, Post(r)
      PROVE  Shape'
  BY <1>16 DEF Post
<1>17. ASSUME NEW r \in Requests, Note(r)
      PROVE  Shape'
  BY <1>17 DEF Note
<1>14. CASE UNCHANGED vars
  BY <1>14 DEF vars
<1> HIDE DEF IInv, TypeOK, Shape, ShapeOf, Active, tables, locks, locals, history, Kinds, Phases, Statuses, TaskStatuses, Verdicts, RowsKnown
<1> QED
  BY <1>1, <1>2, <1>3, <1>4, <1>5, <1>6, <1>7, <1>8, <1>9, <1>10, <1>11, <1>12, <1>13, <1>14, <1>15, <1>16, <1>17 DEF Next, Step

\* Rows are preserved.
LEMMA RowsStep == IInv /\ [Next]_vars => RowsKnown'
<1> SUFFICES ASSUME IInv, [Next]_vars PROVE RowsKnown'
  OBVIOUS
<1> USE NamesAssumption DEF IInv, TypeOK, Shape, ShapeOf, Active, tables, locks, locals, history, Kinds, Phases, Statuses, TaskStatuses, Verdicts, RowsKnown
<1>1. ASSUME NEW r \in Requests, NEW k \in Kinds, NEW t \in Tasks, NEW l \in Learners,
               NEW w \in Wanted(k), Begin(r, k, t, l, w)
      PROVE  RowsKnown'
  BY <1>1 DEF Begin
<1>2. ASSUME NEW r \in Requests, ReadOwn(r)
      PROVE  RowsKnown'
  BY <1>2 DEF ReadOwn
<1>3. ASSUME NEW r \in Requests, ReadFirst(r)
      PROVE  RowsKnown'
  BY <1>3 DEF ReadFirst
<1>4. ASSUME NEW r \in Requests, Prepare(r)
      PROVE  RowsKnown'
  BY <1>4 DEF Prepare, Inserts
<1>5. ASSUME NEW r \in Requests, Pick(r)
      PROVE  RowsKnown'
  BY <1>5 DEF Pick
<1>6. ASSUME NEW r \in Requests, Flush(r)
      PROVE  RowsKnown'
  BY <1>6 DEF Flush, Submits
<1>7. ASSUME NEW r \in Requests, FlushTask(r)
      PROVE  RowsKnown'
  BY <1>7 DEF FlushTask
<1>8. ASSUME NEW r \in Requests, ReadPatched(r)
      PROVE  RowsKnown'
  BY <1>8 DEF ReadPatched
<1>9. ASSUME NEW r \in Requests, Score(r)
      PROVE  RowsKnown'
  BY <1>9 DEF Score, ScoreNext, Recomputes
<1>10. ASSUME NEW r \in Requests, Commit(r)
      PROVE  RowsKnown'
  <2>1. task[r] \in Tasks /\ who[r] \in Learners /\ RowAfter(r) \in Statuses /\ kind[r] \in Kinds /\ phase[r] \in {"flushed", "scored"}
    BY <1>10, Committed
  <2>2. status' = [status EXCEPT ![task[r]][who[r]] = RowAfter(r)] /\ first' = [first EXCEPT ![task[r]] = FirstAfter(r)]
    BY <1>10 DEF Commit
  <2>3. UNCHANGED <<scope, locals>> /\ phase' = [phase EXCEPT ![r] = "ended"]
    BY <1>10 DEF Commit
  <2>4. \A t \in Tasks, l \in Learners : status[t][l] # "none" => status'[t][l] # "none"
    BY <2>1, <2>2
  <2>5. scope[task[r]] = "individual" => status[task[r]][who[r]] # "none"
    BY <1>10, <2>1 DEF Commit
  <2>6. ASSUME NEW t \in Tasks, scope[t] = "individual", NEW l \in Learners, status'[t][l] # "none"
        PROVE  status[t][l] # "none"
    BY <2>1, <2>2, <2>5, <2>6
  <2>7. status[task[r]][who[r]] = "none" => Inserts(r)
    BY <1>10, <2>1 DEF Inserts, Commit
  <2>8. /\ FirstAfter(r).by # "none" /\ FirstAfter(r).who # "nobody"
        /\ FirstAfter(r).who \in Learners /\ status'[task[r]][FirstAfter(r).who] # "none"
    BY <2>1, <2>2, <2>4, <2>7 DEF FirstAfter
  <2>9. \A t \in Tasks : t # task[r] => first'[t] = first[t] /\ status'[t] = status[t]
    BY <2>1, <2>2
  <2>10. first'[task[r]] = FirstAfter(r)
    BY <2>1, <2>2
  <2>11. ASSUME NEW t \in Tasks
         PROVE  /\ first'[t].by = "none" <=> first'[t].who = "nobody"
                /\ first'[t].who = "nobody" => \A l \in Learners : status'[t][l] = "none"
                /\ first'[t].who # "nobody" => status'[t][first'[t].who] # "none"
    <3>1. CASE t = task[r]
      BY <2>8, <2>10, <3>1
    <3>2. CASE t # task[r]
      BY <2>9, <3>2
    <3> QED
      BY <3>1, <3>2
  <2>14. \A t \in Tasks : scope'[t] = "individual" =>
            \A l, k \in Learners : status'[t][l] # "none" /\ status'[t][k] # "none" => l = k
    BY <2>3, <2>6
  <2>15. \A t \in Tasks : scope'[t] = "individual" /\ (\A l \in Learners : status[t][l] = "none") => \A l \in Learners : status'[t][l] = "none"
    BY <2>3, <2>6
  <2>16. ASSUME NEW q \in Requests
         PROVE  /\ kind'[q] \in {"start", "submit", "mark"} /\ Active(q)' /\ seen'[q].row = "none" =>
                      scope'[task'[q]] = "all"
                /\ kind'[q] \in {"start", "submit", "mark", "review"} /\ Active(q)' /\ seen'[q].row # "none" =>
                      status'[task'[q]][who'[q]] # "none"
                /\ kind'[q] = "patch" /\ phase'[q] = "flushed" =>
                     IF who'[q] = "nobody"
                     THEN scope'[task'[q]] = "individual" => \A l \in Learners : status'[task'[q]][l] = "none"
                     ELSE seen'[q].row # "none" /\ status'[task'[q]][who'[q]] # "none"
    <3>1. CASE q = r
      BY <2>1, <2>3, <3>1
    <3>2. CASE q # r
      <4>1. phase'[q] = phase[q] /\ UNCHANGED <<kind[q], task[q], who[q], seen[q], scope>>
        BY <2>3, <3>2
      <4>2. Active(q) => task[q] \in Tasks \/ kind[q] = "view"
        OBVIOUS
      <4>3. Active(q) /\ kind[q] \in {"start", "submit", "mark", "review"} => who[q] \in Learners
        OBVIOUS
      <4>4. kind[q] = "patch" /\ phase[q] = "flushed" => task[q] \in Tasks /\ who[q] \in Learners \cup {"nobody"}
        OBVIOUS
      <4>5. RowsKnown /\ Active(q)' = Active(q)
        BY <4>1
      <4> HIDE DEF IInv, TypeOK, Shape, ShapeOf, Statuses, TaskStatuses, Verdicts, Kinds, Phases
      <4>6. kind[q] = "patch" /\ phase[q] = "flushed" =>
              IF who[q] = "nobody"
              THEN scope[task[q]] = "individual" => \A l \in Learners : status'[task[q]][l] = "none"
              ELSE seen[q].row # "none" /\ status'[task[q]][who[q]] # "none"
        BY <2>4, <2>15, <4>1, <4>4, <4>5
      <4>7. kind[q] \in {"start", "submit", "mark", "review"} /\ Active(q) /\ seen[q].row # "none" =>
              status'[task[q]][who[q]] # "none"
        BY <2>4, <4>2, <4>3, <4>5
      <4> QED
        BY <4>1, <4>5, <4>6, <4>7
    <3> QED
      BY <3>1, <3>2
  <2> QED
    BY <2>11, <2>14, <2>16
<1>11. ASSUME NEW r \in Requests, CommitTask(r)
      PROVE  RowsKnown'
  BY <1>11 DEF CommitTask, Unlocked
<1>12. ASSUME NEW r \in Requests, CommitView(r)
      PROVE  RowsKnown'
  BY <1>12 DEF CommitView, Recomputes, Unlocked
<1>13. ASSUME NEW r \in Requests, Fail(r)
      PROVE  RowsKnown'
  BY <1>13 DEF Fail, Unlocked
<1>15. ASSUME NEW r \in Requests, Insert(r)
      PROVE  RowsKnown'
  BY <1>15 DEF Insert
<1>16. ASSUME NEW r \in Requests, Post(r)
      PROVE  RowsKnown'
  BY <1>16 DEF Post
<1>17. ASSUME NEW r \in Requests, Note(r)
      PROVE  RowsKnown'
  BY <1>17 DEF Note
<1>14. CASE UNCHANGED vars
  BY <1>14 DEF vars
<1> HIDE DEF IInv, TypeOK, Shape, ShapeOf, Active, tables, locks, locals, history, Kinds, Phases, Statuses, TaskStatuses, Verdicts, RowsKnown
<1> QED
  BY <1>1, <1>2, <1>3, <1>4, <1>5, <1>6, <1>7, <1>8, <1>9, <1>10, <1>11, <1>12, <1>13, <1>14, <1>15, <1>16, <1>17 DEF Next, Step

\* Submissions stay apart.
LEMMA WorkStep == IInv /\ [Next]_vars => WorkIsApart'
<1> SUFFICES ASSUME IInv, [Next]_vars PROVE WorkIsApart'
  OBVIOUS
<1> USE NamesAssumption DEF IInv, TypeOK, Shape, ShapeOf, Active, tables, locks, locals, history, Kinds, Phases, Statuses, TaskStatuses, Verdicts, WorkIsApart, Inserts
<1>1. ASSUME NEW r \in Requests, NEW k \in Kinds, NEW t \in Tasks, NEW l \in Learners,
               NEW w \in Wanted(k), Begin(r, k, t, l, w)
      PROVE  WorkIsApart'
  BY <1>1 DEF Begin
<1>2. ASSUME NEW r \in Requests, ReadOwn(r)
      PROVE  WorkIsApart'
  BY <1>2 DEF ReadOwn
<1>3. ASSUME NEW r \in Requests, ReadFirst(r)
      PROVE  WorkIsApart'
  BY <1>3 DEF ReadFirst
<1>4. ASSUME NEW r \in Requests, Prepare(r)
      PROVE  WorkIsApart'
  BY <1>4, ClockTicks DEF Prepare
<1>5. ASSUME NEW r \in Requests, Pick(r)
      PROVE  WorkIsApart'
  BY <1>5 DEF Pick
<1>6. ASSUME NEW r \in Requests, Flush(r)
      PROVE  WorkIsApart'
  BY <1>6 DEF Flush, Submits
<1>7. ASSUME NEW r \in Requests, FlushTask(r)
      PROVE  WorkIsApart'
  BY <1>7 DEF FlushTask
<1>8. ASSUME NEW r \in Requests, ReadPatched(r)
      PROVE  WorkIsApart'
  BY <1>8 DEF ReadPatched
<1>9. ASSUME NEW r \in Requests, Score(r)
      PROVE  WorkIsApart'
  BY <1>9 DEF Score, ScoreNext, Recomputes
<1>10. ASSUME NEW r \in Requests, Commit(r)
      PROVE  WorkIsApart'
  <2>1. task[r] \in Tasks /\ who[r] \in Learners /\ phase[r] \in {"flushed", "scored"}
    BY <1>10, Committed
  <2>2. phase' = [phase EXCEPT ![r] = "ended"] /\ UNCHANGED locals
    BY <1>10 DEF Commit
  <2>3. \A t \in Tasks, l \in Learners : \A q \in work'[t][l] :
           q \in work[t][l] \/ (q = r /\ t = task[r] /\ l = who[r] /\ Submits(r))
    BY <1>10, <2>1 DEF Commit
  <2>4. \A j \in judged' : j \in judged \/ (j.sub = pick[r] /\ kind[r] = "review")
    BY <1>10 DEF Commit, Given
  <2>5. kind[r] = "review" => pick[r] \in Requests /\ phase[pick[r]] = "ended"
    BY <2>1
  <2>6. Submits(r) => stamp[r] # 0
    BY <2>1 DEF Submits
  <2> QED
    BY <2>1, <2>2, <2>3, <2>4, <2>5, <2>6
<1>11. ASSUME NEW r \in Requests, CommitTask(r)
      PROVE  WorkIsApart'
  BY <1>11 DEF CommitTask, Unlocked
<1>12. ASSUME NEW r \in Requests, CommitView(r)
      PROVE  WorkIsApart'
  BY <1>12 DEF CommitView, Recomputes, Unlocked
<1>13. ASSUME NEW r \in Requests, Fail(r)
      PROVE  WorkIsApart'
  BY <1>13 DEF Fail, Unlocked
<1>15. ASSUME NEW r \in Requests, Insert(r)
      PROVE  WorkIsApart'
  BY <1>15 DEF Insert
<1>16. ASSUME NEW r \in Requests, Post(r)
      PROVE  WorkIsApart'
  BY <1>16 DEF Post
<1>17. ASSUME NEW r \in Requests, Note(r)
      PROVE  WorkIsApart'
  BY <1>17 DEF Note
<1>14. CASE UNCHANGED vars
  BY <1>14 DEF vars
<1> HIDE DEF IInv, TypeOK, Shape, ShapeOf, Active, tables, locks, locals, history, Kinds, Phases, Statuses, TaskStatuses, Verdicts, WorkIsApart, Inserts
<1> QED
  BY <1>1, <1>2, <1>3, <1>4, <1>5, <1>6, <1>7, <1>8, <1>9, <1>10, <1>11, <1>12, <1>13, <1>14, <1>15, <1>16, <1>17 DEF Next, Step

\* Times stay apart.
LEMMA TimesStep == IInv /\ [Next]_vars => TimesDiffer'
<1> SUFFICES ASSUME IInv, [Next]_vars PROVE TimesDiffer'
  OBVIOUS
<1> USE NamesAssumption DEF IInv, TypeOK, WorkIsApart, TimesDiffer, tables, locks, locals, history
<1>1. ASSUME NEW r \in Requests, NEW k \in Kinds, NEW t \in Tasks, NEW l \in Learners,
               NEW w \in Wanted(k), Begin(r, k, t, l, w)
      PROVE  TimesDiffer'
  <2>1. UNCHANGED stamp
    BY <1>1 DEF Begin
  <2> QED
    BY <2>1, ClockStays
<1>2. ASSUME NEW r \in Requests, ReadOwn(r)
      PROVE  TimesDiffer'
  <2>1. UNCHANGED stamp
    BY <1>2 DEF ReadOwn
  <2> QED
    BY <2>1, ClockStays
<1>3. ASSUME NEW r \in Requests, ReadFirst(r)
      PROVE  TimesDiffer'
  <2>1. UNCHANGED stamp
    BY <1>3 DEF ReadFirst
  <2> QED
    BY <2>1, ClockStays
<1>4. ASSUME NEW r \in Requests, Prepare(r)
      PROVE  TimesDiffer'
  <2>1. CASE Inserts(r)
    BY <1>4, <2>1, ClockStays DEF Prepare
  <2>2. CASE ~Inserts(r)
    <3>1. stamp[r] = 0 /\ stamp' = [stamp EXCEPT ![r] = Clock]
      BY <1>4, <2>2 DEF Prepare
    <3>2. Clock \in Nat \ {0} /\ Clock' = Clock + 1
      BY <3>1, ClockTicks
    <3> QED
      BY <3>1, <3>2
  <2> QED
    BY <2>1, <2>2
<1>5. ASSUME NEW r \in Requests, Pick(r)
      PROVE  TimesDiffer'
  <2>1. UNCHANGED stamp
    BY <1>5 DEF Pick
  <2> QED
    BY <2>1, ClockStays
<1>6. ASSUME NEW r \in Requests, Flush(r)
      PROVE  TimesDiffer'
  <2>1. UNCHANGED stamp
    BY <1>6 DEF Flush, Submits
  <2> QED
    BY <2>1, ClockStays
<1>7. ASSUME NEW r \in Requests, FlushTask(r)
      PROVE  TimesDiffer'
  <2>1. UNCHANGED stamp
    BY <1>7 DEF FlushTask
  <2> QED
    BY <2>1, ClockStays
<1>8. ASSUME NEW r \in Requests, ReadPatched(r)
      PROVE  TimesDiffer'
  <2>1. UNCHANGED stamp
    BY <1>8 DEF ReadPatched
  <2> QED
    BY <2>1, ClockStays
<1>9. ASSUME NEW r \in Requests, Score(r)
      PROVE  TimesDiffer'
  <2>1. UNCHANGED stamp
    BY <1>9 DEF Score, ScoreNext, Recomputes
  <2> QED
    BY <2>1, ClockStays
<1>10. ASSUME NEW r \in Requests, Commit(r)
      PROVE  TimesDiffer'
  <2>1. UNCHANGED stamp
    BY <1>10 DEF Commit, Recomputes, Unlocked
  <2> QED
    BY <2>1, ClockStays
<1>11. ASSUME NEW r \in Requests, CommitTask(r)
      PROVE  TimesDiffer'
  <2>1. UNCHANGED stamp
    BY <1>11 DEF CommitTask, Unlocked
  <2> QED
    BY <2>1, ClockStays
<1>12. ASSUME NEW r \in Requests, CommitView(r)
      PROVE  TimesDiffer'
  <2>1. UNCHANGED stamp
    BY <1>12 DEF CommitView, Recomputes, Unlocked
  <2> QED
    BY <2>1, ClockStays
<1>13. ASSUME NEW r \in Requests, Fail(r)
      PROVE  TimesDiffer'
  <2>1. UNCHANGED stamp
    BY <1>13 DEF Fail, Unlocked
  <2> QED
    BY <2>1, ClockStays
<1>15. ASSUME NEW r \in Requests, Insert(r)
      PROVE  TimesDiffer'
  <2>1. stamp[r] = 0 /\ stamp' = [stamp EXCEPT ![r] = Clock]
    BY <1>15 DEF Insert
  <2>2. Clock \in Nat \ {0} /\ Clock' = Clock + 1
    BY <2>1, ClockTicks
  <2> QED
    BY <2>1, <2>2
<1>16. ASSUME NEW r \in Requests, Post(r)
      PROVE  TimesDiffer'
  <2>1. UNCHANGED stamp
    BY <1>16 DEF Post
  <2> QED
    BY <2>1, ClockStays
<1>17. ASSUME NEW r \in Requests, Note(r)
      PROVE  TimesDiffer'
  <2>1. UNCHANGED stamp
    BY <1>17 DEF Note
  <2> QED
    BY <2>1, ClockStays
<1>14. CASE UNCHANGED vars
  BY <1>14, ClockStays DEF vars
<1> HIDE DEF IInv, TypeOK, WorkIsApart, TimesDiffer, tables, locks, locals, history
<1> QED
  BY <1>1, <1>2, <1>3, <1>4, <1>5, <1>6, <1>7, <1>8, <1>9, <1>10, <1>11, <1>12, <1>13, <1>14, <1>15, <1>16, <1>17 DEF Next, Step

\* Only the commit of a submission or a review changes what is latest and judged.
LEMMA LatestStays ==
    ASSUME IInv, UNCHANGED work, NEW r \in Requests, phase[r] # "ended",
           stamp' = stamp \/ \E n \in Nat : stamp' = [stamp EXCEPT ![r] = n]
    PROVE  \A t \in Tasks, l \in Learners, q \in Requests : IsLatest(q, t, l)' <=> IsLatest(q, t, l)
<1>1. \A t \in Tasks, l \in Learners : \A q \in work[t][l] : q \in Requests /\ stamp'[q] = stamp[q]
  BY DEF IInv, TypeOK, WorkIsApart
<1> QED
  BY <1>1 DEF IsLatest

\* Submissions of one assignment have one latest.
LEMMA OneLatest ==
    ASSUME IInv, NEW t \in Tasks, NEW l \in Learners, NEW p, NEW q, IsLatest(p, t, l), IsLatest(q, t, l)
    PROVE  p = q
<1>1. p \in Requests /\ q \in Requests /\ stamp[p] \in Nat /\ stamp[q] \in Nat /\ stamp[p] # 0
  BY DEF IInv, TypeOK, WorkIsApart, IsLatest
<1>2. stamp[p] <= stamp[q] /\ stamp[q] <= stamp[p]
  BY DEF IsLatest
<1>3. stamp[p] = stamp[q]
  BY <1>1, <1>2
<1> QED
  BY <1>1, <1>3 DEF IInv, TimesDiffer

\* What the two properties say of one assignment.
Told(t, l) ==
    /\ status[t][l] \in Verdicts =>
         \E q \in work[t][l] : IsLatest(q, t, l) /\ [sub |-> q, verdict |-> status[t][l]] \in judged
    /\ status[t][l] = "submitted" <=>
         \E q \in work[t][l] : IsLatest(q, t, l) /\ \A j \in judged : j.sub # q

\* A step that commits no work leaves every assignment told.
LEMMA ToldFrame ==
    ASSUME IInv, UNCHANGED <<status, work, judged, masked>>,
           \A t \in Tasks, l \in Learners, q \in Requests : IsLatest(q, t, l)' <=> IsLatest(q, t, l)
    PROVE  (VerdictIsOnLatestWork /\ UnjudgedIsVisible)'
<1>1. ASSUME NEW t \in Tasks, NEW l \in Learners, <<t, l>> \notin masked
      PROVE  Told(t, l)'
  <2>1. Told(t, l)
    BY <1>1 DEF IInv, VerdictIsOnLatestWork, UnjudgedIsVisible, Told
  <2>2. \A q \in work[t][l] : IsLatest(q, t, l)' <=> IsLatest(q, t, l)
    BY DEF IInv, TypeOK
  <2>3. status'[t][l] = status[t][l] /\ work'[t][l] = work[t][l] /\ judged' = judged
    OBVIOUS
  <2> QED
    BY <2>1, <2>2, <2>3 DEF Told
<1> QED
  BY <1>1 DEF VerdictIsOnLatestWork, UnjudgedIsVisible, Told

\* A commit leaves the other assignments as they were.
LEMMA OthersTold ==
    ASSUME IInv, NEW r \in Requests, Commit(r), NEW t \in Tasks, NEW l \in Learners,
           <<t, l>> \notin masked', ~(t = task[r] /\ l = who[r])
    PROVE  Told(t, l)'
<1>1. task[r] \in Tasks /\ who[r] \in Learners /\ phase[r] \in {"flushed", "scored"} /\ kind[r] \in Kinds
  BY Committed
<1>2. status'[t][l] = status[t][l] /\ work'[t][l] = work[t][l] /\ stamp' = stamp /\ <<t, l>> \notin masked
  BY <1>1 DEF Commit, locals, IInv, TypeOK
<1>3. Told(t, l)
  BY <1>2 DEF IInv, VerdictIsOnLatestWork, UnjudgedIsVisible, Told
<1>4. \A q \in work[t][l] : \A j \in Given(r) : j.sub # q
  BY <1>1 DEF Given, IInv, Shape, ShapeOf, WorkIsApart
<1>5. judged' = judged \cup Given(r)
  BY DEF Commit
<1>6. \A q \in work[t][l] : IsLatest(q, t, l)' <=> IsLatest(q, t, l)
  BY <1>2 DEF IsLatest
<1> QED
  BY <1>2, <1>3, <1>4, <1>5, <1>6, SMTT(30) DEF Told

\* A commit that masks nothing leaves its own assignment told.
LEMMA OwnTold ==
    ASSUME IInv, NEW r \in Requests, Commit(r), <<task[r], who[r]>> \notin masked'
    PROVE  Told(task[r], who[r])'
<1> DEFINE t == task[r]  l == who[r]
<1>1. /\ t \in Tasks /\ l \in Learners /\ kind[r] \in Kinds \ {"view"} /\ phase[r] \in {"flushed", "scored"}
      /\ NewRow(r) = seen[r].row => RowAfter(r) = status[t][l]
      /\ NewRow(r) # seen[r].row => RowAfter(r) = NewRow(r)
  BY Committed
<1>2. /\ ~Masks(r) /\ <<t, l>> \notin masked
      /\ status'[t][l] = RowAfter(r) /\ stamp' = stamp /\ judged' = judged \cup Given(r)
      /\ task' = task /\ who' = who
      /\ work'[t][l] = IF Submits(r) THEN work[t][l] \cup {r} ELSE work[t][l]
  <2>1. ~Masks(r) /\ <<t, l>> \notin masked /\ UNCHANGED <<stamp, task, who>> /\ judged' = judged \cup Given(r)
    BY DEF Commit, locals
  <2>2. status'[t][l] = RowAfter(r)
    BY <1>1 DEF Commit, IInv, TypeOK
  <2>3. work'[t][l] = IF Submits(r) THEN work[t][l] \cup {r} ELSE work[t][l]
    <3>1. work \in [Tasks -> [Learners -> SUBSET Requests]]
      BY DEF IInv, TypeOK
    <3>2. work' = IF Submits(r) THEN [work EXCEPT ![t][l] = work[t][l] \cup {r}] ELSE work
      BY DEF Commit
    <3> QED
      BY <1>1, <3>1, <3>2
  <2> QED
    BY <2>1, <2>2, <2>3
<1>3. Told(t, l)
  BY <1>1, <1>2 DEF IInv, VerdictIsOnLatestWork, UnjudgedIsVisible, Told
<1>4. CASE Submits(r)
  <2>1. kind[r] \in {"submit", "mark"} /\ NewRow(r) = "submitted" /\ Given(r) = {}
    BY <1>4 DEF Submits, NewRow, Given
  <2>2. RowAfter(r) = "submitted"
    BY <1>1, <1>2, <1>4, <2>1 DEF Masks
  <2>3. \A q \in work[t][l] : stamp[q] \in Nat /\ stamp[r] \in Nat /\ stamp[q] <= stamp[r]
    <3>1. \A q \in work[t][l] : stamp[q] \in Nat /\ stamp[r] \in Nat /\ ~(stamp[q] > stamp[r])
      BY <1>1, <1>2, <1>4 DEF Masks, IInv, TypeOK
    <3> QED
      BY <3>1
  <2>4. stamp[r] \in Nat
    BY DEF IInv, TypeOK
  <2>5. r \in work'[t][l] /\ \A p \in work'[t][l] : stamp'[p] <= stamp'[r]
    BY <1>2, <1>4, <2>3, <2>4
  <2>6. \A j \in judged' : j.sub # r
    BY <1>1, <1>2, <2>1 DEF IInv, WorkIsApart
  <2> QED
    BY <1>2, <2>2, <2>5, <2>6 DEF Told, IsLatest, Verdicts
<1>5. CASE kind[r] = "review"
  <2>1. work'[t][l] = work[t][l] /\ \A q \in work[t][l] : IsLatest(q, t, l)' <=> IsLatest(q, t, l)
    BY <1>2, <1>5 DEF Submits, IsLatest
  <2>2. IsLatest(pick[r], t, l) /\ pick[r] \in work[t][l] /\ Given(r) = {[sub |-> pick[r], verdict |-> want[r]]}
    BY <1>2, <1>5 DEF Masks, Given, IsLatest
  <2>3. RowAfter(r) = want[r] /\ want[r] \in Verdicts
    BY <1>1, <1>5, NewValues DEF IInv, Shape, ShapeOf
  <2>4. \A q \in work[t][l] : IsLatest(q, t, l) => q = pick[r]
    BY <1>1, <2>2, OneLatest
  <2>5. want[r] # "submitted"
    BY <2>3 DEF Verdicts
  <2>6. [sub |-> pick[r], verdict |-> want[r]] \in judged' /\ [sub |-> pick[r], verdict |-> want[r]].sub = pick[r]
    BY <1>2, <2>2
  <2>7. ~\E q \in work'[t][l] : IsLatest(q, t, l)' /\ \A j \in judged' : j.sub # q
    BY <2>1, <2>4, <2>6
  <2> QED
    BY <1>2, <2>1, <2>2, <2>3, <2>5, <2>6, <2>7 DEF Told
<1>6. CASE kind[r] \in {"start", "patch"}
  <2>1. work'[t][l] = work[t][l] /\ Given(r) = {} /\ judged' = judged /\ \A q \in work[t][l] : IsLatest(q, t, l)' <=> IsLatest(q, t, l)
    BY <1>2, <1>6 DEF Submits, IsLatest, Given
  <2>2. CASE RowAfter(r) = status[t][l]
    BY <1>2, <1>3, <2>1, <2>2 DEF Told
  <2>3. CASE RowAfter(r) # status[t][l]
    <3>1. kind[r] = "start" /\ NewRow(r) # seen[r].row /\ status[t][l] = seen[r].row
      BY <1>1, <1>2, <1>6, <2>3 DEF Masks
    <3>2. NewRow(r) = "in_progress" /\ seen[r].row \in {"none", "assigned", "revision_requested"}
      BY <3>1 DEF NewRow, Submits
    <3>3. status'[t][l] = "in_progress" /\ status[t][l] # "submitted"
      BY <1>1, <1>2, <3>1, <3>2
    <3>4. ~\E q \in work'[t][l] : IsLatest(q, t, l)' /\ \A j \in judged' : j.sub # q
      BY <1>3, <2>1, <3>3 DEF Told
    <3> QED
      BY <1>2, <3>3, <3>4 DEF Told, Verdicts
  <2> QED
    BY <2>2, <2>3
<1> QED
  BY <1>1, <1>4, <1>5, <1>6 DEF Kinds, Submits

\* Verdicts stay on the latest work, and unjudged work stays visible.
LEMMA ToldStep == IInv /\ [Next]_vars => (VerdictIsOnLatestWork /\ UnjudgedIsVisible)'
<1> SUFFICES ASSUME IInv, [Next]_vars PROVE (VerdictIsOnLatestWork /\ UnjudgedIsVisible)'
  OBVIOUS
<1> USE NamesAssumption DEF tables, locks, locals, history
<1>1. ASSUME NEW r \in Requests, NEW k \in Kinds, NEW t \in Tasks, NEW l \in Learners,
               NEW w \in Wanted(k), Begin(r, k, t, l, w)
      PROVE  (VerdictIsOnLatestWork /\ UnjudgedIsVisible)'
  <2>1. \A u \in Tasks, v \in Learners, q \in Requests : IsLatest(q, u, v)' <=> IsLatest(q, u, v)
    BY <1>1, LatestStays DEF Begin
  <2> QED
    BY <1>1, <2>1, ToldFrame DEF Begin
<1>2. ASSUME NEW r \in Requests, ReadOwn(r)
      PROVE  (VerdictIsOnLatestWork /\ UnjudgedIsVisible)'
  <2>1. \A u \in Tasks, v \in Learners, q \in Requests : IsLatest(q, u, v)' <=> IsLatest(q, u, v)
    BY <1>2, LatestStays DEF ReadOwn
  <2> QED
    BY <1>2, <2>1, ToldFrame DEF ReadOwn
<1>3. ASSUME NEW r \in Requests, ReadFirst(r)
      PROVE  (VerdictIsOnLatestWork /\ UnjudgedIsVisible)'
  <2>1. \A u \in Tasks, v \in Learners, q \in Requests : IsLatest(q, u, v)' <=> IsLatest(q, u, v)
    BY <1>3, LatestStays DEF ReadFirst
  <2> QED
    BY <1>3, <2>1, ToldFrame DEF ReadFirst
<1>4. ASSUME NEW r \in Requests, Prepare(r)
      PROVE  (VerdictIsOnLatestWork /\ UnjudgedIsVisible)'
  <2>1. /\ stamp' = stamp \/ stamp' = [stamp EXCEPT ![r] = Clock]
        /\ phase[r] # "ended" /\ UNCHANGED <<status, work, judged, masked>>
    BY <1>4 DEF Prepare
  <2>2. Clock \in Nat
    BY ClockTicks DEF IInv
  <2>3. \A t \in Tasks, l \in Learners, q \in Requests : IsLatest(q, t, l)' <=> IsLatest(q, t, l)
    BY <2>1, <2>2, LatestStays
  <2> QED
    BY <2>1, <2>3, ToldFrame
<1>5. ASSUME NEW r \in Requests, Pick(r)
      PROVE  (VerdictIsOnLatestWork /\ UnjudgedIsVisible)'
  <2>1. \A u \in Tasks, v \in Learners, q \in Requests : IsLatest(q, u, v)' <=> IsLatest(q, u, v)
    BY <1>5, LatestStays DEF Pick
  <2> QED
    BY <1>5, <2>1, ToldFrame DEF Pick
<1>6. ASSUME NEW r \in Requests, Flush(r)
      PROVE  (VerdictIsOnLatestWork /\ UnjudgedIsVisible)'
  <2>1. \A u \in Tasks, v \in Learners, q \in Requests : IsLatest(q, u, v)' <=> IsLatest(q, u, v)
    BY <1>6, LatestStays DEF Flush, Submits
  <2> QED
    BY <1>6, <2>1, ToldFrame DEF Flush, Submits
<1>7. ASSUME NEW r \in Requests, FlushTask(r)
      PROVE  (VerdictIsOnLatestWork /\ UnjudgedIsVisible)'
  <2>1. \A u \in Tasks, v \in Learners, q \in Requests : IsLatest(q, u, v)' <=> IsLatest(q, u, v)
    BY <1>7, LatestStays DEF FlushTask
  <2> QED
    BY <1>7, <2>1, ToldFrame DEF FlushTask
<1>8. ASSUME NEW r \in Requests, ReadPatched(r)
      PROVE  (VerdictIsOnLatestWork /\ UnjudgedIsVisible)'
  <2>1. \A u \in Tasks, v \in Learners, q \in Requests : IsLatest(q, u, v)' <=> IsLatest(q, u, v)
    BY <1>8, LatestStays DEF ReadPatched
  <2> QED
    BY <1>8, <2>1, ToldFrame DEF ReadPatched
<1>9. ASSUME NEW r \in Requests, Score(r)
      PROVE  (VerdictIsOnLatestWork /\ UnjudgedIsVisible)'
  <2>1. \A u \in Tasks, v \in Learners, q \in Requests : IsLatest(q, u, v)' <=> IsLatest(q, u, v)
    BY <1>9, LatestStays DEF Score, ScoreNext, Recomputes
  <2> QED
    BY <1>9, <2>1, ToldFrame DEF Score, ScoreNext, Recomputes
<1>10. ASSUME NEW r \in Requests, Commit(r)
      PROVE  (VerdictIsOnLatestWork /\ UnjudgedIsVisible)'
  <2>1. task[r] \in Tasks /\ who[r] \in Learners /\ kind[r] \in Kinds \ {"view"} /\ phase[r] \in {"flushed", "scored"} /\ RowAfter(r) \in Statuses
    BY <1>10, Committed
  <2>2. status' = [status EXCEPT ![task[r]][who[r]] = RowAfter(r)] /\ stamp' = stamp /\ judged' = judged \cup Given(r)
    BY <1>10 DEF Commit
  <2>3. ASSUME NEW t \in Tasks, NEW l \in Learners, <<t, l>> \notin masked', ~(t = task[r] /\ l = who[r])
        PROVE  Told(t, l)'
    BY <1>10, <2>1, <2>3, OthersTold
  <2>4. ASSUME <<task[r], who[r]>> \notin masked'
        PROVE  Told(task[r], who[r])'
    BY <1>10, <2>4, OwnTold
  <2>5. ASSUME NEW t \in Tasks, NEW l \in Learners, <<t, l>> \notin masked'
        PROVE  Told(t, l)'
    <3>1. CASE t = task[r] /\ l = who[r]
      <4>1. task' = task /\ who' = who
        BY <1>10 DEF Commit
      <4> QED
        BY <2>4, <2>5, <3>1, <4>1 DEF Told, IsLatest
    <3> QED
      BY <2>3, <2>5, <3>1
  <2> QED
    BY <2>1, <2>5 DEF Told, VerdictIsOnLatestWork, UnjudgedIsVisible
<1>11. ASSUME NEW r \in Requests, CommitTask(r)
      PROVE  (VerdictIsOnLatestWork /\ UnjudgedIsVisible)'
  <2>1. \A u \in Tasks, v \in Learners, q \in Requests : IsLatest(q, u, v)' <=> IsLatest(q, u, v)
    BY <1>11, LatestStays DEF CommitTask, Unlocked
  <2> QED
    BY <1>11, <2>1, ToldFrame DEF CommitTask, Unlocked
<1>12. ASSUME NEW r \in Requests, CommitView(r)
      PROVE  (VerdictIsOnLatestWork /\ UnjudgedIsVisible)'
  <2>1. \A u \in Tasks, v \in Learners, q \in Requests : IsLatest(q, u, v)' <=> IsLatest(q, u, v)
    BY <1>12, LatestStays DEF CommitView, Recomputes, Unlocked
  <2> QED
    BY <1>12, <2>1, ToldFrame DEF CommitView, Recomputes, Unlocked
<1>13. ASSUME NEW r \in Requests, Fail(r)
      PROVE  (VerdictIsOnLatestWork /\ UnjudgedIsVisible)'
  <2>1. \A u \in Tasks, v \in Learners, q \in Requests : IsLatest(q, u, v)' <=> IsLatest(q, u, v)
    BY <1>13, LatestStays DEF Fail, Unlocked
  <2> QED
    BY <1>13, <2>1, ToldFrame DEF Fail, Unlocked
<1>15. ASSUME NEW r \in Requests, Insert(r)
      PROVE  (VerdictIsOnLatestWork /\ UnjudgedIsVisible)'
  <2>1. stamp' = [stamp EXCEPT ![r] = Clock] /\ phase[r] # "ended" /\ UNCHANGED <<status, work, judged, masked>>
    BY <1>15 DEF Insert
  <2>2. Clock \in Nat
    BY ClockTicks DEF IInv
  <2>3. \A t \in Tasks, l \in Learners, q \in Requests : IsLatest(q, t, l)' <=> IsLatest(q, t, l)
    BY <2>1, <2>2, LatestStays
  <2> QED
    BY <2>1, <2>3, ToldFrame
<1>16. ASSUME NEW r \in Requests, Post(r)
      PROVE  (VerdictIsOnLatestWork /\ UnjudgedIsVisible)'
  <2>1. \A u \in Tasks, v \in Learners, q \in Requests : IsLatest(q, u, v)' <=> IsLatest(q, u, v)
    BY <1>16, LatestStays DEF Post
  <2> QED
    BY <1>16, <2>1, ToldFrame DEF Post
<1>17. ASSUME NEW r \in Requests, Note(r)
      PROVE  (VerdictIsOnLatestWork /\ UnjudgedIsVisible)'
  <2>1. \A u \in Tasks, v \in Learners, q \in Requests : IsLatest(q, u, v)' <=> IsLatest(q, u, v)
    BY <1>17, LatestStays DEF Note
  <2> QED
    BY <1>17, <2>1, ToldFrame DEF Note
<1>14. CASE UNCHANGED vars
  <2>1. \A t \in Tasks, l \in Learners, q \in Requests : IsLatest(q, t, l)' <=> IsLatest(q, t, l)
    BY <1>14 DEF vars, IsLatest
  <2> QED
    BY <1>14, <2>1, ToldFrame DEF vars
<1> HIDE DEF tables, locks, locals, history
<1> QED
  BY <1>1, <1>2, <1>3, <1>4, <1>5, <1>6, <1>7, <1>8, <1>9, <1>10, <1>11, <1>12, <1>13, <1>14, <1>15, <1>16, <1>17 DEF Next, Step

\* Only a commit changes what a computed completion rests on.
LEMMA SeenStays ==
    ASSUME IInv, NEW q \in Requests, phase[q] = "scored", UNCHANGED <<status, task[q], kind[q], want[q], who[q], seen[q].row>>
    PROVE  StatusSeen(q)' = StatusSeen(q)
  BY DEF StatusSeen, Written, NewRow, Submits, AssignmentStatus

\* While a completion that has been computed waits for its commit, an other commit
\* for the learner takes the learner out of the account or changes nothing.
LEMMA CommitLeaves ==
    ASSUME IInv, NEW r \in Requests, Commit(r), NEW q \in Requests, q # r, phase[q] = "scored", who[q] \notin unscored'
    PROVE  StatusSeen(q)' = StatusSeen(q)
<1>1. task[r] \in Tasks /\ who[r] \in Learners /\ phase[r] \in {"flushed", "scored"}
  BY Committed
<1>2. UNCHANGED locals /\ status' = [status EXCEPT ![task[r]][who[r]] = RowAfter(r)]
  BY DEF Commit
<1>3. CASE who[q] = who[r]
  <2>1. ~Unscores(r) /\ ~Recomputes(r)
    <3>1. Recomputes(r) => phase[r] = "scored"
      BY DEF Commit
    <3>2. phase[r] # "scored"
      BY <1>3 DEF IInv, ResultIsRight
    <3> QED
      BY <1>3, <3>1, <3>2 DEF Commit
  <2>2. RowAfter(r) = status[task[r]][who[r]]
    BY <2>1 DEF Unscores
  <2>3. status' = status
    BY <1>1, <1>2, <2>2 DEF IInv, TypeOK
  <2> QED
    BY <1>2, <2>3, SeenStays DEF locals
<1>4. CASE who[q] # who[r]
  <2>1. \A t \in Tasks : status'[t][who[q]] = status[t][who[q]]
    BY <1>1, <1>2, <1>4 DEF IInv, TypeOK
  <2>2. task' = task /\ who' = who /\ kind' = kind /\ want' = want /\ seen' = seen
    BY <1>2 DEF locals
  <2>3. NewRow(q)' = NewRow(q)
    BY <2>2 DEF NewRow, Submits, AssignmentStatus
  <2> QED
    BY <2>1, <2>2, <2>3 DEF StatusSeen, Written
<1> QED
  BY <1>3, <1>4

\* Computed completions stay right.
LEMMA ResultStep == IInv /\ [Next]_vars => ResultIsRight'
<1> SUFFICES ASSUME IInv, [Next]_vars PROVE ResultIsRight'
  OBVIOUS
<1> USE NamesAssumption DEF IInv, TypeOK, Shape, ShapeOf, Active, ResultIsRight, ScoreIsCurrent, tables, locks, locals, history, Kinds
<1>1. ASSUME NEW r \in Requests, NEW k \in Kinds, NEW t \in Tasks, NEW l \in Learners,
               NEW w \in Wanted(k), Begin(r, k, t, l, w)
      PROVE  ResultIsRight'
  <2>1. \A q \in Requests : phase'[q] = "scored" => phase[q] = "scored" /\ q # r
    BY <1>1 DEF Begin
  <2>2. \A q \in Requests : q # r => UNCHANGED <<status, task[q], kind[q], want[q], who[q], seen[q].row, result[q]>>
    BY <1>1 DEF Begin
  <2>3. \A q \in Requests : phase'[q] = "scored" => StatusSeen(q)' = StatusSeen(q)
    BY <2>1, <2>2, SeenStays
  <2>4. UNCHANGED unscored /\ \A q \in Requests : q # r /\ phase[q] = "scored" => userLock'[who[q]] = q
    BY <1>1, <2>1 DEF Begin
  <2> QED
    BY <2>1, <2>2, <2>3, <2>4
<1>2. ASSUME NEW r \in Requests, ReadOwn(r)
      PROVE  ResultIsRight'
  <2>1. \A q \in Requests : phase'[q] = "scored" => phase[q] = "scored" /\ q # r
    BY <1>2 DEF ReadOwn
  <2>2. \A q \in Requests : q # r => UNCHANGED <<status, task[q], kind[q], want[q], who[q], seen[q].row, result[q]>>
    BY <1>2 DEF ReadOwn
  <2>3. \A q \in Requests : phase'[q] = "scored" => StatusSeen(q)' = StatusSeen(q)
    BY <2>1, <2>2, SeenStays
  <2>4. UNCHANGED unscored /\ \A q \in Requests : q # r /\ phase[q] = "scored" => userLock'[who[q]] = q
    BY <1>2, <2>1 DEF ReadOwn
  <2> QED
    BY <2>1, <2>2, <2>3, <2>4
<1>3. ASSUME NEW r \in Requests, ReadFirst(r)
      PROVE  ResultIsRight'
  <2>1. \A q \in Requests : phase'[q] = "scored" => phase[q] = "scored" /\ q # r
    BY <1>3 DEF ReadFirst
  <2>2. \A q \in Requests : q # r => UNCHANGED <<status, task[q], kind[q], want[q], who[q], seen[q].row, result[q]>>
    BY <1>3 DEF ReadFirst
  <2>3. \A q \in Requests : phase'[q] = "scored" => StatusSeen(q)' = StatusSeen(q)
    BY <2>1, <2>2, SeenStays
  <2>4. UNCHANGED unscored /\ \A q \in Requests : q # r /\ phase[q] = "scored" => userLock'[who[q]] = q
    BY <1>3, <2>1 DEF ReadFirst
  <2> QED
    BY <2>1, <2>2, <2>3, <2>4
<1>4. ASSUME NEW r \in Requests, Prepare(r)
      PROVE  ResultIsRight'
  <2>1. \A q \in Requests : phase'[q] = "scored" => phase[q] = "scored" /\ q # r
    BY <1>4 DEF Prepare, Inserts
  <2>2. \A q \in Requests : q # r => UNCHANGED <<status, task[q], kind[q], want[q], who[q], seen[q].row, result[q]>>
    BY <1>4 DEF Prepare, Inserts
  <2>3. \A q \in Requests : phase'[q] = "scored" => StatusSeen(q)' = StatusSeen(q)
    BY <2>1, <2>2, SeenStays
  <2>4. UNCHANGED unscored /\ \A q \in Requests : q # r /\ phase[q] = "scored" => userLock'[who[q]] = q
    BY <1>4, <2>1 DEF Prepare, Inserts
  <2> QED
    BY <2>1, <2>2, <2>3, <2>4
<1>5. ASSUME NEW r \in Requests, Pick(r)
      PROVE  ResultIsRight'
  <2>1. \A q \in Requests : phase'[q] = "scored" => phase[q] = "scored" /\ q # r
    BY <1>5 DEF Pick
  <2>2. \A q \in Requests : q # r => UNCHANGED <<status, task[q], kind[q], want[q], who[q], seen[q].row, result[q]>>
    BY <1>5 DEF Pick
  <2>3. \A q \in Requests : phase'[q] = "scored" => StatusSeen(q)' = StatusSeen(q)
    BY <2>1, <2>2, SeenStays
  <2>4. UNCHANGED unscored /\ \A q \in Requests : q # r /\ phase[q] = "scored" => userLock'[who[q]] = q
    BY <1>5, <2>1 DEF Pick
  <2> QED
    BY <2>1, <2>2, <2>3, <2>4
<1>6. ASSUME NEW r \in Requests, Flush(r)
      PROVE  ResultIsRight'
  <2>1. \A q \in Requests : phase'[q] = "scored" => phase[q] = "scored" /\ q # r
    BY <1>6 DEF Flush, Submits
  <2>2. \A q \in Requests : q # r => UNCHANGED <<status, task[q], kind[q], want[q], who[q], seen[q].row, result[q]>>
    BY <1>6 DEF Flush, Submits
  <2>3. \A q \in Requests : phase'[q] = "scored" => StatusSeen(q)' = StatusSeen(q)
    BY <2>1, <2>2, SeenStays
  <2>4. UNCHANGED unscored /\ \A q \in Requests : q # r /\ phase[q] = "scored" => userLock'[who[q]] = q
    BY <1>6, <2>1 DEF Flush, Submits
  <2> QED
    BY <2>1, <2>2, <2>3, <2>4
<1>7. ASSUME NEW r \in Requests, FlushTask(r)
      PROVE  ResultIsRight'
  <2>1. \A q \in Requests : phase'[q] = "scored" => phase[q] = "scored" /\ q # r
    BY <1>7 DEF FlushTask
  <2>2. \A q \in Requests : q # r => UNCHANGED <<status, task[q], kind[q], want[q], who[q], seen[q].row, result[q]>>
    BY <1>7 DEF FlushTask
  <2>3. \A q \in Requests : phase'[q] = "scored" => StatusSeen(q)' = StatusSeen(q)
    BY <2>1, <2>2, SeenStays
  <2>4. UNCHANGED unscored /\ \A q \in Requests : q # r /\ phase[q] = "scored" => userLock'[who[q]] = q
    BY <1>7, <2>1 DEF FlushTask
  <2> QED
    BY <2>1, <2>2, <2>3, <2>4
<1>8. ASSUME NEW r \in Requests, ReadPatched(r)
      PROVE  ResultIsRight'
  <2>1. \A q \in Requests : phase'[q] = "scored" => phase[q] = "scored" /\ q # r
    BY <1>8 DEF ReadPatched
  <2>2. \A q \in Requests : q # r => UNCHANGED <<status, task[q], kind[q], want[q], who[q], seen[q].row, result[q]>>
    BY <1>8 DEF ReadPatched
  <2>3. \A q \in Requests : phase'[q] = "scored" => StatusSeen(q)' = StatusSeen(q)
    BY <2>1, <2>2, SeenStays
  <2>4. UNCHANGED unscored /\ \A q \in Requests : q # r /\ phase[q] = "scored" => userLock'[who[q]] = q
    BY <1>8, <2>1 DEF ReadPatched
  <2> QED
    BY <2>1, <2>2, <2>3, <2>4
<1>9. ASSUME NEW r \in Requests, Score(r)
      PROVE  ResultIsRight'
  <2>1. phase' = [phase EXCEPT ![r] = "scored"] /\ UNCHANGED <<status, task, kind, want, who, unscored>> /\ \A q \in Requests : seen'[q].row = seen[q].row
    BY <1>9 DEF Score, ScoreNext
  <2>2. result' = [result EXCEPT ![r] = Percent(StatusSeen(r))] /\ userLock' = [userLock EXCEPT ![who[r]] = r] /\ userLock[who[r]] = "nobody" /\ who[r] \in Learners
    BY <1>9 DEF Score, ScoreNext, Recomputes
  <2>3. \A q \in Requests : q # r /\ phase[q] = "scored" => who[q] # who[r] /\ UNCHANGED StatusSeen(q)
    BY <2>1, <2>2, SeenStays
  <2>4. StatusSeen(r)' = StatusSeen(r)
    BY <2>1 DEF StatusSeen, Written, NewRow, Submits, AssignmentStatus
  <2>5. \A q \in Requests : phase'[q] = "scored" => userLock'[who'[q]] = q
    BY <2>1, <2>2, <2>3
  <2>6. result'[r] = Percent(StatusSeen(r)')
    BY <2>2, <2>4
  <2>7. \A q \in Requests : q # r /\ phase[q] = "scored" /\ who[q] \notin unscored => result'[q] = Percent(StatusSeen(q)')
    BY <2>2, <2>3
  <2>8. \A q \in Requests : phase'[q] = "scored" => q = r \/ phase[q] = "scored"
    BY <2>1
  <2>9. \A q \in Requests : Percent(StatusSeen(q))' = Percent(StatusSeen(q)')
    BY DEF Percent
  <2> QED
    BY <2>1, <2>5, <2>6, <2>7, <2>8, <2>9
<1>10. ASSUME NEW r \in Requests, Commit(r)
      PROVE  ResultIsRight'
  <2>1. who[r] \in Learners
    BY <1>10, Committed
  <2>2. phase' = [phase EXCEPT ![r] = "ended"] /\ UNCHANGED <<who, result>> /\ unscored \subseteq unscored'
    BY <1>10 DEF Commit
  <2>3. \A q \in Requests : phase'[q] = "scored" /\ who[q] \notin unscored' => StatusSeen(q)' = StatusSeen(q)
    BY <1>10, <2>2, CommitLeaves
  <2>4. \A q \in Requests : q # r /\ phase[q] = "scored" => userLock'[who[q]] = q
    BY <1>10 DEF Commit, Unlocked
  <2>5. \A q \in Requests : Percent(StatusSeen(q))' = Percent(StatusSeen(q)')
    BY DEF Percent
  <2>6. \A q \in Requests : phase'[q] = "scored" => q # r /\ phase[q] = "scored"
    BY <2>2
  <2> QED
    BY <2>2, <2>3, <2>4, <2>5, <2>6
<1>11. ASSUME NEW r \in Requests, CommitTask(r)
      PROVE  ResultIsRight'
  <2>1. \A q \in Requests : phase'[q] = "scored" => phase[q] = "scored" /\ q # r
    BY <1>11 DEF CommitTask, Unlocked
  <2>2. \A q \in Requests : q # r => UNCHANGED <<status, task[q], kind[q], want[q], who[q], seen[q].row, result[q]>>
    BY <1>11 DEF CommitTask, Unlocked
  <2>3. \A q \in Requests : phase'[q] = "scored" => StatusSeen(q)' = StatusSeen(q)
    BY <2>1, <2>2, SeenStays
  <2>4. UNCHANGED unscored /\ \A q \in Requests : q # r /\ phase[q] = "scored" => userLock'[who[q]] = q
    BY <1>11, <2>1 DEF CommitTask, Unlocked
  <2> QED
    BY <2>1, <2>2, <2>3, <2>4
<1>12. ASSUME NEW r \in Requests, CommitView(r)
      PROVE  ResultIsRight'
  <2>1. \A q \in Requests : phase'[q] = "scored" => phase[q] = "scored" /\ q # r
    BY <1>12 DEF CommitView
  <2>2. \A q \in Requests : UNCHANGED <<status, task[q], kind[q], want[q], who[q], seen[q].row, result[q]>>
    BY <1>12 DEF CommitView
  <2>3. \A q \in Requests : phase'[q] = "scored" => StatusSeen(q)' = StatusSeen(q)
    BY <2>1, <2>2, SeenStays
  <2>4. unscored \subseteq unscored' /\ \A q \in Requests : q # r /\ phase[q] = "scored" => userLock'[who[q]] = q
    BY <1>12 DEF CommitView, Unlocked
  <2>5. \A q \in Requests : Percent(StatusSeen(q))' = Percent(StatusSeen(q)')
    BY DEF Percent
  <2> QED
    BY <2>1, <2>2, <2>3, <2>4, <2>5
<1>13. ASSUME NEW r \in Requests, Fail(r)
      PROVE  ResultIsRight'
  <2>1. \A q \in Requests : phase'[q] = "scored" => phase[q] = "scored" /\ q # r
    BY <1>13 DEF Fail, Unlocked
  <2>2. \A q \in Requests : q # r => UNCHANGED <<status, task[q], kind[q], want[q], who[q], seen[q].row, result[q]>>
    BY <1>13 DEF Fail, Unlocked
  <2>3. \A q \in Requests : phase'[q] = "scored" => StatusSeen(q)' = StatusSeen(q)
    BY <2>1, <2>2, SeenStays
  <2>4. UNCHANGED unscored /\ \A q \in Requests : q # r /\ phase[q] = "scored" => userLock'[who[q]] = q
    BY <1>13, <2>1 DEF Fail, Unlocked
  <2> QED
    BY <2>1, <2>2, <2>3, <2>4
<1>15. ASSUME NEW r \in Requests, Insert(r)
      PROVE  ResultIsRight'
  <2>1. \A q \in Requests : phase'[q] = "scored" => phase[q] = "scored" /\ q # r
    BY <1>15 DEF Insert
  <2>2. \A q \in Requests : q # r => UNCHANGED <<status, task[q], kind[q], want[q], who[q], seen[q].row, result[q]>>
    BY <1>15 DEF Insert
  <2>3. \A q \in Requests : phase'[q] = "scored" => StatusSeen(q)' = StatusSeen(q)
    BY <2>1, <2>2, SeenStays
  <2>4. UNCHANGED unscored /\ \A q \in Requests : q # r /\ phase[q] = "scored" => userLock'[who[q]] = q
    BY <1>15, <2>1 DEF Insert
  <2> QED
    BY <2>1, <2>2, <2>3, <2>4
<1>16. ASSUME NEW r \in Requests, Post(r)
      PROVE  ResultIsRight'
  <2>1. \A q \in Requests : phase'[q] = "scored" => phase[q] = "scored" /\ q # r
    BY <1>16 DEF Post
  <2>2. \A q \in Requests : q # r => UNCHANGED <<status, task[q], kind[q], want[q], who[q], seen[q].row, result[q]>>
    BY <1>16 DEF Post
  <2>3. \A q \in Requests : phase'[q] = "scored" => StatusSeen(q)' = StatusSeen(q)
    BY <2>1, <2>2, SeenStays
  <2>4. UNCHANGED unscored /\ \A q \in Requests : q # r /\ phase[q] = "scored" => userLock'[who[q]] = q
    BY <1>16, <2>1 DEF Post
  <2> QED
    BY <2>1, <2>2, <2>3, <2>4
<1>17. ASSUME NEW r \in Requests, Note(r)
      PROVE  ResultIsRight'
  <2>1. \A q \in Requests : phase'[q] = "scored" => phase[q] = "scored" /\ q # r
    BY <1>17 DEF Note
  <2>2. \A q \in Requests : q # r => UNCHANGED <<status, task[q], kind[q], want[q], who[q], seen[q].row, result[q]>>
    BY <1>17 DEF Note
  <2>3. \A q \in Requests : phase'[q] = "scored" => StatusSeen(q)' = StatusSeen(q)
    BY <2>1, <2>2, SeenStays
  <2>4. UNCHANGED unscored /\ \A q \in Requests : q # r /\ phase[q] = "scored" => userLock'[who[q]] = q
    BY <1>17, <2>1 DEF Note
  <2> QED
    BY <2>1, <2>2, <2>3, <2>4
<1>14. CASE UNCHANGED vars
  <2>1. \A q \in Requests : phase[q] = "scored" => StatusSeen(q)' = StatusSeen(q)
    BY <1>14, SeenStays DEF vars
  <2>2. \A q \in Requests : Percent(StatusSeen(q))' = Percent(StatusSeen(q)')
    BY DEF Percent
  <2> QED
    BY <1>14, <2>1, <2>2 DEF vars
<1> HIDE DEF IInv, TypeOK, Shape, ShapeOf, Active, ResultIsRight, ScoreIsCurrent, tables, locks, locals, history, Kinds
<1> QED
  BY <1>1, <1>2, <1>3, <1>4, <1>5, <1>6, <1>7, <1>8, <1>9, <1>10, <1>11, <1>12, <1>13, <1>14, <1>15, <1>16, <1>17 DEF Next, Step

\* Stored completions stay current while they and the assignments stay.
LEMMA ScoreFrame == ScoreIsCurrent /\ UNCHANGED <<status, score, unscored>> => ScoreIsCurrent'
<1> SUFFICES ASSUME ScoreIsCurrent, UNCHANGED <<status, score, unscored>>, NEW l \in Learners \ unscored'
             PROVE  score'[l] = Percent(StatusOf(l))'
  BY DEF ScoreIsCurrent
<1>1. StatusOf(l)' = StatusOf(l)
  BY DEF StatusOf
<1>2. Percent(StatusOf(l))' = Percent(StatusOf(l)')
  BY DEF Percent
<1> QED
  BY <1>1, <1>2 DEF ScoreIsCurrent

\* Stored completions stay current.
LEMMA ScoreStep == IInv /\ [Next]_vars => ScoreIsCurrent'
<1> SUFFICES ASSUME IInv, [Next]_vars PROVE ScoreIsCurrent'
  OBVIOUS
<1> USE NamesAssumption DEF IInv, TypeOK, ScoreIsCurrent, tables, locks, locals, history
<1>1. ASSUME NEW r \in Requests, NEW k \in Kinds, NEW t \in Tasks, NEW l \in Learners,
               NEW w \in Wanted(k), Begin(r, k, t, l, w)
      PROVE  ScoreIsCurrent'
  BY <1>1, ScoreFrame DEF Begin
<1>2. ASSUME NEW r \in Requests, ReadOwn(r)
      PROVE  ScoreIsCurrent'
  BY <1>2, ScoreFrame DEF ReadOwn
<1>3. ASSUME NEW r \in Requests, ReadFirst(r)
      PROVE  ScoreIsCurrent'
  BY <1>3, ScoreFrame DEF ReadFirst
<1>4. ASSUME NEW r \in Requests, Prepare(r)
      PROVE  ScoreIsCurrent'
  BY <1>4, ScoreFrame DEF Prepare, Inserts
<1>5. ASSUME NEW r \in Requests, Pick(r)
      PROVE  ScoreIsCurrent'
  BY <1>5, ScoreFrame DEF Pick
<1>6. ASSUME NEW r \in Requests, Flush(r)
      PROVE  ScoreIsCurrent'
  BY <1>6, ScoreFrame DEF Flush, Submits
<1>7. ASSUME NEW r \in Requests, FlushTask(r)
      PROVE  ScoreIsCurrent'
  BY <1>7, ScoreFrame DEF FlushTask
<1>8. ASSUME NEW r \in Requests, ReadPatched(r)
      PROVE  ScoreIsCurrent'
  BY <1>8, ScoreFrame DEF ReadPatched
<1>9. ASSUME NEW r \in Requests, Score(r)
      PROVE  ScoreIsCurrent'
  BY <1>9, ScoreFrame DEF Score, ScoreNext, Recomputes
<1>10. ASSUME NEW r \in Requests, Commit(r)
      PROVE  ScoreIsCurrent'
  <2>1. task[r] \in Tasks /\ who[r] \in Learners /\ kind[r] # "view"
    BY <1>10, Committed
  <2>2. status' = [status EXCEPT ![task[r]][who[r]] = RowAfter(r)] /\ unscored \subseteq unscored'
    BY <1>10 DEF Commit
  <2>3. \A l \in Learners : Percent(StatusOf(l))' = Percent(StatusOf(l)')
    BY DEF Percent
  <2>4. ASSUME NEW l \in Learners \ unscored', l # who[r]
        PROVE  score'[l] = Percent(StatusOf(l)')
    <3>1. score'[l] = score[l]
      BY <1>10, <2>1, <2>4 DEF Commit
    <3>2. StatusOf(l)' = StatusOf(l)
      BY <2>1, <2>2, <2>4 DEF StatusOf
    <3> QED
      BY <2>2, <2>4, <3>1, <3>2
  <2>0. UNCHANGED who
    BY <1>10 DEF Commit
  <2>5. ASSUME who[r] \notin unscored'
        PROVE  score'[who[r]] = Percent(StatusOf(who[r])')
    <3>1. ~Unscores(r)
      BY <1>10, <2>5 DEF Commit
    <3>2. CASE Recomputes(r)
      <4>1. phase[r] = "scored" /\ score'[who[r]] = ScoreAfter(r)
        BY <1>10, <2>1, <3>2 DEF Commit
      <4>2. ScoreAfter(r) = Percent(StatusSeen(r))
        BY <2>2, <2>5, <3>1, <3>2, <4>1 DEF Unscores, ResultIsRight
      <4>3. who' = who
        BY <1>10 DEF Commit
      <4>4. StatusOf(who[r])' = [t \in Tasks |-> status'[t][who[r]]]
        BY <4>3 DEF StatusOf
      <4>5. StatusSeen(r) = [t \in Tasks |-> status'[t][who[r]]]
        BY <2>1, <2>2 DEF StatusSeen, RowAfter
      <4> QED
        BY <4>1, <4>2, <4>4, <4>5
    <3>3. CASE ~Recomputes(r)
      <4>1. status' = status /\ score' = score /\ who' = who
        BY <1>10, <2>1, <2>2, <3>1, <3>3 DEF Unscores, Commit
      <4>2. StatusOf(who[r])' = StatusOf(who[r])
        BY <4>1 DEF StatusOf
      <4> QED
        BY <2>1, <2>2, <2>5, <4>1, <4>2
    <3> QED
      BY <3>2, <3>3
  <2>6. \A l \in Learners \ unscored' : score'[l] = Percent(StatusOf(l)')
    <3> SUFFICES ASSUME NEW l \in Learners \ unscored' PROVE score'[l] = Percent(StatusOf(l)')
      OBVIOUS
    <3>1. CASE l = who[r]
      <4>1. StatusOf(l)' = StatusOf(who[r])'
        BY <2>0, <3>1 DEF StatusOf
      <4> QED
        BY <2>5, <3>1, <4>1
    <3> QED
      BY <2>4, <3>1
  <2> QED
    BY <2>0, <2>1, <2>2, <2>3, <2>4, <2>5, <2>6
<1>11. ASSUME NEW r \in Requests, CommitTask(r)
      PROVE  ScoreIsCurrent'
  BY <1>11, ScoreFrame DEF CommitTask, Unlocked
<1>12. ASSUME NEW r \in Requests, CommitView(r)
      PROVE  ScoreIsCurrent'
  <2>1. phase[r] = "scored" /\ who[r] \in Learners /\ Recomputes(r)
    BY <1>12, ScoreTyped DEF CommitView, Recomputes
  <2>2. UNCHANGED status /\ score' = [score EXCEPT ![who[r]] = ScoreAfter(r)]
    BY <1>12 DEF CommitView
  <2>3. StatusSeen(r) = StatusOf(who[r])
    BY <1>12, <2>1, NamesAssumption DEF StatusSeen, StatusOf, Shape, ShapeOf, CommitView
  <2>4. who[r] \notin unscored' => ScoreAfter(r) = Percent(StatusOf(who[r]))
    BY <1>12, <2>1, <2>3 DEF CommitView, Unscores, ResultIsRight
  <2>5. \A l \in Learners : Percent(StatusOf(l))' = Percent(StatusOf(l))
    BY <2>2 DEF StatusOf, Percent
  <2>6. unscored \subseteq unscored'
    BY <1>12 DEF CommitView
  <2> QED
    BY <2>1, <2>2, <2>4, <2>5, <2>6
<1>13. ASSUME NEW r \in Requests, Fail(r)
      PROVE  ScoreIsCurrent'
  BY <1>13, ScoreFrame DEF Fail, Unlocked
<1>15. ASSUME NEW r \in Requests, Insert(r)
      PROVE  ScoreIsCurrent'
  BY <1>15, ScoreFrame DEF Insert
<1>16. ASSUME NEW r \in Requests, Post(r)
      PROVE  ScoreIsCurrent'
  BY <1>16, ScoreFrame DEF Post
<1>17. ASSUME NEW r \in Requests, Note(r)
      PROVE  ScoreIsCurrent'
  BY <1>17, ScoreFrame DEF Note
<1>14. CASE UNCHANGED vars
  BY <1>14, ScoreFrame DEF vars
<1> HIDE DEF IInv, TypeOK, ScoreIsCurrent, tables, locks, locals, history
<1> QED
  BY <1>1, <1>2, <1>3, <1>4, <1>5, <1>6, <1>7, <1>8, <1>9, <1>10, <1>11, <1>12, <1>13, <1>14, <1>15, <1>16, <1>17 DEF Next, Step

\* Tasks of one learner follow the assignment.
LEMMA FollowsStep == IInv /\ [Next]_vars => TaskFollowsAssignment'
<1> SUFFICES ASSUME IInv, [Next]_vars PROVE TaskFollowsAssignment'
  OBVIOUS
<1> USE NamesAssumption DEF IInv, TypeOK, TaskFollowsAssignment, tables, locks, locals, history
<1>1. ASSUME NEW r \in Requests, NEW k \in Kinds, NEW t \in Tasks, NEW l \in Learners,
               NEW w \in Wanted(k), Begin(r, k, t, l, w)
      PROVE  TaskFollowsAssignment'
  BY <1>1 DEF Begin, AssignmentStatus
<1>2. ASSUME NEW r \in Requests, ReadOwn(r)
      PROVE  TaskFollowsAssignment'
  BY <1>2 DEF ReadOwn, AssignmentStatus
<1>3. ASSUME NEW r \in Requests, ReadFirst(r)
      PROVE  TaskFollowsAssignment'
  BY <1>3 DEF ReadFirst, AssignmentStatus
<1>4. ASSUME NEW r \in Requests, Prepare(r)
      PROVE  TaskFollowsAssignment'
  BY <1>4 DEF Prepare, Inserts, AssignmentStatus
<1>5. ASSUME NEW r \in Requests, Pick(r)
      PROVE  TaskFollowsAssignment'
  BY <1>5 DEF Pick, AssignmentStatus
<1>6. ASSUME NEW r \in Requests, Flush(r)
      PROVE  TaskFollowsAssignment'
  BY <1>6 DEF Flush, Submits, AssignmentStatus
<1>7. ASSUME NEW r \in Requests, FlushTask(r)
      PROVE  TaskFollowsAssignment'
  BY <1>7 DEF FlushTask, AssignmentStatus
<1>8. ASSUME NEW r \in Requests, ReadPatched(r)
      PROVE  TaskFollowsAssignment'
  BY <1>8 DEF ReadPatched, AssignmentStatus
<1>9. ASSUME NEW r \in Requests, Score(r)
      PROVE  TaskFollowsAssignment'
  BY <1>9 DEF Score, ScoreNext, Recomputes, AssignmentStatus
<1>10. ASSUME NEW r \in Requests, Commit(r)
      PROVE  TaskFollowsAssignment'
  <2>1. /\ task[r] \in Tasks /\ who[r] \in Learners /\ kind[r] \in Kinds \ {"view"} /\ phase[r] \in {"flushed", "scored"}
        /\ NewRow(r) = seen[r].row => RowAfter(r) = status[task[r]][who[r]]
        /\ NewRow(r) # seen[r].row => RowAfter(r) = NewRow(r)
    BY <1>10, Committed
  <2>2. /\ status' = [status EXCEPT ![task[r]][who[r]] = RowAfter(r)]
        /\ taskStatus' = [taskStatus EXCEPT ![task[r]] = TaskAfter(r)]
        /\ UNCHANGED scope /\ torn' = IF Tears(r) THEN torn \cup {task[r]} ELSE torn
    BY <1>10 DEF Commit
  <2>3. ASSUME NEW t \in Tasks \ torn', NEW l \in Learners, t # task[r], scope[t] = "individual", status'[t][l] # "none"
        PROVE  AssignmentStatus(taskStatus'[t]) = status'[t][l]
    <3>1. taskStatus'[t] = taskStatus[t] /\ status'[t][l] = status[t][l] /\ t \in Tasks \ torn
      BY <2>1, <2>2, <2>3
    <3> QED
      BY <2>3, <3>1
  <2>4. ASSUME NEW l \in Learners, task[r] \notin torn', scope[task[r]] = "individual", status'[task[r]][l] # "none"
        PROVE  l = who[r] /\ status[task[r]][l] # "none"
    <3>a. scope[task[r]] # "all" /\ who[r] # "nobody"
      BY <2>1, <2>4, NamesAssumption
    <3>1. status[task[r]][who[r]] # "none"
      <4>1. CASE kind[r] = "patch"
        BY <1>10, <2>1, <3>a, <4>1 DEF RowsKnown, Commit, Recomputes
      <4>2. CASE kind[r] # "patch"
        <5>1. kind[r] \in {"start", "submit", "mark", "review"} /\ Active(r)
          BY <2>1, <4>2 DEF Active, Kinds
        <5>2. seen[r].row # "none"
          BY <3>a, <5>1 DEF RowsKnown, Shape, ShapeOf
        <5> QED
          BY <5>1, <5>2 DEF RowsKnown
      <4> QED
        BY <4>1, <4>2
    <3>2. status[task[r]][l] # "none"
      BY <2>1, <2>2, <2>4, <3>1
    <3> QED
      BY <2>1, <2>4, <3>1, <3>2 DEF RowsKnown
  <2>5. ASSUME task[r] \notin torn', scope[task[r]] = "individual", status[task[r]][who[r]] # "none"
        PROVE  AssignmentStatus(TaskAfter(r)) = RowAfter(r)
    <3>1. ~Tears(r) /\ task[r] \notin torn
      BY <2>2, <2>5
    <3>2. AssignmentStatus(NewTask(r)) = NewRow(r)
      BY <2>1, NewValues DEF Kinds
    <3>3. AssignmentStatus(taskStatus[task[r]]) = status[task[r]][who[r]]
      BY <2>1, <2>5, <3>1
    <3>4. CASE taskStatus[task[r]] = seen[r].task /\ status[task[r]][who[r]] = seen[r].row
      BY <2>1, <3>2, <3>3, <3>4 DEF TaskAfter, Written
    <3>5. CASE NewTask(r) # seen[r].task /\ NewRow(r) # seen[r].row
      BY <2>1, <3>2, <3>5 DEF TaskAfter, Written
    <3> QED
      BY <3>1, <3>4, <3>5 DEF Tears
  <2>6. status'[task[r]][who[r]] = RowAfter(r) /\ taskStatus'[task[r]] = TaskAfter(r)
    BY <2>1, <2>2
  <2>7. ASSUME NEW t \in Tasks \ torn', NEW l \in Learners, scope[t] = "individual", status'[t][l] # "none"
        PROVE  AssignmentStatus(taskStatus'[t]) = status'[t][l]
    BY <2>3, <2>4, <2>5, <2>6, <2>7
  <2> QED
    BY <2>2, <2>7 DEF AssignmentStatus
<1>11. ASSUME NEW r \in Requests, CommitTask(r)
      PROVE  TaskFollowsAssignment'
  <2>1. UNCHANGED <<scope, status, torn>> /\ task[r] \in Tasks
    BY <1>11 DEF CommitTask, Shape, ShapeOf
  <2>2. scope[task[r]] = "individual" => \A l \in Learners : status[task[r]][l] = "none"
    BY <1>11 DEF CommitTask, RowsKnown
  <2>3. \A t \in Tasks : t # task[r] => taskStatus'[t] = taskStatus[t]
    BY <1>11, <2>1 DEF CommitTask
  <2> QED
    BY <2>1, <2>2, <2>3 DEF AssignmentStatus
<1>12. ASSUME NEW r \in Requests, CommitView(r)
      PROVE  TaskFollowsAssignment'
  BY <1>12 DEF CommitView, Recomputes, Unlocked, AssignmentStatus
<1>13. ASSUME NEW r \in Requests, Fail(r)
      PROVE  TaskFollowsAssignment'
  BY <1>13 DEF Fail, Unlocked, AssignmentStatus
<1>15. ASSUME NEW r \in Requests, Insert(r)
      PROVE  TaskFollowsAssignment'
  BY <1>15 DEF Insert, AssignmentStatus
<1>16. ASSUME NEW r \in Requests, Post(r)
      PROVE  TaskFollowsAssignment'
  BY <1>16 DEF Post, AssignmentStatus
<1>17. ASSUME NEW r \in Requests, Note(r)
      PROVE  TaskFollowsAssignment'
  BY <1>17 DEF Note, AssignmentStatus
<1>14. CASE UNCHANGED vars
  BY <1>14 DEF vars, AssignmentStatus
<1> HIDE DEF IInv, TypeOK, TaskFollowsAssignment, tables, locks, locals, history
<1> QED
  BY <1>1, <1>2, <1>3, <1>4, <1>5, <1>6, <1>7, <1>8, <1>9, <1>10, <1>11, <1>12, <1>13, <1>14, <1>15, <1>16, <1>17 DEF Next, Step

\* The invariant holds initially.
LEMMA InitIInv == Init => IInv
<1> SUFFICES ASSUME Init PROVE IInv
  OBVIOUS
<1> USE NamesAssumption DEF Init
<1>1. \A l \in Learners : StatusOf(l) \in [Tasks -> Statuses \cup {"none"}]
  BY DEF StatusOf, Statuses
<1>2. score \in [Learners -> Scores]
  BY <1>1, PercentIsScore
<1>3. TypeOK
  BY <1>2 DEF TypeOK, Statuses, TaskStatuses, Kinds, Phases
<1>4. Shape
  BY DEF Shape, ShapeOf, Active
<1>5. RowsKnown
  BY DEF RowsKnown, Active
<1>a. \A t \in Tasks, l \in Learners : status[t][l] \in {"none", "assigned"} /\ work[t][l] = {}
  OBVIOUS
<1>6. WorkIsApart /\ VerdictIsOnLatestWork /\ UnjudgedIsVisible
  BY <1>a DEF WorkIsApart, VerdictIsOnLatestWork, UnjudgedIsVisible, Verdicts
<1>7. TimesDiffer
  BY <1>3, ClockTicks DEF TimesDiffer
<1>8. ResultIsRight /\ ScoreIsCurrent
  BY DEF ResultIsRight, ScoreIsCurrent
<1>9. TaskFollowsAssignment
  BY DEF TaskFollowsAssignment, AssignmentStatus
<1> QED
  BY <1>3, <1>4, <1>5, <1>6, <1>7, <1>8, <1>9 DEF IInv

\* Every step preserves the invariant.
LEMMA StepIInv == IInv /\ [Next]_vars => IInv'
  BY TypeStep, ShapeStep, RowsStep, WorkStep, TimesStep, ToldStep, ResultStep, ScoreStep, FollowsStep DEF IInv

\* The invariant holds in every reachable state.
THEOREM Invariant == Spec => []IInv
  BY InitIInv, StepIInv, PTL DEF Spec

\* The types are right for any number of tasks, learners and requests.
THEOREM TypeCorrect == Spec => []TypeOK
<1>1. IInv => TypeOK
  BY DEF IInv
<1> QED
  BY <1>1, Invariant, PTL

\* A verdict is on the latest submission, but for the cases of Masks.
THEOREM VerdictsStayOnLatestWork == Spec => []VerdictIsOnLatestWork
<1>1. IInv => VerdictIsOnLatestWork
  BY DEF IInv
<1> QED
  BY <1>1, Invariant, PTL

\* Unjudged work is what admins find, but for the cases of Masks.
THEOREM UnjudgedStaysVisible == Spec => []UnjudgedIsVisible
<1>1. IInv => UnjudgedIsVisible
  BY DEF IInv
<1> QED
  BY <1>1, Invariant, PTL

\* The stored completion is that of the assignments, but for the cases of Unscores.
THEOREM ScoresStayCurrent == Spec => []ScoreIsCurrent
<1>1. IInv => ScoreIsCurrent
  BY DEF IInv
<1> QED
  BY <1>1, Invariant, PTL

\* The task of one learner follows the assignment, but for the cases of Tears.
THEOREM TasksFollow == Spec => []TaskFollowsAssignment
<1>1. IInv => TaskFollowsAssignment
  BY DEF IInv
<1> QED
  BY <1>1, Invariant, PTL

-----------------------------------------------------------------------------
(* Locks.                                                                  *)

Writers == {"start", "submit", "mark", "review"}

\* A request that has inserted the assignment.
Inserted(r) ==
    /\ Inserts(r)
    /\ phase[r] \in {"ready", "flushed", "scored"} \/ (phase[r] = "read" /\ stamp[r] # 0)

\* Which locks a request holds by phase.
LocksOf(r) ==
    /\ \A t \in Tasks : taskLock[t] = r =>
          /\ task[r] = t
          /\ \/ kind[r] = "patch" /\ phase[r] \in {"read", "flushed"}
             \/ kind[r] = "review" /\ phase[r] \in {"flushed", "scored"}
    /\ \A t \in Tasks, l \in Learners : rowLock[t][l] = r =>
          /\ task[r] = t /\ who[r] = l /\ kind[r] \in Writers
          /\ phase[r] \in {"ready", "flushed", "scored"} \/ Inserted(r)
    /\ \A l \in Learners : userLock[l] = r => phase[r] = "scored" /\ who[r] = l
    /\ \A l \in Learners : r \in share[l] =>
          /\ who[r] = l
          /\ \/ Inserts(r) /\ phase[r] \in {"ready", "flushed", "scored"}
             \/ kind[r] = "review" /\ phase[r] \in {"flushed", "scored"}
    /\ kind[r] \in Writers /\ phase[r] \in {"flushed", "scored"} /\ NewRow(r) # seen[r].row =>
          rowLock[task[r]][who[r]] = r
    /\ Inserted(r) => rowLock[task[r]][who[r]] = r

LockInv == \A r \in Requests : LocksOf(r)

\* A request takes the lock of an assignment that nobody else has.
LEMMA RowTaken ==
    ASSUME NEW r \in Requests, NEW t0 \in Tasks, NEW l0 \in Learners,
           rowLock \in [Tasks -> [Learners -> Requests \cup {"nobody"}]],
           \/ rowLock' = rowLock
           \/ rowLock[t0][l0] \in {"nobody", r} /\ rowLock' = [rowLock EXCEPT ![t0][l0] = r]
    PROVE  /\ \A t \in Tasks, l \in Learners :
                rowLock'[t][l] = rowLock[t][l] \/ (rowLock'[t][l] = r /\ t0 = t /\ l0 = l)
           /\ \A q \in Requests \ {r}, t \in Tasks, l \in Learners : rowLock[t][l] = q => rowLock'[t][l] = q
<1> SUFFICES ASSUME NEW t \in Tasks, NEW l \in Learners
             PROVE  \/ rowLock'[t][l] = rowLock[t][l]
                    \/ rowLock'[t][l] = r /\ t0 = t /\ l0 = l /\ rowLock[t][l] \in {"nobody", r}
  BY NamesAssumption
<1> QED
  OBVIOUS

\* A request takes a share, which leaves the others with theirs.
LEMMA ShareTaken ==
    ASSUME NEW r \in Requests, NEW q \in Requests, q # r, NEW l0,
           share \in [Learners -> SUBSET Requests],
           share' = share \/ share' = [share EXCEPT ![l0] = @ \cup {r}]
    PROVE  \A l \in Learners : q \in share'[l] => q \in share[l]
<1>1. CASE share' = [share EXCEPT ![l0] = @ \cup {r}]
  <2> SUFFICES ASSUME NEW l \in Learners PROVE q \in share'[l] => q \in share[l]
    OBVIOUS
  <2>1. share'[l] = IF l = l0 THEN share[l] \cup {r} ELSE share[l]
    BY <1>1
  <2> QED
    BY <2>1
<1> QED
  BY <1>1

\* What a request holds depends on its own columns and on the locks.
LEMMA LocksStay ==
    ASSUME IInv, NEW q \in Requests, LocksOf(q),
           UNCHANGED <<phase[q], kind[q], task[q], who[q], want[q], seen[q], stamp[q]>>,
           \A t \in Tasks : taskLock'[t] = q => taskLock[t] = q,
           \A t \in Tasks, l \in Learners : rowLock'[t][l] = q <=> rowLock[t][l] = q,
           \A l \in Learners : userLock'[l] = q => userLock[l] = q,
           \A l \in Learners : q \in share'[l] => q \in share[l]
    PROVE  LocksOf(q)'
<1>1. NewRow(q)' = NewRow(q) /\ (Inserts(q)' <=> Inserts(q))
  BY DEF NewRow, Submits, AssignmentStatus, Inserts
<1>2. Inserted(q)' <=> Inserted(q)
  BY <1>1 DEF Inserted
<1>3. kind[q] \in Writers /\ phase[q] \in {"read", "ready", "flushed", "scored"} =>
        task[q] \in Tasks /\ who[q] \in Learners
  BY DEF IInv, Shape, ShapeOf, Active, Writers
<1>4. Inserted(q) => kind[q] \in Writers /\ phase[q] \in {"read", "ready", "flushed", "scored"}
  BY DEF Inserted, Inserts, Writers
<1> QED
  BY <1>1, <1>2, <1>3, <1>4 DEF LocksOf

\* A step changes what one request has.
LEMMA OthersLocks ==
    ASSUME IInv, LockInv, NEW r \in Requests, Step(r), NEW q \in Requests, q # r
    PROVE  LocksOf(q)'
<1> USE NamesAssumption DEF IInv, TypeOK, tables, locks, locals, history
<1>0. LocksOf(q)
  BY DEF LockInv
<1>t. /\ (Insert(r) \/ Prepare(r) \/ Flush(r)) => task[r] \in Tasks /\ who[r] \in Learners
      /\ (FlushTask(r) \/ Post(r)) => task[r] \in Tasks
      /\ (Note(r) \/ Score(r)) => who[r] \in Learners
  BY DEF Shape, ShapeOf, Active, Insert, Prepare, Inserts, Flush, FlushTask, Post, Note, Score, ScoreNext, Recomputes, Kinds
<1>1. UNCHANGED <<phase[q], kind[q], task[q], who[q], want[q], seen[q], stamp[q]>>
  <2>1. CASE \E k \in Kinds, t \in Tasks, l \in Learners : \E w \in Wanted(k) : Begin(r, k, t, l, w)
    BY <2>1 DEF Begin
  <2>2. CASE ReadOwn(r) \/ ReadFirst(r) \/ ReadPatched(r)
    BY <2>2 DEF ReadOwn, ReadFirst, ReadPatched
  <2>3. CASE Insert(r) \/ Prepare(r) \/ Pick(r) \/ Flush(r) \/ FlushTask(r) \/ Post(r) \/ Note(r)
    BY <2>3 DEF Insert, Prepare, Pick, Flush, FlushTask, Post, Note
  <2>4. CASE Score(r) \/ Commit(r) \/ CommitTask(r) \/ CommitView(r) \/ Fail(r)
    BY <2>4 DEF Score, Commit, CommitTask, CommitView, Fail
  <2> QED
    BY <2>1, <2>2, <2>3, <2>4 DEF Step
<1>2. CASE UNCHANGED locks
  BY <1>0, <1>1, <1>2, LocksStay
<1>3. CASE Insert(r) \/ Prepare(r) \/ Flush(r)
  <2>1. \/ rowLock' = rowLock
        \/ rowLock[task[r]][who[r]] \in {"nobody", r} /\ rowLock' = [rowLock EXCEPT ![task[r]][who[r]] = r]
    BY <1>3 DEF Insert, Prepare, Flush, Free
  <2>2. \A t \in Tasks, l \in Learners : rowLock'[t][l] = q <=> rowLock[t][l] = q
    <3>0. task[r] \in Tasks /\ who[r] \in Learners /\ rowLock \in [Tasks -> [Learners -> Requests \cup {"nobody"}]]
      BY <1>3, <1>t
    <3> HIDE DEF IInv, TypeOK, tables, locks, locals, history
    <3>1. /\ \A t \in Tasks, l \in Learners :
                rowLock'[t][l] = rowLock[t][l] \/ (rowLock'[t][l] = r /\ task[r] = t /\ who[r] = l)
          /\ \A p \in Requests \ {r}, t \in Tasks, l \in Learners : rowLock[t][l] = p => rowLock'[t][l] = p
      BY <2>1, <3>0, RowTaken
    <3> QED
      BY <3>1
  <2>3. UNCHANGED <<taskLock, userLock>> /\ (share' = share \/ share' = [share EXCEPT ![who[r]] = @ \cup {r}])
    BY <1>3 DEF Insert, Prepare, Flush
  <2>4. \A l \in Learners : q \in share'[l] => q \in share[l]
    BY <2>3, ShareTaken
  <2> QED
    BY <1>0, <1>1, <2>2, <2>3, <2>4, LocksStay
<1>4. CASE FlushTask(r) \/ Post(r)
  <2>1. UNCHANGED <<rowLock, userLock, share>> /\ \A t \in Tasks : taskLock'[t] = q => taskLock[t] = q
    BY <1>4, <1>t DEF FlushTask, Post
  <2> QED
    BY <1>0, <1>1, <2>1, LocksStay
<1>5. CASE Note(r) \/ Score(r)
  <2>1. /\ UNCHANGED <<rowLock, taskLock>>
        /\ share' = share \/ share' = [share EXCEPT ![who[r]] = @ \cup {r}]
        /\ userLock' = userLock \/ userLock' = [userLock EXCEPT ![who[r]] = r]
    BY <1>5 DEF Note, Score
  <2>2. \A l \in Learners : userLock'[l] = q => userLock[l] = q
    BY <1>5, <1>t, <2>1
  <2>3. \A l \in Learners : q \in share'[l] => q \in share[l]
    BY <2>1, ShareTaken
  <2> QED
    BY <1>0, <1>1, <2>1, <2>2, <2>3, LocksStay
<1>6. CASE Unlocked(r)
  <2>1. /\ \A t \in Tasks : taskLock'[t] = q => taskLock[t] = q
        /\ \A t \in Tasks, l \in Learners : rowLock'[t][l] = q <=> rowLock[t][l] = q
        /\ \A l \in Learners : (userLock'[l] = q => userLock[l] = q) /\ (q \in share'[l] => q \in share[l])
    BY <1>6 DEF Unlocked
  <2> QED
    BY <1>0, <1>1, <2>1, LocksStay
<1> QED
  BY <1>2, <1>3, <1>4, <1>5, <1>6 DEF Step, Begin, ReadOwn, ReadFirst, ReadPatched, Pick, Commit, CommitTask,
     CommitView, Fail

\* A step leaves its own request with the locks of the phase that it reaches.
LEMMA OwnLocks ==
    ASSUME IInv, LockInv, NEW r \in Requests, Step(r)
    PROVE  LocksOf(r)'
<1> USE NamesAssumption DEF tables, locks, locals, history, Writers, Inserts, Inserted
<1>0. /\ LocksOf(r) /\ Shape /\ WorkIsApart
      /\ phase \in [Requests -> Phases] /\ kind \in [Requests -> Kinds \cup {"none"}]
      /\ task \in [Requests -> Tasks \cup {"none"}] /\ who \in [Requests -> Learners \cup {"nobody"}]
      /\ want \in [Requests -> TaskStatuses \cup {"none"}] /\ seen \in [Requests -> SeenType]
      /\ stamp \in [Requests -> Nat]
      /\ taskLock \in [Tasks -> Requests \cup {"nobody"}]
      /\ rowLock \in [Tasks -> [Learners -> Requests \cup {"nobody"}]]
      /\ userLock \in [Learners -> Requests \cup {"nobody"}]
      /\ share \in [Learners -> SUBSET Requests]
  BY DEF IInv, TypeOK, LockInv, SeenType
<1>1. CASE \E k \in Kinds, t \in Tasks, l \in Learners : \E w \in Wanted(k) : Begin(r, k, t, l, w)
  BY <1>0, <1>1 DEF LocksOf, Shape, ShapeOf, Active, WorkIsApart, NewRow, Submits, AssignmentStatus, Begin
<1>2. CASE ReadOwn(r)
  BY <1>0, <1>2 DEF LocksOf, Shape, ShapeOf, Active, WorkIsApart, NewRow, Submits, AssignmentStatus, ReadOwn
<1>3. CASE ReadFirst(r)
  BY <1>0, <1>3 DEF LocksOf, Shape, ShapeOf, Active, WorkIsApart, NewRow, Submits, AssignmentStatus, ReadFirst
<1>4. CASE Insert(r)
  <2>1. /\ phase[r] = "read" /\ Inserts(r) /\ kind[r] \in {"start", "submit", "mark"}
        /\ task[r] \in Tasks /\ who[r] \in Learners /\ stamp[r] = 0
    BY <1>0, <1>4 DEF Insert, Shape, ShapeOf, Active
  <2>2. /\ rowLock' = [rowLock EXCEPT ![task[r]][who[r]] = r]
        /\ UNCHANGED <<phase, kind, task, who, want, seen, taskLock, userLock, share>>
    BY <1>4 DEF Insert
  <2>3. \A t \in Tasks, l \in Learners : rowLock'[t][l] = r => (task[r] = t /\ who[r] = l) \/ rowLock[t][l] = r
    <3>1. /\ \A t \in Tasks, l \in Learners :
                rowLock'[t][l] = rowLock[t][l] \/ (rowLock'[t][l] = r /\ task[r] = t /\ who[r] = l)
      BY <1>0, <1>4, <2>1, <2>2, RowTaken DEF Insert
    <3> QED
      BY <3>1
  <2>4. rowLock'[task[r]][who[r]] = r
    BY <1>0, <2>1, <2>2
  <2>5. stamp' = [stamp EXCEPT ![r] = Clock] /\ Clock # 0
    BY <1>4, ClockTicks DEF Insert, IInv
  <2>6. \A t \in Tasks, l \in Learners : rowLock[t][l] # r
    BY <1>0, <2>1 DEF LocksOf
  <2> QED
    BY <1>0, <2>1, <2>2, <2>3, <2>4, <2>5, <2>6 DEF LocksOf
<1>5. CASE Prepare(r)
  BY <1>0, <1>5 DEF LocksOf, Shape, ShapeOf, Active, WorkIsApart, NewRow, Submits, AssignmentStatus, Prepare
<1>6. CASE Pick(r)
  BY <1>0, <1>6 DEF LocksOf, Shape, ShapeOf, Active, WorkIsApart, NewRow, Submits, AssignmentStatus, Pick
<1>7. CASE Flush(r)
  BY <1>0, <1>7 DEF LocksOf, Shape, ShapeOf, Active, WorkIsApart, NewRow, Submits, AssignmentStatus, Flush, Free
<1>8. CASE FlushTask(r)
  BY <1>0, <1>8 DEF LocksOf, Shape, ShapeOf, Active, WorkIsApart, NewRow, Submits, AssignmentStatus, FlushTask
<1>9. CASE ReadPatched(r)
  BY <1>0, <1>9 DEF LocksOf, Shape, ShapeOf, Active, WorkIsApart, NewRow, Submits, AssignmentStatus, ReadPatched
<1>10. CASE Post(r)
  BY <1>0, <1>10 DEF LocksOf, Shape, ShapeOf, Active, WorkIsApart, NewRow, Submits, AssignmentStatus, Post
<1>11. CASE Note(r)
  BY <1>0, <1>11 DEF LocksOf, Shape, ShapeOf, Active, WorkIsApart, NewRow, Submits, AssignmentStatus, Note
<1>12. CASE Score(r)
  BY <1>0, <1>12 DEF LocksOf, Shape, ShapeOf, Active, WorkIsApart, NewRow, Submits, AssignmentStatus, Score, ScoreNext, Recomputes
<1>13. CASE Commit(r)
  BY <1>0, <1>13 DEF LocksOf, Shape, ShapeOf, Active, WorkIsApart, NewRow, Submits, AssignmentStatus, Commit, Unlocked
<1>14. CASE CommitTask(r)
  BY <1>0, <1>14 DEF LocksOf, Shape, ShapeOf, Active, WorkIsApart, NewRow, Submits, AssignmentStatus, CommitTask, Unlocked
<1>15. CASE CommitView(r)
  BY <1>0, <1>15 DEF LocksOf, Shape, ShapeOf, Active, WorkIsApart, NewRow, Submits, AssignmentStatus, CommitView, Unlocked
<1>16. CASE Fail(r)
  BY <1>0, <1>16 DEF LocksOf, Shape, ShapeOf, Active, WorkIsApart, NewRow, Submits, AssignmentStatus, Fail, Unlocked
<1> QED
  BY <1>1, <1>2, <1>3, <1>4, <1>5, <1>6, <1>7, <1>8, <1>9, <1>10, <1>11, <1>12, <1>13, <1>14, <1>15, <1>16 DEF Step

\* Every step leaves the locks with those who may hold them.
LEMMA LockStep == IInv /\ LockInv /\ [Next]_vars => LockInv'
<1> SUFFICES ASSUME IInv, LockInv, [Next]_vars, NEW q \in Requests PROVE LocksOf(q)'
  BY DEF LockInv
<1>1. CASE UNCHANGED vars
  BY <1>1, LocksStay DEF vars, locks, locals, LockInv
<1>2. CASE Next
  BY <1>2, OwnLocks, OthersLocks DEF Next
<1> QED
  BY <1>1, <1>2

\* No lock is held at first, and those who hold one are known ever after.
LEMMA LockInvariant == Spec => [](IInv /\ LockInv)
<1>1. Init => LockInv
  BY NamesAssumption DEF Init, LockInv, LocksOf, Inserted
<1>2. IInv /\ LockInv /\ [Next]_vars => LockInv'
  BY LockStep
<1> QED
  BY <1>1, <1>2, Invariant, PTL DEF Spec

\* The highest of a request's locks, in the order assignment, learner, task.
Level(r) ==
    IF \E t \in Tasks : taskLock[t] = r THEN 3
    ELSE IF \E l \in Learners : userLock[l] = r \/ r \in share[l] THEN 2
    ELSE IF \E t \in Tasks, l \in Learners : rowLock[t][l] = r THEN 1 ELSE 0

\* A request that waits for another one with a lock that comes too late.
IsLate(r, q) ==
    \/ kind[r] = "patch" /\ WaitsForRow(r, q) /\ taskLock[task[r]] = r
    \/ kind[r] = "review" /\ WaitsForUser(r, q) /\ (taskLock[task[r]] = r \/ r \in share[who[r]])
    \/ kind[r] = "submit" /\ Inserts(r) /\ ScoreNext(r) /\ WaitsForUser(r, q)

\* What a request that waits is like.
LEMMA WaitsAre ==
    ASSUME IInv, NEW r \in Requests, NEW q \in Requests, WaitsFor(r, q)
    PROVE  /\ q # r /\ kind[r] \in Kinds
           /\ kind[r] # "view" => task[r] \in Tasks
           /\ who[r] \in Learners \cup {"nobody"}
  BY NamesAssumption DEF IInv, TypeOK, Shape, ShapeOf, WaitsFor, Phases

\* Whoever waits, and is not late, waits for a request that has a higher lock.
LEMMA WaitsClimb ==
    ASSUME IInv, LockInv, NEW r \in Requests, NEW q \in Requests, WaitsFor(r, q), ~IsLate(r, q)
    PROVE  Level(r) < Level(q)
<1> USE NamesAssumption
<1>1. LocksOf(r)
  BY DEF LockInv
<1>2. /\ q # r /\ kind[r] \in Kinds
      /\ kind[r] # "view" => task[r] \in Tasks
      /\ who[r] \in Learners \cup {"nobody"}
  BY WaitsAre
<1>3. CASE WaitsForRow(r, q)
  <2>1. /\ kind[r] # "view" /\ task[r] \in Tasks /\ who[r] \in Learners
        /\ rowLock[task[r]][who[r]] = q
    BY <1>2, <1>3 DEF WaitsForRow
  <2>2. Level(q) \in {1, 2, 3}
    BY <2>1 DEF Level
  <2>3. \A t \in Tasks : taskLock[t] # r
    BY <1>1, <1>3, <1>2, <2>1 DEF WaitsForRow, LocksOf, IsLate, Inserts
  <2>4. ~Inserted(r)
    BY <1>1, <1>2, <2>1 DEF LocksOf
  <2>5. \A l \in Learners : userLock[l] # r /\ r \notin share[l]
    BY <1>1, <1>3, <2>4 DEF WaitsForRow, LocksOf, Inserts, Inserted
  <2>6. \A t \in Tasks, l \in Learners : rowLock[t][l] # r
    BY <1>1, <1>2, <2>1 DEF LocksOf
  <2>7. Level(r) = 0
    BY <2>3, <2>5, <2>6 DEF Level
  <2> QED
    BY <2>2, <2>7
<1>4. CASE WaitsForUser(r, q)
  <2>1. who[r] \in Learners /\ (userLock[who[r]] = q \/ q \in share[who[r]])
    BY <1>2, <1>4 DEF WaitsForUser
  <2>2. Level(q) \in {2, 3}
    BY <2>1 DEF Level
  <2>3. phase[r] # "scored"
    BY <1>4 DEF WaitsForUser, ScoreNext
  <2>4. \A t \in Tasks : taskLock[t] # r
    BY <1>1, <1>4 DEF WaitsForUser, ScoreNext, Recomputes, Inserts, LocksOf, IsLate
  <2>5. \A l \in Learners : r \notin share[l]
    BY <1>1, <1>2, <1>4 DEF WaitsForUser, ScoreNext, Recomputes, Inserts, LocksOf, IsLate
  <2>6. Level(r) \in {0, 1}
    BY <1>1, <2>3, <2>4, <2>5 DEF Level, LocksOf
  <2> QED
    BY <2>2, <2>6
<1>5. CASE WaitsForTask(r, q)
  <2>1. task[r] \in Tasks /\ taskLock[task[r]] = q
    BY <1>2, <1>5 DEF WaitsForTask
  <2>2. Level(q) = 3
    BY <2>1 DEF Level
  <2>3. \A t \in Tasks : taskLock[t] # r
    BY <1>1, <1>2, <2>1 DEF LocksOf
  <2>4. Level(r) \in {0, 1, 2}
    BY <2>3 DEF Level
  <2> QED
    BY <2>2, <2>4
<1> QED
  BY <1>3, <1>4, <1>5 DEF WaitsFor

\* However many requests, tasks and learners there are: whoever waits in a circle has
\* among them a patch that has locked its task, a review that has told the learner, or
\* a submission with a new assignment, which waits with a lock that comes too late.
THEOREM CirclesNeedALateLock == Spec => []CirclesHaveALateLock
<1>1. IInv /\ LockInv => CirclesHaveALateLock
  <2> SUFFICES ASSUME IInv, LockInv,
                      NEW S \in SUBSET {r \in Requests : \E q \in Requests : WaitsFor(r, q)}, S # {},
                      \A r \in S : \E q \in S : WaitsFor(r, q),
                      \A r \in S, q \in S : ~(WaitsFor(r, q) /\ IsLate(r, q))
               PROVE  FALSE
    BY DEF CirclesHaveALateLock, IsLate
  <2>1. \A r \in S : \E q \in S : Level(r) < Level(q)
    BY WaitsClimb
  <2>2. \A r : Level(r) \in {0, 1, 2, 3}
    BY DEF Level
  <2>3. PICK r0 \in S : TRUE
    OBVIOUS
  <2>4. PICK r1 \in S : Level(r0) < Level(r1)
    BY <2>1
  <2>5. PICK r2 \in S : Level(r1) < Level(r2)
    BY <2>1
  <2>6. PICK r3 \in S : Level(r2) < Level(r3)
    BY <2>1
  <2>7. PICK r4 \in S : Level(r3) < Level(r4)
    BY <2>1
  <2> QED
    BY <2>2, <2>4, <2>5, <2>6, <2>7
<1> QED
  BY <1>1, LockInvariant, PTL

-----------------------------------------------------------------------------
(* One request at a time.  Of the exceptions that the promises above make,   *)
(* a task that does not follow its assignment is a race; a status that does  *)
(* not tell the work comes from an admin's change alone, and a completion    *)
(* that is not current from the handlers that do not compute it.             *)

\* A request that has begun and not been answered.
Busy(r) == phase[r] \notin {"new", "ended"}

Alone == \A p, q \in Requests : Busy(p) /\ Busy(q) => p = q

\* The requests are handled one after the other; any of them may fail.
SerialSpec == Spec /\ []Alone

\* An admin has overwritten the assignment.
Patched(t, l) ==
    \E r \in Requests : kind[r] = "patch" /\ phase[r] = "ended" /\ task[r] = t /\ who[r] = l

\* A handler has changed an assignment of the learner and computes no completion.
Changed(l) ==
    \E r \in Requests : kind[r] \in {"start", "mark", "patch"} /\ phase[r] = "ended" /\ who[r] = l

\* What was promised with exceptions: those that are left are no races.
SerialPromises ==
    /\ \A t \in Tasks, l \in Learners :
          scope[t] = "individual" /\ status[t][l] # "none" =>
             AssignmentStatus(taskStatus[t]) = status[t][l]
    /\ \A t \in Tasks, l \in Learners : ~Patched(t, l) =>
          /\ status[t][l] \in Verdicts =>
                \E q \in work[t][l] : /\ IsLatest(q, t, l)
                                      /\ [sub |-> q, verdict |-> status[t][l]] \in judged
          /\ status[t][l] = "submitted" <=>
                \E q \in work[t][l] : IsLatest(q, t, l) /\ \A j \in judged : j.sub # q
    /\ \A l \in Learners : ~Changed(l) => score[l] = Percent(StatusOf(l))

\* What the one open request has read is what is there.
SerialRequest(r) ==
    /\ kind[r] # "view" => seen[r].task = taskStatus[task[r]]
    /\ (kind[r] \in {"start", "submit", "mark", "review"} /\ phase[r] # "begun")
       \/ (kind[r] = "patch" /\ phase[r] = "flushed" /\ who[r] # "nobody") =>
          seen[r].row = status[task[r]][who[r]]
    /\ kind[r] \in {"submit", "view"} \/ (kind[r] = "review" /\ phase[r] = "scored") =>
          seen[r].score = score[who[r]]
    /\ kind[r] = "review" /\ phase[r] \in {"ready", "flushed", "scored"} =>
          IsLatest(pick[r], task[r], who[r])
    /\ Submits(r) /\ (phase[r] \in {"ready", "flushed", "scored"} \/ (phase[r] = "read" /\ stamp[r] # 0)) =>
          \A q \in Requests : stamp[q] <= stamp[r]

SerialInv ==
    /\ torn = {}
    /\ \A p \in masked : Patched(p[1], p[2])
    /\ \A l \in unscored : Changed(l)
    /\ \A r \in Requests : Busy(r) => SerialRequest(r)

\* The only request under way is the one that takes a step.
LEMMA OnlyOne ==
    ASSUME Alone, Alone', NEW r \in Requests, Busy(r) \/ Busy(r)',
           \A q \in Requests : q # r => phase'[q] = phase[q]
    PROVE  \A q \in Requests : q # r => ~Busy(q)'
<1> SUFFICES ASSUME NEW q \in Requests, q # r, Busy(q)' PROVE FALSE
  OBVIOUS
<1>1. Busy(q)
  BY DEF Busy
<1> QED
  BY <1>1 DEF Alone

\* A step moves one request.
LEMMA OneMoves ==
    ASSUME TypeOK, NEW r \in Requests, Step(r)
    PROVE  /\ \A q \in Requests : q # r => phase'[q] = phase[q]
           /\ Busy(r) \/ Busy(r)'
           /\ phase[r] # "ended"
<1>1. phase \in [Requests -> Phases]
  BY DEF TypeOK
<1>2. CASE phase[r] = "new"
  BY <1>1, <1>2 DEF Busy, Step, Begin, ReadOwn, ReadFirst, Insert, Prepare, Pick, Flush, FlushTask, ReadPatched, Post, Note,
     Score, ScoreNext, Commit, CommitTask, CommitView, Fail, Recomputes
<1>3. CASE phase[r] # "new"
  BY <1>1, <1>3 DEF Busy, Step, Begin, ReadOwn, ReadFirst, Insert, Prepare, Pick, Flush, FlushTask, ReadPatched, Post, Note,
     Score, ScoreNext, Commit, CommitTask, CommitView, Fail, Recomputes
<1> QED
  BY <1>2, <1>3

\* An ended request is remembered.
LEMMA EndedStays ==
    ASSUME NEW r \in Requests, phase[r] # "ended",
           \A q \in Requests : q # r => phase'[q] = phase[q] /\ kind'[q] = kind[q]
                                        /\ task'[q] = task[q] /\ who'[q] = who[q]
    PROVE  /\ \A t, l : Patched(t, l) => Patched(t, l)'
           /\ \A l : Changed(l) => Changed(l)'
  BY DEF Patched, Changed

\* What a commit of a request that was alone leaves to explain.
LEMMA SerialCommit ==
    ASSUME IInv, SerialInv, NEW r \in Requests, Commit(r)
    PROVE  /\ ~Tears(r)
           /\ Masks(r) => kind[r] = "patch"
           /\ Unscores(r) => kind[r] \in {"start", "mark", "patch"}
<1>1. /\ task[r] \in Tasks /\ who[r] \in Learners /\ kind[r] \in Kinds \ {"view"}
      /\ phase[r] \in {"flushed", "scored"}
  BY Committed
<1>2. SerialRequest(r)
  BY <1>1 DEF SerialInv, Busy
<1>3. who[r] # "nobody"
  BY DEF Commit
<1>4. phase[r] = "flushed" \/ kind[r] # "patch"
  BY DEF Commit, Recomputes
<1>5. seen[r].task = taskStatus[task[r]] /\ seen[r].row = status[task[r]][who[r]]
  BY <1>1, <1>2, <1>3, <1>4 DEF SerialRequest, Kinds
<1>6. ~Tears(r)
  BY <1>5 DEF Tears
<1>7. ASSUME Masks(r), kind[r] # "patch" PROVE FALSE
  <2>1. CASE Submits(r)
    <3>1. \A q \in Requests : stamp[q] <= stamp[r]
      BY <1>1, <1>2, <2>1 DEF SerialRequest
    <3>2. work[task[r]][who[r]] \subseteq Requests /\ stamp \in [Requests -> Nat]
      BY <1>1 DEF IInv, TypeOK
    <3>3. kind[r] \notin {"start", "review"}
      BY <2>1 DEF Submits
    <3> QED
      BY <1>5, <1>7, <3>1, <3>2, <3>3 DEF Masks
  <2>2. CASE kind[r] = "review"
    <3>1. IsLatest(pick[r], task[r], who[r])
      BY <1>1, <1>2, <2>2 DEF SerialRequest
    <3> QED
      BY <1>7, <2>2, <3>1 DEF Masks, Submits
  <2>3. CASE kind[r] = "start"
    BY <1>5, <1>7, <2>3 DEF Masks, Submits
  <2> QED
    BY <1>1, <1>7, <2>1, <2>2, <2>3 DEF Kinds, Submits
<1>8. ASSUME Unscores(r), kind[r] \notin {"start", "mark", "patch"} PROVE FALSE
  <2>1. Recomputes(r) /\ phase[r] = "scored"
    BY <1>1, <1>8 DEF Recomputes, Kinds, Commit
  <2>2. seen[r].score = score[who[r]]
    BY <1>2, <2>1 DEF SerialRequest, Recomputes
  <2>3. ScoreAfter(r) = result[r]
    BY <2>2 DEF ScoreAfter, Written
  <2> QED
    BY <1>8, <2>1, <2>3 DEF Unscores
<1> QED
  BY <1>6, <1>7, <1>8

\* A request that goes on without writing still knows what is there.
LEMMA SameRequest ==
    ASSUME NEW r \in Requests, SerialRequest(r), phase[r] = phase'[r],
           UNCHANGED <<kind, task, who, seen, pick, stamp, taskStatus, status, score, work>>
    PROVE  SerialRequest(r)'
  BY DEF SerialRequest, IsLatest, Submits

\* Handled alone, a request keeps the serial invariant.
LEMMA SerialStep == IInv /\ SerialInv /\ Alone /\ Alone' /\ [Next]_vars => SerialInv'
<1> SUFFICES ASSUME IInv, SerialInv, Alone, Alone', [Next]_vars PROVE SerialInv'
  OBVIOUS
<1> USE NamesAssumption
<1>0. /\ TypeOK /\ Shape /\ TimesDiffer
      /\ phase \in [Requests -> Phases] /\ kind \in [Requests -> Kinds \cup {"none"}]
      /\ seen \in [Requests -> [task : TaskStatuses, row : Statuses \cup {"none"}, score : Scores \cup {0}]]
      /\ stamp \in [Requests -> Nat]
  BY DEF IInv, TypeOK
<1>1. CASE UNCHANGED vars
  <2>1. UNCHANGED <<phase, kind, task, who, seen, pick, stamp, taskStatus, status, score, work, history>>
    BY <1>1 DEF vars, tables, locals
  <2>2. ASSUME NEW r \in Requests, Busy(r)' PROVE SerialRequest(r)'
    BY <2>1, <2>2, SameRequest DEF SerialInv, Busy
  <2>3. \A t, l : (Patched(t, l)' <=> Patched(t, l)) /\ (Changed(l)' <=> Changed(l))
    BY <2>1 DEF Patched, Changed
  <2> QED
    BY <2>1, <2>2, <2>3 DEF SerialInv, history
<1>2. CASE \E r \in Requests : Step(r)
  <2>1. PICK r \in Requests : Step(r)
    BY <1>2
  <2>2. phase[r] # "ended" /\ \A q \in Requests : q # r => ~Busy(q)' /\ phase'[q] = phase[q]
    BY <1>0, <2>1, OneMoves, OnlyOne
  <2>3. Busy(r) => SerialRequest(r)
    BY DEF SerialInv
  <2>4. /\ torn = {} /\ \A p \in masked : Patched(p[1], p[2])
        /\ \A l \in unscored : Changed(l)
    BY DEF SerialInv
  <2>5. \A q \in Requests : q # r => phase'[q] = phase[q] /\ kind'[q] = kind[q]
                                     /\ task'[q] = task[q] /\ who'[q] = who[q]
    <3>1. \A q \in Requests : q # r => kind'[q] = kind[q] /\ task'[q] = task[q] /\ who'[q] = who[q]
      BY <1>0, <2>1 DEF TypeOK, Step, Begin, ReadOwn, ReadFirst, Insert, Prepare, Pick, Flush, FlushTask, ReadPatched, Post, Note,
         Score, ScoreNext, Commit, CommitTask, CommitView, Fail, locals
    <3> QED
      BY <2>2, <3>1
  <2>6. /\ \A p \in masked : Patched(p[1], p[2])'
        /\ \A l \in unscored : Changed(l)'
    BY <2>2, <2>4, <2>5, EndedStays
  <2> SUFFICES /\ torn' = {} /\ \A p \in masked' : Patched(p[1], p[2])'
               /\ \A l \in unscored' : Changed(l)'
               /\ Busy(r)' => SerialRequest(r)'
    BY <2>2 DEF SerialInv
  <2>7. UNCHANGED history => /\ torn' = {} /\ \A p \in masked' : Patched(p[1], p[2])'
                             /\ \A l \in unscored' : Changed(l)'
    BY <2>4, <2>6 DEF history
  <2>8. CASE \E k \in Kinds, t \in Tasks, l \in Learners : \E w \in Wanted(k) : Begin(r, k, t, l, w)
    <3>1. PICK k \in Kinds, t \in Tasks, l \in Learners : \E w \in Wanted(k) : Begin(r, k, t, l, w)
      BY <2>8
    <3>2. /\ phase'[r] = "begun" /\ kind'[r] = k
          /\ k # "view" => task'[r] = t
          /\ k \notin {"review", "patch"} => who'[r] = l /\ seen'[r].score = score[l]
          /\ seen'[r].task = taskStatus[t] /\ seen'[r].row = "none"
          /\ UNCHANGED <<taskStatus, status, score, work, stamp, history>>
      BY <1>0, <3>1 DEF Begin, TypeOK, tables
    <3> QED
      BY <2>7, <3>2 DEF SerialRequest
  <2>9. CASE ReadOwn(r)
    <3>1. /\ phase[r] = "begun" /\ phase'[r] = "read" /\ kind[r] \in {"start", "submit", "mark"}
          /\ seen'[r].task = seen[r].task /\ seen'[r].score = seen[r].score
          /\ seen'[r].row = status[task[r]][who[r]]
          /\ stamp[r] = 0
          /\ UNCHANGED <<kind, task, who, pick, stamp, taskStatus, status, score, work, history>>
      BY <1>0, <2>9 DEF ReadOwn, tables, IInv, WorkIsApart
    <3> QED
      BY <2>3, <2>7, <3>1 DEF SerialRequest, Submits, Busy
  <2>10. CASE ReadFirst(r)
    <3>1. /\ phase[r] = "begun" /\ phase'[r] = "read" /\ kind[r] = "review"
          /\ seen'[r].task = seen[r].task
          /\ seen'[r].row = status'[task'[r]][who'[r]]
          /\ UNCHANGED <<kind, task, pick, stamp, taskStatus, status, score, work, history>>
      BY <1>0, <2>10 DEF ReadFirst, TypeOK, tables
    <3> QED
      BY <2>3, <2>7, <3>1 DEF SerialRequest, Submits, Busy
  <2>11. CASE Prepare(r)
    <3>1. /\ phase[r] = "read" /\ phase'[r] = "ready" /\ kind[r] \in {"start", "submit", "mark"}
          /\ IF Inserts(r) THEN stamp' = stamp /\ stamp[r] # 0
             ELSE \A q \in Requests : stamp'[q] = IF q = r THEN Clock ELSE stamp[q]
          /\ UNCHANGED <<kind, task, who, seen, pick, taskStatus, status, score, work, history>>
      BY <1>0, <2>11 DEF Prepare, tables
    <3>2. Submits(r) => \A q \in Requests : stamp'[q] <= stamp'[r]
      <4>1. Clock \in Nat /\ \A q \in Requests : stamp[q] < Clock /\ stamp[q] \in Nat
        BY <1>0, ClockTicks DEF TimesDiffer
      <4>2. CASE Inserts(r)
        BY <2>3, <3>1, <4>2 DEF SerialRequest, Busy
      <4>3. CASE ~Inserts(r)
        BY <3>1, <4>1, <4>3
      <4> QED
        BY <4>2, <4>3
    <3> QED
      BY <2>3, <2>7, <3>1, <3>2 DEF SerialRequest, Submits, Busy
  <2>12. CASE Pick(r)
    <3>1. /\ phase[r] = "read" /\ phase'[r] = "ready" /\ kind[r] = "review"
          /\ IsLatest(pick'[r], task[r], who[r])
          /\ UNCHANGED <<kind, task, who, seen, stamp, taskStatus, status, score, work, history>>
      BY <1>0, <2>12 DEF Pick, TypeOK, tables
    <3>2. IsLatest(pick[r], task[r], who[r])'
      BY <3>1 DEF IsLatest
    <3> QED
      BY <2>3, <2>7, <3>1, <3>2 DEF SerialRequest, Submits, Busy
  <2>13. CASE Flush(r)
    <3>1. /\ phase[r] = "ready" /\ phase'[r] = "flushed"
          /\ UNCHANGED <<kind, task, who, seen, pick, stamp, taskStatus, status, score, work, history>>
      BY <1>0, <2>13 DEF Flush, tables, locals
    <3>2. kind[r] # "patch"
      BY <1>0, <3>1 DEF Shape, ShapeOf
    <3> QED
      BY <2>3, <2>7, <3>1, <3>2 DEF SerialRequest, IsLatest, Submits, Busy
  <2>14. CASE FlushTask(r)
    <3>1. /\ phase[r] = "begun" /\ phase'[r] = "read" /\ kind[r] = "patch"
          /\ UNCHANGED <<kind, task, who, seen, pick, stamp, taskStatus, status, score, work, history>>
      BY <1>0, <2>14 DEF FlushTask, tables, locals
    <3> QED
      BY <2>3, <2>7, <3>1 DEF SerialRequest, Submits, Busy
  <2>15. CASE ReadPatched(r)
    <3>1. /\ phase[r] = "read" /\ phase'[r] = "flushed" /\ kind[r] = "patch"
          /\ seen'[r].task = seen[r].task
          /\ who'[r] # "nobody" => seen'[r].row = status'[task'[r]][who'[r]]
          /\ UNCHANGED <<kind, task, pick, stamp, taskStatus, status, score, work, history>>
      BY <1>0, <2>15 DEF ReadPatched, TypeOK, tables
    <3> QED
      BY <2>3, <2>7, <3>1 DEF SerialRequest, Submits, Busy
  <2>16. CASE Score(r)
    <3>1. /\ phase[r] = IF kind[r] = "view" THEN "begun" ELSE "flushed"
          /\ phase'[r] = "scored" /\ kind[r] \in {"submit", "review", "view"}
          /\ seen'[r].task = seen[r].task /\ seen'[r].row = seen[r].row
          /\ seen'[r].score = IF kind[r] = "review" THEN score[who[r]] ELSE seen[r].score
          /\ UNCHANGED <<kind, task, who, pick, stamp, taskStatus, status, score, work, history>>
      BY <1>0, <2>16 DEF Score, ScoreNext, Recomputes, tables
    <3> QED
      BY <2>3, <2>7, <3>1 DEF SerialRequest, IsLatest, Submits, Busy
  <2>17. CASE Commit(r)
    <3>1. /\ phase'[r] = "ended" /\ UNCHANGED <<kind, task, who>>
          /\ torn' = IF Tears(r) THEN torn \cup {task[r]} ELSE torn
          /\ masked' = IF Masks(r) THEN masked \cup {<<task[r], who[r]>>} ELSE masked
          /\ unscored' = IF Unscores(r) THEN unscored \cup {who[r]} ELSE unscored
      BY <1>0, <2>17 DEF Commit, locals
    <3>2. /\ ~Tears(r)
          /\ Masks(r) => kind[r] = "patch"
          /\ Unscores(r) => kind[r] \in {"start", "mark", "patch"}
      BY <2>17, SerialCommit
    <3>3. kind[r] = "patch" => Patched(task[r], who[r])'
      BY <3>1 DEF Patched
    <3>4. kind[r] \in {"start", "mark", "patch"} => Changed(who[r])'
      BY <3>1 DEF Changed
    <3>5. torn' = {}
      BY <2>4, <3>1, <3>2
    <3>6. ASSUME NEW p \in masked'
          PROVE  Patched(p[1], p[2])'
      <4>1. p \in masked \/ (Masks(r) /\ p = <<task[r], who[r]>>)
        BY <3>1, <3>6
      <4>2. CASE p \in masked
        BY <2>4, <2>6, <4>2
      <4>3. CASE Masks(r) /\ p = <<task[r], who[r]>>
        <5>1. p[1] = task[r] /\ p[2] = who[r] /\ Patched(task[r], who[r])'
          BY <3>2, <3>3, <4>3
        <5> QED
          BY <5>1, <3>1 DEF Patched
      <4> QED
        BY <4>1, <4>2, <4>3
    <3>7. ASSUME NEW l \in unscored'
          PROVE  Changed(l)'
      <4>1. l \in unscored \/ (Unscores(r) /\ l = who[r])
        BY <3>1, <3>7
      <4>2. CASE l \in unscored
        BY <2>4, <2>6, <4>2
      <4>3. CASE Unscores(r) /\ l = who[r]
        <5>1. Changed(who[r])'
          BY <3>2, <3>4, <4>3
        <5> QED
          BY <3>1, <4>3, <5>1 DEF Changed
      <4> QED
        BY <4>1, <4>2, <4>3
    <3>8. ~Busy(r)'
      BY <3>1 DEF Busy
    <3> QED
      BY <3>5, <3>6, <3>7, <3>8
  <2>18. CASE CommitTask(r)
    <3>1. phase'[r] = "ended" /\ UNCHANGED history
      BY <1>0, <2>18 DEF CommitTask
    <3> QED
      BY <2>7, <3>1 DEF Busy
  <2>19. CASE CommitView(r)
    <3>1. /\ phase[r] = "scored" /\ kind[r] = "view" /\ phase'[r] = "ended"
          /\ UNCHANGED <<torn, masked>>
          /\ unscored' = IF Unscores(r) THEN unscored \cup {who[r]} ELSE unscored
      BY <1>0, <2>19 DEF CommitView
    <3>2. seen[r].score = score[who[r]]
      BY <2>3, <3>1 DEF SerialRequest, Busy
    <3>3. ~Unscores(r)
      BY <3>1, <3>2 DEF Unscores, Recomputes, ScoreAfter, Written
    <3> QED
      BY <2>4, <2>6, <3>1, <3>3 DEF Busy
  <2>21. CASE Insert(r)
    <3>1. /\ phase[r] = "read" /\ phase' = phase /\ kind[r] \in {"start", "submit", "mark"}
          /\ \A q \in Requests : stamp'[q] = IF q = r THEN Clock ELSE stamp[q]
          /\ UNCHANGED <<kind, task, who, seen, pick, taskStatus, status, score, work, history>>
      BY <1>0, <2>21 DEF Insert, Inserts, tables
    <3>2. \A q \in Requests : stamp'[q] <= stamp'[r]
      <4>1. Clock \in Nat /\ \A q \in Requests : stamp[q] < Clock /\ stamp[q] \in Nat
        BY <1>0, ClockTicks DEF TimesDiffer
      <4> QED
        BY <3>1, <4>1
    <3> QED
      BY <2>3, <2>7, <3>1, <3>2 DEF SerialRequest, Submits, Busy
  <2>22. CASE Post(r) \/ Note(r)
    <3>1. UNCHANGED <<phase, kind, task, who, seen, pick, stamp, taskStatus, status, score, work, history>>
      BY <1>0, <2>22 DEF Post, Note, tables, locals
    <3> QED
      BY <2>3, <2>7, <3>1, SameRequest DEF Busy
  <2>20. CASE Fail(r)
    <3>1. phase'[r] = "ended" /\ UNCHANGED history
      BY <1>0, <2>20 DEF Fail
    <3> QED
      BY <2>7, <3>1 DEF Busy
  <2> QED
    BY <2>1, <2>8, <2>9, <2>10, <2>11, <2>12, <2>13, <2>14, <2>15, <2>16, <2>17, <2>18, <2>19, <2>20, <2>21, <2>22 DEF Step
<1> QED
  BY <1>1, <1>2 DEF Next

\* The serial invariant holds as long as requests come one after the other.
LEMMA SerialInvariant == SerialSpec => [](IInv /\ SerialInv)
<1>1. Init => SerialInv
  BY DEF Init, SerialInv, Busy
<1> QED
  BY <1>1, SerialStep, Invariant, PTL DEF SerialSpec, Spec

\* One request at a time, a task follows its assignment, a verdict is on the latest
\* work unless an admin has overwritten the assignment, and a completion is current
\* unless a handler changed an assignment that computes none.
THEOREM SerialIsExact == SerialSpec => []SerialPromises
<1>1. IInv /\ SerialInv => SerialPromises
  <2> SUFFICES ASSUME IInv, SerialInv PROVE SerialPromises
    OBVIOUS
  <2>1. ASSUME NEW t \in Tasks, NEW l \in Learners, scope[t] = "individual", status[t][l] # "none"
        PROVE  AssignmentStatus(taskStatus[t]) = status[t][l]
    BY <2>1 DEF IInv, SerialInv, TaskFollowsAssignment
  <2>2. ASSUME NEW t \in Tasks, NEW l \in Learners, ~Patched(t, l)
        PROVE  <<t, l>> \notin masked
    BY <2>2 DEF SerialInv
  <2>3. ASSUME NEW l \in Learners, ~Changed(l)
        PROVE  score[l] = Percent(StatusOf(l))
    BY <2>3 DEF IInv, SerialInv, ScoreIsCurrent
  <2>4. VerdictIsOnLatestWork /\ UnjudgedIsVisible
    BY DEF IInv
  <2> QED
    BY <2>1, <2>2, <2>3, <2>4 DEF SerialPromises, VerdictIsOnLatestWork, UnjudgedIsVisible
<1> QED
  BY <1>1, SerialInvariant, PTL
=============================================================================
