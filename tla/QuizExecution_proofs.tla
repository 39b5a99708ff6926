------------------------- MODULE QuizExecution_proofs -------------------------
(***************************************************************************)
(* Proofs about QuizExecution for any attempts, questions and requests.    *)
(* The inductive invariant rests on two facts: an attempt never becomes    *)
(* open again, and an open one has no grades. So whoever writes over an    *)
(* attempt that is still open has read its grades blank, and everybody     *)
(* else is in one of the histories. In the last part, about requests that  *)
(* are handled one after the other, the histories stay empty.              *)
(***************************************************************************)
EXTENDS QuizExecution, FiniteSetTheorems, TLAPS

\* What a request knows by phase.
Shape ==
    \A r \in Requests :
        /\ phase[r] \notin {"idle", "asked", "counted"} =>
              at[r].attempt \in Attempts /\ status[at[r].attempt] # "absent"
        /\ phase[r] \in {"saving", "found", "grading", "marking"} => at[r].question \in Questions
        /\ phase[r] \in {"saving", "found"} => at[r].status = "in_progress"
        /\ phase[r] \in {"itemless", "itemed", "compared", "flushed"} => AllAuto(at[r].answers)
        /\ phase[r] = "marking" /\ at[r].status = "graded" =>
              status[at[r].attempt] # "in_progress"

\* A submission of an attempt that is still open has read blank grades.
ReadsBlank ==
    \A r \in Requests :
        phase[r] \in {"scored", "itemless", "itemed", "compared", "flushed"}
        /\ status[at[r].attempt] = "in_progress" => at[r].marks = Blank

\* An attempt that is open or not yet there has no grades.
OpenIsBlank ==
    \A a \in Attempts :
        /\ status[a] \in {"absent", "in_progress"} => total[a] = NoTotal /\ mark[a] = Blank
        /\ status[a] = "absent" => response[a] = Empty

\* What was handed in when an attempt was asked for still is.
AskedIsCounted ==
    \A r \in Requests :
        /\ phase[r] = "asked" => at[r].before \ twice \subseteq Counted
        /\ phase[r] = "counted" => Cardinality(at[r].before \ twice) < Limit

IInv ==
    /\ TypeOK
    /\ Shape
    /\ ReadsBlank
    /\ OpenIsBlank
    /\ AskedIsCounted
    /\ LimitIsKept
    /\ ResultIsBest
    /\ GradesMatchAnswers

-----------------------------------------------------------------------------
(* What the operators return.                                              *)

LEMMA AutoFinite == IsFiniteSet(AutoGraded) /\ Cardinality(AutoGraded) \in Nat
<1>1. AutoGraded \in SUBSET Questions /\ IsFiniteSet(Questions)
  BY QuestionsAssumption
<1>2. IsFiniteSet(AutoGraded)
  BY <1>1, FS_Subset
<1> QED
  BY <1>2, FS_CardinalityType

LEMMA NoResultType == NoResult \in Results
  BY AutoFinite DEF NoResult, Results

\* No answers are worth more than all the questions the system can grade.
LEMMA ScoreType == \A x : Score(x) \in 0..Cardinality(AutoGraded)
<1> SUFFICES ASSUME NEW x PROVE Score(x) \in 0..Cardinality(AutoGraded)
  OBVIOUS
<1>1. IsFiniteSet(AutoGraded)
  BY AutoFinite
<1> DEFINE S == {q \in AutoGraded : x[q] = "right"}
<1>2. S \in SUBSET AutoGraded
  OBVIOUS
<1>3. IsFiniteSet(S) /\ Cardinality(S) <= Cardinality(AutoGraded)
  BY <1>1, <1>2, FS_Subset
<1>4. Cardinality(S) \in Nat /\ Cardinality(AutoGraded) \in Nat
  BY <1>1, <1>3, FS_CardinalityType
<1>5. Score(x) = Cardinality(S)
  BY DEF Score
<1> QED
  BY <1>3, <1>4, <1>5

LEMMA AutoMarksType ==
    ASSUME NEW x, NEW old \in [Questions -> Nat \cup {Unmarked}]
    PROVE  AutoMarks(x, old) \in [Questions -> Nat \cup {Unmarked}]
  BY DEF AutoMarks

\* What a request and its grades are made of.
LEMMA Typed ==
    ASSUME TypeOK, NEW r \in Requests
    PROVE  /\ at[r] \in Works /\ at[r].attempt \in Attempts \cup {"none"}
           /\ at[r].answers \in [Questions -> Responses]
           /\ at[r].marks \in [Questions -> Nat \cup {Unmarked}]
           /\ at[r].result \in Results /\ at[r].before \in SUBSET Attempts
           /\ at[r].response \in Responses /\ at[r].given \in Nat
  BY DEF TypeOK, Works

LEMMA NewMarksType ==
    ASSUME TypeOK, NEW r \in Requests, NEW stored \in [Questions -> Nat \cup {Unmarked}]
    PROVE  NewMarks(r, stored) \in [Questions -> Nat \cup {Unmarked}]
<1>1. AutoMarks(at[r].answers, at[r].marks) \in [Questions -> Nat \cup {Unmarked}]
  BY Typed, AutoMarksType
<1> QED
  BY <1>1 DEF NewMarks

LEMMA NewResultType ==
    ASSUME TypeOK, NEW r \in Requests, at[r].attempt \in Attempts
    PROVE  NewResult(r) \in Results
<1> DEFINE points == Score(at[r].answers)
           old == at[r].result
<1>1. points \in 0..Cardinality(AutoGraded)
  BY ScoreType
<1>2. result \in Results /\ old \in Results
  BY Typed DEF TypeOK
<1>3. old.attempt \in Attempts \cup {"none"} /\ result.points \in 0..Cardinality(AutoGraded)
  BY <1>2 DEF Results
<1>4. [attempt |-> at[r].attempt, points |-> IF old.attempt = "none" \/ points # old.points
                                             THEN points ELSE result.points] \in Results
  BY <1>1, <1>3 DEF Results
<1>5. [result EXCEPT !.attempt = old.attempt] \in Results
  BY <1>2, <1>3 DEF Results
<1> QED
  BY <1>4, <1>5 DEF NewResult

\* Graded over blank grades, the points are those of the answers alone.
LEMMA BlankGrades ==
    ASSUME NEW r \in Requests, at[r].marks = Blank
    PROVE  NewMarks(r, Blank) = AutoMarks(at[r].answers, Blank)
  BY DEF NewMarks, Regrades, AutoMarks, Blank

LEMMA WorkUpdates ==
    ASSUME NEW w \in Works
    PROVE  /\ \A b \in BOOLEAN : [w EXCEPT !.found = b] \in Works /\ [w EXCEPT !.made = b] \in Works
           /\ \A s \in Statuses : [w EXCEPT !.status = s] \in Works
           /\ \A x \in Results : [w EXCEPT !.result = x] \in Works
           /\ \A x \in [Questions -> Responses], m \in [Questions -> Nat \cup {Unmarked}] :
                [w EXCEPT !.answers = x, !.marks = m] \in Works
  BY DEF Works

\* A request before it has read anything.
LEMMA NoWorkType ==
    /\ NoWork \in Works
    /\ \A B \in SUBSET Attempts : [NoWork EXCEPT !.before = B] \in Works
    /\ \A a \in Attempts : [NoWork EXCEPT !.attempt = a] \in Works
    /\ \A a \in Attempts, q \in Questions, x \in Responses, s \in Statuses :
         [NoWork EXCEPT !.attempt = a, !.question = q, !.response = x, !.status = s] \in Works
    /\ \A a \in Attempts, q \in Questions, n \in Nat, m \in Nat \cup {Unmarked} :
         [NoWork EXCEPT !.attempt = a, !.question = q, !.given = n, !.mark = m] \in Works
<1>1. NoWork \in Works
  BY NoResultType DEF NoWork, Works, Statuses, Responses, Empty, Blank
<1>2. \A B \in SUBSET Attempts : [NoWork EXCEPT !.before = B] \in Works
  BY <1>1 DEF Works
<1>3. \A a \in Attempts : [NoWork EXCEPT !.attempt = a] \in Works
  BY <1>1 DEF Works
<1>4. \A a \in Attempts, q \in Questions, x \in Responses, s \in Statuses :
         [NoWork EXCEPT !.attempt = a, !.question = q, !.response = x, !.status = s] \in Works
  BY <1>1 DEF Works
<1>5. \A a \in Attempts, q \in Questions, n \in Nat, m \in Nat \cup {Unmarked} :
         [NoWork EXCEPT !.attempt = a, !.question = q, !.given = n, !.mark = m] \in Works
  BY <1>1 DEF Works
<1> QED
  BY <1>1, <1>2, <1>3, <1>4, <1>5

-----------------------------------------------------------------------------
(* The steps.                                                              *)

LEMMA BeginType ==
    ASSUME TypeOK, NEW r \in Requests, NEW p \in Phases, NEW w \in Works, Begin(r, p, w)
    PROVE  TypeOK'
<1>1. begun' \in 0..MaxRequests
  BY MaxRequestsAssumption DEF TypeOK, Begin
<1>2. phase' \in [Requests -> Phases] /\ at' \in [Requests -> Works]
  BY DEF TypeOK, Begin
<1> QED
  BY <1>1, <1>2 DEF TypeOK, Begin, tables, history

LEMMA EndType ==
    ASSUME TypeOK, NEW r \in Requests, End(r)
    PROVE  /\ phase' \in [Requests -> Phases] /\ at' \in [Requests -> Works]
           /\ begun' \in 0..MaxRequests /\ expired' \subseteq Attempts
  BY NoWorkType DEF TypeOK, End, Phases

LEMMA CloseType ==
    ASSUME TypeOK, NEW r \in Requests, NEW s \in Statuses, at[r].attempt \in Attempts, Close(r, s)
    PROVE  /\ status' \in [Attempts -> Statuses]
           /\ total' \in [Attempts -> 0..Cardinality(AutoGraded) \cup {NoTotal}]
           /\ mark' \in [Attempts -> [Questions -> Nat \cup {Unmarked}]]
           /\ response' \in [Attempts -> [Questions -> Responses]]
           /\ unread' \subseteq Attempts /\ twice' \subseteq Attempts /\ byHand' \subseteq Attempts
           /\ asked' \in [Attempts -> SUBSET Attempts]
<1>1. Score(at[r].answers) \in 0..Cardinality(AutoGraded)
  BY ScoreType
<1>2. NewMarks(r, mark[at[r].attempt]) \in [Questions -> Nat \cup {Unmarked}]
  BY NewMarksType DEF TypeOK
<1>3. mark' \in [Attempts -> [Questions -> Nat \cup {Unmarked}]]
  BY <1>2 DEF TypeOK, Close
<1> QED
  BY <1>1, <1>3 DEF TypeOK, Close, Overtakes

\* A set of attempts without some of them is no larger.
LEMMA FewerAttempts ==
    ASSUME NEW S \in SUBSET Attempts, NEW T \in SUBSET S
    PROVE  Cardinality(T) <= Cardinality(S) /\ Cardinality(S) \in Nat /\ Cardinality(T) \in Nat
<1>1. IsFiniteSet(S)
  BY AttemptsAssumption, FS_Subset
<1> QED
  BY <1>1, FS_Subset, FS_CardinalityType

\* Types are preserved.
LEMMA TypeStep == IInv /\ [Next]_vars => TypeOK'
<1> SUFFICES ASSUME IInv, [Next]_vars PROVE TypeOK'
  OBVIOUS
<1> USE DEF IInv
<1>1. ASSUME NEW r \in Requests, AskForAttempt(r)
      PROVE  TypeOK'
  <2>1. "asked" \in Phases
    BY DEF Phases
  <2>2. [NoWork EXCEPT !.before = {a \in Attempts : status[a] \in HandedIn}] \in Works
    BY NoWorkType
  <2> QED
    BY <1>1, <2>1, <2>2, BeginType DEF AskForAttempt
<1>2. ASSUME NEW r \in Requests, Count(r)
      PROVE  TypeOK'
  BY <1>2, Typed, WorkUpdates DEF Count, TypeOK, tables, history, Phases
<1>3. ASSUME NEW r \in Requests, NEW a \in Attempts, OpenAttempt(r, a)
      PROVE  TypeOK'
  BY <1>3, EndType, Typed DEF OpenAttempt, TypeOK, Statuses
<1>4. ASSUME NEW r \in Requests, NEW a \in Attempts, ReadForSubmit(r, a)
      PROVE  TypeOK'
  <2>1. "submitting" \in Phases
    BY DEF Phases
  <2>2. [NoWork EXCEPT !.attempt = a] \in Works
    BY NoWorkType
  <2> QED
    BY <1>4, <2>1, <2>2, BeginType DEF ReadForSubmit
<1>5. ASSUME NEW r \in Requests, NEW a \in Attempts, NEW q \in Questions, NEW x \in Responses \ {"none"},
             ReadForSave(r, a, q, x)
      PROVE  TypeOK'
  <2>1. "saving" \in Phases
    BY DEF Phases
  <2>2. [NoWork EXCEPT !.attempt = a, !.question = q, !.response = x, !.status = status[a]] \in Works
    BY NoWorkType DEF TypeOK
  <2> QED
    BY <1>5, <2>1, <2>2, BeginType DEF ReadForSave
<1>6. ASSUME NEW r \in Requests, NEW a \in Attempts, NEW q \in Questions, NEW n \in Given, ReadForGrade(r, a, q, n)
      PROVE  TypeOK'
  <2>0. n \in Nat /\ mark[a][q] \in Nat \cup {Unmarked}
    BY GivenAssumption DEF TypeOK
  <2>1. "grading" \in Phases
    BY DEF Phases
  <2>2. [NoWork EXCEPT !.attempt = a, !.question = q, !.given = n, !.mark = mark[a][q]] \in Works
    BY NoWorkType, <2>0
  <2> QED
    BY <1>6, <2>1, <2>2, BeginType DEF ReadForGrade
<1>7. ASSUME NEW r \in Requests, FindAnswer(r)
      PROVE  TypeOK'
  BY <1>7, Typed, WorkUpdates DEF FindAnswer, TypeOK, tables, history, Phases
<1>8. ASSUME NEW r \in Requests, CommitSave(r)
      PROVE  TypeOK'
  <2>1. at[r].attempt \in Attempts /\ at[r].question \in Questions /\ at[r].response \in Responses
    BY <1>8, Typed DEF CommitSave, Shape
  <2>2. response' \in [Attempts -> [Questions -> Responses]] /\ unread' \subseteq Attempts
    BY <1>8, <2>1 DEF CommitSave, TypeOK
  <2> QED
    BY <1>8, <2>2, EndType DEF CommitSave, TypeOK
<1>9. ASSUME NEW r \in Requests, TimeOut(r)
      PROVE  TypeOK'
  <2>1. at[r].attempt \in Attempts
    BY <1>9 DEF TimeOut, Shape
  <2> QED
    BY <1>9, <2>1, EndType DEF TimeOut, Overtakes, TypeOK, Statuses
<1>10. ASSUME NEW r \in Requests, ReadAnswers(r)
      PROVE  TypeOK'
  <2>1. at[r].attempt \in Attempts
    BY <1>10 DEF ReadAnswers, Shape
  <2>2. [at[r] EXCEPT !.answers = response[at[r].attempt], !.marks = mark[at[r].attempt]] \in Works
    BY <2>1, Typed, WorkUpdates DEF TypeOK
  <2>3. at' = [at EXCEPT ![r] = [at[r] EXCEPT !.answers = response[at[r].attempt], !.marks = mark[at[r].attempt]]]
    BY <1>10 DEF ReadAnswers
  <2> QED
    BY <1>10, <2>2, <2>3 DEF ReadAnswers, TypeOK, tables, history, Phases
<1>11. ASSUME NEW r \in Requests, LeaveToAdmin(r)
      PROVE  TypeOK'
  <2>1. at[r].attempt \in Attempts /\ "needs_manual_grading" \in Statuses
    BY <1>11 DEF LeaveToAdmin, Shape, Statuses
  <2>2. Close(r, "needs_manual_grading") /\ End(r)
    BY <1>11 DEF LeaveToAdmin, Close
  <2> QED
    BY <1>11, <2>1, <2>2, CloseType, EndType DEF LeaveToAdmin, TypeOK
<1>12. ASSUME NEW r \in Requests, FindItem(r)
      PROVE  TypeOK'
  BY <1>12, Typed, WorkUpdates DEF FindItem, TypeOK, tables, history, Phases
<1>13. ASSUME NEW r \in Requests, CreateItem(r)
      PROVE  TypeOK'
  BY <1>13, Typed, WorkUpdates DEF CreateItem, TypeOK, tables, history, Phases
<1>14. ASSUME NEW r \in Requests, ReadResult(r)
      PROVE  TypeOK'
  BY <1>14, Typed, WorkUpdates DEF ReadResult, TypeOK, tables, history, Phases
<1>15. ASSUME NEW r \in Requests, FlushResult(r)
      PROVE  TypeOK'
  BY <1>15, Typed, WorkUpdates DEF FlushResult, TypeOK, tables, history, Phases
<1>16. ASSUME NEW r \in Requests, CommitSubmit(r)
      PROVE  TypeOK'
  <2>1. at[r].attempt \in Attempts /\ "graded" \in Statuses
    BY <1>16 DEF CommitSubmit, Shape, Statuses
  <2>2. Close(r, "graded") /\ End(r)
    BY <1>16 DEF CommitSubmit, Close
  <2>3. result' \in Results
    BY <1>16, <2>1, NewResultType DEF CommitSubmit
  <2>4. [attempt |-> at[r].attempt, points |-> Score(at[r].answers)] \in Results
    BY <2>1, ScoreType DEF Results
  <2>5. offers' \subseteq Results /\ item' \in BOOLEAN /\ overwritten' \in BOOLEAN
    BY <1>16, <2>4 DEF CommitSubmit, TypeOK
  <2> QED
    BY <1>16, <2>1, <2>2, <2>3, <2>5, CloseType, EndType DEF TypeOK
<1>17. ASSUME NEW r \in Requests, ReadAttempt(r)
      PROVE  TypeOK'
  <2>1. status[at[r].attempt] \in Statuses
    BY <1>17 DEF ReadAttempt, Shape, TypeOK
  <2> QED
    BY <1>17, <2>1, Typed, WorkUpdates DEF ReadAttempt, TypeOK, tables, history, Phases
<1>18. ASSUME NEW r \in Requests, CommitGrade(r)
      PROVE  TypeOK'
  <2>1. at[r].attempt \in Attempts /\ at[r].question \in Questions /\ at[r].given \in Nat
    BY <1>18, Typed DEF CommitGrade, Shape
  <2>2. mark' \in [Attempts -> [Questions -> Nat \cup {Unmarked}]]
    BY <1>18, <2>1 DEF CommitGrade, TypeOK
  <2>3. status' \in [Attempts -> Statuses] /\ byHand' \subseteq Attempts
    BY <1>18, <2>1 DEF CommitGrade, TypeOK, Statuses
  <2> QED
    BY <1>18, <2>2, <2>3, EndType DEF CommitGrade, TypeOK
<1>19. ASSUME NEW r \in Requests, Fail(r)
      PROVE  TypeOK'
  BY <1>19, EndType DEF Fail, TypeOK, tables, history
<1>20. ASSUME NEW a \in Attempts, Expire(a)
      PROVE  TypeOK'
  BY <1>20, Typed, WorkUpdates DEF Expire, TypeOK, tables, history, Phases
<1>21. CASE UNCHANGED vars
  BY <1>21 DEF vars, tables, history, TypeOK
<1> HIDE DEF IInv
<1> QED
  BY <1>1, <1>2, <1>3, <1>4, <1>5, <1>6, <1>7, <1>8, <1>9, <1>10, <1>11, <1>12, <1>13, <1>14, <1>15, <1>16, <1>17, <1>18, <1>19, <1>20, <1>21 DEF Next, Step

\* What requests know stays true.
LEMMA ShapeStep == IInv /\ [Next]_vars => Shape'
<1> SUFFICES ASSUME IInv, [Next]_vars PROVE Shape'
  OBVIOUS
<1> USE DEF IInv, TypeOK, Shape, tables, history
<1>1. ASSUME NEW r \in Requests, AskForAttempt(r)
      PROVE  Shape'
  BY <1>1 DEF AskForAttempt, Begin, NoWork, Works
<1>2. ASSUME NEW r \in Requests, Count(r)
      PROVE  Shape'
  BY <1>2 DEF Count, NoWork, Works
<1>3. ASSUME NEW r \in Requests, NEW a \in Attempts, OpenAttempt(r, a)
      PROVE  Shape'
  BY <1>3 DEF OpenAttempt, End, NoWork, Works
<1>4. ASSUME NEW r \in Requests, NEW a \in Attempts, ReadForSubmit(r, a)
      PROVE  Shape'
  BY <1>4 DEF ReadForSubmit, Begin, NoWork, Works
<1>5. ASSUME NEW r \in Requests, NEW a \in Attempts, NEW q \in Questions, NEW x \in Responses \ {"none"},
             ReadForSave(r, a, q, x)
      PROVE  Shape'
  BY <1>5 DEF ReadForSave, Begin, MaySave, NoWork, Works
<1>6. ASSUME NEW r \in Requests, NEW a \in Attempts, NEW q \in Questions, NEW n \in Given, ReadForGrade(r, a, q, n)
      PROVE  Shape'
  <2>1. status[a] # "absent"
    BY <1>6 DEF ReadForGrade, OpenIsBlank, Empty
  <2> QED
    BY <1>6, <2>1 DEF ReadForGrade, Begin, NoWork, Works
<1>7. ASSUME NEW r \in Requests, FindAnswer(r)
      PROVE  Shape'
  BY <1>7 DEF FindAnswer, NoWork, Works
<1>8. ASSUME NEW r \in Requests, CommitSave(r)
      PROVE  Shape'
  BY <1>8 DEF CommitSave, End, NoWork, Works
<1>9. ASSUME NEW r \in Requests, TimeOut(r)
      PROVE  Shape'
  BY <1>9 DEF TimeOut, End, Overtakes, NoWork, Works
<1>10. ASSUME NEW r \in Requests, ReadAnswers(r)
      PROVE  Shape'
  BY <1>10 DEF ReadAnswers, NoWork, Works
<1>11. ASSUME NEW r \in Requests, LeaveToAdmin(r)
      PROVE  Shape'
  BY <1>11 DEF LeaveToAdmin, End, Close, Overtakes, NoWork, Works
<1>12. ASSUME NEW r \in Requests, FindItem(r)
      PROVE  Shape'
  BY <1>12 DEF FindItem, NoWork, Works
<1>13. ASSUME NEW r \in Requests, CreateItem(r)
      PROVE  Shape'
  BY <1>13 DEF CreateItem, NoWork, Works
<1>14. ASSUME NEW r \in Requests, ReadResult(r)
      PROVE  Shape'
  BY <1>14 DEF ReadResult, NoWork, Works
<1>15. ASSUME NEW r \in Requests, FlushResult(r)
      PROVE  Shape'
  BY <1>15 DEF FlushResult, NoWork, Works
<1>16. ASSUME NEW r \in Requests, CommitSubmit(r)
      PROVE  Shape'
  BY <1>16 DEF CommitSubmit, End, Close, Overtakes, NoWork, Works
<1>17. ASSUME NEW r \in Requests, ReadAttempt(r)
      PROVE  Shape'
  BY <1>17 DEF ReadAttempt, NoWork, Works
<1>18. ASSUME NEW r \in Requests, CommitGrade(r)
      PROVE  Shape'
  BY <1>18 DEF CommitGrade, End, NoWork, Works
<1>19. ASSUME NEW r \in Requests, Fail(r)
      PROVE  Shape'
  BY <1>19 DEF Fail, End, NoWork, Works
<1>20. ASSUME NEW a \in Attempts, Expire(a)
      PROVE  Shape'
  BY <1>20 DEF Expire, NoWork, Works
<1>21. CASE UNCHANGED vars
  BY <1>21 DEF vars
<1> HIDE DEF IInv, TypeOK, Shape, tables, history
<1> QED
  BY <1>1, <1>2, <1>3, <1>4, <1>5, <1>6, <1>7, <1>8, <1>9, <1>10, <1>11, <1>12, <1>13, <1>14, <1>15, <1>16, <1>17, <1>18, <1>19, <1>20, <1>21 DEF Next, Step

\* Submissions of open attempts have read blank grades.
LEMMA ReadsStep == IInv /\ [Next]_vars => ReadsBlank'
<1> SUFFICES ASSUME IInv, [Next]_vars PROVE ReadsBlank'
  OBVIOUS
<1> USE DEF IInv, TypeOK, Shape, ReadsBlank, OpenIsBlank, tables, history
<1>1. ASSUME NEW r \in Requests, AskForAttempt(r)
      PROVE  ReadsBlank'
  BY <1>1 DEF AskForAttempt, Begin, NoWork, Works
<1>2. ASSUME NEW r \in Requests, Count(r)
      PROVE  ReadsBlank'
  BY <1>2 DEF Count, NoWork, Works
<1>3. ASSUME NEW r \in Requests, NEW a \in Attempts, OpenAttempt(r, a)
      PROVE  ReadsBlank'
  <2>1. \A p \in Requests \ {r} : at'[p] = at[p] /\ phase'[p] = phase[p]
    BY <1>3 DEF OpenAttempt, End
  <2>2. phase'[r] = "idle" /\ status[a] = "absent" /\ \A b \in Attempts \ {a} : status'[b] = status[b]
    BY <1>3 DEF OpenAttempt, End
  <2> SUFFICES ASSUME NEW p \in Requests,
                      phase'[p] \in {"scored", "itemless", "itemed", "compared", "flushed"},
                      status'[at'[p].attempt] = "in_progress"
               PROVE  at'[p].marks = Blank
    OBVIOUS
  <2>3. at'[p] = at[p] /\ phase'[p] = phase[p]
    BY <2>1, <2>2
  <2>4. at[p].attempt \in Attempts /\ status[at[p].attempt] # "absent"
    BY <2>3
  <2>5. status[at[p].attempt] = "in_progress"
    BY <2>2, <2>3, <2>4
  <2> QED
    BY <2>3, <2>5
<1>4. ASSUME NEW r \in Requests, NEW a \in Attempts, ReadForSubmit(r, a)
      PROVE  ReadsBlank'
  BY <1>4 DEF ReadForSubmit, Begin, NoWork, Works
<1>5. ASSUME NEW r \in Requests, NEW a \in Attempts, NEW q \in Questions, NEW x \in Responses \ {"none"},
             ReadForSave(r, a, q, x)
      PROVE  ReadsBlank'
  BY <1>5 DEF ReadForSave, Begin, MaySave, NoWork, Works
<1>6. ASSUME NEW r \in Requests, NEW a \in Attempts, NEW q \in Questions, NEW n \in Given, ReadForGrade(r, a, q, n)
      PROVE  ReadsBlank'
  BY <1>6 DEF ReadForGrade, Begin, NoWork, Works
<1>7. ASSUME NEW r \in Requests, FindAnswer(r)
      PROVE  ReadsBlank'
  BY <1>7 DEF FindAnswer, NoWork, Works
<1>8. ASSUME NEW r \in Requests, CommitSave(r)
      PROVE  ReadsBlank'
  BY <1>8 DEF CommitSave, End, NoWork, Works
<1>9. ASSUME NEW r \in Requests, TimeOut(r)
      PROVE  ReadsBlank'
  BY <1>9 DEF TimeOut, End, Overtakes, NoWork, Works
<1>10. ASSUME NEW r \in Requests, ReadAnswers(r)
      PROVE  ReadsBlank'
  <2>1. at[r].attempt \in Attempts
    BY <1>10 DEF ReadAnswers
  <2>2. \A p \in Requests : at'[p].attempt = at[p].attempt
    BY <1>10 DEF ReadAnswers, Works
  <2>3. \A p \in Requests \ {r} : at'[p] = at[p] /\ phase'[p] = phase[p]
    BY <1>10 DEF ReadAnswers
  <2>4. at'[r].marks = mark[at[r].attempt] /\ status' = status
    BY <1>10 DEF ReadAnswers, Works
  <2> QED
    BY <2>1, <2>2, <2>3, <2>4
<1>11. ASSUME NEW r \in Requests, LeaveToAdmin(r)
      PROVE  ReadsBlank'
  BY <1>11 DEF LeaveToAdmin, End, Close, Overtakes, NoWork, Works
<1>12. ASSUME NEW r \in Requests, FindItem(r)
      PROVE  ReadsBlank'
  BY <1>12 DEF FindItem, NoWork, Works
<1>13. ASSUME NEW r \in Requests, CreateItem(r)
      PROVE  ReadsBlank'
  BY <1>13 DEF CreateItem, NoWork, Works
<1>14. ASSUME NEW r \in Requests, ReadResult(r)
      PROVE  ReadsBlank'
  BY <1>14 DEF ReadResult, NoWork, Works
<1>15. ASSUME NEW r \in Requests, FlushResult(r)
      PROVE  ReadsBlank'
  BY <1>15 DEF FlushResult, NoWork, Works
<1>16. ASSUME NEW r \in Requests, CommitSubmit(r)
      PROVE  ReadsBlank'
  BY <1>16 DEF CommitSubmit, End, Close, Overtakes, NoWork, Works
<1>17. ASSUME NEW r \in Requests, ReadAttempt(r)
      PROVE  ReadsBlank'
  BY <1>17 DEF ReadAttempt, NoWork, Works
<1>18. ASSUME NEW r \in Requests, CommitGrade(r)
      PROVE  ReadsBlank'
  BY <1>18 DEF CommitGrade, End, NoWork, Works
<1>19. ASSUME NEW r \in Requests, Fail(r)
      PROVE  ReadsBlank'
  BY <1>19 DEF Fail, End, NoWork, Works
<1>20. ASSUME NEW a \in Attempts, Expire(a)
      PROVE  ReadsBlank'
  BY <1>20 DEF Expire, NoWork, Works
<1>21. CASE UNCHANGED vars
  BY <1>21 DEF vars
<1> HIDE DEF IInv, TypeOK, Shape, ReadsBlank, OpenIsBlank, tables, history
<1> QED
  BY <1>1, <1>2, <1>3, <1>4, <1>5, <1>6, <1>7, <1>8, <1>9, <1>10, <1>11, <1>12, <1>13, <1>14, <1>15, <1>16, <1>17, <1>18, <1>19, <1>20, <1>21 DEF Next, Step

\* Open attempts have no grades.
LEMMA OpenStep == IInv /\ [Next]_vars => OpenIsBlank'
<1> SUFFICES ASSUME IInv, [Next]_vars PROVE OpenIsBlank'
  OBVIOUS
<1> USE DEF IInv, TypeOK, Shape, OpenIsBlank, tables, history
<1>1. ASSUME NEW r \in Requests, AskForAttempt(r)
      PROVE  OpenIsBlank'
  BY <1>1 DEF AskForAttempt, Begin
<1>2. ASSUME NEW r \in Requests, Count(r)
      PROVE  OpenIsBlank'
  BY <1>2 DEF Count
<1>3. ASSUME NEW r \in Requests, NEW a \in Attempts, OpenAttempt(r, a)
      PROVE  OpenIsBlank'
  BY <1>3 DEF OpenAttempt, End
<1>4. ASSUME NEW r \in Requests, NEW a \in Attempts, ReadForSubmit(r, a)
      PROVE  OpenIsBlank'
  BY <1>4 DEF ReadForSubmit, Begin
<1>5. ASSUME NEW r \in Requests, NEW a \in Attempts, NEW q \in Questions, NEW x \in Responses \ {"none"},
             ReadForSave(r, a, q, x)
      PROVE  OpenIsBlank'
  BY <1>5 DEF ReadForSave, Begin, MaySave
<1>6. ASSUME NEW r \in Requests, NEW a \in Attempts, NEW q \in Questions, NEW n \in Given, ReadForGrade(r, a, q, n)
      PROVE  OpenIsBlank'
  BY <1>6 DEF ReadForGrade, Begin
<1>7. ASSUME NEW r \in Requests, FindAnswer(r)
      PROVE  OpenIsBlank'
  BY <1>7 DEF FindAnswer
<1>8. ASSUME NEW r \in Requests, CommitSave(r)
      PROVE  OpenIsBlank'
  BY <1>8 DEF CommitSave, End
<1>9. ASSUME NEW r \in Requests, TimeOut(r)
      PROVE  OpenIsBlank'
  BY <1>9 DEF TimeOut, End, Overtakes
<1>10. ASSUME NEW r \in Requests, ReadAnswers(r)
      PROVE  OpenIsBlank'
  BY <1>10 DEF ReadAnswers
<1>11. ASSUME NEW r \in Requests, LeaveToAdmin(r)
      PROVE  OpenIsBlank'
  BY <1>11 DEF LeaveToAdmin, End, Close, Overtakes
<1>12. ASSUME NEW r \in Requests, FindItem(r)
      PROVE  OpenIsBlank'
  BY <1>12 DEF FindItem
<1>13. ASSUME NEW r \in Requests, CreateItem(r)
      PROVE  OpenIsBlank'
  BY <1>13 DEF CreateItem
<1>14. ASSUME NEW r \in Requests, ReadResult(r)
      PROVE  OpenIsBlank'
  BY <1>14 DEF ReadResult
<1>15. ASSUME NEW r \in Requests, FlushResult(r)
      PROVE  OpenIsBlank'
  BY <1>15 DEF FlushResult
<1>16. ASSUME NEW r \in Requests, CommitSubmit(r)
      PROVE  OpenIsBlank'
  BY <1>16 DEF CommitSubmit, End, Close, Overtakes
<1>17. ASSUME NEW r \in Requests, ReadAttempt(r)
      PROVE  OpenIsBlank'
  BY <1>17 DEF ReadAttempt
<1>18. ASSUME NEW r \in Requests, CommitGrade(r)
      PROVE  OpenIsBlank'
  BY <1>18 DEF CommitGrade, End
<1>19. ASSUME NEW r \in Requests, Fail(r)
      PROVE  OpenIsBlank'
  BY <1>19 DEF Fail, End
<1>20. ASSUME NEW a \in Attempts, Expire(a)
      PROVE  OpenIsBlank'
  BY <1>20 DEF Expire
<1>21. CASE UNCHANGED vars
  BY <1>21 DEF vars
<1> HIDE DEF IInv, TypeOK, Shape, OpenIsBlank, tables, history
<1> QED
  BY <1>1, <1>2, <1>3, <1>4, <1>5, <1>6, <1>7, <1>8, <1>9, <1>10, <1>11, <1>12, <1>13, <1>14, <1>15, <1>16, <1>17, <1>18, <1>19, <1>20, <1>21 DEF Next, Step

\* What was handed in stays so.
LEMMA AskedStep == IInv /\ [Next]_vars => AskedIsCounted'
<1> SUFFICES ASSUME IInv, [Next]_vars PROVE AskedIsCounted'
  OBVIOUS
<1> USE DEF IInv, TypeOK, Shape, AskedIsCounted, tables, history
<1>1. ASSUME NEW r \in Requests, AskForAttempt(r)
      PROVE  AskedIsCounted'
  BY <1>1 DEF AskForAttempt, Begin, NoWork, Works, Counted, HandedIn
<1>2. ASSUME NEW r \in Requests, Count(r)
      PROVE  AskedIsCounted'
  <2>1. at[r].before \ twice \in SUBSET Counted /\ Counted \in SUBSET Attempts
    BY <1>2 DEF Count, Counted
  <2>2. Cardinality(at[r].before \ twice) <= Cardinality(Counted)
        /\ Cardinality(at[r].before \ twice) \in Nat /\ Cardinality(Counted) \in Nat
    BY <2>1, FewerAttempts
  <2>3. Cardinality(at[r].before \ twice) < Limit
    BY <1>2, <2>2, LimitAssumption DEF Count
  <2> QED
    BY <1>2, <2>3 DEF Count, Counted
<1>3. ASSUME NEW r \in Requests, NEW a \in Attempts, OpenAttempt(r, a)
      PROVE  AskedIsCounted'
  BY <1>3 DEF OpenAttempt, End, NoWork, Works, Counted, HandedIn
<1>4. ASSUME NEW r \in Requests, NEW a \in Attempts, ReadForSubmit(r, a)
      PROVE  AskedIsCounted'
  BY <1>4 DEF ReadForSubmit, Begin, NoWork, Works, Counted, HandedIn
<1>5. ASSUME NEW r \in Requests, NEW a \in Attempts, NEW q \in Questions, NEW x \in Responses \ {"none"},
             ReadForSave(r, a, q, x)
      PROVE  AskedIsCounted'
  BY <1>5 DEF ReadForSave, Begin, MaySave, NoWork, Works, Counted, HandedIn
<1>6. ASSUME NEW r \in Requests, NEW a \in Attempts, NEW q \in Questions, NEW n \in Given, ReadForGrade(r, a, q, n)
      PROVE  AskedIsCounted'
  BY <1>6 DEF ReadForGrade, Begin, NoWork, Works, Counted, HandedIn
<1>7. ASSUME NEW r \in Requests, FindAnswer(r)
      PROVE  AskedIsCounted'
  BY <1>7 DEF FindAnswer, NoWork, Works, Counted, HandedIn
<1>8. ASSUME NEW r \in Requests, CommitSave(r)
      PROVE  AskedIsCounted'
  BY <1>8 DEF CommitSave, End, NoWork, Works, Counted, HandedIn
<1>9. ASSUME NEW r \in Requests, TimeOut(r)
      PROVE  AskedIsCounted'
  <2>1. twice \subseteq twice'
    BY <1>9 DEF TimeOut, Overtakes
  <2>2. \A p \in Requests : phase'[p] \in {"asked", "counted"} => phase'[p] = phase[p] /\ at'[p] = at[p]
    BY <1>9 DEF TimeOut, End
  <2>3. \A p \in Requests : phase'[p] = "asked" => at'[p].before \ twice' \subseteq Counted'
    BY <1>9, <2>1, <2>2 DEF TimeOut, Overtakes, Counted, HandedIn
  <2>4. ASSUME NEW p \in Requests, phase'[p] = "counted"
        PROVE  Cardinality(at'[p].before \ twice') < Limit
    <3>1. at[p].before \ twice \in SUBSET Attempts
      BY Typed
    <3>2. at[p].before \ twice' \in SUBSET (at[p].before \ twice)
      BY <2>1
    <3>3. Cardinality(at[p].before \ twice') <= Cardinality(at[p].before \ twice)
          /\ Cardinality(at[p].before \ twice) \in Nat /\ Cardinality(at[p].before \ twice') \in Nat
      BY <3>1, <3>2, FewerAttempts
    <3>4. phase[p] = "counted" /\ at'[p] = at[p]
      BY <2>2, <2>4
    <3>5. Cardinality(at[p].before \ twice) < Limit
      BY <3>4
    <3> QED
      BY <3>3, <3>4, <3>5, LimitAssumption
  <2> QED
    BY <2>3, <2>4
<1>10. ASSUME NEW r \in Requests, ReadAnswers(r)
      PROVE  AskedIsCounted'
  BY <1>10 DEF ReadAnswers, NoWork, Works, Counted, HandedIn
<1>11. ASSUME NEW r \in Requests, LeaveToAdmin(r)
      PROVE  AskedIsCounted'
  <2>1. twice \subseteq twice'
    BY <1>11 DEF LeaveToAdmin, Overtakes, Close
  <2>2. \A p \in Requests : phase'[p] \in {"asked", "counted"} => phase'[p] = phase[p] /\ at'[p] = at[p]
    BY <1>11 DEF LeaveToAdmin, End, Close
  <2>3. \A p \in Requests : phase'[p] = "asked" => at'[p].before \ twice' \subseteq Counted'
    BY <1>11, <2>1, <2>2 DEF LeaveToAdmin, Overtakes, Counted, HandedIn, Close
  <2>4. ASSUME NEW p \in Requests, phase'[p] = "counted"
        PROVE  Cardinality(at'[p].before \ twice') < Limit
    <3>1. at[p].before \ twice \in SUBSET Attempts
      BY Typed
    <3>2. at[p].before \ twice' \in SUBSET (at[p].before \ twice)
      BY <2>1
    <3>3. Cardinality(at[p].before \ twice') <= Cardinality(at[p].before \ twice)
          /\ Cardinality(at[p].before \ twice) \in Nat /\ Cardinality(at[p].before \ twice') \in Nat
      BY <3>1, <3>2, FewerAttempts
    <3>4. phase[p] = "counted" /\ at'[p] = at[p]
      BY <2>2, <2>4
    <3>5. Cardinality(at[p].before \ twice) < Limit
      BY <3>4
    <3> QED
      BY <3>3, <3>4, <3>5, LimitAssumption
  <2> QED
    BY <2>3, <2>4
<1>12. ASSUME NEW r \in Requests, FindItem(r)
      PROVE  AskedIsCounted'
  BY <1>12 DEF FindItem, NoWork, Works, Counted, HandedIn
<1>13. ASSUME NEW r \in Requests, CreateItem(r)
      PROVE  AskedIsCounted'
  BY <1>13 DEF CreateItem, NoWork, Works, Counted, HandedIn
<1>14. ASSUME NEW r \in Requests, ReadResult(r)
      PROVE  AskedIsCounted'
  BY <1>14 DEF ReadResult, NoWork, Works, Counted, HandedIn
<1>15. ASSUME NEW r \in Requests, FlushResult(r)
      PROVE  AskedIsCounted'
  BY <1>15 DEF FlushResult, NoWork, Works, Counted, HandedIn
<1>16. ASSUME NEW r \in Requests, CommitSubmit(r)
      PROVE  AskedIsCounted'
  <2>1. twice \subseteq twice'
    BY <1>16 DEF CommitSubmit, Overtakes, Close
  <2>2. \A p \in Requests : phase'[p] \in {"asked", "counted"} => phase'[p] = phase[p] /\ at'[p] = at[p]
    BY <1>16 DEF CommitSubmit, End, Close
  <2>3. \A p \in Requests : phase'[p] = "asked" => at'[p].before \ twice' \subseteq Counted'
    BY <1>16, <2>1, <2>2 DEF CommitSubmit, Overtakes, Counted, HandedIn, Close
  <2>4. ASSUME NEW p \in Requests, phase'[p] = "counted"
        PROVE  Cardinality(at'[p].before \ twice') < Limit
    <3>1. at[p].before \ twice \in SUBSET Attempts
      BY Typed
    <3>2. at[p].before \ twice' \in SUBSET (at[p].before \ twice)
      BY <2>1
    <3>3. Cardinality(at[p].before \ twice') <= Cardinality(at[p].before \ twice)
          /\ Cardinality(at[p].before \ twice) \in Nat /\ Cardinality(at[p].before \ twice') \in Nat
      BY <3>1, <3>2, FewerAttempts
    <3>4. phase[p] = "counted" /\ at'[p] = at[p]
      BY <2>2, <2>4
    <3>5. Cardinality(at[p].before \ twice) < Limit
      BY <3>4
    <3> QED
      BY <3>3, <3>4, <3>5, LimitAssumption
  <2> QED
    BY <2>3, <2>4
<1>17. ASSUME NEW r \in Requests, ReadAttempt(r)
      PROVE  AskedIsCounted'
  BY <1>17 DEF ReadAttempt, NoWork, Works, Counted, HandedIn
<1>18. ASSUME NEW r \in Requests, CommitGrade(r)
      PROVE  AskedIsCounted'
  BY <1>18 DEF CommitGrade, End, NoWork, Works, Counted, HandedIn
<1>19. ASSUME NEW r \in Requests, Fail(r)
      PROVE  AskedIsCounted'
  BY <1>19 DEF Fail, End, NoWork, Works, Counted, HandedIn
<1>20. ASSUME NEW a \in Attempts, Expire(a)
      PROVE  AskedIsCounted'
  BY <1>20 DEF Expire, NoWork, Works, Counted, HandedIn
<1>21. CASE UNCHANGED vars
  BY <1>21 DEF vars, Counted
<1> HIDE DEF IInv, TypeOK, Shape, AskedIsCounted, tables, history
<1> QED
  BY <1>1, <1>2, <1>3, <1>4, <1>5, <1>6, <1>7, <1>8, <1>9, <1>10, <1>11, <1>12, <1>13, <1>14, <1>15, <1>16, <1>17, <1>18, <1>19, <1>20, <1>21 DEF Next, Step

\* The limit is kept.
LEMMA LimitStep == IInv /\ [Next]_vars => LimitIsKept'
<1> SUFFICES ASSUME IInv, [Next]_vars PROVE LimitIsKept'
  OBVIOUS
<1> USE DEF IInv, TypeOK, LimitIsKept, tables, history
<1>1. ASSUME NEW r \in Requests, AskForAttempt(r)
      PROVE  LimitIsKept'
  BY <1>1 DEF AskForAttempt, Begin
<1>2. ASSUME NEW r \in Requests, Count(r)
      PROVE  LimitIsKept'
  BY <1>2 DEF Count
<1>3. ASSUME NEW r \in Requests, NEW a \in Attempts, OpenAttempt(r, a)
      PROVE  LimitIsKept'
  BY <1>3 DEF OpenAttempt, AskedIsCounted
<1>4. ASSUME NEW r \in Requests, NEW a \in Attempts, ReadForSubmit(r, a)
      PROVE  LimitIsKept'
  BY <1>4 DEF ReadForSubmit, Begin
<1>5. ASSUME NEW r \in Requests, NEW a \in Attempts, NEW q \in Questions, NEW x \in Responses \ {"none"},
             ReadForSave(r, a, q, x)
      PROVE  LimitIsKept'
  BY <1>5 DEF ReadForSave, Begin, MaySave
<1>6. ASSUME NEW r \in Requests, NEW a \in Attempts, NEW q \in Questions, NEW n \in Given, ReadForGrade(r, a, q, n)
      PROVE  LimitIsKept'
  BY <1>6 DEF ReadForGrade, Begin
<1>7. ASSUME NEW r \in Requests, FindAnswer(r)
      PROVE  LimitIsKept'
  BY <1>7 DEF FindAnswer
<1>8. ASSUME NEW r \in Requests, CommitSave(r)
      PROVE  LimitIsKept'
  BY <1>8 DEF CommitSave, End
<1>9. ASSUME NEW r \in Requests, TimeOut(r)
      PROVE  LimitIsKept'
  <2>1. twice \subseteq twice' /\ asked' = asked
    BY <1>9 DEF TimeOut, Overtakes
  <2> SUFFICES ASSUME NEW a \in Attempts PROVE Cardinality(asked'[a] \ twice') < Limit
    OBVIOUS
  <2>2. asked[a] \ twice \in SUBSET Attempts /\ asked[a] \ twice' \in SUBSET (asked[a] \ twice)
    BY <2>1
  <2>3. Cardinality(asked[a] \ twice') <= Cardinality(asked[a] \ twice)
        /\ Cardinality(asked[a] \ twice) \in Nat /\ Cardinality(asked[a] \ twice') \in Nat
    BY <2>2, FewerAttempts
  <2> QED
    BY <2>1, <2>3, LimitAssumption
<1>10. ASSUME NEW r \in Requests, ReadAnswers(r)
      PROVE  LimitIsKept'
  BY <1>10 DEF ReadAnswers
<1>11. ASSUME NEW r \in Requests, LeaveToAdmin(r)
      PROVE  LimitIsKept'
  <2>1. twice \subseteq twice' /\ asked' = asked
    BY <1>11 DEF LeaveToAdmin, Overtakes, Close
  <2> SUFFICES ASSUME NEW a \in Attempts PROVE Cardinality(asked'[a] \ twice') < Limit
    OBVIOUS
  <2>2. asked[a] \ twice \in SUBSET Attempts /\ asked[a] \ twice' \in SUBSET (asked[a] \ twice)
    BY <2>1
  <2>3. Cardinality(asked[a] \ twice') <= Cardinality(asked[a] \ twice)
        /\ Cardinality(asked[a] \ twice) \in Nat /\ Cardinality(asked[a] \ twice') \in Nat
    BY <2>2, FewerAttempts
  <2> QED
    BY <2>1, <2>3, LimitAssumption
<1>12. ASSUME NEW r \in Requests, FindItem(r)
      PROVE  LimitIsKept'
  BY <1>12 DEF FindItem
<1>13. ASSUME NEW r \in Requests, CreateItem(r)
      PROVE  LimitIsKept'
  BY <1>13 DEF CreateItem
<1>14. ASSUME NEW r \in Requests, ReadResult(r)
      PROVE  LimitIsKept'
  BY <1>14 DEF ReadResult
<1>15. ASSUME NEW r \in Requests, FlushResult(r)
      PROVE  LimitIsKept'
  BY <1>15 DEF FlushResult
<1>16. ASSUME NEW r \in Requests, CommitSubmit(r)
      PROVE  LimitIsKept'
  <2>1. twice \subseteq twice' /\ asked' = asked
    BY <1>16 DEF CommitSubmit, Overtakes, Close
  <2> SUFFICES ASSUME NEW a \in Attempts PROVE Cardinality(asked'[a] \ twice') < Limit
    OBVIOUS
  <2>2. asked[a] \ twice \in SUBSET Attempts /\ asked[a] \ twice' \in SUBSET (asked[a] \ twice)
    BY <2>1
  <2>3. Cardinality(asked[a] \ twice') <= Cardinality(asked[a] \ twice)
        /\ Cardinality(asked[a] \ twice) \in Nat /\ Cardinality(asked[a] \ twice') \in Nat
    BY <2>2, FewerAttempts
  <2> QED
    BY <2>1, <2>3, LimitAssumption
<1>17. ASSUME NEW r \in Requests, ReadAttempt(r)
      PROVE  LimitIsKept'
  BY <1>17 DEF ReadAttempt
<1>18. ASSUME NEW r \in Requests, CommitGrade(r)
      PROVE  LimitIsKept'
  BY <1>18 DEF CommitGrade, End
<1>19. ASSUME NEW r \in Requests, Fail(r)
      PROVE  LimitIsKept'
  BY <1>19 DEF Fail, End
<1>20. ASSUME NEW a \in Attempts, Expire(a)
      PROVE  LimitIsKept'
  BY <1>20 DEF Expire
<1>21. CASE UNCHANGED vars
  BY <1>21 DEF vars
<1> HIDE DEF IInv, TypeOK, LimitIsKept, tables, history
<1> QED
  BY <1>1, <1>2, <1>3, <1>4, <1>5, <1>6, <1>7, <1>8, <1>9, <1>10, <1>11, <1>12, <1>13, <1>14, <1>15, <1>16, <1>17, <1>18, <1>19, <1>20, <1>21 DEF Next, Step

\* The current result is the best.
LEMMA BestStep == IInv /\ [Next]_vars => ResultIsBest'
<1> SUFFICES ASSUME IInv, [Next]_vars PROVE ResultIsBest'
  OBVIOUS
<1> USE DEF IInv, TypeOK, Shape, ResultIsBest, tables, history
<1>1. ASSUME NEW r \in Requests, AskForAttempt(r)
      PROVE  ResultIsBest'
  BY <1>1 DEF AskForAttempt, Begin
<1>2. ASSUME NEW r \in Requests, Count(r)
      PROVE  ResultIsBest'
  BY <1>2 DEF Count
<1>3. ASSUME NEW r \in Requests, NEW a \in Attempts, OpenAttempt(r, a)
      PROVE  ResultIsBest'
  BY <1>3 DEF OpenAttempt, End
<1>4. ASSUME NEW r \in Requests, NEW a \in Attempts, ReadForSubmit(r, a)
      PROVE  ResultIsBest'
  BY <1>4 DEF ReadForSubmit, Begin
<1>5. ASSUME NEW r \in Requests, NEW a \in Attempts, NEW q \in Questions, NEW x \in Responses \ {"none"},
             ReadForSave(r, a, q, x)
      PROVE  ResultIsBest'
  BY <1>5 DEF ReadForSave, Begin, MaySave
<1>6. ASSUME NEW r \in Requests, NEW a \in Attempts, NEW q \in Questions, NEW n \in Given, ReadForGrade(r, a, q, n)
      PROVE  ResultIsBest'
  BY <1>6 DEF ReadForGrade, Begin
<1>7. ASSUME NEW r \in Requests, FindAnswer(r)
      PROVE  ResultIsBest'
  BY <1>7 DEF FindAnswer
<1>8. ASSUME NEW r \in Requests, CommitSave(r)
      PROVE  ResultIsBest'
  BY <1>8 DEF CommitSave, End
<1>9. ASSUME NEW r \in Requests, TimeOut(r)
      PROVE  ResultIsBest'
  BY <1>9 DEF TimeOut, End, Overtakes
<1>10. ASSUME NEW r \in Requests, ReadAnswers(r)
      PROVE  ResultIsBest'
  BY <1>10 DEF ReadAnswers
<1>11. ASSUME NEW r \in Requests, LeaveToAdmin(r)
      PROVE  ResultIsBest'
  BY <1>11 DEF LeaveToAdmin, End, Close, Overtakes
<1>12. ASSUME NEW r \in Requests, FindItem(r)
      PROVE  ResultIsBest'
  BY <1>12 DEF FindItem
<1>13. ASSUME NEW r \in Requests, CreateItem(r)
      PROVE  ResultIsBest'
  BY <1>13 DEF CreateItem
<1>14. ASSUME NEW r \in Requests, ReadResult(r)
      PROVE  ResultIsBest'
  BY <1>14 DEF ReadResult
<1>15. ASSUME NEW r \in Requests, FlushResult(r)
      PROVE  ResultIsBest'
  BY <1>15 DEF FlushResult
<1>16. ASSUME NEW r \in Requests, CommitSubmit(r)
      PROVE  ResultIsBest'
  <2> DEFINE a == at[r].attempt
             points == Score(at[r].answers)
             new == [attempt |-> a, points |-> points]
  <2>1. a \in Attempts /\ points \in Int /\ new \in Results
    <3>1. a \in Attempts
      BY <1>16 DEF CommitSubmit
    <3>2. points \in 0..Cardinality(AutoGraded)
      BY ScoreType
    <3> QED
      BY <3>1, <3>2, AutoFinite DEF Results
  <2>2. /\ offers' = offers \cup {new} /\ result' = NewResult(r)
        /\ overwritten' = (overwritten \/ result # at[r].result)
        /\ status' = [status EXCEPT ![a] = "graded"] /\ total' = [total EXCEPT ![a] = points]
        /\ twice' = IF status[a] # "in_progress" THEN twice \cup {a} ELSE twice
    BY <1>16 DEF CommitSubmit, Close, Overtakes
  <2> HIDE DEF a, points
  <2>3. ASSUME NEW o \in offers', o.attempt \notin twice'
        PROVE  status'[o.attempt] = "graded" /\ total'[o.attempt] = o.points
    <3>1. CASE o = new
      BY <2>1, <2>2, <3>1
    <3>2. CASE o \in offers
      <4>1. o.attempt \notin twice
        BY <2>2, <2>3
      <4>2. status[o.attempt] = "graded" /\ total[o.attempt] = o.points
        BY <3>2, <4>1
      <4>3. o.attempt # a
        BY <2>2, <2>3, <4>2
      <4> QED
        BY <2>2, <4>2, <4>3
    <3> QED
      BY <2>2, <2>3, <3>1, <3>2
  <2>4. ASSUME ~overwritten'
        PROVE  /\ result'.attempt # "none" /\ result' \in offers'
               /\ \A o \in offers' : o.points <= result'.points
    <3>1. ~overwritten /\ at[r].result = result
      BY <2>2, <2>4
    <3>2. \A o \in offers : o \in Results /\ o.points \in Int
      BY AutoFinite DEF Results
    <3>3. result \in Results /\ result.points \in Int /\ "none" \notin Attempts
      BY AutoFinite, AttemptsAssumption DEF Results
    <3>4. CASE Replaces(result, points)
      <4>1. result' = new
        BY <2>2, <3>1, <3>4 DEF NewResult, a, points
      <4>2. new.points = points /\ new.attempt = a
        OBVIOUS
      <4>3. \A o \in offers : o.points <= points
        BY <2>1, <3>1, <3>2, <3>3, <3>4 DEF Replaces
      <4> QED
        BY <2>1, <2>2, <3>3, <4>1, <4>2, <4>3
    <3>5. CASE ~Replaces(result, points)
      <4>1. result' = [result EXCEPT !.attempt = result.attempt]
        BY <2>2, <3>1, <3>5 DEF NewResult, points
      <4>2. result' = result
        BY <3>3, <4>1 DEF Results
      <4>3. result.attempt # "none" /\ points < result.points
        BY <2>1, <3>3, <3>5 DEF Replaces
      <4> QED
        BY <2>1, <2>2, <3>1, <3>2, <3>3, <4>2, <4>3
    <3> QED
      BY <3>4, <3>5
  <2> QED
    BY <2>3, <2>4
<1>17. ASSUME NEW r \in Requests, ReadAttempt(r)
      PROVE  ResultIsBest'
  BY <1>17 DEF ReadAttempt
<1>18. ASSUME NEW r \in Requests, CommitGrade(r)
      PROVE  ResultIsBest'
  BY <1>18 DEF CommitGrade, End
<1>19. ASSUME NEW r \in Requests, Fail(r)
      PROVE  ResultIsBest'
  BY <1>19 DEF Fail, End
<1>20. ASSUME NEW a \in Attempts, Expire(a)
      PROVE  ResultIsBest'
  BY <1>20 DEF Expire
<1>21. CASE UNCHANGED vars
  BY <1>21 DEF vars
<1> HIDE DEF IInv, TypeOK, Shape, ResultIsBest, tables, history
<1> QED
  BY <1>1, <1>2, <1>3, <1>4, <1>5, <1>6, <1>7, <1>8, <1>9, <1>10, <1>11, <1>12, <1>13, <1>14, <1>15, <1>16, <1>17, <1>18, <1>19, <1>20, <1>21 DEF Next, Step

\* Grades match the answers.
LEMMA MatchStep == IInv /\ [Next]_vars => GradesMatchAnswers'
<1> SUFFICES ASSUME IInv, [Next]_vars PROVE GradesMatchAnswers'
  OBVIOUS
<1> USE DEF IInv, TypeOK, Shape, GradesMatchAnswers, OpenIsBlank, tables, history, HandedIn
<1>1. ASSUME NEW r \in Requests, AskForAttempt(r)
      PROVE  GradesMatchAnswers'
  BY <1>1 DEF AskForAttempt, Begin
<1>2. ASSUME NEW r \in Requests, Count(r)
      PROVE  GradesMatchAnswers'
  BY <1>2 DEF Count
<1>3. ASSUME NEW r \in Requests, NEW a \in Attempts, OpenAttempt(r, a)
      PROVE  GradesMatchAnswers'
  BY <1>3 DEF OpenAttempt, End
<1>4. ASSUME NEW r \in Requests, NEW a \in Attempts, ReadForSubmit(r, a)
      PROVE  GradesMatchAnswers'
  BY <1>4 DEF ReadForSubmit, Begin
<1>5. ASSUME NEW r \in Requests, NEW a \in Attempts, NEW q \in Questions, NEW x \in Responses \ {"none"},
             ReadForSave(r, a, q, x)
      PROVE  GradesMatchAnswers'
  BY <1>5 DEF ReadForSave, Begin, MaySave
<1>6. ASSUME NEW r \in Requests, NEW a \in Attempts, NEW q \in Questions, NEW n \in Given, ReadForGrade(r, a, q, n)
      PROVE  GradesMatchAnswers'
  BY <1>6 DEF ReadForGrade, Begin
<1>7. ASSUME NEW r \in Requests, FindAnswer(r)
      PROVE  GradesMatchAnswers'
  BY <1>7 DEF FindAnswer
<1>8. ASSUME NEW r \in Requests, CommitSave(r)
      PROVE  GradesMatchAnswers'
  BY <1>8 DEF CommitSave, End
<1>9. ASSUME NEW r \in Requests, TimeOut(r)
      PROVE  GradesMatchAnswers'
  BY <1>9 DEF TimeOut, End, Overtakes
<1>10. ASSUME NEW r \in Requests, ReadAnswers(r)
      PROVE  GradesMatchAnswers'
  BY <1>10 DEF ReadAnswers
<1>11. ASSUME NEW r \in Requests, LeaveToAdmin(r)
      PROVE  GradesMatchAnswers'
  <2> DEFINE a == at[r].attempt
  <2>1. a \in Attempts /\ phase[r] \in {"scored", "flushed"}
    BY <1>11 DEF LeaveToAdmin
  <2>2. /\ status' = [status EXCEPT ![a] = "needs_manual_grading"] /\ total' = [total EXCEPT ![a] = Score(at[r].answers)]
        /\ mark' = [mark EXCEPT ![a] = NewMarks(r, mark[a])] /\ response' = response /\ byHand' = byHand
        /\ unread \subseteq unread' /\ twice \subseteq twice'
        /\ a \notin unread' => response[a] = at[r].answers
        /\ a \notin twice' => status[a] = "in_progress"
    BY <1>11 DEF LeaveToAdmin, Close, Overtakes
  <2> HIDE DEF a
  <2> SUFFICES ASSUME NEW b \in Attempts \ (unread' \cup twice' \cup byHand')
               PROVE  /\ status'[b] \in HandedIn =>
                          total'[b] = Score(response'[b]) /\ mark'[b] = AutoMarks(response'[b], Blank)
                      /\ status'[b] = "graded" => AllAuto(response'[b])
                      /\ status'[b] \notin HandedIn => total'[b] = NoTotal /\ mark'[b] = Blank
    OBVIOUS
  <2>3. CASE b # a
    BY <2>2, <2>3
  <2>4. CASE b = a
    <3>1. status[a] = "in_progress" /\ response[a] = at[r].answers
      BY <2>2, <2>4
    <3>2. mark[a] = Blank /\ at[r].marks = Blank
      BY <2>1, <3>1 DEF ReadsBlank, a
    <3>3. mark'[a] = AutoMarks(at[r].answers, Blank)
      BY <2>1, <2>2, <3>2, BlankGrades
    <3>4. status'[a] = "needs_manual_grading" /\ total'[a] = Score(at[r].answers)
      BY <2>1, <2>2
    <3> QED
      BY <2>2, <2>4, <3>1, <3>3, <3>4
  <2> QED
    BY <2>3, <2>4
<1>12. ASSUME NEW r \in Requests, FindItem(r)
      PROVE  GradesMatchAnswers'
  BY <1>12 DEF FindItem
<1>13. ASSUME NEW r \in Requests, CreateItem(r)
      PROVE  GradesMatchAnswers'
  BY <1>13 DEF CreateItem
<1>14. ASSUME NEW r \in Requests, ReadResult(r)
      PROVE  GradesMatchAnswers'
  BY <1>14 DEF ReadResult
<1>15. ASSUME NEW r \in Requests, FlushResult(r)
      PROVE  GradesMatchAnswers'
  BY <1>15 DEF FlushResult
<1>16. ASSUME NEW r \in Requests, CommitSubmit(r)
      PROVE  GradesMatchAnswers'
  <2> DEFINE a == at[r].attempt
  <2>1. a \in Attempts /\ phase[r] \in {"scored", "flushed"}
    BY <1>16 DEF CommitSubmit
  <2>2. /\ status' = [status EXCEPT ![a] = "graded"] /\ total' = [total EXCEPT ![a] = Score(at[r].answers)]
        /\ mark' = [mark EXCEPT ![a] = NewMarks(r, mark[a])] /\ response' = response /\ byHand' = byHand
        /\ unread \subseteq unread' /\ twice \subseteq twice'
        /\ a \notin unread' => response[a] = at[r].answers
        /\ a \notin twice' => status[a] = "in_progress"
    BY <1>16 DEF CommitSubmit, Close, Overtakes
  <2> HIDE DEF a
  <2> SUFFICES ASSUME NEW b \in Attempts \ (unread' \cup twice' \cup byHand')
               PROVE  /\ status'[b] \in HandedIn =>
                          total'[b] = Score(response'[b]) /\ mark'[b] = AutoMarks(response'[b], Blank)
                      /\ status'[b] = "graded" => AllAuto(response'[b])
                      /\ status'[b] \notin HandedIn => total'[b] = NoTotal /\ mark'[b] = Blank
    OBVIOUS
  <2>3. CASE b # a
    BY <2>2, <2>3
  <2>4. CASE b = a
    <3>1. status[a] = "in_progress" /\ response[a] = at[r].answers
      BY <2>2, <2>4
    <3>2. mark[a] = Blank /\ at[r].marks = Blank
      BY <2>1, <3>1 DEF ReadsBlank, a
    <3>3. mark'[a] = AutoMarks(at[r].answers, Blank)
      BY <2>1, <2>2, <3>2, BlankGrades
    <3>4. status'[a] = "graded" /\ total'[a] = Score(at[r].answers)
      BY <2>1, <2>2
    <3> QED
      BY <1>16, <2>2, <2>4, <3>1, <3>3, <3>4 DEF CommitSubmit
  <2> QED
    BY <2>3, <2>4
<1>17. ASSUME NEW r \in Requests, ReadAttempt(r)
      PROVE  GradesMatchAnswers'
  BY <1>17 DEF ReadAttempt
<1>18. ASSUME NEW r \in Requests, CommitGrade(r)
      PROVE  GradesMatchAnswers'
  BY <1>18 DEF CommitGrade, End
<1>19. ASSUME NEW r \in Requests, Fail(r)
      PROVE  GradesMatchAnswers'
  BY <1>19 DEF Fail, End
<1>20. ASSUME NEW a \in Attempts, Expire(a)
      PROVE  GradesMatchAnswers'
  BY <1>20 DEF Expire
<1>21. CASE UNCHANGED vars
  BY <1>21 DEF vars
<1> HIDE DEF IInv, TypeOK, Shape, GradesMatchAnswers, OpenIsBlank, tables, history, HandedIn
<1> QED
  BY <1>1, <1>2, <1>3, <1>4, <1>5, <1>6, <1>7, <1>8, <1>9, <1>10, <1>11, <1>12, <1>13, <1>14, <1>15, <1>16, <1>17, <1>18, <1>19, <1>20, <1>21 DEF Next, Step

\* The invariant holds initially.
LEMMA InitIInv == Init => IInv
<1> SUFFICES ASSUME Init PROVE IInv
  OBVIOUS
<1>1. total \in [Attempts -> 0..Cardinality(AutoGraded) \cup {NoTotal}]
  BY DEF Init
<1>2. mark \in [Attempts -> [Questions -> Nat \cup {Unmarked}]]
  BY DEF Init, Blank
<1>3. at \in [Requests -> Works] /\ phase \in [Requests -> Phases] /\ begun \in 0..MaxRequests
  <2>1. NoWork \in Works
    BY NoWorkType
  <2>2. at \in [Requests -> Works] /\ phase \in [Requests -> Phases]
    BY <2>1 DEF Init, Phases
  <2>3. begun \in 0..MaxRequests
    BY MaxRequestsAssumption DEF Init
  <2> QED
    BY <2>2, <2>3
<1>4. status \in [Attempts -> Statuses] /\ asked \in [Attempts -> SUBSET Attempts] /\ result \in Results
  BY NoResultType DEF Init, Statuses
<1>5. TypeOK
  BY <1>1, <1>2, <1>3, <1>4 DEF Init, TypeOK
<1>6. Shape /\ ReadsBlank /\ OpenIsBlank /\ AskedIsCounted
  BY DEF Init, Shape, ReadsBlank, OpenIsBlank, AskedIsCounted
<1>7. LimitIsKept
  <2>1. \A a \in Attempts : asked[a] \ twice = {}
    BY DEF Init
  <2> QED
    BY <2>1, FS_EmptySet, LimitAssumption DEF LimitIsKept
<1>8. ResultIsBest
  BY DEF Init, ResultIsBest, NoResult
<1>9. GradesMatchAnswers
  BY DEF Init, GradesMatchAnswers, HandedIn
<1> QED
  BY <1>5, <1>6, <1>7, <1>8, <1>9 DEF IInv

\* The invariant holds of every behaviour.
THEOREM Invariant == Spec => []IInv
<1>1. Init => IInv
  BY InitIInv
<1>2. IInv /\ [Next]_vars => IInv'
  BY TypeStep, ShapeStep, ReadsStep, OpenStep, AskedStep, LimitStep, BestStep, MatchStep DEF IInv
<1> QED
  BY <1>1, <1>2, PTL DEF Spec

\* Every variable stays in its type, and no grade by the system exceeds the points it can give.
THEOREM TypeCorrect == Spec => []TypeOK
<1>1. IInv => TypeOK
  BY DEF IInv
<1> QED
  BY <1>1, Invariant, PTL

\* Nobody gets a further attempt who had handed in as many as the limit (start_attempt).
THEOREM LimitStaysKept == Spec => []LimitIsKept
<1>1. IInv => LimitIsKept
  BY DEF IInv
<1> QED
  BY <1>1, Invariant, PTL

\* The current result is the best of what submissions have brought
\* (upsert_current_result).
THEOREM ResultStaysBest == Spec => []ResultIsBest
<1>1. IInv => ResultIsBest
  BY DEF IInv
<1> QED
  BY <1>1, Invariant, PTL

\* The points of an attempt are those of the answers stored with it (submit_attempt).
THEOREM GradesStayMatched == Spec => []GradesMatchAnswers
<1>1. IInv => GradesMatchAnswers
  BY DEF IInv
<1> QED
  BY <1>1, Invariant, PTL


-----------------------------------------------------------------------------
(* One request at a time.  An attempt beyond the limit, a result that is not *)
(* the best and points that are not those of the answers are races: requests *)
(* handled one after the other never make them.                             *)

\* A request that has begun and not been answered.
Busy(r) == phase[r] # "idle"

Alone == \A p, q \in Requests : Busy(p) /\ Busy(q) => p = q

\* The requests are handled one after the other; any of them may fail, and time
\* may run out at any moment.
SerialSpec == Spec /\ []Alone

\* What was promised with exceptions, without them.
SerialPromises ==
    /\ \A a \in Attempts : Cardinality(asked[a]) < Limit
    /\ result.attempt # "none" => result \in offers
    /\ \A o \in offers :
          /\ status[o.attempt] = "graded" /\ total[o.attempt] = o.points
          /\ result.attempt # "none" /\ o.points <= result.points
    /\ \A a \in Attempts \ byHand :
          /\ status[a] \in HandedIn =>
                total[a] = Score(response[a]) /\ mark[a] = AutoMarks(response[a], Blank)
          /\ status[a] = "graded" => AllAuto(response[a])

\* What the one open request has read is what is there.
SerialRequest(r) ==
    /\ phase[r] \notin {"asked", "counted", "grading", "marking"} =>
          status[at[r].attempt] = "in_progress"
    /\ phase[r] \in {"scored", "itemless", "itemed", "compared", "flushed"} =>
          response[at[r].attempt] = at[r].answers
    /\ phase[r] \in {"compared", "flushed"} => at[r].result = result

SerialInv ==
    /\ unread = {}
    /\ twice = {}
    /\ ~overwritten
    /\ \A r \in Requests : Busy(r) => SerialRequest(r)

\* The only request under way is the one that takes a step.
LEMMA OnlyOne ==
    ASSUME Alone, Alone', NEW r \in Requests, Busy(r) \/ Busy(r)',
           \A q \in Requests : q # r => phase'[q] = phase[q]
    PROVE  \A q \in Requests : q # r => ~Busy(q)'
<1> SUFFICES ASSUME NEW q \in Requests, q # r, Busy(q)' PROVE FALSE
  OBVIOUS
<1>1. Busy(q)
  BY DEF Busy
<1> QED
  BY <1>1 DEF Alone

\* The step of a request changes its own phase and what it has read, and a
\* request that is not on its way has ended or not begun.
LEMMA OneMoves ==
    ASSUME TypeOK, NEW r \in Requests, Step(r)
    PROVE  /\ \A q \in Requests : q # r => phase'[q] = phase[q]
           /\ Busy(r) \/ Busy(r)'
<1>1. phase \in [Requests -> Phases]
  BY DEF TypeOK
<1>2. CASE phase[r] = "idle"
  BY <1>1, <1>2 DEF Busy, Step, AskForAttempt, Count, OpenAttempt, ReadForSave, FindAnswer, CommitSave,
     ReadForSubmit, TimeOut, ReadAnswers, LeaveToAdmin, FindItem, CreateItem, ReadResult, FlushResult,
     CommitSubmit, ReadForGrade, ReadAttempt, CommitGrade, Fail, Begin
<1>3. CASE phase[r] # "idle"
  BY <1>1, <1>3 DEF Busy, Step, AskForAttempt, Count, OpenAttempt, ReadForSave, FindAnswer, CommitSave,
     ReadForSubmit, TimeOut, ReadAnswers, LeaveToAdmin, FindItem, CreateItem, ReadResult, FlushResult,
     CommitSubmit, ReadForGrade, ReadAttempt, CommitGrade, Fail, Begin, Close, End
<1> QED
  BY <1>2, <1>3

\* A request that begins reads and changes nothing else.
LEMMA BeginReads ==
    ASSUME TypeOK, NEW r \in Requests, NEW p, NEW work, Begin(r, p, work)
    PROVE  /\ phase'[r] = p /\ at'[r] = work
           /\ UNCHANGED <<tables, history>>
  BY DEF Begin, TypeOK

\* Handled alone, a request keeps the serial invariant.
LEMMA SerialStep == IInv /\ SerialInv /\ Alone /\ Alone' /\ [Next]_vars => SerialInv'
<1> SUFFICES ASSUME IInv, SerialInv, Alone, Alone', [Next]_vars PROVE SerialInv'
  OBVIOUS
<1> USE DEF tables, history
<1>0. TypeOK /\ phase \in [Requests -> Phases] /\ at \in [Requests -> Works]
  BY DEF IInv, TypeOK
<1>1. CASE UNCHANGED vars \/ \E a \in Attempts : Expire(a)
  <2>1. UNCHANGED <<tables, phase, at, history>>
    BY <1>1 DEF vars, Expire
  <2> QED
    BY <2>1 DEF SerialInv, Busy, SerialRequest
<1>2. CASE \E r \in Requests : Step(r)
  <2>1. PICK r \in Requests : Step(r)
    BY <1>2
  <2>2. \A q \in Requests : q # r => ~Busy(q)'
    BY <1>0, <2>1, OneMoves, OnlyOne
  <2>3. Busy(r) => SerialRequest(r)
    BY DEF SerialInv
  <2> SUFFICES /\ unread' = {} /\ twice' = {} /\ ~overwritten'
               /\ Busy(r)' => SerialRequest(r)'
    BY <2>2 DEF SerialInv
  <2>4. unread = {} /\ twice = {} /\ ~overwritten
    BY DEF SerialInv
  <2>5. \A x : phase' = [phase EXCEPT ![r] = x] => phase'[r] = x
    BY <1>0
  <2>6. \A x : at' = [at EXCEPT ![r] = x] => at'[r] = x
    BY <1>0
  <2>7. End(r) => ~Busy(r)'
    BY <2>5 DEF End, Busy
  <2>8. CASE AskForAttempt(r)
    BY <2>4, <2>5, <2>8 DEF AskForAttempt, Begin, SerialRequest
  <2>9. CASE Count(r)
    BY <2>4, <2>5, <2>9 DEF Count, SerialRequest
  <2>10. CASE \E a \in Attempts : OpenAttempt(r, a)
    BY <2>4, <2>7, <2>10 DEF OpenAttempt
  <2>11. CASE \E a \in Attempts : ReadForSubmit(r, a)
    <3>1. PICK a \in Attempts : ReadForSubmit(r, a)
      BY <2>11
    <3>2. /\ status[a] = "in_progress" /\ phase'[r] = "submitting" /\ at'[r].attempt = a
          /\ UNCHANGED <<tables, history>>
      BY <2>5, <2>6, <3>1 DEF ReadForSubmit, Begin, NoWork
    <3> QED
      BY <2>4, <3>2 DEF SerialRequest
  <2>12. CASE \E a \in Attempts, q \in Questions, x \in Responses \ {"none"} : ReadForSave(r, a, q, x)
    <3>1. PICK a \in Attempts, q \in Questions, x \in Responses \ {"none"} : ReadForSave(r, a, q, x)
      BY <2>12
    <3>2. /\ status[a] = "in_progress" /\ phase'[r] = "saving" /\ at'[r].attempt = a
          /\ UNCHANGED <<tables, history>>
      <4> DEFINE work == [NoWork EXCEPT !.attempt = a, !.question = q, !.response = x,
                                        !.status = status[a]]
      <4>1. status[a] = "in_progress" /\ Begin(r, "saving", work)
        BY <3>1 DEF ReadForSave, MaySave
      <4>2. work.attempt = a
        BY DEF NoWork
      <4> HIDE DEF work
      <4> QED
        BY <1>0, <4>1, <4>2, BeginReads
    <3> QED
      BY <2>4, <3>2 DEF SerialRequest
  <2>13. CASE \E a \in Attempts, q \in Questions, n \in Given : ReadForGrade(r, a, q, n)
    <3>1. PICK a \in Attempts, q \in Questions, n \in Given : ReadForGrade(r, a, q, n)
      BY <2>13
    <3> DEFINE work == [NoWork EXCEPT !.attempt = a, !.question = q, !.given = n, !.mark = mark[a][q]]
    <3>2. Begin(r, "grading", work)
      BY <3>1 DEF ReadForGrade
    <3> HIDE DEF work
    <3>3. phase'[r] = "grading" /\ UNCHANGED <<tables, history>>
      BY <1>0, <3>2, BeginReads
    <3> QED
      BY <2>4, <3>3 DEF SerialRequest
  <2>14. CASE FindAnswer(r)
    <3>1. /\ phase[r] = "saving" /\ phase'[r] = "found" /\ at'[r].attempt = at[r].attempt
          /\ UNCHANGED <<tables, history>>
      BY <1>0, <2>14 DEF FindAnswer, Works
    <3> QED
      BY <2>3, <2>4, <3>1 DEF SerialRequest, Busy
  <2>15. CASE CommitSave(r)
    <3>1. status[at[r].attempt] = "in_progress"
      BY <2>3, <2>15 DEF CommitSave, SerialRequest, Busy
    <3> QED
      BY <2>4, <2>7, <2>15, <3>1 DEF CommitSave
  <2>16. CASE TimeOut(r)
    <3>1. status[at[r].attempt] = "in_progress"
      BY <2>3, <2>16 DEF TimeOut, SerialRequest, Busy
    <3> QED
      BY <2>4, <2>7, <2>16, <3>1 DEF TimeOut, Overtakes
  <2>17. CASE ReadAnswers(r)
    <3>1. /\ phase[r] = "submitting" /\ phase'[r] = "scored" /\ at'[r].attempt = at[r].attempt
          /\ at'[r].answers = response[at[r].attempt]
          /\ UNCHANGED <<tables, history>>
      BY <1>0, <2>17 DEF ReadAnswers, Works
    <3> QED
      BY <2>3, <2>4, <3>1 DEF SerialRequest, Busy
  <2>18. CASE LeaveToAdmin(r)
    <3>1. status[at[r].attempt] = "in_progress" /\ response[at[r].attempt] = at[r].answers
      BY <2>3, <2>18 DEF LeaveToAdmin, SerialRequest, Busy
    <3> QED
      BY <2>4, <2>7, <2>18, <3>1 DEF LeaveToAdmin, Close, Overtakes
  <2>19. CASE FindItem(r)
    <3>1. /\ phase[r] = "scored" /\ phase'[r] \in {"itemed", "itemless"}
          /\ UNCHANGED <<tables, history, at>>
      BY <1>0, <2>19 DEF FindItem
    <3> QED
      BY <2>3, <2>4, <3>1 DEF SerialRequest, Busy
  <2>20. CASE CreateItem(r)
    <3>1. /\ phase[r] = "itemless" /\ phase'[r] = "itemed" /\ at'[r].attempt = at[r].attempt
          /\ at'[r].answers = at[r].answers
          /\ UNCHANGED <<tables, history>>
      BY <1>0, <2>20 DEF CreateItem, Works
    <3> QED
      BY <2>3, <2>4, <3>1 DEF SerialRequest, Busy
  <2>21. CASE ReadResult(r)
    <3>1. /\ phase[r] = "itemed" /\ phase'[r] = "compared" /\ at'[r].attempt = at[r].attempt
          /\ at'[r].answers = at[r].answers /\ at'[r].result = result
          /\ UNCHANGED <<tables, history>>
      BY <1>0, <2>21 DEF ReadResult, Works
    <3> QED
      BY <2>3, <2>4, <3>1 DEF SerialRequest, Busy
  <2>22. CASE FlushResult(r)
    <3>1. /\ phase[r] = "compared" /\ phase'[r] = "flushed"
          /\ UNCHANGED <<tables, history, at>>
      BY <1>0, <2>22 DEF FlushResult
    <3> QED
      BY <2>3, <2>4, <3>1 DEF SerialRequest, Busy
  <2>23. CASE CommitSubmit(r)
    <3>1. /\ status[at[r].attempt] = "in_progress" /\ response[at[r].attempt] = at[r].answers
          /\ at[r].result = result
      BY <2>3, <2>23 DEF CommitSubmit, SerialRequest, Busy
    <3> QED
      BY <2>4, <2>7, <2>23, <3>1 DEF CommitSubmit, Close, Overtakes
  <2>24. CASE ReadAttempt(r)
    <3>1. phase'[r] = "marking" /\ UNCHANGED <<tables, history>>
      BY <1>0, <2>24 DEF ReadAttempt
    <3> QED
      BY <2>4, <3>1 DEF SerialRequest
  <2>25. CASE CommitGrade(r)
    BY <2>4, <2>7, <2>25 DEF CommitGrade
  <2>26. CASE Fail(r)
    BY <2>4, <2>7, <2>26 DEF Fail
  <2> QED
    BY <2>1, <2>8, <2>9, <2>10, <2>11, <2>12, <2>13, <2>14, <2>15, <2>16, <2>17, <2>18, <2>19, <2>20,
       <2>21, <2>22, <2>23, <2>24, <2>25, <2>26 DEF Step
<1> QED
  BY <1>1, <1>2 DEF Next

\* The serial invariant holds as long as requests come one after the other.
LEMMA SerialInvariant == SerialSpec => [](IInv /\ SerialInv)
<1>1. Init => SerialInv
  BY DEF Init, SerialInv, Busy
<1> QED
  BY <1>1, SerialStep, Invariant, PTL DEF SerialSpec, Spec

\* One request at a time, nobody exceeds the limit, the current result is the best
\* of all that were handed in, and grades are those of the answers that are stored,
\* unless an administrator has graded the attempt.
THEOREM SerialIsExact == SerialSpec => []SerialPromises
<1>1. IInv /\ SerialInv => SerialPromises
  <2> SUFFICES ASSUME IInv, SerialInv PROVE SerialPromises
    OBVIOUS
  <2>1. \A a \in Attempts : Cardinality(asked[a]) < Limit
    <3> SUFFICES ASSUME NEW a \in Attempts PROVE Cardinality(asked[a]) < Limit
      OBVIOUS
    <3>1. asked[a] \ twice = asked[a]
      BY DEF SerialInv
    <3> QED
      BY <3>1 DEF IInv, LimitIsKept
  <2>2. /\ result.attempt # "none" => result \in offers
        /\ \A o \in offers :
              /\ status[o.attempt] = "graded" /\ total[o.attempt] = o.points
              /\ result.attempt # "none" /\ o.points <= result.points
    BY DEF IInv, SerialInv, ResultIsBest
  <2>3. \A a \in Attempts \ byHand :
          /\ status[a] \in HandedIn =>
                total[a] = Score(response[a]) /\ mark[a] = AutoMarks(response[a], Blank)
          /\ status[a] = "graded" => AllAuto(response[a])
    BY DEF IInv, SerialInv, GradesMatchAnswers
  <2> QED
    BY <2>1, <2>2, <2>3 DEF SerialPromises
<1> QED
  BY <1>1, SerialInvariant, PTL
=============================================================================
