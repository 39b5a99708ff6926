----------------------------- MODULE QuizExecution -----------------------------
(***************************************************************************)
(* The attempts of one learner at one quiz, and the learner's current       *)
(* result for it in the gradebook: an attempt is opened, answers are saved, *)
(* it is submitted, graded by the system and, where that is not possible,   *)
(* by an administrator.  The handlers run in threads, each in a transaction *)
(* of its own; what they check they have read without a lock, and an UPDATE *)
(* names only the columns that differ from what was read.                   *)
(***************************************************************************)
EXTENDS Integers, FiniteSets

CONSTANTS
    Attempts,
    Questions,
    AutoGraded,  \* questions that the system can grade, one point each
    Requests,
    Limit,       \* attempt_limit
    Timed,       \* the quiz has a time limit
    SystemUser,  \* users has the row "system" that the system's grades refer to
    Given,       \* points that an administrator may give
    MaxRequests  \* bound: requests in all

ASSUME AttemptsAssumption == IsFiniteSet(Attempts) /\ "none" \notin Attempts
ASSUME QuestionsAssumption == IsFiniteSet(Questions) /\ AutoGraded \subseteq Questions
ASSUME LimitAssumption == Limit \in Nat \ {0}
ASSUME FlagsAssumption == Timed \in BOOLEAN /\ SystemUser \in BOOLEAN
ASSUME GivenAssumption == Given \subseteq Nat
ASSUME MaxRequestsAssumption == MaxRequests \in Nat

VARIABLES
    status,     \* quiz_attempts.status
    total,      \* quiz_attempts.total_score
    response,   \* quiz_answers.response_json, "none" where there is no row
    mark,       \* quiz_answers.points_awarded
    item,       \* the quiz has a row in grade_items
    result,     \* grade_results: the current result and the attempt it names
    expired,    \* attempts whose time is up
    begun,      \* requests so far
    phase,      \* how far a request has come
    at,         \* what it was asked and what it has read
    asked,      \* history: attempts already handed in when an attempt was asked for
    unread,     \* history: attempts with an answer that came too late to be graded
    twice,      \* history: attempts written over by a request that saw them open
    byHand,     \* history: attempts an administrator has graded
    offers,     \* history: results that submissions have brought to the gradebook
    overwritten \* history: the result was changed between read and write

tables == <<status, total, response, mark, item, result>>
history == <<asked, unread, twice, byHand, offers, overwritten>>
vars == <<tables, expired, begun, phase, at, history>>

Statuses == {"absent", "in_progress", "timed_out", "needs_manual_grading", "graded"}
HandedIn == {"needs_manual_grading", "graded"}
Responses == {"none", "right", "wrong"}
Phases == {"idle", "asked", "counted", "saving", "found", "submitting", "scored", "itemless",
           "itemed", "compared", "flushed", "grading", "marking"}

Unmarked == -1
NoTotal == -1
Results == [attempt : Attempts \cup {"none"}, points : 0..Cardinality(AutoGraded)]
NoResult == [attempt |-> "none", points |-> 0]
Blank == [q \in Questions |-> Unmarked]
Empty == [q \in Questions |-> "none"]

Works == [attempt : Attempts \cup {"none"}, question : Questions \cup {"none"},
          response : Responses, given : Nat, before : SUBSET Attempts, status : Statuses,
          found : BOOLEAN, mark : Nat \cup {Unmarked}, answers : [Questions -> Responses],
          marks : [Questions -> Nat \cup {Unmarked}], made : BOOLEAN, result : Results]
NoWork == [attempt |-> "none", question |-> "none", response |-> "none", given |-> 0,
           before |-> {}, status |-> "absent", found |-> FALSE, mark |-> Unmarked,
           answers |-> Empty, marks |-> Blank,
           made |-> FALSE, result |-> NoResult]

\* Nothing is graded yet; attempts may be open already, with any answers.
Init ==
    /\ status \in [Attempts -> {"absent", "in_progress"}]
    /\ response \in [Attempts -> [Questions -> Responses]]
    /\ \A a \in Attempts : status[a] = "absent" => response[a] = Empty
    /\ total = [a \in Attempts |-> NoTotal]
    /\ mark = [a \in Attempts |-> Blank]
    /\ item \in BOOLEAN
    /\ result = NoResult
    /\ expired = {}
    /\ begun = 0
    /\ phase = [r \in Requests |-> "idle"]
    /\ at = [r \in Requests |-> NoWork]
    /\ asked = [a \in Attempts |-> {}]
    /\ unread = {}
    /\ twice = {}
    /\ byHand = {}
    /\ offers = {}
    /\ overwritten = FALSE

-----------------------------------------------------------------------------
(* What the handlers compute.                                              *)

\* Mutant: attempts that wait for an administrator do not count.
CountedGradedOnly == {a \in Attempts : status[a] = "graded"}

\* Prior attempts; open ones and those out of time do not count.
Counted == {a \in Attempts : status[a] \in HandedIn}

\* Mutant: answers may be saved to any attempt.
MaySaveAny(a) == status[a] # "absent"

MaySave(a) == status[a] = "in_progress"

Answered(x) == {q \in Questions : x[q] # "none"}
AllAuto(x) == Answered(x) \subseteq AutoGraded

\* Mutant: the question's type is not looked at.
ScoreAll(x) == Cardinality({q \in Questions : x[q] = "right"})

Score(x) == Cardinality({q \in AutoGraded : x[q] = "right"})

\* The points of the answers x after the system has graded them.
AutoMarks(x, old) ==
    [q \in Questions |-> IF q \in AutoGraded /\ x[q] # "none"
                         THEN IF x[q] = "right" THEN 1 ELSE 0
                         ELSE old[q]]

\* Mutant: the latest attempt counts.
ReplacesAlways(old, points) == TRUE

\* _should_replace with the strategy "best", or no row yet.
Replaces(old, points) == old.attempt = "none" \/ points >= old.points

\* The system's grades are events that refer to the user "system".
CanRecord(r) == SystemUser \/ Answered(at[r].answers) \cap AutoGraded = {}

\* An UPDATE that is flushed and not committed holds its row.
Flushed(r) == phase[r] = "flushed" \/ at[r].made
Held(r, a) == \E p \in Requests \ {r} : Flushed(p) /\ at[p].attempt = a
Regrades(p) == {q \in Questions : AutoMarks(at[p].answers, at[p].marks)[q] # at[p].marks[q]}
AnswerHeld(r, a, q) ==
    \E p \in Requests \ {r} : Flushed(p) /\ at[p].attempt = a /\ q \in Regrades(p)

\* Columns that differ from what was read.
NewMarks(r, stored) ==
    [q \in Questions |-> IF q \in Regrades(r)
                         THEN AutoMarks(at[r].answers, at[r].marks)[q] ELSE stored[q]]
NewResult(r) ==
    LET points == Score(at[r].answers)
        old == at[r].result
    IN  IF Replaces(old, points)
        THEN [attempt |-> at[r].attempt,
              points |-> IF old.attempt = "none" \/ points # old.points
                         THEN points ELSE result.points]
        ELSE [result EXCEPT !.attempt = old.attempt]

-----------------------------------------------------------------------------
(* start_attempt                                                           *)

Begin(r, p, work) ==
    /\ phase[r] = "idle" /\ begun < MaxRequests
    /\ begun' = begun + 1
    /\ phase' = [phase EXCEPT ![r] = p]
    /\ at' = [at EXCEPT ![r] = work]
    /\ UNCHANGED <<tables, expired, history>>

End(r) ==
    /\ phase' = [phase EXCEPT ![r] = "idle"]
    /\ at' = [at EXCEPT ![r] = NoWork]
    /\ UNCHANGED <<expired, begun>>

AskForAttempt(r) ==
    Begin(r, "asked", [NoWork EXCEPT !.before = {a \in Attempts : status[a] \in HandedIn}])

\* The quiz row is locked from the count to the commit.
Count(r) ==
    /\ phase[r] = "asked"
    /\ \A p \in Requests : phase[p] # "counted"
    /\ Cardinality(Counted) < Limit
    /\ phase' = [phase EXCEPT ![r] = "counted"]
    /\ UNCHANGED <<tables, expired, begun, at, history>>

OpenAttempt(r, a) ==
    /\ phase[r] = "counted" /\ status[a] = "absent"
    /\ status' = [status EXCEPT ![a] = "in_progress"]
    /\ asked' = [asked EXCEPT ![a] = at[r].before]
    /\ End(r)
    /\ UNCHANGED <<total, response, mark, item, result, unread, twice, byHand, offers, overwritten>>

-----------------------------------------------------------------------------
(* save_answer                                                             *)

ReadForSave(r, a, q, x) ==
    /\ MaySave(a)
    /\ Begin(r, "saving", [NoWork EXCEPT !.attempt = a, !.question = q, !.response = x,
                                         !.status = status[a]])

FindAnswer(r) ==
    /\ phase[r] = "saving"
    /\ phase' = [phase EXCEPT ![r] = "found"]
    /\ at' = [at EXCEPT ![r].found = response[at[r].attempt][at[r].question] # "none"]
    /\ UNCHANGED <<tables, expired, begun, history>>

\* A second row for the same answer breaks the unique index (Fail).
CommitSave(r) ==
    LET a == at[r].attempt
        q == at[r].question
    IN  /\ phase[r] = "found"
        /\ at[r].found <=> response[a][q] # "none"
        /\ ~AnswerHeld(r, a, q)
        /\ response' = [response EXCEPT ![a][q] = at[r].response]
        /\ unread' = IF at[r].status = "in_progress" /\ status[a] # "in_progress"
                     THEN unread \cup {a} ELSE unread
        /\ End(r)
        /\ UNCHANGED <<status, total, mark, item, result, asked, twice, byHand, offers, overwritten>>

-----------------------------------------------------------------------------
(* submit_attempt                                                          *)

ReadForSubmit(r, a) ==
    /\ status[a] = "in_progress"
    /\ Begin(r, "submitting", [NoWork EXCEPT !.attempt = a])

\* The attempt is written by a request that has read it open.
Overtakes(a) == twice' = IF status[a] # "in_progress" THEN twice \cup {a} ELSE twice

TimeOut(r) ==
    LET a == at[r].attempt
    IN  /\ phase[r] = "submitting" /\ a \in expired /\ ~Held(r, a)
        /\ status' = [status EXCEPT ![a] = "timed_out"]
        /\ Overtakes(a)
        /\ End(r)
        /\ UNCHANGED <<total, response, mark, item, result, asked, unread, byHand, offers, overwritten>>

ReadAnswers(r) ==
    LET a == at[r].attempt
    IN  /\ phase[r] = "submitting" /\ a \notin expired
        /\ phase' = [phase EXCEPT ![r] = "scored"]
        /\ at' = [at EXCEPT ![r].answers = response[a], ![r].marks = mark[a]]
        /\ UNCHANGED <<tables, expired, begun, history>>

\* The grades are written with the status s.
Close(r, s) ==
    LET a == at[r].attempt
    IN  /\ status' = [status EXCEPT ![a] = s]
        /\ total' = [total EXCEPT ![a] = Score(at[r].answers)]
        /\ mark' = [mark EXCEPT ![a] = NewMarks(r, @)]
        /\ unread' = IF response[a] # at[r].answers THEN unread \cup {a} ELSE unread
        /\ Overtakes(a)
        /\ End(r)
        /\ UNCHANGED <<response, asked, byHand>>

LeaveToAdmin(r) ==
    /\ phase[r] = "scored" /\ ~AllAuto(at[r].answers)
    /\ CanRecord(r) /\ ~Held(r, at[r].attempt)
    /\ Close(r, "needs_manual_grading")
    /\ UNCHANGED <<item, result, offers, overwritten>>

FindItem(r) ==
    /\ phase[r] = "scored" /\ AllAuto(at[r].answers)
    /\ phase' = [phase EXCEPT ![r] = IF item THEN "itemed" ELSE "itemless"]
    /\ UNCHANGED <<tables, expired, begun, at, history>>

\* Flushed with the grades; a second item breaks the unique index (Fail).
CreateItem(r) ==
    /\ phase[r] = "itemless" /\ ~item /\ CanRecord(r) /\ ~Held(r, at[r].attempt)
    /\ \A p \in Requests : ~at[p].made
    /\ phase' = [phase EXCEPT ![r] = "itemed"]
    /\ at' = [at EXCEPT ![r].made = TRUE]
    /\ UNCHANGED <<tables, expired, begun, history>>

ReadResult(r) ==
    /\ phase[r] = "itemed"
    /\ phase' = [phase EXCEPT ![r] = "compared"]
    /\ at' = [at EXCEPT ![r].result = result]
    /\ UNCHANGED <<tables, expired, begun, history>>

\* A second row for the same result breaks the unique index (Fail).
FlushResult(r) ==
    /\ phase[r] = "compared" /\ SystemUser /\ ~Held(r, at[r].attempt)
    /\ \A p \in Requests : phase[p] # "flushed"
    /\ at[r].result.attempt = "none" => result.attempt = "none"
    /\ phase' = [phase EXCEPT ![r] = "flushed"]
    /\ UNCHANGED <<tables, expired, begun, at, history>>

CommitSubmit(r) ==
    /\ phase[r] = "flushed"
    /\ Close(r, "graded")
    /\ item' = TRUE
    /\ result' = NewResult(r)
    /\ offers' = offers \cup {[attempt |-> at[r].attempt, points |-> Score(at[r].answers)]}
    /\ overwritten' = (overwritten \/ result # at[r].result)

-----------------------------------------------------------------------------
(* apply_manual_grade                                                      *)

ReadForGrade(r, a, q, n) ==
    /\ response[a][q] # "none"
    /\ Begin(r, "grading", [NoWork EXCEPT !.attempt = a, !.question = q, !.given = n,
                                          !.mark = mark[a][q]])

ReadAttempt(r) ==
    /\ phase[r] = "grading"
    /\ phase' = [phase EXCEPT ![r] = "marking"]
    /\ at' = [at EXCEPT ![r].status = status[at[r].attempt]]
    /\ UNCHANGED <<tables, expired, begun, history>>

CommitGrade(r) ==
    LET a == at[r].attempt
        q == at[r].question
    IN  /\ phase[r] = "marking"
        /\ ~AnswerHeld(r, a, q)
        /\ at[r].status # "graded" => ~Held(r, a)
        /\ mark' = [mark EXCEPT ![a][q] = IF at[r].given # at[r].mark THEN at[r].given ELSE @]
        /\ status' = [status EXCEPT ![a] = IF at[r].status # "graded" THEN "graded" ELSE @]
        /\ byHand' = byHand \cup {a}
        /\ End(r)
        /\ UNCHANGED <<total, response, item, result, asked, unread, twice, offers, overwritten>>

-----------------------------------------------------------------------------

\* 403, an IntegrityError, a deadlock, a stop of the server: nothing is written.
Fail(r) ==
    /\ phase[r] # "idle"
    /\ End(r)
    /\ UNCHANGED <<tables, history>>

Expire(a) ==
    /\ Timed /\ status[a] # "absent" /\ a \notin expired
    /\ expired' = expired \cup {a}
    /\ UNCHANGED <<tables, begun, phase, at, history>>

Step(r) ==
    \/ AskForAttempt(r) \/ Count(r)
    \/ \E a \in Attempts :
        \/ OpenAttempt(r, a)
        \/ ReadForSubmit(r, a)
        \/ \E q \in Questions, x \in Responses \ {"none"} : ReadForSave(r, a, q, x)
        \/ \E q \in Questions, n \in Given : ReadForGrade(r, a, q, n)
    \/ FindAnswer(r) \/ CommitSave(r)
    \/ TimeOut(r) \/ ReadAnswers(r) \/ LeaveToAdmin(r) \/ FindItem(r) \/ CreateItem(r)
    \/ ReadResult(r) \/ FlushResult(r) \/ CommitSubmit(r)
    \/ ReadAttempt(r) \/ CommitGrade(r)
    \/ Fail(r)

Next == (\E r \in Requests : Step(r)) \/ (\E a \in Attempts : Expire(a))

Spec == Init /\ [][Next]_vars

-----------------------------------------------------------------------------
(* Properties.                                                             *)

\* Every variable stays in its type; no total and no result exceeds the points
\* that the system can give.
TypeOK ==
    /\ status \in [Attempts -> Statuses]
    /\ total \in [Attempts -> 0..Cardinality(AutoGraded) \cup {NoTotal}]
    /\ response \in [Attempts -> [Questions -> Responses]]
    /\ mark \in [Attempts -> [Questions -> Nat \cup {Unmarked}]]
    /\ item \in BOOLEAN
    /\ result \in Results
    /\ expired \subseteq Attempts
    /\ begun \in 0..MaxRequests
    /\ phase \in [Requests -> Phases]
    /\ at \in [Requests -> Works]
    /\ asked \in [Attempts -> SUBSET Attempts]
    /\ unread \subseteq Attempts
    /\ twice \subseteq Attempts
    /\ byHand \subseteq Attempts
    /\ offers \subseteq Results
    /\ overwritten \in BOOLEAN

\* Nobody gets a further attempt who had handed in as many as the limit when asking
\* for it, except attempts that a late second submission has declared out of time
\* (start_attempt).
LimitIsKept ==
    \A a \in Attempts : Cardinality(asked[a] \ twice) < Limit

\* The current result is the best that submissions have brought, and each of those
\* is the total stored with its attempt, until two submissions have read the result
\* before either has written it, or one attempt is written twice
\* (upsert_current_result, submit_attempt).
ResultIsBest ==
    /\ \A o \in offers : o.attempt \notin twice =>
            status[o.attempt] = "graded" /\ total[o.attempt] = o.points
    /\ ~overwritten =>
        /\ result.attempt # "none" => result \in offers
        /\ \A o \in offers : result.attempt # "none" /\ o.points <= result.points

\* The points of an attempt are those of the answers stored with it, and it is not
\* graded while an answer waits for an administrator, unless an answer came during
\* the submission, two submissions overlapped or an administrator has graded it
\* (submit_attempt, save_answer).
GradesMatchAnswers ==
    \A a \in Attempts \ (unread \cup twice \cup byHand) :
        /\ status[a] \in HandedIn =>
                total[a] = Score(response[a]) /\ mark[a] = AutoMarks(response[a], Blank)
        /\ status[a] = "graded" => AllAuto(response[a])
        /\ status[a] \notin HandedIn => total[a] = NoTotal /\ mark[a] = Blank
=============================================================================
