------------------------------ MODULE Enrollment ------------------------------
(***************************************************************************)
(* Enrolment of learners in courses: one by hand, or the rows of an upload  *)
(* one after the other, each in a savepoint of the request's only           *)
(* transaction; and invitations that learners accept.  Accounts are unique  *)
(* by e-mail address and by username, which the database checks; that a     *)
(* learner has one row per course, and how many a course has, the code      *)
(* checks and counts itself.                                                *)
(***************************************************************************)
EXTENDS Integers, FiniteSets

CONSTANTS
    Emails,
    Courses,
    Requests,
    Base,     \* the username that _build_unique_username starts from
    MaxRows   \* rows of an upload

ASSUME EmailsAssumption == IsFiniteSet(Emails)
ASSUME CoursesAssumption == IsFiniteSet(Courses)
ASSUME RequestsAssumption == IsFiniteSet(Requests)
ASSUME MaxRowsAssumption == MaxRows \in Nat \ {0}
ASSUME NamesAssumption == {"none", "before"} \cap Requests = {}

VARIABLES
    maker,      \* users: the request that has made each learner's account
    rows,       \* course_progress
    count,      \* courses.enrolled_count
    phase,      \* how far a request has come
    kind,
    used,       \* rows it has begun
    at,         \* the row it works on, and what it has read for it
    tx,         \* what it has written and not committed
    save,       \* the same at the row's savepoint
    told,       \* enrolments it has counted as successful
    wiped,      \* history: requests that have rolled back the whole transaction
    overwritten \* history: courses whose count was changed between read and write

tables == <<maker, rows, count>>
locals == <<kind, used, at, tx, save, told>>
history == <<wiped, overwritten>>
vars == <<tables, phase, locals, history>>

Kinds == {"manual", "bulk", "accept"}
InRow == {"loaded", "fresh", "checked", "placed", "inserted"}
Phases == {"new", "row", "ended", "lost"} \cup InRow

Rows == [by : Requests \cup {"before"}, email : Emails, course : Courses]
Of(c, set) == {x \in set : x.course = c}
Enrolled(e, c, set) == \E x \in set : x.email = e /\ x.course = c

\* A row: its learner and courses, those still to look at, the one inserted last,
\* the accounts seen when the username was chosen, enrolled_count as read.
Works == [email : Emails \cup {"none"}, goal : SUBSET Courses, left : SUBSET Courses,
          course : Courses \cup {"none"}, known : SUBSET Emails, seen : [Courses -> Nat]]
NoRow == [email |-> "none", goal |-> {}, left |-> {}, course |-> "none", known |-> {},
          seen |-> [c \in Courses |-> 0]]

Untouched == -1
Writes == [made : SUBSET Emails, put : SUBSET Rows, wrote : [Courses -> Nat \cup {Untouched}]]
Nothing == [made |-> {}, put |-> {}, wrote |-> [c \in Courses |-> Untouched]]

Init ==
    /\ maker \in [Emails -> {"none", "before"}]
    /\ rows \in SUBSET [by : {"before"}, email : {e \in Emails : maker[e] = "before"}, course : Courses]
    /\ count = [c \in Courses |-> Cardinality(Of(c, rows))]
    /\ phase = [r \in Requests |-> "new"]
    /\ kind = [r \in Requests |-> "none"]
    /\ used = [r \in Requests |-> 0]
    /\ at = [r \in Requests |-> NoRow]
    /\ tx = [r \in Requests |-> Nothing]
    /\ save = [r \in Requests |-> Nothing]
    /\ told = [r \in Requests |-> {}]
    /\ wiped = {}
    /\ overwritten = {}

-----------------------------------------------------------------------------

\* Mutant: one row more than the limit.
HasRoomForOneMore(r) == IF kind[r] = "bulk" THEN used[r] <= MaxRows ELSE used[r] = 0

HasRoom(r) == IF kind[r] = "bulk" THEN used[r] < MaxRows ELSE used[r] = 0

\* Mutant: an account is found before it is committed.
ExistsAtOnce(r, e) == maker[e] # "none" \/ \E q \in Requests : e \in tx[q].made

\* A request sees what is committed and what it has written.
Exists(r, e) == maker[e] # "none" \/ e \in tx[r].made
CountSeen(r, c) == IF tx[r].wrote[c] # Untouched THEN tx[r].wrote[c] ELSE count[c]

\* Accounts made since the username was chosen that claim the e-mail address or
\* the same username.
Rivals(r) == {f \in Emails \ at[r].known : Base[f] = Base[at[r].email]}

\* The unique indexes of users refuse the insert.
Clashes(r) == \E f \in Rivals(r) : maker[f] # "none"

\* An insert waits for an open one that claims the same, an UPDATE for the row.
Waits(r) == \E q \in Requests \ {r} : tx[q].made \cap Rivals(r) # {}
Locked(r, c) == \E q \in Requests \ {r} : tx[q].wrote[c] # Untouched

\* Mutant: the failure of a row undoes the whole upload.
UndoAll(r) == Nothing

\* Mutant: the failure of a row leaves the counts it has written.
UndoRows(r) == [save[r] EXCEPT !.wrote = tx[r].wrote]

\* Mutant: the failure of a row leaves the account it has made.
UndoEnrolments(r) == [save[r] EXCEPT !.made = tx[r].made]

\* ROLLBACK TO SAVEPOINT.
UndoRow(r) == save[r]

-----------------------------------------------------------------------------
(* The requests.                                                           *)

Begin(r, k) ==
    /\ phase[r] = "new"
    /\ phase' = [phase EXCEPT ![r] = "row"]
    /\ kind' = [kind EXCEPT ![r] = k]
    /\ UNCHANGED <<tables, used, at, tx, save, told, history>>

\* A savepoint, and the row's courses are read; a request by hand is one row with
\* several courses, the acceptance of an invitation one with none.
Load(r, e, cs) ==
    /\ phase[r] = "row" /\ HasRoom(r)
    /\ kind[r] = "bulk" => Cardinality(cs) = 1
    /\ kind[r] = "accept" <=> cs = {}
    /\ phase' = [phase EXCEPT ![r] = "loaded"]
    /\ used' = [used EXCEPT ![r] = @ + 1]
    /\ at' = [at EXCEPT ![r] = [NoRow EXCEPT !.email = e, !.goal = cs, !.left = cs,
                                  !.seen = [c \in Courses |-> CountSeen(r, c)]]]
    /\ save' = [save EXCEPT ![r] = tx[r]]
    /\ UNCHANGED <<tables, kind, tx, told, history>>

FindLearner(r) ==
    /\ phase[r] = "loaded"
    /\ phase' = [phase EXCEPT ![r] = IF Exists(r, at[r].email) THEN "placed" ELSE "fresh"]
    /\ UNCHANGED <<tables, locals, history>>

\* create_user chooses a username; an account made meanwhile is an error (RowFail).
CheckIdentity(r) ==
    /\ phase[r] = "fresh" /\ ~Exists(r, at[r].email)
    /\ phase' = [phase EXCEPT ![r] = "checked"]
    /\ at' = [at EXCEPT ![r].known = {f \in Emails : Exists(r, f)}]
    /\ UNCHANGED <<tables, kind, used, tx, save, told, history>>

InsertLearner(r) ==
    /\ phase[r] = "checked" /\ ~Waits(r) /\ ~Clashes(r)
    /\ phase' = [phase EXCEPT ![r] = "placed"]
    /\ tx' = [tx EXCEPT ![r].made = @ \cup {at[r].email}]
    /\ UNCHANGED <<tables, kind, used, at, save, told, history>>

\* IntegrityError: the session is rolled back, not the savepoint; the upload goes
\* on with its next row and keeps what it has counted.
Collide(r) ==
    /\ phase[r] = "checked" /\ Clashes(r)
    /\ phase' = [phase EXCEPT ![r] = IF kind[r] = "bulk" THEN "row" ELSE "lost"]
    /\ at' = [at EXCEPT ![r] = NoRow]
    /\ tx' = [tx EXCEPT ![r] = Nothing]
    /\ save' = [save EXCEPT ![r] = Nothing]
    /\ wiped' = wiped \cup {r}
    /\ UNCHANGED <<tables, kind, used, told, overwritten>>

\* A course the learner has a row of is skipped.
Skip(r, c) ==
    /\ phase[r] = "placed" /\ c \in at[r].left
    /\ Enrolled(at[r].email, c, rows \cup tx[r].put)
    /\ at' = [at EXCEPT ![r].left = @ \ {c}]
    /\ UNCHANGED <<tables, phase, kind, used, tx, save, told, history>>

Enroll(r, c) ==
    /\ phase[r] = "placed" /\ c \in at[r].left
    /\ ~Enrolled(at[r].email, c, rows \cup tx[r].put)
    /\ phase' = [phase EXCEPT ![r] = "inserted"]
    /\ at' = [at EXCEPT ![r].left = @ \ {c}, ![r].course = c]
    /\ tx' = [tx EXCEPT ![r].put = @ \cup {[by |-> r, email |-> at[r].email, course |-> c]}]
    /\ UNCHANGED <<tables, kind, used, save, told, history>>

\* The count that was read with the course, plus one, is flushed with the notification.
Bump(r) ==
    /\ phase[r] = "inserted" /\ ~Locked(r, at[r].course)
    /\ phase' = [phase EXCEPT ![r] = "placed"]
    /\ tx' = [tx EXCEPT ![r].wrote[at[r].course] = at[r].seen[at[r].course] + 1]
    /\ UNCHANGED <<tables, kind, used, at, save, told, history>>

\* The savepoint is released; the enrolments, skipped ones too, are a success.
Release(r) ==
    /\ phase[r] = "placed" /\ at[r].left = {}
    /\ phase' = [phase EXCEPT ![r] = "row"]
    /\ at' = [at EXCEPT ![r] = NoRow]
    /\ told' = [told EXCEPT ![r] = @ \cup ({at[r].email} \X at[r].goal)]
    /\ save' = [save EXCEPT ![r] = Nothing]
    /\ UNCHANGED <<tables, kind, used, tx, history>>

\* Any other error of an upload's row: a bad row, an account just made, a deadlock.
RowFail(r) ==
    /\ phase[r] \in InRow /\ kind[r] = "bulk"
    /\ phase' = [phase EXCEPT ![r] = "row"]
    /\ at' = [at EXCEPT ![r] = NoRow]
    /\ tx' = [tx EXCEPT ![r] = UndoRow(r)]
    /\ save' = [save EXCEPT ![r] = Nothing]
    /\ UNCHANGED <<tables, kind, used, told, history>>

\* A count was read, overwritten by another request, and is written now.
Overwrites(r, c) ==
    /\ tx[r].wrote[c] # Untouched
    /\ tx[r].wrote[c] - Cardinality(Of(c, tx[r].put)) # count[c]

Commit(r) ==
    /\ phase[r] = "row" /\ used[r] > 0
    /\ phase' = [phase EXCEPT ![r] = "ended"]
    /\ maker' = [e \in Emails |-> IF e \in tx[r].made THEN r ELSE maker[e]]
    /\ rows' = rows \cup tx[r].put
    /\ count' = [c \in Courses |-> CountSeen(r, c)]
    /\ tx' = [tx EXCEPT ![r] = Nothing]
    /\ overwritten' = overwritten \cup {c \in Courses : Overwrites(r, c)}
    /\ UNCHANGED <<kind, used, at, save, told, wiped>>

\* Any error of another request, a stop of the server, a commit that fails.
Lose(r) ==
    /\ phase[r] \notin {"new", "ended", "lost"}
    /\ phase' = [phase EXCEPT ![r] = "lost"]
    /\ at' = [at EXCEPT ![r] = NoRow]
    /\ tx' = [tx EXCEPT ![r] = Nothing]
    /\ save' = [save EXCEPT ![r] = Nothing]
    /\ UNCHANGED <<tables, kind, used, told, history>>

Step(r) ==
    \/ \E k \in Kinds : Begin(r, k)
    \/ \E e \in Emails, cs \in SUBSET Courses : Load(r, e, cs)
    \/ FindLearner(r) \/ CheckIdentity(r) \/ InsertLearner(r) \/ Collide(r)
    \/ \E c \in Courses : Skip(r, c) \/ Enroll(r, c)
    \/ Bump(r) \/ Release(r) \/ RowFail(r) \/ Commit(r) \/ Lose(r)

Next == \E r \in Requests : Step(r)

Spec == Init /\ [][Next]_vars

-----------------------------------------------------------------------------
(* Properties.                                                             *)

\* Every variable stays in its type, and no upload has more rows than it may.
TypeOK ==
    /\ maker \in [Emails -> Requests \cup {"none", "before"}]
    /\ rows \subseteq Rows
    /\ count \in [Courses -> Nat]
    /\ phase \in [Requests -> Phases]
    /\ kind \in [Requests -> Kinds \cup {"none"}]
    /\ used \in [Requests -> 0..MaxRows]
    /\ at \in [Requests -> Works]
    /\ tx \in [Requests -> Writes]
    /\ save \in [Requests -> Writes]
    /\ told \in [Requests -> SUBSET (Emails \X Courses)]
    /\ wiped \subseteq Requests
    /\ overwritten \subseteq Courses

\* What an upload has counted as successful is in the database once it has ended,
\* whatever happened to its other rows, unless one of them met the unique index
\* of the accounts (manual_enroll, execute_batch).
ReportedIsKept ==
    \A r \in Requests : phase[r] = "ended" /\ r \notin wiped =>
        \A p \in told[r] : maker[p[1]] # "none" /\ Enrolled(p[1], p[2], rows)

\* The number of enrolments of a course is never too high, and right until two
\* requests have read it before either has written it (enrolled_count).
CountIsExplained ==
    \A c \in Courses :
        /\ count[c] <= Cardinality(Of(c, rows))
        /\ c \notin overwritten => count[c] = Cardinality(Of(c, rows))

\* Course progress has no unique index; the enrolments that come with a new
\* account are single all the same, because nobody else finds the account before
\* they are committed (manual_enroll, provision_manual_learner).
FirstEnrolmentIsSingle ==
    \A x, y \in rows :
        (x.email = y.email /\ x.course = y.course /\ x.by = maker[x.email] /\ x.by # "before")
            => x = y

\* Mapping: accounts and enrolments as sets, and the requests that have ended with
\* their reports.
Accounts == {e \in Emails : maker[e] # "none"}
Enrolments == {<<x.email, x.course>> : x \in rows}
Answered == {r \in Requests : phase[r] = "ended"}
Reports == [r \in Requests |-> IF r \in Answered THEN told[r] ELSE {}]

Roster == INSTANCE Roster WITH
    accounts <- Accounts, enrolments <- Enrolments,
    answered <- Answered, restarted <- Answered \cap wiped, reports <- Reports

\* An upload of many savepoints, in which rows fail and others go on, acts on the
\* roster as one answer: what it commits is exactly what it reports, and never more
\* if it met the unique index of the accounts; no account comes without its
\* enrolment, and an invitation adds one account and nothing else (execute_batch,
\* manual_enroll, accept_invitation).
ImplementsRoster == Roster!Spec
=============================================================================
