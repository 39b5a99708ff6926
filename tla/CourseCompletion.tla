-------------------------- MODULE CourseCompletion --------------------------
(***************************************************************************)
(* One learner in one course: the course_progress rows, the completed       *)
(* modules and the certificates, under the requests that write them         *)
(* (progress updates, heartbeats, submission, certificate requests,         *)
(* enrolment).  Each request runs in a thread of its own and interleaves at *)
(* its database statements.  It loads the newest row once and computes with *)
(* what it has loaded; its UPDATE writes the columns it has changed, takes  *)
(* the row's lock and keeps it until the commit.  Nothing in the database   *)
(* prevents a second row or a second certificate.  An update lists modules  *)
(* with statuses of any kind, so it may complete several and take completed *)
(* ones back; what matters of a list is which modules it changes.           *)
(***************************************************************************)
EXTENDS Naturals, FiniteSets

CONSTANTS
    Modules,    \* the modules of the course
    Requests    \* requests, each handled once

ASSUME ModulesAssumption == IsFiniteSet(Modules) /\ Modules # {}
ASSUME RequestsAssumption == IsFiniteSet(Requests)
ASSUME NamesAssumption == {"none", "nobody", "enrolment"} \cap Requests = {}

VARIABLES
    rule,       \* the effective completion rule
    grade,      \* whether the learner's course grade satisfies it
    rows,       \* course_progress: the row each request has inserted
    holder,     \* the request that holds the lock of each row
    done,       \* the modules with a completed module_progress row
    ever,       \* the modules that have been completed at some time: these have a row
    certs,      \* the requests that have inserted a certificate
    phase,      \* how far a request has come
    kind,       \* what the request is
    turn,       \* when the request's transaction began: created_at of its row
    seen,       \* the row the request has loaded
    plan,       \* the modules it completes and takes back, and those it counts as completed
    write,      \* the values it leaves in the loaded row
    behind      \* history: no request has evaluated the modules as they are now

tables == <<rows, holder, done, ever, certs>>
locals == <<turn, seen, plan, write>>
vars == <<rule, grade, rows, holder, done, ever, certs, phase, kind, turn, seen, plan, write, behind>>

N == Cardinality(Modules)
Owners == Requests \cup {"enrolment"}
Kinds == {"progress", "heartbeat", "submit", "issue", "enroll", "track"}
Phases == {"new", "loaded", "evaluated", "flushed", "settled", "minting", "submitted", "ended"}
Statuses == {"not_started", "in_progress", "pending_grade", "completed", "submitted"}
Finished == {"pending_grade", "completed", "submitted"}

\* A percentage is the number of completed modules it stands for; N is 100.0.
Row == [status : Statuses, pct : 0..N]
Enrolled == [status |-> "not_started", pct |-> 0]
NoRow == [status |-> "none", pct |-> 0]
Unread == [row |-> "none", status |-> "in_progress", pct |-> 0]

Plans == [adds : SUBSET Modules, drops : SUBSET Modules, counted : SUBSET Modules]
NoPlan == [adds |-> {}, drops |-> {}, counted |-> {}]

\* A rule without a content condition has needed = 0 and requires the grade.
Rules == {q \in [grade : BOOLEAN, cert : BOOLEAN, needed : 0..N] : q.needed = 0 => q.grade}

Stored == {o \in Owners : rows[o] # NoRow}
Started(o) == IF o = "enrolment" THEN 0 ELSE turn[o]
IsNewest(o) == o \in Stored /\ \A p \in Stored : Started(p) <= Started(o)

Init ==
    /\ rule \in Rules
    /\ grade \in BOOLEAN /\ (rule.grade \/ grade)
    /\ \E first \in {NoRow, Enrolled} :
         rows = [o \in Owners |-> IF o = "enrolment" THEN first ELSE NoRow]
    /\ holder = [o \in Owners |-> "nobody"]
    /\ done = {}
    /\ ever = {}
    /\ certs = {}
    /\ phase = [r \in Requests |-> "new"]
    /\ kind = [r \in Requests |-> "none"]
    /\ turn = [r \in Requests |-> 0]
    /\ seen = [r \in Requests |-> Unread]
    /\ plan = [r \in Requests |-> NoPlan]
    /\ write = [r \in Requests |-> Enrolled]
    /\ behind = TRUE

-----------------------------------------------------------------------------
(* What a request computes.                                                *)

Enough(modules) == Cardinality(modules) >= rule.needed

\* get_course_progress: the newest row, or none, which the request will insert.
Finds(o) == IF Stored = {} THEN o = "none" ELSE IsNewest(o)

View(o) ==
    IF o = "none" THEN Unread
    ELSE [row |-> o, status |-> rows[o].status, pct |-> rows[o].pct]

\* update_progress first takes a course with an open module out of 'completed'.
Before(r, modules) ==
    IF seen[r].status # "submitted" /\ modules # Modules THEN "in_progress" ELSE seen[r].status

\* Mutant: the minimum is exclusive.
NewStateAbove(modules) ==
    IF Cardinality(modules) <= rule.needed THEN "in_progress"
    ELSE IF rule.grade /\ ~grade THEN "pending_grade"
    ELSE "completed"

NewState(modules) ==
    IF ~Enough(modules) THEN "in_progress"
    ELSE IF rule.grade /\ ~grade THEN "pending_grade"
    ELSE "completed"

\* Mutant: a module of the request's own is counted twice.
EvaluationTwice(modules) ==
    [status |-> NewState(modules), pct |-> Cardinality(modules) + 1]

Evaluation(modules) ==
    [status |-> NewState(modules),
     pct |-> IF NewState(modules) = "completed" THEN N ELSE Cardinality(modules)]

CompletedNow(r) == Before(r, plan[r].counted) # "completed" /\ write[r].status = "completed"

\* SQLAlchemy emits an UPDATE of the columns that differ from what was loaded;
\* a heartbeat always changes the time.
Updates(r) ==
    /\ seen[r].row # "none"
    /\ \/ kind[r] = "heartbeat"
       \/ write[r] # [status |-> seen[r].status, pct |-> seen[r].pct]

Apply(r, row) ==
    [status |-> IF write[r].status # seen[r].status THEN write[r].status ELSE row.status,
     pct |-> IF write[r].pct # seen[r].pct THEN write[r].pct ELSE row.pct]

\* The row as the request's own session shows it after the flush.
Sees(r, o) == IF seen[r].row = o THEN write[r] ELSE rows[o]

\* is_certificate_eligible, of the only row there is.
EligibleRow(row) ==
    /\ row.status = "completed"
    /\ row.pct >= rule.needed
    /\ rule.grade => grade
    /\ rule.cert

Eligible(r) == \E o \in Owners : Stored = {o} /\ EligibleRow(Sees(r, o))

-----------------------------------------------------------------------------
(* The requests.                                                           *)

\* The first statements: the transaction begins and the newest row is loaded.
Load(r, k) ==
    /\ phase[r] = "new" /\ k \notin {"issue", "track"}
    /\ phase' = [phase EXCEPT ![r] = "loaded"]
    /\ kind' = [kind EXCEPT ![r] = k]
    /\ turn' = [turn EXCEPT ![r] = Cardinality({q \in Requests : phase[q] # "new"}) + 1]
    /\ \E o \in Owners \cup {"none"} : Finds(o) /\ seen' = [seen EXCEPT ![r] = View(o)]
    /\ UNCHANGED <<rule, grade, tables, plan, write, behind>>

\* An open update keeps the lock of each module row it has changed; the first row
\* of a module is inserted and locks nobody out.
Locks(q) ==
    IF kind[q] = "progress" /\ phase[q] \in {"evaluated", "flushed", "settled", "minting"}
    THEN (plan[q].adds \cup plan[q].drops) \cap ever ELSE {}

Unlocked(r, modules) == \A q \in Requests \ {r} : Locks(q) \cap modules = {}

\* update_progress writes the listed modules, each with the status it is given,
\* then counts the completed ones and evaluates the policy.  An item that names the
\* status a module has already writes nothing.
Evaluate(r) ==
    /\ phase[r] = "loaded" /\ kind[r] = "progress"
    /\ \E adds \in SUBSET (Modules \ done), drops \in SUBSET done :
         LET counted == (done \cup adds) \ drops IN
         /\ Unlocked(r, adds \cup drops)
         /\ plan' = [plan EXCEPT ![r] = [adds |-> adds, drops |-> drops, counted |-> counted]]
         /\ write' = [write EXCEPT ![r] = Evaluation(counted)]
    /\ phase' = [phase EXCEPT ![r] = "evaluated"]
    /\ UNCHANGED <<rule, grade, tables, kind, turn, seen, behind>>

\* Mutant: one completed module is enough for a submission.
CheckOne(r) ==
    /\ phase[r] = "loaded" /\ kind[r] = "submit"
    /\ seen[r].row # "none"
    /\ certs = {}
    /\ done # {}
    /\ phase' = [phase EXCEPT ![r] = "evaluated"]
    /\ plan' = [plan EXCEPT ![r] = [NoPlan EXCEPT !.counted = done]]
    /\ write' = [write EXCEPT ![r] = [status |-> "submitted", pct |-> N]]
    /\ UNCHANGED <<rule, grade, tables, kind, turn, seen, behind>>

\* submit_course: no certificate yet and every module completed.
Check(r) ==
    /\ phase[r] = "loaded" /\ kind[r] = "submit"
    /\ seen[r].row # "none"
    /\ certs = {}
    /\ done = Modules
    /\ phase' = [phase EXCEPT ![r] = "evaluated"]
    /\ plan' = [plan EXCEPT ![r] = [NoPlan EXCEPT !.counted = done]]
    /\ write' = [write EXCEPT ![r] = [status |-> "submitted", pct |-> N]]
    /\ UNCHANGED <<rule, grade, tables, kind, turn, seen, behind>>

\* Mutant: a heartbeat starts the course whatever its status.
BeatenAlways(status) == "in_progress"

Beaten(status) == IF status = "not_started" THEN "in_progress" ELSE status

\* heartbeat, apply_active_seconds.
Touch(r) ==
    /\ phase[r] = "loaded" /\ kind[r] = "heartbeat"
    /\ phase' = [phase EXCEPT ![r] = "evaluated"]
    /\ write' = [write EXCEPT ![r] = [status |-> Beaten(seen[r].status), pct |-> seen[r].pct]]
    /\ UNCHANGED <<rule, grade, tables, kind, turn, seen, plan, behind>>

\* manual_enroll: nothing found.
Enroll(r) ==
    /\ phase[r] = "loaded" /\ kind[r] = "enroll"
    /\ seen[r].row = "none"
    /\ phase' = [phase EXCEPT ![r] = "evaluated"]
    /\ write' = [write EXCEPT ![r] = Enrolled]
    /\ UNCHANGED <<rule, grade, tables, kind, turn, seen, plan, behind>>

\* Mutant: the row is not locked.
FlushUnlocked(r) ==
    /\ phase[r] = "evaluated"
    /\ phase' = [phase EXCEPT ![r] = "flushed"]
    /\ UNCHANGED <<rule, grade, tables, kind, locals, behind>>

\* The flush: an UPDATE waits for the row's lock.
Flush(r) ==
    /\ phase[r] = "evaluated"
    /\ IF Updates(r) THEN /\ holder[seen[r].row] = "nobody"
                         /\ holder' = [holder EXCEPT ![seen[r].row] = r]
       ELSE UNCHANGED holder
    /\ phase' = [phase EXCEPT ![r] = "flushed"]
    /\ UNCHANGED <<rule, grade, rows, done, ever, certs, kind, locals, behind>>

\* A course completed now gets its certificate in the same transaction, if the
\* row is there to be seen; with two rows the look-up raises (Fail).
Certify(r) ==
    /\ phase[r] = "flushed" /\ kind[r] = "progress"
    /\ CompletedNow(r)
    /\ \A o, p \in Stored : o = p
    /\ phase' = [phase EXCEPT ![r] =
                    IF Eligible(r) /\ certs = {} THEN "minting" ELSE "settled"]
    /\ UNCHANGED <<rule, grade, tables, kind, locals, behind>>

\* A heartbeat then opens the module it comes from: one it finds not started it will
\* write as in progress, even if it is completed by then.
Revisit(r) ==
    /\ phase[r] = "flushed" /\ kind[r] = "heartbeat"
    /\ \E m \in Modules \ done : plan' = [plan EXCEPT ![r] = [NoPlan EXCEPT !.drops = {m}]]
    /\ phase' = [phase EXCEPT ![r] = "settled"]
    /\ UNCHANGED <<rule, grade, tables, kind, turn, seen, write, behind>>

\* A heartbeat's write of its module waits for an open update of it.
Ready(r) ==
    /\ \/ phase[r] = "flushed" /\ ~(kind[r] = "progress" /\ CompletedNow(r))
       \/ phase[r] \in {"settled", "minting"} /\ kind[r] \in {"progress", "heartbeat"}
    /\ Unlocked(r, plan[r].drops)

\* The completed modules once the request has committed.
CompletedBy(r) == (done \cup plan[r].adds) \ plan[r].drops

\* The status of the loaded row is not what it was.
RowMoved(r) == seen[r].row # "none" /\ rows[seen[r].row].status # seen[r].status

\* A request commits what it has computed from modules or a status that are no longer
\* there; it leaves a status alone because it has loaded the same one.
Overtaken(r) ==
    \/ kind[r] \in {"progress", "submit"} /\ plan[r].counted # CompletedBy(r)
    \/ kind[r] \in {"progress", "submit"} /\ write[r].status = seen[r].status /\ RowMoved(r)
    \/ kind[r] = "heartbeat" /\ write[r].status # seen[r].status /\ RowMoved(r)
    \/ kind[r] = "heartbeat" /\ plan[r].drops \cap done # {}

\* The commit of any of them; a submission goes on in a second transaction.
Commit(r) ==
    /\ Ready(r)
    /\ rows' = IF seen[r].row = "none" THEN [rows EXCEPT ![r] = write[r]]
               ELSE [rows EXCEPT ![seen[r].row] = Apply(r, @)]
    /\ holder' = [o \in Owners |-> IF holder[o] = r THEN "nobody" ELSE holder[o]]
    /\ done' = CompletedBy(r)
    /\ ever' = ever \cup CompletedBy(r)
    /\ certs' = IF phase[r] = "minting" THEN certs \cup {r} ELSE certs
    /\ phase' = [phase EXCEPT ![r] = IF kind[r] = "submit" THEN "submitted" ELSE "ended"]
    /\ plan' = [plan EXCEPT ![r] = NoPlan]
    /\ behind' = (Overtaken(r) \/ (behind /\ kind[r] \notin {"progress", "submit"}))
    /\ UNCHANGED <<rule, grade, kind, turn, seen, write>>

\* sync_tracking of the SCORM player: the module's status is written, and nothing of
\* the course.
Track(r, m) ==
    /\ phase[r] = "new"
    /\ Unlocked(r, {m})
    /\ done' = IF m \in done THEN done \ {m} ELSE done \cup {m}
    /\ ever' = ever \cup {m}
    /\ behind' = TRUE
    /\ phase' = [phase EXCEPT ![r] = "ended"]
    /\ kind' = [kind EXCEPT ![r] = "track"]
    /\ UNCHANGED <<rule, grade, rows, holder, certs, locals>>

\* The submission's own certificate: no policy is asked.
Generate(r) ==
    /\ phase[r] = "submitted"
    /\ certs = {}
    /\ phase' = [phase EXCEPT ![r] = "minting"]
    /\ UNCHANGED <<rule, grade, tables, kind, locals, behind>>

\* issue_certificate.
Issue(r) ==
    /\ phase[r] = "new"
    /\ \E o \in Owners : Stored = {o} /\ EligibleRow(rows[o])
    /\ certs = {}
    /\ phase' = [phase EXCEPT ![r] = "minting"]
    /\ kind' = [kind EXCEPT ![r] = "issue"]
    /\ UNCHANGED <<rule, grade, tables, locals, behind>>

\* The PDF is written; the certificate is inserted and committed.
Award(r) ==
    /\ phase[r] = "minting" /\ kind[r] \in {"submit", "issue"}
    /\ certs' = certs \cup {r}
    /\ phase' = [phase EXCEPT ![r] = "ended"]
    /\ UNCHANGED <<rule, grade, rows, holder, done, ever, kind, locals, behind>>

\* A refusal, an exception, a deadlock's victim or a stop of the server: the open
\* transaction is rolled back, a committed submission stays.
Fail(r) ==
    /\ phase[r] \notin {"new", "ended"}
    /\ holder' = [o \in Owners |-> IF holder[o] = r THEN "nobody" ELSE holder[o]]
    /\ phase' = [phase EXCEPT ![r] = "ended"]
    /\ seen' = [seen EXCEPT ![r] = Unread]
    /\ plan' = [plan EXCEPT ![r] = NoPlan]
    /\ write' = [write EXCEPT ![r] = Enrolled]
    /\ UNCHANGED <<rule, grade, rows, done, ever, certs, kind, turn, behind>>

\* An instructor releases, overrides or recalculates the course grade.
Regrade ==
    /\ rule.grade
    /\ grade' = ~grade
    /\ UNCHANGED <<rule, tables, phase, kind, locals, behind>>

Step(r) ==
    \/ \E k \in Kinds : Load(r, k)
    \/ \E m \in Modules : Track(r, m)
    \/ Evaluate(r) \/ Check(r) \/ Touch(r) \/ Enroll(r)
    \/ Flush(r) \/ Certify(r) \/ Revisit(r) \/ Commit(r)
    \/ Generate(r) \/ Issue(r) \/ Award(r) \/ Fail(r)

Next == Regrade \/ \E r \in Requests : Step(r)

Spec == Init /\ [][Next]_vars

-----------------------------------------------------------------------------
(* Properties.                                                             *)

\* Every variable stays in its type.
TypeOK ==
    /\ rule \in Rules
    /\ grade \in BOOLEAN
    /\ rows \in [Owners -> Row \cup {NoRow}]
    /\ holder \in [Owners -> Requests \cup {"nobody"}]
    /\ done \subseteq ever
    /\ ever \subseteq Modules
    /\ certs \subseteq Requests
    /\ phase \in [Requests -> Phases]
    /\ kind \in [Requests -> Kinds \cup {"none"}]
    /\ turn \in [Requests -> Nat]
    /\ seen \in [Requests -> [row : Owners \cup {"none"}, status : Statuses, pct : 0..N]]
    /\ plan \in [Requests -> Plans]
    /\ write \in [Requests -> Row]
    /\ behind \in BOOLEAN

\* Whichever of the three ways a certificate is issued, however stale the rows its
\* request has read and whatever is taken back meanwhile, as many modules as the rule
\* asks for have been completed (is_certificate_eligible, submit_course).
CertificateIsEarned == certs # {} => Enough(ever)

Locked(r) == kind[r] = "progress" /\ Updates(r)

\* Of the progress updates that write the course's row only one issues a
\* certificate: the row's lock spans the look-up and the commit
\* (update_progress, generate_certificate; no unique constraint).
OneCertificateUnderTheLock == \A r, q \in certs : Locked(r) /\ Locked(q) => r = q

\* The only row of a course is finished or waiting for the grade exactly when enough
\* modules are completed, once an update or a submission has evaluated the modules
\* that are there: the next one makes good what an overtaken request or the player's
\* tracking has left behind (update_progress, submit_course, heartbeat).
CompletionIsRecorded ==
    \A o \in Owners :
      Stored = {o} /\ ~behind => (rows[o].status \in Finished <=> Enough(done))

\* A row leaves a finished status only by a request that was overtaken or that leaves
\* too few modules completed.
FinishedIsKept ==
    [][\A o \in Owners : rows[o].status \in Finished /\ rows'[o].status \notin Finished
         => \/ ~Enough(done')
            \/ \E r \in Requests : Commit(r) /\ Overtaken(r)]_vars

\* Mapping: what is enough is what the rule accepts.
Issuance == INSTANCE CertificateIssuance
                WITH Certificates <- Requests, enough <- {S \in SUBSET Modules : Enough(S)}

\* Every request, in one step or spread over several with others between, acts on
\* modules and certificates as one answer of the abstract record: a module may be
\* taken back, a certificate never is, and none is issued before enough modules have
\* been completed (update_progress, submit_course, issue_certificate).
ImplementsIssuance == Issuance!Spec
=============================================================================
