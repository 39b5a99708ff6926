---------------------------- MODULE TaskWorkflow ----------------------------
(***************************************************************************)
(* Tasks after their distribution: learners start and submit them, admins   *)
(* review or overwrite them, and each submission, review and dashboard      *)
(* computes the learner's task completion anew.  Every request runs in a    *)
(* thread of its own and reads the task, the assignment and the learner in  *)
(* separate statements; an UPDATE names the columns that differ from what   *)
(* was read, takes the row's lock and keeps it until the commit.            *)
(***************************************************************************)
EXTENDS Naturals, FiniteSets

CONSTANTS
    Tasks,
    Learners,
    Requests,   \* requests, each handled once
    Changes     \* the statuses that admins choose

ASSUME TasksAssumption == IsFiniteSet(Tasks)
ASSUME RequestsAssumption == IsFiniteSet(Requests)
ASSUME NamesAssumption ==
    {"none", "nobody", "job"} \cap (Requests \cup Learners \cup Tasks) = {}

VARIABLES
    scope,      \* tasks.assignment_scope
    taskStatus, \* tasks.status
    status,     \* task_assignments.status, "none" where there is no row
    first,      \* the assignment with the lowest id of each task, and who inserted it
    work,       \* task_submissions: the requests that have submitted an assignment
    judged,     \* task_reviews: submissions and their verdicts
    score,      \* users.pal_task_completion_pct
    taskLock,   \* the request that holds the lock of each tasks row
    rowLock,    \* ... of each task_assignments row
    userLock,   \* ... of each users row, FOR UPDATE
    share,      \* the requests that hold each users row FOR KEY SHARE
    phase,      \* how far a request has come
    kind,       \* what the request is
    task,       \* its task
    who,        \* its learner
    want,       \* the status an admin has chosen
    seen,       \* the columns it has read
    stamp,      \* the order in which requests have taken the time or a new id
    pick,       \* the submission a review is about
    result,     \* the completion it has computed
    masked,     \* history: assignments whose status has stopped telling the work
    torn,       \* history: tasks whose status has stopped following the assignment
    unscored    \* history: learners whose completion has stopped following the assignments

tables == <<taskStatus, status, first, work, judged, score>>
locks == <<taskLock, rowLock, userLock, share>>
locals == <<kind, task, who, want, seen, stamp, pick, result>>
history == <<masked, torn, unscored>>
vars == <<scope, tables, locks, phase, locals, history>>

Verdicts == {"approved", "revision_requested", "rejected"}
Statuses == {"assigned", "in_progress", "submitted"} \cup Verdicts
TaskStatuses == Statuses \cup {"pending", "completed"}
ASSUME ChangesAssumption == Changes \subseteq TaskStatuses

Kinds == {"start", "submit", "mark", "review", "patch", "view"}

Phases == {"new", "begun", "read", "ready", "flushed", "scored", "ended"}

\* task_status and assignment_status.
TaskStatus(s) ==
    IF s = "assigned" THEN "pending" ELSE IF s = "approved" THEN "completed" ELSE s
AssignmentStatus(s) ==
    IF s = "pending" THEN "assigned" ELSE IF s = "completed" THEN "approved" ELSE s

\* _task_completion, in tenths of a percent: st is a learner's status of each task.
Percent(st) ==
    IF \A t \in Tasks : st[t] = "none" THEN 0
    ELSE (1000 * Cardinality({t \in Tasks : st[t] = "approved"}))
           \div Cardinality({t \in Tasks : st[t] # "none"})

Scores == {Percent(st) : st \in [Tasks -> Statuses \cup {"none"}]}

StatusOf(l) == [t \in Tasks |-> status[t][l]]

\* The jobs have assigned a global task to some learners, the API the other
\* tasks to one; nothing has been done yet.
Init ==
    /\ scope \in [Tasks -> {"all", "individual"}]
    /\ status \in [Tasks -> [Learners -> {"none", "assigned"}]]
    /\ \A t \in Tasks : scope[t] = "individual" =>
          \A l, k \in Learners : status[t][l] # "none" /\ status[t][k] # "none" => l = k
    /\ first \in [Tasks -> [who : Learners \cup {"nobody"}, by : {"job", "none"}]]
    /\ \A t \in Tasks :
          IF \A l \in Learners : status[t][l] = "none"
          THEN first[t] = [who |-> "nobody", by |-> "none"]
          ELSE first[t].by = "job" /\ first[t].who # "nobody" /\ status[t][first[t].who] # "none"
    /\ taskStatus = [t \in Tasks |-> "pending"]
    /\ work = [t \in Tasks |-> [l \in Learners |-> {}]]
    /\ judged = {}
    /\ score = [l \in Learners |-> Percent(StatusOf(l))]
    /\ taskLock = [t \in Tasks |-> "nobody"]
    /\ rowLock = [t \in Tasks |-> [l \in Learners |-> "nobody"]]
    /\ userLock = [l \in Learners |-> "nobody"]
    /\ share = [l \in Learners |-> {}]
    /\ phase = [r \in Requests |-> "new"]
    /\ kind = [r \in Requests |-> "none"]
    /\ task = [r \in Requests |-> "none"]
    /\ who = [r \in Requests |-> "nobody"]
    /\ want = [r \in Requests |-> "none"]
    /\ seen = [r \in Requests |-> [task |-> "pending", row |-> "none", score |-> 0]]
    /\ stamp = [r \in Requests |-> 0]
    /\ pick = [r \in Requests |-> "none"]
    /\ result = [r \in Requests |-> 0]
    /\ masked = {}
    /\ torn = {}
    /\ unscored = {}

-----------------------------------------------------------------------------
(* What a request writes.                                                  *)

\* _latest_submission, by the time the submissions were made.
IsLatest(q, t, l) == q \in work[t][l] /\ \A p \in work[t][l] : stamp[p] <= stamp[q]

Submits(r) == kind[r] \in {"submit", "mark"}

\* Mutant: a submission does not reopen an assignment that has a verdict.
NewRowKeepsVerdict(r) ==
    IF Submits(r) THEN IF seen[r].row \in Verdicts THEN seen[r].row ELSE "submitted"
    ELSE IF kind[r] = "start"
         THEN IF seen[r].row \in {"none", "assigned", "revision_requested"} THEN "in_progress"
              ELSE seen[r].row
    ELSE AssignmentStatus(want[r])

\* Mutant: a start resets whatever has been submitted.
NewRowRestarts(r) ==
    IF Submits(r) THEN "submitted"
    ELSE IF kind[r] = "start" THEN "in_progress"
    ELSE AssignmentStatus(want[r])

\* Mutant: an admin's status is stored in the assignment as it is.
NewRowAsGiven(r) ==
    IF Submits(r) THEN "submitted"
    ELSE IF kind[r] = "start"
         THEN IF seen[r].row \in {"none", "assigned", "revision_requested"} THEN "in_progress"
              ELSE seen[r].row
    ELSE want[r]

\* The status it leaves in the assignment it has read (a row it inserts is
\* "assigned" at first).
NewRow(r) ==
    IF Submits(r) THEN "submitted"
    ELSE IF kind[r] = "start"
         THEN IF seen[r].row \in {"none", "assigned", "revision_requested"} THEN "in_progress"
              ELSE seen[r].row
    ELSE AssignmentStatus(want[r])

\* Mutant: the task follows the assignment as it was read.
NewTaskBefore(r) == IF kind[r] = "patch" THEN want[r] ELSE TaskStatus(seen[r].row)

NewTask(r) == IF kind[r] = "patch" THEN want[r] ELSE TaskStatus(NewRow(r))

\* The unit of work writes a column that differs from what it has read.
Written(read, new, current) == IF new # read THEN new ELSE current

\* Mutant: the score counts the assignments as they were before the request.
StatusSeenBefore(r) == [t \in Tasks |-> status[t][who[r]]]

\* The learner's assignments as the request's own transaction shows them.
StatusSeen(r) ==
    [t \in Tasks |->
        IF t = task[r] THEN Written(seen[r].row, NewRow(r), status[t][who[r]])
        ELSE status[t][who[r]]]

Clock == Cardinality({q \in Requests : stamp[q] # 0}) + 1

Free(lock, r) == lock \in {"nobody", r}

-----------------------------------------------------------------------------
(* The requests.                                                           *)

\* The status an admin chooses: any for a task, a verdict for a submission.
Wanted(k) ==
    IF k = "patch" THEN Changes ELSE IF k = "review" THEN Changes \cap Verdicts ELSE {"none"}

\* The first statements read the learner, if it is the caller, and the task.
Begin(r, k, t, l, w) ==
    /\ phase[r] = "new"
    /\ phase' = [phase EXCEPT ![r] = "begun"]
    /\ kind' = [kind EXCEPT ![r] = k]
    /\ task' = [task EXCEPT ![r] = IF k = "view" THEN "none" ELSE t]
    /\ who' = [who EXCEPT ![r] = IF k \in {"review", "patch"} THEN "nobody" ELSE l]
    /\ want' = [want EXCEPT ![r] = w]
    /\ seen' = [seen EXCEPT ![r] = [task |-> taskStatus[t], row |-> "none",
                                        score |-> IF k \in {"review", "patch"} THEN 0 ELSE score[l]]]
    /\ UNCHANGED <<scope, tables, locks, stamp, pick, result, history>>

\* get_assignment of the caller; a global task may be taken up without a row.
ReadOwn(r) ==
    LET row == status[task[r]][who[r]] IN
    /\ phase[r] = "begun" /\ kind[r] \in {"start", "submit", "mark"}
    /\ row = "none" => kind[r] # "mark" /\ scope[task[r]] = "all"
    /\ phase' = [phase EXCEPT ![r] = "read"]
    /\ seen' = [seen EXCEPT ![r].row = row]
    /\ UNCHANGED <<scope, tables, locks, kind, task, who, want, stamp, pick, result, history>>

\* review_task names no learner: get_assignment finds the task's first row, which
\* must be submitted.
ReadFirst(r) ==
    LET l == first[task[r]].who IN
    /\ phase[r] = "begun" /\ kind[r] = "review"
    /\ l # "nobody" /\ status[task[r]][l] = "submitted"
    /\ phase' = [phase EXCEPT ![r] = "read"]
    /\ who' = [who EXCEPT ![r] = l]
    /\ seen' = [seen EXCEPT ![r].row = status[task[r]][l]]
    /\ UNCHANGED <<scope, tables, locks, kind, task, want, stamp, pick, result, history>>

Inserts(r) == kind[r] \in {"start", "submit", "mark"} /\ seen[r].row = "none"

\* A missing row is inserted, which draws its id, waits for another insert of the
\* same row and fails (Fail) after it.
Insert(r) ==
    /\ phase[r] = "read" /\ Inserts(r) /\ stamp[r] = 0
    /\ status[task[r]][who[r]] = "none"
    /\ rowLock[task[r]][who[r]] = "nobody"
    /\ rowLock' = [rowLock EXCEPT ![task[r]][who[r]] = r]
    /\ stamp' = [stamp EXCEPT ![r] = Clock]
    /\ UNCHANGED <<scope, tables, taskLock, userLock, share, phase, kind, task, who, want, seen,
                   pick, result, history>>

\* The foreign key of a new row holds the learner against FOR UPDATE.  A
\* submission takes the time; that of a new row is the first one in either case.
Prepare(r) ==
    /\ phase[r] = "read" /\ kind[r] \in {"start", "submit", "mark"}
    /\ IF Inserts(r)
       THEN /\ stamp[r] # 0 /\ userLock[who[r]] = "nobody"
            /\ share' = [share EXCEPT ![who[r]] = @ \cup {r}]
            /\ UNCHANGED stamp
       ELSE /\ stamp' = [stamp EXCEPT ![r] = Clock]
            /\ UNCHANGED share
    /\ phase' = [phase EXCEPT ![r] = "ready"]
    /\ UNCHANGED <<scope, tables, taskLock, rowLock, userLock, kind, task, who, want, seen, pick,
                   result, history>>

\* review_assignment: the latest submission at this moment.
Pick(r) ==
    /\ phase[r] = "read" /\ kind[r] = "review"
    /\ \E q \in Requests : IsLatest(q, task[r], who[r]) /\ pick' = [pick EXCEPT ![r] = q]
    /\ phase' = [phase EXCEPT ![r] = "ready"]
    /\ UNCHANGED <<scope, tables, locks, kind, task, who, want, seen, stamp, result, history>>

\* The flush of the assignment: a submission always changes the time in it.
Flush(r) ==
    /\ phase[r] = "ready"
    /\ IF Submits(r) \/ NewRow(r) # seen[r].row
       THEN /\ Free(rowLock[task[r]][who[r]], r)
            /\ rowLock' = [rowLock EXCEPT ![task[r]][who[r]] = r]
       ELSE UNCHANGED rowLock
    /\ phase' = [phase EXCEPT ![r] = "flushed"]
    /\ UNCHANGED <<scope, tables, taskLock, userLock, share, locals, history>>

\* Mutant: a submission flushes the task before the assignment, too.
FlushTaskEarly(r) ==
    /\ \/ phase[r] = "begun" /\ kind[r] = "patch" /\ phase' = [phase EXCEPT ![r] = "read"]
       \/ phase[r] = "read" /\ kind[r] = "submit" /\ phase' = phase
    /\ taskLock[task[r]] = "nobody"
    /\ taskLock' = [taskLock EXCEPT ![task[r]] = r]
    /\ UNCHANGED <<scope, tables, rowLock, userLock, share, locals, history>>

\* patch_task flushes the task before it reads an assignment.
FlushTask(r) ==
    /\ phase[r] = "begun" /\ kind[r] = "patch"
    /\ IF want[r] # seen[r].task
       THEN /\ taskLock[task[r]] = "nobody"
            /\ taskLock' = [taskLock EXCEPT ![task[r]] = r]
       ELSE UNCHANGED taskLock
    /\ phase' = [phase EXCEPT ![r] = "read"]
    /\ UNCHANGED <<scope, tables, rowLock, userLock, share, locals, history>>

\* The assignment of the learner the task names, or the first one; none is fine.
ReadPatched(r) ==
    LET l == first[task[r]].who IN
    /\ phase[r] = "read" /\ kind[r] = "patch"
    /\ phase' = [phase EXCEPT ![r] = "flushed"]
    /\ who' = [who EXCEPT ![r] = l]
    /\ seen' = [seen EXCEPT ![r].row = IF l = "nobody" THEN "none" ELSE status[task[r]][l]]
    /\ UNCHANGED <<scope, tables, locks, kind, task, want, stamp, pick, result, history>>

\* A review tells the learner, and the flush of the notification writes the task's
\* status, too: two statements, in either order.
Posted(r) == NewTask(r) # seen[r].task => taskLock[task[r]] = r

Post(r) ==
    /\ phase[r] = "flushed" /\ kind[r] = "review" /\ ~Posted(r)
    /\ taskLock[task[r]] = "nobody"
    /\ taskLock' = [taskLock EXCEPT ![task[r]] = r]
    /\ UNCHANGED <<scope, tables, rowLock, userLock, share, phase, locals, history>>

\* The foreign key of the notification holds the learner, as above.
Note(r) ==
    /\ phase[r] = "flushed" /\ kind[r] = "review" /\ r \notin share[who[r]]
    /\ userLock[who[r]] = "nobody"
    /\ share' = [share EXCEPT ![who[r]] = @ \cup {r}]
    /\ UNCHANGED <<scope, tables, taskLock, rowLock, userLock, phase, locals, history>>

Recomputes(r) == kind[r] \in {"submit", "review", "view"}

\* All that comes before recompute_user is done.
ScoreNext(r) ==
    /\ Recomputes(r)
    /\ phase[r] = IF kind[r] = "view" THEN "begun" ELSE "flushed"
    /\ kind[r] = "review" => Posted(r) /\ r \in share[who[r]]

\* recompute_user locks the user's row, against the shares of others, too, and
\* counts.  A user read before keeps the columns it was read with: the locking
\* SELECT does not refresh it.
Score(r) ==
    /\ ScoreNext(r)
    /\ userLock[who[r]] = "nobody" /\ share[who[r]] \subseteq {r}
    /\ userLock' = [userLock EXCEPT ![who[r]] = r]
    /\ result' = [result EXCEPT ![r] = Percent(StatusSeen(r))]
    /\ seen' = IF kind[r] = "review" THEN [seen EXCEPT ![r].score = score[who[r]]] ELSE seen
    /\ phase' = [phase EXCEPT ![r] = "scored"]
    /\ UNCHANGED <<scope, tables, taskLock, rowLock, share, kind, task, who, want, stamp, pick, history>>

RowAfter(r) == Written(seen[r].row, NewRow(r), status[task[r]][who[r]])
TaskAfter(r) == Written(seen[r].task, NewTask(r), taskStatus[task[r]])
ScoreAfter(r) == Written(seen[r].score, result[r], score[who[r]])

\* Ids are drawn in the order of the inserts.
FirstAfter(r) ==
    LET f == first[task[r]] IN
    IF Inserts(r) /\ (f.by = "none" \/ (f.by \in Requests /\ stamp[r] < stamp[f.by]))
    THEN [who |-> who[r], by |-> r] ELSE f

Given(r) == IF kind[r] = "review" THEN {[sub |-> pick[r], verdict |-> want[r]]} ELSE {}

\* An admin overwrites the status; a submission leaves the status it has read
\* although a review has changed it, or is older than one already there; a review
\* is about an older submission; a start overwrites what has been done meanwhile.
Masks(r) ==
    LET now == status[task[r]][who[r]] IN
    \/ kind[r] = "patch" /\ RowAfter(r) # now
    \/ /\ Submits(r)
       /\ \/ seen[r].row = "submitted" /\ now # "submitted"
          \/ \E q \in work[task[r]][who[r]] : stamp[q] > stamp[r]
    \/ kind[r] = "review" /\ ~IsLatest(pick[r], task[r], who[r])
    \/ kind[r] = "start" /\ NewRow(r) # seen[r].row /\ now # seen[r].row

\* One of the two columns was read, and left, before another request changed it.
Tears(r) ==
    /\ \/ taskStatus[task[r]] # seen[r].task
       \/ status[task[r]][who[r]] # seen[r].row
    /\ NewTask(r) = seen[r].task \/ NewRow(r) = seen[r].row

\* Three handlers change an assignment without computing the completion.
Unscores(r) ==
    IF Recomputes(r) THEN ScoreAfter(r) # result[r]
    ELSE RowAfter(r) # status[task[r]][who[r]]

Unlocked(r) ==
    /\ taskLock' = [t \in Tasks |-> IF taskLock[t] = r THEN "nobody" ELSE taskLock[t]]
    /\ rowLock' = [t \in Tasks |-> [l \in Learners |->
                      IF rowLock[t][l] = r THEN "nobody" ELSE rowLock[t][l]]]
    /\ userLock' = [l \in Learners |-> IF userLock[l] = r THEN "nobody" ELSE userLock[l]]
    /\ share' = [l \in Learners |-> share[l] \ {r}]

\* The commit, after the task's row (and an overwritten assignment) is flushed.
Commit(r) ==
    /\ kind[r] # "view" /\ who[r] # "nobody"
    /\ phase[r] = IF Recomputes(r) THEN "scored" ELSE "flushed"
    /\ NewTask(r) # seen[r].task => Free(taskLock[task[r]], r)
    /\ NewRow(r) # seen[r].row => Free(rowLock[task[r]][who[r]], r)
    /\ taskStatus' = [taskStatus EXCEPT ![task[r]] = TaskAfter(r)]
    /\ status' = [status EXCEPT ![task[r]][who[r]] = RowAfter(r)]
    /\ first' = [first EXCEPT ![task[r]] = FirstAfter(r)]
    /\ work' = IF Submits(r) THEN [work EXCEPT ![task[r]][who[r]] = @ \cup {r}] ELSE work
    /\ judged' = judged \cup Given(r)
    /\ score' = IF Recomputes(r) THEN [score EXCEPT ![who[r]] = ScoreAfter(r)] ELSE score
    /\ masked' = IF Masks(r) THEN masked \cup {<<task[r], who[r]>>} ELSE masked
    /\ torn' = IF Tears(r) THEN torn \cup {task[r]} ELSE torn
    /\ unscored' = IF Unscores(r) THEN unscored \cup {who[r]} ELSE unscored
    /\ phase' = [phase EXCEPT ![r] = "ended"]
    /\ Unlocked(r)
    /\ UNCHANGED <<scope, locals>>

\* patch_task of a task that nobody is assigned to.
CommitTask(r) ==
    /\ kind[r] = "patch" /\ who[r] = "nobody" /\ phase[r] = "flushed"
    /\ taskStatus' = [taskStatus EXCEPT ![task[r]] = TaskAfter(r)]
    /\ phase' = [phase EXCEPT ![r] = "ended"]
    /\ Unlocked(r)
    /\ UNCHANGED <<scope, status, first, work, judged, score, locals, history>>

\* A dashboard stores what it has computed.
CommitView(r) ==
    /\ kind[r] = "view" /\ phase[r] = "scored"
    /\ score' = [score EXCEPT ![who[r]] = ScoreAfter(r)]
    /\ unscored' = IF Unscores(r) THEN unscored \cup {who[r]} ELSE unscored
    /\ phase' = [phase EXCEPT ![r] = "ended"]
    /\ Unlocked(r)
    /\ UNCHANGED <<scope, taskStatus, status, first, work, judged, locals, masked, torn>>

\* A refusal, an error, the victim of a deadlock or a stop of the server.
Fail(r) ==
    /\ phase[r] \notin {"new", "ended"}
    /\ phase' = [phase EXCEPT ![r] = "ended"]
    /\ Unlocked(r)
    /\ UNCHANGED <<scope, tables, locals, history>>

Step(r) ==
    \/ \E k \in Kinds, t \in Tasks, l \in Learners : \E w \in Wanted(k) :
          Begin(r, k, t, l, w)
    \/ ReadOwn(r) \/ ReadFirst(r) \/ Insert(r) \/ Prepare(r) \/ Pick(r) \/ Flush(r)
    \/ FlushTask(r) \/ ReadPatched(r) \/ Post(r) \/ Note(r) \/ Score(r)
    \/ Commit(r) \/ CommitTask(r) \/ CommitView(r) \/ Fail(r)

Next == \E r \in Requests : Step(r)

Spec == Init /\ [][Next]_vars

-----------------------------------------------------------------------------
(* Properties.                                                             *)

\* Every variable stays in its type.
TypeOK ==
    /\ scope \in [Tasks -> {"all", "individual"}]
    /\ taskStatus \in [Tasks -> TaskStatuses]
    /\ status \in [Tasks -> [Learners -> Statuses \cup {"none"}]]
    /\ first \in [Tasks -> [who : Learners \cup {"nobody"}, by : Requests \cup {"job", "none"}]]
    /\ work \in [Tasks -> [Learners -> SUBSET Requests]]
    /\ judged \subseteq [sub : Requests, verdict : Verdicts]
    /\ score \in [Learners -> Scores]
    /\ taskLock \in [Tasks -> Requests \cup {"nobody"}]
    /\ rowLock \in [Tasks -> [Learners -> Requests \cup {"nobody"}]]
    /\ userLock \in [Learners -> Requests \cup {"nobody"}]
    /\ share \in [Learners -> SUBSET Requests]
    /\ phase \in [Requests -> Phases]
    /\ kind \in [Requests -> Kinds \cup {"none"}]
    /\ task \in [Requests -> Tasks \cup {"none"}]
    /\ who \in [Requests -> Learners \cup {"nobody"}]
    /\ want \in [Requests -> TaskStatuses \cup {"none"}]
    /\ seen \in [Requests -> [task : TaskStatuses, row : Statuses \cup {"none"}, score : Scores \cup {0}]]
    /\ stamp \in [Requests -> Nat]
    /\ pick \in [Requests -> Requests \cup {"none"}]
    /\ result \in [Requests -> Scores \cup {0}]
    /\ masked \subseteq Tasks \X Learners
    /\ torn \subseteq Tasks
    /\ unscored \subseteq Learners

\* A learner whose assignment carries a verdict was given it for the latest
\* submission, although the review names no learner and chooses the submission
\* after its check; the exceptions are those of Masks (review_task, submit_assignment).
VerdictIsOnLatestWork ==
    \A t \in Tasks, l \in Learners :
      (status[t][l] \in Verdicts /\ <<t, l>> \notin masked) =>
        \E q \in work[t][l] : /\ IsLatest(q, t, l)
                              /\ [sub |-> q, verdict |-> status[t][l]] \in judged

\* A submission that nobody has judged keeps the status under which admins find
\* it, and nothing else has that status; the exceptions are those of Masks.
UnjudgedIsVisible ==
    \A t \in Tasks, l \in Learners :
      <<t, l>> \notin masked =>
        (status[t][l] = "submitted" <=>
           \E q \in work[t][l] : IsLatest(q, t, l) /\ \A j \in judged : j.sub # q)

\* The stored completion is that of the assignments, whichever submissions,
\* reviews and dashboards compute it at the same time, until a handler changes an
\* assignment without computing it, or a computed value is not written because
\* the value read before the lock was the same (recompute_user).
ScoreIsCurrent ==
    \A l \in Learners \ unscored : score[l] = Percent(StatusOf(l))

\* The status of a task for one learner follows the assignment, although both are
\* read in separate statements and written by handlers that lock them in opposite
\* orders, until a request leaves one of the columns as it has read it.
TaskFollowsAssignment ==
    \A t \in Tasks \ torn, l \in Learners :
      (scope[t] = "individual" /\ status[t][l] # "none")
        => AssignmentStatus(taskStatus[t]) = status[t][l]

\* Requests that wait for a lock of another one: for the assignment, the learner,
\* the task.
WaitsForRow(r, q) ==
    /\ kind[r] # "view" /\ who[r] # "nobody" /\ rowLock[task[r]][who[r]] = q
    /\ \/ phase[r] = "read" /\ Inserts(r) /\ stamp[r] = 0
       \/ phase[r] = "ready" /\ (Submits(r) \/ NewRow(r) # seen[r].row)
       \/ phase[r] = "flushed" /\ kind[r] = "patch" /\ NewRow(r) # seen[r].row

WaitsForUser(r, q) ==
    /\ who[r] # "nobody"
    /\ \/ /\ userLock[who[r]] = q
          /\ \/ phase[r] = "read" /\ Inserts(r) /\ stamp[r] # 0
             \/ phase[r] = "flushed" /\ kind[r] = "review" /\ r \notin share[who[r]]
       \/ (userLock[who[r]] = q \/ q \in share[who[r]]) /\ ScoreNext(r)

WaitsForTask(r, q) ==
    /\ kind[r] # "view" /\ taskLock[task[r]] = q
    /\ \/ phase[r] = "begun" /\ kind[r] = "patch" /\ want[r] # seen[r].task
       \/ /\ phase[r] = IF kind[r] = "submit" THEN "scored" ELSE "flushed"
          /\ NewTask(r) # seen[r].task

WaitsFor(r, q) ==
    /\ q # r /\ phase[r] \notin {"new", "ended"}
    /\ WaitsForRow(r, q) \/ WaitsForUser(r, q) \/ WaitsForTask(r, q)

\* Requests lock the assignment, the learner and the task in this order, and so
\* wait for one another in a circle only around one of three that do not: an
\* admin's change that has locked the task and waits for its assignment
\* (patch_task), a review whose notification has locked the task, or has a share of
\* the learner, and that waits for the learner (review_task), and a submission whose
\* new assignment has such a share (submit_task_work).
CirclesHaveALateLock ==
    \A S \in SUBSET {r \in Requests : \E q \in Requests : WaitsFor(r, q)} :
      (S # {} /\ \A r \in S : \E q \in S : WaitsFor(r, q)) =>
        \E r \in S, q \in S :
          /\ WaitsFor(r, q)
          /\ \/ kind[r] = "patch" /\ WaitsForRow(r, q) /\ taskLock[task[r]] = r
             \/ kind[r] = "review" /\ WaitsForUser(r, q)
                  /\ (taskLock[task[r]] = r \/ r \in share[who[r]])
             \/ kind[r] = "submit" /\ Inserts(r) /\ ScoreNext(r) /\ WaitsForUser(r, q)
=============================================================================
