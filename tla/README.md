# telite-lms: formal models

TLA+ models of the parts of telite-lms in which several actors work on the same
rows, files or jobs, the TLC configurations that check them on small instances,
and machine-checked proofs of their safety properties for every size.

Contents: [the system](#1-the-system), [what executes where](#2-what-executes-where-and-what-is-atomic),
[the plan](#3-the-plan), [the modules](#4-the-modules), [the runs](#5-the-runs),
[fairness](#6-fairness), [the proofs](#7-the-proofs),
[where code and documentation disagree](#8-where-code-and-documentation-disagree),
[what is not modelled](#9-what-is-not-modelled).

`PROJECT.json` is the index: components, runs, the source lines behind every
definition (`map`), the hazards with the properties that watch them, the mutants
and the theorems. Paths below are relative to `src/telite-backend/app/` unless they
start with `src/`.

## 1. The system

A multi-tenant learning management system: a FastAPI backend over PostgreSQL, Celery
workers over Redis, and a React frontend. The parts, with the state each keeps:

| Part | State | Operations | What is hard | What makes it correct |
|---|---|---|---|---|
| Task distribution (`api/routes/tasks.py`, `workers/task_assignment_tasks.py`) | `tasks`, `task_assignments`, messages in Redis | post, patch, delete a task; enrol a learner; bulk, enrolment and backfill jobs | two jobs of different kinds, started by different commits, must cover every pair of task and learner; redelivery, retries, crashes between batches | no learner is silently left without a global task; a status tells the truth about the job |
| Assignment submissions (`services/assignment_service.py`, `assignment_storage.py`) | one row per learner and block, files on disk, block progress | draft, submit, resubmit, approve, reject, grade, return | the row is read before an awaited upload and written after it; disk and database are not one transaction | verdicts fall on submitted work; files and rows agree |
| Course publishing (`api/routes/publishing.py`, `authoring.py`, `management/courses.py`) | `courses.status`, `course_versions`, `course_progress.enrolled_version` | submit, approve, reject, publish, archive, restore; create, branch, publish a version; enrol | version numbers are max + 1 without a constraint; two families of routes write the same rows; learners are pinned while versions change | published versions are distinguishable; a pinned learner's course stays the same |
| Course builder (`api/routes/builder.py`, `repositories/builder_repo.py`, `CourseBuilderPage.jsx`, `useAutosave.js`, `LessonBlockEditor.jsx`) | `course_edit_locks`, `lesson_blocks`, the page's state, timers, drafts in the browser | acquire, heartbeat, release, expiry; load, edit, autosave, second try | the lock names a user, the competitors are pages; requests overtake each other; answers are lost; a retry re-acquires and overwrites | no user's saved work is silently replaced; a lost lock is noticed; locks are given back |
| Task workflow (`api/routes/tasks.py`, `repositories/task_repo.py`, `services/pal_score_service.py`) | `tasks.status`, `task_assignments.status`, submissions, reviews, the learner's completion | start, submit, mark, review, patch, dashboard | three columns that tell the same story are read and written in separate statements; a review names no learner and chooses the submission after its check | a verdict belongs to the latest work; unjudged work is visible; the completion is that of the assignments |
| Enrolment (`services/enrollment_service.py`, `bulk_enrollment_service.py`, `user_provisioning.py`) | users, course progress, `enrolled_count`, invitations | enrolment by hand, upload, accepted invitation | a savepoint per row in one transaction; look-up then insert without a constraint; a counter incremented in Python | the report of an upload agrees with the database; counts are right; one row per learner and course |
| Quiz and gradebook (`api/routes/quiz_execution.py`, `quiz_grading.py`, `services/gradebook_service.py`) | attempts, answers, grade items, results | start, save an answer, submit, grade by hand | what a handler checks it has read without a lock; attempts are counted under a lock that submissions do not take | no attempt beyond the limit; grades are those of the answers; the result is the best one |
| Progress, completion, certificates (`api/routes/learner/progress.py`, `resume.py`, `certificates.py`, `services/completion_policy_service.py`, `certificate_service.py`) | module and course progress, certificates | write the statuses of modules, heartbeat, submit the course, ask for a certificate | two requests each complete one of the last modules; an update may take a completed module back; three ways to a certificate; no unique constraint | certificates are earned; the course's status tells the modules, until a request was overtaken |
| Progression and learning paths (`services/progression_rule_engine.py`, `learning_path_unlock_service.py`) | unlocked paths | look up, unlock | little: decided anew on every request; nothing outside the tests assigns a path | |
| Grade aggregation (`services/grade_aggregation_service.py`) | course grades | weighted totals, overrides | only tests call it | |
| PAL score (`services/pal_score_service.py`) | four metrics of a learner and their sum | recompute | a locking read that does not refresh what was read before | the score belongs to the metrics |
| Notifications and reminders (`workers/notification_tasks.py`, `reminder_tasks.py`) | notification rows, dead letters | dispatch, remind | dead code: no producer writes the channel by which the dispatcher selects, and the reminders query columns that do not exist | |
| Reconciliation and analytics (`workers/reconciliation.py`, `analytics_*`) | report tables | periodic refresh | little | reports only |
| Authentication, sessions, rate limits (`core/security.py`, `services/auth_rate_limiter.py`, `api/routes/sessions.py`) | tokens, sessions, sliding windows | log in, refresh, revoke | cryptography, clocks, HTTP | |
| Row-level security (`db/rls.py`) | one session variable per connection | set, reset | pooled connections | no tenant sees another's rows |
| Question bank, media, announcements, branding, payments, dashboards | single rows, object storage | CRUD | little | form validation |
| Frontend | views and forms | | the builder pages are in the fourth row | |

**How they interact.** The API commits a task or an enrolment and then calls `.delay()`;
the worker re-reads the database (task distribution), and what it inserts is what the task
workflow starts from. Enrolment writes the pinned version that publishing produced and the
progress row that completion updates. Assignments and quizzes feed the gradebook, whose course
grade the completion policy reads; completion issues certificates. The builder edits the live
blocks from which publishing takes its snapshots.

## 2. What executes where, and what is atomic

The models take their grain from the following facts of the code.

- **API processes.** The container starts one uvicorn process; nothing in the code relies
  on there being one, so models in which it matters have a set of processes. An
  `async def` handler without an `await` is atomic with respect to the other coroutines of
  its process; a `def` handler runs in a thread and interleaves with everything at each of
  its database statements.
- **Transactions.** READ COMMITTED; `autoflush=False` and `expire_on_commit=False`
  (`db/engine.py`). An UPDATE from the unit of work names only the columns whose new value
  differs from the value loaded, and takes the row's lock until the commit. So a handler
  has the steps *read*, *(wait)*, *flush to commit*; two handlers that have both
  read before either writes mix their columns.
- **Workers.** Celery with `acks_late`, `reject_on_worker_lost` and a visibility timeout:
  a message is delivered at least once, perhaps twice at the same time. One transaction of a
  job is one step.
- **Storage.** A file is written and removed at once and no rollback brings it back.
- **Browser.** A page's callbacks are atomic; between them any request may be answered, fail
  or stay unanswered.

## 3. The plan

Ordered by how much of the system's correctness depends on the part and how badly a test
reaches it.

| # | Module | Status | Content | Composes with |
|---|---|---|---|---|
| 1 | `TaskGeneration` | done, proved | jobs, broker, entry paths of learners | |
| 2 | `AssignmentSubmission` | done, proved | submission row, uploads, reviewers, disk | |
| 3 | `CoursePublishing` | done, proved | workflow, versions, pins | implements `VersionCatalog` |
| 4 | `EditLock` | done, proved | lock row, pages, autosave with its second try | |
| 5 | `CourseCompletion` | done, proved | progress rows, policy, certificates | implements `CertificateIssuance` |
| 6 | `TaskWorkflow` | done, proved | start, submit, review, overwrite; completion under the user's lock | starts from the rows 1 inserts |
| 7 | `Enrollment` | done, proved | savepoints of an upload, accounts, progress rows, counters | implements `Roster`; supplies what 1, 3 and 5 take from an enrolment |
| 8 | `QuizExecution` | done, proved | attempts, answers, grading, the best result | its grade is the changing input of 5 |
| 9 | `BlockAutosave` | open | several saves of one page at once, ids given to new blocks, the draft cache | would refine the saving half of `EditLock` |

Dropped from the plan after reading the code: notification dispatch and learning paths (nothing
leads to them), grade aggregation (only tests call it), sessions and rate limits (section 9). An abstract
specification is stated where the code keeps one promise to an observer behind several entry points:
for 5 (`CertificateIssuance`), 3 (`VersionCatalog`) and 7 (`Roster`). For 4 it
would be a register with one writer at a time, which the code does not implement; the difference is
exactly what `OverwritesAreExplained` lists. Likewise for the other modules: each safety property
is the promise, with the ways out that the code leaves, and section 7 says which of the ways out
are left when requests do not overlap.

## 4. The modules

Each component has a module with the state, one action per step and the properties; an `MC`
module that fixes symmetry sets and constant functions for TLC; and a `_proofs` module.
Operators whose comment starts with *Mutant:* are not used by any specification. They are
plausible mistakes in the code, kept beside the definition they replace, and each shows that
one property notices the mistake (`mutants` in `PROJECT.json`).

### TaskGeneration

*State.* `scope` and `gen` are two columns of `tasks`, `account` and `active` two of
`users`, `rows` the table `task_assignments`. `owed` holds messages between the commit and
the `.delay()` of the API, `queue` those in Redis, `job`, `phase`, `ids` and `todo` what each
worker process holds. `droppedTasks` and `droppedLearners` are history: jobs the code itself
gave up or never sent.

*Actions.* `PostGlobalTask`, `PostIndividualTask`, `PatchScope`, `DeleteTask`, `LazyCreate`
(`start` and `submit` insert a missing row), `ManualEnroll`, `BulkEnroll`,
`AcceptInvitation`, `Suspend`, `Reactivate`, `Dispatch`, `RequestBackfill` for the API and
operators; `BulkMark`, `BulkRead`, `BulkInsert`, `BulkFinish`, `BulkMarkFailed`, `HookRead`,
`HookInsert`, `BackfillRead`, `BackfillSend`, `BackfillFinish`, `Retry` for the jobs' transactions;
`LoseDispatch`, `JobError`, `Crash`, `Redeliver` for faults.

*Abstractions.* The message broker is a set, so identical waiting messages count once; a
task's fields other than scope and status are left out; learners of one organisation.

*Properties.* `GapIsExplained` is the hand-shake of the two jobs: an active learner lacks the
row of a global task only while a job that will insert it is on its way or after the code
itself dropped that job. `UnfinishedHasJob` and `CompletionIsHonest` tie the status to the job
across crashes and second runs. `OwedUntilCovered` is the safety half of delivery: what a bulk job owes a
learner is never forgotten, only paid or dropped. `DeliveredJobCovers` and `PendingIsHandled` are liveness.

### AssignmentSubmission

*State.* `row` is one row of `assignment_submissions` (status, text, files, attempt), `store` the
files on disk, `complete` the block's progress. Each request has a `phase`, the row as it has
loaded it (`snap`), its `uploads` and its `plan`.

*Actions.* `Open` (load and check), `Upload` (one awaited file), `Prepare` (files removed, new
content computed), `RefuseEmpty` (the 400 after the removal), `Save` (flush to commit),
`LoseRace` (the unique constraint), `Abort`; `OpenReview` and `Decide` for reviewers. `Merged`
is the UPDATE that names only changed columns. A coroutine's steps exclude those of its own
process except at an upload (`Home`, `Processes`).

*Abstractions.* The row is never deleted; the grade's value, the gradebook row, notifications
and the PAL score that a review also writes are left out; text is the request that wrote it.

*Properties.* `DecidedWasSubmitted` (no verdict on work never handed in, whatever drafts, submissions and
reviewers mix), `AttemptsNeverOvercount` (an upper bound: that racing submissions count too few, or that
a late one stores a smaller number, it does not exclude, and the code does both), `UploadsAreSafe`
(nobody deletes what a request on its way has uploaded), and the two halves of the agreement of disk and
row, `OrphansAreExplained` and `DanglingIsExplained`, which list every way the code lets them differ.

### CoursePublishing and VersionCatalog

*State.* `status` and `holder` (who holds the row lock) of the course, `content` (an edition
number for the live sections, modules and blocks), `versions` (the version row each request has
inserted), the requests' `phase`, `kind`, `number` and `snapshot`, and each learner's `step`, `pin` and
`admitted`.

*Actions.* `Begin`, `Flush` (the status UPDATE that takes the lock), `TakeNumber`, `CopySections` and
`CopyBlocks` (the first and the last SELECT of `build_snapshot`), `CommitStatus`, `CommitPublish`, `Fail`
for the workflow; `BeginVersion`, `CommitVersion`,
`PublishBranch` for the two other routes that write versions; `Patch` for the management and
authoring routes that overwrite the status; `Edit`; `Admit`, `ReadLatest`, `Enroll` for an
enrolment.

A builder's save (`Edit`) waits for no lock of the course, so it may fall between the two copies, or
between them and the commit.

*Abstractions.* A snapshot is the range of editions it may mix, from the oldest to the newest one that a
SELECT of it has read (`oldest`, `newest`): the SELECT of the modules lies between the first and the last
one, and the questions of the bank, looked up by version afterwards, do not belong to an edition.
Capability checks are static and left out; `restore_snapshot` is a stub in the code; permanent deletion
is left out.

*Properties.* `NumbersHaveNoGap`, and `ImplementsCatalog`, the refinement of `VersionCatalog`: the
versions published after a review only accumulate, each with a higher number than all before it and with
content that was there, no piece of it older than any piece of an earlier version; and an enrolment takes
the latest number on offer and keeps it. The catalogue does not promise that a snapshot is the content of
one moment, nor that of the commit: neither holds, as a save may fall in between. Only the row lock,
under which a publisher both numbers and copies, keeps two of them from breaking the order. The mapping
forgets requests, status, lock and drafts; an enrolment takes its number in the step that reads it
(`ReadLatest`), before it waits for the course's row. `PublishedInOrder`, `PinIsPublished` and
`PinIsFresh`, which follow, are proved and not run.

### EditLock

*State.* `lock` (owner, and whether it is unexpired) and `content` on the server; per page the
lock state it shows (`page`), the blocks (`local`), the autosave timer (`armed`), and how far each
of its requests has come (`acquire`, `beat`, `release`, `save` with `payload`). `leaked` are the
closed pages whose heartbeat interval started after the cleanup had run: `init` sets the interval
after an `await`. `left`, `hold`, `base` and `strays` are history.

*Actions.* `Open`, `AcquireCheck`, `AcquireGrant`, `AcquireFail`, `Fetched`; `BeatStart`,
`BeatUpdate`, `BeatReread`, `BeatRecover`, `BeatFail`; `Close`, `ReleaseCheck`, `ReleaseDelete`,
`ReleaseFail`; `Load`, `Edit`; `SaveStart`, `SaveCheck`, `Relock`, `Regrant`, `SaveWrite`,
`SaveFail`; `Expire`.

*Abstractions.* Expiry is a step that may happen whenever the lock is unexpired (fifteen minutes
without a renewal; the code's clock only decides when). The blocks of a module are the set of
edits they reflect, and a save replaces the set. A page has at most one request of each sort on
its way: overlapping saves, new blocks' ids and the draft cache are left to `BlockAutosave`. A draft restored
from the browser (`useAutosave.js:39`) is one further way to save over newer blocks, besides those of
`OverwritesAreExplained`. A
page is opened again only after its earlier acquisition and heartbeat have been answered, and
not while it has a leaked interval.

*Properties.* `OverwritesAreExplained`: a save replaces what another user saved only if the
saver's user had been without the lock since its page loaded the blocks, or lost it between the
save's check and its commit, or the replaced edit had been saved in one of these ways.
`LeftoversAreExplained`: a user with no open page owns the lock only after a release failed or a
grant reached a closed page. `LoserLearns` is liveness: the heartbeat's answer may be wrong once
(it reads whatever row is there) but not for ever.

### CourseCompletion and CertificateIssuance

*State.* One learner in one course: `rows` (each request may insert a `course_progress` row, nothing
prevents a second one), `done` (the modules whose status is completed) and `ever` (those that have been at
some time), `certs`, the course's `rule` and whether the `grade` satisfies it; `holder` is the row lock. A
request has its `kind`, the row it has `seen`, a `plan` (the modules it completes, takes back and has counted)
and what it will `write`. `behind` is history: no request has evaluated the modules as they are now.

*Actions.* `Load`; `Evaluate`, `Check`, `Touch`, `Enroll` (what each kind of request computes), `Flush`
(the UPDATE that locks), `Certify`, `Revisit` (a heartbeat's write of the module it comes from), `Commit`;
`Generate`, `Award`, `Issue` (certificates of a submission and of a request for one); `Track` (the SCORM
player writes a module's status and evaluates nothing); `Regrade` by an instructor; `Fail`.
An update carries a list of modules, each with a status that nobody checks (`progress.py:83`): it may
complete several and take completed ones back. `Evaluate` chooses both sets freely, so a course may also
leave `completed` without any race.

*Abstractions.* A percentage is the number of modules it stands for; of a list only the modules that it
completes or takes back count. Sections, blocks, learning time, events and the PAL score written on the way
are left out. A rule without a content condition requires the grade, as `validate_rule` demands. A module
counts as completed if one row of it is: two requests that insert its first row leave two rows, and which of
them a later look-up finds is not modelled.

*Properties.* `OneCertificateUnderTheLock`
(progress updates never issue two, because the row's lock spans look-up and commit).
`CompletionIsRecorded`: unless modules have changed since (`behind`), the only row is finished exactly when
enough modules are completed; so the next update or submission makes good what an overtaken one or the
player has left. The action property `FinishedIsKept`: a row leaves a finished status only by a request
that leaves too few modules completed, or by one that was overtaken (`Overtaken`: it commits what it computed
from modules or a status that are no longer there). Both ways out are reached: an update takes a
module back, and two updates that complete the last two modules each compute *in progress*.
`ImplementsIssuance` is the refinement of `CertificateIssuance`, in which one answer completes modules, takes
others back and issues at most one certificate, never takes a certificate back, and issues none before
enough modules have been completed, at one time or another. That they still are is not promised, and not so:
a module may be taken back between a submission's check and its certificate
(`CertificateIsEarned`, a consequence, is proved and not run).

### TaskWorkflow

*State.* For each task and learner the assignment's `status`, mirrored for the task in `taskStatus`;
`work` and `judged` are the submissions and reviews, `score` the learner's stored completion; the locks of
the three sorts of rows, and `share`: a row that refers to a learner holds the `users` row FOR KEY SHARE from
its INSERT to the commit, which keeps FOR UPDATE out and other shares not. A request has what it has `seen`,
the submission it will `pick`, its `result` and its `stamp` (time or id order). `masked`, `torn` and
`unscored` are history: where status and work, task and assignment, completion and assignments have parted.

*Actions.* `Begin`, `ReadOwn`, `ReadFirst` (a review takes the task's first assignment), `Insert` (a missing
assignment draws its id and locks its row), `Prepare` (its foreign key; a submission takes the time), `Pick`,
`Flush`; `FlushTask`, `ReadPatched`, `CommitTask` for an admin's patch; `Post` and `Note` for a review, whose
notification is flushed together with the task's status (`notification_repo.py:77`) before the completion is
computed: two statements in either order, one locks the task, one shares the learner; `Score` (FOR UPDATE of
the learner), `Commit`, `CommitView`, `Fail`. `Written` is the UPDATE of changed columns only. `Changes` are
the statuses that admins choose; the proofs hold for any.

*Abstractions.* Deletion of a task, a patch that changes assignee or scope, and the other three
metrics of the PAL score are left out, and so are rows that the jobs of `TaskGeneration` add later, each of
which makes the completion out of date until it is computed again. Shares of `tasks` rows are left out, as
an UPDATE of a status does not conflict with them. `Fail` is the victim PostgreSQL picks.

*Properties.* `VerdictIsOnLatestWork` and `UnjudgedIsVisible` (an admin finds exactly the work nobody
has judged), `ScoreIsCurrent`, `TaskFollowsAssignment`. The exceptions are `Masks`, `Unscores` and
`Tears`: steps the code allows and a reader can look up, not states.

`WaitsFor` says which request a request waits for. Most handlers lock assignment, learner and task in this
order; `CirclesHaveALateLock` says that a set of requests all waiting within the set contains one of the
three that do not: a patch that has the task and waits for its assignment; a review that waits for the
learner with the task's lock or a share already taken; a submission with a new assignment, which waits to turn
its share of the learner into the lock. None can be left out. Two learners' submissions that hold their
learners and wait for their tasks, with two reviews that hold these tasks and wait for the learners, are a
circle without any patch; so are two first submissions of one learner for two tasks, each waiting for the
other's share.

### Enrollment and Roster

*State.* `maker` (which request made a learner's account), `rows` of `course_progress`, `count`. Each
request has its transaction `tx` (accounts made, rows put, counters written), the same at the row's
savepoint (`save`), and what it has `told` to be successful. `wiped` and `overwritten` are history.

*Actions.* `Begin`, `Load`, `FindLearner`, `CheckIdentity`, `InsertLearner`, `Collide` (the unique index
answers with an IntegrityError, upon which `manual_enroll` rolls the session back), `Skip`, `Enroll`,
`Bump`, `Release`, `RowFail`, `Commit`, `Lose`. A request by hand is one row with several courses, an
accepted invitation one with none.

*Abstractions.* The approved request, notifications, audit rows, the set-up e-mail and the
invitation rows are left out. Usernames are a constant function: two learners may start from one.

*Properties.* `ReportedIsKept`: what an upload reports is there at the end, unless a row of it met the
unique index. `CountIsExplained`: the counter is never too high, and exact until two requests have
both read it. `FirstEnrolmentIsSingle`: rows that come with a new account are not doubled, although
`course_progress` has no unique index (others can be).

`ImplementsRoster` is the refinement of `Roster`, in which a request takes effect once, with exactly what it
reports (or less, after the unique index has made it start again), and makes no account without an
enrolment. The mapping shows a request when its transaction commits, so a savepoint that undid too
little or too much is a step `Roster` does not have.

### QuizExecution

*State.* The attempts of one learner at one quiz: `status`, `total`, `response` and `mark` per question,
the grade `item`, the `result`; `expired` attempts. A request has a `phase` and what it has read
(`at`). The histories name overlaps: `asked` (attempts handed in when one was asked for), `unread` (an
answer came after the grading had read them), `twice` (written over by a request that saw the
attempt open), `byHand`, `offers`, `overwritten`.

*Actions.* `AskForAttempt`, `Count` (takes the quiz row's lock), `OpenAttempt`; `ReadForSave`, `FindAnswer`,
`CommitSave`; `ReadForSubmit`, `TimeOut`, `ReadAnswers`, `LeaveToAdmin`, `FindItem`, `CreateItem`,
`ReadResult`, `FlushResult`, `CommitSubmit`; `ReadForGrade`, `ReadAttempt`, `CommitGrade`; `Fail`, `Expire`.

*Abstractions.* A question is worth a point; an answer is right, wrong or absent. The events and the
change log are left out, except that the system's grades refer to a user `system` (`SystemUser`).
The other submission route (`learner/quiz.py`) is a coroutine without an `await`: atomic in its process,
with attempts and a count of its own; it is not modelled. Attempts may be open in the initial
state, as the route for starting them leaves any number open.

*Properties.* `LimitIsKept`, `ResultIsBest`, `GradesMatchAnswers`, each up to the histories above. Of late
answers and of manual grades `GradesMatchAnswers` says nothing (`unread`, `byHand`): the code keeps no promise
there, and the two hazards are listed with this note.

## 5. The runs

Sizes are distinct states; with two workers each run takes between ten seconds and two minutes.

| Run | Specification and bounds | What it shows |
|---|---|---|
| `task_generation` | 2 tasks, 2 learners, 2 processes, batches of 1, 1 retry, 4 API calls, 1 fault; 608,775 | type, `GapIsExplained`, `UnfinishedHasJob`, `CompletionIsHonest`, `OwedUntilCovered`. Two processes run both kinds of job, or one job twice, concurrently; batches of one leave a gap between any two learners; one fault is a crash, an error, a redelivery or a lost dispatch anywhere |
| `task_generation_live` | 1 task, 2 learners, 1 process, 3 calls, 2 faults, fair; 52,198 | `DeliveredJobCovers`, `PendingIsHandled`. Two faults exhaust the retries after a crash |
| `assignment_submission` | 3 learner requests on 2 processes, 2 reviewer requests, 1 upload each; 1,820,110 | type and the five safety properties. Three requests are needed for a draft, a submission and a resubmission around a review; two processes for a learner's requests to interleave at every step |
| `course_publishing` | 3 requests of any kind, 1 learner, 1 edit; 1,328,311 | type, `NumbersHaveNoGap`, `ImplementsCatalog`. Two publishers and one route without a lock is the least that can reuse a number; one edit suffices for a snapshot that mixes two editions or is behind at its commit; what is promised of pins concerns one learner at a time |
| `edit_lock` | 2 users with a page each, 1 edit each, 2 openings, 2 saves; 2,154,549 | type, `LeftoversAreExplained`, `OverwritesAreExplained`. Two saves let one user's replace the other's, with expiry, lost answers and second tries in between |
| `edit_lock_live` | the same pages, no edits, 3 openings, fair; 66,818 | `LoserLearns`. Three openings let a page close and open again while the other acts |
| `course_completion` | 2 modules, 3 requests of any kind, every rule that gives a certificate; 1,376,119 | type, `OneCertificateUnderTheLock`, `CompletionIsRecorded`, `FinishedIsKept`, `ImplementsIssuance`. Two modules let two updates each complete one of the last, and one update complete one and take the other back; the third request is the heartbeat, submission, certificate request or tracking in between |
| `task_workflow` | 3 requests in one of two mixes: any kind on 1 task and 2 learners, or submissions and approvals on 2 tasks of 1 learner; 904,966 | type, `VerdictIsOnLatestWork`, `UnjudgedIsVisible`, `ScoreIsCurrent`, `TaskFollowsAssignment`, `CirclesHaveALateLock`. Two learners give a global task a first and a second row; submit, review and submit again take three requests; the chosen statuses have one that the two columns name differently, one that starts over, and two verdicts, of which one can be taken up again. Two tasks let requests meet at the learner: circles around a patch, around two first submissions, and of a review and a first submission are reached. Those around reviews alone take four requests (six through two learners) and are left to the proof |
| `enrollment` | 2 requests, uploads of up to 3 rows, 2 learners with one username, 2 courses; 453,302 | type, `ReportedIsKept`, `CountIsExplained`, `FirstEnrolmentIsSingle`, `ImplementsRoster`. Three rows are one that succeeds, one that fails and one after it |
| `quiz_execution` | 2 attempts, 2 questions (one for the system), limit 1, a time limit, 3 requests of which 2 overlap; 1,824,868 | type, `LimitIsKept`, `ResultIsBest`, `GradesMatchAnswers`. Two open attempts handed in at once exceed the limit of one and compete for the result; each history is reached |
| `task_queue_deployed`, `assignment_frozen` | the smallest instance with the behaviour | one disagreement each, section 8 |

Symmetry is used only in safety runs and only over values the specification treats alike (tasks,
learners, processes; reviewers; requests, learners, modules, courses, attempts; in `edit_lock` both users
together with their pages). `CHECK_DEADLOCK FALSE` is set where a model may stop: users owe no further
request and all bounds are used up (`CoursePublishing` never does, a course can always be patched).
Bounds (`MaxCalls`, `MaxFaults`, `MaxUploads`, `MaxEdits`, `MaxOpens`, `MaxSaves`, `MaxRequests`) are
guards of the model, not of the code; `BatchSize`, `BulkRetries`, `HookRetries`, `MaxRows` (1000 in the
code) and `Limit` are parameters of the code, set small. `Changes` leaves out statuses that are treated
like a chosen one. Two runs have a `CONSTRAINT`: `task_workflow` for its mixes of requests,
`course_completion` to leave out rules without a certificate, which only do less.

## 6. Fairness

- `TaskGeneration!FairSpec`: weak fairness of each worker process's next step (a running
  job goes on; a crash is a step of its own), strong fairness of taking each message (Redis lists
  are first in first out, so a message that waits again and again is taken in the end although
  the processes are busy in between), weak fairness of `Dispatch` (a handler goes on to its
  `.delay()`). Administrators, learners, operators and faults are not fair.
- `EditLock!FairSpec`: weak fairness of each page's heartbeat. `setInterval` fires every 30
  seconds while the page is open, and each request is answered or fails (`BeatFail`, not fair itself).
  Nothing else is fair: no user has to close, save or come back.

The safety runs and all proofs use `Spec` without fairness (some theorems of section 7 restrict it).

## 7. The proofs

All theorems hold for every value of the constants that satisfies the named assumptions:
numbers are naturals (the batch size positive), the values that stand for *nobody* are not
users or requests, requests of learners and reviewers differ, `Home` and `User` are functions
on the right sets. Sets are arbitrary but for those that a completion or a count is computed over, which are finite (modules,
attempts, questions, the sets of `Enrollment`, the tasks of `TaskWorkflow`, and the requests of these two and
of `CourseCompletion`); bounds are arbitrary.
Each `_proofs` module has the same shape: the conjuncts of an inductive invariant `IInv`, one lemma
per conjunct with one step per action, `InitIInv`, `StepIInv`, `Invariant`, and the theorems.

- **`TaskGeneration_proofs`**: `TypeCorrect`, `GapsAreExplained`, `UnfinishedTasksHaveJobs`,
  `CompletionsAreHonest`, `OwedIsSettled`. `GapIsExplained` is not inductive by itself. `JobsWellFormed` says that a
  process holds a message exactly while it is busy, and a list of the right sort;
  `UnbornIsUnknown` that a task id not handed out yet is in no message and no list, so that a
  freshly posted task cannot meet an old job; `InsertedSoFar` that what a bulk job has taken off
  its list is in the table, from which `CompletionIsHonest` follows at `BulkFinish`.
  The lemma `StaysExplained` covers every step that leaves the jobs alone; the steps of a job say
  for each process what it still holds. `OwedIsSettled` has a step lemma of its own (`OwedStep`): for each
  action, the pair's job is still somewhere, or the row is there, or the drop is recorded.
- **`AssignmentSubmission_proofs`**: `TypeCorrect`, `VerdictsAreOnSubmittedWork`,
  `AttemptsAreCounted`, `UploadsStaySafe`, `OrphansStayExplained`, `DanglingStaysExplained`. The
  strengthening says what the requests on their way can still write: `Submitted` and `Counted` about
  the rows they have loaded, `Published` (a file that a row names was uploaded by a request that
  has committed), `Planned` (a plan names the request's own uploads and published files) and
  `Absence` (about the requests that have found no row). `Published` and `Planned` keep the
  uploads of different requests apart. `OnlyStaleSavesTouchReviewed` says of every interleaving that the
  behaviour of `assignment_frozen` needs a save from a row that changed after it was loaded.
- **`CoursePublishing_proofs`**: `TypeCorrect`, `PublishedStaysInOrder`,
  `NumbersAreContiguous`, `PinsArePublished`, `PinsAreFresh`, `Implements`. `Locked` says that a request holds
  the row exactly between its flush and its commit; `TakenAbove` that the number a publisher took
  while holding it is above every published one, and its copies not older than theirs; `TakenNext` that a taken
  number follows one that is stored; `SnapshotsArePast` that a copy is in order and not ahead of the content, and
  who may hold one; `AdmittedIsPublished` that what was the latest version at an admission still is published. The refinement
  needs no further invariant: `EntriesAfter` and `OfferedAfter` say what a written row adds to the
  catalogue, `TakenAbove` that its number is above all there is.
- **`CourseCompletion_proofs`**: `TypeCorrect`, `CertificatesAreEarned`, `LockIssuesOnce`,
  `CompletionStaysRecorded`, `FinishedStaysKept`, `Implements`. Modules come and go, so what a request has counted
  is not what is completed when it commits: `UpdateIsSound` says that it has counted only modules that have been
  completed or that it completes, and that its verdict is right for these; `OthersAreSound` the same of
  submissions, heartbeats and enrolments; `RecordsAreEarned` that a finished row and a certificate request rest
  on enough of them; `LockIsHeld` that a request which will write the row holds it, so that at most one of
  them is about to insert a certificate. `CommitKeeps` is the one lemma about what a commit does to a status
  while others' requests lie between its read and its write. The refinement maps each step to one answer of
  the abstract record or to a stutter; the last leaf combines it with the temporal rules only.
- **`TaskWorkflow_proofs`**: `TypeCorrect`, `VerdictsStayOnLatestWork`, `UnjudgedStaysVisible`,
  `ScoresStayCurrent`, `TasksFollow`, `CirclesNeedALateLock`. `WorkIsApart` and `TimesDiffer` keep submissions of different
  assignments and times apart; `ResultIsRight` says that the request which has computed a completion
  holds the learner and that nobody else changes it meanwhile without an entry in `unscored`. A second
  invariant, `LockInv`, says which locks and shares a request holds at each phase. Its `Level` is its highest
  lock in the order assignment, learner, task (0 for none). `WaitsClimb`: a request that is not one of the three late
  ones waits only for one of a higher level; so a set of requests that all wait within it has a late one
  in it, whatever the numbers of requests, tasks and learners.
- **`Enrollment_proofs`**: `TypeCorrect`, `ReportsAreKept`, `CountsAreExplained`,
  `FirstEnrolmentsAreSingle`, `Implements`. The invariant speaks of every transaction and of its savepoint alike:
  accounts belong to one transaction (`AccountsAreApart`), counters never run ahead of the rows
  (`CountsAreBounded`), what has been told is committed or in the savepoint (`ToldIsWritten`). The
  refinement needs the converse too, `RosterInv`: what a transaction holds is told or of the row at hand
  (`WrittenIsTold`), and its accounts come with an enrolment (`MadeIsEnrolled`).
- **`QuizExecution_proofs`**: `TypeCorrect`, `LimitStaysKept`, `ResultStaysBest`, `GradesStayMatched`. An
  attempt never becomes open again and an open one has no grades (`OpenIsBlank`), so whoever writes
  over an open attempt has read it blank (`ReadsBlank`) and everybody else is in a history;
  `AskedIsCounted` carries the limit from the question to the count.
- **`EditLock_proofs`**: `TypeCorrect`, `LeftoversStayExplained`, `OverwritesStayExplained`, `OverwritesNeedAnExcuse`.
  `HoldFollowsOwner` and `BaseFollowsOwner` tie the history to the owner of the row;
  `LocalHasOthers` and `PayloadHasOthers` say that a page that has kept the lock, and the save it
  has started, contain what others saved. The action property follows from the last one.
  `OverwritesNeedAnExcuse` is about `FencedSpec`, the behaviours in which no save commits after its user had
  been without the lock (since the page loaded its blocks, or since the server's check): there no save
  replaces another user's edit at all, although locks still expire, are taken over and are acquired again. So
  the listed saves are what a fence would have to refuse, and edits that come back are no third cause.

**One request at a time.** Most promises above are made up to a history: `overtaken`, `overwritten`, `twice`
and the like, which name what the code lets happen. A reader will ask which of them are races and
which a single request can do alone. Five proof modules answer it for
`SerialSpec == Spec /\ []Alone`, the behaviours in which at most one request is between its first
statement and its answer (`Busy`; in `CourseCompletion`, where a tracking is one step, `Spec /\ [][InTurn]_vars`:
none begins while one is open); requests and rows may still fail anywhere, grades change and time run
out. Each `SerialInv` says that what the open request has read is what is there, and that the
histories of races are empty.

| Module | Theorem | What remains without overlap |
|---|---|---|
| `AssignmentSubmission` | `SerialReviewedIsFrozen`, `SerialStorageFollowsRow` | nothing of the finding; a file is missing only where a request failed after removing it |
| `CourseCompletion` | `SerialIsExact`, `SerialOvertakesNobody`, `SerialFinishedIsKept` | one row, one certificate, nobody is overtaken; a finished row leaves its status only when too few modules are left, and disagrees with the modules only before the first update and after the player's tracking, until the next one |
| `TaskWorkflow` | `SerialIsExact` | status and work part only where an admin has overwritten the assignment; the completion is out of date only after the handlers that do not compute it (start, mark, patch); task and assignment never part |
| `Enrollment` | `SerialIsExact` | nothing: one row per learner and course, exact counters, every report kept |
| `QuizExecution` | `SerialIsExact` | grades of attempts that an administrator has graded by hand |

`SerialSpec` is not a claim about the code, which does not serialise requests: the theorems say what
running these handlers one after the other would buy. `TaskGeneration` has no such part, since its
exceptions are faults and not overlaps; that of `EditLock` is `OverwritesNeedAnExcuse`.
`CoursePublishing` has none because its promises have no exceptions.

Not run, because a refinement that is run implies them, and proved all the same: `PublishedInOrder`,
`PinIsPublished`, `PinIsFresh` (from `ImplementsCatalog`), `CertificateIsEarned` (from `ImplementsIssuance`).

Only model-checked: all liveness (`DeliveredJobCovers`, `PendingIsHandled`, `LoserLearns`), which
TLAPS cannot do under fairness, and the violations of section 8, which are single behaviours.

## 8. Where code and documentation disagree

Each of the first two is a run that is expected to fail; TLC's trace is the scenario.

1. `task_queue_deployed`: the compose file's worker consumes four queues and not `tasks`, to which
   `celery_app.py` routes all task distribution; a global task stays `pending`.
2. `assignment_frozen`: submit refuses to change a reviewed submission, with a check that is
   older than the upload it waits for; the approved row keeps its status over new content.

The others were met while modelling. The models contain the behaviour, and the properties name it
among their exceptions or leave it out.

- *Task distribution.* The enrolment job is for "a new learner", but only the manual route sends it;
  uploads and accepted invitations do not (an explained gap of `GapIsExplained`).
- *Publishing.* A version published by the older authoring route has no snapshot, so a learner pinned
  to it is served the live draft, although a pinned learner "MUST remain on V1"
  (`tests/test_phase_c_audit.py:358`). The model stores such a version with snapshot 0.
- *Edit lock.* The "atomic" upsert of the lock (`builder_repo.py:71`) has no condition, so the second of two
  users who saw the course free takes a live lock over; the editor's message about a newer copy on the
  server has no answer of the server behind it. `OverwritesAreExplained` lists what follows.
- *Completion.* A submission asks no completion policy before it issues the certificate
  (`resume.py:235`; `tests/test_certificate_runtime.py:178` expects a denial on the other route), and a
  course without modules can be submitted. `pending_grade` is not evaluated again when the grade
  arrives. With two progress rows the eligibility look-up raises, and the update that completes the
  last module is rolled back every time.
  An update writes whatever status it is sent (`progress.py:83`) and keeps the certificate of a course that it
  takes back to *in progress*.
- *Task workflow.* A review names no learner: of a global task only the assignment with the lowest id
  can be judged. The lock of the learner "prevents concurrent recomputations" (`pal_score_service.py:101`), and
  with the task's lock, taken before it by a review and after it by a submission, it also makes these
  deadlock (`CirclesHaveALateLock`); nothing in the code tries again.
- *Enrolment.* "Failure for one learner never affects another learner" (`bulk_enrollment_service.py:127`):
  an IntegrityError in one row rolls back the whole session and with it the rows already counted. An
  invitation stores course ids that nothing reads when it is accepted.
- *Quiz.* The lock on the quiz row prevents no race: open attempts do not count, so a learner may
  open any number of attempts first and hand in all of them. A manual grade marks any attempt
  graded, whatever else waits (`quiz_grading.py:59`: "Check if attempt is fully graded"), and changes
  neither the total nor the gradebook. The system's grades refer to a user `system`
  that only the tests create (`tests/test_quiz_engine.py:85`); without it every submission with a question
  the system can grade fails, which is the instance `SystemUser = FALSE`. `list_pending` reads a
  column that `QuizAttempt` does not have. Quiz ids and block ids share the key space of grade items,
  and their percentages have different scales (0 to 1, 0 to 100).

## 9. What is not modelled

Section 1 lists every part; those without a module in section 3 stay out because they are rendering,
configuration, input and output, CRUD over single rows, or code that nothing calls (`components` in
`PROJECT.json` gives the reason for each). Authentication, sessions and rate limits are cryptography,
clocks and HTTP; what a caller may do is an input of the models. Row-level security is enforced by the
database; that the workers set no tenant before they read (so under a role without BYPASSRLS they would
see no rows) is a matter of deployment and outside `TaskGeneration`.

Of the modelled parts: overlapping saves of one editor page (item 9 of the plan), the older quiz
submission route, learning sessions and block progress, several rows of one module, deletion of modules and
questions of a snapshot, three of the four PAL metrics, and the
e-mails, notifications and audit rows that most requests also write. Where a hazard has no property, its
note in `PROJECT.json` says why.
