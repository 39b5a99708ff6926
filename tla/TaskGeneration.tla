--------------------------- MODULE TaskGeneration ---------------------------
(***************************************************************************)
(* How an organisation's global tasks (assignment_scope = "all") reach its *)
(* learners.  The API commits a task and then dispatches a Celery job; the *)
(* job marks the task in progress, reads the active learners and inserts   *)
(* one assignment row per learner in batches, each batch in a transaction  *)
(* of its own.  A manual enrolment commits a learner and then dispatches a *)
(* job that gives the new learner every global task.  Neither side locks   *)
(* the other out: a learner may enrol while a task is being generated.     *)
(*                                                                         *)
(* One action is one committed transaction or one broker operation.  The   *)
(* broker redelivers (acks_late, reject_on_worker_lost), so a job may run  *)
(* twice, also at the same time.                                           *)
(***************************************************************************)
EXTENDS Naturals, FiniteSets

CONSTANTS
    Tasks,          \* task ids the API may hand out (uuid based, never reused)
    Learners,       \* learner accounts of the organisation
    Slots,          \* Celery worker processes (--concurrency)
    ConsumedQueues, \* queues named on the worker's command line
    BatchSize,      \* TASK_ASSIGNMENT_BATCH_SIZE
    BulkRetries,    \* max_retries of generate_bulk_assignments
    HookRetries,    \* max_retries of the enrolment hook and of the backfill
    MaxCalls,       \* bound: API calls of administrators, learners and operators
    MaxFaults       \* bound: crashes, database errors, redeliveries, lost dispatches

ASSUME BatchSizeAssumption == BatchSize \in Nat \ {0}
ASSUME RetriesAssumption == BulkRetries \in Nat /\ HookRetries \in Nat
ASSUME BoundsAssumption == MaxCalls \in Nat /\ MaxFaults \in Nat

VARIABLES
    scope,     \* tasks.assignment_scope; "absent" before the insert, "deleted" after the delete
    gen,       \* tasks.assignment_generation_status
    account,   \* users.enrollment_type of a learner; "absent": no row, "invited": NULL
    active,    \* learners with users.is_active
    rows,      \* committed task_assignments, as <<task, learner>>
    owed,      \* messages whose transaction is committed and whose .delay() is still to come
    queue,     \* messages in the "tasks" queue (identical waiting messages count once)
    job,       \* the message a worker process holds, unacknowledged
    phase,     \* how far that process has come
    ids,       \* the list the job has read: learner_ids, global_tasks or the backfill's tasks
    todo,      \* the part of ids that is still to be inserted or dispatched
    droppedTasks,    \* history: tasks no bulk job was delivered for, or whose job gave up
    droppedLearners, \* history: learners who became active without an enrolment job
    calls,     \* API calls so far
    faults     \* faults so far

api == <<scope, gen, account, active, rows>>
worker == <<job, phase, ids, todo>>
dropped == <<droppedTasks, droppedLearners>>
vars == <<scope, gen, account, active, rows, owed, queue, job, phase, ids, todo,
          droppedTasks, droppedLearners, calls, faults>>

Exists(t) == scope[t] \in {"individual", "all"}
GlobalTasks == {t \in Tasks : scope[t] = "all"}

BulkMessages == [kind : {"bulk"}, key : Tasks, retries : 0..BulkRetries]
HookMessages == [kind : {"hook"}, key : Learners, retries : 0..HookRetries]
BackfillMessages == [kind : {"backfill"}, key : {"every"}, retries : 0..HookRetries]
Messages == BulkMessages \cup HookMessages \cup BackfillMessages

Bulk(t) == [kind |-> "bulk", key |-> t, retries |-> 0]
Hook(l) == [kind |-> "hook", key |-> l, retries |-> 0]
Backfill == [kind |-> "backfill", key |-> "every", retries |-> 0]
NoJob == [kind |-> "none", key |-> "none", retries |-> 0]

\* Mutant: one retry more than max_retries.
RetryLimitPlusOne(m) == (IF m.kind = "bulk" THEN BulkRetries ELSE HookRetries) + 1

Again(m) == [kind |-> m.kind, key |-> m.key, retries |-> m.retries + 1]

RetryLimit(m) == IF m.kind = "bulk" THEN BulkRetries ELSE HookRetries

Phases == {"idle", "start", "read", "work", "error", "retry"}

Init ==
    /\ scope = [t \in Tasks |-> "absent"]
    /\ gen = [t \in Tasks |-> "completed"]
    /\ account = [l \in Learners |-> "absent"]
    /\ active = {}
    /\ rows = {}
    /\ owed = {}
    /\ queue = {}
    /\ job = [s \in Slots |-> NoJob]
    /\ phase = [s \in Slots |-> "idle"]
    /\ ids = [s \in Slots |-> {}]
    /\ todo = [s \in Slots |-> {}]
    /\ droppedTasks = {}
    /\ droppedLearners = {}
    /\ calls = 0
    /\ faults = 0

Call ==
    /\ calls < MaxCalls
    /\ calls' = calls + 1

Fault ==
    /\ faults < MaxFaults
    /\ faults' = faults + 1

-----------------------------------------------------------------------------
(* The API process.                                                        *)

\* post_task, scope "all": the commit leaves the dispatch to be done.
PostGlobalTask(t) ==
    /\ Call
    /\ scope[t] = "absent"
    /\ scope' = [scope EXCEPT ![t] = "all"]
    /\ gen' = [gen EXCEPT ![t] = "pending"]
    /\ owed' = owed \cup {Bulk(t)}
    /\ UNCHANGED <<account, active, rows, queue, worker, dropped, faults>>

\* post_task, scope "individual": the row is inserted in the same transaction,
\* for any learner account, active or not.
PostIndividualTask(t, l) ==
    /\ Call
    /\ scope[t] = "absent"
    /\ account[l] # "absent"
    /\ scope' = [scope EXCEPT ![t] = "individual"]
    /\ rows' = rows \cup {<<t, l>>}
    /\ UNCHANGED <<gen, account, active, owed, queue, worker, dropped, faults>>

\* patch_task overwrites assignment_scope with the body's and generates nothing.
PatchScope(t, sc) ==
    /\ Call
    /\ Exists(t)
    /\ scope[t] # sc
    /\ scope' = [scope EXCEPT ![t] = sc]
    /\ droppedTasks' = IF sc = "all" THEN droppedTasks \cup {t} ELSE droppedTasks
    /\ UNCHANGED <<gen, account, active, rows, owed, queue, worker, droppedLearners, faults>>

\* remove_task: the rows go with the task (ON DELETE CASCADE).
DeleteTask(t) ==
    /\ Call
    /\ Exists(t)
    /\ scope' = [scope EXCEPT ![t] = "deleted"]
    /\ rows' = {r \in rows : r[1] # t}
    /\ UNCHANGED <<gen, account, active, owed, queue, worker, dropped, faults>>

\* start_task and submit_task_work insert a missing row of a global task; when
\* the worker was faster the insert fails on the unique constraint (HTTP 500).
LazyCreate(t, l) ==
    /\ Call
    /\ scope[t] = "all"
    /\ l \in active
    /\ <<t, l>> \notin rows
    /\ rows' = rows \cup {<<t, l>>}
    /\ UNCHANGED <<scope, gen, account, active, owed, queue, worker, dropped, faults>>

\* enrollment_type is written only where it is still empty.
Enrolled(L, type) ==
    account' = [l \in Learners |->
        IF l \in L /\ account[l] \in {"absent", "invited"} THEN type ELSE account[l]]

\* manual_enrollment provisions or reactivates the learner, commits, and owes
\* the enrolment job.
ManualEnroll(l) ==
    /\ Call
    /\ Enrolled({l}, "manual")
    /\ active' = active \cup {l}
    /\ owed' = owed \cup {Hook(l)}
    /\ UNCHANGED <<scope, gen, rows, queue, worker, dropped, faults>>

\* bulk_enroll_execute: the whole upload commits with the request and no
\* enrolment job is dispatched.
BulkEnroll(L) ==
    /\ Call
    /\ Enrolled(L, "bulk")
    /\ active' = active \cup L
    /\ droppedLearners' = droppedLearners \cup (L \ active)
    /\ UNCHANGED <<scope, gen, rows, owed, queue, worker, droppedTasks, faults>>

\* accept_invitation creates an active account; no job is dispatched.
AcceptInvitation(l) ==
    /\ Call
    /\ account[l] = "absent"
    /\ account' = [account EXCEPT ![l] = "invited"]
    /\ active' = active \cup {l}
    /\ droppedLearners' = droppedLearners \cup {l}
    /\ UNCHANGED <<scope, gen, rows, owed, queue, worker, droppedTasks, faults>>

\* api_update_admin_status takes any user id, both ways; no job is dispatched.
Suspend(l) ==
    /\ Call
    /\ l \in active
    /\ active' = active \ {l}
    /\ UNCHANGED <<scope, gen, account, rows, owed, queue, worker, dropped, faults>>

Reactivate(l) ==
    /\ Call
    /\ account[l] # "absent"
    /\ l \notin active
    /\ active' = active \cup {l}
    /\ droppedLearners' = droppedLearners \cup {l}
    /\ UNCHANGED <<scope, gen, account, rows, owed, queue, worker, droppedTasks, faults>>

\* The .delay() after the commit.
Dispatch(m) ==
    /\ m \in owed
    /\ owed' = owed \ {m}
    /\ queue' = queue \cup {m}
    /\ UNCHANGED <<api, worker, dropped, faults, calls>>

Drop(m) ==
    /\ droppedTasks' = IF m.kind = "bulk" THEN droppedTasks \cup {m.key} ELSE droppedTasks
    /\ droppedLearners' = IF m.kind = "hook" THEN droppedLearners \cup {m.key} ELSE droppedLearners

\* The process dies between commit and .delay(), or the broker is down.
LoseDispatch(m) ==
    /\ m \in owed
    /\ owed' = owed \ {m}
    /\ Drop(m)
    /\ Fault
    /\ UNCHANGED <<api, queue, worker, calls>>

\* An operator starts the one-shot backfill.
RequestBackfill ==
    /\ Call
    /\ Backfill \notin queue
    /\ queue' = queue \cup {Backfill}
    /\ UNCHANGED <<api, owed, worker, dropped, faults>>

-----------------------------------------------------------------------------
(* The Celery worker processes.                                            *)

GoTo(s, p) == phase' = [phase EXCEPT ![s] = p]

\* The message is acknowledged and the process takes the next one.
Release(s) ==
    /\ job' = [job EXCEPT ![s] = NoJob]
    /\ phase' = [phase EXCEPT ![s] = "idle"]
    /\ ids' = [ids EXCEPT ![s] = {}]
    /\ todo' = [todo EXCEPT ![s] = {}]

\* task_routes sends every job of this module to the queue "tasks".
Take(s, m) ==
    /\ "tasks" \in ConsumedQueues
    /\ phase[s] = "idle"
    /\ m \in queue
    /\ queue' = queue \ {m}
    /\ job' = [job EXCEPT ![s] = m]
    /\ GoTo(s, "start")
    /\ UNCHANGED <<api, owed, ids, todo, dropped, faults, calls>>

Running(s, kind, p) == job[s].kind = kind /\ phase[s] = p

\* The first transaction of generate_bulk_assignments.
BulkMark(s) ==
    /\ Running(s, "bulk", "start")
    /\ IF Exists(job[s].key)
         THEN /\ gen' = [gen EXCEPT ![job[s].key] = "in_progress"]
              /\ GoTo(s, "read")
              /\ UNCHANGED <<job, ids, todo>>
         ELSE Release(s) /\ UNCHANGED gen
    /\ UNCHANGED <<scope, account, active, rows, owed, queue, dropped, faults, calls>>

\* Mutant: the batch loop starts one batch too late.
BulkReadSkipsBatch(s) ==
    /\ Running(s, "bulk", "read")
    /\ ids' = [ids EXCEPT ![s] = active]
    /\ \E B \in SUBSET active : Cardinality(B) <= BatchSize /\ todo' = [todo EXCEPT ![s] = active \ B]
    /\ GoTo(s, "work")
    /\ UNCHANGED <<api, job, owed, queue, dropped, faults, calls>>

\* The second transaction: the active learners of this moment.
BulkRead(s) ==
    /\ Running(s, "bulk", "read")
    /\ ids' = [ids EXCEPT ![s] = active]
    /\ todo' = [todo EXCEPT ![s] = active]
    /\ GoTo(s, "work")
    /\ UNCHANGED <<api, job, owed, queue, dropped, faults, calls>>

Batches(S) ==
    {B \in SUBSET S : B # {} /\ Cardinality(B) <= BatchSize
                      /\ (Cardinality(B) < BatchSize => B = S)}

\* One batch, INSERT ... ON CONFLICT DO NOTHING; a deleted task breaks the
\* foreign key and with it the whole batch.
BulkInsert(s) ==
    /\ Running(s, "bulk", "work")
    /\ \E B \in Batches(todo[s]) :
         IF Exists(job[s].key)
           THEN /\ rows' = rows \cup ({job[s].key} \X B)
                /\ todo' = [todo EXCEPT ![s] = @ \ B]
                /\ UNCHANGED phase
           ELSE GoTo(s, "error") /\ UNCHANGED <<rows, todo>>
    /\ UNCHANGED <<scope, gen, account, active, owed, queue, job, ids, dropped, faults, calls>>

\* The last transaction, also when there was no learner to begin with.
BulkFinish(s) ==
    /\ Running(s, "bulk", "work")
    /\ todo[s] = {}
    /\ gen' = IF Exists(job[s].key) THEN [gen EXCEPT ![job[s].key] = "completed"] ELSE gen
    /\ Release(s)
    /\ UNCHANGED <<scope, account, active, rows, owed, queue, dropped, faults, calls>>

\* Mutant: the except branch returns after marking the task, without self.retry.
BulkMarkFailedOnly(s) ==
    /\ Running(s, "bulk", "error")
    /\ gen' = IF Exists(job[s].key) THEN [gen EXCEPT ![job[s].key] = "failed"] ELSE gen
    /\ Release(s)
    /\ UNCHANGED <<scope, account, active, rows, owed, queue, dropped, faults, calls>>

\* The except branch marks the task failed; that may itself fail, and is then
\* only logged.
BulkMarkFailed(s) ==
    /\ Running(s, "bulk", "error")
    /\ \/ gen' = (IF Exists(job[s].key) THEN [gen EXCEPT ![job[s].key] = "failed"] ELSE gen)
          /\ UNCHANGED faults
       \/ Fault /\ UNCHANGED gen
    /\ GoTo(s, "retry")
    /\ UNCHANGED <<scope, account, active, rows, owed, queue, job, ids, todo, dropped, calls>>

\* Mutant: the status filter the comment in the enrolment job says was removed.
HookReadCompletedOnly(s) ==
    /\ Running(s, "hook", "start")
    /\ LET ready == {t \in GlobalTasks : gen[t] = "completed"}
       IN  IF ready = {}
             THEN Release(s)
             ELSE /\ ids' = [ids EXCEPT ![s] = ready]
                  /\ todo' = [todo EXCEPT ![s] = ready]
                  /\ GoTo(s, "work")
                  /\ UNCHANGED job
    /\ UNCHANGED <<api, owed, queue, dropped, faults, calls>>

\* generate_enrollment_assignments reads every global task, whatever its
\* generation status.
HookRead(s) ==
    /\ Running(s, "hook", "start")
    /\ IF GlobalTasks = {}
         THEN Release(s)
         ELSE /\ ids' = [ids EXCEPT ![s] = GlobalTasks]
              /\ todo' = [todo EXCEPT ![s] = GlobalTasks]
              /\ GoTo(s, "work")
              /\ UNCHANGED job
    /\ UNCHANGED <<api, owed, queue, dropped, faults, calls>>

\* All rows in one statement: one task deleted meanwhile fails them all.
HookInsert(s) ==
    /\ Running(s, "hook", "work")
    /\ IF \A t \in todo[s] : Exists(t)
         THEN rows' = rows \cup (todo[s] \X {job[s].key}) /\ Release(s)
         ELSE GoTo(s, "retry") /\ UNCHANGED <<rows, job, ids, todo>>
    /\ UNCHANGED <<scope, gen, account, active, owed, queue, dropped, faults, calls>>

BackfillRead(s) ==
    /\ Running(s, "backfill", "start")
    /\ ids' = [ids EXCEPT ![s] = GlobalTasks]
    /\ todo' = [todo EXCEPT ![s] = GlobalTasks]
    /\ GoTo(s, "work")
    /\ UNCHANGED <<api, job, owed, queue, dropped, faults, calls>>

\* One .delay() per task.
BackfillSend(s, t) ==
    /\ Running(s, "backfill", "work")
    /\ t \in todo[s]
    /\ queue' = queue \cup {Bulk(t)}
    /\ todo' = [todo EXCEPT ![s] = @ \ {t}]
    /\ droppedTasks' = droppedTasks \ {t}
    /\ UNCHANGED <<api, owed, job, phase, ids, droppedLearners, faults, calls>>

BackfillFinish(s) ==
    /\ Running(s, "backfill", "work")
    /\ todo[s] = {}
    /\ Release(s)
    /\ UNCHANGED <<api, owed, queue, dropped, faults, calls>>

\* self.retry: a new message with one more retry, or the exception for good.
Retry(s) ==
    /\ phase[s] = "retry"
    /\ IF job[s].retries < RetryLimit(job[s])
         THEN /\ queue' = queue \cup {Again(job[s])}
              /\ UNCHANGED dropped
         ELSE Drop(job[s]) /\ UNCHANGED queue
    /\ Release(s)
    /\ UNCHANGED <<api, owed, faults, calls>>

\* A database or broker error in any transaction of a job: rolled back.
JobError(s) ==
    /\ phase[s] \in {"start", "read", "work"}
    /\ Fault
    /\ GoTo(s, IF job[s].kind = "bulk" THEN "error" ELSE "retry")
    /\ UNCHANGED <<api, owed, queue, job, ids, todo, dropped, calls>>

\* Mutant: the message is acknowledged when it is taken (no acks_late).
CrashLosesMessage(s) ==
    /\ phase[s] # "idle"
    /\ Release(s)
    /\ Fault
    /\ UNCHANGED <<api, owed, queue, dropped, calls>>

\* The worker process dies: the unacknowledged message is delivered again.
Crash(s) ==
    /\ phase[s] # "idle"
    /\ queue' = queue \cup {job[s]}
    /\ Release(s)
    /\ Fault
    /\ UNCHANGED <<api, owed, dropped, calls>>

\* The visibility timeout ends before the job does: a second delivery.
Redeliver(s) ==
    /\ phase[s] # "idle"
    /\ queue' = queue \cup {job[s]}
    /\ Fault
    /\ UNCHANGED <<api, owed, worker, dropped, calls>>

-----------------------------------------------------------------------------
Work(s) ==
    \/ BulkMark(s) \/ BulkRead(s) \/ BulkInsert(s) \/ BulkFinish(s) \/ BulkMarkFailed(s)
    \/ HookRead(s) \/ HookInsert(s)
    \/ BackfillRead(s) \/ BackfillFinish(s) \/ \E t \in Tasks : BackfillSend(s, t)
    \/ Retry(s)

Next ==
    \/ \E t \in Tasks :
         \/ PostGlobalTask(t)
         \/ \E l \in Learners : PostIndividualTask(t, l) \/ LazyCreate(t, l)
         \/ \E sc \in {"individual", "all"} : PatchScope(t, sc)
         \/ DeleteTask(t)
    \/ \E l \in Learners :
         ManualEnroll(l) \/ AcceptInvitation(l) \/ Suspend(l) \/ Reactivate(l)
    \/ \E L \in SUBSET Learners : BulkEnroll(L)
    \/ \E m \in Messages : Dispatch(m) \/ LoseDispatch(m)
    \/ RequestBackfill
    \/ \E s \in Slots :
         \/ \E m \in Messages : Take(s, m)
         \/ Work(s)
         \/ JobError(s) \/ Crash(s) \/ Redeliver(s)

Spec == Init /\ [][Next]_vars

\* A worker process that can run does; the broker hands out waiting messages
\* in order, so none waits for ever; an API handler returns.  Users, operators
\* and faults owe nothing.
Fairness ==
    /\ \A s \in Slots : WF_vars(Work(s))
    /\ \A m \in Messages : SF_vars(\E s \in Slots : Take(s, m)) /\ WF_vars(Dispatch(m))

FairSpec == Spec /\ Fairness

-----------------------------------------------------------------------------
TypeOK ==
    /\ scope \in [Tasks -> {"absent", "individual", "all", "deleted"}]
    /\ gen \in [Tasks -> {"pending", "in_progress", "completed", "failed"}]
    /\ account \in [Learners -> {"absent", "invited", "manual", "bulk"}]
    /\ active \subseteq Learners
    /\ rows \subseteq Tasks \X Learners
    /\ owed \subseteq Messages
    /\ queue \subseteq Messages
    /\ job \in [Slots -> Messages \cup {NoJob}]
    /\ phase \in [Slots -> Phases]
    /\ ids \in [Slots -> (SUBSET Learners) \cup (SUBSET Tasks)]
    /\ todo \in [Slots -> (SUBSET Learners) \cup (SUBSET Tasks)]
    /\ droppedTasks \subseteq Tasks
    /\ droppedLearners \subseteq Learners
    /\ calls \in Nat
    /\ faults \in Nat

Waits(kind, key) == \E m \in owed \cup queue : m.kind = kind /\ m.key = key

\* A bulk job for t is still going to offer learner l a row.
BulkHolds(s, t, l) ==
    /\ job[s].kind = "bulk" /\ job[s].key = t
    /\ phase[s] \in {"start", "read", "error", "retry"} \/ l \in todo[s]

BulkWillCover(t, l) == Waits("bulk", t) \/ \E s \in Slots : BulkHolds(s, t, l)

\* An enrolment job of l is still going to offer it task t.
HookHolds(s, t, l) ==
    /\ job[s].kind = "hook" /\ job[s].key = l
    /\ phase[s] \in {"start", "retry"} \/ t \in todo[s]

HookWillCover(t, l) == Waits("hook", l) \/ \E s \in Slots : HookHolds(s, t, l)

Explained(t, l) ==
    \/ <<t, l>> \in rows
    \/ BulkWillCover(t, l)
    \/ HookWillCover(t, l)
    \/ t \in droppedTasks
    \/ l \in droppedLearners

\* However enrolments, postings, retries and redeliveries interleave, an active
\* learner lacks the row of a global task only while a job that will insert it
\* is on its way, or because the code itself dropped that job (a lost dispatch,
\* exhausted retries, a scope patched to "all", an entry path without a hook).
\* This is what removing the status filter from the enrolment job is for.
GapIsExplained == \A t \in GlobalTasks, l \in active : Explained(t, l)

BulkOnItsWay(t) ==
    Waits("bulk", t) \/ \E s \in Slots : job[s].kind = "bulk" /\ job[s].key = t

\* A task that is not "completed" has a bulk job on its way, or lost it: the
\* status never asks an administrator to wait for a job that finished.
UnfinishedHasJob ==
    \A t \in Tasks :
        Exists(t) /\ gen[t] # "completed" => BulkOnItsWay(t) \/ t \in droppedTasks

\* A task turns "completed" only when every learner its job had read holds a
\* row, also after a crash in the middle of the batches and a second run.
CompletionIsHonest ==
    [][\A t \in Tasks :
         gen[t] # "completed" /\ gen'[t] = "completed" =>
            \E s \in Slots :
               /\ job[s].kind = "bulk" /\ job[s].key = t
               /\ {t} \X ids[s] \subseteq rows]_vars

\* What a bulk job still owes to a learner it goes on owing, through crashes, second
\* deliveries and retries, until the learner has the row or the job is dropped; a
\* row that somebody else inserts or a job that ends early takes nothing away.
OwedUntilCovered ==
    [][\A t \in GlobalTasks \cap GlobalTasks', l \in active \cap active' :
         BulkWillCover(t, l) =>
            \/ BulkWillCover(t, l)'
            \/ <<t, l>> \in rows'
            \/ t \in droppedTasks']_vars

\* A delivered bulk job ends with the learner holding the row, whatever
\* crashes and errors come, unless the task or the learner leaves first or the
\* retries run out.
DeliveredJobCovers ==
    \A t \in Tasks, l \in Learners :
        (Bulk(t) \in queue /\ scope[t] = "all" /\ l \in active)
            ~> (<<t, l>> \in rows \/ scope[t] # "all" \/ l \notin active \/ t \in droppedTasks)

\* What the comment in post_task says of a pending task: "Celery will handle
\* bulk creation", so a dispatched task does not stay pending.
PendingIsHandled ==
    \A t \in Tasks :
        (gen[t] = "pending" /\ Exists(t))
            ~> (gen[t] # "pending" \/ ~Exists(t) \/ t \in droppedTasks)
=============================================================================
