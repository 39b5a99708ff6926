----------------------- MODULE TaskGeneration_proofs -----------------------
(***************************************************************************)
(* Proofs about TaskGeneration, for any tasks, learners, worker processes, *)
(* batch size, retry limits and number of faults.                          *)
(***************************************************************************)
EXTENDS TaskGeneration, TLAPS

\* A worker process holds a message exactly while it is busy, and the list it
\* has read is of the right sort.
JobsWellFormed ==
    \A s \in Slots :
        /\ phase[s] = "idle" => job[s] = NoJob /\ ids[s] = {} /\ todo[s] = {}
        /\ phase[s] # "idle" => job[s] \in Messages
        /\ job[s].kind = "bulk" => ids[s] \subseteq Learners /\ todo[s] \subseteq Learners
        /\ job[s].kind \in {"hook", "backfill"} => ids[s] \subseteq Tasks /\ todo[s] \subseteq Tasks

\* A task id not handed out yet is in no message and in no list.
UnbornIsUnknown ==
    \A t \in Tasks : scope[t] = "absent" =>
        /\ gen[t] = "completed"
        /\ \A m \in owed \cup queue : m.kind = "bulk" => m.key # t
        /\ \A s \in Slots : job[s].kind = "bulk" => job[s].key # t
        /\ \A s \in Slots : job[s].kind = "backfill" => t \notin todo[s]

\* What a bulk job has taken off its list is in the table.
InsertedSoFar ==
    \A s \in Slots :
        job[s].kind = "bulk" /\ phase[s] = "work" /\ Exists(job[s].key) =>
            \A l \in ids[s] \ todo[s] : <<job[s].key, l>> \in rows

IInv == TypeOK /\ JobsWellFormed /\ UnbornIsUnknown /\ InsertedSoFar /\ GapIsExplained /\ UnfinishedHasJob

\* The fields of a fresh and of a retried message.
LEMMA MessageFields ==
    /\ \A t : Bulk(t).kind = "bulk" /\ Bulk(t).key = t
    /\ \A l : Hook(l).kind = "hook" /\ Hook(l).key = l
    /\ \A m : Again(m).kind = m.kind /\ Again(m).key = m.key
  BY DEF Bulk, Hook, Again

\* Every step keeps the types.
LEMMA TypeStep == TypeOK /\ JobsWellFormed /\ [Next]_vars => TypeOK'
<1> USE RetriesAssumption DEF TypeOK, JobsWellFormed, Phases, Call, Fault, api, worker, dropped, Messages, BulkMessages, HookMessages, BackfillMessages, NoJob
<1> SUFFICES ASSUME TypeOK, JobsWellFormed, [Next]_vars PROVE TypeOK'
  OBVIOUS
<1>1. ASSUME NEW t \in Tasks, PostGlobalTask(t) PROVE TypeOK'
  BY <1>1 DEF PostGlobalTask, Bulk
<1>2. ASSUME NEW t \in Tasks, NEW l \in Learners, PostIndividualTask(t, l) PROVE TypeOK'
  BY <1>2 DEF PostIndividualTask
<1>3. ASSUME NEW t \in Tasks, NEW l \in Learners, LazyCreate(t, l) PROVE TypeOK'
  BY <1>3 DEF LazyCreate
<1>4. ASSUME NEW t \in Tasks, NEW sc \in {"individual", "all"}, PatchScope(t, sc) PROVE TypeOK'
  BY <1>4 DEF PatchScope, Exists
<1>5. ASSUME NEW t \in Tasks, DeleteTask(t) PROVE TypeOK'
  BY <1>5 DEF DeleteTask, Exists
<1>6. ASSUME NEW l \in Learners, ManualEnroll(l) PROVE TypeOK'
  BY <1>6 DEF ManualEnroll, Hook, Enrolled
<1>7. ASSUME NEW l \in Learners, AcceptInvitation(l) PROVE TypeOK'
  BY <1>7 DEF AcceptInvitation
<1>8. ASSUME NEW l \in Learners, Suspend(l) PROVE TypeOK'
  BY <1>8 DEF Suspend
<1>9. ASSUME NEW l \in Learners, Reactivate(l) PROVE TypeOK'
  BY <1>9 DEF Reactivate
<1>10. ASSUME NEW L \in SUBSET Learners, BulkEnroll(L) PROVE TypeOK'
  BY <1>10 DEF BulkEnroll, Enrolled
<1>11. ASSUME NEW m \in Messages, Dispatch(m) PROVE TypeOK'
  BY <1>11 DEF Dispatch
<1>12. ASSUME NEW m \in Messages, LoseDispatch(m) PROVE TypeOK'
  BY <1>12 DEF LoseDispatch, Drop
<1>13. ASSUME RequestBackfill PROVE TypeOK'
  BY <1>13 DEF RequestBackfill, Backfill
<1>14. ASSUME NEW s \in Slots, NEW m \in Messages, Take(s, m) PROVE TypeOK'
  BY <1>14 DEF Take, GoTo
<1>15. ASSUME NEW s \in Slots, BulkMark(s) PROVE TypeOK'
  <2>1. gen' \in [Tasks -> {"pending", "in_progress", "completed", "failed"}]
    BY <1>15 DEF BulkMark
  <2>2. job' \in [Slots -> Messages \cup {NoJob}] /\ phase' \in [Slots -> Phases]
    BY <1>15 DEF BulkMark, GoTo, Release
  <2>3. /\ ids' \in [Slots -> (SUBSET Learners) \cup (SUBSET Tasks)]
        /\ todo' \in [Slots -> (SUBSET Learners) \cup (SUBSET Tasks)]
    BY <1>15 DEF BulkMark, Release
  <2> QED
    BY <1>15, <2>1, <2>2, <2>3 DEF BulkMark
<1>16. ASSUME NEW s \in Slots, BulkRead(s) PROVE TypeOK'
  BY <1>16 DEF BulkRead, Running, GoTo
<1>17. ASSUME NEW s \in Slots, BulkInsert(s) PROVE TypeOK'
  BY <1>17 DEF BulkInsert, Running, GoTo, Batches, Exists
<1>18. ASSUME NEW s \in Slots, BulkFinish(s) PROVE TypeOK'
  BY <1>18 DEF BulkFinish, Running, Release, Exists
<1>19. ASSUME NEW s \in Slots, BulkMarkFailed(s) PROVE TypeOK'
  BY <1>19 DEF BulkMarkFailed, Running, GoTo, Exists
<1>20. ASSUME NEW s \in Slots, HookRead(s) PROVE TypeOK'
  <2>1. CASE GlobalTasks = {}
    BY <1>20, <2>1 DEF HookRead, Running, GoTo, Release, GlobalTasks
  <2>2. CASE ~(GlobalTasks = {})
    BY <1>20, <2>2 DEF HookRead, Running, GoTo, Release, GlobalTasks
  <2> QED
    BY <2>1, <2>2
<1>21. ASSUME NEW s \in Slots, HookInsert(s) PROVE TypeOK'
  <2>1. rows' \subseteq Tasks \X Learners
    BY <1>21 DEF HookInsert, Running
  <2>2. job' \in [Slots -> Messages \cup {NoJob}] /\ phase' \in [Slots -> Phases]
    BY <1>21 DEF HookInsert, GoTo, Release
  <2>3. /\ ids' \in [Slots -> (SUBSET Learners) \cup (SUBSET Tasks)]
        /\ todo' \in [Slots -> (SUBSET Learners) \cup (SUBSET Tasks)]
    BY <1>21 DEF HookInsert, Release
  <2> QED
    BY <1>21, <2>1, <2>2, <2>3 DEF HookInsert
<1>22. ASSUME NEW s \in Slots, BackfillRead(s) PROVE TypeOK'
  BY <1>22 DEF BackfillRead, Running, GoTo, GlobalTasks
<1>23. ASSUME NEW s \in Slots, NEW t \in Tasks, BackfillSend(s, t) PROVE TypeOK'
  BY <1>23 DEF BackfillSend, Running, Bulk
<1>24. ASSUME NEW s \in Slots, BackfillFinish(s) PROVE TypeOK'
  BY <1>24 DEF BackfillFinish, Running, Release
<1>25. ASSUME NEW s \in Slots, Retry(s) PROVE TypeOK'
  <2>1. CASE job[s].retries < RetryLimit(job[s])
    BY <1>25, <2>1 DEF Retry, Release, Drop, RetryLimit, Again
  <2>2. CASE ~(job[s].retries < RetryLimit(job[s]))
    BY <1>25, <2>2 DEF Retry, Release, Drop, RetryLimit, Again
  <2> QED
    BY <2>1, <2>2
<1>26. ASSUME NEW s \in Slots, JobError(s) PROVE TypeOK'
  BY <1>26 DEF JobError, GoTo
<1>27. ASSUME NEW s \in Slots, Crash(s) PROVE TypeOK'
  BY <1>27 DEF Crash, Release
<1>28. ASSUME NEW s \in Slots, Redeliver(s) PROVE TypeOK'
  BY <1>28 DEF Redeliver
<1>29. CASE UNCHANGED vars
  BY <1>29 DEF vars
<1> HIDE DEF TypeOK, JobsWellFormed, Phases, Call, Fault, api, worker, dropped, Messages, BulkMessages, HookMessages, BackfillMessages, NoJob
<1> QED
  BY <1>1, <1>2, <1>3, <1>4, <1>5, <1>6, <1>7, <1>8, <1>9, <1>10, <1>11, <1>12, <1>13, <1>14, <1>15, <1>16, <1>17, <1>18, <1>19, <1>20, <1>21, <1>22, <1>23, <1>24, <1>25, <1>26, <1>27, <1>28, <1>29 DEF Next, Work

\* Every step keeps the worker processes' state well formed.
LEMMA JobsStep == TypeOK /\ JobsWellFormed /\ [Next]_vars => JobsWellFormed'
<1> USE RetriesAssumption DEF TypeOK, JobsWellFormed, Phases, Call, Fault, api, worker, dropped, Messages, BulkMessages, HookMessages, BackfillMessages, NoJob
<1> SUFFICES ASSUME TypeOK, JobsWellFormed, [Next]_vars PROVE JobsWellFormed'
  OBVIOUS
<1>1. ASSUME NEW t \in Tasks, PostGlobalTask(t) PROVE JobsWellFormed'
  BY <1>1 DEF PostGlobalTask, Bulk
<1>2. ASSUME NEW t \in Tasks, NEW l \in Learners, PostIndividualTask(t, l) PROVE JobsWellFormed'
  BY <1>2 DEF PostIndividualTask
<1>3. ASSUME NEW t \in Tasks, NEW l \in Learners, LazyCreate(t, l) PROVE JobsWellFormed'
  BY <1>3 DEF LazyCreate
<1>4. ASSUME NEW t \in Tasks, NEW sc \in {"individual", "all"}, PatchScope(t, sc) PROVE JobsWellFormed'
  BY <1>4 DEF PatchScope, Exists
<1>5. ASSUME NEW t \in Tasks, DeleteTask(t) PROVE JobsWellFormed'
  BY <1>5 DEF DeleteTask, Exists
<1>6. ASSUME NEW l \in Learners, ManualEnroll(l) PROVE JobsWellFormed'
  BY <1>6 DEF ManualEnroll, Hook, Enrolled
<1>7. ASSUME NEW l \in Learners, AcceptInvitation(l) PROVE JobsWellFormed'
  BY <1>7 DEF AcceptInvitation
<1>8. ASSUME NEW l \in Learners, Suspend(l) PROVE JobsWellFormed'
  BY <1>8 DEF Suspend
<1>9. ASSUME NEW l \in Learners, Reactivate(l) PROVE JobsWellFormed'
  BY <1>9 DEF Reactivate
<1>10. ASSUME NEW L \in SUBSET Learners, BulkEnroll(L) PROVE JobsWellFormed'
  BY <1>10 DEF BulkEnroll, Enrolled
<1>11. ASSUME NEW m \in Messages, Dispatch(m) PROVE JobsWellFormed'
  BY <1>11 DEF Dispatch
<1>12. ASSUME NEW m \in Messages, LoseDispatch(m) PROVE JobsWellFormed'
  BY <1>12 DEF LoseDispatch, Drop
<1>13. ASSUME RequestBackfill PROVE JobsWellFormed'
  BY <1>13 DEF RequestBackfill, Backfill
<1>14. ASSUME NEW s \in Slots, NEW m \in Messages, Take(s, m) PROVE JobsWellFormed'
  BY <1>14 DEF Take, GoTo
<1>15. ASSUME NEW s \in Slots, BulkMark(s) PROVE JobsWellFormed'
  BY <1>15 DEF BulkMark, Running, GoTo, Release, Exists
<1>16. ASSUME NEW s \in Slots, BulkRead(s) PROVE JobsWellFormed'
  BY <1>16 DEF BulkRead, Running, GoTo
<1>17. ASSUME NEW s \in Slots, BulkInsert(s) PROVE JobsWellFormed'
  <2>1. /\ UNCHANGED <<job, ids>>
        /\ \A s0 \in Slots : todo'[s0] \subseteq todo[s0]
        /\ phase[s] = "work" /\ \A s0 \in Slots : phase'[s0] = phase[s0] \/ (s0 = s /\ phase'[s0] = "error")
    BY <1>17 DEF BulkInsert, Running, GoTo, Batches
  <2> QED
    BY <2>1
<1>18. ASSUME NEW s \in Slots, BulkFinish(s) PROVE JobsWellFormed'
  BY <1>18 DEF BulkFinish, Running, Release, Exists
<1>19. ASSUME NEW s \in Slots, BulkMarkFailed(s) PROVE JobsWellFormed'
  BY <1>19 DEF BulkMarkFailed, Running, GoTo, Exists
<1>20. ASSUME NEW s \in Slots, HookRead(s) PROVE JobsWellFormed'
  BY <1>20 DEF HookRead, Running, GoTo, Release, GlobalTasks
<1>21. ASSUME NEW s \in Slots, HookInsert(s) PROVE JobsWellFormed'
  BY <1>21 DEF HookInsert, Running, GoTo, Release, Exists
<1>22. ASSUME NEW s \in Slots, BackfillRead(s) PROVE JobsWellFormed'
  BY <1>22 DEF BackfillRead, Running, GoTo, GlobalTasks
<1>23. ASSUME NEW s \in Slots, NEW t \in Tasks, BackfillSend(s, t) PROVE JobsWellFormed'
  BY <1>23 DEF BackfillSend, Running, Bulk
<1>24. ASSUME NEW s \in Slots, BackfillFinish(s) PROVE JobsWellFormed'
  BY <1>24 DEF BackfillFinish, Running, Release
<1>25. ASSUME NEW s \in Slots, Retry(s) PROVE JobsWellFormed'
  BY <1>25 DEF Retry, Release, Drop, RetryLimit, Again
<1>26. ASSUME NEW s \in Slots, JobError(s) PROVE JobsWellFormed'
  BY <1>26 DEF JobError, GoTo
<1>27. ASSUME NEW s \in Slots, Crash(s) PROVE JobsWellFormed'
  BY <1>27 DEF Crash, Release
<1>28. ASSUME NEW s \in Slots, Redeliver(s) PROVE JobsWellFormed'
  BY <1>28 DEF Redeliver
<1>29. CASE UNCHANGED vars
  BY <1>29 DEF vars
<1> HIDE DEF TypeOK, JobsWellFormed, Phases, Call, Fault, api, worker, dropped, Messages, BulkMessages, HookMessages, BackfillMessages, NoJob
<1> QED
  BY <1>1, <1>2, <1>3, <1>4, <1>5, <1>6, <1>7, <1>8, <1>9, <1>10, <1>11, <1>12, <1>13, <1>14, <1>15, <1>16, <1>17, <1>18, <1>19, <1>20, <1>21, <1>22, <1>23, <1>24, <1>25, <1>26, <1>27, <1>28, <1>29 DEF Next, Work

\* Every step keeps unborn tasks out of the messages.
LEMMA UnbornStep == TypeOK /\ JobsWellFormed /\ UnbornIsUnknown /\ [Next]_vars => UnbornIsUnknown'
<1> USE DEF TypeOK, JobsWellFormed, Phases, UnbornIsUnknown, Call, Fault, api, worker, dropped, Messages, BulkMessages, HookMessages, BackfillMessages, NoJob
<1> SUFFICES ASSUME TypeOK, JobsWellFormed, UnbornIsUnknown, [Next]_vars PROVE UnbornIsUnknown'
  OBVIOUS
<1>1. ASSUME NEW t \in Tasks, PostGlobalTask(t) PROVE UnbornIsUnknown'
  BY <1>1 DEF PostGlobalTask, Bulk
<1>2. ASSUME NEW t \in Tasks, NEW l \in Learners, PostIndividualTask(t, l) PROVE UnbornIsUnknown'
  BY <1>2 DEF PostIndividualTask
<1>3. ASSUME NEW t \in Tasks, NEW l \in Learners, LazyCreate(t, l) PROVE UnbornIsUnknown'
  BY <1>3 DEF LazyCreate
<1>4. ASSUME NEW t \in Tasks, NEW sc \in {"individual", "all"}, PatchScope(t, sc) PROVE UnbornIsUnknown'
  BY <1>4 DEF PatchScope, Exists
<1>5. ASSUME NEW t \in Tasks, DeleteTask(t) PROVE UnbornIsUnknown'
  BY <1>5 DEF DeleteTask, Exists
<1>6. ASSUME NEW l \in Learners, ManualEnroll(l) PROVE UnbornIsUnknown'
  BY <1>6 DEF ManualEnroll, Hook, Enrolled
<1>7. ASSUME NEW l \in Learners, AcceptInvitation(l) PROVE UnbornIsUnknown'
  BY <1>7 DEF AcceptInvitation
<1>8. ASSUME NEW l \in Learners, Suspend(l) PROVE UnbornIsUnknown'
  BY <1>8 DEF Suspend
<1>9. ASSUME NEW l \in Learners, Reactivate(l) PROVE UnbornIsUnknown'
  BY <1>9 DEF Reactivate
<1>10. ASSUME NEW L \in SUBSET Learners, BulkEnroll(L) PROVE UnbornIsUnknown'
  BY <1>10 DEF BulkEnroll, Enrolled
<1>11. ASSUME NEW m \in Messages, Dispatch(m) PROVE UnbornIsUnknown'
  BY <1>11 DEF Dispatch
<1>12. ASSUME NEW m \in Messages, LoseDispatch(m) PROVE UnbornIsUnknown'
  BY <1>12 DEF LoseDispatch, Drop
<1>13. ASSUME RequestBackfill PROVE UnbornIsUnknown'
  BY <1>13 DEF RequestBackfill, Backfill
<1>14. ASSUME NEW s \in Slots, NEW m \in Messages, Take(s, m) PROVE UnbornIsUnknown'
  BY <1>14 DEF Take, GoTo
<1>15. ASSUME NEW s \in Slots, BulkMark(s) PROVE UnbornIsUnknown'
  <2>1. CASE Exists(job[s].key)
    BY <1>15, <2>1 DEF BulkMark, Running, GoTo, Release, Exists
  <2>2. CASE ~(Exists(job[s].key))
    BY <1>15, <2>2 DEF BulkMark, Running, GoTo, Release, Exists
  <2> QED
    BY <2>1, <2>2
<1>16. ASSUME NEW s \in Slots, BulkRead(s) PROVE UnbornIsUnknown'
  BY <1>16 DEF BulkRead, Running, GoTo
<1>17. ASSUME NEW s \in Slots, BulkInsert(s) PROVE UnbornIsUnknown'
  BY <1>17 DEF BulkInsert, Running, GoTo, Batches, Exists
<1>18. ASSUME NEW s \in Slots, BulkFinish(s) PROVE UnbornIsUnknown'
  BY <1>18 DEF BulkFinish, Running, Release, Exists
<1>19. ASSUME NEW s \in Slots, BulkMarkFailed(s) PROVE UnbornIsUnknown'
  BY <1>19 DEF BulkMarkFailed, Running, GoTo, Exists
<1>20. ASSUME NEW s \in Slots, HookRead(s) PROVE UnbornIsUnknown'
  <2>1. CASE GlobalTasks = {}
    BY <1>20, <2>1 DEF HookRead, Running, GoTo, Release, GlobalTasks
  <2>2. CASE ~(GlobalTasks = {})
    BY <1>20, <2>2 DEF HookRead, Running, GoTo, Release, GlobalTasks
  <2> QED
    BY <2>1, <2>2
<1>21. ASSUME NEW s \in Slots, HookInsert(s) PROVE UnbornIsUnknown'
  <2>1. /\ UNCHANGED <<scope, gen, owed, queue>>
        /\ \A s0 \in Slots : todo'[s0] \subseteq todo[s0]
        /\ \A s0 \in Slots : job'[s0] = job[s0] \/ job'[s0].kind = "none"
    BY <1>21 DEF HookInsert, GoTo, Release
  <2> QED
    BY <2>1
<1>22. ASSUME NEW s \in Slots, BackfillRead(s) PROVE UnbornIsUnknown'
  BY <1>22 DEF BackfillRead, Running, GoTo, GlobalTasks
<1>23. ASSUME NEW s \in Slots, NEW t \in Tasks, BackfillSend(s, t) PROVE UnbornIsUnknown'
  BY <1>23 DEF BackfillSend, Running, Bulk
<1>24. ASSUME NEW s \in Slots, BackfillFinish(s) PROVE UnbornIsUnknown'
  BY <1>24 DEF BackfillFinish, Running, Release
<1>25. ASSUME NEW s \in Slots, Retry(s) PROVE UnbornIsUnknown'
  <2>1. CASE job[s].retries < RetryLimit(job[s])
    BY <1>25, <2>1 DEF Retry, Release, Drop, RetryLimit, Again
  <2>2. CASE ~(job[s].retries < RetryLimit(job[s]))
    BY <1>25, <2>2 DEF Retry, Release, Drop, RetryLimit, Again
  <2> QED
    BY <2>1, <2>2
<1>26. ASSUME NEW s \in Slots, JobError(s) PROVE UnbornIsUnknown'
  BY <1>26 DEF JobError, GoTo
<1>27. ASSUME NEW s \in Slots, Crash(s) PROVE UnbornIsUnknown'
  BY <1>27 DEF Crash, Release
<1>28. ASSUME NEW s \in Slots, Redeliver(s) PROVE UnbornIsUnknown'
  BY <1>28 DEF Redeliver
<1>29. CASE UNCHANGED vars
  BY <1>29 DEF vars
<1> HIDE DEF TypeOK, JobsWellFormed, Phases, UnbornIsUnknown, Call, Fault, api, worker, dropped, Messages, BulkMessages, HookMessages, BackfillMessages, NoJob
<1> QED
  BY <1>1, <1>2, <1>3, <1>4, <1>5, <1>6, <1>7, <1>8, <1>9, <1>10, <1>11, <1>12, <1>13, <1>14, <1>15, <1>16, <1>17, <1>18, <1>19, <1>20, <1>21, <1>22, <1>23, <1>24, <1>25, <1>26, <1>27, <1>28, <1>29 DEF Next, Work

\* Every step keeps the rows a bulk job relies on.
LEMMA InsertedStep == TypeOK /\ JobsWellFormed /\ UnbornIsUnknown /\ InsertedSoFar /\ [Next]_vars => InsertedSoFar'
<1> USE DEF TypeOK, JobsWellFormed, Phases, UnbornIsUnknown, InsertedSoFar, Exists, Call, Fault, api, worker, dropped, Messages, BulkMessages, HookMessages, BackfillMessages, NoJob
<1> SUFFICES ASSUME TypeOK, JobsWellFormed, UnbornIsUnknown, InsertedSoFar, [Next]_vars PROVE InsertedSoFar'
  OBVIOUS
<1>1. ASSUME NEW t \in Tasks, PostGlobalTask(t) PROVE InsertedSoFar'
  BY <1>1 DEF PostGlobalTask, Bulk
<1>2. ASSUME NEW t \in Tasks, NEW l \in Learners, PostIndividualTask(t, l) PROVE InsertedSoFar'
  BY <1>2 DEF PostIndividualTask
<1>3. ASSUME NEW t \in Tasks, NEW l \in Learners, LazyCreate(t, l) PROVE InsertedSoFar'
  BY <1>3 DEF LazyCreate
<1>4. ASSUME NEW t \in Tasks, NEW sc \in {"individual", "all"}, PatchScope(t, sc) PROVE InsertedSoFar'
  BY <1>4 DEF PatchScope, Exists
<1>5. ASSUME NEW t \in Tasks, DeleteTask(t) PROVE InsertedSoFar'
  BY <1>5 DEF DeleteTask, Exists
<1>6. ASSUME NEW l \in Learners, ManualEnroll(l) PROVE InsertedSoFar'
  BY <1>6 DEF ManualEnroll, Hook, Enrolled
<1>7. ASSUME NEW l \in Learners, AcceptInvitation(l) PROVE InsertedSoFar'
  BY <1>7 DEF AcceptInvitation
<1>8. ASSUME NEW l \in Learners, Suspend(l) PROVE InsertedSoFar'
  BY <1>8 DEF Suspend
<1>9. ASSUME NEW l \in Learners, Reactivate(l) PROVE InsertedSoFar'
  BY <1>9 DEF Reactivate
<1>10. ASSUME NEW L \in SUBSET Learners, BulkEnroll(L) PROVE InsertedSoFar'
  BY <1>10 DEF BulkEnroll, Enrolled
<1>11. ASSUME NEW m \in Messages, Dispatch(m) PROVE InsertedSoFar'
  BY <1>11 DEF Dispatch
<1>12. ASSUME NEW m \in Messages, LoseDispatch(m) PROVE InsertedSoFar'
  BY <1>12 DEF LoseDispatch, Drop
<1>13. ASSUME RequestBackfill PROVE InsertedSoFar'
  BY <1>13 DEF RequestBackfill, Backfill
<1>14. ASSUME NEW s \in Slots, NEW m \in Messages, Take(s, m) PROVE InsertedSoFar'
  BY <1>14 DEF Take, GoTo
<1>15. ASSUME NEW s \in Slots, BulkMark(s) PROVE InsertedSoFar'
  BY <1>15 DEF BulkMark, Running, GoTo, Release, Exists
<1>16. ASSUME NEW s \in Slots, BulkRead(s) PROVE InsertedSoFar'
  BY <1>16 DEF BulkRead, Running, GoTo
<1>17. ASSUME NEW s \in Slots, BulkInsert(s) PROVE InsertedSoFar'
  BY <1>17 DEF BulkInsert, Running, GoTo, Batches, Exists
<1>18. ASSUME NEW s \in Slots, BulkFinish(s) PROVE InsertedSoFar'
  BY <1>18 DEF BulkFinish, Running, Release, Exists
<1>19. ASSUME NEW s \in Slots, BulkMarkFailed(s) PROVE InsertedSoFar'
  BY <1>19 DEF BulkMarkFailed, Running, GoTo, Exists
<1>20. ASSUME NEW s \in Slots, HookRead(s) PROVE InsertedSoFar'
  BY <1>20 DEF HookRead, Running, GoTo, Release, GlobalTasks
<1>21. ASSUME NEW s \in Slots, HookInsert(s) PROVE InsertedSoFar'
  BY <1>21 DEF HookInsert, Running, GoTo, Release, Exists
<1>22. ASSUME NEW s \in Slots, BackfillRead(s) PROVE InsertedSoFar'
  BY <1>22 DEF BackfillRead, Running, GoTo, GlobalTasks
<1>23. ASSUME NEW s \in Slots, NEW t \in Tasks, BackfillSend(s, t) PROVE InsertedSoFar'
  BY <1>23 DEF BackfillSend, Running, Bulk
<1>24. ASSUME NEW s \in Slots, BackfillFinish(s) PROVE InsertedSoFar'
  BY <1>24 DEF BackfillFinish, Running, Release
<1>25. ASSUME NEW s \in Slots, Retry(s) PROVE InsertedSoFar'
  BY <1>25 DEF Retry, Release, Drop, RetryLimit, Again
<1>26. ASSUME NEW s \in Slots, JobError(s) PROVE InsertedSoFar'
  BY <1>26 DEF JobError, GoTo
<1>27. ASSUME NEW s \in Slots, Crash(s) PROVE InsertedSoFar'
  BY <1>27 DEF Crash, Release
<1>28. ASSUME NEW s \in Slots, Redeliver(s) PROVE InsertedSoFar'
  BY <1>28 DEF Redeliver
<1>29. CASE UNCHANGED vars
  BY <1>29 DEF vars
<1> HIDE DEF TypeOK, JobsWellFormed, Phases, UnbornIsUnknown, InsertedSoFar, Exists, Call, Fault, api, worker, dropped, Messages, BulkMessages, HookMessages, BackfillMessages, NoJob
<1> QED
  BY <1>1, <1>2, <1>3, <1>4, <1>5, <1>6, <1>7, <1>8, <1>9, <1>10, <1>11, <1>12, <1>13, <1>14, <1>15, <1>16, <1>17, <1>18, <1>19, <1>20, <1>21, <1>22, <1>23, <1>24, <1>25, <1>26, <1>27, <1>28, <1>29 DEF Next, Work

\* Every step keeps a job for every unfinished task.
LEMMA UnfinishedStep == TypeOK /\ JobsWellFormed /\ UnbornIsUnknown /\ UnfinishedHasJob /\ [Next]_vars => UnfinishedHasJob'
<1> USE DEF TypeOK, JobsWellFormed, Phases, UnfinishedHasJob, BulkOnItsWay, Waits, UnbornIsUnknown, Exists, Call, Fault, api, worker, dropped, Messages, BulkMessages, HookMessages, BackfillMessages, NoJob
<1> SUFFICES ASSUME TypeOK, JobsWellFormed, UnbornIsUnknown, UnfinishedHasJob, [Next]_vars PROVE UnfinishedHasJob'
  OBVIOUS
<1>1. ASSUME NEW t \in Tasks, PostGlobalTask(t) PROVE UnfinishedHasJob'
  <2>1. Waits("bulk", t)'
    BY <1>1, MessageFields DEF PostGlobalTask, Waits
  <2> QED
    BY <1>1, <2>1 DEF PostGlobalTask
<1>2. ASSUME NEW t \in Tasks, NEW l \in Learners, PostIndividualTask(t, l) PROVE UnfinishedHasJob'
  BY <1>2 DEF PostIndividualTask
<1>3. ASSUME NEW t \in Tasks, NEW l \in Learners, LazyCreate(t, l) PROVE UnfinishedHasJob'
  BY <1>3 DEF LazyCreate
<1>4. ASSUME NEW t \in Tasks, NEW sc \in {"individual", "all"}, PatchScope(t, sc) PROVE UnfinishedHasJob'
  BY <1>4 DEF PatchScope, Exists
<1>5. ASSUME NEW t \in Tasks, DeleteTask(t) PROVE UnfinishedHasJob'
  BY <1>5 DEF DeleteTask, Exists
<1>6. ASSUME NEW l \in Learners, ManualEnroll(l) PROVE UnfinishedHasJob'
  BY <1>6 DEF ManualEnroll, Hook, Enrolled
<1>7. ASSUME NEW l \in Learners, AcceptInvitation(l) PROVE UnfinishedHasJob'
  BY <1>7 DEF AcceptInvitation
<1>8. ASSUME NEW l \in Learners, Suspend(l) PROVE UnfinishedHasJob'
  BY <1>8 DEF Suspend
<1>9. ASSUME NEW l \in Learners, Reactivate(l) PROVE UnfinishedHasJob'
  BY <1>9 DEF Reactivate
<1>10. ASSUME NEW L \in SUBSET Learners, BulkEnroll(L) PROVE UnfinishedHasJob'
  BY <1>10 DEF BulkEnroll, Enrolled
<1>11. ASSUME NEW m \in Messages, Dispatch(m) PROVE UnfinishedHasJob'
  BY <1>11 DEF Dispatch
<1>12. ASSUME NEW m \in Messages, LoseDispatch(m) PROVE UnfinishedHasJob'
  BY <1>12 DEF LoseDispatch, Drop
<1>13. ASSUME RequestBackfill PROVE UnfinishedHasJob'
  BY <1>13 DEF RequestBackfill, Backfill
<1>14. ASSUME NEW s \in Slots, NEW m \in Messages, Take(s, m) PROVE UnfinishedHasJob'
  BY <1>14 DEF Take, GoTo
<1>15. ASSUME NEW s \in Slots, BulkMark(s) PROVE UnfinishedHasJob'
  <2>1. CASE Exists(job[s].key)
    BY <1>15, <2>1 DEF BulkMark, Running, GoTo, Release, Exists
  <2>2. CASE ~(Exists(job[s].key))
    BY <1>15, <2>2 DEF BulkMark, Running, GoTo, Release, Exists
  <2> QED
    BY <2>1, <2>2
<1>16. ASSUME NEW s \in Slots, BulkRead(s) PROVE UnfinishedHasJob'
  BY <1>16 DEF BulkRead, Running, GoTo
<1>17. ASSUME NEW s \in Slots, BulkInsert(s) PROVE UnfinishedHasJob'
  BY <1>17 DEF BulkInsert, Running, GoTo, Batches, Exists
<1>18. ASSUME NEW s \in Slots, BulkFinish(s) PROVE UnfinishedHasJob'
  BY <1>18 DEF BulkFinish, Running, Release, Exists
<1>19. ASSUME NEW s \in Slots, BulkMarkFailed(s) PROVE UnfinishedHasJob'
  BY <1>19 DEF BulkMarkFailed, Running, GoTo, Exists
<1>20. ASSUME NEW s \in Slots, HookRead(s) PROVE UnfinishedHasJob'
  <2>1. CASE GlobalTasks = {}
    BY <1>20, <2>1 DEF HookRead, Running, GoTo, Release, GlobalTasks
  <2>2. CASE ~(GlobalTasks = {})
    BY <1>20, <2>2 DEF HookRead, Running, GoTo, Release, GlobalTasks
  <2> QED
    BY <2>1, <2>2
<1>21. ASSUME NEW s \in Slots, HookInsert(s) PROVE UnfinishedHasJob'
  <2>1. CASE \A t \in todo[s] : Exists(t)
    BY <1>21, <2>1 DEF HookInsert, Running, GoTo, Release, Exists
  <2>2. CASE ~(\A t \in todo[s] : Exists(t))
    BY <1>21, <2>2 DEF HookInsert, Running, GoTo, Release, Exists
  <2> QED
    BY <2>1, <2>2
<1>22. ASSUME NEW s \in Slots, BackfillRead(s) PROVE UnfinishedHasJob'
  BY <1>22 DEF BackfillRead, Running, GoTo, GlobalTasks
<1>23. ASSUME NEW s \in Slots, NEW t \in Tasks, BackfillSend(s, t) PROVE UnfinishedHasJob'
  <2>1. Waits("bulk", t)'
    BY <1>23, MessageFields DEF BackfillSend, Waits
  <2> QED
    BY <1>23, <2>1 DEF BackfillSend, Running
<1>24. ASSUME NEW s \in Slots, BackfillFinish(s) PROVE UnfinishedHasJob'
  BY <1>24 DEF BackfillFinish, Running, Release
<1>25. ASSUME NEW s \in Slots, Retry(s) PROVE UnfinishedHasJob'
  <2>1. CASE job[s].retries < RetryLimit(job[s])
    <3>1. Again(job[s]) \in queue'
      BY <1>25, <2>1 DEF Retry
    <3>2. \A x : job[s].kind = "bulk" /\ job[s].key = x => Waits("bulk", x)'
      BY <3>1, MessageFields DEF Waits
    <3> QED
      BY <1>25, <2>1, <3>2 DEF Retry, Release
  <2>2. CASE ~(job[s].retries < RetryLimit(job[s]))
    BY <1>25, <2>2 DEF Retry, Release, Drop
  <2> QED
    BY <2>1, <2>2
<1>26. ASSUME NEW s \in Slots, JobError(s) PROVE UnfinishedHasJob'
  BY <1>26 DEF JobError, GoTo
<1>27. ASSUME NEW s \in Slots, Crash(s) PROVE UnfinishedHasJob'
  BY <1>27 DEF Crash, Release
<1>28. ASSUME NEW s \in Slots, Redeliver(s) PROVE UnfinishedHasJob'
  BY <1>28 DEF Redeliver
<1>29. CASE UNCHANGED vars
  BY <1>29 DEF vars
<1> HIDE DEF TypeOK, JobsWellFormed, Phases, UnfinishedHasJob, BulkOnItsWay, Waits, UnbornIsUnknown, Exists, Call, Fault, api, worker, dropped, Messages, BulkMessages, HookMessages, BackfillMessages, NoJob
<1> QED
  BY <1>1, <1>2, <1>3, <1>4, <1>5, <1>6, <1>7, <1>8, <1>9, <1>10, <1>11, <1>12, <1>13, <1>14, <1>15, <1>16, <1>17, <1>18, <1>19, <1>20, <1>21, <1>22, <1>23, <1>24, <1>25, <1>26, <1>27, <1>28, <1>29 DEF Next, Work

\* A step that leaves the jobs alone, and takes away no message and no row of
\* a pair, leaves the pair explained.
LEMMA StaysExplained ==
    ASSUME NEW t, NEW l, Explained(t, l), UNCHANGED worker,
           owed \cup queue \subseteq (owed \cup queue)',
           <<t, l>> \in rows => <<t, l>> \in rows',
           droppedTasks \subseteq droppedTasks', droppedLearners \subseteq droppedLearners'
    PROVE  Explained(t, l)'
<1>1. \A k, x : Waits(k, x) => Waits(k, x)'
  BY DEF Waits
<1>2. \A s \in Slots : (BulkHolds(s, t, l) => BulkHolds(s, t, l)')
                       /\ (HookHolds(s, t, l) => HookHolds(s, t, l)')
  BY DEF BulkHolds, HookHolds, worker
<1> QED
  BY <1>1, <1>2 DEF Explained, BulkWillCover, HookWillCover

\* Every step keeps the gaps explained: what covered a pair before the step covers
\* it afterwards, or has just inserted its row, or was dropped.
LEMMA GapStep == TypeOK /\ JobsWellFormed /\ GapIsExplained /\ [Next]_vars => GapIsExplained'
<1> USE DEF TypeOK, JobsWellFormed, Phases, Call, Fault, api, worker, dropped, Messages, BulkMessages, HookMessages, BackfillMessages, NoJob
<1> SUFFICES ASSUME TypeOK, JobsWellFormed, GapIsExplained, [Next]_vars PROVE GapIsExplained'
  OBVIOUS
<1>1. ASSUME NEW t \in Tasks, PostGlobalTask(t) PROVE GapIsExplained'
  <2> SUFFICES ASSUME NEW t0 \in GlobalTasks', NEW l0 \in active' PROVE Explained(t0, l0)'
    BY DEF GapIsExplained
  <2>1. Waits("bulk", t)'
    BY <1>1, MessageFields DEF PostGlobalTask, Waits
  <2>2. \A k, x : Waits(k, x) => Waits(k, x)'
    BY <1>1 DEF PostGlobalTask, Bulk, Waits
  <2>3. \A s0 \in Slots : (BulkHolds(s0, t0, l0) => BulkHolds(s0, t0, l0)')
                        /\ (HookHolds(s0, t0, l0) => HookHolds(s0, t0, l0)')
    BY <1>1 DEF PostGlobalTask, Bulk, BulkHolds, HookHolds
  <2>4. t0 = t \/ Explained(t0, l0)
    BY <1>1 DEF PostGlobalTask, Bulk, GapIsExplained, GlobalTasks
  <2>5. rows' = rows /\ UNCHANGED dropped
    BY <1>1 DEF PostGlobalTask, Bulk
  <2> QED
    BY <2>1, <2>2, <2>3, <2>4, <2>5 DEF Explained, BulkWillCover, HookWillCover
<1>2. ASSUME NEW t \in Tasks, NEW l \in Learners, PostIndividualTask(t, l) PROVE GapIsExplained'
  <2> SUFFICES ASSUME NEW t0 \in GlobalTasks', NEW l0 \in active' PROVE Explained(t0, l0)'
    BY DEF GapIsExplained
  <2>1. Explained(t0, l0)
    BY <1>2 DEF PostIndividualTask, GapIsExplained, GlobalTasks
  <2>2. UNCHANGED worker /\ owed \cup queue \subseteq (owed \cup queue)'
        /\ (<<t0, l0>> \in rows => <<t0, l0>> \in rows')
        /\ droppedTasks \subseteq droppedTasks' /\ droppedLearners \subseteq droppedLearners'
    BY <1>2 DEF PostIndividualTask, GlobalTasks
  <2> QED
    BY <2>1, <2>2, StaysExplained
<1>3. ASSUME NEW t \in Tasks, NEW l \in Learners, LazyCreate(t, l) PROVE GapIsExplained'
  <2> SUFFICES ASSUME NEW t0 \in GlobalTasks', NEW l0 \in active' PROVE Explained(t0, l0)'
    BY DEF GapIsExplained
  <2>1. Explained(t0, l0)
    BY <1>3 DEF LazyCreate, GapIsExplained, GlobalTasks
  <2>2. UNCHANGED worker /\ owed \cup queue \subseteq (owed \cup queue)'
        /\ (<<t0, l0>> \in rows => <<t0, l0>> \in rows')
        /\ droppedTasks \subseteq droppedTasks' /\ droppedLearners \subseteq droppedLearners'
    BY <1>3 DEF LazyCreate, GlobalTasks
  <2> QED
    BY <2>1, <2>2, StaysExplained
<1>4. ASSUME NEW t \in Tasks, NEW sc \in {"individual", "all"}, PatchScope(t, sc) PROVE GapIsExplained'
  <2> SUFFICES ASSUME NEW t0 \in GlobalTasks', NEW l0 \in active' PROVE Explained(t0, l0)'
    BY DEF GapIsExplained
  <2>1. t0 \in droppedTasks' \/ Explained(t0, l0)
    BY <1>4 DEF PatchScope, Exists, GapIsExplained, GlobalTasks
  <2>2. UNCHANGED worker /\ owed \cup queue \subseteq (owed \cup queue)'
        /\ (<<t0, l0>> \in rows => <<t0, l0>> \in rows')
        /\ droppedTasks \subseteq droppedTasks' /\ droppedLearners \subseteq droppedLearners'
    BY <1>4 DEF PatchScope, Exists, GlobalTasks
  <2> QED
    BY <2>1, <2>2, StaysExplained DEF Explained
<1>5. ASSUME NEW t \in Tasks, DeleteTask(t) PROVE GapIsExplained'
  <2> SUFFICES ASSUME NEW t0 \in GlobalTasks', NEW l0 \in active' PROVE Explained(t0, l0)'
    BY DEF GapIsExplained
  <2>1. Explained(t0, l0)
    BY <1>5 DEF DeleteTask, Exists, GapIsExplained, GlobalTasks
  <2>2. UNCHANGED worker /\ owed \cup queue \subseteq (owed \cup queue)'
        /\ (<<t0, l0>> \in rows => <<t0, l0>> \in rows')
        /\ droppedTasks \subseteq droppedTasks' /\ droppedLearners \subseteq droppedLearners'
    BY <1>5 DEF DeleteTask, Exists, GlobalTasks
  <2> QED
    BY <2>1, <2>2, StaysExplained
<1>6. ASSUME NEW l \in Learners, ManualEnroll(l) PROVE GapIsExplained'
  <2> SUFFICES ASSUME NEW t0 \in GlobalTasks', NEW l0 \in active' PROVE Explained(t0, l0)'
    BY DEF GapIsExplained
  <2>1. Waits("hook", l)'
    BY <1>6, MessageFields DEF ManualEnroll, Waits
  <2>2. \A k, x : Waits(k, x) => Waits(k, x)'
    BY <1>6 DEF ManualEnroll, Hook, Enrolled, Waits
  <2>3. \A s0 \in Slots : (BulkHolds(s0, t0, l0) => BulkHolds(s0, t0, l0)')
                        /\ (HookHolds(s0, t0, l0) => HookHolds(s0, t0, l0)')
    BY <1>6 DEF ManualEnroll, Hook, Enrolled, BulkHolds, HookHolds
  <2>4. l0 = l \/ Explained(t0, l0)
    BY <1>6 DEF ManualEnroll, Hook, Enrolled, GapIsExplained, GlobalTasks
  <2>5. rows' = rows /\ UNCHANGED dropped
    BY <1>6 DEF ManualEnroll, Hook, Enrolled
  <2> QED
    BY <2>1, <2>2, <2>3, <2>4, <2>5 DEF Explained, BulkWillCover, HookWillCover
<1>7. ASSUME NEW l \in Learners, AcceptInvitation(l) PROVE GapIsExplained'
  <2> SUFFICES ASSUME NEW t0 \in GlobalTasks', NEW l0 \in active' PROVE Explained(t0, l0)'
    BY DEF GapIsExplained
  <2>1. l0 \in droppedLearners' \/ Explained(t0, l0)
    BY <1>7 DEF AcceptInvitation, GapIsExplained, GlobalTasks
  <2>2. UNCHANGED worker /\ owed \cup queue \subseteq (owed \cup queue)'
        /\ (<<t0, l0>> \in rows => <<t0, l0>> \in rows')
        /\ droppedTasks \subseteq droppedTasks' /\ droppedLearners \subseteq droppedLearners'
    BY <1>7 DEF AcceptInvitation, GlobalTasks
  <2> QED
    BY <2>1, <2>2, StaysExplained DEF Explained
<1>8. ASSUME NEW l \in Learners, Suspend(l) PROVE GapIsExplained'
  <2> SUFFICES ASSUME NEW t0 \in GlobalTasks', NEW l0 \in active' PROVE Explained(t0, l0)'
    BY DEF GapIsExplained
  <2>1. Explained(t0, l0)
    BY <1>8 DEF Suspend, GapIsExplained, GlobalTasks
  <2>2. UNCHANGED worker /\ owed \cup queue \subseteq (owed \cup queue)'
        /\ (<<t0, l0>> \in rows => <<t0, l0>> \in rows')
        /\ droppedTasks \subseteq droppedTasks' /\ droppedLearners \subseteq droppedLearners'
    BY <1>8 DEF Suspend, GlobalTasks
  <2> QED
    BY <2>1, <2>2, StaysExplained
<1>9. ASSUME NEW l \in Learners, Reactivate(l) PROVE GapIsExplained'
  <2> SUFFICES ASSUME NEW t0 \in GlobalTasks', NEW l0 \in active' PROVE Explained(t0, l0)'
    BY DEF GapIsExplained
  <2>1. l0 \in droppedLearners' \/ Explained(t0, l0)
    BY <1>9 DEF Reactivate, GapIsExplained, GlobalTasks
  <2>2. UNCHANGED worker /\ owed \cup queue \subseteq (owed \cup queue)'
        /\ (<<t0, l0>> \in rows => <<t0, l0>> \in rows')
        /\ droppedTasks \subseteq droppedTasks' /\ droppedLearners \subseteq droppedLearners'
    BY <1>9 DEF Reactivate, GlobalTasks
  <2> QED
    BY <2>1, <2>2, StaysExplained DEF Explained
<1>10. ASSUME NEW L \in SUBSET Learners, BulkEnroll(L) PROVE GapIsExplained'
  <2> SUFFICES ASSUME NEW t0 \in GlobalTasks', NEW l0 \in active' PROVE Explained(t0, l0)'
    BY DEF GapIsExplained
  <2>1. l0 \in droppedLearners' \/ Explained(t0, l0)
    BY <1>10 DEF BulkEnroll, Enrolled, GapIsExplained, GlobalTasks
  <2>2. UNCHANGED worker /\ owed \cup queue \subseteq (owed \cup queue)'
        /\ (<<t0, l0>> \in rows => <<t0, l0>> \in rows')
        /\ droppedTasks \subseteq droppedTasks' /\ droppedLearners \subseteq droppedLearners'
    BY <1>10 DEF BulkEnroll, Enrolled, GlobalTasks
  <2> QED
    BY <2>1, <2>2, StaysExplained DEF Explained
<1>11. ASSUME NEW m \in Messages, Dispatch(m) PROVE GapIsExplained'
  <2> SUFFICES ASSUME NEW t0 \in GlobalTasks', NEW l0 \in active' PROVE Explained(t0, l0)'
    BY DEF GapIsExplained
  <2>1. Explained(t0, l0)
    BY <1>11 DEF Dispatch, GapIsExplained, GlobalTasks
  <2>2. UNCHANGED worker /\ owed \cup queue \subseteq (owed \cup queue)'
        /\ (<<t0, l0>> \in rows => <<t0, l0>> \in rows')
        /\ droppedTasks \subseteq droppedTasks' /\ droppedLearners \subseteq droppedLearners'
    BY <1>11 DEF Dispatch, GlobalTasks
  <2> QED
    BY <2>1, <2>2, StaysExplained
<1>12. ASSUME NEW m \in Messages, LoseDispatch(m) PROVE GapIsExplained'
  <2> SUFFICES ASSUME NEW t0 \in GlobalTasks', NEW l0 \in active' PROVE Explained(t0, l0)'
    BY DEF GapIsExplained
  <2>1. Explained(t0, l0)
    BY <1>12 DEF LoseDispatch, GapIsExplained, GlobalTasks
  <2>2. \A k, x : Waits(k, x) => Waits(k, x)' \/ (m.kind = k /\ m.key = x)
    BY <1>12 DEF LoseDispatch, Waits
  <2>3. \A s0 \in Slots : (BulkHolds(s0, t0, l0) => BulkHolds(s0, t0, l0)')
                        /\ (HookHolds(s0, t0, l0) => HookHolds(s0, t0, l0)')
    BY <1>12 DEF LoseDispatch, BulkHolds, HookHolds
  <2>4. /\ m.kind = "bulk" /\ m.key = t0 => t0 \in droppedTasks'
        /\ m.kind = "hook" /\ m.key = l0 => l0 \in droppedLearners'
        /\ droppedTasks \subseteq droppedTasks' /\ droppedLearners \subseteq droppedLearners'
        /\ rows' = rows
    BY <1>12 DEF LoseDispatch, Drop
  <2> QED
    BY <2>1, <2>2, <2>3, <2>4 DEF Explained, BulkWillCover, HookWillCover
<1>13. ASSUME RequestBackfill PROVE GapIsExplained'
  <2> SUFFICES ASSUME NEW t0 \in GlobalTasks', NEW l0 \in active' PROVE Explained(t0, l0)'
    BY DEF GapIsExplained
  <2>1. Explained(t0, l0)
    BY <1>13 DEF RequestBackfill, Backfill, GapIsExplained, GlobalTasks
  <2>2. UNCHANGED worker /\ owed \cup queue \subseteq (owed \cup queue)'
        /\ (<<t0, l0>> \in rows => <<t0, l0>> \in rows')
        /\ droppedTasks \subseteq droppedTasks' /\ droppedLearners \subseteq droppedLearners'
    BY <1>13 DEF RequestBackfill, Backfill, GlobalTasks
  <2> QED
    BY <2>1, <2>2, StaysExplained
<1>14. ASSUME NEW s \in Slots, NEW m \in Messages, Take(s, m) PROVE GapIsExplained'
  <2> SUFFICES ASSUME NEW t0 \in GlobalTasks', NEW l0 \in active' PROVE Explained(t0, l0)'
    BY DEF GapIsExplained
  <2>1. Explained(t0, l0)
    BY <1>14 DEF Take, GapIsExplained, GlobalTasks
  <2>2. \A k, x : Waits(k, x) => Waits(k, x)' \/ (m.kind = k /\ m.key = x)
    BY <1>14 DEF Take, Waits
  <2>3. \A s0 \in Slots : (BulkHolds(s0, t0, l0) => BulkHolds(s0, t0, l0)')
                        /\ (HookHolds(s0, t0, l0) => HookHolds(s0, t0, l0)')
    BY <1>14 DEF Take, GoTo, BulkHolds, HookHolds
  <2>4. m.kind = "bulk" /\ m.key = t0 => BulkHolds(s, t0, l0)'
    BY <1>14 DEF Take, GoTo, BulkHolds
  <2>5. m.kind = "hook" /\ m.key = l0 => HookHolds(s, t0, l0)'
    BY <1>14 DEF Take, GoTo, HookHolds
  <2>6. rows' = rows /\ UNCHANGED dropped
    BY <1>14 DEF Take
  <2> QED
    BY <2>1, <2>2, <2>3, <2>4, <2>5, <2>6 DEF Explained, BulkWillCover, HookWillCover
<1>15. ASSUME NEW s \in Slots, BulkMark(s) PROVE GapIsExplained'
  <2> SUFFICES ASSUME NEW t0 \in GlobalTasks', NEW l0 \in active' PROVE Explained(t0, l0)'
    BY DEF GapIsExplained
  <2>1. Explained(t0, l0)
    BY <1>15 DEF BulkMark, GapIsExplained, GlobalTasks
  <2>2. \A k, x : Waits(k, x) => Waits(k, x)'
    BY <1>15 DEF BulkMark, Running, GoTo, Release, Exists, Waits
  <2>3. \A s0 \in Slots \ {s} : (BulkHolds(s0, t0, l0) => BulkHolds(s0, t0, l0)')
                                /\ (HookHolds(s0, t0, l0) => HookHolds(s0, t0, l0)')
    BY <1>15 DEF BulkMark, Running, GoTo, Release, Exists, BulkHolds, HookHolds
  <2>4. BulkHolds(s, t0, l0) => Explained(t0, l0)'
    BY <1>15 DEF BulkMark, Running, GoTo, Release, Exists, BulkHolds, Explained, BulkWillCover, Waits, GlobalTasks
  <2>5. HookHolds(s, t0, l0) => Explained(t0, l0)'
    BY <1>15 DEF BulkMark, Running, GoTo, Release, Exists, HookHolds, Explained, HookWillCover, Waits, GlobalTasks
  <2>6. rows \subseteq rows' /\ droppedLearners \subseteq droppedLearners'
        /\ (t0 \in droppedTasks => Explained(t0, l0)')
    BY <1>15 DEF BulkMark, Running, GoTo, Release, Exists, Explained, BulkWillCover, Waits
  <2> QED
    BY <2>1, <2>2, <2>3, <2>4, <2>5, <2>6 DEF Explained, BulkWillCover, HookWillCover
<1>16. ASSUME NEW s \in Slots, BulkRead(s) PROVE GapIsExplained'
  <2> SUFFICES ASSUME NEW t0 \in GlobalTasks', NEW l0 \in active' PROVE Explained(t0, l0)'
    BY DEF GapIsExplained
  <2>1. Explained(t0, l0)
    BY <1>16 DEF BulkRead, GapIsExplained, GlobalTasks
  <2>2. \A k, x : Waits(k, x) => Waits(k, x)'
    BY <1>16 DEF BulkRead, Running, GoTo, Waits
  <2>3. \A s0 \in Slots \ {s} : (BulkHolds(s0, t0, l0) => BulkHolds(s0, t0, l0)')
                                /\ (HookHolds(s0, t0, l0) => HookHolds(s0, t0, l0)')
    BY <1>16 DEF BulkRead, Running, GoTo, BulkHolds, HookHolds
  <2>4. BulkHolds(s, t0, l0) => Explained(t0, l0)'
    BY <1>16 DEF BulkRead, Running, GoTo, BulkHolds, Explained, BulkWillCover, Waits, GlobalTasks
  <2>5. HookHolds(s, t0, l0) => Explained(t0, l0)'
    BY <1>16 DEF BulkRead, Running, GoTo, HookHolds, Explained, HookWillCover, Waits, GlobalTasks
  <2>6. rows \subseteq rows' /\ droppedLearners \subseteq droppedLearners'
        /\ (t0 \in droppedTasks => Explained(t0, l0)')
    BY <1>16 DEF BulkRead, Running, GoTo, Explained, BulkWillCover, Waits
  <2> QED
    BY <2>1, <2>2, <2>3, <2>4, <2>5, <2>6 DEF Explained, BulkWillCover, HookWillCover
<1>17. ASSUME NEW s \in Slots, BulkInsert(s) PROVE GapIsExplained'
  <2> SUFFICES ASSUME NEW t0 \in GlobalTasks', NEW l0 \in active' PROVE Explained(t0, l0)'
    BY DEF GapIsExplained
  <2>1. Explained(t0, l0)
    BY <1>17 DEF BulkInsert, GapIsExplained, GlobalTasks
  <2>2. \A k, x : Waits(k, x) => Waits(k, x)'
    BY <1>17 DEF BulkInsert, Running, GoTo, Batches, Exists, Waits
  <2>3. \A s0 \in Slots \ {s} : (BulkHolds(s0, t0, l0) => BulkHolds(s0, t0, l0)')
                                /\ (HookHolds(s0, t0, l0) => HookHolds(s0, t0, l0)')
    BY <1>17 DEF BulkInsert, Running, GoTo, Batches, Exists, BulkHolds, HookHolds
  <2>4. BulkHolds(s, t0, l0) => Explained(t0, l0)'
    BY <1>17 DEF BulkInsert, Running, GoTo, Batches, Exists, BulkHolds, Explained, BulkWillCover, Waits, GlobalTasks
  <2>5. HookHolds(s, t0, l0) => Explained(t0, l0)'
    BY <1>17 DEF BulkInsert, Running, GoTo, Batches, Exists, HookHolds, Explained, HookWillCover, Waits, GlobalTasks
  <2>6. rows \subseteq rows' /\ droppedLearners \subseteq droppedLearners'
        /\ (t0 \in droppedTasks => Explained(t0, l0)')
    BY <1>17 DEF BulkInsert, Running, GoTo, Batches, Exists, Explained, BulkWillCover, Waits
  <2> QED
    BY <2>1, <2>2, <2>3, <2>4, <2>5, <2>6 DEF Explained, BulkWillCover, HookWillCover
<1>18. ASSUME NEW s \in Slots, BulkFinish(s) PROVE GapIsExplained'
  <2> SUFFICES ASSUME NEW t0 \in GlobalTasks', NEW l0 \in active' PROVE Explained(t0, l0)'
    BY DEF GapIsExplained
  <2>1. Explained(t0, l0)
    BY <1>18 DEF BulkFinish, GapIsExplained, GlobalTasks
  <2>2. \A k, x : Waits(k, x) => Waits(k, x)'
    BY <1>18 DEF BulkFinish, Running, Release, Exists, Waits
  <2>3. \A s0 \in Slots \ {s} : (BulkHolds(s0, t0, l0) => BulkHolds(s0, t0, l0)')
                                /\ (HookHolds(s0, t0, l0) => HookHolds(s0, t0, l0)')
    BY <1>18 DEF BulkFinish, Running, Release, Exists, BulkHolds, HookHolds
  <2>4. BulkHolds(s, t0, l0) => Explained(t0, l0)'
    BY <1>18 DEF BulkFinish, Running, Release, Exists, BulkHolds, Explained, BulkWillCover, Waits, GlobalTasks
  <2>5. HookHolds(s, t0, l0) => Explained(t0, l0)'
    BY <1>18 DEF BulkFinish, Running, Release, Exists, HookHolds, Explained, HookWillCover, Waits, GlobalTasks
  <2>6. rows \subseteq rows' /\ droppedLearners \subseteq droppedLearners'
        /\ (t0 \in droppedTasks => Explained(t0, l0)')
    BY <1>18 DEF BulkFinish, Running, Release, Exists, Explained, BulkWillCover, Waits
  <2> QED
    BY <2>1, <2>2, <2>3, <2>4, <2>5, <2>6 DEF Explained, BulkWillCover, HookWillCover
<1>19. ASSUME NEW s \in Slots, BulkMarkFailed(s) PROVE GapIsExplained'
  <2> SUFFICES ASSUME NEW t0 \in GlobalTasks', NEW l0 \in active' PROVE Explained(t0, l0)'
    BY DEF GapIsExplained
  <2>1. Explained(t0, l0)
    BY <1>19 DEF BulkMarkFailed, GapIsExplained, GlobalTasks
  <2>2. \A k, x : Waits(k, x) => Waits(k, x)'
    BY <1>19 DEF BulkMarkFailed, Running, GoTo, Exists, Waits
  <2>3. \A s0 \in Slots \ {s} : (BulkHolds(s0, t0, l0) => BulkHolds(s0, t0, l0)')
                                /\ (HookHolds(s0, t0, l0) => HookHolds(s0, t0, l0)')
    BY <1>19 DEF BulkMarkFailed, Running, GoTo, Exists, BulkHolds, HookHolds
  <2>4. BulkHolds(s, t0, l0) => Explained(t0, l0)'
    BY <1>19 DEF BulkMarkFailed, Running, GoTo, Exists, BulkHolds, Explained, BulkWillCover, Waits, GlobalTasks
  <2>5. HookHolds(s, t0, l0) => Explained(t0, l0)'
    BY <1>19 DEF BulkMarkFailed, Running, GoTo, Exists, HookHolds, Explained, HookWillCover, Waits, GlobalTasks
  <2>6. rows \subseteq rows' /\ droppedLearners \subseteq droppedLearners'
        /\ (t0 \in droppedTasks => Explained(t0, l0)')
    BY <1>19 DEF BulkMarkFailed, Running, GoTo, Exists, Explained, BulkWillCover, Waits
  <2> QED
    BY <2>1, <2>2, <2>3, <2>4, <2>5, <2>6 DEF Explained, BulkWillCover, HookWillCover
<1>20. ASSUME NEW s \in Slots, HookRead(s) PROVE GapIsExplained'
  <2> SUFFICES ASSUME NEW t0 \in GlobalTasks', NEW l0 \in active' PROVE Explained(t0, l0)'
    BY DEF GapIsExplained
  <2>1. Explained(t0, l0)
    BY <1>20 DEF HookRead, GapIsExplained, GlobalTasks
  <2>2. \A k, x : Waits(k, x) => Waits(k, x)'
    BY <1>20 DEF HookRead, Running, GoTo, Release, GlobalTasks, Waits
  <2>3. \A s0 \in Slots \ {s} : (BulkHolds(s0, t0, l0) => BulkHolds(s0, t0, l0)')
                                /\ (HookHolds(s0, t0, l0) => HookHolds(s0, t0, l0)')
    BY <1>20 DEF HookRead, Running, GoTo, Release, GlobalTasks, BulkHolds, HookHolds
  <2>4. BulkHolds(s, t0, l0) => Explained(t0, l0)'
    BY <1>20 DEF HookRead, Running, GoTo, Release, GlobalTasks, BulkHolds, Explained, BulkWillCover, Waits, GlobalTasks
  <2>5. HookHolds(s, t0, l0) => Explained(t0, l0)'
    BY <1>20 DEF HookRead, Running, GoTo, Release, GlobalTasks, HookHolds, Explained, HookWillCover, Waits, GlobalTasks
  <2>6. rows \subseteq rows' /\ droppedLearners \subseteq droppedLearners'
        /\ (t0 \in droppedTasks => Explained(t0, l0)')
    BY <1>20 DEF HookRead, Running, GoTo, Release, GlobalTasks, Explained, BulkWillCover, Waits
  <2> QED
    BY <2>1, <2>2, <2>3, <2>4, <2>5, <2>6 DEF Explained, BulkWillCover, HookWillCover
<1>21. ASSUME NEW s \in Slots, HookInsert(s) PROVE GapIsExplained'
  <2> SUFFICES ASSUME NEW t0 \in GlobalTasks', NEW l0 \in active' PROVE Explained(t0, l0)'
    BY DEF GapIsExplained
  <2>1. Explained(t0, l0)
    BY <1>21 DEF HookInsert, GapIsExplained, GlobalTasks
  <2>2. \A k, x : Waits(k, x) => Waits(k, x)'
    BY <1>21 DEF HookInsert, Running, GoTo, Release, Exists, Waits
  <2>3. \A s0 \in Slots \ {s} : (BulkHolds(s0, t0, l0) => BulkHolds(s0, t0, l0)')
                                /\ (HookHolds(s0, t0, l0) => HookHolds(s0, t0, l0)')
    BY <1>21 DEF HookInsert, Running, GoTo, Release, Exists, BulkHolds, HookHolds
  <2>4. BulkHolds(s, t0, l0) => Explained(t0, l0)'
    BY <1>21 DEF HookInsert, Running, GoTo, Release, Exists, BulkHolds, Explained, BulkWillCover, Waits, GlobalTasks
  <2>5. HookHolds(s, t0, l0) => Explained(t0, l0)'
    BY <1>21 DEF HookInsert, Running, GoTo, Release, Exists, HookHolds, Explained, HookWillCover, Waits, GlobalTasks
  <2>6. rows \subseteq rows' /\ droppedLearners \subseteq droppedLearners'
        /\ (t0 \in droppedTasks => Explained(t0, l0)')
    BY <1>21 DEF HookInsert, Running, GoTo, Release, Exists, Explained, BulkWillCover, Waits
  <2> QED
    BY <2>1, <2>2, <2>3, <2>4, <2>5, <2>6 DEF Explained, BulkWillCover, HookWillCover
<1>22. ASSUME NEW s \in Slots, BackfillRead(s) PROVE GapIsExplained'
  <2> SUFFICES ASSUME NEW t0 \in GlobalTasks', NEW l0 \in active' PROVE Explained(t0, l0)'
    BY DEF GapIsExplained
  <2>1. Explained(t0, l0)
    BY <1>22 DEF BackfillRead, GapIsExplained, GlobalTasks
  <2>2. \A k, x : Waits(k, x) => Waits(k, x)'
    BY <1>22 DEF BackfillRead, Running, GoTo, GlobalTasks, Waits
  <2>3. \A s0 \in Slots \ {s} : (BulkHolds(s0, t0, l0) => BulkHolds(s0, t0, l0)')
                                /\ (HookHolds(s0, t0, l0) => HookHolds(s0, t0, l0)')
    BY <1>22 DEF BackfillRead, Running, GoTo, GlobalTasks, BulkHolds, HookHolds
  <2>4. BulkHolds(s, t0, l0) => Explained(t0, l0)'
    BY <1>22 DEF BackfillRead, Running, GoTo, GlobalTasks, BulkHolds, Explained, BulkWillCover, Waits, GlobalTasks
  <2>5. HookHolds(s, t0, l0) => Explained(t0, l0)'
    BY <1>22 DEF BackfillRead, Running, GoTo, GlobalTasks, HookHolds, Explained, HookWillCover, Waits, GlobalTasks
  <2>6. rows \subseteq rows' /\ droppedLearners \subseteq droppedLearners'
        /\ (t0 \in droppedTasks => Explained(t0, l0)')
    BY <1>22 DEF BackfillRead, Running, GoTo, GlobalTasks, Explained, BulkWillCover, Waits
  <2> QED
    BY <2>1, <2>2, <2>3, <2>4, <2>5, <2>6 DEF Explained, BulkWillCover, HookWillCover
<1>23. ASSUME NEW s \in Slots, NEW t \in Tasks, BackfillSend(s, t) PROVE GapIsExplained'
  <2> SUFFICES ASSUME NEW t0 \in GlobalTasks', NEW l0 \in active' PROVE Explained(t0, l0)'
    BY DEF GapIsExplained
  <2>1. Explained(t0, l0)
    BY <1>23 DEF BackfillSend, GapIsExplained, GlobalTasks
  <2>2. \A k, x : Waits(k, x) => Waits(k, x)'
    BY <1>23 DEF BackfillSend, Running, Bulk, Waits
  <2>3. \A s0 \in Slots \ {s} : (BulkHolds(s0, t0, l0) => BulkHolds(s0, t0, l0)')
                                /\ (HookHolds(s0, t0, l0) => HookHolds(s0, t0, l0)')
    BY <1>23 DEF BackfillSend, Running, Bulk, BulkHolds, HookHolds
  <2>4. BulkHolds(s, t0, l0) => Explained(t0, l0)'
    BY <1>23 DEF BackfillSend, Running, Bulk, BulkHolds, Explained, BulkWillCover, Waits, GlobalTasks
  <2>5. HookHolds(s, t0, l0) => Explained(t0, l0)'
    BY <1>23 DEF BackfillSend, Running, Bulk, HookHolds, Explained, HookWillCover, Waits, GlobalTasks
  <2>6. Waits("bulk", t)'
    BY <1>23, MessageFields DEF BackfillSend, Waits
  <2>7. rows \subseteq rows' /\ droppedLearners \subseteq droppedLearners'
        /\ (t0 \in droppedTasks => Explained(t0, l0)')
    BY <1>23, <2>6 DEF BackfillSend, Running, Bulk, Explained, BulkWillCover, Waits
  <2> QED
    BY <2>1, <2>2, <2>3, <2>4, <2>5, <2>7 DEF Explained, BulkWillCover, HookWillCover
<1>24. ASSUME NEW s \in Slots, BackfillFinish(s) PROVE GapIsExplained'
  <2> SUFFICES ASSUME NEW t0 \in GlobalTasks', NEW l0 \in active' PROVE Explained(t0, l0)'
    BY DEF GapIsExplained
  <2>1. Explained(t0, l0)
    BY <1>24 DEF BackfillFinish, GapIsExplained, GlobalTasks
  <2>2. \A k, x : Waits(k, x) => Waits(k, x)'
    BY <1>24 DEF BackfillFinish, Running, Release, Waits
  <2>3. \A s0 \in Slots \ {s} : (BulkHolds(s0, t0, l0) => BulkHolds(s0, t0, l0)')
                                /\ (HookHolds(s0, t0, l0) => HookHolds(s0, t0, l0)')
    BY <1>24 DEF BackfillFinish, Running, Release, BulkHolds, HookHolds
  <2>4. BulkHolds(s, t0, l0) => Explained(t0, l0)'
    BY <1>24 DEF BackfillFinish, Running, Release, BulkHolds, Explained, BulkWillCover, Waits, GlobalTasks
  <2>5. HookHolds(s, t0, l0) => Explained(t0, l0)'
    BY <1>24 DEF BackfillFinish, Running, Release, HookHolds, Explained, HookWillCover, Waits, GlobalTasks
  <2>6. rows \subseteq rows' /\ droppedLearners \subseteq droppedLearners'
        /\ (t0 \in droppedTasks => Explained(t0, l0)')
    BY <1>24 DEF BackfillFinish, Running, Release, Explained, BulkWillCover, Waits
  <2> QED
    BY <2>1, <2>2, <2>3, <2>4, <2>5, <2>6 DEF Explained, BulkWillCover, HookWillCover
<1>25. ASSUME NEW s \in Slots, Retry(s) PROVE GapIsExplained'
  <2> SUFFICES ASSUME NEW t0 \in GlobalTasks', NEW l0 \in active' PROVE Explained(t0, l0)'
    BY DEF GapIsExplained
  <2>1. Explained(t0, l0)
    BY <1>25 DEF Retry, GapIsExplained, GlobalTasks
  <2>2. \A k, x : Waits(k, x) => Waits(k, x)'
    BY <1>25 DEF Retry, Release, Drop, RetryLimit, Again, Waits
  <2>3. \A s0 \in Slots \ {s} : (BulkHolds(s0, t0, l0) => BulkHolds(s0, t0, l0)')
                                /\ (HookHolds(s0, t0, l0) => HookHolds(s0, t0, l0)')
    BY <1>25 DEF Retry, Release, Drop, RetryLimit, Again, BulkHolds, HookHolds
  <2>4. BulkHolds(s, t0, l0) => Waits("bulk", t0)' \/ t0 \in droppedTasks'
    BY <1>25, MessageFields DEF Retry, Drop, BulkHolds, Waits
  <2>5. HookHolds(s, t0, l0) => Waits("hook", l0)' \/ l0 \in droppedLearners'
    BY <1>25, MessageFields DEF Retry, Drop, HookHolds, Waits
  <2>6. rows \subseteq rows' /\ droppedLearners \subseteq droppedLearners'
        /\ (t0 \in droppedTasks => Explained(t0, l0)')
    BY <1>25 DEF Retry, Release, Drop, RetryLimit, Again, Explained, BulkWillCover, Waits
  <2> QED
    BY <2>1, <2>2, <2>3, <2>4, <2>5, <2>6 DEF Explained, BulkWillCover, HookWillCover
<1>26. ASSUME NEW s \in Slots, JobError(s) PROVE GapIsExplained'
  <2> SUFFICES ASSUME NEW t0 \in GlobalTasks', NEW l0 \in active' PROVE Explained(t0, l0)'
    BY DEF GapIsExplained
  <2>1. Explained(t0, l0)
    BY <1>26 DEF JobError, GapIsExplained, GlobalTasks
  <2>2. \A k, x : Waits(k, x) => Waits(k, x)'
    BY <1>26 DEF JobError, GoTo, Waits
  <2>3. \A s0 \in Slots \ {s} : (BulkHolds(s0, t0, l0) => BulkHolds(s0, t0, l0)')
                                /\ (HookHolds(s0, t0, l0) => HookHolds(s0, t0, l0)')
    BY <1>26 DEF JobError, GoTo, BulkHolds, HookHolds
  <2>4. BulkHolds(s, t0, l0) => Explained(t0, l0)'
    BY <1>26 DEF JobError, GoTo, BulkHolds, Explained, BulkWillCover, Waits, GlobalTasks
  <2>5. HookHolds(s, t0, l0) => Explained(t0, l0)'
    BY <1>26 DEF JobError, GoTo, HookHolds, Explained, HookWillCover, Waits, GlobalTasks
  <2>6. rows \subseteq rows' /\ droppedLearners \subseteq droppedLearners'
        /\ (t0 \in droppedTasks => Explained(t0, l0)')
    BY <1>26 DEF JobError, GoTo, Explained, BulkWillCover, Waits
  <2> QED
    BY <2>1, <2>2, <2>3, <2>4, <2>5, <2>6 DEF Explained, BulkWillCover, HookWillCover
<1>27. ASSUME NEW s \in Slots, Crash(s) PROVE GapIsExplained'
  <2> SUFFICES ASSUME NEW t0 \in GlobalTasks', NEW l0 \in active' PROVE Explained(t0, l0)'
    BY DEF GapIsExplained
  <2>1. Explained(t0, l0)
    BY <1>27 DEF Crash, GapIsExplained, GlobalTasks
  <2>2. \A k, x : Waits(k, x) => Waits(k, x)'
    BY <1>27 DEF Crash, Release, Waits
  <2>3. \A s0 \in Slots \ {s} : (BulkHolds(s0, t0, l0) => BulkHolds(s0, t0, l0)')
                                /\ (HookHolds(s0, t0, l0) => HookHolds(s0, t0, l0)')
    BY <1>27 DEF Crash, Release, BulkHolds, HookHolds
  <2>4. BulkHolds(s, t0, l0) => Explained(t0, l0)'
    BY <1>27 DEF Crash, Release, BulkHolds, Explained, BulkWillCover, Waits, GlobalTasks
  <2>5. HookHolds(s, t0, l0) => Explained(t0, l0)'
    BY <1>27 DEF Crash, Release, HookHolds, Explained, HookWillCover, Waits, GlobalTasks
  <2>6. rows \subseteq rows' /\ droppedLearners \subseteq droppedLearners'
        /\ (t0 \in droppedTasks => Explained(t0, l0)')
    BY <1>27 DEF Crash, Release, Explained, BulkWillCover, Waits
  <2> QED
    BY <2>1, <2>2, <2>3, <2>4, <2>5, <2>6 DEF Explained, BulkWillCover, HookWillCover
<1>28. ASSUME NEW s \in Slots, Redeliver(s) PROVE GapIsExplained'
  <2> SUFFICES ASSUME NEW t0 \in GlobalTasks', NEW l0 \in active' PROVE Explained(t0, l0)'
    BY DEF GapIsExplained
  <2>1. Explained(t0, l0)
    BY <1>28 DEF Redeliver, GapIsExplained, GlobalTasks
  <2>2. \A k, x : Waits(k, x) => Waits(k, x)'
    BY <1>28 DEF Redeliver, Waits
  <2>3. \A s0 \in Slots \ {s} : (BulkHolds(s0, t0, l0) => BulkHolds(s0, t0, l0)')
                                /\ (HookHolds(s0, t0, l0) => HookHolds(s0, t0, l0)')
    BY <1>28 DEF Redeliver, BulkHolds, HookHolds
  <2>4. BulkHolds(s, t0, l0) => Explained(t0, l0)'
    BY <1>28 DEF Redeliver, BulkHolds, Explained, BulkWillCover, Waits, GlobalTasks
  <2>5. HookHolds(s, t0, l0) => Explained(t0, l0)'
    BY <1>28 DEF Redeliver, HookHolds, Explained, HookWillCover, Waits, GlobalTasks
  <2>6. rows \subseteq rows' /\ droppedLearners \subseteq droppedLearners'
        /\ (t0 \in droppedTasks => Explained(t0, l0)')
    BY <1>28 DEF Redeliver, Explained, BulkWillCover, Waits
  <2> QED
    BY <2>1, <2>2, <2>3, <2>4, <2>5, <2>6 DEF Explained, BulkWillCover, HookWillCover
<1>29. CASE UNCHANGED vars
  BY <1>29 DEF vars, GapIsExplained, Explained, BulkWillCover, HookWillCover, BulkHolds, HookHolds, Waits, GlobalTasks
<1> HIDE DEF TypeOK, JobsWellFormed, Phases, Call, Fault, api, worker, dropped, Messages, BulkMessages, HookMessages, BackfillMessages, NoJob
<1> QED
  BY <1>1, <1>2, <1>3, <1>4, <1>5, <1>6, <1>7, <1>8, <1>9, <1>10, <1>11, <1>12, <1>13, <1>14, <1>15, <1>16, <1>17, <1>18, <1>19, <1>20, <1>21, <1>22, <1>23, <1>24, <1>25, <1>26, <1>27, <1>28, <1>29 DEF Next, Work

\* The initial state satisfies the inductive invariant.
LEMMA InitIInv == Init => IInv
<1> SUFFICES ASSUME Init PROVE IInv
  OBVIOUS
<1> USE DEF Init
<1>1. TypeOK
  BY DEF TypeOK, Phases
<1>2. JobsWellFormed
  BY DEF JobsWellFormed, NoJob
<1>3. UnbornIsUnknown
  BY DEF UnbornIsUnknown, NoJob
<1>4. InsertedSoFar
  BY DEF InsertedSoFar
<1>5. GapIsExplained /\ UnfinishedHasJob
  BY DEF GapIsExplained, GlobalTasks, UnfinishedHasJob, Exists
<1> QED
  BY <1>1, <1>2, <1>3, <1>4, <1>5 DEF IInv

\* Every step of Next keeps the inductive invariant: the step lemmas together.
LEMMA StepIInv == IInv /\ [Next]_vars => IInv'
  BY TypeStep, JobsStep, UnbornStep, InsertedStep, GapStep, UnfinishedStep DEF IInv

\* The inductive invariant holds in every behaviour.
LEMMA Invariant == Spec => []IInv
  BY InitIInv, StepIInv, PTL DEF Spec

\* The variables keep their types in every behaviour.
THEOREM TypeCorrect == Spec => []TypeOK
<1>1. IInv => TypeOK
  BY DEF IInv
<1> QED
  BY <1>1, Invariant, PTL

\* A missing row is always explained by a job on its way or by a dropped one.
THEOREM GapsAreExplained == Spec => []GapIsExplained
<1>1. IInv => GapIsExplained
  BY DEF IInv
<1> QED
  BY <1>1, Invariant, PTL

\* An unfinished task always has a job on its way, or its job was dropped.
THEOREM UnfinishedTasksHaveJobs == Spec => []UnfinishedHasJob
<1>1. IInv => UnfinishedHasJob
  BY DEF IInv
<1> QED
  BY <1>1, Invariant, PTL

\* "completed" is written only over a full set of rows.
THEOREM CompletionsAreHonest == Spec => CompletionIsHonest
<1> DEFINE Honest == \A t \in Tasks :
             gen[t] # "completed" /\ gen'[t] = "completed" =>
                \E s \in Slots : /\ job[s].kind = "bulk" /\ job[s].key = t
                                 /\ {t} \X ids[s] \subseteq rows
<1>1. IInv /\ [Next]_vars => [Honest]_vars
  <2> SUFFICES ASSUME IInv, Next, NEW t \in Tasks, gen[t] # "completed", gen'[t] = "completed"
               PROVE  \E s \in Slots : /\ job[s].kind = "bulk" /\ job[s].key = t
                                       /\ {t} \X ids[s] \subseteq rows
    BY DEF vars
  <2>1. PICK s \in Slots : BulkFinish(s)
    <3>1. ASSUME UNCHANGED gen PROVE FALSE
      BY <3>1
    <3>2. ASSUME NEW u \in Tasks, PostGlobalTask(u) PROVE FALSE
      BY <3>2 DEF PostGlobalTask, IInv, TypeOK
    <3>3. ASSUME NEW s \in Slots, BulkMark(s) PROVE FALSE
      BY <3>3 DEF BulkMark, IInv, TypeOK
    <3>4. ASSUME NEW s \in Slots, BulkMarkFailed(s) PROVE FALSE
      BY <3>4 DEF BulkMarkFailed, IInv, TypeOK
    <3> QED
      BY <3>1, <3>2, <3>3, <3>4
      DEF Next, Work, api, PostIndividualTask, LazyCreate, PatchScope, DeleteTask, ManualEnroll,
          AcceptInvitation, Suspend, Reactivate, BulkEnroll, Dispatch, LoseDispatch,
          RequestBackfill, Take, BulkRead, BulkInsert, HookRead, HookInsert, BackfillRead,
          BackfillSend, BackfillFinish, Retry, JobError, Crash, Redeliver
  <2>2. job[s].key = t /\ Exists(t)
    BY <2>1 DEF BulkFinish, IInv, TypeOK
  <2>3. \A l \in ids[s] : <<t, l>> \in rows
    BY <2>1, <2>2 DEF BulkFinish, Running, IInv, InsertedSoFar
  <2> QED
    BY <2>1, <2>2, <2>3 DEF BulkFinish, Running
<1> QED
  BY <1>1, Invariant, PTL DEF Spec, CompletionIsHonest

-----------------------------------------------------------------------------
(* What is owed.                                                           *)

\* What is owed to a learner is still owed after a step, or settled.
Owed(t, l) ==
    \/ BulkWillCover(t, l)'
    \/ <<t, l>> \in rows'
    \/ t \in droppedTasks'

LEMMA OwedStep ==
    ASSUME TypeOK, JobsWellFormed, [Next]_vars, NEW t0 \in Tasks, NEW l0 \in Learners,
           scope[t0] = "all", scope'[t0] = "all", l0 \in active, l0 \in active',
           BulkWillCover(t0, l0)
    PROVE  Owed(t0, l0)
<1> USE DEF TypeOK, JobsWellFormed, Phases, Exists, Owed, BulkWillCover, Waits, BulkHolds, Call, Fault, api, worker, dropped, Messages, BulkMessages, HookMessages, BackfillMessages, NoJob
<1>1. ASSUME NEW t \in Tasks, PostGlobalTask(t) PROVE Owed(t0, l0)
  BY <1>1 DEF PostGlobalTask, Bulk
<1>2. ASSUME NEW t \in Tasks, NEW l \in Learners, PostIndividualTask(t, l) PROVE Owed(t0, l0)
  BY <1>2 DEF PostIndividualTask
<1>3. ASSUME NEW t \in Tasks, NEW l \in Learners, LazyCreate(t, l) PROVE Owed(t0, l0)
  BY <1>3 DEF LazyCreate
<1>4. ASSUME NEW t \in Tasks, NEW sc \in {"individual", "all"}, PatchScope(t, sc) PROVE Owed(t0, l0)
  BY <1>4 DEF PatchScope, Exists
<1>5. ASSUME NEW t \in Tasks, DeleteTask(t) PROVE Owed(t0, l0)
  BY <1>5 DEF DeleteTask, Exists
<1>6. ASSUME NEW l \in Learners, ManualEnroll(l) PROVE Owed(t0, l0)
  BY <1>6 DEF ManualEnroll, Hook, Enrolled
<1>7. ASSUME NEW l \in Learners, AcceptInvitation(l) PROVE Owed(t0, l0)
  BY <1>7 DEF AcceptInvitation
<1>8. ASSUME NEW l \in Learners, Suspend(l) PROVE Owed(t0, l0)
  BY <1>8 DEF Suspend
<1>9. ASSUME NEW l \in Learners, Reactivate(l) PROVE Owed(t0, l0)
  BY <1>9 DEF Reactivate
<1>10. ASSUME NEW L \in SUBSET Learners, BulkEnroll(L) PROVE Owed(t0, l0)
  BY <1>10 DEF BulkEnroll, Enrolled
<1>11. ASSUME NEW m \in Messages, Dispatch(m) PROVE Owed(t0, l0)
  BY <1>11 DEF Dispatch
<1>12. ASSUME NEW m \in Messages, LoseDispatch(m) PROVE Owed(t0, l0)
  BY <1>12 DEF LoseDispatch, Drop
<1>13. ASSUME RequestBackfill PROVE Owed(t0, l0)
  BY <1>13 DEF RequestBackfill, Backfill
<1>14. ASSUME NEW s \in Slots, NEW m \in Messages, Take(s, m) PROVE Owed(t0, l0)
  BY <1>14 DEF Take, GoTo
<1>15. ASSUME NEW s \in Slots, BulkMark(s) PROVE Owed(t0, l0)
  BY <1>15 DEF BulkMark, Running, GoTo, Release, Exists
<1>16. ASSUME NEW s \in Slots, BulkRead(s) PROVE Owed(t0, l0)
  BY <1>16 DEF BulkRead, Running, GoTo
<1>17. ASSUME NEW s \in Slots, BulkInsert(s) PROVE Owed(t0, l0)
  BY <1>17 DEF BulkInsert, Running, GoTo, Batches, Exists
<1>18. ASSUME NEW s \in Slots, BulkFinish(s) PROVE Owed(t0, l0)
  BY <1>18 DEF BulkFinish, Running, Release, Exists
<1>19. ASSUME NEW s \in Slots, BulkMarkFailed(s) PROVE Owed(t0, l0)
  BY <1>19 DEF BulkMarkFailed, Running, GoTo, Exists
<1>20. ASSUME NEW s \in Slots, HookRead(s) PROVE Owed(t0, l0)
  BY <1>20 DEF HookRead, Running, GoTo, Release, GlobalTasks
<1>21. ASSUME NEW s \in Slots, HookInsert(s) PROVE Owed(t0, l0)
  BY <1>21 DEF HookInsert, Running, GoTo, Release, Exists
<1>22. ASSUME NEW s \in Slots, BackfillRead(s) PROVE Owed(t0, l0)
  BY <1>22 DEF BackfillRead, Running, GoTo, GlobalTasks
<1>23. ASSUME NEW s \in Slots, NEW t \in Tasks, BackfillSend(s, t) PROVE Owed(t0, l0)
  BY <1>23 DEF BackfillSend, Running, Bulk
<1>24. ASSUME NEW s \in Slots, BackfillFinish(s) PROVE Owed(t0, l0)
  BY <1>24 DEF BackfillFinish, Running, Release
<1>25. ASSUME NEW s \in Slots, Retry(s) PROVE Owed(t0, l0)
  <2>1. CASE Waits("bulk", t0)
    BY <1>25, <2>1 DEF Retry
  <2>2. ASSUME NEW s2 \in Slots, BulkHolds(s2, t0, l0), s2 # s
        PROVE  Owed(t0, l0)
    BY <1>25, <2>2 DEF Retry, Release
  <2>3. CASE BulkHolds(s, t0, l0)
    <3>1. CASE job[s].retries < RetryLimit(job[s])
      <4>1. Again(job[s]) \in queue'
        BY <1>25, <3>1 DEF Retry
      <4>2. Again(job[s]).kind = "bulk" /\ Again(job[s]).key = t0
        BY <2>3, MessageFields
      <4> QED
        BY <4>1, <4>2
    <3>2. CASE ~(job[s].retries < RetryLimit(job[s]))
      BY <1>25, <2>3, <3>2 DEF Retry, Drop
    <3> QED
      BY <3>1, <3>2
  <2> QED
    BY <2>1, <2>2, <2>3
<1>26. ASSUME NEW s \in Slots, JobError(s) PROVE Owed(t0, l0)
  BY <1>26 DEF JobError, GoTo
<1>27. ASSUME NEW s \in Slots, Crash(s) PROVE Owed(t0, l0)
  BY <1>27 DEF Crash, Release
<1>28. ASSUME NEW s \in Slots, Redeliver(s) PROVE Owed(t0, l0)
  BY <1>28 DEF Redeliver
<1>29. CASE UNCHANGED vars
  BY <1>29 DEF vars
<1> HIDE DEF TypeOK, JobsWellFormed, Phases, Exists, Owed, BulkWillCover, Waits, BulkHolds, Call, Fault, api, worker, dropped, Messages, BulkMessages, HookMessages, BackfillMessages, NoJob
<1> QED
  BY <1>1, <1>2, <1>3, <1>4, <1>5, <1>6, <1>7, <1>8, <1>9, <1>10, <1>11, <1>12, <1>13, <1>14, <1>15, <1>16, <1>17, <1>18, <1>19, <1>20, <1>21, <1>22, <1>23, <1>24, <1>25, <1>26, <1>27, <1>28, <1>29 DEF Next, Work

\* What a bulk job owes it goes on owing, through crashes, second deliveries and
\* retries, until the learner has the row or the job is dropped.
THEOREM OwedIsSettled == Spec => OwedUntilCovered
<1> DEFINE Kept == \A t \in GlobalTasks \cap GlobalTasks', l \in active \cap active' :
                     BulkWillCover(t, l) => Owed(t, l)
<1>1. IInv /\ [Next]_vars => [Kept]_vars
  <2> SUFFICES ASSUME IInv, Next, NEW t \in GlobalTasks \cap GlobalTasks', NEW l \in active \cap active',
                      BulkWillCover(t, l)
               PROVE  Owed(t, l)
    BY DEF vars
  <2>1. t \in Tasks /\ scope[t] = "all" /\ scope'[t] = "all" /\ l \in Learners
    BY DEF GlobalTasks, IInv, TypeOK
  <2> QED
    BY <2>1, OwedStep DEF IInv
<1> QED
  BY <1>1, Invariant, PTL DEF Spec, OwedUntilCovered, Owed
=============================================================================
