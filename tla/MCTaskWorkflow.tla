--------------------------- MODULE MCTaskWorkflow ---------------------------
(* Two tasks, two learners and three requests, in one of two mixes: requests *)
(* of any kind about one task, or submissions and approvals of one learner's *)
(* two tasks.                                                                *)
EXTENDS TaskWorkflow, TLC

CONSTANTS r1, r2, r3, t1, t2, l1, l2

TheTasks == {t1, t2}
TheLearners == {l1, l2}
TheRequests == {r1, r2, r3}

TheChanges == {"assigned", "completed", "approved", "revision_requested"}

Begun == {r \in Requests : phase[r] # "new"}

\* The other task has no learner and gets no request.
OneTask ==
    \E t \in Tasks : \A u \in Tasks \ {t} :
        /\ scope[u] = "individual" /\ first[u].by = "none"
        /\ \A r \in Begun : task[r] # u

\* The other learner has no task and makes no request.
OneLearner ==
    /\ \A r \in Begun : kind[r] \in {"submit", "review"} /\ want[r] \in {"none", "approved"}
    /\ \E l \in Learners : \A k \in Learners \ {l} :
          /\ \A t \in Tasks : status[t][k] = "none"
          /\ \A r \in Begun : who[r] # k

\* Bound: the states that a run explores.
OneOrTheOther == OneTask \/ OneLearner

Interchangeable ==
    Permutations(TheRequests) \cup Permutations(TheTasks) \cup Permutations(TheLearners)
=============================================================================
