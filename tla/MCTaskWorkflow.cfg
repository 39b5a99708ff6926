SPECIFICATION Spec
CONSTANTS
    r1 = r1
    r2 = r2
    r3 = r3
    t1 = t1
    t2 = t2
    l1 = l1
    l2 = l2
    Tasks <- TheTasks
    Learners <- TheLearners
    Requests <- TheRequests
    Changes <- TheChanges
CONSTRAINT OneOrTheOther
SYMMETRY Interchangeable
INVARIANTS
    TypeOK
    VerdictIsOnLatestWork
    UnjudgedIsVisible
    ScoreIsCurrent
    TaskFollowsAssignment
    CirclesHaveALateLock
CHECK_DEADLOCK FALSE
