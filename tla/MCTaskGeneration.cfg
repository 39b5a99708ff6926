SPECIFICATION Spec
CONSTANTS
    Tasks = {t1, t2}
    Learners = {l1, l2}
    Slots = {s1, s2}
    ConsumedQueues = {"default", "tasks"}
    BatchSize = 1
    BulkRetries = 1
    HookRetries = 1
    MaxCalls = 4
    MaxFaults = 1
SYMMETRY Symmetry
INVARIANTS TypeOK GapIsExplained UnfinishedHasJob
PROPERTIES CompletionIsHonest OwedUntilCovered
CHECK_DEADLOCK FALSE
