SPECIFICATION FairSpec
CONSTANTS
    Tasks = {t1}
    Learners = {l1}
    Slots = {s1, s2}
    ConsumedQueues = {"default", "reconcile", "notifications", "reminders"}
    BatchSize = 1
    BulkRetries = 1
    HookRetries = 0
    MaxCalls = 2
    MaxFaults = 0
PROPERTY PendingIsHandled
CHECK_DEADLOCK FALSE
