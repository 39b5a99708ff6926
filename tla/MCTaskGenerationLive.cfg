SPECIFICATION FairSpec
CONSTANTS
    Tasks = {t1}
    Learners = {l1, l2}
    Slots = {s1}
    ConsumedQueues = {"default", "tasks"}
    BatchSize = 1
    BulkRetries = 1
    HookRetries = 0
    MaxCalls = 3
    MaxFaults = 2
PROPERTIES DeliveredJobCovers PendingIsHandled
CHECK_DEADLOCK FALSE
