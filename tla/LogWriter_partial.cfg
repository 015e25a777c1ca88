\* write_all may fail part-way: is an acknowledged write still safe?
SPECIFICATION Spec
CONSTANTS
    Records = {r1, r2}
    Fragment = Fragment
    QueueCapacity = 1
    SyncPolicy = "Always"
    WriteFaults = TRUE
    SyncFaults = FALSE
    PowerLoss = FALSE
    MaxCrashes = 1
INVARIANT AckedSurvives
CHECK_DEADLOCK FALSE
