\* sync_data may fail: is a write that returned an error really absent?
SPECIFICATION Spec
CONSTANTS
    Records = {r1, r2}
    Fragment = Fragment
    QueueCapacity = 1
    SyncPolicy = "Always"
    WriteFaults = FALSE
    SyncFaults = TRUE
    PowerLoss = FALSE
    MaxCrashes = 1
INVARIANT FailedNeverHappened
