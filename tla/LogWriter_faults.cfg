\* write_all and sync_data may fail: every caller is still answered and the server can stop.
SPECIFICATION FairSpec
CONSTANTS
    Records = {r1, r2, r3}
    Fragment = Fragment
    QueueCapacity = 1
    SyncPolicy = "Always"
    WriteFaults = TRUE
    SyncFaults = TRUE
    PowerLoss = FALSE
    MaxCrashes = 1
PROPERTIES EveryAppendAnswered ShutdownEnds
\* A store that refuses to open stays down.
CHECK_DEADLOCK FALSE
