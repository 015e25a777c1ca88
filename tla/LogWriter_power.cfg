\* SyncPolicy Always, with process crashes, power failures and failing syncs.
SPECIFICATION Spec
CONSTANTS
    Records = {r1, r2, r3}
    Fragment = Fragment
    QueueCapacity = 2
    SyncPolicy = "Always"
    WriteFaults = FALSE
    SyncFaults = TRUE
    PowerLoss = TRUE
    MaxCrashes = 2
INVARIANTS AckedSurvives GracefulDrain AlwaysReopens
PROPERTY ImplementsDurableLog
