\* The process is killed, and the machine fails, between any two steps.
SPECIFICATION Spec
CONSTANTS
    Updates = {u1, u2, u3}
    Fragment = Fragment
    Inodes = {1, 2, 3, 4, 5, 6, 7}
    SyncPolicy = "Always"
    MaxCrashes = 2
    MaxOutages = 2
SYMMETRY Symmetry
INVARIANTS
    AckedSurvivesOutage
    CheckpointPreserves
