\* Three clients around a limit of two, with panics and a shutdown.
SPECIFICATION Spec
CONSTANTS
    p1 = p1
    p2 = p2
    p3 = p3
    Peers <- ThreePeers
    MaxConnections = 2
    MaxAttempts = 2
    MaxErrors = 1
    Panics = TRUE
INVARIANTS
    CountsMatch
PROPERTIES
    ShutdownEnds
