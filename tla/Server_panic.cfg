SPECIFICATION Spec
CONSTANTS
    p1 = p1
    p2 = p2
    p3 = p3
    Peers <- TwoPeers
    MaxConnections = 2
    MaxAttempts = 1
    MaxErrors = 0
    Panics = TRUE
INVARIANTS
    ActiveIsOpen
