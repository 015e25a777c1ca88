\* One connection changes a schema in every way, the other works on another table.
SPECIFICATION Spec
CONSTANTS
    c1 = c1
    c2 = c2
    Conns <- TwoConns
    Statements <- Ddl
    InitialDb <- AutoTable
    LogErrors = {}
    MaxCrashes = 0
    MaxRows = 2
    MaxNext = 4
    MaxInt = 99
INVARIANTS LiveMatchesReplay RowsMatchSchema CheckpointEquivalent
