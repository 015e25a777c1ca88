\* A multi-row INSERT that fails inside a transaction.
SPECIFICATION Spec
CONSTANTS
    c1 = c1
    c2 = c2
    Conns <- TwoConns
    Statements <- PartialInsert
    InitialDb <- KeyedTable
    LogErrors = {}
    MaxCrashes = 0
    MaxRows = 3
    MaxNext = 9
    MaxInt = 99
INVARIANTS StatementAllOrNothing
