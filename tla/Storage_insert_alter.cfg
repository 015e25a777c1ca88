\* ALTER TABLE while an INSERT is between its check and its apply.
SPECIFICATION Spec
CONSTANTS
    c1 = c1
    c2 = c2
    Conns <- TwoConns
    Statements <- InsertAlter
    InitialDb <- KeyedTable
    LogErrors = {}
    MaxCrashes = 0
    MaxRows = 3
    MaxNext = 9
    MaxInt = 99
INVARIANTS RowsMatchSchema
CHECK_DEADLOCK FALSE
