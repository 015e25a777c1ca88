\* ALTER TABLE MODIFY COLUMN of the primary key to a type in which two keys are equal.
SPECIFICATION Spec
CONSTANTS
    c1 = c1
    c2 = c2
    Conns <- TwoConns
    Statements <- ModifyKey
    InitialDb <- TextTable
    LogErrors = {}
    MaxCrashes = 0
    MaxRows = 3
    MaxNext = 9
    MaxInt = 99
INVARIANTS KeysUnique
CHECK_DEADLOCK FALSE
