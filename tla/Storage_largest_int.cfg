\* The largest integer in an AUTO_INCREMENT column.
SPECIFICATION Spec
CONSTANTS
    c1 = c1
    c2 = c2
    Conns <- TwoConns
    Statements <- LargestInt
    InitialDb <- AutoTable
    LogErrors = {}
    MaxCrashes = 0
    MaxRows = 3
    MaxNext = 9
    MaxInt = 7
INVARIANTS StaysAhead
