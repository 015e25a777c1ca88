\* Two CREATE TABLE of one name, and an insert: does replay lose data?
SPECIFICATION Spec
CONSTANTS
    c1 = c1
    c2 = c2
    Conns <- TwoConns
    Statements <- CreateRace
    InitialDb <- Empty
    LogErrors = {}
    MaxCrashes = 0
    MaxRows = 3
    MaxNext = 9
    MaxInt = 99
INVARIANTS ReplayReproduces
