\* Transactions and autocommit inserts on two tables, with generated keys, failing appends and a restart.
SPECIFICATION FairSpec
CONSTANTS
    c1 = c1
    c2 = c2
    Conns <- TwoConns
    Statements <- Dml
    InitialDb <- MixedTables
    LogErrors = {"absent"}
    MaxCrashes = 1
    MaxRows = 2
    MaxNext = 4
    MaxInt = 99
INVARIANTS
    LiveMatchesReplay
    KeysUnique
    CommitNeverConflicts
    LocksMatchWork
    NeverReused
PROPERTIES
    ImplementsTxStore
    EveryStatementAnswered
