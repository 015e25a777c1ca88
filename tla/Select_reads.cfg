\* Every kind of SELECT and SHOW while others commit rows and add a column.
SPECIFICATION Spec
CONSTANTS
    MaxInt = 50000
    TextRank <- Text
    LowerCase <- Small
    NameRank <- Rank
    Version <- VersionText
    MaxAllowedPacket = 70000
    WaitTimeout = 28800
    FixedVariables <- SomeVariables
    Workloads <- Reads
    MaxWrites = 2
INVARIANTS
    RowsFromOneState
    JoinIsEquality
    AnswersWellTyped
    VariablesAsAsked
    PageCorrect
    AggregatesExact
