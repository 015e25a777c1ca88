\* ALTER TABLE ADD COLUMN while the reader has rows pending.
SPECIFICATION Spec
CONSTANTS
    MaxInt = 50000
    TextRank <- Text
    LowerCase <- Small
    NameRank <- Rank
    Version <- VersionText
    MaxAllowedPacket = 70000
    WaitTimeout = 28800
    FixedVariables <- SomeVariables
    Workloads <- PendingAlter
    MaxWrites = 1
INVARIANTS
    NoPanic
