\* Entries of every kind, with a process that dies writing and a damaged byte.
SPECIFICATION Spec
CONSTANTS
    Texts <- MCTexts
    Entries <- MCEntries
    Masks <- MCMasks
    MaxRecords = 2
    MaxFaults = 1
INVARIANTS
    ReplayExact
    NeverMisread
    DamageRefused
