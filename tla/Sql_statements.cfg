\* Statements in many spellings, with a word missing, in batches and prepared.
SPECIFICATION Spec
CONSTANTS
    MaxInt = 99
    U8 = 4
    UpperCase <- MCUpperCase
    Letters <- MCLetters
    Requests <- MCRequests
    Suites = {"spellings", "drops", "batches", "prepared"}
INVARIANTS
    ParsesAsMeant
    BindIsSubstitution
    EveryWordCounts
