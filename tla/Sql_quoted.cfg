\* Quoted names that are words of the grammar.
SPECIFICATION Spec
CONSTANTS
    MaxInt = 99
    U8 = 4
    UpperCase <- MCUpperCase
    Letters <- MCLetters
    Requests <- MCRequests
    Suites = {"quotedWords"}
INVARIANTS
    ParsesAsMeant
