\* Every command, pipelined, with every kind of result.
SPECIFICATION Spec
CONSTANTS
    Tls = FALSE
    DefaultPlugin = "sha2"
    Accounts <- MCAccounts
    Clients <- AllCapabilities
    Commands <- AllCommands
    Outcomes <- SmallOutcomes
    Shapes = {"good", "malformed"}
    Unserved = {"split"}
    MaxCommands = 3
    MaxPipeline = 2
    MaxBatch = 2
    MaxParams = 2
    SeqIds = 4
    IdMod = 8
    ParamMod = 8
INVARIANTS
    ClientInStep
    AnswersInOrder
    StatementsAgree
