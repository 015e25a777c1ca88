SPECIFICATION Spec
CONSTANTS
    Tls = FALSE
    DefaultPlugin = "sha2"
    Accounts <- MCAccounts
    Clients <- OneClient
    Commands <- Queries
    Outcomes <- HugeOutcomes
    Shapes <- Good
    Unserved = {}
    MaxCommands = 1
    MaxPipeline = 1
    MaxBatch = 1
    MaxParams = 0
    SeqIds = 4
    IdMod = 8
    ParamMod = 8
INVARIANTS
    QueryErrorsKeepConnection
