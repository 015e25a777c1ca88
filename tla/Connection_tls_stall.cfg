SPECIFICATION Spec
CONSTANTS
    Tls = TRUE
    DefaultPlugin = "sha2"
    Accounts <- MCAccounts
    Clients <- TlsClient
    Commands <- Simple
    Outcomes <- SmallOutcomes
    Shapes <- Good
    Unserved = {}
    MaxCommands = 1
    MaxPipeline = 1
    MaxBatch = 1
    MaxParams = 0
    SeqIds = 4
    IdMod = 8
    ParamMod = 8
PROPERTIES
    HandshakeEnds
