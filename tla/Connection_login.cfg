\* Every kind of client logs in, or fails to, and sends commands.
SPECIFICATION Spec
CONSTANTS
    Tls = TRUE
    DefaultPlugin = "sha2"
    Accounts <- MCAccounts
    Clients <- AllLogins
    Commands <- Queries
    Outcomes <- SmallOutcomes
    Shapes <- AnyShape
    Unserved <- EveryUnserved
    MaxCommands = 2
    MaxPipeline = 2
    MaxBatch = 2
    MaxParams = 0
    SeqIds = 4
    IdMod = 8
    ParamMod = 8
INVARIANTS
    HonestAdmitted
PROPERTIES
    ConnectingEnds
    EveryCommandAnswered
