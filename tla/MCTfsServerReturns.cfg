\* Two clients that mount once and do not unmount; one handle.
CONSTANTS
    Clients = {c1, c2}
    NoClient = NoClient
    MAX_CLIENTS = 3
    MaxMounts = 2
    Names = {n1}
    NoName = NoName
    Files <- MCFiles
    Handles <- MCHandles
    Bytes = {a}
    Capacity = 1
    FlagSets <- MCFlagSets
    Ops <- CloseOps
    EofReads = FALSE
    Remounts = FALSE
SPECIFICATION FairSpec
CHECK_DEADLOCK FALSE
PROPERTY CallsReturn ShutdownReturns
