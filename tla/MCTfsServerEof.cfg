\* A client reads where its file has ended.
CONSTANTS
    Clients = {c1, c2}
    NoClient = NoClient
    MAX_CLIENTS = 3
    MaxMounts = 2
    Names = {n1}
    NoName = NoName
    Files <- MCFiles
    Handles <- MCHandles
    Bytes = {a}
    Capacity = 1
    FlagSets <- MCFlagSets
    Ops <- ReadOps
    EofReads = TRUE
    Remounts = FALSE
SPECIFICATION FairSpec
CHECK_DEADLOCK FALSE
PROPERTY CallsReturn
