\* Two clients and three mounts, the last of which is refused: a client mounts
\* again after it has unmounted; two handles.
CONSTANTS
    Clients = {c1, c2}
    NoClient = NoClient
    MAX_CLIENTS = 3
    MaxMounts = 3
    Names = {n1}
    NoName = NoName
    Files <- MCFiles
    Handles <- TwoHandles
    Bytes = {a}
    Capacity = 1
    FlagSets <- MCFlagSets
    Ops <- AllOps
    EofReads = TRUE
    Remounts = TRUE
SYMMETRY Symmetry
SPECIFICATION Spec
CHECK_DEADLOCK FALSE
INVARIANT TypeOK RequestInOnePlace AnswersMatchCalls SessionsApart OneShutdown ShutdownAnswered
