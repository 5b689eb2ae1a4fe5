\* A file is truncated while a handle is open on it.
CONSTANTS
    INODE_TABLE_SIZE = 2
    DATA_BLOCKS = 3
    MAX_OPEN_FILES = 2
    MAX_DIR_ENTRIES = 2
    BLOCK_SIZE = 2
    SIZE_T = 8
    Names = {n1, n2}
    NoName = NoName
    n1 = n1
    n2 = n2
    n3 = n3
    Stored <- MCStored
    Bytes = {a}
    Blank = Blank
    Threads = {t1, t3}
    NoThread = NoThread
    Destroyers = {t3}
    FlagSets <- TruncFlags
    Lens = {1}
    SharedTrunc = TRUE
    MaxInits = 2
SPECIFICATION Spec
PROPERTY ReadStaysInFile
