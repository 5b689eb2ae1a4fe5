\* Two threads that write nothing: length 0.
CONSTANTS
    INODE_TABLE_SIZE = 3
    DATA_BLOCKS = 2
    MAX_OPEN_FILES = 2
    MAX_DIR_ENTRIES = 1
    BLOCK_SIZE = 2
    MAX_DIRECT_BLOCKS = 1
    INT_SIZE = 2
    SIZE_T = 64
    Names = {n1, n2}
    NoName = NoName
    Stored <- ShortNames
    n1 = n1
    n2 = n2
    n3 = n3
    Bytes = {b1}
    b1 = b1
    b2 = b2
    Blank = Blank
    IntOf <- NoNumbers
    Threads = {t1, t2}
    NoThread = NoThread
    Destroyers = {}
    Copiers = {}
    FlagSets <- CreatOnly
    Lens = {0}
    Texts <- OneText
    Unaligned = FALSE
    SharedClose = FALSE
    HalfTrunc = FALSE
    MaxInits = 1
SPECIFICATION FairSpec
PROPERTY CallsReturn
