\* Two threads create, write, read and close two files of one direct block of
\* two bytes and an indirect block of one int, until i-nodes, blocks and handles
\* run out.
CONSTANTS
    INODE_TABLE_SIZE = 3
    DATA_BLOCKS = 4
    MAX_OPEN_FILES = 2
    MAX_DIR_ENTRIES = 2
    BLOCK_SIZE = 2
    MAX_DIRECT_BLOCKS = 1
    INT_SIZE = 2
    SIZE_T = 64
    Names = {n1, n2, n3}
    NoName = NoName
    Stored <- ShortNames
    n1 = n1
    n2 = n2
    n3 = n3
    Bytes = {b1, b2}
    b1 = b1
    b2 = b2
    Blank = Blank
    IntOf <- NoNumbers
    Threads = {t1, t2}
    NoThread = NoThread
    Destroyers = {}
    Copiers = {}
    FlagSets <- CreatOnly
    Lens = {3}
    Texts <- OwnTexts
    Unaligned = FALSE
    SharedClose = FALSE
    HalfTrunc = FALSE
    MaxInits = 1
SPECIFICATION Spec
SYMMETRY Symmetry
INVARIANT BlocksOwned DirectoryConsistent LocksReturned
PROPERTY HandleKeepsFile ImplementsFineFiles ChangedUnderLock
