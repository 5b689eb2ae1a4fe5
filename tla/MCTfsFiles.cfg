\* Reads, writes, truncation and exhaustion of i-nodes, blocks, directory
\* slots and handles, two threads; every file is two bytes at most.
CONSTANTS
    INODE_TABLE_SIZE = 4
    DATA_BLOCKS = 3
    MAX_OPEN_FILES = 2
    MAX_DIR_ENTRIES = 2
    BLOCK_SIZE = 2
    SIZE_T = 8
    Names = {n1, n2, n3}
    NoName = NoName
    n1 = n1
    n2 = n2
    n3 = n3
    Stored <- MCStored
    Bytes = {a}
    Blank = Blank
    Threads = {t1, t2}
    NoThread = NoThread
    Destroyers = {}
    FlagSets <- FileFlags
    Lens = {1, 3}
    SharedTrunc = FALSE
    MaxInits = 1
SPECIFICATION Spec
SYMMETRY Symmetry
INVARIANT TypeOK DirectoryConsistent BlocksOwned OffsetWithinSize
PROPERTY HandleKeepsFile ImplementsTfsFiles
