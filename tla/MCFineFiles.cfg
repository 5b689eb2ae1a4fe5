\* One thread writes, reads, copies pieces and truncates two files of two direct
\* blocks of four bytes and an indirect block of two ints.
CONSTANTS
    INODE_TABLE_SIZE = 3
    DATA_BLOCKS = 6
    MAX_OPEN_FILES = 1
    MAX_DIR_ENTRIES = 2
    BLOCK_SIZE = 4
    MAX_DIRECT_BLOCKS = 2
    INT_SIZE = 2
    SIZE_T = 64
    Names = {n1, n2}
    NoName = NoName
    Stored <- ShortNames
    n1 = n1
    n2 = n2
    n3 = n3
    Bytes = {b1, b2}
    b1 = b1
    b2 = b2
    Blank = Blank
    IntOf <- NoNumbers
    Threads = {t1}
    NoThread = NoThread
    Destroyers = {}
    Copiers = {}
    FlagSets <- AllFlags
    Lens = {0, 6}
    Texts <- OwnTexts
    Unaligned = FALSE
    SharedClose = FALSE
    HalfTrunc = FALSE
    MaxInits = 1
SPECIFICATION Spec
SYMMETRY Symmetry
INVARIANT TypeOK BlocksOwned ReadsBack
PROPERTY ImplementsFineFiles
