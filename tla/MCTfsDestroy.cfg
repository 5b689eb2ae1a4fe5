\* Opens, closes, tfs_destroy_after_all_closed and a second tfs_init, with
\* fewer handles than threads and fewer i-nodes than names; the root directory
\* has the only block, so every write fails.
CONSTANTS
    INODE_TABLE_SIZE = 2
    DATA_BLOCKS = 1
    MAX_OPEN_FILES = 2
    MAX_DIR_ENTRIES = 2
    BLOCK_SIZE = 1
    SIZE_T = 4
    Names = {n1, n2}
    NoName = NoName
    n1 = n1
    n2 = n2
    n3 = n3
    Stored <- MCStored
    Bytes = {a}
    Blank = Blank
    Threads = {t1, t2, t3}
    NoThread = NoThread
    Destroyers = {t3}
    FlagSets <- CreatAndPlain
    Lens = {1}
    SharedTrunc = FALSE
    MaxInits = 2
SPECIFICATION FairSpec
INVARIANT OpenCountCovers
PROPERTY ImplementsTfsFiles DestroyOnlyWhenNoneOpen OpenReturns DestroyReturns
