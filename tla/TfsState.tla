------------------------------ MODULE TfsState ------------------------------
(***************************************************************************)
(* The tables that src/parte-2/fs/state.c keeps, and what its functions do *)
(* to them.  There are no locks here: TfsOperations says who holds which   *)
(* lock around each of these steps.                                        *)
(*                                                                         *)
(* Data abstraction.  A path name is a member of Names; Stored maps a path *)
(* name to the one its directory entry is later found under (strncpy keeps *)
(* 39 characters, and tfs_open drops the first character without looking   *)
(* at it, so a name that is too long or lacks the leading '/' is stored as *)
(* another).  A byte is a member of Bytes; Blank is what a byte of fs_data *)
(* is before anything is written to it.  The contents of the root          *)
(* directory's block are root_dir, those of the other blocks fs_data.      *)
(***************************************************************************)
EXTENDS Integers, FiniteSets

CONSTANTS
    INODE_TABLE_SIZE, DATA_BLOCKS, MAX_OPEN_FILES, MAX_DIR_ENTRIES, BLOCK_SIZE,
    SIZE_T,             \* the number of values of a size_t
    Names, Stored, NoName, Bytes, Blank

ASSUME SizesAssumption ==
    /\ INODE_TABLE_SIZE \in Nat \ {0} /\ DATA_BLOCKS \in Nat \ {0}
    /\ MAX_OPEN_FILES \in Nat \ {0}   /\ MAX_DIR_ENTRIES \in Nat \ {0}
    /\ BLOCK_SIZE \in Nat \ {0}       /\ SIZE_T \in Nat \ {0}
    /\ SIZE_T > 2 * BLOCK_SIZE

ASSUME NamesAssumption == Stored \in [Names -> Names]

VARIABLES
    inode_table,        \* [i_size, i_data_block] of every i-node
    freeinode_ts,
    fs_data,
    free_blocks,
    root_dir,           \* the entries of the root directory
    open_file_table,    \* [of_inumber, of_offset] of every open file entry
    free_open_file_entries,
    open_files_count,
    open_flag

fileVars == <<inode_table, freeinode_ts, fs_data, free_blocks, root_dir>>
entryVars == <<open_file_table, free_open_file_entries, open_files_count>>
stateVars == <<fileVars, entryVars, open_flag>>

FREE == 0
TAKEN == 1
ROOT_DIR_INUM == 0

Inums == 0 .. INODE_TABLE_SIZE - 1
Blocks == 0 .. DATA_BLOCKS - 1
Handles == 0 .. MAX_OPEN_FILES - 1
DirSlots == 0 .. MAX_DIR_ENTRIES - 1

\* The element a scan from index 0 upwards finds first in a table.
IsFirst(S, x) == x \in S /\ \A y \in S : x <= y

FreeInodes == {i \in Inums : freeinode_ts[i] = FREE}
FreeBlocks == {b \in Blocks : free_blocks[b] = FREE}
FreeEntries == {h \in Handles : free_open_file_entries[h] = FREE}
TakenEntries == {h \in Handles : free_open_file_entries[h] = TAKEN}
EmptySlots == {s \in DirSlots : root_dir[s].d_inumber = -1}

\* The directory entries that find_in_dir accepts for a name.
Named(name) ==
    {s \in DirSlots : root_dir[s].d_inumber # -1 /\ root_dir[s].d_name = name}

-----------------------------------------------------------------------------
(* state_init followed by the inode_create(T_DIRECTORY) of tfs_init: what   *)
(* they set ...                                                             *)

RootInode == [i_size |-> BLOCK_SIZE, i_data_block |-> 0]
FreshInodeMap == [i \in Inums |-> IF i = ROOT_DIR_INUM THEN TAKEN ELSE FREE]
FreshBlockMap == [b \in Blocks |-> IF b = 0 THEN TAKEN ELSE FREE]
FreshEntryMap == [h \in Handles |-> FREE]
\* Only d_inumber is set: the name of an empty slot is never read.
FreshDir == [s \in DirSlots |-> [d_inumber |-> -1, d_name |-> NoName]]

(* ... and the static storage of the process before the first tfs_init.     *)

StateInit ==
    /\ inode_table = [i \in Inums |->
            IF i = ROOT_DIR_INUM THEN RootInode
                                 ELSE [i_size |-> 0, i_data_block |-> 0]]
    /\ freeinode_ts = FreshInodeMap
    /\ fs_data = [b \in Blocks |-> [k \in 0 .. BLOCK_SIZE - 1 |-> Blank]]
    /\ free_blocks = FreshBlockMap
    /\ root_dir = FreshDir
    /\ open_file_table = [h \in Handles |-> [of_inumber |-> 0, of_offset |-> 0]]
    /\ free_open_file_entries = FreshEntryMap
    /\ open_files_count = 0
    /\ open_flag = 1

(* Variant: the root directory is not labelled empty again.                 *)
StateResetKeepsDir ==
    /\ inode_table' = [inode_table EXCEPT ![ROOT_DIR_INUM] = RootInode]
    /\ freeinode_ts' = FreshInodeMap
    /\ free_blocks' = FreshBlockMap
    /\ free_open_file_entries' = FreshEntryMap
    /\ open_flag' = 1
    /\ UNCHANGED <<root_dir, fs_data, open_file_table, open_files_count>>

(* A further tfs_init leaves fs_data, the stale i-nodes, the stale open     *)
(* file entries and open_files_count as they are.                           *)
StateReset ==
    /\ inode_table' = [inode_table EXCEPT ![ROOT_DIR_INUM] = RootInode]
    /\ freeinode_ts' = FreshInodeMap
    /\ free_blocks' = FreshBlockMap
    /\ root_dir' = [s \in DirSlots |-> [root_dir[s] EXCEPT !.d_inumber = -1]]
    /\ free_open_file_entries' = FreshEntryMap
    /\ open_flag' = 1
    /\ UNCHANGED <<fs_data, open_file_table, open_files_count>>

-----------------------------------------------------------------------------
(* A new file: an i-node of size 0 without a block, and a directory entry.  *)

NewInode(i) ==
    inode_table' = [inode_table EXCEPT ![i] = [i_size |-> 0, i_data_block |-> -1]]

LinkedInode(i, s, name) ==
    /\ freeinode_ts' = [freeinode_ts EXCEPT ![i] = TAKEN]
    /\ root_dir' = [root_dir EXCEPT ![s] =
                        [d_inumber |-> i, d_name |-> Stored[name]]]

\* Variant: the i-node is not given back.
DeletedInodeForgotten(i) ==
    /\ freeinode_ts' = [freeinode_ts EXCEPT ![i] = TAKEN]
    /\ UNCHANGED root_dir

\* inode_delete of the i-node just created, which has no block to free.
DeletedInode(i) ==
    /\ freeinode_ts' = [freeinode_ts EXCEPT ![i] = FREE]
    /\ UNCHANGED root_dir

\* Variant: the size is not reset.
TruncatedInodeKeepsSize(i) ==
    IF inode_table[i].i_size > 0
    THEN /\ free_blocks' = [free_blocks EXCEPT ![inode_table[i].i_data_block] = FREE]
         /\ UNCHANGED inode_table
    ELSE UNCHANGED <<inode_table, free_blocks>>

\* TFS_O_TRUNC: the block is freed, but i_data_block keeps its number.
TruncatedInode(i) ==
    IF inode_table[i].i_size > 0
    THEN /\ free_blocks' = [free_blocks EXCEPT ![inode_table[i].i_data_block] = FREE]
         /\ inode_table' = [inode_table EXCEPT ![i].i_size = 0]
    ELSE UNCHANGED <<inode_table, free_blocks>>

-----------------------------------------------------------------------------
(* The sections that add_to_open_file_table and remove_from_open_file_table *)
(* run under open_files_mutex.                                              *)

\* Variant: the new entry is not counted.
EntryAddedUncounted(h, inum, offset) ==
    /\ free_open_file_entries' = [free_open_file_entries EXCEPT ![h] = TAKEN]
    /\ open_file_table' = [open_file_table EXCEPT ![h] =
                                [of_inumber |-> inum, of_offset |-> offset]]
    /\ UNCHANGED open_files_count

EntryAdded(h, inum, offset) ==
    /\ free_open_file_entries' = [free_open_file_entries EXCEPT ![h] = TAKEN]
    /\ open_file_table' = [open_file_table EXCEPT ![h] =
                                [of_inumber |-> inum, of_offset |-> offset]]
    /\ open_files_count' = open_files_count + 1

EntryRemoved(h) ==
    /\ open_files_count' = open_files_count - 1
    /\ free_open_file_entries' = [free_open_file_entries EXCEPT ![h] = FREE]
    /\ UNCHANGED open_file_table

\* Variant: the test comes before the decrement.
LastClosedBefore == open_files_count = 0

\* The test, after the decrement, on which open_files_cond is signalled.
LastClosed == open_files_count' = 0

-----------------------------------------------------------------------------
Inode == [i_size : 0 .. BLOCK_SIZE, i_data_block : Blocks \cup {-1}]
Block == [0 .. BLOCK_SIZE - 1 -> Bytes \cup {Blank}]
DirEntry == [d_inumber : Inums \cup {-1}, d_name : Names \cup {NoName}]
OpenFileEntry == [of_inumber : Inums, of_offset : Nat]

StateTypeOK ==
    /\ inode_table \in [Inums -> Inode]
    /\ freeinode_ts \in [Inums -> {FREE, TAKEN}]
    /\ fs_data \in [Blocks -> Block]
    /\ free_blocks \in [Blocks -> {FREE, TAKEN}]
    /\ root_dir \in [DirSlots -> DirEntry]
    /\ open_file_table \in [Handles -> OpenFileEntry]
    /\ free_open_file_entries \in [Handles -> {FREE, TAKEN}]
    /\ open_files_count \in Nat
    /\ open_flag \in {0, 1}
=============================================================================
