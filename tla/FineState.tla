----------------------------- MODULE FineState -----------------------------
(***************************************************************************)
(* The tables of the earlier library, src/parte-1/fs/state.c, and the      *)
(* block arithmetic of its operations.c: files of several direct blocks    *)
(* and one indirect block.  Locks are in FineOperations.                   *)
(*                                                                         *)
(* fs_data is one array, as in the code, so a copy that runs past the end  *)
(* of a block reaches the next one.  A cell holds a byte written by a      *)
(* caller, Blank, or (part of) an int of an indirect block, which fills    *)
(* INT_SIZE cells.  Cells with anything else in them, read as an int, are  *)
(* the number that IntOf says.  What a copy does past the end of fs_data   *)
(* itself changes nothing that is modelled, and an int there is Garbage.   *)
(*                                                                         *)
(* Names are abstract and valid: two or more characters, the first '/'.    *)
(* Stored maps a name to the one its directory entry is later found under: *)
(* add_dir_entry keeps 39 characters (state.c:353-354) and find_in_dir     *)
(* compares 40 (line 392), so a name that is too long is stored as another.*)
(***************************************************************************)
EXTENDS Integers, FiniteSets, Sequences

CONSTANTS
    INODE_TABLE_SIZE, DATA_BLOCKS, MAX_OPEN_FILES, MAX_DIR_ENTRIES, BLOCK_SIZE,
    MAX_DIRECT_BLOCKS,
    INT_SIZE,           \* sizeof(int)
    SIZE_T,             \* the number of values of a size_t
    Names, Stored, NoName, Bytes, Blank,
    IntOf               \* the int that cells which hold no label make up

ASSUME FineSizesAssumption ==
    /\ INODE_TABLE_SIZE \in Nat \ {0} /\ DATA_BLOCKS \in Nat \ {0}
    /\ MAX_OPEN_FILES \in Nat \ {0}   /\ MAX_DIR_ENTRIES \in Nat \ {0}
    /\ MAX_DIRECT_BLOCKS \in Nat \ {0} /\ INT_SIZE \in Nat \ {0}
    /\ BLOCK_SIZE \in Nat /\ BLOCK_SIZE > MAX_DIRECT_BLOCKS
    /\ SIZE_T \in Nat /\ SIZE_T > DATA_BLOCKS * BLOCK_SIZE

ASSUME FineNamesAssumption == Stored \in [Names -> Names]

VARIABLES
    inode_table,        \* [i_size, i_data_block, i_indirect_data_block]
    freeinode_ts,
    fs_data,            \* the cells of all blocks, one after the other
    free_blocks,
    root_dir,           \* the entries of the root directory
    open_file_table,    \* [of_inumber, of_offset] of every open file entry
    free_open_file_entries,
    open_files_count

fileVars == <<inode_table, freeinode_ts, fs_data, free_blocks, root_dir>>
entryVars == <<open_file_table, free_open_file_entries, open_files_count>>
stateVars == <<fileVars, entryVars>>

FREE == 0
TAKEN == 1
ROOT_DIR_INUM == 0

Inums == 0 .. INODE_TABLE_SIZE - 1
Blocks == 0 .. DATA_BLOCKS - 1
Handles == 0 .. MAX_OPEN_FILES - 1
DirSlots == 0 .. MAX_DIR_ENTRIES - 1
Direct == 0 .. MAX_DIRECT_BLOCKS - 1
Cells == 0 .. DATA_BLOCKS * BLOCK_SIZE - 1

\* An int that is neither -1 nor the number of a block: data_block_get fails.
Garbage == -2

\* Cells are tagged: what is written as a byte, what was never written and what
\* is written as an int are told apart.  It says nothing of what they read as.
ASSUME FineCellsAssumption ==
    /\ Bytes \cap (Blocks \cup {-1}) = {}
    /\ Blank \notin Bytes \cup Blocks \cup {-1}

\* Callers' bytes, and pieces of ints that are not aligned, can read as any int.
Words == [0 .. INT_SIZE - 1 -> Bytes \cup Blocks \cup {Blank, -1}]

ASSUME FineIntsAssumption == IntOf \in [Words -> Blocks \cup {-1, Garbage}]

IsFirst(S, x) == x \in S /\ \A y \in S : x <= y

TakenEntries == {h \in Handles : free_open_file_entries[h] = TAKEN}
EmptySlots == {s \in DirSlots : root_dir[s].d_inumber = -1}
Named(name) ==
    {s \in DirSlots : root_dir[s].d_inumber # -1 /\ root_dir[s].d_name = name}

-----------------------------------------------------------------------------
(* Static storage, state_init, and the root directory that tfs_init makes;  *)
(* the root directory's block is block 0 and its contents are root_dir.     *)

EmptyInode == [i_size |-> 0, i_data_block |-> [d \in Direct |-> -1],
               i_indirect_data_block |-> -1]
StaticInode == [i_size |-> 0, i_data_block |-> [d \in Direct |-> 0],
                i_indirect_data_block |-> 0]
RootInode == [i_size |-> BLOCK_SIZE, i_data_block |-> [d \in Direct |-> 0],
              i_indirect_data_block |-> -1]

StateInit ==
    /\ inode_table = [i \in Inums |->
            IF i = ROOT_DIR_INUM THEN RootInode ELSE StaticInode]
    /\ freeinode_ts = [i \in Inums |-> IF i = ROOT_DIR_INUM THEN TAKEN ELSE FREE]
    /\ fs_data = [c \in Cells |-> Blank]
    /\ free_blocks = [b \in Blocks |-> IF b = 0 THEN TAKEN ELSE FREE]
    /\ root_dir = [s \in DirSlots |-> [d_inumber |-> -1, d_name |-> NoName]]
    /\ open_file_table = [h \in Handles |-> [of_inumber |-> 0, of_offset |-> 0]]
    /\ free_open_file_entries = [h \in Handles |-> FREE]
    /\ open_files_count = 0

\* Variant: the count starts again and the entries stay taken.
StateResetCount ==
    /\ inode_table' = [inode_table EXCEPT ![ROOT_DIR_INUM] = RootInode]
    /\ freeinode_ts' = [i \in Inums |-> IF i = ROOT_DIR_INUM THEN TAKEN ELSE FREE]
    /\ free_blocks' = [b \in Blocks |-> IF b = 0 THEN TAKEN ELSE FREE]
    /\ root_dir' = [s \in DirSlots |-> [root_dir[s] EXCEPT !.d_inumber = -1]]
    /\ open_files_count' = 0
    /\ UNCHANGED <<fs_data, open_file_table, free_open_file_entries>>

(* A further tfs_init leaves the rest as it is, open_files_count included.  *)
StateReset ==
    /\ inode_table' = [inode_table EXCEPT ![ROOT_DIR_INUM] = RootInode]
    /\ freeinode_ts' = [i \in Inums |-> IF i = ROOT_DIR_INUM THEN TAKEN ELSE FREE]
    /\ free_blocks' = [b \in Blocks |-> IF b = 0 THEN TAKEN ELSE FREE]
    /\ root_dir' = [s \in DirSlots |-> [root_dir[s] EXCEPT !.d_inumber = -1]]
    /\ free_open_file_entries' = [h \in Handles |-> FREE]
    /\ UNCHANGED <<fs_data, open_file_table, open_files_count>>

-----------------------------------------------------------------------------
(* Blocks of a file. *)

\* The int at index k of block b; cells never written hold zeros.
IntAt(b, k) ==
    LET at == b * BLOCK_SIZE + k * INT_SIZE
        cells == at .. at + INT_SIZE - 1
        holds(v) == \A c \in cells : fs_data[c] = v
    IN  IF ~(cells \subseteq Cells) THEN Garbage
        ELSE IF \E v \in Blocks \cup {-1} : holds(v) THEN fs_data[at]
        ELSE IF holds(Blank) THEN 0
        ELSE IntOf[[j \in 0 .. INT_SIZE - 1 |-> fs_data[at + j]]]

\* data with value v stored in the n ints of block b from index k.
WithInts(data, b, k, n, v) ==
    LET at == b * BLOCK_SIZE + k * INT_SIZE IN
    [c \in Cells |-> IF at <= c /\ c < at + n * INT_SIZE THEN v ELSE data[c]]

HasIndirect(i) == inode_table[i].i_indirect_data_block \in Blocks

\* The number of the k-th block of file i: -1 when there is none.
BlockNumber(i, k) ==
    LET inode == inode_table[i] IN
    IF k \in Direct THEN inode.i_data_block[k]
    ELSE IF HasIndirect(i)
         THEN IntAt(inode.i_indirect_data_block, k - MAX_DIRECT_BLOCKS)
         ELSE -1

\* Block b, just claimed, becomes block k of file i, or, when block k is past
\* the direct ones and the file has none yet, its indirect block.
BlockInstalled(i, k, b) ==
    \/ /\ k \in Direct
       /\ inode_table' = [inode_table EXCEPT ![i].i_data_block[k] = b]
       /\ UNCHANGED fs_data
    \/ /\ k \notin Direct /\ ~HasIndirect(i)
       /\ inode_table' = [inode_table EXCEPT ![i].i_indirect_data_block = b]
       /\ UNCHANGED fs_data
    \/ /\ k \notin Direct /\ HasIndirect(i)
       /\ fs_data' = WithInts(fs_data, inode_table[i].i_indirect_data_block,
                              k - MAX_DIRECT_BLOCKS, 1, b)
       /\ UNCHANGED inode_table

\* The ints of a new indirect block are labelled empty: BLOCK_SIZE -
\* MAX_DIRECT_BLOCKS of them, also where the block has room for fewer.
IndirectLabelled(i) ==
    fs_data' = WithInts(fs_data, inode_table[i].i_indirect_data_block,
                        0, BLOCK_SIZE - MAX_DIRECT_BLOCKS, -1)

-----------------------------------------------------------------------------
(* The loops of tfs_write and tfs_read go over the blocks FirstBlock to     *)
(* EndBlock - 1; both cut the transfer into the same pieces.                *)

FirstBlock(off) == off \div BLOCK_SIZE

\* Variant: a last block that is not filled is forgotten.
EndBlockWhole(off, n) == (off + n) \div BLOCK_SIZE

EndBlock(off, n) ==
    (off + n) \div BLOCK_SIZE + (IF n % BLOCK_SIZE > 0 THEN 1 ELSE 0)

\* Variant: a piece that starts inside a block is as long as a block.
PieceUncut(k, end, off, left) == IF left <= BLOCK_SIZE THEN left ELSE BLOCK_SIZE

\* The length of the piece taken from (or put in) block k.
Piece(k, end, off, left) ==
    LET room == BLOCK_SIZE - (off % BLOCK_SIZE) IN
    IF k + 1 < end /\ left > room THEN room
    ELSE IF left <= BLOCK_SIZE THEN left ELSE BLOCK_SIZE

\* Where the copy starts.
CellOf(b, off) == b * BLOCK_SIZE + (off % BLOCK_SIZE)

Copied(data, b, off, n, byte) ==
    [c \in Cells |->
        IF CellOf(b, off) <= c /\ c < CellOf(b, off) + n THEN byte ELSE data[c]]

CellsFrom(b, off, n) ==
    [j \in 1 .. n |-> LET c == CellOf(b, off) + j - 1 IN
                      IF c \in Cells THEN fs_data[c] ELSE Blank]

\* What is left of the file, as a size_t, or less.
ReadLen(size, offset, len) ==
    LET left == (size - offset) % SIZE_T IN IF left > len THEN len ELSE left

\* One round of the loop of tfs_read, at block k of file i, where r is what the
\* rounds before have done.
ReadBlock(i, k, end, r) ==
    LET b == BlockNumber(i, k)
        m == Piece(k, end, r.off, r.left)
    IN  IF ~r.ok \/ r.left = 0 THEN r
        ELSE IF b \notin Blocks THEN [r EXCEPT !.ok = FALSE]
        ELSE [off |-> r.off + m, left |-> r.left - m, ok |-> TRUE,
              got |-> r.got \o CellsFrom(b, r.off, m)]

\* The loop over the blocks of file i: where the offset ends, what is left to
\* read, what was copied, and whether every block was there.
Reading(i, off, n) ==
    LET first == FirstBlock(off)
        end == EndBlock(off, n)
        upto[k \in first .. end] ==
            IF k = first THEN [off |-> off, left |-> n, got |-> <<>>, ok |-> TRUE]
            ELSE ReadBlock(i, k - 1, end, upto[k - 1])
    IN  upto[end]

-----------------------------------------------------------------------------
(* TFS_O_TRUNC. *)

\* How many blocks tfs_open takes the file to have: the remainder is that of
\* the number of whole blocks, not that of the size.
BlocksToFree(i) ==
    LET whole == inode_table[i].i_size \div BLOCK_SIZE IN
    IF whole % BLOCK_SIZE # 0 THEN whole + 1 ELSE whole

\* The direct blocks it frees: up to the first that is not there.
DirectFreed(i) ==
    {d \in Direct : /\ d < BlocksToFree(i)
                    /\ \A e \in 0 .. d : inode_table[i].i_data_block[e] \in Blocks}

\* It returns -1 when a block it wants to free is not there (data_block_free
\* locks data_blocks_locks[-1], zeroed memory that takes a lock, and fails).
TruncFails(i) ==
    /\ inode_table[i].i_size > 0
    /\ \/ \E d \in Direct : d < BlocksToFree(i) /\ d \notin DirectFreed(i)
       \/ BlocksToFree(i) >= MAX_DIRECT_BLOCKS /\ ~HasIndirect(i)

\* Variant: the blocks are freed and the i-node keeps their numbers.
TruncatedInodeKeepsBlocks(i) ==
    IF inode_table[i].i_size = 0 THEN UNCHANGED <<inode_table, free_blocks>>
    ELSE LET freed == {inode_table[i].i_data_block[d] : d \in DirectFreed(i)} IN
         /\ free_blocks' = [b \in Blocks |->
                              IF b \in freed THEN FREE ELSE free_blocks[b]]
         /\ inode_table' = [inode_table EXCEPT ![i].i_size = 0]

\* The size is set to 0 only when nothing failed; the blocks that an indirect
\* block names are never freed.
TruncatedInode(i) ==
    IF inode_table[i].i_size = 0 THEN UNCHANGED <<inode_table, free_blocks>>
    ELSE LET inode == inode_table[i]
             indirect == IF ~TruncFails(i) /\ BlocksToFree(i) >= MAX_DIRECT_BLOCKS
                         THEN {inode.i_indirect_data_block} ELSE {}
             freed == indirect \cup {inode.i_data_block[d] : d \in DirectFreed(i)}
         IN  /\ free_blocks' = [b \in Blocks |->
                                  IF b \in freed THEN FREE ELSE free_blocks[b]]
             /\ inode_table' = [inode_table EXCEPT ![i] =
                    [i_size |-> IF TruncFails(i) THEN inode.i_size ELSE 0,
                     i_data_block |-> [d \in Direct |->
                        IF d \in DirectFreed(i) THEN -1 ELSE inode.i_data_block[d]],
                     i_indirect_data_block |->
                        IF indirect = {} THEN inode.i_indirect_data_block ELSE -1]]
=============================================================================
