-------------------------- MODULE FineCorrectness --------------------------
(***************************************************************************)
(* What makes the library of FineOperations correct.                       *)
(***************************************************************************)
EXTENDS FineOperations

Pcs == {"idle", "found", "create", "link", "add", "close", "lock", "write",
        "alloc", "label", "read", "wait", "woken", "destroy", "opened", "copying", "closing"}

\* What the direct blocks and the ints of the indirect block can name.
MaxSize == (MAX_DIRECT_BLOCKS + BLOCK_SIZE \div INT_SIZE) * BLOCK_SIZE

FineInode == [i_size : 0 .. MaxSize,
              i_data_block : [Direct -> Blocks \cup {-1}],
              i_indirect_data_block : Blocks \cup {-1}]
FineArg == [name : Names \cup {NoName}, flags : SUBSET {"CREAT", "TRUNC", "APPEND"},
            copy : BOOLEAN, fh : Handles, inum : Inums, offset : Nat,
            scan : Nat, left : Nat, blk : Nat, end : Nat, byte : Bytes \cup {Blank}]

\* Type invariant.  That a size never exceeds what the blocks can hold, nor
\* an offset, is a claim about the loop of tfs_write.
TypeOK ==
    /\ inode_table \in [Inums -> FineInode]
    /\ freeinode_ts \in [Inums -> {FREE, TAKEN}]
    /\ fs_data \in [Cells -> Bytes \cup {Blank, -1} \cup Blocks]
    /\ free_blocks \in [Blocks -> {FREE, TAKEN}]
    /\ root_dir \in [DirSlots -> [d_inumber : Inums \cup {-1},
                                  d_name : Names \cup {NoName}]]
    /\ open_file_table \in [Handles -> [of_inumber : Inums, of_offset : 0 .. MaxSize]]
    /\ free_open_file_entries \in [Handles -> {FREE, TAKEN}]
    /\ open_files_count \in Int
    /\ pc \in [Threads -> Pcs]
    /\ arg \in [Threads -> FineArg]
    /\ open_file_lock \in Threads \cup {NoThread}
    /\ inode_lock \in [Inums -> Threads \cup {NoThread}]
    /\ entry_lock \in [Handles -> [writer : Threads \cup {NoThread},
                                   readers : SUBSET Threads]]
    /\ process \in {"up", "closing", "destroyed", "exited"}
    /\ inits \in 1 .. MaxInits

-----------------------------------------------------------------------------
(* Blocks and bytes. *)

Files == {i \in Inums \ {ROOT_DIR_INUM} : freeinode_ts[i] = TAKEN}
BlockIndices == 0 .. MAX_DIRECT_BLOCKS + BLOCK_SIZE \div INT_SIZE - 1

\* The ints of a new indirect block have no meaning before they are labelled.
Labelling(i) == \E t \in Threads : pc[t] = "label" /\ arg[t].inum = i

\* Where a block is used: as block k of file i, or (k = -1) as its indirect one.
Uses(b) ==
    {u \in Files \X ({-1} \cup BlockIndices) :
        IF u[2] = -1 THEN b = inode_table[u[1]].i_indirect_data_block
        ELSE b = BlockNumber(u[1], u[2]) /\ (u[2] \in Direct \/ ~Labelling(u[1]))}

\* A block is used in one place at most, and then it is marked TAKEN: neither
\* allocations that scan the table at the same time, nor a truncation that
\* leaves numbers behind, give a block to two files, or use one twice as data
\* and as indirect block (state.c:397-420, operations.c:57-90).
BlocksOwned ==
    \A b \in Blocks :
        /\ \A u, v \in Uses(b) : u = v
        /\ Uses(b) # {} => b # 0 /\ free_blocks[b] = TAKEN

\* The k-th byte of a file is in its k-th cell, block by block.
BytesOf(i) ==
    IF i \notin Files THEN <<>>
    ELSE [k \in 1 .. inode_table[i].i_size |->
            LET b == BlockNumber(i, (k - 1) \div BLOCK_SIZE) IN
            IF b \in Blocks THEN fs_data[CellOf(b, k - 1)] ELSE Blank]

\* tfs_read copies what the file holds, from every offset and for every length
\* the callers use, and through the indirect block: its pieces, cut at block
\* boundaries, are all there, in order, and none is missing at the end
\* (operations.c:284-330).  Lengths of whole blocks are excepted when the
\* offset is inside a block: then the loop leaves the block's end behind.
ReadsBack ==
    \A i \in Files :
        LET size == inode_table[i].i_size IN
        \A off \in 0 .. size - 1, len \in Lens \ {0} :
            LET n == ReadLen(size, off, len) IN
            (n % BLOCK_SIZE # 0 \/ off % BLOCK_SIZE = 0) =>
                Reading(i, off, n) =
                    [off |-> off + n, left |-> 0, ok |-> TRUE,
                     got |-> SubSeq(BytesOf(i), off + 1, off + n)]

\* operations.h:60-61 says that tfs_write writes to the file it is given, which
\* it locks: the bytes of a file change only when the file is truncated, or in
\* a step of the thread that holds the file's lock.
ChangedUnderLock ==
    [][\A i \in Files \cap Files' :
            BytesOf(i)' # BytesOf(i) =>
                \/ inode_table'[i].i_size = 0
                \/ \E t \in Threads : /\ inode_lock[i] = t
                                      /\ <<pc'[t], arg'[t]>> # <<pc[t], arg[t]>>]_vars

-----------------------------------------------------------------------------
(* The directory and the handles. *)

LinkedSlots == {s \in DirSlots : root_dir[s].d_inumber # -1}

\* Two threads that create one name at the same time create one file, and a
\* creation that fails leaves no i-node behind: every file but those being
\* created has one directory entry, and no name has two (open_file_lock).
DirectoryConsistent ==
    /\ \A s \in LinkedSlots :
          /\ root_dir[s].d_inumber \in Files
          /\ \A r \in LinkedSlots \ {s} :
                /\ root_dir[r].d_inumber # root_dir[s].d_inumber
                /\ root_dir[r].d_name # root_dir[s].d_name
    /\ \A i \in Files :
          \/ \E s \in LinkedSlots : root_dir[s].d_inumber = i
          \/ \E t \in Threads : pc[t] = "link" /\ arg[t].inum = i

\* A handle keeps standing for the file it was opened for until it is closed,
\* although every thread tests and claims entries on its own (state.c:454-466).
HandleKeepsFile ==
    [][\A h \in TakenEntries \cap TakenEntries' :
            open_file_table'[h].of_inumber = open_file_table[h].of_inumber]_vars

\* open_files_count, which state.h:76-77 calls "the number of currently open
\* files", never falls below the number of entries taken.
OpenCountCovers == open_files_count >= Cardinality(TakenEntries)

\* No file is open when tfs_destroy_after_all_closed calls state_destroy.
DestroyOnlyWhenNoneOpen ==
    [][\A t \in Threads : pc[t] # "destroy" /\ pc'[t] = "destroy" =>
            TakenEntries = {}]_vars

-----------------------------------------------------------------------------
(* The locks. *)

\* No way out of a call keeps a lock: a thread that is in none holds none,
\* and the lock of an i-node is held only in tfs_write.
LocksReturned ==
    /\ \A i \in Inums : inode_lock[i] # NoThread =>
          pc[inode_lock[i]] \in {"write", "alloc", "label"} /\ arg[inode_lock[i]].inum = i
    /\ \A h \in Handles :
          /\ entry_lock[h].writer # NoThread =>
                /\ pc[entry_lock[h].writer] \in {"lock", "write", "alloc", "label", "read"}
                /\ arg[entry_lock[h].writer].fh = h
          /\ \A t \in entry_lock[h].readers : pc[t] = "close" /\ arg[t].fh = h
    /\ open_file_lock # NoThread =>
          pc[open_file_lock] \in {"found", "create", "link"}

\* Every call returns, or the process ends: the order of open_file_lock, the
\* i-nodes' locks and the entries' locks admits no circle of waiting threads,
\* and a copy reads on only as long as there is something to read.
CallsReturn ==
    \A t \in Threads :
        pc[t] \notin {"idle", "wait"} ~> pc[t] \in {"idle", "wait"} \/ process = "exited"

\* Once all files are closed for good, a thread that waits for it in
\* tfs_destroy_after_all_closed is woken and returns (operations.c:409-418).
DestroyReturns ==
    <>[](open_files_count = 0) =>
        \A d \in Destroyers :
            pc[d] = "wait" ~> pc[d] = "idle" \/ process = "exited"

-----------------------------------------------------------------------------
(* The library implements FineFiles. *)

FileNamed(n) ==
    IF Named(n) = {} THEN -1
    ELSE root_dir[CHOOSE s \in DirSlots : IsFirst(Named(n), s)].d_inumber

PositionOf(h) ==
    IF free_open_file_entries[h] = FREE THEN [file |-> -1, offset |-> 0]
    ELSE [file |-> open_file_table[h].of_inumber,
          offset |-> open_file_table[h].of_offset]

OpenOf(t) ==
    LET opened(stage, n, flags, f, off) ==
            [stage |-> stage, name |-> n, flags |-> flags,
             at |-> [file |-> f, offset |-> off]]
        a == arg[t]
    IN  CASE pc[t] \in {"found", "create", "link"} ->
                opened("asked", a.name, a.flags, -1, 0)
          [] pc[t] = "add" -> opened("found", NoName, {}, a.inum, a.offset)
          [] OTHER -> opened("none", NoName, {}, -1, 0)

WriteOf(t) ==
    IF pc[t] \in {"write", "alloc", "label"}
    THEN [handle |-> arg[t].fh, left |-> arg[t].left, bytes |-> {arg[t].byte}]
    ELSE [handle |-> -1, left |-> 0, bytes |-> {}]

FileInums == Inums \ {ROOT_DIR_INUM}
Namespace == [n \in Names |-> FileNamed(n)]
Contents == [i \in FileInums |-> BytesOf(i)]
Positions == [h \in Handles |-> PositionOf(h)]
Openings == [t \in Threads |-> OpenOf(t)]
Writings == [t \in Threads |-> WriteOf(t)]

Abstract == INSTANCE FineFiles WITH
    Files     <- FileInums,
    FlagSets  <- FlagSets \cup {{}},
    Lens      <- Lens \cup {BLOCK_SIZE},
    namespace <- Namespace,
    contents  <- Contents,
    position  <- Positions,
    opening   <- Openings,
    writing   <- Writings

\* Every step of the library is a step of FineFiles on the files, or none:
\* in particular a write is not torn by another call on the same file, and
\* one that is not given up (no block is left, the file is as long as it can
\* be) has written everything.
ImplementsFineFiles == Abstract!Spec
=============================================================================
