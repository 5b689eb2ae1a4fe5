--------------------------- MODULE TfsCorrectness ---------------------------
(***************************************************************************)
(* What makes the library of TfsOperations correct.                        *)
(***************************************************************************)
EXTENDS TfsOperations

Pcs == {"idle", "open", "add", "remove", "wait", "woken"}

\* Type invariant.  The bound on i_size is that of one block: no write goes
\* past the end of its block (operations.c:160).
TypeOK ==
    /\ StateTypeOK
    /\ pc \in [Threads -> Pcs]
    /\ arg \in [Threads -> [name : Names \cup {NoName},
                            flags : FlagSets \cup {{}},
                            fh : Handles, inum : Inums, offset : 0 .. BLOCK_SIZE]]
    /\ single_global_lock \in Threads \cup {NoThread}
    /\ inits \in 1 .. MaxInits

-----------------------------------------------------------------------------
(* Opens, closes and tfs_destroy_after_all_closed. *)

\* open_files_count, which tfs_destroy_after_all_closed waits on, is never
\* below the number of files that are open, whatever opens, closes and
\* re-initialisations came before (state.c:392, 411; tfs_init keeps it).
OpenCountCovers == open_files_count >= Cardinality(TakenEntries)

\* tfs_destroy_after_all_closed returns only at a moment when no file is open
\* (operations.c:39-42), although a signalled thread has to win the mutex
\* again after pthread_cond_wait and files may be opened meanwhile.
DestroyOnlyWhenNoneOpen ==
    [][open_flag = 1 /\ open_flag' = 0 => TakenEntries = {}]_vars

\* A handle keeps standing for the file it was opened for until it is closed:
\* the entry that an open finds free before it locks open_files_mutex
\* (state.c:387) is not taken by another open in between.
HandleKeepsFile ==
    [][\A h \in TakenEntries \cap TakenEntries' :
            open_file_table'[h].of_inumber = open_file_table[h].of_inumber]_vars

\* A tfs_open that passed the check of open_flag returns: no way out of
\* tfs_open or tfs_close, the failures included, keeps the global lock.
OpenReturns == \A t \in Threads : pc[t] = "open" ~> pc[t] = "idle"

\* Once all files are closed for good, no tfs_destroy_after_all_closed is left
\* waiting: the close that empties the count wakes it (state.c:412-414).
DestroyReturns ==
    <>[](open_files_count = 0) =>
        \A d \in Destroyers : pc[d] = "wait" ~> pc[d] = "idle"

-----------------------------------------------------------------------------
(* The files. *)

LinkedSlots == {s \in DirSlots : root_dir[s].d_inumber # -1}

\* Every directory entry leads to an allocated i-node of its own, every
\* allocated i-node but the root's has an entry, and no name has two: a failed
\* or a racing open leaves neither an orphan i-node nor a duplicate entry.
DirectoryConsistent ==
    /\ \A s \in LinkedSlots :
          LET i == root_dir[s].d_inumber IN
          /\ i # ROOT_DIR_INUM /\ freeinode_ts[i] = TAKEN
          /\ \A r \in LinkedSlots \ {s} :
                root_dir[r].d_inumber # i /\ root_dir[r].d_name # root_dir[s].d_name
    /\ \A i \in Inums \ {ROOT_DIR_INUM} :
          freeinode_ts[i] = TAKEN => \E s \in LinkedSlots : root_dir[s].d_inumber = i

NonEmptyInodes == {i \in Inums : freeinode_ts[i] = TAKEN /\ inode_table[i].i_size > 0}

\* The blocks marked TAKEN are exactly those of the non-empty files (and of
\* the root directory), one each: truncation and allocation neither leak a
\* block nor give one to two files, though i_data_block outlives its block.
BlocksOwned ==
    /\ \A i, j \in NonEmptyInodes :
          inode_table[i].i_data_block = inode_table[j].i_data_block => i = j
    /\ {b \in Blocks : free_blocks[b] = TAKEN} =
            {inode_table[i].i_data_block : i \in NonEmptyInodes}

\* The offset of a handle that is open is inside its file, so to_read, an
\* unsigned difference (operations.c:212), does not wrap around.
OffsetWithinSize ==
    \A h \in TakenEntries :
        LET of == open_file_table[h] IN
        /\ of.of_inumber # ROOT_DIR_INUM /\ freeinode_ts[of.of_inumber] = TAKEN
        /\ of.of_offset <= inode_table[of.of_inumber].i_size

\* What operations.h:69-71 says of tfs_read: it stops at the end of the file.
\* (A read is the step that moves an offset and leaves the i-nodes alone.)
ReadStaysInFile ==
    [][\A h \in TakenEntries \cap TakenEntries' :
            open_file_table'[h] # open_file_table[h] =>
                open_file_table'[h].of_offset
                    <= inode_table'[open_file_table'[h].of_inumber].i_size]_vars

-----------------------------------------------------------------------------
(* The library implements TfsFiles.  Its files are the i-nodes that the root *)
(* directory leads to.                                                       *)

FileNamed(n) ==
    IF Named(n) = {} THEN -1
    ELSE root_dir[CHOOSE s \in DirSlots : IsFirst(Named(n), s)].d_inumber

BytesOf(i) ==
    IF freeinode_ts[i] = FREE THEN <<>>
    ELSE [k \in 1 .. inode_table[i].i_size |->
              fs_data[inode_table[i].i_data_block][k - 1]]

PositionOf(h) ==
    IF free_open_file_entries[h] = FREE
    THEN [file |-> -1, offset |-> 0]
    ELSE [file |-> open_file_table[h].of_inumber,
          offset |-> open_file_table[h].of_offset]

OpenOf(t) ==
    LET opened(stage, n, fl, f, off, h) ==
            [stage |-> stage, name |-> n, flags |-> fl,
             at |-> [file |-> f, offset |-> off], handle |-> h]
        a == arg[t]
    IN  CASE pc[t] = "open" -> opened("asked", a.name, a.flags, -1, 0, -1)
          [] pc[t] = "add"  -> opened("found", NoName, {}, a.inum, a.offset, a.fh)
          [] OTHER          -> opened("none", NoName, {}, -1, 0, -1)

Active == open_flag = 1
Namespace == [n \in Names |-> FileNamed(n)]
Contents == [i \in Inums \ {ROOT_DIR_INUM} |-> BytesOf(i)]
Positions == [h \in Handles |-> PositionOf(h)]
Opens == [t \in Threads |-> OpenOf(t)]

Files == INSTANCE TfsFiles WITH
    Files     <- Inums \ {ROOT_DIR_INUM},
    Capacity  <- BLOCK_SIZE,
    active    <- Active,
    namespace <- Namespace,
    contents  <- Contents,
    position  <- Positions,
    opening   <- Opens

\* Every step of the library is a step of TfsFiles on the files, or none.
ImplementsTfsFiles == Files!Spec
=============================================================================
