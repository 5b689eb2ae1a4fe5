--------------------------- MODULE TfsOperations ---------------------------
(***************************************************************************)
(* The file system library of src/parte-2/fs/operations.c as threads use   *)
(* it: tfs_init, tfs_open, tfs_close, tfs_read, tfs_write and              *)
(* tfs_destroy_after_all_closed, over the tables of TfsState.              *)
(*                                                                         *)
(* Two mutexes.  single_global_lock is held from one step of an open or a  *)
(* close to the next, so it is a variable.  open_files_mutex is released   *)
(* in every step that takes it (a wait on open_files_cond included), so    *)
(* such a section is one step: nothing that another thread can see happens *)
(* between the acquisitions of the two mutexes except what those sections  *)
(* do to open_flag and open_files_count.                                   *)
(*                                                                         *)
(* The callers.  Any thread may call anything at any time, but a handle is *)
(* read or written only while it is open, and, unless SharedTrunc, no file *)
(* is opened with TFS_O_TRUNC while it is open or being opened elsewhere.  *)
(* tfs_init is called again only when no call is running; a tfs_destroy    *)
(* before it has no effect of its own (it destroys a lock that tfs_init    *)
(* initialises afresh, and state_destroy is empty).                        *)
(***************************************************************************)
EXTENDS TfsState

CONSTANTS
    Threads, NoThread,
    Destroyers,         \* the threads that may call tfs_destroy_after_all_closed
    FlagSets,           \* the flag combinations given to tfs_open
    Lens,               \* the lengths given to tfs_read and tfs_write
    SharedTrunc,
    MaxInits            \* bound: how often tfs_init is called

ASSUME ThreadsAssumption ==
    /\ NoThread \notin Threads
    /\ Destroyers \subseteq Threads

ASSUME CallsAssumption ==
    /\ \A f \in FlagSets : f \subseteq {"CREAT", "TRUNC", "APPEND"}
    /\ Lens \subseteq Nat
    /\ SharedTrunc \in BOOLEAN
    /\ MaxInits \in Nat \ {0}

VARIABLES
    pc,                 \* how far the call of each thread is
    arg,                \* its arguments and locals
    single_global_lock, \* the thread that holds it, or NoThread
    inits               \* the calls of tfs_init so far

threadVars == <<pc, arg, single_global_lock>>
vars == <<stateVars, threadVars, inits>>

(* pc[t]: "idle"    in no call
          "open"    in tfs_open, the check of open_flag passed
          "add"     in add_to_open_file_table, before lock_mutex
          "remove"  in remove_from_open_file_table, before lock_mutex
          "wait"    in pthread_cond_wait
          "woken"   signalled (or spuriously woken), still in
                    pthread_cond_wait, about to lock open_files_mutex again *)
OpenArg(n, flags) ==
    [name |-> n, flags |-> flags, fh |-> 0, inum |-> 0, offset |-> 0]
NoArg == OpenArg(NoName, {})

Init ==
    /\ StateInit
    /\ pc = [t \in Threads |-> "idle"]
    /\ arg = [t \in Threads |-> NoArg]
    /\ single_global_lock = NoThread
    /\ inits = 1

\* Variant: no call waits for the lock.
GlobalLockIgnored == TRUE

GlobalLockFree == single_global_lock = NoThread

\* The call returns.
Return(t) ==
    /\ pc' = [pc EXCEPT ![t] = "idle"]
    /\ arg' = [arg EXCEPT ![t] = NoArg]

-----------------------------------------------------------------------------
(* tfs_open *)

\* The callers' discipline about TFS_O_TRUNC.
Opening(n) == {t \in Threads : pc[t] \in {"open", "add"} /\ arg[t].name = n}
InUse(n) ==
    \/ Opening(n) # {}
    \/ \E h \in TakenEntries, s \in Named(n) :
          open_file_table[h].of_inumber = root_dir[s].d_inumber
MayOpen(n, flags) ==
    \/ SharedTrunc
    \/ /\ "TRUNC" \in flags => ~InUse(n)
       /\ \A t \in Opening(n) : "TRUNC" \notin arg[t].flags

\* open_flag is read under open_files_mutex, which is released before the
\* global lock is taken.
OpenCheck(t) ==
    /\ pc[t] = "idle" /\ open_flag = 1
    /\ \E n \in Names, flags \in FlagSets :
          /\ MayOpen(n, flags)
          /\ arg' = [arg EXCEPT ![t] = OpenArg(n, flags)]
    /\ pc' = [pc EXCEPT ![t] = "open"]
    /\ UNCHANGED <<stateVars, single_global_lock, inits>>

OpenRefused(t) ==
    /\ pc[t] = "idle" /\ open_flag = 0
    /\ UNCHANGED vars

\* The scan of add_to_open_file_table, which holds only the global lock: it
\* ends at the first free entry, or tfs_open fails (what was done to the file
\* stays done).
EntryChosen(t, inum, offset) ==
    \/ \E h \in FreeEntries :
          /\ IsFirst(FreeEntries, h)
          /\ pc' = [pc EXCEPT ![t] = "add"]
          /\ arg' = [arg EXCEPT ![t] =
                        [@ EXCEPT !.fh = h, !.inum = inum, !.offset = offset]]
          /\ single_global_lock' = t
    \/ FreeEntries = {} /\ Return(t) /\ UNCHANGED single_global_lock

\* Variant: the offset is the size before the truncation.
InitialOffsetEarly(t, i) ==
    IF "APPEND" \in arg[t].flags THEN inode_table[i].i_size ELSE 0

\* The offset is read after the truncation.
InitialOffset(t, i) ==
    IF "APPEND" \in arg[t].flags THEN inode_table'[i].i_size ELSE 0

OpenExisting(t) ==
    /\ pc[t] = "open" /\ GlobalLockFree
    /\ \E s \in DirSlots :
          /\ IsFirst(Named(arg[t].name), s)
          /\ LET inum == root_dir[s].d_inumber IN
                /\ IF "TRUNC" \in arg[t].flags
                   THEN TruncatedInode(inum)
                   ELSE UNCHANGED <<inode_table, free_blocks>>
                /\ EntryChosen(t, inum, InitialOffset(t, inum))
    /\ UNCHANGED <<freeinode_ts, fs_data, root_dir, entryVars, open_flag, inits>>

\* A new file, or none when the directory is full.
OpenCreate(t) ==
    /\ pc[t] = "open" /\ GlobalLockFree
    /\ Named(arg[t].name) = {} /\ "CREAT" \in arg[t].flags
    /\ \E i \in Inums :
          /\ IsFirst(FreeInodes, i)
          /\ NewInode(i)
          /\ \/ \E s \in DirSlots :
                   /\ IsFirst(EmptySlots, s)
                   /\ LinkedInode(i, s, arg[t].name)
                   /\ EntryChosen(t, i, 0)
             \/ /\ EmptySlots = {}
                /\ DeletedInode(i)
                /\ Return(t)
                /\ UNCHANGED single_global_lock
    /\ UNCHANGED <<fs_data, free_blocks, entryVars, open_flag, inits>>

\* Variant: the early return keeps the lock.
OpenFailsLocked(t) ==
    /\ pc[t] = "open" /\ GlobalLockFree
    /\ Named(arg[t].name) = {}
    /\ "CREAT" \notin arg[t].flags \/ FreeInodes = {}
    /\ Return(t)
    /\ single_global_lock' = t
    /\ UNCHANGED <<stateVars, inits>>

OpenFails(t) ==
    /\ pc[t] = "open" /\ GlobalLockFree
    /\ Named(arg[t].name) = {}
    /\ "CREAT" \notin arg[t].flags \/ FreeInodes = {}
    /\ Return(t)
    /\ UNCHANGED <<stateVars, single_global_lock, inits>>

\* The section under open_files_mutex; then both mutexes are released.
AddEntry(t) ==
    /\ pc[t] = "add"
    /\ EntryAdded(arg[t].fh, arg[t].inum, arg[t].offset)
    /\ single_global_lock' = NoThread
    /\ Return(t)
    /\ UNCHANGED <<fileVars, open_flag, inits>>

-----------------------------------------------------------------------------
(* tfs_close.  The close of a handle that is not open returns -1 and leaves *)
(* everything as it was.                                                    *)

CloseStart(t) ==
    /\ pc[t] = "idle" /\ GlobalLockFree
    /\ \E h \in TakenEntries : arg' = [arg EXCEPT ![t] = [NoArg EXCEPT !.fh = h]]
    /\ pc' = [pc EXCEPT ![t] = "remove"]
    /\ single_global_lock' = t
    /\ UNCHANGED <<stateVars, inits>>

\* pthread_cond_signal wakes one waiter, if there is one; t returns.
Waiters == {d \in Threads : pc[d] = "wait"}
SignalAndReturn(t) ==
    IF LastClosed /\ Waiters # {}
    THEN \E d \in Waiters : pc' = [pc EXCEPT ![t] = "idle", ![d] = "woken"]
    ELSE pc' = [pc EXCEPT ![t] = "idle"]

RemoveEntry(t) ==
    /\ pc[t] = "remove"
    /\ EntryRemoved(arg[t].fh)
    /\ SignalAndReturn(t)
    /\ arg' = [arg EXCEPT ![t] = NoArg]
    /\ single_global_lock' = NoThread
    /\ UNCHANGED <<fileVars, open_flag, inits>>

-----------------------------------------------------------------------------
(* tfs_read and tfs_write: one step each under the global lock. *)

\* Variant: the length is not cut.
WriteLenUncut(len, offset) == len

\* to_write, cut at the end of the block.
WriteLen(len, offset) ==
    IF len + offset > BLOCK_SIZE THEN BLOCK_SIZE - offset ELSE len

\* Variant: a new block only for an i-node that never had one.
IsWriteBlockStale(inode, b) ==
    IF inode.i_data_block = -1
    THEN IsFirst(FreeBlocks, b) \/ (FreeBlocks = {} /\ b = -1)
    ELSE b = inode.i_data_block

\* The block written to: a new one for an empty file (-1 when none is left).
IsWriteBlock(inode, b) ==
    IF inode.i_size = 0
    THEN IsFirst(FreeBlocks, b) \/ (FreeBlocks = {} /\ b = -1)
    ELSE b = inode.i_data_block

Written(h, n, b, byte) ==
    LET i == open_file_table[h].of_inumber
        off == open_file_table[h].of_offset
        size == inode_table[i].i_size
    IN  /\ fs_data' = [fs_data EXCEPT ![b] = [k \in DOMAIN @ |->
                          IF off <= k /\ k < off + n THEN byte ELSE @[k]]]
        /\ open_file_table' = [open_file_table EXCEPT ![h].of_offset = off + n]
        /\ inode_table' = [inode_table EXCEPT ![i] =
                              [i_size |-> IF off + n > size THEN off + n ELSE size,
                               i_data_block |-> b]]
        /\ free_blocks' = [free_blocks EXCEPT ![b] = TAKEN]

\* Beyond a block's end the copy is undefined: the guard on the offset keeps
\* it out (only a file truncated while open gets there).
Write(t, h, len, byte) ==
    LET i == open_file_table[h].of_inumber
        n == WriteLen(len, open_file_table[h].of_offset)
    IN  /\ pc[t] = "idle" /\ GlobalLockFree
        /\ h \in TakenEntries /\ open_file_table[h].of_offset <= BLOCK_SIZE
        /\ n > 0
        /\ \E b \in Blocks \cup {-1} :
              /\ IsWriteBlock(inode_table[i], b)
              /\ IF b # -1
                 THEN Written(h, n, b, byte)
                 ELSE /\ inode_table' = [inode_table EXCEPT ![i].i_data_block = b]
                      /\ UNCHANGED <<fs_data, open_file_table, free_blocks>>
        /\ UNCHANGED <<freeinode_ts, root_dir, free_open_file_entries,
                       open_files_count, open_flag, threadVars, inits>>

\* to_read is a size_t: what is left of the file, or less.
ReadLen(size, offset, len) ==
    LET left == (size - offset) % SIZE_T IN IF left > len THEN len ELSE left

Read(t, h, len) ==
    LET inode == inode_table[open_file_table[h].of_inumber]
        off == open_file_table[h].of_offset
        n == ReadLen(inode.i_size, off, len)
    IN  /\ pc[t] = "idle" /\ GlobalLockFree
        /\ h \in TakenEntries
        /\ n > 0 /\ inode.i_data_block # -1
        /\ open_file_table' = [open_file_table EXCEPT ![h].of_offset = off + n]
        /\ UNCHANGED <<fileVars, free_open_file_entries, open_files_count,
                       open_flag, threadVars, inits>>

-----------------------------------------------------------------------------
(* tfs_destroy_after_all_closed, all under open_files_mutex. *)

DestroyDone(t) ==
    /\ open_files_count = 0
    /\ open_flag' = 0
    /\ pc' = [pc EXCEPT ![t] = "idle"]

DestroyWaits(t) ==
    /\ open_files_count # 0
    /\ pc' = [pc EXCEPT ![t] = "wait"]
    /\ UNCHANGED open_flag

DestroyEnter(t) ==
    /\ t \in Destroyers /\ pc[t] = "idle"
    /\ DestroyDone(t) \/ DestroyWaits(t)
    /\ UNCHANGED <<fileVars, entryVars, arg, single_global_lock, inits>>

\* Variant: the count is tested only before the wait.
DestroyRecheckOnce(t) ==
    /\ pc[t] = "woken"
    /\ open_flag' = 0
    /\ pc' = [pc EXCEPT ![t] = "idle"]
    /\ UNCHANGED <<fileVars, entryVars, arg, single_global_lock, inits>>

\* The while loop tests the count again.
DestroyRecheck(t) ==
    /\ pc[t] = "woken"
    /\ DestroyDone(t) \/ DestroyWaits(t)
    /\ UNCHANGED <<fileVars, entryVars, arg, single_global_lock, inits>>

SpuriousWakeup(t) ==
    /\ pc[t] = "wait"
    /\ pc' = [pc EXCEPT ![t] = "woken"]
    /\ UNCHANGED <<stateVars, arg, single_global_lock, inits>>

-----------------------------------------------------------------------------
TfsInit ==
    /\ \A t \in Threads : pc[t] = "idle"
    /\ inits < MaxInits
    /\ inits' = inits + 1
    /\ StateReset
    /\ UNCHANGED threadVars

-----------------------------------------------------------------------------
OpenBody(t) == OpenExisting(t) \/ OpenCreate(t) \/ OpenFails(t)

Next ==
    \/ \E t \in Threads :
          \/ OpenCheck(t) \/ OpenRefused(t)
          \/ OpenExisting(t) \/ OpenCreate(t) \/ OpenFails(t) \/ AddEntry(t)
          \/ CloseStart(t) \/ RemoveEntry(t)
          \/ DestroyEnter(t) \/ DestroyRecheck(t) \/ SpuriousWakeup(t)
          \/ \E h \in Handles, len \in Lens :
                \/ Read(t, h, len)
                \/ \E byte \in Bytes : Write(t, h, len, byte)
    \/ TfsInit

(* Fairness.  A thread inside a call goes on: the sections it has left are  *)
(* weakly fair.  A thread that asks for the global lock is granted it if it *)
(* is free again and again (strong fairness of the mutex).  Nothing is      *)
(* assumed of the callers: no thread has to call anything.                  *)
Fairness ==
    \A t \in Threads :
        /\ SF_vars(OpenBody(t))
        /\ WF_vars(AddEntry(t))
        /\ WF_vars(RemoveEntry(t))
        /\ WF_vars(DestroyRecheck(t))

Spec == Init /\ [][Next]_vars
FairSpec == Spec /\ Fairness
=============================================================================
