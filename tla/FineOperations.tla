--------------------------- MODULE FineOperations ---------------------------
(***************************************************************************)
(* The calls of src/parte-1/fs/operations.c by any number of threads, over *)
(* the tables of FineState and the locks of src/parte-1/fs/state.c.        *)
(*                                                                         *)
(* Locks.  The mutex open_file_lock is held by a tfs_open from the lookup  *)
(* to the choice of the i-node; an i-node's lock by the thread that writes *)
(* or reads the file or truncates it; an open file entry's lock for        *)
(* writing by tfs_write and tfs_read, for reading by tfs_close.  The locks *)
(* of blocks, of directory slots and of the root directory's i-node are    *)
(* released in the step that takes them, and so is open_files_mutex (a     *)
(* wait on open_files_cond included).  The scans of the i-node table, of   *)
(* the blocks and of the open file table look at one element per step,     *)
(* under its lock.  A truncation and a read, which hold the file's lock,   *)
(* are one step each; a write is one step per block.                       *)
(*                                                                         *)
(* The end of the process.  lock_mutex and the others exit when pthread    *)
(* fails: a lock that the thread holds already (EDEADLK), a mutex that was *)
(* destroyed (EINVAL), the destruction of a mutex that is held (EBUSY).    *)
(*                                                                         *)
(* The callers.  A handle is read or written only while it is open and not *)
(* being closed, and it is closed when no other call uses it, except that  *)
(* two threads may close it at once if SharedClose.  A file is not opened  *)
(* with TFS_O_TRUNC while it is open, nor, unless HalfTrunc, when that     *)
(* truncation stops half-way (TruncFails): tfs_open tests neither.  Unless *)
(* Unaligned, a write of whole blocks starts at the start of a block.      *)
(* tfs_destroy, and tfs_init again, are called when no call is running.    *)
(***************************************************************************)
EXTENDS FineState

CONSTANTS
    Threads, NoThread,
    Destroyers,         \* the threads that may call tfs_destroy_after_all_closed
    Copiers,            \* the threads that may call tfs_copy_to_external_fs
    FlagSets,           \* the flag combinations given to tfs_open
    Lens,               \* the lengths given to tfs_read and tfs_write
    Texts,              \* the bytes that callers write to each file
    Unaligned, SharedClose, HalfTrunc,
    MaxInits            \* bound: how often tfs_init is called

ASSUME FineCallsAssumption ==
    /\ NoThread \notin Threads
    /\ Destroyers \subseteq Threads /\ Copiers \subseteq Threads
    /\ \A f \in FlagSets : f \subseteq {"CREAT", "TRUNC", "APPEND"}
    /\ Lens \subseteq Nat
    /\ Texts \in [Inums -> SUBSET Bytes]
    /\ Unaligned \in BOOLEAN /\ SharedClose \in BOOLEAN /\ HalfTrunc \in BOOLEAN
    /\ MaxInits \in Nat \ {0}

VARIABLES
    pc, arg,            \* how far the call of each thread is, its locals
    open_file_lock,     \* the thread that holds it, or NoThread
    inode_lock,         \* for each i-node, the thread that holds its lock
    entry_lock,         \* for each open file entry, its writer and its readers
    process,            \* "up", "closing" (state_destroy is done),
                        \* "destroyed" (open_files_mutex as well), "exited"
    inits               \* the calls of tfs_init so far

lockVars == <<open_file_lock, inode_lock, entry_lock>>
threadVars == <<pc, arg>>
runVars == <<process, inits>>
vars == <<stateVars, threadVars, lockVars, runVars>>

(* pc[t]: "idle"    in no call
          "found"   in tfs_open, the file exists, before write_lock_rwlock
          "create"  in inode_create, at i-node arg.scan
          "link"    the i-node created, before write_lock_rwlock
          "add"     in add_to_open_file_table, at entry arg.scan
          "close"   in remove_from_open_file_table, the test passed
          "lock"    in tfs_write, the entry locked
          "write"   in the loop of tfs_write, at block arg.blk
          "alloc"   in data_block_alloc for that block, at arg.scan
          "label"   a new indirect block claimed, before its initialisation
          "read"    in tfs_read, the entry locked
          "wait", "woken"  in pthread_cond_wait
          "destroy" after state_destroy, open_files_mutex unlocked
   and in tfs_copy_to_external_fs (arg.copy), between the calls it makes:
          "opened"  before fopen, "copying" before tfs_read,
          "closing" before tfs_close *)
NoArg == [name |-> NoName, flags |-> {}, copy |-> FALSE, fh |-> 0, inum |-> 0,
          offset |-> 0, scan |-> 0, left |-> 0, blk |-> 0, end |-> 0,
          byte |-> Blank]
Unlocked == [writer |-> NoThread, readers |-> {}]

Init ==
    /\ StateInit
    /\ open_file_lock = NoThread
    /\ inode_lock = [i \in Inums |-> NoThread]
    /\ entry_lock = [h \in Handles |-> Unlocked]
    /\ pc = [t \in Threads |-> "idle"]
    /\ arg = [t \in Threads |-> NoArg]
    /\ process = "up"
    /\ inits = 1

Goes(t, place, locals) ==
    /\ pc' = [pc EXCEPT ![t] = place]
    /\ arg' = [arg EXCEPT ![t] = locals]
At(t, place) == Goes(t, place, arg[t])
Return(t) == Goes(t, "idle", NoArg)

Exit == process' = "exited" /\ UNCHANGED <<stateVars, threadVars, lockVars, inits>>

\* open_files_mutex can be locked.
MutexLives == process \in {"up", "closing"}
InodeFree(i) == inode_lock[i] = NoThread
EntryFree(h) == entry_lock[h] = Unlocked

\* The calls in which thread t uses its handle.
InHandleCall(t) == pc[t] \in {"lock", "write", "alloc", "label", "read", "close",
                              "opened", "copying", "closing"}
UsersOf(h) == {t \in Threads : InHandleCall(t) /\ arg[t].fh = h}
MayUse(h) ==
    /\ h \in TakenEntries
    /\ \A u \in UsersOf(h) : pc[u] # "close" /\ ~arg[u].copy
MayClose(h) ==
    /\ h \in TakenEntries
    /\ \A u \in UsersOf(h) : SharedClose /\ pc[u] = "close" /\ ~arg[u].copy

-----------------------------------------------------------------------------
(* tfs_open, and the open of tfs_copy_to_external_fs. *)

Opening(n) == {t \in Threads : /\ pc[t] \in {"found", "create", "link", "add"}
                               /\ arg[t].name = n}
InUse(n) ==
    \/ Opening(n) # {}
    \/ \E h \in TakenEntries, s \in Named(n) :
          open_file_table[h].of_inumber = root_dir[s].d_inumber
MayOpen(n, flags) ==
    /\ "TRUNC" \in flags =>
          /\ ~InUse(n)
          /\ HalfTrunc \/ \A s \in Named(n) : ~TruncFails(root_dir[s].d_inumber)
    /\ \A t \in Opening(n) : "TRUNC" \notin arg[t].flags

\* Variant: only the lookup is under the lock.
LookupLocked(t) == open_file_lock = NoThread /\ UNCHANGED open_file_lock

\* lock_mutex(&open_file_lock); the lock is kept until the i-node is chosen.
OpenLocked(t) == open_file_lock = NoThread /\ open_file_lock' = t

\* tfs_lookup under that lock; a file that is not there and not to be created
\* gives the lock back at once.
OpenStart(t) ==
    /\ pc[t] = "idle" /\ process = "up" /\ OpenLocked(t)
    /\ \E n \in Names, flags \in FlagSets \cup {{}}, copy \in BOOLEAN :
          /\ copy => t \in Copiers /\ flags = {}
          /\ MayOpen(n, flags)
          /\ LET call == [NoArg EXCEPT !.name = n, !.flags = flags, !.copy = copy] IN
             \/ \E s \in DirSlots :
                   /\ IsFirst(Named(n), s)
                   /\ Goes(t, "found", [call EXCEPT !.inum = root_dir[s].d_inumber])
             \/ /\ Named(n) = {} /\ "CREAT" \in flags
                /\ Goes(t, "create", call)
    /\ UNCHANGED <<stateVars, inode_lock, entry_lock, runVars>>

OpenExisting(t) ==
    LET i == arg[t].inum IN
    /\ pc[t] = "found" /\ InodeFree(i)
    /\ IF "TRUNC" \in arg[t].flags THEN TruncatedInode(i)
       ELSE UNCHANGED <<inode_table, free_blocks>>
    /\ IF "TRUNC" \in arg[t].flags /\ TruncFails(i) THEN Return(t)
       ELSE Goes(t, "add", [arg[t] EXCEPT !.offset =
                IF "APPEND" \in arg[t].flags THEN inode_table'[i].i_size ELSE 0])
    /\ open_file_lock' = NoThread
    /\ UNCHANGED <<freeinode_ts, fs_data, root_dir, entryVars, inode_lock,
                   entry_lock, runVars>>

\* inode_create looks at i-node arg.scan under its lock.
CreateScan(t) ==
    LET i == arg[t].scan IN
    /\ pc[t] = "create" /\ InodeFree(i)
    /\ \/ /\ freeinode_ts[i] = FREE
          /\ freeinode_ts' = [freeinode_ts EXCEPT ![i] = TAKEN]
          /\ inode_table' = [inode_table EXCEPT ![i] = EmptyInode]
          /\ Goes(t, "link", [arg[t] EXCEPT !.inum = i])
          /\ UNCHANGED open_file_lock
       \/ /\ freeinode_ts[i] = TAKEN /\ i + 1 \in Inums
          /\ Goes(t, "create", [arg[t] EXCEPT !.scan = i + 1])
          /\ UNCHANGED <<freeinode_ts, inode_table, open_file_lock>>
       \/ /\ freeinode_ts[i] = TAKEN /\ i + 1 \notin Inums
          /\ Return(t)
          /\ open_file_lock' = NoThread
          /\ UNCHANGED <<freeinode_ts, inode_table>>
    /\ UNCHANGED <<fs_data, free_blocks, root_dir, entryVars, inode_lock,
                   entry_lock, runVars>>

\* add_dir_entry, or inode_delete when the directory is full.
OpenLink(t) ==
    LET i == arg[t].inum IN
    /\ pc[t] = "link" /\ InodeFree(i)
    /\ \/ \E s \in DirSlots :
             /\ IsFirst(EmptySlots, s)
             /\ root_dir' = [root_dir EXCEPT ![s] =
                                [d_inumber |-> i, d_name |-> Stored[arg[t].name]]]
             /\ Goes(t, "add", [arg[t] EXCEPT !.scan = 0])
             /\ UNCHANGED freeinode_ts
       \/ /\ EmptySlots = {}
          /\ freeinode_ts' = [freeinode_ts EXCEPT ![i] = FREE]
          /\ Return(t)
          /\ UNCHANGED root_dir
    /\ open_file_lock' = NoThread
    /\ UNCHANGED <<inode_table, fs_data, free_blocks, entryVars, inode_lock,
                   entry_lock, runVars>>

\* Variant: the entry is claimed as it is found.
MayClaimAny(h) == EntryFree(h)

MayClaim(h) == EntryFree(h) /\ free_open_file_entries[h] = FREE

\* add_to_open_file_table tests and claims entry arg.scan under its lock.
AddScan(t) ==
    LET h == arg[t].scan IN
    /\ pc[t] = "add"
    /\ \/ /\ MayClaim(h) /\ MutexLives
          /\ free_open_file_entries' = [free_open_file_entries EXCEPT ![h] = TAKEN]
          /\ open_file_table' = [open_file_table EXCEPT ![h] =
                [of_inumber |-> arg[t].inum, of_offset |-> arg[t].offset]]
          /\ open_files_count' = open_files_count + 1
          /\ IF arg[t].copy
             THEN Goes(t, "opened", [NoArg EXCEPT !.copy = TRUE, !.fh = h])
             ELSE Return(t)
       \/ /\ EntryFree(h) /\ free_open_file_entries[h] = TAKEN
          /\ IF h + 1 \in Handles
             THEN Goes(t, "add", [arg[t] EXCEPT !.scan = h + 1])
             ELSE Return(t)
          /\ UNCHANGED entryVars
    /\ UNCHANGED <<fileVars, lockVars, runVars>>

-----------------------------------------------------------------------------
(* tfs_close.  The read lock lets two closes of one handle pass the test.   *)

CloseStart(t) ==
    /\ pc[t] \in {"idle", "closing"}
    /\ \E h \in Handles :
          /\ IF pc[t] = "closing" THEN h = arg[t].fh ELSE MayClose(h)
          /\ free_open_file_entries[h] = TAKEN
          /\ entry_lock[h].writer = NoThread
          /\ entry_lock' = [entry_lock EXCEPT ![h].readers = @ \cup {t}]
          /\ Goes(t, "close", [arg[t] EXCEPT !.fh = h])
    /\ UNCHANGED <<stateVars, open_file_lock, inode_lock, runVars>>

Waiters == {d \in Threads : pc[d] = "wait"}

\* Variant: nobody is signalled.
ReturnUnsignalled(t) == pc' = [pc EXCEPT ![t] = "idle"]

\* The last close wakes one waiter.
ReturnSignalled(t) ==
    IF open_files_count' = 0 /\ Waiters # {}
    THEN \E d \in Waiters : pc' = [pc EXCEPT ![t] = "idle", ![d] = "woken"]
    ELSE pc' = [pc EXCEPT ![t] = "idle"]

\* The section under open_files_mutex.
CloseEnd(t) ==
    LET h == arg[t].fh IN
    /\ pc[t] = "close" /\ MutexLives
    /\ open_files_count' = open_files_count - 1
    /\ free_open_file_entries' = [free_open_file_entries EXCEPT ![h] = FREE]
    /\ entry_lock' = [entry_lock EXCEPT ![h].readers = @ \ {t}]
    /\ arg' = [arg EXCEPT ![t] = NoArg]
    /\ ReturnSignalled(t)
    /\ UNCHANGED <<fileVars, open_file_table, open_file_lock, inode_lock, runVars>>

-----------------------------------------------------------------------------
(* tfs_write *)

MayWrite(h, len) ==
    Unaligned \/ len % BLOCK_SIZE # 0 \/ open_file_table[h].of_offset % BLOCK_SIZE = 0

WriteStart(t, h, len) ==
    LET i == open_file_table[h].of_inumber IN
    /\ pc[t] = "idle" /\ MayUse(h) /\ EntryFree(h) /\ MayWrite(h, len)
    /\ entry_lock' = [entry_lock EXCEPT ![h].writer = t]
    /\ \E byte \in Texts[i] :
          Goes(t, "lock", [NoArg EXCEPT !.fh = h, !.inum = i, !.left = len,
                                        !.byte = byte])
    /\ UNCHANGED <<stateVars, open_file_lock, inode_lock, runVars>>

\* Variant: the i-node is locked for reading, so that others write as well.
WriteLockShared(t) ==
    /\ pc[t] = "lock" /\ InodeFree(arg[t].inum)
    /\ Goes(t, "write", [arg[t] EXCEPT
            !.blk = FirstBlock(open_file_table[arg[t].fh].of_offset),
            !.end = EndBlock(open_file_table[arg[t].fh].of_offset, arg[t].left)])
    /\ UNCHANGED <<stateVars, lockVars, runVars>>

\* The i-node is locked; a write of length 0 returns with both locks.
WriteLock(t) ==
    LET a == arg[t]
        off == open_file_table[a.fh].of_offset
    IN  /\ pc[t] = "lock" /\ InodeFree(a.inum)
        /\ inode_lock' = [inode_lock EXCEPT ![a.inum] = t]
        /\ IF a.left = 0 THEN Return(t)
           ELSE Goes(t, "write", [a EXCEPT !.blk = FirstBlock(off),
                                           !.end = EndBlock(off, a.left)])
        /\ UNCHANGED <<stateVars, open_file_lock, entry_lock, runVars>>

\* Variant: a way out of tfs_write forgets the i-node's lock.
WriteReturnsLocked(t) ==
    /\ Return(t)
    /\ entry_lock' = [entry_lock EXCEPT ![arg[t].fh].writer = NoThread]
    /\ UNCHANGED inode_lock

\* tfs_write gives both locks back and returns.
WriteReturns(t) ==
    /\ Return(t)
    /\ inode_lock' = [inode_lock EXCEPT ![arg[t].inum] = NoThread]
    /\ entry_lock' = [entry_lock EXCEPT ![arg[t].fh].writer = NoThread]

\* The contents of block 0 are the directory: a copy to it leaves any entries
\* (numbers that are of no i-node are left out).
RootDirAfter(b) ==
    IF b = 0
    THEN root_dir' \in [DirSlots -> [d_inumber : Inums \cup {-1},
                                     d_name : Names \cup {NoName}]]
    ELSE UNCHANGED root_dir

\* One round of the loop: a missing block is asked for; otherwise a piece is
\* copied to the block, and the write goes on unless nothing is left or this
\* was the last block; an int that is no number of a block ends it.
WriteBlock(t) ==
    LET a == arg[t]
        b == BlockNumber(a.inum, a.blk)
        off == open_file_table[a.fh].of_offset
        m == Piece(a.blk, a.end, off, a.left)
        size == inode_table[a.inum].i_size
    IN  /\ pc[t] = "write"
        /\ \/ /\ b = -1
              /\ Goes(t, "alloc", [a EXCEPT !.scan = 0])
              /\ UNCHANGED <<inode_table, fs_data, root_dir, open_file_table,
                             inode_lock, entry_lock>>
           \/ /\ b = Garbage
              /\ WriteReturns(t)
              /\ UNCHANGED <<inode_table, fs_data, root_dir, open_file_table>>
           \/ /\ b \in Blocks
              /\ RootDirAfter(b)
              /\ fs_data' = Copied(fs_data, b, off, m, a.byte)
              /\ open_file_table' = [open_file_table EXCEPT ![a.fh].of_offset = off + m]
              /\ inode_table' = [inode_table EXCEPT ![a.inum].i_size =
                                    IF off + m > size THEN off + m ELSE size]
              /\ IF a.left = m \/ a.blk + 1 = a.end THEN WriteReturns(t)
                 ELSE /\ Goes(t, "write", [a EXCEPT !.blk = a.blk + 1, !.left = a.left - m])
                      /\ UNCHANGED <<inode_lock, entry_lock>>
        /\ UNCHANGED <<freeinode_ts, free_blocks, free_open_file_entries,
                       open_files_count, open_file_lock, runVars>>

\* Variant: the block is handed out and not marked.
BlockUnmarked(b) == UNCHANGED free_blocks

BlockTaken(b) == free_blocks' = [free_blocks EXCEPT ![b] = TAKEN]

\* data_block_alloc looks at block arg.scan under its lock.
AllocScan(t) ==
    LET a == arg[t] IN
    /\ pc[t] = "alloc"
    /\ \/ /\ free_blocks[a.scan] = FREE
          /\ BlockTaken(a.scan)
          /\ BlockInstalled(a.inum, a.blk, a.scan)
          /\ LET ready == a.blk \in Direct \/ HasIndirect(a.inum) IN
             Goes(t, IF ready THEN "write" ELSE "label", [a EXCEPT !.scan = 0])
          /\ UNCHANGED <<inode_lock, entry_lock>>
       \/ /\ free_blocks[a.scan] = TAKEN /\ a.scan + 1 \in Blocks
          /\ Goes(t, "alloc", [a EXCEPT !.scan = a.scan + 1])
          /\ UNCHANGED <<free_blocks, inode_table, fs_data, inode_lock, entry_lock>>
       \/ /\ free_blocks[a.scan] = TAKEN /\ a.scan + 1 \notin Blocks
          /\ WriteReturns(t)
          /\ UNCHANGED <<free_blocks, inode_table, fs_data>>
    /\ UNCHANGED <<freeinode_ts, root_dir, entryVars, open_file_lock, runVars>>

\* The loop that labels the ints of the indirect block runs under no lock of
\* a block.
LabelIndirect(t) ==
    /\ pc[t] = "label"
    /\ IndirectLabelled(arg[t].inum)
    /\ At(t, "write")
    /\ UNCHANGED <<inode_table, freeinode_ts, free_blocks, root_dir, entryVars,
                   lockVars, runVars>>

-----------------------------------------------------------------------------
(* tfs_read, and the reads of tfs_copy_to_external_fs *)

ReadStart(t, h, len) ==
    /\ \/ pc[t] = "idle" /\ MayUse(h)
       \/ pc[t] = "copying" /\ h = arg[t].fh /\ len = BLOCK_SIZE
    /\ EntryFree(h)
    /\ entry_lock' = [entry_lock EXCEPT ![h].writer = t]
    /\ Goes(t, "read", [arg[t] EXCEPT !.fh = h, !.left = len,
                                      !.inum = open_file_table[h].of_inumber])
    /\ UNCHANGED <<stateVars, open_file_lock, inode_lock, runVars>>

\* What the caller does with what tfs_read copied: tfs_copy_to_external_fs
\* goes on after a whole block, and returns -1 when tfs_read or fwrite fails.
AfterRead(t, copied, ok) ==
    \/ ~arg[t].copy /\ Return(t)
    \/ arg[t].copy /\ Return(t)
    \/ arg[t].copy /\ ok /\ copied = BLOCK_SIZE /\ At(t, "copying")
    \/ arg[t].copy /\ ok /\ copied # BLOCK_SIZE /\ At(t, "closing")

ReadBody(t) ==
    LET h == arg[t].fh
        i == arg[t].inum
        off == open_file_table[h].of_offset
        n == ReadLen(inode_table[i].i_size, off, arg[t].left)
        r == Reading(i, off, n)
    IN  /\ pc[t] = "read" /\ InodeFree(i)
        /\ open_file_table' = [open_file_table EXCEPT ![h].of_offset = r.off]
        /\ AfterRead(t, n - r.left, r.ok)
        /\ entry_lock' = [entry_lock EXCEPT ![h].writer = NoThread]
        /\ UNCHANGED <<fileVars, free_open_file_entries, open_files_count,
                       open_file_lock, inode_lock, runVars>>

\* fopen of the destination: when it fails the source stays open.
CopyOpened(t) ==
    /\ pc[t] = "opened"
    /\ At(t, "copying") \/ Return(t)
    /\ UNCHANGED <<stateVars, lockVars, runVars>>

-----------------------------------------------------------------------------
(* tfs_destroy_after_all_closed, under open_files_mutex. *)

\* state_destroy: it ends the process when a thread holds open_file_lock.
StateDestroy(t) ==
    /\ open_files_count = 0
    /\ IF open_file_lock = NoThread
       THEN At(t, "destroy") /\ process' = "closing"
       ELSE process' = "exited" /\ UNCHANGED threadVars

DestroyWaits(t) ==
    /\ open_files_count # 0
    /\ At(t, "wait")
    /\ UNCHANGED process

DestroyEnter(t) ==
    /\ t \in Destroyers /\ pc[t] = "idle" /\ MutexLives
    /\ StateDestroy(t) \/ DestroyWaits(t)
    /\ UNCHANGED <<stateVars, lockVars, inits>>

\* Variant: after the wait the count is not looked at again.
DestroyWoken(t) ==
    /\ pc[t] = "woken" /\ MutexLives
    /\ At(t, "destroy") /\ process' = "closing"
    /\ UNCHANGED <<stateVars, lockVars, inits>>

DestroyRecheck(t) ==
    /\ pc[t] = "woken" /\ MutexLives
    /\ StateDestroy(t) \/ DestroyWaits(t)
    /\ UNCHANGED <<stateVars, lockVars, inits>>

\* The threads that may be in a section under open_files_mutex.
NearMutex(t) ==
    \/ pc[t] \in {"close", "woken"}
    \/ pc[t] = "add" /\ MayClaim(arg[t].scan)

\* destroy_mutex(&open_files_mutex), which fails when a thread has it.
DestroyMutex(t) ==
    /\ pc[t] = "destroy"
    /\ \/ At(t, "idle") /\ process' = "destroyed"
       \/ /\ \E u \in Threads : NearMutex(u)
          /\ process' = "exited" /\ UNCHANGED threadVars
    /\ UNCHANGED <<stateVars, lockVars, inits>>

SpuriousWakeup(t) ==
    /\ pc[t] = "wait"
    /\ At(t, "woken")
    /\ UNCHANGED <<stateVars, lockVars, runVars>>

-----------------------------------------------------------------------------
(* Calls of pthread that fail. *)

\* The thread asks for a lock that it holds: only a write of length 0 leaves
\* it with one.
RelocksOwn(t) ==
    \/ /\ pc[t] = "idle"
       /\ \E h \in Handles : entry_lock[h].writer = t /\ MayUse(h)
    \/ pc[t] \in {"found", "link", "lock", "read"} /\ inode_lock[arg[t].inum] = t
    \/ pc[t] = "create" /\ inode_lock[arg[t].scan] = t
    \/ pc[t] = "add" /\ entry_lock[arg[t].scan].writer = t

\* The thread locks open_file_lock or open_files_mutex after its destruction.
LocksDestroyed(t) ==
    \/ process \in {"closing", "destroyed"} /\ pc[t] = "idle"
    \/ process = "destroyed" /\ NearMutex(t)

LockFails(t) == (RelocksOwn(t) \/ LocksDestroyed(t)) /\ Exit

-----------------------------------------------------------------------------
(* Between calls. *)

TfsDestroy ==
    /\ \A t \in Threads : pc[t] = "idle"
    /\ process = "up"
    /\ process' = "closing"
    /\ UNCHANGED <<stateVars, threadVars, lockVars, inits>>

TfsInit ==
    /\ \A t \in Threads : pc[t] = "idle"
    /\ inits < MaxInits
    /\ inits' = inits + 1
    /\ StateReset
    /\ open_file_lock' = NoThread
    /\ inode_lock' = [i \in Inums |-> NoThread]
    /\ entry_lock' = [h \in Handles |-> Unlocked]
    /\ process' = "up"
    /\ UNCHANGED threadVars

-----------------------------------------------------------------------------
\* What a thread does inside a call, until it returns or waits to be woken.
Proceed(t) ==
    \/ OpenExisting(t) \/ CreateScan(t) \/ OpenLink(t) \/ AddScan(t)
    \/ pc[t] = "closing" /\ CloseStart(t)
    \/ CloseEnd(t)
    \/ WriteLock(t) \/ WriteBlock(t) \/ AllocScan(t) \/ LabelIndirect(t)
    \/ pc[t] = "copying" /\ ReadStart(t, arg[t].fh, BLOCK_SIZE)
    \/ ReadBody(t) \/ CopyOpened(t)
    \/ DestroyRecheck(t) \/ DestroyMutex(t)
    \/ pc[t] # "idle" /\ LockFails(t)

\* The process has ended: this is no deadlock.
Ended == process = "exited" /\ UNCHANGED vars

Next ==
    \/ /\ process # "exited"
       /\ \/ \E t \in Threads :
                \/ OpenStart(t) \/ OpenExisting(t) \/ CreateScan(t) \/ OpenLink(t)
                \/ AddScan(t) \/ CloseStart(t) \/ CloseEnd(t)
                \/ WriteLock(t) \/ WriteBlock(t) \/ AllocScan(t) \/ LabelIndirect(t)
                \/ ReadBody(t) \/ CopyOpened(t)
                \/ DestroyEnter(t) \/ DestroyRecheck(t) \/ DestroyMutex(t)
                \/ SpuriousWakeup(t)
                \/ LockFails(t)
                \/ \E h \in Handles, len \in Lens \cup {BLOCK_SIZE} : ReadStart(t, h, len)
                \/ \E h \in Handles, len \in Lens : WriteStart(t, h, len)
          \/ TfsDestroy \/ TfsInit
    \/ Ended

(* Fairness.  A thread inside a call goes on, and it gets a lock that is    *)
(* free again and again.  Nothing is assumed of the callers.                *)
Fairness == \A t \in Threads : SF_vars(process # "exited" /\ Proceed(t))

Spec == Init /\ [][Next]_vars
FairSpec == Spec /\ Fairness
=============================================================================
