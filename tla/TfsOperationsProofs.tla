------------------------ MODULE TfsOperationsProofs ------------------------
(***************************************************************************)
(* Proofs about TfsOperations, for any number of threads, handles, i-nodes *)
(* and blocks, and for any use of TFS_O_TRUNC.                             *)
(*                                                                         *)
(* OpenCountCovers is not inductive: a close would take the count below    *)
(* the number of open files if the entry it frees were already free, and   *)
(* an open would leave it behind if its entry were already taken.  Inv     *)
(* adds that the thread between its scan of the open file table and        *)
(* lock_mutex holds the global lock and that the entry is still as the     *)
(* scan found it.                                                          *)
(***************************************************************************)
EXTENDS TfsCorrectness, FiniteSetTheorems, TLAPS

\* Only the holder of the global lock is inside the open file table.
LockHeld == \A t \in Threads : pc[t] \in {"add", "remove"} => single_global_lock = t

\* The entry is as the scan (or the test) found it.
EntryStill == \A t \in Threads :
    /\ pc[t] = "add" => free_open_file_entries[arg[t].fh] = FREE
    /\ pc[t] = "remove" => free_open_file_entries[arg[t].fh] = TAKEN

\* A tfs_open has been given a name.
NameGiven == \A t \in Threads : pc[t] = "open" => arg[t].name \in Names

CallsOK == LockHeld /\ EntryStill /\ NameGiven

Inv == TypeOK /\ CallsOK /\ OpenCountCovers

-----------------------------------------------------------------------------
(* Counting the open file entries. *)

\* The open file table is finite, so its entries can be counted.
LEMMA TakenFinite ==
    /\ IsFiniteSet(TakenEntries)
    /\ Cardinality(TakenEntries) \in Nat
<1>1. IsFiniteSet(Handles)
  BY SizesAssumption, FS_Interval DEF Handles
<1>2. TakenEntries \subseteq Handles
  BY DEF TakenEntries
<1> QED
  BY <1>1, <1>2, FS_Subset, FS_CardinalityType

\* An open takes a free entry: one more is taken.
LEMMA TakenGrows ==
    ASSUME NEW h \in Handles, NEW inum, NEW offset, TypeOK,
           free_open_file_entries[h] = FREE, EntryAdded(h, inum, offset)
    PROVE  Cardinality(TakenEntries') = Cardinality(TakenEntries) + 1
<1>1. h \notin TakenEntries
  BY DEF TakenEntries, FREE, TAKEN
<1>2. TakenEntries' = TakenEntries \cup {h}
  BY DEF TakenEntries, EntryAdded, TypeOK, StateTypeOK, FREE, TAKEN
<1> QED
  BY <1>1, <1>2, TakenFinite, FS_AddElement

\* A close frees a taken entry: one less is taken, and one was.
LEMMA TakenShrinks ==
    ASSUME NEW h \in Handles, TypeOK,
           free_open_file_entries[h] = TAKEN, EntryRemoved(h)
    PROVE  /\ Cardinality(TakenEntries') = Cardinality(TakenEntries) - 1
           /\ Cardinality(TakenEntries) >= 1
<1>1. h \in TakenEntries
  BY DEF TakenEntries
<1>2. TakenEntries' = TakenEntries \ {h}
  BY DEF TakenEntries, EntryRemoved, TypeOK, StateTypeOK, FREE, TAKEN
<1>3. Cardinality(TakenEntries') = Cardinality(TakenEntries) - 1
  BY <1>1, <1>2, TakenFinite, FS_RemoveElement
<1>4. TakenEntries # {}
  BY <1>1
<1>5. Cardinality(TakenEntries) # 0
  BY <1>4, TakenFinite, FS_EmptySet
<1> QED
  BY <1>3, <1>5, TakenFinite

\* The count and the table unchanged, the invariant on them is too.
LEMMA CountUnchanged ==
    ASSUME OpenCountCovers, UNCHANGED <<free_open_file_entries, open_files_count>>
    PROVE  OpenCountCovers'
<1>1. TakenEntries' = TakenEntries
  BY DEF TakenEntries
<1> QED
  BY <1>1 DEF OpenCountCovers

-----------------------------------------------------------------------------
(* Type correctness, action by action. *)

\* tfs_init on the static tables of the process establishes the invariant.
THEOREM InitInv == Init => Inv
<1> SUFFICES ASSUME Init PROVE Inv
  OBVIOUS
<1> USE DEF Init, StateInit
<1>1. 0 \in Handles /\ 0 \in Inums /\ 0 \in Blocks
  BY SizesAssumption DEF Handles, Inums, Blocks
<1>2. StateTypeOK
  <2>1. inode_table \in [Inums -> Inode]
    BY <1>1, SizesAssumption DEF Inode, RootInode
  <2>2. freeinode_ts \in [Inums -> {FREE, TAKEN}]
    BY DEF FreshInodeMap
  <2>3. fs_data \in [Blocks -> Block]
    BY DEF Block
  <2>4. free_blocks \in [Blocks -> {FREE, TAKEN}]
    BY DEF FreshBlockMap
  <2>5. root_dir \in [DirSlots -> DirEntry]
    BY DEF FreshDir, DirEntry
  <2>6. open_file_table \in [Handles -> OpenFileEntry]
    BY <1>1 DEF OpenFileEntry
  <2>7. free_open_file_entries \in [Handles -> {FREE, TAKEN}]
    BY DEF FreshEntryMap
  <2> QED
    BY <2>1, <2>2, <2>3, <2>4, <2>5, <2>6, <2>7 DEF StateTypeOK
<1>3. TypeOK
  BY <1>1, <1>2, CallsAssumption, SizesAssumption DEF TypeOK, Pcs, NoArg, OpenArg
<1>4. CallsOK
  BY DEF CallsOK, LockHeld, EntryStill, NameGiven
<1>5. TakenEntries = {}
  BY DEF TakenEntries, FreshEntryMap, FREE, TAKEN
<1>6. OpenCountCovers
  BY <1>5, FS_EmptySet DEF OpenCountCovers
<1> QED
  BY <1>3, <1>4, <1>6 DEF Inv

\* A return leaves a thread outside every call, with its locals cleared.
LEMMA ReturnType ==
    ASSUME TypeOK, NEW t \in Threads, Return(t)
    PROVE  /\ pc' \in [Threads -> Pcs]
           /\ arg' \in [Threads -> [name : Names \cup {NoName},
                                    flags : FlagSets \cup {{}},
                                    fh : Handles, inum : Inums,
                                    offset : 0 .. BLOCK_SIZE]]
<1>1. 0 \in Handles /\ 0 \in Inums /\ 0 \in 0 .. BLOCK_SIZE
  BY SizesAssumption DEF Handles, Inums
<1> QED
  BY <1>1 DEF TypeOK, Return, NoArg, OpenArg, Pcs

\* The end of an open's scan: the thread has an entry, or it returns.
LEMMA EntryChosenType ==
    ASSUME TypeOK, NEW t \in Threads, NEW inum \in Inums,
           NEW offset \in 0 .. BLOCK_SIZE, EntryChosen(t, inum, offset)
    PROVE  /\ pc' \in [Threads -> Pcs]
           /\ arg' \in [Threads -> [name : Names \cup {NoName},
                                    flags : FlagSets \cup {{}},
                                    fh : Handles, inum : Inums,
                                    offset : 0 .. BLOCK_SIZE]]
           /\ single_global_lock' \in Threads \cup {NoThread}
<1>1. CASE \E h \in FreeEntries :
            /\ pc' = [pc EXCEPT ![t] = "add"]
            /\ arg' = [arg EXCEPT ![t] =
                          [@ EXCEPT !.fh = h, !.inum = inum, !.offset = offset]]
            /\ single_global_lock' = t
  <2>1. PICK h \in FreeEntries :
            /\ pc' = [pc EXCEPT ![t] = "add"]
            /\ arg' = [arg EXCEPT ![t] =
                          [@ EXCEPT !.fh = h, !.inum = inum, !.offset = offset]]
            /\ single_global_lock' = t
    BY <1>1
  <2> DEFINE Args == [name : Names \cup {NoName}, flags : FlagSets \cup {{}},
                      fh : Handles, inum : Inums, offset : 0 .. BLOCK_SIZE]
             a == [arg[t] EXCEPT !.fh = h, !.inum = inum, !.offset = offset]
  <2>2. arg \in [Threads -> Args]
    BY DEF TypeOK
  <2>3. a \in Args
    <3>1. arg[t] \in Args
      BY <2>2
    <3>2. h \in Handles
      BY DEF FreeEntries
    <3> QED
      BY <3>1, <3>2
  <2>4. arg' = [arg EXCEPT ![t] = a]
    BY <2>1
  <2>5. arg' \in [Threads -> Args]
    <3> HIDE DEF Args, a
    <3> QED
      BY <2>2, <2>3, <2>4
  <2>6. pc' \in [Threads -> Pcs]
    BY <2>1 DEF TypeOK, Pcs
  <2> QED
    BY <2>1, <2>5, <2>6
<1>2. CASE Return(t) /\ UNCHANGED single_global_lock
  BY <1>2, ReturnType DEF TypeOK
<1> QED
  BY <1>1, <1>2 DEF EntryChosen

\* No thread but t was inside the open file table when the lock was free.
LEMMA EntryChosenInv ==
    ASSUME Inv, NEW t \in Threads, NEW inum, NEW offset, GlobalLockFree,
           EntryChosen(t, inum, offset), UNCHANGED free_open_file_entries
    PROVE  CallsOK'
<1>1. \A u \in Threads : pc[u] \notin {"add", "remove"}
  BY ThreadsAssumption DEF Inv, LockHeld, GlobalLockFree, CallsOK, NameGiven
<1>2. CASE \E h \in FreeEntries :
            /\ pc' = [pc EXCEPT ![t] = "add"]
            /\ arg' = [arg EXCEPT ![t] =
                          [@ EXCEPT !.fh = h, !.inum = inum, !.offset = offset]]
            /\ single_global_lock' = t
  BY <1>1, <1>2 DEF LockHeld, EntryStill, Inv, TypeOK, FreeEntries, CallsOK, NameGiven
<1>3. CASE Return(t) /\ UNCHANGED single_global_lock
  BY <1>1, <1>3 DEF LockHeld, EntryStill, Inv, TypeOK, Return, CallsOK, NameGiven
<1> QED
  BY <1>2, <1>3 DEF EntryChosen

-----------------------------------------------------------------------------
(* Every action keeps the invariant. *)

LEMMA OpenCheckInv ==
    ASSUME Inv, NEW t \in Threads, OpenCheck(t) PROVE Inv'
<1> USE DEF OpenCheck, stateVars, fileVars, entryVars
<1>1. TypeOK'
  <2>1. 0 \in Handles /\ 0 \in Inums /\ 0 \in 0 .. BLOCK_SIZE
    BY SizesAssumption DEF Handles, Inums
  <2>2. StateTypeOK'
    BY DEF Inv, TypeOK, StateTypeOK
  <2>3. PICK n \in Names, flags \in FlagSets :
          arg' = [arg EXCEPT ![t] = OpenArg(n, flags)]
    OBVIOUS
  <2> QED
    BY <2>1, <2>2, <2>3 DEF Inv, TypeOK, Pcs, OpenArg
<1>2. CallsOK'
  BY DEF Inv, TypeOK, LockHeld, EntryStill, CallsOK, NameGiven, OpenArg
<1>3. OpenCountCovers'
  BY CountUnchanged DEF Inv
<1> QED
  BY <1>1, <1>2, <1>3 DEF Inv

\* A truncation frees a block of the table and sets a size to 0.
LEMMA TruncatedType ==
    ASSUME TypeOK, NEW i \in Inums, TruncatedInode(i)
    PROVE  /\ inode_table' \in [Inums -> Inode]
           /\ free_blocks' \in [Blocks -> {FREE, TAKEN}]
<1>1. CASE inode_table[i].i_size > 0
  <2>1. inode_table' = [inode_table EXCEPT ![i] =
              [i_size |-> 0, i_data_block |-> inode_table[i].i_data_block]]
    BY <1>1 DEF TruncatedInode, TypeOK, StateTypeOK, Inode
  <2>2. inode_table' \in [Inums -> Inode]
    BY <2>1, SizesAssumption DEF TypeOK, StateTypeOK, Inode
  <2>3. free_blocks' \in [Blocks -> {FREE, TAKEN}]
    BY <1>1 DEF TruncatedInode, TypeOK, StateTypeOK
  <2> QED
    BY <2>2, <2>3
<1>2. CASE ~(inode_table[i].i_size > 0)
  BY <1>2 DEF TruncatedInode, TypeOK, StateTypeOK
<1> QED
  BY <1>1, <1>2

LEMMA OpenExistingInv ==
    ASSUME Inv, NEW t \in Threads, OpenExisting(t) PROVE Inv'
<1>0. PICK s \in DirSlots :
          /\ IsFirst(Named(arg[t].name), s)
          /\ LET inum == root_dir[s].d_inumber IN
                /\ IF "TRUNC" \in arg[t].flags
                   THEN TruncatedInode(inum)
                   ELSE UNCHANGED <<inode_table, free_blocks>>
                /\ EntryChosen(t, inum, InitialOffset(t, inum))
  BY DEF OpenExisting
<1> DEFINE inum == root_dir[s].d_inumber
<1>1. inum \in Inums
  BY <1>0 DEF IsFirst, Named, Inv, TypeOK, StateTypeOK, DirEntry
<1>2. /\ inode_table' \in [Inums -> Inode]
      /\ free_blocks' \in [Blocks -> {FREE, TAKEN}]
  <2>1. CASE TruncatedInode(inum)
    BY <1>1, <2>1, TruncatedType DEF Inv
  <2>2. CASE UNCHANGED <<inode_table, free_blocks>>
    BY <2>2 DEF Inv, TypeOK, StateTypeOK
  <2> QED
    BY <1>0, <2>1, <2>2
<1>3. InitialOffset(t, inum) \in 0 .. BLOCK_SIZE
  BY <1>1, <1>2, SizesAssumption DEF InitialOffset, Inode
<1>4. TypeOK'
  <2>1. StateTypeOK'
    BY <1>2 DEF Inv, TypeOK, StateTypeOK, OpenExisting, entryVars
  <2>2. /\ pc' \in [Threads -> Pcs]
        /\ arg' \in [Threads -> [name : Names \cup {NoName},
                                 flags : FlagSets \cup {{}},
                                 fh : Handles, inum : Inums,
                                 offset : 0 .. BLOCK_SIZE]]
        /\ single_global_lock' \in Threads \cup {NoThread}
    BY <1>0, <1>1, <1>3, EntryChosenType DEF Inv
  <2> QED
    BY <2>1, <2>2 DEF Inv, TypeOK, OpenExisting
<1>5. CallsOK'
  BY <1>0, EntryChosenInv DEF OpenExisting, entryVars
<1>6. OpenCountCovers'
  BY CountUnchanged DEF Inv, OpenExisting, entryVars
<1> QED
  BY <1>4, <1>5, <1>6 DEF Inv

LEMMA ReturnInv ==
    ASSUME Inv, NEW t \in Threads, GlobalLockFree, Return(t),
           UNCHANGED <<single_global_lock, free_open_file_entries>>
    PROVE  CallsOK'
<1>1. \A u \in Threads : pc[u] \notin {"add", "remove"}
  BY ThreadsAssumption DEF Inv, LockHeld, GlobalLockFree, CallsOK, NameGiven
<1> QED
  BY <1>1 DEF LockHeld, EntryStill, Inv, TypeOK, Return, CallsOK, NameGiven

LEMMA OpenCreateInv ==
    ASSUME Inv, NEW t \in Threads, OpenCreate(t) PROVE Inv'
<1>0. PICK i \in Inums :
          /\ NewInode(i)
          /\ \/ \E s \in DirSlots :
                   /\ IsFirst(EmptySlots, s)
                   /\ LinkedInode(i, s, arg[t].name)
                   /\ EntryChosen(t, i, 0)
             \/ /\ DeletedInode(i)
                /\ Return(t)
                /\ UNCHANGED single_global_lock
  BY DEF OpenCreate
<1>1. inode_table' \in [Inums -> Inode]
  BY <1>0, SizesAssumption DEF NewInode, Inode, Inv, TypeOK, StateTypeOK
<1>2. CASE \E s \in DirSlots :
              LinkedInode(i, s, arg[t].name) /\ EntryChosen(t, i, 0)
  <2>1. PICK s \in DirSlots :
              LinkedInode(i, s, arg[t].name) /\ EntryChosen(t, i, 0)
    BY <1>2
  <2>2. arg[t].name \in Names
    BY DEF OpenCreate, Inv, CallsOK, NameGiven
  <2>3. StateTypeOK'
    <3>1. Stored[arg[t].name] \in Names
      BY <2>2, NamesAssumption
    <3>2. freeinode_ts' \in [Inums -> {FREE, TAKEN}]
      BY <2>1 DEF LinkedInode, Inv, TypeOK, StateTypeOK
    <3>3. root_dir' \in [DirSlots -> DirEntry]
      BY <2>1, <3>1 DEF LinkedInode, DirEntry, Inv, TypeOK, StateTypeOK
    <3> QED
      BY <1>1, <3>2, <3>3 DEF OpenCreate, entryVars, Inv, TypeOK, StateTypeOK
  <2>4. 0 \in 0 .. BLOCK_SIZE
    BY SizesAssumption
  <2>5. TypeOK'
    BY <2>1, <2>3, <2>4, EntryChosenType DEF Inv, TypeOK, OpenCreate
  <2>6. CallsOK'
    BY <2>1, EntryChosenInv DEF OpenCreate, entryVars
  <2> QED
    BY <2>5, <2>6, CountUnchanged DEF Inv, OpenCreate, entryVars
<1>3. CASE DeletedInode(i) /\ Return(t) /\ UNCHANGED single_global_lock
  <2>1. StateTypeOK'
    BY <1>1, <1>3 DEF DeletedInode, OpenCreate, entryVars, Inv, TypeOK, StateTypeOK
  <2>2. TypeOK'
    BY <1>3, <2>1, ReturnType DEF Inv, TypeOK, OpenCreate
  <2>3. CallsOK'
    BY <1>3, ReturnInv DEF OpenCreate, entryVars
  <2> QED
    BY <2>2, <2>3, CountUnchanged DEF Inv, OpenCreate, entryVars
<1> QED
  BY <1>0, <1>2, <1>3

LEMMA OpenFailsInv ==
    ASSUME Inv, NEW t \in Threads, OpenFails(t) PROVE Inv'
<1> USE DEF OpenFails, stateVars, fileVars, entryVars
<1>1. TypeOK'
  BY ReturnType DEF Inv, TypeOK, StateTypeOK
<1>2. CallsOK'
  BY ReturnInv
<1> QED
  BY <1>1, <1>2, CountUnchanged DEF Inv

\* The section of an open: only t held the global lock.
LEMMA AddEntryInv ==
    ASSUME Inv, NEW t \in Threads, AddEntry(t) PROVE Inv'
<1> DEFINE h == arg[t].fh
<1>1. h \in Handles /\ arg[t].inum \in Inums /\ arg[t].offset \in Nat
  BY SizesAssumption DEF Inv, TypeOK
<1>2. free_open_file_entries[h] = FREE
  BY DEF Inv, EntryStill, AddEntry, CallsOK, NameGiven
<1>3. EntryAdded(h, arg[t].inum, arg[t].offset)
  BY DEF AddEntry
<1>4. TypeOK'
  <2>1. open_file_table' \in [Handles -> OpenFileEntry]
    BY <1>1, <1>3 DEF EntryAdded, OpenFileEntry, Inv, TypeOK, StateTypeOK
  <2>2. free_open_file_entries' \in [Handles -> {FREE, TAKEN}]
    BY <1>1, <1>3 DEF EntryAdded, Inv, TypeOK, StateTypeOK
  <2>3. open_files_count' \in Nat
    BY <1>3 DEF EntryAdded, Inv, TypeOK, StateTypeOK
  <2>4. StateTypeOK'
    BY <2>1, <2>2, <2>3 DEF AddEntry, fileVars, Inv, TypeOK, StateTypeOK
  <2> QED
    BY <2>4, ReturnType DEF AddEntry, Inv, TypeOK
<1>5. CallsOK'
  <2>1. \A u \in Threads \ {t} : pc[u] \notin {"add", "remove"}
    BY DEF AddEntry, Inv, LockHeld, CallsOK, NameGiven
  <2> QED
    BY <2>1 DEF AddEntry, Return, LockHeld, EntryStill, Inv, TypeOK, CallsOK, NameGiven
<1>6. OpenCountCovers'
  <2>1. Cardinality(TakenEntries') = Cardinality(TakenEntries) + 1
    BY <1>1, <1>2, <1>3, TakenGrows DEF Inv
  <2>2. open_files_count' = open_files_count + 1
    BY <1>3 DEF EntryAdded
  <2> QED
    BY <2>1, <2>2, TakenFinite DEF OpenCountCovers, Inv, TypeOK, StateTypeOK
<1> QED
  BY <1>4, <1>5, <1>6 DEF Inv

LEMMA CloseStartInv ==
    ASSUME Inv, NEW t \in Threads, CloseStart(t) PROVE Inv'
<1> USE DEF CloseStart, stateVars, fileVars, entryVars
<1>1. PICK h \in TakenEntries : arg' = [arg EXCEPT ![t] = [NoArg EXCEPT !.fh = h]]
  OBVIOUS
<1>2. h \in Handles /\ free_open_file_entries[h] = TAKEN
  BY DEF TakenEntries
<1>3. [NoArg EXCEPT !.fh = h] =
          [name |-> NoName, flags |-> {}, fh |-> h, inum |-> 0, offset |-> 0]
  BY DEF NoArg, OpenArg
<1>4. arg' = [arg EXCEPT ![t] =
          [name |-> NoName, flags |-> {}, fh |-> h, inum |-> 0, offset |-> 0]]
  BY <1>1, <1>3
<1>5. TypeOK'
  <2>1. 0 \in Inums /\ 0 \in 0 .. BLOCK_SIZE
    BY SizesAssumption DEF Inums
  <2>2. StateTypeOK'
    BY DEF Inv, TypeOK, StateTypeOK
  <2> QED
    BY <1>2, <1>4, <2>1, <2>2 DEF Inv, TypeOK, Pcs
<1>6. CallsOK'
  <2>1. \A u \in Threads : pc[u] \notin {"add", "remove"}
    BY ThreadsAssumption DEF Inv, CallsOK, LockHeld, GlobalLockFree
  <2> QED
    BY <1>2, <1>4, <2>1
    DEF Inv, TypeOK, CallsOK, LockHeld, EntryStill, NameGiven
<1> QED
  BY <1>5, <1>6, CountUnchanged DEF Inv

\* What the waking of a waiter does: the others stay where they are.
LEMMA SignalPcs ==
    ASSUME TypeOK, NEW t \in Threads, pc[t] = "remove", SignalAndReturn(t)
    PROVE  /\ pc' \in [Threads -> Pcs]
           /\ pc'[t] = "idle"
           /\ \A u \in Threads \ {t} :
                 pc'[u] = pc[u] \/ (pc[u] = "wait" /\ pc'[u] = "woken")
<1>1. CASE \E d \in Waiters : pc' = [pc EXCEPT ![t] = "idle", ![d] = "woken"]
  <2>1. PICK d \in Waiters : pc' = [pc EXCEPT ![t] = "idle", ![d] = "woken"]
    BY <1>1
  <2>2. d \in Threads /\ pc[d] = "wait" /\ d # t
    BY DEF Waiters
  <2> QED
    BY <2>1, <2>2 DEF TypeOK, Pcs
<1>2. CASE pc' = [pc EXCEPT ![t] = "idle"]
  BY <1>2 DEF TypeOK, Pcs
<1> QED
  BY <1>1, <1>2 DEF SignalAndReturn

\* The section of a close: the entry was taken, so the count was not 0.
LEMMA RemoveEntryInv ==
    ASSUME Inv, NEW t \in Threads, RemoveEntry(t) PROVE Inv'
<1> DEFINE h == arg[t].fh
<1>1. h \in Handles
  BY DEF Inv, TypeOK
<1>2. free_open_file_entries[h] = TAKEN
  BY DEF RemoveEntry, Inv, CallsOK, EntryStill
<1>3. EntryRemoved(h)
  BY DEF RemoveEntry
<1>4. /\ Cardinality(TakenEntries') = Cardinality(TakenEntries) - 1
      /\ Cardinality(TakenEntries) >= 1
  BY <1>1, <1>2, <1>3, TakenShrinks DEF Inv
<1>5. open_files_count' = open_files_count - 1
  BY <1>3 DEF EntryRemoved
<1>6. open_files_count' \in Nat /\ OpenCountCovers'
  BY <1>4, <1>5, TakenFinite DEF Inv, OpenCountCovers, TypeOK, StateTypeOK
<1>7. /\ pc' \in [Threads -> Pcs]
      /\ pc'[t] = "idle"
      /\ \A u \in Threads \ {t} :
            pc'[u] = pc[u] \/ (pc[u] = "wait" /\ pc'[u] = "woken")
  BY SignalPcs DEF RemoveEntry, Inv
<1>8. TypeOK'
  <2>1. 0 \in Handles /\ 0 \in Inums /\ 0 \in 0 .. BLOCK_SIZE
    BY SizesAssumption DEF Handles, Inums
  <2>2. free_open_file_entries' \in [Handles -> {FREE, TAKEN}]
    BY <1>1, <1>3 DEF EntryRemoved, Inv, TypeOK, StateTypeOK
  <2>3. StateTypeOK'
    BY <1>3, <1>6, <2>2
    DEF RemoveEntry, EntryRemoved, fileVars, Inv, TypeOK, StateTypeOK
  <2> QED
    BY <1>7, <2>1, <2>3 DEF RemoveEntry, Inv, TypeOK, NoArg, OpenArg
<1>9. CallsOK'
  <2>1. \A u \in Threads \ {t} : pc[u] \notin {"add", "remove"}
    BY DEF RemoveEntry, Inv, CallsOK, LockHeld
  <2>2. \A u \in Threads \ {t} : arg'[u] = arg[u]
    BY DEF RemoveEntry, Inv, TypeOK
  <2> QED
    BY <1>7, <2>1, <2>2 DEF CallsOK, LockHeld, EntryStill, NameGiven, Inv
<1> QED
  BY <1>6, <1>8, <1>9 DEF Inv

\* The steps of tfs_destroy_after_all_closed touch no table.
LEMMA DestroyInv ==
    ASSUME Inv, NEW t \in Threads, DestroyEnter(t) \/ DestroyRecheck(t) \/ SpuriousWakeup(t)
    PROVE  Inv'
<1>1. /\ UNCHANGED <<fileVars, entryVars, arg, single_global_lock, inits>>
      /\ open_flag' \in {0, 1}
      /\ \/ pc' = [pc EXCEPT ![t] = "idle"]
         \/ pc' = [pc EXCEPT ![t] = "wait"]
         \/ pc' = [pc EXCEPT ![t] = "woken"]
  BY DEF DestroyEnter, DestroyRecheck, SpuriousWakeup, DestroyDone, DestroyWaits,
         stateVars, Inv, TypeOK, StateTypeOK
<1>2. TypeOK'
  BY <1>1 DEF Inv, TypeOK, StateTypeOK, Pcs, fileVars, entryVars
<1>3. CallsOK'
  BY <1>1 DEF Inv, TypeOK, CallsOK, LockHeld, EntryStill, NameGiven, entryVars
<1>4. OpenCountCovers'
  BY <1>1, CountUnchanged DEF Inv, entryVars
<1> QED
  BY <1>2, <1>3, <1>4 DEF Inv

\* Reads and writes move the offset of one entry.
LEMMA OffsetMoved ==
    ASSUME TypeOK, NEW h \in Handles, NEW end,
           open_file_table' = [open_file_table EXCEPT ![h].of_offset = end]
    PROVE  open_file_table' = [open_file_table EXCEPT ![h] =
               [of_inumber |-> open_file_table[h].of_inumber, of_offset |-> end]]
<1>1. open_file_table[h] \in [of_inumber : Inums, of_offset : Nat]
  BY DEF TypeOK, StateTypeOK, OpenFileEntry
<1>2. [open_file_table[h] EXCEPT !.of_offset = end] =
          [of_inumber |-> open_file_table[h].of_inumber, of_offset |-> end]
  BY <1>1
<1> QED
  BY <1>2

\* A write stays in its block, so a size does.
LEMMA WriteInv ==
    ASSUME Inv, NEW t \in Threads, NEW h \in Handles, NEW len \in Lens,
           NEW byte \in Bytes, Write(t, h, len, byte)
    PROVE  Inv'
<1> DEFINE i == open_file_table[h].of_inumber
           off == open_file_table[h].of_offset
           n == WriteLen(len, off)
<1>1. /\ i \in Inums /\ off \in Nat /\ off <= BLOCK_SIZE /\ len \in Nat
      /\ inode_table[i] \in Inode
  BY CallsAssumption DEF Inv, TypeOK, StateTypeOK, OpenFileEntry, Write
<1>2. n \in Nat /\ off + n \in 0 .. BLOCK_SIZE
  BY <1>1, SizesAssumption DEF WriteLen
<1>3. PICK b \in Blocks \cup {-1} :
              /\ IsWriteBlock(inode_table[i], b)
              /\ IF b # -1
                 THEN Written(h, n, b, byte)
                 ELSE /\ inode_table' = [inode_table EXCEPT ![i].i_data_block = b]
                      /\ UNCHANGED <<fs_data, open_file_table, free_blocks>>
  BY DEF Write
<1>4. StateTypeOK'
  <2>1. CASE b # -1
    <3>1. b \in Blocks /\ Written(h, n, b, byte)
      BY <1>3, <2>1
    <3>2. fs_data' \in [Blocks -> Block]
      <4>1. DEFINE blk == [k \in DOMAIN fs_data[b] |->
                             IF off <= k /\ k < off + n THEN byte ELSE fs_data[b][k]]
      <4>2. fs_data' = [fs_data EXCEPT ![b] = blk]
        BY <3>1 DEF Written
      <4>3. blk \in Block
        <5>1. fs_data[b] \in [0 .. BLOCK_SIZE - 1 -> Bytes \cup {Blank}]
          BY <3>1 DEF Block, Inv, TypeOK, StateTypeOK
        <5>2. blk \in [0 .. BLOCK_SIZE - 1 -> Bytes \cup {Blank}]
          BY <5>1
        <5> QED
          BY <5>2 DEF Block
      <4> QED
        BY <3>1, <4>2, <4>3 DEF Inv, TypeOK, StateTypeOK
    <3>3. open_file_table' \in [Handles -> OpenFileEntry]
      <4>1. open_file_table' = [open_file_table EXCEPT ![h] =
                                   [of_inumber |-> i, of_offset |-> off + n]]
        <5>1. open_file_table' = [open_file_table EXCEPT ![h].of_offset = off + n]
          BY <3>1 DEF Written
        <5> QED
          BY <5>1, OffsetMoved DEF Inv
      <4> QED
        BY <1>1, <1>2, <4>1 DEF OpenFileEntry, Inv, TypeOK, StateTypeOK
    <3>4. inode_table' \in [Inums -> Inode]
      BY <1>1, <1>2, <3>1 DEF Written, Inode, Inv, TypeOK, StateTypeOK
    <3>5. free_blocks' \in [Blocks -> {FREE, TAKEN}]
      BY <3>1 DEF Written, Inv, TypeOK, StateTypeOK
    <3> QED
      BY <3>2, <3>3, <3>4, <3>5 DEF Write, Inv, TypeOK, StateTypeOK
  <2>2. CASE b = -1
    <3>1. inode_table' = [inode_table EXCEPT ![i] =
              [i_size |-> inode_table[i].i_size, i_data_block |-> -1]]
      BY <1>1, <1>3, <2>2 DEF Inode, Inv, TypeOK, StateTypeOK
    <3>2. inode_table' \in [Inums -> Inode]
      BY <1>1, <3>1 DEF Inode, Inv, TypeOK, StateTypeOK
    <3> QED
      BY <1>3, <2>2, <3>2 DEF Write, Inv, TypeOK, StateTypeOK
  <2> QED
    BY <2>1, <2>2
<1>5. TypeOK'
  BY <1>4 DEF Write, threadVars, Inv, TypeOK
<1>6. CallsOK'
  BY DEF Write, threadVars, Inv, CallsOK, LockHeld, EntryStill, NameGiven
<1> QED
  BY <1>5, <1>6, CountUnchanged DEF Inv, Write

LEMMA ReadInv ==
    ASSUME Inv, NEW t \in Threads, NEW h \in Handles, NEW len \in Lens,
           Read(t, h, len)
    PROVE  Inv'
<1> DEFINE i == open_file_table[h].of_inumber
           off == open_file_table[h].of_offset
           n == ReadLen(inode_table[i].i_size, off, len)
<1>1. i \in Inums /\ off \in Nat /\ len \in Nat /\ inode_table[i].i_size \in Nat
  BY CallsAssumption, SizesAssumption
  DEF Inv, TypeOK, StateTypeOK, OpenFileEntry, Inode
<1>2. n \in Nat
  <2>1. inode_table[i].i_size - off \in Int /\ SIZE_T \in Nat /\ SIZE_T > 0
    BY <1>1, SizesAssumption
  <2>2. (inode_table[i].i_size - off) % SIZE_T \in Nat
    BY <2>1
  <2> QED
    BY <1>1, <2>2 DEF ReadLen
<1>3. open_file_table' = [open_file_table EXCEPT ![h] =
                              [of_inumber |-> i, of_offset |-> off + n]]
  <2>1. open_file_table' = [open_file_table EXCEPT ![h].of_offset = off + n]
    BY DEF Read
  <2> QED
    BY <2>1, OffsetMoved DEF Inv
<1>4. open_file_table' \in [Handles -> OpenFileEntry]
  BY <1>1, <1>2, <1>3 DEF OpenFileEntry, Inv, TypeOK, StateTypeOK
<1>5. TypeOK'
  BY <1>4 DEF Read, fileVars, threadVars, Inv, TypeOK, StateTypeOK
<1>6. CallsOK'
  BY DEF Read, threadVars, Inv, CallsOK, LockHeld, EntryStill, NameGiven
<1> QED
  BY <1>5, <1>6, CountUnchanged DEF Inv, Read

\* tfs_init frees every entry and keeps the count.
LEMMA TfsInitInv ==
    ASSUME Inv, TfsInit PROVE Inv'
<1>1. 0 \in Inums /\ 0 \in Blocks
  BY SizesAssumption DEF Inums, Blocks
<1>2. StateTypeOK'
  <2>1. inode_table' \in [Inums -> Inode]
    BY <1>1, SizesAssumption
    DEF TfsInit, StateReset, RootInode, ROOT_DIR_INUM, Inode, Inv, TypeOK, StateTypeOK
  <2>2. root_dir' \in [DirSlots -> DirEntry]
    <3>1. root_dir' = [s \in DirSlots |-> [root_dir[s] EXCEPT !.d_inumber = -1]]
      BY DEF TfsInit, StateReset
    <3>2. ASSUME NEW s \in DirSlots
          PROVE  [root_dir[s] EXCEPT !.d_inumber = -1] \in DirEntry
      <4>1. root_dir[s] \in DirEntry
        BY DEF Inv, TypeOK, StateTypeOK
      <4> QED
        BY <4>1 DEF DirEntry
    <3> QED
      BY <3>1, <3>2
  <2> QED
    BY <2>1, <2>2 DEF TfsInit, StateReset, FreshInodeMap, FreshBlockMap,
                      FreshEntryMap, Inv, TypeOK, StateTypeOK
<1>3. TypeOK'
  BY <1>2, CallsAssumption DEF TfsInit, threadVars, Inv, TypeOK
<1>4. CallsOK'
  BY DEF TfsInit, threadVars, CallsOK, LockHeld, EntryStill, NameGiven
<1>5. OpenCountCovers'
  <2>1. TakenEntries' = {}
    BY DEF TakenEntries, TfsInit, StateReset, FreshEntryMap, FREE, TAKEN
  <2>2. open_files_count' = open_files_count
    BY DEF TfsInit, StateReset
  <2> QED
    BY <2>1, <2>2, FS_EmptySet DEF OpenCountCovers, Inv, TypeOK, StateTypeOK
<1> QED
  BY <1>3, <1>4, <1>5 DEF Inv

-----------------------------------------------------------------------------
LEMMA StepInv == Inv /\ [Next]_vars => Inv'
<1> SUFFICES ASSUME Inv, [Next]_vars PROVE Inv'
  OBVIOUS
<1>1. CASE UNCHANGED vars
  <2>1. TypeOK' /\ CallsOK'
    BY <1>1 DEF Inv, TypeOK, StateTypeOK, CallsOK, LockHeld, EntryStill,
                NameGiven, vars, stateVars, fileVars, entryVars, threadVars
  <2> QED
    BY <1>1, <2>1, CountUnchanged DEF Inv, vars, stateVars, entryVars
<1>2. CASE TfsInit
  BY <1>2, TfsInitInv
<1>3. ASSUME NEW t \in Threads,
             \/ OpenCheck(t) \/ OpenRefused(t)
             \/ OpenExisting(t) \/ OpenCreate(t) \/ OpenFails(t) \/ AddEntry(t)
             \/ CloseStart(t) \/ RemoveEntry(t)
             \/ DestroyEnter(t) \/ DestroyRecheck(t) \/ SpuriousWakeup(t)
      PROVE  Inv'
  BY <1>1, <1>3, OpenCheckInv, OpenExistingInv, OpenCreateInv, OpenFailsInv,
     AddEntryInv, CloseStartInv, RemoveEntryInv, DestroyInv DEF OpenRefused
<1>4. ASSUME NEW t \in Threads, NEW h \in Handles, NEW len \in Lens,
             Read(t, h, len) \/ \E byte \in Bytes : Write(t, h, len, byte)
      PROVE  Inv'
  BY <1>4, ReadInv, WriteInv
<1> QED
  BY <1>1, <1>2, <1>3, <1>4 DEF Next

LEMMA SpecInv == Spec => []Inv
  BY InitInv, StepInv, PTL DEF Spec

\* The tables and the threads always hold values of their types, and no file
\* is longer than a block.
THEOREM TypeCorrect == Spec => []TypeOK
<1>1. Inv => TypeOK
  BY DEF Inv
<1> QED
  BY <1>1, SpecInv, PTL

\* tfs_destroy_after_all_closed never counts fewer files than are open.
THEOREM CountCovers == Spec => []OpenCountCovers
<1>1. Inv => OpenCountCovers
  BY DEF Inv
<1> QED
  BY <1>1, SpecInv, PTL

-----------------------------------------------------------------------------
(* The action properties follow from the invariant. *)

\* A count of 0 means that no entry is taken.
LEMMA NoneOpenAtZero ==
    ASSUME Inv, open_files_count = 0 PROVE TakenEntries = {}
<1>1. Cardinality(TakenEntries) = 0
  BY TakenFinite DEF Inv, OpenCountCovers
<1> QED
  BY <1>1, TakenFinite, FS_EmptySet

\* Only the end of tfs_destroy_after_all_closed clears open_flag.
LEMMA FlagCleared ==
    ASSUME Inv, Next, open_flag = 1, open_flag' = 0 PROVE open_files_count = 0
<1>1. ASSUME NEW t \in Threads, DestroyEnter(t) \/ DestroyRecheck(t)
      PROVE  open_files_count = 0
  BY <1>1 DEF DestroyEnter, DestroyRecheck, DestroyDone, DestroyWaits
<1>2. ASSUME NEW t \in Threads,
             \/ OpenCheck(t) \/ OpenRefused(t)
             \/ OpenExisting(t) \/ OpenCreate(t) \/ OpenFails(t) \/ AddEntry(t)
             \/ CloseStart(t) \/ RemoveEntry(t) \/ SpuriousWakeup(t)
      PROVE  FALSE
  BY <1>2 DEF OpenCheck, OpenRefused, OpenExisting, OpenCreate, OpenFails,
              AddEntry, CloseStart, RemoveEntry, SpuriousWakeup, vars, stateVars
<1>3. ASSUME NEW t \in Threads, NEW h \in Handles, NEW len \in Lens,
             Read(t, h, len) \/ \E byte \in Bytes : Write(t, h, len, byte)
      PROVE  FALSE
  BY <1>3 DEF Read, Write
<1>4. CASE TfsInit
  BY <1>4 DEF TfsInit, StateReset
<1> QED
  BY <1>1, <1>2, <1>3, <1>4 DEF Next

\* tfs_destroy_after_all_closed takes effect only when no file is open, however
\* many threads open, close, re-initialise and wait at once.
THEOREM DestroySafe == Spec => DestroyOnlyWhenNoneOpen
<1>1. Inv /\ [Next]_vars =>
          [open_flag = 1 /\ open_flag' = 0 => TakenEntries = {}]_vars
  BY NoneOpenAtZero, FlagCleared
<1> QED
  BY <1>1, SpecInv, PTL DEF Spec, DestroyOnlyWhenNoneOpen

\* An entry that is taken before and after a step stands for the same file:
\* the only step that writes of_inumber does so in an entry that was free.
LEMMA FileKept ==
    ASSUME Inv, Next, NEW h \in TakenEntries \cap TakenEntries'
    PROVE  open_file_table'[h].of_inumber = open_file_table[h].of_inumber
<1>0. /\ h \in Handles /\ free_open_file_entries[h] = TAKEN
      /\ open_file_table \in [Handles -> OpenFileEntry]
  BY DEF TakenEntries, Inv, TypeOK, StateTypeOK
<1>1. ASSUME NEW t \in Threads, AddEntry(t)
      PROVE  open_file_table'[h] = open_file_table[h]
  <2>1. arg[t].fh # h
    BY <1>0, <1>1 DEF AddEntry, Inv, CallsOK, EntryStill, FREE, TAKEN
  <2> QED
    BY <1>0, <1>1, <2>1 DEF AddEntry, EntryAdded
<1>2. ASSUME NEW t \in Threads,
             \/ OpenCheck(t) \/ OpenRefused(t)
             \/ OpenExisting(t) \/ OpenCreate(t) \/ OpenFails(t)
             \/ CloseStart(t) \/ RemoveEntry(t)
             \/ DestroyEnter(t) \/ DestroyRecheck(t) \/ SpuriousWakeup(t)
      PROVE  UNCHANGED open_file_table
  BY <1>2 DEF OpenCheck, OpenRefused, OpenExisting, OpenCreate, OpenFails,
              CloseStart, RemoveEntry, EntryRemoved, DestroyEnter,
              DestroyRecheck, SpuriousWakeup, vars, stateVars, entryVars
<1>3. ASSUME NEW t \in Threads, NEW g \in Handles, NEW end,
             open_file_table' = [open_file_table EXCEPT ![g].of_offset = end]
      PROVE  open_file_table'[h].of_inumber = open_file_table[h].of_inumber
  <2>1. open_file_table' = [open_file_table EXCEPT ![g] =
            [of_inumber |-> open_file_table[g].of_inumber, of_offset |-> end]]
    BY <1>3, OffsetMoved DEF Inv
  <2> QED
    BY <1>0, <2>1
<1>4. ASSUME NEW t \in Threads, NEW g \in Handles, NEW len \in Lens, Read(t, g, len)
      PROVE  open_file_table'[h].of_inumber = open_file_table[h].of_inumber
  BY <1>3, <1>4 DEF Read
<1>5. ASSUME NEW t \in Threads, NEW g \in Handles, NEW len \in Lens,
             NEW byte \in Bytes, Write(t, g, len, byte)
      PROVE  open_file_table'[h].of_inumber = open_file_table[h].of_inumber
  <2>1. \/ UNCHANGED open_file_table
        \/ \E n, b : Written(g, n, b, byte)
    BY <1>5 DEF Write
  <2> QED
    BY <1>3, <2>1 DEF Written
<1>6. CASE TfsInit
  BY <1>6 DEF TfsInit, StateReset
<1> QED
  BY <1>1, <1>2, <1>4, <1>5, <1>6 DEF Next

\* A handle never comes to stand for another file while it is open.
THEOREM HandleSafe == Spec => HandleKeepsFile
<1>1. Inv /\ [Next]_vars =>
          [\A h \in TakenEntries \cap TakenEntries' :
              open_file_table'[h].of_inumber = open_file_table[h].of_inumber]_vars
  BY FileKept
<1> QED
  BY <1>1, SpecInv, PTL DEF Spec, HandleKeepsFile
=============================================================================
