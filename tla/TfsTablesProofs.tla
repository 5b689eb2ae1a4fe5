-------------------------- MODULE TfsTablesProofs --------------------------
(***************************************************************************)
(* Proofs about the directory, the blocks and the offsets of TfsOperations *)
(* for any number of threads, names, i-nodes, blocks and handles.  They    *)
(* rest on Inv of TfsOperationsProofs and on one more invariant, LinksInv: *)
(* what the directory, the open files and the opens in progress point at   *)
(* are files that exist.                                                   *)
(***************************************************************************)
EXTENDS TfsOperationsProofs

\* The i-node of a file that exists.
IsFile(i) == i \in Inums /\ i # ROOT_DIR_INUM /\ freeinode_ts[i] = TAKEN

\* Nothing leads to an i-node that is free, or to the root directory's.
LinksInv ==
    /\ Inv
    /\ freeinode_ts[ROOT_DIR_INUM] = TAKEN
    /\ \A s \in LinkedSlots : IsFile(root_dir[s].d_inumber)
    /\ \A h \in TakenEntries : IsFile(open_file_table[h].of_inumber)
    /\ \A t \in Threads : pc[t] = "add" => IsFile(arg[t].inum)

-----------------------------------------------------------------------------
(* The steps. *)

\* No thread but t moves.
OnlyMoves(t) == \A u \in Threads \ {t} : pc'[u] = pc[u] /\ arg'[u] = arg[u]

\* A step that changes no file, opens none and starts no tfs_open.
Quiet ==
    /\ UNCHANGED <<inode_table, freeinode_ts, free_blocks, root_dir, open_file_table>>
    /\ TakenEntries' \subseteq TakenEntries
    /\ \A u \in Threads : \/ pc'[u] = pc[u] /\ arg'[u] = arg[u]
                          \/ pc'[u] \notin {"open", "add"}

\* A close, a failed open and the waits of tfs_destroy_after_all_closed.
LEMMA QuietSteps ==
    ASSUME Inv, NEW t \in Threads,
           \/ OpenRefused(t) \/ OpenFails(t) \/ CloseStart(t) \/ RemoveEntry(t)
           \/ DestroyEnter(t) \/ DestroyRecheck(t) \/ SpuriousWakeup(t)
    PROVE  Quiet
<1> USE DEF vars, stateVars, fileVars, entryVars, threadVars
<1>1. pc \in [Threads -> Pcs] /\ DOMAIN arg = Threads
  BY DEF Inv, TypeOK
<1>2. CASE RemoveEntry(t)
  <2>1. TakenEntries' \subseteq TakenEntries
    BY <1>2 DEF RemoveEntry, EntryRemoved, TakenEntries, FREE, TAKEN,
                Inv, TypeOK, StateTypeOK
  <2>2. /\ pc'[t] = "idle"
        /\ \A u \in Threads \ {t} :
              pc'[u] = pc[u] \/ (pc[u] = "wait" /\ pc'[u] = "woken")
    BY <1>2, SignalPcs DEF RemoveEntry, Inv
  <2>3. \A u \in Threads \ {t} : arg'[u] = arg[u]
    BY <1>1, <1>2 DEF RemoveEntry
  <2> QED
    BY <1>2, <2>1, <2>2, <2>3 DEF Quiet, RemoveEntry, EntryRemoved
<1>3. CASE \/ OpenRefused(t) \/ OpenFails(t) \/ CloseStart(t)
           \/ DestroyEnter(t) \/ DestroyRecheck(t) \/ SpuriousWakeup(t)
  <2>1. UNCHANGED <<fileVars, entryVars>>
    BY <1>3 DEF OpenRefused, OpenFails, CloseStart, DestroyEnter, DestroyRecheck,
                SpuriousWakeup
  <2>2. /\ OnlyMoves(t)
        /\ \/ pc'[t] = pc[t] /\ arg'[t] = arg[t]
           \/ pc'[t] \notin {"open", "add"}
    BY <1>1, <1>3 DEF OpenRefused, OpenFails, Return, CloseStart, DestroyEnter,
                      DestroyRecheck, DestroyDone, DestroyWaits, SpuriousWakeup,
                      OnlyMoves
  <2>3. TakenEntries' = TakenEntries
    BY <2>1 DEF TakenEntries
  <2> QED
    BY <2>1, <2>2, <2>3 DEF Quiet, OnlyMoves
<1> QED
  BY <1>2, <1>3

\* The steps that are not quiet.
LEMMA StepCases ==
    ASSUME Inv, [Next]_vars
    PROVE  \/ Quiet \/ TfsInit
           \/ \E t \in Threads :
                 \/ OpenCheck(t) \/ OpenExisting(t) \/ OpenCreate(t) \/ AddEntry(t)
                 \/ \E h \in Handles, len \in Lens :
                       Read(t, h, len) \/ \E byte \in Bytes : Write(t, h, len, byte)
<1>1. ASSUME UNCHANGED vars PROVE Quiet
  BY <1>1 DEF Quiet, vars, stateVars, fileVars, entryVars, threadVars, TakenEntries
<1> QED
  BY <1>1, QuietSteps DEF Next

\* The end of an open's scan moves t alone.
LEMMA EntryChosenMoves ==
    ASSUME Inv, NEW t \in Threads, NEW inum, NEW offset, EntryChosen(t, inum, offset)
    PROVE  /\ OnlyMoves(t)
           /\ \/ pc'[t] = "idle"
              \/ /\ pc'[t] = "add"
                 /\ arg'[t].inum = inum /\ arg'[t].offset = offset
                 /\ arg'[t].name = arg[t].name
<1>1. /\ pc \in [Threads -> Pcs]
      /\ arg \in [Threads -> [name : Names \cup {NoName}, flags : FlagSets \cup {{}},
                              fh : Handles, inum : Inums, offset : 0 .. BLOCK_SIZE]]
  BY DEF Inv, TypeOK
<1>2. CASE Return(t)
  BY <1>1, <1>2 DEF Return, OnlyMoves
<1>3. ASSUME NEW h \in FreeEntries, pc' = [pc EXCEPT ![t] = "add"],
             arg' = [arg EXCEPT ![t] =
                        [@ EXCEPT !.fh = h, !.inum = inum, !.offset = offset]]
      PROVE  /\ OnlyMoves(t) /\ pc'[t] = "add"
             /\ arg'[t].inum = inum /\ arg'[t].offset = offset
             /\ arg'[t].name = arg[t].name
  BY <1>1, <1>3 DEF OnlyMoves
<1> QED
  BY <1>2, <1>3 DEF EntryChosen

\* Nobody is between the choice of an entry and its claim while the lock is free.
LEMMA NobodyAdds ==
    ASSUME Inv, GlobalLockFree, NEW u \in Threads PROVE pc[u] # "add"
BY ThreadsAssumption DEF Inv, CallsOK, LockHeld, GlobalLockFree

\* The claim of an entry: one more file is open, and t has returned.
LEMMA AddEntryMoves ==
    ASSUME Inv, NEW t \in Threads, AddEntry(t)
    PROVE  /\ pc[t] = "add" /\ pc'[t] = "idle" /\ OnlyMoves(t)
           /\ UNCHANGED fileVars
           /\ TakenEntries' = TakenEntries \cup {arg[t].fh}
           /\ arg[t].fh \notin TakenEntries
           /\ \A h \in TakenEntries : open_file_table'[h] = open_file_table[h]
           /\ open_file_table'[arg[t].fh] =
                  [of_inumber |-> arg[t].inum, of_offset |-> arg[t].offset]
<1>1. /\ arg[t].fh \in Handles /\ DOMAIN open_file_table = Handles
      /\ free_open_file_entries \in [Handles -> {FREE, TAKEN}]
      /\ DOMAIN pc = Threads /\ DOMAIN arg = Threads
  BY DEF Inv, TypeOK, StateTypeOK
<1>2. pc[t] = "add" /\ EntryAdded(arg[t].fh, arg[t].inum, arg[t].offset) /\ Return(t)
  BY DEF AddEntry
<1>3. free_open_file_entries[arg[t].fh] = FREE
  BY <1>2 DEF Inv, CallsOK, EntryStill
<1>4. TakenEntries' = TakenEntries \cup {arg[t].fh}
  BY <1>1, <1>2 DEF EntryAdded, TakenEntries
<1>5. arg[t].fh \notin TakenEntries
  BY <1>3 DEF TakenEntries, FREE, TAKEN
<1>6. /\ \A h \in TakenEntries : open_file_table'[h] = open_file_table[h]
      /\ open_file_table'[arg[t].fh] =
             [of_inumber |-> arg[t].inum, of_offset |-> arg[t].offset]
  BY <1>1, <1>2, <1>5 DEF EntryAdded, TakenEntries
<1>7. pc'[t] = "idle" /\ OnlyMoves(t)
  BY <1>1, <1>2 DEF Return, OnlyMoves
<1> QED
  BY <1>2, <1>4, <1>5, <1>6, <1>7 DEF AddEntry

\* tfs_init leaves no file, no open file and no call.
LEMMA TfsInitClears ==
    ASSUME Inv, TfsInit
    PROVE  /\ TakenEntries' = {} /\ LinkedSlots' = {}
           /\ \A t \in Threads : pc'[t] = "idle"
           /\ freeinode_ts' = FreshInodeMap /\ free_blocks' = FreshBlockMap
           /\ inode_table'[ROOT_DIR_INUM] = RootInode
<1>1. TakenEntries' = {}
  BY DEF TfsInit, StateReset, FreshEntryMap, TakenEntries, FREE, TAKEN
<1>2. LinkedSlots' = {}
  <2>1. root_dir \in [DirSlots -> DirEntry]
    BY DEF Inv, TypeOK, StateTypeOK
  <2>2. \A s \in DirSlots : root_dir'[s].d_inumber = -1
    BY <2>1 DEF TfsInit, StateReset, DirEntry
  <2> QED
    BY <2>2 DEF LinkedSlots
<1>3. inode_table'[ROOT_DIR_INUM] = RootInode
  BY SizesAssumption DEF TfsInit, StateReset, Inv, TypeOK, StateTypeOK, Inums, ROOT_DIR_INUM
<1> QED
  BY <1>1, <1>2, <1>3 DEF TfsInit, StateReset, threadVars

-----------------------------------------------------------------------------
(* What leads to an i-node. *)

\* The root directory has an i-node and its block.
LEMMA RootInRange == ROOT_DIR_INUM \in Inums /\ 0 \in Blocks
BY SizesAssumption DEF Inums, Blocks, ROOT_DIR_INUM

\* There is no file at first but the root directory.
LEMMA InitLinks == Init => LinksInv
<1> SUFFICES ASSUME Init PROVE LinksInv
  OBVIOUS
<1>1. LinkedSlots = {} /\ TakenEntries = {}
  BY DEF Init, StateInit, FreshDir, FreshEntryMap, LinkedSlots, TakenEntries, FREE, TAKEN
<1>2. freeinode_ts[ROOT_DIR_INUM] = TAKEN
  BY RootInRange DEF Init, StateInit, FreshInodeMap
<1> QED
  BY <1>1, <1>2, InitInv DEF LinksInv, Init

\* No file and no name comes or goes.
LEMMA LinksKept ==
    ASSUME LinksInv, Inv', UNCHANGED <<freeinode_ts, root_dir>>,
           \A h \in TakenEntries' : IsFile(open_file_table'[h].of_inumber),
           \A t \in Threads : pc'[t] = "add" => IsFile(arg'[t].inum)
    PROVE  LinksInv'
BY DEF LinksInv, LinkedSlots, IsFile

\* The file that the lookup of an open finds.
LEMMA LookedUp ==
    ASSUME LinksInv, NEW t \in Threads, NEW s \in DirSlots,
           IsFirst(Named(arg[t].name), s)
    PROVE  s \in LinkedSlots /\ IsFile(root_dir[s].d_inumber)
BY DEF LinksInv, IsFirst, Named, LinkedSlots

\* Only the offset of an entry moves in a read or a write.
LEMMA FilesOfHandles ==
    ASSUME Inv, NEW t \in Threads, NEW h \in Handles, NEW len,
           Read(t, h, len) \/ \E byte \in Bytes : Write(t, h, len, byte)
    PROVE  /\ TakenEntries' = TakenEntries
           /\ UNCHANGED <<freeinode_ts, root_dir, threadVars>>
           /\ \A g \in Handles :
                 open_file_table'[g].of_inumber = open_file_table[g].of_inumber
<1>1. TakenEntries' = TakenEntries /\ UNCHANGED <<freeinode_ts, root_dir, threadVars>>
  BY DEF Read, Write, TakenEntries, fileVars
<1>2. \/ UNCHANGED open_file_table
      \/ \E end : open_file_table' = [open_file_table EXCEPT ![h].of_offset = end]
  BY DEF Read, Write, Written
<1>3. ASSUME NEW end, open_file_table' = [open_file_table EXCEPT ![h].of_offset = end]
      PROVE  \A g \in Handles :
                 open_file_table'[g].of_inumber = open_file_table[g].of_inumber
  <2>1. open_file_table' = [open_file_table EXCEPT ![h] =
            [of_inumber |-> open_file_table[h].of_inumber, of_offset |-> end]]
    BY <1>3, OffsetMoved DEF Inv
  <2> QED
    BY <2>1 DEF Inv, TypeOK, StateTypeOK
<1> QED
  BY <1>1, <1>2, <1>3

\* A new file has an i-node that was free, and a directory entry leads to it;
\* or the directory is full, and the i-node is free again.
LEMMA Created ==
    ASSUME LinksInv, NEW t \in Threads, OpenCreate(t)
    PROVE  \E i \in Inums :
              /\ i # ROOT_DIR_INUM /\ freeinode_ts[i] = FREE
              /\ inode_table' = [inode_table EXCEPT ![i] =
                                    [i_size |-> 0, i_data_block |-> -1]]
              /\ UNCHANGED <<free_blocks, open_file_table>>
              /\ TakenEntries' = TakenEntries
              /\ OnlyMoves(t) /\ pc'[t] # "open"
              /\ \/ \E s \in DirSlots \ LinkedSlots :
                       /\ freeinode_ts' = [freeinode_ts EXCEPT ![i] = TAKEN]
                       /\ root_dir' = [root_dir EXCEPT ![s] =
                              [d_inumber |-> i, d_name |-> Stored[arg[t].name]]]
                       /\ LinkedSlots' = LinkedSlots \cup {s}
                       /\ pc'[t] = "add" =>
                             /\ arg'[t].inum = i /\ arg'[t].offset = 0
                             /\ arg'[t].name = arg[t].name
                 \/ /\ UNCHANGED <<freeinode_ts, root_dir>>
                    /\ pc'[t] = "idle"
<1>1. PICK i \in Inums :
          /\ IsFirst(FreeInodes, i)
          /\ NewInode(i)
          /\ \/ \E s \in DirSlots :
                   /\ IsFirst(EmptySlots, s)
                   /\ LinkedInode(i, s, arg[t].name)
                   /\ EntryChosen(t, i, 0)
             \/ /\ DeletedInode(i)
                /\ Return(t)
  BY DEF OpenCreate
<1>2. freeinode_ts[i] = FREE /\ i # ROOT_DIR_INUM /\ i # -1
  BY <1>1, SizesAssumption DEF IsFirst, FreeInodes, LinksInv, FREE, TAKEN, Inums
<1>3. TakenEntries' = TakenEntries /\ UNCHANGED <<free_blocks, open_file_table>>
  BY DEF OpenCreate, entryVars, TakenEntries
<1>4. ASSUME NEW s \in DirSlots, IsFirst(EmptySlots, s),
             LinkedInode(i, s, arg[t].name), EntryChosen(t, i, 0)
      PROVE  /\ s \in DirSlots \ LinkedSlots
             /\ LinkedSlots' = LinkedSlots \cup {s}
             /\ OnlyMoves(t) /\ pc'[t] # "open"
             /\ pc'[t] = "add" =>
                   /\ arg'[t].inum = i /\ arg'[t].offset = 0
                   /\ arg'[t].name = arg[t].name
  <2>1. s \in DirSlots \ LinkedSlots
    BY <1>4 DEF IsFirst, EmptySlots, LinkedSlots
  <2>2. LinkedSlots' = LinkedSlots \cup {s}
    BY <1>2, <1>4 DEF LinkedInode, LinkedSlots, LinksInv, Inv, TypeOK, StateTypeOK
  <2>3. Inv
    BY DEF LinksInv
  <2> QED
    BY <1>4, <2>1, <2>2, <2>3, EntryChosenMoves
<1>5. ASSUME DeletedInode(i), Return(t)
      PROVE  /\ UNCHANGED <<freeinode_ts, root_dir>>
             /\ OnlyMoves(t) /\ pc'[t] = "idle"
  <2>1. freeinode_ts \in [Inums -> {FREE, TAKEN}] /\ DOMAIN pc = Threads /\ DOMAIN arg = Threads
    BY DEF LinksInv, Inv, TypeOK, StateTypeOK
  <2>2. freeinode_ts' = freeinode_ts
    BY <1>2, <1>5, <2>1 DEF DeletedInode
  <2> QED
    BY <1>5, <2>1, <2>2 DEF DeletedInode, Return, OnlyMoves
<1>6. CASE \E s \in DirSlots :
              /\ IsFirst(EmptySlots, s)
              /\ LinkedInode(i, s, arg[t].name)
              /\ EntryChosen(t, i, 0)
  <2>1. PICK s \in DirSlots :
              /\ IsFirst(EmptySlots, s)
              /\ LinkedInode(i, s, arg[t].name)
              /\ EntryChosen(t, i, 0)
    BY <1>6
  <2> QED
    BY <1>1, <1>2, <1>3, <1>4, <2>1 DEF NewInode, LinkedInode
<1>7. CASE DeletedInode(i) /\ Return(t)
  BY <1>1, <1>2, <1>3, <1>5, <1>7 DEF NewInode
<1> QED
  BY <1>1, <1>6, <1>7

\* A new entry leads to a new file, and older ones still lead to theirs.
LEMMA CreateLinks ==
    ASSUME LinksInv, Inv', NEW t \in Threads, OpenCreate(t)
    PROVE  LinksInv'
<1>1. PICK i \in Inums :
          /\ i # ROOT_DIR_INUM /\ freeinode_ts[i] = FREE
          /\ UNCHANGED open_file_table
          /\ TakenEntries' = TakenEntries
          /\ OnlyMoves(t)
          /\ \/ \E s \in DirSlots \ LinkedSlots :
                   /\ freeinode_ts' = [freeinode_ts EXCEPT ![i] = TAKEN]
                   /\ root_dir' = [root_dir EXCEPT ![s] =
                          [d_inumber |-> i, d_name |-> Stored[arg[t].name]]]
                   /\ LinkedSlots' = LinkedSlots \cup {s}
                   /\ pc'[t] = "add" => arg'[t].inum = i
             \/ UNCHANGED <<freeinode_ts, root_dir>> /\ pc'[t] = "idle"
  BY Created
<1>2. \A u \in Threads \ {t} : pc'[u] = "add" => IsFile(arg'[u].inum)
  BY <1>1 DEF OnlyMoves, LinksInv
<1>3. ASSUME NEW s \in DirSlots \ LinkedSlots,
             freeinode_ts' = [freeinode_ts EXCEPT ![i] = TAKEN],
             root_dir' = [root_dir EXCEPT ![s] =
                    [d_inumber |-> i, d_name |-> Stored[arg[t].name]]],
             LinkedSlots' = LinkedSlots \cup {s},
             pc'[t] = "add" => arg'[t].inum = i
      PROVE  LinksInv'
  <2>1. /\ freeinode_ts \in [Inums -> {FREE, TAKEN}]
        /\ DOMAIN root_dir = DirSlots
    BY DEF LinksInv, Inv, TypeOK, StateTypeOK
  <2>2. /\ i \in Inums /\ i # ROOT_DIR_INUM /\ freeinode_ts'[i] = TAKEN
        /\ \A j \in Inums : freeinode_ts[j] = TAKEN => freeinode_ts'[j] = TAKEN
    BY <1>1, <1>3, <2>1
  <2>3. freeinode_ts'[ROOT_DIR_INUM] = TAKEN
    BY <1>3, <2>1, RootInRange DEF LinksInv
  <2>4. (\A r \in LinkedSlots : IsFile(root_dir[r].d_inumber))'
    BY <1>3, <2>1, <2>2 DEF LinksInv, LinkedSlots, IsFile
  <2>5. (\A h \in TakenEntries : IsFile(open_file_table[h].of_inumber))'
    BY <1>1, <2>2 DEF LinksInv, IsFile
  <2>6. (\A u \in Threads : pc[u] = "add" => IsFile(arg[u].inum))'
    BY <1>2, <1>3, <2>2 DEF IsFile
  <2> QED
    BY <2>3, <2>4, <2>5, <2>6 DEF LinksInv, IsFile
<1>4. CASE UNCHANGED <<freeinode_ts, root_dir>> /\ pc'[t] = "idle"
  BY <1>1, <1>2, <1>4, LinksKept DEF LinksInv
<1> QED
  BY <1>1, <1>3, <1>4

\* An open that finds its file is about to open a file that exists.
LEMMA OpenExistingLinks ==
    ASSUME LinksInv, Inv', NEW t \in Threads, OpenExisting(t)
    PROVE  LinksInv'
<1>1. PICK s \in DirSlots :
          /\ IsFirst(Named(arg[t].name), s)
          /\ EntryChosen(t, root_dir[s].d_inumber,
                         InitialOffset(t, root_dir[s].d_inumber))
  BY DEF OpenExisting
<1>2. IsFile(root_dir[s].d_inumber)
  BY <1>1, LookedUp
<1>3. OnlyMoves(t) /\ (pc'[t] = "add" => arg'[t].inum = root_dir[s].d_inumber)
  BY <1>1, EntryChosenMoves DEF LinksInv
<1>4. TakenEntries' = TakenEntries /\ UNCHANGED <<freeinode_ts, root_dir, open_file_table>>
  BY DEF OpenExisting, entryVars, TakenEntries
<1> QED
  BY <1>2, <1>3, <1>4, LinksKept DEF LinksInv, OnlyMoves

\* The file of a new handle is the one that the open found or created.
LEMMA AddEntryLinks ==
    ASSUME LinksInv, Inv', NEW t \in Threads, AddEntry(t)
    PROVE  LinksInv'
<1>1. /\ pc[t] = "add" /\ pc'[t] = "idle" /\ OnlyMoves(t)
      /\ UNCHANGED fileVars
      /\ TakenEntries' = TakenEntries \cup {arg[t].fh}
      /\ \A h \in TakenEntries : open_file_table'[h] = open_file_table[h]
      /\ open_file_table'[arg[t].fh] =
             [of_inumber |-> arg[t].inum, of_offset |-> arg[t].offset]
  BY AddEntryMoves DEF LinksInv
<1>2. open_file_table'[arg[t].fh].of_inumber = arg[t].inum
  BY <1>1
<1>3. \A h \in TakenEntries' : IsFile(open_file_table'[h].of_inumber)
  BY <1>1, <1>2 DEF LinksInv
<1> QED
  BY <1>1, <1>3, LinksKept DEF LinksInv, OnlyMoves, fileVars

\* Every step keeps the invariant.
LEMMA StepLinks ==
    ASSUME LinksInv, [Next]_vars
    PROVE  LinksInv'
<1>0. Inv /\ Inv'
  BY StepInv DEF LinksInv
<1>1. CASE Quiet
  <2>1. \A h \in TakenEntries' : IsFile(open_file_table'[h].of_inumber)
    BY <1>1 DEF Quiet, LinksInv
  <2>2. \A t \in Threads : pc'[t] = "add" => IsFile(arg'[t].inum)
    BY <1>1 DEF Quiet, LinksInv
  <2> QED
    BY <1>0, <1>1, <2>1, <2>2, LinksKept DEF Quiet
<1>2. CASE TfsInit
  <2>1. /\ TakenEntries' = {} /\ LinkedSlots' = {}
        /\ \A t \in Threads : pc'[t] = "idle"
        /\ freeinode_ts' = FreshInodeMap
    BY <1>0, <1>2, TfsInitClears
  <2>2. freeinode_ts'[ROOT_DIR_INUM] = TAKEN
    BY <2>1, RootInRange DEF FreshInodeMap
  <2> QED
    BY <1>0, <2>1, <2>2 DEF LinksInv
<1>3. ASSUME NEW t \in Threads, OpenCheck(t)
      PROVE  LinksInv'
  <2>1. /\ UNCHANGED <<freeinode_ts, root_dir, open_file_table, free_open_file_entries>>
        /\ OnlyMoves(t) /\ pc'[t] = "open"
    BY <1>0, <1>3 DEF OpenCheck, OnlyMoves, stateVars, fileVars, entryVars, Inv, TypeOK
  <2>2. TakenEntries' = TakenEntries
    BY <2>1 DEF TakenEntries
  <2> QED
    BY <1>0, <2>1, <2>2, LinksKept DEF LinksInv, OnlyMoves
<1>4. ASSUME NEW t \in Threads, NEW h \in Handles, NEW len \in Lens,
             Read(t, h, len) \/ \E byte \in Bytes : Write(t, h, len, byte)
      PROVE  LinksInv'
  <2>1. /\ TakenEntries' = TakenEntries
        /\ UNCHANGED <<freeinode_ts, root_dir, threadVars>>
        /\ \A g \in TakenEntries :
              open_file_table'[g].of_inumber = open_file_table[g].of_inumber
    BY <1>0, <1>4, FilesOfHandles DEF TakenEntries
  <2> QED
    BY <1>0, <2>1, LinksKept DEF LinksInv, threadVars
<1> QED
  BY <1>0, <1>1, <1>2, <1>3, <1>4, StepCases, CreateLinks, OpenExistingLinks,
     AddEntryLinks

-----------------------------------------------------------------------------
(* The directory, when every name is stored as it is. *)

\* DirectoryConsistent made inductive.
DirInv == LinksInv /\ DirectoryConsistent

\* No file and no name comes or goes.
LEMMA DirKept ==
    ASSUME DirInv, LinksInv', UNCHANGED <<freeinode_ts, root_dir>>
    PROVE  DirInv'
BY DEF DirInv, DirectoryConsistent, LinkedSlots

\* The name of a new file is the one that the lookup did not find.
LEMMA CreateDir ==
    ASSUME \A n \in Names : Stored[n] = n,
           DirInv, LinksInv', NEW t \in Threads, OpenCreate(t)
    PROVE  DirInv'
<1> DEFINE n == arg[t].name
<1>1. n \in Names /\ Named(n) = {} /\ Stored[n] = n
  BY DEF OpenCreate, DirInv, LinksInv, Inv, CallsOK, NameGiven
<1>2. PICK i \in Inums :
          /\ i # ROOT_DIR_INUM /\ freeinode_ts[i] = FREE
          /\ \/ \E s \in DirSlots \ LinkedSlots :
                   /\ freeinode_ts' = [freeinode_ts EXCEPT ![i] = TAKEN]
                   /\ root_dir' = [root_dir EXCEPT ![s] =
                          [d_inumber |-> i, d_name |-> Stored[n]]]
                   /\ LinkedSlots' = LinkedSlots \cup {s}
             \/ UNCHANGED <<freeinode_ts, root_dir>>
  BY Created DEF DirInv
<1>3. ASSUME NEW s \in DirSlots \ LinkedSlots,
             freeinode_ts' = [freeinode_ts EXCEPT ![i] = TAKEN],
             root_dir' = [root_dir EXCEPT ![s] = [d_inumber |-> i, d_name |-> n]],
             LinkedSlots' = LinkedSlots \cup {s}
      PROVE  DirectoryConsistent'
  <2>1. freeinode_ts \in [Inums -> {FREE, TAKEN}] /\ DOMAIN root_dir = DirSlots
    BY DEF DirInv, LinksInv, Inv, TypeOK, StateTypeOK
  <2>2. /\ root_dir'[s].d_inumber = i /\ root_dir'[s].d_name = n
        /\ \A r \in LinkedSlots : r # s /\ root_dir'[r] = root_dir[r]
    BY <1>3, <2>1 DEF LinkedSlots
  <2>3. \A r \in LinkedSlots : root_dir[r].d_inumber # i /\ root_dir[r].d_name # n
    BY <1>1, <1>2 DEF DirInv, LinksInv, IsFile, LinkedSlots, Named, FREE, TAKEN
  <2>4. \A r \in LinkedSlots' :
            root_dir'[r].d_inumber # ROOT_DIR_INUM
            /\ freeinode_ts'[root_dir'[r].d_inumber] = TAKEN
    BY DEF LinksInv, IsFile
  <2>5. \A r \in LinkedSlots' : \A q \in LinkedSlots' \ {r} :
            /\ root_dir'[q].d_inumber # root_dir'[r].d_inumber
            /\ root_dir'[q].d_name # root_dir'[r].d_name
    BY <1>3, <2>2, <2>3 DEF DirInv, DirectoryConsistent
  <2>6. \A j \in Inums \ {ROOT_DIR_INUM} : freeinode_ts'[j] = TAKEN =>
            \E r \in LinkedSlots' : root_dir'[r].d_inumber = j
    <3> SUFFICES ASSUME NEW j \in Inums \ {ROOT_DIR_INUM}, freeinode_ts'[j] = TAKEN
                 PROVE  \E r \in LinkedSlots' : root_dir'[r].d_inumber = j
      OBVIOUS
    <3>1. CASE j = i
      BY <1>3, <2>2, <3>1
    <3>2. CASE j # i
      <4>1. freeinode_ts[j] = TAKEN
        BY <1>3, <2>1, <3>2
      <4>2. PICK r \in LinkedSlots : root_dir[r].d_inumber = j
        BY <4>1 DEF DirInv, DirectoryConsistent
      <4> QED
        BY <1>3, <2>2, <4>2
    <3> QED
      BY <3>1, <3>2
  <2> QED
    BY <2>4, <2>5, <2>6 DEF DirectoryConsistent
<1>4. ASSUME UNCHANGED <<freeinode_ts, root_dir>> PROVE DirectoryConsistent'
  BY <1>4, DirKept DEF DirInv
<1> QED
  BY <1>1, <1>2, <1>3, <1>4 DEF DirInv

\* Every step keeps the invariant.
LEMMA StepDir ==
    ASSUME \A n \in Names : Stored[n] = n, DirInv, [Next]_vars
    PROVE  DirInv'
<1>0. Inv /\ LinksInv'
  BY StepLinks DEF DirInv, LinksInv
<1>1. CASE TfsInit
  <2>1. LinkedSlots' = {} /\ freeinode_ts' = FreshInodeMap
    BY <1>0, <1>1, TfsInitClears
  <2> QED
    BY <1>0, <2>1 DEF DirInv, DirectoryConsistent, FreshInodeMap, FREE, TAKEN
<1>2. ASSUME NEW t \in Threads, NEW h \in Handles, NEW len \in Lens,
             Read(t, h, len) \/ \E byte \in Bytes : Write(t, h, len, byte)
      PROVE  UNCHANGED <<freeinode_ts, root_dir>>
  BY <1>2 DEF Read, Write, fileVars
<1>3. ASSUME NEW t \in Threads, OpenCheck(t) \/ OpenExisting(t) \/ AddEntry(t)
      PROVE  UNCHANGED <<freeinode_ts, root_dir>>
  BY <1>3 DEF OpenCheck, OpenExisting, AddEntry, stateVars, fileVars
<1>4. ASSUME UNCHANGED <<freeinode_ts, root_dir>> PROVE DirInv'
  BY <1>0, <1>4, DirKept
<1> QED
  BY <1>0, <1>1, <1>2, <1>3, <1>4, StepCases, CreateDir DEF Quiet

\* The directory is empty at first, and only its own i-node is taken.
LEMMA InitDir == Init => DirInv
<1> SUFFICES ASSUME Init PROVE DirInv
  OBVIOUS
<1>1. LinkedSlots = {} /\ freeinode_ts = FreshInodeMap
  BY DEF Init, StateInit, FreshDir, LinkedSlots
<1> QED
  BY <1>1, InitLinks DEF DirInv, DirectoryConsistent, FreshInodeMap, FREE, TAKEN

\* No opens, failed ones included, leave two entries of one name, two names of
\* one i-node, or an i-node without a name, as long as every name is stored as
\* it is (short, with a leading '/').
THEOREM DirectorySafe ==
    ASSUME \A n \in Names : Stored[n] = n
    PROVE  Spec => []DirectoryConsistent
<1>1. DirInv /\ [Next]_vars => DirInv'
  BY StepDir
<1>2. DirInv => DirectoryConsistent
  BY DEF DirInv
<1> QED
  BY <1>1, <1>2, InitDir, PTL DEF Spec

-----------------------------------------------------------------------------
(* The blocks. *)

\* BlocksOwned made inductive: what is open or named is never a free i-node,
\* so no write and no truncation takes or frees a block behind its owner's back.
BlocksInv == LinksInv /\ BlocksOwned

\* No file grows from or shrinks to nothing.
LEMMA BlocksKept ==
    ASSUME BlocksInv, LinksInv', UNCHANGED <<inode_table, freeinode_ts, free_blocks>>
    PROVE  BlocksInv'
<1>1. NonEmptyInodes' = NonEmptyInodes
  BY DEF NonEmptyInodes
<1> QED
  BY <1>1 DEF BlocksInv, BlocksOwned

\* The blocks of all files that are not empty, and the blocks marked TAKEN.
BlocksInUse == {inode_table[i].i_data_block : i \in NonEmptyInodes}
TakenBlocks == {b \in Blocks : free_blocks[b] = TAKEN}

\* A truncated file owns nothing, and its block has no other owner.
LEMMA TruncatedBlocks ==
    ASSUME BlocksInv, NEW i, IsFile(i), TruncatedInode(i), UNCHANGED freeinode_ts
    PROVE  BlocksOwned'
<1>1. /\ i \in Inums /\ freeinode_ts[i] = TAKEN
      /\ inode_table \in [Inums -> Inode] /\ free_blocks \in [Blocks -> {FREE, TAKEN}]
  BY DEF IsFile, BlocksInv, LinksInv, Inv, TypeOK, StateTypeOK
<1>2. /\ \A j, k \in NonEmptyInodes :
            inode_table[j].i_data_block = inode_table[k].i_data_block => j = k
      /\ TakenBlocks = BlocksInUse
  BY DEF BlocksInv, BlocksOwned, TakenBlocks, BlocksInUse
<1>3. CASE inode_table[i].i_size > 0
  <2> DEFINE b == inode_table[i].i_data_block
  <2>1. i \in NonEmptyInodes /\ b \in TakenBlocks
    BY <1>1, <1>2, <1>3 DEF NonEmptyInodes, BlocksInUse
  <2>2. /\ free_blocks' = [free_blocks EXCEPT ![b] = FREE]
        /\ inode_table' = [inode_table EXCEPT ![i] =
               [i_size |-> 0, i_data_block |-> b]]
    BY <1>1, <1>3 DEF TruncatedInode, Inode
  <2>3. \A j \in Inums \ {i} : inode_table'[j] = inode_table[j]
    BY <1>1, <2>2
  <2>4. NonEmptyInodes' = NonEmptyInodes \ {i}
    BY <1>1, <2>2, <2>3 DEF NonEmptyInodes
  <2>5. TakenBlocks' = TakenBlocks \ {b}
    BY <1>1, <2>1, <2>2 DEF TakenBlocks, FREE, TAKEN
  <2>6. \A j \in NonEmptyInodes' :
            j \in NonEmptyInodes /\ j # i /\ inode_table'[j] = inode_table[j]
    BY <2>3, <2>4 DEF NonEmptyInodes
  <2>7. BlocksInUse' = BlocksInUse \ {b}
    BY <1>2, <2>1, <2>4, <2>6 DEF BlocksInUse
  <2>8. \A j, k \in NonEmptyInodes' :
            inode_table'[j].i_data_block = inode_table'[k].i_data_block => j = k
    BY <1>2, <2>6
  <2> QED
    BY <1>2, <2>5, <2>7, <2>8 DEF BlocksOwned, TakenBlocks, BlocksInUse
<1>4. CASE ~(inode_table[i].i_size > 0)
  <2>1. UNCHANGED <<inode_table, free_blocks>>
    BY <1>4 DEF TruncatedInode
  <2>2. NonEmptyInodes' = NonEmptyInodes
    BY <2>1 DEF NonEmptyInodes
  <2> QED
    BY <2>1, <2>2 DEF BlocksInv, BlocksOwned
<1> QED
  BY <1>3, <1>4

\* A new file is empty.
LEMMA CreateBlocks ==
    ASSUME BlocksInv, NEW t \in Threads, OpenCreate(t)
    PROVE  BlocksOwned'
<1>1. PICK i \in Inums :
          /\ freeinode_ts[i] = FREE
          /\ inode_table' = [inode_table EXCEPT ![i] =
                                [i_size |-> 0, i_data_block |-> -1]]
          /\ UNCHANGED free_blocks
          /\ \/ freeinode_ts' = [freeinode_ts EXCEPT ![i] = TAKEN]
             \/ UNCHANGED freeinode_ts
  BY Created DEF BlocksInv
<1>2. freeinode_ts \in [Inums -> {FREE, TAKEN}] /\ DOMAIN inode_table = Inums
  BY DEF BlocksInv, LinksInv, Inv, TypeOK, StateTypeOK
<1>3. /\ ~(inode_table'[i].i_size > 0)
      /\ \A j \in Inums \ {i} : /\ inode_table'[j] = inode_table[j]
                                /\ freeinode_ts'[j] = freeinode_ts[j]
  BY <1>1, <1>2
<1>4. NonEmptyInodes' = NonEmptyInodes /\ i \notin NonEmptyInodes
  BY <1>1, <1>3 DEF NonEmptyInodes, FREE, TAKEN
<1>5. \A j \in NonEmptyInodes : inode_table'[j] = inode_table[j]
  BY <1>3, <1>4 DEF NonEmptyInodes
<1> QED
  BY <1>1, <1>4, <1>5 DEF BlocksInv, BlocksOwned

\* A write gives an empty file a block that was free, and a file that is not
\* empty keeps its own.
LEMMA WriteBlocks ==
    ASSUME BlocksInv, NEW t \in Threads, NEW h \in Handles, NEW len \in Lens,
           NEW byte \in Bytes, Write(t, h, len, byte)
    PROVE  BlocksOwned'
<1> DEFINE i == open_file_table[h].of_inumber
           off == open_file_table[h].of_offset
           n == WriteLen(len, off)
<1>1. IsFile(i) /\ off \in Nat /\ off <= BLOCK_SIZE
  BY DEF Write, BlocksInv, LinksInv, TakenEntries, Inv, TypeOK, StateTypeOK, OpenFileEntry
<1>2. /\ i \in Inums /\ freeinode_ts[i] = TAKEN /\ UNCHANGED freeinode_ts
      /\ inode_table \in [Inums -> Inode] /\ free_blocks \in [Blocks -> {FREE, TAKEN}]
      /\ inode_table[i].i_size \in Nat
  BY <1>1, SizesAssumption
  DEF Write, IsFile, BlocksInv, LinksInv, Inv, TypeOK, StateTypeOK, Inode
<1>3. /\ \A j, k \in NonEmptyInodes :
            inode_table[j].i_data_block = inode_table[k].i_data_block => j = k
      /\ TakenBlocks = BlocksInUse
  BY DEF BlocksInv, BlocksOwned, TakenBlocks, BlocksInUse
<1>4. n \in Nat /\ n > 0
  BY <1>1, CallsAssumption, SizesAssumption DEF WriteLen, Write
<1>5. PICK b \in Blocks \cup {-1} :
          /\ IsWriteBlock(inode_table[i], b)
          /\ IF b # -1
             THEN Written(h, n, b, byte)
             ELSE /\ inode_table' = [inode_table EXCEPT ![i].i_data_block = b]
                  /\ UNCHANGED free_blocks
  BY DEF Write
<1>6. CASE inode_table[i].i_size > 0
  <2>1. b = inode_table[i].i_data_block
    BY <1>2, <1>5, <1>6 DEF IsWriteBlock
  <2>2. i \in NonEmptyInodes /\ b \in TakenBlocks
    BY <1>2, <1>3, <1>6, <2>1 DEF NonEmptyInodes, BlocksInUse
  <2>3. b \in Blocks /\ b # -1 /\ free_blocks[b] = TAKEN
    BY <2>2, SizesAssumption DEF TakenBlocks, Blocks
  <2>4. free_blocks' = free_blocks
    BY <1>2, <1>5, <2>3 DEF Written
  <2>5. /\ inode_table'[i].i_data_block = b /\ inode_table'[i].i_size > 0
        /\ \A j \in Inums \ {i} : inode_table'[j] = inode_table[j]
    BY <1>1, <1>2, <1>4, <1>5, <1>6, <2>3 DEF Written
  <2>6. NonEmptyInodes' = NonEmptyInodes
    BY <1>2, <2>2, <2>5 DEF NonEmptyInodes
  <2>7. \A j \in NonEmptyInodes :
            inode_table'[j].i_data_block = inode_table[j].i_data_block
    BY <2>1, <2>5 DEF NonEmptyInodes
  <2> QED
    BY <2>4, <2>6, <2>7 DEF BlocksInv, BlocksOwned
<1>7. CASE ~(inode_table[i].i_size > 0) /\ b # -1
  <2>1. b \in Blocks /\ free_blocks[b] = FREE
    BY <1>2, <1>5, <1>7 DEF IsWriteBlock, IsFirst, FreeBlocks
  <2>2. /\ Written(h, n, b, byte)
        /\ free_blocks' = [free_blocks EXCEPT ![b] = TAKEN]
    BY <1>5, <1>7 DEF Written
  <2>3. /\ inode_table'[i].i_data_block = b /\ inode_table'[i].i_size > 0
        /\ \A j \in Inums \ {i} : inode_table'[j] = inode_table[j]
    BY <1>1, <1>2, <1>4, <1>7, <2>2 DEF Written
  <2>4. i \notin NonEmptyInodes /\ NonEmptyInodes' = NonEmptyInodes \cup {i}
    BY <1>2, <1>7, <2>3 DEF NonEmptyInodes
  <2>5. TakenBlocks' = TakenBlocks \cup {b} /\ b \notin TakenBlocks
    BY <1>2, <2>1, <2>2 DEF TakenBlocks, FREE, TAKEN
  <2>6. \A j \in NonEmptyInodes :
            /\ j # i /\ inode_table'[j] = inode_table[j]
            /\ inode_table[j].i_data_block # b
    BY <1>3, <2>3, <2>4, <2>5 DEF NonEmptyInodes, BlocksInUse
  <2>7. BlocksInUse' = BlocksInUse \cup {b}
    BY <2>3, <2>4, <2>6 DEF BlocksInUse
  <2>8. \A j, k \in NonEmptyInodes' :
            inode_table'[j].i_data_block = inode_table'[k].i_data_block => j = k
    BY <1>3, <2>3, <2>4, <2>6
  <2> QED
    BY <1>3, <2>5, <2>7, <2>8 DEF BlocksOwned, TakenBlocks, BlocksInUse
<1>8. CASE ~(inode_table[i].i_size > 0) /\ b = -1
  <2>1. inode_table' = [inode_table EXCEPT ![i] =
            [i_size |-> inode_table[i].i_size, i_data_block |-> b]]
    BY <1>2, <1>5, <1>8 DEF Inode
  <2>2. /\ inode_table'[i].i_size = inode_table[i].i_size
        /\ \A j \in Inums \ {i} : inode_table'[j] = inode_table[j]
    BY <1>2, <2>1
  <2>3. NonEmptyInodes' = NonEmptyInodes /\ i \notin NonEmptyInodes
    BY <1>2, <1>8, <2>2 DEF NonEmptyInodes
  <2>4. \A j \in NonEmptyInodes : inode_table'[j] = inode_table[j]
    BY <2>2, <2>3 DEF NonEmptyInodes
  <2> QED
    BY <1>5, <1>8, <2>3, <2>4 DEF BlocksInv, BlocksOwned
<1> QED
  BY <1>6, <1>7, <1>8

\* The one file after tfs_init is the root directory.
LEMMA RootOwnsBlock ==
    ASSUME freeinode_ts = FreshInodeMap, free_blocks = FreshBlockMap,
           inode_table[ROOT_DIR_INUM] = RootInode
    PROVE  BlocksOwned
<1>1. NonEmptyInodes = {ROOT_DIR_INUM}
  BY RootInRange, SizesAssumption
  DEF NonEmptyInodes, FreshInodeMap, RootInode, FREE, TAKEN
<1>2. TakenBlocks = {0}
  BY RootInRange DEF TakenBlocks, FreshBlockMap, FREE, TAKEN
<1>3. BlocksInUse = {0}
  BY <1>1 DEF BlocksInUse, RootInode
<1> QED
  BY <1>1, <1>2, <1>3 DEF BlocksOwned, TakenBlocks, BlocksInUse

\* Every step keeps the invariant.
LEMMA StepBlocks ==
    ASSUME BlocksInv, [Next]_vars
    PROVE  BlocksInv'
<1>0. Inv /\ LinksInv'
  BY StepLinks DEF BlocksInv, LinksInv
<1>1. CASE TfsInit
  <2>1. /\ freeinode_ts' = FreshInodeMap /\ free_blocks' = FreshBlockMap
        /\ inode_table'[ROOT_DIR_INUM] = RootInode
    BY <1>0, <1>1, TfsInitClears
  <2>2. (/\ freeinode_ts = FreshInodeMap /\ free_blocks = FreshBlockMap
         /\ inode_table[ROOT_DIR_INUM] = RootInode)'
    BY <2>1 DEF FreshInodeMap, FreshBlockMap, RootInode
  <2>3. BlocksOwned'
    BY <2>2, RootOwnsBlock, PTL
  <2> QED
    BY <1>0, <2>3 DEF BlocksInv
<1>2. ASSUME NEW t \in Threads, OpenExisting(t)
      PROVE  BlocksInv'
  <2>1. PICK s \in DirSlots :
            /\ IsFirst(Named(arg[t].name), s)
            /\ \/ TruncatedInode(root_dir[s].d_inumber)
               \/ UNCHANGED <<inode_table, free_blocks>>
    BY <1>2 DEF OpenExisting
  <2>2. IsFile(root_dir[s].d_inumber) /\ UNCHANGED freeinode_ts
    BY <1>2, <2>1, LookedUp DEF BlocksInv, OpenExisting
  <2> QED
    BY <1>0, <2>1, <2>2, TruncatedBlocks, BlocksKept DEF BlocksInv
<1>3. ASSUME NEW t \in Threads,
             \/ OpenCheck(t) \/ AddEntry(t)
             \/ \E h \in Handles, len \in Lens : Read(t, h, len)
      PROVE  UNCHANGED <<inode_table, freeinode_ts, free_blocks>>
  BY <1>3 DEF OpenCheck, AddEntry, Read, stateVars, fileVars
<1>4. CASE UNCHANGED <<inode_table, freeinode_ts, free_blocks>>
  BY <1>0, <1>4, BlocksKept
<1>5. ASSUME NEW t \in Threads,
             \/ OpenCreate(t)
             \/ \E h \in Handles, len \in Lens, byte \in Bytes : Write(t, h, len, byte)
      PROVE  BlocksInv'
  BY <1>0, <1>5, CreateBlocks, WriteBlocks DEF BlocksInv
<1> QED
  BY <1>0, <1>1, <1>2, <1>3, <1>4, <1>5, StepCases DEF Quiet

\* Only the root directory has a block at first.
LEMMA InitBlocks == Init => BlocksInv
<1> SUFFICES ASSUME Init PROVE BlocksInv
  OBVIOUS
<1>1. /\ freeinode_ts = FreshInodeMap /\ free_blocks = FreshBlockMap
      /\ inode_table[ROOT_DIR_INUM] = RootInode
  BY RootInRange DEF Init, StateInit
<1> QED
  BY <1>1, RootOwnsBlock, InitLinks DEF BlocksInv

\* No block is lost and none has two files, although truncated files keep the
\* number of a block they gave back: for any number of threads, files and
\* blocks, also when open files are truncated.
THEOREM BlocksSafe == Spec => []BlocksOwned
<1>1. BlocksInv /\ [Next]_vars => BlocksInv'
  BY StepBlocks
<1>2. BlocksInv => BlocksOwned
  BY DEF BlocksInv
<1> QED
  BY <1>1, <1>2, InitBlocks, PTL DEF Spec

-----------------------------------------------------------------------------
(* The offsets, when no file is truncated while another handle is open on   *)
(* it or another tfs_open of it is under way.                               *)

\* The offset that an open is about to set is inside the file.
AddInside(t) ==
    pc[t] = "add" => arg[t].offset <= inode_table[arg[t].inum].i_size

\* An open has found its file under its name.
AddNamed(t) ==
    pc[t] = "add" => \E s \in Named(arg[t].name) : root_dir[s].d_inumber = arg[t].inum

\* Who truncates a file is alone with its name, and nobody has it open.
TruncAlone(t) ==
    pc[t] = "open" /\ "TRUNC" \in arg[t].flags =>
        /\ \A u \in Threads \ {t} :
              pc[u] \in {"open", "add"} => arg[u].name # arg[t].name
        /\ \A h \in TakenEntries, s \in Named(arg[t].name) :
              open_file_table[h].of_inumber # root_dir[s].d_inumber

\* OffsetWithinSize made inductive.
OffsetInv ==
    /\ DirInv /\ OffsetWithinSize
    /\ \A t \in Threads : AddInside(t) /\ AddNamed(t) /\ TruncAlone(t)

\* The assumption of the theorem.
Disciplined == ~SharedTrunc /\ \A n \in Names : Stored[n] = n

\* No file is open at first.
LEMMA InitOffsets == Init => OffsetInv
<1> SUFFICES ASSUME Init PROVE OffsetInv
  OBVIOUS
<1>1. TakenEntries = {}
  BY DEF Init, StateInit, FreshEntryMap, TakenEntries, FREE, TAKEN
<1> QED
  BY <1>1, InitDir DEF Init, OffsetInv, OffsetWithinSize, AddInside, AddNamed, TruncAlone

\* No name changes, and no opens progress but t's, which is under way no more.
LEMMA OpensKept ==
    ASSUME OffsetInv, UNCHANGED root_dir, TakenEntries' \subseteq TakenEntries,
           \A h \in TakenEntries' :
              open_file_table'[h].of_inumber = open_file_table[h].of_inumber,
           \A u \in Threads : \/ pc'[u] = pc[u] /\ arg'[u] = arg[u]
                              \/ pc'[u] \notin {"open", "add"}
    PROVE  \A t \in Threads : AddNamed(t)' /\ TruncAlone(t)'
BY DEF OffsetInv, AddNamed, TruncAlone, Named

\* No size, offset or name changes in a step that is quiet.
LEMMA QuietOffsets ==
    ASSUME OffsetInv, DirInv', Quiet
    PROVE  OffsetInv'
<1>1. \A h \in TakenEntries' :
            open_file_table'[h].of_offset
                <= inode_table'[open_file_table'[h].of_inumber].i_size
  BY DEF Quiet, OffsetInv, OffsetWithinSize
<1>2. OffsetWithinSize'
  BY <1>1 DEF DirInv, LinksInv, IsFile, OffsetWithinSize
<1>3. \A t \in Threads : AddInside(t)'
  BY DEF Quiet, OffsetInv, AddInside
<1>4. \A t \in Threads : AddNamed(t)' /\ TruncAlone(t)'
  BY OpensKept DEF Quiet
<1> QED
  BY <1>2, <1>3, <1>4 DEF OffsetInv

\* What MayOpen lets through.
LEMMA OpenCheckOffsets ==
    ASSUME Disciplined, OffsetInv, DirInv', NEW t \in Threads, OpenCheck(t)
    PROVE  OffsetInv'
<1>1. PICK n \in Names, flags \in FlagSets :
          MayOpen(n, flags) /\ arg' = [arg EXCEPT ![t] = OpenArg(n, flags)]
  BY DEF OpenCheck
<1>2. /\ DOMAIN arg = Threads /\ DOMAIN pc = Threads
      /\ pc' = [pc EXCEPT ![t] = "open"] /\ pc[t] = "idle"
      /\ UNCHANGED <<inode_table, freeinode_ts, root_dir, open_file_table,
                     free_open_file_entries>>
  BY DEF OpenCheck, stateVars, fileVars, entryVars, OffsetInv, DirInv, LinksInv, Inv, TypeOK
<1>3. /\ OnlyMoves(t) /\ pc'[t] = "open"
      /\ arg'[t].name = n /\ arg'[t].flags = flags
      /\ TakenEntries' = TakenEntries
  BY <1>1, <1>2 DEF OnlyMoves, OpenArg, TakenEntries
<1>4. /\ "TRUNC" \in flags => ~InUse(n)
      /\ \A u \in Opening(n) : "TRUNC" \notin arg[u].flags
  BY <1>1 DEF MayOpen, Disciplined
<1>5. OffsetWithinSize'
  BY <1>2, <1>3 DEF OffsetInv, OffsetWithinSize
<1>6. \A u \in Threads : AddInside(u)' /\ AddNamed(u)'
  BY <1>2, <1>3 DEF OffsetInv, AddInside, AddNamed, OnlyMoves, Named
<1>7. TruncAlone(t)'
  BY <1>2, <1>3, <1>4 DEF TruncAlone, InUse, Opening, OnlyMoves, Named
<1>8. ASSUME NEW u \in Threads \ {t} PROVE TruncAlone(u)'
  <2>1. pc'[u] = pc[u] /\ arg'[u] = arg[u]
    BY <1>3 DEF OnlyMoves
  <2>2. pc[u] = "open" /\ "TRUNC" \in arg[u].flags => arg[u].name # n
    BY <1>4 DEF Opening
  <2> QED
    BY <1>2, <1>3, <2>1, <2>2 DEF OffsetInv, TruncAlone, OnlyMoves, Named
<1> QED
  BY <1>5, <1>6, <1>7, <1>8 DEF OffsetInv

\* The size changes only under a name that nobody else uses.
LEMMA OpenExistingOffsets ==
    ASSUME OffsetInv, DirInv', NEW t \in Threads, OpenExisting(t)
    PROVE  OffsetInv'
<1>1. PICK s \in DirSlots :
          /\ IsFirst(Named(arg[t].name), s)
          /\ IF "TRUNC" \in arg[t].flags
             THEN TruncatedInode(root_dir[s].d_inumber)
             ELSE UNCHANGED <<inode_table, free_blocks>>
          /\ EntryChosen(t, root_dir[s].d_inumber,
                         InitialOffset(t, root_dir[s].d_inumber))
  BY DEF OpenExisting
<1> DEFINE i == root_dir[s].d_inumber
<1>2. s \in Named(arg[t].name) /\ i \in Inums
  BY <1>1, LookedUp DEF OffsetInv, DirInv, IsFirst, IsFile
<1>3. /\ pc[t] = "open"
      /\ UNCHANGED <<freeinode_ts, root_dir, open_file_table>>
      /\ TakenEntries' = TakenEntries
      /\ \A u \in Threads : pc[u] # "add"
  BY NobodyAdds DEF OpenExisting, entryVars, TakenEntries, OffsetInv, DirInv, LinksInv
<1>4. /\ OnlyMoves(t)
      /\ \/ pc'[t] = "idle"
         \/ /\ pc'[t] = "add" /\ arg'[t].inum = i
            /\ arg'[t].offset = InitialOffset(t, i)
            /\ arg'[t].name = arg[t].name
  BY <1>1, EntryChosenMoves DEF OffsetInv, DirInv, LinksInv
<1>5. inode_table \in [Inums -> Inode] /\ inode_table' \in [Inums -> Inode]
  BY DEF OffsetInv, DirInv, LinksInv, Inv, TypeOK, StateTypeOK
<1>6. OffsetWithinSize'
  <2>1. CASE UNCHANGED inode_table
    BY <1>3, <2>1 DEF OffsetInv, OffsetWithinSize
  <2>2. CASE "TRUNC" \in arg[t].flags
    <3>1. \A h \in TakenEntries : open_file_table[h].of_inumber # i
      BY <1>2, <1>3, <2>2 DEF OffsetInv, TruncAlone
    <3>2. \A j \in Inums \ {i} : inode_table'[j] = inode_table[j]
      BY <1>1, <1>5, <2>2 DEF TruncatedInode
    <3>3. \A h \in TakenEntries : open_file_table[h].of_inumber \in Inums
      BY DEF OffsetInv, DirInv, LinksInv, IsFile
    <3> QED
      BY <1>3, <3>1, <3>2, <3>3 DEF OffsetInv, OffsetWithinSize
  <2> QED
    BY <1>1, <2>1, <2>2
<1>7. AddInside(t)'
  <2>1. inode_table'[i].i_size \in Nat
    BY <1>2, <1>5, SizesAssumption DEF Inode
  <2> QED
    BY <1>4, <2>1 DEF AddInside, InitialOffset
<1>8. AddNamed(t)'
  BY <1>2, <1>3, <1>4 DEF AddNamed, Named
<1>9. TruncAlone(t)'
  BY <1>4 DEF TruncAlone
<1>10. ASSUME NEW u \in Threads \ {t}
       PROVE  AddInside(u)' /\ AddNamed(u)' /\ TruncAlone(u)'
  <2>1. pc'[u] = pc[u] /\ arg'[u] = arg[u] /\ pc'[u] # "add"
    BY <1>3, <1>4 DEF OnlyMoves
  <2>2. TruncAlone(u)'
    BY <1>3, <1>4, <2>1 DEF OffsetInv, TruncAlone, OnlyMoves, Named
  <2> QED
    BY <2>1, <2>2 DEF AddInside, AddNamed
<1> QED
  BY <1>6, <1>7, <1>8, <1>9, <1>10 DEF OffsetInv

\* A new file is empty, nobody has it open, and its name is new.
LEMMA CreateOffsets ==
    ASSUME Disciplined, OffsetInv, DirInv', NEW t \in Threads, OpenCreate(t)
    PROVE  OffsetInv'
<1> DEFINE n == arg[t].name
<1>1. PICK i \in Inums :
          /\ freeinode_ts[i] = FREE
          /\ inode_table' = [inode_table EXCEPT ![i] =
                                [i_size |-> 0, i_data_block |-> -1]]
          /\ UNCHANGED open_file_table
          /\ TakenEntries' = TakenEntries
          /\ OnlyMoves(t) /\ pc'[t] # "open"
          /\ \/ \E s \in DirSlots \ LinkedSlots :
                   /\ root_dir' = [root_dir EXCEPT ![s] =
                          [d_inumber |-> i, d_name |-> Stored[n]]]
                   /\ pc'[t] = "add" =>
                         /\ arg'[t].inum = i /\ arg'[t].offset = 0
                         /\ arg'[t].name = n
             \/ /\ UNCHANGED root_dir
                /\ pc'[t] = "idle"
  BY Created DEF OffsetInv, DirInv
<1>2. /\ pc[t] = "open" /\ n \in Names /\ Stored[n] = n
      /\ \A u \in Threads : pc[u] # "add"
      /\ DOMAIN root_dir = DirSlots
      /\ DOMAIN inode_table = Inums
  BY NobodyAdds DEF OpenCreate, OffsetInv, DirInv, LinksInv, Inv, CallsOK, NameGiven,
                    TypeOK, StateTypeOK, Disciplined
<1>3. OffsetWithinSize'
  <2>1. \A h \in TakenEntries : /\ open_file_table[h].of_inumber \in Inums
                                /\ open_file_table[h].of_inumber # i
    BY <1>1 DEF OffsetInv, DirInv, LinksInv, IsFile, FREE, TAKEN
  <2>2. \A h \in TakenEntries' :
            open_file_table'[h].of_offset
                <= inode_table'[open_file_table'[h].of_inumber].i_size
    BY <1>1, <1>2, <2>1 DEF OffsetInv, OffsetWithinSize
  <2> QED
    BY <2>2 DEF DirInv, LinksInv, IsFile, OffsetWithinSize
<1>4. AddInside(t)' /\ AddNamed(t)'
  <2>1. CASE pc'[t] = "idle"
    BY <2>1 DEF AddInside, AddNamed
  <2>2. CASE pc'[t] # "idle"
    <3>1. PICK s \in DirSlots \ LinkedSlots :
              /\ root_dir' = [root_dir EXCEPT ![s] =
                     [d_inumber |-> i, d_name |-> Stored[n]]]
              /\ pc'[t] = "add" =>
                    /\ arg'[t].inum = i /\ arg'[t].offset = 0
                    /\ arg'[t].name = n
      BY <1>1, <2>2
    <3>2. inode_table'[i].i_size = 0
      BY <1>1, <1>2
    <3>3. i # -1
      BY SizesAssumption DEF Inums
    <3>4. root_dir'[s].d_inumber = i /\ root_dir'[s].d_name = n
      BY <1>2, <3>1
    <3> QED
      BY <3>1, <3>2, <3>3, <3>4 DEF AddInside, AddNamed, Named
  <2> QED
    BY <2>1, <2>2
<1>5. TruncAlone(t)'
  BY <1>1 DEF TruncAlone
<1>6. ASSUME NEW u \in Threads \ {t}
      PROVE  AddInside(u)' /\ AddNamed(u)' /\ TruncAlone(u)'
  <2>1. pc'[u] = pc[u] /\ arg'[u] = arg[u] /\ pc'[u] # "add"
    BY <1>1, <1>2 DEF OnlyMoves
  <2>2. ASSUME pc[u] = "open", "TRUNC" \in arg[u].flags
        PROVE  TruncAlone(u)'
    <3>1. n # arg[u].name
      BY <1>2, <2>2 DEF OffsetInv, TruncAlone
    <3>2. Named(arg[u].name)' \subseteq Named(arg[u].name)
          /\ \A s \in Named(arg[u].name)' : root_dir'[s] = root_dir[s]
      BY <1>1, <1>2, <2>1, <3>1 DEF Named, LinkedSlots
    <3>3. \A v \in Threads \ {u} :
              pc'[v] \in {"open", "add"} => arg'[v].name # arg'[u].name
      BY <1>1, <2>1, <2>2, <3>1 DEF OffsetInv, TruncAlone, OnlyMoves
    <3>4. \A h \in TakenEntries, s \in Named(arg[u].name) :
              open_file_table[h].of_inumber # root_dir[s].d_inumber
      BY <2>2 DEF OffsetInv, TruncAlone
    <3> QED
      BY <1>1, <2>1, <3>2, <3>3, <3>4 DEF TruncAlone
  <2> QED
    BY <2>1, <2>2 DEF AddInside, AddNamed, TruncAlone
<1> QED
  BY <1>3, <1>4, <1>5, <1>6 DEF OffsetInv

\* The file is opened under another name than one that is being truncated.
LEMMA AddEntryOffsets ==
    ASSUME OffsetInv, DirInv', NEW t \in Threads, AddEntry(t)
    PROVE  OffsetInv'
<1> DEFINE g == arg[t].fh
<1>1. /\ pc[t] = "add" /\ pc'[t] = "idle" /\ OnlyMoves(t)
      /\ UNCHANGED fileVars
      /\ TakenEntries' = TakenEntries \cup {g}
      /\ \A h \in TakenEntries : open_file_table'[h] = open_file_table[h]
      /\ open_file_table'[g] =
             [of_inumber |-> arg[t].inum, of_offset |-> arg[t].offset]
  BY AddEntryMoves DEF OffsetInv, DirInv, LinksInv
<1>2. open_file_table'[g].of_inumber = arg[t].inum
      /\ open_file_table'[g].of_offset = arg[t].offset
  BY <1>1
<1>3. UNCHANGED <<inode_table, freeinode_ts, root_dir>>
  BY <1>1 DEF fileVars
<1>4. OffsetWithinSize'
  <2>1. \A h \in TakenEntries' :
            open_file_table'[h].of_offset
                <= inode_table'[open_file_table'[h].of_inumber].i_size
    BY <1>1, <1>2, <1>3 DEF OffsetInv, OffsetWithinSize, AddInside
  <2> QED
    BY <2>1 DEF DirInv, LinksInv, IsFile, OffsetWithinSize
<1>5. AddInside(t)' /\ AddNamed(t)' /\ TruncAlone(t)'
  BY <1>1 DEF AddInside, AddNamed, TruncAlone
<1>6. ASSUME NEW u \in Threads \ {t}
      PROVE  AddInside(u)' /\ AddNamed(u)' /\ TruncAlone(u)'
  <2>1. pc'[u] = pc[u] /\ arg'[u] = arg[u]
    BY <1>1 DEF OnlyMoves
  <2>2. AddInside(u)' /\ AddNamed(u)'
    BY <1>3, <2>1 DEF OffsetInv, AddInside, AddNamed, Named
  <2>3. ASSUME pc[u] = "open", "TRUNC" \in arg[u].flags
        PROVE  TruncAlone(u)'
    <3>1. PICK r \in Named(arg[t].name) : root_dir[r].d_inumber = arg[t].inum
      BY <1>1 DEF OffsetInv, AddNamed
    <3>2. arg[t].name # arg[u].name
      BY <1>1, <2>3 DEF OffsetInv, TruncAlone
    <3>3. \A s \in Named(arg[u].name) : root_dir[s].d_inumber # arg[t].inum
      BY <3>1, <3>2 DEF Named, LinkedSlots, OffsetInv, DirInv, DirectoryConsistent
    <3>4. /\ \A v \in Threads \ {u} :
                pc[v] \in {"open", "add"} => arg[v].name # arg[u].name
          /\ \A h \in TakenEntries, s \in Named(arg[u].name) :
                open_file_table[h].of_inumber # root_dir[s].d_inumber
      BY <2>3 DEF OffsetInv, TruncAlone
    <3>5. Named(arg[u].name)' = Named(arg[u].name)
      BY <1>3, <2>1 DEF Named
    <3>6. \A h \in TakenEntries', s \in Named(arg[u].name)' :
                open_file_table'[h].of_inumber # root_dir'[s].d_inumber
      BY <1>1, <1>2, <1>3, <3>3, <3>4, <3>5
    <3>7. \A v \in Threads \ {u} :
                pc'[v] \in {"open", "add"} => arg'[v].name # arg'[u].name
      BY <1>1, <2>1, <3>4 DEF OnlyMoves
    <3> QED
      BY <3>6, <3>7 DEF TruncAlone
  <2> QED
    BY <2>1, <2>2, <2>3 DEF TruncAlone
<1> QED
  BY <1>4, <1>5, <1>6 DEF OffsetInv

\* What is left of the file does not wrap around, so a read stops at its end.
LEMMA ReadOffsets ==
    ASSUME OffsetInv, DirInv', NEW t \in Threads, NEW h \in Handles,
           NEW len \in Lens, Read(t, h, len)
    PROVE  OffsetInv'
<1> DEFINE i == open_file_table[h].of_inumber
           off == open_file_table[h].of_offset
           size == inode_table[i].i_size
           n == ReadLen(size, off, len)
<1>0. Inv
  BY DEF OffsetInv, DirInv, LinksInv
<1>1. /\ h \in TakenEntries /\ i \in Inums /\ off \in Nat
      /\ size \in 0 .. BLOCK_SIZE /\ len \in Nat /\ off <= size
  BY <1>0, CallsAssumption
  DEF Read, Inv, TypeOK, StateTypeOK, OpenFileEntry, Inode, OffsetInv, OffsetWithinSize
<1>2. /\ TakenEntries' = TakenEntries
      /\ UNCHANGED <<inode_table, freeinode_ts, root_dir, threadVars>>
      /\ open_file_table' = [open_file_table EXCEPT ![h] =
             [of_inumber |-> i, of_offset |-> off + n]]
  <2>1. open_file_table' = [open_file_table EXCEPT ![h].of_offset = off + n]
    BY DEF Read
  <2>2. open_file_table' = [open_file_table EXCEPT ![h] =
            [of_inumber |-> i, of_offset |-> off + n]]
    BY <1>0, <2>1, OffsetMoved DEF Inv
  <2> QED
    BY <2>2 DEF Read, fileVars, TakenEntries
<1>3. off + n <= size
  <2>1. size - off \in 0 .. SIZE_T - 1 /\ SIZE_T \in Nat \ {0}
    BY <1>1, SizesAssumption
  <2>2. (size - off) % SIZE_T = size - off
    BY <2>1
  <2> QED
    BY <1>1, <2>2, SizesAssumption DEF ReadLen
<1>4. DOMAIN open_file_table = Handles
  BY <1>0 DEF Inv, TypeOK, StateTypeOK
<1>5. \A g \in TakenEntries' :
          open_file_table'[g].of_offset
              <= inode_table'[open_file_table'[g].of_inumber].i_size
  BY <1>2, <1>3, <1>4 DEF OffsetInv, OffsetWithinSize, TakenEntries
<1>6. OffsetWithinSize'
  BY <1>5 DEF DirInv, LinksInv, IsFile, OffsetWithinSize
<1>7. \A g \in TakenEntries :
          open_file_table'[g].of_inumber = open_file_table[g].of_inumber
  BY <1>2, <1>4 DEF TakenEntries
<1>8. \A u \in Threads : AddNamed(u)' /\ TruncAlone(u)'
  BY <1>2, <1>7, OpensKept DEF threadVars
<1> QED
  BY <1>2, <1>6, <1>8 DEF OffsetInv, AddInside, threadVars

\* A write moves its own offset to at most the new size, and no file shrinks.
LEMMA WriteOffsets ==
    ASSUME OffsetInv, DirInv', NEW t \in Threads, NEW h \in Handles,
           NEW len \in Lens, NEW byte \in Bytes, Write(t, h, len, byte)
    PROVE  OffsetInv'
<1> DEFINE i == open_file_table[h].of_inumber
           off == open_file_table[h].of_offset
           size == inode_table[i].i_size
           n == WriteLen(len, off)
<1>0. Inv
  BY DEF OffsetInv, DirInv, LinksInv
<1>1. /\ h \in TakenEntries /\ i \in Inums /\ off \in Nat /\ off <= size
      /\ inode_table \in [Inums -> Inode] /\ size \in Nat
      /\ DOMAIN open_file_table = Handles
  BY <1>0, SizesAssumption
  DEF Write, Inv, TypeOK, StateTypeOK, OpenFileEntry, Inode, OffsetInv, OffsetWithinSize
<1>2. PICK b \in Blocks \cup {-1} :
          IF b # -1
          THEN Written(h, n, b, byte)
          ELSE /\ inode_table' = [inode_table EXCEPT ![i].i_data_block = b]
               /\ UNCHANGED open_file_table
  BY DEF Write
<1>3. /\ TakenEntries' = TakenEntries
      /\ UNCHANGED <<freeinode_ts, root_dir, threadVars>>
      /\ \A g \in Handles :
            open_file_table'[g].of_inumber = open_file_table[g].of_inumber
  BY <1>0, FilesOfHandles
<1>4. n \in Nat
  BY <1>0, <1>1, CallsAssumption, SizesAssumption DEF WriteLen, Write
<1>5. \A j \in Inums : inode_table[j].i_size <= inode_table'[j].i_size
  <2>1. CASE b # -1
    <3>1. inode_table' = [inode_table EXCEPT ![i] =
              [i_size |-> IF off + n > size THEN off + n ELSE size,
               i_data_block |-> b]]
      BY <1>2, <2>1 DEF Written
    <3> QED
      BY <1>1, <1>4, <3>1, SizesAssumption DEF Inode
  <2>2. CASE b = -1
    <3>1. inode_table' = [inode_table EXCEPT ![i] =
              [i_size |-> size, i_data_block |-> b]]
      BY <1>1, <1>2, <2>2 DEF Inode
    <3> QED
      BY <1>1, <3>1, SizesAssumption DEF Inode
  <2> QED
    BY <2>1, <2>2
<1>6. \A g \in TakenEntries :
          \/ open_file_table'[g].of_offset = open_file_table[g].of_offset
          \/ g = h /\ open_file_table'[g].of_offset <= inode_table'[i].i_size
  <2>1. CASE b # -1
    <3>1. /\ open_file_table' = [open_file_table EXCEPT ![h] =
                 [of_inumber |-> i, of_offset |-> off + n]]
          /\ inode_table' = [inode_table EXCEPT ![i] =
                 [i_size |-> IF off + n > size THEN off + n ELSE size,
                  i_data_block |-> b]]
      <4>1. open_file_table' = [open_file_table EXCEPT ![h].of_offset = off + n]
        BY <1>2, <2>1 DEF Written
      <4>2. open_file_table' = [open_file_table EXCEPT ![h] =
                [of_inumber |-> i, of_offset |-> off + n]]
        BY <1>0, <4>1, OffsetMoved DEF Inv
      <4> QED
        BY <1>2, <2>1, <4>2 DEF Written
    <3>2. open_file_table'[h].of_offset <= inode_table'[i].i_size
      BY <1>1, <1>4, <3>1 DEF TakenEntries
    <3> QED
      BY <1>1, <3>1, <3>2 DEF TakenEntries
  <2>2. CASE b = -1
    BY <1>2, <2>2
  <2> QED
    BY <2>1, <2>2
<1>7. \A g \in TakenEntries' :
          open_file_table'[g].of_offset
              <= inode_table'[open_file_table'[g].of_inumber].i_size
  <2> SUFFICES ASSUME NEW g \in TakenEntries
               PROVE  open_file_table'[g].of_offset
                          <= inode_table'[open_file_table[g].of_inumber].i_size
    BY <1>3 DEF TakenEntries
  <2> DEFINE j == open_file_table[g].of_inumber
  <2>1. /\ j \in Inums /\ open_file_table[g].of_offset \in Nat
        /\ open_file_table[g].of_offset <= inode_table[j].i_size
        /\ inode_table[j].i_size \in Nat /\ inode_table'[j].i_size \in Nat
    <3>1. inode_table' \in [Inums -> Inode]
      BY DEF DirInv, LinksInv, Inv, TypeOK, StateTypeOK
    <3>2. /\ j \in Inums /\ open_file_table[g].of_offset \in Nat
          /\ open_file_table[g].of_offset <= inode_table[j].i_size
      BY <1>0 DEF TakenEntries, OffsetInv, OffsetWithinSize, Inv, TypeOK,
                  StateTypeOK, OpenFileEntry
    <3> QED
      BY <1>1, <3>1, <3>2, SizesAssumption DEF Inode
  <2>2. inode_table[j].i_size <= inode_table'[j].i_size
    BY <1>5, <2>1
  <2>3. open_file_table[g].of_offset <= inode_table'[j].i_size
    BY <2>1, <2>2
  <2> QED
    BY <1>6, <2>3
<1>8. OffsetWithinSize'
  BY <1>7 DEF DirInv, LinksInv, IsFile, OffsetWithinSize
<1>9. \A u \in Threads : AddInside(u)'
  BY <1>3, NobodyAdds, <1>0 DEF AddInside, threadVars, Write
<1>10. \A u \in Threads : AddNamed(u)' /\ TruncAlone(u)'
  BY <1>3, OpensKept DEF threadVars, TakenEntries
<1> QED
  BY <1>8, <1>9, <1>10 DEF OffsetInv

\* Every step keeps the invariant.
LEMMA StepOffsets ==
    ASSUME Disciplined, OffsetInv, [Next]_vars
    PROVE  OffsetInv'
<1>0. Inv /\ DirInv'
  BY StepDir DEF Disciplined, OffsetInv, DirInv, LinksInv
<1>1. CASE TfsInit
  <2>1. TakenEntries' = {} /\ \A t \in Threads : pc'[t] = "idle"
    BY <1>0, <1>1, TfsInitClears
  <2> QED
    BY <1>0, <2>1 DEF OffsetInv, OffsetWithinSize, AddInside, AddNamed, TruncAlone
<1> QED
  BY <1>0, <1>1, StepCases, QuietOffsets, OpenCheckOffsets, OpenExistingOffsets,
     CreateOffsets, AddEntryOffsets, ReadOffsets, WriteOffsets

\* No handle ever stands past the end of its file, so to_read (operations.c:212)
\* does not wrap around, as long as no file is truncated while it is open
\* elsewhere and names are stored as they are.
THEOREM OffsetsSafe ==
    ASSUME ~SharedTrunc, \A n \in Names : Stored[n] = n
    PROVE  Spec => []OffsetWithinSize
<1>1. OffsetInv /\ [Next]_vars => OffsetInv'
  BY StepOffsets DEF Disciplined
<1>2. OffsetInv => OffsetWithinSize
  BY DEF OffsetInv
<1> QED
  BY <1>1, <1>2, InitOffsets, PTL DEF Spec
=============================================================================
