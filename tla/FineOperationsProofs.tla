----------------------- MODULE FineOperationsProofs -----------------------
(***************************************************************************)
(* Proofs about FineOperations, for any number of threads, names, handles, *)
(* i-nodes, blocks and directory slots, and for any lengths and bytes.     *)
(*                                                                         *)
(* The first part says how each step moves its thread.  The others prove   *)
(* that locks are given back, that the directory stays consistent, that    *)
(* handles keep their files, and that the count covers the open files.     *)
(* Offsets and lengths are given no type: tfs_read computes the offset in  *)
(* a loop, and nothing that is proved here depends on it.                  *)
(***************************************************************************)
EXTENDS FineCorrectness, FiniteSetTheorems, TLAPS

\* The locals of a call have the fields of NoArg.
IsArg(a) ==
    a \in [name : {a.name}, flags : {a.flags}, copy : {a.copy}, fh : {a.fh},
           inum : {a.inum}, offset : {a.offset}, scan : {a.scan},
           left : {a.left}, blk : {a.blk}, end : {a.end}, byte : {a.byte}]

\* Where the threads are, and the shape of their locals.
Shape ==
    /\ pc \in [Threads -> Pcs]
    /\ arg = [t \in Threads |-> arg[t]]
    /\ \A t \in Threads : IsArg(arg[t])

\* Only thread t moved.
Moved(t) ==
    /\ Shape'
    /\ \A u \in Threads \ {t} : pc'[u] = pc[u] /\ arg'[u] = arg[u]

\* Thread t goes on with the same file by the same handle.
GoesOn(t) ==
    /\ arg'[t].fh = arg[t].fh
    /\ arg'[t].inum = arg[t].inum
    /\ arg'[t].copy = arg[t].copy

\* The locals of a thread outside every call.
LEMMA NoArgShape == IsArg(NoArg) /\ ~NoArg.copy
BY DEF IsArg, NoArg

\* A step that goes to a place with given locals.
LEMMA GoesMoves ==
    ASSUME Shape, NEW t \in Threads, NEW place \in Pcs, NEW locals, IsArg(locals),
           Goes(t, place, locals)
    PROVE  Moved(t) /\ pc'[t] = place /\ arg'[t] = locals
BY DEF Shape, Goes, Moved

\* A step that goes to a place and keeps the locals.
LEMMA AtMoves ==
    ASSUME Shape, NEW t \in Threads, NEW place \in Pcs, At(t, place)
    PROVE  Moved(t) /\ pc'[t] = place /\ arg'[t] = arg[t] /\ GoesOn(t)
BY GoesMoves DEF At, Shape, GoesOn

\* A return clears the locals.
LEMMA ReturnMoves ==
    ASSUME Shape, NEW t \in Threads, Return(t)
    PROVE  Moved(t) /\ pc'[t] = "idle" /\ ~arg'[t].copy
BY GoesMoves, NoArgShape DEF Return, Pcs

\* The lookup finds the name, or the name is free and is to be created.
LEMMA OpenStartMoves ==
    ASSUME Shape, NEW t \in Threads, OpenStart(t)
    PROVE  /\ Moved(t)
           /\ \/ pc'[t] = "found"
              \/ pc'[t] = "create" /\ Named(arg'[t].name) = {}
           /\ arg'[t].scan = 0 /\ arg'[t].name \in Names
<1>1. PICK n \in Names, flags \in FlagSets \cup {{}}, copy \in BOOLEAN :
          LET call == [NoArg EXCEPT !.name = n, !.flags = flags, !.copy = copy] IN
             \/ \E s \in DirSlots :
                   Goes(t, "found", [call EXCEPT !.inum = root_dir[s].d_inumber])
             \/ Named(n) = {} /\ Goes(t, "create", call)
  BY DEF OpenStart
<1> DEFINE call == [NoArg EXCEPT !.name = n, !.flags = flags, !.copy = copy]
<1>2. IsArg(call) /\ call.name = n /\ call.scan = 0
  BY DEF NoArg, IsArg
<1>3. ASSUME NEW s \in DirSlots,
             Goes(t, "found", [call EXCEPT !.inum = root_dir[s].d_inumber])
      PROVE  Moved(t) /\ pc'[t] = "found" /\ arg'[t].name = n /\ arg'[t].scan = 0
  <2> DEFINE new == [call EXCEPT !.inum = root_dir[s].d_inumber]
  <2>1. IsArg(new) /\ new.name = n /\ new.scan = 0
    BY DEF NoArg, IsArg
  <2>2. Goes(t, "found", new)
    BY <1>3
  <2> HIDE DEF new
  <2> QED
    BY <2>1, <2>2, GoesMoves DEF Pcs
<1>4. CASE Named(n) = {} /\ Goes(t, "create", call)
  BY <1>2, <1>4, GoesMoves DEF Pcs
<1> QED
  BY <1>1, <1>3, <1>4

\* tfs_open of a file that exists fails, or goes on to the open file table.
LEMMA OpenExistingMoves ==
    ASSUME Shape, NEW t \in Threads, OpenExisting(t)
    PROVE  /\ Moved(t)
           /\ \/ pc'[t] = "idle" /\ ~arg'[t].copy
              \/ pc'[t] = "add" /\ arg'[t].scan = arg[t].scan
<1>1. ASSUME NEW x, Goes(t, "add", [arg[t] EXCEPT !.offset = x])
      PROVE  Moved(t) /\ pc'[t] = "add" /\ arg'[t].scan = arg[t].scan
  <2> DEFINE new == [arg[t] EXCEPT !.offset = x]
  <2>1. IsArg(new) /\ new.scan = arg[t].scan
    BY DEF Shape, IsArg
  <2>2. Goes(t, "add", new)
    BY <1>1
  <2> HIDE DEF new
  <2> QED
    BY <2>1, <2>2, GoesMoves DEF Pcs
<1>2. \/ Return(t)
      \/ \E x : Goes(t, "add", [arg[t] EXCEPT !.offset = x])
  BY DEF OpenExisting
<1> QED
  BY <1>1, <1>2, ReturnMoves

\* inode_create claims the i-node, looks at the next one, or fails and gives
\* open_file_lock back.
LEMMA CreateScanMoves ==
    ASSUME Shape, NEW t \in Threads, CreateScan(t)
    PROVE  /\ Moved(t)
           /\ \/ /\ pc'[t] = "link"
                 /\ arg'[t].inum = arg[t].scan /\ arg'[t].name = arg[t].name
                 /\ UNCHANGED open_file_lock
                 /\ freeinode_ts[arg[t].scan] = FREE
                 /\ freeinode_ts' = [freeinode_ts EXCEPT ![arg[t].scan] = TAKEN]
              \/ /\ pc'[t] = "create"
                 /\ arg'[t].scan = arg[t].scan + 1 /\ arg'[t].name = arg[t].name
                 /\ arg'[t].scan \in Inums
                 /\ UNCHANGED <<open_file_lock, freeinode_ts>>
              \/ /\ pc'[t] = "idle" /\ ~arg'[t].copy
                 /\ open_file_lock' = NoThread /\ UNCHANGED freeinode_ts
<1> DEFINE found == [arg[t] EXCEPT !.inum = arg[t].scan]
           next == [arg[t] EXCEPT !.scan = arg[t].scan + 1]
<1>1. IsArg(found) /\ found.inum = arg[t].scan /\ found.name = arg[t].name
  BY DEF Shape, IsArg
<1>2. IsArg(next) /\ next.scan = arg[t].scan + 1 /\ next.name = arg[t].name
  BY DEF Shape, IsArg
<1>3. \/ /\ Goes(t, "link", found) /\ UNCHANGED open_file_lock
         /\ freeinode_ts[arg[t].scan] = FREE
         /\ freeinode_ts' = [freeinode_ts EXCEPT ![arg[t].scan] = TAKEN]
      \/ /\ Goes(t, "create", next) /\ UNCHANGED <<open_file_lock, freeinode_ts>>
         /\ arg[t].scan + 1 \in Inums
      \/ Return(t) /\ open_file_lock' = NoThread /\ UNCHANGED freeinode_ts
  BY DEF CreateScan
<1> HIDE DEF found, next
<1> QED
  BY <1>1, <1>2, <1>3, GoesMoves, ReturnMoves DEF Pcs

\* After add_dir_entry: the open file table, or -1 when the directory is full.
LEMMA OpenLinkMoves ==
    ASSUME Shape, NEW t \in Threads, OpenLink(t)
    PROVE  /\ Moved(t)
           /\ \/ pc'[t] = "idle" /\ ~arg'[t].copy
              \/ pc'[t] = "add" /\ arg'[t].scan = 0
<1> DEFINE new == [arg[t] EXCEPT !.scan = 0]
<1>1. IsArg(new) /\ new.scan = 0
  BY DEF Shape, IsArg
<1>2. Goes(t, "add", new) \/ Return(t)
  BY DEF OpenLink
<1> HIDE DEF new
<1> QED
  BY <1>1, <1>2, GoesMoves, ReturnMoves DEF Pcs

\* add_to_open_file_table claims the entry, looks at the next one, or fails.
LEMMA AddScanMoves ==
    ASSUME Shape, NEW t \in Threads, AddScan(t)
    PROVE  /\ Moved(t)
           /\ \/ /\ free_open_file_entries[arg[t].scan] = FREE
                 /\ free_open_file_entries' =
                        [free_open_file_entries EXCEPT ![arg[t].scan] = TAKEN]
                 /\ open_files_count' = open_files_count + 1
                 /\ \/ pc'[t] = "idle" /\ ~arg'[t].copy
                    \/ pc'[t] = "opened" /\ arg'[t].copy /\ arg'[t].fh = arg[t].scan
              \/ /\ UNCHANGED entryVars
                 /\ \/ pc'[t] = "idle" /\ ~arg'[t].copy
                    \/ /\ pc'[t] = "add"
                       /\ arg'[t].scan = arg[t].scan + 1 /\ arg'[t].scan \in Handles
<1> DEFINE h == arg[t].scan
           next == [arg[t] EXCEPT !.scan = h + 1]
           copying == [NoArg EXCEPT !.copy = TRUE, !.fh = h]
<1>1. IsArg(next) /\ next.scan = h + 1
  BY DEF Shape, IsArg
<1>2. IsArg(copying) /\ copying.fh = h /\ copying.copy
  BY DEF NoArg, IsArg
<1>3. \/ /\ free_open_file_entries[h] = FREE
         /\ free_open_file_entries' = [free_open_file_entries EXCEPT ![h] = TAKEN]
         /\ open_files_count' = open_files_count + 1
         /\ Goes(t, "opened", copying) \/ Return(t)
      \/ /\ UNCHANGED entryVars
         /\ Return(t) \/ (Goes(t, "add", next) /\ h + 1 \in Handles)
  BY DEF AddScan, MayClaim
<1> HIDE DEF next, copying
<1> QED
  BY <1>1, <1>2, <1>3, GoesMoves, ReturnMoves DEF Pcs

\* tfs_close passes the test of remove_from_open_file_table.
LEMMA CloseStartMoves ==
    ASSUME Shape, NEW t \in Threads, CloseStart(t)
    PROVE  /\ Moved(t)
           /\ pc'[t] = "close" /\ arg'[t].fh \in Handles
           /\ arg'[t].copy = arg[t].copy
           /\ IF pc[t] = "closing" THEN arg'[t].fh = arg[t].fh ELSE MayClose(arg'[t].fh)
           /\ free_open_file_entries[arg'[t].fh] = TAKEN
           /\ entry_lock' = [entry_lock EXCEPT ![arg'[t].fh].readers = @ \cup {t}]
<1>1. PICK h \in Handles :
          /\ IF pc[t] = "closing" THEN h = arg[t].fh ELSE MayClose(h)
          /\ free_open_file_entries[h] = TAKEN
          /\ entry_lock' = [entry_lock EXCEPT ![h].readers = @ \cup {t}]
          /\ Goes(t, "close", [arg[t] EXCEPT !.fh = h])
  BY DEF CloseStart
<1> DEFINE new == [arg[t] EXCEPT !.fh = h]
<1>2. IsArg(new) /\ new.fh = h /\ new.copy = arg[t].copy
  BY DEF Shape, IsArg
<1>3. Goes(t, "close", new)
  BY <1>1
<1> HIDE DEF new
<1>4. Moved(t) /\ pc'[t] = "close" /\ arg'[t] = new
  BY <1>2, <1>3, GoesMoves DEF Pcs
<1> QED
  BY <1>1, <1>2, <1>4

\* tfs_close returns, and may wake one waiter.
LEMMA CloseEndMoves ==
    ASSUME Shape, NEW t \in Threads, CloseEnd(t)
    PROVE  /\ Shape'
           /\ pc'[t] = "idle" /\ ~arg'[t].copy
           /\ \A u \in Threads \ {t} :
                 /\ arg'[u] = arg[u]
                 /\ pc'[u] = pc[u] \/ (pc[u] = "wait" /\ pc'[u] = "woken")
<1>1. arg' = [arg EXCEPT ![t] = NoArg] /\ pc[t] = "close"
  BY DEF CloseEnd
<1>2. \/ pc' = [pc EXCEPT ![t] = "idle"]
      \/ \E d \in Waiters : pc' = [pc EXCEPT ![t] = "idle", ![d] = "woken"]
  BY DEF CloseEnd, ReturnSignalled
<1>3. arg' = [u \in Threads |-> arg'[u]] /\ \A u \in Threads : IsArg(arg'[u])
  BY <1>1, NoArgShape DEF Shape
<1>4. ASSUME NEW d \in Waiters
      PROVE  d \in Threads /\ pc[d] = "wait" /\ d # t
  BY <1>1 DEF Waiters
<1>5. /\ pc' \in [Threads -> Pcs]
      /\ pc'[t] = "idle"
      /\ \A u \in Threads \ {t} :
            pc'[u] = pc[u] \/ (pc[u] = "wait" /\ pc'[u] = "woken")
  <2>1. CASE pc' = [pc EXCEPT ![t] = "idle"]
    BY <2>1 DEF Shape, Pcs
  <2>2. CASE \E d \in Waiters : pc' = [pc EXCEPT ![t] = "idle", ![d] = "woken"]
    <3>1. PICK d \in Waiters : pc' = [pc EXCEPT ![t] = "idle", ![d] = "woken"]
      BY <2>2
    <3> QED
      BY <3>1, <1>4 DEF Shape, Pcs
  <2> QED
    BY <1>2, <2>1, <2>2
<1>6. \A u \in Threads : arg'[u] = IF u = t THEN NoArg ELSE arg[u]
  BY <1>1 DEF Shape
<1> QED
  BY <1>3, <1>5, <1>6, NoArgShape DEF Shape

\* tfs_write has its entry.
LEMMA WriteStartMoves ==
    ASSUME Shape, NEW t \in Threads, NEW h, NEW len, WriteStart(t, h, len)
    PROVE  /\ Moved(t) /\ pc'[t] = "lock"
           /\ arg'[t].fh = h /\ arg'[t].left = len /\ ~arg'[t].copy
<1>1. PICK byte : Goes(t, "lock", [NoArg EXCEPT !.fh = h,
                        !.inum = open_file_table[h].of_inumber,
                        !.left = len, !.byte = byte])
  BY DEF WriteStart
<1> DEFINE new == [NoArg EXCEPT !.fh = h, !.inum = open_file_table[h].of_inumber,
                                !.left = len, !.byte = byte]
<1>2. IsArg(new) /\ new.fh = h /\ new.left = len /\ ~new.copy
  BY DEF NoArg, IsArg
<1>3. Goes(t, "lock", new)
  BY <1>1
<1> HIDE DEF new
<1> QED
  BY <1>2, <1>3, GoesMoves DEF Pcs

\* tfs_write enters its loop, or has nothing to write.
LEMMA WriteLockMoves ==
    ASSUME Shape, NEW t \in Threads, WriteLock(t)
    PROVE  /\ Moved(t)
           /\ \/ pc'[t] = "write" /\ GoesOn(t)
              \/ pc'[t] = "idle" /\ ~arg'[t].copy /\ arg[t].left = 0
<1> DEFINE off == open_file_table[arg[t].fh].of_offset
           new == [arg[t] EXCEPT !.blk = FirstBlock(off),
                                 !.end = EndBlock(off, arg[t].left)]
<1>1. /\ IsArg(new)
      /\ new.fh = arg[t].fh /\ new.inum = arg[t].inum /\ new.copy = arg[t].copy
  BY DEF Shape, IsArg
<1>2. Goes(t, "write", new) \/ (Return(t) /\ arg[t].left = 0)
  BY DEF WriteLock
<1> HIDE DEF new
<1>3. CASE Goes(t, "write", new)
  BY <1>1, <1>3, GoesMoves DEF Pcs, GoesOn
<1> QED
  BY <1>2, <1>3, ReturnMoves

\* A round of the loop of tfs_write keeps both locks or gives both back.
LEMMA WriteBlockMoves ==
    ASSUME Shape, NEW t \in Threads, WriteBlock(t)
    PROVE  /\ Moved(t)
           /\ \/ /\ pc'[t] \in {"write", "alloc"} /\ GoesOn(t)
                 /\ UNCHANGED <<inode_lock, entry_lock>>
              \/ pc'[t] = "idle" /\ ~arg'[t].copy /\ WriteReturns(t)
<1> DEFINE m == Piece(arg[t].blk, arg[t].end, open_file_table[arg[t].fh].of_offset,
                      arg[t].left)
           next == [arg[t] EXCEPT !.blk = arg[t].blk + 1, !.left = arg[t].left - m]
           asks == [arg[t] EXCEPT !.scan = 0]
<1>1. /\ IsArg(next)
      /\ next.fh = arg[t].fh /\ next.inum = arg[t].inum /\ next.copy = arg[t].copy
  BY DEF Shape, IsArg
<1>2. /\ IsArg(asks)
      /\ asks.fh = arg[t].fh /\ asks.inum = arg[t].inum /\ asks.copy = arg[t].copy
  BY DEF Shape, IsArg
<1>3. \/ Goes(t, "write", next) /\ UNCHANGED <<inode_lock, entry_lock>>
      \/ Goes(t, "alloc", asks) /\ UNCHANGED <<inode_lock, entry_lock>>
      \/ WriteReturns(t)
  BY DEF WriteBlock
<1>4. WriteReturns(t) => Return(t)
  BY DEF WriteReturns
<1> HIDE DEF next, asks
<1> QED
  BY <1>1, <1>2, <1>3, <1>4, GoesMoves, ReturnMoves DEF Pcs, GoesOn

\* data_block_alloc inside that loop does the same.
LEMMA AllocScanMoves ==
    ASSUME Shape, NEW t \in Threads, AllocScan(t)
    PROVE  /\ Moved(t)
           /\ \/ /\ pc'[t] \in {"write", "alloc", "label"} /\ GoesOn(t)
                 /\ UNCHANGED <<inode_lock, entry_lock>>
              \/ pc'[t] = "idle" /\ ~arg'[t].copy /\ WriteReturns(t)
<1> DEFINE next == [arg[t] EXCEPT !.scan = arg[t].scan + 1]
           back == [arg[t] EXCEPT !.scan = 0]
<1>1. /\ IsArg(next)
      /\ next.fh = arg[t].fh /\ next.inum = arg[t].inum /\ next.copy = arg[t].copy
  BY DEF Shape, IsArg
<1>2. /\ IsArg(back)
      /\ back.fh = arg[t].fh /\ back.inum = arg[t].inum /\ back.copy = arg[t].copy
  BY DEF Shape, IsArg
<1>3. \/ Goes(t, "alloc", next) /\ UNCHANGED <<inode_lock, entry_lock>>
      \/ Goes(t, "write", back) /\ UNCHANGED <<inode_lock, entry_lock>>
      \/ Goes(t, "label", back) /\ UNCHANGED <<inode_lock, entry_lock>>
      \/ WriteReturns(t)
  BY DEF AllocScan
<1>4. WriteReturns(t) => Return(t)
  BY DEF WriteReturns
<1> HIDE DEF next, back
<1> QED
  BY <1>1, <1>2, <1>3, <1>4, GoesMoves, ReturnMoves DEF Pcs, GoesOn

\* tfs_read has its entry.
LEMMA ReadStartMoves ==
    ASSUME Shape, NEW t \in Threads, NEW h, NEW len, ReadStart(t, h, len)
    PROVE  /\ Moved(t) /\ pc'[t] = "read"
           /\ arg'[t].fh = h /\ arg'[t].copy = arg[t].copy
<1> DEFINE new == [arg[t] EXCEPT !.fh = h, !.left = len,
                                 !.inum = open_file_table[h].of_inumber]
<1>1. IsArg(new) /\ new.fh = h /\ new.copy = arg[t].copy
  BY DEF Shape, IsArg
<1>2. Goes(t, "read", new)
  BY DEF ReadStart
<1> HIDE DEF new
<1> QED
  BY <1>1, <1>2, GoesMoves DEF Pcs

\* tfs_read returns to its caller or to tfs_copy_to_external_fs.
LEMMA ReadBodyMoves ==
    ASSUME Shape, NEW t \in Threads, ReadBody(t)
    PROVE  /\ Moved(t)
           /\ \/ pc'[t] = "idle" /\ ~arg'[t].copy
              \/ pc'[t] \in {"copying", "closing"} /\ GoesOn(t) /\ arg[t].copy
<1>1. \/ Return(t)
      \/ (At(t, "copying") \/ At(t, "closing")) /\ arg[t].copy
  BY DEF ReadBody, AfterRead
<1> QED
  BY <1>1, AtMoves, ReturnMoves DEF Pcs

\* The rest of the steps of one thread change no locals.
LEMMA OtherMoves ==
    ASSUME Shape, NEW t \in Threads
    PROVE  /\ LabelIndirect(t) => Moved(t) /\ pc'[t] = "write" /\ GoesOn(t)
           /\ CopyOpened(t) =>
                 /\ Moved(t)
                 /\ \/ pc'[t] = "idle" /\ ~arg'[t].copy
                    \/ pc'[t] = "copying" /\ GoesOn(t)
           /\ DestroyMutex(t) => Moved(t) /\ GoesOn(t) /\ pc'[t] \in {"idle", "destroy"}
           /\ SpuriousWakeup(t) => Moved(t) /\ GoesOn(t) /\ pc'[t] = "woken"
<1>1. UNCHANGED threadVars => Moved(t) /\ GoesOn(t) /\ pc'[t] = pc[t]
  BY DEF threadVars, Shape, Moved, GoesOn
<1> QED
  BY <1>1, AtMoves, ReturnMoves
     DEF LabelIndirect, CopyOpened, DestroyMutex, SpuriousWakeup, Pcs

\* A thread begins to destroy only when it has found the count at 0.
LEMMA DestroyMoves ==
    ASSUME Shape, NEW t \in Threads, DestroyEnter(t) \/ DestroyRecheck(t)
    PROVE  /\ Moved(t) /\ GoesOn(t)
           /\ pc'[t] \in {"idle", "wait", "woken", "destroy"}
           /\ pc[t] \in {"idle", "woken"}
           /\ pc'[t] = "destroy" => open_files_count = 0
<1>1. UNCHANGED threadVars => Moved(t) /\ GoesOn(t) /\ pc'[t] = pc[t]
  BY DEF threadVars, Shape, Moved, GoesOn
<1>2. pc[t] \in {"idle", "woken"}
  BY DEF DestroyEnter, DestroyRecheck
<1>3. \/ UNCHANGED threadVars
      \/ At(t, "destroy") /\ open_files_count = 0
      \/ At(t, "wait")
  BY DEF DestroyEnter, DestroyRecheck, StateDestroy, DestroyWaits
<1> QED
  BY <1>1, <1>2, <1>3, AtMoves DEF Pcs

-----------------------------------------------------------------------------
(* The locks. *)

\* The places where the i-node's lock is held, and those where open_file_lock is.
Writing == {"write", "alloc", "label"}
Opens == {"found", "create", "link"}

\* Who can hold what.
LockTypes ==
    /\ inode_lock \in [Inums -> Threads \cup {NoThread}]
    /\ entry_lock \in [Handles -> [writer : Threads \cup {NoThread},
                                   readers : SUBSET Threads]]
    /\ open_file_lock \in Threads \cup {NoThread}

\* The three parts of LocksReturned.
InodesReturned == \A i \in Inums :
    inode_lock[i] # NoThread =>
        pc[inode_lock[i]] \in Writing /\ arg[inode_lock[i]].inum = i

EntriesReturned == \A h \in Handles :
    /\ entry_lock[h].writer # NoThread =>
          /\ pc[entry_lock[h].writer] \in Writing \cup {"lock", "read"}
          /\ arg[entry_lock[h].writer].fh = h
    /\ \A t \in entry_lock[h].readers : pc[t] = "close" /\ arg[t].fh = h

OpenReturned == open_file_lock # NoThread => pc[open_file_lock] \in Opens

\* No write has length 0.
SomethingLeft == \A t \in Threads : pc[t] = "lock" => arg[t].left # 0

\* LocksReturned made inductive.
LocksInv == Shape /\ LockTypes /\ InodesReturned /\ EntriesReturned
            /\ OpenReturned /\ SomethingLeft

\* The invariant says what LocksReturned does.
LEMMA LocksInvImplies == LocksInv => LocksReturned
BY DEF LocksInv, InodesReturned, EntriesReturned, OpenReturned, Writing, Opens,
       LocksReturned

\* The lock of no i-node is touched, and the writers go on.
LEMMA InodesKept ==
    ASSUME LocksInv, UNCHANGED inode_lock,
           \A u \in Threads : pc[u] \in Writing =>
                pc'[u] \in Writing /\ arg'[u].inum = arg[u].inum
    PROVE  InodesReturned'
BY DEF LocksInv, LockTypes, InodesReturned

\* The lock of no entry is touched, and the holders go on.
LEMMA EntriesKept ==
    ASSUME LocksInv, UNCHANGED entry_lock,
           \A u \in Threads : pc[u] \in Writing \cup {"lock", "read"} =>
                pc'[u] \in Writing \cup {"lock", "read"} /\ arg'[u].fh = arg[u].fh,
           \A u \in Threads : pc[u] = "close" =>
                pc'[u] = "close" /\ arg'[u].fh = arg[u].fh
    PROVE  EntriesReturned'
<1> SUFFICES ASSUME NEW h \in Handles
             PROVE  EntriesReturned!(h)'
  BY DEF EntriesReturned
<1>1. /\ entry_lock[h].writer \in Threads \cup {NoThread}
      /\ entry_lock[h].readers \subseteq Threads
  BY DEF LocksInv, LockTypes
<1> QED
  BY <1>1 DEF LocksInv, EntriesReturned

\* open_file_lock is not touched, and its holder goes on.
LEMMA OpenKept ==
    ASSUME LocksInv, UNCHANGED open_file_lock,
           \A u \in Threads : pc[u] \in Opens => pc'[u] \in Opens
    PROVE  OpenReturned'
BY DEF LocksInv, LockTypes, OpenReturned

\* A thread moves that holds none of the locks, and takes none.
LEMMA NoLockStep ==
    ASSUME LocksInv, NEW t \in Threads, Moved(t), UNCHANGED lockVars,
           pc[t] \notin Writing \cup Opens \cup {"lock", "read", "close"},
           pc'[t] # "lock"
    PROVE  LocksInv'
<1>1. \A u \in Threads : pc[u] \in Writing \cup Opens \cup {"lock", "read", "close"} =>
          pc'[u] = pc[u] /\ arg'[u] = arg[u]
  BY DEF Moved
<1>2. InodesReturned'
  BY <1>1, InodesKept DEF lockVars
<1>3. EntriesReturned'
  BY <1>1, EntriesKept DEF lockVars
<1>4. OpenReturned'
  BY <1>1, OpenKept DEF lockVars
<1>5. SomethingLeft'
  BY DEF LocksInv, SomethingLeft, Moved
<1> QED
  BY <1>2, <1>3, <1>4, <1>5 DEF LocksInv, LockTypes, lockVars, Moved

\* A thread in tfs_open moves on, or gives open_file_lock back.
LEMMA OpenStep ==
    ASSUME LocksInv, NEW t \in Threads, Moved(t), UNCHANGED <<inode_lock, entry_lock>>,
           pc[t] \in Opens,
           pc'[t] # "lock",
           \/ open_file_lock' = NoThread
           \/ pc'[t] \in Opens /\ UNCHANGED open_file_lock
    PROVE  LocksInv'
<1>1. \A u \in Threads : pc[u] \in Writing \cup {"lock", "read", "close"} =>
          pc'[u] = pc[u] /\ arg'[u] = arg[u]
  BY DEF Moved, Opens, Writing
<1>2. InodesReturned'
  BY <1>1, InodesKept
<1>3. EntriesReturned'
  BY <1>1, EntriesKept
<1>4. OpenReturned'
  BY OpenKept DEF OpenReturned, Moved
<1>5. SomethingLeft'
  BY DEF LocksInv, SomethingLeft, Moved
<1> QED
  BY <1>2, <1>3, <1>4, <1>5 DEF LocksInv, LockTypes, Moved

\* A thread in the loop of tfs_write moves on, or gives both locks back.
LEMMA WritingStep ==
    ASSUME LocksInv, NEW t \in Threads, Moved(t), UNCHANGED open_file_lock,
           pc[t] \in Writing,
           \/ /\ pc'[t] \in Writing /\ GoesOn(t)
              /\ UNCHANGED <<inode_lock, entry_lock>>
           \/ pc'[t] = "idle" /\ WriteReturns(t)
    PROVE  LocksInv'
<1>1. OpenReturned'
  BY OpenKept DEF Moved, Opens, Writing
<1>2. SomethingLeft'
  BY DEF LocksInv, SomethingLeft, Moved, Writing
<1>3. CASE /\ pc'[t] \in Writing /\ GoesOn(t)
           /\ UNCHANGED <<inode_lock, entry_lock>>
  <2>1. InodesReturned'
    BY <1>3, InodesKept DEF Moved, GoesOn
  <2>2. EntriesReturned'
    BY <1>3, EntriesKept DEF Moved, GoesOn, Writing
  <2> QED
    BY <1>1, <1>2, <1>3, <2>1, <2>2 DEF LocksInv, LockTypes, Moved
<1>4. CASE pc'[t] = "idle" /\ WriteReturns(t)
  <2>1. /\ inode_lock' = [inode_lock EXCEPT ![arg[t].inum] = NoThread]
        /\ entry_lock' = [entry_lock EXCEPT ![arg[t].fh].writer = NoThread]
    BY <1>4 DEF WriteReturns
  <2>2. LockTypes'
    BY <2>1 DEF LocksInv, LockTypes
  <2>3. InodesReturned'
    BY <2>1 DEF LocksInv, LockTypes, InodesReturned, Moved
  <2>4. EntriesReturned'
    <3> SUFFICES ASSUME NEW h \in Handles
                 PROVE  EntriesReturned!(h)'
      BY DEF EntriesReturned
    <3>1. /\ entry_lock[h].writer \in Threads \cup {NoThread}
          /\ entry_lock[h].readers \subseteq Threads
      BY DEF LocksInv, LockTypes
    <3>2. entry_lock'[h].readers = entry_lock[h].readers
      BY <2>1 DEF LocksInv, LockTypes
    <3>3. \/ entry_lock'[h].writer = NoThread
          \/ entry_lock'[h].writer = entry_lock[h].writer /\ h # arg[t].fh
      BY <2>1 DEF LocksInv, LockTypes
    <3>4. t \notin entry_lock[h].readers
      BY DEF LocksInv, EntriesReturned, Writing
    <3> QED
      BY <3>1, <3>2, <3>3, <3>4 DEF LocksInv, EntriesReturned, Moved
  <2> QED
    BY <1>1, <1>2, <2>2, <2>3, <2>4 DEF LocksInv, Moved
<1> QED
  BY <1>3, <1>4

\* Nothing is locked at first.
LEMMA InitLocks == Init => LocksInv
<1> SUFFICES ASSUME Init PROVE LocksInv
  OBVIOUS
<1>1. Shape
  BY NoArgShape DEF Init, Shape, Pcs
<1>2. LockTypes
  BY DEF Init, LockTypes, Unlocked
<1> QED
  BY <1>1, <1>2 DEF Init, LocksInv, InodesReturned, EntriesReturned, OpenReturned,
                    SomethingLeft, Unlocked

\* tfs_open takes open_file_lock.
LEMMA OpenStartLocks ==
    ASSUME LocksInv, NEW t \in Threads, OpenStart(t)
    PROVE  LocksInv'
<1>1. /\ pc[t] = "idle" /\ open_file_lock = NoThread /\ open_file_lock' = t
      /\ UNCHANGED <<inode_lock, entry_lock>>
  BY DEF OpenStart, OpenLocked
<1>2. Moved(t) /\ pc'[t] \in Opens
  BY OpenStartMoves DEF LocksInv, Opens
<1>3. InodesReturned'
  BY <1>1, <1>2, InodesKept DEF Moved, Writing
<1>4. EntriesReturned'
  BY <1>1, <1>2, EntriesKept DEF Moved, Writing
<1>5. OpenReturned' /\ SomethingLeft'
  BY <1>1, <1>2 DEF LocksInv, OpenReturned, SomethingLeft, Moved, Opens
<1> QED
  BY <1>1, <1>2, <1>3, <1>4, <1>5 DEF LocksInv, LockTypes, Moved

\* tfs_close takes the entry's lock for reading.
LEMMA CloseStartLocks ==
    ASSUME LocksInv, NEW t \in Threads, CloseStart(t)
    PROVE  LocksInv'
<1>1. /\ pc[t] \in {"idle", "closing"}
      /\ UNCHANGED <<inode_lock, open_file_lock>>
  BY DEF CloseStart
<1>2. /\ Moved(t) /\ pc'[t] = "close" /\ arg'[t].fh \in Handles
      /\ entry_lock' = [entry_lock EXCEPT ![arg'[t].fh].readers = @ \cup {t}]
  BY CloseStartMoves DEF LocksInv
<1>3. InodesReturned'
  BY <1>1, <1>2, InodesKept DEF Moved, Writing
<1>4. OpenReturned' /\ SomethingLeft'
  BY <1>1, <1>2, OpenKept DEF LocksInv, SomethingLeft, Moved, Opens
<1>5. LockTypes'
  BY <1>1, <1>2 DEF LocksInv, LockTypes
<1>6. EntriesReturned'
  <2> SUFFICES ASSUME NEW h \in Handles
               PROVE  EntriesReturned!(h)'
    BY DEF EntriesReturned
  <2>1. /\ entry_lock[h].writer \in Threads \cup {NoThread}
        /\ entry_lock[h].readers \subseteq Threads
    BY DEF LocksInv, LockTypes
  <2>2. entry_lock'[h].writer = entry_lock[h].writer
    BY <1>2 DEF LocksInv, LockTypes
  <2>3. \/ entry_lock'[h].readers = entry_lock[h].readers
        \/ h = arg'[t].fh /\ entry_lock'[h].readers = entry_lock[h].readers \cup {t}
    BY <1>2 DEF LocksInv, LockTypes
  <2>4. t \notin entry_lock[h].readers /\ entry_lock[h].writer # t
    BY <1>1, FineCallsAssumption DEF LocksInv, EntriesReturned, Writing
  <2>5. entry_lock'[h].writer # NoThread =>
            /\ pc'[entry_lock[h].writer] \in Writing \cup {"lock", "read"}
            /\ arg'[entry_lock[h].writer].fh = h
    BY <1>2, <2>1, <2>2, <2>4 DEF LocksInv, EntriesReturned, Moved
  <2>6. \A u \in entry_lock[h].readers : pc'[u] = "close" /\ arg'[u].fh = h
    BY <1>2, <2>1, <2>4 DEF LocksInv, EntriesReturned, Moved
  <2> QED
    BY <1>2, <2>2, <2>3, <2>5, <2>6
<1> QED
  BY <1>2, <1>3, <1>4, <1>5, <1>6 DEF LocksInv, Moved

\* tfs_close gives it back.
LEMMA CloseEndLocks ==
    ASSUME LocksInv, NEW t \in Threads, CloseEnd(t)
    PROVE  LocksInv'
<1>1. /\ pc[t] = "close"
      /\ entry_lock' = [entry_lock EXCEPT ![arg[t].fh].readers = @ \ {t}]
      /\ UNCHANGED <<inode_lock, open_file_lock>>
  BY DEF CloseEnd
<1>2. /\ Shape'
      /\ pc'[t] = "idle"
      /\ \A u \in Threads \ {t} :
            /\ arg'[u] = arg[u]
            /\ pc'[u] = pc[u] \/ (pc[u] = "wait" /\ pc'[u] = "woken")
  BY CloseEndMoves DEF LocksInv
<1>3. InodesReturned'
  BY <1>1, <1>2, InodesKept DEF Writing
<1>4. OpenReturned' /\ SomethingLeft'
  BY <1>1, <1>2, OpenKept DEF LocksInv, SomethingLeft, Opens
<1>5. LockTypes'
  BY <1>1 DEF LocksInv, LockTypes
<1>6. EntriesReturned'
  <2> SUFFICES ASSUME NEW h \in Handles
               PROVE  EntriesReturned!(h)'
    BY DEF EntriesReturned
  <2>1. /\ entry_lock[h].writer \in Threads \cup {NoThread}
        /\ entry_lock[h].readers \subseteq Threads
    BY DEF LocksInv, LockTypes
  <2>2. entry_lock'[h].writer = entry_lock[h].writer
    BY <1>1 DEF LocksInv, LockTypes
  <2>3. \/ h # arg[t].fh /\ entry_lock'[h].readers = entry_lock[h].readers
        \/ h = arg[t].fh /\ entry_lock'[h].readers = entry_lock[h].readers \ {t}
    BY <1>1 DEF LocksInv, LockTypes
  <2>4. entry_lock[h].writer # NoThread =>
            /\ pc'[entry_lock[h].writer] \in Writing \cup {"lock", "read"}
            /\ arg'[entry_lock[h].writer].fh = h
    BY <1>1, <1>2, <2>1 DEF LocksInv, EntriesReturned, Writing
  <2>5. ASSUME NEW u \in entry_lock'[h].readers
        PROVE  pc'[u] = "close" /\ arg'[u].fh = h
    <3>1. u \in entry_lock[h].readers /\ u # t
      BY <1>1, <2>3 DEF LocksInv, EntriesReturned
    <3> QED
      BY <1>2, <2>1, <3>1 DEF LocksInv, EntriesReturned
  <2> QED
    BY <2>2, <2>4, <2>5
<1> QED
  BY <1>2, <1>3, <1>4, <1>5, <1>6 DEF LocksInv

\* tfs_write and tfs_read lock an entry that nobody holds.
LEMMA EntryTaken ==
    ASSUME LocksInv, NEW t \in Threads, NEW h, Moved(t), EntryFree(h),
           entry_lock' = [entry_lock EXCEPT ![h].writer = t],
           UNCHANGED <<inode_lock, open_file_lock>>,
           pc[t] \in {"idle", "copying"},
           \/ pc'[t] = "read"
           \/ pc'[t] = "lock" /\ arg'[t].left # 0,
           arg'[t].fh = h
    PROVE  LocksInv'
<1>1. InodesReturned'
  BY InodesKept DEF Moved, Writing
<1>2. OpenReturned' /\ SomethingLeft'
  BY OpenKept DEF LocksInv, SomethingLeft, Moved, Opens
<1>3. LockTypes'
  BY DEF LocksInv, LockTypes
<1>4. EntriesReturned'
  <2> SUFFICES ASSUME NEW k \in Handles
               PROVE  EntriesReturned!(k)'
    BY DEF EntriesReturned
  <2>1. /\ entry_lock[k].writer \in Threads \cup {NoThread}
        /\ entry_lock[k].readers \subseteq Threads
    BY DEF LocksInv, LockTypes
  <2>2. entry_lock'[k].readers = entry_lock[k].readers
    BY DEF LocksInv, LockTypes
  <2>3. \/ entry_lock'[k].writer = entry_lock[k].writer
        \/ k = h /\ entry_lock'[k].writer = t
    BY DEF LocksInv, LockTypes
  <2>4. t \notin entry_lock[k].readers /\ entry_lock[k].writer # t
    BY FineCallsAssumption DEF LocksInv, EntriesReturned, Writing
  <2> QED
    BY <2>1, <2>2, <2>3, <2>4 DEF LocksInv, EntriesReturned, Moved
<1> QED
  BY <1>1, <1>2, <1>3, <1>4 DEF LocksInv, Moved

\* tfs_write takes the i-node's lock.
LEMMA WriteLockLocks ==
    ASSUME LocksInv, NEW t \in Threads, WriteLock(t)
    PROVE  LocksInv'
<1>1. /\ pc[t] = "lock" /\ arg[t].left # 0
      /\ inode_lock' = [inode_lock EXCEPT ![arg[t].inum] = t]
      /\ UNCHANGED <<entry_lock, open_file_lock>>
  BY DEF WriteLock, LocksInv, SomethingLeft
<1>2. Moved(t) /\ pc'[t] = "write" /\ GoesOn(t)
  BY <1>1, WriteLockMoves DEF LocksInv
<1>3. OpenReturned' /\ SomethingLeft'
  BY <1>1, <1>2, OpenKept DEF LocksInv, SomethingLeft, Moved, Opens
<1>4. LockTypes'
  BY <1>1 DEF LocksInv, LockTypes
<1>5. EntriesReturned'
  BY <1>1, <1>2, EntriesKept DEF Moved, GoesOn, Writing
<1>6. InodesReturned'
  <2> SUFFICES ASSUME NEW i \in Inums
               PROVE  InodesReturned!(i)'
    BY DEF InodesReturned
  <2>1. inode_lock[i] \in Threads \cup {NoThread}
    BY DEF LocksInv, LockTypes
  <2>2. \/ inode_lock'[i] = inode_lock[i]
        \/ i = arg[t].inum /\ inode_lock'[i] = t
    BY <1>1 DEF LocksInv, LockTypes
  <2> QED
    BY <1>1, <1>2, <2>1, <2>2 DEF LocksInv, InodesReturned, Moved, GoesOn, Writing
<1> QED
  BY <1>2, <1>3, <1>4, <1>5, <1>6 DEF LocksInv, Moved

\* tfs_read gives the entry's lock back.
LEMMA ReadBodyLocks ==
    ASSUME LocksInv, NEW t \in Threads, ReadBody(t)
    PROVE  LocksInv'
<1>1. /\ pc[t] = "read"
      /\ entry_lock' = [entry_lock EXCEPT ![arg[t].fh].writer = NoThread]
      /\ UNCHANGED <<inode_lock, open_file_lock>>
  BY DEF ReadBody
<1>2. Moved(t) /\ pc'[t] \in {"idle", "copying", "closing"}
  BY ReadBodyMoves DEF LocksInv
<1>3. InodesReturned'
  BY <1>1, <1>2, InodesKept DEF Moved, Writing
<1>4. OpenReturned' /\ SomethingLeft'
  BY <1>1, <1>2, OpenKept DEF LocksInv, SomethingLeft, Moved, Opens
<1>5. LockTypes'
  BY <1>1 DEF LocksInv, LockTypes
<1>6. EntriesReturned'
  <2> SUFFICES ASSUME NEW h \in Handles
               PROVE  EntriesReturned!(h)'
    BY DEF EntriesReturned
  <2>1. /\ entry_lock[h].writer \in Threads \cup {NoThread}
        /\ entry_lock[h].readers \subseteq Threads
    BY DEF LocksInv, LockTypes
  <2>2. entry_lock'[h].readers = entry_lock[h].readers
    BY <1>1 DEF LocksInv, LockTypes
  <2>3. \/ entry_lock'[h].writer = NoThread
        \/ entry_lock'[h].writer = entry_lock[h].writer /\ h # arg[t].fh
    BY <1>1 DEF LocksInv, LockTypes
  <2>4. t \notin entry_lock[h].readers
    BY <1>1 DEF LocksInv, EntriesReturned
  <2> QED
    BY <1>2, <2>1, <2>2, <2>3, <2>4 DEF LocksInv, EntriesReturned, Moved
<1> QED
  BY <1>2, <1>3, <1>4, <1>5, <1>6 DEF LocksInv, Moved

\* tfs_init changes no locals.
LEMMA InitAgainShape == ASSUME Shape, UNCHANGED threadVars PROVE Shape'
BY DEF Shape, threadVars

\* tfs_init makes new locks.
LEMMA TfsInitLocks ==
    ASSUME LocksInv, TfsInit
    PROVE  LocksInv'
<1>1. /\ open_file_lock' = NoThread
      /\ inode_lock' = [i \in Inums |-> NoThread]
      /\ entry_lock' = [h \in Handles |-> Unlocked]
      /\ UNCHANGED threadVars
  BY DEF TfsInit
<1>2. LockTypes'
  BY <1>1 DEF LockTypes, Unlocked
<1> QED
  BY <1>1, <1>2, InitAgainShape
     DEF LocksInv, threadVars, InodesReturned, EntriesReturned, OpenReturned,
         SomethingLeft, Unlocked

\* No lock is taken or given back, and no thread moves.
LEMMA UnchangedLocks ==
    ASSUME LocksInv, UNCHANGED <<threadVars, lockVars>>
    PROVE  LocksInv'
<1>1. UNCHANGED <<pc, arg, open_file_lock, inode_lock, entry_lock>>
  BY DEF threadVars, lockVars
<1>2. Shape' /\ LockTypes'
  BY <1>1 DEF LocksInv, Shape, LockTypes
<1>3. InodesReturned'
  BY <1>1 DEF LocksInv, InodesReturned
<1>4. EntriesReturned'
  BY <1>1 DEF LocksInv, EntriesReturned
<1>5. OpenReturned' /\ SomethingLeft'
  BY <1>1 DEF LocksInv, OpenReturned, SomethingLeft
<1> QED
  BY <1>2, <1>3, <1>4, <1>5 DEF LocksInv

\* The steps of tfs_open keep open_file_lock or give it back.
LEMMA OpenLocks ==
    ASSUME LocksInv, NEW t \in Threads,
           OpenExisting(t) \/ CreateScan(t) \/ OpenLink(t)
    PROVE  LocksInv'
<1>1. pc[t] \in Opens /\ UNCHANGED <<inode_lock, entry_lock>>
  BY DEF OpenExisting, CreateScan, OpenLink, Opens
<1>2. CASE OpenExisting(t) \/ OpenLink(t)
  <2>1. open_file_lock' = NoThread
    BY <1>2 DEF OpenExisting, OpenLink
  <2>2. Moved(t) /\ pc'[t] \in {"idle", "add"}
    BY <1>2, OpenExistingMoves, OpenLinkMoves DEF LocksInv
  <2> QED
    BY <1>1, <2>1, <2>2, OpenStep
<1>3. CASE CreateScan(t)
  <2>1. /\ Moved(t) /\ pc'[t] \in {"link", "create", "idle"}
        /\ \/ open_file_lock' = NoThread
           \/ pc'[t] \in Opens /\ UNCHANGED open_file_lock
    BY <1>3, CreateScanMoves DEF LocksInv, Opens
  <2> QED
    BY <1>1, <2>1, OpenStep
<1> QED
  BY <1>2, <1>3

\* tfs_write takes the entry's lock.
LEMMA WriteStartLocks ==
    ASSUME LocksInv, NEW t \in Threads, NEW h, NEW len, len # 0,
           WriteStart(t, h, len)
    PROVE  LocksInv'
<1>1. /\ pc[t] = "idle" /\ EntryFree(h)
      /\ entry_lock' = [entry_lock EXCEPT ![h].writer = t]
      /\ UNCHANGED <<inode_lock, open_file_lock>>
  BY DEF WriteStart
<1>2. Moved(t) /\ pc'[t] = "lock" /\ arg'[t].fh = h /\ arg'[t].left = len
  BY WriteStartMoves DEF LocksInv
<1> QED
  BY <1>1, <1>2, EntryTaken

\* tfs_read takes the entry's lock.
LEMMA ReadStartLocks ==
    ASSUME LocksInv, NEW t \in Threads, NEW h, NEW len, ReadStart(t, h, len)
    PROVE  LocksInv'
<1>1. /\ pc[t] \in {"idle", "copying"} /\ EntryFree(h)
      /\ entry_lock' = [entry_lock EXCEPT ![h].writer = t]
      /\ UNCHANGED <<inode_lock, open_file_lock>>
  BY DEF ReadStart
<1>2. Moved(t) /\ pc'[t] = "read" /\ arg'[t].fh = h
  BY ReadStartMoves DEF LocksInv
<1> QED
  BY <1>1, <1>2, EntryTaken

\* The steps of the loop of tfs_write.
LEMMA WritingLocks ==
    ASSUME LocksInv, NEW t \in Threads,
           WriteBlock(t) \/ AllocScan(t) \/ LabelIndirect(t)
    PROVE  LocksInv'
<1>1. pc[t] \in Writing /\ UNCHANGED open_file_lock
  BY DEF WriteBlock, AllocScan, LabelIndirect, Writing, lockVars
<1>2. LabelIndirect(t) => UNCHANGED <<inode_lock, entry_lock>>
  BY DEF LabelIndirect, lockVars
<1>3. /\ Moved(t)
      /\ \/ /\ pc'[t] \in Writing /\ GoesOn(t)
            /\ UNCHANGED <<inode_lock, entry_lock>>
         \/ pc'[t] = "idle" /\ WriteReturns(t)
  BY <1>2, WriteBlockMoves, AllocScanMoves, OtherMoves DEF LocksInv, Writing
<1> QED
  BY <1>1, <1>3, WritingStep

\* The steps that neither hold nor take a lock of the model.
LEMMA OtherLocks ==
    ASSUME LocksInv, NEW t \in Threads,
           \/ AddScan(t) \/ CopyOpened(t) \/ DestroyEnter(t) \/ DestroyRecheck(t)
           \/ DestroyMutex(t) \/ SpuriousWakeup(t)
    PROVE  LocksInv'
<1>1. /\ UNCHANGED lockVars
      /\ pc[t] \in {"add", "opened", "idle", "woken", "destroy", "wait"}
  BY DEF AddScan, CopyOpened, DestroyEnter, DestroyRecheck, DestroyMutex,
         SpuriousWakeup
<1>2. Moved(t) /\ pc'[t] # "lock"
  BY AddScanMoves, OtherMoves, DestroyMoves DEF LocksInv
<1> QED
  BY <1>1, <1>2, NoLockStep DEF Writing, Opens

\* The steps of Next, sorted.
LEMMA NextCases ==
    ASSUME Next
    PROVE  \/ \E t \in Threads :
                 \/ OpenStart(t)
                 \/ OpenExisting(t) \/ CreateScan(t) \/ OpenLink(t)
                 \/ CloseStart(t) \/ CloseEnd(t)
                 \/ WriteLock(t)
                 \/ WriteBlock(t) \/ AllocScan(t) \/ LabelIndirect(t)
                 \/ ReadBody(t)
                 \/ AddScan(t) \/ CopyOpened(t) \/ DestroyEnter(t)
                 \/ DestroyRecheck(t) \/ DestroyMutex(t) \/ SpuriousWakeup(t)
                 \/ \E h \in Handles, len \in Lens \cup {BLOCK_SIZE} :
                       ReadStart(t, h, len)
                 \/ \E h \in Handles, len \in Lens : WriteStart(t, h, len)
           \/ TfsInit
           \/ UNCHANGED <<stateVars, threadVars, lockVars>>
<1>1. \A t \in Threads : LockFails(t) => UNCHANGED <<stateVars, threadVars, lockVars>>
  BY DEF LockFails, Exit
<1>2. TfsDestroy \/ Ended => UNCHANGED <<stateVars, threadVars, lockVars>>
  BY DEF TfsDestroy, Ended, vars
<1> QED
  BY <1>1, <1>2 DEF Next

\* Every step keeps the invariant, unless a write has length 0.
LEMMA NextLocks ==
    ASSUME 0 \notin Lens, LocksInv, Next
    PROVE  LocksInv'
<1>1. ASSUME NEW t \in Threads, NEW h \in Handles, NEW len \in Lens,
             WriteStart(t, h, len)
      PROVE  LocksInv'
  BY <1>1, WriteStartLocks
<1> QED
  BY <1>1, NextCases, OpenStartLocks, OpenLocks, CloseStartLocks, CloseEndLocks,
     WriteLockLocks, WritingLocks, ReadBodyLocks, OtherLocks, ReadStartLocks,
     TfsInitLocks, UnchangedLocks

\* No way out of a call of the earlier library keeps a lock, whatever the
\* threads, tables and blocks, as long as no write has length 0 (that one
\* returns with both locks, operations.c:151).
THEOREM LocksSafe ==
    ASSUME 0 \notin Lens
    PROVE  Spec => []LocksReturned
<1>1. LocksInv /\ [Next]_vars => LocksInv'
  <2>1. LocksInv /\ UNCHANGED vars => LocksInv'
    BY UnchangedLocks DEF vars
  <2> QED
    BY <2>1, NextLocks
<1> QED
  BY <1>1, InitLocks, LocksInvImplies, PTL DEF Spec

-----------------------------------------------------------------------------
(* The directory. *)

\* Names have at most 39 characters: they are stored as they are.
NamesWhole == \A n \in Names : Stored[n] = n

\* The directory and the i-node map; the root directory's i-node is never free.
DirTypes ==
    /\ root_dir \in [DirSlots -> [d_inumber : Inums \cup {-1},
                                  d_name : Names \cup {NoName}]]
    /\ freeinode_ts \in [Inums -> {FREE, TAKEN}]
    /\ freeinode_ts[ROOT_DIR_INUM] = TAKEN

\* One thread at a time is between the lookup and the choice of the i-node.
OneOpens == \A t \in Threads : pc[t] \in Opens => open_file_lock = t

\* What the lookup and inode_create have found is still so.
Creating(t) ==
    /\ pc[t] \in Opens => arg[t].name \in Names
    /\ pc[t] = "create" => arg[t].scan \in Inums
    /\ pc[t] \in {"create", "link"} => Named(arg[t].name) = {}
    /\ pc[t] = "link" =>
          /\ arg[t].inum \in Files
          /\ \A s \in LinkedSlots : root_dir[s].d_inumber # arg[t].inum

\* DirectoryConsistent made inductive.
DirInv ==
    /\ Shape /\ DirTypes /\ OneOpens
    /\ \A t \in Threads : Creating(t)
    /\ DirectoryConsistent

\* The root directory has an i-node.
LEMMA RootInode0 == ROOT_DIR_INUM \in Inums
BY FineSizesAssumption DEF Inums, ROOT_DIR_INUM

\* There are no files at first.
LEMMA InitDir == Init => DirInv
<1> SUFFICES ASSUME Init PROVE DirInv
  OBVIOUS
<1>1. Shape
  BY NoArgShape DEF Init, Shape, Pcs
<1>2. DirTypes
  BY FineSizesAssumption DEF Init, StateInit, DirTypes, Inums, ROOT_DIR_INUM
<1>3. LinkedSlots = {} /\ Files = {}
  BY DEF Init, StateInit, LinkedSlots, Files, FREE, TAKEN
<1> QED
  BY <1>1, <1>2, <1>3 DEF Init, DirInv, OneOpens, Creating, Opens, DirectoryConsistent

\* No name is given or taken back, no i-node claimed or freed.
LEMMA DirKept ==
    ASSUME DirInv, Shape', UNCHANGED <<root_dir, freeinode_ts>>, OneOpens',
           \A u \in Threads : pc'[u] \in Opens => Creating(u)',
           \A u \in Threads : pc[u] = "link" => pc'[u] = "link" /\ arg'[u] = arg[u]
    PROVE  DirInv'
<1>1. DirTypes'
  BY DEF DirInv, DirTypes
<1>2. \A u \in Threads : Creating(u)'
  BY DEF Creating, Opens
<1>3. DirectoryConsistent'
  BY DEF DirInv, DirectoryConsistent, LinkedSlots, Files
<1> QED
  BY <1>1, <1>2, <1>3 DEF DirInv

\* The threads in tfs_open's lookup and creation do not move.
LEMMA DirAside ==
    ASSUME DirInv, Shape', UNCHANGED <<root_dir, freeinode_ts, open_file_lock>>,
           \A u \in Threads :
              \/ pc'[u] = pc[u] /\ arg'[u] = arg[u]
              \/ pc[u] \notin Opens /\ pc'[u] \notin Opens
    PROVE  DirInv'
<1>1. OneOpens'
  BY DEF DirInv, OneOpens
<1>2. ASSUME NEW u \in Threads, pc'[u] \in Opens
      PROVE  Creating(u)'
  BY <1>2 DEF DirInv, Creating, Named, Files, LinkedSlots
<1> QED
  BY <1>1, <1>2, DirKept DEF Opens

\* The lookup that finds no name is still right while the lock is held.
LEMMA OpenStartDir ==
    ASSUME DirInv, NEW t \in Threads, OpenStart(t)
    PROVE  DirInv'
<1>1. /\ open_file_lock = NoThread /\ open_file_lock' = t /\ pc[t] = "idle"
      /\ UNCHANGED <<root_dir, freeinode_ts>>
  BY DEF OpenStart, OpenLocked, stateVars, fileVars
<1>2. /\ Moved(t)
      /\ \/ pc'[t] = "found"
         \/ pc'[t] = "create" /\ Named(arg'[t].name) = {} /\ arg'[t].scan = 0
      /\ arg'[t].name \in Names
  BY OpenStartMoves DEF DirInv
<1>3. \A u \in Threads : pc[u] \notin Opens
  BY <1>1, FineCallsAssumption DEF DirInv, OneOpens
<1>4. OneOpens'
  BY <1>1, <1>2, <1>3 DEF Moved, OneOpens
<1>5. 0 \in Inums
  BY FineSizesAssumption DEF Inums
<1>6. Creating(t)'
  BY <1>1, <1>2, <1>5 DEF Creating, Named, Opens
<1>7. \A u \in Threads : pc'[u] \in Opens => u = t
  BY <1>2, <1>3 DEF Moved
<1>8. \A u \in Threads : pc[u] # "link"
  BY <1>3 DEF Opens
<1> QED
  BY <1>1, <1>2, <1>4, <1>6, <1>7, <1>8, DirKept DEF Moved

\* Only one thread is between the lookup and the choice of the i-node.
LEMMA OthersOutside ==
    ASSUME DirInv, NEW t \in Threads, pc[t] \in Opens, NEW u \in Threads, u # t
    PROVE  pc[u] \notin Opens
BY DEF DirInv, OneOpens

\* Opening a file that exists changes no name.
LEMMA OpenExistingDir ==
    ASSUME DirInv, NEW t \in Threads, OpenExisting(t)
    PROVE  DirInv'
<1>1. pc[t] = "found" /\ UNCHANGED <<root_dir, freeinode_ts>>
  BY DEF OpenExisting
<1>2. Moved(t) /\ pc'[t] \notin Opens
  BY OpenExistingMoves DEF DirInv, Opens
<1>3. \A u \in Threads : pc'[u] \notin Opens
  BY <1>1, <1>2, OthersOutside DEF Moved, Opens
<1>4. \A u \in Threads : pc[u] # "link"
  BY <1>1, OthersOutside DEF Opens
<1> QED
  BY <1>1, <1>2, <1>3, <1>4, DirKept DEF Moved, OneOpens

\* An i-node that is free has no name, so the one claimed has none.
LEMMA CreateScanDir ==
    ASSUME DirInv, NEW t \in Threads, CreateScan(t)
    PROVE  DirInv'
<1>1. pc[t] = "create" /\ UNCHANGED root_dir
  BY DEF CreateScan
<1>2. Moved(t)
  BY CreateScanMoves DEF DirInv
<1>3. \A u \in Threads \ {t} : pc[u] \notin Opens /\ pc'[u] \notin Opens
  BY <1>1, <1>2, OthersOutside DEF Moved, Opens
<1>4. /\ arg[t].name \in Names /\ arg[t].scan \in Inums
      /\ Named(arg[t].name) = {} /\ open_file_lock = t
  BY <1>1 DEF DirInv, Creating, OneOpens, Opens
<1>5. \A u \in Threads : pc[u] # "link"
  BY <1>1, <1>3 DEF Opens
<1>6. CASE /\ pc'[t] = "link"
           /\ arg'[t].inum = arg[t].scan /\ arg'[t].name = arg[t].name
           /\ UNCHANGED open_file_lock
           /\ freeinode_ts[arg[t].scan] = FREE
           /\ freeinode_ts' = [freeinode_ts EXCEPT ![arg[t].scan] = TAKEN]
  <2> DEFINE i == arg[t].scan
  <2>1. DirTypes'
    <3>1. freeinode_ts' \in [Inums -> {FREE, TAKEN}]
      BY <1>6 DEF DirInv, DirTypes
    <3>2. freeinode_ts'[ROOT_DIR_INUM] = TAKEN
      BY <1>6, RootInode0 DEF DirInv, DirTypes
    <3> QED
      BY <1>1, <3>1, <3>2 DEF DirInv, DirTypes
  <2>2. i # ROOT_DIR_INUM
    BY <1>6 DEF DirInv, DirTypes, FREE, TAKEN
  <2>3. Files' = Files \cup {i}
    BY <1>4, <1>6, <2>2 DEF DirInv, DirTypes, Files
  <2>4. LinkedSlots' = LinkedSlots
    BY <1>1 DEF LinkedSlots
  <2>5. i \notin Files
    BY <1>6 DEF Files, FREE, TAKEN
  <2>6. \A s \in LinkedSlots : root_dir[s].d_inumber # i
    BY <2>5 DEF DirInv, DirectoryConsistent
  <2>7. Creating(t)'
    BY <1>1, <1>4, <1>6, <2>3, <2>4, <2>6 DEF Creating, Named, Opens
  <2>8. OneOpens' /\ \A u \in Threads : Creating(u)'
    BY <1>3, <1>4, <1>6, <2>7 DEF OneOpens, Creating, Opens
  <2>9. DirectoryConsistent'
    <3>1. \A j \in Files' :
            \/ \E s \in LinkedSlots' : root_dir'[s].d_inumber = j
            \/ \E u \in Threads : pc'[u] = "link" /\ arg'[u].inum = j
      BY <1>1, <1>5, <1>6, <2>3, <2>4 DEF DirInv, DirectoryConsistent
    <3> QED
      BY <1>1, <2>3, <2>4, <3>1 DEF DirInv, DirectoryConsistent
  <2> QED
    BY <1>2, <2>1, <2>8, <2>9 DEF DirInv, Moved
<1>7. CASE /\ pc'[t] = "create"
           /\ arg'[t].name = arg[t].name /\ arg'[t].scan \in Inums
           /\ UNCHANGED <<open_file_lock, freeinode_ts>>
  <2>1. OneOpens'
    BY <1>3, <1>4, <1>7 DEF OneOpens
  <2>2. Creating(t)'
    BY <1>1, <1>4, <1>7 DEF Creating, Named
  <2> QED
    BY <1>1, <1>2, <1>3, <1>5, <1>7, <2>1, <2>2, DirKept DEF Moved
<1>8. CASE pc'[t] = "idle" /\ UNCHANGED freeinode_ts
  <2>1. \A u \in Threads : pc'[u] \notin Opens
    BY <1>3, <1>8 DEF Opens
  <2> QED
    BY <1>1, <1>2, <1>5, <1>8, <2>1, DirKept DEF Moved, OneOpens
<1> QED
  BY <1>6, <1>7, <1>8, CreateScanMoves DEF DirInv

\* The new name goes to the i-node claimed, or the i-node is given back.
LEMMA OpenLinkDir ==
    ASSUME NamesWhole, DirInv, NEW t \in Threads, OpenLink(t)
    PROVE  DirInv'
<1> DEFINE i == arg[t].inum
           n == arg[t].name
<1>1. pc[t] = "link"
  BY DEF OpenLink
<1>2. Moved(t) /\ pc'[t] \notin Opens
  BY OpenLinkMoves DEF DirInv, Opens
<1>3. \A u \in Threads : pc'[u] \notin Opens
  BY <1>1, <1>2, OthersOutside DEF Moved, Opens
<1>4. \A u \in Threads : pc[u] = "link" => u = t
  BY <1>1, OthersOutside DEF Opens
<1>5. OneOpens' /\ \A u \in Threads : Creating(u)'
  BY <1>3 DEF OneOpens, Creating, Opens
<1>6. /\ n \in Names /\ Named(n) = {} /\ i \in Files
      /\ \A s \in LinkedSlots : root_dir[s].d_inumber # i
  BY <1>1 DEF DirInv, Creating, Opens
<1>7. i \in Inums /\ i # ROOT_DIR_INUM /\ i # -1
  BY <1>6, FineSizesAssumption DEF Files, Inums
<1>0. Stored[n] = n
  BY <1>6 DEF NamesWhole
<1>8. ASSUME NEW s \in EmptySlots, UNCHANGED freeinode_ts,
             root_dir' = [root_dir EXCEPT ![s] = [d_inumber |-> i, d_name |-> Stored[n]]]
      PROVE  DirInv'
  <2>1. DirTypes'
    BY <1>0, <1>6, <1>7, <1>8 DEF DirInv, DirTypes
  <2>2. s \in DirSlots /\ s \notin LinkedSlots
    BY DEF EmptySlots, LinkedSlots
  <2>3. /\ root_dir'[s].d_inumber = i /\ root_dir'[s].d_name = n
        /\ \A r \in DirSlots \ {s} : root_dir'[r] = root_dir[r]
    BY <1>0, <1>8, <2>2 DEF DirInv, DirTypes
  <2>4. LinkedSlots' = LinkedSlots \cup {s}
    BY <1>7, <2>2, <2>3 DEF LinkedSlots
  <2>5. Files' = Files
    BY <1>8 DEF Files
  <2>6. \A r \in LinkedSlots : r \in DirSlots /\ r # s /\ root_dir[r].d_name # n
    BY <1>6, <2>2 DEF LinkedSlots, Named
  <2>7. \A r \in LinkedSlots' : root_dir'[r].d_inumber \in Files'
    BY <1>6, <2>3, <2>4, <2>5, <2>6 DEF DirInv, DirectoryConsistent
  <2>8. \A r \in LinkedSlots' : \A q \in LinkedSlots' \ {r} :
            /\ root_dir'[q].d_inumber # root_dir'[r].d_inumber
            /\ root_dir'[q].d_name # root_dir'[r].d_name
    BY <1>6, <2>3, <2>4, <2>6 DEF DirInv, DirectoryConsistent
  <2>9. \A j \in Files' : \E r \in LinkedSlots' : root_dir'[r].d_inumber = j
    BY <1>4, <2>3, <2>4, <2>5, <2>6 DEF DirInv, DirectoryConsistent
  <2>10. DirectoryConsistent'
    BY <2>7, <2>8, <2>9 DEF DirectoryConsistent
  <2> QED
    BY <1>2, <1>5, <2>1, <2>10 DEF DirInv, Moved
<1>9. CASE UNCHANGED root_dir /\ freeinode_ts' = [freeinode_ts EXCEPT ![i] = FREE]
  <2>1. DirTypes'
    BY <1>7, <1>9 DEF DirInv, DirTypes
  <2>2. Files' = Files \ {i}
    BY <1>7, <1>9 DEF DirInv, DirTypes, Files, FREE, TAKEN
  <2>3. LinkedSlots' = LinkedSlots
    BY <1>9 DEF LinkedSlots
  <2>4. DirectoryConsistent'
    BY <1>4, <1>6, <1>9, <2>2, <2>3 DEF DirInv, DirectoryConsistent
  <2> QED
    BY <1>2, <1>5, <2>1, <2>4 DEF DirInv, Moved
<1> QED
  BY <1>8, <1>9 DEF OpenLink, IsFirst

\* tfs_init empties the directory.
LEMMA TfsInitDir ==
    ASSUME DirInv, TfsInit
    PROVE  DirInv'
<1>1. /\ UNCHANGED threadVars /\ \A t \in Threads : pc[t] = "idle"
      /\ freeinode_ts' = [i \in Inums |-> IF i = ROOT_DIR_INUM THEN TAKEN ELSE FREE]
      /\ root_dir' = [s \in DirSlots |-> [root_dir[s] EXCEPT !.d_inumber = -1]]
  BY DEF TfsInit, StateReset
<1>2. DirTypes'
  <2>1. root_dir' \in [DirSlots -> [d_inumber : Inums \cup {-1},
                                     d_name : Names \cup {NoName}]]
    BY <1>1 DEF DirInv, DirTypes
  <2>2. freeinode_ts' \in [Inums -> {FREE, TAKEN}] /\ freeinode_ts'[ROOT_DIR_INUM] = TAKEN
    BY <1>1, RootInode0
  <2> QED
    BY <2>1, <2>2 DEF DirTypes
<1>3. Files' = {}
  BY <1>1 DEF Files, FREE, TAKEN
<1>4. LinkedSlots' = {}
  BY <1>1 DEF LinkedSlots, DirInv, DirTypes
<1>5. OneOpens' /\ \A t \in Threads : Creating(t)'
  BY <1>1 DEF threadVars, OneOpens, Creating, Opens
<1>6. DirectoryConsistent'
  BY <1>3, <1>4 DEF DirectoryConsistent
<1>7. Shape'
  BY <1>1, InitAgainShape DEF DirInv
<1> QED
  BY <1>2, <1>5, <1>6, <1>7 DEF DirInv

\* No piece of a write goes to block 0, where the directory is.
RootSafe == \A t \in Threads :
    pc[t] = "write" => BlockNumber(arg[t].inum, arg[t].blk) # 0

\* The steps outside tfs_open's lookup and creation change no name.
LEMMA AsideDir ==
    ASSUME RootSafe, DirInv, NEW t \in Threads,
           \/ CloseStart(t) \/ WriteLock(t)
           \/ WriteBlock(t) \/ AllocScan(t) \/ LabelIndirect(t)
           \/ ReadBody(t) \/ AddScan(t) \/ CopyOpened(t) \/ DestroyEnter(t)
           \/ DestroyRecheck(t) \/ DestroyMutex(t) \/ SpuriousWakeup(t)
           \/ \E h \in Handles, len \in Lens \cup {BLOCK_SIZE} : ReadStart(t, h, len)
           \/ \E h \in Handles, len \in Lens : WriteStart(t, h, len)
    PROVE  DirInv'
<1>0. WriteBlock(t) => UNCHANGED <<root_dir, freeinode_ts, open_file_lock>>
                        /\ pc[t] \notin Opens
  BY DEF RootSafe, WriteBlock, RootDirAfter, Opens
<1>1. UNCHANGED <<root_dir, freeinode_ts, open_file_lock>> /\ pc[t] \notin Opens
  BY <1>0
     DEF CloseStart, WriteLock, AllocScan, LabelIndirect, ReadBody,
         AddScan, CopyOpened, DestroyEnter, DestroyRecheck, DestroyMutex,
         SpuriousWakeup, ReadStart, WriteStart, stateVars, fileVars, lockVars, Opens
<1>2. Moved(t) /\ pc'[t] \notin Opens
  BY CloseStartMoves, WriteLockMoves, WriteBlockMoves, AllocScanMoves,
     ReadBodyMoves, AddScanMoves, OtherMoves, DestroyMoves, ReadStartMoves,
     WriteStartMoves DEF DirInv, Opens
<1> QED
  BY <1>1, <1>2, DirAside DEF Moved

\* A close changes no name.
LEMMA CloseEndDir ==
    ASSUME DirInv, NEW t \in Threads, CloseEnd(t)
    PROVE  DirInv'
<1>1. UNCHANGED <<root_dir, freeinode_ts, open_file_lock>> /\ pc[t] = "close"
  BY DEF CloseEnd, fileVars
<1> QED
  BY <1>1, CloseEndMoves, DirAside DEF DirInv, Opens

\* No name changes, and no thread moves.
LEMMA UnchangedDir ==
    ASSUME DirInv, UNCHANGED <<stateVars, threadVars, lockVars>>
    PROVE  DirInv'
<1>1. UNCHANGED <<root_dir, freeinode_ts, open_file_lock, pc, arg>>
  BY DEF stateVars, fileVars, threadVars, lockVars
<1> QED
  BY <1>1, DirAside DEF DirInv, Shape

\* Every step keeps the invariant, as long as names are stored whole and no
\* piece of a write goes to block 0.
LEMMA NextDir ==
    ASSUME NamesWhole, RootSafe, DirInv, Next
    PROVE  DirInv'
BY NextCases, OpenStartDir, OpenExistingDir, CreateScanDir, OpenLinkDir, AsideDir,
   CloseEndDir, TfsInitDir, UnchangedDir

-----------------------------------------------------------------------------
(* The open file table. *)

\* The shape of the open file table.
EntryShape ==
    /\ open_file_table = [h \in Handles |-> open_file_table[h]]
    /\ \A h \in Handles :
          open_file_table[h] \in [of_inumber : {open_file_table[h].of_inumber},
                                  of_offset : {open_file_table[h].of_offset}]

\* The step of HandleKeepsFile.
SameFiles == \A h \in TakenEntries \cap TakenEntries' :
    open_file_table'[h].of_inumber = open_file_table[h].of_inumber

\* No step moves a taken entry to another file.
LEMMA NextEntries ==
    ASSUME EntryShape, Next
    PROVE  EntryShape' /\ SameFiles
<1>1. ASSUME UNCHANGED open_file_table
      PROVE  EntryShape' /\ SameFiles
  BY <1>1 DEF EntryShape, SameFiles
<1>2. ASSUME NEW h, NEW off,
             open_file_table' = [open_file_table EXCEPT ![h].of_offset = off]
      PROVE  EntryShape' /\ SameFiles
  BY <1>2 DEF EntryShape, SameFiles, TakenEntries
<1>3. ASSUME NEW h, NEW i, NEW off, free_open_file_entries[h] = FREE,
             open_file_table' = [open_file_table EXCEPT ![h] =
                                    [of_inumber |-> i, of_offset |-> off]]
      PROVE  EntryShape' /\ SameFiles
  BY <1>3 DEF EntryShape, SameFiles, TakenEntries, FREE, TAKEN
<1>4. ASSUME NEW t \in Threads, WriteBlock(t)
      PROVE  EntryShape' /\ SameFiles
  <2>1. \/ UNCHANGED open_file_table
        \/ \E h, off : open_file_table' = [open_file_table EXCEPT ![h].of_offset = off]
    BY <1>4 DEF WriteBlock
  <2> QED
    BY <1>1, <1>2, <2>1
<1>5. ASSUME NEW t \in Threads, ReadBody(t)
      PROVE  EntryShape' /\ SameFiles
  <2>1. \E h, off : open_file_table' = [open_file_table EXCEPT ![h].of_offset = off]
    BY <1>5 DEF ReadBody
  <2> QED
    BY <1>2, <2>1
<1>6. ASSUME NEW t \in Threads, AddScan(t)
      PROVE  EntryShape' /\ SameFiles
  BY <1>1, <1>3, <1>6 DEF AddScan, MayClaim, entryVars
<1>7. ASSUME NEW t \in Threads,
             \/ OpenStart(t) \/ OpenExisting(t) \/ CreateScan(t) \/ OpenLink(t)
             \/ CloseStart(t) \/ CloseEnd(t) \/ WriteLock(t)
             \/ AllocScan(t) \/ LabelIndirect(t)
             \/ CopyOpened(t) \/ DestroyEnter(t)
             \/ DestroyRecheck(t) \/ DestroyMutex(t) \/ SpuriousWakeup(t)
             \/ \E h \in Handles, len \in Lens \cup {BLOCK_SIZE} : ReadStart(t, h, len)
             \/ \E h \in Handles, len \in Lens : WriteStart(t, h, len)
      PROVE  UNCHANGED open_file_table
  BY <1>7 DEF OpenStart, OpenExisting, CreateScan, OpenLink, CloseStart, CloseEnd,
              WriteLock, AllocScan, LabelIndirect, CopyOpened, DestroyEnter,
              DestroyRecheck, DestroyMutex, SpuriousWakeup, ReadStart, WriteStart,
              stateVars, entryVars
<1>8. TfsInit => UNCHANGED open_file_table
  BY DEF TfsInit, StateReset
<1>9. UNCHANGED <<stateVars, threadVars, lockVars>> => UNCHANGED open_file_table
  BY DEF stateVars, entryVars
<1> QED
  BY <1>1, <1>4, <1>5, <1>6, <1>7, <1>8, <1>9, NextCases

\* A handle keeps standing for the file it was opened for until it is closed.
THEOREM HandleSafe == Spec => HandleKeepsFile
<1>1. Init => EntryShape
  BY DEF Init, StateInit, EntryShape
<1>2. EntryShape /\ [Next]_vars => EntryShape' /\ [SameFiles]_vars
  <2>1. EntryShape /\ UNCHANGED vars => EntryShape'
    BY DEF vars, stateVars, entryVars, EntryShape
  <2> QED
    BY <2>1, NextEntries
<1>3. Spec => [][SameFiles]_vars
  BY <1>1, <1>2, PTL DEF Spec
<1> QED
  BY <1>3 DEF HandleKeepsFile, SameFiles

-----------------------------------------------------------------------------
(* The number of open files. *)

\* The map of the open file table and the count.
EntryTypes ==
    /\ free_open_file_entries \in [Handles -> {FREE, TAKEN}]
    /\ open_files_count \in Int

\* A thread in a call that uses a handle uses one that is open.
Local(t) ==
    /\ pc[t] \in {"idle", "wait", "woken", "destroy"} => ~arg[t].copy
    /\ pc[t] \in {"opened", "copying", "closing"} => arg[t].copy
    /\ pc[t] = "found" => arg[t].scan = 0
    /\ pc[t] = "add" => arg[t].scan \in Handles
    /\ InHandleCall(t) => arg[t].fh \in TakenEntries

\* A thread that closes a handle, or copies from it, is its only user.
Alone(t) ==
    InHandleCall(t) /\ (pc[t] = "close" \/ arg[t].copy) =>
        \A u \in Threads \ {t} : InHandleCall(u) => arg[u].fh # arg[t].fh

\* OpenCountCovers made inductive.
HandleInv ==
    /\ Shape /\ EntryTypes /\ OpenCountCovers
    /\ \A t \in Threads : Local(t) /\ Alone(t)

\* The open file table is finite, so its entries can be counted.
LEMMA TakenFinite ==
    /\ IsFiniteSet(TakenEntries)
    /\ Cardinality(TakenEntries) \in Nat
<1>1. IsFiniteSet(Handles)
  BY FineSizesAssumption, FS_Interval DEF Handles
<1>2. TakenEntries \subseteq Handles
  BY DEF TakenEntries
<1> QED
  BY <1>1, <1>2, FS_Subset, FS_CardinalityType

\* No file is open at first.
LEMMA InitHandles == Init => HandleInv
<1> SUFFICES ASSUME Init PROVE HandleInv
  OBVIOUS
<1>1. Shape
  BY NoArgShape DEF Init, Shape, Pcs
<1>2. EntryTypes
  BY DEF Init, StateInit, EntryTypes
<1>3. TakenEntries = {}
  BY DEF Init, StateInit, TakenEntries, FREE, TAKEN
<1>4. OpenCountCovers
  BY <1>3, FS_EmptySet DEF Init, StateInit, OpenCountCovers
<1>5. \A t \in Threads : Local(t) /\ Alone(t)
  BY NoArgShape DEF Init, Local, Alone, InHandleCall
<1> QED
  BY <1>1, <1>2, <1>4, <1>5 DEF HandleInv

\* What thread t does leaves the table alone, and the other users of its handle
\* do not mind.
LEMMA HandlesKept ==
    ASSUME HandleInv, NEW t \in Threads, Moved(t),
           UNCHANGED <<free_open_file_entries, open_files_count>>,
           Local(t)', Alone(t)',
           InHandleCall(t)' => \A u \in Threads \ {t} :
               InHandleCall(u) /\ (pc[u] = "close" \/ arg[u].copy) =>
                   arg[u].fh # arg'[t].fh
    PROVE  HandleInv'
<1>1. TakenEntries' = TakenEntries
  BY DEF TakenEntries
<1>2. EntryTypes' /\ OpenCountCovers'
  BY <1>1 DEF HandleInv, EntryTypes, OpenCountCovers
<1>3. ASSUME NEW u \in Threads \ {t}
      PROVE  Local(u)' /\ Alone(u)'
  <2>1. pc'[u] = pc[u] /\ arg'[u] = arg[u]
    BY DEF Moved
  <2>2. Local(u)'
    BY <1>1, <2>1 DEF HandleInv, Local, InHandleCall
  <2>3. \A v \in Threads : InHandleCall(v)' => v = t \/ InHandleCall(v)
    BY DEF Moved, InHandleCall
  <2>4. Alone(u)'
    BY <2>1, <2>3 DEF HandleInv, Alone, InHandleCall, Moved
  <2> QED
    BY <2>2, <2>4
<1> QED
  BY <1>2, <1>3 DEF HandleInv, Moved

\* It uses no handle after the step.
LEMMA HandlesLeft ==
    ASSUME HandleInv, NEW t \in Threads, Moved(t),
           UNCHANGED <<free_open_file_entries, open_files_count>>,
           ~InHandleCall(t)', Local(t)'
    PROVE  HandleInv'
BY HandlesKept DEF Alone

\* It goes on using its handle.
LEMMA HandlesGoOn ==
    ASSUME HandleInv, NEW t \in Threads, Moved(t),
           UNCHANGED <<free_open_file_entries, open_files_count>>,
           InHandleCall(t),
           pc'[t] \in {"write", "alloc", "label", "read", "copying", "closing"},
           pc'[t] \in {"copying", "closing"} => arg[t].copy,
           arg'[t].fh = arg[t].fh, arg'[t].copy = arg[t].copy
    PROVE  HandleInv'
<1>1. TakenEntries' = TakenEntries
  BY DEF TakenEntries
<1>2. Local(t)'
  BY <1>1 DEF HandleInv, Local, InHandleCall
<1>3. Alone(t)'
  BY DEF HandleInv, Alone, InHandleCall, Moved
<1>4. \A u \in Threads \ {t} : InHandleCall(u) /\ (pc[u] = "close" \/ arg[u].copy) =>
          arg[u].fh # arg'[t].fh
  BY DEF HandleInv, Alone
<1> QED
  BY <1>2, <1>3, <1>4, HandlesKept

\* It starts to read or write.
LEMMA HandleUsed ==
    ASSUME HandleInv, NEW t \in Threads, NEW h, Moved(t), MayUse(h),
           UNCHANGED <<free_open_file_entries, open_files_count>>,
           pc'[t] \in {"lock", "read"}, arg'[t].fh = h, ~arg'[t].copy
    PROVE  HandleInv'
<1>1. TakenEntries' = TakenEntries
  BY DEF TakenEntries
<1>2. Local(t)'
  BY <1>1 DEF MayUse, Local
<1>3. Alone(t)'
  BY DEF Alone
<1>4. \A u \in Threads \ {t} : InHandleCall(u) /\ (pc[u] = "close" \/ arg[u].copy) =>
          arg[u].fh # arg'[t].fh
  BY DEF MayUse, UsersOf
<1> QED
  BY <1>2, <1>3, <1>4, HandlesKept

\* tfs_open before it comes to the open file table.
LEMMA OpeningHandles ==
    ASSUME HandleInv, NEW t \in Threads,
           OpenStart(t) \/ OpenExisting(t) \/ CreateScan(t) \/ OpenLink(t)
    PROVE  HandleInv'
<1>1. UNCHANGED <<free_open_file_entries, open_files_count>>
  BY DEF OpenStart, OpenExisting, CreateScan, OpenLink, stateVars, entryVars
<1>2. 0 \in Handles
  BY FineSizesAssumption DEF Handles
<1>3. OpenExisting(t) => arg[t].scan = 0
  BY DEF OpenExisting, HandleInv, Local
<1>4. /\ Moved(t)
      /\ \/ pc'[t] = "found" /\ arg'[t].scan = 0
         \/ pc'[t] \in {"create", "link"}
         \/ pc'[t] = "add" /\ arg'[t].scan = 0
         \/ pc'[t] = "idle" /\ ~arg'[t].copy
  BY <1>3, OpenStartMoves, OpenExistingMoves, CreateScanMoves, OpenLinkMoves DEF HandleInv
<1>5. Local(t)' /\ ~InHandleCall(t)'
  BY <1>2, <1>4 DEF Local, InHandleCall
<1> QED
  BY <1>1, <1>4, <1>5, HandlesLeft

\* The entry that is claimed was free, so nobody uses it yet.
LEMMA AddScanHandles ==
    ASSUME HandleInv, NEW t \in Threads, AddScan(t)
    PROVE  HandleInv'
<1> DEFINE h == arg[t].scan
<1>1. pc[t] = "add"
  BY DEF AddScan
<1>2. h \in Handles
  BY <1>1 DEF HandleInv, Local
<1>3. Moved(t)
  BY AddScanMoves DEF HandleInv
<1>4. CASE /\ UNCHANGED entryVars
           /\ \/ pc'[t] = "idle" /\ ~arg'[t].copy
              \/ pc'[t] = "add" /\ arg'[t].scan \in Handles
  <2>1. Local(t)' /\ ~InHandleCall(t)'
    BY <1>4 DEF Local, InHandleCall
  <2> QED
    BY <1>3, <1>4, <2>1, HandlesLeft DEF entryVars
<1>5. CASE /\ free_open_file_entries[h] = FREE
           /\ free_open_file_entries' = [free_open_file_entries EXCEPT ![h] = TAKEN]
           /\ open_files_count' = open_files_count + 1
           /\ \/ pc'[t] = "idle" /\ ~arg'[t].copy
              \/ pc'[t] = "opened" /\ arg'[t].copy /\ arg'[t].fh = h
  <2>1. h \notin TakenEntries
    BY <1>5 DEF TakenEntries, FREE, TAKEN
  <2>2. TakenEntries' = TakenEntries \cup {h}
    BY <1>2, <1>5 DEF HandleInv, EntryTypes, TakenEntries
  <2>3. Cardinality(TakenEntries') = Cardinality(TakenEntries) + 1
    BY <2>1, <2>2, TakenFinite, FS_AddElement
  <2>4. EntryTypes'
    BY <1>2, <1>5 DEF HandleInv, EntryTypes
  <2>5. OpenCountCovers'
    BY <1>5, <2>3, TakenFinite DEF HandleInv, EntryTypes, OpenCountCovers
  <2>6. \A u \in Threads \ {t} : InHandleCall(u) => arg[u].fh # h
    BY <2>1 DEF HandleInv, Local
  <2>7. Local(t)' /\ Alone(t)'
    BY <1>3, <1>5, <2>2, <2>6 DEF Local, Alone, InHandleCall, Moved
  <2>8. ASSUME NEW u \in Threads \ {t}
        PROVE  Local(u)' /\ Alone(u)'
    <3>1. pc'[u] = pc[u] /\ arg'[u] = arg[u]
      BY <1>3 DEF Moved
    <3>2. Local(u)'
      BY <2>2, <3>1 DEF HandleInv, Local, InHandleCall
    <3>3. \A v \in Threads : InHandleCall(v)' => v = t \/ InHandleCall(v)
      BY <1>3 DEF Moved, InHandleCall
    <3>4. InHandleCall(u)' => arg'[u].fh # h
      BY <2>6, <3>1 DEF InHandleCall
    <3>5. InHandleCall(t)' => arg'[t].fh = h
      BY <1>5 DEF InHandleCall
    <3>6. Alone(u)'
      BY <1>3, <3>1, <3>3, <3>4, <3>5 DEF HandleInv, Alone, InHandleCall, Moved
    <3> QED
      BY <3>2, <3>6
  <2> QED
    BY <1>3, <2>4, <2>5, <2>7, <2>8 DEF HandleInv, Moved
<1> QED
  BY <1>4, <1>5, AddScanMoves DEF HandleInv

\* The thread that closes is the only user of its handle.
LEMMA CloseStartHandles ==
    ASSUME ~SharedClose, HandleInv, NEW t \in Threads, CloseStart(t)
    PROVE  HandleInv'
<1>1. /\ pc[t] \in {"idle", "closing"}
      /\ UNCHANGED <<free_open_file_entries, open_files_count>>
  BY DEF CloseStart, stateVars, entryVars
<1>2. /\ Moved(t) /\ pc'[t] = "close" /\ arg'[t].fh \in Handles
      /\ IF pc[t] = "closing" THEN arg'[t].fh = arg[t].fh ELSE MayClose(arg'[t].fh)
      /\ free_open_file_entries[arg'[t].fh] = TAKEN
  BY CloseStartMoves DEF HandleInv
<1>3. Local(t)'
  BY <1>1, <1>2 DEF Local, TakenEntries
<1>4. \A u \in Threads \ {t} : InHandleCall(u) => arg[u].fh # arg'[t].fh
  BY <1>1, <1>2 DEF HandleInv, Local, Alone, InHandleCall, MayClose, UsersOf
<1>5. Alone(t)'
  BY <1>2, <1>4 DEF Alone, InHandleCall, Moved
<1> QED
  BY <1>1, <1>2, <1>3, <1>4, <1>5, HandlesKept

\* The entry given back was taken, and nobody else used it.
LEMMA CloseEndHandles ==
    ASSUME HandleInv, NEW t \in Threads, CloseEnd(t)
    PROVE  HandleInv'
<1> DEFINE h == arg[t].fh
<1>1. /\ pc[t] = "close"
      /\ open_files_count' = open_files_count - 1
      /\ free_open_file_entries' = [free_open_file_entries EXCEPT ![h] = FREE]
  BY DEF CloseEnd
<1>2. /\ Shape'
      /\ pc'[t] = "idle" /\ ~arg'[t].copy
      /\ \A u \in Threads \ {t} :
            /\ arg'[u] = arg[u]
            /\ pc'[u] = pc[u] \/ (pc[u] = "wait" /\ pc'[u] = "woken")
  BY CloseEndMoves DEF HandleInv
<1>3. h \in TakenEntries
  BY <1>1 DEF HandleInv, Local, InHandleCall
<1>4. TakenEntries' = TakenEntries \ {h}
  BY <1>1, <1>3 DEF HandleInv, EntryTypes, TakenEntries, FREE, TAKEN
<1>5. Cardinality(TakenEntries') = Cardinality(TakenEntries) - 1
  BY <1>3, <1>4, TakenFinite, FS_RemoveElement
<1>6. EntryTypes' /\ OpenCountCovers'
  BY <1>1, <1>3, <1>5, TakenFinite DEF HandleInv, EntryTypes, OpenCountCovers, TakenEntries
<1>7. \A u \in Threads \ {t} : InHandleCall(u) => arg[u].fh # h
  BY <1>1 DEF HandleInv, Alone, InHandleCall
<1>8. Local(t)' /\ Alone(t)'
  BY <1>2 DEF Local, Alone, InHandleCall
<1>9. \A u \in Threads : InHandleCall(u)' => u # t /\ InHandleCall(u) /\ pc'[u] = pc[u]
  BY <1>2 DEF InHandleCall
<1>10. ASSUME NEW u \in Threads \ {t}
       PROVE  Local(u)' /\ Alone(u)'
  <2>1. Local(u) /\ Alone(u)
    BY DEF HandleInv
  <2>2. InHandleCall(u)' => arg'[u].fh \in TakenEntries'
    BY <1>2, <1>4, <1>7, <1>9, <2>1 DEF Local
  <2>3. Local(u)'
    BY <1>2, <2>1, <2>2 DEF Local
  <2>4. Alone(u)'
    BY <1>2, <1>9, <2>1 DEF Alone
  <2> QED
    BY <2>3, <2>4
<1> QED
  BY <1>2, <1>6, <1>8, <1>10 DEF HandleInv

\* tfs_write goes on, or leaves its handle.
LEMMA WritingHandles ==
    ASSUME HandleInv, NEW t \in Threads,
           WriteLock(t) \/ WriteBlock(t) \/ AllocScan(t) \/ LabelIndirect(t)
    PROVE  HandleInv'
<1>1. /\ UNCHANGED <<free_open_file_entries, open_files_count>>
      /\ InHandleCall(t)
  BY DEF WriteLock, WriteBlock, AllocScan, LabelIndirect, stateVars, entryVars,
         InHandleCall
<1>2. /\ Moved(t)
      /\ \/ pc'[t] \in {"write", "alloc", "label"} /\ GoesOn(t)
         \/ pc'[t] = "idle" /\ ~arg'[t].copy
  BY WriteLockMoves, WriteBlockMoves, AllocScanMoves, OtherMoves DEF HandleInv
<1>3. CASE pc'[t] \in {"write", "alloc", "label"} /\ GoesOn(t)
  BY <1>1, <1>2, <1>3, HandlesGoOn DEF GoesOn
<1>4. CASE pc'[t] = "idle" /\ ~arg'[t].copy
  BY <1>1, <1>2, <1>4, HandlesLeft DEF Local, InHandleCall
<1> QED
  BY <1>2, <1>3, <1>4

\* tfs_write is called with a handle that is open.
LEMMA WriteStartHandles ==
    ASSUME HandleInv, NEW t \in Threads, NEW h, NEW len, WriteStart(t, h, len)
    PROVE  HandleInv'
<1>1. UNCHANGED <<free_open_file_entries, open_files_count>> /\ MayUse(h)
  BY DEF WriteStart, stateVars, entryVars
<1> QED
  BY <1>1, WriteStartMoves, HandleUsed DEF HandleInv

\* So is tfs_read.
LEMMA ReadStartHandles ==
    ASSUME HandleInv, NEW t \in Threads, NEW h, NEW len, ReadStart(t, h, len)
    PROVE  HandleInv'
<1>1. /\ UNCHANGED <<free_open_file_entries, open_files_count>>
      /\ \/ pc[t] = "idle" /\ MayUse(h)
         \/ pc[t] = "copying" /\ h = arg[t].fh
  BY DEF ReadStart, stateVars, entryVars
<1>2. Moved(t) /\ pc'[t] = "read" /\ arg'[t].fh = h /\ arg'[t].copy = arg[t].copy
  BY ReadStartMoves DEF HandleInv
<1>3. CASE pc[t] = "idle" /\ MayUse(h)
  <2>1. ~arg[t].copy
    BY <1>3 DEF HandleInv, Local
  <2> QED
    BY <1>1, <1>2, <1>3, <2>1, HandleUsed
<1>4. CASE pc[t] = "copying" /\ h = arg[t].fh
  BY <1>1, <1>2, <1>4, HandlesGoOn DEF InHandleCall
<1> QED
  BY <1>1, <1>3, <1>4

\* tfs_read and tfs_copy_to_external_fs go on, or leave the handle.
LEMMA ReadBodyHandles ==
    ASSUME HandleInv, NEW t \in Threads, ReadBody(t) \/ CopyOpened(t)
    PROVE  HandleInv'
<1>1. /\ UNCHANGED <<free_open_file_entries, open_files_count>>
      /\ pc[t] \in {"read", "opened"}
  BY DEF ReadBody, CopyOpened, stateVars, entryVars
<1>2. pc[t] = "opened" => arg[t].copy
  BY DEF HandleInv, Local
<1>3. /\ Moved(t)
      /\ \/ pc'[t] \in {"copying", "closing"} /\ GoesOn(t) /\ arg[t].copy
         \/ pc'[t] = "idle" /\ ~arg'[t].copy
  BY <1>2, ReadBodyMoves, OtherMoves DEF HandleInv, CopyOpened
<1>4. CASE pc'[t] \in {"copying", "closing"} /\ GoesOn(t) /\ arg[t].copy
  BY <1>1, <1>3, <1>4, HandlesGoOn DEF GoesOn, InHandleCall
<1>5. CASE pc'[t] = "idle" /\ ~arg'[t].copy
  BY <1>1, <1>3, <1>5, HandlesLeft DEF Local, InHandleCall
<1> QED
  BY <1>3, <1>4, <1>5

\* A thread that destroys uses no handle.
LEMMA DestroyHandles ==
    ASSUME HandleInv, NEW t \in Threads,
           DestroyEnter(t) \/ DestroyRecheck(t) \/ DestroyMutex(t) \/ SpuriousWakeup(t)
    PROVE  HandleInv'
<1>1. /\ UNCHANGED <<free_open_file_entries, open_files_count>>
      /\ pc[t] \in {"idle", "woken", "destroy", "wait"}
  BY DEF DestroyEnter, DestroyRecheck, DestroyMutex, SpuriousWakeup, stateVars, entryVars
<1>2. Moved(t) /\ GoesOn(t) /\ pc'[t] \in {"idle", "woken", "destroy", "wait"}
  BY OtherMoves, DestroyMoves DEF HandleInv
<1>3. ~arg'[t].copy
  BY <1>1, <1>2 DEF HandleInv, Local, GoesOn
<1> QED
  BY <1>1, <1>2, <1>3, HandlesLeft DEF Local, InHandleCall

\* tfs_init frees the entries and keeps the count.
LEMMA TfsInitHandles ==
    ASSUME HandleInv, TfsInit
    PROVE  HandleInv'
<1>1. /\ UNCHANGED threadVars /\ \A t \in Threads : pc[t] = "idle"
      /\ free_open_file_entries' = [h \in Handles |-> FREE]
      /\ UNCHANGED open_files_count
  BY DEF TfsInit, StateReset
<1>2. TakenEntries' = {}
  BY <1>1 DEF TakenEntries, FREE, TAKEN
<1>3. EntryTypes'
  BY <1>1 DEF HandleInv, EntryTypes
<1>4. OpenCountCovers'
  BY <1>1, <1>2, TakenFinite, FS_EmptySet DEF HandleInv, EntryTypes, OpenCountCovers
<1>5. \A t \in Threads : Local(t)' /\ Alone(t)'
  BY <1>1 DEF threadVars, HandleInv, Local, Alone, InHandleCall
<1> QED
  BY <1>1, <1>3, <1>4, <1>5, InitAgainShape DEF HandleInv

\* No entry changes, and no thread moves.
LEMMA UnchangedHandles ==
    ASSUME HandleInv, UNCHANGED <<stateVars, threadVars, lockVars>>
    PROVE  HandleInv'
<1>1. UNCHANGED <<free_open_file_entries, open_files_count, pc, arg>>
  BY DEF stateVars, entryVars, threadVars
<1> QED
  BY <1>1 DEF HandleInv, Shape, EntryTypes, OpenCountCovers, TakenEntries, Local,
              Alone, InHandleCall

\* Every step keeps the invariant, unless a handle is closed twice at once.
LEMMA NextHandles ==
    ASSUME ~SharedClose, HandleInv, Next
    PROVE  HandleInv'
BY NextCases, OpeningHandles, AddScanHandles, CloseStartHandles, CloseEndHandles,
   WritingHandles, WriteStartHandles, ReadStartHandles, ReadBodyHandles,
   DestroyHandles, TfsInitHandles, UnchangedHandles

\* A thread that begins to destroy has found the count at 0.
LEMMA BeginsToDestroy ==
    ASSUME HandleInv, Next, NEW d \in Threads, pc[d] # "destroy", pc'[d] = "destroy"
    PROVE  open_files_count = 0
<1>1. ASSUME NEW t \in Threads,
             \/ OpenStart(t)
             \/ OpenExisting(t) \/ CreateScan(t) \/ OpenLink(t)
             \/ CloseStart(t) \/ WriteLock(t)
             \/ WriteBlock(t) \/ AllocScan(t) \/ LabelIndirect(t)
             \/ ReadBody(t) \/ AddScan(t) \/ CopyOpened(t)
             \/ SpuriousWakeup(t)
             \/ \E h \in Handles, len \in Lens \cup {BLOCK_SIZE} : ReadStart(t, h, len)
             \/ \E h \in Handles, len \in Lens : WriteStart(t, h, len)
      PROVE  FALSE
  <2>1. Moved(t) /\ pc'[t] # "destroy"
    BY <1>1, OpenStartMoves, OpenExistingMoves, CreateScanMoves, OpenLinkMoves,
       CloseStartMoves, WriteLockMoves, WriteBlockMoves, AllocScanMoves,
       ReadBodyMoves, AddScanMoves, OtherMoves, ReadStartMoves, WriteStartMoves
       DEF HandleInv
  <2> QED
    BY <2>1 DEF Moved
<1>2. ASSUME NEW t \in Threads, CloseEnd(t)
      PROVE  FALSE
  BY <1>2, CloseEndMoves DEF HandleInv
<1>3. ASSUME NEW t \in Threads, DestroyMutex(t)
      PROVE  FALSE
  BY <1>3, OtherMoves DEF HandleInv, Moved, DestroyMutex
<1>4. ASSUME NEW t \in Threads, DestroyEnter(t) \/ DestroyRecheck(t)
      PROVE  open_files_count = 0
  BY <1>4, DestroyMoves DEF HandleInv, Moved
<1>5. ~UNCHANGED <<stateVars, threadVars, lockVars>> /\ ~TfsInit
  BY DEF threadVars, TfsInit
<1> QED
  BY <1>1, <1>2, <1>3, <1>4, <1>5, NextCases

\* No thread begins to destroy while a file is open.
NoneOpenAtDestroy == \A t \in Threads :
    pc[t] # "destroy" /\ pc'[t] = "destroy" => TakenEntries = {}

\* A count of 0 means that no entry is taken.
LEMMA NextDestroy ==
    ASSUME HandleInv, Next
    PROVE  NoneOpenAtDestroy
<1> SUFFICES ASSUME NEW t \in Threads, pc[t] # "destroy", pc'[t] = "destroy"
             PROVE  TakenEntries = {}
  BY DEF NoneOpenAtDestroy
<1>1. open_files_count = 0
  BY BeginsToDestroy
<1>2. Cardinality(TakenEntries) = 0
  BY <1>1, TakenFinite DEF HandleInv, OpenCountCovers
<1> QED
  BY <1>2, TakenFinite, FS_EmptySet

\* The invariant is inductive.
LEMMA HandlesInductive ==
    ASSUME ~SharedClose
    PROVE  HandleInv /\ [Next]_vars => HandleInv'
<1>1. HandleInv /\ UNCHANGED vars => HandleInv'
  BY UnchangedHandles DEF vars
<1> QED
  BY <1>1, NextHandles

\* open_files_count never falls below the number of open files, for any number
\* of threads and handles, unless a handle is closed by two threads at once.
THEOREM CountCovers ==
    ASSUME ~SharedClose
    PROVE  Spec => []OpenCountCovers
<1>1. HandleInv => OpenCountCovers
  BY DEF HandleInv
<1> QED
  BY <1>1, InitHandles, HandlesInductive, PTL DEF Spec

\* Nor does state_destroy begin while a file is open, although opens go on
\* while a thread waits in tfs_destroy_after_all_closed.
THEOREM DestroySafe ==
    ASSUME ~SharedClose
    PROVE  Spec => DestroyOnlyWhenNoneOpen
<1>1. HandleInv /\ [Next]_vars => [NoneOpenAtDestroy]_vars
  BY NextDestroy
<1>2. Spec => [][NoneOpenAtDestroy]_vars
  BY <1>1, InitHandles, HandlesInductive, PTL DEF Spec
<1> QED
  BY <1>2 DEF DestroyOnlyWhenNoneOpen, NoneOpenAtDestroy
=============================================================================
