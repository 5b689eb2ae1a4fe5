-------------------------- MODULE FineFilesProofs --------------------------
(***************************************************************************)
(* Proof that the earlier library implements FineFiles while no write      *)
(* leaves the direct blocks of its file, past which the labelling of an    *)
(* indirect block overwrites other files (see ChangedUnderLock), and for   *)
(* callers that are Disciplined.                                           *)
(***************************************************************************)
EXTENDS FineReadsProofs

\* Every write stays in the direct blocks of its file.
WritesDirect == \A t \in Threads : pc[t] \in Writing => arg[t].blk \in Direct

-----------------------------------------------------------------------------
(* The invariant. *)

\* What callers and constants are asked for: no truncation stops half-way either.
Disciplined == Careful /\ ~HalfTrunc

\* A thread asks for a block that is not there, and for no indirect block,
Wanted(t) ==
    /\ pc[t] # "label"
    /\ pc[t] = "alloc" /\ arg[t].blk \in Direct =>
          inode_table[arg[t].inum].i_data_block[arg[t].blk] = -1

\* and has something left to write.
Lengths(t) ==
    /\ pc[t] \in {"lock", "read"} => arg[t].left \in Lens \cup {BLOCK_SIZE}
    /\ pc[t] \in Writing => arg[t].left # 0

\* A thread that creates a file was told to, and the file is empty.
Made(t) ==
    /\ pc[t] \in {"create", "link"} => "CREAT" \in arg[t].flags
    /\ pc[t] = "link" => inode_table[arg[t].inum].i_size = 0

\* What is known of a thread besides Step and Held.
Care(t) == Wanted(t) /\ Lengths(t) /\ Made(t)

\* The invariant of files that fit in their direct blocks, when callers and
\* constants are as asked for.
CareInv ==
    /\ Disciplined
    /\ SizesInv /\ NumbersInv /\ HeldInv /\ FilesDirect
    /\ \A t \in Threads : Care(t)

-----------------------------------------------------------------------------
(* Steps and the invariant. *)

\* Nothing is asked of a thread that is elsewhere.
LEMMA CareElsewhere ==
    ASSUME NEW t \in Threads,
           pc'[t] \notin Writing \cup {"lock", "read", "create", "link"}
    PROVE  Care(t)'
BY DEF Care, Wanted, Lengths, Made, Writing

\* A thread that does not move, while its file is left alone.
LEMMA CareOther ==
    ASSUME CareInv, NEW u \in Threads, arg'[u] = arg[u],
           pc'[u] = pc[u] \/ pc'[u] = "woken",
           pc[u] = "alloc" => inode_table'[arg[u].inum].i_data_block =
                              inode_table[arg[u].inum].i_data_block,
           pc[u] = "link" => inode_table'[arg[u].inum].i_size =
                             inode_table[arg[u].inum].i_size
    PROVE  Care(u)'
<1>1. Care(u)
  BY DEF CareInv
<1>2. CASE pc'[u] = "woken"
  BY <1>2, CareElsewhere DEF Writing
<1>3. CASE pc'[u] = pc[u]
  BY <1>1, <1>3 DEF Care, Wanted, Lengths, Made, Writing
<1>. QED  BY <1>2, <1>3

\* A thread moves, and no file changes.
LEMMA CareQuiet ==
    ASSUME CareInv, SizesInv', NumbersInv', HeldInv', NEW t \in Threads,
           \A u \in Threads \ {t} :
              arg'[u] = arg[u] /\ (pc'[u] = pc[u] \/ pc'[u] = "woken"),
           UNCHANGED inode_table, Files' \subseteq Files,
           Care(t)'
    PROVE  CareInv'
<1>1. FilesDirect'
  BY DEF CareInv, FilesDirect
<1>2. ASSUME NEW u \in Threads \ {t} PROVE Care(u)'
  BY CareOther
<1>. QED  BY <1>1, <1>2 DEF CareInv, Disciplined

\* A thread changes the i-node of a file that nobody else writes or creates.
LEMMA CareOne ==
    ASSUME CareInv, SizesInv', NumbersInv', HeldInv', NEW t \in Threads, Moved(t),
           NEW i \in Inums, \A j \in Inums \ {i} : inode_table'[j] = inode_table[j],
           Files' \subseteq Files \cup {i},
           inode_table'[i].i_size <= BLOCK_SIZE * MAX_DIRECT_BLOCKS,
           \A u \in Threads \ {t} : pc[u] \in {"alloc", "link"} =>
              arg[u].inum # i \/ inode_table'[i] = inode_table[i],
           Care(t)'
    PROVE  CareInv'
<1>1. FilesDirect'
  BY DEF CareInv, FilesDirect, Files
<1>2. ASSUME NEW u \in Threads \ {t} PROVE Care(u)'
  <2>1. arg'[u] = arg[u] /\ pc'[u] = pc[u] /\ arg[u].inum \in Inums
    BY SizesFacts DEF Moved, CareInv, Locals
  <2>2. pc[u] \in {"alloc", "link"} => inode_table'[arg[u].inum] = inode_table[arg[u].inum]
    BY <2>1
  <2>. QED  BY <2>1, <2>2, CareOther
<1>. QED  BY <1>1, <1>2 DEF CareInv

\* The invariant of all files, and no write past the blocks of one.
LEMMA CareFiles ==
    ASSUME CareInv, WritesDirect
    PROVE  FilesInv /\ WritesWithin
<1>1. PICK d \in Nat : d = BLOCK_SIZE \div INT_SIZE
  BY Sizes, DivMod
<1>2. Direct \subseteq BlockIndices
  BY <1>1, Sizes DEF Direct, BlockIndices
<1>. QED  BY <1>2 DEF CareInv, FilesInv, WritesDirect, WritesWithin

\* The files of two writers are two.
LEMMA WritersApart ==
    ASSUME CareInv, NEW t \in Threads, NEW u \in Threads \ {t},
           pc[t] \in Writing, pc[u] \in Writing
    PROVE  arg[u].inum # arg[t].inum
BY DEF CareInv, HeldInv, Held

\* A writer's file is linked, and one being linked is not.
LEMMA WriterLinked ==
    ASSUME CareInv, NEW t \in Threads, NEW u \in Threads, pc[t] \in Busy, pc[u] = "link"
    PROVE  arg[u].inum # arg[t].inum
<1>1. Linked(arg[t].inum)
  BY WriterFacts DEF CareInv, EntryFits
<1>2. ~Linked(arg[u].inum)
  BY SizesFacts DEF CareInv, DirInv, Creating, Linked
<1>. QED  BY <1>1, <1>2

\* OpenStart keeps the invariant.
LEMMA OpenStartCare ==
    ASSUME CareInv, SizesInv', NumbersInv', HeldInv', NEW t \in Threads, OpenStart(t)
    PROVE  CareInv'
<1>0. Shape
  BY SizesFacts DEF CareInv
<1>1. Moved(t) /\ pc'[t] \in {"found", "create"}
  BY <1>0, OpenStartMoves
<1>2. UNCHANGED <<inode_table, inode_lock, freeinode_ts>>
  BY DEF OpenStart, stateVars, fileVars
<1>3. PICK n \in Names, flags \in FlagSets \cup {{}}, copy \in BOOLEAN :
          LET call == [NoArg EXCEPT !.name = n, !.flags = flags, !.copy = copy] IN
          \/ \E s \in DirSlots : Goes(t, "found", [call EXCEPT !.inum = root_dir[s].d_inumber])
          \/ "CREAT" \in flags /\ Goes(t, "create", call)
  BY DEF OpenStart
<1>4. pc'[t] = "create" => "CREAT" \in arg'[t].flags
  <2>. DEFINE call == [NoArg EXCEPT !.name = n, !.flags = flags, !.copy = copy]
  <2>1. call.flags = flags
    BY DEF NoArg
  <2>2. \/ \E s \in DirSlots : Goes(t, "found", [call EXCEPT !.inum = root_dir[s].d_inumber])
        \/ "CREAT" \in flags /\ Goes(t, "create", call)
    BY <1>3
  <2>. HIDE DEF call
  <2>. QED  BY <1>0, <2>1, <2>2 DEF Goes, Shape
<1>5. Care(t)'
  BY <1>1, <1>4 DEF Care, Wanted, Lengths, Made, Writing
<1>6. Files' = Files
  BY <1>2 DEF Files
<1>. QED  BY <1>1, <1>2, <1>5, <1>6, CareQuiet DEF Moved

\* OpenExisting keeps the invariant.
LEMMA OpenExistingCare ==
    ASSUME CareInv, SizesInv', NumbersInv', HeldInv', NEW t \in Threads, OpenExisting(t)
    PROVE  CareInv'
<1>0. /\ Shape /\ DirInv /\ TypesInv /\ pc[t] = "found" /\ Step(t)
      /\ arg[t].inum \in Inums
      /\ \A i \in Inums : inode_table[i].i_size \in Nat
  BY SizesFacts DEF OpenExisting, Locals, CareInv, SizesInv
<1>1. PICK i \in Inums : i = arg[t].inum
  BY <1>0
<1>2. Moved(t) /\ pc'[t] \in {"idle", "add"}
  BY <1>0, OpenExistingMoves
<1>3. UNCHANGED <<freeinode_ts, inode_lock>> /\ Files' = Files
  BY DEF OpenExisting, Files
<1>4. Care(t)'
  BY <1>2, CareElsewhere DEF Writing
<1>5. CASE UNCHANGED inode_table
  BY <1>2, <1>3, <1>4, <1>5, CareQuiet DEF Moved
<1>6. CASE ~UNCHANGED inode_table
  <2>1. "TRUNC" \in arg[t].flags /\ TruncatedInode(i)
    BY <1>1, <1>6 DEF OpenExisting
  <2>2. ~TruncFails(i) /\ Unopened(i)
    BY <1>0, <1>1, <2>1 DEF Step, Truncates, CareInv, Disciplined
  <2>3. /\ \A j \in Inums \ {i} : inode_table'[j] = inode_table[j]
        /\ inode_table'[i].i_size = 0
    BY <1>0, <2>1, <2>2, TruncatedOthers, TruncatedType
  <2>4. 0 <= BLOCK_SIZE * MAX_DIRECT_BLOCKS
    <3>1. BLOCK_SIZE * MAX_DIRECT_BLOCKS \in Nat
      BY Sizes, TimesNat
    <3>. QED  BY <3>1
  <2>5. ASSUME NEW u \in Threads \ {t}, pc[u] \in {"alloc", "link"} PROVE arg[u].inum # i
    <3>1. pc[u] # "link"
      BY <1>0, OthersOutside DEF Opens
    <3>2. pc[u] \in Busy
      BY <2>5, <3>1 DEF Busy
    <3>3. /\ arg[u].fh \in TakenEntries
          /\ open_file_table[arg[u].fh].of_inumber = arg[u].inum
      BY <3>2, BusyTaken, WriterFacts DEF CareInv
    <3>. QED  BY <2>2, <3>3 DEF Unopened
  <2>. QED  BY <1>2, <1>3, <1>4, <2>3, <2>4, <2>5, CareOne
<1>. QED  BY <1>5, <1>6

\* CreateScan keeps the invariant.
LEMMA CreateScanCare ==
    ASSUME CareInv, SizesInv', NumbersInv', HeldInv', NEW t \in Threads, CreateScan(t)
    PROVE  CareInv'
<1>0. /\ Shape /\ DirInv /\ TypesInv /\ pc[t] = "create" /\ IsArg(arg[t])
      /\ "CREAT" \in arg[t].flags /\ inode_table \in [Inums -> Inode]
  BY SizesFacts DEF CreateScan, CareInv, Care, Made
<1>1. Moved(t)
  BY <1>0, CreateScanMoves
<1>2. UNCHANGED inode_lock
  BY DEF CreateScan
<1>3. /\ pc'[t] \in {"idle", "create", "link"}
      /\ pc'[t] # "idle" => "CREAT" \in arg'[t].flags
      /\ pc'[t] = "link" => arg'[t].inum = arg[t].scan
  BY <1>0 DEF CreateScan, Goes, Return, Shape, IsArg
<1>4. pc'[t] = "link" => inode_table' = [inode_table EXCEPT ![arg[t].scan] = EmptyInode]
  BY <1>0 DEF CreateScan, Goes, Return, Shape
<1>5. arg[t].scan \in Inums
  BY <1>0 DEF DirInv, Creating
<1>6. EmptyInode.i_size = 0
  BY DEF EmptyInode
<1>7. Care(t)'
  <2>1. pc'[t] = "link" => inode_table'[arg'[t].inum].i_size = 0
    BY <1>0, <1>3, <1>4, <1>5, <1>6
  <2>. QED  BY <1>3, <2>1 DEF Care, Wanted, Lengths, Made, Writing
<1>8. CASE UNCHANGED <<inode_table, freeinode_ts>>
  <2>1. Files' = Files
    BY <1>8 DEF Files
  <2>. QED  BY <1>1, <1>2, <1>7, <1>8, <2>1, CareQuiet DEF Moved
<1>9. CASE ~UNCHANGED <<inode_table, freeinode_ts>>
  <2>1. PICK i \in Inums : /\ i = arg[t].scan /\ freeinode_ts[i] = FREE
                           /\ freeinode_ts' = [freeinode_ts EXCEPT ![i] = TAKEN]
                           /\ inode_table' = [inode_table EXCEPT ![i] = EmptyInode]
    BY <1>0, <1>9 DEF CreateScan, DirInv, Creating
  <2>2. i \notin Files
    BY <2>1 DEF Files, FREE, TAKEN
  <2>3. /\ \A j \in Inums \ {i} : inode_table'[j] = inode_table[j]
        /\ inode_table'[i].i_size = 0
    BY <1>0, <1>6, <2>1
  <2>4. Files' \subseteq Files \cup {i}
    BY <1>0, <2>1 DEF Files, DirInv, DirTypes
  <2>5. 0 <= BLOCK_SIZE * MAX_DIRECT_BLOCKS
    <3>1. BLOCK_SIZE * MAX_DIRECT_BLOCKS \in Nat
      BY Sizes, TimesNat
    <3>. QED  BY <3>1
  <2>6. ASSUME NEW u \in Threads \ {t}, pc[u] \in {"alloc", "link"} PROVE arg[u].inum # i
    <3>1. pc[u] # "link"
      BY <1>0, OthersOutside DEF Opens
    <3>2. arg[u].inum \in Files
      BY <2>6, <3>1, WriterFacts DEF Busy, CareInv
    <3>. QED  BY <2>2, <3>2
  <2>. QED  BY <1>1, <1>7, <2>3, <2>4, <2>5, <2>6, CareOne
<1>. QED  BY <1>8, <1>9

\* The steps that change neither a file nor the lock of one.
LEMMA AsideCare ==
    ASSUME CareInv, SizesInv', NumbersInv', HeldInv', NEW t \in Threads,
           \/ OpenLink(t) \/ AddScan(t) \/ CloseStart(t) \/ CloseEnd(t) \/ ReadBody(t)
           \/ CopyOpened(t) \/ DestroyEnter(t) \/ DestroyRecheck(t)
           \/ DestroyMutex(t) \/ SpuriousWakeup(t)
    PROVE  CareInv'
<1>0. Shape
  BY SizesFacts DEF CareInv
<1>1. \A u \in Threads \ {t} :
          arg'[u] = arg[u] /\ (pc'[u] = pc[u] \/ pc'[u] = "woken")
  <2>1. CASE CloseEnd(t)
    BY <1>0, <2>1, CloseEndMoves
  <2>2. CASE ~CloseEnd(t)
    <3>1. Moved(t)
      BY <1>0, <2>2, OpenLinkMoves, AddScanMoves, CloseStartMoves, ReadBodyMoves,
         OtherMoves, DestroyMoves
    <3>. QED  BY <3>1 DEF Moved
  <2>. QED  BY <2>1, <2>2
<1>2. pc'[t] \notin Writing \cup {"lock", "read", "create", "link"}
  BY <1>0, OpenLinkMoves, AddScanMoves, CloseStartMoves, CloseEndMoves, ReadBodyMoves,
     OtherMoves, DestroyMoves DEF Writing
<1>3. UNCHANGED <<inode_table, inode_lock>> /\ Files' \subseteq Files
  <2>1. CASE OpenLink(t)
    <3>1. /\ UNCHANGED <<inode_table, inode_lock>>
          /\ \/ UNCHANGED freeinode_ts
             \/ freeinode_ts' = [freeinode_ts EXCEPT ![arg[t].inum] = FREE]
      BY <2>1 DEF OpenLink
    <3>2. freeinode_ts \in [Inums -> {FREE, TAKEN}]
      BY SizesFacts DEF CareInv, DirInv, DirTypes
    <3>. QED  BY <3>1, <3>2 DEF Files, FREE, TAKEN
  <2>2. CASE ~OpenLink(t)
    <3>1. UNCHANGED <<inode_table, inode_lock, freeinode_ts>>
      BY <2>2 DEF AddScan, CloseStart, CloseEnd, ReadBody, CopyOpened, DestroyEnter,
            DestroyRecheck, DestroyMutex, SpuriousWakeup, stateVars, fileVars, lockVars
    <3>. QED  BY <3>1 DEF Files
  <2>. QED  BY <2>1, <2>2
<1>4. Care(t)'
  BY <1>2, CareElsewhere
<1>. QED  BY <1>1, <1>3, <1>4, CareQuiet

\* WriteStart keeps the invariant.
LEMMA WriteStartCare ==
    ASSUME CareInv, SizesInv', NumbersInv', HeldInv', NEW t \in Threads,
           NEW h \in Handles, NEW len \in Lens, WriteStart(t, h, len)
    PROVE  CareInv'
<1>0. Shape
  BY SizesFacts DEF CareInv
<1>1. Moved(t) /\ pc'[t] = "lock" /\ arg'[t].left = len
  BY <1>0, WriteStartMoves
<1>2. UNCHANGED <<inode_table, inode_lock, freeinode_ts>>
  BY DEF WriteStart, stateVars, fileVars
<1>3. Care(t)'
  BY <1>1 DEF Care, Wanted, Lengths, Made, Writing
<1>4. Files' = Files
  BY <1>2 DEF Files
<1>. QED  BY <1>1, <1>2, <1>3, <1>4, CareQuiet DEF Moved

\* ReadStart keeps the invariant.
LEMMA ReadStartCare ==
    ASSUME CareInv, SizesInv', NumbersInv', HeldInv', NEW t \in Threads,
           NEW h \in Handles, NEW len \in Lens \cup {BLOCK_SIZE}, ReadStart(t, h, len)
    PROVE  CareInv'
<1>0. Shape /\ IsArg(arg[t])
  BY SizesFacts DEF CareInv
<1>1. Moved(t) /\ pc'[t] = "read"
  BY <1>0, ReadStartMoves
<1>2. arg'[t].left = len
  BY <1>0 DEF ReadStart, Goes, Shape, IsArg
<1>3. UNCHANGED <<inode_table, inode_lock, freeinode_ts>>
  BY DEF ReadStart, stateVars, fileVars
<1>4. Care(t)'
  BY <1>1, <1>2 DEF Care, Wanted, Lengths, Made, Writing
<1>5. Files' = Files
  BY <1>3 DEF Files
<1>. QED  BY <1>1, <1>3, <1>4, <1>5, CareQuiet DEF Moved

\* WriteLock keeps the invariant.
LEMMA WriteLockCare ==
    ASSUME CareInv, SizesInv', NumbersInv', HeldInv', NEW t \in Threads, WriteLock(t)
    PROVE  CareInv'
<1>0. Shape /\ IsArg(arg[t]) /\ pc[t] = "lock"
  BY SizesFacts DEF WriteLock, CareInv
<1>1. Moved(t)
  BY <1>0, WriteLockMoves
<1>2. Care(t)'
  <2>1. CASE arg[t].left = 0
    <3>1. pc'[t] = "idle"
      BY <1>0, <2>1, ReturnMoves DEF WriteLock
    <3>. QED  BY <3>1, CareElsewhere DEF Writing
  <2>2. CASE arg[t].left # 0
    <3>1. pc'[t] = "write" /\ arg'[t].left = arg[t].left
      <4>1. PICK k, e : Goes(t, "write", [arg[t] EXCEPT !.blk = k, !.end = e])
        BY <2>2 DEF WriteLock
      <4>2. PICK new : new = [arg[t] EXCEPT !.blk = k, !.end = e]
        OBVIOUS
      <4>3. IsArg(new) /\ new.left = arg[t].left
        BY <1>0, <4>2 DEF IsArg
      <4>4. Goes(t, "write", new)
        BY <4>1, <4>2, Zenon
      <4>. QED  BY <1>0, <4>3, <4>4, GoesMoves DEF Pcs
    <3>. QED  BY <2>2, <3>1 DEF Care, Wanted, Lengths, Made, Writing
  <2>. QED  BY <2>1, <2>2
<1>3. UNCHANGED inode_table /\ Files' = Files
  BY DEF WriteLock, stateVars, fileVars, Files
<1>. QED  BY <1>1, <1>2, <1>3, CareQuiet DEF Moved

\* tfs_write returns, with the files as they are.
LEMMA WriteReturnsCare ==
    ASSUME CareInv, SizesInv', NumbersInv', HeldInv', NEW t \in Threads, pc[t] \in Writing,
           WriteReturns(t), UNCHANGED <<inode_table, freeinode_ts>>
    PROVE  CareInv'
<1>0. Shape /\ Return(t)
  BY SizesFacts DEF WriteReturns, CareInv
<1>1. Moved(t) /\ pc'[t] = "idle"
  BY <1>0, ReturnMoves
<1>2. Care(t)' /\ Files' = Files
  BY <1>1, CareElsewhere DEF Writing, Files
<1>. QED  BY <1>1, <1>2, CareQuiet DEF Moved

\* AllocScan keeps the invariant.
LEMMA AllocScanCare ==
    ASSUME CareInv, WritesDirect, SizesInv', NumbersInv', HeldInv', NEW t \in Threads, AllocScan(t)
    PROVE  CareInv'
<1>0. /\ Shape /\ IsArg(arg[t]) /\ pc[t] = "alloc" /\ pc[t] \in Writing /\ pc[t] \in Busy
      /\ arg[t].blk \in Direct /\ Care(t)
      /\ inode_table \in [Inums -> Inode]
  BY SizesFacts DEF AllocScan, CareInv, Writing, Busy, WritesDirect
<1>1. UNCHANGED freeinode_ts
  BY DEF AllocScan
<1>2. CASE WriteReturns(t) /\ UNCHANGED inode_table
  BY <1>0, <1>1, <1>2, WriteReturnsCare
<1>3. CASE ~(WriteReturns(t) /\ UNCHANGED inode_table)
  <2>1. /\ UNCHANGED inode_lock
        /\ \E n : \/ Goes(t, "write", [arg[t] EXCEPT !.scan = n])
                  \/ Goes(t, "alloc", [arg[t] EXCEPT !.scan = n]) /\ UNCHANGED inode_table
    BY <1>0, <1>3 DEF AllocScan
  <2>2. PICK n : \/ Goes(t, "write", [arg[t] EXCEPT !.scan = n])
                 \/ Goes(t, "alloc", [arg[t] EXCEPT !.scan = n]) /\ UNCHANGED inode_table
    BY <2>1
  <2>. DEFINE new == [arg[t] EXCEPT !.scan = n]
  <2>3. /\ IsArg(new) /\ new.inum = arg[t].inum /\ new.left = arg[t].left
        /\ new.blk = arg[t].blk
    BY <1>0 DEF IsArg
  <2>4. Goes(t, "write", new) \/ (Goes(t, "alloc", new) /\ UNCHANGED inode_table)
    BY <2>2
  <2>. HIDE DEF new
  <2>5. /\ Moved(t) /\ arg'[t] = new
        /\ pc'[t] = "write" \/ (pc'[t] = "alloc" /\ UNCHANGED inode_table)
    BY <1>0, <2>3, <2>4, GoesMoves DEF Pcs
  <2>6. Care(t)'
    BY <1>0, <2>1, <2>3, <2>5 DEF Care, Wanted, Lengths, Made, Writing
  <2>7. CASE UNCHANGED inode_table
    <3>1. Files' = Files
      BY <1>1 DEF Files
    <3>. QED  BY <2>1, <2>5, <2>6, <2>7, <3>1, CareQuiet DEF Moved
  <2>8. CASE ~UNCHANGED inode_table
    <3>1. PICK i \in Inums, k \in Direct, b \in Blocks :
              i = arg[t].inum /\ k = arg[t].blk /\ b = arg[t].scan
      BY <1>0, SizesFacts DEF CareInv, Locals
    <3>2. inode_table' = [inode_table EXCEPT ![i].i_data_block[k] = b]
      BY <1>0, <2>8, <3>1 DEF AllocScan, BlockInstalled
    <3>3. /\ \A j \in Inums \ {i} : inode_table'[j] = inode_table[j]
          /\ inode_table'[i].i_size = inode_table[i].i_size
      BY <1>0, <3>2 DEF Inode
    <3>4. i \in Files
      BY <1>0, <3>1, WriterFacts DEF CareInv
    <3>5. inode_table'[i].i_size <= BLOCK_SIZE * MAX_DIRECT_BLOCKS
      BY <3>3, <3>4 DEF CareInv, FilesDirect
    <3>6. Files' \subseteq Files \cup {i}
      BY <1>1 DEF Files
    <3>7. \A u \in Threads \ {t} : pc[u] \in {"alloc", "link"} => arg[u].inum # i
      BY <1>0, <3>1, WritersApart, WriterLinked DEF Writing
    <3>. QED  BY <2>5, <2>6, <3>3, <3>5, <3>6, <3>7, CareOne
  <2>. QED  BY <2>7, <2>8
<1>. QED  BY <1>2, <1>3

\* Thread t puts m of the left bytes it has to write at offset off of file i,
\* through handle h, into block b, which is block k of the file.
PieceStep(t, h, i, k, b, off, left, m) ==
    /\ h = arg[t].fh /\ i = arg[t].inum /\ k = arg[t].blk /\ left = arg[t].left
    /\ off = open_file_table[h].of_offset /\ b = inode_table[i].i_data_block[k]
    /\ off <= inode_table[i].i_size
    /\ BLOCK_SIZE * k <= off /\ off + m <= (BLOCK_SIZE * k) + BLOCK_SIZE
    /\ m <= left /\ m <= BLOCK_SIZE
    /\ fs_data' = Copied(fs_data, b, off, m, arg[t].byte)
    /\ open_file_table' = [open_file_table EXCEPT ![h].of_offset = off + m]
    /\ inode_table' = [inode_table EXCEPT ![i].i_size =
                          IF off + m > inode_table[i].i_size
                          THEN off + m ELSE inode_table[i].i_size]
    /\ \/ m = left /\ WriteReturns(t)
       \/ /\ m # left
          /\ Goes(t, "write", [arg[t] EXCEPT !.blk = k + 1, !.left = left - m])
          /\ UNCHANGED inode_lock

\* A round of the loop of tfs_write asks for a block or writes a piece.
LEMMA RoundOfWrite ==
    ASSUME CareInv, WritesDirect, NEW t \in Threads, WriteBlock(t)
    PROVE  \/ /\ arg[t].blk \in Direct
              /\ inode_table[arg[t].inum].i_data_block[arg[t].blk] = -1
              /\ Goes(t, "alloc", [arg[t] EXCEPT !.scan = 0])
              /\ UNCHANGED <<inode_table, fs_data, open_file_table, inode_lock>>
           \/ \E h \in Handles, i \in Files, k \in Direct, b \in Blocks,
                 off \in Nat, left \in Nat, m \in Nat \ {0} :
                 PieceStep(t, h, i, k, b, off, left, m)
<1>0. /\ pc[t] = "write" /\ pc[t] \in Busy /\ pc[t] \in Writing
      /\ arg[t].blk \in Direct /\ arg[t].left # 0
  BY DEF WriteBlock, Busy, Writing, WritesDirect, CareInv, Care, Lengths
<1>1. PICK h \in Handles, i \in Files, k \in Direct, end \in Nat, off \in Nat,
           left \in Nat \ {0}, size \in Nat :
          /\ h = arg[t].fh /\ i = arg[t].inum /\ k = arg[t].blk /\ end = arg[t].end
          /\ off = open_file_table[h].of_offset /\ left = arg[t].left
          /\ size = inode_table[i].i_size
  BY <1>0, WriterFacts DEF Locals, CareInv
<1>2. /\ BLOCK_SIZE * k <= off /\ off < (BLOCK_SIZE * k) + BLOCK_SIZE
      /\ k < end /\ off + left <= BLOCK_SIZE * end
      /\ off <= size /\ inode_table \in [Inums -> Inode] /\ i \in Inums /\ k \in Nat
  BY <1>0, <1>1, WriterFacts, Sizes DEF Step, Cursor, TypesInv, TableTypes, CareInv
<1>3. PICK b \in Blocks \cup {-1} :
          b = inode_table[i].i_data_block[k] /\ b = BlockNumber(i, k)
  BY <1>1, <1>2 DEF Inode, BlockNumber
<1>4. CASE b = -1
  BY <1>0, <1>1, <1>3, <1>4, Sizes DEF WriteBlock, Garbage
<1>5. CASE b \in Blocks
  <2>1. BLOCK_SIZE * k \in Nat
    BY <1>2, Sizes, TimesNat
  <2>2. PICK upto \in Nat : upto = (BLOCK_SIZE * k) + BLOCK_SIZE
    BY <2>1, Sizes
  <2>3. /\ off + left <= upto => Piece(k, end, off, left) = left
        /\ off + left > upto => Piece(k, end, off, left) = upto - off
    BY <1>2, <2>2, PieceFits
  <2>4. PICK m \in Nat \ {0} :
            /\ m = Piece(k, end, off, left) /\ m <= left /\ off + m <= upto
            /\ m # left => off + left > upto
    <3>1. CASE off + left <= upto
      BY <2>3, <3>1
    <3>2. CASE off + left > upto
      BY <1>2, <2>2, <2>3, <3>2
    <3>. QED  BY <3>1, <3>2
  <2>5. m # left => k + 1 # end
    <3>1. SUFFICES ASSUME m # left, k + 1 = end PROVE FALSE
      OBVIOUS
    <3>2. BLOCK_SIZE * end = upto
      BY <1>2, <2>2, <3>1, Sizes, TimesNext
    <3>. QED  BY <1>2, <2>4, <3>1, <3>2
  <2>6. m <= BLOCK_SIZE
    BY <1>2, <2>1, <2>2, <2>4, Sizes
  <2>7. /\ fs_data' = Copied(fs_data, b, off, m, arg[t].byte)
        /\ open_file_table' = [open_file_table EXCEPT ![h].of_offset = off + m]
        /\ inode_table' = [inode_table EXCEPT ![i].i_size =
                              IF off + m > size THEN off + m ELSE size]
        /\ IF left = m \/ k + 1 = end THEN WriteReturns(t)
           ELSE /\ Goes(t, "write", [arg[t] EXCEPT !.blk = k + 1, !.left = left - m])
                /\ UNCHANGED inode_lock
    <3>1. Copies(t, h, i, k, end, b, off, left, size, m)
      BY <1>1, <1>3, <1>5, <2>4, RoundCopies
    <3>. QED  BY <3>1, Zenon DEF Copies
  <2>8. PieceStep(t, h, i, k, b, off, left, m)
    BY <1>1, <1>2, <1>3, <2>2, <2>4, <2>5, <2>6, <2>7 DEF PieceStep
  <2>. QED  BY <1>5, <2>8
<1>. QED  BY <1>3, <1>4, <1>5

\* WriteBlock keeps the invariant.
LEMMA WriteBlockCare ==
    ASSUME CareInv, WritesDirect, SizesInv', NumbersInv', HeldInv', NEW t \in Threads, WriteBlock(t)
    PROVE  CareInv'
<1>0. /\ Shape /\ IsArg(arg[t]) /\ pc[t] = "write" /\ pc[t] \in Writing /\ pc[t] \in Busy
      /\ Care(t) /\ inode_table \in [Inums -> Inode]
  BY SizesFacts DEF WriteBlock, CareInv, Writing, Busy
<1>1. UNCHANGED freeinode_ts /\ Files' = Files
  BY DEF WriteBlock, Files
<1>2. CASE /\ arg[t].blk \in Direct
           /\ inode_table[arg[t].inum].i_data_block[arg[t].blk] = -1
           /\ Goes(t, "alloc", [arg[t] EXCEPT !.scan = 0])
           /\ UNCHANGED <<inode_table, fs_data, open_file_table, inode_lock>>
  <2>. DEFINE new == [arg[t] EXCEPT !.scan = 0]
  <2>1. /\ IsArg(new) /\ new.inum = arg[t].inum /\ new.left = arg[t].left
        /\ new.blk = arg[t].blk
    BY <1>0 DEF IsArg
  <2>2. Goes(t, "alloc", new)
    BY <1>2
  <2>. HIDE DEF new
  <2>3. Moved(t) /\ arg'[t] = new /\ pc'[t] = "alloc"
    BY <1>0, <2>1, <2>2, GoesMoves DEF Pcs
  <2>4. Care(t)'
    BY <1>0, <1>2, <2>1, <2>3 DEF Care, Wanted, Lengths, Made, Writing
  <2>. QED  BY <1>1, <1>2, <2>3, <2>4, CareQuiet DEF Moved
<1>3. ASSUME NEW h \in Handles, NEW i \in Files, NEW k \in Direct, NEW b \in Blocks,
             NEW off \in Nat, NEW left \in Nat, NEW m \in Nat \ {0},
             PieceStep(t, h, i, k, b, off, left, m)
      PROVE  CareInv'
  <2>1. PICK size \in Nat, grown \in Nat :
            /\ size = inode_table[i].i_size
            /\ grown = IF off + m > size THEN off + m ELSE size
    BY <1>0 DEF Files, Inode
  <2>2. /\ i = arg[t].inum /\ i \in Inums /\ left = arg[t].left /\ m <= left
        /\ inode_table' = [inode_table EXCEPT ![i].i_size = grown]
    BY <1>3, <2>1 DEF PieceStep, Files
  <2>3. /\ \A j \in Inums \ {i} : inode_table'[j] = inode_table[j]
        /\ inode_table'[i].i_size = grown
    BY <1>0, <2>2 DEF Inode
  <2>4. grown <= BLOCK_SIZE * MAX_DIRECT_BLOCKS
    <3>1. size <= BLOCK_SIZE * MAX_DIRECT_BLOCKS
      BY <2>1 DEF CareInv, FilesDirect
    <3>2. PICK upto \in Nat, all \in Nat :
              upto = BLOCK_SIZE * k /\ all = BLOCK_SIZE * MAX_DIRECT_BLOCKS
      BY Sizes, TimesNat
    <3>3. off + m <= upto + BLOCK_SIZE
      BY <1>3, <3>2 DEF PieceStep
    <3>4. upto + BLOCK_SIZE <= all
      <4>1. k < MAX_DIRECT_BLOCKS /\ k \in Int
        BY Sizes DEF Direct
      <4>. QED  BY <3>2, <4>1, Sizes, Times
    <3>. QED  BY <2>1, <3>1, <3>2, <3>3, <3>4, Sizes
  <2>5. \A u \in Threads \ {t} : pc[u] \in {"alloc", "link"} => arg[u].inum # i
    BY <1>0, <2>2, WritersApart, WriterLinked DEF Writing
  <2>6. CASE m = left /\ WriteReturns(t)
    <3>1. Moved(t) /\ pc'[t] = "idle"
      BY <1>0, <2>6, ReturnMoves DEF WriteReturns
    <3>2. Care(t)'
      BY <3>1, CareElsewhere DEF Writing
    <3>. QED  BY <1>1, <2>2, <2>3, <2>4, <2>5, <3>1, <3>2, CareOne
  <2>7. CASE /\ m # left
             /\ Goes(t, "write", [arg[t] EXCEPT !.blk = k + 1, !.left = left - m])
             /\ UNCHANGED inode_lock
    <3>1. PICK rest \in Nat \ {0}, next \in Nat : rest = left - m /\ next = k + 1
      BY <2>2, <2>7, Sizes
    <3>. DEFINE new == [arg[t] EXCEPT !.blk = next, !.left = rest]
    <3>2. IsArg(new) /\ new.inum = arg[t].inum /\ new.left = rest
      BY <1>0 DEF IsArg
    <3>3. Goes(t, "write", new)
      BY <2>7, <3>1
    <3>. HIDE DEF new
    <3>4. Moved(t) /\ arg'[t] = new /\ pc'[t] = "write"
      BY <1>0, <3>2, <3>3, GoesMoves DEF Pcs
    <3>5. Care(t)'
      BY <1>0, <2>7, <3>1, <3>2, <3>4 DEF Care, Wanted, Lengths, Made, Writing
    <3>. QED  BY <1>1, <2>2, <2>3, <2>4, <2>5, <3>4, <3>5, CareOne
  <2>. QED  BY <1>3, <2>6, <2>7 DEF PieceStep
<1>. QED  BY <1>2, <1>3, RoundOfWrite

\* TfsInit keeps the invariant.
LEMMA TfsInitCare ==
    ASSUME CareInv, SizesInv', NumbersInv', HeldInv', TfsInit
    PROVE  CareInv'
<1>1. \A t \in Threads : pc'[t] = "idle"
  BY DEF TfsInit, threadVars
<1>2. \A t \in Threads : Care(t)'
  BY <1>1, CareElsewhere DEF Writing
<1>3. Files' = {}
  BY DEF TfsInit, StateReset, Files, FREE, TAKEN
<1>. QED  BY <1>2, <1>3 DEF CareInv, FilesDirect, Disciplined

\* No table changes and no thread moves.
LEMMA UnchangedCare ==
    ASSUME CareInv, SizesInv', NumbersInv', HeldInv', UNCHANGED <<stateVars, threadVars, lockVars>>
    PROVE  CareInv'
<1>1. UNCHANGED <<inode_table, freeinode_ts, inode_lock, pc, arg>>
  BY DEF stateVars, fileVars, threadVars, lockVars
<1>2. FilesDirect'
  BY <1>1 DEF CareInv, FilesDirect, Files
<1>3. \A t \in Threads : Care(t)'
  BY <1>1 DEF CareInv, Care, Wanted, Lengths, Made
<1>. QED  BY <1>2, <1>3 DEF CareInv, Disciplined

\* The invariant holds at first.
LEMMA InitCare ==
    ASSUME Disciplined, Init
    PROVE  CareInv
<1>1. SizesInv /\ NumbersInv /\ HeldInv
  BY InitFiles DEF FilesInv
<1>2. Files = {}
  BY DEF Init, StateInit, Files, FREE, TAKEN
<1>3. \A t \in Threads : pc[t] = "idle"
  BY DEF Init
<1>4. \A t \in Threads : Care(t)
  BY <1>3 DEF Care, Wanted, Lengths, Made, Writing
<1>. QED  BY <1>1, <1>2, <1>3, <1>4 DEF CareInv, FilesDirect

\* Every step keeps the invariant.
LEMMA NextCare ==
    ASSUME CareInv, WritesDirect, [Next]_vars
    PROVE  CareInv'
<1>1. SizesInv' /\ NumbersInv' /\ HeldInv'
  BY CareFiles, NextFiles DEF CareInv, Disciplined, FilesInv
<1>2. CASE Next
  <2>1. ~\E t \in Threads : LabelIndirect(t)
    BY DEF LabelIndirect, CareInv, Care, Wanted
  <2>. QED  BY <1>1, <1>2, <2>1, NextCases, OpenStartCare, OpenExistingCare,
               CreateScanCare, AsideCare, WriteStartCare, ReadStartCare, WriteLockCare,
               WriteBlockCare, AllocScanCare, TfsInitCare, UnchangedCare
<1>3. CASE UNCHANGED vars
  BY <1>1, <1>3, UnchangedCare DEF vars
<1>. QED  BY <1>2, <1>3

-----------------------------------------------------------------------------
(* The bytes of a file. *)

\* The bytes of an i-node whose size reaches no further than its direct blocks.
ContentOf(inode, data) ==
    [p \in 1 .. inode.i_size |->
        data[CellOf(inode.i_data_block[(p - 1) \div BLOCK_SIZE], p - 1)]]

\* The size reaches direct blocks that are there.
Sound(inode) ==
    /\ inode \in Inode /\ inode.i_size <= BLOCK_SIZE * MAX_DIRECT_BLOCKS
    /\ \A k \in Direct :
          BLOCK_SIZE * k < inode.i_size => inode.i_data_block[k] \in Blocks

\* Where byte p of such a file is, counted from 0.
LEMMA ByteReached ==
    ASSUME NEW inode, Sound(inode), NEW p \in Nat, p < inode.i_size
    PROVE  /\ p \div BLOCK_SIZE \in Direct /\ p % BLOCK_SIZE \in 0 .. BLOCK_SIZE - 1
           /\ p = (BLOCK_SIZE * (p \div BLOCK_SIZE)) + (p % BLOCK_SIZE)
           /\ BLOCK_SIZE * (p \div BLOCK_SIZE) < inode.i_size
           /\ inode.i_data_block[p \div BLOCK_SIZE] \in Blocks
<1>1. PICK q \in Nat, r \in 0 .. BLOCK_SIZE - 1 :
          /\ q = p \div BLOCK_SIZE /\ r = p % BLOCK_SIZE /\ p = (BLOCK_SIZE * q) + r
  <2>1. /\ p \div BLOCK_SIZE \in Nat /\ p % BLOCK_SIZE \in 0 .. BLOCK_SIZE - 1
        /\ p = (BLOCK_SIZE * (p \div BLOCK_SIZE)) + (p % BLOCK_SIZE)
    BY Sizes, DivMod, Zenon
  <2>. QED  BY <2>1, Zenon
<1>2. PICK at \in Nat, all \in Nat :
          at = BLOCK_SIZE * q /\ all = BLOCK_SIZE * MAX_DIRECT_BLOCKS
  BY Sizes, TimesNat
<1>3. PICK size \in Nat : size = inode.i_size /\ size <= all
  BY <1>2 DEF Sound, Inode
<1>4. at <= p /\ at < size /\ at < all
  <2>1. p = at + r /\ r >= 0 /\ r \in Int
    BY <1>1, <1>2, Sizes
  <2>. QED  BY <1>3, <2>1
<1>5. q < MAX_DIRECT_BLOCKS
  <2>1. MAX_DIRECT_BLOCKS < q => all + BLOCK_SIZE <= at
    BY <1>2, Sizes, Times
  <2>2. MAX_DIRECT_BLOCKS = q => all = at
    BY <1>2
  <2>. QED  BY <1>4, <2>1, <2>2, Sizes
<1>6. q \in Direct
  BY <1>5, Sizes DEF Direct
<1>. QED  BY <1>1, <1>2, <1>3, <1>4, <1>6 DEF Sound

\* The files of the invariant are such files, before and after a step.
LEMMA FilesSound ==
    ASSUME CareInv, NEW i \in Files
    PROVE  Sound(inode_table[i]) /\ BytesOf(i) = ContentOf(inode_table[i], fs_data)
<1>1. Sound(inode_table[i])
  BY SizesFacts DEF CareInv, Disciplined, FilesDirect, SizesInv, Filled, Files, Sound
<1>2. PICK size \in Nat : size = inode_table[i].i_size
  BY <1>1 DEF Sound, Inode
<1>3. ASSUME NEW p \in 1 .. size
      PROVE  LET b == BlockNumber(i, (p - 1) \div BLOCK_SIZE) IN
             /\ b \in Blocks /\ b = inode_table[i].i_data_block[(p - 1) \div BLOCK_SIZE]
  <2>1. p - 1 \in Nat /\ p - 1 < size
    OBVIOUS
  <2>. QED  BY <1>1, <1>2, <2>1, ByteReached DEF BlockNumber
<1>. QED  BY <1>1, <1>2, <1>3 DEF BytesOf, ContentOf

\* The same, in the state after a step.
LEMMA FilesSoundNext ==
    ASSUME CareInv', NEW i \in Files'
    PROVE  Sound(inode_table'[i]) /\ BytesOf(i)' = ContentOf(inode_table'[i], fs_data')
<1>1. Sound(inode_table'[i])
  BY SizesFacts DEF CareInv, Disciplined, FilesDirect, SizesInv, Filled, Files, Sound,
                    TypesInv, TableTypes
<1>2. PICK size \in Nat : size = inode_table'[i].i_size
  BY <1>1 DEF Sound, Inode
<1>3. ASSUME NEW p \in 1 .. size
      PROVE  LET b == BlockNumber(i, (p - 1) \div BLOCK_SIZE)' IN
             /\ b \in Blocks /\ b = inode_table'[i].i_data_block[(p - 1) \div BLOCK_SIZE]
  <2>1. p - 1 \in Nat /\ p - 1 < size
    OBVIOUS
  <2>. QED  BY <1>1, <1>2, <2>1, ByteReached DEF BlockNumber
<1>. QED  BY <1>1, <1>2, <1>3 DEF BytesOf, ContentOf

\* The same size, and the same bytes in the blocks it reaches.
LEMMA ContentKept ==
    ASSUME NEW inode, Sound(inode), NEW data, NEW inode2, NEW data2,
           inode2.i_size = inode.i_size,
           \A k \in Direct : BLOCK_SIZE * k < inode.i_size =>
              /\ inode2.i_data_block[k] = inode.i_data_block[k]
              /\ \A r \in 0 .. BLOCK_SIZE - 1 :
                    data2[(inode.i_data_block[k] * BLOCK_SIZE) + r] =
                    data[(inode.i_data_block[k] * BLOCK_SIZE) + r]
    PROVE  ContentOf(inode2, data2) = ContentOf(inode, data)
<1>1. PICK size \in Nat : size = inode.i_size
  BY DEF Sound, Inode
<1>2. ASSUME NEW p \in 1 .. size
      PROVE  data2[CellOf(inode2.i_data_block[(p - 1) \div BLOCK_SIZE], p - 1)] =
             data[CellOf(inode.i_data_block[(p - 1) \div BLOCK_SIZE], p - 1)]
  <2>1. PICK x \in Nat : x = p - 1 /\ x < size
    OBVIOUS
  <2>2. PICK k \in Direct, r \in 0 .. BLOCK_SIZE - 1 :
            k = x \div BLOCK_SIZE /\ r = x % BLOCK_SIZE /\ BLOCK_SIZE * k < inode.i_size
    BY <1>1, <2>1, ByteReached
  <2>3. /\ inode2.i_data_block[k] = inode.i_data_block[k]
        /\ data2[(inode.i_data_block[k] * BLOCK_SIZE) + r] =
           data[(inode.i_data_block[k] * BLOCK_SIZE) + r]
    BY <2>2
  <2>. QED  BY <2>1, <2>2, <2>3 DEF CellOf
<1>. QED  BY <1>1, <1>2 DEF ContentOf

\* Bytes put over a content, at offset off, that then has length grown.
Over(content, off, m, byte, grown) ==
    [p \in 1 .. grown |-> IF p > off /\ p <= off + m THEN byte ELSE content[p]]

\* m bytes at offset off belong in block k of an i-node, and it alone uses b.
BelongsIn(inode, k, b, off, m) ==
    /\ inode.i_data_block[k] = b /\ \A d \in Direct \ {k} : inode.i_data_block[d] # b
    /\ BLOCK_SIZE * k <= off /\ off + m <= (BLOCK_SIZE * k) + BLOCK_SIZE
    /\ off <= inode.i_size

\* m bytes are put at offset off, in block k.
LEMMA ContentWritten ==
    ASSUME NEW inode, Sound(inode), NEW inode2, Sound(inode2), NEW data,
           NEW k \in Direct, NEW b \in Blocks, NEW off \in Nat, NEW m \in Nat \ {0},
           NEW byte, BelongsIn(inode, k, b, off, m),
           NEW grown \in Nat,
           grown = IF off + m > inode.i_size THEN off + m ELSE inode.i_size,
           inode2.i_size = grown, inode2.i_data_block = inode.i_data_block
    PROVE  ContentOf(inode2, Copied(data, b, off, m, byte)) =
              Over(ContentOf(inode, data), off, m, byte, grown)
<1>0. /\ inode.i_data_block[k] = b /\ \A d \in Direct \ {k} : inode.i_data_block[d] # b
      /\ BLOCK_SIZE * k <= off /\ off + m <= (BLOCK_SIZE * k) + BLOCK_SIZE
      /\ off <= inode.i_size
  BY DEF BelongsIn
<1>1. PICK size \in Nat : size = inode.i_size
  BY DEF Sound, Inode
<1>2. PICK at \in Nat : at = BLOCK_SIZE * k
  BY Sizes, TimesNat
<1>3. PICK s \in Nat : s = off % BLOCK_SIZE /\ off = at + s /\ s + m <= BLOCK_SIZE
  <2>1. off < at + BLOCK_SIZE /\ k \in Nat
    BY <1>0, <1>2, Sizes
  <2>2. off % BLOCK_SIZE = off - at
    BY <1>0, <1>2, <2>1, Sizes, DivWithin
  <2>3. off - at \in Nat /\ off = at + (off - at) /\ (off - at) + m <= BLOCK_SIZE
    BY <1>0, <1>2, Sizes
  <2>. QED  BY <2>2, <2>3
<1>. DEFINE new == Copied(data, b, off, m, byte)
<1>4. ASSUME NEW c \in Blocks, NEW r \in 0 .. BLOCK_SIZE - 1
      PROVE  new[(c * BLOCK_SIZE) + r] = IF c = b /\ s <= r /\ r < s + m
                                         THEN byte ELSE data[(c * BLOCK_SIZE) + r]
  <2>1. Puts(data, new, b, s, m, byte)
    BY <1>3, CellCopied DEF new
  <2>. QED  BY <2>1 DEF Puts
<1>. HIDE DEF new
<1>5. ASSUME NEW p \in 1 .. grown
      PROVE  new[CellOf(inode2.i_data_block[(p - 1) \div BLOCK_SIZE], p - 1)] =
             IF p > off /\ p <= off + m THEN byte ELSE ContentOf(inode, data)[p]
  <2>1. PICK x \in Nat : x = p - 1 /\ x < grown
    OBVIOUS
  <2>2. PICK q \in Direct, r \in 0 .. BLOCK_SIZE - 1, c \in Blocks :
            /\ q = x \div BLOCK_SIZE /\ r = x % BLOCK_SIZE /\ x = (BLOCK_SIZE * q) + r
            /\ c = inode.i_data_block[q]
    BY <2>1, ByteReached
  <2>3. new[CellOf(inode2.i_data_block[x \div BLOCK_SIZE], x)] =
            IF c = b /\ s <= r /\ r < s + m THEN byte ELSE data[(c * BLOCK_SIZE) + r]
    BY <1>4, <2>2 DEF CellOf
  <2>4. c = b <=> q = k
    BY <1>0, <2>2
  <2>5. PICK y \in Nat : y = BLOCK_SIZE * q
    BY <2>2, Sizes, TimesNat
  <2>6. q = k \/ y + BLOCK_SIZE <= at \/ at + BLOCK_SIZE <= y
    <3>1. q \in Int /\ k \in Int
      BY Sizes
    <3>. QED  BY <1>2, <2>5, <3>1, Sizes, Times
  <2>7. c = b /\ s <= r /\ r < s + m <=> p > off /\ p <= off + m
    BY <1>2, <1>3, <2>1, <2>2, <2>4, <2>5, <2>6, Sizes
  <2>8. ~(p > off /\ p <= off + m) => ContentOf(inode, data)[p] = data[(c * BLOCK_SIZE) + r]
    <3>1. SUFFICES ASSUME ~(p > off /\ p <= off + m)
                   PROVE  ContentOf(inode, data)[p] = data[(c * BLOCK_SIZE) + r]
      OBVIOUS
    <3>2. p \in 1 .. size
      BY <1>0, <1>1, <3>1
    <3>3. ContentOf(inode, data)[p] =
              data[CellOf(inode.i_data_block[(p - 1) \div BLOCK_SIZE], p - 1)]
      BY <1>1, <3>2 DEF ContentOf
    <3>. QED  BY <2>1, <2>2, <3>3 DEF CellOf
  <2>. QED  BY <2>1, <2>3, <2>7, <2>8
<1>. QED  BY <1>5 DEF ContentOf, Over, new

-----------------------------------------------------------------------------
(* The names, the handles and the calls of FineFiles. *)

\* Where a call is in the middle of something that FineFiles sees.
Stages == Opens \cup {"add"} \cup Writing

\* The names stay while the directory does,
LEMMA NamesKept == ASSUME UNCHANGED root_dir PROVE UNCHANGED Namespace
<1>1. \A n \in Names : FileNamed(n)' = FileNamed(n)
  BY DEF FileNamed, Named, IsFirst
<1>. QED  BY <1>1 DEF Namespace

\* and the positions while the open file table does.
LEMMA PositionsKept ==
    ASSUME UNCHANGED <<open_file_table, free_open_file_entries>>
    PROVE  UNCHANGED Positions
BY DEF Positions, PositionOf

\* What FineFiles sees of a handle.
LEMMA PositionsAre ==
    ASSUME SizesInv, NEW h \in Handles
    PROVE  /\ h \in TakenEntries =>
                 /\ Positions[h] = [file |-> open_file_table[h].of_inumber,
                                    offset |-> open_file_table[h].of_offset]
                 /\ Positions[h] # Abstract!Closed
           /\ h \notin TakenEntries => Positions[h] = Abstract!Closed
<1>1. free_open_file_entries[h] = FREE <=> h \notin TakenEntries
  BY SizesFacts DEF TakenEntries, FREE, TAKEN
<1>2. open_file_table[h].of_inumber # -1
  BY SizesFacts DEF Inums
<1>3. h \in TakenEntries =>
          Positions[h] = [file |-> open_file_table[h].of_inumber,
                          offset |-> open_file_table[h].of_offset]
  BY <1>1 DEF Positions, PositionOf
<1>4. Abstract!Closed = [file |-> -1, offset |-> 0]
  BY DEF Abstract!Closed, Abstract!NoFile
<1>5. h \in TakenEntries => Positions[h] # Abstract!Closed
  <2>1. SUFFICES ASSUME h \in TakenEntries PROVE Positions[h].file # Abstract!Closed.file
    OBVIOUS
  <2>. QED  BY <1>2, <1>3, <1>4, <2>1
<1>6. h \notin TakenEntries => Positions[h] = Abstract!Closed
  BY <1>1, <1>4 DEF Positions, PositionOf
<1>. QED  BY <1>3, <1>5, <1>6

\* What FineFiles sees of a call.
LEMMA CallsAre ==
    ASSUME NEW t \in Threads
    PROVE  /\ pc[t] \in Opens =>
                 Openings[t] = [stage |-> "asked", name |-> arg[t].name,
                                flags |-> arg[t].flags, at |-> Abstract!Closed]
           /\ pc[t] = "add" =>
                 Openings[t] = [stage |-> "found", name |-> NoName, flags |-> {},
                                at |-> [file |-> arg[t].inum, offset |-> arg[t].offset]]
           /\ pc[t] \notin Opens \cup {"add"} => Openings[t] = Abstract!NoOpen
           /\ pc[t] \in Writing =>
                 Writings[t] = [handle |-> arg[t].fh, left |-> arg[t].left,
                                bytes |-> {arg[t].byte}]
           /\ pc[t] \notin Writing => Writings[t] = Abstract!NoWrite
BY DEF Openings, OpenOf, Writings, WriteOf, Opens, Writing, Abstract!Closed,
       Abstract!NoFile, Abstract!NoOpen, Abstract!NoWrite

\* The same, in the state after a step.
LEMMA CallsNext ==
    ASSUME NEW t \in Threads
    PROVE  /\ pc'[t] \in Opens =>
                 Openings'[t] = [stage |-> "asked", name |-> arg'[t].name,
                                 flags |-> arg'[t].flags, at |-> Abstract!Closed]
           /\ pc'[t] = "add" =>
                 Openings'[t] = [stage |-> "found", name |-> NoName, flags |-> {},
                                 at |-> [file |-> arg'[t].inum, offset |-> arg'[t].offset]]
           /\ pc'[t] \notin Opens \cup {"add"} => Openings'[t] = Abstract!NoOpen
           /\ pc'[t] \in Writing =>
                 Writings'[t] = [handle |-> arg'[t].fh, left |-> arg'[t].left,
                                 bytes |-> {arg'[t].byte}]
           /\ pc'[t] \notin Writing => Writings'[t] = Abstract!NoWrite
BY DEF Openings, OpenOf, Writings, WriteOf, Opens, Writing, Abstract!Closed,
       Abstract!NoFile, Abstract!NoOpen, Abstract!NoWrite

\* A thread that stays where it is, or where FineFiles sees nothing of it.
StaysPut(t) ==
    \/ pc'[t] = pc[t] /\ arg'[t] = arg[t]
    \/ pc[t] \notin Stages /\ pc'[t] \notin Stages

\* Its calls are as they were.
LEMMA CallKept ==
    ASSUME NEW t \in Threads, StaysPut(t)
    PROVE  Openings'[t] = Openings[t] /\ Writings'[t] = Writings[t]
<1>1. CASE pc'[t] = pc[t] /\ arg'[t] = arg[t]
  BY <1>1 DEF Openings, OpenOf, Writings, WriteOf
<1>2. CASE pc[t] \notin Stages /\ pc'[t] \notin Stages
  BY <1>2, CallsAre, CallsNext DEF Stages
<1>. QED  BY <1>1, <1>2 DEF StaysPut

\* The calls when one thread makes a step.
LEMMA CallsMoved ==
    ASSUME NEW t \in Threads, \A u \in Threads \ {t} : StaysPut(u)
    PROVE  /\ Openings' = [Openings EXCEPT ![t] = Openings'[t]]
           /\ Writings' = [Writings EXCEPT ![t] = Writings'[t]]
<1>1. \A u \in Threads \ {t} : Openings'[u] = Openings[u] /\ Writings'[u] = Writings[u]
  BY CallKept
<1>2. /\ DOMAIN Openings = Threads /\ DOMAIN Openings' = Threads
      /\ DOMAIN Writings = Threads /\ DOMAIN Writings' = Threads
      /\ Openings = [u \in Threads |-> Openings[u]]
      /\ Openings' = [u \in Threads |-> Openings'[u]]
      /\ Writings = [u \in Threads |-> Writings[u]]
      /\ Writings' = [u \in Threads |-> Writings'[u]]
  BY DEF Openings, Writings
<1>. QED  BY <1>1, <1>2

\* The calls when no thread makes a step that shows.
LEMMA CallsKept ==
    ASSUME \A t \in Threads : StaysPut(t)
    PROVE  UNCHANGED <<Openings, Writings>>
<1>1. \A u \in Threads : Openings'[u] = Openings[u] /\ Writings'[u] = Writings[u]
  BY CallKept
<1>2. /\ Openings = [u \in Threads |-> Openings[u]]
      /\ Openings' = [u \in Threads |-> Openings'[u]]
      /\ Writings = [u \in Threads |-> Writings[u]]
      /\ Writings' = [u \in Threads |-> Writings'[u]]
  BY DEF Openings, Writings
<1>. QED  BY <1>1, <1>2

\* The writes stay as they are when that thread does not write,
LEMMA WritesKept ==
    ASSUME NEW t \in Threads, \A u \in Threads \ {t} : StaysPut(u),
           pc[t] \notin Writing, pc'[t] \notin Writing
    PROVE  UNCHANGED Writings
<1>1. Writings' = [Writings EXCEPT ![t] = Writings'[t]]
  BY CallsMoved
<1>2. Writings'[t] = Writings[t]
  BY CallsAre, CallsNext
<1>. QED  BY <1>1, <1>2 DEF Writings

\* and the opens when it opens nothing.
LEMMA OpensKept ==
    ASSUME NEW t \in Threads, \A u \in Threads \ {t} : StaysPut(u),
           pc[t] \notin Opens \cup {"add"}, pc'[t] \notin Opens \cup {"add"}
    PROVE  UNCHANGED Openings
<1>1. Openings' = [Openings EXCEPT ![t] = Openings'[t]]
  BY CallsMoved
<1>2. Openings'[t] = Openings[t]
  BY CallsAre, CallsNext
<1>. QED  BY <1>1, <1>2 DEF Openings

\* A file that nobody has locked is not being written.
LEMMA NotBusy ==
    ASSUME CareInv, NEW i \in Inums, InodeFree(i)
    PROVE  ~Abstract!Busy(i)
<1>1. SUFFICES ASSUME NEW t \in Threads, Writings[t] # Abstract!NoWrite,
                      Abstract!FileOf(Writings[t].handle) = i
               PROVE  FALSE
  BY DEF Abstract!Busy
<1>2. pc[t] \in Writing
  BY <1>1, CallsAre
<1>3. Writings[t].handle = arg[t].fh
  <2>1. Writings[t] = [handle |-> arg[t].fh, left |-> arg[t].left, bytes |-> {arg[t].byte}]
    BY <1>2, CallsAre
  <2>. QED  BY <2>1
<1>4. /\ arg[t].fh \in TakenEntries /\ arg[t].fh \in Handles
      /\ open_file_table[arg[t].fh].of_inumber = arg[t].inum
  BY <1>2, BusyTaken, WriterFacts DEF CareInv, Busy, Writing
<1>5. Positions[arg[t].fh] = [file |-> open_file_table[arg[t].fh].of_inumber,
                              offset |-> open_file_table[arg[t].fh].of_offset]
  BY <1>4, PositionsAre DEF CareInv
<1>6. arg[t].inum = i
  BY <1>1, <1>3, <1>4, <1>5 DEF Abstract!FileOf
<1>7. inode_lock[i] = t
  BY <1>2, <1>6 DEF CareInv, HeldInv, Held
<1>. QED  BY <1>7, FineCallsAssumption DEF InodeFree

\* How many bytes an i-node has,
LEMMA FileBytes ==
    ASSUME CareInv, NEW i \in Inums
    PROVE  /\ i \notin Files \/ inode_table[i].i_size = 0 => BytesOf(i) = <<>>
           /\ i \in Files => Len(BytesOf(i)) = inode_table[i].i_size
<1>1. PICK size \in Nat : size = inode_table[i].i_size
  BY SizesFacts DEF CareInv
<1>2. CASE i \in Files
  <2>1. PICK f : BytesOf(i) = [k \in 1 .. size |-> f[k]]
    <3>1. BytesOf(i) = ContentOf(inode_table[i], fs_data)
      BY <1>2, FilesSound
    <3>2. BytesOf(i) = [k \in 1 .. size |-> BytesOf(i)[k]]
      BY <1>1, <3>1 DEF ContentOf
    <3>. QED  BY <3>2
  <2>2. Len([k \in 1 .. size |-> f[k]]) = size /\ (size = 0 => [k \in 1 .. size |-> f[k]] = <<>>)
    OBVIOUS
  <2>3. Len(BytesOf(i)) = size /\ (size = 0 => BytesOf(i) = <<>>)
    BY <2>1, <2>2, Zenon
  <2>. QED  BY <1>1, <1>2, <2>2, <2>3
<1>3. CASE i \notin Files
  BY <1>3 DEF BytesOf
<1>. QED  BY <1>2, <1>3

\* and that they stay when nothing changes.
LEMMA BytesKept ==
    ASSUME NEW i, inode_table'[i] = inode_table[i], freeinode_ts'[i] = freeinode_ts[i],
           UNCHANGED fs_data
    PROVE  BytesOf(i)' = BytesOf(i)
BY DEF BytesOf, Files, BlockNumber, HasIndirect, IntAt, CellOf

\* The same for all files.
LEMMA ContentsKept ==
    ASSUME UNCHANGED <<inode_table, freeinode_ts, fs_data>>
    PROVE  UNCHANGED Contents
BY BytesKept DEF Contents

-----------------------------------------------------------------------------
(* Every action is one of FineFiles, or changes nothing that it sees. *)

\* The threads that do not move are where they were.
LEMMA OthersPut ==
    ASSUME NEW t \in Threads, Moved(t)
    PROVE  \A u \in Threads \ {t} : StaysPut(u)
BY DEF Moved, StaysPut

\* The steps that FineFiles does not see.
LEMMA AsideRefines ==
    ASSUME CareInv, NEW t \in Threads,
           \/ CloseStart(t) \/ CopyOpened(t) \/ DestroyEnter(t) \/ DestroyRecheck(t)
           \/ DestroyMutex(t) \/ SpuriousWakeup(t)
           \/ \E h \in Handles, len \in Lens \cup {BLOCK_SIZE} : ReadStart(t, h, len)
           \/ \E h \in Handles, len \in Lens : WriteStart(t, h, len)
    PROVE  UNCHANGED Abstract!vars
<1>0. Shape
  BY SizesFacts DEF CareInv
<1>1. Moved(t)
  BY <1>0, CloseStartMoves, OtherMoves, DestroyMoves, ReadStartMoves, WriteStartMoves
<1>2. pc[t] \notin Stages
  BY DEF CloseStart, CopyOpened, DestroyEnter, DestroyRecheck, DestroyMutex,
         SpuriousWakeup, ReadStart, WriteStart, Stages, Opens, Writing
<1>3. pc'[t] \notin Stages
  BY <1>0, CloseStartMoves, OtherMoves, DestroyMoves, ReadStartMoves, WriteStartMoves
  DEF Stages, Opens, Writing
<1>4. UNCHANGED stateVars
  BY DEF CloseStart, CopyOpened, DestroyEnter, DestroyRecheck, DestroyMutex,
         SpuriousWakeup, ReadStart, WriteStart
<1>5. UNCHANGED <<root_dir, inode_table, freeinode_ts, fs_data, open_file_table,
                  free_open_file_entries>>
  BY <1>4 DEF stateVars, fileVars, entryVars
<1>6. UNCHANGED <<Openings, Writings>>
  <2>1. \A u \in Threads : StaysPut(u)
    BY <1>1, <1>2, <1>3, OthersPut DEF StaysPut
  <2>. QED  BY <2>1, CallsKept
<1>. QED  BY <1>5, <1>6, NamesKept, PositionsKept, ContentsKept DEF Abstract!vars

\* A lookup begins an open.
LEMMA OpenStartRefines ==
    ASSUME CareInv, NEW t \in Threads, OpenStart(t)
    PROVE  Abstract!Admit(t)
<1>0. Shape /\ pc[t] = "idle" /\ UNCHANGED stateVars
  BY SizesFacts DEF CareInv, OpenStart
<1>1. Moved(t) /\ pc'[t] \in Opens
  BY <1>0, OpenStartMoves DEF Opens
<1>2. PICK n \in Names, flags \in FlagSets \cup {{}}, copy \in BOOLEAN :
          LET call == [NoArg EXCEPT !.name = n, !.flags = flags, !.copy = copy] IN
          \/ \E s \in DirSlots : Goes(t, "found", [call EXCEPT !.inum = root_dir[s].d_inumber])
          \/ Goes(t, "create", call)
  BY DEF OpenStart
<1>3. arg'[t].name = n /\ arg'[t].flags = flags
  <2>. DEFINE call == [NoArg EXCEPT !.name = n, !.flags = flags, !.copy = copy]
  <2>1. call.flags = flags /\ call.name = n /\ IsArg(call)
    BY DEF NoArg, IsArg
  <2>2. \/ \E s \in DirSlots : Goes(t, "found", [call EXCEPT !.inum = root_dir[s].d_inumber])
        \/ Goes(t, "create", call)
    BY <1>2
  <2>. HIDE DEF call
  <2>3. CASE Goes(t, "create", call)
    BY <1>0, <2>1, <2>3 DEF Goes, Shape
  <2>4. ASSUME NEW s \in DirSlots,
               Goes(t, "found", [call EXCEPT !.inum = root_dir[s].d_inumber])
        PROVE  arg'[t].name = n /\ arg'[t].flags = flags
    <3>1. PICK i : i = root_dir[s].d_inumber
      OBVIOUS
    <3>2. arg'[t] = [call EXCEPT !.inum = i]
      BY <1>0, <2>4, <3>1 DEF Goes, Shape
    <3>. QED  BY <2>1, <3>2 DEF IsArg
  <2>. QED  BY <2>2, <2>3, <2>4
<1>4. Openings[t] = Abstract!NoOpen
  BY <1>0, CallsAre DEF Opens
<1>5. Openings'[t] = [Abstract!NoOpen EXCEPT !.stage = "asked", !.name = n, !.flags = flags]
  <2>1. Openings'[t] = [stage |-> "asked", name |-> n, flags |-> flags,
                        at |-> Abstract!Closed]
    BY <1>1, <1>3, CallsNext
  <2>2. PICK x : x = [Abstract!NoOpen EXCEPT !.stage = "asked", !.name = n, !.flags = flags]
    OBVIOUS
  <2>3. x \in [stage : {"asked"}, name : {n}, flags : {flags}, at : {Abstract!Closed}]
    BY <2>2 DEF Abstract!NoOpen
  <2>4. x = [stage |-> "asked", name |-> n, flags |-> flags, at |-> Abstract!Closed]
    BY <2>3
  <2>. QED  BY <2>1, <2>2, <2>4, Zenon
<1>6. Openings' = [Openings EXCEPT ![t] = Openings'[t]]
  BY <1>1, OthersPut, CallsMoved
<1>7. UNCHANGED Writings
  <2>1. pc[t] \notin Writing /\ pc'[t] \notin Writing
    BY <1>0, <1>1 DEF Writing, Opens
  <2>. QED  BY <1>1, <2>1, OthersPut, WritesKept
<1>8. UNCHANGED <<Namespace, Contents, Positions>>
  BY <1>0, NamesKept, PositionsKept, ContentsKept DEF stateVars, fileVars, entryVars
<1>9. Openings' = [Openings EXCEPT ![t] =
          [Abstract!NoOpen EXCEPT !.stage = "asked", !.name = n, !.flags = flags]]
  BY <1>5, <1>6, Zenon
<1>. QED  BY <1>4, <1>7, <1>8, <1>9, Zenon DEF Abstract!Admit

\* A thread gives an open up.
LEMMA GivenUp ==
    ASSUME NEW t \in Threads, pc[t] \in Opens \cup {"add"}, Moved(t), pc'[t] = "idle",
           UNCHANGED <<Namespace, Contents, Positions>>
    PROVE  Abstract!OpenGivenUp(t)
<1>1. Openings[t] # Abstract!NoOpen
  <2>1. Openings[t].stage # "none"
    <3>1. CASE pc[t] \in Opens
      <4>1. Openings[t] = [stage |-> "asked", name |-> arg[t].name,
                           flags |-> arg[t].flags, at |-> Abstract!Closed]
        BY <3>1, CallsAre
      <4>. QED  BY <4>1
    <3>2. CASE pc[t] = "add"
      <4>1. Openings[t] = [stage |-> "found", name |-> NoName, flags |-> {},
                           at |-> [file |-> arg[t].inum, offset |-> arg[t].offset]]
        BY <3>2, CallsAre
      <4>. QED  BY <4>1
    <3>. QED  BY <3>1, <3>2
  <2>2. Abstract!NoOpen.stage = "none"
    BY DEF Abstract!NoOpen
  <2>. QED  BY <2>1, <2>2
<1>2. Openings' = [Openings EXCEPT ![t] = Openings'[t]]
  BY OthersPut, CallsMoved
<1>3. Openings'[t] = Abstract!NoOpen
  BY CallsNext DEF Opens
<1>4. UNCHANGED Writings
  <2>1. pc[t] \notin Writing /\ pc'[t] \notin Writing
    BY DEF Writing, Opens
  <2>. QED  BY <2>1, OthersPut, WritesKept
<1>. QED  BY <1>1, <1>2, <1>3, <1>4 DEF Abstract!OpenGivenUp

\* An entry of the open file table is tried, and claimed if it is free.
LEMMA AddScanRefines ==
    ASSUME CareInv, NEW t \in Threads, AddScan(t)
    PROVE  \/ \E h \in Handles : Abstract!HandOut(t, h)
           \/ Abstract!OpenGivenUp(t)
           \/ UNCHANGED Abstract!vars
<1>0. /\ Shape /\ pc[t] = "add" /\ IsArg(arg[t]) /\ UNCHANGED fileVars
      /\ open_file_table = [g \in Handles |-> open_file_table[g]]
      /\ free_open_file_entries \in [Handles -> {FREE, TAKEN}]
  BY SizesFacts DEF CareInv, AddScan
<1>1. Moved(t)
  BY <1>0, AddScanMoves
<1>2. UNCHANGED <<Namespace, Contents>>
  BY <1>0, NamesKept, ContentsKept DEF fileVars
<1>3. PICK h \in Handles : h = arg[t].scan
  BY <1>0, SizesFacts DEF CareInv, Local
<1>4. Openings[t] = [stage |-> "found", name |-> NoName, flags |-> {},
                     at |-> [file |-> arg[t].inum, offset |-> arg[t].offset]]
  BY <1>0, CallsAre
<1>5. Openings' = [Openings EXCEPT ![t] = Openings'[t]]
  BY <1>1, OthersPut, CallsMoved
<1>6. CASE ~UNCHANGED entryVars
  <2>1. /\ free_open_file_entries[h] = FREE
        /\ free_open_file_entries' = [free_open_file_entries EXCEPT ![h] = TAKEN]
        /\ open_file_table' = [open_file_table EXCEPT ![h] =
              [of_inumber |-> arg[t].inum, of_offset |-> arg[t].offset]]
    BY <1>3, <1>6 DEF AddScan, MayClaim
  <2>2. pc'[t] \in {"idle", "opened"}
    BY <1>0, <1>6, AddScanMoves
  <2>3. Positions[h] = Abstract!Closed
    <3>1. h \notin TakenEntries
      BY <2>1 DEF TakenEntries, FREE, TAKEN
    <3>. QED  BY <3>1, PositionsAre DEF CareInv
  <2>4. Positions' = [Positions EXCEPT ![h] = Openings[t].at]
    <3>1. Positions'[h] = Openings[t].at
      BY <1>0, <1>4, <2>1 DEF Positions, PositionOf, FREE, TAKEN
    <3>2. \A g \in Handles \ {h} : Positions'[g] = Positions[g]
      BY <1>0, <2>1 DEF Positions, PositionOf
    <3>. QED  BY <3>1, <3>2 DEF Positions
  <2>5. Openings'[t] = Abstract!NoOpen
    BY <2>2, CallsNext DEF Opens
  <2>6. UNCHANGED Writings
    <3>1. pc[t] \notin Writing /\ pc'[t] \notin Writing
      BY <1>0, <2>2 DEF Writing
    <3>. QED  BY <1>1, <3>1, OthersPut, WritesKept
  <2>7. Openings[t].stage = "found"
    BY <1>4
  <2>8. Abstract!HandOut(t, h)
    BY <1>2, <1>5, <2>3, <2>4, <2>5, <2>6, <2>7 DEF Abstract!HandOut
  <2>. QED  BY <2>8
<1>7. CASE UNCHANGED entryVars
  <2>1. UNCHANGED Positions
    BY <1>7, PositionsKept DEF entryVars
  <2>2. pc'[t] = "idle" \/ (pc'[t] = "add" /\ Goes(t, "add", [arg[t] EXCEPT !.scan = h + 1]))
    <3>1. open_files_count \in Int /\ open_files_count' = open_files_count
      BY <1>7 DEF entryVars, CareInv, SizesInv, HandleInv, EntryTypes
    <3>2. \/ pc'[t] = "idle"
          \/ Goes(t, "add", [arg[t] EXCEPT !.scan = h + 1])
      BY <1>0, <1>3, <3>1, ReturnMoves DEF AddScan
    <3>. QED  BY <1>0, <3>2 DEF Goes, Shape
  <2>3. CASE pc'[t] = "idle"
    BY <1>0, <1>1, <1>2, <2>1, <2>3, GivenUp
  <2>4. CASE pc'[t] = "add" /\ Goes(t, "add", [arg[t] EXCEPT !.scan = h + 1])
    <3>1. PICK g : g = h + 1
      OBVIOUS
    <3>2. arg'[t] = [arg[t] EXCEPT !.scan = g]
      BY <1>0, <2>4, <3>1 DEF Goes, Shape
    <3>3. arg'[t].inum = arg[t].inum /\ arg'[t].offset = arg[t].offset
      BY <1>0, <3>2 DEF IsArg
    <3>4. Openings'[t] = Openings[t]
      <4>1. Openings'[t] = [stage |-> "found", name |-> NoName, flags |-> {},
                            at |-> [file |-> arg[t].inum, offset |-> arg[t].offset]]
        BY <2>4, <3>3, CallsNext
      <4>. QED  BY <1>4, <4>1
    <3>5. UNCHANGED Openings
      BY <1>5, <3>4 DEF Openings
    <3>6. UNCHANGED Writings
      <4>1. pc[t] \notin Writing /\ pc'[t] \notin Writing
        BY <1>0, <2>4 DEF Writing
      <4>. QED  BY <1>1, <4>1, OthersPut, WritesKept
    <3>. QED  BY <1>2, <2>1, <3>5, <3>6 DEF Abstract!vars
  <2>. QED  BY <2>2, <2>3, <2>4
<1>. QED  BY <1>6, <1>7

\* The section under open_files_mutex closes the handle, which nobody uses.
LEMMA CloseEndRefines ==
    ASSUME CareInv, NEW t \in Threads, CloseEnd(t)
    PROVE  \E h \in Handles : Abstract!Close(h)
<1>0. /\ Shape /\ pc[t] = "close" /\ UNCHANGED <<fileVars, open_file_table>>
      /\ free_open_file_entries \in [Handles -> {FREE, TAKEN}]
      /\ Local(t) /\ Alone(t)
  BY SizesFacts DEF CareInv, CloseEnd, HandleInv, SizesInv
<1>1. PICK h \in Handles : h = arg[t].fh /\ h \in TakenEntries
  BY <1>0 DEF Local, InHandleCall, TakenEntries
<1>2. free_open_file_entries' = [free_open_file_entries EXCEPT ![h] = FREE]
  BY <1>1 DEF CloseEnd
<1>3. \A u \in Threads : StaysPut(u)
  BY <1>0, CloseEndMoves DEF StaysPut, Stages, Opens, Writing
<1>4. UNCHANGED <<Openings, Writings>>
  BY <1>3, CallsKept
<1>5. UNCHANGED <<Namespace, Contents>>
  BY <1>0, NamesKept, ContentsKept DEF fileVars
<1>6. Positions[h] # Abstract!Closed
  BY <1>1, PositionsAre DEF CareInv
<1>7. ASSUME NEW u \in Threads PROVE Writings[u].handle # h
  <2>1. CASE pc[u] \in Writing
    <3>1. Writings[u] = [handle |-> arg[u].fh, left |-> arg[u].left, bytes |-> {arg[u].byte}]
      BY <2>1, CallsAre
    <3>2. arg[u].fh # h
      BY <1>0, <1>1, <2>1 DEF Alone, InHandleCall, Writing
    <3>. QED  BY <3>1, <3>2
  <2>2. CASE pc[u] \notin Writing
    <3>1. Writings[u] = Abstract!NoWrite
      BY <2>2, CallsAre
    <3>2. Abstract!NoWrite.handle = -1 /\ h # -1
      BY DEF Abstract!NoWrite, Handles
    <3>. QED  BY <3>1, <3>2
  <2>. QED  BY <2>1, <2>2
<1>8. Positions' = [Positions EXCEPT ![h] = Abstract!Closed]
  <2>1. Positions'[h] = Abstract!Closed
    BY <1>0, <1>2 DEF Positions, PositionOf, Abstract!Closed, Abstract!NoFile
  <2>2. \A g \in Handles \ {h} : Positions'[g] = Positions[g]
    BY <1>0, <1>2 DEF Positions, PositionOf
  <2>. QED  BY <2>1, <2>2 DEF Positions
<1>9. Abstract!Close(h)
  BY <1>4, <1>5, <1>6, <1>7, <1>8 DEF Abstract!Close
<1>. QED  BY <1>9

\* The file that a name stands for.
LEMMA NameFound ==
    ASSUME DirInv, NEW n \in Names, NEW s \in Named(n)
    PROVE  Named(n) = {s} /\ FileNamed(n) = root_dir[s].d_inumber
<1>1. ASSUME NEW r \in Named(n) PROVE r = s
  BY DEF DirInv, DirectoryConsistent, Named, LinkedSlots
<1>2. Named(n) = {s} /\ s \in DirSlots
  BY <1>1 DEF Named
<1>3. s \in Int
  BY <1>2 DEF DirSlots
<1>4. \A r \in DirSlots : IsFirst(Named(n), r) <=> r = s
  BY <1>2, <1>3 DEF IsFirst
<1>. QED  BY <1>2, <1>4 DEF FileNamed

\* The same, in the state after a step.
LEMMA NameEntered ==
    ASSUME NEW n \in Names, NEW s \in DirSlots, Named(n)' = {s}
    PROVE  FileNamed(n)' = root_dir'[s].d_inumber
<1>1. s \in Int
  BY DEF DirSlots
<1>2. \A r \in DirSlots : IsFirst(Named(n), r)' <=> r = s
  BY <1>1 DEF IsFirst
<1>. QED  BY <1>2 DEF FileNamed

\* How many bytes an i-node has after a step.
LEMMA FileBytesNext ==
    ASSUME CareInv', NEW i \in Inums
    PROVE  /\ i \notin Files' \/ inode_table'[i].i_size = 0 => BytesOf(i)' = <<>>
           /\ i \in Files' => Len(BytesOf(i)') = inode_table'[i].i_size
<1>1. PICK size \in Nat : size = inode_table'[i].i_size
  BY DEF CareInv, SizesInv, TypesInv, TableTypes, Inode
<1>2. CASE i \in Files'
  <2>1. PICK f : BytesOf(i)' = [k \in 1 .. size |-> f[k]]
    <3>1. BytesOf(i)' = ContentOf(inode_table'[i], fs_data')
      BY <1>2, FilesSoundNext
    <3>2. BytesOf(i)' = [k \in 1 .. size |-> BytesOf(i)'[k]]
      BY <1>1, <3>1 DEF ContentOf
    <3>. QED  BY <3>2
  <2>2. Len([k \in 1 .. size |-> f[k]]) = size /\ (size = 0 => [k \in 1 .. size |-> f[k]] = <<>>)
    OBVIOUS
  <2>3. Len(BytesOf(i)') = size /\ (size = 0 => BytesOf(i)' = <<>>)
    BY <2>1, <2>2, Zenon
  <2>. QED  BY <1>1, <1>2, <2>3
<1>3. CASE i \notin Files'
  BY <1>3 DEF BytesOf
<1>. QED  BY <1>2, <1>3

\* A thread has chosen the file it opens, and where.
LEMMA FileChosen ==
    ASSUME NEW t \in Threads, Moved(t), pc'[t] = "add"
    PROVE  Openings' = [Openings EXCEPT ![t] = [Abstract!NoOpen EXCEPT
              !.stage = "found", !.at = [file |-> arg'[t].inum, offset |-> arg'[t].offset]]]
<1>1. Openings' = [Openings EXCEPT ![t] = Openings'[t]]
  BY OthersPut, CallsMoved
<1>2. PICK at : at = [file |-> arg'[t].inum, offset |-> arg'[t].offset]
  OBVIOUS
<1>3. Openings'[t] = [stage |-> "found", name |-> NoName, flags |-> {}, at |-> at]
  BY <1>2, CallsNext
<1>4. PICK x : x = [Abstract!NoOpen EXCEPT !.stage = "found", !.at = at]
  OBVIOUS
<1>5. x \in [stage : {"found"}, name : {NoName}, flags : {{}}, at : {at}]
  BY <1>4 DEF Abstract!NoOpen
<1>6. x = [stage |-> "found", name |-> NoName, flags |-> {}, at |-> at]
  BY <1>5
<1>. QED  BY <1>1, <1>2, <1>3, <1>4, <1>6, Zenon

\* A file that is there is opened, and emptied if the flags say so.
LEMMA OpenExistingRefines ==
    ASSUME CareInv, CareInv', NEW t \in Threads, OpenExisting(t)
    PROVE  Abstract!OpenOld(t)
<1>0. /\ Shape /\ DirInv /\ TypesInv /\ pc[t] = "found" /\ IsArg(arg[t]) /\ Step(t)
      /\ UNCHANGED <<freeinode_ts, fs_data, root_dir, entryVars>>
  BY SizesFacts DEF CareInv, OpenExisting, SizesInv
<1>1. PICK i \in FileInums : i = arg[t].inum /\ i \in Files /\ i \in Inums /\ InodeFree(i)
  BY <1>0, SizesFacts DEF CareInv, Locals, OpenExisting, Files, FileInums
<1>2. PICK n \in Names, flags \in {arg[t].flags} : n = arg[t].name /\ flags = arg[t].flags
  BY <1>0 DEF DirInv, Creating, Opens
<1>3. "TRUNC" \in flags => ~TruncFails(i)
  BY <1>0, <1>1, <1>2 DEF Step, Truncates, CareInv, Disciplined
<1>4. PICK off : off = IF "APPEND" \in flags THEN inode_table'[i].i_size ELSE 0
  OBVIOUS
<1>5. /\ Goes(t, "add", [arg[t] EXCEPT !.offset = off])
      /\ IF "TRUNC" \in flags THEN TruncatedInode(i) ELSE UNCHANGED inode_table
  BY <1>1, <1>2, <1>3, <1>4 DEF OpenExisting
<1>6. Moved(t) /\ pc'[t] = "add" /\ arg'[t].inum = i /\ arg'[t].offset = off
  <2>. DEFINE new == [arg[t] EXCEPT !.offset = off]
  <2>1. IsArg(new) /\ new.inum = i /\ new.offset = off
    BY <1>0, <1>1 DEF IsArg
  <2>2. Goes(t, "add", new)
    BY <1>5
  <2>. HIDE DEF new
  <2>. QED  BY <1>0, <2>1, <2>2, GoesMoves DEF Pcs
<1>7. Openings[t].stage = "asked" /\ Openings[t].name = n /\ Openings[t].flags = flags
  <2>1. Openings[t] = [stage |-> "asked", name |-> n, flags |-> flags,
                       at |-> Abstract!Closed]
    BY <1>0, <1>2, CallsAre DEF Opens
  <2>. QED  BY <2>1
<1>8. Namespace[n] = i
  <2>1. PICK s \in Named(n) : root_dir[s].d_inumber = i
    BY <1>0, <1>1, <1>2 DEF Step, Adding
  <2>. QED  BY <1>0, <2>1, NameFound DEF Namespace
<1>9. i # Abstract!NoFile
  BY <1>1 DEF Inums, Abstract!NoFile
<1>10. ~Abstract!Busy(i)
  BY <1>1, NotBusy
<1>11. i \in Files' /\ Contents'[i] = BytesOf(i)' /\ Len(BytesOf(i)') = inode_table'[i].i_size
  BY <1>0, <1>1, FileBytesNext DEF Files, Contents
<1>12. Contents' = IF "TRUNC" \in flags THEN [Contents EXCEPT ![i] = <<>>] ELSE Contents
  <2>1. CASE "TRUNC" \notin flags
    BY <1>0, <1>5, <2>1, ContentsKept
  <2>2. CASE "TRUNC" \in flags
    <3>1. /\ \A j \in Inums \ {i} : inode_table'[j] = inode_table[j]
          /\ inode_table'[i].i_size = 0
      BY <1>0, <1>1, <1>3, <1>5, <2>2, TruncatedOthers, TruncatedType
    <3>2. BytesOf(i)' = <<>>
      BY <1>1, <3>1, FileBytesNext
    <3>3. \A j \in FileInums \ {i} : BytesOf(j)' = BytesOf(j)
      BY <1>0, <3>1, BytesKept DEF FileInums
    <3>. QED  BY <2>2, <3>2, <3>3 DEF Contents
  <2>. QED  BY <2>1, <2>2
<1>13. off = IF "APPEND" \in flags THEN Len(Contents'[i]) ELSE 0
  BY <1>4, <1>11
<1>14. Openings' = [Openings EXCEPT ![t] = [Abstract!NoOpen EXCEPT
          !.stage = "found", !.at = [file |-> i, offset |-> off]]]
  BY <1>6, FileChosen
<1>15. UNCHANGED Writings
  <2>1. pc[t] \notin Writing /\ pc'[t] \notin Writing
    BY <1>0, <1>6 DEF Writing
  <2>. QED  BY <1>6, <2>1, OthersPut, WritesKept
<1>16. UNCHANGED <<Namespace, Positions>>
  BY <1>0, NamesKept, PositionsKept DEF entryVars
<1>17. Abstract!Found(t, i, IF "APPEND" \in flags THEN Len(Contents'[i]) ELSE 0)
  BY <1>13, <1>14, Zenon DEF Abstract!Found
<1>. QED  BY <1>7, <1>8, <1>9, <1>10, <1>12, <1>15, <1>16, <1>17, Zenon
          DEF Abstract!OpenOld

\* A new i-node is an empty file without a name: nothing is seen of it.
LEMMA CreateScanRefines ==
    ASSUME CareInv, CareInv', NEW t \in Threads, CreateScan(t)
    PROVE  Abstract!OpenGivenUp(t) \/ UNCHANGED Abstract!vars
<1>0. /\ Shape /\ DirInv /\ TypesInv /\ pc[t] = "create" /\ IsArg(arg[t])
      /\ UNCHANGED <<fs_data, root_dir, entryVars>>
      /\ freeinode_ts \in [Inums -> {FREE, TAKEN}] /\ inode_table \in [Inums -> Inode]
  BY SizesFacts DEF CareInv, CreateScan, DirInv, DirTypes
<1>1. PICK i \in Inums : i = arg[t].scan
  BY <1>0 DEF DirInv, Creating
<1>2. Moved(t) /\ pc'[t] \in {"idle", "create", "link"}
  BY <1>0, CreateScanMoves
<1>3. UNCHANGED <<Namespace, Positions>>
  BY <1>0, NamesKept, PositionsKept DEF entryVars
<1>4. UNCHANGED Contents
  <2>1. CASE UNCHANGED <<inode_table, freeinode_ts>>
    BY <1>0, <2>1, ContentsKept
  <2>2. CASE ~UNCHANGED <<inode_table, freeinode_ts>>
    <3>1. /\ freeinode_ts[i] = FREE /\ freeinode_ts' = [freeinode_ts EXCEPT ![i] = TAKEN]
          /\ inode_table' = [inode_table EXCEPT ![i] = EmptyInode]
      BY <1>1, <2>2 DEF CreateScan
    <3>2. i \notin Files /\ inode_table'[i].i_size = 0
      BY <1>0, <3>1 DEF Files, FREE, TAKEN, EmptyInode
    <3>3. BytesOf(i) = <<>> /\ BytesOf(i)' = <<>>
      BY <3>2, FileBytes, FileBytesNext
    <3>4. \A j \in Inums \ {i} : BytesOf(j)' = BytesOf(j)
      <4>1. \A j \in Inums \ {i} : inode_table'[j] = inode_table[j]
                                   /\ freeinode_ts'[j] = freeinode_ts[j]
        BY <1>0, <3>1
      <4>. QED  BY <1>0, <4>1, BytesKept
    <3>. QED  BY <3>3, <3>4 DEF Contents, FileInums
  <2>. QED  BY <2>1, <2>2
<1>5. CASE pc'[t] = "idle"
  <2>1. pc[t] \in Opens \cup {"add"}
    BY <1>0 DEF Opens
  <2>. QED  BY <1>2, <1>3, <1>4, <1>5, <2>1, GivenUp
<1>6. CASE pc'[t] \in {"create", "link"}
  <2>1. arg'[t].name = arg[t].name /\ arg'[t].flags = arg[t].flags
    <3>1. PICK next : next = i + 1
      OBVIOUS
    <3>2. \/ arg'[t] = [arg[t] EXCEPT !.inum = i]
          \/ arg'[t] = [arg[t] EXCEPT !.scan = next]
      BY <1>0, <1>1, <1>6, <3>1, ReturnMoves DEF CreateScan, Goes, Shape
    <3>. QED  BY <1>0, <3>2 DEF IsArg
  <2>2. Openings'[t] = Openings[t]
    <3>1. Openings[t] = [stage |-> "asked", name |-> arg[t].name, flags |-> arg[t].flags,
                         at |-> Abstract!Closed]
      BY <1>0, CallsAre DEF Opens
    <3>2. Openings'[t] = [stage |-> "asked", name |-> arg'[t].name,
                          flags |-> arg'[t].flags, at |-> Abstract!Closed]
      BY <1>6, CallsNext DEF Opens
    <3>. QED  BY <2>1, <3>1, <3>2
  <2>3. UNCHANGED Openings
    <3>1. Openings' = [Openings EXCEPT ![t] = Openings'[t]]
      BY <1>2, OthersPut, CallsMoved
    <3>. QED  BY <2>2, <3>1 DEF Openings
  <2>4. UNCHANGED Writings
    <3>1. pc[t] \notin Writing /\ pc'[t] \notin Writing
      BY <1>0, <1>6 DEF Writing
    <3>. QED  BY <1>2, <3>1, OthersPut, WritesKept
  <2>. QED  BY <1>3, <1>4, <2>3, <2>4 DEF Abstract!vars
<1>. QED  BY <1>2, <1>5, <1>6

\* The entry in the directory makes it a file; without one it is freed.
LEMMA OpenLinkRefines ==
    ASSUME CareInv, CareInv', NEW t \in Threads, OpenLink(t)
    PROVE  Abstract!OpenNew(t) \/ Abstract!OpenGivenUp(t)
<1>0. /\ Shape /\ DirInv /\ TypesInv /\ pc[t] = "link" /\ IsArg(arg[t])
      /\ UNCHANGED <<fs_data, inode_table, entryVars>>
      /\ freeinode_ts \in [Inums -> {FREE, TAKEN}] /\ Creating(t) /\ Made(t)
      /\ arg[t].offset = 0
      /\ root_dir \in [DirSlots -> [d_inumber : Inums \cup {-1},
                                    d_name : Names \cup {NoName}]]
  BY SizesFacts DEF CareInv, OpenLink, DirInv, DirTypes, Care, SizesInv, Step, Adding
<1>1. PICK i \in FileInums : /\ i = arg[t].inum /\ i \in Files /\ i \in Inums
                             /\ inode_table[i].i_size = 0
  BY <1>0 DEF Creating, Made, Files, FileInums
<1>2. PICK n \in Names, flags \in {arg[t].flags} :
          /\ n = arg[t].name /\ Named(n) = {}
          /\ flags = arg[t].flags /\ "CREAT" \in flags
  BY <1>0 DEF Creating, Made, Opens
<1>3. Moved(t) /\ pc'[t] \in {"idle", "add"}
  BY <1>0, OpenLinkMoves
<1>4. UNCHANGED Positions
  BY <1>0, PositionsKept DEF entryVars
<1>5. UNCHANGED Contents
  <2>1. BytesOf(i) = <<>> /\ BytesOf(i)' = <<>>
    BY <1>0, <1>1, FileBytes, FileBytesNext
  <2>2. \A j \in Inums \ {i} : freeinode_ts'[j] = freeinode_ts[j]
    BY <1>0, <1>1 DEF OpenLink
  <2>3. \A j \in Inums \ {i} : BytesOf(j)' = BytesOf(j)
    BY <1>0, <2>2, BytesKept
  <2>. QED  BY <2>1, <2>3 DEF Contents, FileInums
<1>6. UNCHANGED Writings
  <2>1. pc[t] \notin Writing /\ pc'[t] \notin Writing
    BY <1>0, <1>3 DEF Writing
  <2>. QED  BY <1>3, <2>1, OthersPut, WritesKept
<1>7. ASSUME NEW s \in DirSlots, IsFirst(EmptySlots, s),
             root_dir' = [root_dir EXCEPT ![s] = [d_inumber |-> i, d_name |-> n]],
             Goes(t, "add", [arg[t] EXCEPT !.scan = 0])
      PROVE  Abstract!OpenNew(t)
  <2>1. pc'[t] = "add" /\ arg'[t].inum = i /\ arg'[t].offset = 0
    <3>1. arg'[t] = [arg[t] EXCEPT !.scan = 0] /\ pc'[t] = "add"
      BY <1>0, <1>7 DEF Goes, Shape
    <3>. QED  BY <1>0, <1>1, <3>1 DEF IsArg
  <2>2. /\ root_dir'[s] = [d_inumber |-> i, d_name |-> n]
        /\ \A r \in DirSlots \ {s} : root_dir'[r] = root_dir[r]
        /\ root_dir[s].d_inumber = -1 /\ i # -1
    BY <1>0, <1>1, <1>7 DEF IsFirst, EmptySlots, Inums
  <2>3. Namespace' = [Namespace EXCEPT ![n] = i]
    <3>1. FileNamed(n)' = i
      <4>1. Named(n)' = {s}
        BY <1>2, <2>2 DEF Named
      <4>. QED  BY <2>2, <4>1, NameEntered
    <3>2. ASSUME NEW m \in Names \ {n} PROVE FileNamed(m)' = FileNamed(m)
      <4>1. Named(m)' = Named(m) /\ s \notin Named(m)
        BY <2>2 DEF Named
      <4>2. CASE Named(m) = {}
        BY <4>1, <4>2 DEF FileNamed
      <4>3. ASSUME NEW r \in Named(m) PROVE FileNamed(m)' = FileNamed(m)
        <5>1. Named(m) = {r} /\ FileNamed(m) = root_dir[r].d_inumber /\ r \in DirSlots
          BY <1>0, NameFound DEF Named
        <5>2. FileNamed(m)' = root_dir'[r].d_inumber
          BY <4>1, <5>1, NameEntered
        <5>. QED  BY <2>2, <4>1, <5>1, <5>2
      <4>. QED  BY <4>2, <4>3
    <3>. QED  BY <3>1, <3>2 DEF Namespace
  <2>4. ASSUME NEW m \in Names PROVE Namespace[m] # i
    <3>1. CASE Named(m) = {}
      BY <2>2, <3>1 DEF Namespace, FileNamed
    <3>2. ASSUME NEW r \in Named(m) PROVE Namespace[m] # i
      <4>1. FileNamed(m) = root_dir[r].d_inumber
        BY <1>0, NameFound
      <4>2. r \in LinkedSlots
        BY DEF Named, LinkedSlots
      <4>3. root_dir[r].d_inumber # i
        BY <1>0, <1>1, <4>2 DEF Creating
      <4>. QED  BY <4>1, <4>3 DEF Namespace
    <3>. QED  BY <3>1, <3>2
  <2>5. Contents' = [Contents EXCEPT ![i] = <<>>]
    <3>1. BytesOf(i) = <<>>
      BY <1>1, FileBytes
    <3>2. [Contents EXCEPT ![i] = <<>>] = Contents
      BY <3>1 DEF Contents
    <3>. QED  BY <1>5, <3>2
  <2>6. Abstract!Found(t, i, 0)
    BY <1>3, <2>1, FileChosen DEF Abstract!Found
  <2>7. Openings[t].stage = "asked" /\ Openings[t].name = n /\ Openings[t].flags = flags
    <3>1. Openings[t] = [stage |-> "asked", name |-> n, flags |-> flags,
                         at |-> Abstract!Closed]
      BY <1>0, <1>2, CallsAre DEF Opens
    <3>. QED  BY <3>1
  <2>8. Namespace[n] = Abstract!NoFile
    BY <1>2 DEF Namespace, FileNamed, Abstract!NoFile
  <2>9. \E f \in FileInums :
            /\ \A m \in Names : Namespace[m] # f
            /\ Namespace' = [Namespace EXCEPT ![n] = f]
            /\ Contents' = [Contents EXCEPT ![f] = <<>>]
            /\ Abstract!Found(t, f, 0)
    BY <1>1, <2>3, <2>4, <2>5, <2>6
  <2>. QED  BY <1>2, <1>4, <1>6, <2>7, <2>8, <2>9, Zenon DEF Abstract!OpenNew
<1>8. ASSUME Return(t), UNCHANGED root_dir
      PROVE  Abstract!OpenGivenUp(t)
  <2>1. pc'[t] = "idle" /\ pc[t] \in Opens \cup {"add"}
    BY <1>0, <1>8, ReturnMoves DEF Opens
  <2>. QED  BY <1>3, <1>4, <1>5, <1>8, <2>1, NamesKept, GivenUp
<1>9. PICK stored : stored = Stored[arg[t].name] /\ stored = n
  BY <1>2 DEF CareInv, Disciplined, Careful, NamesWhole
<1>. QED  BY <1>1, <1>7, <1>8, <1>9 DEF OpenLink

\* A thread whose next stage is a round of tfs_write.
LEMMA WriteGoesOn ==
    ASSUME NEW t \in Threads, Moved(t), pc'[t] \in Writing
    PROVE  Writings' = [Writings EXCEPT ![t] =
              [handle |-> arg'[t].fh, left |-> arg'[t].left, bytes |-> {arg'[t].byte}]]
<1>1. Writings' = [Writings EXCEPT ![t] = Writings'[t]]
  BY OthersPut, CallsMoved
<1>2. Writings'[t] = [handle |-> arg'[t].fh, left |-> arg'[t].left, bytes |-> {arg'[t].byte}]
  BY CallsNext
<1>. QED  BY <1>1, <1>2, Zenon

\* The write begins when the i-node is locked; one of length 0 is not seen.
LEMMA WriteLockRefines ==
    ASSUME CareInv, NEW t \in Threads, WriteLock(t)
    PROVE  (\E h \in Handles : Abstract!WriteBegins(t, h)) \/ UNCHANGED Abstract!vars
<1>0. /\ SizesInv /\ Shape /\ pc[t] = "lock" /\ pc[t] \in Busy /\ IsArg(arg[t]) /\ Care(t)
      /\ UNCHANGED <<inode_table, freeinode_ts, fs_data, root_dir, entryVars>>
  BY SizesFacts DEF CareInv, WriteLock, stateVars, fileVars, Busy
<1>1. PICK h \in Handles, i \in FileInums, left \in {arg[t].left}, byte \in Bytes :
          /\ h = arg[t].fh /\ i = arg[t].inum /\ left = arg[t].left /\ byte = arg[t].byte
          /\ i \in Inums /\ InodeFree(i) /\ h \in TakenEntries
          /\ open_file_table[h].of_inumber = i
  <2>1. arg[t].inum \in FileInums /\ arg[t].fh \in Handles /\ arg[t].inum \in Inums
    BY <1>0, WriterFacts DEF Files, FileInums
  <2>2. arg[t].byte \in Bytes
    BY <1>0, SizesFacts DEF Locals
  <2>. QED  BY <1>0, <2>1, <2>2, WriterFacts, BusyTaken DEF WriteLock
<1>2. Moved(t)
  BY <1>0, WriteLockMoves
<1>3. UNCHANGED <<Namespace, Contents, Positions>>
  BY <1>0, NamesKept, ContentsKept, PositionsKept DEF entryVars
<1>4. CASE left = 0
  <2>1. pc'[t] = "idle"
    BY <1>0, <1>1, <1>4, ReturnMoves DEF WriteLock
  <2>2. \A u \in Threads : StaysPut(u)
    BY <1>0, <1>2, <2>1, OthersPut DEF StaysPut, Stages, Opens, Writing
  <2>. QED  BY <1>3, <2>2, CallsKept DEF Abstract!vars
<1>5. CASE left # 0
  <2>1. /\ pc'[t] = "write" /\ arg'[t].fh = h /\ arg'[t].left = left /\ arg'[t].byte = byte
    <3>1. PICK k, end : Goes(t, "write", [arg[t] EXCEPT !.blk = k, !.end = end])
      BY <1>0, <1>1, <1>5 DEF WriteLock
    <3>. DEFINE new == [arg[t] EXCEPT !.blk = k, !.end = end]
    <3>2. IsArg(new) /\ new.fh = h /\ new.left = left /\ new.byte = byte
      BY <1>0, <1>1 DEF IsArg
    <3>3. Goes(t, "write", new)
      BY <3>1
    <3>. HIDE DEF new
    <3>. QED  BY <1>0, <3>2, <3>3, GoesMoves DEF Pcs
  <2>2. Writings' = [Writings EXCEPT ![t] = [handle |-> h, left |-> left, bytes |-> {byte}]]
    BY <1>2, <2>1, WriteGoesOn DEF Writing
  <2>3. left \in Lens \cup {BLOCK_SIZE}
    BY <1>0, <1>1 DEF Care, Lengths
  <2>4. \E n \in Lens \cup {BLOCK_SIZE}, b \in Bytes :
            Writings' = [Writings EXCEPT ![t] = [handle |-> h, left |-> n, bytes |-> {b}]]
    BY <2>2, <2>3
  <2>5. Writings[t] = Abstract!NoWrite
    BY <1>0, CallsAre DEF Writing
  <2>6. Positions[h] # Abstract!Closed /\ Positions[h].file = i
    <3>1. PICK off : off = open_file_table[h].of_offset
      OBVIOUS
    <3>2. Positions[h] = [file |-> i, offset |-> off] /\ Positions[h] # Abstract!Closed
      BY <1>0, <1>1, <3>1, PositionsAre
    <3>. QED  BY <3>2
  <2>7. ~Abstract!Busy(Abstract!FileOf(h))
    BY <1>1, <2>6, NotBusy DEF Abstract!FileOf
  <2>8. UNCHANGED Openings
    BY <1>0, <1>2, <2>1, OthersPut, OpensKept DEF Opens
  <2>9. Abstract!WriteBegins(t, h)
    BY <1>3, <2>4, <2>5, <2>6, <2>7, <2>8, Zenon DEF Abstract!WriteBegins
  <2>. QED  BY <2>9
<1>. QED  BY <1>4, <1>5

\* tfs_write returns before everything is written.
LEMMA WriteLeft ==
    ASSUME NEW t \in Threads, pc[t] \in Writing, Moved(t), pc'[t] = "idle",
           UNCHANGED <<Namespace, Contents, Positions>>
    PROVE  Abstract!WriteGivenUp(t)
<1>1. Writings[t] # Abstract!NoWrite
  <2>1. Writings[t] = [handle |-> arg[t].fh, left |-> arg[t].left, bytes |-> {arg[t].byte}]
    BY CallsAre
  <2>2. Writings[t].bytes # {} /\ Abstract!NoWrite.bytes = {}
    BY <2>1 DEF Abstract!NoWrite
  <2>. QED  BY <2>2
<1>2. Writings' = [Writings EXCEPT ![t] = Abstract!NoWrite]
  <2>1. Writings'[t] = Abstract!NoWrite
    BY CallsNext DEF Writing
  <2>. QED  BY <2>1, OthersPut, CallsMoved
<1>3. UNCHANGED Openings
  BY OthersPut, OpensKept DEF Writing, Opens
<1>. QED  BY <1>1, <1>2, <1>3, Zenon DEF Abstract!WriteGivenUp

\* A block that is given to a file adds nothing to its bytes.
LEMMA BlockAddsNothing ==
    ASSUME CareInv, CareInv', NEW i \in Files, NEW k \in Direct, NEW b \in Blocks,
           inode_table[i].i_data_block[k] = -1,
           inode_table' = [inode_table EXCEPT ![i].i_data_block[k] = b],
           UNCHANGED <<freeinode_ts, fs_data>>
    PROVE  UNCHANGED Contents
<1>0. i \in Inums /\ inode_table \in [Inums -> Inode] /\ Files' = Files
  BY SizesFacts DEF CareInv, Files
<1>1. PICK inode \in Inode : inode = inode_table[i]
  BY <1>0
<1>2. PICK inode2 : inode2 = inode_table'[i]
  OBVIOUS
<1>3. inode2 = [inode EXCEPT !.i_data_block[k] = b]
  BY <1>0, <1>1, <1>2
<1>4. /\ inode2.i_size = inode.i_size
      /\ \A d \in Direct \ {k} : inode2.i_data_block[d] = inode.i_data_block[d]
  BY <1>1, <1>3 DEF Inode
<1>5. Sound(inode) /\ BytesOf(i) = ContentOf(inode, fs_data)
  BY <1>1, FilesSound
<1>6. BytesOf(i)' = ContentOf(inode2, fs_data)
  <2>1. BytesOf(i)' = ContentOf(inode_table'[i], fs_data')
    BY <1>0, FilesSoundNext
  <2>. QED  BY <1>2, <2>1
<1>7. ASSUME NEW d \in Direct, BLOCK_SIZE * d < inode.i_size
      PROVE  inode2.i_data_block[d] = inode.i_data_block[d]
  <2>1. d # k
    BY <1>1, <1>5, <1>7, Sizes DEF Sound
  <2>. QED  BY <1>4, <2>1
<1>8. PICK data : data = fs_data
  OBVIOUS
<1>9. ContentOf(inode2, data) = ContentOf(inode, data)
  BY <1>4, <1>5, <1>7, ContentKept
<1>10. \A j \in Inums \ {i} : inode_table'[j] = inode_table[j]
  BY <1>0
<1>11. \A j \in Inums \ {i} : BytesOf(j)' = BytesOf(j)
  BY <1>10, BytesKept
<1>. QED  BY <1>5, <1>6, <1>8, <1>9, <1>11 DEF Contents, FileInums

\* A write that looks for a block changes no file, unless it gives up.
LEMMA AllocScanRefines ==
    ASSUME CareInv, CareInv', WritesDirect, NEW t \in Threads, AllocScan(t)
    PROVE  Abstract!WriteGivenUp(t) \/ UNCHANGED Abstract!vars
<1>0. /\ SizesInv /\ Shape /\ pc[t] = "alloc" /\ pc[t] \in Writing /\ pc[t] \in Busy
      /\ IsArg(arg[t]) /\ Care(t) /\ Care(t)'
      /\ UNCHANGED <<freeinode_ts, root_dir, entryVars>>
  BY SizesFacts DEF CareInv, AllocScan, Writing, Busy
<1>1. PICK i \in Files, k \in Direct, b \in Blocks :
          /\ i = arg[t].inum /\ k = arg[t].blk /\ b = arg[t].scan
          /\ inode_table[i].i_data_block[k] = -1
  <2>1. arg[t].inum \in Files
    BY <1>0, WriterFacts
  <2>2. arg[t].scan \in Blocks
    BY <1>0, SizesFacts DEF Locals
  <2>3. arg[t].blk \in Direct
    BY <1>0 DEF WritesDirect
  <2>. QED  BY <1>0, <2>1, <2>2, <2>3 DEF Care, Wanted
<1>2. Moved(t)
  BY <1>0, AllocScanMoves
<1>3. UNCHANGED <<Namespace, Positions>>
  BY <1>0, NamesKept, PositionsKept DEF entryVars
<1>4. CASE WriteReturns(t) /\ UNCHANGED <<inode_table, fs_data>>
  <2>1. pc'[t] = "idle"
    BY <1>0, <1>4, ReturnMoves DEF WriteReturns
  <2>2. UNCHANGED Contents
    BY <1>0, <1>4, ContentsKept
  <2>3. Abstract!WriteGivenUp(t)
    BY <1>0, <1>2, <1>3, <2>1, <2>2, WriteLeft
  <2>. QED  BY <2>3
<1>5. ASSUME NEW place \in Writing, NEW n, Goes(t, place, [arg[t] EXCEPT !.scan = n])
      PROVE  UNCHANGED <<Openings, Writings>>
  <2>. DEFINE new == [arg[t] EXCEPT !.scan = n]
  <2>1. IsArg(new) /\ new.fh = arg[t].fh /\ new.left = arg[t].left /\ new.byte = arg[t].byte
    BY <1>0 DEF IsArg
  <2>2. Goes(t, place, new)
    BY <1>5
  <2>. HIDE DEF new
  <2>3. /\ pc'[t] = place /\ arg'[t].fh = arg[t].fh /\ arg'[t].left = arg[t].left
        /\ arg'[t].byte = arg[t].byte
    BY <1>0, <2>1, <2>2, GoesMoves DEF Pcs, Writing
  <2>4. Writings' = [Writings EXCEPT ![t] =
            [handle |-> arg[t].fh, left |-> arg[t].left, bytes |-> {arg[t].byte}]]
    BY <1>2, <1>5, <2>3, WriteGoesOn
  <2>5. Writings[t] = [handle |-> arg[t].fh, left |-> arg[t].left, bytes |-> {arg[t].byte}]
    BY <1>0, CallsAre
  <2>6. UNCHANGED Writings
    BY <2>4, <2>5 DEF Writings
  <2>7. pc[t] \notin Opens \cup {"add"} /\ pc'[t] \notin Opens \cup {"add"}
    BY <1>0, <1>5, <2>3 DEF Writing, Opens
  <2>. QED  BY <1>2, <2>6, <2>7, OthersPut, OpensKept
<1>6. CASE /\ Goes(t, "alloc", [arg[t] EXCEPT !.scan = b + 1])
           /\ UNCHANGED <<inode_table, fs_data>>
  <2>1. UNCHANGED Contents
    BY <1>0, <1>6, ContentsKept
  <2>2. PICK n : n = b + 1
    OBVIOUS
  <2>3. UNCHANGED <<Openings, Writings>>
    BY <1>5, <1>6, <2>2 DEF Writing
  <2>. QED  BY <1>3, <2>1, <2>3 DEF Abstract!vars
<1>7. CASE BlockInstalled(i, k, b) /\ \E place \in Writing :
              Goes(t, place, [arg[t] EXCEPT !.scan = 0])
  <2>1. inode_table' = [inode_table EXCEPT ![i].i_data_block[k] = b] /\ UNCHANGED fs_data
    BY <1>7 DEF BlockInstalled
  <2>2. UNCHANGED Contents
    BY <1>0, <1>1, <2>1, BlockAddsNothing
  <2>3. UNCHANGED <<Openings, Writings>>
    BY <1>5, <1>7
  <2>. QED  BY <1>3, <2>2, <2>3 DEF Abstract!vars
<1>. QED  BY <1>1, <1>4, <1>6, <1>7 DEF AllocScan, Writing

\* No two uses of blocks by files are of the same block.
LEMMA BlocksApart ==
    ASSUME NumbersInv, NEW i \in Files, NEW k \in Direct, NEW b \in Blocks,
           inode_table[i].i_data_block[k] = b,
           NEW j \in Files, NEW d \in Direct, i # j \/ k # d
    PROVE  inode_table[j].i_data_block[d] # b
<1>1. i \in Inums /\ j \in Inums /\ k \in Spots /\ d \in Spots
  BY FineSizesAssumption DEF Files, Spots, BlockIndices, Direct
<1>2. Used(b, i, k)
  BY DEF Used, DirectUse
<1>3. ASSUME inode_table[j].i_data_block[d] = b PROVE Used(b, j, d)
  BY <1>3 DEF Used, DirectUse
<1>. QED  BY <1>1, <1>2, <1>3 DEF NumbersInv, Owned, OneUse

\* A piece that is put in a block of one file changes no other file.
LEMMA OtherContent ==
    ASSUME CareInv, CareInv', NEW i \in Files, NEW k \in Direct, NEW b \in Blocks,
           inode_table[i].i_data_block[k] = b,
           NEW off \in Nat, NEW m \in Nat \ {0}, NEW byte,
           BLOCK_SIZE * k <= off, off + m <= (BLOCK_SIZE * k) + BLOCK_SIZE,
           fs_data' = Copied(fs_data, b, off, m, byte),
           NEW j \in Inums \ {i}, inode_table'[j] = inode_table[j], UNCHANGED freeinode_ts
    PROVE  BytesOf(j)' = BytesOf(j)
<1>1. CASE j \notin Files
  BY <1>1 DEF BytesOf, Files
<1>2. CASE j \in Files
  <2>1. PICK data, data2 : data = fs_data /\ data2 = fs_data'
    OBVIOUS
  <2>2. PICK inode : inode = inode_table[j]
    OBVIOUS
  <2>3. Sound(inode) /\ BytesOf(j) = ContentOf(inode, data)
    BY <1>2, <2>1, <2>2, FilesSound
  <2>4. BytesOf(j)' = ContentOf(inode, data2)
    <3>1. j \in Files'
      BY <1>2 DEF Files
    <3>2. BytesOf(j)' = ContentOf(inode_table'[j], fs_data')
      BY <3>1, FilesSoundNext
    <3>. QED  BY <2>1, <2>2, <3>2
  <2>5. PICK q \in Nat : q = BLOCK_SIZE * k
    BY Sizes, TimesNat
  <2>6. PICK s \in Nat : s = off % BLOCK_SIZE /\ s + m <= BLOCK_SIZE
    <3>1. k \in Nat /\ off < q + BLOCK_SIZE
      BY <2>5, Sizes
    <3>2. off % BLOCK_SIZE = off - q
      BY <2>5, <3>1, Sizes, DivWithin
    <3>. QED  BY <2>5, <3>2, Sizes
  <2>7. Puts(data, data2, b, s, m, byte)
    BY <2>1, <2>6, CellCopied
  <2>8. ASSUME NEW d \in Direct, BLOCK_SIZE * d < inode.i_size,
               NEW r \in 0 .. BLOCK_SIZE - 1
        PROVE  data2[(inode.i_data_block[d] * BLOCK_SIZE) + r] =
               data[(inode.i_data_block[d] * BLOCK_SIZE) + r]
    <3>1. PICK c \in Blocks : c = inode.i_data_block[d]
      BY <2>3, <2>8 DEF Sound
    <3>2. c # b
      BY <1>2, <2>2, <3>1, BlocksApart DEF CareInv
    <3>3. data2[(c * BLOCK_SIZE) + r] = data[(c * BLOCK_SIZE) + r]
      BY <2>7, <3>2 DEF Puts
    <3>. QED  BY <3>1, <3>3
  <2>9. ContentOf(inode, data2) = ContentOf(inode, data)
    BY <2>3, <2>8, ContentKept
  <2>. QED  BY <2>3, <2>4, <2>9
<1>. QED  BY <1>1, <1>2

\* The bytes of file i, of that size, after m bytes were put at offset off.
Extended(i, off, m, byte, size) ==
    [Contents EXCEPT ![i] = Over(Contents[i], off, m, byte,
        IF off + m > size THEN off + m ELSE size)]

\* Thread t puts m bytes in block b, block k of file i, at offset off.
PiecePut(t, h, i, k, b, off, left, m) ==
    /\ t \in Threads /\ h \in Handles /\ i \in Files /\ k \in Direct /\ b \in Blocks
    /\ off \in Nat /\ left \in Nat /\ m \in Nat \ {0}
    /\ PieceStep(t, h, i, k, b, off, left, m)

\* What a piece of a write does to the bytes of its file.
LEMMA PieceContent ==
    ASSUME CareInv, CareInv', UNCHANGED freeinode_ts, NEW t, NEW h, NEW i, NEW k, NEW b,
           NEW off, NEW left, NEW m, PiecePut(t, h, i, k, b, off, left, m),
           NEW byte, byte = arg[t].byte, NEW size \in Nat, size = Len(Contents[i])
    PROVE  Contents' = Extended(i, off, m, byte, size)
<1>. t \in Threads /\ h \in Handles /\ i \in Files /\ k \in Direct /\ b \in Blocks
  BY DEF PiecePut
<1>. off \in Nat /\ left \in Nat /\ m \in Nat \ {0} /\ PieceStep(t, h, i, k, b, off, left, m)
  BY DEF PiecePut
<1>0. i \in Inums /\ i \in FileInums /\ Files' = Files /\ inode_table \in [Inums -> Inode]
  BY SizesFacts DEF CareInv, Files, FileInums
<1>1. PICK inode \in Inode : inode = inode_table[i]
  BY <1>0
<1>2. PICK data : data = fs_data
  OBVIOUS
<1>3. PICK inode2 : inode2 = inode_table'[i]
  OBVIOUS
<1>4. /\ Sound(inode) /\ BytesOf(i) = ContentOf(inode, data) /\ Contents[i] = BytesOf(i)
      /\ size = inode.i_size
  BY <1>0, <1>1, <1>2, FilesSound, FileBytes DEF Contents
<1>5. Sound(inode2) /\ BytesOf(i)' = ContentOf(inode2, fs_data')
  <2>1. Sound(inode_table'[i]) /\ BytesOf(i)' = ContentOf(inode_table'[i], fs_data')
    BY <1>0, FilesSoundNext
  <2>. QED  BY <1>3, <2>1
<1>6. PICK grown \in Nat : grown = IF off + m > size THEN off + m ELSE size
  OBVIOUS
<1>7. /\ inode.i_data_block[k] = b /\ off <= inode.i_size
      /\ BLOCK_SIZE * k <= off /\ off + m <= (BLOCK_SIZE * k) + BLOCK_SIZE
      /\ fs_data' = Copied(data, b, off, m, byte)
      /\ inode_table' = [inode_table EXCEPT ![i].i_size = grown]
  BY <1>1, <1>2, <1>4, <1>6 DEF PieceStep
<1>8. inode2 = [inode EXCEPT !.i_size = grown]
  BY <1>0, <1>1, <1>3, <1>7
<1>9. inode2.i_size = grown /\ inode2.i_data_block = inode.i_data_block
  BY <1>1, <1>8 DEF Inode
<1>10. \A d \in Direct \ {k} : inode.i_data_block[d] # b
  BY <1>1, <1>7, BlocksApart DEF CareInv
<1>11. grown = IF off + m > inode.i_size THEN off + m ELSE inode.i_size
  BY <1>4, <1>6
<1>12. BelongsIn(inode, k, b, off, m)
  BY <1>7, <1>10 DEF BelongsIn
<1>13. BytesOf(i)' = Over(Contents[i], off, m, byte, grown)
  <2>1. ContentOf(inode2, Copied(data, b, off, m, byte)) =
            Over(ContentOf(inode, data), off, m, byte, grown)
    BY <1>4, <1>5, <1>9, <1>11, <1>12, ContentWritten
  <2>. QED  BY <1>4, <1>5, <1>7, <2>1
<1>14. \A j \in Inums \ {i} : inode_table'[j] = inode_table[j]
  BY <1>0, <1>7
<1>15. ASSUME NEW j \in Inums \ {i} PROVE BytesOf(j)' = BytesOf(j)
  <2>1. inode_table[i].i_data_block[k] = b /\ fs_data' = Copied(fs_data, b, off, m, byte)
    BY <1>1, <1>2, <1>7
  <2>. QED  BY <1>7, <1>14, <2>1, OtherContent
<1>16. \A j \in FileInums \ {i} : Contents'[j] = Contents[j]
  BY <1>15 DEF Contents, FileInums
<1>17. Contents'[i] = Over(Contents[i], off, m, byte, grown)
  BY <1>0, <1>13 DEF Contents
<1>18. PICK new : new = Over(Contents[i], off, m, byte, grown)
  OBVIOUS
<1>19. Contents' = [Contents EXCEPT ![i] = new]
  BY <1>16, <1>17, <1>18 DEF Contents
<1>20. new = Over(Contents[i], off, m, byte, IF off + m > size THEN off + m ELSE size)
  BY <1>6, <1>18, Zenon
<1>. QED  BY <1>19, <1>20, Zenon DEF Extended

\* A piece of a write, as FineFiles has it.
LEMMA PieceRefines ==
    ASSUME CareInv, CareInv', NEW t \in Threads, pc[t] = "write",
           UNCHANGED <<freeinode_ts, root_dir, free_open_file_entries>>,
           NEW h \in Handles, NEW i \in Files, NEW k \in Direct, NEW b \in Blocks,
           NEW off \in Nat, NEW left \in Nat, NEW m \in Nat \ {0},
           PieceStep(t, h, i, k, b, off, left, m)
    PROVE  Abstract!WritePiece(t, m)
<1>0. /\ SizesInv /\ Shape /\ pc[t] \in Writing /\ pc[t] \in Busy /\ IsArg(arg[t])
      /\ i \in Inums /\ i \in FileInums
      /\ open_file_table \in [Handles -> [of_inumber : Inums, of_offset : Nat]]
  BY SizesFacts DEF CareInv, Writing, Busy, Files, FileInums
<1>1. PICK byte : byte = arg[t].byte
  OBVIOUS
<1>2. PICK size \in Nat : size = Len(Contents[i])
  BY <1>0, FileBytes, SizesFacts DEF Contents
<1>3. /\ h = arg[t].fh /\ i = arg[t].inum /\ left = arg[t].left
      /\ off = open_file_table[h].of_offset /\ off <= inode_table[i].i_size /\ m <= left
      /\ open_file_table' = [open_file_table EXCEPT ![h].of_offset = off + m]
  BY DEF PieceStep
<1>4. off <= size
  BY <1>0, <1>2, <1>3, FileBytes DEF Contents
<1>5. h \in TakenEntries /\ open_file_table[h].of_inumber = i
  BY <1>0, <1>3, BusyTaken, WriterFacts
<1>6. Positions[h] = [file |-> i, offset |-> off]
  BY <1>0, <1>3, <1>5, PositionsAre
<1>7. Writings[t] = [handle |-> h, left |-> left, bytes |-> {byte}]
  BY <1>0, <1>1, <1>3, CallsAre
<1>8. Contents' = [Contents EXCEPT ![i] = Over(Contents[i], off, m, byte,
          IF off + m > size THEN off + m ELSE size)]
  <2>1. UNCHANGED freeinode_ts
    OBVIOUS
  <2>2. Contents' = Extended(i, off, m, byte, size)
    <3>1. PiecePut(t, h, i, k, b, off, left, m)
      BY DEF PiecePut
    <3>. QED  BY <1>1, <1>2, <2>1, <3>1, PieceContent
  <2>. QED  BY <2>2, Zenon DEF Extended
<1>9. Positions' = [Positions EXCEPT ![h].offset = off + m]
  <2>1. PICK end \in Nat : end = off + m
    OBVIOUS
  <2>2. open_file_table'[h].of_inumber = i /\ open_file_table'[h].of_offset = end
    BY <1>0, <1>3, <1>5, <2>1
  <2>3. Positions'[h] = [file |-> i, offset |-> end]
    BY <1>5, <2>2 DEF Positions, PositionOf, TakenEntries, FREE, TAKEN
  <2>4. ASSUME NEW g \in Handles \ {h} PROVE Positions'[g] = Positions[g]
    <3>1. open_file_table'[g] = open_file_table[g]
      BY <1>0, <1>3
    <3>. QED  BY <3>1 DEF Positions, PositionOf
  <2>5. [Positions EXCEPT ![h].offset = end] =
            [Positions EXCEPT ![h] = [file |-> i, offset |-> end]]
    <3>1. PICK p : p = [file |-> i, offset |-> off]
      OBVIOUS
    <3>2. [p EXCEPT !.offset = end] = [file |-> i, offset |-> end]
      BY <3>1
    <3>3. Positions[h] = p
      BY <1>6, <3>1
    <3>. QED  BY <3>2, <3>3, Zenon
  <2>6. Positions' = [Positions EXCEPT ![h] = [file |-> i, offset |-> end]]
    BY <2>3, <2>4 DEF Positions
  <2>. QED  BY <2>1, <2>5, <2>6
<1>10. Moved(t) /\ UNCHANGED Openings
       /\ Writings' = [Writings EXCEPT ![t] =
              IF m = left THEN Abstract!NoWrite
              ELSE [Writings[t] EXCEPT !.left = left - m]]
  <2>1. CASE m = left /\ WriteReturns(t)
    <3>1. Moved(t) /\ pc'[t] = "idle"
      BY <1>0, <2>1, ReturnMoves DEF WriteReturns
    <3>2. Writings'[t] = Abstract!NoWrite
      BY <3>1, CallsNext DEF Writing
    <3>3. Writings' = [Writings EXCEPT ![t] = Writings'[t]]
      BY <3>1, OthersPut, CallsMoved
    <3>4. UNCHANGED Openings
      BY <1>0, <3>1, OthersPut, OpensKept DEF Opens, Writing
    <3>. QED  BY <2>1, <3>1, <3>2, <3>3, <3>4
  <2>2. CASE m # left /\ Goes(t, "write", [arg[t] EXCEPT !.blk = k + 1, !.left = left - m])
    <3>1. PICK rest, next : rest = left - m /\ next = k + 1
      OBVIOUS
    <3>. DEFINE new == [arg[t] EXCEPT !.blk = next, !.left = rest]
    <3>2. IsArg(new) /\ new.fh = h /\ new.left = rest /\ new.byte = byte
      BY <1>0, <1>1, <1>3 DEF IsArg
    <3>3. Goes(t, "write", new)
      BY <2>2, <3>1
    <3>. HIDE DEF new
    <3>4. /\ Moved(t) /\ pc'[t] = "write" /\ arg'[t].fh = h /\ arg'[t].left = rest
          /\ arg'[t].byte = byte
      BY <1>0, <3>2, <3>3, GoesMoves DEF Pcs
    <3>5. Writings' = [Writings EXCEPT ![t] =
              [handle |-> h, left |-> rest, bytes |-> {byte}]]
      BY <3>4, WriteGoesOn DEF Writing
    <3>6. [Writings[t] EXCEPT !.left = rest] =
              [handle |-> h, left |-> rest, bytes |-> {byte}]
      BY <1>7
    <3>7. UNCHANGED Openings
      BY <1>0, <3>4, OthersPut, OpensKept DEF Opens, Writing
    <3>. QED  BY <2>2, <3>1, <3>4, <3>5, <3>6, <3>7
  <2>. QED  BY <2>1, <2>2 DEF PieceStep
<1>11. UNCHANGED Namespace
  BY NamesKept
<1>12. Writings[t].handle = h /\ Writings[t].left = left /\ Writings[t].bytes = {byte}
  BY <1>7
<1>13. Positions[h].file = i /\ Positions[h].offset = off
  BY <1>6
<1>14. Writings[t] # Abstract!NoWrite
  BY <1>12 DEF Abstract!NoWrite
<1>15. \E b2 \in Writings[t].bytes :
          Contents' = [Contents EXCEPT ![i] = 
             [p \in 1 .. (IF off + m > size THEN off + m ELSE size) |->
                 IF p > off /\ p <= off + m THEN b2 ELSE Contents[i][p]]]
  <2>1. byte \in Writings[t].bytes
    BY <1>12
  <2>. QED  BY <1>8, <2>1, Zenon DEF Over
<1>16. m <= Writings[t].left /\ off <= Len(Contents[i])
  BY <1>2, <1>3, <1>4, <1>12
<1>17. UNCHANGED <<Namespace, Openings>>
  BY <1>10, <1>11
<1>. QED  BY <1>2, <1>9, <1>10, <1>12, <1>13, <1>14, <1>15, <1>16, <1>17,
          ZenonT(60) DEF Abstract!WritePiece, Abstract!FileOf

\* A round of the loop of tfs_write: a piece, or a block is asked for.
LEMMA WriteBlockRefines ==
    ASSUME CareInv, CareInv', WritesDirect, NEW t \in Threads, WriteBlock(t)
    PROVE  (\E m \in 1 .. BLOCK_SIZE : Abstract!WritePiece(t, m)) \/ UNCHANGED Abstract!vars
<1>0. /\ SizesInv /\ Shape /\ pc[t] = "write" /\ pc[t] \in Writing /\ IsArg(arg[t])
      /\ UNCHANGED <<freeinode_ts, root_dir, free_open_file_entries>>
  BY SizesFacts, CareFiles, WritesOutsideRoot, RootKept DEF CareInv, WriteBlock, Writing
<1>1. CASE /\ Goes(t, "alloc", [arg[t] EXCEPT !.scan = 0])
           /\ UNCHANGED <<inode_table, fs_data, open_file_table>>
  <2>. DEFINE new == [arg[t] EXCEPT !.scan = 0]
  <2>1. IsArg(new) /\ new.fh = arg[t].fh /\ new.left = arg[t].left /\ new.byte = arg[t].byte
    BY <1>0 DEF IsArg
  <2>2. Goes(t, "alloc", new)
    BY <1>1
  <2>. HIDE DEF new
  <2>3. /\ Moved(t) /\ pc'[t] = "alloc" /\ arg'[t].fh = arg[t].fh
        /\ arg'[t].left = arg[t].left /\ arg'[t].byte = arg[t].byte
    BY <1>0, <2>1, <2>2, GoesMoves DEF Pcs
  <2>4. Writings' = [Writings EXCEPT ![t] =
            [handle |-> arg[t].fh, left |-> arg[t].left, bytes |-> {arg[t].byte}]]
    BY <2>3, WriteGoesOn DEF Writing
  <2>5. Writings[t] = [handle |-> arg[t].fh, left |-> arg[t].left, bytes |-> {arg[t].byte}]
    BY <1>0, CallsAre
  <2>6. UNCHANGED Writings
    BY <2>4, <2>5 DEF Writings
  <2>7. UNCHANGED Openings
    BY <1>0, <2>3, OthersPut, OpensKept DEF Opens
  <2>8. UNCHANGED <<Namespace, Contents, Positions>>
    BY <1>0, <1>1, NamesKept, ContentsKept, PositionsKept
  <2>. QED  BY <2>6, <2>7, <2>8 DEF Abstract!vars
<1>2. ASSUME NEW h \in Handles, NEW i \in Files, NEW k \in Direct, NEW b \in Blocks,
             NEW off \in Nat, NEW left \in Nat, NEW m \in Nat \ {0},
             PieceStep(t, h, i, k, b, off, left, m)
      PROVE  \E n \in 1 .. BLOCK_SIZE : Abstract!WritePiece(t, n)
  <2>1. Abstract!WritePiece(t, m)
    BY <1>0, <1>2, PieceRefines
  <2>2. m <= BLOCK_SIZE
    BY <1>2, Zenon DEF PieceStep
  <2>3. m \in 1 .. BLOCK_SIZE
    BY <2>2, Sizes
  <2>. QED  BY <2>1, <2>3, Zenon
<1>. QED  BY <1>1, <1>2, RoundOfWrite

\* What tfs_read takes is no more than it was asked for, and ends in the file.
LEMMA ReadLenBounds ==
    ASSUME NEW size \in Nat, NEW off \in Nat, off <= size, NEW len \in Nat
    PROVE  /\ ReadLen(size, off, len) \in Nat /\ off + ReadLen(size, off, len) <= size
           /\ ReadLen(size, off, len) <= len
<1>1. CASE off < size
  <2>1. ReadLen(size, off, len) \in Nat /\ off + ReadLen(size, off, len) <= size
    BY <1>1, ReadLenWithin
  <2>2. PICK a \in Nat : a = (size - off) % SIZE_T
    BY Sizes
  <2>3. ReadLen(size, off, len) <= len
    BY <2>2 DEF ReadLen
  <2>. QED  BY <2>1, <2>3
<1>2. CASE off = size
  <2>1. size - off = 0
    BY <1>2
  <2>2. 0 % SIZE_T = 0
    BY Sizes
  <2>3. ReadLen(size, off, len) = 0
    BY <2>1, <2>2 DEF ReadLen
  <2>. QED  BY <1>2, <2>3
<1>. QED  BY <1>1, <1>2

\* A read moves the position over what it took, if it took anything.
LEMMA ReadBodyRefines ==
    ASSUME CareInv, NEW t \in Threads, ReadBody(t)
    PROVE  \/ \E h \in Handles, l \in Lens \cup {BLOCK_SIZE} :
                 \E n \in 1 .. l : Abstract!Read(h, n)
           \/ UNCHANGED Abstract!vars
<1>0. /\ SizesInv /\ Shape /\ pc[t] = "read" /\ pc[t] \in Busy /\ IsArg(arg[t]) /\ Care(t)
      /\ open_file_table \in [Handles -> [of_inumber : Inums, of_offset : Nat]]
      /\ UNCHANGED <<fileVars, free_open_file_entries>>
  BY SizesFacts DEF CareInv, ReadBody, Busy
<1>1. PICK h \in Handles, i \in FileInums, off \in Nat, l \in Lens \cup {BLOCK_SIZE},
           size \in Nat :
          /\ h = arg[t].fh /\ i = arg[t].inum /\ off = open_file_table[h].of_offset
          /\ l = arg[t].left /\ size = inode_table[i].i_size /\ off <= size
          /\ i \in Files /\ i \in Inums /\ InodeFree(i) /\ h \in TakenEntries
          /\ open_file_table[h].of_inumber = i /\ l \in Nat
  <2>1. /\ arg[t].inum \in FileInums /\ arg[t].inum \in Inums /\ arg[t].inum \in Files
        /\ arg[t].fh \in Handles
    BY <1>0, WriterFacts DEF Files, FileInums
  <2>2. arg[t].left \in Lens \cup {BLOCK_SIZE} /\ arg[t].left \in Nat
    BY <1>0, SizesFacts DEF Locals, Care, Lengths
  <2>3. /\ open_file_table[arg[t].fh].of_inumber = arg[t].inum
        /\ open_file_table[arg[t].fh].of_offset \in Nat
        /\ open_file_table[arg[t].fh].of_offset <= inode_table[arg[t].inum].i_size
        /\ inode_table[arg[t].inum].i_size \in Nat
        /\ arg[t].fh \in TakenEntries /\ InodeFree(arg[t].inum)
    BY <1>0, WriterFacts, BusyTaken DEF ReadBody
  <2>. QED  BY <2>1, <2>2, <2>3
<1>2. PICK n \in Nat : n = ReadLen(size, off, l) /\ off + n <= size /\ n <= l
  BY <1>1, ReadLenBounds
<1>3. PICK at \in Nat : at = Reading(i, off, n).off /\ off <= at /\ at <= off + n
  BY ReadKeepsType
<1>4. open_file_table' = [open_file_table EXCEPT ![h].of_offset = at]
  BY <1>1, <1>2, <1>3 DEF ReadBody
<1>5. Moved(t) /\ pc[t] \notin Stages /\ pc'[t] \notin Stages
  BY <1>0, ReadBodyMoves DEF Stages, Opens, Writing
<1>6. UNCHANGED <<Openings, Writings>>
  <2>1. \A u \in Threads : StaysPut(u)
    BY <1>5, OthersPut DEF StaysPut
  <2>. QED  BY <2>1, CallsKept
<1>7. UNCHANGED <<Namespace, Contents>>
  BY <1>0, NamesKept, ContentsKept DEF fileVars
<1>8. Positions[h] = [file |-> i, offset |-> off] /\ Positions[h] # Abstract!Closed
  BY <1>0, <1>1, PositionsAre
<1>9. Positions' = [Positions EXCEPT ![h].offset = at]
  <2>1. open_file_table'[h].of_inumber = i /\ open_file_table'[h].of_offset = at
    BY <1>0, <1>1, <1>4
  <2>2. Positions'[h] = [file |-> i, offset |-> at]
    BY <1>0, <1>1, <2>1 DEF Positions, PositionOf, TakenEntries, FREE, TAKEN
  <2>3. ASSUME NEW g \in Handles \ {h} PROVE Positions'[g] = Positions[g]
    <3>1. open_file_table'[g] = open_file_table[g]
      BY <1>0, <1>4
    <3>. QED  BY <1>0, <3>1 DEF Positions, PositionOf
  <2>4. [Positions EXCEPT ![h].offset = at] =
            [Positions EXCEPT ![h] = [file |-> i, offset |-> at]]
    <3>1. PICK p : p = [file |-> i, offset |-> off]
      OBVIOUS
    <3>2. [p EXCEPT !.offset = at] = [file |-> i, offset |-> at]
      BY <3>1
    <3>3. Positions[h] = p
      BY <1>8, <3>1
    <3>. QED  BY <3>2, <3>3, Zenon
  <2>5. Positions' = [Positions EXCEPT ![h] = [file |-> i, offset |-> at]]
    BY <2>2, <2>3 DEF Positions
  <2>. QED  BY <2>4, <2>5
<1>10. CASE at = off
  <2>1. open_file_table' = open_file_table
    BY <1>0, <1>1, <1>4, <1>10
  <2>2. UNCHANGED Positions
    BY <1>0, <2>1, PositionsKept
  <2>. QED  BY <1>6, <1>7, <2>2 DEF Abstract!vars
<1>11. CASE at # off
  <2>1. PICK m \in 1 .. l : at = off + m
    <3>1. l \in Nat /\ n <= l /\ off <= at /\ at <= off + n
      BY <1>1, <1>2, <1>3, Zenon
    <3>2. at - off \in 1 .. l /\ at = off + (at - off)
      BY <1>11, <3>1
    <3>. QED  BY <3>2
  <2>2. Positions[h].file = i /\ Positions[h].offset = off
    BY <1>8
  <2>3. ~Abstract!Busy(Abstract!FileOf(h))
    BY <1>1, <2>2, NotBusy DEF Abstract!FileOf
  <2>4. off + m <= Len(Contents[i])
    BY <1>1, <1>2, <1>3, <2>1, FileBytes DEF Contents
  <2>5. /\ Positions[h].offset + m <= Len(Contents[Abstract!FileOf(h)])
        /\ Positions' = [Positions EXCEPT ![h].offset = Positions[h].offset + m]
    <3>1. Abstract!FileOf(h) = i
      BY <2>2 DEF Abstract!FileOf
    <3>. QED  BY <1>9, <2>1, <2>2, <2>4, <3>1, Zenon
  <2>6. Abstract!Read(h, m)
    BY <1>6, <1>7, <1>8, <2>3, <2>5, Zenon DEF Abstract!Read
  <2>. QED  BY <2>6, Zenon
<1>. QED  BY <1>10, <1>11

\* tfs_init empties the file system.
LEMMA TfsInitRefines ==
    ASSUME CareInv, TfsInit
    PROVE  Abstract!Restart
<1>0. /\ \A t \in Threads : pc[t] = "idle" /\ pc'[t] = pc[t] /\ arg'[t] = arg[t]
  BY DEF TfsInit, threadVars
<1>1. \A t \in Threads : Openings[t] = Abstract!NoOpen /\ Writings[t] = Abstract!NoWrite
  BY <1>0, CallsAre DEF Opens, Writing
<1>2. UNCHANGED <<Openings, Writings>>
  BY <1>0, CallsKept DEF StaysPut
<1>3. /\ freeinode_ts' = [i \in Inums |-> IF i = ROOT_DIR_INUM THEN TAKEN ELSE FREE]
      /\ root_dir' = [s \in DirSlots |-> [root_dir[s] EXCEPT !.d_inumber = -1]]
      /\ free_open_file_entries' = [h \in Handles |-> FREE]
  BY DEF TfsInit, StateReset
<1>4. Contents' = [f \in FileInums |-> <<>>]
  BY <1>3 DEF Contents, BytesOf, Files, FileInums, FREE, TAKEN
<1>5. Positions' = [h \in Handles |-> Abstract!Closed]
  BY <1>3 DEF Positions, PositionOf, Abstract!Closed, Abstract!NoFile
<1>6. Namespace' = [n \in Names |-> Abstract!NoFile]
  <2>1. ASSUME NEW n \in Names PROVE Named(n)' = {}
    <3>1. ASSUME NEW s \in DirSlots PROVE root_dir'[s].d_inumber = -1
      BY <1>3, SizesFacts DEF CareInv, DirInv, DirTypes
    <3>. QED  BY <3>1 DEF Named
  <2>. QED  BY <2>1 DEF Namespace, FileNamed, Abstract!NoFile
<1>. QED  BY <1>1, <1>2, <1>4, <1>5, <1>6 DEF Abstract!Restart

\* The first tfs_init makes an empty file system.
LEMMA InitRefines == Init => Abstract!Init
<1>. SUFFICES ASSUME Init PROVE Abstract!Init
  OBVIOUS
<1>0. \A t \in Threads : pc[t] = "idle"
  BY DEF Init
<1>1. \A t \in Threads : Openings[t] = Abstract!NoOpen /\ Writings[t] = Abstract!NoWrite
  BY <1>0, CallsAre DEF Opens, Writing
<1>2. /\ freeinode_ts = [i \in Inums |-> IF i = ROOT_DIR_INUM THEN TAKEN ELSE FREE]
      /\ root_dir = [s \in DirSlots |-> [d_inumber |-> -1, d_name |-> NoName]]
      /\ free_open_file_entries = [h \in Handles |-> FREE]
  BY DEF Init, StateInit
<1>3. Contents = [f \in FileInums |-> <<>>]
  BY <1>2 DEF Contents, BytesOf, Files, FileInums, FREE, TAKEN
<1>4. Positions = [h \in Handles |-> Abstract!Closed]
  BY <1>2 DEF Positions, PositionOf, Abstract!Closed, Abstract!NoFile
<1>5. Namespace = [n \in Names |-> Abstract!NoFile]
  <2>1. ASSUME NEW n \in Names PROVE Named(n) = {}
    BY <1>2 DEF Named
  <2>. QED  BY <2>1 DEF Namespace, FileNamed, Abstract!NoFile
<1>6. /\ Openings = [t \in Threads |-> Abstract!NoOpen]
      /\ Writings = [t \in Threads |-> Abstract!NoWrite]
  BY <1>1 DEF Openings, Writings
<1>. QED  BY <1>3, <1>4, <1>5, <1>6 DEF Abstract!Init

\* Nothing changes and no thread moves.
LEMMA UnchangedRefines ==
    ASSUME UNCHANGED <<stateVars, threadVars, lockVars>>
    PROVE  UNCHANGED Abstract!vars
<1>1. UNCHANGED <<inode_table, freeinode_ts, fs_data, root_dir, open_file_table,
                  free_open_file_entries>>
  BY DEF stateVars, fileVars, entryVars
<1>2. \A t \in Threads : StaysPut(t)
  BY DEF threadVars, StaysPut
<1>. QED  BY <1>1, <1>2, NamesKept, ContentsKept, PositionsKept, CallsKept DEF Abstract!vars

\* Every step of the library is a step of FineFiles, or none.
LEMMA StepRefines ==
    ASSUME CareInv, CareInv', WritesDirect, Next
    PROVE  Abstract!Next \/ UNCHANGED Abstract!vars
<1>1. ASSUME NEW t \in Threads, OpenStart(t) PROVE Abstract!Admit(t)
  BY <1>1, OpenStartRefines
<1>2. ASSUME NEW t \in Threads, OpenExisting(t) PROVE Abstract!OpenOld(t)
  BY <1>2, OpenExistingRefines
<1>3. ASSUME NEW t \in Threads, CreateScan(t)
      PROVE  Abstract!OpenGivenUp(t) \/ UNCHANGED Abstract!vars
  BY <1>3, CreateScanRefines
<1>4. ASSUME NEW t \in Threads, OpenLink(t)
      PROVE  Abstract!OpenNew(t) \/ Abstract!OpenGivenUp(t)
  BY <1>4, OpenLinkRefines
<1>5. ASSUME NEW t \in Threads, AddScan(t)
      PROVE  \/ \E h \in Handles : Abstract!HandOut(t, h)
             \/ Abstract!OpenGivenUp(t)
             \/ UNCHANGED Abstract!vars
  BY <1>5, AddScanRefines
<1>6. ASSUME NEW t \in Threads, CloseEnd(t) PROVE \E h \in Handles : Abstract!Close(h)
  BY <1>6, CloseEndRefines
<1>7. ASSUME NEW t \in Threads, WriteLock(t)
      PROVE  (\E h \in Handles : Abstract!WriteBegins(t, h)) \/ UNCHANGED Abstract!vars
  BY <1>7, WriteLockRefines
<1>8. ASSUME NEW t \in Threads, WriteBlock(t)
      PROVE  (\E m \in 1 .. BLOCK_SIZE : Abstract!WritePiece(t, m)) \/ UNCHANGED Abstract!vars
  BY <1>8, WriteBlockRefines
<1>9. ASSUME NEW t \in Threads, AllocScan(t)
      PROVE  Abstract!WriteGivenUp(t) \/ UNCHANGED Abstract!vars
  BY <1>9, AllocScanRefines
<1>10. ASSUME NEW t \in Threads, LabelIndirect(t) PROVE FALSE
  BY <1>10 DEF LabelIndirect, CareInv, Care, Wanted
<1>11. ASSUME NEW t \in Threads, ReadBody(t)
       PROVE  \/ \E h \in Handles, l \in Lens \cup {BLOCK_SIZE} :
                    \E n \in 1 .. l : Abstract!Read(h, n)
              \/ UNCHANGED Abstract!vars
  BY <1>11, ReadBodyRefines
<1>12. ASSUME NEW t \in Threads,
              \/ CloseStart(t) \/ CopyOpened(t) \/ DestroyEnter(t) \/ DestroyRecheck(t)
              \/ DestroyMutex(t) \/ SpuriousWakeup(t)
              \/ \E h \in Handles, len \in Lens \cup {BLOCK_SIZE} : ReadStart(t, h, len)
              \/ \E h \in Handles, len \in Lens : WriteStart(t, h, len)
       PROVE  UNCHANGED Abstract!vars
  BY <1>12, AsideRefines
<1>13. ASSUME TfsInit PROVE Abstract!Restart
  BY <1>13, TfsInitRefines
<1>14. BLOCK_SIZE \in Lens \cup {BLOCK_SIZE}
  OBVIOUS
<1>. QED  BY <1>1, <1>2, <1>3, <1>4, <1>5, <1>6, <1>7, <1>8, <1>9, <1>10, <1>11, <1>12,
             <1>13, <1>14, NextCases, UnchangedRefines, Zenon DEF Abstract!Next

\* A file that has no bytes after a step has size 0.
LEMMA Emptied ==
    ASSUME CareInv', NEW i \in Files', Contents'[i] = <<>>
    PROVE  inode_table'[i].i_size = 0
<1>1. i \in Inums /\ i \in FileInums
  BY DEF Files, FileInums
<1>2. BytesOf(i)' = <<>>
  BY <1>1 DEF Contents
<1>3. Len(BytesOf(i)') = inode_table'[i].i_size
  BY <1>1, FileBytesNext
<1>. QED  BY <1>2, <1>3

\* Thread t takes the step.
Acts(t) == <<pc'[t], arg'[t]>> # <<pc[t], arg[t]>>

\* A round of tfs_write is seen in the thread that takes it.
LEMMA RoundActs ==
    ASSUME CareInv, WritesDirect, NEW t \in Threads, WriteBlock(t)
    PROVE  Acts(t)
<1>0. Shape /\ IsArg(arg[t]) /\ pc[t] = "write"
  BY SizesFacts DEF CareInv, WriteBlock
<1>1. CASE Goes(t, "alloc", [arg[t] EXCEPT !.scan = 0])
  BY <1>0, <1>1 DEF Goes, Shape, Acts
<1>2. CASE WriteReturns(t)
  BY <1>0, <1>2, ReturnMoves DEF WriteReturns, Acts
<1>3. ASSUME NEW left \in Nat, NEW m \in Nat \ {0}, NEW next, left = arg[t].left,
             Goes(t, "write", [arg[t] EXCEPT !.blk = next, !.left = left - m])
      PROVE  Acts(t)
  <2>1. PICK rest : rest = left - m /\ rest # left
    OBVIOUS
  <2>2. arg'[t] = [arg[t] EXCEPT !.blk = next, !.left = rest]
    BY <1>0, <1>3, <2>1 DEF Goes, Shape
  <2>3. arg'[t].left = rest
    BY <1>0, <2>2 DEF IsArg
  <2>. QED  BY <1>3, <2>1, <2>3 DEF Acts
<1>4. ASSUME NEW h \in Handles, NEW i \in Files, NEW k \in Direct, NEW b \in Blocks,
             NEW off \in Nat, NEW left \in Nat, NEW m \in Nat \ {0},
             PieceStep(t, h, i, k, b, off, left, m)
      PROVE  Acts(t)
  <2>1. PICK next : next = k + 1
    OBVIOUS
  <2>2. /\ left = arg[t].left
        /\ \/ WriteReturns(t)
           \/ Goes(t, "write", [arg[t] EXCEPT !.blk = next, !.left = left - m])
    BY <1>4, <2>1 DEF PieceStep
  <2>. QED  BY <1>2, <1>3, <2>2
<1>. QED  BY <1>1, <1>4, RoundOfWrite

\* The bytes of a file change in a piece of a write, under the file's lock, or
\* because an open empties it.
LEMMA ChangedStep ==
    ASSUME CareInv, CareInv', WritesDirect, [Next]_vars, NEW i \in Files \cap Files',
           Contents'[i] # Contents[i]
    PROVE  \/ inode_table'[i].i_size = 0
           \/ \E t \in Threads : inode_lock[i] = t /\ Acts(t)
<1>0. i \in FileInums
  BY DEF Files, FileInums
<1>1. ASSUME NEW f \in FileInums, Contents' = [Contents EXCEPT ![f] = <<>>]
      PROVE  inode_table'[i].i_size = 0
  <2>1. Contents'[i] = <<>>
    BY <1>0, <1>1 DEF Contents
  <2>. QED  BY <2>1, Emptied
<1>2. ASSUME NEW t \in Threads, OpenExisting(t) PROVE inode_table'[i].i_size = 0
  <2>1. Abstract!OpenOld(t)
    BY <1>2, OpenExistingRefines
  <2>2. PICK f : Contents' = [Contents EXCEPT ![f] = <<>>]
    BY <2>1 DEF Abstract!OpenOld
  <2>3. f = i
    BY <1>0, <2>2 DEF Contents
  <2>. QED  BY <1>0, <1>1, <2>2, <2>3
<1>3. ASSUME NEW t \in Threads, OpenLink(t) PROVE inode_table'[i].i_size = 0
  <2>1. Abstract!OpenNew(t) \/ Abstract!OpenGivenUp(t)
    BY <1>3, OpenLinkRefines
  <2>2. PICK f \in FileInums : Contents' = [Contents EXCEPT ![f] = <<>>]
    BY <2>1 DEF Abstract!OpenNew, Abstract!OpenGivenUp
  <2>. QED  BY <1>1, <2>2
<1>4. ASSUME NEW t \in Threads, WriteBlock(t)
      PROVE  \E u \in Threads : inode_lock[i] = u /\ Acts(u)
  <2>0. pc[t] = "write" /\ pc[t] \in Writing /\ pc[t] \in Busy /\ SizesInv /\ HeldInv
    BY <1>4 DEF WriteBlock, Writing, Busy, CareInv
  <2>1. PICK h \in Handles, j \in Inums : /\ h = arg[t].fh /\ j = arg[t].inum
                                          /\ h \in TakenEntries
                                          /\ open_file_table[h].of_inumber = j
    BY <2>0, WriterFacts, BusyTaken
  <2>2. Writings[t].handle = h
    <3>1. Writings[t] = [handle |-> arg[t].fh, left |-> arg[t].left, bytes |-> {arg[t].byte}]
      BY <2>0, CallsAre
    <3>. QED  BY <2>1, <3>1
  <2>3. Positions[h].file = j
    <3>1. PICK off : off = open_file_table[h].of_offset
      OBVIOUS
    <3>2. Positions[h] = [file |-> j, offset |-> off]
      BY <2>0, <2>1, <3>1, PositionsAre
    <3>. QED  BY <3>2
  <2>4. PICK m \in 1 .. BLOCK_SIZE : Abstract!WritePiece(t, m)
    BY <1>4, WriteBlockRefines DEF Abstract!vars
  <2>5. PICK new : Contents' = [Contents EXCEPT ![Positions[Writings[t].handle].file] = new]
    BY <2>4, Zenon DEF Abstract!WritePiece, Abstract!FileOf
  <2>6. i = j
    BY <1>0, <2>2, <2>3, <2>5 DEF Contents
  <2>7. inode_lock[i] = t
    BY <2>0, <2>1, <2>6 DEF HeldInv, Held
  <2>. QED  BY <1>4, <2>7, RoundActs
<1>5. CASE UNCHANGED Contents
  BY <1>5
<1>6. ASSUME NEW t \in Threads,
             \/ OpenStart(t) \/ CreateScan(t) \/ AddScan(t) \/ CloseEnd(t)
             \/ WriteLock(t) \/ AllocScan(t) \/ LabelIndirect(t) \/ ReadBody(t)
      PROVE  UNCHANGED Contents
  <2>1. CASE OpenStart(t)
    BY <2>1, OpenStartRefines DEF Abstract!Admit
  <2>2. CASE CreateScan(t)
    BY <2>2, CreateScanRefines DEF Abstract!OpenGivenUp, Abstract!vars
  <2>3. CASE AddScan(t)
    BY <2>3, AddScanRefines DEF Abstract!OpenGivenUp, Abstract!HandOut, Abstract!vars
  <2>4. CASE CloseEnd(t)
    BY <2>4, CloseEndRefines DEF Abstract!Close
  <2>5. CASE WriteLock(t)
    BY <2>5, WriteLockRefines DEF Abstract!WriteBegins, Abstract!vars
  <2>6. CASE AllocScan(t)
    BY <2>6, AllocScanRefines DEF Abstract!WriteGivenUp, Abstract!vars
  <2>7. CASE LabelIndirect(t)
    BY <2>7 DEF LabelIndirect, CareInv, Care, Wanted
  <2>8. CASE ReadBody(t)
    BY <2>8, ReadBodyRefines DEF Abstract!Read, Abstract!vars
  <2>. QED  BY <1>6, <2>1, <2>2, <2>3, <2>4, <2>5, <2>6, <2>7, <2>8
<1>7. ASSUME NEW t \in Threads,
              \/ CloseStart(t) \/ CopyOpened(t) \/ DestroyEnter(t) \/ DestroyRecheck(t)
              \/ DestroyMutex(t) \/ SpuriousWakeup(t)
              \/ \E h \in Handles, len \in Lens \cup {BLOCK_SIZE} : ReadStart(t, h, len)
              \/ \E h \in Handles, len \in Lens : WriteStart(t, h, len)
      PROVE  UNCHANGED Contents
  BY <1>7, AsideRefines DEF Abstract!vars
<1>8. ASSUME TfsInit PROVE FALSE
  BY <1>8 DEF TfsInit, StateReset, Files, FREE, TAKEN
<1>9. ASSUME UNCHANGED <<stateVars, threadVars, lockVars>> PROVE UNCHANGED Contents
  BY <1>9, UnchangedRefines DEF Abstract!vars
<1>10. CASE Next
  BY <1>2, <1>3, <1>4, <1>5, <1>6, <1>7, <1>8, <1>9, <1>10, NextCases, Zenon
<1>11. CASE UNCHANGED vars
  BY <1>5, <1>9, <1>11 DEF vars
<1>. QED  BY <1>10, <1>11

-----------------------------------------------------------------------------
\* The library implements FineFiles: every step that its threads take is one
\* of named files, positions and writes that are not torn.  That needs callers
\* that write whole blocks from the start of a block only, close a handle once,
\* give names that are stored as they are and no TFS_O_TRUNC that would stop
\* half-way (operations.c:62-89), and files of direct blocks only.
THEOREM FilesRefined ==
    ASSUME Disciplined
    PROVE  Spec /\ []WritesDirect => ImplementsFineFiles
<1>1. Init => CareInv
  BY InitCare
<1>2. CareInv /\ WritesDirect /\ [Next]_vars => CareInv'
  BY NextCare
<1>3. CareInv /\ CareInv' /\ WritesDirect /\ [Next]_vars => [Abstract!Next]_(Abstract!vars)
  <2>1. SUFFICES ASSUME CareInv, CareInv', WritesDirect, [Next]_vars
                 PROVE  Abstract!Next \/ UNCHANGED Abstract!vars
    OBVIOUS
  <2>2. CASE Next
    BY <2>1, <2>2, StepRefines
  <2>3. CASE UNCHANGED vars
    BY <2>3, UnchangedRefines DEF vars
  <2>. QED  BY <2>1, <2>2, <2>3
<1>. QED  BY <1>1, <1>2, <1>3, InitRefines, PTL DEF Spec, ImplementsFineFiles, Abstract!Spec

\* The bytes of a file change only under the lock of its i-node, or when an
\* open empties it, under the same conditions.
THEOREM ChangesLocked ==
    ASSUME Disciplined
    PROVE  Spec /\ []WritesDirect => ChangedUnderLock
<1>1. Init => CareInv
  BY InitCare
<1>2. CareInv /\ WritesDirect /\ [Next]_vars => CareInv'
  BY NextCare
<1>3. CareInv /\ CareInv' /\ WritesDirect /\ [Next]_vars =>
          [\A i \in Files \cap Files' :
              BytesOf(i)' # BytesOf(i) =>
                  \/ inode_table'[i].i_size = 0
                  \/ \E t \in Threads : /\ inode_lock[i] = t
                                        /\ <<pc'[t], arg'[t]>> # <<pc[t], arg[t]>>]_vars
  <2>1. SUFFICES ASSUME CareInv, CareInv', WritesDirect, [Next]_vars,
                        NEW i \in Files \cap Files', BytesOf(i)' # BytesOf(i)
                 PROVE  \/ inode_table'[i].i_size = 0
                        \/ \E t \in Threads : /\ inode_lock[i] = t
                                              /\ <<pc'[t], arg'[t]>> # <<pc[t], arg[t]>>
    OBVIOUS
  <2>2. Contents'[i] # Contents[i]
    BY <2>1 DEF Contents, Files, FileInums
  <2>. QED  BY <2>1, <2>2, ChangedStep DEF Acts
<1>. QED  BY <1>1, <1>2, <1>3, PTL DEF Spec, ChangedUnderLock

-----------------------------------------------------------------------------
(* The types, with the bound on sizes. *)

\* What Locals leaves out of the type of a thread's locals.
ArgTyped(a) ==
    /\ a.name \in Names \cup {NoName} /\ a.flags \in SUBSET {"CREAT", "TRUNC", "APPEND"}
    /\ a.copy \in BOOLEAN /\ a.scan \in Nat /\ a.byte \in Bytes \cup {Blank}

\* What the direct blocks hold.
DirectSize == BLOCK_SIZE * MAX_DIRECT_BLOCKS

\* What CareInv leaves out of TypeOK: sizes of i-nodes that are free and
\* offsets of entries that are free are old ones.
BoundsInv ==
    /\ \A i \in Inums : inode_table[i].i_size <= DirectSize
    /\ \A h \in Handles : open_file_table[h].of_offset <= DirectSize
    /\ \A t \in Threads : ArgTyped(arg[t])
    /\ open_file_lock \in Threads \cup {NoThread}
    /\ process \in {"up", "closing", "destroyed", "exited"}
    /\ inits \in 1 .. MaxInits

\* Files of direct blocks only are within the size that TypeOK has.
LEMMA DirectWithin == DirectSize \in Nat /\ MaxSize \in Nat /\ DirectSize <= MaxSize
<1>1. PICK d \in Nat : d = BLOCK_SIZE \div INT_SIZE
  BY Sizes, DivMod
<1>2. PICK q \in Nat, r \in Nat : q = BLOCK_SIZE * MAX_DIRECT_BLOCKS /\ r = BLOCK_SIZE * d
  BY Sizes, TimesNat
<1>3. (MAX_DIRECT_BLOCKS + d) * BLOCK_SIZE = q + r
  BY <1>2, Sizes
<1>. QED  BY <1>1, <1>2, <1>3 DEF DirectSize, MaxSize

\* One block is within it.
LEMMA BlockFits == BLOCK_SIZE <= DirectSize
<1>1. PICK m \in Nat : MAX_DIRECT_BLOCKS = m + 1
  <2>1. MAX_DIRECT_BLOCKS - 1 \in Nat /\ MAX_DIRECT_BLOCKS = (MAX_DIRECT_BLOCKS - 1) + 1
    BY Sizes
  <2>. QED  BY <2>1
<1>2. PICK q \in Nat : q = BLOCK_SIZE * m
  BY Sizes, TimesNat
<1>. QED  BY <1>1, <1>2, Sizes, TimesNext DEF DirectSize

\* The two invariants give the type invariant.
LEMMA TypesImplied ==
    ASSUME CareInv, BoundsInv
    PROVE  TypeOK
<1>0. /\ TableTypes /\ DirTypes /\ Shape /\ EntryTypes /\ EntryLockType /\ InodeLockType
      /\ \A t \in Threads : Locals(t)
  BY DEF CareInv, HeldInv, SizesInv, TypesInv, DirInv, HandleInv
<1>1. inode_table \in [Inums -> FineInode]
  <2>1. ASSUME NEW i \in Inums PROVE inode_table[i] \in FineInode
    <3>1. inode_table[i] \in Inode /\ inode_table[i].i_size <= DirectSize
      BY <1>0 DEF TableTypes, BoundsInv
    <3>. QED  BY <3>1, DirectWithin DEF Inode, FineInode
  <2>. QED  BY <1>0, <2>1 DEF TableTypes
<1>2. open_file_table \in [Handles -> [of_inumber : Inums, of_offset : 0 .. MaxSize]]
  <2>1. ASSUME NEW h \in Handles
        PROVE  open_file_table[h] \in [of_inumber : Inums, of_offset : 0 .. MaxSize]
    <3>1. /\ open_file_table[h] \in [of_inumber : Inums, of_offset : Nat]
          /\ open_file_table[h].of_offset <= DirectSize
      BY <1>0 DEF TableTypes, BoundsInv
    <3>. QED  BY <3>1, DirectWithin
  <2>. QED  BY <1>0, <2>1 DEF TableTypes
<1>3. arg \in [Threads -> FineArg]
  <2>1. ASSUME NEW t \in Threads PROVE arg[t] \in FineArg
    <3>1. PICK a : a = arg[t]
      OBVIOUS
    <3>2. IsArg(a) /\ ArgTyped(a)
      BY <1>0, <3>1 DEF Shape, BoundsInv
    <3>3. /\ a.inum \in Inums /\ a.fh \in Handles /\ a.offset \in Nat /\ a.left \in Nat
          /\ a.blk \in Nat /\ a.end \in Nat
      BY <1>0, <3>1 DEF Locals
    <3>. QED  BY <3>1, <3>2, <3>3 DEF IsArg, ArgTyped, FineArg
  <2>. QED  BY <1>0, <2>1 DEF Shape
<1>. QED  BY <1>0, <1>1, <1>2, <1>3
          DEF TypeOK, TableTypes, DirTypes, Shape, EntryTypes, EntryLockType,
              InodeLockType, BoundsInv

\* It starts so.
LEMMA InitBounds == Init => BoundsInv
<1>. SUFFICES ASSUME Init PROVE BoundsInv
  OBVIOUS
<1>1. BLOCK_SIZE <= DirectSize
  BY BlockFits
<1>2. ASSUME NEW i \in Inums PROVE inode_table[i].i_size <= DirectSize
  BY <1>1, DirectWithin DEF Init, StateInit, RootInode, StaticInode
<1>3. ASSUME NEW h \in Handles PROVE open_file_table[h].of_offset <= DirectSize
  BY DirectWithin DEF Init, StateInit
<1>4. ASSUME NEW t \in Threads PROVE ArgTyped(arg[t])
  BY DEF Init, ArgTyped, NoArg
<1>. QED  BY <1>2, <1>3, <1>4, FineCallsAssumption DEF Init, BoundsInv

\* The process, the calls of tfs_init and the lock of opens keep their types.
LEMMA RunTyped ==
    ASSUME BoundsInv, Next
    PROVE  /\ open_file_lock' \in Threads \cup {NoThread}
           /\ process' \in {"up", "closing", "destroyed", "exited"}
           /\ inits' \in 1 .. MaxInits
<1>0. /\ open_file_lock \in Threads \cup {NoThread}
      /\ process \in {"up", "closing", "destroyed", "exited"} /\ inits \in 1 .. MaxInits
  BY DEF BoundsInv
<1>1. ASSUME NEW t \in Threads,
             \/ OpenStart(t) \/ OpenExisting(t) \/ CreateScan(t) \/ OpenLink(t)
      PROVE  /\ open_file_lock' \in {open_file_lock, NoThread, t}
             /\ UNCHANGED <<process, inits>>
  BY <1>1 DEF OpenStart, OpenLocked, OpenExisting, CreateScan, OpenLink, runVars
<1>2. ASSUME NEW t \in Threads,
             \/ AddScan(t) \/ CloseStart(t) \/ CloseEnd(t) \/ CopyOpened(t)
             \/ SpuriousWakeup(t) \/ ReadBody(t)
             \/ \E h \in Handles, len \in Lens \cup {BLOCK_SIZE} : ReadStart(t, h, len)
      PROVE  UNCHANGED <<open_file_lock, process, inits>>
  <2>1. CASE AddScan(t) \/ CopyOpened(t) \/ SpuriousWakeup(t)
    BY <2>1 DEF AddScan, CopyOpened, SpuriousWakeup, runVars, lockVars
  <2>2. CASE CloseStart(t) \/ CloseEnd(t) \/ ReadBody(t)
    BY <2>2 DEF CloseStart, CloseEnd, ReadBody, runVars
  <2>3. CASE \E h \in Handles, len \in Lens \cup {BLOCK_SIZE} : ReadStart(t, h, len)
    BY <2>3 DEF ReadStart, runVars
  <2>. QED  BY <1>2, <2>1, <2>2, <2>3
<1>3. ASSUME NEW t \in Threads,
             \/ WriteLock(t) \/ WriteBlock(t) \/ AllocScan(t) \/ LabelIndirect(t)
             \/ \E h \in Handles, len \in Lens : WriteStart(t, h, len)
      PROVE  UNCHANGED <<open_file_lock, process, inits>>
  BY <1>3 DEF WriteLock, WriteBlock, AllocScan, LabelIndirect, WriteStart, runVars, lockVars
<1>4. ASSUME NEW t \in Threads,
             DestroyEnter(t) \/ DestroyRecheck(t) \/ DestroyMutex(t) \/ LockFails(t)
      PROVE  /\ process' \in {process, "closing", "destroyed", "exited"}
             /\ UNCHANGED <<open_file_lock, inits>>
  BY <1>4 DEF DestroyEnter, DestroyRecheck, DestroyMutex, LockFails, Exit, StateDestroy,
              DestroyWaits, lockVars
<1>5. ASSUME TfsDestroy \/ TfsInit \/ Ended
      PROVE  /\ open_file_lock' \in {open_file_lock, NoThread}
             /\ process' \in {process, "up", "closing"}
             /\ inits' = inits \/ (inits < MaxInits /\ inits' = inits + 1)
  BY <1>5 DEF TfsDestroy, TfsInit, Ended, vars, lockVars, runVars
<1>6. /\ open_file_lock' \in Threads \cup {NoThread}
      /\ process' \in {process, "up", "closing", "destroyed", "exited"}
      /\ inits' = inits \/ (inits < MaxInits /\ inits' = inits + 1)
  BY <1>0, <1>1, <1>2, <1>3, <1>4, <1>5 DEF Next
<1>. QED  BY <1>0, <1>6, FineCallsAssumption

\* A thread's locals stay typed when only numbers change,
LEMMA SameArg ==
    ASSUME NEW a, NEW b, ArgTyped(a), b.name = a.name, b.flags = a.flags,
           b.copy = a.copy, b.byte = a.byte, b.scan \in Nat
    PROVE  ArgTyped(b)
BY DEF ArgTyped

\* when the thread starts a call or returns from one,
LEMMA FreshArg ==
    /\ ArgTyped(NoArg)
    /\ \A t \in Threads : Shape /\ Return(t) => ArgTyped(arg'[t])
<1>1. ArgTyped(NoArg)
  BY DEF ArgTyped, NoArg
<1>2. ASSUME Shape, NEW t \in Threads, Return(t) PROVE arg'[t] = NoArg
  BY <1>2 DEF Return, Goes, Shape
<1>. QED  BY <1>1, <1>2

\* when it goes on and only its numbers change,
LEMMA GoesTyped ==
    ASSUME Shape, NEW t \in Threads, ArgTyped(arg[t]), NEW place, NEW b,
           Goes(t, place, b), b.name = arg[t].name, b.flags = arg[t].flags,
           b.copy = arg[t].copy, b.byte = arg[t].byte, b.scan \in Nat
    PROVE  ArgTyped(arg'[t])
<1>1. arg'[t] = b
  BY DEF Goes, Shape
<1>2. ArgTyped(b)
  BY SameArg
<1>. QED  BY <1>1, <1>2

\* in tfs_open,
LEMMA OpenTyped ==
    ASSUME Shape, NEW t \in Threads, ArgTyped(arg[t]),
           OpenStart(t) \/ OpenExisting(t) \/ CreateScan(t) \/ OpenLink(t) \/ AddScan(t)
    PROVE  ArgTyped(arg'[t])
<1>0. PICK a : a = arg[t] /\ IsArg(a)
  BY DEF Shape
<1>1. CASE OpenStart(t)
  <2>1. PICK n \in Names, flags \in FlagSets \cup {{}}, copy \in BOOLEAN :
           LET call == [NoArg EXCEPT !.name = n, !.flags = flags, !.copy = copy] IN
             \/ \E s \in DirSlots :
                   Goes(t, "found", [call EXCEPT !.inum = root_dir[s].d_inumber])
             \/ Goes(t, "create", call)
    BY <1>1 DEF OpenStart
  <2>2. PICK i : arg'[t] = [name |-> n, flags |-> flags, copy |-> copy, fh |-> 0, inum |-> i,
                            offset |-> 0, scan |-> 0, left |-> 0, blk |-> 0, end |-> 0,
                            byte |-> Blank]
    BY <2>1 DEF Goes, Shape, NoArg
  <2>. QED  BY <2>2, FineCallsAssumption DEF ArgTyped
<1>2. CASE OpenExisting(t)
  <2>1. PICK off : Return(t) \/ Goes(t, "add", [arg[t] EXCEPT !.offset = off])
    BY <1>2 DEF OpenExisting
  <2>2. CASE Goes(t, "add", [arg[t] EXCEPT !.offset = off])
    BY <1>0, <2>2, GoesTyped DEF IsArg, ArgTyped
  <2>. QED  BY <2>1, <2>2, FreshArg
<1>3. CASE CreateScan(t)
  <2>1. \/ Return(t)
        \/ Goes(t, "link", [arg[t] EXCEPT !.inum = arg[t].scan])
        \/ Goes(t, "create", [arg[t] EXCEPT !.scan = arg[t].scan + 1])
    BY <1>3 DEF CreateScan
  <2>2. CASE Goes(t, "link", [arg[t] EXCEPT !.inum = arg[t].scan])
    BY <1>0, <2>2, GoesTyped DEF IsArg, ArgTyped
  <2>3. CASE Goes(t, "create", [arg[t] EXCEPT !.scan = arg[t].scan + 1])
    BY <1>0, <2>3, GoesTyped DEF IsArg, ArgTyped
  <2>. QED  BY <2>1, <2>2, <2>3, FreshArg
<1>4. CASE OpenLink(t)
  <2>1. Return(t) \/ Goes(t, "add", [arg[t] EXCEPT !.scan = 0])
    BY <1>4 DEF OpenLink
  <2>2. CASE Goes(t, "add", [arg[t] EXCEPT !.scan = 0])
    BY <1>0, <2>2, GoesTyped DEF IsArg, ArgTyped
  <2>. QED  BY <2>1, <2>2, FreshArg
<1>5. CASE AddScan(t)
  <2>1. \/ Return(t)
        \/ Goes(t, "opened", [NoArg EXCEPT !.copy = TRUE, !.fh = arg[t].scan])
        \/ Goes(t, "add", [arg[t] EXCEPT !.scan = arg[t].scan + 1])
    BY <1>5 DEF AddScan
  <2>2. CASE Goes(t, "opened", [NoArg EXCEPT !.copy = TRUE, !.fh = arg[t].scan])
    <3>1. arg'[t] = [name |-> NoName, flags |-> {}, copy |-> TRUE, fh |-> arg[t].scan,
                     inum |-> 0, offset |-> 0, scan |-> 0, left |-> 0, blk |-> 0, end |-> 0,
                     byte |-> Blank]
      BY <2>2 DEF Goes, Shape, NoArg
    <3>. QED  BY <3>1 DEF ArgTyped
  <2>3. CASE Goes(t, "add", [arg[t] EXCEPT !.scan = arg[t].scan + 1])
    BY <1>0, <2>3, GoesTyped DEF IsArg, ArgTyped
  <2>. QED  BY <2>1, <2>2, <2>3, FreshArg
<1>. QED  BY <1>1, <1>2, <1>3, <1>4, <1>5

\* in tfs_write,
LEMMA WriteTyped ==
    ASSUME Shape, NEW t \in Threads, ArgTyped(arg[t]),
           WriteLock(t) \/ WriteBlock(t) \/ AllocScan(t) \/ LabelIndirect(t)
    PROVE  ArgTyped(arg'[t])
<1>0. PICK a : a = arg[t] /\ IsArg(a)
  BY DEF Shape
<1>1. CASE WriteLock(t)
  <2>1. PICK k, e : Return(t) \/ Goes(t, "write", [arg[t] EXCEPT !.blk = k, !.end = e])
    BY <1>1 DEF WriteLock
  <2>2. CASE Goes(t, "write", [arg[t] EXCEPT !.blk = k, !.end = e])
    BY <1>0, <2>2, GoesTyped DEF IsArg, ArgTyped
  <2>. QED  BY <2>1, <2>2, FreshArg
<1>2. CASE WriteBlock(t)
  <2>1. PICK k, l : \/ Return(t)
                    \/ Goes(t, "alloc", [arg[t] EXCEPT !.scan = 0])
                    \/ Goes(t, "write", [arg[t] EXCEPT !.blk = k, !.left = l])
    BY <1>2 DEF WriteBlock, WriteReturns
  <2>2. CASE Goes(t, "write", [arg[t] EXCEPT !.blk = k, !.left = l])
    BY <1>0, <2>2, GoesTyped DEF IsArg, ArgTyped
  <2>3. CASE Goes(t, "alloc", [arg[t] EXCEPT !.scan = 0])
    BY <1>0, <2>3, GoesTyped DEF IsArg, ArgTyped
  <2>. QED  BY <2>1, <2>2, <2>3, FreshArg
<1>3. CASE AllocScan(t)
  <2>1. PICK place : \/ Return(t)
                     \/ Goes(t, place, [arg[t] EXCEPT !.scan = 0])
                     \/ Goes(t, "alloc", [arg[t] EXCEPT !.scan = arg[t].scan + 1])
    BY <1>3 DEF AllocScan, WriteReturns
  <2>2. CASE Goes(t, place, [arg[t] EXCEPT !.scan = 0])
    BY <1>0, <2>2, GoesTyped DEF IsArg, ArgTyped
  <2>3. CASE Goes(t, "alloc", [arg[t] EXCEPT !.scan = arg[t].scan + 1])
    BY <1>0, <2>3, GoesTyped DEF IsArg, ArgTyped
  <2>. QED  BY <2>1, <2>2, <2>3, FreshArg
<1>4. CASE LabelIndirect(t)
  <2>1. Goes(t, "write", arg[t])
    BY <1>4 DEF LabelIndirect, At
  <2>. QED  BY <1>0, <2>1, GoesTyped DEF ArgTyped
<1>. QED  BY <1>1, <1>2, <1>3, <1>4

\* and where a handle is taken or given back, or nothing but the place changes.
LEMMA CallTyped ==
    ASSUME Shape, NEW t \in Threads, ArgTyped(arg[t]),
           \A h \in Handles : open_file_table[h].of_inumber \in Inums,
           \/ CloseStart(t) \/ CloseEnd(t) \/ ReadBody(t) \/ CopyOpened(t)
           \/ \E h \in Handles, len \in Lens \cup {BLOCK_SIZE} : ReadStart(t, h, len)
           \/ \E h \in Handles, len \in Lens : WriteStart(t, h, len)
    PROVE  ArgTyped(arg'[t])
<1>0. PICK a : a = arg[t] /\ IsArg(a)
  BY DEF Shape
<1>1. CASE CloseStart(t)
  <2>1. PICK h \in Handles : Goes(t, "close", [arg[t] EXCEPT !.fh = h])
    BY <1>1 DEF CloseStart
  <2>. QED  BY <1>0, <2>1, GoesTyped DEF IsArg, ArgTyped
<1>2. CASE CloseEnd(t)
  <2>1. arg'[t] = NoArg
    BY <1>2 DEF CloseEnd, Shape
  <2>. QED  BY <2>1, FreshArg
<1>3. CASE ReadBody(t) \/ CopyOpened(t)
  <2>1. PICK place : Return(t) \/ Goes(t, place, arg[t])
    BY <1>3 DEF ReadBody, CopyOpened, AfterRead, At
  <2>2. CASE Goes(t, place, arg[t])
    BY <1>0, <2>2, GoesTyped DEF ArgTyped
  <2>. QED  BY <2>1, <2>2, FreshArg
<1>4. ASSUME NEW h \in Handles, NEW len \in Lens \cup {BLOCK_SIZE}, ReadStart(t, h, len)
      PROVE  ArgTyped(arg'[t])
  <2>1. PICK i : Goes(t, "read", [arg[t] EXCEPT !.fh = h, !.left = len, !.inum = i])
    BY <1>4 DEF ReadStart
  <2>. QED  BY <1>0, <2>1, GoesTyped DEF IsArg, ArgTyped
<1>5. ASSUME NEW h \in Handles, NEW len \in Lens, WriteStart(t, h, len)
      PROVE  ArgTyped(arg'[t])
  <2>1. PICK i \in Inums : i = open_file_table[h].of_inumber
    OBVIOUS
  <2>2. PICK byte \in Texts[i] :
           Goes(t, "lock", [NoArg EXCEPT !.fh = h, !.inum = i, !.left = len, !.byte = byte])
    BY <1>5, <2>1 DEF WriteStart
  <2>3. arg'[t] = [name |-> NoName, flags |-> {}, copy |-> FALSE, fh |-> h, inum |-> i,
                   offset |-> 0, scan |-> 0, left |-> len, blk |-> 0, end |-> 0, byte |-> byte]
    BY <2>2 DEF Goes, Shape, NoArg
  <2>4. byte \in Bytes
    BY FineCallsAssumption
  <2>. QED  BY <2>3, <2>4 DEF ArgTyped
<1>. QED  BY <1>1, <1>2, <1>3, <1>4, <1>5

\* So every step keeps the types of the locals.
LEMMA ArgsTyped ==
    ASSUME CareInv, BoundsInv, Next, NEW u \in Threads
    PROVE  ArgTyped(arg'[u])
<1>0. /\ Shape /\ \A t \in Threads : ArgTyped(arg[t])
      /\ \A h \in Handles : open_file_table[h].of_inumber \in Inums
  BY SizesFacts DEF CareInv, BoundsInv, SizesInv, TypesInv, DirInv, TableTypes
<1>1. ASSUME NEW t \in Threads,
             OpenStart(t) \/ OpenExisting(t) \/ CreateScan(t) \/ OpenLink(t) \/ AddScan(t)
      PROVE  ArgTyped(arg'[u])
  <2>1. Moved(t)
    BY <1>0, <1>1, OpenStartMoves, OpenExistingMoves, CreateScanMoves, OpenLinkMoves, AddScanMoves
  <2>. QED  BY <1>0, <1>1, <2>1, OpenTyped DEF Moved
<1>2. ASSUME NEW t \in Threads,
             WriteLock(t) \/ WriteBlock(t) \/ AllocScan(t) \/ LabelIndirect(t)
      PROVE  ArgTyped(arg'[u])
  <2>1. Moved(t)
    BY <1>0, <1>2, WriteLockMoves, WriteBlockMoves, AllocScanMoves, OtherMoves
  <2>. QED  BY <1>0, <1>2, <2>1, WriteTyped DEF Moved
<1>3. ASSUME NEW t \in Threads,
             \/ CloseStart(t) \/ CloseEnd(t) \/ ReadBody(t) \/ CopyOpened(t)
             \/ \E h \in Handles, len \in Lens \cup {BLOCK_SIZE} : ReadStart(t, h, len)
             \/ \E h \in Handles, len \in Lens : WriteStart(t, h, len)
      PROVE  ArgTyped(arg'[u])
  <2>1. \A v \in Threads \ {t} : arg'[v] = arg[v]
    <3>1. CASE CloseStart(t) \/ ReadBody(t) \/ CopyOpened(t)
      BY <1>0, <3>1, CloseStartMoves, ReadBodyMoves, OtherMoves DEF Moved
    <3>2. CASE CloseEnd(t)
      BY <1>0, <3>2, CloseEndMoves
    <3>3. ASSUME NEW h \in Handles, NEW len \in Lens \cup {BLOCK_SIZE}, ReadStart(t, h, len)
          PROVE  \A v \in Threads \ {t} : arg'[v] = arg[v]
      BY <1>0, <3>3, ReadStartMoves DEF Moved
    <3>4. ASSUME NEW h \in Handles, NEW len \in Lens, WriteStart(t, h, len)
          PROVE  \A v \in Threads \ {t} : arg'[v] = arg[v]
      BY <1>0, <3>4, WriteStartMoves DEF Moved
    <3>. QED  BY <1>3, <3>1, <3>2, <3>3, <3>4
  <2>. QED  BY <1>0, <1>3, <2>1, CallTyped
<1>4. ASSUME NEW t \in Threads,
             \/ DestroyEnter(t) \/ DestroyRecheck(t) \/ DestroyMutex(t) \/ SpuriousWakeup(t)
      PROVE  ArgTyped(arg'[u])
  <2>1. arg' = arg
    BY <1>0, <1>4 DEF DestroyEnter, DestroyRecheck, DestroyMutex, SpuriousWakeup, StateDestroy,
                      DestroyWaits, At, Goes, threadVars, Shape
  <2>. QED  BY <1>0, <2>1
<1>5. ASSUME TfsInit \/ UNCHANGED <<stateVars, threadVars, lockVars>>
      PROVE  ArgTyped(arg'[u])
  BY <1>0, <1>5 DEF TfsInit, threadVars
<1>. QED  BY <1>1, <1>2, <1>3, <1>4, <1>5, NextCases

\* A step changes the size of the i-node of a file, or makes the root's again.
LEMMA SizesChanged ==
    ASSUME CareInv, CareInv', Next, NEW i \in Inums
    PROVE  \/ i \in Files' \/ inode_table'[i].i_size = inode_table[i].i_size
           \/ inode_table'[i].i_size = BLOCK_SIZE
<1>0. /\ Shape /\ DirInv /\ TypesInv
      /\ \A t \in Threads : Locals(t) /\ Step(t)
      /\ \A j \in Inums : inode_table[j] \in Inode
  BY SizesFacts DEF CareInv, SizesInv
<1>. SUFFICES ASSUME i \notin Files', inode_table'[i] # inode_table[i]
              PROVE  inode_table'[i].i_size = BLOCK_SIZE
  OBVIOUS
<1>1. ASSUME NEW t \in Threads, OpenExisting(t) PROVE FALSE
  <2>1. pc[t] = "found" /\ UNCHANGED freeinode_ts /\ arg[t].inum \in Files
    BY <1>0, <1>1 DEF OpenExisting, Locals
  <2>2. TruncatedInode(arg[t].inum) /\ ~UNCHANGED inode_table
    BY <1>1 DEF OpenExisting
  <2>3. arg[t].inum # i /\ arg[t].inum \in Inums
    BY <2>1 DEF Files
  <2>. QED  BY <1>0, <2>2, <2>3, TruncatedOthers
<1>2. ASSUME NEW t \in Threads, CreateScan(t) PROVE FALSE
  <2>1. PICK j : /\ j = arg[t].scan /\ freeinode_ts[j] = FREE
                 /\ freeinode_ts' = [freeinode_ts EXCEPT ![j] = TAKEN]
                 /\ inode_table' = [inode_table EXCEPT ![j] = EmptyInode]
    BY <1>2 DEF CreateScan
  <2>2. i = j
    BY <1>0, <2>1 DEF TypesInv, TableTypes
  <2>3. i # ROOT_DIR_INUM /\ freeinode_ts'[i] = TAKEN
    BY <1>0, <2>1, <2>2 DEF DirInv, DirTypes, FREE, TAKEN
  <2>. QED  BY <2>3 DEF Files
<1>3. ASSUME NEW t \in Threads, WriteBlock(t) \/ AllocScan(t) PROVE FALSE
  <2>1. UNCHANGED freeinode_ts /\ pc[t] \in Busy
    BY <1>3 DEF WriteBlock, AllocScan, Busy
  <2>2. arg[t].inum \in Files /\ arg[t].inum # i
    BY <2>1, WriterFacts, LinkedFile DEF CareInv, Files
  <2>3. inode_table'[i] = inode_table[i]
    BY <1>0, <1>3, <2>2 DEF WriteBlock, AllocScan, BlockInstalled, TypesInv, TableTypes
  <2>. QED  BY <2>3
<1>4. ASSUME TfsInit PROVE inode_table'[i].i_size = BLOCK_SIZE
  BY <1>0, <1>4 DEF TfsInit, StateReset, RootInode, TypesInv, TableTypes
<1>5. ASSUME NEW t \in Threads,
             \/ OpenStart(t) \/ OpenLink(t) \/ AddScan(t) \/ CloseStart(t) \/ CloseEnd(t)
             \/ WriteLock(t) \/ LabelIndirect(t) \/ ReadBody(t) \/ CopyOpened(t)
             \/ DestroyEnter(t) \/ DestroyRecheck(t) \/ DestroyMutex(t) \/ SpuriousWakeup(t)
             \/ \E h \in Handles, len \in Lens \cup {BLOCK_SIZE} : ReadStart(t, h, len)
             \/ \E h \in Handles, len \in Lens : WriteStart(t, h, len)
      PROVE  FALSE
  BY <1>5 DEF OpenStart, OpenLink, AddScan, CloseStart, CloseEnd, WriteLock, LabelIndirect,
              ReadBody, CopyOpened, DestroyEnter, DestroyRecheck, DestroyMutex,
              SpuriousWakeup, ReadStart, WriteStart, stateVars, fileVars
<1>6. ASSUME UNCHANGED <<stateVars, threadVars, lockVars>> PROVE FALSE
  BY <1>6 DEF stateVars, fileVars
<1>. QED  BY <1>1, <1>2, <1>3, <1>4, <1>5, <1>6, NextCases

\* A step changes the offsets of entries that are taken only.
LEMMA OffsetsChanged ==
    ASSUME CareInv, Next, NEW h \in Handles
    PROVE  h \in TakenEntries' \/ open_file_table'[h] = open_file_table[h]
<1>0. /\ Shape /\ \A t \in Threads : Locals(t)
      /\ \A g \in Handles : open_file_table[g] \in [of_inumber : Inums, of_offset : Nat]
      /\ open_file_table \in [Handles -> [of_inumber : Inums, of_offset : Nat]]
      /\ free_open_file_entries \in [Handles -> {FREE, TAKEN}]
  BY SizesFacts DEF CareInv
<1>. SUFFICES ASSUME h \notin TakenEntries', open_file_table'[h] # open_file_table[h]
              PROVE  FALSE
  OBVIOUS
<1>1. ASSUME NEW t \in Threads, AddScan(t) PROVE FALSE
  <2>1. PICK g, e : /\ free_open_file_entries' = [free_open_file_entries EXCEPT ![g] = TAKEN]
                    /\ open_file_table' = [open_file_table EXCEPT ![g] = e]
    BY <1>1 DEF AddScan, entryVars
  <2>2. g = h
    BY <1>0, <2>1
  <2>. QED  BY <1>0, <2>1, <2>2 DEF TakenEntries
<1>2. ASSUME NEW t \in Threads, WriteBlock(t) \/ ReadBody(t) PROVE FALSE
  <2>1. UNCHANGED free_open_file_entries /\ pc[t] \in Busy
    BY <1>2 DEF WriteBlock, ReadBody, Busy
  <2>2. arg[t].fh \in TakenEntries
    BY <2>1, BusyTaken DEF CareInv
  <2>3. arg[t].fh # h
    BY <2>1, <2>2 DEF TakenEntries
  <2>4. open_file_table'[h] = open_file_table[h]
    BY <1>0, <1>2, <2>3 DEF WriteBlock, ReadBody
  <2>. QED  BY <2>4
<1>3. ASSUME TfsInit \/ UNCHANGED <<stateVars, threadVars, lockVars>> PROVE FALSE
  BY <1>3 DEF TfsInit, StateReset, stateVars, entryVars
<1>4. ASSUME NEW t \in Threads,
             \/ OpenStart(t) \/ OpenExisting(t) \/ CreateScan(t) \/ OpenLink(t)
             \/ CloseStart(t) \/ CloseEnd(t) \/ WriteLock(t) \/ AllocScan(t)
             \/ LabelIndirect(t) \/ CopyOpened(t)
             \/ DestroyEnter(t) \/ DestroyRecheck(t) \/ DestroyMutex(t) \/ SpuriousWakeup(t)
             \/ \E g \in Handles, len \in Lens \cup {BLOCK_SIZE} : ReadStart(t, g, len)
             \/ \E g \in Handles, len \in Lens : WriteStart(t, g, len)
      PROVE  FALSE
  BY <1>4 DEF OpenStart, OpenExisting, CreateScan, OpenLink, CloseStart, CloseEnd, WriteLock,
              AllocScan, LabelIndirect, CopyOpened, DestroyEnter, DestroyRecheck,
              DestroyMutex, SpuriousWakeup, ReadStart, WriteStart, stateVars, entryVars
<1>. QED  BY <1>1, <1>2, <1>3, <1>4, NextCases

\* Every step keeps the bounds.
LEMMA NextBounds ==
    ASSUME CareInv, CareInv', BoundsInv, [Next]_vars
    PROVE  BoundsInv'
<1>1. CASE Next
  <2>1. BLOCK_SIZE <= DirectSize /\ DirectSize \in Nat /\ BLOCK_SIZE \in Nat
    BY BlockFits, DirectWithin, Sizes
  <2>2. ASSUME NEW i \in Inums PROVE inode_table'[i].i_size <= DirectSize
    <3>1. CASE i \in Files'
      BY <3>1 DEF CareInv, FilesDirect, DirectSize
    <3>. QED  BY <1>1, <2>1, <3>1, SizesChanged DEF BoundsInv
  <2>3. ASSUME NEW h \in Handles PROVE open_file_table'[h].of_offset <= DirectSize
    <3>1. CASE h \in TakenEntries'
      <4>1. EntryFits(h)' /\ DirInv'
        BY <3>1 DEF CareInv, SizesInv, TypesInv
      <4>2. PICK i : i = open_file_table'[h].of_inumber
        OBVIOUS
      <4>3. Linked(i)' /\ open_file_table'[h].of_offset <= inode_table'[i].i_size
        BY <4>1, <4>2 DEF EntryFits, Linked
      <4>4. i \in Files' /\ i \in Inums
        BY <4>1, <4>3 DEF Linked, DirInv, DirectoryConsistent, Files
      <4>5. open_file_table'[h].of_offset \in Nat /\ inode_table'[i].i_size \in Nat
        BY <4>4 DEF CareInv, SizesInv, TypesInv, TableTypes, Inode
      <4>. QED  BY <2>1, <2>2, <4>3, <4>4, <4>5
    <3>. QED  BY <1>1, <3>1, OffsetsChanged DEF BoundsInv
  <2>. QED  BY <1>1, <2>2, <2>3, ArgsTyped, RunTyped DEF BoundsInv
<1>2. CASE UNCHANGED vars
  BY <1>2 DEF BoundsInv, vars, stateVars, fileVars, entryVars, threadVars, lockVars, runVars
<1>. QED  BY <1>1, <1>2

\* The type invariant, and with it the bound on sizes and offsets, under the
\* conditions of the refinement.
THEOREM TypesSafe ==
    ASSUME Disciplined
    PROVE  Spec /\ []WritesDirect => []TypeOK
<1>1. Init => CareInv
  BY InitCare
<1>2. CareInv /\ WritesDirect /\ [Next]_vars => CareInv'
  BY NextCare
<1>3. CareInv /\ CareInv' /\ BoundsInv /\ [Next]_vars => BoundsInv'
  BY NextBounds
<1>4. CareInv /\ BoundsInv => TypeOK
  BY TypesImplied
<1>. QED  BY <1>1, <1>2, <1>3, <1>4, InitBounds, PTL DEF Spec
=============================================================================
