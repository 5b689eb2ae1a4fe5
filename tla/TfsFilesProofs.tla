--------------------------- MODULE TfsFilesProofs ---------------------------
(***************************************************************************)
(* Proof that the library of TfsOperations implements TfsFiles, for any    *)
(* number of threads, names, i-nodes, blocks and handles, when names are   *)
(* stored as they are and no file is truncated while it is open elsewhere. *)
(* Every step of the library is shown to be a step of TfsFiles on the      *)
(* files that FileNamed, BytesOf, PositionOf and OpenOf read off the       *)
(* tables, or to leave them as they are.                                   *)
(***************************************************************************)
EXTENDS TfsTablesProofs, SequenceTheorems

\* What the steps need: the offsets and the names behind the handles, and the
\* blocks of the files.
TablesInv == OffsetInv /\ BlocksInv

\* The i-nodes that stand for files.
FileInums == Inums \ {ROOT_DIR_INUM}

-----------------------------------------------------------------------------
(* Parts of the file system that a step leaves alone. *)

\* The names depend on the root directory only.
LEMMA NamesKept ==
    ASSUME UNCHANGED root_dir
    PROVE  \A n \in Names : FileNamed(n)' = FileNamed(n)
BY DEF FileNamed, Named, IsFirst

\* The positions depend on the open file table only.
LEMMA PositionsKept ==
    ASSUME UNCHANGED <<open_file_table, free_open_file_entries>>
    PROVE  \A h \in Handles : PositionOf(h)' = PositionOf(h)
BY DEF PositionOf

\* The bytes of a file depend on its i-node and on the block that it has when
\* it is not empty.
LEMMA BytesKept ==
    ASSUME NEW i, inode_table'[i] = inode_table[i], freeinode_ts'[i] = freeinode_ts[i],
           UNCHANGED fs_data
    PROVE  BytesOf(i)' = BytesOf(i)
BY DEF BytesOf

\* An open under way is where its thread is.
LEMMA OpenStages ==
    ASSUME NEW t \in Threads
    PROVE  /\ pc[t] = "open" =>
                 OpenOf(t) = Files!Opening("asked", arg[t].name, arg[t].flags,
                                           Files!Closed, Files!NoHandle)
           /\ pc[t] = "add" =>
                 OpenOf(t) = Files!Opening("found", NoName, {},
                                [file |-> arg[t].inum, offset |-> arg[t].offset],
                                arg[t].fh)
           /\ pc[t] \notin {"open", "add"} => OpenOf(t) = Files!NoOpen
BY DEF OpenOf, Files!Opening, Files!Closed, Files!NoFile, Files!NoHandle, Files!NoOpen

\* ... and after a step.
LEMMA OpenStagesNext ==
    ASSUME NEW t \in Threads
    PROVE  /\ pc'[t] = "open" =>
                 OpenOf(t)' = Files!Opening("asked", arg'[t].name, arg'[t].flags,
                                            Files!Closed, Files!NoHandle)
           /\ pc'[t] = "add" =>
                 OpenOf(t)' = Files!Opening("found", NoName, {},
                                [file |-> arg'[t].inum, offset |-> arg'[t].offset],
                                arg'[t].fh)
           /\ pc'[t] \notin {"open", "add"} => OpenOf(t)' = Files!NoOpen
BY DEF OpenOf, Files!Opening, Files!Closed, Files!NoFile, Files!NoHandle, Files!NoOpen

\* A thread whose place and locals stay is in the same open.
LEMMA OpeningKept ==
    ASSUME NEW t \in Threads,
           \/ pc'[t] = pc[t] /\ arg'[t] = arg[t]
           \/ pc[t] \notin {"open", "add"} /\ pc'[t] \notin {"open", "add"}
    PROVE  OpenOf(t)' = OpenOf(t)
<1>1. CASE pc'[t] = pc[t] /\ arg'[t] = arg[t]
  BY <1>1 DEF OpenOf
<1>2. CASE pc[t] \notin {"open", "add"} /\ pc'[t] \notin {"open", "add"}
  BY <1>2, OpenStages, OpenStagesNext
<1>. QED  BY <1>1, <1>2

\* When names, bytes, positions and opens stay, so does the file system.
LEMMA FileSystemKept ==
    ASSUME UNCHANGED open_flag,
           \A n \in Names : FileNamed(n)' = FileNamed(n),
           \A i \in FileInums : BytesOf(i)' = BytesOf(i),
           \A h \in Handles : PositionOf(h)' = PositionOf(h),
           \A t \in Threads : OpenOf(t)' = OpenOf(t)
    PROVE  UNCHANGED Files!vars
<1>1. UNCHANGED Namespace
  BY DEF Namespace
<1>2. UNCHANGED Contents
  BY DEF Contents, FileInums
<1>3. UNCHANGED Positions
  BY DEF Positions
<1>4. UNCHANGED Opens
  BY DEF Opens
<1>. QED  BY <1>1, <1>2, <1>3, <1>4 DEF Files!vars, Active

-----------------------------------------------------------------------------
(* The handles and the opens. *)

\* A handle is open when its entry is taken.
LEMMA HandlesOpen ==
    ASSUME Inv, NEW h \in Handles
    PROVE  Files!Open(h) <=> h \in TakenEntries
<1>1. Positions[h] = PositionOf(h)
  BY DEF Positions
<1>2. open_file_table[h].of_inumber # -1
  BY DEF Inv, TypeOK, StateTypeOK, OpenFileEntry, Inums
<1>3. free_open_file_entries[h] \in {FREE, TAKEN} /\ FREE # TAKEN
  BY DEF Inv, TypeOK, StateTypeOK, FREE, TAKEN
<1>4. CASE free_open_file_entries[h] = FREE
  BY <1>1, <1>3, <1>4 DEF Files!Open, Files!Closed, Files!NoFile, PositionOf, TakenEntries
<1>5. CASE free_open_file_entries[h] = TAKEN
  <2>1. PositionOf(h) = [file |-> open_file_table[h].of_inumber,
                         offset |-> open_file_table[h].of_offset]
    BY <1>3, <1>5 DEF PositionOf
  <2>2. PositionOf(h).file # Files!Closed.file
    BY <1>2, <2>1 DEF Files!Closed, Files!NoFile
  <2>. QED  BY <1>1, <1>5, <2>2 DEF Files!Open, TakenEntries
<1>. QED  BY <1>3, <1>4, <1>5

\* Whoever may run under the global lock finds no handle set aside: the spare
\* handles are the free entries.
LEMMA HandlesSpare ==
    ASSUME Inv, GlobalLockFree, NEW h \in Handles
    PROVE  Files!Spare(h) <=> h \in FreeEntries
<1>1. ASSUME NEW t \in Threads  PROVE Opens[t].handle # h
  <2>1. OpenOf(t).handle = -1
    BY OpenStages, NobodyAdds
    DEF Files!Opening, Files!NoOpen, Files!NoHandle
  <2>. QED  BY <2>1 DEF Opens, Handles
<1>2. DOMAIN Opens = Threads
  BY DEF Opens
<1>3. h \in FreeEntries <=> h \notin TakenEntries
  BY DEF FreeEntries, TakenEntries, Inv, TypeOK, StateTypeOK, FREE, TAKEN
<1>. QED  BY <1>1, <1>2, <1>3, HandlesOpen DEF Files!Spare

\* Only the open of the thread that moves changes.
LEMMA OneOpenMoves ==
    ASSUME NEW t \in Threads, OnlyMoves(t)
    PROVE  Opens' = [Opens EXCEPT ![t] = OpenOf(t)']
<1>1. \A u \in Threads \ {t} : OpenOf(u)' = OpenOf(u)
  BY OpeningKept DEF OnlyMoves
<1>. QED  BY <1>1 DEF Opens

\* The scan for a free entry sets a spare handle aside, or finds none.
LEMMA HandleSetAside ==
    ASSUME Inv, GlobalLockFree, NEW t \in Threads, NEW f, NEW o, EntryChosen(t, f, o)
    PROVE  \/ \E h \in Handles :
                 /\ Files!Spare(h)
                 /\ Opens' = [Opens EXCEPT ![t] = Files!Opening("found", NoName, {},
                                                    [file |-> f, offset |-> o], h)]
           \/ /\ \A h \in Handles : ~Files!Spare(h)
              /\ Opens' = [Opens EXCEPT ![t] = Files!NoOpen]
<1>1. OnlyMoves(t)
  BY EntryChosenMoves
<1>2. pc \in [Threads -> Pcs] /\ DOMAIN arg = Threads /\ DOMAIN arg[t] =
          {"name", "flags", "fh", "inum", "offset"}
  BY DEF Inv, TypeOK
<1>3. CASE \E h \in FreeEntries :
              /\ pc' = [pc EXCEPT ![t] = "add"]
              /\ arg' = [arg EXCEPT ![t] = [@ EXCEPT !.fh = h, !.inum = f, !.offset = o]]
  <2>1. PICK h \in FreeEntries :
            /\ pc' = [pc EXCEPT ![t] = "add"]
            /\ arg' = [arg EXCEPT ![t] = [@ EXCEPT !.fh = h, !.inum = f, !.offset = o]]
    BY <1>3
  <2>2. pc'[t] = "add" /\ arg'[t].fh = h /\ arg'[t].inum = f /\ arg'[t].offset = o
    BY <1>2, <2>1
  <2>3. h \in Handles
    BY DEF FreeEntries
  <2>4. OpenOf(t)' = Files!Opening("found", NoName, {}, [file |-> f, offset |-> o], h)
    BY <2>2, OpenStagesNext
  <2>. QED  BY <1>1, <2>3, <2>4, OneOpenMoves, HandlesSpare
<1>4. CASE FreeEntries = {} /\ Return(t)
  <2>1. pc'[t] \notin {"open", "add"}
    BY <1>2, <1>4 DEF Return
  <2>2. OpenOf(t)' = Files!NoOpen
    BY <2>1, OpenStagesNext
  <2>. QED  BY <1>1, <1>4, <2>2, OneOpenMoves, HandlesSpare
<1>. QED  BY <1>3, <1>4 DEF EntryChosen

\* A step that leaves the tables alone leaves the file system alone, except
\* for the opens.
LEMMA UnchangedFiles ==
    ASSUME UNCHANGED <<open_flag, inode_table, freeinode_ts, fs_data, root_dir,
                       open_file_table, free_open_file_entries>>
    PROVE  UNCHANGED <<Active, Namespace, Contents, Positions>>
<1>1. UNCHANGED Active
  BY DEF Active
<1>2. UNCHANGED Namespace
  BY NamesKept DEF Namespace
<1>3. UNCHANGED Contents
  BY BytesKept DEF Contents
<1>4. UNCHANGED Positions
  BY PositionsKept DEF Positions
<1>. QED  BY <1>1, <1>2, <1>3, <1>4

-----------------------------------------------------------------------------
(* The steps that touch no file. *)

\* An open that fails because the file is not there.
LEMMA OpenFailsRefines ==
    ASSUME TablesInv, NEW t \in Threads, OpenFails(t)
    PROVE  Files!OpenNone(t)
<1>. USE DEF TablesInv, OffsetInv, DirInv, LinksInv
<1>1. OnlyMoves(t) /\ pc'[t] = "idle"
  BY DEF OpenFails, Return, OnlyMoves, Inv, TypeOK
<1>2. UNCHANGED <<open_flag, inode_table, freeinode_ts, fs_data, root_dir,
                  open_file_table, free_open_file_entries>>
  BY DEF OpenFails, stateVars, fileVars, entryVars
<1>3. Opens' = [Opens EXCEPT ![t] = Files!NoOpen]
  <2>1. OpenOf(t)' = Files!NoOpen
    BY <1>1, OpenStagesNext
  <2>. QED  BY <1>1, <2>1, OneOpenMoves
<1>4. UNCHANGED <<Active, Namespace, Contents, Positions>>
  BY <1>2, UnchangedFiles
<1>5. Opens[t] = Files!Opening("asked", arg[t].name, arg[t].flags, Files!Closed,
                               Files!NoHandle)
  BY OpenStages DEF OpenFails, Opens
<1>6. Opens[t].stage = "asked" /\ Opens[t].name = arg[t].name
  BY <1>5 DEF Files!Opening
<1>7. Namespace[arg[t].name] = Files!NoFile
  <2>1. arg[t].name \in Names /\ Named(arg[t].name) = {}
    BY DEF OpenFails, Inv, CallsOK, NameGiven
  <2>. QED  BY <2>1 DEF Namespace, FileNamed, Files!NoFile
<1>. QED  BY <1>3, <1>4, <1>6, <1>7 DEF Files!OpenNone

\* When every open stays where it is, so do all of them.
LEMMA OpensKeptAll ==
    ASSUME \A t \in Threads :
              \/ pc'[t] = pc[t] /\ arg'[t] = arg[t]
              \/ pc[t] \notin {"open", "add"} /\ pc'[t] \notin {"open", "add"}
    PROVE  UNCHANGED Opens
BY OpeningKept DEF Opens

\* The start of a close, a refused open and a wakeup show nothing.
LEMMA StutterRefines ==
    ASSUME TablesInv, NEW t \in Threads,
           OpenRefused(t) \/ CloseStart(t) \/ SpuriousWakeup(t)
    PROVE  UNCHANGED Files!vars
<1>1. pc \in [Threads -> Pcs] /\ DOMAIN arg = Threads
  BY DEF TablesInv, OffsetInv, DirInv, LinksInv, Inv, TypeOK
<1>2. UNCHANGED stateVars
  BY DEF OpenRefused, CloseStart, SpuriousWakeup, vars
<1>3. \A u \in Threads :
          \/ pc'[u] = pc[u] /\ arg'[u] = arg[u]
          \/ pc[u] \notin {"open", "add"} /\ pc'[u] \notin {"open", "add"}
  <2>1. CASE OpenRefused(t)
    BY <2>1 DEF OpenRefused, vars, threadVars
  <2>2. CASE CloseStart(t)
    BY <1>1, <2>2 DEF CloseStart
  <2>3. CASE SpuriousWakeup(t)
    BY <1>1, <2>3 DEF SpuriousWakeup
  <2>. QED  BY <2>1, <2>2, <2>3
<1>4. UNCHANGED <<Active, Namespace, Contents, Positions>>
  BY <1>2, UnchangedFiles DEF stateVars, fileVars, entryVars
<1>. QED  BY <1>3, <1>4, OpensKeptAll DEF Files!vars

\* tfs_destroy_after_all_closed goes to sleep, or returns when all is closed.
LEMMA DestroyRefines ==
    ASSUME TablesInv, NEW t \in Threads, DestroyEnter(t) \/ DestroyRecheck(t)
    PROVE  Files!Shut \/ UNCHANGED Files!vars
<1>1. Inv /\ pc \in [Threads -> Pcs] /\ pc[t] \in {"idle", "woken"}
  BY DEF TablesInv, OffsetInv, DirInv, LinksInv, Inv, TypeOK, DestroyEnter, DestroyRecheck
<1>2. UNCHANGED <<fileVars, entryVars, arg>> /\ (DestroyDone(t) \/ DestroyWaits(t))
  BY DEF DestroyEnter, DestroyRecheck
<1>3. UNCHANGED Opens
  <2>1. \A u \in Threads :
            \/ pc'[u] = pc[u] /\ arg'[u] = arg[u]
            \/ pc[u] \notin {"open", "add"} /\ pc'[u] \notin {"open", "add"}
    BY <1>1, <1>2 DEF DestroyDone, DestroyWaits
  <2>. QED  BY <2>1, OpensKeptAll
<1>4. UNCHANGED <<Namespace, Contents, Positions>>
  <2>1. UNCHANGED Namespace
    BY <1>2, NamesKept DEF Namespace, fileVars
  <2>2. UNCHANGED Contents
    BY <1>2, BytesKept DEF Contents, fileVars
  <2>3. UNCHANGED Positions
    BY <1>2, PositionsKept DEF Positions, entryVars
  <2>. QED  BY <2>1, <2>2, <2>3
<1>5. CASE DestroyDone(t)
  <2>1. TakenEntries = {}
    BY <1>1, <1>5, NoneOpenAtZero DEF DestroyDone
  <2>2. \A h \in Handles : ~Files!Open(h)
    BY <1>1, <2>1, HandlesOpen
  <2>3. Active' = FALSE
    BY <1>5 DEF DestroyDone, Active
  <2>. QED  BY <1>3, <1>4, <2>2, <2>3 DEF Files!Shut, Handles
<1>6. CASE DestroyWaits(t)
  BY <1>3, <1>4, <1>6 DEF DestroyWaits, Files!vars, Active
<1>. QED  BY <1>2, <1>5, <1>6

\* A close.
LEMMA RemoveEntryRefines ==
    ASSUME TablesInv, NEW t \in Threads, RemoveEntry(t)
    PROVE  \E h \in Handles : Files!Close(h)
<1>1. Inv /\ TypeOK /\ pc[t] = "remove" /\ arg[t].fh \in Handles
  BY DEF TablesInv, OffsetInv, DirInv, LinksInv, Inv, TypeOK, RemoveEntry
<1>2. PICK h \in Handles : h = arg[t].fh
  BY <1>1
<1>3. h \in TakenEntries
  BY <1>1, <1>2 DEF Inv, CallsOK, EntryStill, TakenEntries
<1>4. /\ UNCHANGED <<fileVars, open_flag, open_file_table>>
      /\ free_open_file_entries' = [free_open_file_entries EXCEPT ![h] = FREE]
  BY <1>2 DEF RemoveEntry, EntryRemoved
<1>5. UNCHANGED Opens
  <2>1. /\ pc'[t] = "idle"
        /\ \A u \in Threads \ {t} :
              pc'[u] = pc[u] \/ (pc[u] = "wait" /\ pc'[u] = "woken")
    BY <1>1, SignalPcs DEF RemoveEntry
  <2>2. \A u \in Threads \ {t} : arg'[u] = arg[u]
    BY <1>1 DEF RemoveEntry, TypeOK
  <2>. QED  BY <1>1, <2>1, <2>2, OpensKeptAll
<1>6. UNCHANGED <<Active, Namespace, Contents>>
  <2>1. UNCHANGED Active
    BY <1>4 DEF Active
  <2>2. UNCHANGED Namespace
    BY <1>4, NamesKept DEF Namespace, fileVars
  <2>3. UNCHANGED Contents
    BY <1>4, BytesKept DEF Contents, fileVars
  <2>. QED  BY <2>1, <2>2, <2>3
<1>7. Positions' = [Positions EXCEPT ![h] = Files!Closed]
  <2>1. free_open_file_entries \in [Handles -> {FREE, TAKEN}]
    BY <1>1 DEF TypeOK, StateTypeOK
  <2>2. PositionOf(h)' = Files!Closed
    BY <1>4, <2>1 DEF PositionOf, Files!Closed, Files!NoFile
  <2>3. \A g \in Handles \ {h} : PositionOf(g)' = PositionOf(g)
    BY <1>4, <2>1 DEF PositionOf
  <2>. QED  BY <2>2, <2>3 DEF Positions
<1>8. Files!Open(h)
  BY <1>1, <1>3, HandlesOpen
<1>. QED  BY <1>5, <1>6, <1>7, <1>8 DEF Files!Close

\* The check of open_flag admits an open.
LEMMA OpenCheckRefines ==
    ASSUME TablesInv, NEW t \in Threads, OpenCheck(t)
    PROVE  Files!Admit(t)
<1>1. Inv /\ pc \in [Threads -> Pcs] /\ DOMAIN arg = Threads /\ pc[t] = "idle"
  BY DEF TablesInv, OffsetInv, DirInv, LinksInv, Inv, TypeOK, OpenCheck
<1>2. UNCHANGED stateVars /\ open_flag = 1
  BY DEF OpenCheck
<1>3. PICK n \in Names, flags \in FlagSets :
          arg' = [arg EXCEPT ![t] = OpenArg(n, flags)]
  BY DEF OpenCheck
<1>4. pc'[t] = "open" /\ arg'[t].name = n /\ arg'[t].flags = flags /\ OnlyMoves(t)
  BY <1>1, <1>3 DEF OpenCheck, OpenArg, OnlyMoves
<1>5. Opens' = [Opens EXCEPT ![t] = Files!Opening("asked", n, flags, Files!Closed,
                                                  Files!NoHandle)]
  <2>1. OpenOf(t)' = Files!Opening("asked", n, flags, Files!Closed, Files!NoHandle)
    BY <1>4, OpenStagesNext
  <2>. QED  BY <1>4, <2>1, OneOpenMoves
<1>6. Opens[t] = Files!NoOpen
  BY <1>1, OpenStages DEF Opens
<1>7. UNCHANGED <<Active, Namespace, Contents, Positions>> /\ Active
  BY <1>2, UnchangedFiles DEF stateVars, fileVars, entryVars, Active
<1>. QED  BY <1>5, <1>6, <1>7 DEF Files!Admit

\* The handle is handed out.
LEMMA AddEntryRefines ==
    ASSUME TablesInv, NEW t \in Threads, AddEntry(t)
    PROVE  Files!HandOut(t)
<1>1. Inv /\ TypeOK
  BY DEF TablesInv, OffsetInv, DirInv, LinksInv, Inv
<1>2. /\ pc[t] = "add" /\ pc'[t] = "idle" /\ OnlyMoves(t)
      /\ UNCHANGED fileVars
      /\ arg[t].fh \in Handles
  BY <1>1, AddEntryMoves DEF TypeOK
<1>3. PICK h \in Handles : h = arg[t].fh
  BY <1>2
<1>4. /\ free_open_file_entries' = [free_open_file_entries EXCEPT ![h] = TAKEN]
      /\ open_file_table' = [open_file_table EXCEPT ![h] =
            [of_inumber |-> arg[t].inum, of_offset |-> arg[t].offset]]
      /\ UNCHANGED open_flag
  BY <1>3 DEF AddEntry, EntryAdded
<1>5. Opens[t] = Files!Opening("found", NoName, {},
                     [file |-> arg[t].inum, offset |-> arg[t].offset], arg[t].fh)
  BY <1>2, OpenStages DEF Opens
<1>6. /\ Opens[t].stage = "found" /\ Opens[t].handle = h
      /\ Opens[t].at = [file |-> arg[t].inum, offset |-> arg[t].offset]
  BY <1>3, <1>5 DEF Files!Opening
<1>7. Positions' = [Positions EXCEPT ![h] = Opens[t].at]
  <2>1. /\ free_open_file_entries \in [Handles -> {FREE, TAKEN}]
        /\ DOMAIN open_file_table = Handles
    BY <1>1 DEF TypeOK, StateTypeOK
  <2>2. PositionOf(h)' = [file |-> arg[t].inum, offset |-> arg[t].offset]
    BY <1>4, <2>1 DEF PositionOf, FREE, TAKEN
  <2>3. \A g \in Handles \ {h} : PositionOf(g)' = PositionOf(g)
    BY <1>4, <2>1 DEF PositionOf
  <2>. QED  BY <1>6, <2>2, <2>3 DEF Positions
<1>8. Opens' = [Opens EXCEPT ![t] = Files!NoOpen]
  <2>1. OpenOf(t)' = Files!NoOpen
    BY <1>2, OpenStagesNext
  <2>. QED  BY <1>2, <2>1, OneOpenMoves
<1>9. UNCHANGED <<Active, Namespace, Contents>>
  <2>1. UNCHANGED Active
    BY <1>4 DEF Active
  <2>2. UNCHANGED Namespace
    BY <1>2, NamesKept DEF Namespace, fileVars
  <2>3. UNCHANGED Contents
    BY <1>2, BytesKept DEF Contents, fileVars
  <2>. QED  BY <2>1, <2>2, <2>3
<1>. QED  BY <1>6, <1>7, <1>8, <1>9 DEF Files!HandOut

-----------------------------------------------------------------------------
(* Names and bytes. *)

\* The first entry of a name is the one that CHOOSE takes.
LEMMA NameFound ==
    ASSUME NEW n \in Names, NEW s \in DirSlots, IsFirst(Named(n), s)
    PROVE  FileNamed(n) = root_dir[s].d_inumber
<1>1. s \in Named(n)
  BY DEF IsFirst
<1>2. ASSUME NEW r \in DirSlots, IsFirst(Named(n), r)  PROVE r = s
  BY <1>2 DEF IsFirst, DirSlots
<1>3. (CHOOSE r \in DirSlots : IsFirst(Named(n), r)) = s
  BY <1>2
<1>. QED  BY <1>1, <1>3 DEF FileNamed

\* A function on 1 .. 0 is the empty sequence.
LEMMA NoBytes ==
    ASSUME NEW f, NEW n \in Nat, n = 0
    PROVE  [k \in 1 .. n |-> f[k - 1]] = <<>>
<1>. DEFINE s == [k \in 1 .. n |-> f[k - 1]]
<1>1. s \in Seq({f})
  OBVIOUS
<1>2. Len(s) = 0
  OBVIOUS
<1>. HIDE DEF s
<1>3. s = <<>>
  BY <1>1, <1>2, EmptySeq
<1>. QED  BY <1>3 DEF s

\* A file has as many bytes as its i-node says.
LEMMA FileBytes ==
    ASSUME Inv, NEW i \in Inums
    PROVE  /\ freeinode_ts[i] = FREE \/ inode_table[i].i_size = 0 => BytesOf(i) = <<>>
           /\ freeinode_ts[i] = TAKEN =>
                 Len(BytesOf(i)) = inode_table[i].i_size
<1>1. inode_table[i].i_size \in Nat
  BY SizesAssumption DEF Inv, TypeOK, StateTypeOK, Inode
<1>2. PICK n \in Nat : n = inode_table[i].i_size
  BY <1>1
<1>3. PICK d : d = fs_data[inode_table[i].i_data_block]
  OBVIOUS
<1>4. freeinode_ts[i] # FREE => BytesOf(i) = [k \in 1 .. n |-> d[k - 1]]
  BY <1>2, <1>3 DEF BytesOf
<1>5. freeinode_ts[i] = FREE => BytesOf(i) = <<>>
  BY DEF BytesOf
<1>6. n = 0 => [k \in 1 .. n |-> d[k - 1]] = <<>>
  BY NoBytes
<1>7. Len([k \in 1 .. n |-> d[k - 1]]) = n
  OBVIOUS
<1>8. freeinode_ts[i] = TAKEN => freeinode_ts[i] # FREE
  BY DEF FREE, TAKEN
<1>9. freeinode_ts[i] = FREE \/ inode_table[i].i_size = 0 => BytesOf(i) = <<>>
  BY <1>2, <1>4, <1>5, <1>6, Zenon
<1>10. freeinode_ts[i] = TAKEN => Len(BytesOf(i)) = inode_table[i].i_size
  BY <1>2, <1>4, <1>7, <1>8, Zenon
<1>. QED  BY <1>9, <1>10

\* ... and after a step.
LEMMA FileBytesNext ==
    ASSUME Inv', NEW i \in Inums
    PROVE  /\ freeinode_ts'[i] = FREE \/ inode_table'[i].i_size = 0 => BytesOf(i)' = <<>>
           /\ freeinode_ts'[i] = TAKEN =>
                 Len(BytesOf(i)') = inode_table'[i].i_size
<1>1. inode_table'[i].i_size \in Nat
  BY SizesAssumption DEF Inv, TypeOK, StateTypeOK, Inode
<1>2. PICK n \in Nat : n = inode_table'[i].i_size
  BY <1>1
<1>3. PICK d : d = fs_data'[inode_table'[i].i_data_block]
  OBVIOUS
<1>4. freeinode_ts'[i] # FREE => BytesOf(i)' = [k \in 1 .. n |-> d[k - 1]]
  BY <1>2, <1>3 DEF BytesOf
<1>5. freeinode_ts'[i] = FREE => BytesOf(i)' = <<>>
  BY DEF BytesOf
<1>6. n = 0 => [k \in 1 .. n |-> d[k - 1]] = <<>>
  BY NoBytes
<1>7. Len([k \in 1 .. n |-> d[k - 1]]) = n
  OBVIOUS
<1>8. freeinode_ts'[i] = TAKEN => freeinode_ts'[i] # FREE
  BY DEF FREE, TAKEN
<1>9. freeinode_ts'[i] = FREE \/ inode_table'[i].i_size = 0 => BytesOf(i)' = <<>>
  BY <1>2, <1>4, <1>5, <1>6, Zenon
<1>10. freeinode_ts'[i] = TAKEN => Len(BytesOf(i)') = inode_table'[i].i_size
  BY <1>2, <1>4, <1>7, <1>8, Zenon
<1>. QED  BY <1>9, <1>10

-----------------------------------------------------------------------------
(* The steps that touch files. *)

\* An open of a file that is there, with or without truncation.
LEMMA OpenExistingRefines ==
    ASSUME TablesInv, Inv', NEW t \in Threads, OpenExisting(t)
    PROVE  Files!OpenOld(t)
<1>0. Inv /\ DirInv /\ LinksInv
  BY DEF TablesInv, OffsetInv, DirInv, LinksInv
<1>1a. PICK s \in DirSlots : \E i, o :
          /\ IsFirst(Named(arg[t].name), s)
          /\ i = root_dir[s].d_inumber
          /\ o = IF "APPEND" \in arg[t].flags THEN inode_table'[i].i_size ELSE 0
          /\ IF "TRUNC" \in arg[t].flags
             THEN TruncatedInode(i)
             ELSE UNCHANGED <<inode_table, free_blocks>>
          /\ EntryChosen(t, i, o)
  BY DEF OpenExisting, InitialOffset
<1>1. PICK i, o :
          /\ IsFirst(Named(arg[t].name), s)
          /\ i = root_dir[s].d_inumber
          /\ o = IF "APPEND" \in arg[t].flags THEN inode_table'[i].i_size ELSE 0
          /\ IF "TRUNC" \in arg[t].flags
             THEN TruncatedInode(i)
             ELSE UNCHANGED <<inode_table, free_blocks>>
          /\ EntryChosen(t, i, o)
  BY <1>1a
<1>2. IsFile(i) /\ i \in FileInums /\ i \in Inums
  BY <1>0, <1>1, LookedUp DEF IsFile, FileInums
<1>3. /\ pc[t] = "open" /\ GlobalLockFree
      /\ arg[t].name \in Names
      /\ UNCHANGED <<freeinode_ts, fs_data, root_dir, entryVars, open_flag>>
  BY <1>0 DEF OpenExisting, Inv, CallsOK, NameGiven
<1>4. /\ Opens[t].stage = "asked" /\ Opens[t].name = arg[t].name
      /\ Opens[t].flags = arg[t].flags
  <2>1. Opens[t] = Files!Opening("asked", arg[t].name, arg[t].flags, Files!Closed,
                                 Files!NoHandle)
    BY <1>3, OpenStages DEF Opens
  <2>. QED  BY <2>1 DEF Files!Opening
<1>5. Namespace[arg[t].name] = i /\ i # Files!NoFile
  BY <1>1, <1>2, <1>3, NameFound DEF Namespace, Files!NoFile, Inums
<1>6. UNCHANGED <<Active, Namespace, Positions>>
  <2>1. UNCHANGED Active
    BY <1>3 DEF Active
  <2>2. UNCHANGED Namespace
    BY <1>3, NamesKept DEF Namespace
  <2>3. UNCHANGED Positions
    BY <1>3, PositionsKept DEF Positions, entryVars
  <2>. QED  BY <2>1, <2>2, <2>3
<1>7. Contents'[i] = BytesOf(i)' /\ Len(BytesOf(i)') = inode_table'[i].i_size
  BY <1>0, <1>2, <1>3, FileBytesNext DEF Contents, FileInums, IsFile
<1>8. Contents' = IF "TRUNC" \in arg[t].flags
                  THEN [Contents EXCEPT ![i] = <<>>] ELSE Contents
  <2>1. \A j \in Inums \ {i} : inode_table'[j] = inode_table[j]
    BY <1>1, <1>0 DEF TruncatedInode, Inv, TypeOK, StateTypeOK
  <2>2. \A j \in FileInums \ {i} : BytesOf(j)' = BytesOf(j)
    BY <1>3, <2>1, BytesKept DEF FileInums
  <2>3. CASE "TRUNC" \in arg[t].flags
    <3>1. inode_table'[i].i_size = 0
      <4>1. inode_table \in [Inums -> Inode] /\ inode_table[i].i_size \in Nat
        BY <1>0, <1>2, SizesAssumption DEF Inv, TypeOK, StateTypeOK, Inode
      <4>2. CASE inode_table[i].i_size > 0
        <5>1. inode_table' = [inode_table EXCEPT ![i].i_size = 0]
          BY <1>1, <2>3, <4>2 DEF TruncatedInode
        <5>. QED  BY <1>2, <4>1, <5>1 DEF Inode
      <4>3. CASE inode_table[i].i_size = 0
        BY <1>1, <2>3, <4>3 DEF TruncatedInode
      <4>. QED  BY <4>1, <4>2, <4>3
    <3>2. BytesOf(i)' = <<>>
      BY <1>2, <3>1, FileBytesNext
    <3>. QED  BY <1>2, <2>2, <2>3, <3>2 DEF Contents, FileInums
  <2>4. CASE "TRUNC" \notin arg[t].flags
    <3>1. BytesOf(i)' = BytesOf(i)
      BY <1>1, <1>3, <2>4, BytesKept
    <3>. QED  BY <1>2, <2>2, <2>4, <3>1 DEF Contents, FileInums
  <2>. QED  BY <2>3, <2>4
<1>9. o = IF "APPEND" \in arg[t].flags THEN Len(Contents'[i]) ELSE 0
  BY <1>1, <1>7
<1>10. \/ \E h \in Handles :
              /\ Files!Spare(h)
              /\ Opens' = [Opens EXCEPT ![t] = Files!Opening("found", NoName, {},
                                                 [file |-> i, offset |-> o], h)]
       \/ /\ \A h \in Handles : ~Files!Spare(h)
          /\ Opens' = [Opens EXCEPT ![t] = Files!NoOpen]
  BY <1>0, <1>1, <1>3, HandleSetAside
<1>. HIDE DEF Files!Spare
<1>. QED  BY <1>4, <1>5, <1>6, <1>8, <1>9, <1>10 DEF Files!OpenOld, Files!Resolved

\* No two entries have one name, so each is the first of its own.
LEMMA NamedOnce ==
    ASSUME DirectoryConsistent, NEW n \in Names, NEW s \in Named(n)
    PROVE  s \in DirSlots /\ IsFirst(Named(n), s)
<1>1. \A r \in Named(n) : r = s
  BY DEF DirectoryConsistent, LinkedSlots, Named
<1>2. s \in DirSlots /\ s <= s
  BY DEF Named, DirSlots
<1>. QED  BY <1>1, <1>2 DEF IsFirst

\* What a name stands for when there is an entry of it.
LEMMA NameKept ==
    ASSUME DirectoryConsistent, NEW n \in Names, Named(n)' = Named(n),
           \A s \in Named(n) : root_dir'[s] = root_dir[s]
    PROVE  FileNamed(n)' = FileNamed(n)
<1>1. CASE Named(n) = {}
  BY <1>1 DEF FileNamed
<1>2. ASSUME NEW s \in Named(n)  PROVE FileNamed(n)' = FileNamed(n)
  <2>1. s \in DirSlots /\ IsFirst(Named(n), s)
    BY NamedOnce
  <2>2. (CHOOSE r \in DirSlots : IsFirst(Named(n), r)) = s
    <3>1. \A r \in DirSlots : IsFirst(Named(n), r) => r = s
      BY <2>1 DEF IsFirst, DirSlots
    <3>. QED  BY <2>1, <3>1
  <2>3. PICK c : c = (CHOOSE r \in DirSlots : IsFirst(Named(n), r))
    OBVIOUS
  <2>4. FileNamed(n) = root_dir[c].d_inumber
    BY <2>3 DEF FileNamed
  <2>5. c = (CHOOSE r \in DirSlots : IsFirst(Named(n)', r))
    BY <2>3, Zenon DEF IsFirst
  <2>6. FileNamed(n)' = root_dir'[c].d_inumber
    BY <2>5 DEF FileNamed, IsFirst
  <2>. QED  BY <2>2, <2>3, <2>4, <2>6
<1>. QED  BY <1>1, <1>2

\* The only entry of a name says what it stands for.
LEMMA NameEntered ==
    ASSUME NEW n \in Names, NEW s \in DirSlots, Named(n)' = {s}
    PROVE  FileNamed(n)' = root_dir'[s].d_inumber
<1>1. \A r \in DirSlots : IsFirst(Named(n)', r) <=> r = s
  BY DEF IsFirst, DirSlots
<1>2. (CHOOSE r \in DirSlots : IsFirst(Named(n)', r)) = s
  BY <1>1
<1>. QED  BY <1>2 DEF FileNamed, IsFirst

\* An open that creates the file, or finds the directory full.
LEMMA OpenCreateRefines ==
    ASSUME Disciplined, TablesInv, Inv', NEW t \in Threads, OpenCreate(t)
    PROVE  Files!OpenNew(t) \/ Files!OpenNone(t)
<1>0. Inv /\ DirInv /\ LinksInv /\ DirectoryConsistent
  BY DEF TablesInv, OffsetInv, DirInv, LinksInv
<1>1. PICK i \in Inums :
          /\ IsFirst(FreeInodes, i)
          /\ NewInode(i)
          /\ \/ \E s \in DirSlots :
                   /\ IsFirst(EmptySlots, s)
                   /\ LinkedInode(i, s, arg[t].name)
                   /\ EntryChosen(t, i, 0)
             \/ DeletedInode(i) /\ Return(t)
  BY DEF OpenCreate
<1>2. freeinode_ts[i] = FREE /\ i \in FileInums /\ i # -1
  BY <1>0, <1>1, SizesAssumption
  DEF IsFirst, FreeInodes, LinksInv, FREE, TAKEN, Inums, FileInums
<1>3. PICK n \in Names : n = arg[t].name
  BY <1>0 DEF OpenCreate, Inv, CallsOK, NameGiven
<1>4. /\ pc[t] = "open" /\ GlobalLockFree
      /\ Named(n) = {} /\ "CREAT" \in arg[t].flags
      /\ UNCHANGED <<fs_data, entryVars, open_flag>>
  BY <1>3 DEF OpenCreate
<1>5. /\ Opens[t].stage = "asked" /\ Opens[t].name = n
      /\ Opens[t].flags = arg[t].flags
  <2>1. Opens[t] = Files!Opening("asked", arg[t].name, arg[t].flags, Files!Closed,
                                 Files!NoHandle)
    BY <1>4, OpenStages DEF Opens
  <2>. QED  BY <1>3, <2>1 DEF Files!Opening
<1>6. Namespace[n] = Files!NoFile
  BY <1>4 DEF Namespace, FileNamed, Files!NoFile
<1>7. UNCHANGED <<Active, Positions>>
  <2>1. UNCHANGED Active
    BY <1>4 DEF Active
  <2>2. UNCHANGED Positions
    BY <1>4, PositionsKept DEF Positions, entryVars
  <2>. QED  BY <2>1, <2>2
<1>8. /\ inode_table'[i].i_size = 0
      /\ \A j \in Inums \ {i} : inode_table'[j] = inode_table[j]
      /\ freeinode_ts \in [Inums -> {FREE, TAKEN}]
  BY <1>0, <1>1 DEF NewInode, Inv, TypeOK, StateTypeOK
<1>9. BytesOf(i) = <<>> /\ BytesOf(i)' = <<>>
  BY <1>0, <1>2, <1>8, FileBytes, FileBytesNext
<1>10. ASSUME NEW s \in DirSlots, IsFirst(EmptySlots, s), LinkedInode(i, s, n),
              EntryChosen(t, i, 0)
       PROVE  Files!OpenNew(t)
  <2>1. /\ \A j \in Inums \ {i} : freeinode_ts'[j] = freeinode_ts[j]
        /\ root_dir'[s] = [d_inumber |-> i, d_name |-> n]
        /\ \A r \in DirSlots \ {s} : root_dir'[r] = root_dir[r]
        /\ root_dir[s].d_inumber = -1
    BY <1>0, <1>3, <1>8, <1>10
    DEF LinkedInode, Disciplined, IsFirst, EmptySlots, Inv, TypeOK, StateTypeOK
  <2>2. Namespace' = [Namespace EXCEPT ![n] = i]
    <3>1. Named(n)' = {s}
      BY <1>2, <1>4, <2>1 DEF Named
    <3>2. FileNamed(n)' = i
      BY <2>1, <3>1, NameEntered
    <3>3. ASSUME NEW m \in Names \ {n}  PROVE FileNamed(m)' = FileNamed(m)
      <4>1. Named(m)' = Named(m) /\ s \notin Named(m)
        BY <2>1 DEF Named
      <4>2. \A r \in Named(m) : root_dir'[r] = root_dir[r]
        BY <2>1, <4>1 DEF Named
      <4>. QED  BY <1>0, <4>1, <4>2, NameKept
    <3>. QED  BY <3>2, <3>3 DEF Namespace
  <2>3. ASSUME NEW m \in Names  PROVE Namespace[m] # i
    <3>1. CASE Named(m) = {}
      BY <1>2, <3>1 DEF Namespace, FileNamed
    <3>2. ASSUME NEW r \in Named(m)  PROVE Namespace[m] # i
      <4>1. FileNamed(m) = root_dir[r].d_inumber
        BY <1>0, NamedOnce, NameFound
      <4>2. r \in LinkedSlots
        BY DEF Named, LinkedSlots
      <4>3. freeinode_ts[root_dir[r].d_inumber] = TAKEN
        BY <1>0, <4>2 DEF LinksInv, IsFile
      <4>. QED  BY <1>2, <4>1, <4>3 DEF Namespace, FREE, TAKEN
    <3>. QED  BY <3>1, <3>2
  <2>4. Contents' = [Contents EXCEPT ![i] = <<>>]
    <3>1. \A j \in FileInums \ {i} : BytesOf(j)' = BytesOf(j)
      BY <1>4, <1>8, <2>1, BytesKept DEF FileInums
    <3>. QED  BY <1>9, <3>1 DEF Contents, FileInums
  <2>5. \/ \E h \in Handles :
              /\ Files!Spare(h)
              /\ Opens' = [Opens EXCEPT ![t] = Files!Opening("found", NoName, {},
                                                 [file |-> i, offset |-> 0], h)]
        \/ /\ \A h \in Handles : ~Files!Spare(h)
           /\ Opens' = [Opens EXCEPT ![t] = Files!NoOpen]
    BY <1>0, <1>4, <1>10, HandleSetAside
  <2>. HIDE DEF Files!Spare
  <2>. QED  BY <1>2, <1>4, <1>5, <1>6, <1>7, <2>2, <2>3, <2>4, <2>5
            DEF Files!OpenNew, Files!Resolved, FileInums
<1>11. ASSUME DeletedInode(i), Return(t)
       PROVE  Files!OpenNone(t)
  <2>1. UNCHANGED <<freeinode_ts, root_dir>>
    BY <1>2, <1>8, <1>11 DEF DeletedInode
  <2>2. OnlyMoves(t) /\ pc'[t] = "idle"
    BY <1>0, <1>11 DEF Return, OnlyMoves, Inv, TypeOK
  <2>3. Opens' = [Opens EXCEPT ![t] = Files!NoOpen]
    <3>1. OpenOf(t)' = Files!NoOpen
      BY <2>2, OpenStagesNext
    <3>. QED  BY <2>2, <3>1, OneOpenMoves
  <2>4. UNCHANGED Namespace
    BY <2>1, NamesKept DEF Namespace
  <2>5. UNCHANGED Contents
    <3>1. \A j \in FileInums \ {i} : BytesOf(j)' = BytesOf(j)
      BY <1>4, <1>8, <2>1, BytesKept DEF FileInums
    <3>. QED  BY <1>9, <3>1 DEF Contents, FileInums
  <2>. QED  BY <1>5, <1>6, <1>7, <2>3, <2>4, <2>5 DEF Files!OpenNone
<1>. QED  BY <1>1, <1>3, <1>10, <1>11

\* A read moves the position inside the file.
LEMMA ReadRefines ==
    ASSUME TablesInv, NEW t \in Threads, NEW h \in Handles, NEW len \in Lens,
           Read(t, h, len)
    PROVE  \E n \in 1 .. BLOCK_SIZE : Files!Read(h, n)
<1> DEFINE i == open_file_table[h].of_inumber
           off == open_file_table[h].of_offset
           size == inode_table[i].i_size
<1>0. Inv /\ OffsetInv /\ LinksInv
  BY DEF TablesInv, OffsetInv, DirInv, LinksInv
<1>1. /\ h \in TakenEntries /\ IsFile(i) /\ i \in Inums /\ off \in Nat
      /\ size \in 0 .. BLOCK_SIZE /\ len \in Nat /\ off <= size
  BY <1>0, CallsAssumption
  DEF Read, Inv, TypeOK, StateTypeOK, OpenFileEntry, Inode, OffsetInv, OffsetWithinSize,
      LinksInv, IsFile
<1>2. PICK n : n = ReadLen(size, off, len)
  OBVIOUS
<1>3. n \in 1 .. BLOCK_SIZE /\ off + n <= size
  <2>1. size - off \in 0 .. SIZE_T - 1 /\ SIZE_T \in Nat \ {0}
    BY <1>1, SizesAssumption
  <2>2. (size - off) % SIZE_T = size - off
    BY <2>1
  <2>3. n > 0
    BY <1>2 DEF Read
  <2>. QED  BY <1>1, <1>2, <2>2, <2>3, SizesAssumption DEF ReadLen
<1>4. /\ UNCHANGED <<fileVars, free_open_file_entries, open_flag, threadVars>>
      /\ open_file_table' = [open_file_table EXCEPT ![h] =
             [of_inumber |-> i, of_offset |-> off + n]]
  <2>1. open_file_table' = [open_file_table EXCEPT ![h].of_offset = off + n]
    BY <1>2 DEF Read
  <2>. QED  BY <1>0, <2>1, OffsetMoved DEF Read, Inv
<1>5. Positions[h] = [file |-> i, offset |-> off]
  BY <1>1 DEF Positions, PositionOf, TakenEntries, FREE, TAKEN
<1>6. Positions' = [Positions EXCEPT ![h].offset = off + n]
  <2>1. DOMAIN open_file_table = Handles
    BY <1>0 DEF Inv, TypeOK, StateTypeOK
  <2>2. PositionOf(h)' = [file |-> i, offset |-> off + n]
    BY <1>1, <1>4, <2>1 DEF PositionOf, TakenEntries, FREE, TAKEN
  <2>3. \A g \in Handles \ {h} : PositionOf(g)' = PositionOf(g)
    BY <1>4, <2>1 DEF PositionOf
  <2>4. [Positions[h] EXCEPT !.offset = off + n] = [file |-> i, offset |-> off + n]
    BY <1>5
  <2>. QED  BY <2>2, <2>3, <2>4 DEF Positions
<1>7. UNCHANGED <<Active, Namespace, Contents, Opens>>
  <2>1. UNCHANGED Active
    BY <1>4 DEF Active
  <2>2. UNCHANGED Namespace
    BY <1>4, NamesKept DEF Namespace, fileVars
  <2>3. UNCHANGED Contents
    BY <1>4, BytesKept DEF Contents, fileVars
  <2>4. UNCHANGED Opens
    BY <1>4, OpensKeptAll DEF threadVars
  <2>. QED  BY <2>1, <2>2, <2>3, <2>4
<1>8. Files!Open(h)
  BY <1>0, <1>1, HandlesOpen
<1>9. Contents[i] = BytesOf(i) /\ Len(BytesOf(i)) = size
  BY <1>0, <1>1, FileBytes DEF Contents, IsFile
<1>10. Positions[h].offset + n <= Len(Contents[Positions[h].file])
       /\ Positions[h].offset + n = off + n
  <2>1. Positions[h].offset = off /\ Positions[h].file = i
    BY <1>5
  <2>. QED  BY <1>3, <1>9, <2>1, Zenon
<1>. QED  BY <1>3, <1>6, <1>7, <1>8, <1>10 DEF Files!Read

\* tfs_init makes an empty file system.
LEMMA TfsInitRefines ==
    ASSUME TablesInv, Inv', TfsInit
    PROVE  Files!Restart
<1>0. Inv
  BY DEF TablesInv, OffsetInv, DirInv, LinksInv
<1>1. /\ TakenEntries' = {} /\ LinkedSlots' = {}
      /\ freeinode_ts' = FreshInodeMap
  BY <1>0, TfsInitClears
<1>2. /\ \A t \in Threads : pc[t] = "idle"
      /\ UNCHANGED threadVars /\ open_flag' = 1
      /\ free_open_file_entries' = FreshEntryMap
  BY DEF TfsInit, StateReset
<1>3. \A t \in Threads : Opens[t] = Files!NoOpen
  BY <1>2, OpenStages DEF Opens
<1>4. UNCHANGED Opens
  BY <1>2, OpensKeptAll DEF threadVars
<1>5. Active' = TRUE
  BY <1>2 DEF Active
<1>6. Namespace' = [n \in Names |-> Files!NoFile]
  <2>1. ASSUME NEW n \in Names  PROVE FileNamed(n)' = -1
    <3>1. Named(n)' = {}
      BY <1>1 DEF Named, LinkedSlots
    <3>. QED  BY <3>1 DEF FileNamed
  <2>. QED  BY <2>1 DEF Namespace, Files!NoFile
<1>7. Contents' = [i \in FileInums |-> <<>>]
  <2>1. ASSUME NEW i \in FileInums  PROVE BytesOf(i)' = <<>>
    <3>1. freeinode_ts'[i] = FREE /\ i \in Inums
      BY <1>1 DEF FreshInodeMap, FileInums
    <3>. QED  BY <3>1, FileBytesNext
  <2>. QED  BY <2>1 DEF Contents, FileInums
<1>8. Positions' = [h \in Handles |-> Files!Closed]
  <2>1. ASSUME NEW h \in Handles  PROVE PositionOf(h)' = Files!Closed
    BY <1>2 DEF FreshEntryMap, PositionOf, Files!Closed, Files!NoFile
  <2>. QED  BY <2>1 DEF Positions
<1>. QED  BY <1>3, <1>4, <1>5, <1>6, <1>7, <1>8 DEF Files!Restart, FileInums, Handles

\* A write that finds no free block shows nothing: the file is empty before and
\* after it.
LEMMA WriteNothingRefines ==
    ASSUME TablesInv, Inv', NEW i \in Inums, inode_table[i].i_size = 0,
           inode_table' = [inode_table EXCEPT ![i].i_data_block = -1],
           UNCHANGED <<fs_data, open_file_table, freeinode_ts, root_dir,
                       free_open_file_entries, open_flag, threadVars>>
    PROVE  UNCHANGED Files!vars
<1>0. Inv
  BY DEF TablesInv, OffsetInv, DirInv, LinksInv
<1>1. DOMAIN inode_table = Inums /\ inode_table[i] \in Inode
  BY <1>0 DEF Inv, TypeOK, StateTypeOK
<1>2. PICK rec \in Inode : rec = inode_table[i] /\ rec.i_size = 0
  BY <1>1
<1>3. inode_table'[i].i_size = 0 /\ \A j \in Inums \ {i} : inode_table'[j] = inode_table[j]
  <2>1. inode_table'[i] = [rec EXCEPT !.i_data_block = -1]
    BY <1>1, <1>2
  <2>2. [rec EXCEPT !.i_data_block = -1].i_size = 0
    BY <1>2 DEF Inode
  <2>. QED  BY <1>1, <2>1, <2>2
<1>4. BytesOf(i) = <<>> /\ BytesOf(i)' = <<>>
  BY <1>0, <1>3, FileBytes, FileBytesNext
<1>5. \A j \in FileInums : BytesOf(j)' = BytesOf(j)
  BY <1>3, <1>4, BytesKept DEF FileInums
<1>6. \A n \in Names : FileNamed(n)' = FileNamed(n)
  BY NamesKept
<1>7. \A h \in Handles : PositionOf(h)' = PositionOf(h)
  BY PositionsKept
<1>8. \A t \in Threads : OpenOf(t)' = OpenOf(t)
  BY OpeningKept DEF threadVars
<1>. QED  BY <1>5, <1>6, <1>7, <1>8, FileSystemKept

\* A sequence after n bytes are written to it at offset off.
Overwritten(bytes, off, n, byte) ==
    [k \in 1 .. (IF off + n > Len(bytes) THEN off + n ELSE Len(bytes)) |->
        IF k > off /\ k <= off + n THEN byte ELSE bytes[k]]

\* The bytes of a file after n bytes are written to its block b.
LEMMA BytesWritten ==
    ASSUME TablesInv, NEW i \in Inums, NEW off \in Nat, NEW n \in Nat, NEW b \in Blocks,
           NEW byte, freeinode_ts[i] = TAKEN, freeinode_ts'[i] = TAKEN,
           n > 0, off <= inode_table[i].i_size, off + n <= BLOCK_SIZE,
           IsWriteBlock(inode_table[i], b),
           \A k \in 0 .. BLOCK_SIZE - 1 :
              fs_data'[b][k] = IF off <= k /\ k < off + n THEN byte ELSE fs_data[b][k],
           inode_table'[i].i_data_block = b,
           inode_table'[i].i_size = IF off + n > inode_table[i].i_size
                                    THEN off + n ELSE inode_table[i].i_size
    PROVE  BytesOf(i)' = Overwritten(BytesOf(i), off, n, byte)
<1>0. Inv
  BY DEF TablesInv, OffsetInv, DirInv, LinksInv
<1>1. PICK size : size = inode_table[i].i_size
  OBVIOUS
<1>2. size \in Nat /\ size <= BLOCK_SIZE /\ BLOCK_SIZE \in Nat
  BY <1>0, <1>1, SizesAssumption DEF Inv, TypeOK, StateTypeOK, Inode
<1>3. Len(BytesOf(i)) = size
  BY <1>0, <1>1, FileBytes
<1>4. PICK end : end = IF off + n > size THEN off + n ELSE size
  OBVIOUS
<1>5. end \in Nat /\ end <= BLOCK_SIZE
  BY <1>2, <1>4
<1>8. BytesOf(i)' = [k \in 1 .. end |-> fs_data'[b][k - 1]]
  <2>1. inode_table'[i].i_size = end /\ inode_table'[i].i_data_block = b
    BY <1>1, <1>4
  <2>. QED  BY <2>1 DEF BytesOf, FREE, TAKEN
<1>9. ASSUME NEW k \in 1 .. end
      PROVE  fs_data'[b][k - 1] = IF k > off /\ k <= off + n THEN byte ELSE BytesOf(i)[k]
  <2>1. k - 1 \in 0 .. BLOCK_SIZE - 1 /\ k \in Nat /\ k >= 1
    BY <1>2, <1>5
  <2>2. fs_data'[b][k - 1] =
            IF off <= k - 1 /\ k - 1 < off + n THEN byte ELSE fs_data[b][k - 1]
    BY <2>1
  <2>3. CASE k > off /\ k <= off + n
    <3>1. off <= k - 1 /\ k - 1 < off + n
      BY <2>1, <2>3
    <3>. QED  BY <2>2, <2>3, <3>1, Zenon
  <2>4. CASE ~(k > off /\ k <= off + n)
    <3>1. ~(off <= k - 1 /\ k - 1 < off + n)
      BY <2>1, <2>4
    <3>2. k \in 1 .. size /\ size > 0
      BY <1>1, <1>2, <1>4, <2>1, <2>4
    <3>3. b = inode_table[i].i_data_block
      BY <1>1, <3>2 DEF IsWriteBlock
    <3>4. BytesOf(i)[k] = fs_data[b][k - 1]
      <4>1. BytesOf(i) = [l \in 1 .. size |-> fs_data[b][l - 1]]
        BY <1>1, <3>3 DEF BytesOf, FREE, TAKEN
      <4>. QED  BY <3>2, <4>1
    <3>. QED  BY <2>2, <2>4, <3>1, <3>4, Zenon
  <2>. QED  BY <2>3, <2>4
<1>. HIDE DEF BytesOf
<1>10. BytesOf(i)' = [k \in 1 .. end |->
                          IF k > off /\ k <= off + n THEN byte ELSE BytesOf(i)[k]]
  BY <1>8, <1>9
<1>. QED  BY <1>3, <1>4, <1>10 DEF Overwritten

\* A write leaves the other files alone: their blocks are others.
LEMMA OtherBytes ==
    ASSUME TablesInv, NEW i \in Inums, NEW j \in Inums \ {i}, NEW b \in Blocks,
           freeinode_ts[i] = TAKEN, IsWriteBlock(inode_table[i], b),
           \A c \in Blocks \ {b} : fs_data'[c] = fs_data[c],
           Inv', UNCHANGED freeinode_ts, inode_table'[j] = inode_table[j]
    PROVE  BytesOf(j)' = BytesOf(j)
<1>0. Inv /\ BlocksOwned
  BY DEF TablesInv, BlocksInv, LinksInv
<1>1. inode_table[j].i_size \in Nat /\ inode_table[i].i_size \in Nat
      /\ freeinode_ts[j] \in {FREE, TAKEN}
  BY <1>0, SizesAssumption DEF Inv, TypeOK, StateTypeOK, Inode
<1>2. CASE freeinode_ts[j] = FREE \/ inode_table[j].i_size = 0
  BY <1>0, <1>2, FileBytes, FileBytesNext
<1>3. CASE freeinode_ts[j] = TAKEN /\ inode_table[j].i_size > 0
  <2>1. j \in NonEmptyInodes
    BY <1>3 DEF NonEmptyInodes
  <2> DEFINE c == inode_table[j].i_data_block
  <2>2. c \in Blocks /\ free_blocks[c] = TAKEN
    BY <1>0, <2>1 DEF BlocksOwned
  <2>3. c # b
    <3>1. CASE inode_table[i].i_size = 0
      <4>1. b = -1 \/ free_blocks[b] = FREE
        BY <3>1 DEF IsWriteBlock, IsFirst, FreeBlocks
      <4>. QED  BY <2>2, <4>1 DEF Blocks, FREE, TAKEN
    <3>2. CASE inode_table[i].i_size > 0
      <4>1. i \in NonEmptyInodes /\ b = inode_table[i].i_data_block
        BY <3>2 DEF NonEmptyInodes, IsWriteBlock
      <4>. QED  BY <1>0, <2>1, <4>1 DEF BlocksOwned
    <3>. QED  BY <1>1, <3>1, <3>2
  <2>4. fs_data'[c] = fs_data[c]
    BY <2>2, <2>3
  <2>. QED  BY <2>4 DEF BytesOf
<1>. QED  BY <1>1, <1>2, <1>3

\* A write puts its bytes into its own file, or finds no free block.
LEMMA WriteRefines ==
    ASSUME TablesInv, Inv', NEW t \in Threads, NEW h \in Handles, NEW len \in Lens,
           NEW byte \in Bytes, Write(t, h, len, byte)
    PROVE  \/ \E n \in 1 .. BLOCK_SIZE : Files!Write(h, n, byte)
           \/ UNCHANGED Files!vars
<1>0. Inv /\ OffsetInv /\ LinksInv
  BY DEF TablesInv, OffsetInv, DirInv, LinksInv
<1>1. PICK i, off : /\ i = open_file_table[h].of_inumber
                    /\ off = open_file_table[h].of_offset
  OBVIOUS
<1>2. PICK n : n = WriteLen(len, off)
  OBVIOUS
<1>3. /\ h \in TakenEntries /\ IsFile(i) /\ i \in Inums /\ off \in Nat
      /\ i \in FileInums /\ freeinode_ts[i] = TAKEN
      /\ inode_table[i].i_size \in Nat
      /\ off <= inode_table[i].i_size /\ off <= BLOCK_SIZE
  BY <1>0, <1>1, SizesAssumption
  DEF Write, Inv, TypeOK, StateTypeOK, OpenFileEntry, Inode, OffsetInv, OffsetWithinSize,
      LinksInv, IsFile, FileInums
<1>4. n \in 1 .. BLOCK_SIZE /\ off + n <= BLOCK_SIZE
  <2>1. n > 0
    BY <1>1, <1>2 DEF Write
  <2>. QED  BY <1>2, <1>3, <2>1, CallsAssumption, SizesAssumption DEF WriteLen
<1>5. PICK b \in Blocks \cup {-1} :
          /\ IsWriteBlock(inode_table[i], b)
          /\ IF b # -1
             THEN Written(h, n, b, byte)
             ELSE /\ inode_table' = [inode_table EXCEPT ![i].i_data_block = b]
                  /\ UNCHANGED <<fs_data, open_file_table, free_blocks>>
  BY <1>1, <1>2 DEF Write
<1>6. UNCHANGED <<freeinode_ts, root_dir, free_open_file_entries, open_flag, threadVars>>
  BY DEF Write
<1>7. CASE b \in Blocks /\ b # -1
  <2>1. /\ fs_data' = [fs_data EXCEPT ![b] = [k \in DOMAIN @ |->
                          IF off <= k /\ k < off + n THEN byte ELSE @[k]]]
        /\ open_file_table' = [open_file_table EXCEPT ![h].of_offset = off + n]
        /\ inode_table' = [inode_table EXCEPT ![i] =
              [i_size |-> IF off + n > inode_table[i].i_size
                          THEN off + n ELSE inode_table[i].i_size,
               i_data_block |-> b]]
    BY <1>1, <1>5, <1>7 DEF Written
  <2>2. DOMAIN inode_table = Inums /\ DOMAIN fs_data = Blocks /\ DOMAIN open_file_table = Handles
    BY <1>0 DEF Inv, TypeOK, StateTypeOK
  <2>3. /\ inode_table'[i] =
              [i_size |-> IF off + n > inode_table[i].i_size
                          THEN off + n ELSE inode_table[i].i_size,
               i_data_block |-> b]
        /\ \A j \in Inums \ {i} : inode_table'[j] = inode_table[j]
        /\ \A c \in Blocks \ {b} : fs_data'[c] = fs_data[c]
    BY <1>3, <2>1, <2>2
  <2>4. open_file_table' = [open_file_table EXCEPT ![h] =
             [of_inumber |-> i, of_offset |-> off + n]]
    BY <1>0, <1>1, <2>1, OffsetMoved DEF Inv
  <2>5. Positions[h] = [file |-> i, offset |-> off]
    BY <1>1, <1>3 DEF Positions, PositionOf, TakenEntries, FREE, TAKEN
  <2>6. Positions' = [Positions EXCEPT ![h].offset = off + n]
    <3>1. PositionOf(h)' = [file |-> i, offset |-> off + n]
      BY <1>3, <1>6, <2>2, <2>4 DEF PositionOf, TakenEntries, FREE, TAKEN
    <3>2. \A g \in Handles \ {h} : PositionOf(g)' = PositionOf(g)
      BY <1>6, <2>2, <2>4 DEF PositionOf
    <3>3. [Positions[h] EXCEPT !.offset = off + n] = [file |-> i, offset |-> off + n]
      BY <2>5
    <3>. QED  BY <3>1, <3>2, <3>3 DEF Positions
  <2>7. Contents[i] = BytesOf(i) /\ Len(BytesOf(i)) = inode_table[i].i_size
    BY <1>0, <1>3, FileBytes DEF Contents, FileInums
  <2>8. BytesOf(i)' = Overwritten(BytesOf(i), off, n, byte)
    <3>0. \A k \in 0 .. BLOCK_SIZE - 1 :
              fs_data'[b][k] = IF off <= k /\ k < off + n THEN byte ELSE fs_data[b][k]
      <4>1. /\ DOMAIN fs_data[b] = 0 .. BLOCK_SIZE - 1
            /\ DOMAIN fs_data = Blocks
        BY <1>0, <1>7 DEF Inv, TypeOK, StateTypeOK, Block
      <4>. QED  BY <1>7, <2>1, <4>1
    <3>1. freeinode_ts'[i] = TAKEN /\ n \in Nat /\ n > 0
      BY <1>3, <1>4, <1>6
    <3>2. b \in Blocks /\ IsWriteBlock(inode_table[i], b)
      BY <1>5, <1>7
    <3>3. /\ inode_table'[i].i_data_block = b
          /\ inode_table'[i].i_size = IF off + n > inode_table[i].i_size
                                      THEN off + n ELSE inode_table[i].i_size
      BY <2>3
    <3>. QED  BY <1>3, <1>4, <3>0, <3>1, <3>2, <3>3, BytesWritten
  <2>9. Contents' = [Contents EXCEPT ![i] = Overwritten(Contents[i], off, n, byte)]
    <3>1. \A j \in FileInums \ {i} : BytesOf(j)' = BytesOf(j)
      BY <1>3, <1>5, <1>6, <1>7, <2>3, OtherBytes DEF FileInums
    <3>. QED  BY <1>3, <2>7, <2>8, <3>1 DEF Contents, FileInums
  <2>10. UNCHANGED <<Active, Namespace, Opens>>
    <3>1. UNCHANGED Active
      BY <1>6 DEF Active
    <3>2. UNCHANGED Namespace
      BY <1>6, NamesKept DEF Namespace
    <3>3. UNCHANGED Opens
      BY <1>6, OpensKeptAll DEF threadVars
    <3>. QED  BY <3>1, <3>2, <3>3
  <2>11. Files!Open(h) /\ off <= Len(Contents[i])
    BY <1>0, <1>3, <2>7, HandlesOpen
  <2>12. Positions[h].file = i /\ Positions[h].offset = off
    BY <2>5
  <2>13. Files!Write(h, n, byte)
    BY <1>4, <2>6, <2>9, <2>10, <2>11, <2>12 DEF Files!Write, Overwritten
  <2>. QED  BY <1>4, <2>13
<1>8. CASE b = -1
  <2>1. /\ inode_table' = [inode_table EXCEPT ![i].i_data_block = -1]
        /\ UNCHANGED <<fs_data, open_file_table>>
    BY <1>5, <1>8
  <2>2. inode_table[i].i_size = 0
    <3>1. CASE inode_table[i].i_size > 0
      <4>1. i \in NonEmptyInodes /\ b = inode_table[i].i_data_block
        BY <1>3, <1>5, <3>1 DEF NonEmptyInodes, IsWriteBlock
      <4>2. b \in Blocks
        BY <4>1 DEF TablesInv, BlocksInv, BlocksOwned
      <4>. QED  BY <1>8, <4>2 DEF Blocks
    <3>. QED  BY <1>3, <3>1
  <2>. QED  BY <1>3, <1>6, <2>1, <2>2, WriteNothingRefines
<1>. QED  BY <1>7, <1>8

-----------------------------------------------------------------------------
(* The refinement. *)

\* The tables that tfs_init leaves hold an empty file system.
LEMMA InitRefines ==
    ASSUME Init
    PROVE  Files!Init
<1>1. TablesInv
  BY InitOffsets, InitBlocks DEF TablesInv
<1>2. Inv
  BY <1>1 DEF TablesInv, OffsetInv, DirInv, LinksInv
<1>3. Active = TRUE
  BY DEF Init, StateInit, Active
<1>4. Namespace = [n \in Names |-> Files!NoFile]
  <2>1. ASSUME NEW n \in Names  PROVE FileNamed(n) = -1
    <3>1. Named(n) = {}
      BY DEF Init, StateInit, FreshDir, Named
    <3>. QED  BY <3>1 DEF FileNamed
  <2>. QED  BY <2>1 DEF Namespace, Files!NoFile
<1>5. Contents = [i \in FileInums |-> <<>>]
  <2>1. ASSUME NEW i \in FileInums  PROVE BytesOf(i) = <<>>
    <3>1. freeinode_ts[i] = FREE
      BY DEF Init, StateInit, FreshInodeMap, FileInums
    <3>. QED  BY <3>1 DEF BytesOf
  <2>. QED  BY <2>1 DEF Contents, FileInums
<1>6. Positions = [h \in Handles |-> Files!Closed]
  <2>1. ASSUME NEW h \in Handles  PROVE PositionOf(h) = Files!Closed
    BY DEF Init, StateInit, FreshEntryMap, PositionOf, Files!Closed, Files!NoFile
  <2>. QED  BY <2>1 DEF Positions
<1>7. Opens = [t \in Threads |-> Files!NoOpen]
  <2>1. ASSUME NEW t \in Threads  PROVE OpenOf(t) = Files!NoOpen
    BY OpenStages DEF Init
  <2>. QED  BY <2>1 DEF Opens
<1>. QED  BY <1>3, <1>4, <1>5, <1>6, <1>7 DEF Files!Init, FileInums, Handles

\* Every step of the library is a step of TfsFiles, or leaves the files alone.
LEMMA StepRefines ==
    ASSUME Disciplined, TablesInv, Inv', [Next]_vars
    PROVE  [Files!Next]_(Files!vars)
<1>1. CASE UNCHANGED vars
  <2>1. /\ UNCHANGED <<open_flag, inode_table, freeinode_ts, fs_data, root_dir,
                       open_file_table, free_open_file_entries>>
        /\ UNCHANGED <<pc, arg>>
    BY <1>1 DEF vars, stateVars, fileVars, entryVars, threadVars
  <2>2. UNCHANGED <<Active, Namespace, Contents, Positions>>
    BY <2>1, UnchangedFiles
  <2>3. UNCHANGED Opens
    BY <2>1, OpensKeptAll
  <2>. QED  BY <2>2, <2>3 DEF Files!vars
<1>2. CASE TfsInit
  BY <1>2, TfsInitRefines DEF Files!Next
<1>3. ASSUME NEW t \in Threads, OpenCheck(t)  PROVE Files!Next
  BY <1>3, OpenCheckRefines DEF Files!Next
<1>4. ASSUME NEW t \in Threads, OpenExisting(t)  PROVE Files!Next
  BY <1>4, OpenExistingRefines DEF Files!Next
<1>5. ASSUME NEW t \in Threads, OpenCreate(t)  PROVE Files!Next
  BY <1>5, OpenCreateRefines DEF Files!Next
<1>6. ASSUME NEW t \in Threads, OpenFails(t)  PROVE Files!Next
  BY <1>6, OpenFailsRefines DEF Files!Next
<1>7. ASSUME NEW t \in Threads, AddEntry(t)  PROVE Files!Next
  BY <1>7, AddEntryRefines DEF Files!Next
<1>8. ASSUME NEW t \in Threads, RemoveEntry(t)  PROVE Files!Next
  <2>1. PICK h \in Handles : Files!Close(h)
    BY <1>8, RemoveEntryRefines
  <2>. QED  BY <2>1 DEF Files!Next, Handles
<1>9. ASSUME NEW t \in Threads, DestroyEnter(t) \/ DestroyRecheck(t)
      PROVE  Files!Next \/ UNCHANGED Files!vars
  BY <1>9, DestroyRefines DEF Files!Next
<1>10. ASSUME NEW t \in Threads, OpenRefused(t) \/ CloseStart(t) \/ SpuriousWakeup(t)
       PROVE  UNCHANGED Files!vars
  BY <1>10, StutterRefines
<1>11. ASSUME NEW t \in Threads, NEW h \in Handles, NEW len \in Lens, Read(t, h, len)
       PROVE  Files!Next
  <2>1. PICK n \in 1 .. BLOCK_SIZE : Files!Read(h, n)
    BY <1>11, ReadRefines
  <2>. QED  BY <2>1 DEF Files!Next, Handles
<1>12. ASSUME NEW t \in Threads, NEW h \in Handles, NEW len \in Lens,
              NEW byte \in Bytes, Write(t, h, len, byte)
       PROVE  Files!Next \/ UNCHANGED Files!vars
  <2>1. CASE \E n \in 1 .. BLOCK_SIZE : Files!Write(h, n, byte)
    BY <2>1 DEF Files!Next, Handles
  <2>. QED  BY <1>12, <2>1, WriteRefines
<1>. QED  BY <1>1, <1>2, <1>3, <1>4, <1>5, <1>6, <1>7, <1>8, <1>9, <1>10, <1>11, <1>12
          DEF Next

\* The library implements TfsFiles: whatever the threads do, what they see is a
\* set of named byte sequences with positions in them.
THEOREM LibraryImplementsFiles ==
    ASSUME ~SharedTrunc, \A n \in Names : Stored[n] = n
    PROVE  Spec => ImplementsTfsFiles
<1>1. Disciplined
  BY DEF Disciplined
<1>2. Init => TablesInv /\ Files!Init
  BY InitOffsets, InitBlocks, InitRefines DEF TablesInv
<1>3. TablesInv /\ [Next]_vars => TablesInv'
  BY <1>1, StepOffsets, StepBlocks DEF TablesInv
<1>4. TablesInv => Inv
  BY DEF TablesInv, BlocksInv, LinksInv
<1>5. TablesInv /\ TablesInv' /\ [Next]_vars => [Files!Next]_(Files!vars)
  <2>1. TablesInv' => Inv'
    BY DEF TablesInv, BlocksInv, LinksInv
  <2>. QED  BY <1>1, <2>1, StepRefines
<1>. QED  BY <1>2, <1>3, <1>5, PTL DEF Spec, ImplementsTfsFiles, Files!Spec
=============================================================================
