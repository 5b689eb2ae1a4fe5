-------------------------- MODULE FineBlocksProofs --------------------------
(***************************************************************************)
(* Proofs about the block numbers of FineState: every block in use is      *)
(* taken, is not block 0, and stands in one place of one file.             *)
(*                                                                         *)
(* The invariant speaks of places (a direct block, the indirect block, an  *)
(* int of it) rather than of the cardinality that BlocksOwned counts.  A   *)
(* file whose indirect block is being labelled has no ints yet; the loop   *)
(* that labels it goes past the end of the block with the code's           *)
(* constants, but what it writes there is -1, which ends uses and adds     *)
(* none.  Callers' bytes may read as any number, so it is also proved that *)
(* they never stand where a block number is read: a labelled indirect      *)
(* block holds labels only, as long as writes stay in their blocks and     *)
(* within the ints of the indirect block (WritesWithin in FineReadsProofs).*)
(***************************************************************************)
EXTENDS FineOperationsProofs, WellFoundedInduction, SequenceTheorems

-----------------------------------------------------------------------------
(* Arithmetic. *)

\* Quotient and remainder.
LEMMA DivMod ==
    ASSUME NEW a \in Nat, NEW b \in Nat \ {0}
    PROVE  /\ a \div b \in Nat /\ a % b \in 0 .. b - 1
           /\ a = (b * (a \div b)) + (a % b)
OBVIOUS

\* A product of naturals, as a fact of its own.
LEMMA TimesNat ==
    ASSUME NEW b \in Nat, NEW q \in Nat
    PROVE  b * q \in Nat
OBVIOUS

\* The next multiple.
LEMMA TimesNext ==
    ASSUME NEW b \in Int, NEW q \in Int
    PROVE  b * (q + 1) = (b * q) + b /\ b * q \in Int
OBVIOUS

\* Quotient and remainder are the only ones.
LEMMA DivModUnique ==
    ASSUME NEW a \in Nat, NEW b \in Nat \ {0}, NEW q \in Nat, NEW r \in 0 .. b - 1,
           a = (b * q) + r
    PROVE  a \div b = q /\ a % b = r
BY Z3T(30)

\* The quotient of a number between two multiples.
LEMMA DivWithin ==
    ASSUME NEW a \in Nat, NEW b \in Nat \ {0}, NEW q \in Nat, b * q <= a, a < (b * q) + b
    PROVE  a \div b = q /\ a % b = a - (b * q)
<1>1. PICK p \in Nat : p = b * q
  BY TimesNat
<1>2. a - p \in 0 .. b - 1 /\ a = p + (a - p)
  BY <1>1
<1>3. a = (b * q) + (a - p)
  BY <1>1, <1>2
<1>. QED  BY <1>1, <1>2, <1>3, DivModUnique

\* The blocks up to EndBlock hold all n bytes, when the code counts the last one.
LEMMA EndReached ==
    ASSUME NEW off \in Nat, NEW n \in Nat, NEW b \in Nat \ {0}, n % b # 0 \/ off % b = 0
    PROVE  off + n <= b * (((off + n) \div b) + (IF n % b > 0 THEN 1 ELSE 0))
<1>. DEFINE q == (off + n) \div b
<1>0. q \in Nat /\ off + n = (b * q) + ((off + n) % b) /\ (off + n) % b \in 0 .. b - 1
  BY DivMod
<1>1. CASE n % b # 0
  <2>1. n % b > 0
    BY <1>1, DivMod
  <2>2. b * (q + 1) = (b * q) + b /\ b * q \in Int
    BY <1>0, TimesNext
  <2>. HIDE DEF q
  <2>. QED BY <2>1, <2>2, <1>0
<1>2. CASE n % b = 0 /\ off % b = 0
  <2>0. off = (b * (off \div b)) + 0 /\ n = (b * (n \div b)) + 0
    BY <1>2, DivMod
  <2>1. PICK x \in Nat, y \in Nat : off = b * x /\ n = b * y
    <3>1. off \div b \in Nat /\ n \div b \in Nat
      BY DivMod
    <3>2. off = b * (off \div b) /\ n = b * (n \div b)
      BY <2>0, <3>1, TimesNat
    <3>. QED  BY <3>1, <3>2
  <2>2. off + n = (b * (x + y)) + 0
    BY <2>1
  <2>3. off + n \in Nat /\ x + y \in Nat /\ 0 \in 0 .. b - 1
    OBVIOUS
  <2>4. q = x + y
    BY <2>2, <2>3, DivModUnique
  <2>. QED  BY <1>2, <2>2, <2>4
<1>. QED  BY <1>1, <1>2

\* Multiples are b apart.
LEMMA Times ==
    ASSUME NEW b \in Nat \ {0}, NEW m \in Int, NEW n \in Int, m < n
    PROVE  (b * m) + b <= b * n
BY Z3T(30)

\* A set of naturals has a least member.
LEMMA LeastOutside ==
    ASSUME NEW T \in SUBSET Nat, T # {}
    PROVE  \E m \in T : \A k \in T : m <= k
<1>1. IsWellFoundedOn(OpToRel(<, Nat), Nat)
  BY NatLessThanWellFounded
<1>2. PICK m \in T : \A k \in T : <<k, m>> \notin OpToRel(<, Nat)
  BY <1>1, WFMin
<1>3. \A k \in T : ~(k < m)
  BY <1>2 DEF OpToRel
<1>. QED  BY <1>3

\* A set of naturals that holds 0 and every successor holds them all.
LEMMA Induction ==
    ASSUME NEW T, 0 \in T, \A n \in Nat : n \in T => n + 1 \in T
    PROVE  Nat \subseteq T
<1>1. SUFFICES ASSUME Nat \ T # {} PROVE FALSE
  OBVIOUS
<1>2. PICK m \in Nat \ T : \A k \in Nat \ T : m <= k
  BY <1>1, LeastOutside
<1>3. m # 0 /\ m - 1 \in Nat
  BY <1>2
<1>4. m - 1 \in T
  BY <1>2, <1>3
<1>5. m \in T
  BY <1>3, <1>4
<1>. QED BY <1>2, <1>5

\* What the loop of tfs_read starts from.
ReadFrom(off, n) == [off |-> off, left |-> n, got |-> <<>>, ok |-> TRUE]

\* f records every round of the loop, up to block last.
IsRun(f, i, off, n, last) ==
    f = [k \in FirstBlock(off) .. last |->
            IF k = FirstBlock(off) THEN ReadFrom(off, n)
            ELSE ReadBlock(i, k - 1, EndBlock(off, n), f[k - 1])]

\* A run has a next round.
LEMMA RunExtends ==
    ASSUME NEW i, NEW off, NEW n, NEW last \in Int, FirstBlock(off) \in Int,
           FirstBlock(off) <= last,
           NEW f, IsRun(f, i, off, n, last)
    PROVE  \E g : IsRun(g, i, off, n, last + 1)
<1>. DEFINE first == FirstBlock(off)
            g == [k \in first .. last + 1 |->
                    IF k = last + 1 THEN ReadBlock(i, last, EndBlock(off, n), f[last])
                    ELSE f[k]]
<1>1. \A k \in first .. last + 1 :
        g[k] = IF k = first THEN ReadFrom(off, n)
               ELSE ReadBlock(i, k - 1, EndBlock(off, n), g[k - 1])
  <2>. SUFFICES ASSUME NEW k \in first .. last + 1
                PROVE  g[k] = IF k = first THEN ReadFrom(off, n)
                              ELSE ReadBlock(i, k - 1, EndBlock(off, n), g[k - 1])
    OBVIOUS
  <2>1. CASE k = last + 1
    <3>1. k # first /\ k - 1 = last /\ last \in first .. last + 1 /\ last # last + 1
      BY <2>1
    <3>2. g[last] = f[last]
      BY <3>1
    <3>. QED  BY <3>1, <3>2, <2>1
  <2>2. CASE k # last + 1 /\ k # first
    <3>1. k - 1 \in first .. last /\ k \in first .. last
      BY <2>2
    <3>2. f[k] = ReadBlock(i, k - 1, EndBlock(off, n), f[k - 1])
      BY <2>2, <3>1 DEF IsRun
    <3>3. k - 1 # last + 1 /\ k - 1 \in first .. last + 1
      BY <3>1
    <3>4. g[k] = f[k] /\ g[k - 1] = f[k - 1]
      BY <2>2, <3>3
    <3>. QED  BY <2>2, <3>2, <3>4
  <2>3. CASE k = first
    <3>1. k \in first .. last /\ k # last + 1
      BY <2>3
    <3>. QED  BY <2>3, <3>1 DEF IsRun
  <2>. QED  BY <2>1, <2>2, <2>3
<1>2. g = [k \in first .. last + 1 |-> g[k]]
  OBVIOUS
<1>3. IsRun(g, i, off, n, last + 1)
  <2>. HIDE DEF g
  <2>. QED  BY <1>1, <1>2 DEF IsRun
<1>. QED  BY <1>3

\* There is a run up to every block.
LEMMA RunExists ==
    ASSUME NEW i, NEW off, NEW n, NEW last \in Int, FirstBlock(off) \in Int,
           FirstBlock(off) <= last
    PROVE  \E g : IsRun(g, i, off, n, last)
<1>. DEFINE first == FirstBlock(off)
            T == {m \in Nat : \E g : IsRun(g, i, off, n, first + m)}
<1>1. 0 \in T
  <2>1. first + 0 = first /\ first .. first = {first}
    OBVIOUS
  <2>2. IsRun([k \in {first} |-> ReadFrom(off, n)], i, off, n, first)
    BY <2>1 DEF IsRun
  <2>. QED  BY <2>1, <2>2
<1>2. ASSUME NEW m \in Nat, m \in T
      PROVE  m + 1 \in T
  <2>1. PICK f : IsRun(f, i, off, n, first + m)
    BY <1>2
  <2>2. first + m \in Int /\ first <= first + m /\ first + (m + 1) = (first + m) + 1
    OBVIOUS
  <2>3. \E g : IsRun(g, i, off, n, (first + m) + 1)
    BY <2>1, <2>2, RunExtends
  <2>. QED  BY <2>2, <2>3
<1>3. Nat \subseteq T
  <2>. HIDE DEF T
  <2>. QED  BY <1>1, <1>2, Induction
<1>4. last - first \in T /\ first + (last - first) = last
  BY <1>3
<1>. QED  BY <1>4

\* Reading is the last element of the run.
LEMMA ReadingRuns ==
    ASSUME NEW i, NEW off, NEW n, FirstBlock(off) \in Int, EndBlock(off, n) \in Int,
           FirstBlock(off) <= EndBlock(off, n)
    PROVE  \E f : IsRun(f, i, off, n, EndBlock(off, n)) /\ Reading(i, off, n) = f[EndBlock(off, n)]
<1>. DEFINE up == CHOOSE f : f = [k \in FirstBlock(off) .. EndBlock(off, n) |->
            IF k = FirstBlock(off) THEN [off |-> off, left |-> n, got |-> <<>>, ok |-> TRUE]
            ELSE ReadBlock(i, k - 1, EndBlock(off, n), f[k - 1])]
<1>1. \E g : IsRun(g, i, off, n, EndBlock(off, n))
  BY RunExists
<1>2. IsRun(up, i, off, n, EndBlock(off, n))
  BY <1>1 DEF IsRun, ReadFrom
<1>3. Reading(i, off, n) = up[EndBlock(off, n)]
  BY DEF Reading
<1>. HIDE DEF up
<1>. QED  BY <1>2, <1>3

-----------------------------------------------------------------------------
\* What a round takes from block k: what is left, or the rest of the block.
LEMMA PieceFits ==
    ASSUME NEW k \in Nat, NEW end \in Nat, NEW off \in Nat, NEW left \in Nat,
           k < end, off + left <= BLOCK_SIZE * end,
           BLOCK_SIZE * k <= off, off < (BLOCK_SIZE * k) + BLOCK_SIZE
    PROVE  LET upto == (BLOCK_SIZE * k) + BLOCK_SIZE IN
           /\ off + left <= upto => Piece(k, end, off, left) = left
           /\ off + left > upto => Piece(k, end, off, left) = upto - off
<1>1. BLOCK_SIZE \in Nat \ {0}
  BY FineSizesAssumption
<1>2. PICK p \in Nat : p = BLOCK_SIZE * k
  BY <1>1, TimesNat
<1>3. off % BLOCK_SIZE = off - p
  BY <1>1, <1>2, DivWithin
<1>4. k + 1 = end => BLOCK_SIZE * end = p + BLOCK_SIZE
  BY <1>1, <1>2, TimesNext
<1>5. CASE off + left <= p + BLOCK_SIZE
  <2>1. left <= BLOCK_SIZE
    BY <1>1, <1>2, <1>5
  <2>2. ~(left > BLOCK_SIZE - (off % BLOCK_SIZE))
    BY <1>1, <1>3, <1>5
  <2>. QED  BY <1>1, <1>2, <1>5, <2>1, <2>2 DEF Piece
<1>6. CASE off + left > p + BLOCK_SIZE
  <2>1. k + 1 < end
    BY <1>1, <1>4, <1>6
  <2>2. BLOCK_SIZE - (off % BLOCK_SIZE) = (p + BLOCK_SIZE) - off
    BY <1>1, <1>3
  <2>3. left > BLOCK_SIZE - (off % BLOCK_SIZE)
    BY <1>1, <1>3, <1>6
  <2>. QED  BY <1>1, <1>2, <1>6, <2>1, <2>2, <2>3 DEF Piece
<1>. QED  BY <1>1, <1>2, <1>5, <1>6

\* A piece is never longer than what is left.
LEMMA PieceAtMost ==
    ASSUME NEW k \in Int, NEW end \in Int, NEW off \in Nat, NEW left \in Nat
    PROVE  /\ Piece(k, end, off, left) \in Nat
           /\ Piece(k, end, off, left) <= left
<1>1. BLOCK_SIZE \in Nat \ {0}
  BY FineSizesAssumption
<1>2. off % BLOCK_SIZE \in 0 .. BLOCK_SIZE - 1
  BY <1>1, DivMod
<1>. QED  BY <1>1, <1>2 DEF Piece

\* The blocks of a loop.
LEMMA LoopBlocks ==
    ASSUME NEW off \in Nat, NEW n \in Nat
    PROVE  /\ FirstBlock(off) \in Nat /\ EndBlock(off, n) \in Nat
           /\ FirstBlock(off) <= EndBlock(off, n)
<1>1. BLOCK_SIZE \in Nat \ {0}
  BY FineSizesAssumption
<1>2. PICK q \in Nat, r \in 0 .. BLOCK_SIZE - 1 :
        q = off \div BLOCK_SIZE /\ off = (BLOCK_SIZE * q) + r
  BY <1>1, DivMod
<1>3. PICK q2 \in Nat, r2 \in 0 .. BLOCK_SIZE - 1 :
        q2 = (off + n) \div BLOCK_SIZE /\ off + n = (BLOCK_SIZE * q2) + r2
  <2>1. off + n \in Nat
    OBVIOUS
  <2>. QED  BY <1>1, <2>1, DivMod
<1>4. q <= q2
  <2>1. SUFFICES ASSUME q2 < q PROVE FALSE
    OBVIOUS
  <2>2. (BLOCK_SIZE * q2) + BLOCK_SIZE <= BLOCK_SIZE * q
    BY <1>1, <2>1, Times
  <2>3. BLOCK_SIZE * q2 \in Nat /\ BLOCK_SIZE * q \in Nat
    BY <1>1, TimesNat
  <2>. QED  BY <1>1, <1>2, <1>3, <2>2, <2>3
<1>. QED  BY <1>1, <1>2, <1>3, <1>4 DEF FirstBlock, EndBlock

\* The offset moves by what was read.
LEMMA ReadKeepsType ==
    ASSUME NEW i, NEW off \in Nat, NEW n \in Nat
    PROVE  /\ Reading(i, off, n).off \in Nat /\ Reading(i, off, n).left \in Nat
           /\ Reading(i, off, n).off + Reading(i, off, n).left = off + n
           /\ off <= Reading(i, off, n).off
<1>. DEFINE first == FirstBlock(off)
            end == EndBlock(off, n)
<1>0. first \in Nat /\ end \in Nat /\ first <= end
  BY LoopBlocks
<1>1. PICK f : IsRun(f, i, off, n, end) /\ Reading(i, off, n) = f[end]
  BY <1>0, ReadingRuns
<1>. DEFINE Good(r) == /\ r.off \in Nat /\ r.left \in Nat /\ r.off + r.left = off + n
                       /\ off <= r.off
            T == {m \in Nat : first + m <= end => Good(f[first + m])}
<1>. HIDE DEF first, end
<1>2. 0 \in T
  <2>1. f[first] = ReadFrom(off, n)
    BY <1>0, <1>1 DEF IsRun, first
  <2>2. Good(f[first])
    BY <2>1 DEF ReadFrom
  <2>3. first + 0 = first
    BY <1>0
  <2>. QED  BY <2>2, <2>3
<1>3. ASSUME NEW m \in Nat, m \in T
      PROVE  m + 1 \in T
  <2>1. SUFFICES ASSUME first + (m + 1) <= end
                 PROVE  Good(f[first + (m + 1)])
    OBVIOUS
  <2>2. PICK k \in Int : k = first + m
    BY <1>0
  <2>3. first + (m + 1) = k + 1 /\ k + 1 \in first .. end /\ k + 1 # first /\ (k + 1) - 1 = k
    BY <1>0, <2>1, <2>2
  <2>4. f[k + 1] = ReadBlock(i, k, end, f[k])
    BY <1>1, <2>3 DEF IsRun, first, end
  <2>5. Good(f[k])
    BY <1>0, <1>3, <2>1, <2>2
  <2>6. /\ Piece(k, end, f[k].off, f[k].left) \in Nat
        /\ Piece(k, end, f[k].off, f[k].left) <= f[k].left
    <3>1. PICK o \in Nat, l \in Nat : o = f[k].off /\ l = f[k].left
      BY <2>5
    <3>2. k \in Int /\ end \in Int
      BY <1>0
    <3>3. Piece(k, end, o, l) \in Nat /\ Piece(k, end, o, l) <= l
      BY <3>2, PieceAtMost
    <3>. QED  BY <3>1, <3>3
  <2>7. Good(ReadBlock(i, k, end, f[k]))
    <3>1. CASE ~f[k].ok \/ f[k].left = 0
      BY <3>1, <2>5 DEF ReadBlock
    <3>2. CASE ~(~f[k].ok \/ f[k].left = 0) /\ BlockNumber(i, k) \notin Blocks
      <4>1. ReadBlock(i, k, end, f[k]) = [f[k] EXCEPT !.ok = FALSE]
        BY <3>2 DEF ReadBlock
      <4>. QED  BY <4>1, <2>5
    <3>3. CASE ~(~f[k].ok \/ f[k].left = 0) /\ BlockNumber(i, k) \in Blocks
      <4>. DEFINE m1 == Piece(k, end, f[k].off, f[k].left)
      <4>1. /\ ReadBlock(i, k, end, f[k]).off = f[k].off + m1
            /\ ReadBlock(i, k, end, f[k]).left = f[k].left - m1
        BY <3>3 DEF ReadBlock
      <4>. HIDE DEF m1
      <4>2. m1 \in Nat /\ m1 <= f[k].left
        BY <2>6 DEF m1
      <4>. QED  BY <4>1, <4>2, <2>5
    <3>. QED  BY <3>1, <3>2, <3>3
  <2>. QED  BY <2>3, <2>4, <2>7
<1>4. Nat \subseteq T
  <2>. HIDE DEF T
  <2>. QED  BY <1>2, <1>3, Induction
<1>5. end - first \in T /\ first + (end - first) = end
  BY <1>0, <1>4
<1>6. Good(f[end])
  BY <1>0, <1>5
<1>. QED  BY <1>1, <1>6 DEF end

\* A block's cells are cells.
LEMMA CellExists ==
    ASSUME NEW b \in Blocks, NEW r \in 0 .. BLOCK_SIZE - 1
    PROVE  (b * BLOCK_SIZE) + r \in Cells
<1>1. BLOCK_SIZE \in Nat \ {0} /\ DATA_BLOCKS \in Nat \ {0}
  BY FineSizesAssumption
<1>2. b \in Nat /\ b < DATA_BLOCKS
  BY <1>1 DEF Blocks
<1>3. (BLOCK_SIZE * b) + BLOCK_SIZE <= BLOCK_SIZE * DATA_BLOCKS
  BY <1>1, <1>2, Times
<1>4. PICK x \in Nat, y \in Nat : /\ x = BLOCK_SIZE * b /\ y = BLOCK_SIZE * DATA_BLOCKS
                                  /\ x = b * BLOCK_SIZE /\ y = DATA_BLOCKS * BLOCK_SIZE
  <2>1. BLOCK_SIZE * b \in Nat /\ BLOCK_SIZE * DATA_BLOCKS \in Nat
    BY <1>1, <1>2, TimesNat
  <2>2. BLOCK_SIZE * b = b * BLOCK_SIZE /\ BLOCK_SIZE * DATA_BLOCKS = DATA_BLOCKS * BLOCK_SIZE
    BY <1>1, <1>2
  <2>. QED  BY <2>1, <2>2
<1>5. x + r \in 0 .. y - 1
  BY <1>1, <1>3, <1>4
<1>. QED  BY <1>4, <1>5 DEF Cells

-----------------------------------------------------------------------------

\* What an i-node holds.
Inode == [i_size : Nat, i_data_block : [Direct -> Blocks \cup {-1}],
          i_indirect_data_block : Blocks \cup {-1}]

\* The tables, with no bound on sizes and offsets.
TableTypes ==
    /\ inode_table \in [Inums -> Inode]
    /\ fs_data \in [Cells -> Bytes \cup {Blank, -1} \cup Blocks]
    /\ free_blocks \in [Blocks -> {FREE, TAKEN}]
    /\ open_file_table \in [Handles -> [of_inumber : Inums, of_offset : Nat]]

\* The locals of a call.
Locals(t) ==
    /\ arg[t].inum \in Inums /\ arg[t].fh \in Handles
    /\ arg[t].offset \in Nat /\ arg[t].left \in Nat
    /\ arg[t].blk \in Nat /\ arg[t].end \in Nat
    /\ pc[t] \in Writing \cup {"lock"} => arg[t].byte \in Bytes
    /\ pc[t] = "alloc" => arg[t].scan \in Blocks
    /\ pc[t] = "found" => arg[t].scan = 0 /\ arg[t].inum \in Files
    /\ pc[t] = "add" => arg[t].scan \in Handles

\* The types: inductive together with the consistency of the directory.
TypesInv == DirInv /\ TableTypes /\ \A t \in Threads : Locals(t)

-----------------------------------------------------------------------------

\* What the constants are.
LEMMA Sizes ==
    /\ BLOCK_SIZE \in Nat \ {0} /\ MAX_DIRECT_BLOCKS \in Nat \ {0}
    /\ DATA_BLOCKS \in Nat \ {0} /\ INT_SIZE \in Nat \ {0} /\ SIZE_T \in Nat \ {0}
    /\ 0 \in Blocks /\ 0 \in Handles /\ 0 \in Inums /\ -1 \notin Blocks
    /\ Direct \subseteq Nat
BY FineSizesAssumption DEF Blocks, Handles, Inums, Direct

\* The locals of a thread outside every call.
LEMMA NoArgLocals ==
    /\ NoArg.inum = 0 /\ NoArg.fh = 0 /\ NoArg.offset = 0 /\ NoArg.left = 0
    /\ NoArg.blk = 0 /\ NoArg.end = 0 /\ NoArg.scan = 0
BY DEF NoArg

\* The types hold at first.
LEMMA InitTypes == Init => TypesInv
<1>. SUFFICES ASSUME Init PROVE TypesInv
  OBVIOUS
<1>1. DirInv
  BY InitDir
<1>2. EmptyInode \in Inode /\ RootInode \in Inode /\ StaticInode \in Inode
  BY Sizes DEF Inode, EmptyInode, RootInode, StaticInode
<1>3. TableTypes
  BY <1>2, Sizes DEF Init, StateInit, TableTypes, FREE, TAKEN
<1>4. \A t \in Threads : Locals(t)
  BY NoArgLocals, Sizes DEF Init, Locals, Writing
<1>. QED  BY <1>1, <1>3, <1>4 DEF TypesInv

\* What the threads that do not move have is kept, unless an i-node is freed.
LEMMA OthersTyped ==
    ASSUME TypesInv, NEW t \in Threads, Moved(t), Locals(t)',
           \A i \in Files : i \in Files'
    PROVE  \A u \in Threads : Locals(u)'
<1>. SUFFICES ASSUME NEW u \in Threads, u # t PROVE Locals(u)'
  OBVIOUS
<1>1. Locals(u) /\ pc'[u] = pc[u] /\ arg'[u] = arg[u]
  BY DEF TypesInv, Moved
<1>. QED  BY <1>1 DEF Locals

\* The files are the i-nodes in use.
LEMMA FilesKept == ASSUME UNCHANGED freeinode_ts PROVE Files' = Files
BY DEF Files

\* One thread moves, and leaves types and files as they should be.
LEMMA MovedTypes ==
    ASSUME TypesInv, DirInv', NEW t \in Threads, Moved(t), Locals(t)', TableTypes',
           \A i \in Files : i \in Files'
    PROVE  TypesInv'
BY OthersTyped DEF TypesInv

\* OpenStart keeps the types.
LEMMA OpenStartTypes ==
    ASSUME TypesInv, DirInv', NEW t \in Threads, OpenStart(t)
    PROVE  TypesInv'
<1>1. Moved(t) /\ (pc'[t] = "found" \/ pc'[t] = "create")
  BY OpenStartMoves DEF TypesInv, DirInv
<1>2. TableTypes' /\ Files' = Files
  BY DEF TypesInv, OpenStart, stateVars, fileVars, entryVars, TableTypes, Files
<1>3. Locals(t)'
  <2>1. PICK n \in Names, flags \in FlagSets \cup {{}}, copy \in BOOLEAN :
          LET call == [NoArg EXCEPT !.name = n, !.flags = flags, !.copy = copy] IN
             \/ \E s \in DirSlots :
                   /\ IsFirst(Named(n), s)
                   /\ Goes(t, "found", [call EXCEPT !.inum = root_dir[s].d_inumber])
             \/ Goes(t, "create", call)
    BY DEF OpenStart
  <2>. DEFINE call == [NoArg EXCEPT !.name = n, !.flags = flags, !.copy = copy]
  <2>2. /\ call.inum = 0 /\ call.fh = 0 /\ call.offset = 0 /\ call.left = 0
        /\ call.blk = 0 /\ call.end = 0 /\ call.scan = 0 /\ IsArg(call)
    BY DEF NoArg, IsArg
  <2>. HIDE DEF call
  <2>3. CASE Goes(t, "create", call)
    <3>1. arg'[t] = call /\ pc'[t] = "create"
      BY <2>2, <2>3, GoesMoves DEF TypesInv, DirInv, Pcs
    <3>. QED  BY <2>2, <3>1, Sizes DEF Locals, Writing
  <2>4. ASSUME NEW s \in DirSlots, IsFirst(Named(n), s),
               Goes(t, "found", [call EXCEPT !.inum = root_dir[s].d_inumber])
        PROVE  Locals(t)'
    <3>1. root_dir[s].d_inumber \in Files
      BY <2>4 DEF IsFirst, Named, TypesInv, DirInv, DirectoryConsistent, LinkedSlots
    <3>. DEFINE new == [call EXCEPT !.inum = root_dir[s].d_inumber]
    <3>2. /\ new.inum = root_dir[s].d_inumber
          /\ new.fh = 0 /\ new.offset = 0 /\ new.left = 0
          /\ new.blk = 0 /\ new.end = 0 /\ new.scan = 0 /\ IsArg(new)
      BY <2>2 DEF IsArg
    <3>3. arg'[t] = new /\ pc'[t] = "found"
      BY <2>4, <3>2, GoesMoves DEF TypesInv, DirInv, Pcs
    <3>. HIDE DEF new
    <3>4. root_dir[s].d_inumber \in Inums
      BY <3>1 DEF Files
    <3>. QED  BY <1>2, <3>1, <3>2, <3>3, <3>4, Sizes DEF Locals, Writing
  <2>. QED  BY <2>1, <2>3, <2>4 DEF call
<1>. QED  BY <1>1, <1>2, <1>3, MovedTypes

\* Truncation keeps the tables' types; the size is 0 unless it fails.
LEMMA TruncatedType ==
    ASSUME TypesInv, NEW i \in Inums, TruncatedInode(i)
    PROVE  /\ inode_table' \in [Inums -> Inode] /\ free_blocks' \in [Blocks -> {FREE, TAKEN}]
           /\ inode_table'[i].i_size = IF TruncFails(i) THEN inode_table[i].i_size ELSE 0
<1>0. inode_table \in [Inums -> Inode] /\ free_blocks \in [Blocks -> {FREE, TAKEN}]
  BY DEF TypesInv, TableTypes
<1>1. CASE inode_table[i].i_size = 0
  BY <1>0, <1>1 DEF TruncatedInode, TruncFails, Inode
<1>2. CASE inode_table[i].i_size # 0
  <2>. DEFINE fails == TruncFails(i)
              indirect == IF ~fails /\ BlocksToFree(i) >= MAX_DIRECT_BLOCKS
                          THEN {inode_table[i].i_indirect_data_block} ELSE {}
              D == DirectFreed(i)
              freed == indirect \cup {inode_table[i].i_data_block[d] : d \in D}
              blocks == [d \in Direct |-> IF d \in D THEN -1 ELSE inode_table[i].i_data_block[d]]
              new == [i_size |-> IF fails THEN inode_table[i].i_size ELSE 0,
                      i_data_block |-> blocks,
                      i_indirect_data_block |->
                        IF indirect = {} THEN inode_table[i].i_indirect_data_block ELSE -1]
  <2>1. /\ free_blocks' = [b \in Blocks |-> IF b \in freed THEN FREE ELSE free_blocks[b]]
        /\ inode_table' = [inode_table EXCEPT ![i] = new]
    BY <1>2, Zenon DEF TruncatedInode
  <2>2. free_blocks' \in [Blocks -> {FREE, TAKEN}]
    <3>. HIDE DEF freed
    <3>. QED  BY <1>0, <2>1
  <2>3. inode_table[i].i_size \in Nat /\ inode_table[i].i_indirect_data_block \in Blocks \cup {-1}
    BY <1>0 DEF Inode
  <2>4. blocks \in [Direct -> Blocks \cup {-1}]
    <3>. HIDE DEF D
    <3>. QED  BY <1>0 DEF Inode
  <2>5. new \in Inode
    <3>. HIDE DEF blocks, indirect, fails
    <3>. QED  BY <2>3, <2>4 DEF Inode
  <2>6. new.i_size = IF fails THEN inode_table[i].i_size ELSE 0
    BY DEF new
  <2>. HIDE DEF new, fails
  <2>. QED  BY <1>0, <2>1, <2>2, <2>5, <2>6 DEF fails
<1>. QED  BY <1>1, <1>2

\* OpenExisting keeps the types.
LEMMA OpenExistingTypes ==
    ASSUME TypesInv, DirInv', NEW t \in Threads, OpenExisting(t)
    PROVE  TypesInv'
<1>0. PICK i \in Inums : i = arg[t].inum
  BY DEF TypesInv, Locals
<1>1. Moved(t) /\ (pc'[t] = "idle" \/ pc'[t] = "add")
  BY OpenExistingMoves DEF TypesInv, DirInv
<1>2. inode_table' \in [Inums -> Inode] /\ free_blocks' \in [Blocks -> {FREE, TAKEN}]
  <2>1. CASE "TRUNC" \in arg[t].flags
    BY <1>0, <2>1, TruncatedType DEF OpenExisting
  <2>2. CASE "TRUNC" \notin arg[t].flags
    BY <1>0, <2>2 DEF OpenExisting, TypesInv, TableTypes
  <2>. QED  BY <2>1, <2>2
<1>3. TableTypes'
  BY <1>2 DEF OpenExisting, TypesInv, TableTypes, entryVars
<1>4. Files' = Files
  BY DEF OpenExisting, Files
<1>5. Locals(t)'
  <2>0. Locals(t) /\ IsArg(arg[t]) /\ pc[t] = "found" /\ Shape
    BY DEF TypesInv, DirInv, Shape, OpenExisting
  <2>1. CASE Return(t)
    <3>1. arg'[t] = NoArg /\ pc'[t] = "idle"
      BY <2>0, <2>1, GoesMoves, NoArgShape DEF Return, Pcs
    <3>. QED  BY <3>1, NoArgLocals, Sizes DEF Locals, Writing
  <2>2. CASE ~Return(t)
    <3>. DEFINE new == [arg[t] EXCEPT !.offset =
                IF "APPEND" \in arg[t].flags THEN inode_table'[i].i_size ELSE 0]
    <3>1. Goes(t, "add", new)
      BY <1>0, <2>2 DEF OpenExisting
    <3>2. IsArg(new) /\ new.inum = arg[t].inum /\ new.fh = arg[t].fh /\ new.left = arg[t].left
          /\ new.blk = arg[t].blk /\ new.end = arg[t].end /\ new.scan = arg[t].scan
          /\ new.offset = IF "APPEND" \in arg[t].flags THEN inode_table'[i].i_size ELSE 0
      BY <2>0 DEF IsArg
    <3>. HIDE DEF new
    <3>3. arg'[t] = new /\ pc'[t] = "add"
      BY <2>0, <3>1, <3>2, GoesMoves DEF Pcs
    <3>4. new.offset \in Nat
      BY <1>2, <3>2 DEF Inode
    <3>. QED  BY <2>0, <3>2, <3>3, <3>4, Sizes DEF Locals, Writing
  <2>. QED  BY <2>1, <2>2
<1>. QED  BY <1>1, <1>3, <1>4, <1>5, MovedTypes

\* A thread that returns has no locals.
LEMMA ReturnLocals ==
    ASSUME Shape, NEW t \in Threads, Return(t)
    PROVE  arg'[t] = NoArg /\ pc'[t] = "idle" /\ Locals(t)'
<1>1. arg'[t] = NoArg /\ pc'[t] = "idle"
  BY GoesMoves, NoArgShape DEF Return, Pcs
<1>. QED  BY <1>1, NoArgLocals, Sizes DEF Locals, Writing

\* CreateScan keeps the types.
LEMMA CreateScanTypes ==
    ASSUME TypesInv, DirInv', NEW t \in Threads, CreateScan(t)
    PROVE  TypesInv'
<1>0. /\ Shape /\ Locals(t) /\ IsArg(arg[t]) /\ pc[t] = "create" /\ arg[t].scan \in Inums
      /\ freeinode_ts \in [Inums -> {FREE, TAKEN}]
  BY DEF TypesInv, DirInv, DirTypes, Shape, CreateScan, Creating
<1>1. Moved(t)
  BY <1>0, CreateScanMoves
<1>2. TableTypes'
  <2>1. EmptyInode \in Inode
    BY Sizes DEF Inode, EmptyInode
  <2>2. inode_table' \in [Inums -> Inode]
    BY <2>1 DEF CreateScan, TypesInv, TableTypes
  <2>. QED  BY <2>2 DEF CreateScan, TypesInv, TableTypes, entryVars
<1>3. \A i \in Files : i \in Files'
  BY <1>0 DEF CreateScan, Files, FREE, TAKEN
<1>4. Locals(t)'
  <2>1. CASE Return(t)
    BY <1>0, <2>1, ReturnLocals
  <2>. DEFINE linked == [arg[t] EXCEPT !.inum = arg[t].scan]
              next == [arg[t] EXCEPT !.scan = arg[t].scan + 1]
  <2>2. CASE Goes(t, "link", linked)
    <3>1. /\ IsArg(linked) /\ linked.inum = arg[t].scan /\ linked.fh = arg[t].fh
          /\ linked.left = arg[t].left /\ linked.blk = arg[t].blk /\ linked.end = arg[t].end
          /\ linked.offset = arg[t].offset
      BY <1>0 DEF IsArg
    <3>. HIDE DEF linked
    <3>2. arg'[t] = linked /\ pc'[t] = "link"
      BY <1>0, <2>2, <3>1, GoesMoves DEF Pcs
    <3>. QED  BY <1>0, <3>1, <3>2 DEF Locals, Writing
  <2>3. CASE Goes(t, "create", next)
    <3>1. /\ IsArg(next) /\ next.inum = arg[t].inum /\ next.fh = arg[t].fh
          /\ next.left = arg[t].left /\ next.blk = arg[t].blk /\ next.end = arg[t].end
          /\ next.offset = arg[t].offset
      BY <1>0 DEF IsArg
    <3>. HIDE DEF next
    <3>2. arg'[t] = next /\ pc'[t] = "create"
      BY <1>0, <2>3, <3>1, GoesMoves DEF Pcs
    <3>. QED  BY <1>0, <3>1, <3>2 DEF Locals, Writing
  <2>. HIDE DEF linked, next
  <2>. QED  BY <2>1, <2>2, <2>3 DEF CreateScan, linked, next
<1>. QED  BY <1>1, <1>2, <1>3, <1>4, MovedTypes

\* Only the thread that opens a file frees an i-node, and it is alone.
LEMMA OpenLinkTypes ==
    ASSUME TypesInv, DirInv', NEW t \in Threads, OpenLink(t)
    PROVE  TypesInv'
<1>0. Shape /\ Locals(t) /\ IsArg(arg[t]) /\ pc[t] = "link" /\ DirInv
  BY DEF TypesInv, DirInv, Shape, OpenLink
<1>1. Moved(t)
  BY <1>0, OpenLinkMoves
<1>2. TableTypes'
  BY DEF OpenLink, TypesInv, TableTypes, entryVars
<1>3. Locals(t)'
  <2>1. CASE Return(t)
    BY <1>0, <2>1, ReturnLocals
  <2>. DEFINE new == [arg[t] EXCEPT !.scan = 0]
  <2>2. CASE Goes(t, "add", new)
    <3>1. /\ IsArg(new) /\ new.inum = arg[t].inum /\ new.fh = arg[t].fh
          /\ new.left = arg[t].left /\ new.blk = arg[t].blk /\ new.end = arg[t].end
          /\ new.offset = arg[t].offset /\ new.scan = 0
      BY <1>0 DEF IsArg
    <3>. HIDE DEF new
    <3>2. arg'[t] = new /\ pc'[t] = "add"
      BY <1>0, <2>2, <3>1, GoesMoves DEF Pcs
    <3>. QED  BY <1>0, <3>1, <3>2, Sizes DEF Locals, Writing
  <2>. HIDE DEF new
  <2>. QED  BY <2>1, <2>2 DEF OpenLink, new
<1>4. ASSUME NEW u \in Threads, u # t
      PROVE  Locals(u)'
  <2>1. Locals(u) /\ pc'[u] = pc[u] /\ arg'[u] = arg[u]
    BY <1>1, <1>4 DEF TypesInv, Moved
  <2>2. pc[u] \notin Opens
    BY <1>0, <1>4, OthersOutside DEF Opens
  <2>. QED  BY <2>1, <2>2 DEF Locals, Opens
<1>. QED  BY <1>2, <1>3, <1>4 DEF TypesInv

\* AddScan keeps the types.
LEMMA AddScanTypes ==
    ASSUME TypesInv, DirInv', NEW t \in Threads, AddScan(t)
    PROVE  TypesInv'
<1>0. Shape /\ Locals(t) /\ IsArg(arg[t]) /\ pc[t] = "add" /\ arg[t].scan \in Handles
  BY DEF TypesInv, DirInv, Shape, AddScan, Locals
<1>1. Moved(t)
  BY <1>0, AddScanMoves
<1>2. TableTypes' /\ Files' = Files
  <2>1. open_file_table' \in [Handles -> [of_inumber : Inums, of_offset : Nat]]
    BY <1>0 DEF AddScan, TypesInv, TableTypes, Locals, entryVars
  <2>. QED  BY <2>1 DEF AddScan, TypesInv, TableTypes, fileVars, Files
<1>3. Locals(t)'
  <2>1. CASE Return(t)
    BY <1>0, <2>1, ReturnLocals
  <2>. DEFINE new == [NoArg EXCEPT !.copy = TRUE, !.fh = arg[t].scan]
              next == [arg[t] EXCEPT !.scan = arg[t].scan + 1]
  <2>2. CASE Goes(t, "opened", new)
    <3>1. /\ IsArg(new) /\ new.inum = 0 /\ new.fh = arg[t].scan
          /\ new.left = 0 /\ new.blk = 0 /\ new.end = 0 /\ new.offset = 0
      BY <1>0 DEF IsArg, NoArg
    <3>. HIDE DEF new
    <3>2. arg'[t] = new /\ pc'[t] = "opened"
      BY <1>0, <2>2, <3>1, GoesMoves DEF Pcs
    <3>. QED  BY <1>0, <3>1, <3>2, Sizes DEF Locals, Writing
  <2>3. CASE Goes(t, "add", next) /\ arg[t].scan + 1 \in Handles
    <3>1. /\ IsArg(next) /\ next.inum = arg[t].inum /\ next.fh = arg[t].fh
          /\ next.left = arg[t].left /\ next.blk = arg[t].blk /\ next.end = arg[t].end
          /\ next.offset = arg[t].offset /\ next.scan = arg[t].scan + 1
      BY <1>0 DEF IsArg
    <3>. HIDE DEF next
    <3>2. arg'[t] = next /\ pc'[t] = "add"
      BY <1>0, <2>3, <3>1, GoesMoves DEF Pcs
    <3>. QED  BY <1>0, <2>3, <3>1, <3>2 DEF Locals, Writing
  <2>. HIDE DEF new, next
  <2>. QED  BY <2>1, <2>2, <2>3 DEF AddScan, new, next
<1>. QED  BY <1>1, <1>2, <1>3, MovedTypes

-----------------------------------------------------------------------------

\* No table changes.
LEMMA TablesKept ==
    ASSUME TypesInv, UNCHANGED <<inode_table, fs_data, free_blocks, open_file_table>>
    PROVE  TableTypes'
BY DEF TypesInv, TableTypes

\* A thread that goes to another place with the locals it has.
LEMMA AtLocals ==
    ASSUME TypesInv, NEW t \in Threads, NEW place \in Pcs, At(t, place),
           place \in Writing \cup {"lock"} => pc[t] \in Writing \cup {"lock"},
           place \notin {"alloc", "found", "add"}
    PROVE  Moved(t) /\ Locals(t)'
<1>1. Moved(t) /\ arg'[t] = arg[t] /\ pc'[t] = place
  BY AtMoves DEF TypesInv, DirInv
<1>. QED  BY <1>1 DEF TypesInv, Locals

\* CloseStart keeps the types.
LEMMA CloseStartTypes ==
    ASSUME TypesInv, DirInv', NEW t \in Threads, CloseStart(t)
    PROVE  TypesInv'
<1>0. Shape /\ Locals(t) /\ IsArg(arg[t])
  BY DEF TypesInv, DirInv, Shape
<1>1. Moved(t)
  BY <1>0, CloseStartMoves
<1>2. TableTypes' /\ Files' = Files
  BY TablesKept, FilesKept DEF CloseStart, stateVars, fileVars, entryVars
<1>3. Locals(t)'
  <2>1. PICK h \in Handles : Goes(t, "close", [arg[t] EXCEPT !.fh = h])
    BY DEF CloseStart
  <2>. DEFINE new == [arg[t] EXCEPT !.fh = h]
  <2>2. /\ IsArg(new) /\ new.inum = arg[t].inum /\ new.fh = h
        /\ new.left = arg[t].left /\ new.blk = arg[t].blk /\ new.end = arg[t].end
        /\ new.offset = arg[t].offset
    BY <1>0 DEF IsArg
  <2>. HIDE DEF new
  <2>3. arg'[t] = new /\ pc'[t] = "close"
    BY <1>0, <2>1, <2>2, GoesMoves DEF Pcs, new
  <2>. QED  BY <1>0, <2>2, <2>3 DEF Locals, Writing
<1>. QED  BY <1>1, <1>2, <1>3, MovedTypes

\* CloseEnd keeps the types.
LEMMA CloseEndTypes ==
    ASSUME TypesInv, DirInv', NEW t \in Threads, CloseEnd(t)
    PROVE  TypesInv'
<1>0. Shape /\ Shape'
  BY CloseEndMoves DEF TypesInv, DirInv
<1>1. /\ pc'[t] = "idle" /\ arg'[t] = NoArg
      /\ \A u \in Threads \ {t} :
            arg'[u] = arg[u] /\ (pc'[u] = pc[u] \/ pc'[u] = "woken")
  BY <1>0, CloseEndMoves DEF CloseEnd, Shape
<1>2. TableTypes' /\ Files' = Files
  BY TablesKept, FilesKept DEF CloseEnd, stateVars, fileVars
<1>3. Locals(t)'
  BY <1>1, NoArgLocals, Sizes DEF Locals, Writing
<1>4. ASSUME NEW u \in Threads, u # t PROVE Locals(u)'
  BY <1>1, <1>2, <1>4 DEF TypesInv, Locals, Writing
<1>. QED  BY <1>2, <1>3, <1>4 DEF TypesInv

\* WriteStart keeps the types.
LEMMA WriteStartTypes ==
    ASSUME TypesInv, DirInv', NEW t \in Threads, NEW h \in Handles, NEW len \in Lens,
           WriteStart(t, h, len)
    PROVE  TypesInv'
<1>0. Shape
  BY DEF TypesInv, DirInv
<1>1. Moved(t)
  BY <1>0, WriteStartMoves
<1>2. TableTypes' /\ Files' = Files
  BY TablesKept, FilesKept DEF WriteStart, stateVars, fileVars, entryVars
<1>3. Locals(t)'
  <2>0. PICK i \in Inums : i = open_file_table[h].of_inumber
    BY DEF TypesInv, TableTypes
  <2>1. PICK byte \in Texts[i] :
          Goes(t, "lock", [NoArg EXCEPT !.fh = h, !.inum = i, !.left = len, !.byte = byte])
    BY <2>0 DEF WriteStart
  <2>. DEFINE new == [NoArg EXCEPT !.fh = h, !.inum = i, !.left = len, !.byte = byte]
  <2>2. /\ IsArg(new) /\ new.inum = i /\ new.fh = h
        /\ new.left = len /\ new.blk = 0 /\ new.end = 0
        /\ new.offset = 0 /\ new.byte = byte
    BY DEF IsArg, NoArg
  <2>. HIDE DEF new
  <2>3. arg'[t] = new /\ pc'[t] = "lock"
    BY <1>0, <2>1, <2>2, GoesMoves DEF Pcs, new
  <2>4. byte \in Bytes /\ len \in Nat
    BY FineCallsAssumption
  <2>. QED  BY <2>2, <2>3, <2>4 DEF Locals, Writing
<1>. QED  BY <1>1, <1>2, <1>3, MovedTypes

\* An entry's offset and i-node.
LEMMA OffsetType ==
    ASSUME TypesInv, NEW h \in Handles
    PROVE  open_file_table[h].of_offset \in Nat /\ open_file_table[h].of_inumber \in Inums
BY DEF TypesInv, TableTypes

\* WriteLock keeps the types.
LEMMA WriteLockTypes ==
    ASSUME TypesInv, DirInv', NEW t \in Threads, WriteLock(t)
    PROVE  TypesInv'
<1>0. Shape /\ Locals(t) /\ IsArg(arg[t]) /\ pc[t] = "lock"
  BY DEF TypesInv, DirInv, Shape, WriteLock
<1>1. Moved(t)
  BY <1>0, WriteLockMoves
<1>2. TableTypes' /\ Files' = Files
  BY TablesKept, FilesKept DEF WriteLock, stateVars, fileVars, entryVars
<1>3. Locals(t)'
  <2>1. CASE Return(t)
    BY <1>0, <2>1, ReturnLocals
  <2>2. PICK off \in Nat : off = open_file_table[arg[t].fh].of_offset
    BY <1>0, OffsetType DEF Locals
  <2>. DEFINE new == [arg[t] EXCEPT !.blk = FirstBlock(off), !.end = EndBlock(off, arg[t].left)]
  <2>3. CASE Goes(t, "write", new)
    <3>1. /\ IsArg(new) /\ new.inum = arg[t].inum /\ new.fh = arg[t].fh
          /\ new.left = arg[t].left /\ new.blk = FirstBlock(off)
          /\ new.end = EndBlock(off, arg[t].left)
          /\ new.offset = arg[t].offset /\ new.byte = arg[t].byte
      BY <1>0 DEF IsArg
    <3>. HIDE DEF new
    <3>2. arg'[t] = new /\ pc'[t] = "write"
      BY <1>0, <2>3, <3>1, GoesMoves DEF Pcs
    <3>3. FirstBlock(off) \in Nat /\ EndBlock(off, arg[t].left) \in Nat
      <4>1. arg[t].left \in Nat
        BY <1>0 DEF Locals
      <4>. QED  BY <4>1, LoopBlocks
    <3>. QED  BY <1>0, <3>1, <3>2, <3>3 DEF Locals, Writing
  <2>. HIDE DEF new
  <2>. QED  BY <2>1, <2>2, <2>3 DEF WriteLock, new
<1>. QED  BY <1>1, <1>2, <1>3, MovedTypes

\* ReadStart keeps the types.
LEMMA ReadStartTypes ==
    ASSUME TypesInv, DirInv', NEW t \in Threads, NEW h \in Handles,
           NEW len \in Lens \cup {BLOCK_SIZE}, ReadStart(t, h, len)
    PROVE  TypesInv'
<1>0. Shape /\ Locals(t) /\ IsArg(arg[t])
  BY DEF TypesInv, DirInv, Shape
<1>1. Moved(t)
  BY <1>0, ReadStartMoves
<1>2. TableTypes' /\ Files' = Files
  BY TablesKept, FilesKept DEF ReadStart, stateVars, fileVars, entryVars
<1>3. Locals(t)'
  <2>0. PICK i \in Inums : i = open_file_table[h].of_inumber
    BY DEF TypesInv, TableTypes
  <2>. DEFINE new == [arg[t] EXCEPT !.fh = h, !.left = len, !.inum = i]
  <2>1. Goes(t, "read", new)
    BY <2>0 DEF ReadStart
  <2>2. /\ IsArg(new) /\ new.inum = i /\ new.fh = h
        /\ new.left = len /\ new.blk = arg[t].blk /\ new.end = arg[t].end
        /\ new.offset = arg[t].offset
    BY <1>0 DEF IsArg
  <2>. HIDE DEF new
  <2>3. arg'[t] = new /\ pc'[t] = "read"
    BY <1>0, <2>1, <2>2, GoesMoves DEF Pcs
  <2>4. len \in Nat
    BY FineCallsAssumption, Sizes
  <2>. QED  BY <1>0, <2>2, <2>3, <2>4 DEF Locals, Writing
<1>. QED  BY <1>1, <1>2, <1>3, MovedTypes

\* The length tfs_read reads.
LEMMA ReadLenNat ==
    ASSUME NEW size \in Nat, NEW off \in Nat, NEW len \in Nat
    PROVE  ReadLen(size, off, len) \in Nat
<1>1. SIZE_T \in Nat \ {0}
  BY Sizes
<1>2. PICK a \in Int : a = size - off
  OBVIOUS
<1>3. a % SIZE_T \in 0 .. SIZE_T - 1
  BY <1>1
<1>. QED  BY <1>1, <1>2, <1>3 DEF ReadLen

\* ReadBody keeps the types.
LEMMA ReadBodyTypes ==
    ASSUME TypesInv, DirInv', NEW t \in Threads, ReadBody(t)
    PROVE  TypesInv'
<1>0. Shape /\ Locals(t) /\ IsArg(arg[t]) /\ pc[t] = "read"
  BY DEF TypesInv, DirInv, Shape, ReadBody
<1>1. Moved(t)
  BY <1>0, ReadBodyMoves
<1>2. open_file_table' \in [Handles -> [of_inumber : Inums, of_offset : Nat]]
  <2>1. PICK h \in Handles, i \in Inums, off \in Nat, size \in Nat, len \in Nat :
          /\ h = arg[t].fh /\ i = arg[t].inum /\ off = open_file_table[h].of_offset
          /\ size = inode_table[i].i_size /\ len = arg[t].left
    BY <1>0, OffsetType DEF Locals, TypesInv, TableTypes, Inode
  <2>2. PICK n \in Nat : n = ReadLen(size, off, len)
    BY ReadLenNat
  <2>3. PICK at \in Nat : at = Reading(i, off, n).off
    BY ReadKeepsType
  <2>4. open_file_table' = [open_file_table EXCEPT ![h].of_offset = at]
    BY <2>1, <2>2, <2>3 DEF ReadBody
  <2>. QED  BY <2>4 DEF TypesInv, TableTypes
<1>3. TableTypes' /\ Files' = Files
  BY <1>2 DEF ReadBody, fileVars, TypesInv, TableTypes, Files
<1>4. Locals(t)'
  <2>1. Return(t) \/ At(t, "copying") \/ At(t, "closing")
    BY DEF ReadBody, AfterRead
  <2>. QED  BY <1>0, <2>1, ReturnLocals, AtLocals DEF Pcs, Writing
<1>. QED  BY <1>1, <1>3, <1>4, MovedTypes

\* The steps of a thread that touch no table of the files.
LEMMA AsideTypes ==
    ASSUME TypesInv, DirInv', NEW t \in Threads,
           \/ CopyOpened(t) \/ DestroyEnter(t) \/ DestroyRecheck(t)
           \/ DestroyMutex(t) \/ SpuriousWakeup(t)
    PROVE  TypesInv'
<1>0. Shape /\ Locals(t) /\ IsArg(arg[t])
  BY DEF TypesInv, DirInv, Shape
<1>1. TableTypes' /\ Files' = Files
  BY TablesKept, FilesKept DEF CopyOpened, DestroyEnter, DestroyRecheck, DestroyMutex,
     SpuriousWakeup, stateVars, fileVars, entryVars
<1>2. \/ \E place \in Pcs \ (Writing \cup {"lock", "found", "add"}) : At(t, place)
      \/ Return(t) \/ UNCHANGED threadVars
  BY DEF CopyOpened, DestroyEnter, DestroyRecheck, DestroyMutex, SpuriousWakeup,
     StateDestroy, DestroyWaits, Pcs, Writing
<1>3. CASE UNCHANGED threadVars
  <2>1. \A u \in Threads : Locals(u)'
    BY <1>1, <1>3 DEF TypesInv, Locals, threadVars
  <2>. QED  BY <1>1, <2>1 DEF TypesInv
<1>4. CASE Return(t)
  BY <1>0, <1>1, <1>4, ReturnLocals, ReturnMoves, MovedTypes
<1>5. ASSUME NEW place \in Pcs \ (Writing \cup {"lock", "found", "add"}), At(t, place)
      PROVE  TypesInv'
  <2>1. Moved(t) /\ Locals(t)'
    BY <1>5, AtLocals DEF Writing
  <2>. QED  BY <1>1, <2>1, MovedTypes
<1>. QED  BY <1>2, <1>3, <1>4, <1>5

\* TfsInit keeps the types.
LEMMA TfsInitTypes ==
    ASSUME TypesInv, DirInv', TfsInit
    PROVE  TypesInv'
<1>1. RootInode \in Inode
  BY Sizes DEF Inode, RootInode
<1>2. TableTypes'
  <2>1. inode_table' \in [Inums -> Inode]
    BY <1>1 DEF TfsInit, StateReset, TypesInv, TableTypes
  <2>2. free_blocks' \in [Blocks -> {FREE, TAKEN}]
    BY DEF TfsInit, StateReset
  <2>. QED  BY <2>1, <2>2 DEF TfsInit, StateReset, TypesInv, TableTypes
<1>3. \A t \in Threads : Locals(t)'
  BY DEF TfsInit, threadVars, TypesInv, Locals, Writing
<1>. QED  BY <1>2, <1>3 DEF TypesInv

\* No table changes and no thread moves.
LEMMA UnchangedTypes ==
    ASSUME TypesInv, DirInv', UNCHANGED <<stateVars, threadVars, lockVars>>
    PROVE  TypesInv'
<1>1. TableTypes' /\ Files' = Files
  BY TablesKept, FilesKept DEF stateVars, fileVars, entryVars
<1>2. \A u \in Threads : Locals(u)'
  BY <1>1 DEF TypesInv, Locals, threadVars
<1>. QED  BY <1>1, <1>2 DEF TypesInv

-----------------------------------------------------------------------------
(* The steps of a write. *)

\* Copying a caller's bytes keeps the cells' type.
LEMMA CopiedType ==
    ASSUME TypesInv, NEW b, NEW off, NEW n, NEW byte \in Bytes
    PROVE  Copied(fs_data, b, off, n, byte) \in [Cells -> Bytes \cup {Blank, -1} \cup Blocks]
BY DEF TypesInv, TableTypes, Copied

\* Storing ints keeps the cells' type.
LEMMA WithIntsType ==
    ASSUME TypesInv, NEW b, NEW k, NEW n, NEW v \in Blocks \cup {-1}
    PROVE  WithInts(fs_data, b, k, n, v) \in [Cells -> Bytes \cup {Blank, -1} \cup Blocks]
BY DEF TypesInv, TableTypes, WithInts

\* WriteBlock keeps the types.
LEMMA WriteBlockTypes ==
    ASSUME TypesInv, DirInv', NEW t \in Threads, WriteBlock(t)
    PROVE  TypesInv'
<1>0. Shape /\ Locals(t) /\ IsArg(arg[t]) /\ pc[t] = "write"
  BY DEF TypesInv, DirInv, Shape, WriteBlock
<1>1. Moved(t)
  BY <1>0, WriteBlockMoves
<1>2. PICK h \in Handles, i \in Inums, off \in Nat, size \in Nat, left \in Nat,
            k \in Nat, end \in Nat, byte \in Bytes :
        /\ h = arg[t].fh /\ i = arg[t].inum /\ off = open_file_table[h].of_offset
        /\ size = inode_table[i].i_size /\ left = arg[t].left
        /\ k = arg[t].blk /\ end = arg[t].end /\ byte = arg[t].byte
  BY <1>0, OffsetType DEF Locals, TypesInv, TableTypes, Inode, Writing
<1>3. PICK m \in Nat : m = Piece(k, end, off, left) /\ m <= left
  <2>1. k \in Int /\ end \in Int
    OBVIOUS
  <2>2. Piece(k, end, off, left) \in Nat /\ Piece(k, end, off, left) <= left
    BY <2>1, PieceAtMost
  <2>. QED  BY <2>2
<1>. DEFINE alloc == [arg[t] EXCEPT !.scan = 0]
            next == [arg[t] EXCEPT !.blk = k + 1, !.left = left - m]
<1>4. \/ /\ Goes(t, "alloc", alloc)
         /\ UNCHANGED <<inode_table, fs_data, open_file_table>>
      \/ /\ Return(t)
         /\ UNCHANGED <<inode_table, fs_data, open_file_table>>
      \/ /\ fs_data' = Copied(fs_data, BlockNumber(i, k), off, m, byte)
         /\ open_file_table' = [open_file_table EXCEPT ![h].of_offset = off + m]
         /\ inode_table' = [inode_table EXCEPT ![i].i_size =
                                IF off + m > size THEN off + m ELSE size]
         /\ Return(t) \/ Goes(t, "write", next)
  <2>. HIDE DEF alloc, next
  <2>1. /\ alloc = [arg[t] EXCEPT !.scan = 0]
        /\ next = [arg[t] EXCEPT !.blk = arg[t].blk + 1, !.left = arg[t].left - m]
    BY <1>2 DEF alloc, next
  <2>. QED  BY <1>2, <1>3, <2>1 DEF WriteBlock, WriteReturns
<1>5. TableTypes' /\ Files' = Files
  <2>1. free_blocks' = free_blocks /\ freeinode_ts' = freeinode_ts
    BY DEF WriteBlock
  <2>2. CASE UNCHANGED <<inode_table, fs_data, open_file_table>>
    BY <2>1, <2>2, TablesKept, FilesKept
  <2>3. CASE /\ fs_data' = Copied(fs_data, BlockNumber(i, k), off, m, byte)
             /\ open_file_table' = [open_file_table EXCEPT ![h].of_offset = off + m]
             /\ inode_table' = [inode_table EXCEPT ![i].i_size =
                                    IF off + m > size THEN off + m ELSE size]
    <3>1. fs_data' \in [Cells -> Bytes \cup {Blank, -1} \cup Blocks]
      BY <2>3, CopiedType
    <3>2. open_file_table' \in [Handles -> [of_inumber : Inums, of_offset : Nat]]
      BY <2>3 DEF TypesInv, TableTypes
    <3>3. inode_table' \in [Inums -> Inode]
      <4>0. PICK s \in Nat : s = IF off + m > size THEN off + m ELSE size
        OBVIOUS
      <4>1. inode_table' = [inode_table EXCEPT ![i].i_size = s]
        BY <2>3, <4>0
      <4>. QED  BY <4>1 DEF TypesInv, TableTypes, Inode
    <3>. QED  BY <2>1, <3>1, <3>2, <3>3, FilesKept DEF TypesInv, TableTypes
  <2>. QED  BY <1>4, <2>2, <2>3
<1>6. Locals(t)'
  <2>1. CASE Return(t)
    BY <1>0, <2>1, ReturnLocals
  <2>2. CASE Goes(t, "alloc", alloc)
    <3>1. /\ IsArg(alloc) /\ alloc.inum = arg[t].inum /\ alloc.fh = arg[t].fh
          /\ alloc.left = arg[t].left /\ alloc.blk = arg[t].blk /\ alloc.end = arg[t].end
          /\ alloc.offset = arg[t].offset /\ alloc.byte = arg[t].byte /\ alloc.scan = 0
      BY <1>0 DEF IsArg
    <3>. HIDE DEF alloc
    <3>2. arg'[t] = alloc /\ pc'[t] = "alloc"
      BY <1>0, <2>2, <3>1, GoesMoves DEF Pcs
    <3>. QED  BY <1>0, <3>1, <3>2, Sizes DEF Locals, Writing
  <2>3. CASE Goes(t, "write", next)
    <3>1. /\ IsArg(next) /\ next.inum = arg[t].inum /\ next.fh = arg[t].fh
          /\ next.left = left - m /\ next.blk = k + 1 /\ next.end = arg[t].end
          /\ next.offset = arg[t].offset /\ next.byte = arg[t].byte
      BY <1>0 DEF IsArg
    <3>. HIDE DEF next
    <3>2. arg'[t] = next /\ pc'[t] = "write"
      BY <1>0, <2>3, <3>1, GoesMoves DEF Pcs
    <3>3. left - m \in Nat /\ k + 1 \in Nat
      BY <1>3
    <3>. QED  BY <1>0, <3>1, <3>2, <3>3 DEF Locals, Writing
  <2>. HIDE DEF alloc, next
  <2>. QED  BY <1>4, <2>1, <2>2, <2>3
<1>. QED  BY <1>1, <1>5, <1>6, MovedTypes

\* A new block keeps the tables' types.
LEMMA InstalledType ==
    ASSUME TypesInv, NEW i \in Inums, NEW k \in Nat, NEW b \in Blocks,
           BlockInstalled(i, k, b)
    PROVE  /\ inode_table' \in [Inums -> Inode]
           /\ fs_data' \in [Cells -> Bytes \cup {Blank, -1} \cup Blocks]
<1>0. /\ inode_table \in [Inums -> Inode]
      /\ fs_data \in [Cells -> Bytes \cup {Blank, -1} \cup Blocks]
  BY DEF TypesInv, TableTypes
<1>1. CASE /\ k \in Direct
           /\ inode_table' = [inode_table EXCEPT ![i].i_data_block[k] = b]
           /\ UNCHANGED fs_data
  BY <1>0, <1>1 DEF Inode
<1>2. CASE /\ inode_table' = [inode_table EXCEPT ![i].i_indirect_data_block = b]
           /\ UNCHANGED fs_data
  BY <1>0, <1>2 DEF Inode
<1>3. CASE /\ fs_data' = WithInts(fs_data, inode_table[i].i_indirect_data_block,
                              k - MAX_DIRECT_BLOCKS, 1, b)
           /\ UNCHANGED inode_table
  BY <1>0, <1>3, WithIntsType
<1>. QED  BY <1>1, <1>2, <1>3 DEF BlockInstalled

\* AllocScan keeps the types.
LEMMA AllocScanTypes ==
    ASSUME TypesInv, DirInv', NEW t \in Threads, AllocScan(t)
    PROVE  TypesInv'
<1>0. Shape /\ Locals(t) /\ IsArg(arg[t]) /\ pc[t] = "alloc" /\ arg[t].scan \in Blocks
  BY DEF TypesInv, DirInv, Shape, AllocScan, Locals
<1>1. Moved(t)
  BY <1>0, AllocScanMoves
<1>2. PICK i \in Inums, k \in Nat, b \in Blocks :
        i = arg[t].inum /\ k = arg[t].blk /\ b = arg[t].scan
  BY <1>0 DEF Locals
<1>3. TableTypes' /\ Files' = Files
  <2>1. UNCHANGED <<open_file_table, freeinode_ts>>
    BY DEF AllocScan, entryVars
  <2>2. CASE BlockTaken(b) /\ BlockInstalled(i, k, b)
    <3>1. free_blocks' \in [Blocks -> {FREE, TAKEN}]
      BY <2>2 DEF BlockTaken, TypesInv, TableTypes
    <3>. QED  BY <2>1, <2>2, <3>1, InstalledType, FilesKept DEF TypesInv, TableTypes
  <2>3. CASE UNCHANGED <<free_blocks, inode_table, fs_data>>
    BY <2>1, <2>3, TablesKept, FilesKept
  <2>. QED  BY <1>2, <2>2, <2>3 DEF AllocScan
<1>4. Locals(t)'
  <2>1. CASE Return(t)
    BY <1>0, <2>1, ReturnLocals
  <2>2. ASSUME NEW place \in Writing, NEW s, Goes(t, place, [arg[t] EXCEPT !.scan = s]),
               place = "alloc" => s \in Blocks
        PROVE  Locals(t)'
    <3>. DEFINE new == [arg[t] EXCEPT !.scan = s]
    <3>1. /\ IsArg(new) /\ new.inum = arg[t].inum /\ new.fh = arg[t].fh
          /\ new.left = arg[t].left /\ new.blk = arg[t].blk /\ new.end = arg[t].end
          /\ new.offset = arg[t].offset /\ new.byte = arg[t].byte /\ new.scan = s
      BY <1>0 DEF IsArg
    <3>. HIDE DEF new
    <3>2. arg'[t] = new /\ pc'[t] = place
      BY <1>0, <2>2, <3>1, GoesMoves DEF Pcs, Writing, new
    <3>. QED  BY <1>0, <2>2, <3>1, <3>2 DEF Locals, Writing
  <2>3. \/ Return(t)
        \/ \E place \in Writing : \E s : /\ Goes(t, place, [arg[t] EXCEPT !.scan = s])
                                         /\ place = "alloc" => s \in Blocks
    <3>1. CASE /\ free_blocks[arg[t].scan] = FREE
               /\ LET ready == arg[t].blk \in Direct \/ HasIndirect(arg[t].inum) IN
                  Goes(t, IF ready THEN "write" ELSE "label", [arg[t] EXCEPT !.scan = 0])
      BY <3>1, Zenon DEF Writing
    <3>2. CASE /\ arg[t].scan + 1 \in Blocks
               /\ Goes(t, "alloc", [arg[t] EXCEPT !.scan = arg[t].scan + 1])
      BY <3>2 DEF Writing
    <3>3. CASE Return(t)
      BY <3>3
    <3>. QED  BY <3>1, <3>2, <3>3 DEF AllocScan, WriteReturns
  <2>. QED  BY <2>1, <2>2, <2>3
<1>. QED  BY <1>1, <1>3, <1>4, MovedTypes

\* LabelIndirect keeps the types.
LEMMA LabelIndirectTypes ==
    ASSUME TypesInv, DirInv', NEW t \in Threads, LabelIndirect(t)
    PROVE  TypesInv'
<1>1. Moved(t) /\ Locals(t)'
  BY AtLocals DEF LabelIndirect, Pcs, Writing
<1>2. fs_data' \in [Cells -> Bytes \cup {Blank, -1} \cup Blocks]
  BY WithIntsType DEF LabelIndirect, IndirectLabelled
<1>3. TableTypes' /\ Files' = Files
  BY <1>2, FilesKept DEF LabelIndirect, TypesInv, TableTypes, entryVars
<1>. QED  BY <1>1, <1>3, MovedTypes

\* Every action keeps the types.
LEMMA NextTypes ==
    ASSUME TypesInv, DirInv', Next
    PROVE  TypesInv'
BY NextCases, OpenStartTypes, OpenExistingTypes, CreateScanTypes, OpenLinkTypes,
   AddScanTypes, CloseStartTypes, CloseEndTypes, WriteStartTypes, WriteLockTypes,
   WriteBlockTypes, AllocScanTypes, LabelIndirectTypes, ReadStartTypes, ReadBodyTypes,
   AsideTypes, TfsInitTypes, UnchangedTypes

\* Every step keeps the types.
LEMMA TypesInductive ==
    ASSUME TypesInv, DirInv', [Next]_vars
    PROVE  TypesInv'
<1>1. ASSUME UNCHANGED vars PROVE TypesInv'
  <2>1. UNCHANGED <<inode_table, freeinode_ts, fs_data, free_blocks, root_dir,
                    open_file_table, pc, arg, open_file_lock>>
    BY <1>1 DEF vars, stateVars, fileVars, entryVars, threadVars, lockVars
  <2>2. TableTypes' /\ Files' = Files
    BY <1>1, <2>1, TablesKept, FilesKept
  <2>3. \A u \in Threads : Locals(u)'
    BY <1>1, <2>1, <2>2 DEF TypesInv, Locals
  <2>. QED  BY <2>2, <2>3 DEF TypesInv
<1>. QED  BY <1>1, NextTypes

-----------------------------------------------------------------------------
(* The ints of an indirect block. *)

\* No int lies across two blocks.
IntsAligned == BLOCK_SIZE % INT_SIZE = 0

\* The loop that labels an indirect block reaches the block's end (it goes past it).
LabelsCover == BLOCK_SIZE <= (BLOCK_SIZE - MAX_DIRECT_BLOCKS) * INT_SIZE

\* The ints of a block, and the cell where int k of block b begins.
Ints == BLOCK_SIZE \div INT_SIZE
Slot(b, k) == (b * BLOCK_SIZE) + (k * INT_SIZE)

\* IntAt, in a given content of the blocks.
IntIn(data, b, k) ==
    LET at == b * BLOCK_SIZE + k * INT_SIZE
        cells == at .. at + INT_SIZE - 1
        holds(v) == \A c \in cells : data[c] = v
    IN  IF ~(cells \subseteq Cells) THEN Garbage
        ELSE IF \E v \in Blocks \cup {-1} : holds(v) THEN data[at]
        ELSE IF holds(Blank) THEN 0
        ELSE IntOf[[j \in 0 .. INT_SIZE - 1 |-> data[at + j]]]

\* Every int of block b is a label: -1 or the number of a block.
Whole(data, b) ==
    \A k \in 0 .. Ints - 1 : \E v \in Blocks \cup {-1} :
        \A s \in 0 .. INT_SIZE - 1 : data[Slot(b, k) + s] = v

\* The cells of an int are cells of its block.
LEMMA SlotWithin ==
    ASSUME NEW b \in Blocks, NEW k \in 0 .. Ints - 1, NEW s \in 0 .. INT_SIZE - 1
    PROVE  /\ Slot(b, k) + s \in Cells
           /\ (k * INT_SIZE) + s \in 0 .. BLOCK_SIZE - 1
           /\ Slot(b, k) + s = (b * BLOCK_SIZE) + ((k * INT_SIZE) + s)
<1>1. PICK n \in Nat, q \in Nat : n = Ints /\ q = INT_SIZE * n /\ q <= BLOCK_SIZE
  <2>1. Ints \in Nat /\ BLOCK_SIZE % INT_SIZE \in Nat
        /\ BLOCK_SIZE = (INT_SIZE * Ints) + (BLOCK_SIZE % INT_SIZE)
    BY Sizes, DivMod DEF Ints
  <2>2. INT_SIZE * Ints \in Nat
    BY <2>1, Sizes, TimesNat
  <2>. QED  BY <2>1, <2>2, Sizes
<1>2. (INT_SIZE * k) + INT_SIZE <= q
  <2>1. k \in Int /\ n \in Int /\ k < n
    BY <1>1
  <2>. QED  BY <1>1, <2>1, Sizes, Times
<1>3. PICK x \in Nat : x = INT_SIZE * k /\ x = k * INT_SIZE
  <2>1. INT_SIZE * k \in Nat /\ INT_SIZE * k = k * INT_SIZE
    BY Sizes, TimesNat
  <2>. QED  BY <2>1
<1>4. PICK y \in Int : y = b * BLOCK_SIZE
  BY Sizes DEF Blocks
<1>5. x + s \in 0 .. BLOCK_SIZE - 1
  BY <1>1, <1>2, <1>3, Sizes
<1>6. y + (x + s) \in Cells
  BY <1>4, <1>5, CellExists
<1>7. (y + x) + s = y + (x + s)
  OBVIOUS
<1>. QED  BY <1>3, <1>4, <1>5, <1>6, <1>7 DEF Slot

\* The cells of an int, counted from its first.
LEMMA SlotCells ==
    ASSUME NEW b \in Blocks, NEW k \in 0 .. Ints - 1
    PROVE  /\ Slot(b, k) \in Int
           /\ Slot(b, k) .. Slot(b, k) + INT_SIZE - 1 \subseteq Cells
           /\ \A c \in Slot(b, k) .. Slot(b, k) + INT_SIZE - 1 :
                 c - Slot(b, k) \in 0 .. INT_SIZE - 1 /\ Slot(b, k) + (c - Slot(b, k)) = c
           /\ \A s \in 0 .. INT_SIZE - 1 :
                 Slot(b, k) + s \in Slot(b, k) .. Slot(b, k) + INT_SIZE - 1
           /\ Slot(b, k) + 0 = Slot(b, k)
<1>1. PICK at \in Int : at = Slot(b, k)
  <2>1. b \in Int /\ k \in Int
    BY DEF Blocks
  <2>. QED  BY <2>1, Sizes DEF Slot
<1>2. \A s \in 0 .. INT_SIZE - 1 : at + s \in Cells
  BY <1>1, SlotWithin
<1>3. \A c \in at .. at + INT_SIZE - 1 : c - at \in 0 .. INT_SIZE - 1 /\ at + (c - at) = c
  BY Sizes
<1>4. at .. at + INT_SIZE - 1 \subseteq Cells
  <2>. SUFFICES ASSUME NEW c \in at .. at + INT_SIZE - 1 PROVE c \in Cells
    OBVIOUS
  <2>. QED  BY <1>2, <1>3
<1>5. /\ \A s \in 0 .. INT_SIZE - 1 : at + s \in at .. at + INT_SIZE - 1
      /\ at + 0 = at
  BY Sizes
<1>. QED  BY <1>1, <1>3, <1>4, <1>5

\* An int whose cells hold one label is read as that label.
LEMMA IntRead ==
    ASSUME NEW data, NEW b \in Blocks, NEW k \in 0 .. Ints - 1,
           NEW v \in Blocks \cup {-1},
           \A s \in 0 .. INT_SIZE - 1 : data[Slot(b, k) + s] = v
    PROVE  IntIn(data, b, k) = v
<1>1. PICK at \in Int : at = Slot(b, k)
  BY SlotCells
<1>. DEFINE cells == at .. at + INT_SIZE - 1
            holds(w) == \A c \in cells : data[c] = w
            other == IntOf[[j \in 0 .. INT_SIZE - 1 |-> data[at + j]]]
<1>2. IntIn(data, b, k) = IF ~(cells \subseteq Cells) THEN Garbage
                          ELSE IF \E w \in Blocks \cup {-1} : holds(w) THEN data[at]
                          ELSE IF holds(Blank) THEN 0 ELSE other
  BY <1>1, Zenon DEF IntIn, Slot
<1>3. /\ cells \subseteq Cells
      /\ \A c \in cells : c - at \in 0 .. INT_SIZE - 1 /\ at + (c - at) = c
      /\ at + 0 = at /\ 0 \in 0 .. INT_SIZE - 1
  BY <1>1, SlotCells, Sizes
<1>. HIDE DEF cells, other
<1>4. holds(v)
  <2>1. ASSUME NEW c \in cells PROVE data[c] = v
    <3>1. data[at + (c - at)] = v
      BY <1>1, <1>3
    <3>. QED  BY <1>3, <3>1
  <2>. QED  BY <2>1
<1>5. data[at] = v
  BY <1>1, <1>3
<1>. QED  BY <1>2, <1>3, <1>4, <1>5

\* The number read from an int of such a block stands in each of its cells.
LEMMA IntFound ==
    ASSUME NEW data, NEW b \in Blocks, NEW k \in 0 .. Ints - 1, Whole(data, b),
           NEW v \in Blocks, IntIn(data, b, k) = v
    PROVE  \A s \in 0 .. INT_SIZE - 1 : data[Slot(b, k) + s] = v
<1>1. PICK w \in Blocks \cup {-1} : \A s \in 0 .. INT_SIZE - 1 : data[Slot(b, k) + s] = w
  BY DEF Whole
<1>2. IntIn(data, b, k) = w
  BY <1>1, IntRead
<1>. QED  BY <1>1, <1>2

\* A change that writes no number of a block leaves no new number behind.
LEMMA IntKept ==
    ASSUME NEW data, NEW new, NEW b \in Blocks, NEW k \in 0 .. Ints - 1,
           Whole(new, b), NEW v \in Blocks, IntIn(new, b, k) = v,
           \A c \in Cells : new[c] = data[c] \/ new[c] \notin Blocks
    PROVE  IntIn(data, b, k) = v
<1>1. \A s \in 0 .. INT_SIZE - 1 : new[Slot(b, k) + s] = v
  BY IntFound
<1>2. \A s \in 0 .. INT_SIZE - 1 : data[Slot(b, k) + s] = v
  <2>. SUFFICES ASSUME NEW s \in 0 .. INT_SIZE - 1 PROVE data[Slot(b, k) + s] = v
    OBVIOUS
  <2>1. Slot(b, k) + s \in Cells
    BY SlotWithin
  <2>. QED  BY <1>1, <2>1
<1>. QED  BY <1>2, IntRead

\* Ints are aligned: two of them share all cells or none.
LEMMA SlotNumber ==
    ASSUME IntsAligned, NEW b \in Int, NEW k \in Int
    PROVE  (b * Ints) + k \in Int /\ Slot(b, k) = INT_SIZE * ((b * Ints) + k)
<1>1. PICK n \in Nat : n = Ints /\ BLOCK_SIZE = INT_SIZE * n
  <2>1. Ints \in Nat /\ BLOCK_SIZE = (INT_SIZE * Ints) + (BLOCK_SIZE % INT_SIZE)
    BY Sizes, DivMod DEF Ints
  <2>2. INT_SIZE * Ints \in Nat
    BY <2>1, Sizes, TimesNat
  <2>. QED  BY <2>1, <2>2 DEF IntsAligned
<1>2. (b * (INT_SIZE * n)) + (k * INT_SIZE) = INT_SIZE * ((b * n) + k)
  BY Sizes, Z3T(30)
<1>3. (b * n) + k \in Int
  OBVIOUS
<1>. QED  BY <1>1, <1>2, <1>3 DEF Slot

\* Two ints with a cell in common are one.
LEMMA SlotsApart ==
    ASSUME IntsAligned, NEW b \in Int, NEW k \in Int, NEW d \in Int, NEW a \in Int,
           NEW s \in 0 .. INT_SIZE - 1, NEW r \in 0 .. INT_SIZE - 1,
           Slot(b, k) + s = Slot(d, a) + r
    PROVE  Slot(b, k) = Slot(d, a)
<1>1. PICK p \in Int, q \in Int, x \in Int, y \in Int :
        /\ Slot(b, k) = x /\ x = INT_SIZE * p
        /\ Slot(d, a) = y /\ y = INT_SIZE * q
  <2>1. /\ (b * Ints) + k \in Int /\ Slot(b, k) = INT_SIZE * ((b * Ints) + k)
        /\ (d * Ints) + a \in Int /\ Slot(d, a) = INT_SIZE * ((d * Ints) + a)
    BY SlotNumber
  <2>2. PICK p \in Int, q \in Int : p = (b * Ints) + k /\ q = (d * Ints) + a
    BY <2>1
  <2>3. INT_SIZE * p \in Int /\ INT_SIZE * q \in Int
    BY Sizes
  <2>. QED  BY <2>1, <2>2, <2>3
<1>2. p < q => x + INT_SIZE <= y
  BY <1>1, Times, Sizes
<1>3. q < p => y + INT_SIZE <= x
  BY <1>1, Times, Sizes
<1>4. p = q
  BY <1>1, <1>2, <1>3, Sizes
<1>. QED  BY <1>1, <1>4

\* Where an int begins says which it is.
LEMMA SlotUnique ==
    ASSUME IntsAligned, NEW b \in Blocks, NEW k \in 0 .. Ints - 1,
           NEW d \in Blocks, NEW l \in 0 .. Ints - 1, Slot(b, k) = Slot(d, l)
    PROVE  b = d /\ k = l
<1>1. PICK n \in Nat : n = Ints
  BY Sizes, DivMod DEF Ints
<1>2. n \in Nat \ {0} /\ b \in Nat /\ d \in Nat
  BY <1>1 DEF Blocks
<1>3. PICK p \in Int, q \in Int : p = (b * Ints) + k /\ q = (d * Ints) + l
  BY <1>1, <1>2
<1>4. INT_SIZE * p = INT_SIZE * q
  BY <1>2, <1>3, SlotNumber
<1>5. p = q
  <2>1. p < q => (INT_SIZE * p) + INT_SIZE <= INT_SIZE * q
    BY Times, Sizes
  <2>2. q < p => (INT_SIZE * q) + INT_SIZE <= INT_SIZE * p
    BY Times, Sizes
  <2>3. PICK x \in Int : x = INT_SIZE * p
    BY Sizes
  <2>. QED  BY <1>4, <2>1, <2>2, <2>3, Sizes
<1>6. p = (n * b) + k
  BY <1>1, <1>2, <1>3
<1>7. p = (n * d) + l
  BY <1>1, <1>2, <1>3, <1>5
<1>8. p \in Nat
  <2>1. n * b \in Nat
    BY <1>2, TimesNat
  <2>. QED  BY <1>1, <1>6, <2>1
<1>9. k \in 0 .. n - 1 /\ l \in 0 .. n - 1
  BY <1>1
<1>10. p \div n = b /\ p % n = k
  BY <1>2, <1>6, <1>8, <1>9, DivModUnique
<1>11. p \div n = d /\ p % n = l
  BY <1>2, <1>7, <1>8, <1>9, DivModUnique
<1>. QED  BY <1>10, <1>11

\* One int is stored: the others read as before.
LEMMA IntStored ==
    ASSUME IntsAligned, NEW data, NEW d \in Blocks, NEW a \in Nat, NEW w \in Blocks,
           NEW b \in Blocks, NEW k \in 0 .. Ints - 1,
           Whole(WithInts(data, d, a, 1, w), b),
           NEW v \in Blocks, IntIn(WithInts(data, d, a, 1, w), b, k) = v
    PROVE  \/ Slot(b, k) = Slot(d, a) /\ v = w
           \/ IntIn(data, b, k) = v
<1>. DEFINE new == WithInts(data, d, a, 1, w)
<1>1. PICK at \in Int, here \in Int : at = Slot(d, a) /\ here = Slot(b, k)
  <2>1. d \in Int /\ a \in Int /\ b \in Int /\ k \in Int
    BY DEF Blocks
  <2>2. Slot(d, a) \in Int /\ Slot(b, k) \in Int
    BY <2>1, Sizes DEF Slot
  <2>. QED  BY <2>2
<1>2. \A c \in Cells : new[c] = IF at <= c /\ c < at + INT_SIZE THEN w ELSE data[c]
  <2>1. 1 * INT_SIZE = INT_SIZE
    BY Sizes
  <2>. QED  BY <1>1, <2>1 DEF WithInts, Slot
<1>. HIDE DEF new
<1>3. \A s \in 0 .. INT_SIZE - 1 : here + s \in Cells /\ new[here + s] = v
  BY <1>1, SlotWithin, IntFound DEF new
<1>4. CASE here = at
  <2>1. at <= here + 0 /\ here + 0 < at + INT_SIZE /\ 0 \in 0 .. INT_SIZE - 1
    BY <1>4, Sizes
  <2>2. new[here + 0] = v /\ new[here + 0] = w
    BY <1>2, <1>3, <2>1
  <2>. QED  BY <1>1, <1>4, <2>2
<1>5. CASE here # at
  <2>1. ASSUME NEW s \in 0 .. INT_SIZE - 1 PROVE data[here + s] = v
    <3>1. ~(at <= here + s /\ here + s < at + INT_SIZE)
      <4>1. SUFFICES ASSUME at <= here + s, here + s < at + INT_SIZE PROVE FALSE
        OBVIOUS
      <4>2. PICK r \in 0 .. INT_SIZE - 1 : here + s = at + r
        <5>1. (here + s) - at \in 0 .. INT_SIZE - 1 /\ here + s = at + ((here + s) - at)
          BY <4>1, Sizes
        <5>. QED  BY <5>1
      <4>3. b \in Int /\ k \in Int /\ d \in Int /\ a \in Int
        BY DEF Blocks
      <4>4. Slot(b, k) = Slot(d, a)
        BY <1>1, <4>2, <4>3, SlotsApart
      <4>. QED  BY <1>1, <1>5, <4>4
    <3>. QED  BY <1>2, <1>3, <3>1
  <2>. QED  BY <1>1, <2>1, IntRead
<1>. QED  BY <1>4, <1>5

\* A block whose cells stay as they are keeps its labels.
LEMMA WholeSame ==
    ASSUME NEW data, NEW new, NEW b \in Blocks, Whole(data, b),
           \A r \in 0 .. BLOCK_SIZE - 1 :
               new[(b * BLOCK_SIZE) + r] = data[(b * BLOCK_SIZE) + r]
    PROVE  Whole(new, b)
<1>1. \A k \in 0 .. Ints - 1, s \in 0 .. INT_SIZE - 1 :
          new[Slot(b, k) + s] = data[Slot(b, k) + s]
  BY SlotWithin
<1>. QED  BY <1>1 DEF Whole

\* Labels stored from an int on leave the labels of every block whole.
LEMMA WholeKept ==
    ASSUME IntsAligned, NEW data, NEW d \in Int, NEW a \in Nat, NEW n \in Nat,
           NEW v \in Blocks \cup {-1}, NEW b \in Blocks, Whole(data, b)
    PROVE  Whole(WithInts(data, d, a, n, v), b)
<1>. DEFINE new == WithInts(data, d, a, n, v)
<1>. SUFFICES ASSUME NEW k \in 0 .. Ints - 1
              PROVE  \E w \in Blocks \cup {-1} :
                        \A s \in 0 .. INT_SIZE - 1 : new[Slot(b, k) + s] = w
  BY DEF Whole
<1>1. PICK p \in Int, q \in Int, here \in Int, at \in Int :
        /\ here = Slot(b, k) /\ here = INT_SIZE * p
        /\ at = Slot(d, a) /\ at = INT_SIZE * q
  <2>1. b \in Int /\ k \in Int /\ a \in Int
    BY DEF Blocks
  <2>2. /\ (b * Ints) + k \in Int /\ Slot(b, k) = INT_SIZE * ((b * Ints) + k)
        /\ (d * Ints) + a \in Int /\ Slot(d, a) = INT_SIZE * ((d * Ints) + a)
    BY <2>1, SlotNumber
  <2>3. PICK p \in Int, q \in Int : p = (b * Ints) + k /\ q = (d * Ints) + a
    BY <2>2
  <2>4. INT_SIZE * p \in Int /\ INT_SIZE * q \in Int
    BY Sizes
  <2>. QED  BY <2>2, <2>3, <2>4
<1>2. PICK size \in Int : size = n * INT_SIZE /\ INT_SIZE * (q + n) = at + size
  <2>1. n * INT_SIZE \in Int /\ INT_SIZE * (q + n) = (INT_SIZE * q) + (n * INT_SIZE)
    BY Sizes, Z3T(30)
  <2>. QED  BY <1>1, <2>1
<1>3. \A c \in Cells : new[c] = IF at <= c /\ c < at + size THEN v ELSE data[c]
  BY <1>1, <1>2 DEF WithInts, Slot
<1>4. \A s \in 0 .. INT_SIZE - 1 : here + s \in Cells
  BY <1>1, SlotWithin
<1>. HIDE DEF new
<1>5. CASE q <= p /\ p < q + n
  <2>1. at <= here
    <3>1. q < p => (INT_SIZE * q) + INT_SIZE <= INT_SIZE * p
      BY Sizes, Times
    <3>. QED  BY <1>1, <1>5, <3>1, Sizes
  <2>2. here + INT_SIZE <= at + size
    <3>1. (INT_SIZE * p) + INT_SIZE <= INT_SIZE * (q + n)
      BY <1>5, Sizes, Times
    <3>. QED  BY <1>1, <1>2, <3>1
  <2>3. \A s \in 0 .. INT_SIZE - 1 : at <= here + s /\ here + s < at + size
    BY <2>1, <2>2, Sizes
  <2>4. \A s \in 0 .. INT_SIZE - 1 : new[here + s] = v
    BY <1>3, <1>4, <2>3
  <2>. QED  BY <1>1, <2>4
<1>6. CASE p < q \/ q + n <= p
  <2>1. here + INT_SIZE <= at \/ at + size <= here
    <3>1. p < q => (INT_SIZE * p) + INT_SIZE <= INT_SIZE * q
      BY Sizes, Times
    <3>2. q + n < p => (INT_SIZE * (q + n)) + INT_SIZE <= INT_SIZE * p
      BY Sizes, Times
    <3>3. q + n = p => INT_SIZE * (q + n) = INT_SIZE * p
      OBVIOUS
    <3>. QED  BY <1>1, <1>2, <1>6, <3>1, <3>2, <3>3, Sizes
  <2>2. \A s \in 0 .. INT_SIZE - 1 : ~(at <= here + s /\ here + s < at + size)
    BY <2>1, Sizes
  <2>3. \A s \in 0 .. INT_SIZE - 1 : new[here + s] = data[here + s]
    BY <1>3, <1>4, <2>2
  <2>4. PICK w \in Blocks \cup {-1} : \A s \in 0 .. INT_SIZE - 1 : data[here + s] = w
    BY <1>1 DEF Whole
  <2>. QED  BY <1>1, <2>3, <2>4
<1>. QED  BY <1>5, <1>6

-----------------------------------------------------------------------------
(* The places where blocks are used. *)

\* The places of a file where a block number stands: -1 for the indirect block.
Spots == {-1} \cup BlockIndices

\* Block b is direct block k of file i, its indirect block (k is -1), or an
\* int of the indirect block.
DirectUse(inodes, b, i, k) == k \in Direct /\ inodes[i].i_data_block[k] = b
IndirectUse(inodes, b, i, k) == k = -1 /\ inodes[i].i_indirect_data_block = b
IntUse(inodes, data, b, i, k) ==
    /\ k \in BlockIndices \ Direct
    /\ inodes[i].i_indirect_data_block \in Blocks
    /\ IntIn(data, inodes[i].i_indirect_data_block, k - MAX_DIRECT_BLOCKS) = b

\* Block b is used as block k of file i, or (k = -1) as its indirect block.
Used(b, i, k) ==
    /\ i \in Files
    /\ \/ DirectUse(inode_table, b, i, k)
       \/ IndirectUse(inode_table, b, i, k)
       \/ ~Labelling(i) /\ IntUse(inode_table, fs_data, b, i, k)

\* Block b stands in one place.
OneUse(b) == \A i, j \in Inums : \A k, l \in Spots :
    Used(b, i, k) /\ Used(b, j, l) => i = j /\ k = l

\* Every block in use is taken, is not block 0, and stands in one place.
Owned == \A b \in Blocks :
    /\ OneUse(b)
    /\ \A i \in Inums, k \in Spots : Used(b, i, k) => b # 0 /\ free_blocks[b] = TAKEN

\* Every int of an indirect block that is labelled is a label.
LabelsWhole == \A i \in Files :
    inode_table[i].i_indirect_data_block \in Blocks /\ ~Labelling(i) =>
        Whole(fs_data, inode_table[i].i_indirect_data_block)

\* The invariant about block numbers.
NumbersInv == TypesInv /\ free_blocks[0] = TAKEN /\ LabelsWhole /\ Owned

\* The int of an indirect block for block k.
LEMMA SpotOfInt ==
    ASSUME NEW k \in BlockIndices \ Direct
    PROVE  k \in Nat /\ k - MAX_DIRECT_BLOCKS \in 0 .. Ints - 1
<1>1. Ints \in Nat
  BY Sizes, DivMod DEF Ints
<1>. QED  BY <1>1, Sizes DEF BlockIndices, Direct, Ints

\* The uses that BlocksOwned counts are uses in this sense.
LEMMA UsesUsed ==
    ASSUME NEW b \in Blocks, NEW u \in Uses(b)
    PROVE  u = <<u[1], u[2]>> /\ u[1] \in Inums /\ u[2] \in Spots /\ Used(b, u[1], u[2])
<1>1. u \in Files \X ({-1} \cup BlockIndices)
  BY DEF Uses
<1>2. PICK i \in Files, k \in Spots : u = <<i, k>>
  <2>1. u = <<u[1], u[2]>> /\ u[1] \in Files /\ u[2] \in Spots
    BY <1>1 DEF Spots
  <2>. QED  BY <2>1, Zenon
<1>3. IF k = -1 THEN b = inode_table[i].i_indirect_data_block
      ELSE b = BlockNumber(i, k) /\ (k \in Direct \/ ~Labelling(i))
  BY <1>2 DEF Uses
<1>4. CASE k = -1
  BY <1>2, <1>3, <1>4 DEF Used, IndirectUse, Files
<1>5. CASE k \in Direct /\ k # -1
  <2>1. b = inode_table[i].i_data_block[k]
    BY <1>3, <1>5 DEF BlockNumber
  <2>. QED  BY <1>2, <1>5, <2>1 DEF Used, DirectUse, Files
<1>6. CASE k \notin Direct /\ k # -1
  <2>1. k \in BlockIndices \ Direct /\ ~Labelling(i)
    BY <1>3, <1>6 DEF Spots
  <2>2. HasIndirect(i)
    <3>1. b # -1
      BY Sizes
    <3>. QED  BY <1>3, <1>6, <3>1 DEF BlockNumber
  <2>3. b = IntAt(inode_table[i].i_indirect_data_block, k - MAX_DIRECT_BLOCKS)
    BY <1>3, <1>6, <2>2 DEF BlockNumber
  <2>4. b = IntIn(fs_data, inode_table[i].i_indirect_data_block, k - MAX_DIRECT_BLOCKS)
    BY <2>3, Zenon DEF IntAt, IntIn
  <2>. QED  BY <1>2, <2>1, <2>2, <2>4 DEF Used, IntUse, HasIndirect, Files
<1>. QED  BY <1>4, <1>5, <1>6

\* The invariant gives BlocksOwned.
LEMMA OwnedImplies == ASSUME Owned PROVE BlocksOwned
<1>. SUFFICES ASSUME NEW b \in Blocks
              PROVE  /\ \A u, v \in Uses(b) : u = v
                     /\ Uses(b) # {} => b # 0 /\ free_blocks[b] = TAKEN
  BY DEF BlocksOwned
<1>1. ASSUME NEW u \in Uses(b), NEW v \in Uses(b) PROVE u = v
  <2>1. u[1] = v[1] /\ u[2] = v[2]
    BY <1>1, UsesUsed DEF Owned, OneUse
  <2>2. u = <<u[1], u[2]>> /\ v = <<v[1], v[2]>>
    BY <1>1, UsesUsed
  <2>. QED  BY <2>1, <2>2
<1>2. ASSUME NEW u \in Uses(b) PROVE b # 0 /\ free_blocks[b] = TAKEN
  BY <1>2, UsesUsed DEF Owned
<1>. QED  BY <1>1, <1>2

\* No block is used at first.
LEMMA InitNumbers == Init => NumbersInv
<1>. SUFFICES ASSUME Init PROVE NumbersInv
  OBVIOUS
<1>1. Files = {}
  BY DEF Init, StateInit, Files, FREE, TAKEN
<1>2. free_blocks[0] = TAKEN
  BY Sizes DEF Init, StateInit
<1>. QED  BY <1>1, <1>2, InitTypes DEF NumbersInv, LabelsWhole, Owned, OneUse, Used

\* No block is claimed, no number of a block is written, and the ints of a file
\* get a meaning only when all are empty: no block gets a new use.
LEMMA NumbersKept ==
    ASSUME NumbersInv, TypesInv', LabelsWhole', UNCHANGED free_blocks,
           \A i \in Files' :
              /\ i \in Files
              /\ inode_table'[i].i_data_block = inode_table[i].i_data_block
              /\ inode_table'[i].i_indirect_data_block = inode_table[i].i_indirect_data_block,
           \A c \in Cells : fs_data'[c] = fs_data[c] \/ fs_data'[c] \notin Blocks,
           \A i \in Files : Labelling(i) /\ inode_table[i].i_indirect_data_block \in Blocks =>
              \/ Labelling(i)'
              \/ \A r \in 0 .. BLOCK_SIZE - 1 :
                   fs_data'[(inode_table[i].i_indirect_data_block * BLOCK_SIZE) + r] = -1
    PROVE  NumbersInv'
<1>0. -1 \notin Blocks
  BY Sizes
<1>1. ASSUME NEW b \in Blocks, NEW i \in Inums, NEW k \in Spots, Used(b, i, k)'
      PROVE  Used(b, i, k)
  <2>1. i \in Files' /\ i \in Files
    BY <1>1 DEF Used
  <2>2. CASE DirectUse(inode_table', b, i, k)
    BY <2>1, <2>2 DEF Used, DirectUse
  <2>3. CASE IndirectUse(inode_table', b, i, k)
    BY <2>1, <2>3 DEF Used, IndirectUse
  <2>4. CASE (~Labelling(i))' /\ IntUse(inode_table', fs_data', b, i, k)
    <3>1. PICK d \in Blocks, a \in 0 .. Ints - 1 :
            /\ d = inode_table[i].i_indirect_data_block /\ a = k - MAX_DIRECT_BLOCKS
            /\ IntIn(fs_data', d, a) = b
            /\ k \in BlockIndices \ Direct
      BY <2>1, <2>4, SpotOfInt DEF IntUse
    <3>2. Whole(fs_data', d)
      BY <2>1, <2>4, <3>1 DEF LabelsWhole
    <3>4. IntIn(fs_data, d, a) = b
      BY <3>1, <3>2, IntKept
    <3>5. CASE Labelling(i)
      <4>1. \A s \in 0 .. INT_SIZE - 1 : fs_data'[Slot(d, a) + s] = b
        BY <3>1, <3>2, IntFound
      <4>2. 0 \in 0 .. INT_SIZE - 1
        BY Sizes
      <4>3. /\ (a * INT_SIZE) + 0 \in 0 .. BLOCK_SIZE - 1
            /\ Slot(d, a) + 0 = (d * BLOCK_SIZE) + ((a * INT_SIZE) + 0)
        BY <4>2, SlotWithin
      <4>4. fs_data'[(d * BLOCK_SIZE) + ((a * INT_SIZE) + 0)] = -1
        <5>1. \A r \in 0 .. BLOCK_SIZE - 1 :
                fs_data'[(inode_table[i].i_indirect_data_block * BLOCK_SIZE) + r] = -1
          BY <2>1, <2>4, <3>1, <3>5
        <5>. QED  BY <3>1, <4>3, <5>1
      <4>5. fs_data'[(d * BLOCK_SIZE) + ((a * INT_SIZE) + 0)] = b
        BY <4>1, <4>2, <4>3
      <4>. QED  BY <1>0, <4>4, <4>5
    <3>6. CASE ~Labelling(i)
      BY <2>1, <3>1, <3>4, <3>6 DEF Used, IntUse
    <3>. QED  BY <3>5, <3>6
  <2>. QED  BY <1>1, <2>2, <2>3, <2>4 DEF Used
<1>2. Owned'
  <2>. SUFFICES ASSUME NEW b \in Blocks
                PROVE  /\ OneUse(b)'
                       /\ \A i \in Inums, k \in Spots : Used(b, i, k)' =>
                            b # 0 /\ free_blocks'[b] = TAKEN
    BY DEF Owned
  <2>1. OneUse(b) /\ \A i \in Inums, k \in Spots : Used(b, i, k) => b # 0 /\ free_blocks[b] = TAKEN
    BY DEF NumbersInv, Owned
  <2>2. OneUse(b)'
    BY <1>1, <2>1 DEF OneUse
  <2>. QED  BY <1>1, <2>1, <2>2
<1>. QED  BY <1>2 DEF NumbersInv

\* The same when the cells stay as they are, and labelling goes on.
LEMMA NumbersSame ==
    ASSUME NumbersInv, TypesInv', UNCHANGED <<free_blocks, fs_data>>,
           \A i \in Files' :
              /\ i \in Files
              /\ inode_table'[i].i_data_block = inode_table[i].i_data_block
              /\ inode_table'[i].i_indirect_data_block = inode_table[i].i_indirect_data_block,
           \A i \in Files : Labelling(i) => Labelling(i)'
    PROVE  NumbersInv'
<1>1. LabelsWhole'
  BY DEF NumbersInv, LabelsWhole
<1>. QED  BY <1>1, NumbersKept

\* A free block is claimed: it gets one use, the others stay as they are.
LEMMA NumbersClaimed ==
    ASSUME NumbersInv, TypesInv', NEW n \in Blocks,
           free_blocks[n] = FREE, free_blocks' = [free_blocks EXCEPT ![n] = TAKEN],
           LabelsWhole',
           \A b \in Blocks : b # n =>
              \A i \in Inums, k \in Spots : Used(b, i, k)' => Used(b, i, k),
           OneUse(n)'
    PROVE  NumbersInv'
<1>0. free_blocks \in [Blocks -> {FREE, TAKEN}] /\ 0 \in Blocks
  BY Sizes DEF NumbersInv, TypesInv, TableTypes
<1>1. free_blocks'[0] = TAKEN /\ n # 0
  BY <1>0 DEF NumbersInv, FREE, TAKEN
<1>2. ASSUME NEW b \in Blocks
      PROVE  /\ OneUse(b)'
             /\ \A i \in Inums, k \in Spots : Used(b, i, k)' => b # 0 /\ free_blocks'[b] = TAKEN
  <2>1. CASE b = n
    BY <1>0, <1>1, <2>1
  <2>2. CASE b # n
    <3>1. /\ OneUse(b)
          /\ \A i \in Inums, k \in Spots : Used(b, i, k) => b # 0 /\ free_blocks[b] = TAKEN
      BY DEF NumbersInv, Owned
    <3>2. free_blocks'[b] = free_blocks[b]
      BY <1>0, <2>2
    <3>3. OneUse(b)'
      BY <2>2, <3>1 DEF OneUse
    <3>. QED  BY <2>2, <3>1, <3>2, <3>3
  <2>. QED  BY <2>1, <2>2
<1>3. Owned'
  BY <1>2 DEF Owned
<1>. QED  BY <1>1, <1>3 DEF NumbersInv

\* A block that is free has no use.
LEMMA FreeUnused ==
    ASSUME NumbersInv, NEW n \in Blocks, free_blocks[n] = FREE,
           NEW i \in Inums, NEW k \in Spots
    PROVE  ~Used(n, i, k)
BY DEF NumbersInv, Owned, FREE, TAKEN

\* What a thread labels goes on being labelled when another moves.
LEMMA LabellingKept ==
    ASSUME NEW t \in Threads, Moved(t), pc[t] # "label", NEW i, Labelling(i)
    PROVE  Labelling(i)'
BY DEF Labelling, Moved

\* The claimed block becomes a direct block of the file.
LEMMA InstalledDirect ==
    ASSUME NumbersInv, TypesInv', NEW i \in Inums, NEW k \in Direct, NEW n \in Blocks,
           free_blocks[n] = FREE, free_blocks' = [free_blocks EXCEPT ![n] = TAKEN],
           UNCHANGED <<freeinode_ts, fs_data>>,
           inode_table' = [inode_table EXCEPT ![i].i_data_block[k] = n],
           \A j \in Inums : Labelling(j) => Labelling(j)'
    PROVE  NumbersInv'
<1>0. inode_table \in [Inums -> Inode]
  BY DEF NumbersInv, TypesInv, TableTypes
<1>1. \A j \in Inums :
        /\ inode_table'[j].i_indirect_data_block = inode_table[j].i_indirect_data_block
        /\ \A l \in Direct : inode_table'[j].i_data_block[l] =
              IF j = i /\ l = k THEN n ELSE inode_table[j].i_data_block[l]
  BY <1>0 DEF Inode
<1>2. Files' = Files /\ \A j \in Files : j \in Inums
  BY DEF Files
<1>3. LabelsWhole'
  BY <1>1, <1>2 DEF NumbersInv, LabelsWhole
<1>4. ASSUME NEW b \in Blocks, NEW j \in Inums, NEW l \in Spots, Used(b, j, l)',
             ~Used(b, j, l)
      PROVE  b = n /\ j = i /\ l = k
  <2>1. ~IndirectUse(inode_table', b, j, l)
    BY <1>1, <1>2, <1>4 DEF Used, IndirectUse
  <2>2. ~((~Labelling(j))' /\ IntUse(inode_table', fs_data', b, j, l))
    BY <1>1, <1>2, <1>4 DEF Used, IntUse
  <2>3. DirectUse(inode_table', b, j, l) /\ ~DirectUse(inode_table, b, j, l)
    BY <1>2, <1>4, <2>1, <2>2 DEF Used
  <2>. QED  BY <1>1, <2>3 DEF DirectUse
<1>5. OneUse(n)'
  <2>1. ASSUME NEW j \in Inums, NEW l \in Spots, Used(n, j, l)' PROVE j = i /\ l = k
    BY <1>4, <2>1, FreeUnused
  <2>. QED  BY <2>1 DEF OneUse
<1>. QED  BY <1>3, <1>4, <1>5, NumbersClaimed

\* The claimed block becomes the indirect block of the file, not yet labelled.
LEMMA InstalledIndirect ==
    ASSUME NumbersInv, TypesInv', NEW i \in Inums, NEW n \in Blocks,
           free_blocks[n] = FREE, free_blocks' = [free_blocks EXCEPT ![n] = TAKEN],
           UNCHANGED <<freeinode_ts, fs_data>>,
           inode_table' = [inode_table EXCEPT ![i].i_indirect_data_block = n],
           Labelling(i)', \A j \in Inums : Labelling(j) => Labelling(j)'
    PROVE  NumbersInv'
<1>0. inode_table \in [Inums -> Inode]
  BY DEF NumbersInv, TypesInv, TableTypes
<1>1. \A j \in Inums :
        /\ inode_table'[j].i_indirect_data_block =
              IF j = i THEN n ELSE inode_table[j].i_indirect_data_block
        /\ inode_table'[j].i_data_block = inode_table[j].i_data_block
  BY <1>0 DEF Inode
<1>2. Files' = Files /\ \A j \in Files : j \in Inums
  BY DEF Files
<1>3. LabelsWhole'
  BY <1>1, <1>2 DEF NumbersInv, LabelsWhole
<1>4. ASSUME NEW b \in Blocks, NEW j \in Inums, NEW l \in Spots, Used(b, j, l)',
             ~Used(b, j, l)
      PROVE  b = n /\ j = i /\ l = -1
  <2>1. ~DirectUse(inode_table', b, j, l)
    BY <1>1, <1>2, <1>4 DEF Used, DirectUse
  <2>2. ~((~Labelling(j))' /\ IntUse(inode_table', fs_data', b, j, l))
    BY <1>1, <1>2, <1>4 DEF Used, IntUse
  <2>3. IndirectUse(inode_table', b, j, l) /\ ~IndirectUse(inode_table, b, j, l)
    BY <1>2, <1>4, <2>1, <2>2 DEF Used
  <2>. QED  BY <1>1, <2>3 DEF IndirectUse
<1>5. OneUse(n)'
  <2>1. ASSUME NEW j \in Inums, NEW l \in Spots, Used(n, j, l)' PROVE j = i /\ l = -1
    BY <1>4, <2>1, FreeUnused
  <2>. QED  BY <2>1 DEF OneUse
<1>. QED  BY <1>3, <1>4, <1>5, NumbersClaimed

\* The number of the claimed block is stored in an int of an indirect block, or
\* past its end, in an int of another one.
LEMMA InstalledInt ==
    ASSUME IntsAligned, NumbersInv, TypesInv', NEW d \in Blocks, NEW a \in Nat, NEW n \in Blocks,
           free_blocks[n] = FREE, free_blocks' = [free_blocks EXCEPT ![n] = TAKEN],
           UNCHANGED <<freeinode_ts, inode_table>>,
           fs_data' = WithInts(fs_data, d, a, 1, n),
           \A j \in Inums : Labelling(j) => Labelling(j)'
    PROVE  NumbersInv'
<1>1. \A c \in Cells : fs_data'[c] = fs_data[c] \/ fs_data'[c] = n
  BY DEF WithInts
<1>2. Files' = Files /\ \A j \in Files : j \in Inums
  BY DEF Files
<1>3. ASSUME NEW j \in Files, NEW e \in Blocks, e = inode_table[j].i_indirect_data_block,
             ~Labelling(j)
      PROVE  Whole(fs_data', e)
  <2>1. Whole(fs_data, e)
    BY <1>3 DEF NumbersInv, LabelsWhole
  <2>2. d \in Int /\ 1 \in Nat /\ n \in Blocks \cup {-1}
    BY DEF Blocks
  <2>. QED  BY <2>1, <2>2, WholeKept
<1>4. LabelsWhole'
  BY <1>2, <1>3 DEF LabelsWhole
<1>5. ASSUME NEW b \in Blocks, NEW j \in Inums, NEW l \in Spots, Used(b, j, l)',
             ~Used(b, j, l)
      PROVE  /\ b = n /\ l \in BlockIndices \ Direct /\ j \in Files
             /\ inode_table[j].i_indirect_data_block \in Blocks
             /\ Slot(inode_table[j].i_indirect_data_block, l - MAX_DIRECT_BLOCKS) = Slot(d, a)
  <2>1. ~DirectUse(inode_table', b, j, l)
    BY <1>2, <1>5 DEF Used, DirectUse
  <2>2. ~IndirectUse(inode_table', b, j, l)
    BY <1>2, <1>5 DEF Used, IndirectUse
  <2>3. j \in Files /\ ~Labelling(j) /\ IntUse(inode_table', fs_data', b, j, l)
    BY <1>2, <1>5, <2>1, <2>2 DEF Used
  <2>4. PICK e \in Blocks, m \in 0 .. Ints - 1 :
          /\ e = inode_table[j].i_indirect_data_block /\ m = l - MAX_DIRECT_BLOCKS
          /\ IntIn(fs_data', e, m) = b
          /\ l \in BlockIndices \ Direct
    BY <2>3, SpotOfInt DEF IntUse
  <2>5. IntIn(fs_data, e, m) # b
    BY <1>5, <2>3, <2>4 DEF Used, IntUse
  <2>6. Whole(WithInts(fs_data, d, a, 1, n), e) /\ IntIn(WithInts(fs_data, d, a, 1, n), e, m) = b
    BY <1>3, <2>3, <2>4
  <2>7. Slot(e, m) = Slot(d, a) /\ b = n
    BY <2>5, <2>6, IntStored
  <2>. QED  BY <2>3, <2>4, <2>7
<1>6. OneUse(n)'
  <2>1. ASSUME NEW i \in Inums, NEW j \in Inums, NEW k \in Spots, NEW l \in Spots,
               Used(n, i, k)', Used(n, j, l)'
        PROVE  i = j /\ k = l
    <3>1. /\ k \in BlockIndices \ Direct /\ i \in Files
          /\ inode_table[i].i_indirect_data_block \in Blocks
          /\ Slot(inode_table[i].i_indirect_data_block, k - MAX_DIRECT_BLOCKS) = Slot(d, a)
      BY <1>5, <2>1, FreeUnused
    <3>2. /\ l \in BlockIndices \ Direct /\ j \in Files
          /\ inode_table[j].i_indirect_data_block \in Blocks
          /\ Slot(inode_table[j].i_indirect_data_block, l - MAX_DIRECT_BLOCKS) = Slot(d, a)
      BY <1>5, <2>1, FreeUnused
    <3>3. PICK x \in Blocks, y \in Blocks, p \in 0 .. Ints - 1, q \in 0 .. Ints - 1 :
            /\ x = inode_table[i].i_indirect_data_block /\ p = k - MAX_DIRECT_BLOCKS
            /\ y = inode_table[j].i_indirect_data_block /\ q = l - MAX_DIRECT_BLOCKS
            /\ k \in Nat /\ l \in Nat
      BY <3>1, <3>2, SpotOfInt
    <3>4. x = y /\ p = q
      BY <3>1, <3>2, <3>3, SlotUnique
    <3>5. k = l
      BY <3>3, <3>4, Sizes
    <3>6. Used(x, i, -1) /\ Used(x, j, -1)
      BY <3>1, <3>2, <3>3, <3>4 DEF Used, IndirectUse
    <3>7. i = j
      BY <3>6 DEF NumbersInv, Owned, OneUse, Spots
    <3>. QED  BY <3>5, <3>7
  <2>. QED  BY <2>1 DEF OneUse
<1>. QED  BY <1>4, <1>5, <1>6, NumbersClaimed

-----------------------------------------------------------------------------
(* Every step keeps the invariant. *)

\* AllocScan keeps the block numbers.
LEMMA AllocScanNumbers ==
    ASSUME IntsAligned, NumbersInv, TypesInv', NEW t \in Threads, AllocScan(t)
    PROVE  NumbersInv'
<1>0. Shape /\ Locals(t) /\ IsArg(arg[t]) /\ pc[t] = "alloc" /\ arg[t].scan \in Blocks
  BY DEF NumbersInv, TypesInv, DirInv, Shape, AllocScan, Locals
<1>1. Moved(t)
  BY <1>0, AllocScanMoves
<1>2. \A j \in Inums : Labelling(j) => Labelling(j)'
  BY <1>0, <1>1, LabellingKept
<1>3. PICK i \in Inums, k \in Nat, n \in Blocks :
        i = arg[t].inum /\ k = arg[t].blk /\ n = arg[t].scan
  BY <1>0 DEF Locals
<1>4. UNCHANGED freeinode_ts
  BY DEF AllocScan
<1>5. CASE UNCHANGED <<free_blocks, inode_table, fs_data>>
  <2>1. \A j \in Files : Labelling(j) => Labelling(j)'
    BY <1>2 DEF Files
  <2>. QED  BY <1>4, <1>5, <2>1, NumbersSame, FilesKept
<1>6. CASE /\ free_blocks[n] = FREE /\ BlockTaken(n) /\ BlockInstalled(i, k, n)
           /\ LET ready == k \in Direct \/ HasIndirect(i) IN
              Goes(t, IF ready THEN "write" ELSE "label", [arg[t] EXCEPT !.scan = 0])
  <2>0. free_blocks' = [free_blocks EXCEPT ![n] = TAKEN]
    BY <1>6 DEF BlockTaken
  <2>1. CASE /\ k \in Direct
             /\ inode_table' = [inode_table EXCEPT ![i].i_data_block[k] = n]
             /\ UNCHANGED fs_data
    BY <1>2, <1>4, <1>6, <2>0, <2>1, InstalledDirect
  <2>2. CASE /\ k \notin Direct /\ ~HasIndirect(i)
             /\ inode_table' = [inode_table EXCEPT ![i].i_indirect_data_block = n]
             /\ UNCHANGED fs_data
    <3>1. Goes(t, "label", [arg[t] EXCEPT !.scan = 0])
      BY <1>6, <2>2
    <3>. DEFINE new == [arg[t] EXCEPT !.scan = 0]
    <3>2. IsArg(new) /\ new.inum = arg[t].inum
      BY <1>0 DEF IsArg
    <3>. HIDE DEF new
    <3>3. pc'[t] = "label" /\ arg'[t] = new
      BY <1>0, <3>1, <3>2, GoesMoves DEF Pcs, new
    <3>4. Labelling(i)'
      BY <1>3, <3>2, <3>3 DEF Labelling
    <3>. QED  BY <1>2, <1>4, <1>6, <2>0, <2>2, <3>4, InstalledIndirect
  <2>3. CASE /\ k \notin Direct /\ HasIndirect(i)
             /\ fs_data' = WithInts(fs_data, inode_table[i].i_indirect_data_block,
                                    k - MAX_DIRECT_BLOCKS, 1, n)
             /\ UNCHANGED inode_table
    <3>1. PICK d \in Blocks, a \in Nat :
            d = inode_table[i].i_indirect_data_block /\ a = k - MAX_DIRECT_BLOCKS
      BY <2>3, Sizes DEF HasIndirect, Direct
    <3>2. fs_data' = WithInts(fs_data, d, a, 1, n)
      BY <2>3, <3>1
    <3>. QED  BY <1>2, <1>4, <1>6, <2>0, <2>3, <3>2, InstalledInt
  <2>. QED  BY <1>6, <2>1, <2>2, <2>3 DEF BlockInstalled
<1>. QED  BY <1>3, <1>5, <1>6 DEF AllocScan

\* A write is at a block that its file can have, the file's indirect block is
\* not being labelled, and the piece it puts there ends in the block.
Writes(t) ==
    LET i == arg[t].inum
        k == arg[t].blk
        off == open_file_table[arg[t].fh].of_offset
        m == Piece(k, arg[t].end, off, arg[t].left)
    IN  pc[t] = "write" =>
            /\ i \in Files /\ k \in BlockIndices /\ ~Labelling(i)
            /\ BLOCK_SIZE * k <= off /\ off < (BLOCK_SIZE * k) + BLOCK_SIZE
            /\ off + m <= (BLOCK_SIZE * k) + BLOCK_SIZE

\* The block of such a write is in use, and no file's indirect block.
LEMMA WriterBlock ==
    ASSUME NumbersInv, NEW i \in Files, NEW k \in BlockIndices, ~Labelling(i),
           NEW b \in Blocks, b = BlockNumber(i, k)
    PROVE  /\ b # 0
           /\ \A j \in Files : inode_table[j].i_indirect_data_block # b
<1>1. k # -1 /\ k \in Spots /\ -1 \in Spots /\ i \in Inums
  BY DEF BlockIndices, Spots, Files
<1>2. Used(b, i, k)
  <2>1. <<i, k>> \in Uses(b)
    BY <1>1 DEF Uses
  <2>2. Used(b, <<i, k>>[1], <<i, k>>[2])
    BY <2>1, UsesUsed
  <2>. QED  BY <2>2
<1>3. ASSUME NEW j \in Files, inode_table[j].i_indirect_data_block = b PROVE FALSE
  <2>1. Used(b, j, -1) /\ j \in Inums
    BY <1>3 DEF Used, IndirectUse, Files
  <2>. QED  BY <1>1, <1>2, <2>1 DEF NumbersInv, Owned, OneUse
<1>. QED  BY <1>1, <1>2, <1>3 DEF NumbersInv, Owned

\* data becomes new: m bytes are put at offset s of block b, and nothing else.
Puts(data, new, b, s, m, byte) ==
    \A c \in Blocks, r \in 0 .. BLOCK_SIZE - 1 :
        new[(c * BLOCK_SIZE) + r] =
            IF c = b /\ s <= r /\ r < s + m THEN byte ELSE data[(c * BLOCK_SIZE) + r]

\* A copy that ends in its block does that.
LEMMA CellCopied ==
    ASSUME NEW data, NEW b \in Blocks, NEW off \in Nat, NEW m \in Nat, NEW byte,
           NEW s \in Nat, s = off % BLOCK_SIZE, s + m <= BLOCK_SIZE
    PROVE  Puts(data, Copied(data, b, off, m, byte), b, s, m, byte)
<1>. SUFFICES ASSUME NEW c \in Blocks, NEW r \in 0 .. BLOCK_SIZE - 1
              PROVE  Copied(data, b, off, m, byte)[(c * BLOCK_SIZE) + r] =
                        IF c = b /\ s <= r /\ r < s + m
                        THEN byte ELSE data[(c * BLOCK_SIZE) + r]
  BY DEF Puts
<1>1. PICK x \in Int, y \in Int : x = b * BLOCK_SIZE /\ y = c * BLOCK_SIZE
  BY Sizes DEF Blocks
<1>2. y + r \in Cells
  BY <1>1, CellExists
<1>3. Copied(data, b, off, m, byte)[y + r] =
          IF x + s <= y + r /\ y + r < (x + s) + m THEN byte ELSE data[y + r]
  BY <1>1, <1>2 DEF Copied, CellOf
<1>4. b \in Int /\ c \in Int /\ x = BLOCK_SIZE * b /\ y = BLOCK_SIZE * c
  BY <1>1, Sizes DEF Blocks
<1>5. /\ b < c => x + BLOCK_SIZE <= y
      /\ c < b => y + BLOCK_SIZE <= x
      /\ c = b => x = y
  BY <1>1, <1>4, Sizes, Times
<1>6. x + s <= y + r /\ y + r < (x + s) + m <=> c = b /\ s <= r /\ r < s + m
  BY <1>1, <1>4, <1>5, Sizes
<1>. QED  BY <1>1, <1>3, <1>6

\* WriteBlock keeps the block numbers.
LEMMA WriteBlockNumbers ==
    ASSUME NumbersInv, TypesInv', NEW t \in Threads, WriteBlock(t), Writes(t)
    PROVE  NumbersInv'
<1>0. Shape /\ Locals(t) /\ IsArg(arg[t]) /\ pc[t] = "write"
  BY DEF NumbersInv, TypesInv, DirInv, Shape, WriteBlock
<1>1. Moved(t)
  BY <1>0, WriteBlockMoves
<1>2. \A j \in Inums : Labelling(j) => Labelling(j)'
  BY <1>0, <1>1, LabellingKept
<1>3. UNCHANGED <<freeinode_ts, free_blocks>>
  BY DEF WriteBlock
<1>4. \A c \in Cells : fs_data'[c] = fs_data[c] \/ fs_data'[c] \notin Blocks
  <2>1. arg[t].byte \in Bytes
    BY <1>0 DEF Locals, Writing
  <2>2. arg[t].byte \notin Blocks
    BY <2>1, FineCellsAssumption
  <2>3. CASE UNCHANGED fs_data
    BY <2>3
  <2>4. ASSUME NEW b, NEW off, NEW m, fs_data' = Copied(fs_data, b, off, m, arg[t].byte)
        PROVE  \A c \in Cells : fs_data'[c] = fs_data[c] \/ fs_data'[c] = arg[t].byte
    BY <2>4 DEF Copied
  <2>. QED  BY <2>2, <2>3, <2>4 DEF WriteBlock
<1>5. ASSUME NEW i \in Inums
      PROVE  /\ inode_table'[i].i_data_block = inode_table[i].i_data_block
             /\ inode_table'[i].i_indirect_data_block = inode_table[i].i_indirect_data_block
  <2>1. inode_table \in [Inums -> Inode] /\ arg[t].inum \in Inums
    BY <1>0 DEF NumbersInv, TypesInv, TableTypes, Locals
  <2>2. CASE UNCHANGED inode_table
    BY <2>2
  <2>3. ASSUME NEW s, inode_table' = [inode_table EXCEPT ![arg[t].inum].i_size = s]
        PROVE  /\ inode_table'[i].i_data_block = inode_table[i].i_data_block
               /\ inode_table'[i].i_indirect_data_block = inode_table[i].i_indirect_data_block
    BY <2>1, <2>3 DEF Inode
  <2>. QED  BY <2>2, <2>3 DEF WriteBlock
<1>6. Files' = Files /\ \A i \in Files : i \in Inums
  BY <1>3 DEF Files
<1>7. ASSUME NEW j \in Files, NEW e \in Blocks, e = inode_table[j].i_indirect_data_block,
             ~Labelling(j)
      PROVE  Whole(fs_data', e)
  <2>1. Whole(fs_data, e)
    BY <1>7 DEF NumbersInv, LabelsWhole
  <2>2. CASE UNCHANGED fs_data
    BY <2>1, <2>2
  <2>3. CASE BlockNumber(arg[t].inum, arg[t].blk) \in Blocks
    <3>1. PICK i \in Files, k \in BlockIndices, h \in Handles, off \in Nat, left \in Nat,
               end \in Nat :
            /\ i = arg[t].inum /\ k = arg[t].blk /\ h = arg[t].fh
            /\ off = open_file_table[h].of_offset /\ left = arg[t].left /\ end = arg[t].end
      BY <1>0, OffsetType DEF Writes, Locals, NumbersInv
    <3>2. PICK b \in Blocks, m \in Nat : b = BlockNumber(i, k) /\ m = Piece(k, end, off, left)
      <4>1. k \in Int /\ end \in Int
        BY DEF BlockIndices
      <4>. QED  BY <2>3, <3>1, <4>1, PieceAtMost
    <3>3. fs_data' = Copied(fs_data, b, off, m, arg[t].byte)
      BY <3>1, <3>2, Sizes DEF WriteBlock, Garbage, Blocks
    <3>4. /\ ~Labelling(i) /\ BLOCK_SIZE * k <= off
          /\ off < (BLOCK_SIZE * k) + BLOCK_SIZE /\ off + m <= (BLOCK_SIZE * k) + BLOCK_SIZE
      BY <1>0, <3>1, <3>2 DEF Writes
    <3>5. off % BLOCK_SIZE = off - (BLOCK_SIZE * k) /\ off % BLOCK_SIZE \in Nat
      <4>1. k \in Nat
        BY DEF BlockIndices
      <4>2. off % BLOCK_SIZE = off - (BLOCK_SIZE * k)
        BY <3>4, <4>1, Sizes, DivWithin
      <4>3. off % BLOCK_SIZE \in Nat
        BY Sizes, DivMod
      <4>. QED  BY <4>2, <4>3
    <3>6. Puts(fs_data, fs_data', b, off % BLOCK_SIZE, m, arg[t].byte)
      <4>1. PICK s \in Nat, x \in Int : s = off % BLOCK_SIZE /\ x = BLOCK_SIZE * k
        BY <3>5, Sizes DEF BlockIndices
      <4>2. s = off - x /\ off + m <= x + BLOCK_SIZE
        BY <3>4, <3>5, <4>1, Zenon
      <4>3. s + m <= BLOCK_SIZE
        BY <4>1, <4>2, Sizes
      <4>. QED  BY <3>3, <4>1, <4>3, CellCopied
    <3>7. e # b
      BY <1>7, <3>2, <3>4, WriterBlock
    <3>8. \A r \in 0 .. BLOCK_SIZE - 1 :
            fs_data'[(e * BLOCK_SIZE) + r] = fs_data[(e * BLOCK_SIZE) + r]
      BY <3>6, <3>7 DEF Puts
    <3>. QED  BY <2>1, <3>8, WholeSame
  <2>. QED  BY <2>2, <2>3 DEF WriteBlock
<1>8. LabelsWhole'
  <2>1. ASSUME NEW j \in Files', inode_table'[j].i_indirect_data_block \in Blocks, ~Labelling(j)'
        PROVE  Whole(fs_data', inode_table'[j].i_indirect_data_block)
    <3>1. /\ j \in Files /\ ~Labelling(j)
          /\ inode_table'[j].i_indirect_data_block = inode_table[j].i_indirect_data_block
      BY <1>2, <1>5, <1>6, <2>1
    <3>. QED  BY <1>7, <2>1, <3>1
  <2>. QED  BY <2>1 DEF LabelsWhole
<1>. QED  BY <1>2, <1>3, <1>4, <1>5, <1>6, <1>8, NumbersKept

\* LabelIndirect keeps the block numbers.
LEMMA LabelIndirectNumbers ==
    ASSUME IntsAligned, LabelsCover, NumbersInv, TypesInv', NEW t \in Threads,
           LabelIndirect(t)
    PROVE  NumbersInv'
<1>0. Shape /\ Locals(t) /\ pc[t] = "label"
  BY DEF NumbersInv, TypesInv, DirInv, LabelIndirect
<1>1. Moved(t)
  BY <1>0, OtherMoves
<1>2. PICK i \in Inums, d \in Int : i = arg[t].inum /\ d = inode_table[i].i_indirect_data_block
  <2>1. PICK i \in Inums : i = arg[t].inum
    BY <1>0 DEF Locals
  <2>2. inode_table[i].i_indirect_data_block \in Blocks \cup {-1}
    BY DEF NumbersInv, TypesInv, TableTypes, Inode
  <2>3. inode_table[i].i_indirect_data_block \in Int
    BY <2>2 DEF Blocks
  <2>. QED  BY <2>1, <2>3
<1>3. UNCHANGED <<inode_table, freeinode_ts, free_blocks>>
  BY DEF LabelIndirect
<1>. DEFINE n == BLOCK_SIZE - MAX_DIRECT_BLOCKS
<1>4. fs_data' = WithInts(fs_data, d, 0, n, -1)
  BY <1>2 DEF LabelIndirect, IndirectLabelled
<1>5. PICK x \in Int, size \in Nat : x = d * BLOCK_SIZE /\ size = n * INT_SIZE /\ BLOCK_SIZE <= size
  <2>1. n * INT_SIZE \in Int /\ d * BLOCK_SIZE \in Int
    BY Sizes
  <2>. QED  BY <2>1, Sizes DEF LabelsCover
<1>6. \A c \in Cells : fs_data'[c] = IF x <= c /\ c < x + size THEN -1 ELSE fs_data[c]
  <2>1. 0 * INT_SIZE = 0
    BY Sizes
  <2>. HIDE DEF n
  <2>. QED  BY <1>4, <1>5, <2>1 DEF WithInts
<1>7. \A c \in Cells : fs_data'[c] = fs_data[c] \/ fs_data'[c] \notin Blocks
  BY <1>6, Sizes
<1>8. ASSUME NEW j \in Files, d \in Blocks, j = i, NEW r \in 0 .. BLOCK_SIZE - 1
      PROVE  fs_data'[(d * BLOCK_SIZE) + r] = -1
  <2>1. (d * BLOCK_SIZE) + r \in Cells
    BY <1>8, CellExists
  <2>2. PICK c \in Cells : c = (d * BLOCK_SIZE) + r
    BY <2>1
  <2>3. x <= c /\ c < x + size
    BY <1>5, <2>2, Sizes
  <2>. QED  BY <1>6, <2>2, <2>3
<1>9. ASSUME NEW j \in Files, j # i, Labelling(j) PROVE Labelling(j)'
  BY <1>1, <1>2, <1>9 DEF Labelling, Moved
<1>10. ASSUME NEW j \in Files, Labelling(j), inode_table[j].i_indirect_data_block \in Blocks
       PROVE  \/ Labelling(j)'
              \/ \A r \in 0 .. BLOCK_SIZE - 1 :
                   fs_data'[(inode_table[j].i_indirect_data_block * BLOCK_SIZE) + r] = -1
  BY <1>2, <1>8, <1>9, <1>10
<1>11. Files' = Files /\ \A j \in Files : j \in Inums
  BY <1>3 DEF Files
<1>12. ASSUME NEW j \in Files, NEW e \in Blocks, e = inode_table[j].i_indirect_data_block,
              ~Labelling(j)'
       PROVE  Whole(fs_data', e)
  <2>1. CASE j = i
    <3>1. \A k \in 0 .. Ints - 1, s \in 0 .. INT_SIZE - 1 : fs_data'[Slot(e, k) + s] = -1
      BY <1>2, <1>8, <1>12, <2>1, SlotWithin
    <3>. QED  BY <3>1 DEF Whole
  <2>2. CASE j # i
    <3>1. Whole(fs_data, e)
      BY <1>9, <1>12, <2>2 DEF NumbersInv, LabelsWhole
    <3>2. n \in Nat /\ 0 \in Nat /\ -1 \in Blocks \cup {-1}
      BY FineSizesAssumption
    <3>. HIDE DEF n
    <3>. QED  BY <1>4, <3>1, <3>2, WholeKept
  <2>. QED  BY <2>1, <2>2
<1>13. LabelsWhole'
  BY <1>3, <1>11, <1>12 DEF LabelsWhole
<1>. QED  BY <1>3, <1>7, <1>10, <1>11, <1>13, NumbersKept

\* The blocks that a truncation frees were used by the file it truncates, and by
\* nothing else.
LEMMA TruncatedNumbers ==
    ASSUME NumbersInv, TypesInv', NEW i \in Files, TruncatedInode(i),
           UNCHANGED <<freeinode_ts, fs_data>>,
           \A j \in Inums : Labelling(j) => Labelling(j)'
    PROVE  NumbersInv'
<1>0. /\ inode_table \in [Inums -> Inode] /\ i \in Inums /\ Files' = Files
      /\ free_blocks \in [Blocks -> {FREE, TAKEN}] /\ \A j \in Files : j \in Inums
  BY DEF NumbersInv, TypesInv, TableTypes, Files
<1>1. CASE inode_table[i].i_size = 0
  <2>1. UNCHANGED <<inode_table, free_blocks>>
    BY <1>1 DEF TruncatedInode
  <2>. QED  BY <1>0, <2>1, NumbersSame
<1>2. CASE inode_table[i].i_size # 0
  <2>. DEFINE D == DirectFreed(i)
              old == inode_table[i].i_indirect_data_block
              indirect == IF ~TruncFails(i) /\ BlocksToFree(i) >= MAX_DIRECT_BLOCKS
                          THEN {old} ELSE {}
              freed == indirect \cup {inode_table[i].i_data_block[d] : d \in D}
              blocks == [d \in Direct |-> IF d \in D THEN -1 ELSE inode_table[i].i_data_block[d]]
              new == [i_size |-> IF TruncFails(i) THEN inode_table[i].i_size ELSE 0,
                      i_data_block |-> blocks,
                      i_indirect_data_block |-> IF indirect = {} THEN old ELSE -1]
  <2>1. /\ free_blocks' = [b \in Blocks |-> IF b \in freed THEN FREE ELSE free_blocks[b]]
        /\ inode_table' = [inode_table EXCEPT ![i] = new]
    BY <1>2, Zenon DEF TruncatedInode
  <2>2. D \subseteq Direct
    BY DEF DirectFreed
  <2>3. /\ new.i_data_block = blocks
        /\ new.i_indirect_data_block = IF indirect = {} THEN old ELSE -1
    OBVIOUS
  <2>4. \A d \in Direct : blocks[d] = IF d \in D THEN -1 ELSE inode_table[i].i_data_block[d]
    OBVIOUS
  <2>5. indirect = {} \/ indirect = {old}
    OBVIOUS
  <2>. HIDE DEF D, indirect, blocks, new
  <2>6. \A j \in Inums : inode_table'[j] = IF j = i THEN new ELSE inode_table[j]
    BY <1>0, <2>1
  <2>7. /\ inode_table'[i].i_indirect_data_block = IF indirect = {} THEN old ELSE -1
        /\ \A d \in Direct : inode_table'[i].i_data_block[d] =
              IF d \in D THEN -1 ELSE inode_table[i].i_data_block[d]
    BY <1>0, <2>3, <2>4, <2>6
  \* A block that is freed was used by file i, and is not any more.
  <2>8. ASSUME NEW b \in Blocks, b \in freed
        PROVE  \E k \in Spots : Used(b, i, k) /\ ~Used(b, i, k)'
    <3>1. CASE b \in indirect
      <4>1. b = old /\ indirect # {}
        BY <2>5, <3>1
      <4>2. Used(b, i, -1) /\ -1 \in Spots
        BY <4>1 DEF Used, IndirectUse, Spots
      <4>3. ~Used(b, i, -1)'
        <5>1. -1 \notin Direct /\ -1 \notin BlockIndices /\ b # -1
          BY Sizes DEF BlockIndices
        <5>. QED  BY <2>7, <4>1, <5>1 DEF Used, IndirectUse, DirectUse, IntUse
      <4>. QED  BY <4>2, <4>3
    <3>2. ASSUME NEW d \in D, b = inode_table[i].i_data_block[d]
          PROVE  \E k \in Spots : Used(b, i, k) /\ ~Used(b, i, k)'
      <4>1. d \in Direct /\ d \in Spots /\ d # -1 /\ b # -1
        <5>1. Ints \in Nat
          BY Sizes, DivMod DEF Ints
        <5>. QED  BY <2>2, <5>1, Sizes DEF Spots, BlockIndices, Direct, Ints
      <4>2. Used(b, i, d)
        BY <3>2, <4>1 DEF Used, DirectUse
      <4>3. ~Used(b, i, d)'
        BY <2>7, <4>1 DEF Used, DirectUse, IndirectUse, IntUse
      <4>. QED  BY <4>1, <4>2, <4>3
    <3>. QED  BY <2>8, <3>1, <3>2
  <2>9. ASSUME NEW b \in Blocks, NEW j \in Inums, NEW k \in Spots, Used(b, j, k)'
        PROVE  Used(b, j, k) /\ b \notin freed
    <3>1. Used(b, j, k)
      <4>0. j \in Files /\ (Labelling(j) => Labelling(j)') /\ b # -1 /\ -1 \notin Blocks
        BY <1>0, <2>9, Sizes DEF Used
      <4>1. CASE j # i
        BY <2>6, <2>9, <4>0, <4>1 DEF Used, DirectUse, IndirectUse, IntUse
      <4>2. CASE j = i
        BY <2>7, <2>9, <4>0, <4>2 DEF Used, DirectUse, IndirectUse, IntUse
      <4>. QED  BY <4>1, <4>2
    <3>2. SUFFICES ASSUME b \in freed PROVE FALSE
      BY <3>1
    <3>3. PICK l \in Spots : Used(b, i, l) /\ ~Used(b, i, l)'
      BY <2>8, <3>2
    <3>4. j = i /\ k = l
      BY <1>0, <3>1, <3>3 DEF NumbersInv, Owned, OneUse
    <3>. QED  BY <2>9, <3>3, <3>4
  <2>10. LabelsWhole'
    <3>1. ASSUME NEW j \in Files, inode_table'[j].i_indirect_data_block \in Blocks
          PROVE  inode_table'[j].i_indirect_data_block = inode_table[j].i_indirect_data_block
      BY <1>0, <2>6, <2>7, <3>1, Sizes
    <3>. QED  BY <1>0, <3>1 DEF NumbersInv, LabelsWhole
  <2>11. free_blocks'[0] = TAKEN
    <3>1. 0 \notin freed
      BY <1>0, <2>8, Sizes DEF NumbersInv, Owned
    <3>. QED  BY <2>1, <3>1, Sizes DEF NumbersInv
  <2>12. Owned'
    <3>. SUFFICES ASSUME NEW b \in Blocks
                  PROVE  /\ OneUse(b)'
                         /\ \A j \in Inums, k \in Spots : Used(b, j, k)' =>
                              b # 0 /\ free_blocks'[b] = TAKEN
      BY DEF Owned
    <3>1. /\ OneUse(b)
          /\ \A j \in Inums, k \in Spots : Used(b, j, k) => b # 0 /\ free_blocks[b] = TAKEN
      BY DEF NumbersInv, Owned
    <3>2. OneUse(b)'
      BY <2>9, <3>1 DEF OneUse
    <3>3. ASSUME NEW j \in Inums, NEW k \in Spots, Used(b, j, k)'
          PROVE  b # 0 /\ free_blocks'[b] = TAKEN
      BY <2>1, <2>9, <3>1, <3>3
    <3>. QED  BY <3>2, <3>3
  <2>. QED  BY <2>10, <2>11, <2>12 DEF NumbersInv
<1>. QED  BY <1>1, <1>2

\* OpenExisting keeps the block numbers.
LEMMA OpenExistingNumbers ==
    ASSUME NumbersInv, TypesInv', NEW t \in Threads, OpenExisting(t)
    PROVE  NumbersInv'
<1>0. Shape /\ pc[t] = "found" /\ arg[t].inum \in Files
  BY DEF NumbersInv, TypesInv, DirInv, Locals, OpenExisting
<1>1. Moved(t)
  BY <1>0, OpenExistingMoves
<1>2. \A j \in Inums : Labelling(j) => Labelling(j)'
  BY <1>0, <1>1, LabellingKept
<1>3. UNCHANGED <<freeinode_ts, fs_data>> /\ Files' = Files /\ \A j \in Files : j \in Inums
  BY DEF OpenExisting, Files
<1>4. CASE TruncatedInode(arg[t].inum)
  BY <1>0, <1>2, <1>3, <1>4, TruncatedNumbers
<1>5. CASE UNCHANGED <<inode_table, free_blocks>>
  BY <1>2, <1>3, <1>5, NumbersSame
<1>. QED  BY <1>4, <1>5 DEF OpenExisting

\* A new file uses no block.
LEMMA CreateScanNumbers ==
    ASSUME NumbersInv, TypesInv', NEW t \in Threads, CreateScan(t)
    PROVE  NumbersInv'
<1>0. Shape /\ pc[t] = "create" /\ arg[t].scan \in Inums
  BY DEF NumbersInv, TypesInv, DirInv, Creating, CreateScan
<1>1. Moved(t)
  BY <1>0, CreateScanMoves
<1>2. \A j \in Inums : Labelling(j) => Labelling(j)'
  BY <1>0, <1>1, LabellingKept
<1>3. UNCHANGED <<fs_data, free_blocks>> /\ \A j \in Files : j \in Inums
  BY DEF CreateScan, Files
<1>4. CASE UNCHANGED <<freeinode_ts, inode_table>>
  BY <1>2, <1>3, <1>4, FilesKept, NumbersSame
<1>5. CASE /\ freeinode_ts' = [freeinode_ts EXCEPT ![arg[t].scan] = TAKEN]
           /\ inode_table' = [inode_table EXCEPT ![arg[t].scan] = EmptyInode]
  <2>0. PICK i \in Inums : i = arg[t].scan
    BY <1>0
  <2>1. \A j \in Inums : inode_table'[j] = IF j = i THEN EmptyInode ELSE inode_table[j]
    BY <1>5, <2>0 DEF NumbersInv, TypesInv, TableTypes
  <2>2. \A j \in Files' : j \in Inums /\ (j # i => j \in Files)
    BY <1>5, <2>0 DEF Files, NumbersInv, TypesInv, DirInv, DirTypes
  <2>3. ASSUME NEW b \in Blocks, NEW j \in Inums, NEW k \in Spots, Used(b, j, k)'
        PROVE  Used(b, j, k)
    <3>1. j # i
      <4>1. SUFFICES ASSUME j = i PROVE FALSE
        OBVIOUS
      <4>2. /\ inode_table'[j].i_indirect_data_block = -1
            /\ \A d \in Direct : inode_table'[j].i_data_block[d] = -1
        BY <2>1, <4>1 DEF EmptyInode
      <4>. QED  BY <2>3, <4>2, Sizes DEF Used, DirectUse, IndirectUse, IntUse
    <3>. QED  BY <1>2, <1>3, <2>1, <2>2, <2>3, <3>1 DEF Used, DirectUse, IndirectUse, IntUse
  <2>4. LabelsWhole'
    <3>1. ASSUME NEW j \in Files', inode_table'[j].i_indirect_data_block \in Blocks
          PROVE  j \in Files /\ inode_table'[j] = inode_table[j] /\ j \in Inums
      BY <2>1, <2>2, <3>1, Sizes DEF EmptyInode
    <3>. QED  BY <1>2, <1>3, <3>1 DEF NumbersInv, LabelsWhole
  <2>5. Owned'
    BY <1>3, <2>3 DEF NumbersInv, Owned, OneUse
  <2>. QED  BY <1>3, <2>4, <2>5 DEF NumbersInv
<1>. QED  BY <1>4, <1>5 DEF CreateScan

\* OpenLink keeps the block numbers.
LEMMA OpenLinkNumbers ==
    ASSUME NumbersInv, TypesInv', NEW t \in Threads, OpenLink(t)
    PROVE  NumbersInv'
<1>0. Shape /\ pc[t] = "link" /\ arg[t].inum \in Inums
  BY DEF NumbersInv, TypesInv, DirInv, Locals, OpenLink
<1>1. Moved(t)
  BY <1>0, OpenLinkMoves
<1>2. \A j \in Inums : Labelling(j) => Labelling(j)'
  BY <1>0, <1>1, LabellingKept
<1>3. UNCHANGED <<inode_table, fs_data, free_blocks>>
  BY DEF OpenLink
<1>4. \A j \in Files' : j \in Files
  BY <1>0 DEF OpenLink, Files, FREE, TAKEN, NumbersInv, TypesInv, DirInv, DirTypes
<1>5. \A j \in Files : j \in Inums
  BY DEF Files
<1>. QED  BY <1>2, <1>3, <1>4, <1>5, NumbersSame

\* TfsInit keeps the block numbers.
LEMMA TfsInitNumbers ==
    ASSUME NumbersInv, TypesInv', TfsInit
    PROVE  NumbersInv'
<1>1. Files' = {}
  BY DEF TfsInit, StateReset, Files, FREE, TAKEN
<1>2. free_blocks'[0] = TAKEN
  BY Sizes DEF TfsInit, StateReset
<1>. QED  BY <1>1, <1>2 DEF NumbersInv, LabelsWhole, Owned, OneUse, Used

\* The steps that change no file.
LEMMA AsideNumbers ==
    ASSUME NumbersInv, TypesInv',
           UNCHANGED <<inode_table, freeinode_ts, fs_data, free_blocks>>,
           \A u \in Threads : pc[u] = "label" => pc'[u] = "label" /\ arg'[u].inum = arg[u].inum
    PROVE  NumbersInv'
<1>1. \A j : Labelling(j) => Labelling(j)'
  BY DEF Labelling
<1>. QED  BY <1>1, FilesKept, NumbersSame

\* A thread moves, and no block changes.
LEMMA MovedNumbers ==
    ASSUME NumbersInv, TypesInv', NEW t \in Threads, Moved(t), pc[t] # "label",
           UNCHANGED <<inode_table, freeinode_ts, fs_data, free_blocks>>
    PROVE  NumbersInv'
<1>1. \A u \in Threads : pc[u] = "label" => pc'[u] = "label" /\ arg'[u].inum = arg[u].inum
  BY DEF Moved
<1>. QED  BY <1>1, AsideNumbers

\* The steps that change no block.
LEMMA OthersNumbers ==
    ASSUME NumbersInv, TypesInv', NEW t \in Threads,
           \/ OpenStart(t) \/ AddScan(t) \/ CloseStart(t) \/ WriteLock(t) \/ ReadBody(t)
           \/ CopyOpened(t) \/ DestroyEnter(t) \/ DestroyRecheck(t) \/ DestroyMutex(t)
           \/ SpuriousWakeup(t)
           \/ \E h \in Handles, len \in Lens \cup {BLOCK_SIZE} : ReadStart(t, h, len)
           \/ \E h \in Handles, len \in Lens : WriteStart(t, h, len)
    PROVE  NumbersInv'
<1>0. Shape
  BY DEF NumbersInv, TypesInv, DirInv
<1>1. Moved(t)
  BY <1>0, OpenStartMoves, AddScanMoves, CloseStartMoves, WriteLockMoves, ReadBodyMoves,
     OtherMoves, DestroyMoves, ReadStartMoves, WriteStartMoves
<1>2. pc[t] # "label"
  BY DEF OpenStart, AddScan, CloseStart, WriteLock, ReadBody, CopyOpened, DestroyEnter,
     DestroyRecheck, DestroyMutex, SpuriousWakeup, ReadStart, WriteStart
<1>3. UNCHANGED <<inode_table, freeinode_ts, fs_data, free_blocks>>
  BY DEF OpenStart, AddScan, CloseStart, WriteLock, ReadBody, CopyOpened, DestroyEnter,
     DestroyRecheck, DestroyMutex, SpuriousWakeup, ReadStart, WriteStart, stateVars, fileVars
<1>. QED  BY <1>1, <1>2, <1>3, MovedNumbers

\* CloseEnd keeps the block numbers.
LEMMA CloseEndNumbers ==
    ASSUME NumbersInv, TypesInv', NEW t \in Threads, CloseEnd(t)
    PROVE  NumbersInv'
<1>0. Shape /\ pc[t] = "close"
  BY DEF NumbersInv, TypesInv, DirInv, CloseEnd
<1>1. \A u \in Threads : pc[u] = "label" => pc'[u] = "label" /\ arg'[u].inum = arg[u].inum
  BY <1>0, CloseEndMoves
<1>2. UNCHANGED <<inode_table, freeinode_ts, fs_data, free_blocks>>
  BY DEF CloseEnd, fileVars
<1>. QED  BY <1>1, <1>2, AsideNumbers

\* No table changes and no thread moves.
LEMMA UnchangedNumbers ==
    ASSUME NumbersInv, TypesInv', UNCHANGED <<stateVars, threadVars>>
    PROVE  NumbersInv'
<1>1. UNCHANGED <<inode_table, freeinode_ts, fs_data, free_blocks, pc, arg>>
  BY DEF stateVars, fileVars, threadVars
<1>. QED  BY <1>1, AsideNumbers

\* Every step keeps the invariant.
LEMMA NextNumbers ==
    ASSUME IntsAligned, LabelsCover, NumbersInv, \A t \in Threads : Writes(t), TypesInv',
           [Next]_vars
    PROVE  NumbersInv'
<1>1. CASE UNCHANGED vars
  BY <1>1, UnchangedNumbers DEF vars
<1>2. CASE Next
  BY <1>2, NextCases, OpenExistingNumbers, CreateScanNumbers, OpenLinkNumbers,
     CloseEndNumbers, WriteBlockNumbers, AllocScanNumbers, LabelIndirectNumbers,
     OthersNumbers, TfsInitNumbers, UnchangedNumbers
<1>. QED  BY <1>1, <1>2
=============================================================================
