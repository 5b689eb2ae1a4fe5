-------------------------- MODULE FineReadsProofs --------------------------
(***************************************************************************)
(* Proofs that tfs_read returns what is in the file.                       *)
(*                                                                         *)
(* The first part is about the loop of tfs_read alone: it reads the bytes  *)
(* of the file when the blocks that the size reaches are there.  The rest  *)
(* proves that they are there, for files that fit in their direct blocks,  *)
(* by an invariant about sizes, offsets and the locks of the entries.  The *)
(* same invariant keeps writes away from block numbers and from block 0,   *)
(* which BlocksSafe and DirectorySafe need.                                *)
(***************************************************************************)
EXTENDS FineBlocksProofs

-----------------------------------------------------------------------------
(* tfs_read, when the blocks of the file are there. *)

\* Byte p of file i, counted from 0.
ByteAt(i, p) ==
    LET b == BlockNumber(i, p \div BLOCK_SIZE) IN
    IF b \in Blocks THEN fs_data[CellOf(b, p)] ELSE Blank

\* The bytes of file i from off to upto - 1.
BytesFrom(i, off, upto) == [j \in 1 .. upto - off |-> ByteAt(i, (off + j) - 1)]

\* Every byte of file i from off to upto - 1 has its block.
BlocksThere(i, off, upto) ==
    \A p \in off .. upto - 1 : BlockNumber(i, p \div BLOCK_SIZE) \in Blocks

\* A piece that stays inside its block is the file's bytes.
LEMMA PieceReads ==
    ASSUME NEW i, NEW k \in Nat, NEW off \in Nat, NEW upto \in Nat, off <= upto,
           BLOCK_SIZE * k <= off, upto <= (BLOCK_SIZE * k) + BLOCK_SIZE,
           off < (BLOCK_SIZE * k) + BLOCK_SIZE,
           BlockNumber(i, k) \in Blocks
    PROVE  CellsFrom(BlockNumber(i, k), off, upto - off) = BytesFrom(i, off, upto)
<1>0. PICK m \in Nat : m = upto - off
  OBVIOUS
<1>1. BLOCK_SIZE \in Nat \ {0}
  BY FineSizesAssumption
<1>2. PICK x \in Nat : x = BLOCK_SIZE * k
  BY <1>1, TimesNat
<1>3. PICK b \in Blocks : b = BlockNumber(i, k)
  OBVIOUS
<1>4. PICK y \in Int : y = b * BLOCK_SIZE
  BY <1>1, FineSizesAssumption DEF Blocks
<1>5. off % BLOCK_SIZE = off - x
  BY <1>1, <1>2, DivWithin
<1>6. ASSUME NEW j \in 1 .. m
      PROVE  /\ CellOf(b, off) + j - 1 \in Cells
             /\ ByteAt(i, (off + j) - 1) = fs_data[CellOf(b, off) + j - 1]
  <2>1. PICK p \in Nat : p = (off + j) - 1
    OBVIOUS
  <2>2. x <= p /\ p < x + BLOCK_SIZE
    BY <1>0, <1>1, <1>2, <2>1
  <2>3. p \div BLOCK_SIZE = k /\ p % BLOCK_SIZE = p - x
    BY <1>1, <1>2, <2>2, DivWithin
  <2>4. CellOf(b, p) = y + (p - x) /\ CellOf(b, off) = y + (off - x)
    BY <1>4, <1>5, <2>3 DEF CellOf
  <2>5. CellOf(b, off) + j - 1 = CellOf(b, p)
    BY <2>1, <2>4
  <2>6. p - x \in 0 .. BLOCK_SIZE - 1
    BY <1>1, <2>2
  <2>7. CellOf(b, p) \in Cells
    BY <1>4, <2>4, <2>6, CellExists
  <2>8. ByteAt(i, p) = fs_data[CellOf(b, p)]
    BY <1>3, <2>3 DEF ByteAt
  <2>. QED  BY <2>1, <2>5, <2>7, <2>8
<1>7. /\ CellsFrom(b, off, m) = [j \in 1 .. m |-> CellsFrom(b, off, m)[j]]
      /\ \A j \in 1 .. m : CellOf(b, off) + j - 1 \in Cells =>
            CellsFrom(b, off, m)[j] = fs_data[CellOf(b, off) + j - 1]
  <2>. DEFINE at == CellOf(b, off)
              g == [j \in 1 .. m |-> IF at + j - 1 \in Cells THEN fs_data[at + j - 1]
                                     ELSE Blank]
  <2>1. CellsFrom(b, off, m) = g
    BY DEF CellsFrom
  <2>2. g = [j \in 1 .. m |-> g[j]]
    OBVIOUS
  <2>3. \A j \in 1 .. m : at + j - 1 \in Cells => g[j] = fs_data[at + j - 1]
    OBVIOUS
  <2>. HIDE DEF g
  <2>. QED  BY <2>1, <2>2, <2>3
<1>8. /\ BytesFrom(i, off, upto) = [j \in 1 .. m |-> BytesFrom(i, off, upto)[j]]
      /\ \A j \in 1 .. m : BytesFrom(i, off, upto)[j] = ByteAt(i, (off + j) - 1)
  BY <1>0 DEF BytesFrom
<1>9. \A j \in 1 .. m : CellsFrom(b, off, m)[j] = BytesFrom(i, off, upto)[j]
  BY <1>6, <1>7, <1>8
<1>. QED  BY <1>0, <1>3, <1>7, <1>8, <1>9

\* Concatenation, by a name that can be left unexpanded.
Joined(s, t) == s \o t

\* Two stretches of a file that meet.
LEMMA BytesJoin ==
    ASSUME NEW i, NEW x \in Nat, NEW y \in Nat, NEW z \in Nat, x <= y, y <= z
    PROVE  Joined(BytesFrom(i, x, y), BytesFrom(i, y, z)) = BytesFrom(i, x, z)
<1>. DEFINE f == [p \in Nat |-> ByteAt(i, p)]
<1>1. \A o \in Nat, u \in Nat : BytesFrom(i, o, u) = [j \in 1 .. u - o |-> f[(o + j) - 1]]
  BY DEF BytesFrom
<1>. HIDE DEF f
<1>2. PICK a \in Nat, b \in Nat : y - x = a /\ z - y = b /\ z - x = a + b
  OBVIOUS
<1>3. Joined([j \in 1 .. a |-> f[(x + j) - 1]], [j \in 1 .. b |-> f[(y + j) - 1]])
        = [j \in 1 .. a + b |-> f[(x + j) - 1]]
  BY <1>2 DEF Joined
<1>4. /\ BytesFrom(i, x, y) = [j \in 1 .. y - x |-> f[(x + j) - 1]]
      /\ BytesFrom(i, y, z) = [j \in 1 .. z - y |-> f[(y + j) - 1]]
      /\ BytesFrom(i, x, z) = [j \in 1 .. z - x |-> f[(x + j) - 1]]
  BY <1>1, Zenon
<1>. QED  BY <1>2, <1>3, <1>4, Zenon

\* Where the loop is before block k: at the end of the transfer, or in block k.
ReadUpto(r, i, off, n, k) ==
    \E o \in Nat :
        /\ off <= o /\ o <= off + n
        /\ o = off + n \/ (BLOCK_SIZE * k <= o /\ o < (BLOCK_SIZE * k) + BLOCK_SIZE)
        /\ r = [off |-> o, left |-> (off + n) - o, ok |-> TRUE,
                got |-> BytesFrom(i, off, o)]

\* One more round of the loop.
LEMMA ReadBlockStep ==
    ASSUME NEW i, NEW off \in Nat, NEW n \in Nat, NEW end \in Nat, NEW k \in Nat,
           k < end, off + n <= BLOCK_SIZE * end, BlocksThere(i, off, off + n),
           NEW r, ReadUpto(r, i, off, n, k)
    PROVE  ReadUpto(ReadBlock(i, k, end, r), i, off, n, k + 1)
<1>1. BLOCK_SIZE \in Nat \ {0}
  BY FineSizesAssumption
<1>2. PICK x \in Nat : x = BLOCK_SIZE * k
  BY <1>1, TimesNat
<1>3. BLOCK_SIZE * (k + 1) = x + BLOCK_SIZE
  BY <1>1, <1>2, TimesNext
<1>4. PICK o \in Nat :
        /\ off <= o /\ o <= off + n
        /\ o = off + n \/ (x <= o /\ o < x + BLOCK_SIZE)
        /\ r = [off |-> o, left |-> (off + n) - o, ok |-> TRUE,
                got |-> BytesFrom(i, off, o)]
  BY <1>2 DEF ReadUpto
<1>5. r.off = o /\ r.left = (off + n) - o /\ r.ok /\ r.got = BytesFrom(i, off, o)
  BY <1>4
<1>6. CASE o = off + n
  <2>1. r.left = 0
    BY <1>5, <1>6
  <2>2. ReadBlock(i, k, end, r) = r
    BY <2>1 DEF ReadBlock
  <2>. QED  BY <1>4, <1>6, <2>2 DEF ReadUpto
<1>7. CASE o # off + n
  <2>1. x <= o /\ o < x + BLOCK_SIZE /\ o < off + n
    BY <1>4, <1>7
  <2>2. o \div BLOCK_SIZE = k
    BY <1>1, <1>2, <2>1, DivWithin
  <2>3. o \in off .. (off + n) - 1
    BY <1>4, <2>1
  <2>4. BlockNumber(i, k) \in Blocks
    BY <2>2, <2>3 DEF BlocksThere
  <2>5. PICK left \in Nat : left = (off + n) - o
    BY <1>4
  <2>. DEFINE m == Piece(k, end, o, left)
  <2>6. /\ o + left <= x + BLOCK_SIZE => m = left
        /\ o + left > x + BLOCK_SIZE => m = (x + BLOCK_SIZE) - o
    <3>1. o + left <= BLOCK_SIZE * end
      BY <1>4, <2>5
    <3>. QED  BY <1>2, <2>1, <3>1, PieceFits
  <2>. HIDE DEF m
  <2>7. /\ m \in Nat /\ o + m <= off + n /\ o + m <= x + BLOCK_SIZE
        /\ o + m = off + n \/ o + m = x + BLOCK_SIZE
    BY <1>1, <1>4, <2>1, <2>5, <2>6
  <2>8. PICK u \in Nat : u = o + m /\ m = u - o
    BY <2>7
  <2>9. CellsFrom(BlockNumber(i, k), o, u - o) = BytesFrom(i, o, u)
    BY <1>2, <2>1, <2>4, <2>7, <2>8, PieceReads
  <2>10. Joined(BytesFrom(i, off, o), BytesFrom(i, o, u)) = BytesFrom(i, off, u)
    BY <1>4, <2>7, <2>8, BytesJoin
  <2>11. ReadBlock(i, k, end, r)
           = [off |-> o + m, left |-> left - m, ok |-> TRUE,
              got |-> Joined(BytesFrom(i, off, o), CellsFrom(BlockNumber(i, k), o, m))]
    <3>1. r.left # 0 /\ r.left = left
      BY <1>4, <1>5, <2>1, <2>5
    <3>. QED  BY <1>5, <2>4, <3>1 DEF ReadBlock, Joined, m
  <2>12. left - m = (off + n) - u
    BY <2>5, <2>7, <2>8
  <2>13. ReadBlock(i, k, end, r)
           = [off |-> u, left |-> (off + n) - u, ok |-> TRUE,
              got |-> BytesFrom(i, off, u)]
    BY <2>8, <2>9, <2>10, <2>11, <2>12
  <2>14. /\ off <= u /\ u <= off + n
         /\ u = off + n \/ (BLOCK_SIZE * (k + 1) <= u
                             /\ u < (BLOCK_SIZE * (k + 1)) + BLOCK_SIZE)
    BY <1>1, <1>3, <1>4, <2>7, <2>8
  <2>. QED  BY <2>13, <2>14 DEF ReadUpto
<1>. QED  BY <1>6, <1>7

\* The loop reads what was asked for.
LEMMA ReadingComplete ==
    ASSUME NEW i, NEW off \in Nat, NEW n \in Nat,
           n % BLOCK_SIZE # 0 \/ off % BLOCK_SIZE = 0,
           BlocksThere(i, off, off + n)
    PROVE  Reading(i, off, n) = [off |-> off + n, left |-> 0, ok |-> TRUE,
                                 got |-> BytesFrom(i, off, off + n)]
<1>. DEFINE first == FirstBlock(off)
            end == EndBlock(off, n)
<1>0. first \in Nat /\ end \in Nat /\ first <= end
  BY LoopBlocks
<1>1. PICK f : IsRun(f, i, off, n, end) /\ Reading(i, off, n) = f[end]
  BY <1>0, ReadingRuns
<1>2. BLOCK_SIZE \in Nat \ {0}
  BY FineSizesAssumption
<1>3. off + n <= BLOCK_SIZE * end
  BY <1>2, EndReached DEF EndBlock
<1>4. BLOCK_SIZE * first <= off /\ off < (BLOCK_SIZE * first) + BLOCK_SIZE
  <2>1. PICK q \in Nat, r \in 0 .. BLOCK_SIZE - 1 : q = first /\ off = (BLOCK_SIZE * q) + r
    BY <1>2, DivMod DEF FirstBlock
  <2>2. BLOCK_SIZE * q \in Nat
    BY <1>2, TimesNat
  <2>. QED  BY <1>2, <2>1, <2>2
<1>. DEFINE T == {m \in Nat : first + m <= end => ReadUpto(f[first + m], i, off, n, first + m)}
<1>. HIDE DEF first, end
<1>5. 0 \in T
  <2>1. f[first] = ReadFrom(off, n)
    BY <1>0, <1>1 DEF IsRun, first
  <2>2. BytesFrom(i, off, off) = <<>>
    <3>1. off - off = 0 /\ 1 .. 0 = {}
      OBVIOUS
    <3>. QED  BY <3>1 DEF BytesFrom
  <2>3. ReadFrom(off, n) = [off |-> off, left |-> (off + n) - off, ok |-> TRUE,
                            got |-> BytesFrom(i, off, off)]
    <3>1. (off + n) - off = n
      OBVIOUS
    <3>. QED  BY <2>2, <3>1 DEF ReadFrom
  <2>4. ReadUpto(f[first], i, off, n, first)
    <3>1. off <= off /\ off <= off + n
      OBVIOUS
    <3>2. f[first] = [off |-> off, left |-> (off + n) - off, ok |-> TRUE,
                      got |-> BytesFrom(i, off, off)]
      BY <2>1, <2>3
    <3>. HIDE <2>3
    <3>. QED  BY <1>4, <3>1, <3>2, Zenon DEF ReadUpto, first
  <2>5. first + 0 = first
    BY <1>0
  <2>. QED  BY <2>4, <2>5
<1>6. ASSUME NEW m \in Nat, m \in T
      PROVE  m + 1 \in T
  <2>1. SUFFICES ASSUME first + (m + 1) <= end
                 PROVE  ReadUpto(f[first + (m + 1)], i, off, n, first + (m + 1))
    OBVIOUS
  <2>2. PICK k \in Nat : k = first + m
    BY <1>0
  <2>3. /\ first + (m + 1) = k + 1 /\ k + 1 \in first .. end /\ k + 1 # first
        /\ (k + 1) - 1 = k /\ k < end
    BY <1>0, <2>1, <2>2
  <2>4. f[k + 1] = ReadBlock(i, k, end, f[k])
    BY <1>1, <2>3 DEF IsRun, first, end
  <2>5. ReadUpto(f[k], i, off, n, k)
    BY <1>0, <1>6, <2>1, <2>2
  <2>6. ReadUpto(ReadBlock(i, k, end, f[k]), i, off, n, k + 1)
    BY <1>0, <1>3, <2>3, <2>5, ReadBlockStep
  <2>. QED  BY <2>3, <2>4, <2>6
<1>7. Nat \subseteq T
  <2>. HIDE DEF T
  <2>. QED  BY <1>5, <1>6, Induction
<1>8. end - first \in Nat /\ first + (end - first) = end
  BY <1>0
<1>9. ReadUpto(f[end], i, off, n, end)
  <2>1. end - first \in T
    BY <1>7, <1>8
  <2>. QED  BY <1>0, <1>8, <2>1
<1>10. PICK o \in Nat :
        /\ o <= off + n
        /\ o = off + n \/ BLOCK_SIZE * end <= o
        /\ f[end] = [off |-> o, left |-> (off + n) - o, ok |-> TRUE,
                     got |-> BytesFrom(i, off, o)]
  BY <1>9 DEF ReadUpto
<1>11. BLOCK_SIZE * end \in Nat
  BY <1>0, <1>2, TimesNat
<1>12. o = off + n /\ (off + n) - o = 0
  BY <1>3, <1>10, <1>11
<1>. QED  BY <1>1, <1>10, <1>12 DEF end

-----------------------------------------------------------------------------
\* The size of every i-node is a number.
SizeTypes == \A i \in Inums : inode_table[i].i_size \in Nat

\* Every block that a file's size reaches is there.
Complete ==
    \A i \in Files : \A k \in Nat :
        BLOCK_SIZE * k < inode_table[i].i_size => BlockNumber(i, k) \in Blocks

\* A read of a file never asks for more than is left of it.
LEMMA ReadLenWithin ==
    ASSUME NEW size \in Nat, NEW off \in Nat, off < size, NEW len \in Nat
    PROVE  /\ ReadLen(size, off, len) \in Nat
           /\ off + ReadLen(size, off, len) <= size
<1>1. SIZE_T \in Nat \ {0}
  BY FineSizesAssumption
<1>2. PICK a \in Nat : a = size - off
  OBVIOUS
<1>3. a % SIZE_T \in 0 .. SIZE_T - 1 /\ a % SIZE_T <= a
  BY <1>1
<1>. QED  BY <1>1, <1>2, <1>3 DEF ReadLen

\* The blocks of the bytes below the size are there.
LEMMA CompleteThere ==
    ASSUME SizeTypes, Complete, NEW i \in Files, NEW off \in Nat, NEW upto \in Nat,
           upto <= inode_table[i].i_size
    PROVE  BlocksThere(i, off, upto)
<1>1. inode_table[i].i_size \in Nat
  BY DEF SizeTypes, Files
<1>2. BLOCK_SIZE \in Nat \ {0}
  BY FineSizesAssumption
<1>3. ASSUME NEW p \in off .. upto - 1
      PROVE  BlockNumber(i, p \div BLOCK_SIZE) \in Blocks
  <2>1. PICK q \in Nat, r \in 0 .. BLOCK_SIZE - 1 :
          q = p \div BLOCK_SIZE /\ p = (BLOCK_SIZE * q) + r
    <3>1. p \in Nat
      OBVIOUS
    <3>. QED  BY <1>2, <3>1, DivMod
  <2>2. BLOCK_SIZE * q \in Nat
    BY <1>2, TimesNat
  <2>3. BLOCK_SIZE * q < inode_table[i].i_size
    BY <1>1, <2>1, <2>2
  <2>. QED  BY <2>1, <2>3 DEF Complete
<1>. QED  BY <1>3 DEF BlocksThere

\* The part of BytesOf that a read is to return.
LEMMA BytesPart ==
    ASSUME SizeTypes, NEW i \in Files, NEW off \in Nat, NEW upto \in Nat,
           off <= upto, upto <= inode_table[i].i_size
    PROVE  SubSeq(BytesOf(i), off + 1, upto) = BytesFrom(i, off, upto)
<1>1. PICK size \in Nat : size = inode_table[i].i_size
  BY DEF SizeTypes, Files
<1>. DEFINE f == [p \in Nat |-> ByteAt(i, p)]
            S == {f[p] : p \in Nat}
<1>2. BytesOf(i) = [k \in 1 .. size |-> f[k - 1]]
  BY <1>1 DEF BytesOf, ByteAt
<1>3. BytesFrom(i, off, upto) = [j \in 1 .. upto - off |-> f[(off + j) - 1]]
  BY DEF BytesFrom
<1>4. \A p \in Nat : f[p] \in S
  OBVIOUS
<1>. HIDE DEF f, S
<1>5. \A j \in off + 1 .. upto : BytesOf(i)[j] \in S
  BY <1>1, <1>2, <1>4
<1>6. PICK lo \in Int, m \in Nat : lo = off + 1 /\ m = upto - off /\ (upto - lo) + 1 = m
  OBVIOUS
<1>7. /\ SubSeq(BytesOf(i), lo, upto) \in Seq(S)
      /\ Len(SubSeq(BytesOf(i), lo, upto)) = m
      /\ \A j \in 1 .. m : SubSeq(BytesOf(i), lo, upto)[j] = BytesOf(i)[lo + j - 1]
  <2>1. \A j \in lo .. upto : BytesOf(i)[j] \in S
    BY <1>5, <1>6
  <2>2. PICK s : s = BytesOf(i)
    OBVIOUS
  <2>3. upto \in Int /\ \A j \in lo .. upto : s[j] \in S
    BY <2>1, <2>2
  <2>4. /\ SubSeq(s, lo, upto) \in Seq(S)
        /\ Len(SubSeq(s, lo, upto)) = IF lo <= upto THEN upto - lo + 1 ELSE 0
        /\ \A j \in 1 .. upto - lo + 1 : SubSeq(s, lo, upto)[j] = s[lo + j - 1]
    BY ONLY <2>3, lo \in Int, SubSeqProperties, Z3
  <2>5. Len(SubSeq(s, lo, upto)) = m
    BY <1>6, <2>4
  <2>. QED  BY <1>6, <2>2, <2>4, <2>5
<1>8. ASSUME NEW j \in 1 .. m
      PROVE  SubSeq(BytesOf(i), lo, upto)[j] = f[(off + j) - 1]
  <2>1. lo + j - 1 \in 1 .. size /\ (lo + j - 1) - 1 = (off + j) - 1
    BY <1>1, <1>6
  <2>. QED  BY <1>2, <1>7, <2>1
<1>9. SubSeq(BytesOf(i), lo, upto) = [j \in 1 .. m |-> SubSeq(BytesOf(i), lo, upto)[j]]
  BY <1>7
<1>. QED  BY <1>3, <1>6, <1>8, <1>9

\* tfs_read copies what a file holds, for every size of a block, of an int and
\* of a transfer, through direct and indirect blocks, whenever the blocks that
\* the file's size reaches are there.
THEOREM CompleteReadsBack ==
    ASSUME SizeTypes, Complete
    PROVE  ReadsBack
<1>. SUFFICES ASSUME NEW i \in Files,
                     NEW off \in 0 .. inode_table[i].i_size - 1, NEW len \in Lens \ {0},
                     NEW n, n = ReadLen(inode_table[i].i_size, off, len),
                     n % BLOCK_SIZE # 0 \/ off % BLOCK_SIZE = 0
              PROVE  Reading(i, off, n) =
                       [off |-> off + n, left |-> 0, ok |-> TRUE,
                        got |-> SubSeq(BytesOf(i), off + 1, off + n)]
  BY DEF ReadsBack
<1>1. inode_table[i].i_size \in Nat /\ off \in Nat /\ off < inode_table[i].i_size
  BY DEF SizeTypes, Files
<1>2. len \in Nat
  BY FineCallsAssumption
<1>3. n \in Nat /\ off + n <= inode_table[i].i_size
  BY <1>1, <1>2, ReadLenWithin
<1>4. PICK upto \in Nat : upto = off + n
  BY <1>1, <1>3
<1>5. off <= upto /\ upto <= inode_table[i].i_size
  BY <1>1, <1>3, <1>4
<1>6. BlocksThere(i, off, off + n)
  BY <1>1, <1>4, <1>5, CompleteThere
<1>7. Reading(i, off, n) = [off |-> off + n, left |-> 0, ok |-> TRUE,
                            got |-> BytesFrom(i, off, off + n)]
  BY <1>1, <1>3, <1>6, ReadingComplete
<1>8. SubSeq(BytesOf(i), off + 1, upto) = BytesFrom(i, off, upto)
  BY <1>1, <1>5, BytesPart
<1>. QED  BY <1>4, <1>7, <1>8

-----------------------------------------------------------------------------

\* A directory entry leads to file i.
Linked(i) == \E s \in LinkedSlots : root_dir[s].d_inumber = i

\* Where a thread holds an entry's lock.
Busy == {"lock", "write", "alloc", "label", "read"}

\* The direct blocks that the size of file i reaches are there, unless callers
\* truncate where tfs_open stops half-way.
Filled(i) == ~HalfTrunc => \A k \in Direct :
    BLOCK_SIZE * k < inode_table[i].i_size => inode_table[i].i_data_block[k] \in Blocks

\* The handle's file is there and the offset is inside it.
EntryFits(h) ==
    /\ Linked(open_file_table[h].of_inumber)
    /\ open_file_table[h].of_offset <= inode_table[open_file_table[h].of_inumber].i_size

\* The locks of the entries.
EntryLockType ==
    entry_lock \in [Handles -> [writer : Threads \cup {NoThread}, readers : SUBSET Threads]]

\* A thread that opens a file that is there.
Adding(t) ==
    /\ pc[t] \in {"found", "add"} =>
          \E s \in Named(arg[t].name) : root_dir[s].d_inumber = arg[t].inum
    /\ pc[t] \in {"create", "link"} => arg[t].offset = 0
    /\ pc[t] = "add" => arg[t].offset <= inode_table[arg[t].inum].i_size

\* A thread that is to truncate a file is alone with it.
Unopened(i) ==
    /\ \A h \in TakenEntries : open_file_table[h].of_inumber # i
    /\ \A u \in Threads : pc[u] = "add" => arg[u].inum # i

\* Nobody has the file open that a thread is about to truncate, and the thread
\* will not stop half-way, unless callers do not see to that.
Truncates(t) ==
    pc[t] = "found" /\ "TRUNC" \in arg[t].flags =>
        /\ HalfTrunc \/ ~TruncFails(arg[t].inum)
        /\ Unopened(arg[t].inum)

\* A thread that reads or writes has locked its entry.
HasEntry(t) ==
    pc[t] \in Busy =>
        /\ arg[t].inum = open_file_table[arg[t].fh].of_inumber
        /\ entry_lock[arg[t].fh].writer = t

\* The offset of a thread that writes is in the block that it writes next.
Cursor(t) ==
    LET off == open_file_table[arg[t].fh].of_offset
        left == arg[t].left
        k == arg[t].blk
        end == arg[t].end
    IN  /\ pc[t] = "lock" => left % BLOCK_SIZE # 0 \/ off % BLOCK_SIZE = 0
        /\ pc[t] \in Writing =>
              /\ BLOCK_SIZE * k <= off /\ off < (BLOCK_SIZE * k) + BLOCK_SIZE
              /\ k < end /\ off + left <= BLOCK_SIZE * end

\* What is known of a thread, by where it is.
Step(t) == Adding(t) /\ Truncates(t) /\ HasEntry(t) /\ Cursor(t)

\* The invariant about sizes and offsets.
SizesInv ==
    /\ HandleInv /\ TypesInv /\ EntryLockType
    /\ \A i \in Files : Filled(i)
    /\ \A h \in TakenEntries : EntryFits(h)
    /\ \A t \in Threads : Step(t)

-----------------------------------------------------------------------------

\* The invariant holds at first.
LEMMA InitSizes == Init => SizesInv
<1>. SUFFICES ASSUME Init PROVE SizesInv
  OBVIOUS
<1>1. Files = {} /\ TakenEntries = {}
  BY DEF Init, StateInit, Files, TakenEntries, FREE, TAKEN
<1>2. EntryLockType
  BY DEF Init, EntryLockType, Unlocked
<1>3. \A t \in Threads : Step(t)
  BY DEF Init, Step, Adding, Truncates, HasEntry, Cursor, Busy, Writing
<1>. QED  BY <1>1, <1>2, <1>3, InitTypes, InitHandles DEF SizesInv

\* What the invariant says, part by part.
LEMMA SizesFacts ==
    ASSUME SizesInv
    PROVE  /\ Shape /\ DirInv /\ HandleInv /\ TypesInv
           /\ inode_table \in [Inums -> Inode]
           /\ open_file_table \in [Handles -> [of_inumber : Inums, of_offset : Nat]]
           /\ \A i \in Inums : inode_table[i].i_size \in Nat
           /\ \A h \in Handles : open_file_table[h].of_inumber \in Inums
                                 /\ open_file_table[h].of_offset \in Nat
           /\ free_open_file_entries \in [Handles -> {FREE, TAKEN}]
           /\ \A t \in Threads : Locals(t) /\ Local(t) /\ IsArg(arg[t])
BY DEF SizesInv, TypesInv, TableTypes, Inode, DirInv, HandleInv, EntryTypes, Shape

\* What the directory leads to is a file.
LEMMA LinkedFile ==
    ASSUME DirInv, NEW i, Linked(i)
    PROVE  i \in Files /\ i \in Inums
BY DEF Linked, DirInv, DirectoryConsistent, Files

\* Whether truncation fails depends on the i-node alone.
LEMMA TruncFailsSame ==
    ASSUME NEW i \in Inums, inode_table'[i] = inode_table[i]
    PROVE  TruncFails(i)' <=> TruncFails(i)
<1>1. BlocksToFree(i)' = BlocksToFree(i) /\ DirectFreed(i)' = DirectFreed(i)
      /\ HasIndirect(i)' = HasIndirect(i)
  BY DEF BlocksToFree, DirectFreed, HasIndirect
<1>. QED  BY <1>1 DEF TruncFails

\* The invariant after a step of thread t.
LEMMA SizesStep ==
    ASSUME SizesInv, HandleInv', TypesInv', EntryLockType', NEW t \in Threads,
           \A i \in Files' : Filled(i)',
           \A h \in TakenEntries' : EntryFits(h)',
           Step(t)', \A u \in Threads \ {t} : Step(u)'
    PROVE  SizesInv'
BY DEF SizesInv

\* The steps that change no table but locks, and no file.
LEMMA QuietTables ==
    ASSUME SizesInv, UNCHANGED <<inode_table, root_dir, open_file_table>>,
           Files' \subseteq Files, TakenEntries' \subseteq TakenEntries
    PROVE  /\ \A i \in Files' : Filled(i)'
           /\ \A h \in TakenEntries' : EntryFits(h)'
<1>1. LinkedSlots' = LinkedSlots
  BY DEF LinkedSlots
<1>. QED  BY <1>1 DEF SizesInv, Filled, EntryFits, Linked

\* A thread other than the one that moves, when no file changes.
LEMMA QuietOther ==
    ASSUME SizesInv, NEW u \in Threads, arg'[u] = arg[u],
           pc'[u] = pc[u] \/ pc'[u] \in {"idle", "woken", "wait"},
           UNCHANGED <<inode_table, root_dir, open_file_table>>,
           TakenEntries' \subseteq TakenEntries,
           \A v \in Threads : pc'[v] = "add" => pc[v] = "add" /\ arg'[v].inum = arg[v].inum,
           pc[u] \in Busy => entry_lock'[arg[u].fh].writer = u
    PROVE  Step(u)'
<1>0. Step(u) /\ arg[u].inum \in Inums
  BY SizesFacts DEF SizesInv, Locals
<1>1. Adding(u)'
  BY <1>0 DEF Step, Adding, Named
<1>2. Truncates(u)'
  BY <1>0, TruncFailsSame DEF Step, Truncates, Unopened
<1>3. HasEntry(u)'
  BY <1>0 DEF Step, HasEntry, Busy
<1>4. Cursor(u)'
  BY <1>0 DEF Step, Cursor, Writing
<1>. QED  BY <1>1, <1>2, <1>3, <1>4 DEF Step

\* A thread moves, and no file changes.
LEMMA QuietStep ==
    ASSUME SizesInv, HandleInv', TypesInv', EntryLockType', NEW t \in Threads, Moved(t),
           UNCHANGED <<inode_table, freeinode_ts, root_dir, open_file_table,
                       free_open_file_entries>>,
           pc'[t] = "add" => pc[t] = "add" /\ arg'[t].inum = arg[t].inum,
           \A u \in Threads \ {t} : pc[u] \in Busy => entry_lock'[arg[u].fh].writer = u,
           Step(t)'
    PROVE  SizesInv'
<1>1. TakenEntries' = TakenEntries
  BY DEF TakenEntries
<1>2. \A v \in Threads : pc'[v] = "add" => pc[v] = "add" /\ arg'[v].inum = arg[v].inum
  BY DEF Moved
<1>3. \A u \in Threads \ {t} : Step(u)'
  BY <1>1, <1>2, QuietOther DEF Moved
<1>4. Files' = Files
  BY DEF Files
<1>. QED  BY <1>1, <1>3, <1>4, QuietTables, SizesStep

\* A thread that is at none of the places the invariant speaks of.
Calm(t) == pc[t] \notin Busy \cup Opens \cup {"add"}

\* Nothing is asked of a thread that holds no entry's lock and opens nothing.
LEMMA CalmStep == ASSUME NEW t \in Threads, Calm(t)' PROVE Step(t)'
BY DEF Calm, Step, Adding, Truncates, HasEntry, Cursor, Busy, Writing, Opens

\* Two threads never have one entry locked.
LEMMA EntryAlone ==
    ASSUME SizesInv, NEW t \in Threads, NEW u \in Threads, pc[t] \in Busy, pc[u] \in Busy,
           arg[t].fh = arg[u].fh
    PROVE  t = u
BY DEF SizesInv, Step, HasEntry

\* A thread that reads or writes uses an open handle.
LEMMA BusyTaken ==
    ASSUME SizesInv, NEW t \in Threads, pc[t] \in Busy
    PROVE  arg[t].fh \in TakenEntries /\ arg[t].fh \in Handles
BY SizesFacts DEF Local, InHandleCall, Busy, TakenEntries

-----------------------------------------------------------------------------
(* The entries' locks. *)

\* A thread locks an entry.
LEMMA EntryLocked ==
    ASSUME SizesInv, NEW t \in Threads, NEW h \in Handles, EntryFree(h),
           entry_lock' = [entry_lock EXCEPT ![h].writer = t]
    PROVE  /\ EntryLockType' /\ entry_lock'[h].writer = t
           /\ \A u \in Threads \ {t} : pc[u] \in Busy => entry_lock'[arg[u].fh].writer = u
<1>1. EntryLockType
  BY DEF SizesInv
<1>2. entry_lock[h].writer = NoThread
  BY DEF EntryFree, Unlocked
<1>3. \A u \in Threads : pc[u] \in Busy => entry_lock[arg[u].fh].writer = u /\ arg[u].fh \in Handles
  BY BusyTaken DEF SizesInv, Step, HasEntry
<1>4. \A u \in Threads : u # NoThread
  BY FineCallsAssumption
<1>. QED  BY <1>1, <1>2, <1>3, <1>4 DEF EntryLockType

\* A thread gives an entry's lock back.
LEMMA EntryUnlocked ==
    ASSUME SizesInv, NEW t \in Threads, pc[t] \in Busy,
           entry_lock' = [entry_lock EXCEPT ![arg[t].fh].writer = NoThread]
    PROVE  /\ EntryLockType'
           /\ \A u \in Threads \ {t} : pc[u] \in Busy => entry_lock'[arg[u].fh].writer = u
<1>1. EntryLockType
  BY DEF SizesInv
<1>2. \A u \in Threads : pc[u] \in Busy => entry_lock[arg[u].fh].writer = u /\ arg[u].fh \in Handles
  BY BusyTaken DEF SizesInv, Step, HasEntry
<1>3. \A u \in Threads \ {t} : pc[u] \in Busy => arg[u].fh # arg[t].fh
  BY EntryAlone
<1>. QED  BY <1>1, <1>2, <1>3 DEF EntryLockType

\* No entry's lock is touched.
LEMMA EntryKept ==
    ASSUME SizesInv, UNCHANGED entry_lock
    PROVE  /\ EntryLockType'
           /\ \A u \in Threads : pc[u] \in Busy => entry_lock'[arg[u].fh].writer = u
BY DEF SizesInv, EntryLockType, Step, HasEntry

-----------------------------------------------------------------------------
(* The steps that change no file. *)

\* A thread moves to where nothing is asked of it, and no file changes.
LEMMA CalmQuiet ==
    ASSUME SizesInv, HandleInv', TypesInv', NEW t \in Threads, Moved(t), Calm(t)',
           UNCHANGED <<inode_table, freeinode_ts, root_dir, open_file_table,
                       free_open_file_entries>>,
           EntryLockType',
           \A u \in Threads \ {t} : pc[u] \in Busy => entry_lock'[arg[u].fh].writer = u
    PROVE  SizesInv'
<1>1. pc'[t] # "add" /\ Step(t)'
  BY CalmStep DEF Calm
<1>. QED  BY <1>1, QuietStep

\* CloseStart keeps the sizes.
LEMMA CloseStartSizes ==
    ASSUME SizesInv, HandleInv', TypesInv', NEW t \in Threads, CloseStart(t)
    PROVE  SizesInv'
<1>1. Shape
  BY SizesFacts
<1>2. Moved(t) /\ Calm(t)'
  BY <1>1, CloseStartMoves DEF Calm, Busy, Opens
<1>3. PICK h \in Handles : entry_lock' = [entry_lock EXCEPT ![h].readers = @ \cup {t}]
  BY DEF CloseStart
<1>4. EntryLockType /\ \A u \in Threads : pc[u] \in Busy =>
          entry_lock[arg[u].fh].writer = u /\ arg[u].fh \in Handles
  BY BusyTaken DEF SizesInv, Step, HasEntry
<1>5. EntryLockType'
  BY <1>3, <1>4 DEF EntryLockType
<1>6. \A u \in Threads \ {t} : pc[u] \in Busy => entry_lock'[arg[u].fh].writer = u
  BY <1>3, <1>4 DEF EntryLockType
<1>. QED  BY <1>2, <1>5, <1>6, CalmQuiet DEF CloseStart, stateVars, fileVars, entryVars

\* The steps that touch no file.
LEMMA AsideSizes ==
    ASSUME SizesInv, HandleInv', TypesInv', NEW t \in Threads,
           \/ CopyOpened(t) \/ DestroyEnter(t) \/ DestroyRecheck(t)
           \/ DestroyMutex(t) \/ SpuriousWakeup(t)
    PROVE  SizesInv'
<1>1. Shape
  BY SizesFacts
<1>2. Moved(t) /\ Calm(t)'
  BY <1>1, OtherMoves, DestroyMoves DEF Calm, Busy, Opens
<1>3. UNCHANGED <<stateVars, entry_lock>>
  BY DEF CopyOpened, DestroyEnter, DestroyRecheck, DestroyMutex, SpuriousWakeup, lockVars
<1>. QED  BY <1>2, <1>3, EntryKept, CalmQuiet DEF stateVars, fileVars, entryVars

\* CloseEnd keeps the sizes.
LEMMA CloseEndSizes ==
    ASSUME SizesInv, HandleInv', TypesInv', NEW t \in Threads, CloseEnd(t)
    PROVE  SizesInv'
<1>0. Shape /\ pc[t] = "close"
  BY SizesFacts DEF CloseEnd
<1>1. /\ pc'[t] = "idle"
      /\ \A u \in Threads \ {t} :
            arg'[u] = arg[u] /\ (pc'[u] = pc[u] \/ (pc[u] = "wait" /\ pc'[u] = "woken"))
  BY <1>0, CloseEndMoves
<1>2. UNCHANGED <<inode_table, freeinode_ts, root_dir, open_file_table>>
  BY DEF CloseEnd, fileVars
<1>3. TakenEntries' \subseteq TakenEntries
  BY SizesFacts DEF CloseEnd, TakenEntries, FREE, TAKEN
<1>4. EntryLockType /\ \A u \in Threads : pc[u] \in Busy =>
          entry_lock[arg[u].fh].writer = u /\ arg[u].fh \in Handles
  BY BusyTaken DEF SizesInv, Step, HasEntry
<1>5. /\ EntryLockType'
      /\ \A u \in Threads : pc[u] \in Busy => entry_lock'[arg[u].fh].writer = u
  <2>1. PICK h : entry_lock' = [entry_lock EXCEPT ![h].readers = @ \ {t}]
    BY DEF CloseEnd
  <2>2. EntryLockType'
    BY <1>4, <2>1 DEF EntryLockType
  <2>3. \A u \in Threads : pc[u] \in Busy => entry_lock'[arg[u].fh].writer = u
    BY <1>4, <2>1 DEF EntryLockType
  <2>. QED  BY <2>2, <2>3
<1>6. \A v \in Threads : pc'[v] = "add" => pc[v] = "add" /\ arg'[v].inum = arg[v].inum
  BY <1>1
<1>7. \A u \in Threads \ {t} : Step(u)'
  BY <1>1, <1>2, <1>3, <1>5, <1>6, QuietOther
<1>8. Step(t)'
  BY <1>1, CalmStep DEF Calm, Busy, Opens
<1>9. Files' = Files
  BY <1>2 DEF Files
<1>. QED  BY <1>2, <1>3, <1>5, <1>7, <1>8, <1>9, QuietTables, SizesStep

\* WriteStart keeps the sizes.
LEMMA WriteStartSizes ==
    ASSUME ~Unaligned, SizesInv, HandleInv', TypesInv', NEW t \in Threads,
           NEW h \in Handles, NEW len \in Lens, WriteStart(t, h, len)
    PROVE  SizesInv'
<1>0. Shape
  BY SizesFacts
<1>1. Moved(t) /\ pc'[t] = "lock" /\ arg'[t].fh = h /\ arg'[t].left = len
  BY <1>0, WriteStartMoves
<1>2. arg'[t].inum = open_file_table[h].of_inumber
  <2>1. PICK byte \in Texts[open_file_table[h].of_inumber] :
          Goes(t, "lock", [NoArg EXCEPT !.fh = h, !.inum = open_file_table[h].of_inumber,
                                        !.left = len, !.byte = byte])
    BY DEF WriteStart
  <2>. QED  BY <1>0, <2>1 DEF Goes, Shape, NoArg
<1>3. UNCHANGED <<inode_table, freeinode_ts, root_dir, open_file_table,
                  free_open_file_entries>>
  BY DEF WriteStart, stateVars, fileVars, entryVars
<1>4. /\ EntryLockType' /\ entry_lock'[h].writer = t
      /\ \A u \in Threads \ {t} : pc[u] \in Busy => entry_lock'[arg[u].fh].writer = u
  BY EntryLocked DEF WriteStart
<1>5. len % BLOCK_SIZE # 0 \/ open_file_table[h].of_offset % BLOCK_SIZE = 0
  BY DEF WriteStart, MayWrite
<1>6. Step(t)'
  BY <1>1, <1>2, <1>3, <1>4, <1>5 DEF Step, Adding, Truncates, HasEntry, Cursor, Writing
<1>. QED  BY <1>1, <1>3, <1>4, <1>6, QuietStep

\* ReadStart keeps the sizes.
LEMMA ReadStartSizes ==
    ASSUME SizesInv, HandleInv', TypesInv', NEW t \in Threads,
           NEW h \in Handles, NEW len, ReadStart(t, h, len)
    PROVE  SizesInv'
<1>0. Shape /\ IsArg(arg[t])
  BY SizesFacts
<1>1. Moved(t) /\ pc'[t] = "read" /\ arg'[t].fh = h
  BY <1>0, ReadStartMoves
<1>2. arg'[t].inum = open_file_table[h].of_inumber
  BY <1>0 DEF ReadStart, Goes, Shape, IsArg
<1>3. UNCHANGED <<inode_table, freeinode_ts, root_dir, open_file_table,
                  free_open_file_entries>>
  BY DEF ReadStart, stateVars, fileVars, entryVars
<1>4. /\ EntryLockType' /\ entry_lock'[h].writer = t
      /\ \A u \in Threads \ {t} : pc[u] \in Busy => entry_lock'[arg[u].fh].writer = u
  BY EntryLocked DEF ReadStart
<1>6. Step(t)'
  BY <1>1, <1>2, <1>3, <1>4 DEF Step, Adding, Truncates, HasEntry, Cursor, Writing
<1>. QED  BY <1>1, <1>3, <1>4, <1>6, QuietStep

\* WriteLock keeps the sizes.
LEMMA WriteLockSizes ==
    ASSUME SizesInv, HandleInv', TypesInv', NEW t \in Threads, WriteLock(t)
    PROVE  SizesInv'
<1>0. Shape /\ IsArg(arg[t]) /\ pc[t] = "lock" /\ Locals(t) /\ Step(t)
  BY SizesFacts DEF WriteLock, SizesInv
<1>1. Moved(t)
  BY <1>0, WriteLockMoves
<1>2. UNCHANGED <<inode_table, freeinode_ts, root_dir, open_file_table,
                  free_open_file_entries, entry_lock>>
  BY DEF WriteLock, stateVars, fileVars, entryVars
<1>3. CASE arg[t].left = 0
  <2>1. Return(t)
    BY <1>3 DEF WriteLock
  <2>2. Calm(t)'
    BY <1>0, <2>1, ReturnMoves DEF Calm, Busy, Opens
  <2>. QED  BY <1>1, <1>2, <2>2, EntryKept, CalmQuiet
<1>4. CASE arg[t].left # 0
  <2>1. PICK h \in Handles, off \in Nat, left \in Nat \ {0} :
          h = arg[t].fh /\ off = open_file_table[h].of_offset /\ left = arg[t].left
    BY <1>0, <1>4, SizesFacts DEF Locals
  <2>. DEFINE new == [arg[t] EXCEPT !.blk = FirstBlock(off), !.end = EndBlock(off, left)]
  <2>2. Goes(t, "write", new)
    BY <1>4, <2>1 DEF WriteLock
  <2>3. /\ IsArg(new) /\ new.inum = arg[t].inum /\ new.fh = h /\ new.left = left
        /\ new.blk = FirstBlock(off) /\ new.end = EndBlock(off, left)
    BY <1>0, <2>1 DEF IsArg
  <2>. HIDE DEF new
  <2>4. pc'[t] = "write" /\ arg'[t] = new
    BY <1>0, <2>2, <2>3, GoesMoves DEF Pcs
  <2>5. PICK k \in Nat, end \in Nat : k = FirstBlock(off) /\ end = EndBlock(off, left)
    BY LoopBlocks
  <2>6. BLOCK_SIZE * k <= off /\ off < (BLOCK_SIZE * k) + BLOCK_SIZE
    <3>1. PICK q \in Nat, r \in 0 .. BLOCK_SIZE - 1 : q = k /\ off = (BLOCK_SIZE * q) + r
      BY <2>5, Sizes, DivMod DEF FirstBlock
    <3>2. BLOCK_SIZE * q \in Nat
      BY Sizes, TimesNat
    <3>. QED  BY <3>1, <3>2, Sizes
  <2>7. off + left <= BLOCK_SIZE * end
    <3>1. left % BLOCK_SIZE # 0 \/ off % BLOCK_SIZE = 0
      BY <1>0, <2>1 DEF Step, Cursor
    <3>. QED  BY <2>5, <3>1, Sizes, EndReached DEF EndBlock
  <2>8. k < end
    <3>1. SUFFICES ASSUME end <= k PROVE FALSE
      OBVIOUS
    <3>2. BLOCK_SIZE * end <= BLOCK_SIZE * k
      <4>1. end < k => (BLOCK_SIZE * end) + BLOCK_SIZE <= BLOCK_SIZE * k
        BY Sizes, Times
      <4>2. BLOCK_SIZE * end \in Nat /\ BLOCK_SIZE * k \in Nat
        BY Sizes, TimesNat
      <4>3. end = k => BLOCK_SIZE * end = BLOCK_SIZE * k
        OBVIOUS
      <4>. QED  BY <3>1, <4>1, <4>2, <4>3, Sizes
    <3>3. BLOCK_SIZE * end \in Nat /\ BLOCK_SIZE * k \in Nat
      BY Sizes, TimesNat
    <3>. QED  BY <2>6, <2>7, <3>2, <3>3
  <2>9. Step(t)'
    <3>1. /\ pc'[t] = "write" /\ arg'[t].fh = h /\ arg'[t].inum = arg[t].inum
          /\ arg'[t].left = left /\ arg'[t].blk = k /\ arg'[t].end = end
      BY <2>3, <2>4, <2>5
    <3>2. Adding(t)' /\ Truncates(t)'
      BY <3>1 DEF Adding, Truncates
    <3>3. HasEntry(t)'
      BY <1>0, <1>2, <2>1, <3>1 DEF Step, HasEntry, Busy
    <3>4. Cursor(t)'
      BY <1>2, <2>1, <2>6, <2>7, <2>8, <3>1 DEF Cursor
    <3>. QED  BY <3>2, <3>3, <3>4 DEF Step
  <2>. QED  BY <1>1, <1>2, <2>4, <2>9, EntryKept, QuietStep
<1>. QED  BY <1>3, <1>4

-----------------------------------------------------------------------------
(* tfs_open. *)

\* An i-node has one name.
LEMMA OneName ==
    ASSUME DirInv, NEW n, NEW m, NEW s \in Named(n), NEW r \in Named(m),
           root_dir[s].d_inumber = root_dir[r].d_inumber
    PROVE  n = m
<1>1. s \in LinkedSlots /\ r \in LinkedSlots
  BY DEF Named, LinkedSlots
<1>2. s = r
  BY <1>1 DEF DirInv, DirectoryConsistent
<1>. QED  BY <1>2 DEF Named

\* OpenStart keeps the sizes.
LEMMA OpenStartSizes ==
    ASSUME SizesInv, HandleInv', TypesInv', NEW t \in Threads, OpenStart(t)
    PROVE  SizesInv'
<1>0. Shape /\ DirInv
  BY SizesFacts
<1>1. Moved(t) /\ pc'[t] \in {"found", "create"}
  BY <1>0, OpenStartMoves
<1>2. UNCHANGED <<inode_table, freeinode_ts, root_dir, open_file_table,
                  free_open_file_entries, entry_lock>>
  BY DEF OpenStart, stateVars, fileVars, entryVars
<1>3. PICK n \in Names, flags \in FlagSets \cup {{}}, copy \in BOOLEAN :
          /\ MayOpen(n, flags)
          /\ LET call == [NoArg EXCEPT !.name = n, !.flags = flags, !.copy = copy] IN
             \/ \E s \in DirSlots :
                   /\ IsFirst(Named(n), s)
                   /\ Goes(t, "found", [call EXCEPT !.inum = root_dir[s].d_inumber])
             \/ /\ Named(n) = {} /\ "CREAT" \in flags
                /\ Goes(t, "create", call)
  BY DEF OpenStart
<1>. DEFINE call == [NoArg EXCEPT !.name = n, !.flags = flags, !.copy = copy]
<1>4. CASE pc'[t] = "create"
  <2>1. Goes(t, "create", call)
    <3>1. \A s \in DirSlots : ~Goes(t, "found", [call EXCEPT !.inum = root_dir[s].d_inumber])
      BY <1>0, <1>4 DEF Goes, Shape
    <3>. QED  BY <1>3, <3>1
  <2>2. arg'[t].offset = 0
    BY <1>0, <2>1 DEF Goes, Shape, NoArg
  <2>3. Step(t)'
    BY <1>4, <2>2 DEF Step, Adding, Truncates, HasEntry, Cursor, Busy, Writing
  <2>. QED  BY <1>1, <1>2, <1>4, <2>3, EntryKept, QuietStep
<1>5. CASE pc'[t] = "found"
  <2>1. \E s \in DirSlots : IsFirst(Named(n), s)
                            /\ Goes(t, "found", [call EXCEPT !.inum = root_dir[s].d_inumber])
    <3>1. ~Goes(t, "create", call)
      BY <1>0, <1>5 DEF Goes, Shape
    <3>. QED  BY <1>3, <3>1
  <2>2. PICK s \in DirSlots :
            /\ IsFirst(Named(n), s)
            /\ Goes(t, "found", [call EXCEPT !.inum = root_dir[s].d_inumber])
    BY <2>1
  <2>3. PICK i : i = root_dir[s].d_inumber
    OBVIOUS
  <2>4. arg'[t] = [call EXCEPT !.inum = i]
    BY <1>0, <2>2, <2>3 DEF Goes, Shape
  <2>5. arg'[t].name = n /\ arg'[t].flags = flags /\ arg'[t].inum = i
    BY <2>4 DEF NoArg
  <2>6. s \in Named(n) /\ i = root_dir[s].d_inumber
    BY <2>2, <2>3 DEF IsFirst
  <2>7. i \in Inums
    <3>1. Linked(i)
      BY <2>6 DEF Linked, LinkedSlots, Named
    <3>. QED  BY <1>0, <3>1, LinkedFile
  <2>8. Adding(t)'
    BY <1>2, <1>5, <2>5, <2>6 DEF Adding, Named
  <2>9. Truncates(t)'
    <3>1. SUFFICES ASSUME "TRUNC" \in flags
                   PROVE  (HalfTrunc \/ ~TruncFails(i)') /\ Unopened(i)'
      BY <2>5 DEF Truncates
    <3>2. ~InUse(n) /\ (HalfTrunc \/ ~TruncFails(i))
      BY <1>3, <2>6, <3>1 DEF MayOpen
    <3>3. HalfTrunc \/ ~TruncFails(i)'
      BY <1>2, <2>7, <3>2, TruncFailsSame
    <3>4. ASSUME NEW h \in TakenEntries PROVE open_file_table[h].of_inumber # i
      BY <2>6, <3>2 DEF InUse
    <3>5. ASSUME NEW u \in Threads, pc[u] = "add" PROVE arg[u].inum # i
      <4>1. SUFFICES ASSUME arg[u].inum = i PROVE FALSE
        OBVIOUS
      <4>2. PICK r \in Named(arg[u].name) : root_dir[r].d_inumber = i
        BY <3>5, <4>1 DEF SizesInv, Step, Adding
      <4>3. arg[u].name = n
        BY <1>0, <2>6, <4>2, OneName
      <4>. QED  BY <3>2, <3>5, <4>3 DEF InUse, Opening
    <3>6. TakenEntries' = TakenEntries
      BY <1>2 DEF TakenEntries
    <3>7. \A u \in Threads : pc'[u] = "add" => pc[u] = "add" /\ arg'[u] = arg[u]
      BY <1>1, <1>5 DEF Moved
    <3>. QED  BY <1>2, <3>3, <3>4, <3>5, <3>6, <3>7 DEF Unopened
  <2>10. Step(t)'
    BY <1>5, <2>8, <2>9 DEF Step, HasEntry, Cursor, Busy, Writing
  <2>. QED  BY <1>1, <1>2, <1>5, <2>10, EntryKept, QuietStep
<1>. QED  BY <1>1, <1>4, <1>5

\* What a step of another thread leaves to thread u.
LEMMA OtherStep ==
    ASSUME SizesInv, NEW u \in Threads, pc'[u] = pc[u], arg'[u] = arg[u],
           \A s \in LinkedSlots : root_dir'[s] = root_dir[s],
           pc[u] = "add" =>
              inode_table[arg[u].inum].i_size <= inode_table'[arg[u].inum].i_size,
           Truncates(u)',
           pc[u] \in Busy => open_file_table'[arg[u].fh] = open_file_table[arg[u].fh],
           pc[u] \in Busy => entry_lock'[arg[u].fh].writer = u,
           TypesInv'
    PROVE  Step(u)'
<1>1. Step(u) /\ Locals(u)
  BY SizesFacts DEF SizesInv
<1>2. /\ arg[u].offset \in Nat /\ inode_table[arg[u].inum].i_size \in Nat
      /\ inode_table'[arg[u].inum].i_size \in Nat
  BY <1>1, SizesFacts DEF Locals, TypesInv, TableTypes, Inode
<1>3. \A n : Named(n) \subseteq Named(n)' /\ Named(n) \subseteq LinkedSlots
  BY DEF Named, LinkedSlots
<1>4. Adding(u)'
  BY <1>1, <1>2, <1>3 DEF Step, Adding
<1>5. HasEntry(u)'
  BY <1>1 DEF Step, HasEntry
<1>6. Cursor(u)'
  BY <1>1 DEF Step, Cursor, Writing, Busy
<1>. QED  BY <1>4, <1>5, <1>6 DEF Step

\* Truncation leaves the other files alone.
LEMMA TruncatedOthers ==
    ASSUME TypesInv, NEW i \in Inums, TruncatedInode(i), NEW j \in Inums, j # i
    PROVE  inode_table'[j] = inode_table[j]
<1>1. inode_table \in [Inums -> Inode]
  BY DEF TypesInv, TableTypes
<1>2. CASE inode_table[i].i_size = 0
  BY <1>2 DEF TruncatedInode
<1>3. CASE inode_table[i].i_size # 0
  <2>1. \E v : inode_table' = [inode_table EXCEPT ![i] = v]
    BY <1>3 DEF TruncatedInode
  <2>. QED  BY <1>1, <2>1
<1>. QED  BY <1>2, <1>3

\* OpenExisting keeps the sizes.
LEMMA OpenExistingSizes ==
    ASSUME SizesInv, HandleInv', TypesInv', NEW t \in Threads, OpenExisting(t)
    PROVE  SizesInv'
<1>0. /\ Shape /\ DirInv /\ TypesInv /\ pc[t] = "found" /\ IsArg(arg[t])
      /\ arg[t].inum \in Inums /\ Step(t)
      /\ \A i \in Inums : inode_table[i].i_size \in Nat
  BY SizesFacts DEF OpenExisting, Locals, SizesInv
<1>1. PICK i \in Inums : i = arg[t].inum
  BY <1>0
<1>2. Moved(t)
  BY <1>0, OpenExistingMoves
<1>3. /\ UNCHANGED <<freeinode_ts, root_dir, open_file_table, free_open_file_entries,
                     entry_lock>>
      /\ TakenEntries' = TakenEntries /\ LinkedSlots' = LinkedSlots /\ Files' = Files
  BY DEF OpenExisting, entryVars, TakenEntries, LinkedSlots, Files
<1>4. "TRUNC" \in arg[t].flags => (HalfTrunc \/ ~TruncFails(i)) /\ Unopened(i)
  BY <1>0, <1>1 DEF Step, Truncates
<1>5. /\ IF "TRUNC" \in arg[t].flags THEN TruncatedInode(i) ELSE UNCHANGED inode_table
      /\ IF "TRUNC" \in arg[t].flags /\ TruncFails(i) THEN Return(t)
         ELSE Goes(t, "add", [arg[t] EXCEPT !.offset =
              IF "APPEND" \in arg[t].flags THEN inode_table'[i].i_size ELSE 0])
  BY <1>1 DEF OpenExisting
<1>6. \A j \in Inums \ {i} : inode_table'[j] = inode_table[j]
  BY <1>0, <1>5, TruncatedOthers
<1>7. IF "TRUNC" \in arg[t].flags
      THEN inode_table'[i].i_size = IF TruncFails(i) THEN inode_table[i].i_size ELSE 0
      ELSE inode_table'[i] = inode_table[i]
  BY <1>0, <1>5, TruncatedType
<1>8. inode_table'[i].i_size \in Nat
  BY <1>0, <1>7
<1>9. \/ pc'[t] = "idle"
      \/ \E off \in Nat :
            /\ off <= inode_table'[i].i_size
            /\ pc'[t] = "add" /\ arg'[t].offset = off /\ arg'[t].inum = i
            /\ arg'[t].name = arg[t].name
  <2>1. CASE "TRUNC" \in arg[t].flags /\ TruncFails(i)
    BY <1>0, <1>5, <2>1, ReturnMoves
  <2>2. CASE ~("TRUNC" \in arg[t].flags /\ TruncFails(i))
    <3>1. PICK off \in Nat : /\ off <= inode_table'[i].i_size
                             /\ Goes(t, "add", [arg[t] EXCEPT !.offset = off])
      BY <1>5, <1>8, <2>2
    <3>. QED  BY <1>0, <1>1, <3>1 DEF Goes, Shape, IsArg
  <2>. QED  BY <2>1, <2>2
<1>10. ASSUME NEW j \in Files' PROVE Filled(j)'
  <2>1. CASE inode_table'[j] = inode_table[j]
    BY <1>3, <2>1 DEF SizesInv, Filled
  <2>2. CASE inode_table'[j].i_size = 0
    <3>1. \A k \in Direct : BLOCK_SIZE * k \in Nat
      BY Sizes, TimesNat
    <3>. QED  BY <2>2, <3>1 DEF Filled
  <2>3. CASE HalfTrunc
    BY <2>3 DEF Filled
  <2>. QED  BY <1>4, <1>6, <1>7, <2>1, <2>2, <2>3 DEF Files
<1>11. ASSUME NEW h \in TakenEntries' PROVE EntryFits(h)'
  <2>1. EntryFits(h) /\ open_file_table[h].of_inumber \in Inums
    BY <1>3, SizesFacts DEF SizesInv, TakenEntries
  <2>2. inode_table'[open_file_table[h].of_inumber] = inode_table[open_file_table[h].of_inumber]
    BY <1>3, <1>4, <1>6, <1>7, <2>1 DEF Unopened
  <2>. QED  BY <1>3, <2>1, <2>2 DEF EntryFits, Linked
<1>12. Step(t)'
  <2>1. CASE pc'[t] = "idle"
    BY <2>1, CalmStep DEF Calm, Busy, Opens
  <2>2. CASE pc'[t] # "idle"
    <3>1. Adding(t)'
      BY <1>0, <1>1, <1>3, <1>9, <2>2 DEF Step, Adding, Named
    <3>. QED  BY <1>9, <2>2, <3>1 DEF Step, Truncates, HasEntry, Cursor, Busy, Writing
  <2>. QED  BY <2>1, <2>2
<1>13. ASSUME NEW u \in Threads \ {t} PROVE Step(u)'
  <2>1. pc[u] \notin Opens /\ pc'[u] = pc[u] /\ arg'[u] = arg[u] /\ arg[u].inum \in Inums
    BY <1>0, <1>2, OthersOutside, SizesFacts DEF Moved, Opens, Locals
  <2>2. Truncates(u)'
    BY <2>1 DEF Truncates, Opens
  <2>3. pc[u] = "add" => inode_table[arg[u].inum].i_size <= inode_table'[arg[u].inum].i_size
    <3>1. pc[u] = "add" => inode_table'[arg[u].inum] = inode_table[arg[u].inum]
      BY <1>4, <1>6, <1>7, <2>1 DEF Unopened
    <3>. QED  BY <1>0, <2>1, <3>1
  <2>. QED  BY <1>3, <2>1, <2>2, <2>3, EntryKept, OtherStep
<1>. QED  BY <1>3, <1>10, <1>11, <1>12, <1>13, EntryKept, SizesStep

\* CreateScan keeps the sizes.
LEMMA CreateScanSizes ==
    ASSUME SizesInv, HandleInv', TypesInv', NEW t \in Threads, CreateScan(t)
    PROVE  SizesInv'
<1>0. /\ Shape /\ DirInv /\ TypesInv /\ pc[t] = "create" /\ IsArg(arg[t])
      /\ arg[t].offset = 0 /\ inode_table \in [Inums -> Inode]
      /\ \A i \in Inums : inode_table[i].i_size \in Nat
  BY SizesFacts DEF CreateScan, SizesInv, Step, Adding
<1>1. Moved(t)
  BY <1>0, CreateScanMoves
<1>2. UNCHANGED <<root_dir, open_file_table, free_open_file_entries, entry_lock>>
  BY DEF CreateScan, entryVars
<1>3. pc'[t] \in {"idle", "create", "link"} /\ (pc'[t] # "idle" => arg'[t].offset = 0)
  BY <1>0 DEF CreateScan, Goes, Return, Shape, IsArg
<1>4. Step(t)'
  BY <1>3 DEF Step, Adding, Truncates, HasEntry, Cursor, Busy, Writing
<1>5. CASE UNCHANGED <<inode_table, freeinode_ts>>
  BY <1>1, <1>2, <1>3, <1>4, <1>5, EntryKept, QuietStep
<1>6. CASE ~UNCHANGED <<inode_table, freeinode_ts>>
  <2>1. PICK i \in Inums : /\ i = arg[t].scan /\ freeinode_ts[i] = FREE
                           /\ freeinode_ts' = [freeinode_ts EXCEPT ![i] = TAKEN]
                           /\ inode_table' = [inode_table EXCEPT ![i] = EmptyInode]
    BY <1>0, <1>6 DEF CreateScan, DirInv, Creating
  <2>2. i \notin Files
    BY <2>1 DEF Files, FREE, TAKEN
  <2>3. /\ \A j \in Inums \ {i} : inode_table'[j] = inode_table[j]
        /\ inode_table'[i].i_size = 0
    BY <1>0, <2>1 DEF EmptyInode
  <2>4. Files' \subseteq Files \cup {i}
    BY <1>0, <2>1 DEF Files, DirInv, DirTypes
  <2>5. \A j : Linked(j) => j \in Inums \ {i}
    BY <1>0, <2>2, LinkedFile
  <2>6. LinkedSlots' = LinkedSlots /\ TakenEntries' = TakenEntries
    BY <1>2 DEF LinkedSlots, TakenEntries
  <2>7. ASSUME NEW j \in Files' PROVE Filled(j)'
    <3>1. CASE j # i
      BY <2>3, <2>4, <3>1 DEF SizesInv, Filled, Files
    <3>2. CASE j = i
      <4>1. \A k \in Direct : BLOCK_SIZE * k \in Nat
        BY Sizes, TimesNat
      <4>. QED  BY <2>3, <3>2, <4>1 DEF Filled
    <3>. QED  BY <3>1, <3>2
  <2>8. ASSUME NEW h \in TakenEntries' PROVE EntryFits(h)'
    <3>1. EntryFits(h)
      BY <2>6 DEF SizesInv
    <3>. QED  BY <1>2, <2>3, <2>5, <2>6, <3>1 DEF EntryFits, Linked
  <2>9. ASSUME NEW u \in Threads \ {t} PROVE Step(u)'
    <3>1. pc[u] \notin Opens /\ pc'[u] = pc[u] /\ arg'[u] = arg[u]
      BY <1>0, <1>1, OthersOutside DEF Moved, Opens
    <3>2. Truncates(u)'
      BY <3>1 DEF Truncates, Opens
    <3>3. pc[u] = "add" => inode_table[arg[u].inum].i_size <= inode_table'[arg[u].inum].i_size
      <4>1. pc[u] = "add" => Linked(arg[u].inum)
        BY DEF SizesInv, Step, Adding, Linked, LinkedSlots, Named
      <4>. QED  BY <1>0, <2>3, <2>5, <4>1
    <3>. QED  BY <1>2, <3>1, <3>2, <3>3, EntryKept, OtherStep
  <2>. QED  BY <1>2, <1>4, <2>7, <2>8, <2>9, EntryKept, SizesStep
<1>. QED  BY <1>5, <1>6

\* OpenLink keeps the sizes.
LEMMA OpenLinkSizes ==
    ASSUME NamesWhole, SizesInv, HandleInv', TypesInv', NEW t \in Threads, OpenLink(t)
    PROVE  SizesInv'
<1>0. /\ Shape /\ DirInv /\ TypesInv /\ pc[t] = "link" /\ IsArg(arg[t])
      /\ arg[t].offset = 0 /\ arg[t].inum \in Inums
      /\ \A i \in Inums : inode_table[i].i_size \in Nat
  BY SizesFacts DEF OpenLink, SizesInv, Step, Adding, Locals
<1>1. PICK i \in Inums : i = arg[t].inum
  BY <1>0
<1>2. Moved(t)
  BY <1>0, OpenLinkMoves
<1>3. /\ UNCHANGED <<inode_table, open_file_table, free_open_file_entries, entry_lock>>
      /\ TakenEntries' = TakenEntries
  BY DEF OpenLink, entryVars, TakenEntries
<1>4. CASE UNCHANGED root_dir /\ Return(t)
  <2>1. Files' \subseteq Files
    BY <1>0, <1>1 DEF OpenLink, Files, DirInv, DirTypes, FREE, TAKEN
  <2>2. pc'[t] = "idle"
    BY <1>0, <1>4, ReturnMoves
  <2>3. Step(t)'
    BY <2>2, CalmStep DEF Calm, Busy, Opens
  <2>4. \A v \in Threads : pc'[v] = "add" => pc[v] = "add" /\ arg'[v].inum = arg[v].inum
    BY <1>2, <2>2 DEF Moved
  <2>5. \A u \in Threads \ {t} : Step(u)'
    BY <1>2, <1>3, <1>4, <2>4, EntryKept, QuietOther DEF Moved
  <2>. QED  BY <1>3, <1>4, <2>1, <2>3, <2>5, EntryKept, QuietTables, SizesStep
<1>5. CASE ~(UNCHANGED root_dir /\ Return(t))
  <2>1. PICK s \in DirSlots :
          /\ IsFirst(EmptySlots, s)
          /\ root_dir' = [root_dir EXCEPT ![s] = [d_inumber |-> i, d_name |-> arg[t].name]]
          /\ Goes(t, "add", [arg[t] EXCEPT !.scan = 0])
          /\ UNCHANGED freeinode_ts
    <3>1. PICK n : n = Stored[arg[t].name]
      OBVIOUS
    <3>2. n = arg[t].name
      BY <1>0, <3>1 DEF NamesWhole, DirInv, Creating, Opens
    <3>3. PICK s \in DirSlots :
            /\ IsFirst(EmptySlots, s)
            /\ root_dir' = [root_dir EXCEPT ![s] = [d_inumber |-> i, d_name |-> n]]
            /\ Goes(t, "add", [arg[t] EXCEPT !.scan = 0])
            /\ UNCHANGED freeinode_ts
      BY <1>1, <1>5, <3>1 DEF OpenLink
    <3>. QED  BY <3>2, <3>3
  <2>2. s \notin LinkedSlots
    BY <2>1 DEF IsFirst, EmptySlots, LinkedSlots
  <2>3. /\ \A r \in LinkedSlots : root_dir'[r] = root_dir[r]
        /\ root_dir'[s].d_inumber = i /\ root_dir'[s].d_name = arg[t].name
    BY <1>0, <2>1, <2>2 DEF DirInv, DirTypes, LinkedSlots
  <2>4. /\ pc'[t] = "add" /\ arg'[t].offset = 0 /\ arg'[t].inum = i
        /\ arg'[t].name = arg[t].name
    BY <1>0, <1>1, <2>1 DEF Goes, Shape, IsArg
  <2>5. i # -1
    BY DEF Inums
  <2>6. Step(t)'
    <3>1. PICK n : n = arg[t].name
      OBVIOUS
    <3>2. s \in Named(n)' /\ arg'[t].name = n
      BY <2>3, <2>4, <2>5, <3>1 DEF Named
    <3>3. Adding(t)'
      BY <1>0, <1>1, <1>3, <2>3, <2>4, <3>2 DEF Adding
    <3>. QED  BY <2>4, <3>3 DEF Step, Truncates, HasEntry, Cursor, Busy, Writing
  <2>7. \A j : Linked(j) => Linked(j)'
    BY <2>3 DEF Linked, LinkedSlots
  <2>8. \A j \in Files' : Filled(j)'
    BY <1>3, <2>1 DEF SizesInv, Filled, Files
  <2>9. \A h \in TakenEntries' : EntryFits(h)'
    BY <1>3, <2>7 DEF SizesInv, EntryFits
  <2>10. ASSUME NEW u \in Threads \ {t} PROVE Step(u)'
    <3>1. /\ pc[u] \notin Opens /\ pc'[u] = pc[u] /\ arg'[u] = arg[u]
          /\ arg[u].inum \in Inums
      BY <1>0, <1>2, OthersOutside, SizesFacts DEF Moved, Opens, Locals
    <3>2. Truncates(u)'
      BY <3>1 DEF Truncates, Opens
    <3>3. inode_table[arg[u].inum].i_size <= inode_table'[arg[u].inum].i_size
      BY <1>0, <1>3, <3>1
    <3>. QED  BY <1>3, <2>3, <3>1, <3>2, <3>3, EntryKept, OtherStep
  <2>. QED  BY <1>3, <2>6, <2>8, <2>9, <2>10, EntryKept, SizesStep
<1>. QED  BY <1>4, <1>5

\* AddScan keeps the sizes.
LEMMA AddScanSizes ==
    ASSUME SizesInv, HandleInv', TypesInv', NEW t \in Threads, AddScan(t)
    PROVE  SizesInv'
<1>0. /\ Shape /\ DirInv /\ TypesInv /\ HandleInv /\ pc[t] = "add" /\ IsArg(arg[t])
      /\ Step(t) /\ Local(t) /\ arg[t].inum \in Inums /\ arg[t].offset \in Nat
      /\ open_file_table \in [Handles -> [of_inumber : Inums, of_offset : Nat]]
      /\ free_open_file_entries \in [Handles -> {FREE, TAKEN}]
      /\ \A i \in Inums : inode_table[i].i_size \in Nat
  BY SizesFacts DEF AddScan, SizesInv, Locals
<1>1. PICK h \in Handles, i \in Inums, off \in Nat :
          h = arg[t].scan /\ i = arg[t].inum /\ off = arg[t].offset
  BY <1>0 DEF Local
<1>2. Moved(t)
  BY <1>0, AddScanMoves
<1>3. /\ UNCHANGED <<inode_table, freeinode_ts, root_dir, entry_lock>>
      /\ LinkedSlots' = LinkedSlots /\ Files' = Files
  BY DEF AddScan, fileVars, lockVars, LinkedSlots, Files
<1>4. CASE UNCHANGED entryVars
  <2>1. \/ pc'[t] = "idle"
        \/ /\ pc'[t] = "add" /\ arg'[t].inum = i /\ arg'[t].offset = off
           /\ arg'[t].name = arg[t].name
        \/ pc'[t] = "opened"
    BY <1>0, <1>1 DEF AddScan, Goes, Return, Shape, IsArg
  <2>2. Step(t)'
    <3>1. CASE pc'[t] = "add"
      <4>1. Adding(t)'
        BY <1>0, <1>1, <1>3, <2>1, <3>1 DEF Step, Adding, Named
      <4>. QED  BY <3>1, <4>1 DEF Step, Truncates, HasEntry, Cursor, Busy, Writing
    <3>2. CASE pc'[t] # "add"
      BY <2>1, <3>2, CalmStep DEF Calm, Busy, Opens
    <3>. QED  BY <3>1, <3>2
  <2>. QED  BY <1>0, <1>1, <1>2, <1>3, <1>4, <2>1, <2>2, EntryKept, QuietStep DEF entryVars
<1>5. CASE ~UNCHANGED entryVars
  <2>1. /\ free_open_file_entries[h] = FREE
        /\ free_open_file_entries' = [free_open_file_entries EXCEPT ![h] = TAKEN]
        /\ open_file_table' = [open_file_table EXCEPT ![h] =
                                  [of_inumber |-> i, of_offset |-> off]]
        /\ pc'[t] \in {"idle", "opened"}
    BY <1>0, <1>1, <1>5 DEF AddScan, MayClaim, Goes, Return, Shape
  <2>2. h \notin TakenEntries /\ TakenEntries' \subseteq TakenEntries \cup {h}
    BY <1>0, <2>1 DEF TakenEntries, FREE, TAKEN
  <2>3. /\ \A g \in TakenEntries : open_file_table'[g] = open_file_table[g]
        /\ open_file_table'[h].of_inumber = i /\ open_file_table'[h].of_offset = off
    BY <1>0, <2>1, <2>2 DEF TakenEntries
  <2>4. Linked(i) /\ off <= inode_table[i].i_size
    <3>1. Linked(i)
      BY <1>0, <1>1 DEF Step, Adding, Linked, LinkedSlots, Named
    <3>. QED  BY <1>0, <1>1, <3>1 DEF Step, Adding
  <2>5. ASSUME NEW g \in TakenEntries' PROVE EntryFits(g)'
    <3>1. CASE g = h
      BY <1>3, <2>3, <2>4, <3>1 DEF EntryFits, Linked
    <3>2. CASE g # h
      BY <1>3, <2>2, <2>3, <3>2 DEF SizesInv, EntryFits, Linked
    <3>. QED  BY <3>1, <3>2
  <2>6. \A j \in Files' : Filled(j)'
    BY <1>3 DEF SizesInv, Filled
  <2>7. Step(t)'
    BY <2>1, CalmStep DEF Calm, Busy, Opens
  <2>8. ASSUME NEW u \in Threads \ {t} PROVE Step(u)'
    <3>1. /\ pc'[u] = pc[u] /\ arg'[u] = arg[u] /\ arg[u].inum \in Inums
      BY <1>2, SizesFacts DEF Moved, Locals
    <3>2. Truncates(u)'
      <4>1. SUFFICES ASSUME pc[u] = "found", "TRUNC" \in arg[u].flags
                     PROVE  /\ HalfTrunc \/ ~TruncFails(arg[u].inum)'
                            /\ Unopened(arg[u].inum)'
        BY <3>1 DEF Truncates
      <4>2. (HalfTrunc \/ ~TruncFails(arg[u].inum)) /\ Unopened(arg[u].inum)
        BY <4>1 DEF SizesInv, Step, Truncates
      <4>3. arg'[u].inum \in Inums /\ arg'[u].inum = arg[u].inum
        BY <3>1
      <4>4. i # arg[u].inum
        BY <1>0, <1>1, <4>2 DEF Unopened
      <4>5. \A g \in TakenEntries' : open_file_table'[g].of_inumber # arg[u].inum
        BY <2>2, <2>3, <4>2, <4>4 DEF Unopened
      <4>6. \A v \in Threads : pc'[v] = "add" => pc[v] = "add" /\ arg'[v] = arg[v]
        BY <1>2, <2>1 DEF Moved
      <4>7. Unopened(arg[u].inum)'
        BY <3>1, <4>2, <4>5, <4>6 DEF Unopened
      <4>. QED  BY <1>3, <3>1, <4>2, <4>7, TruncFailsSame
    <3>3. inode_table[arg[u].inum].i_size <= inode_table'[arg[u].inum].i_size
      BY <1>0, <1>3, <3>1
    <3>4. pc[u] \in Busy => open_file_table'[arg[u].fh] = open_file_table[arg[u].fh]
      BY <2>3, BusyTaken
    <3>. QED  BY <1>3, <3>1, <3>2, <3>3, <3>4, EntryKept, OtherStep DEF LinkedSlots
  <2>. QED  BY <2>5, <2>6, <2>7, <2>8, EntryKept, SizesStep, <1>3
<1>. QED  BY <1>4, <1>5

-----------------------------------------------------------------------------
(* The steps that change a file. *)

\* Thread t changes its file and the offset of its handle, and nothing else.
LEMMA BusyStep ==
    ASSUME SizesInv, HandleInv', TypesInv', EntryLockType', NEW t \in Threads,
           pc[t] \in Busy, Moved(t), pc'[t] # "add",
           NEW i \in Inums, i = arg[t].inum, NEW h \in Handles, h = arg[t].fh,
           UNCHANGED <<freeinode_ts, root_dir, free_open_file_entries>>,
           \A j \in Inums \ {i} : inode_table'[j] = inode_table[j],
           inode_table[i].i_size <= inode_table'[i].i_size, Filled(i)',
           \A g \in Handles \ {h} : open_file_table'[g] = open_file_table[g],
           open_file_table'[h].of_inumber = i,
           open_file_table'[h].of_offset <= inode_table'[i].i_size,
           \A u \in Threads \ {t} : pc[u] \in Busy => entry_lock'[arg[u].fh].writer = u,
           Step(t)'
    PROVE  SizesInv'
<1>0. /\ TypesInv /\ HandleInv /\ h \in TakenEntries
      /\ open_file_table[h].of_inumber = i
      /\ \A g \in Handles : open_file_table[g].of_inumber \in Inums
                            /\ open_file_table[g].of_offset \in Nat
      /\ \A j \in Inums : inode_table[j].i_size \in Nat /\ inode_table'[j].i_size \in Nat
  BY SizesFacts, BusyTaken DEF SizesInv, Step, HasEntry, TypesInv, TableTypes, Inode
<1>1. Files' = Files /\ TakenEntries' = TakenEntries /\ LinkedSlots' = LinkedSlots
  BY DEF Files, TakenEntries, LinkedSlots
<1>2. \A j \in Files' : Filled(j)'
  BY <1>1 DEF SizesInv, Filled, Files
<1>3. \A j \in Inums : inode_table[j].i_size <= inode_table'[j].i_size
  BY <1>0
<1>4. ASSUME NEW g \in TakenEntries' PROVE EntryFits(g)'
  <2>1. g \in Handles /\ EntryFits(g)
    BY <1>1 DEF SizesInv, TakenEntries
  <2>2. open_file_table'[g].of_inumber = open_file_table[g].of_inumber
    BY <1>0, <2>1
  <2>3. Linked(open_file_table[g].of_inumber)'
    BY <1>1, <2>1, <2>2 DEF EntryFits, Linked
  <2>4. PICK j \in Inums, off \in Nat :
          j = open_file_table[g].of_inumber /\ off = open_file_table[g].of_offset
    BY <1>0, <2>1
  <2>5. CASE g # h
    <3>1. off <= inode_table[j].i_size /\ open_file_table'[g] = open_file_table[g]
      BY <2>1, <2>4, <2>5 DEF EntryFits
    <3>2. off <= inode_table'[j].i_size
      BY <1>0, <1>3, <3>1
    <3>. QED  BY <2>2, <2>3, <2>4, <3>1, <3>2 DEF EntryFits
  <2>6. CASE g = h
    BY <2>2, <2>3, <2>6 DEF EntryFits
  <2>. QED  BY <2>5, <2>6
<1>5. ASSUME NEW u \in Threads \ {t} PROVE Step(u)'
  <2>1. /\ pc'[u] = pc[u] /\ arg'[u] = arg[u] /\ arg[u].inum \in Inums
    BY SizesFacts DEF Moved, Locals
  <2>2. Truncates(u)'
    <3>1. SUFFICES ASSUME pc[u] = "found", "TRUNC" \in arg[u].flags
                   PROVE  /\ HalfTrunc \/ ~TruncFails(arg[u].inum)'
                          /\ Unopened(arg[u].inum)'
      BY <2>1 DEF Truncates
    <3>2. (HalfTrunc \/ ~TruncFails(arg[u].inum)) /\ Unopened(arg[u].inum)
      BY <3>1 DEF SizesInv, Step, Truncates
    <3>3. arg[u].inum # i
      BY <1>0, <3>2 DEF Unopened
    <3>4. HalfTrunc \/ ~TruncFails(arg[u].inum)'
      BY <2>1, <3>2, <3>3, TruncFailsSame
    <3>5. \A g \in TakenEntries' : open_file_table'[g].of_inumber # arg[u].inum
      BY <1>0, <1>1, <3>2, <3>3 DEF Unopened, TakenEntries
    <3>6. \A v \in Threads : pc'[v] = "add" => pc[v] = "add" /\ arg'[v] = arg[v]
      BY DEF Moved
    <3>. QED  BY <2>1, <3>2, <3>4, <3>5, <3>6 DEF Unopened
  <2>3. pc[u] \in Busy => open_file_table'[arg[u].fh] = open_file_table[arg[u].fh]
    BY EntryAlone, BusyTaken
  <2>. QED  BY <1>3, <2>1, <2>2, <2>3, OtherStep DEF LinkedSlots
<1>. QED  BY <1>2, <1>4, <1>5, SizesStep

\* A write or a read ends, or goes on at the same place.
LEMMA SameCursor ==
    ASSUME SizesInv, NEW t \in Threads, pc[t] \in Writing, pc'[t] \in Writing,
           arg'[t].fh = arg[t].fh, arg'[t].inum = arg[t].inum, arg'[t].left = arg[t].left,
           arg'[t].blk = arg[t].blk, arg'[t].end = arg[t].end,
           UNCHANGED <<open_file_table, entry_lock>>
    PROVE  Step(t)'
<1>1. Step(t)
  BY DEF SizesInv
<1>2. Adding(t)' /\ Truncates(t)'
  BY DEF Adding, Truncates, Writing
<1>3. HasEntry(t)'
  BY <1>1 DEF Step, HasEntry, Busy, Writing
<1>4. Cursor(t)'
  BY <1>1 DEF Step, Cursor, Writing
<1>. QED  BY <1>2, <1>3, <1>4 DEF Step

\* LabelIndirect keeps the sizes.
LEMMA LabelIndirectSizes ==
    ASSUME SizesInv, HandleInv', TypesInv', NEW t \in Threads, LabelIndirect(t)
    PROVE  SizesInv'
<1>0. Shape /\ pc[t] = "label"
  BY SizesFacts DEF LabelIndirect
<1>1. Moved(t) /\ pc'[t] = "write" /\ arg'[t] = arg[t]
  BY <1>0, AtMoves DEF LabelIndirect, Pcs
<1>2. UNCHANGED <<inode_table, freeinode_ts, root_dir, open_file_table,
                  free_open_file_entries, entry_lock>>
  BY DEF LabelIndirect, entryVars, lockVars
<1>3. Step(t)'
  BY <1>0, <1>1, <1>2, SameCursor DEF Writing
<1>. QED  BY <1>1, <1>2, <1>3, EntryKept, QuietStep

\* tfs_write returns, with the files as they are.
LEMMA WriteReturnsSizes ==
    ASSUME SizesInv, HandleInv', TypesInv', NEW t \in Threads, pc[t] \in Writing,
           WriteReturns(t),
           UNCHANGED <<inode_table, freeinode_ts, root_dir, open_file_table,
                       free_open_file_entries>>
    PROVE  SizesInv'
<1>1. Shape /\ pc[t] \in Busy
  BY SizesFacts DEF Writing, Busy
<1>2. Moved(t) /\ Calm(t)'
  BY <1>1, ReturnMoves DEF WriteReturns, Calm, Busy, Opens
<1>3. /\ EntryLockType'
      /\ \A u \in Threads \ {t} : pc[u] \in Busy => entry_lock'[arg[u].fh].writer = u
  BY <1>1, EntryUnlocked DEF WriteReturns
<1>. QED  BY <1>2, <1>3, CalmQuiet

\* A new block leaves the sizes alone.
LEMMA InstalledSizes ==
    ASSUME TypesInv, NEW i \in Inums, NEW k \in Nat, NEW b \in Blocks,
           BlockInstalled(i, k, b), Filled(i)
    PROVE  /\ \A j \in Inums \ {i} : inode_table'[j] = inode_table[j]
           /\ inode_table'[i].i_size = inode_table[i].i_size
           /\ Filled(i)'
<1>1. inode_table \in [Inums -> Inode]
  BY DEF TypesInv, TableTypes
<1>2. CASE k \in Direct
  <2>1. inode_table' = [inode_table EXCEPT ![i].i_data_block[k] = b]
    BY <1>2 DEF BlockInstalled
  <2>2. /\ inode_table'[i].i_size = inode_table[i].i_size
        /\ inode_table'[i].i_data_block = [inode_table[i].i_data_block EXCEPT ![k] = b]
        /\ inode_table[i].i_data_block \in [Direct -> Blocks \cup {-1}]
    BY <1>1, <2>1 DEF Inode
  <2>. QED  BY <1>1, <2>1, <2>2 DEF Filled
<1>3. CASE k \notin Direct
  <2>1. /\ \A j \in Inums \ {i} : inode_table'[j] = inode_table[j]
        /\ inode_table'[i].i_size = inode_table[i].i_size
        /\ inode_table'[i].i_data_block = inode_table[i].i_data_block
    BY <1>1, <1>3 DEF BlockInstalled, Inode
  <2>. QED  BY <2>1 DEF Filled
<1>. QED  BY <1>2, <1>3

\* What a thread that writes knows of its file and its handle.
LEMMA WriterFacts ==
    ASSUME SizesInv, NEW t \in Threads, pc[t] \in Busy
    PROVE  /\ Shape /\ TypesInv /\ IsArg(arg[t]) /\ Locals(t) /\ Step(t)
           /\ arg[t].inum \in Files /\ arg[t].inum \in Inums /\ arg[t].fh \in Handles
           /\ Filled(arg[t].inum) /\ EntryFits(arg[t].fh)
           /\ open_file_table[arg[t].fh].of_inumber = arg[t].inum
           /\ open_file_table[arg[t].fh].of_offset \in Nat
           /\ open_file_table[arg[t].fh].of_offset <= inode_table[arg[t].inum].i_size
           /\ inode_table[arg[t].inum].i_size \in Nat
<1>1. arg[t].fh \in TakenEntries /\ arg[t].fh \in Handles
  BY BusyTaken
<1>2. EntryFits(arg[t].fh) /\ Step(t)
  BY <1>1 DEF SizesInv
<1>3. open_file_table[arg[t].fh].of_inumber = arg[t].inum
  BY <1>2 DEF Step, HasEntry
<1>4. arg[t].inum \in Files /\ arg[t].inum \in Inums
  BY <1>2, <1>3, SizesFacts, LinkedFile DEF EntryFits
<1>. QED  BY <1>1, <1>2, <1>3, <1>4, SizesFacts DEF SizesInv, EntryFits

\* AllocScan keeps the sizes.
LEMMA AllocScanSizes ==
    ASSUME SizesInv, HandleInv', TypesInv', NEW t \in Threads, AllocScan(t)
    PROVE  SizesInv'
<1>0. pc[t] = "alloc" /\ pc[t] \in Busy /\ pc[t] \in Writing
  BY DEF AllocScan, Busy, Writing
<1>1. PICK h \in Handles, i \in Inums : h = arg[t].fh /\ i = arg[t].inum
  BY <1>0, WriterFacts
<1>2. UNCHANGED <<freeinode_ts, root_dir, open_file_table, free_open_file_entries>>
  BY DEF AllocScan, entryVars
<1>3. CASE WriteReturns(t) /\ UNCHANGED inode_table
  BY <1>0, <1>2, <1>3, WriteReturnsSizes
<1>4. CASE ~(WriteReturns(t) /\ UNCHANGED inode_table)
  <2>1. /\ \E n : \E place \in Writing : Goes(t, place, [arg[t] EXCEPT !.scan = n])
        /\ UNCHANGED entry_lock
    BY <1>4 DEF AllocScan, Writing
  <2>2. PICK n : \E place \in Writing : Goes(t, place, [arg[t] EXCEPT !.scan = n])
    BY <2>1
  <2>. DEFINE new == [arg[t] EXCEPT !.scan = n]
  <2>3. /\ IsArg(new) /\ new.fh = arg[t].fh /\ new.inum = arg[t].inum
        /\ new.left = arg[t].left /\ new.blk = arg[t].blk /\ new.end = arg[t].end
    BY <1>0, WriterFacts DEF IsArg
  <2>4. PICK place \in Writing : Goes(t, place, new)
    BY <2>2
  <2>. HIDE DEF new
  <2>5. Moved(t) /\ pc'[t] \in Writing /\ arg'[t] = new
    BY <1>0, <2>3, <2>4, WriterFacts, GoesMoves DEF Pcs, Writing
  <2>6. Step(t)'
    BY <1>0, <1>2, <2>1, <2>3, <2>5, SameCursor
  <2>7. pc'[t] # "add"
    BY <2>5 DEF Writing
  <2>8. CASE UNCHANGED inode_table
    BY <1>2, <2>1, <2>5, <2>6, <2>7, <2>8, EntryKept, QuietStep
  <2>9. CASE ~UNCHANGED inode_table
    <3>1. PICK k \in Nat, b \in Blocks : BlockInstalled(i, k, b)
      BY <1>0, <1>1, <2>9, WriterFacts DEF AllocScan, Locals
    <3>2. /\ \A j \in Inums \ {i} : inode_table'[j] = inode_table[j]
          /\ inode_table'[i].i_size = inode_table[i].i_size /\ Filled(i)'
      BY <1>0, <1>1, <3>1, WriterFacts, InstalledSizes
    <3>3. /\ open_file_table'[h].of_inumber = i
          /\ open_file_table'[h].of_offset <= inode_table'[i].i_size
          /\ inode_table[i].i_size <= inode_table'[i].i_size
      BY <1>0, <1>1, <1>2, <3>2, WriterFacts
    <3>. QED  BY <1>0, <1>1, <1>2, <2>1, <2>5, <2>6, <2>7, <3>2, <3>3, EntryKept, BusyStep
  <2>. QED  BY <2>8, <2>9
<1>. QED  BY <1>3, <1>4

\* A round of the loop of tfs_write puts m bytes in block b of file i, of that
\* size, and goes on or returns.
Copies(t, h, i, k, end, b, off, left, size, m) ==
    /\ fs_data' = Copied(fs_data, b, off, m, arg[t].byte)
    /\ open_file_table' = [open_file_table EXCEPT ![h].of_offset = off + m]
    /\ inode_table' = [inode_table EXCEPT ![i].i_size = IF off + m > size THEN off + m ELSE size]
    /\ IF left = m \/ k + 1 = end THEN WriteReturns(t)
       ELSE /\ Goes(t, "write", [arg[t] EXCEPT !.blk = k + 1, !.left = left - m])
            /\ UNCHANGED <<inode_lock, entry_lock>>

\* That is what it does at a block that is there.
LEMMA RoundCopies ==
    ASSUME NEW t, WriteBlock(t), NEW h, NEW i, NEW k, NEW end, NEW off, NEW left, NEW size,
           h = arg[t].fh, i = arg[t].inum, k = arg[t].blk, end = arg[t].end,
           off = open_file_table[h].of_offset, left = arg[t].left,
           size = inode_table[i].i_size, NEW b \in Blocks, b = BlockNumber(i, k),
           NEW m, m = Piece(k, end, off, left)
    PROVE  Copies(t, h, i, k, end, b, off, left, size, m)
<1>1. b # -1 /\ b # Garbage
  BY Sizes DEF Garbage, Blocks
<1>2. Copies(t, arg[t].fh, arg[t].inum, arg[t].blk, arg[t].end, b, off, arg[t].left, size, m)
  BY <1>1, ZenonT(30) DEF WriteBlock, Copies
<1>. QED  BY <1>2, Zenon

\* A write that keeps out of block 0 leaves the directory alone.
LEMMA RootKept ==
    ASSUME RootSafe, NEW t \in Threads, WriteBlock(t)
    PROVE  UNCHANGED root_dir
<1>1. pc[t] = "write" /\ BlockNumber(arg[t].inum, arg[t].blk) # 0
  BY DEF WriteBlock, RootSafe
<1>. QED  BY <1>1, Zenon DEF WriteBlock, RootDirAfter

\* WriteBlock keeps the sizes.
LEMMA WriteBlockSizes ==
    ASSUME RootSafe, SizesInv, HandleInv', TypesInv', NEW t \in Threads, WriteBlock(t)
    PROVE  SizesInv'
<1>0. pc[t] = "write" /\ pc[t] \in Busy /\ pc[t] \in Writing
  BY DEF WriteBlock, Busy, Writing
<1>1. PICK h \in Handles, i \in Inums, k \in Nat, end \in Nat, off \in Nat, left \in Nat,
           size \in Nat :
          /\ h = arg[t].fh /\ i = arg[t].inum /\ k = arg[t].blk /\ end = arg[t].end
          /\ off = open_file_table[h].of_offset /\ left = arg[t].left
          /\ size = inode_table[i].i_size
  BY <1>0, WriterFacts DEF Locals
<1>2. /\ BLOCK_SIZE * k <= off /\ off < (BLOCK_SIZE * k) + BLOCK_SIZE
      /\ k < end /\ off + left <= BLOCK_SIZE * end
      /\ off <= size /\ open_file_table[h].of_inumber = i
      /\ open_file_table \in [Handles -> [of_inumber : Inums, of_offset : Nat]]
      /\ inode_table \in [Inums -> Inode] /\ Filled(i)
  BY <1>0, <1>1, WriterFacts DEF Step, Cursor, TypesInv, TableTypes
<1>3. UNCHANGED <<freeinode_ts, root_dir, free_open_file_entries>>
  BY <1>0, RootKept DEF WriteBlock
<1>4. CASE BlockNumber(i, k) = -1
  <2>1. /\ Goes(t, "alloc", [arg[t] EXCEPT !.scan = 0])
        /\ UNCHANGED <<inode_table, open_file_table, entry_lock>>
    BY <1>1, <1>4, Sizes DEF WriteBlock, Garbage
  <2>. DEFINE new == [arg[t] EXCEPT !.scan = 0]
  <2>2. /\ IsArg(new) /\ new.fh = arg[t].fh /\ new.inum = arg[t].inum
        /\ new.left = arg[t].left /\ new.blk = arg[t].blk /\ new.end = arg[t].end
    BY <1>0, WriterFacts DEF IsArg
  <2>3. Goes(t, "alloc", new)
    BY <2>1
  <2>. HIDE DEF new
  <2>4. Moved(t) /\ pc'[t] = "alloc" /\ arg'[t] = new
    BY <1>0, <2>2, <2>3, WriterFacts, GoesMoves DEF Pcs
  <2>5. Step(t)'
    BY <1>0, <2>1, <2>2, <2>4, SameCursor DEF Writing
  <2>. QED  BY <1>3, <2>1, <2>4, <2>5, EntryKept, QuietStep
<1>5. CASE BlockNumber(i, k) = Garbage
  <2>1. WriteReturns(t) /\ UNCHANGED <<inode_table, open_file_table>>
    BY <1>1, <1>5 DEF WriteBlock, Garbage, Blocks
  <2>. QED  BY <1>0, <1>3, <2>1, WriteReturnsSizes
<1>6. CASE BlockNumber(i, k) \in Blocks
  <2>1. BLOCK_SIZE * k \in Nat
    BY Sizes, TimesNat
  <2>2. PICK upto \in Nat : upto = (BLOCK_SIZE * k) + BLOCK_SIZE
    BY <2>1, Sizes
  <2>3. /\ off + left <= upto => Piece(k, end, off, left) = left
        /\ off + left > upto => Piece(k, end, off, left) = upto - off
    BY <1>2, <2>2, PieceFits
  <2>4. PICK m \in Nat : /\ m = Piece(k, end, off, left) /\ m <= left /\ off + m <= upto
                         /\ m # left => off + m = upto
    <3>1. CASE off + left <= upto
      BY <2>3, <3>1
    <3>2. CASE off + left > upto
      BY <1>2, <2>2, <2>3, <3>2
    <3>. QED  BY <3>1, <3>2
  <2>5. PICK grown \in Nat : /\ grown = IF off + m > size THEN off + m ELSE size
                             /\ size <= grown /\ off + m <= grown
                             /\ grown = size \/ grown <= upto
    <3>1. CASE off + m > size
      BY <2>4, <3>1
    <3>2. CASE ~(off + m > size)
      BY <2>4, <3>2
    <3>. QED  BY <3>1, <3>2
  <2>6. /\ open_file_table' = [open_file_table EXCEPT ![h].of_offset = off + m]
        /\ inode_table' = [inode_table EXCEPT ![i].i_size = grown]
        /\ IF left = m \/ k + 1 = end THEN WriteReturns(t)
           ELSE /\ Goes(t, "write", [arg[t] EXCEPT !.blk = k + 1, !.left = left - m])
                /\ UNCHANGED entry_lock
    <3>1. PICK b \in Blocks : b = BlockNumber(i, k)
      BY <1>6
    <3>2. Copies(t, h, i, k, end, b, off, left, size, m)
      BY <1>1, <2>4, <3>1, RoundCopies
    <3>. QED  BY <2>5, <3>2, Zenon DEF Copies
  <2>7. /\ \A g \in Handles \ {h} : open_file_table'[g] = open_file_table[g]
        /\ open_file_table'[h].of_inumber = i /\ open_file_table'[h].of_offset = off + m
    BY <1>2, <2>6
  <2>8. /\ \A j \in Inums \ {i} : inode_table'[j] = inode_table[j]
        /\ inode_table'[i].i_size = grown
        /\ inode_table'[i].i_data_block = inode_table[i].i_data_block
    BY <1>2, <2>6 DEF Inode
  <2>9. Filled(i)'
    <3>1. SUFFICES ASSUME ~HalfTrunc, NEW d \in Direct, BLOCK_SIZE * d < grown
                   PROVE  inode_table[i].i_data_block[d] \in Blocks
      BY <2>8 DEF Filled
    <3>2. BLOCK_SIZE * d < size => inode_table[i].i_data_block[d] \in Blocks
      BY <1>1, <1>2, <3>1 DEF Filled
    <3>3. d \in Nat /\ BLOCK_SIZE * d \in Nat
      BY Sizes, TimesNat
    <3>4. CASE d = k
      BY <1>6, <3>4 DEF BlockNumber
    <3>5. CASE d < k
      <4>1. (BLOCK_SIZE * d) + BLOCK_SIZE <= BLOCK_SIZE * k
        BY <3>3, <3>5, Sizes, Times
      <4>2. BLOCK_SIZE * d < size
        BY <1>2, <2>1, <3>3, <4>1, Sizes
      <4>. QED  BY <3>2, <4>2
    <3>6. CASE k < d
      <4>1. upto <= BLOCK_SIZE * d
        BY <2>2, <3>3, <3>6, Sizes, Times
      <4>2. BLOCK_SIZE * d < size
        BY <2>5, <3>1, <3>3, <4>1
      <4>. QED  BY <3>2, <4>2
    <3>. QED  BY <3>3, <3>4, <3>5, <3>6
  <2>10. CASE left = m \/ k + 1 = end
    <3>1. WriteReturns(t)
      BY <2>6, <2>10
    <3>2. Moved(t) /\ pc'[t] = "idle"
      BY <1>0, <3>1, WriterFacts, ReturnMoves DEF WriteReturns
    <3>3. Step(t)' /\ pc'[t] # "add"
      BY <3>2, CalmStep DEF Calm, Busy, Opens
    <3>4. /\ EntryLockType'
          /\ \A u \in Threads \ {t} : pc[u] \in Busy => entry_lock'[arg[u].fh].writer = u
      BY <1>0, <3>1, EntryUnlocked DEF WriteReturns
    <3>. QED  BY <1>0, <1>1, <1>3, <2>5, <2>7, <2>8, <2>9, <3>2, <3>3, <3>4, BusyStep
  <2>11. CASE ~(left = m \/ k + 1 = end)
    <3>1. PICK rest \in Nat, next \in Nat : rest = left - m /\ next = k + 1
      BY <2>4
    <3>2. /\ Goes(t, "write", [arg[t] EXCEPT !.blk = next, !.left = rest])
          /\ UNCHANGED entry_lock
      BY <2>6, <2>11, <3>1
    <3>. DEFINE new == [arg[t] EXCEPT !.blk = next, !.left = rest]
    <3>3. /\ IsArg(new) /\ new.fh = arg[t].fh /\ new.inum = arg[t].inum
          /\ new.left = rest /\ new.blk = next /\ new.end = arg[t].end
      BY <1>0, WriterFacts DEF IsArg
    <3>4. Goes(t, "write", new)
      BY <3>2
    <3>. HIDE DEF new
    <3>5. Moved(t) /\ pc'[t] = "write" /\ arg'[t] = new
      BY <1>0, <3>3, <3>4, WriterFacts, GoesMoves DEF Pcs
    <3>6. BLOCK_SIZE * next = upto
      <4>1. BLOCK_SIZE * (k + 1) = (BLOCK_SIZE * k) + BLOCK_SIZE
        BY Sizes, TimesNext
      <4>. QED  BY <2>2, <3>1, <4>1
    <3>7. PICK at \in Nat : at = off + m
      OBVIOUS
    <3>8. /\ BLOCK_SIZE * next <= at /\ at < (BLOCK_SIZE * next) + BLOCK_SIZE
          /\ next < end /\ at + rest <= BLOCK_SIZE * end
      <4>1. at = upto
        BY <2>4, <2>11, <3>7
      <4>2. next < end
        BY <1>2, <2>11, <3>1
      <4>3. at + rest = off + left
        BY <2>4, <3>1, <3>7
      <4>. QED  BY <1>2, <3>6, <4>1, <4>2, <4>3, Sizes
    <3>9. Step(t)'
      <4>1. Adding(t)' /\ Truncates(t)'
        BY <3>5 DEF Adding, Truncates
      <4>2. HasEntry(t)'
        <5>1. entry_lock[h].writer = t
          BY <1>0, <1>1, WriterFacts DEF Step, HasEntry
        <5>. QED  BY <1>1, <2>7, <3>2, <3>3, <3>5, <5>1 DEF HasEntry
      <4>3. Cursor(t)'
        BY <1>1, <2>7, <3>3, <3>5, <3>7, <3>8 DEF Cursor
      <4>. QED  BY <4>1, <4>2, <4>3 DEF Step
    <3>10. pc'[t] # "add"
      BY <3>5
    <3>. QED  BY <1>0, <1>1, <1>3, <2>5, <2>7, <2>8, <2>9, <3>2, <3>5, <3>9, <3>10,
                 EntryKept, BusyStep
  <2>. QED  BY <2>10, <2>11
<1>. QED  BY <1>1, <1>4, <1>5, <1>6 DEF WriteBlock

\* ReadBody keeps the sizes.
LEMMA ReadBodySizes ==
    ASSUME SizesInv, HandleInv', TypesInv', NEW t \in Threads, ReadBody(t)
    PROVE  SizesInv'
<1>0. pc[t] = "read" /\ pc[t] \in Busy
  BY DEF ReadBody, Busy
<1>1. PICK h \in Handles, i \in Inums, off \in Nat, left \in Nat, size \in Nat :
          /\ h = arg[t].fh /\ i = arg[t].inum /\ off = open_file_table[h].of_offset
          /\ left = arg[t].left /\ size = inode_table[i].i_size
  BY <1>0, WriterFacts DEF Locals
<1>2. /\ off <= size /\ open_file_table[h].of_inumber = i /\ Filled(i)
      /\ open_file_table \in [Handles -> [of_inumber : Inums, of_offset : Nat]]
  BY <1>0, <1>1, WriterFacts DEF TypesInv, TableTypes
<1>3. PICK n \in Nat : n = ReadLen(size, off, left) /\ off + n <= size
  <2>1. CASE off < size
    BY <2>1, ReadLenWithin
  <2>2. CASE off = size
    <3>1. size - off = 0
      BY <2>2
    <3>2. 0 % SIZE_T = 0
      BY Sizes
    <3>3. ReadLen(size, off, left) = 0
      BY <3>1, <3>2 DEF ReadLen
    <3>. QED  BY <2>2, <3>3
  <2>. QED  BY <1>2, <2>1, <2>2
<1>4. PICK at \in Nat : at = Reading(i, off, n).off /\ at <= size
  BY <1>3, ReadKeepsType
<1>5. /\ open_file_table' = [open_file_table EXCEPT ![h].of_offset = at]
      /\ entry_lock' = [entry_lock EXCEPT ![arg[t].fh].writer = NoThread]
      /\ UNCHANGED <<inode_table, freeinode_ts, root_dir, free_open_file_entries>>
  BY <1>1, <1>3, <1>4 DEF ReadBody, fileVars
<1>6. Moved(t) /\ Calm(t)' /\ pc'[t] # "add"
  BY <1>0, WriterFacts, ReadBodyMoves DEF Calm, Busy, Opens
<1>7. /\ \A g \in Handles \ {h} : open_file_table'[g] = open_file_table[g]
      /\ open_file_table'[h].of_inumber = i /\ open_file_table'[h].of_offset = at
  BY <1>2, <1>5
<1>8. /\ EntryLockType'
      /\ \A u \in Threads \ {t} : pc[u] \in Busy => entry_lock'[arg[u].fh].writer = u
  BY <1>0, <1>5, EntryUnlocked
<1>9. Filled(i)'
  BY <1>2, <1>5 DEF Filled
<1>10. /\ \A j \in Inums \ {i} : inode_table'[j] = inode_table[j]
       /\ inode_table[i].i_size <= inode_table'[i].i_size
       /\ open_file_table'[h].of_offset <= inode_table'[i].i_size
  BY <1>1, <1>4, <1>5, <1>7
<1>11. Step(t)'
  BY <1>6, CalmStep
<1>. QED  BY <1>0, <1>1, <1>5, <1>6, <1>7, <1>8, <1>9, <1>10, <1>11, BusyStep

\* TfsInit keeps the sizes.
LEMMA TfsInitSizes ==
    ASSUME SizesInv, HandleInv', TypesInv', TfsInit
    PROVE  SizesInv'
<1>1. Files' = {} /\ TakenEntries' = {}
  BY DEF TfsInit, StateReset, Files, TakenEntries, FREE, TAKEN
<1>2. EntryLockType'
  BY DEF TfsInit, EntryLockType, Unlocked
<1>3. \A t \in Threads : pc'[t] = "idle"
  BY DEF TfsInit, threadVars
<1>4. \A t \in Threads : Step(t)'
  BY <1>3, CalmStep DEF Calm, Busy, Opens
<1>. QED  BY <1>1, <1>2, <1>4 DEF SizesInv

\* No table changes and no thread moves.
LEMMA UnchangedSizes ==
    ASSUME SizesInv, HandleInv', TypesInv', UNCHANGED <<stateVars, threadVars, lockVars>>
    PROVE  SizesInv'
<1>1. /\ UNCHANGED <<inode_table, freeinode_ts, root_dir, open_file_table, entry_lock,
                     pc, arg>>
      /\ TakenEntries' = TakenEntries /\ Files' = Files
  BY DEF stateVars, fileVars, entryVars, threadVars, lockVars, TakenEntries, Files
<1>2. \A u \in Threads : Step(u)'
  BY <1>1, EntryKept, QuietOther
<1>. QED  BY <1>1, <1>2, EntryKept, QuietTables DEF SizesInv

\* Every step keeps the invariant.
LEMMA NextSizes ==
    ASSUME ~Unaligned, NamesWhole, RootSafe, SizesInv, HandleInv', TypesInv', [Next]_vars
    PROVE  SizesInv'
<1>1. CASE Next
  BY <1>1, NextCases, OpenStartSizes, OpenExistingSizes, CreateScanSizes,
     OpenLinkSizes, AddScanSizes, CloseStartSizes, CloseEndSizes, WriteStartSizes,
     WriteLockSizes, WriteBlockSizes, AllocScanSizes, LabelIndirectSizes,
     ReadStartSizes, ReadBodySizes, AsideSizes, TfsInitSizes, UnchangedSizes
<1>2. CASE UNCHANGED vars
  BY <1>2, UnchangedSizes DEF vars
<1>. QED  BY <1>1, <1>2

-----------------------------------------------------------------------------
(* The locks of the files. *)

\* A thread that writes has locked its file.
Held(t) == pc[t] \in Writing => inode_lock[arg[t].inum] = t

\* The types of the i-nodes' locks.
InodeLockType == inode_lock \in [Inums -> Threads \cup {NoThread}]

\* The invariant about the files' locks.
HeldInv == InodeLockType /\ \A t \in Threads : Held(t)

\* Thread t moves, and the locks of the other writers are left alone.
LEMMA HeldStep ==
    ASSUME HeldInv, InodeLockType', NEW t \in Threads, Moved(t), Held(t)',
           \A u \in Threads \ {t} : pc[u] \in Writing => inode_lock'[arg[u].inum] = u
    PROVE  HeldInv'
BY DEF HeldInv, Held, Moved

\* A thread moves, within a write of one file or outside of writes.
LEMMA HeldQuiet ==
    ASSUME HeldInv, NEW t \in Threads, Moved(t), UNCHANGED inode_lock,
           pc'[t] \in Writing => pc[t] \in Writing /\ arg'[t].inum = arg[t].inum
    PROVE  HeldInv'
<1>1. InodeLockType' /\ Held(t)'
  BY DEF HeldInv, InodeLockType, Held
<1>2. \A u \in Threads \ {t} : pc[u] \in Writing => inode_lock'[arg[u].inum] = u
  BY DEF HeldInv, Held
<1>. QED  BY <1>1, <1>2, HeldStep

\* A write ends.
LEMMA WriteReturnsHeld ==
    ASSUME TypesInv, HeldInv, NEW t \in Threads, pc[t] \in Writing, WriteReturns(t)
    PROVE  HeldInv'
<1>1. /\ Shape /\ arg[t].inum \in Inums
      /\ \A u \in Threads : arg[u].inum \in Inums
  BY DEF TypesInv, DirInv, Locals
<1>2. Moved(t) /\ pc'[t] = "idle"
  BY <1>1, ReturnMoves DEF WriteReturns
<1>3. inode_lock' = [inode_lock EXCEPT ![arg[t].inum] = NoThread]
  BY DEF WriteReturns
<1>4. InodeLockType' /\ Held(t)'
  BY <1>2, <1>3 DEF HeldInv, InodeLockType, Held, Writing
<1>5. ASSUME NEW u \in Threads \ {t}, pc[u] \in Writing PROVE inode_lock'[arg[u].inum] = u
  <2>1. arg[u].inum # arg[t].inum
    BY <1>5 DEF HeldInv, Held
  <2>. QED  BY <1>1, <1>3, <1>5, <2>1 DEF HeldInv, InodeLockType, Held
<1>. QED  BY <1>2, <1>4, <1>5, HeldStep

\* tfs_write locks its file.
LEMMA WriteLockHeld ==
    ASSUME TypesInv, HeldInv, NEW t \in Threads, WriteLock(t)
    PROVE  HeldInv'
<1>1. /\ Shape /\ arg[t].inum \in Inums
      /\ \A u \in Threads : arg[u].inum \in Inums
  BY DEF TypesInv, DirInv, Locals
<1>2. Moved(t) /\ (arg'[t].inum = arg[t].inum \/ pc'[t] = "idle")
  <2>1. Moved(t) /\ (GoesOn(t) \/ pc'[t] = "idle")
    BY <1>1, WriteLockMoves
  <2>. QED  BY <2>1 DEF GoesOn
<1>3. /\ inode_lock' = [inode_lock EXCEPT ![arg[t].inum] = t]
      /\ inode_lock[arg[t].inum] = NoThread
  BY DEF WriteLock, InodeFree
<1>4. InodeLockType' /\ Held(t)'
  BY <1>1, <1>2, <1>3 DEF HeldInv, InodeLockType, Held, Writing
<1>5. ASSUME NEW u \in Threads \ {t}, pc[u] \in Writing PROVE inode_lock'[arg[u].inum] = u
  BY <1>1, <1>3, <1>5, FineCallsAssumption DEF HeldInv, InodeLockType, Held
<1>. QED  BY <1>2, <1>4, <1>5, HeldStep

\* The rounds of a write, which goes on or ends.
LEMMA WritingHeld ==
    ASSUME TypesInv, HeldInv, NEW t \in Threads,
           WriteBlock(t) \/ AllocScan(t) \/ LabelIndirect(t)
    PROVE  HeldInv'
<1>1. Shape
  BY DEF TypesInv, DirInv
<1>2. pc[t] \in Writing
  BY DEF WriteBlock, AllocScan, LabelIndirect, Writing
<1>3. \/ WriteReturns(t)
      \/ Moved(t) /\ GoesOn(t) /\ UNCHANGED inode_lock
  BY <1>1, WriteBlockMoves, AllocScanMoves, OtherMoves DEF LabelIndirect, lockVars
<1>. QED  BY <1>2, <1>3, WriteReturnsHeld, HeldQuiet DEF GoesOn

\* The steps outside of tfs_write.
LEMMA OthersHeld ==
    ASSUME TypesInv, HeldInv, NEW t \in Threads,
           \/ OpenStart(t) \/ OpenExisting(t) \/ CreateScan(t) \/ OpenLink(t) \/ AddScan(t)
           \/ CloseStart(t) \/ ReadBody(t) \/ CopyOpened(t) \/ DestroyEnter(t)
           \/ DestroyRecheck(t) \/ DestroyMutex(t) \/ SpuriousWakeup(t)
           \/ \E h \in Handles, len \in Lens \cup {BLOCK_SIZE} : ReadStart(t, h, len)
           \/ \E h \in Handles, len \in Lens : WriteStart(t, h, len)
    PROVE  HeldInv'
<1>1. Shape
  BY DEF TypesInv, DirInv
<1>2. UNCHANGED inode_lock
  BY DEF OpenStart, OpenExisting, CreateScan, OpenLink, AddScan, CloseStart, ReadBody,
     CopyOpened, DestroyEnter, DestroyRecheck, DestroyMutex, SpuriousWakeup, ReadStart,
     WriteStart, lockVars
<1>3. CASE OpenStart(t) \/ OpenExisting(t) \/ CreateScan(t) \/ OpenLink(t) \/ AddScan(t)
  <2>1. Moved(t) /\ pc'[t] \notin Writing
    BY <1>1, <1>3, OpenStartMoves, OpenExistingMoves, CreateScanMoves, OpenLinkMoves,
       AddScanMoves DEF Writing
  <2>. QED  BY <1>2, <2>1, HeldQuiet
<1>4. CASE \/ CloseStart(t) \/ ReadBody(t) \/ CopyOpened(t) \/ DestroyEnter(t)
           \/ DestroyRecheck(t) \/ DestroyMutex(t) \/ SpuriousWakeup(t)
  <2>1. Moved(t) /\ pc'[t] \notin Writing
    BY <1>1, <1>4, CloseStartMoves, ReadBodyMoves, OtherMoves, DestroyMoves DEF Writing
  <2>. QED  BY <1>2, <2>1, HeldQuiet
<1>5. CASE \/ \E h \in Handles, len \in Lens \cup {BLOCK_SIZE} : ReadStart(t, h, len)
           \/ \E h \in Handles, len \in Lens : WriteStart(t, h, len)
  <2>1. Moved(t) /\ pc'[t] \notin Writing
    BY <1>1, <1>5, ReadStartMoves, WriteStartMoves DEF Writing
  <2>. QED  BY <1>2, <2>1, HeldQuiet
<1>. QED  BY <1>3, <1>4, <1>5

\* tfs_close.
LEMMA CloseEndHeld ==
    ASSUME TypesInv, HeldInv, NEW t \in Threads, CloseEnd(t)
    PROVE  HeldInv'
<1>1. Shape
  BY DEF TypesInv, DirInv
<1>2. \A u \in Threads : pc'[u] \in Writing => pc[u] = pc'[u] /\ arg'[u] = arg[u]
  BY <1>1, CloseEndMoves DEF Writing
<1>3. UNCHANGED inode_lock
  BY DEF CloseEnd
<1>. QED  BY <1>2, <1>3 DEF HeldInv, InodeLockType, Held

\* Every step keeps the invariant.
LEMMA NextHeld ==
    ASSUME TypesInv, HeldInv, [Next]_vars
    PROVE  HeldInv'
<1>1. TfsInit => HeldInv'
  BY DEF TfsInit, threadVars, HeldInv, InodeLockType, Held, Writing
<1>2. UNCHANGED <<stateVars, threadVars, lockVars>> => HeldInv'
  BY DEF threadVars, lockVars, HeldInv, InodeLockType, Held
<1>3. CASE Next
  BY <1>1, <1>2, <1>3, NextCases, WriteLockHeld, WritingHeld, OthersHeld, CloseEndHeld
<1>4. CASE UNCHANGED vars
  BY <1>2, <1>4 DEF vars
<1>. QED  BY <1>3, <1>4

-----------------------------------------------------------------------------
(* The invariant of the tables, the blocks and the locks together. *)

\* What the theorems ask of the callers and of the constants: no write of whole
\* blocks starts inside a block, no handle is closed twice at once, names are
\* stored whole, an int does not cross the end of a block, and labels fill an
\* indirect block.
Careful == ~Unaligned /\ ~SharedClose /\ NamesWhole /\ IntsAligned /\ LabelsCover

\* No write goes past the blocks that a file can have (tfs_write does not look).
WritesWithin == \A t \in Threads : pc[t] \in Writing => arg[t].blk \in BlockIndices

\* The invariant: it makes the files' sizes, the use of blocks, the directory
\* and the locks depend on each other.
FilesInv == SizesInv /\ NumbersInv /\ HeldInv

\* The invariant holds at first.
LEMMA InitFiles == Init => FilesInv
<1>1. Init => HeldInv
  BY DEF Init, HeldInv, InodeLockType, Held, Writing
<1>. QED  BY <1>1, InitSizes, InitNumbers DEF FilesInv

\* A piece of a write stays in its block, which the loop has labelled before if
\* it is in the indirect block.
LEMMA WritesInside ==
    ASSUME FilesInv, WritesWithin, NEW t \in Threads
    PROVE  Writes(t)
<1>. SUFFICES ASSUME pc[t] = "write"
              PROVE  LET i == arg[t].inum
                         k == arg[t].blk
                         off == open_file_table[arg[t].fh].of_offset
                         m == Piece(k, arg[t].end, off, arg[t].left)
                     IN  /\ i \in Files /\ k \in BlockIndices /\ ~Labelling(i)
                         /\ BLOCK_SIZE * k <= off /\ off < (BLOCK_SIZE * k) + BLOCK_SIZE
                         /\ off + m <= (BLOCK_SIZE * k) + BLOCK_SIZE
  BY DEF Writes
<1>1. /\ SizesInv /\ HeldInv /\ pc[t] \in Writing /\ pc[t] \in Busy
      /\ arg[t].blk \in BlockIndices
  BY DEF FilesInv, Writing, Busy, WritesWithin
<1>2. PICK i \in Files, k \in Nat, end \in Nat, off \in Nat, left \in Nat :
          /\ i = arg[t].inum /\ k = arg[t].blk /\ end = arg[t].end
          /\ off = open_file_table[arg[t].fh].of_offset /\ left = arg[t].left
  BY <1>1, WriterFacts DEF Locals
<1>3. ~Labelling(i)
  <2>1. SUFFICES ASSUME NEW u \in Threads, pc[u] = "label", arg[u].inum = i PROVE FALSE
    BY DEF Labelling
  <2>2. inode_lock[i] = t /\ inode_lock[i] = u
    BY <1>1, <1>2, <2>1 DEF HeldInv, Held, Writing
  <2>. QED  BY <2>1, <2>2
<1>4. /\ BLOCK_SIZE * k <= off /\ off < (BLOCK_SIZE * k) + BLOCK_SIZE
      /\ k < end /\ off + left <= BLOCK_SIZE * end
  BY <1>1, <1>2, WriterFacts DEF Step, Cursor
<1>5. PICK upto \in Nat : upto = (BLOCK_SIZE * k) + BLOCK_SIZE
  BY Sizes, TimesNat
<1>6. PICK m \in Nat : m = Piece(k, end, off, left)
  <2>1. k \in Int /\ end \in Int
    OBVIOUS
  <2>. QED  BY <2>1, PieceAtMost
<1>7. off + m <= upto
  <2>1. /\ off + left <= upto => m = left
        /\ off + left > upto => m = upto - off
    BY <1>4, <1>5, <1>6, PieceFits
  <2>. QED  BY <2>1
<1>. QED  BY <1>1, <1>2, <1>3, <1>4, <1>5, <1>6, <1>7

\* Such a write keeps out of block 0.
LEMMA WritesOutsideRoot ==
    ASSUME FilesInv, WritesWithin
    PROVE  RootSafe
<1>1. ASSUME NEW t \in Threads, pc[t] = "write"
      PROVE  BlockNumber(arg[t].inum, arg[t].blk) # 0
  <2>1. arg[t].inum \in Files /\ arg[t].blk \in BlockIndices /\ ~Labelling(arg[t].inum)
    BY <1>1, WritesInside DEF Writes
  <2>2. PICK i \in Files, k \in BlockIndices : i = arg[t].inum /\ k = arg[t].blk
    BY <2>1
  <2>3. NumbersInv /\ ~Labelling(i)
    BY <2>1, <2>2 DEF FilesInv
  <2>4. ASSUME NEW b \in Blocks, b = BlockNumber(i, k) PROVE b # 0
    BY <2>3, <2>4, WriterBlock
  <2>. QED  BY <2>2, <2>4, Sizes
<1>. QED  BY <1>1 DEF RootSafe

\* Every step keeps the invariant.
LEMMA NextFiles ==
    ASSUME Careful, FilesInv, WritesWithin, [Next]_vars
    PROVE  FilesInv'
<1>1. SizesInv /\ NumbersInv /\ HeldInv /\ TypesInv /\ DirInv /\ HandleInv
  BY SizesFacts DEF FilesInv
<1>2. RootSafe /\ \A t \in Threads : Writes(t)
  BY WritesInside, WritesOutsideRoot
<1>3. DirInv'
  <2>1. Next => DirInv'
    BY <1>1, <1>2, NextDir DEF Careful
  <2>2. UNCHANGED vars => DirInv'
    BY <1>1, UnchangedDir DEF vars
  <2>. QED  BY <2>1, <2>2
<1>4. TypesInv'
  BY <1>1, <1>3, TypesInductive
<1>5. HandleInv'
  BY <1>1, HandlesInductive DEF Careful
<1>6. SizesInv'
  BY <1>1, <1>2, <1>4, <1>5, NextSizes DEF Careful
<1>7. HeldInv'
  BY <1>1, NextHeld
<1>8. NumbersInv'
  BY <1>1, <1>2, <1>4, NextNumbers DEF Careful
<1>. QED  BY <1>6, <1>7, <1>8 DEF FilesInv

\* Whatever the threads do at the same time, a block is used in one place at
\* most and marked TAKEN there, as long as callers are careful and no write goes
\* past the blocks a file can have.  Their bytes may read as any number: they
\* are never read as one.
THEOREM BlocksSafe ==
    ASSUME Careful
    PROVE  Spec /\ []WritesWithin => []BlocksOwned
<1>1. Init => FilesInv
  BY InitFiles
<1>2. FilesInv /\ WritesWithin /\ [Next]_vars => FilesInv'
  BY NextFiles
<1>3. FilesInv => BlocksOwned
  BY OwnedImplies DEF FilesInv, NumbersInv
<1>. QED  BY <1>1, <1>2, <1>3, PTL DEF Spec

\* Under the same conditions every file but those being created has one entry
\* in the directory, and no name has two: no copy reaches block 0, where the
\* directory is kept, and no name is cut.
THEOREM DirectorySafe ==
    ASSUME Careful
    PROVE  Spec /\ []WritesWithin => []DirectoryConsistent
<1>1. Init => FilesInv
  BY InitFiles
<1>2. FilesInv /\ WritesWithin /\ [Next]_vars => FilesInv'
  BY NextFiles
<1>3. FilesInv => DirectoryConsistent
  BY DEF FilesInv, NumbersInv, TypesInv, DirInv
<1>. QED  BY <1>1, <1>2, <1>3, PTL DEF Spec

-----------------------------------------------------------------------------
(* What a file holds is read back. *)

\* Every file fits in its direct blocks.
FilesDirect == \A i \in Files : inode_table[i].i_size <= BLOCK_SIZE * MAX_DIRECT_BLOCKS

\* A file that fits in its direct blocks has every block its size reaches.
LEMMA DirectComplete ==
    ASSUME ~HalfTrunc, SizesInv, FilesDirect
    PROVE  SizeTypes /\ Complete
<1>1. SizeTypes
  BY SizesFacts DEF SizeTypes
<1>2. ASSUME NEW i \in Files, NEW k \in Nat, BLOCK_SIZE * k < inode_table[i].i_size
      PROVE  BlockNumber(i, k) \in Blocks
  <2>1. PICK size \in Nat : size = inode_table[i].i_size
    BY SizesFacts DEF Files
  <2>2. BLOCK_SIZE * k \in Nat /\ BLOCK_SIZE * MAX_DIRECT_BLOCKS \in Nat
    BY Sizes, TimesNat
  <2>3. k < MAX_DIRECT_BLOCKS
    <3>1. SUFFICES ASSUME MAX_DIRECT_BLOCKS <= k PROVE FALSE
      BY Sizes
    <3>2. MAX_DIRECT_BLOCKS < k =>
            (BLOCK_SIZE * MAX_DIRECT_BLOCKS) + BLOCK_SIZE <= BLOCK_SIZE * k
      BY Sizes, Times
    <3>3. MAX_DIRECT_BLOCKS = k => BLOCK_SIZE * MAX_DIRECT_BLOCKS = BLOCK_SIZE * k
      OBVIOUS
    <3>4. size <= BLOCK_SIZE * MAX_DIRECT_BLOCKS /\ BLOCK_SIZE * k < size
      BY <1>2, <2>1 DEF FilesDirect
    <3>5. MAX_DIRECT_BLOCKS = k \/ MAX_DIRECT_BLOCKS < k
      BY <3>1, Sizes
    <3>. QED  BY <2>2, <3>2, <3>3, <3>4, <3>5, Sizes
  <2>4. k \in Direct
    BY <2>3, Sizes DEF Direct
  <2>. QED  BY <1>2, <2>4 DEF SizesInv, Filled, BlockNumber
<1>. QED  BY <1>1, <1>2 DEF Complete

\* As long as every file fits in its direct blocks and no truncation that stops
\* half-way is asked for, tfs_read copies what the file holds, whatever the
\* threads do at the same time: no write leaves a hole below the size of a file,
\* none of its blocks is taken from it by a truncation that another thread makes,
\* and no offset passes the end of its file.
THEOREM ReadsBackSafe ==
    ASSUME Careful, ~HalfTrunc
    PROVE  Spec /\ []WritesWithin => [](FilesDirect => ReadsBack)
<1>1. Init => FilesInv
  BY InitFiles
<1>2. FilesInv /\ WritesWithin /\ [Next]_vars => FilesInv'
  BY NextFiles
<1>3. FilesInv => (FilesDirect => ReadsBack)
  BY DirectComplete, CompleteReadsBack DEF FilesInv
<1>. QED  BY <1>1, <1>2, <1>3, PTL DEF Spec
=============================================================================
