--------------------------- MODULE BlockCowProofs ---------------------------
(***************************************************************************)
(* Proofs about BlockCow, for every block size, lower file, bound, set of  *)
(* readers and written values.                                             *)
(***************************************************************************)
EXTENDS BlockCowInv, FiniteSetTheorems, TLAPS

-----------------------------------------------------------------------------
(* Block arithmetic. *)

\* ovl_get_block numbers the block that holds an offset.
LEMMA BlockBounds ==
  ASSUME NEW c \in Nat
  PROVE  /\ ovl_get_block(c) \in Nat
         /\ ovl_get_block(c) >= 1
         /\ BlockStart(ovl_get_block(c)) \in Nat
         /\ BlockStart(ovl_get_block(c)) <= c
         /\ c < ovl_get_block(c) * BS
         /\ ovl_get_block(c) * BS = BlockStart(ovl_get_block(c)) + BS
  BY ConstAssumption DEF ovl_get_block, BlockStart

\* Blocks follow one another without overlap.
LEMMA BlockStep ==
  ASSUME NEW a \in Int, NEW b \in Int, a < b
  PROVE  a * BS <= (b - 1) * BS
  BY ConstAssumption

\* An offset lies in exactly one block.
LEMMA BlockUnique ==
  ASSUME NEW c \in Nat, NEW b \in Int, (b - 1) * BS <= c, c < b * BS
  PROVE  ovl_get_block(c) = b
<1>1. /\ ovl_get_block(c) \in Nat
      /\ (ovl_get_block(c) - 1) * BS <= c
      /\ c < ovl_get_block(c) * BS
  BY BlockBounds DEF BlockStart
<1>2. ~(ovl_get_block(c) < b)
  BY <1>1, BlockStep, ConstAssumption
<1>3. ~(b < ovl_get_block(c))
  BY <1>1, BlockStep, ConstAssumption
<1> QED
  BY <1>1, <1>2, <1>3

\* Larger offsets lie in no earlier block.
LEMMA BlockMono ==
  ASSUME NEW c \in Nat, NEW d \in Nat, c <= d
  PROVE  ovl_get_block(c) <= ovl_get_block(d)
<1>1. /\ ovl_get_block(c) \in Nat
      /\ (ovl_get_block(c) - 1) * BS <= c
      /\ c < ovl_get_block(c) * BS
  BY BlockBounds DEF BlockStart
<1>2. /\ ovl_get_block(d) \in Nat
      /\ (ovl_get_block(d) - 1) * BS <= d
      /\ d < ovl_get_block(d) * BS
  BY BlockBounds DEF BlockStart
<1>3. ~(ovl_get_block(d) < ovl_get_block(c))
  BY <1>1, <1>2, BlockStep, ConstAssumption
<1> QED
  BY <1>1, <1>2, <1>3

\* The table has an entry for each block that holds a cell of the lower file,
\* and for no other block.
LEMMA TableSize ==
  /\ NBlocks \in Nat
  /\ LowerSize <= NBlocks * BS
  /\ NBlocks >= 1 => (NBlocks - 1) * BS < LowerSize
  /\ LowerSize # 0 => NBlocks >= 1
<1> DEFINE q == LowerSize \div BS
           m == LowerSize % BS
<1>1. q \in Nat /\ m \in 0 .. BS - 1 /\ LowerSize = q * BS + m
  BY ConstAssumption
<1>2. CASE m # 0
  <2>1. NBlocks = q + 1
    BY <1>2 DEF NBlocks, BlockCount
  <2>2. (q + 1) * BS = q * BS + BS /\ q * BS \in Nat
    BY <1>1, ConstAssumption
  <2>3. (NBlocks - 1) * BS = q * BS
    BY <1>1, <2>1
  <2> QED
    BY <1>1, <1>2, <2>1, <2>2, <2>3, ConstAssumption
<1>3. CASE m = 0
  <2>1. NBlocks = q
    BY <1>3 DEF NBlocks, BlockCount
  <2>2. q * BS = LowerSize /\ (q - 1) * BS = q * BS - BS
    BY <1>1, <1>3, ConstAssumption
  <2>3. LowerSize # 0 => q # 0
    BY <1>1, <1>3, ConstAssumption
  <2> QED
    BY <1>1, <2>1, <2>2, <2>3, ConstAssumption
<1> QED
  BY <1>2, <1>3

\* Every cell of the lower file lies in a block of the table.
LEMMA LowerInTable ==
  ASSUME NEW c \in Nat, c < LowerSize
  PROVE  ovl_get_block(c) \in Blocks
<1>1. /\ ovl_get_block(c) \in Nat /\ ovl_get_block(c) >= 1
      /\ (ovl_get_block(c) - 1) * BS <= c
  BY BlockBounds DEF BlockStart
<1>2. ~(NBlocks < ovl_get_block(c))
  BY <1>1, BlockStep, TableSize, ConstAssumption
<1> QED
  BY <1>1, <1>2, TableSize DEF Blocks

\* ovl_copy_up_block, called for block b of the table with the length that
\* block_write_iter computes, moves the cells of the lower file that lie in b
\* and no other.
LEMMA CopyRange ==
  ASSUME NEW b \in Blocks
  PROVE  /\ BlockStart(b) \in Nat
         /\ BlockStart(b) + CopyLen(b) \in Nat
         /\ BlockStart(b) < BlockStart(b) + CopyLen(b)
         /\ BlockStart(b) + CopyLen(b) <= LowerSize
         /\ \A c \in Nat : (BlockStart(b) <= c /\ c < BlockStart(b) + CopyLen(b))
                             <=> (c < LowerSize /\ ovl_get_block(c) = b)
<1>0. b \in Nat /\ 1 <= b /\ b <= NBlocks /\ NBlocks \in Nat
  BY TableSize DEF Blocks
<1>1. (b - 1) * BS \in Nat /\ b * BS = (b - 1) * BS + BS
  BY <1>0, ConstAssumption
<1>2. (b - 1) * BS < LowerSize
  <2>1. CASE b = NBlocks
    BY <2>1, <1>0, TableSize
  <2>2. CASE b < NBlocks
    BY <2>2, <1>0, <1>1, BlockStep, TableSize, ConstAssumption
  <2> QED
    BY <2>1, <2>2, <1>0
<1>3. ASSUME NEW c \in Nat
      PROVE  ovl_get_block(c) = b <=> (b - 1) * BS <= c /\ c < b * BS
  <2>1. ASSUME ovl_get_block(c) = b
        PROVE  (b - 1) * BS <= c /\ c < b * BS
    BY <2>1, BlockBounds DEF BlockStart
  <2>2. ASSUME (b - 1) * BS <= c, c < b * BS
        PROVE  ovl_get_block(c) = b
    BY <2>2, <1>0, BlockUnique
  <2> QED
    BY <2>1, <2>2
<1> QED
  BY <1>1, <1>2, <1>3, ConstAssumption DEF BlockStart, CopyLen

-----------------------------------------------------------------------------
(* Type correctness, for every environment. *)

\* Whatever part of a block is copied, the upper file stays well-formed and
\* grows at most to the end of the lower file.
LEMMA CopyType ==
  ASSUME TypeOK, NEW b \in Blocks,
         NEW e \in BlockStart(b) .. BlockStart(b) + CopyLen(b),
         ovl_copy_up_block(b, e)
  PROVE  /\ upper' \in [Cells -> Byte]
         /\ usize' \in 0 .. MaxPos
         /\ usize <= usize' /\ usize' <= Larger(usize, LowerSize)
<1>1. /\ BlockStart(b) \in Nat /\ e \in Nat /\ e <= LowerSize
  BY CopyRange, ConstAssumption
<1>2. upper' \in [Cells -> Byte]
  BY <1>1, ConstAssumption DEF TypeOK, ovl_copy_up_block, Cells, Byte
<1>3. usize' = IF BlockStart(b) < e THEN Larger(usize, e) ELSE usize
  BY DEF ovl_copy_up_block
<1> QED
  BY <1>1, <1>2, <1>3, ConstAssumption DEF TypeOK, Larger

LEMMA WholeBlock ==
  ASSUME NEW b \in Blocks
  PROVE  BlockStart(b) + CopyLen(b) \in BlockStart(b) .. BlockStart(b) + CopyLen(b)
  BY CopyRange

\* The history keeps its type.
LEMMA IdealType ==
  ASSUME TypeOK, NEW new \in [Cells -> SUBSET Obs], SetIdeal(new)
  PROVE  ideal' \in [Cells -> SUBSET Obs] /\ allowed' \in [Readers -> [Cells -> SUBSET Obs]]
  BY DEF TypeOK, SetIdeal

\* A chunk of a read lies inside what is left of it.
LEMMA ChunkFits ==
  ASSUME TypeInv, NEW r \in Readers
  PROVE  /\ BlockPart(r) \in 0 .. rd[r].cnt
         /\ rd[r].cnt >= 1 => BlockPart(r) >= 1
<1> DEFINE p == rd[r].pos
           n == rd[r].cnt
<1>1. p \in Nat /\ n \in Nat
  BY DEF TypeInv, TypeOK, ReadCall
<1>2. /\ ovl_get_block(p) \in Nat /\ ovl_get_block(p) * BS \in Nat
      /\ p < ovl_get_block(p) * BS
  <2>1. ovl_get_block(p) \in Nat /\ p < ovl_get_block(p) * BS
    BY <1>1, BlockBounds
  <2> QED
    BY <2>1, ConstAssumption
<1>3. /\ ovl_get_block(p + n) \in Nat
      /\ (ovl_get_block(p + n) - 1) * BS <= p + n
  BY <1>1, BlockBounds DEF BlockStart
<1>4. ovl_get_block(p) <= ovl_get_block(p + n)
  BY <1>1, BlockMono
<1>5. ovl_get_block(p) # ovl_get_block(p + n) => ovl_get_block(p) * BS <= p + n
  <2>1. SUFFICES ASSUME ovl_get_block(p) < ovl_get_block(p + n)
                 PROVE  ovl_get_block(p) * BS <= p + n
    BY <1>2, <1>3, <1>4
  <2>2. ovl_get_block(p) * BS <= (ovl_get_block(p + n) - 1) * BS
    BY <2>1, <1>2, <1>3, BlockStep
  <2>3. (ovl_get_block(p + n) - 1) * BS \in Int
    BY <1>3, ConstAssumption
  <2> QED
    BY <2>2, <2>3, <1>1, <1>2, <1>3
<1> HIDE DEF p, n
<1>7. BlockPart(r) = IF ovl_get_block(p) = ovl_get_block(p + n) THEN n
                     ELSE ovl_get_block(p) * BS - p
  BY DEF BlockPart, p, n
<1>8. BlockPart(r) \in 0 .. n /\ (n >= 1 => BlockPart(r) >= 1)
  BY <1>1, <1>2, <1>5, <1>7
<1> QED
  BY <1>8 DEF p, n

\* vfs_iter_read stays inside the request and inside the file.
LEMMA AvailFits ==
  ASSUME NEW p \in Nat, NEW n \in Nat, NEW size \in Nat
  PROVE  /\ Avail(p, n, size) \in 0 .. n
         /\ \A c \in Nat : c < p + Avail(p, n, size) => c < p \/ c < size
         /\ Avail(p, n, size) = 0 /\ n >= 1 => size <= p
  BY DEF Avail, Smaller

\* Handing k cells to the caller keeps the record of a read well-formed ...
LEMMA DeliverType ==
  ASSUME NEW rec \in ReadCall, rec.pos + rec.cnt <= MaxPos,
         NEW k \in 0 .. rec.cnt, NEW content,
         \A c \in Cells : rec.pos <= c /\ c < rec.pos + k => content[c] \in Byte
  PROVE  LET d == Deliver(rec, k, content)
         IN  /\ d \in ReadCall
             /\ d.pc = rec.pc
             /\ d.pos = rec.pos + k /\ d.cnt = rec.cnt - k
             /\ d.some = (rec.some \/ k > 0)
             /\ d.lower_end = rec.lower_end /\ d.real = rec.real
             /\ d.got = {<<c, content[c]>> : c \in rec.pos .. rec.pos + k - 1}
<1>1. rec.pos \in Nat /\ rec.cnt \in Nat /\ k \in Nat /\ MaxPos \in Nat
  BY ConstAssumption DEF ReadCall
<1>2. {<<c, content[c]>> : c \in rec.pos .. rec.pos + k - 1} \in SUBSET (Cells \X Obs)
  BY <1>1 DEF Cells, Obs
<1>3. rec.pos + k \in 0 .. MaxPos /\ rec.cnt - k \in 0 .. MaxPos
  BY <1>1
<1> QED
  BY <1>1, <1>2, <1>3 DEF Deliver, ReadCall

\* ... and so does returning, because a call that delivered nothing stands
\* before a cell.
LEMMA ReturningType ==
  ASSUME NEW rec \in ReadCall, rec.some \/ rec.pos \in Cells
  PROVE  LET d == Returning(rec)
         IN  /\ d \in ReadCall
             /\ d.pc = "ret"
             /\ d.pos = rec.pos /\ d.cnt = rec.cnt
             /\ d.got = IF rec.some THEN rec.got ELSE {<<rec.pos, Eof>>}
<1>1. rec.pos \in Cells => {<<rec.pos, Eof>>} \in SUBSET (Cells \X Obs)
  BY DEF Obs
<1> QED
  BY <1>1 DEF Returning, ReadCall, ReaderPcs

LEMMA NoCallType == NoWrite \in WriteCall /\ NoRead \in ReadCall
<1>1. NoWrite \in WriteCall
  BY ConstAssumption DEF NoWrite, WriteCall, WriterPcs, Byte
<1>2. NoRead \in ReadCall
  BY ConstAssumption DEF NoRead, ReadCall, ReaderPcs
<1> QED
  BY <1>1, <1>2

LEMMA TypeInit == Init => TypeInv
<1> SUFFICES ASSUME Init PROVE TypeInv
  OBVIOUS
<1>1. NBlocks \in Nat
  BY TableSize
<1>2. NoWrite \in WriteCall
  BY NoCallType
<1>3. NoRead \in ReadCall
  BY NoCallType
<1>4. ideal \in [Cells -> SUBSET Obs]
  BY ConstAssumption DEF Init, Cells, Obs, Byte
<1>5. TypeOK
  <2>1. copiedUp \in BOOLEAN /\ cow_status \in BOOLEAN
    BY DEF Init
  <2>2. block_count \in {0, NBlocks} /\ copy_count \in Nat
    BY DEF Init
  <2>3. block_status \in [Blocks -> {UNCOPY, COPIED}]
    BY DEF Init, NoBlocks
  <2>4. upper \in [Cells -> Byte] /\ usize \in 0 .. MaxPos
    BY ConstAssumption DEF Init, Byte
  <2>5. w \in WriteCall /\ rd \in [Readers -> ReadCall]
    BY <1>2, <1>3 DEF Init
  <2>6. allowed \in [Readers -> [Cells -> SUBSET Obs]]
    BY DEF Init, NoCells
  <2> QED
    BY <1>4, <2>1, <2>2, <2>3, <2>4, <2>5, <2>6 DEF TypeOK
<1>6. CowInv /\ WriterInv
  BY DEF Init, CowInv, WriterInv, NoWrite, Active
<1>7. ReaderInv
  BY ConstAssumption DEF Init, ReaderInv, NoRead
<1> QED
  BY <1>5, <1>6, <1>7 DEF TypeInv

\* Opening the file for writing.
LEMMA CopyUpType ==
  ASSUME TypeInv, CopyUp \/ CopyUpTrunc
  PROVE  TypeInv'
<1>1. ~copiedUp /\ copiedUp' = TRUE /\ w' = w /\ rd' = rd /\ upper' = upper /\ usize' = usize
      /\ copy_count' = copy_count /\ w.pc = "idle"
  BY DEF CopyUp, CopyUpTrunc, CopyUpInode, upperVars, TypeInv, CowInv
<1>2. \/ cow_status' = TRUE /\ block_count' = NBlocks /\ block_status' = NoBlocks /\ LowerSize # 0
      \/ UNCHANGED <<cow_status, block_count, block_status>>
  BY DEF CopyUp, CopyUpTrunc, CopyUpInode, NBlocks
<1>3. ideal' \in [Cells -> SUBSET Obs] /\ allowed' \in [Readers -> [Cells -> SUBSET Obs]]
  <2>1. [c \in Cells |-> {Eof}] \in [Cells -> SUBSET Obs]
    BY DEF Obs
  <2>2. TypeOK
    BY DEF TypeInv
  <2>3. CASE CopyUp
    BY <2>2, <2>3 DEF CopyUp, ghostVars, TypeOK
  <2>4. CASE CopyUpTrunc
    BY <2>1, <2>2, <2>4, IdealType DEF CopyUpTrunc
  <2> QED
    BY <2>3, <2>4
<1>4. NoBlocks \in [Blocks -> {UNCOPY, COPIED}]
  BY DEF NoBlocks
<1>5. TypeOK'
  BY <1>1, <1>2, <1>3, <1>4 DEF TypeInv, TypeOK
<1>6. CowInv'
  BY <1>1, <1>2, TableSize DEF TypeInv, CowInv
<1>7. WriterInv'
  BY <1>1 DEF TypeInv, WriterInv, Active
<1>8. ReaderInv'
  BY <1>1 DEF TypeInv, ReaderInv
<1> QED
  BY <1>5, <1>6, <1>7, <1>8 DEF TypeInv

\* The start of a write.
LEMMA BeginType ==
  ASSUME TypeInv, NEW p \in 0 .. MaxPos, NEW n \in 1 .. MaxPos, NEW x \in Data,
         (p + n <= MaxPos /\ WriteBegin(p, n, x)) \/ AppendBegin(n, x)
  PROVE  TypeInv'
<1> USE DEF TypeInv
<1>1. /\ copiedUp /\ UNCHANGED <<cowVars, upperVars, rd, ghostVars>>
  BY DEF WriteBegin, AppendBegin
<1>2. /\ NoWrite \in WriteCall /\ x \in Byte
      /\ {"start", "plain", "append"} \subseteq WriterPcs
      /\ n \in 0 .. MaxPos
  BY ConstAssumption, NoCallType DEF WriterPcs
<1>3. w' \in WriteCall /\ WriterInv'
  <2>1. CASE p + n <= MaxPos /\ WriteBegin(p, n, x)
    <3>1. w' = [NoWrite EXCEPT !.pc = IF cow_status THEN "start" ELSE "plain",
                          !.pos = p, !.n = n, !.val = x]
      BY <2>1 DEF WriteBegin
    <3>2. w' \in WriteCall
      BY <1>2, <3>1 DEF WriteCall
    <3>3. /\ w'.pc = IF cow_status THEN "start" ELSE "plain"
          /\ w'.app = FALSE /\ w'.pos = p /\ w'.n = n /\ w'.ret = 0
      BY <3>1 DEF NoWrite
    <3> QED
      BY <1>1, <2>1, <3>2, <3>3 DEF TypeOK, cowVars, WriterInv, Active
  <2>2. CASE AppendBegin(n, x)
    <3>1. usize \in Nat /\ FileEnd + n <= MaxPos /\ usize <= FileEnd
          /\ FileEnd = IF cow_status THEN Larger(usize, LowerSize) ELSE usize
      BY <2>2, ConstAssumption DEF AppendBegin, TypeOK, FileEnd, Larger
    <3>2. CASE cow_status
      <4>1. w' = [NoWrite EXCEPT !.pc = "append", !.app = TRUE, !.n = n, !.val = x]
        BY <2>2, <3>2 DEF AppendBegin
      <4>2. w' \in WriteCall
        BY <1>2, <4>1 DEF WriteCall
      <4>3. w'.pc = "append" /\ w'.app = TRUE /\ w'.n = n /\ w'.ret = 0
        BY <4>1 DEF NoWrite
      <4> QED
        BY <1>1, <3>1, <3>2, <4>2, <4>3 DEF cowVars, upperVars, WriterInv, Active
    <3>3. CASE ~cow_status
      <4>1. w' = [NoWrite EXCEPT !.pc = "plain", !.app = TRUE, !.pos = usize, !.n = n, !.val = x]
        BY <2>2, <3>3 DEF AppendBegin
      <4>2. w' \in WriteCall
        BY <1>2, <4>1 DEF WriteCall, TypeOK
      <4>3. w'.pc = "plain" /\ w'.pos = usize /\ w'.n = n
        BY <4>1 DEF NoWrite
      <4> QED
        BY <1>1, <3>1, <3>3, <4>2, <4>3 DEF cowVars, upperVars, WriterInv, Active
    <3> QED
      BY <3>2, <3>3 DEF TypeOK
  <2> QED
    BY <2>1, <2>2
<1>4. TypeOK' /\ CowInv' /\ ReaderInv'
  BY <1>1, <1>3 DEF TypeOK, CowInv, ReaderInv, cowVars, upperVars, ghostVars
<1> QED
  BY <1>3, <1>4

\* Where the write stands when it copies a block.
LEMMA CopyTarget ==
  ASSUME TypeInv
  PROVE  /\ w.pc = "append" /\ NotCopied(block_count) => block_count \in Blocks
         /\ w.pc = "start" /\ StartNeedsCopy => StartBlock \in Blocks
         /\ w.pc = "end" /\ EndNeedsCopy => EndBlock \in Blocks
<1>1. Active(w.pc) => block_count = NBlocks /\ NBlocks >= 1 /\ NBlocks \in Nat
  BY TableSize DEF TypeInv, WriterInv, CowInv
<1>2. w.pos \in Nat /\ w.n \in Nat
  BY DEF TypeInv, TypeOK, WriteCall
<1>3. /\ ovl_get_block(w.pos) \in Nat /\ ovl_get_block(w.pos) >= 1
      /\ ovl_get_block(w.pos + w.n) \in Nat /\ ovl_get_block(w.pos + w.n) >= 1
  BY <1>2, BlockBounds
<1> QED
  BY <1>1, <1>3 DEF TypeInv, WriterInv, Active, NotCopied, StartNeedsCopy, EndNeedsCopy,
                    StartBlock, EndBlock, Blocks

\* The three steps that bring up a block.
LEMMA CopyStepType ==
  ASSUME TypeInv, AppendCopy \/ CopyStartBlock \/ CopyEndBlock
  PROVE  TypeInv'
<1> USE DEF TypeInv
<1>1. UNCHANGED <<cowVars, rd, ghostVars>>
  BY DEF AppendCopy, CopyStartBlock, CopyEndBlock
<1>2. /\ upper' \in [Cells -> Byte] /\ usize' \in 0 .. MaxPos
      /\ usize <= usize' /\ usize' <= Larger(usize, LowerSize)
  <2>1. CASE UNCHANGED upperVars
    BY <2>1, ConstAssumption DEF upperVars, TypeOK, Larger
  <2>2. ASSUME NEW b \in Blocks, CopyUpWholeBlock(b) \/ CopyUpBlockFails(b)
        PROVE  /\ upper' \in [Cells -> Byte] /\ usize' \in 0 .. MaxPos
               /\ usize <= usize' /\ usize' <= Larger(usize, LowerSize)
    <3>1. PICK e \in BlockStart(b) .. BlockStart(b) + CopyLen(b) : ovl_copy_up_block(b, e)
      BY <2>2, WholeBlock DEF CopyUpWholeBlock, CopyUpBlockFails
    <3> QED
      BY <3>1, CopyType
  <2> QED
    BY <2>1, <2>2, CopyTarget DEF AppendCopy, CopyStartBlock, CopyEndBlock
<1>3. \/ w' = NoWrite
      \/ w.pc = "append" /\ w' = [w EXCEPT !.pc = "data", !.pos = usize']
      \/ w.pc = "start" /\ w' = [w EXCEPT !.pc = "end", !.partial = TRUE]
      \/ w.pc = "start" /\ w' = [w EXCEPT !.pc = "end"]
      \/ w.pc = "end" /\ w' = [w EXCEPT !.pc = "data"]
  BY DEF AppendCopy, CopyStartBlock, CopyEndBlock, CopyUpBlockFails, upperVars
<1>4. w' \in WriteCall
  <2>1. {"data", "end"} \subseteq WriterPcs
    BY DEF WriterPcs
  <2> QED
    BY <1>2, <1>3, <2>1, NoCallType DEF TypeOK, WriteCall
<1>5. copiedUp /\ copiedUp' /\ cow_status' = cow_status
  BY <1>1, <1>3 DEF WriterInv, CowInv, cowVars, Active,
                    AppendCopy, CopyStartBlock, CopyEndBlock
<1>6. WriterInv'
  <2>1. Larger(usize, LowerSize) \in Nat /\ usize' \in Nat /\ w.n \in Nat /\ MaxPos \in Nat
    BY <1>2, ConstAssumption DEF TypeOK, Larger, WriteCall
  <2>2. CASE w' = NoWrite
    BY <2>2 DEF WriterInv, Active, NoWrite
  <2>3. CASE w.pc = "append" /\ w' = [w EXCEPT !.pc = "data", !.pos = usize']
    <3>1. w'.pc = "data" /\ w'.pos = usize' /\ w'.n = w.n /\ w'.ret = w.ret
      BY <2>3 DEF TypeOK, WriteCall
    <3> QED
      BY <1>2, <1>5, <2>1, <2>3, <3>1 DEF WriterInv, Active
  <2>4. CASE w.pc \in {"start", "end"} /\ w' # NoWrite
    <3>1. /\ w'.pc = IF w.pc = "start" THEN "end" ELSE "data"
          /\ w'.pos = w.pos /\ w'.n = w.n /\ w'.ret = w.ret /\ w'.app = w.app
      BY <1>3, <2>4 DEF TypeOK, WriteCall
    <3> QED
      BY <1>5, <2>1, <2>4, <3>1 DEF WriterInv, Active
  <2> QED
    BY <1>3, <2>2, <2>3, <2>4
<1>7. TypeOK' /\ CowInv' /\ ReaderInv'
  BY <1>1, <1>2, <1>4, <1>5 DEF TypeOK, CowInv, ReaderInv, cowVars, ghostVars
<1> QED
  BY <1>6, <1>7

\* A write into the upper file keeps it, and the history, well-formed.
LEMMA UpperWriteType ==
  ASSUME TypeOK, NEW p \in Nat, NEW k \in Nat, NEW x \in Byte, p + k <= MaxPos,
         UpperWrite(p, k, x), SetIdeal(MayWrite(p, k, x)) \/ SetIdeal(HasWritten(p, k, x))
  PROVE  /\ upper' \in [Cells -> Byte] /\ usize' \in 0 .. MaxPos
         /\ ideal' \in [Cells -> SUBSET Obs]
         /\ allowed' \in [Readers -> [Cells -> SUBSET Obs]]
<1>1. upper' \in [Cells -> Byte] /\ usize' \in 0 .. MaxPos
  BY ConstAssumption DEF TypeOK, UpperWrite, Larger
<1>2. {x} \in SUBSET Obs /\ {0} \in SUBSET Obs
  BY DEF Obs, Byte
<1>3. MayWrite(p, k, x) \in [Cells -> SUBSET Obs]
  BY <1>2 DEF MayWrite, TypeOK
<1>4. HasWritten(p, k, x) \in [Cells -> SUBSET Obs]
  BY <1>2 DEF HasWritten, TypeOK
<1> QED
  BY <1>1, <1>3, <1>4, IdealType

\* The write itself.
LEMMA WriteDataType ==
  ASSUME TypeInv, WriteData
  PROVE  TypeInv'
<1> USE DEF TypeInv
<1>1. PICK k \in Chunks(w.n - w.ret) :
        /\ UpperWrite(w.pos + w.ret, k, w.val)
        /\ SetIdeal(MayWrite(w.pos + w.ret, k, w.val))
        /\ w' = IF w.ret + k < w.n - (w.ret + k)
                  THEN [w EXCEPT !.ret = w.ret + k]
                  ELSE [w EXCEPT !.ret = w.ret + k, !.pc = "mark", !.i = StartBlock]
  BY DEF WriteData
<1>2. /\ w.pc = "data" /\ cow_status /\ copiedUp
      /\ w.pos \in Nat /\ w.n \in Nat /\ w.ret \in Nat /\ w.val \in Byte /\ MaxPos \in Nat
      /\ w.pos + w.n <= MaxPos /\ w.ret < w.n - w.ret /\ w.n >= 1
  BY ConstAssumption DEF WriteData, WriterInv, CowInv, Active, TypeOK, WriteCall
<1>3. k \in Nat /\ k <= w.n - w.ret
  BY <1>2 DEF Chunks
<1>4. StartBlock \in Nat /\ StartBlock >= 1
  BY <1>2, BlockBounds, TableSize DEF StartBlock, CowInv
<1>5. /\ upper' \in [Cells -> Byte] /\ usize' \in 0 .. MaxPos
      /\ ideal' \in [Cells -> SUBSET Obs]
      /\ allowed' \in [Readers -> [Cells -> SUBSET Obs]]
  <2>1. w.pos + w.ret \in Nat /\ (w.pos + w.ret) + k <= MaxPos /\ TypeOK
    BY <1>2, <1>3
  <2> QED
    BY <1>1, <1>2, <1>3, <2>1, UpperWriteType
<1>6. w' \in WriteCall
  <2>1. "mark" \in WriterPcs /\ w.ret + k \in 0 .. MaxPos
    BY <1>2, <1>3 DEF WriterPcs
  <2> QED
    BY <1>1, <1>4, <2>1 DEF TypeOK, WriteCall
<1>7. UNCHANGED <<cowVars, rd>>
  BY DEF WriteData
<1>8. WriterInv'
  <2>1. /\ w'.pos = w.pos /\ w'.n = w.n /\ w'.ret = w.ret + k /\ w'.app = w.app
        /\ w'.pc = IF w.ret + k < w.n - (w.ret + k) THEN "data" ELSE "mark"
        /\ w'.pc = "mark" => w'.i = StartBlock
    BY <1>1, <1>2 DEF TypeOK, WriteCall
  <2>2. StartBlock' = StartBlock
    BY <1>7, <2>1 DEF StartBlock, cowVars
  <2>3. w'.ret <= w'.n /\ w'.ret \in Nat
    BY <1>2, <1>3, <2>1
  <2> QED
    BY <1>2, <1>4, <1>7, <2>1, <2>2, <2>3 DEF WriterInv, Active, cowVars
<1>9. TypeOK' /\ CowInv' /\ ReaderInv'
  BY <1>2, <1>5, <1>6, <1>7 DEF TypeOK, CowInv, ReaderInv, cowVars
<1> QED
  BY <1>8, <1>9

\* The ends of a write other than WriteReturn.
LEMMA WriteEndType ==
  ASSUME TypeInv, WriteFails \/ WritePlain
  PROVE  TypeInv'
<1> USE DEF TypeInv
<1>1. w.pc \in {"data", "plain"} /\ w' = NoWrite /\ UNCHANGED <<cowVars, rd>>
  BY DEF WriteFails, WritePlain
<1>2. /\ w.pos \in Nat /\ w.n \in Nat /\ w.val \in Byte /\ copiedUp
      /\ w.pos + w.n <= MaxPos
  BY <1>1 DEF WriterInv, CowInv, Active, TypeOK, WriteCall
<1>3. /\ upper' \in [Cells -> Byte] /\ usize' \in 0 .. MaxPos
      /\ ideal' \in [Cells -> SUBSET Obs]
      /\ allowed' \in [Readers -> [Cells -> SUBSET Obs]]
  <2>1. CASE WriteFails
    BY <2>1 DEF WriteFails, upperVars, ghostVars, TypeOK
  <2>2. CASE WritePlain
    <3>1. PICK k \in Chunks(w.n) : /\ UpperWrite(w.pos, k, w.val)
                                   /\ SetIdeal(HasWritten(w.pos, k, w.val))
      BY <2>2 DEF WritePlain
    <3>2. k \in Nat /\ w.pos + k <= MaxPos
      BY <1>2, ConstAssumption DEF Chunks
    <3> QED
      BY <1>2, <3>1, <3>2, UpperWriteType
  <2> QED
    BY <2>1, <2>2
<1>4. WriterInv'
  BY <1>1 DEF WriterInv, Active, NoWrite
<1>5. TypeOK' /\ CowInv' /\ ReaderInv'
  BY <1>1, <1>2, <1>3, NoCallType DEF TypeOK, CowInv, ReaderInv, cowVars
<1> QED
  BY <1>4, <1>5

\* The marking loop and the return from it.
LEMMA MarkType ==
  ASSUME TypeInv, MarkBlock \/ WriteReturn
  PROVE  TypeInv'
<1> USE DEF TypeInv
<1>1. /\ w.pc = "mark" /\ cow_status /\ copiedUp /\ block_count = NBlocks /\ NBlocks \in Nat
      /\ w.i \in Nat /\ w.i >= 1 /\ w.i >= StartBlock
      /\ copiedUp' = copiedUp /\ block_count' = block_count /\ UNCHANGED <<upperVars, rd>>
  BY TableSize DEF MarkBlock, WriteReturn, WriterInv, CowInv, Active, TypeOK, WriteCall
<1>2. CASE MarkBlock
  <2>1. /\ w' = [w EXCEPT !.i = w.i + 1] /\ cow_status' = cow_status
        /\ w.i \in Blocks /\ UNCHANGED ghostVars
    BY <1>1, <1>2 DEF MarkBlock, Blocks
  <2>2. w' \in WriteCall /\ w'.i = w.i + 1 /\ w'.pc = "mark"
        /\ w'.app = w.app /\ w'.pos = w.pos /\ w'.n = w.n /\ w'.ret = w.ret
    BY <1>1, <2>1 DEF TypeOK, WriteCall
  <2>3. StartBlock' = StartBlock /\ StartBlock \in Int
    BY <1>1, <2>2, BlockBounds DEF StartBlock, TypeOK, WriteCall
  <2>4. WriterInv'
    BY <1>1, <2>1, <2>2, <2>3 DEF WriterInv, Active
  <2>5. block_status' \in [Blocks -> {UNCOPY, COPIED}] /\ copy_count' \in Nat
    BY <1>2, <2>1 DEF MarkBlock, TypeOK
  <2> QED
    BY <1>1, <2>1, <2>2, <2>4, <2>5 DEF TypeOK, CowInv, ReaderInv, upperVars, ghostVars
<1>3. CASE WriteReturn
  <2>1. /\ w' = NoWrite /\ cow_status' \in BOOLEAN /\ (cow_status' => cow_status)
        /\ UNCHANGED <<copy_count, block_status>>
        /\ SetIdeal(HasWritten(w.pos, w.ret, w.val))
    BY <1>3 DEF WriteReturn, TypeOK
  <2>2. HasWritten(w.pos, w.ret, w.val) \in [Cells -> SUBSET Obs]
    <3>1. {w.val} \in SUBSET Obs /\ {0} \in SUBSET Obs
      BY DEF Obs, Byte, TypeOK, WriteCall
    <3> QED
      BY <3>1 DEF HasWritten, TypeOK
  <2>3. ideal' \in [Cells -> SUBSET Obs] /\ allowed' \in [Readers -> [Cells -> SUBSET Obs]]
    BY <2>1, <2>2, IdealType
  <2>4. WriterInv'
    BY <2>1 DEF WriterInv, Active, NoWrite
  <2> QED
    BY <1>1, <2>1, <2>3, <2>4, NoCallType DEF TypeOK, CowInv, ReaderInv, upperVars
<1> QED
  BY <1>2, <1>3

\* setattr and eviction.
LEMMA TruncateType ==
  ASSUME TypeInv, NEW n \in 0 .. MaxPos, Truncate(n)
  PROVE  TypeInv'
<1> USE DEF TypeInv
<1>1. /\ w.pc = "idle" /\ UNCHANGED <<w, rd>> /\ copiedUp' = TRUE /\ copy_count' = copy_count
      /\ usize' = n /\ upper' = [c \in Cells |-> IF c < n THEN upper[c] ELSE 0]
  BY DEF Truncate, CopyUpInode, cowVars, TypeOK
<1>2. \/ ~copiedUp /\ cow_status' = TRUE /\ block_count' = NBlocks /\ block_status' = NoBlocks
         /\ LowerSize # 0
      \/ UNCHANGED <<cow_status, block_count, block_status>>
  BY DEF Truncate, CopyUpInode, NBlocks, cowVars
<1>3. ideal' \in [Cells -> SUBSET Obs] /\ allowed' \in [Readers -> [Cells -> SUBSET Obs]]
  <2> DEFINE new == [c \in Cells |-> IF c >= n THEN {Eof}
                               ELSE IF Eof \in ideal[c] THEN (ideal[c] \ {Eof}) \cup {0}
                               ELSE ideal[c]]
  <2>1. {Eof} \in SUBSET Obs /\ {0} \in SUBSET Obs
    BY DEF Obs, Byte
  <2>2. new \in [Cells -> SUBSET Obs]
    BY <2>1 DEF TypeOK
  <2>3. SetIdeal(new) /\ TypeOK
    BY DEF Truncate
  <2> QED
    BY <2>2, <2>3, IdealType
<1>4. NoBlocks \in [Blocks -> {UNCOPY, COPIED}] /\ upper' \in [Cells -> Byte]
  BY <1>1 DEF NoBlocks, TypeOK, Byte
<1>5. TypeOK'
  BY <1>1, <1>2, <1>3, <1>4 DEF TypeOK
<1>6. CowInv' /\ WriterInv' /\ ReaderInv'
  BY <1>1, <1>2, TableSize DEF CowInv, WriterInv, ReaderInv, Active
<1> QED
  BY <1>5, <1>6

LEMMA EvictType ==
  ASSUME TypeInv, Evict
  PROVE  TypeInv'
<1> USE DEF TypeInv
<1>1. /\ w.pc = "idle" /\ UNCHANGED <<copiedUp, upperVars, w, rd, ghostVars>> /\ copiedUp
      /\ cow_status' = FALSE /\ block_count' = 0 /\ copy_count' = 0 /\ block_status' = NoBlocks
  BY DEF Evict
<1>2. NoBlocks \in [Blocks -> {UNCOPY, COPIED}]
  BY DEF NoBlocks
<1>3. TypeOK'
  BY <1>1, <1>2 DEF TypeOK, upperVars, ghostVars
<1>4. CowInv' /\ WriterInv' /\ ReaderInv'
  BY <1>1 DEF CowInv, WriterInv, ReaderInv, Active
<1> QED
  BY <1>3, <1>4

\* A step of a read changes that read only: it is enough that its record stays
\* well-formed.
LEMMA ReadStepType ==
  ASSUME TypeInv, NEW r \in Readers, NEW rec \in ReadCall, rd' = [rd EXCEPT ![r] = rec],
         UNCHANGED <<cowVars, upperVars, w, ideal>>,
         allowed' \in [Readers -> [Cells -> SUBSET Obs]],
         rec.pos + rec.cnt <= MaxPos,
         rec.pc \notin {"idle", "loop", "ret"} => rec.cnt >= 1,
         rec.pc = "loop" => rec.cnt >= 1 \/ rec.some
  PROVE  TypeInv'
<1> USE DEF TypeInv
<1>1. TypeOK'
  BY DEF TypeOK, cowVars, upperVars
<1>2. CowInv' /\ WriterInv'
  BY DEF CowInv, WriterInv, cowVars, upperVars, StartBlock
<1>3. ReaderInv'
  <2> SUFFICES ASSUME NEW q \in Readers
               PROVE  /\ rd'[q].pos + rd'[q].cnt <= MaxPos
                      /\ rd'[q].pc \notin {"idle", "loop", "ret"} => rd'[q].cnt >= 1
                      /\ rd'[q].pc = "loop" => rd'[q].cnt >= 1 \/ rd'[q].some
    BY DEF ReaderInv
  <2>1. rd'[q] = IF q = r THEN rec ELSE rd[q]
    BY DEF TypeOK
  <2> QED
    BY <2>1 DEF ReaderInv
<1> QED
  BY <1>1, <1>2, <1>3

\* The cells that each file can deliver are bytes.
LEMMA ContentType ==
  ASSUME TypeOK
  PROVE  /\ usize \in Nat /\ LowerSize \in Nat
         /\ \A c \in Cells : upper[c] \in Byte
         /\ \A c \in Cells : c < LowerSize => LowerData[c] \in Byte
  BY ConstAssumption DEF TypeOK, Cells

\* A read that ends the call.
LEMMA LastReadType ==
  ASSUME TypeInv, NEW r \in Readers, rd[r].cnt >= 1,
         NEW content, NEW size \in Nat,
         \A c \in Cells : c < size => content[c] \in Byte
  PROVE  LET rec == Returning(Deliver(rd[r], Avail(rd[r].pos, rd[r].cnt, size), content))
         IN  rec \in ReadCall /\ rec.pc = "ret" /\ rec.pos + rec.cnt <= MaxPos
<1> DEFINE k == Avail(rd[r].pos, rd[r].cnt, size)
           d == Deliver(rd[r], k, content)
<1>1. /\ rd[r] \in ReadCall /\ rd[r].pos \in Nat /\ rd[r].cnt \in Nat /\ MaxPos \in Nat
      /\ rd[r].pos + rd[r].cnt <= MaxPos
  BY ConstAssumption DEF TypeInv, TypeOK, ReaderInv, ReadCall
<1>2. k \in 0 .. rd[r].cnt /\ \A c \in Nat : c < rd[r].pos + k => c < rd[r].pos \/ c < size
  BY <1>1, AvailFits
<1>3. \A c \in Cells : rd[r].pos <= c /\ c < rd[r].pos + k => content[c] \in Byte
  BY <1>1, <1>2 DEF Cells
<1> HIDE DEF k
<1>4. /\ d \in ReadCall /\ d.pos = rd[r].pos + k /\ d.cnt = rd[r].cnt - k
      /\ d.some = (rd[r].some \/ k > 0)
  BY <1>1, <1>2, <1>3, DeliverType
<1> HIDE DEF d
<1>5. d.some \/ d.pos \in Cells
  <2>1. CASE k > 0
    BY <1>4, <2>1
  <2>2. CASE k = 0
    BY <1>1, <1>4, <2>2 DEF Cells
  <2> QED
    BY <1>2, <2>1, <2>2
<1>6. Returning(d) \in ReadCall /\ Returning(d).pc = "ret"
      /\ Returning(d).pos = d.pos /\ Returning(d).cnt = d.cnt
  BY <1>4, <1>5, ReturningType
<1> QED
  BY <1>1, <1>2, <1>4, <1>6 DEF k, d

\* One turn of the inner loop of a block read, from either layer.
LEMMA BlockReadType ==
  ASSUME TypeInv, NEW r \in Readers, rd[r].cnt >= 1, NEW content, NEW size \in Nat,
         Avail(rd[r].pos, BlockPart(r), size) # 0,
         \A c \in Cells : c < size => content[c] \in Byte
  PROVE  LET k == Avail(rd[r].pos, BlockPart(r), size)
             d == Deliver(rd[r], k, content)
             e == [d EXCEPT !.pc = "loop"]
         IN  /\ d \in ReadCall /\ d.pc = rd[r].pc /\ d.pos + d.cnt <= MaxPos
             /\ k # BlockPart(r) => d.cnt >= 1
             /\ e \in ReadCall /\ e.pc = "loop" /\ e.pos + e.cnt <= MaxPos /\ e.some
<1> DEFINE k == Avail(rd[r].pos, BlockPart(r), size)
           d == Deliver(rd[r], k, content)
<1>1. /\ rd[r] \in ReadCall /\ rd[r].pos \in Nat /\ rd[r].cnt \in Nat /\ MaxPos \in Nat
      /\ rd[r].pos + rd[r].cnt <= MaxPos /\ rd[r].some \in BOOLEAN
  BY ConstAssumption DEF TypeInv, TypeOK, ReaderInv, ReadCall
<1>2. BlockPart(r) \in 0 .. rd[r].cnt
  BY ChunkFits
<1>3. k \in 0 .. BlockPart(r) /\ \A c \in Nat : c < rd[r].pos + k => c < rd[r].pos \/ c < size
  <2>1. BlockPart(r) \in Nat
    BY <1>2
  <2> QED
    BY <1>1, <2>1, AvailFits
<1> HIDE DEF k
<1>4. k \in 0 .. rd[r].cnt
  BY <1>1, <1>2, <1>3
<1>5. \A c \in Cells : rd[r].pos <= c /\ c < rd[r].pos + k => content[c] \in Byte
  BY <1>1, <1>3, <1>4 DEF Cells
<1>6. /\ d \in ReadCall /\ d.pc = rd[r].pc /\ d.pos = rd[r].pos + k /\ d.cnt = rd[r].cnt - k
      /\ d.some = (rd[r].some \/ k > 0)
  BY <1>1, <1>4, <1>5, DeliverType
<1> HIDE DEF d
<1>7. k > 0 /\ (k # BlockPart(r) => d.cnt >= 1) /\ d.pos + d.cnt <= MaxPos /\ d.some
  <2>1. k > 0 /\ (k # BlockPart(r) => d.cnt >= 1) /\ d.pos + d.cnt <= MaxPos
    <3>1. k # 0
      BY DEF k
    <3>2. k \in Nat /\ BlockPart(r) \in Nat /\ k <= BlockPart(r) /\ BlockPart(r) <= rd[r].cnt
      BY <1>2, <1>3
    <3> QED
      BY <1>1, <1>6, <3>1, <3>2
  <2> QED
    BY <1>6, <2>1
<1>8. "loop" \in ReaderPcs
  BY DEF ReaderPcs
<1>9. /\ [d EXCEPT !.pc = "loop"] \in ReadCall
      /\ [d EXCEPT !.pc = "loop"].pc = "loop" /\ [d EXCEPT !.pc = "loop"].some = d.some
      /\ [d EXCEPT !.pc = "loop"].pos = d.pos /\ [d EXCEPT !.pc = "loop"].cnt = d.cnt
  BY <1>6, <1>8 DEF ReadCall
<1> QED
  BY <1>6, <1>7, <1>9 DEF d, k

\* Every step of a read.
LEMMA ReaderType ==
  ASSUME TypeInv, NEW r \in Readers,
         (\E s \in Spans : ReadBegin(r, s[1], s[2])) \/ ReaderStep(r) \/ ReadFails(r)
  PROVE  TypeInv'
<1> DEFINE R == rd[r]
<1>0. /\ R \in ReadCall /\ R.pos \in Nat /\ R.cnt \in Nat /\ MaxPos \in Nat
      /\ R.pos + R.cnt <= MaxPos /\ TypeOK
      /\ allowed \in [Readers -> [Cells -> SUBSET Obs]] /\ ideal \in [Cells -> SUBSET Obs]
      /\ R.pc \notin {"idle", "loop", "ret"} => R.cnt >= 1
      /\ R.pc = "loop" => R.cnt >= 1 \/ R.some
  BY ConstAssumption DEF TypeInv, TypeOK, ReaderInv, ReadCall
<1>00. {"enter", "plain", "loop", "tail", "upper", "lower", "ret"} \subseteq ReaderPcs
  BY DEF ReaderPcs
<1>1. CASE \E s \in Spans : ReadBegin(r, s[1], s[2])
  <2>1. PICK p \in 0 .. MaxPos, n \in 1 .. MaxPos : p + n <= MaxPos /\ ReadBegin(r, p, n)
    BY <1>1 DEF Spans
  <2> DEFINE rl == IF copiedUp THEN "upper" ELSE "lower"
             rec == [NoRead EXCEPT !.pc = "enter", !.pos = p, !.cnt = n, !.real = rl]
  <2>2. rl \in {"upper", "lower"} /\ n \in 0 .. MaxPos
    BY <1>0
  <2>3. rd' = [rd EXCEPT ![r] = rec] /\ UNCHANGED <<cowVars, upperVars, w, ideal>>
    BY <2>1 DEF ReadBegin
  <2>4. allowed' \in [Readers -> [Cells -> SUBSET Obs]]
    BY <1>0, <2>1 DEF ReadBegin
  <2> HIDE DEF rl
  <2>5. rec \in ReadCall
    BY <1>00, <2>2, NoCallType DEF ReadCall
  <2>6. rec.pc = "enter" /\ rec.pos = p /\ rec.cnt = n
    BY DEF NoRead
  <2> HIDE DEF rec
  <2>7. rec.pos + rec.cnt <= MaxPos /\ rec.cnt >= 1 /\ rec.pc # "loop"
    BY <2>1, <2>6
  <2> QED
    BY <2>3, <2>4, <2>5, <2>7, ReadStepType
<1>2. CASE ReadReturn(r)
  <2>1. rd' = [rd EXCEPT ![r] = NoRead] /\ UNCHANGED <<cowVars, upperVars, w, ideal>>
    BY <1>2 DEF ReadReturn
  <2>2. allowed' \in [Readers -> [Cells -> SUBSET Obs]]
    BY <1>0, <1>2 DEF ReadReturn, NoCells
  <2>3. NoRead.pos + NoRead.cnt <= MaxPos /\ NoRead.pc = "idle"
    BY <1>0 DEF NoRead
  <2> QED
    BY <2>1, <2>2, <2>3, NoCallType, ReadStepType
<1>3. ASSUME UNCHANGED <<cowVars, upperVars, w, ghostVars>>,
             NEW rec \in ReadCall, rd' = [rd EXCEPT ![r] = rec],
             rec.pos + rec.cnt <= MaxPos,
             rec.pc \notin {"idle", "loop", "ret"} => rec.cnt >= 1,
             rec.pc = "loop" => rec.cnt >= 1 \/ rec.some
      PROVE  TypeInv'
  <2>1. allowed' \in [Readers -> [Cells -> SUBSET Obs]] /\ UNCHANGED <<cowVars, upperVars, w, ideal>>
    BY <1>0, <1>3 DEF ghostVars
  <2> QED
    BY <1>3, <2>1, ReadStepType
\* A step that only moves to another point of the code ...
<1>4. ASSUME UNCHANGED <<cowVars, upperVars, w, ghostVars>>, R.cnt >= 1,
             NEW pc \in ReaderPcs, NEW le \in BOOLEAN, NEW rec,
             rec = [R EXCEPT !.pc = pc] \/ rec = [R EXCEPT !.pc = pc, !.lower_end = le],
             rd' = [rd EXCEPT ![r] = rec]
      PROVE  TypeInv'
  <2>1. rec \in ReadCall /\ rec.pos = R.pos /\ rec.cnt = R.cnt
    BY <1>0, <1>4 DEF ReadCall
  <2> QED
    BY <1>0, <1>3, <1>4, <2>1
\* ... or returns with what it has.
<1>5. ASSUME UNCHANGED <<cowVars, upperVars, w, ghostVars>>,
             R.cnt >= 1 \/ R.some,
             rd' = [rd EXCEPT ![r] = Returning(R)]
      PROVE  TypeInv'
  <2>1. R.some \/ R.pos \in Cells
    BY <1>0, <1>5 DEF Cells
  <2>2. Returning(R) \in ReadCall /\ Returning(R).pc = "ret"
        /\ Returning(R).pos = R.pos /\ Returning(R).cnt = R.cnt
    BY <1>0, <2>1, ReturningType
  <2> QED
    BY <1>0, <1>3, <1>5, <2>2
\* ... or reads what is left of the call from one file.
<1>6. ASSUME UNCHANGED <<cowVars, upperVars, w, ghostVars>>, R.cnt >= 1,
             LastRead(r, R.cnt, upper, usize) \/ LastRead(r, R.cnt, LowerData, LowerSize)
      PROVE  TypeInv'
  <2>1. ASSUME NEW content, NEW size \in Nat,
               \A c \in Cells : c < size => content[c] \in Byte,
               LastRead(r, R.cnt, content, size)
        PROVE  TypeInv'
    <3> DEFINE rec == Returning(Deliver(R, Avail(R.pos, R.cnt, size), content))
    <3>1. rec \in ReadCall /\ rec.pc = "ret" /\ rec.pos + rec.cnt <= MaxPos
      BY <1>6, <2>1, LastReadType
    <3>2. rd' = [rd EXCEPT ![r] = rec]
      BY <2>1 DEF LastRead
    <3> HIDE DEF rec
    <3> QED
      BY <1>3, <1>6, <3>1, <3>2
  <2>2. CASE LastRead(r, R.cnt, upper, usize)
    BY <1>0, <2>1, <2>2, ContentType
  <2>3. CASE LastRead(r, R.cnt, LowerData, LowerSize)
    BY <1>0, <2>1, <2>3, ContentType
  <2> QED
    BY <1>6, <2>2, <2>3
\* ... or reads one block's part of it.
<1>7. ASSUME UNCHANGED <<cowVars, upperVars, w, ghostVars>>, R.cnt >= 1,
             R.pc \in {"upper", "lower"},
             NEW content, NEW size \in Nat,
             Avail(R.pos, BlockPart(r), size) # 0,
             \A c \in Cells : c < size => content[c] \in Byte,
             LET k == Avail(R.pos, BlockPart(r), size)
             IN  \/ k = BlockPart(r)
                    /\ rd' = [rd EXCEPT ![r] = [Deliver(R, k, content) EXCEPT !.pc = "loop"]]
                 \/ k # BlockPart(r) /\ rd' = [rd EXCEPT ![r] = Deliver(R, k, content)]
      PROVE  TypeInv'
  <2> DEFINE k == Avail(R.pos, BlockPart(r), size)
             d == Deliver(R, k, content)
             e == [d EXCEPT !.pc = "loop"]
  <2>1. /\ d \in ReadCall /\ d.pc = R.pc /\ d.pos + d.cnt <= MaxPos
        /\ k # BlockPart(r) => d.cnt >= 1
        /\ e \in ReadCall /\ e.pc = "loop" /\ e.pos + e.cnt <= MaxPos /\ e.some
    BY <1>7, BlockReadType
  <2>2. \/ rd' = [rd EXCEPT ![r] = e]
        \/ k # BlockPart(r) /\ rd' = [rd EXCEPT ![r] = d]
    BY <1>7
  <2> HIDE DEF d, e
  <2> QED
    BY <1>3, <1>7, <2>1, <2>2
<1>8. CASE ReadEnter(r)
  BY <1>0, <1>00, <1>4, <1>8 DEF ReadEnter
<1>9. CASE ReadPlain(r)
  BY <1>0, <1>6, <1>9 DEF ReadPlain
<1>10. CASE ReadTail(r)
  BY <1>0, <1>6, <1>10 DEF ReadTail
<1>11. CASE ReadLoop(r)
  <2>1. /\ UNCHANGED <<cowVars, upperVars, w, ghostVars>> /\ R.pc = "loop"
        /\ \/ rd' = [rd EXCEPT ![r] = Returning(R)]
           \/ R.cnt # 0 /\ \E pc \in {"tail", "upper", "lower"} :
                             rd' = [rd EXCEPT ![r] = [R EXCEPT !.pc = pc]]
    BY <1>11 DEF ReadLoop
  <2>2. CASE rd' = [rd EXCEPT ![r] = Returning(R)]
    BY <1>0, <1>5, <2>1, <2>2
  <2>3. CASE R.cnt # 0 /\ \E pc \in {"tail", "upper", "lower"} :
                             rd' = [rd EXCEPT ![r] = [R EXCEPT !.pc = pc]]
    <3>1. PICK pc \in {"tail", "upper", "lower"} :
                 rd' = [rd EXCEPT ![r] = [R EXCEPT !.pc = pc]]
      BY <2>3
    <3>2. R.cnt >= 1 /\ pc \in ReaderPcs
      BY <1>0, <1>00, <2>3, <3>1
    <3> QED
      BY <1>4, <2>1, <3>1, <3>2
  <2> QED
    BY <2>1, <2>2, <2>3
<1>12. CASE ReadUpper(r)
  <2> DEFINE k == Avail(R.pos, BlockPart(r), usize)
  <2>1. /\ UNCHANGED <<cowVars, upperVars, w, ghostVars>> /\ R.pc = "upper" /\ R.cnt >= 1
        /\ \/ rd' = [rd EXCEPT ![r] = Returning(R)]
           \/ rd' = [rd EXCEPT ![r] = [R EXCEPT !.pc = "loop"]]
           \/ k # 0 /\ k = BlockPart(r)
              /\ rd' = [rd EXCEPT ![r] = [Deliver(R, k, upper) EXCEPT !.pc = "loop"]]
           \/ k # 0 /\ k # BlockPart(r) /\ rd' = [rd EXCEPT ![r] = Deliver(R, k, upper)]
    BY <1>0, <1>12 DEF ReadUpper
  <2>2. CASE rd' = [rd EXCEPT ![r] = Returning(R)]
    BY <1>5, <2>1, <2>2
  <2>3. CASE rd' = [rd EXCEPT ![r] = [R EXCEPT !.pc = "loop"]]
    BY <1>00, <1>4, <2>1, <2>3
  <2>4. usize \in Nat /\ \A c \in Cells : c < usize => upper[c] \in Byte
    BY <1>0, ContentType
  <2> HIDE DEF k
  <2> QED
    BY <1>7, <2>1, <2>2, <2>3, <2>4 DEF k
<1>13. CASE ReadLower(r)
  <2> DEFINE k == Avail(R.pos, BlockPart(r), LowerSize)
  <2>1. /\ UNCHANGED <<cowVars, upperVars, w, ghostVars>> /\ R.pc = "lower" /\ R.cnt >= 1
        /\ \/ rd' = [rd EXCEPT ![r] = [R EXCEPT !.pc = "loop", !.lower_end = TRUE]]
           \/ k # 0 /\ k = BlockPart(r)
              /\ rd' = [rd EXCEPT ![r] = [Deliver(R, k, LowerData) EXCEPT !.pc = "loop"]]
           \/ k # 0 /\ k # BlockPart(r) /\ rd' = [rd EXCEPT ![r] = Deliver(R, k, LowerData)]
    BY <1>0, <1>13 DEF ReadLower
  <2>2. CASE rd' = [rd EXCEPT ![r] = [R EXCEPT !.pc = "loop", !.lower_end = TRUE]]
    BY <1>00, <1>4, <2>1, <2>2
  <2>3. LowerSize \in Nat /\ \A c \in Cells : c < LowerSize => LowerData[c] \in Byte
    BY <1>0, ContentType
  <2> HIDE DEF k
  <2> QED
    BY <1>7, <2>1, <2>2, <2>3 DEF k
<1>14. CASE ReadFails(r)
  <2>1. UNCHANGED <<cowVars, upperVars, w, ghostVars>> /\ R.cnt >= 1
    BY <1>0, <1>14 DEF ReadFails
  <2>2. CASE rd' = [rd EXCEPT ![r].pc = "loop"]
    BY <1>00, <1>4, <2>1, <2>2
  <2>3. CASE rd' = [rd EXCEPT ![r] = Returning([R EXCEPT !.some = FALSE, !.failed = TRUE])]
    <3> DEFINE d == [R EXCEPT !.some = FALSE, !.failed = TRUE]
    <3>1. d \in ReadCall /\ d.pos = R.pos /\ d.cnt = R.cnt
      BY <1>0 DEF ReadCall
    <3>2. d.pos \in Cells /\ rd' = [rd EXCEPT ![r] = Returning(d)]
      BY <1>0, <2>1, <2>3, <3>1 DEF Cells
    <3> HIDE DEF d
    <3>3. Returning(d) \in ReadCall /\ Returning(d).pc = "ret"
          /\ Returning(d).pos = d.pos /\ Returning(d).cnt = d.cnt
      BY <3>1, <3>2, ReturningType
    <3> QED
      BY <1>0, <1>3, <2>1, <3>1, <3>2, <3>3
  <2>4. CASE rd' = [rd EXCEPT ![r].pc = "ret", ![r].got = {}]
    <3> DEFINE d == [R EXCEPT !.pc = "ret", !.got = {}]
    <3>1. d \in ReadCall /\ d.pos = R.pos /\ d.cnt = R.cnt /\ d.pc = "ret"
      BY <1>0, <1>00 DEF ReadCall
    <3>2. rd' = [rd EXCEPT ![r] = d]
      BY <2>4 DEF TypeInv, TypeOK
    <3> HIDE DEF d
    <3> QED
      BY <1>0, <1>3, <2>1, <3>1, <3>2
  <2> QED
    BY <1>14, <2>2, <2>3, <2>4 DEF ReadFails
<1> QED
  BY <1>1, <1>2, <1>8, <1>9, <1>10, <1>11, <1>12, <1>13, <1>14 DEF ReaderStep

LEMMA TypeNext == TypeInv /\ [Next]_vars => TypeInv'
<1> SUFFICES ASSUME TypeInv, [Next]_vars PROVE TypeInv'
  OBVIOUS
<1>1. CASE CopyUp \/ CopyUpTrunc
  BY <1>1, CopyUpType
<1>2. CASE \E s \in Spans, x \in Data : WriteBegin(s[1], s[2], x)
  <2>1. PICK s \in Spans, x \in Data : WriteBegin(s[1], s[2], x)
    BY <1>2
  <2>2. s[1] \in 0 .. MaxPos /\ s[2] \in 1 .. MaxPos /\ s[1] + s[2] <= MaxPos
    BY DEF Spans
  <2> QED
    BY <2>1, <2>2, BeginType
<1>3. CASE \E n \in 1 .. MaxPos, x \in Data : AppendBegin(n, x)
  <2>1. PICK n \in 1 .. MaxPos, x \in Data : AppendBegin(n, x)
    BY <1>3
  <2>2. 0 \in 0 .. MaxPos
    BY ConstAssumption
  <2> QED
    BY <2>1, <2>2, BeginType
<1>4. CASE AppendCopy \/ CopyStartBlock \/ CopyEndBlock
  BY <1>4, CopyStepType
<1>5. CASE WriteData
  BY <1>5, WriteDataType
<1>6. CASE MarkBlock \/ WriteReturn
  BY <1>6, MarkType
<1>7. CASE WritePlain \/ WriteFails
  BY <1>7, WriteEndType
<1>8. CASE \E n \in 0 .. MaxPos : Truncate(n)
  BY <1>8, TruncateType
<1>9. CASE Evict
  BY <1>9, EvictType
<1>10. CASE \E r \in Readers : (\E s \in Spans : ReadBegin(r, s[1], s[2]))
                               \/ ReaderStep(r) \/ ReadFails(r)
  BY <1>10, ReaderType
<1>11. CASE UNCHANGED vars
  BY <1>11 DEF vars, TypeInv, TypeOK, CowInv, WriterInv, ReaderInv, StartBlock
<1> QED
  BY <1>1, <1>2, <1>3, <1>4, <1>5, <1>6, <1>7, <1>8, <1>9, <1>10, <1>11
     DEF Next, WriterStep

\* Type correctness of the data path, whatever the environment does: no offset
\* leaves the file's bounds, the copy stays inside the lower file, and a call
\* stays on the path that it chose by cow_status.
THEOREM TypeCorrect == Spec => []TypeOK
<1>1. TypeInv => TypeOK
  BY DEF TypeInv
<1> QED
  BY TypeInit, TypeNext, <1>1, PTL DEF Spec

-----------------------------------------------------------------------------
(* copy_count counts. *)

CopiedBlocks == {b \in Blocks : block_status[b] = COPIED}

LEMMA BlocksFinite == IsFiniteSet(Blocks) /\ Cardinality(Blocks) = NBlocks
  BY TableSize, FS_Interval DEF Blocks

LEMMA CopiedFinite == IsFiniteSet(CopiedBlocks)
  BY BlocksFinite, FS_Subset DEF CopiedBlocks

LEMMA CountInit == Init => CopyCountExact
<1> SUFFICES ASSUME Init PROVE CopyCountExact
  OBVIOUS
<1>1. {b \in Blocks : block_status[b] = COPIED} = {}
  BY DEF Init, NoBlocks, UNCOPY, COPIED
<1> QED
  BY <1>1, FS_EmptySet DEF Init, CopyCountExact

LEMMA CountNext == TypeInv /\ CopyCountExact /\ [Next]_vars => CopyCountExact'
<1> SUFFICES ASSUME TypeInv, CopyCountExact, [Next]_vars PROVE CopyCountExact'
  OBVIOUS
<1>1. CASE UNCHANGED <<copy_count, block_status>>
  BY <1>1 DEF CopyCountExact
<1>2. CASE copy_count' = 0 /\ block_status' = NoBlocks
  <2>1. {b \in Blocks : block_status'[b] = COPIED} = {}
    BY <1>2 DEF NoBlocks, UNCOPY, COPIED
  <2> QED
    BY <1>2, <2>1, FS_EmptySet DEF CopyCountExact
<1>3. CASE MarkBlock
  <2>1. w.i \in Blocks
    <3>1. w.pc = "mark" /\ w.i <= block_count
      BY <1>3 DEF MarkBlock
    <3>2. w.i \in Nat /\ w.i >= 1 /\ block_count = NBlocks
      BY <3>1 DEF TypeInv, TypeOK, WriteCall, WriterInv, CowInv, Active
    <3> QED
      BY <3>1, <3>2, TableSize DEF Blocks
  <2>2. CASE block_status[w.i] = UNCOPY
    <3>1. /\ block_status' = [block_status EXCEPT ![w.i] = COPIED]
          /\ copy_count' = copy_count + 1
      BY <1>3, <2>2 DEF MarkBlock
    <3>2. CopiedBlocks' = CopiedBlocks \cup {w.i} /\ w.i \notin CopiedBlocks
      BY <2>1, <2>2, <3>1 DEF CopiedBlocks, TypeInv, TypeOK, UNCOPY, COPIED
    <3>3. Cardinality(CopiedBlocks') = Cardinality(CopiedBlocks) + 1
      BY <3>2, CopiedFinite, FS_AddElement
    <3> QED
      BY <3>1, <3>3 DEF CopyCountExact, CopiedBlocks
  <2>3. CASE block_status[w.i] # UNCOPY
    BY <1>1, <1>3, <2>3 DEF MarkBlock
  <2> QED
    BY <2>2, <2>3
<1>4. CASE CopyUp \/ CopyUpTrunc \/ (\E n \in 0 .. MaxPos : Truncate(n))
  <2>1. \/ UNCHANGED <<copy_count, block_status>>
        \/ ~copiedUp /\ block_status' = NoBlocks /\ copy_count' = copy_count
    BY <1>4 DEF CopyUp, CopyUpTrunc, Truncate, CopyUpInode, cowVars
  <2> QED
    BY <1>1, <1>2, <2>1 DEF TypeInv, CowInv
<1>5. CASE Evict
  BY <1>2, <1>5 DEF Evict
<1>6. CASE \/ \E s \in Spans, x \in Data : WriteBegin(s[1], s[2], x)
           \/ \E n \in 1 .. MaxPos, x \in Data : AppendBegin(n, x)
  BY <1>1, <1>6 DEF WriteBegin, AppendBegin, cowVars
<1>7. CASE AppendCopy \/ CopyStartBlock \/ CopyEndBlock \/ WriteData \/ WriteReturn
           \/ WritePlain \/ WriteFails
  BY <1>1, <1>7 DEF AppendCopy, CopyStartBlock, CopyEndBlock, WriteData, WriteReturn,
                    WritePlain, WriteFails, cowVars
<1>8. CASE \E r \in Readers : (\E s \in Spans : ReadBegin(r, s[1], s[2]))
                               \/ ReaderStep(r) \/ ReadFails(r)
  BY <1>1, <1>8 DEF ReadBegin, ReaderStep, ReadEnter, ReadPlain, ReadLoop, ReadTail,
                    ReadUpper, ReadLower, ReadReturn, ReadFails, cowVars
<1>9. CASE UNCHANGED vars
  BY <1>1, <1>9 DEF vars
<1> QED
  BY <1>3, <1>4, <1>5, <1>6, <1>7, <1>8, <1>9 DEF Next, WriterStep

\* copy_count is the number of COPIED blocks, whatever the environment does:
\* copy-on-write ends exactly when the last block has been copied.
THEOREM CopyCountCorrect == Spec => []CopyCountExact
<1>1. Init => TypeInv /\ CopyCountExact
  BY TypeInit, CountInit
<1>2. (TypeInv /\ CopyCountExact) /\ [Next]_vars => (TypeInv /\ CopyCountExact)'
  BY TypeNext, CountNext
<1> QED
  BY <1>1, <1>2, PTL DEF Spec

-----------------------------------------------------------------------------
(* The merged view. *)

LEMMA CellFacts ==
  ASSUME NEW c \in Cells
  PROVE  /\ c \in Nat /\ c < MaxPos
         /\ ovl_get_block(c) \in Nat /\ ovl_get_block(c) >= 1
         /\ c < LowerSize => ovl_get_block(c) \in Blocks
         /\ ovl_get_block(c) \in Blocks <=> ovl_get_block(c) <= NBlocks
<1>1. c \in Nat /\ c < MaxPos
  BY ConstAssumption DEF Cells
<1>2. ovl_get_block(c) \in Nat /\ ovl_get_block(c) >= 1
  BY <1>1, BlockBounds
<1>3. c < LowerSize => ovl_get_block(c) \in Blocks
  BY <1>1, LowerInTable
<1> QED
  BY <1>1, <1>2, <1>3, TableSize DEF Blocks

\* The last cell of the lower file lies in the last block of the table.
LEMMA LastCell ==
  ASSUME NBlocks >= 1
  PROVE  /\ LowerSize >= 1
         /\ LowerSize - 1 \in Cells
         /\ ovl_get_block(LowerSize - 1) = NBlocks
<1>1. NBlocks \in Nat /\ LowerSize <= NBlocks * BS /\ (NBlocks - 1) * BS < LowerSize
  BY TableSize
<1>2. (NBlocks - 1) * BS \in Nat
  BY <1>1, ConstAssumption
<1>3. LowerSize >= 1 /\ LowerSize - 1 \in Nat
  BY <1>1, <1>2, ConstAssumption
<1>4. NBlocks * BS \in Nat
  BY <1>1, ConstAssumption
<1>5. (NBlocks - 1) * BS <= LowerSize - 1 /\ LowerSize - 1 < NBlocks * BS
  BY <1>1, <1>2, <1>3, <1>4, ConstAssumption
<1>6. ovl_get_block(LowerSize - 1) = NBlocks
  BY <1>1, <1>3, <1>5, BlockUnique
<1> QED
  BY <1>3, <1>6, ConstAssumption DEF Cells

LEMMA DataInit == Init => DataInv
<1> SUFFICES ASSUME Init PROVE DataInv
  OBVIOUS
<1>1. \A c \in Cells : FromLower(c) /\ LowerView(c) \in ideal[c]
  BY DEF Init, FromLower, LowerView
<1>2. \A c \in Cells : c >= LowerSize => UpperView(c) \in ideal[c]
  BY ConstAssumption DEF Init, UpperView, Cells
<1>3. LowerRight /\ UpperRight /\ CopiedInside
  BY <1>1, <1>2 DEF LowerRight, UpperRight, CopiedInside
<1>4. ZeroTail /\ CowOffCopied
  BY DEF Init, ZeroTail, CowOffCopied
<1>5. StartPrepared /\ DataPrepared /\ MarkPrepared
  BY DEF Init, NoWrite, StartPrepared, DataPrepared, MarkPrepared
<1> QED
  BY <1>3, <1>4, <1>5 DEF DataInv

\* The part of DataInv that speaks of the file alone.
FileRight == LowerRight /\ UpperRight /\ CopiedInside /\ ZeroTail /\ CowOffCopied

LEMMA CopyUpData ==
  ASSUME TypeInv, DataInv, CopyUp \/ CopyUpTrunc
  PROVE  DataInv'
<1>1. /\ ~copiedUp /\ copiedUp' = TRUE /\ w' = w /\ w.pc = "idle" /\ ~cow_status
      /\ usize = 0 /\ usize' = 0 /\ upper' = upper /\ block_count = 0
  BY DEF CopyUp, CopyUpTrunc, CopyUpInode, upperVars, TypeInv, CowInv
<1>2. StartPrepared' /\ DataPrepared' /\ MarkPrepared'
  BY <1>1 DEF StartPrepared, DataPrepared, MarkPrepared
<1>3. ZeroTail'
  BY <1>1 DEF DataInv, ZeroTail
<1>4. CASE CopyUp
  <2>1. ideal' = ideal
    BY <1>4 DEF CopyUp, ghostVars
  <2>2. \A c \in Cells : LowerView(c) \in ideal[c]
    BY <1>1 DEF DataInv, LowerRight, FromLower, InTailGap
  <2>3. \A c \in Cells : c >= LowerSize => UpperView(c) \in ideal[c]
    BY DEF DataInv, UpperRight
  <2>4. CASE LowerSize # 0
    <3>1. cow_status' = TRUE /\ block_count' = NBlocks /\ block_status' = NoBlocks
      BY <1>4, <2>4 DEF CopyUp, CopyUpInode, NBlocks
    <3>2. \A c \in Cells : c < LowerSize => FromLower(c)'
      BY <1>1, <3>1, CellFacts, TableSize DEF FromLower, NotCopied, NoBlocks
    <3>3. LowerRight'
      BY <2>1, <2>2 DEF LowerRight, LowerView
    <3>4. UpperRight' /\ CopiedInside'
      BY <1>1, <2>1, <2>3, <3>2, CellFacts, ConstAssumption DEF UpperRight, CopiedInside, UpperView
    <3> QED
      BY <1>2, <1>3, <3>1, <3>3, <3>4 DEF DataInv, CowOffCopied
  <2>5. CASE LowerSize = 0
    <3>1. UNCHANGED <<cow_status, block_count>>
      BY <1>4, <2>5 DEF CopyUp, CopyUpInode
    <3>2. LowerRight' /\ CopiedInside' /\ CowOffCopied'
      BY <1>1, <2>1, <2>2, <3>1 DEF LowerRight, LowerView, CopiedInside, CowOffCopied
    <3>3. UpperRight'
      BY <1>1, <2>1, <2>3, <2>5, CellFacts DEF UpperRight, UpperView
    <3> QED
      BY <1>2, <1>3, <3>2, <3>3 DEF DataInv
  <2> QED
    BY <2>4, <2>5
<1>5. CASE CopyUpTrunc
  <2>1. /\ ideal' = [c \in Cells |-> {Eof}] /\ UNCHANGED <<cow_status, block_count>>
    BY <1>5 DEF CopyUpTrunc, CopyUpInode, SetIdeal
  <2>2. \A c \in Cells : ~FromLower(c)' /\ UpperView(c)' \in ideal'[c]
    BY <1>1, <2>1, CellFacts DEF FromLower, UpperView
  <2> QED
    BY <1>1, <1>2, <1>3, <2>1, <2>2
       DEF DataInv, LowerRight, UpperRight, CopiedInside, CowOffCopied
<1> QED
  BY <1>4, <1>5

\* What copying some of block b, which is not COPIED, does: nothing that shows,
\* and the cells that are copied become ready.
LEMMA CopyData ==
  ASSUME TypeInv, DataInv, NEW b \in Blocks,
         NEW e \in BlockStart(b) .. BlockStart(b) + CopyLen(b),
         ovl_copy_up_block(b, e), NotCopied(b), cow_status,
         UNCHANGED <<cowVars, ghostVars>>
  PROVE  /\ FileRight'
         /\ \A c \in Cells : Ready(c) => Ready(c)'
         /\ e = BlockStart(b) + CopyLen(b) =>
              \A c \in Cells : c < LowerSize /\ ovl_get_block(c) = b => Ready(c)'
<1> DEFINE In(c) == BlockStart(b) <= c /\ c < e
<1>1. /\ BlockStart(b) \in Nat /\ e \in Nat /\ e <= LowerSize /\ LowerSize \in Nat
      /\ copiedUp /\ block_count = NBlocks
  BY CopyRange, ConstAssumption DEF TypeInv, CowInv
<1>2. /\ upper' = [c \in Cells |-> IF In(c) THEN LowerData[c] ELSE upper[c]]
      /\ usize' = IF BlockStart(b) < e THEN Larger(usize, e) ELSE usize
  BY DEF ovl_copy_up_block
<1>3. /\ usize \in Nat /\ usize' \in Nat /\ usize <= usize'
      /\ \A c \in Nat : c < usize' => c < usize \/ c < e
      /\ \A c \in Nat : In(c) => c < usize'
  BY <1>1, <1>2 DEF TypeInv, TypeOK, Larger
<1>4. \A c \in Cells : In(c) => c < LowerSize /\ ovl_get_block(c) = b
  BY <1>1, CopyRange, CellFacts
<1>5. \A c \in Cells : c < LowerSize /\ ovl_get_block(c) = b => LowerData[c] \in ideal[c]
  <2> SUFFICES ASSUME NEW c \in Cells, c < LowerSize, ovl_get_block(c) = b
               PROVE  LowerData[c] \in ideal[c]
    OBVIOUS
  <2>1. FromLower(c) /\ ~InTailGap(c)
    BY <1>1, CellFacts DEF FromLower, InTailGap
  <2> QED
    BY <2>1 DEF DataInv, LowerRight, LowerView
<1>6. \A c \in Cells : FromLower(c)' = FromLower(c)
  BY DEF FromLower, NotCopied, cowVars
<1>7. ideal' = ideal
  BY DEF ghostVars
<1>8. \A c \in Cells : Ready(c) => Ready(c)'
  BY <1>2, <1>3, <1>4, <1>5, <1>7, CellFacts DEF Ready
<1>9. ASSUME e = BlockStart(b) + CopyLen(b)
      PROVE  \A c \in Cells : c < LowerSize /\ ovl_get_block(c) = b => Ready(c)'
  <2>1. \A c \in Cells : c < LowerSize /\ ovl_get_block(c) = b => In(c)
    BY <1>9, CopyRange, CellFacts
  <2> QED
    BY <1>2, <1>3, <1>5, <1>7, <2>1, CellFacts DEF Ready
<1>10. LowerRight'
  BY <1>6, <1>7 DEF DataInv, LowerRight, InTailGap, LowerView, cowVars
<1>11. UpperRight'
  <2> SUFFICES ASSUME NEW c \in Cells, ~FromLower(c) \/ c >= LowerSize
               PROVE  UpperView(c)' \in ideal[c]
    BY <1>6, <1>7 DEF UpperRight
  <2>1. ~In(c)
    BY <1>1, <1>4, CellFacts DEF FromLower
  <2>2. c < usize' => c < usize
    BY <1>1, <1>3, CellFacts DEF DataInv, CopiedInside
  <2>3. UpperView(c) \in ideal[c]
    BY DEF DataInv, UpperRight
  <2> QED
    BY <1>2, <1>3, <2>1, <2>2, <2>3, CellFacts DEF UpperView
<1>12. CopiedInside'
  BY <1>3, <1>6, CellFacts DEF DataInv, CopiedInside, cowVars
<1>13. ZeroTail'
  BY <1>2, <1>3, CellFacts DEF DataInv, ZeroTail
<1>14. CowOffCopied'
  BY DEF CowOffCopied, DataInv, cowVars
<1> QED
  BY <1>8, <1>9, <1>10, <1>11, <1>12, <1>13, <1>14 DEF FileRight

\* Steps that leave the file alone, and states in which no write has prepared
\* anything.
LEMMA FileKept ==
  ASSUME DataInv, UNCHANGED <<cowVars, upperVars, ideal>>
  PROVE  FileRight'
  BY DEF DataInv, FileRight, LowerRight, UpperRight, CopiedInside, ZeroTail, CowOffCopied,
         FromLower, NotCopied, InTailGap, LowerView, UpperView, cowVars, upperVars

LEMMA NothingPrepared ==
  ASSUME w'.pc \in {"idle", "plain", "append"}
  PROVE  StartPrepared' /\ DataPrepared' /\ MarkPrepared'
  BY DEF StartPrepared, DataPrepared, MarkPrepared

LEMMA QuietData ==
  ASSUME DataInv, UNCHANGED <<cowVars, upperVars, ideal, w>>
  PROVE  DataInv'
<1>1. FileRight'
  BY FileKept
<1>2. \A c \in Cells : /\ Ready(c)' = Ready(c) /\ ToMark(c)' = ToMark(c)
                       /\ InWrite(c)' = InWrite(c)
  BY DEF Ready, ToMark, InWrite, StartBlock, EndBlock, cowVars, upperVars
<1>3. StartPrepared' /\ DataPrepared' /\ MarkPrepared'
  BY <1>2 DEF DataInv, StartPrepared, DataPrepared, MarkPrepared, StartBlock,
              cowVars, upperVars
<1> QED
  BY <1>1, <1>3 DEF FileRight, DataInv

LEMMA BeginData ==
  ASSUME TypeInv, DataInv, NEW p, NEW n, NEW x, WriteBegin(p, n, x) \/ AppendBegin(n, x)
  PROVE  DataInv'
<1>1. UNCHANGED <<cowVars, upperVars, ideal>>
  BY DEF WriteBegin, AppendBegin, ghostVars
<1>2. w'.pc \in {"start", "append", "plain"} /\ w'.partial = FALSE
  BY DEF WriteBegin, AppendBegin, NoWrite
<1>3. StartPrepared' /\ DataPrepared' /\ MarkPrepared'
  BY <1>2 DEF StartPrepared, DataPrepared, MarkPrepared
<1> QED
  BY <1>1, <1>3, FileKept DEF FileRight, DataInv

\* The upper file holds the cells of a COPIED block.
LEMMA CopiedReady ==
  ASSUME TypeInv, DataInv, cow_status, NEW c \in Cells, c < LowerSize,
         ~NotCopied(ovl_get_block(c))
  PROVE  Ready(c)
<1>1. copiedUp /\ ~FromLower(c)
  BY DEF TypeInv, CowInv, FromLower
<1>2. c < usize
  BY <1>1 DEF DataInv, CopiedInside
<1>3. UpperView(c) \in ideal[c]
  BY <1>1 DEF DataInv, UpperRight
<1> QED
  BY <1>2, <1>3 DEF UpperView, Ready

\* The three steps that bring up a block.
LEMMA CopyStepData ==
  ASSUME TypeInv, DataInv, AppendCopy \/ CopyStartBlock \/ CopyEndBlock
  PROVE  DataInv'
<1>1. /\ UNCHANGED <<cowVars, ghostVars>> /\ cow_status
      /\ block_count = NBlocks /\ NBlocks >= 1 /\ NBlocks \in Nat
      /\ w.pos \in Nat /\ w.n \in Nat /\ w.n >= 1
  BY TableSize DEF AppendCopy, CopyStartBlock, CopyEndBlock, TypeInv, CowInv, WriterInv,
                   Active, TypeOK, WriteCall
<1>2. ASSUME NEW b \in Blocks, NotCopied(b), CopyUpWholeBlock(b) \/ CopyUpBlockFails(b)
      PROVE  FileRight' /\ \A c \in Cells : Ready(c) => Ready(c)'
  <2>1. PICK e \in BlockStart(b) .. BlockStart(b) + CopyLen(b) : ovl_copy_up_block(b, e)
    BY <1>2, WholeBlock DEF CopyUpWholeBlock, CopyUpBlockFails
  <2> QED
    BY <1>1, <1>2, <2>1, CopyData
<1>3. ASSUME NEW b \in Blocks, NotCopied(b), CopyUpWholeBlock(b)
      PROVE  \A c \in Cells : c < LowerSize /\ ovl_get_block(c) = b => Ready(c)'
  BY <1>1, <1>3, WholeBlock, CopyData DEF CopyUpWholeBlock
<1>4. UNCHANGED upperVars => FileRight' /\ \A c \in Cells : Ready(c) => Ready(c)'
  BY <1>1, FileKept DEF ghostVars, upperVars, Ready
<1>5. FileRight' /\ \A c \in Cells : Ready(c) => Ready(c)'
  BY <1>2, <1>4, CopyTarget
     DEF AppendCopy, CopyStartBlock, CopyEndBlock, StartNeedsCopy, EndNeedsCopy
<1>6. StartPrepared' /\ DataPrepared' /\ MarkPrepared'
  <2>1. CASE w' = NoWrite
    BY <2>1, NothingPrepared DEF NoWrite
  <2>2. CASE AppendCopy /\ w' # NoWrite
    <3>1. /\ w.pc = "append" /\ w' = [w EXCEPT !.pc = "data", !.pos = usize']
          /\ w.app /\ w.ret = 0
          /\ \/ NotCopied(NBlocks) /\ CopyUpWholeBlock(NBlocks)
             \/ ~NotCopied(NBlocks)
      BY <1>1, <2>2 DEF AppendCopy, CopyUpBlockFails, upperVars, TypeInv, WriterInv
    <3>2. w'.pc = "data" /\ w'.pos = usize' /\ w'.app /\ w'.ret = 0
      BY <3>1 DEF TypeInv, TypeOK, WriteCall
    <3>3. \A c \in Cells : c < LowerSize /\ ovl_get_block(c) = NBlocks => Ready(c)'
      <4>1. NBlocks \in Blocks
        BY <1>1 DEF Blocks
      <4> QED
        BY <1>1, <1>3, <1>5, <3>1, <4>1, CopiedReady
    <3>4. LowerSize <= usize'
      <4>1. Ready(LowerSize - 1)'
        BY <1>1, <3>3, LastCell, ConstAssumption
      <4> QED
        BY <4>1, CopyStepType, ConstAssumption DEF Ready, TypeInv, TypeOK
    <3>5. \A c \in Cells : ToMark(c)' => c < LowerSize /\ ovl_get_block(c) = NBlocks
      BY <1>1, <3>2, CellFacts DEF ToMark, StartBlock, EndBlock, cowVars
    <3> QED
      BY <3>2, <3>3, <3>4, <3>5 DEF StartPrepared, DataPrepared, MarkPrepared
  <2>3. CASE CopyStartBlock /\ w' # NoWrite
    <3>1. /\ w.pc = "start" /\ ~w.app /\ ~w.partial
          /\ \/ /\ StartNeedsCopy /\ CopyUpWholeBlock(StartBlock)
                /\ w' = [w EXCEPT !.pc = "end", !.partial = TRUE]
             \/ ~StartNeedsCopy /\ w' = [w EXCEPT !.pc = "end"]
      BY <2>3 DEF CopyStartBlock, CopyUpBlockFails, TypeInv, WriterInv, DataInv, StartPrepared
    <3>2. /\ w'.pc = "end" /\ w'.pos = w.pos /\ w'.app = w.app
          /\ w'.partial => StartNeedsCopy /\ CopyUpWholeBlock(StartBlock)
      BY <3>1 DEF TypeInv, TypeOK, WriteCall
    <3>3. StartBlock' = StartBlock /\ StartBlock = ovl_get_block(w.pos)
      BY <3>1, <3>2 DEF StartBlock
    <3>4. ASSUME NEW c \in Cells, c < LowerSize, ovl_get_block(c) = StartBlock,
                 c < w.pos \/ w'.partial
          PROVE  Ready(c)'
      <4>1. CASE StartNeedsCopy
        BY <1>3, <3>1, <3>4, <4>1, CellFacts DEF StartNeedsCopy
      <4>2. CASE ~StartNeedsCopy
        <5>1. c < w.pos
          BY <3>2, <3>4, <4>2
        <5>2. BlockStart(StartBlock) \in Nat /\ BlockStart(StartBlock) <= c /\ c \in Nat
          BY <3>4, CellFacts, BlockBounds
        <5>3. ~NotCopied(StartBlock)
          BY <1>1, <4>2, <5>1, <5>2 DEF StartNeedsCopy
        <5> QED
          BY <1>1, <1>5, <3>4, <5>3, CopiedReady
      <4> QED
        BY <4>1, <4>2
    <3> QED
      BY <3>2, <3>3, <3>4 DEF StartPrepared, DataPrepared, MarkPrepared
  <2>4. CASE CopyEndBlock /\ w' # NoWrite
    <3>1. /\ w.pc = "end" /\ ~w.app /\ w.ret = 0 /\ w' = [w EXCEPT !.pc = "data"]
          /\ \/ EndNeedsCopy /\ CopyUpWholeBlock(EndBlock)
             \/ ~EndNeedsCopy
      BY <2>4 DEF CopyEndBlock, CopyUpBlockFails, TypeInv, WriterInv
    <3>2. /\ w'.pc = "data" /\ w'.pos = w.pos /\ w'.n = w.n /\ w'.app = w.app /\ w'.ret = 0
      BY <3>1 DEF TypeInv, TypeOK, WriteCall
    <3>3. /\ StartBlock' = StartBlock /\ StartBlock = ovl_get_block(w.pos)
          /\ EndBlock' = EndBlock /\ EndBlock = ovl_get_block(w.pos + w.n)
      BY <3>1, <3>2 DEF StartBlock, EndBlock
    <3>4. ASSUME NEW c \in Cells, ToMark(c), ~InWrite(c)
          PROVE  Ready(c)'
      <4>1. /\ c < LowerSize /\ c \in Nat /\ ovl_get_block(c) \in Nat
            /\ StartBlock <= ovl_get_block(c) /\ ovl_get_block(c) <= EndBlock
            /\ StartBlock \in Nat /\ EndBlock \in Nat
        BY <1>1, <3>3, <3>4, CellFacts, BlockBounds DEF ToMark
      <4>2. CASE c < w.pos
        <5>1. ovl_get_block(c) = StartBlock
          BY <1>1, <3>3, <4>1, <4>2, BlockMono
        <5> QED
          BY <1>5, <3>1, <4>1, <4>2, <5>1 DEF DataInv, StartPrepared
      <4>3. CASE w.pos + w.n <= c
        <5>1. ovl_get_block(c) = EndBlock
          <6>1. w.pos + w.n \in Nat
            BY <1>1
          <6> QED
            BY <3>3, <4>1, <4>3, <6>1, BlockMono
        <5>2. CASE EndNeedsCopy
          BY <1>3, <3>1, <4>1, <5>1, <5>2, CellFacts DEF EndNeedsCopy
        <5>3. CASE ~NotCopied(EndBlock)
          BY <1>1, <1>5, <4>1, <5>1, <5>3, CopiedReady
        <5>4. CASE w.partial /\ EndBlock = StartBlock
          BY <1>5, <3>1, <4>1, <5>1, <5>4 DEF DataInv, StartPrepared
        <5>5. EndBlock * BS > w.pos + w.n
          <6>1. w.pos + w.n \in Nat
            BY <1>1
          <6> QED
            BY <3>3, <6>1, BlockBounds, ConstAssumption
        <5> QED
          BY <5>2, <5>3, <5>4, <5>5 DEF EndNeedsCopy
      <4> QED
        BY <1>1, <3>4, <4>1, <4>2, <4>3 DEF InWrite
    <3>5. \A c \in Cells : ToMark(c)' = ToMark(c) /\ InWrite(c)' = InWrite(c)
      BY <3>2, <3>3 DEF ToMark, InWrite
    <3> QED
      BY <3>1, <3>2, <3>4, <3>5 DEF StartPrepared, DataPrepared, MarkPrepared
  <2> QED
    BY <2>1, <2>2, <2>3, <2>4
<1> QED
  BY <1>5, <1>6 DEF FileRight, DataInv

\* When copy_count has reached block_count nothing is left to copy.
LEMMA AllCopied ==
  ASSUME CopyCountExact, copy_count = NBlocks
  PROVE  \A b \in Blocks : block_status[b] = COPIED
<1>1. CopiedBlocks \in SUBSET Blocks /\ Cardinality(CopiedBlocks) = NBlocks
  BY DEF CopyCountExact, CopiedBlocks
<1>2. CopiedBlocks = Blocks
  BY <1>1, BlocksFinite, FS_Subset
<1> QED
  BY <1>2 DEF CopiedBlocks

\* A write of k cells shows in the upper file as it does in a plain file, the
\* hole it may leave before its start included.
LEMMA WriteShows ==
  ASSUME TypeOK, ZeroTail, NEW p \in Nat, NEW k \in Nat, k >= 1, NEW x,
         UpperWrite(p, k, x), NEW c \in Cells, UpperView(c) \in ideal[c]
  PROVE  /\ UpperView(c)' \in MayWrite(p, k, x)[c]
         /\ UpperView(c)' \in HasWritten(p, k, x)[c]
<1>1. /\ c \in Nat /\ usize \in Nat /\ upper[c] \in Nat
      /\ usize' = Larger(usize, p + k)
      /\ upper'[c] = IF p <= c /\ c < p + k THEN x ELSE upper[c]
  BY CellFacts DEF TypeOK, UpperWrite, Byte
<1>2. usize' \in Nat /\ (c < usize' <=> (c < usize \/ c < p + k))
  BY <1>1 DEF Larger
<1>3. CASE p <= c /\ c < p + k
  BY <1>1, <1>2, <1>3 DEF UpperView, MayWrite, HasWritten
<1>4. CASE c < p
  <2>1. CASE c < usize
    <3>1. UpperView(c)' = upper[c] /\ upper[c] \in ideal[c] /\ upper[c] # Eof
      BY <1>1, <1>2, <1>4, <2>1 DEF UpperView, Eof
    <3> QED
      BY <1>1, <1>4, <3>1 DEF MayWrite, HasWritten
  <2>2. CASE ~(c < usize)
    <3>1. Eof \in ideal[c] /\ upper[c] = 0
      BY <1>1, <2>2 DEF UpperView, ZeroTail
    <3>2. UpperView(c)' = 0
      BY <1>1, <1>2, <1>4, <3>1 DEF UpperView
    <3> QED
      BY <1>1, <1>4, <3>1, <3>2 DEF MayWrite, HasWritten
  <2> QED
    BY <2>1, <2>2
<1>5. CASE p + k <= c
  <2>1. UpperView(c)' = UpperView(c)
    BY <1>1, <1>2, <1>5 DEF UpperView
  <2> QED
    BY <1>1, <1>5, <2>1 DEF MayWrite, HasWritten
<1> QED
  BY <1>1, <1>3, <1>4, <1>5

LEMMA WriteDataData ==
  ASSUME Benign, TypeInv, DataInv, WriteData
  PROVE  DataInv'
<1> DEFINE p == w.pos
           n == w.n
           x == w.val
<1>1. /\ w.pc = "data" /\ w.ret = 0 /\ cow_status /\ copiedUp
      /\ p \in Nat /\ n \in Nat /\ n >= 1 /\ x \in Byte
      /\ UNCHANGED cowVars /\ TypeOK /\ ZeroTail
  BY DEF WriteData, TypeInv, TypeOK, WriteCall, WriterInv, CowInv, Active, DataInv, DataPrepared
<1>2. /\ UpperWrite(p, n, x) /\ ideal' = MayWrite(p, n, x)
      /\ w' = [w EXCEPT !.ret = n, !.pc = "mark", !.i = StartBlock]
  <2>1. Chunks(w.n - w.ret) = {w.n}
    BY <1>1 DEF Benign, Chunks
  <2>2. p + w.ret = p /\ w.ret + n = n /\ ~(n < n - n)
    BY <1>1
  <2> QED
    BY <1>1, <2>1, <2>2 DEF WriteData, SetIdeal
<1>3. /\ w'.pc = "mark" /\ w'.ret = n /\ w'.n = n /\ w'.pos = p /\ w'.val = x
      /\ w'.app = w.app /\ w'.i = StartBlock
  BY <1>2 DEF TypeOK, TypeInv, WriteCall
<1>4. /\ usize \in Nat /\ usize' \in Nat /\ usize <= usize' /\ p + n <= usize'
      /\ \A c \in Cells : upper'[c] = IF p <= c /\ c < p + n THEN x ELSE upper[c]
  BY <1>1, <1>2 DEF UpperWrite, Larger, TypeOK
<1>5. \A c \in Cells : /\ ideal[c] \subseteq ideal'[c]
                       /\ p <= c /\ c < p + n => x \in ideal'[c]
  BY <1>2 DEF MayWrite
<1>6. \A c \in Cells : FromLower(c)' = FromLower(c)
  BY <1>1 DEF FromLower, NotCopied, cowVars
<1>7. LowerRight'
  BY <1>1, <1>5, <1>6 DEF DataInv, LowerRight, InTailGap, LowerView, cowVars
<1>8. UpperRight'
  BY <1>1, <1>2, <1>6, WriteShows DEF DataInv, UpperRight
<1>9. CopiedInside' /\ CowOffCopied'
  BY <1>1, <1>4, <1>6, CellFacts DEF DataInv, CopiedInside, CowOffCopied, cowVars
<1>10. ZeroTail'
  <2> SUFFICES ASSUME NEW c \in Cells, c >= usize' PROVE upper'[c] = 0
    BY DEF ZeroTail
  <2>1. c >= usize /\ ~(c < p + n)
    BY <1>1, <1>4, CellFacts
  <2> QED
    BY <1>1, <1>4, <2>1 DEF ZeroTail
<1>11. \A c \in Cells : /\ p <= c /\ c < p + n => Ready(c)'
                        /\ Ready(c) => Ready(c)'
  <2> SUFFICES ASSUME NEW c \in Cells
               PROVE  /\ p <= c /\ c < p + n => Ready(c)'
                      /\ Ready(c) => Ready(c)'
    OBVIOUS
  <2> QED
    BY <1>1, <1>4, <1>5, CellFacts DEF Ready
<1>12. MarkPrepared'
  <2>1. StartBlock' = StartBlock /\ EndBlock' = EndBlock
    BY <1>1, <1>3 DEF StartBlock, EndBlock, cowVars
  <2>2. \A c \in Cells : ToMark(c)' => Ready(c)'
    BY <1>1, <1>11, <2>1 DEF DataInv, DataPrepared, ToMark, InWrite
  <2>3. \A c \in Cells : InWrite(c)' => upper'[c] = x /\ x \in ideal'[c]
    BY <1>3, <1>4, <1>5 DEF InWrite
  <2>4. \A b \in Blocks : ~(StartBlock <= b /\ b < StartBlock)
    <3>1. StartBlock \in Int
      BY <1>1, BlockBounds, TableSize DEF StartBlock, TypeOK
    <3> QED
      BY <3>1 DEF Blocks
  <2>5. w.app => LowerSize <= p
    BY <1>1 DEF DataInv, DataPrepared
  <2> QED
    BY <1>3, <1>4, <2>1, <2>2, <2>3, <2>4, <2>5 DEF MarkPrepared
<1>13. StartPrepared' /\ DataPrepared'
  BY <1>3 DEF StartPrepared, DataPrepared
<1> QED
  BY <1>7, <1>8, <1>9, <1>10, <1>12, <1>13 DEF DataInv

LEMMA WriteEndData ==
  ASSUME Benign, TypeInv, DataInv, WriteFails \/ WritePlain
  PROVE  DataInv'
<1>1. w' = NoWrite /\ UNCHANGED cowVars
  BY DEF WriteFails, WritePlain
<1>2. StartPrepared' /\ DataPrepared' /\ MarkPrepared'
  BY <1>1, NothingPrepared DEF NoWrite
<1>3. CASE WriteFails
  BY <1>1, <1>2, <1>3, FileKept DEF WriteFails, ghostVars, FileRight, DataInv
<1>4. CASE WritePlain
  <2>1. /\ copiedUp /\ ~cow_status /\ w.pos \in Nat /\ w.n \in Nat /\ w.n >= 1
        /\ TypeOK /\ ZeroTail
    BY <1>4 DEF WritePlain, TypeInv, TypeOK, WriteCall, WriterInv, DataInv
  <2>2. UpperWrite(w.pos, w.n, w.val) /\ ideal' = HasWritten(w.pos, w.n, w.val)
    <3>1. Chunks(w.n) = {w.n}
      BY DEF Benign, Chunks
    <3> QED
      BY <1>4, <3>1 DEF WritePlain, SetIdeal
  <2>3. \A c \in Cells : ~FromLower(c) /\ ~FromLower(c)' /\ UpperView(c) \in ideal[c]
    BY <1>1, <2>1 DEF FromLower, DataInv, UpperRight, cowVars
  <2>4. LowerRight' /\ UpperRight'
    BY <2>1, <2>2, <2>3, WriteShows DEF LowerRight, UpperRight
  <2>5. CopiedInside' /\ CowOffCopied'
    BY <1>1, <2>1 DEF DataInv, CopiedInside, CowOffCopied, cowVars
  <2>6. ZeroTail'
    <3> SUFFICES ASSUME NEW c \in Cells, c >= usize' PROVE upper'[c] = 0
      BY DEF ZeroTail
    <3>1. /\ usize' = Larger(usize, w.pos + w.n) /\ usize \in Nat /\ c \in Nat
          /\ upper'[c] = IF w.pos <= c /\ c < w.pos + w.n THEN w.val ELSE upper[c]
      BY <2>1, <2>2, CellFacts DEF UpperWrite, TypeOK
    <3>2. c >= usize /\ ~(c < w.pos + w.n)
      BY <2>1, <3>1 DEF Larger
    <3> QED
      BY <2>1, <3>1, <3>2 DEF ZeroTail
  <2> QED
    BY <1>2, <2>4, <2>5, <2>6 DEF DataInv
<1> QED
  BY <1>3, <1>4

\* One turn of the marking loop: the block it marks holds, in the upper file,
\* everything the file has there.
LEMMA MarkData ==
  ASSUME TypeInv, DataInv, MarkBlock
  PROVE  DataInv'
<1>1. /\ w.pc = "mark" /\ cow_status /\ copiedUp /\ block_count = NBlocks /\ NBlocks \in Nat
      /\ w.i \in Nat /\ w.i >= 1 /\ w.i >= StartBlock /\ w.i <= EndBlock /\ w.i \in Blocks
      /\ UNCHANGED <<copiedUp, cow_status, block_count, upper, usize, ideal>>
      /\ w' = [w EXCEPT !.i = w.i + 1]
  BY TableSize DEF MarkBlock, TypeInv, WriterInv, CowInv, Active, TypeOK, WriteCall, Blocks,
                   upperVars, ghostVars
<1>2. \A b \in Blocks : block_status'[b] = IF b = w.i THEN COPIED ELSE block_status[b]
  BY <1>1 DEF MarkBlock, TypeInv, TypeOK
<1>3. /\ w'.pc = "mark" /\ w'.i = w.i + 1 /\ w'.pos = w.pos /\ w'.n = w.n
      /\ w'.ret = w.ret /\ w'.val = w.val /\ w'.app = w.app
  BY <1>1 DEF TypeInv, TypeOK, WriteCall
<1>4. StartBlock' = StartBlock /\ EndBlock' = EndBlock
  BY <1>1, <1>3 DEF StartBlock, EndBlock
<1>5. \A c \in Cells : FromLower(c)' = (FromLower(c) /\ ovl_get_block(c) # w.i)
  <2> SUFFICES ASSUME NEW c \in Cells
               PROVE  FromLower(c)' = (FromLower(c) /\ ovl_get_block(c) # w.i)
    OBVIOUS
  <2>1. CASE ovl_get_block(c) \in Blocks
    BY <1>1, <1>2, <2>1 DEF FromLower, NotCopied, UNCOPY, COPIED
  <2>2. CASE ovl_get_block(c) \notin Blocks
    BY <1>1, <2>2, CellFacts DEF FromLower, NotCopied
  <2> QED
    BY <2>1, <2>2
<1>6. \A c \in Cells : c < LowerSize /\ ovl_get_block(c) = w.i => Ready(c)
  BY <1>1 DEF DataInv, MarkPrepared, ToMark
<1>7. LowerRight'
  BY <1>1, <1>5 DEF DataInv, LowerRight, InTailGap, LowerView
<1>8. UpperRight'
  <2> SUFFICES ASSUME NEW c \in Cells, ~FromLower(c)' \/ c >= LowerSize
               PROVE  UpperView(c) \in ideal[c]
    BY <1>1 DEF UpperRight, UpperView
  <2>1. CASE ~FromLower(c) \/ c >= LowerSize
    BY <2>1 DEF DataInv, UpperRight
  <2>2. CASE FromLower(c) /\ ~(c >= LowerSize)
    <3>1. ovl_get_block(c) = w.i
      BY <1>5, <2>2, CellFacts, ConstAssumption
    <3>2. c < LowerSize
      BY <2>2, CellFacts, ConstAssumption
    <3>3. Ready(c)
      BY <1>6, <3>1, <3>2
    <3> QED
      BY <3>3 DEF Ready, UpperView
  <2> QED
    BY <2>1, <2>2
<1>9. CopiedInside'
  BY <1>1, <1>5, <1>6 DEF DataInv, CopiedInside, Ready
<1>10. ZeroTail' /\ CowOffCopied'
  BY <1>1 DEF DataInv, ZeroTail, CowOffCopied
<1>11. MarkPrepared'
  <2>1. \A c \in Cells : /\ ToMark(c)' = ToMark(c) /\ InWrite(c)' = InWrite(c)
                         /\ Ready(c)' = Ready(c)
    BY <1>1, <1>3, <1>4 DEF ToMark, InWrite, Ready
  <2>2. \A b \in Blocks : StartBlock <= b /\ b < w.i + 1 => block_status'[b] = COPIED
    <3> SUFFICES ASSUME NEW b \in Blocks, StartBlock <= b, b < w.i + 1
                 PROVE  block_status'[b] = COPIED
      OBVIOUS
    <3>1. b = w.i \/ b < w.i
      BY <1>1 DEF Blocks
    <3> QED
      BY <1>1, <1>2, <3>1 DEF DataInv, MarkPrepared
  <2> QED
    BY <1>1, <1>3, <1>4, <2>1, <2>2 DEF DataInv, MarkPrepared
<1>12. StartPrepared' /\ DataPrepared'
  BY <1>3 DEF StartPrepared, DataPrepared
<1> QED
  BY <1>7, <1>8, <1>9, <1>10, <1>11, <1>12 DEF DataInv

\* The return of a write: the plain file now has exactly the new data, and
\* copy-on-write may end.
LEMMA ReturnData ==
  ASSUME TypeInv, CopyCountExact, DataInv, WriteReturn
  PROVE  DataInv'
<1>1. /\ w.pc = "mark" /\ cow_status /\ copiedUp /\ block_count = NBlocks /\ NBlocks \in Nat
      /\ w.i \in Nat /\ (w.i > EndBlock \/ w.i > NBlocks)
      /\ UNCHANGED <<copiedUp, block_count, block_status, upper, usize>>
      /\ cow_status' = IF copy_count = NBlocks THEN FALSE ELSE cow_status
      /\ w' = NoWrite
  BY TableSize DEF WriteReturn, TypeInv, WriterInv, CowInv, Active, TypeOK, WriteCall, upperVars
<1>2. /\ w.pos \in Nat /\ w.n \in Nat /\ w.ret = w.n /\ w.pos + w.n <= usize /\ usize \in Nat
      /\ ideal' = HasWritten(w.pos, w.n, w.val)
  BY <1>1 DEF WriteReturn, SetIdeal, DataInv, MarkPrepared, TypeInv, TypeOK, WriteCall
<1>3. \A c \in Cells : InWrite(c) /\ c < LowerSize => ~NotCopied(ovl_get_block(c))
  <2> SUFFICES ASSUME NEW c \in Cells, InWrite(c), c < LowerSize
               PROVE  block_status[ovl_get_block(c)] = COPIED
    BY DEF NotCopied, UNCOPY, COPIED
  <2>1. /\ c \in Nat /\ w.pos <= c /\ c < w.pos + w.n
        /\ ovl_get_block(c) \in Blocks /\ ovl_get_block(c) \in Nat
        /\ ovl_get_block(c) <= NBlocks
    BY CellFacts DEF InWrite
  <2>2. ~w.app
    BY <1>1, <1>2, <2>1, ConstAssumption DEF DataInv, MarkPrepared
  <2>3. /\ StartBlock = ovl_get_block(w.pos) /\ EndBlock = ovl_get_block(w.pos + w.n)
        /\ w.pos + w.n \in Nat
    BY <1>2, <2>2 DEF StartBlock, EndBlock
  <2>4. StartBlock <= ovl_get_block(c) /\ ovl_get_block(c) <= EndBlock /\ EndBlock \in Nat
    BY <1>2, <2>1, <2>3, BlockMono, BlockBounds
  <2>5. ovl_get_block(c) < w.i
    BY <1>1, <2>1, <2>4
  <2> QED
    BY <1>1, <2>1, <2>4, <2>5 DEF DataInv, MarkPrepared
<1>4. ASSUME NEW c \in Cells, NEW v, v \in ideal[c], v # Eof, ~InWrite(c)
      PROVE  v \in ideal'[c]
  BY <1>2, <1>4 DEF HasWritten, InWrite
<1>5. LowerRight'
  <2> SUFFICES ASSUME NEW c \in Cells, FromLower(c)', ~InTailGap(c)'
               PROVE  LowerView(c) \in ideal'[c]
    BY DEF LowerRight, LowerView
  <2>1. c < LowerSize /\ c \in Nat /\ FromLower(c) /\ NotCopied(ovl_get_block(c))
    BY <1>1, CellFacts, ConstAssumption DEF FromLower, InTailGap, NotCopied
  <2>2. LowerView(c) \in ideal[c]
    BY <2>1, ConstAssumption DEF DataInv, LowerRight, InTailGap
  <2>3. LowerView(c) # Eof
    BY <2>1, ConstAssumption DEF LowerView, Eof, Byte
  <2> QED
    BY <1>3, <1>4, <2>1, <2>2, <2>3
<1>6. copy_count = NBlocks => \A b \in Blocks : block_status[b] = COPIED
  BY AllCopied
<1>7. \A c \in Cells : ~FromLower(c)' \/ c >= LowerSize => ~FromLower(c) \/ c >= LowerSize
  <2> SUFFICES ASSUME NEW c \in Cells, ~FromLower(c)', c < LowerSize PROVE ~FromLower(c)
    BY CellFacts, ConstAssumption
  <2>1. ovl_get_block(c) \in Blocks
    BY CellFacts
  <2> QED
    BY <1>1, <1>6, <2>1 DEF FromLower, NotCopied, UNCOPY, COPIED
<1>8. UpperRight'
  <2> SUFFICES ASSUME NEW c \in Cells, ~FromLower(c)' \/ c >= LowerSize
               PROVE  UpperView(c) \in ideal'[c]
    BY <1>1 DEF UpperRight, UpperView
  <2>1. UpperView(c) \in ideal[c]
    BY <1>7 DEF DataInv, UpperRight
  <2>2. c \in Nat /\ upper[c] \in Nat
    BY CellFacts DEF TypeInv, TypeOK, Byte
  <2>3. CASE InWrite(c)
    <3>1. c < usize /\ upper[c] = w.val
      BY <1>1, <1>2, <2>2, <2>3 DEF InWrite, DataInv, MarkPrepared
    <3> QED
      BY <1>2, <2>3, <3>1 DEF UpperView, HasWritten, InWrite
  <2>4. CASE c < w.pos
    <3>1. UpperView(c) = upper[c] /\ upper[c] # Eof
      BY <1>2, <2>2, <2>4 DEF UpperView, Eof
    <3> QED
      BY <1>2, <1>4, <2>1, <2>2, <2>4, <3>1 DEF InWrite
  <2>5. CASE w.pos + w.n <= c
    BY <1>2, <2>1, <2>2, <2>5 DEF HasWritten
  <2> QED
    BY <1>2, <2>2, <2>3, <2>4, <2>5 DEF InWrite
<1>9. CopiedInside'
  BY <1>1 DEF DataInv, CopiedInside, FromLower, NotCopied
<1>10. ZeroTail' /\ CowOffCopied'
  BY <1>1, <1>6 DEF DataInv, ZeroTail, CowOffCopied
<1>11. StartPrepared' /\ DataPrepared' /\ MarkPrepared'
  BY <1>1, NothingPrepared DEF NoWrite
<1> QED
  BY <1>5, <1>8, <1>9, <1>10, <1>11 DEF DataInv

LEMMA DataNext ==
  Benign /\ TypeInv /\ CopyCountExact /\ DataInv /\ [Next]_vars => DataInv'
<1> SUFFICES ASSUME Benign, TypeInv, CopyCountExact, DataInv, [Next]_vars
             PROVE  DataInv'
  OBVIOUS
<1>1. CASE CopyUp \/ CopyUpTrunc
  BY <1>1, CopyUpData
<1>2. CASE \/ \E s \in Spans, x \in Data : WriteBegin(s[1], s[2], x)
           \/ \E n \in 1 .. MaxPos, x \in Data : AppendBegin(n, x)
  BY <1>2, BeginData
<1>3. CASE AppendCopy \/ CopyStartBlock \/ CopyEndBlock
  BY <1>3, CopyStepData
<1>4. CASE WriteData
  BY <1>4, WriteDataData
<1>5. CASE WriteFails \/ WritePlain
  BY <1>5, WriteEndData
<1>6. CASE MarkBlock
  BY <1>6, MarkData
<1>7. CASE WriteReturn
  BY <1>7, ReturnData
<1>8. CASE \E r \in Readers : (\E s \in Spans : ReadBegin(r, s[1], s[2]))
                               \/ ReaderStep(r) \/ ReadFails(r)
  <2>1. UNCHANGED <<cowVars, upperVars, ideal, w>>
    BY <1>8 DEF ReadBegin, ReaderStep, ReadEnter, ReadPlain, ReadLoop, ReadTail,
                ReadUpper, ReadLower, ReadReturn, ReadFails, ghostVars
  <2> QED
    BY <2>1, QuietData
<1>9. CASE UNCHANGED vars
  BY <1>9, QuietData DEF vars, cowVars, upperVars
<1>10. ~(\E n \in 0 .. MaxPos : Truncate(n)) /\ ~Evict
  BY DEF Benign, Truncate, Evict
<1> QED
  BY <1>1, <1>2, <1>3, <1>4, <1>5, <1>6, <1>7, <1>8, <1>9, <1>10 DEF Next, WriterStep

LEMMA DataInvMerged == DataInv => MergedView
<1> SUFFICES ASSUME DataInv, NEW c \in Cells, ~InTailGap(c) PROVE View(c) \in ideal[c]
  BY DEF MergedView
<1> QED
  BY DEF DataInv, LowerRight, UpperRight, View

\* If vfs_iter_write writes all or nothing, and nobody truncates the file or
\* evicts its inode while its table is needed, then at every moment the two
\* layers put together by block_status are a file that a plain file system
\* could show, in spite of failing copies and writes and of sparse writes.
THEOREM MergedViewCorrect == ASSUME Benign PROVE Spec => []MergedView
<1>1. Init => TypeInv /\ CopyCountExact /\ DataInv
  BY TypeInit, CountInit, DataInit
<1>2. (TypeInv /\ CopyCountExact /\ DataInv) /\ [Next]_vars
        => (TypeInv /\ CopyCountExact /\ DataInv)'
  BY TypeNext, CountNext, DataNext
<1> QED
  BY <1>1, <1>2, DataInvMerged, PTL DEF Spec

-----------------------------------------------------------------------------
(* What a step may never do, for every environment. *)

\* Without a table there is nothing COPIED in it.
TableInv == block_count = 0 => block_status = NoBlocks

LEMMA TableNext == TypeInv /\ TableInv /\ [Next]_vars => TableInv'
<1> SUFFICES ASSUME TypeInv, TableInv, [Next]_vars PROVE TableInv'
  OBVIOUS
<1>1. CASE UNCHANGED <<block_count, block_status>>
  BY <1>1 DEF TableInv
<1>2. CASE MarkBlock
  BY <1>2 DEF MarkBlock, TypeInv, WriterInv, CowInv, Active, TableInv
<1>3. CASE Evict \/ CopyUp \/ CopyUpTrunc \/ \E n \in 0 .. MaxPos : Truncate(n)
  <2>1. block_status' = NoBlocks \/ UNCHANGED <<block_count, block_status>>
    BY <1>3 DEF Evict, CopyUp, CopyUpTrunc, Truncate, CopyUpInode, cowVars
  <2> QED
    BY <2>1 DEF TableInv
<1>4. CASE \/ \E s \in Spans, x \in Data : WriteBegin(s[1], s[2], x)
           \/ \E n \in 1 .. MaxPos, x \in Data : AppendBegin(n, x)
           \/ AppendCopy \/ CopyStartBlock \/ CopyEndBlock \/ WriteData \/ WriteReturn
           \/ WritePlain \/ WriteFails \/ UNCHANGED vars
           \/ \E r \in Readers : (\E s \in Spans : ReadBegin(r, s[1], s[2]))
                                 \/ ReaderStep(r) \/ ReadFails(r)
  <2>1. UNCHANGED <<block_count, block_status>>
    BY <1>4 DEF WriteBegin, AppendBegin, AppendCopy, CopyStartBlock, CopyEndBlock, WriteData,
                WriteReturn, WritePlain, WriteFails, ReadBegin, ReaderStep, ReadEnter,
                ReadPlain, ReadLoop, ReadTail, ReadUpper, ReadLower, ReadReturn, ReadFails,
                cowVars, vars
  <2> QED
    BY <1>1, <2>1
<1> QED
  BY <1>2, <1>3, <1>4 DEF Next, WriterStep

\* While an inode lives, no step takes a block back from COPIED or restarts
\* copy-on-write: block reads that saw COPIED may go on without the lock.
THEOREM CopyUpNeverUndoneCorrect == Spec => CopyUpNeverUndone
<1> DEFINE A == (block_count' = block_count /\ copiedUp) =>
                  /\ \A b \in Blocks : block_status[b] = COPIED => block_status'[b] = COPIED
                  /\ ~cow_status => ~cow_status'
<1>1. Init => TypeInv /\ TableInv
  BY TypeInit DEF Init, TableInv
<1>2. (TypeInv /\ TableInv) /\ [Next]_vars => (TypeInv /\ TableInv)'
  BY TypeNext, TableNext
<1>3. (TypeInv /\ TableInv) /\ [Next]_vars => [A]_vars
  <2> SUFFICES ASSUME TypeInv, TableInv, Next, block_count' = block_count, copiedUp
               PROVE  /\ \A b \in Blocks : block_status[b] = COPIED => block_status'[b] = COPIED
                      /\ ~cow_status => ~cow_status'
    OBVIOUS
  <2>1. CASE UNCHANGED <<cow_status, block_status>>
    BY <2>1
  <2>2. CASE MarkBlock
    <3>1. w.i \in Blocks /\ cow_status' = cow_status
      BY <2>2, TableSize DEF MarkBlock, TypeInv, WriterInv, CowInv, Active, TypeOK, WriteCall, Blocks
    <3> QED
      BY <2>2, <3>1 DEF MarkBlock, TypeInv, TypeOK
  <2>3. CASE WriteReturn
    BY <2>3 DEF WriteReturn
  <2>4. CASE Evict
    <3>1. block_status = NoBlocks /\ ~cow_status'
      BY <2>4 DEF Evict, TableInv
    <3> QED
      BY <3>1 DEF NoBlocks, UNCOPY, COPIED
  <2>5. CASE CopyUp \/ CopyUpTrunc \/ \E n \in 0 .. MaxPos : Truncate(n)
    BY <2>1, <2>5 DEF CopyUp, CopyUpTrunc, Truncate, cowVars
  <2>6. CASE \/ \E s \in Spans, x \in Data : WriteBegin(s[1], s[2], x)
             \/ \E n \in 1 .. MaxPos, x \in Data : AppendBegin(n, x)
             \/ AppendCopy \/ CopyStartBlock \/ CopyEndBlock \/ WriteData
             \/ WritePlain \/ WriteFails
             \/ \E r \in Readers : (\E s \in Spans : ReadBegin(r, s[1], s[2]))
                                   \/ ReaderStep(r) \/ ReadFails(r)
    <3>1. UNCHANGED <<cow_status, block_status>>
      BY <2>6 DEF WriteBegin, AppendBegin, AppendCopy, CopyStartBlock, CopyEndBlock, WriteData,
                  WritePlain, WriteFails, ReadBegin, ReaderStep, ReadEnter, ReadPlain,
                  ReadLoop, ReadTail, ReadUpper, ReadLower, ReadReturn, ReadFails, cowVars
    <3> QED
      BY <2>1, <3>1
  <2> QED
    BY <2>2, <2>3, <2>4, <2>5, <2>6 DEF Next, WriterStep
<1> QED
  BY <1>1, <1>2, <1>3, PTL DEF Spec, CopyUpNeverUndone

\* A copy of a block that is not COPIED touches no COPIED block.
LEMMA CopyMissesCopied ==
  ASSUME TypeInv, AppendCopy \/ CopyStartBlock \/ CopyEndBlock,
         NEW c \in Cells, ovl_get_block(c) \in Blocks, block_status[ovl_get_block(c)] = COPIED
  PROVE  upper'[c] = upper[c]
<1>1. CASE UNCHANGED upperVars
  BY <1>1 DEF upperVars
<1>2. ASSUME NEW b \in Blocks, NotCopied(b), CopyUpWholeBlock(b) \/ CopyUpBlockFails(b)
      PROVE  upper'[c] = upper[c]
  <2>1. PICK e \in BlockStart(b) .. BlockStart(b) + CopyLen(b) : ovl_copy_up_block(b, e)
    BY <1>2, WholeBlock DEF CopyUpWholeBlock, CopyUpBlockFails
  <2>2. ovl_get_block(c) # b
    BY <1>2 DEF NotCopied, UNCOPY, COPIED
  <2>3. ~(BlockStart(b) <= c /\ c < e)
    BY <2>1, <2>2, CopyRange, CellFacts
  <2> QED
    BY <2>1, <2>3 DEF ovl_copy_up_block
<1> QED
  BY <1>1, <1>2, CopyTarget
     DEF AppendCopy, CopyStartBlock, CopyEndBlock, StartNeedsCopy, EndNeedsCopy

\* Only the data of a write, or a truncation, changes a COPIED block in the
\* upper file: no copy of the lower block lands on newer data, however writes
\* overlap, repeat and fail.
THEOREM CopyNeverClobbersCorrect == Spec => CopyNeverClobbers
<1> DEFINE A == \A c \in Cells :
                  (upper'[c] # upper[c] /\ ovl_get_block(c) \in Blocks
                     /\ block_status[ovl_get_block(c)] = COPIED)
                  => \/ w.pc \in {"data", "plain"} /\ w.pos <= c /\ c < w.pos + w.n /\ upper'[c] = w.val
                     \/ usize' <= c
<1>1. TypeInv /\ [Next]_vars => [A]_vars
  <2> SUFFICES ASSUME TypeInv, Next, NEW c \in Cells, upper'[c] # upper[c],
                      ovl_get_block(c) \in Blocks, block_status[ovl_get_block(c)] = COPIED
               PROVE  \/ /\ w.pc \in {"data", "plain"} /\ w.pos <= c /\ c < w.pos + w.n
                         /\ upper'[c] = w.val
                      \/ usize' <= c
    OBVIOUS
  <2>1. c \in Nat /\ w.pos \in Nat /\ w.n \in Nat /\ w.ret \in Nat
    BY CellFacts DEF TypeInv, TypeOK, WriteCall
  <2>2. CASE AppendCopy \/ CopyStartBlock \/ CopyEndBlock
    BY <2>2, CopyMissesCopied
  <2>3. CASE WriteData
    <3>1. PICK k \in Chunks(w.n - w.ret) : UpperWrite(w.pos + w.ret, k, w.val)
      BY <2>3 DEF WriteData
    <3>2. w.pc = "data" /\ w.ret < w.n - w.ret
      BY <2>3 DEF WriteData, TypeInv, WriterInv
    <3>3. k \in Nat /\ k <= w.n - w.ret
      BY <2>1, <3>2 DEF Chunks
    <3>4. w.pos + w.ret <= c /\ c < w.pos + w.ret + k /\ upper'[c] = w.val
      BY <3>1 DEF UpperWrite
    <3> QED
      BY <2>1, <3>2, <3>3, <3>4
  <2>4. CASE WritePlain
    <3>1. PICK k \in Chunks(w.n) : UpperWrite(w.pos, k, w.val)
      BY <2>4 DEF WritePlain
    <3>2. k \in Nat /\ k <= w.n /\ w.pc = "plain"
      BY <2>1, <2>4 DEF Chunks, WritePlain
    <3>3. w.pos <= c /\ c < w.pos + k /\ upper'[c] = w.val
      BY <3>1 DEF UpperWrite
    <3> QED
      BY <2>1, <3>2, <3>3
  <2>5. CASE \E n \in 0 .. MaxPos : Truncate(n)
    <3>1. PICK n \in 0 .. MaxPos : Truncate(n)
      BY <2>5
    <3>2. usize' = n /\ ~(c < n)
      BY <3>1 DEF Truncate
    <3> QED
      BY <2>1, <3>2, ConstAssumption
  <2>6. ~UNCHANGED upper
    OBVIOUS
  <2> QED
    BY <2>2, <2>3, <2>4, <2>5, <2>6
       DEF Next, WriterStep, CopyUp, CopyUpTrunc, WriteBegin, AppendBegin, WriteFails, Evict,
           MarkBlock, WriteReturn, ReadBegin, ReaderStep, ReadEnter, ReadPlain, ReadLoop,
           ReadTail, ReadUpper, ReadLower, ReadReturn, ReadFails, upperVars
<1> QED
  BY <1>1, TypeInit, TypeNext, PTL DEF Spec, CopyNeverClobbers

=============================================================================
