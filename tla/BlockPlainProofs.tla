-------------------------- MODULE BlockPlainProofs --------------------------
(***************************************************************************)
(* Where the overlay file ends: appends, the last block of the lower file  *)
(* and the ends of file that reads return, for every block size, lower     *)
(* file, bound, set of readers and written values.                         *)
(***************************************************************************)
EXTENDS BlockReadProofs

-----------------------------------------------------------------------------
(* Appends. *)

\* While a plain write waits, nobody else changes the size of the upper file.
LEMMA AppendNext ==
  ASSUME Benign, TypeInv, AppendInv, [Next]_vars
  PROVE  AppendInv'
<1> USE DEF AppendInv
<1>1. CASE CopyUp \/ CopyUpTrunc
  BY <1>1 DEF CopyUp, CopyUpTrunc, upperVars
<1>2. CASE \E s \in Spans, x \in Data : WriteBegin(s[1], s[2], x)
  <2>1. w'.app = FALSE
    BY <1>2 DEF WriteBegin, NoWrite
  <2> QED
    BY <2>1
<1>3. CASE \E n \in 1 .. MaxPos, x \in Data : AppendBegin(n, x)
  <2>1. usize' = usize /\ (w'.pc = "plain" => w'.pos = usize)
    BY <1>3 DEF AppendBegin, NoWrite, upperVars
  <2> QED
    BY <2>1
<1>4. CASE WriterStep \/ WriteFails
  <2>1. w \in WriteCall
    BY DEF TypeInv, TypeOK
  <2>2. CASE AppendCopy \/ CopyStartBlock \/ CopyEndBlock
    <3>1. \/ w' = NoWrite
          \/ \E p : w' = [w EXCEPT !.pc = "data", !.pos = p]
          \/ w' = [w EXCEPT !.pc = "end", !.partial = TRUE]
          \/ w' = [w EXCEPT !.pc = "end"]
          \/ w' = [w EXCEPT !.pc = "data"]
      BY <2>2 DEF AppendCopy, CopyStartBlock, CopyEndBlock, CopyUpBlockFails
    <3>2. w'.pc \in {"idle", "data", "end"}
      <4>1. ASSUME NEW p, w' = [w EXCEPT !.pc = "data", !.pos = p] PROVE w'.pc = "data"
        BY <2>1, <4>1 DEF WriteCall
      <4>2. ASSUME w' = NoWrite PROVE w'.pc = "idle"
        BY <4>2 DEF NoWrite
      <4>3. ASSUME \/ w' = [w EXCEPT !.pc = "end", !.partial = TRUE]
                   \/ w' = [w EXCEPT !.pc = "end"]
            PROVE  w'.pc = "end"
        BY <2>1, <4>3 DEF WriteCall
      <4>4. ASSUME w' = [w EXCEPT !.pc = "data"] PROVE w'.pc = "data"
        BY <2>1, <4>4 DEF WriteCall
      <4> QED
        BY <3>1, <4>1, <4>2, <4>3, <4>4
    <3> QED
      BY <3>2
  <2>3. CASE WriteData
    <3>1. PICK k : \/ w' = [w EXCEPT !.ret = k] /\ w.pc = "data"
                   \/ w' = [w EXCEPT !.ret = k, !.pc = "mark", !.i = StartBlock]
      BY <2>3 DEF WriteData
    <3>2. w'.pc \in {"data", "mark"}
      BY <2>1, <3>1 DEF WriteCall
    <3> QED
      BY <3>2
  <2>4. CASE MarkBlock \/ WriteReturn \/ WritePlain \/ WriteFails
    <3>1. w' = NoWrite \/ (w' = [w EXCEPT !.i = w.i + 1] /\ w.pc = "mark")
      BY <2>4 DEF MarkBlock, WriteReturn, WritePlain, WriteFails
    <3> QED
      BY <2>1, <3>1 DEF NoWrite, WriteCall
  <2> QED
    BY <1>4, <2>2, <2>3, <2>4 DEF WriterStep
<1>5. CASE \E r \in Readers : (\E s \in Spans : ReadBegin(r, s[1], s[2]))
                               \/ ReaderStep(r) \/ ReadFails(r)
  BY <1>5 DEF ReadBegin, ReaderStep, ReadEnter, ReadPlain, ReadLoop, ReadTail,
              ReadUpper, ReadLower, ReadReturn, ReadFails, upperVars
<1>6. CASE UNCHANGED vars
  BY <1>6 DEF vars
<1>7. ~(\E n \in 0 .. MaxPos : Truncate(n)) /\ ~Evict
  BY DEF Benign, Truncate, Evict
<1> QED
  BY <1>1, <1>2, <1>3, <1>4, <1>5, <1>6, <1>7 DEF Next

\* Before its end the file has cells, at its end none.
LEMMA AppendFromInv ==
  ASSUME TypeInv, DataInv, AppendInv
  PROVE  AppendAtEnd
<1> SUFFICES ASSUME w.app, w.pc \in {"data", "plain"}
             PROVE  /\ \A c \in Cells : c < w.pos => ideal[c] # {Eof}
                    /\ w.pos \in Cells => Eof \in ideal[w.pos]
  BY DEF AppendAtEnd
<1>1. /\ w.pos = usize /\ usize \in Nat /\ copiedUp
      /\ LowerSize <= usize \/ \A c \in Cells : ~FromLower(c)
  BY DEF AppendInv, DataInv, DataPrepared, TypeInv, TypeOK, WriterInv, CowInv, Active, FromLower
<1>2. ASSUME NEW c \in Cells, c < usize PROVE ideal[c] # {Eof}
  <2>1. CASE ~FromLower(c) \/ c >= LowerSize
    <3>1. upper[c] \in ideal[c] /\ upper[c] \in Nat
      BY <1>2, <2>1, UpperAllowed DEF TypeInv, TypeOK, Byte
    <3> QED
      BY <3>1 DEF Eof
  <2>2. CASE FromLower(c) /\ c < LowerSize
    <3>1. ~InTailGap(c) /\ c \in Nat
      BY <2>2, CellFacts, ConstAssumption DEF InTailGap
    <3>2. LowerData[c] \in ideal[c] /\ LowerData[c] \in Nat
      BY <2>2, <3>1, ConstAssumption DEF DataInv, LowerRight, LowerView, Byte
    <3> QED
      BY <3>2 DEF Eof
  <2> QED
    BY <2>1, <2>2, CellFacts, ConstAssumption
<1>3. usize \in Cells => Eof \in ideal[usize]
  BY <1>1, ConstAssumption DEF DataInv, UpperRight, UpperView
<1> QED
  BY <1>1, <1>2, <1>3

\* In a benign environment an O_APPEND write starts at the end of the plain file, with
\* copy-on-write or without, after failed copies and writes and after sparse writes
\* (AppendCopy of block_write_iter, then vfs_iter_write at the end of the upper file).
THEOREM AppendAtEndCorrect == ASSUME Benign PROVE Spec => []AppendAtEnd
<1> DEFINE I == TypeInv /\ CopyCountExact /\ DataInv /\ AppendInv
<1>1. Init => I
  BY TypeInit, CountInit, DataInit DEF Init, AppendInv, NoWrite
<1>2. I /\ [Next]_vars => I'
  BY TypeNext, CountNext, DataNext, AppendNext
<1>3. I => AppendAtEnd
  BY AppendFromInv
<1> QED
  BY <1>1, <1>2, <1>3, PTL DEF Spec

-----------------------------------------------------------------------------
(* The last block of the lower file. *)

\* An offset past the end of the lower file in a block of the table is in the last one.
LEMMA TailBlock ==
  ASSUME NEW c \in Nat, c >= LowerSize, ovl_get_block(c) \in Blocks
  PROVE  /\ ovl_get_block(c) = NBlocks
         /\ LowerSize < NBlocks * BS /\ c < NBlocks * BS
<1>1. /\ ovl_get_block(c) \in Nat /\ ovl_get_block(c) >= 1 /\ ovl_get_block(c) <= NBlocks
      /\ NBlocks \in Nat /\ NBlocks >= 1 /\ c < ovl_get_block(c) * BS
  BY BlockBounds, TableSize DEF Blocks
<1>2. ~(ovl_get_block(c) < NBlocks)
  <2> SUFFICES ASSUME ovl_get_block(c) < NBlocks PROVE FALSE
    OBVIOUS
  <2>1. ovl_get_block(c) * BS <= (NBlocks - 1) * BS /\ (NBlocks - 1) * BS < LowerSize
    BY <1>1, BlockStep, TableSize
  <2>2. ovl_get_block(c) * BS \in Int /\ (NBlocks - 1) * BS \in Int
    BY <1>1, ConstAssumption
  <2> QED
    BY <1>1, <2>1, <2>2, ConstAssumption
<1>3. ovl_get_block(c) = NBlocks
  BY <1>1, <1>2
<1>4. NBlocks * BS \in Int
  BY <1>1, ConstAssumption
<1> QED
  BY <1>1, <1>3, <1>4, ConstAssumption

\* A write that crosses the end of the lower file touches the last block.
LEMMA TailCrossed ==
  ASSUME NBlocks >= 1, LowerSize < NBlocks * BS,
         NEW p \in Nat, NEW e \in Nat, p <= LowerSize, LowerSize <= e
  PROVE  ovl_get_block(p) <= NBlocks /\ NBlocks <= ovl_get_block(e)
<1>1. /\ NBlocks \in Nat /\ (NBlocks - 1) * BS <= LowerSize
  BY TableSize, ConstAssumption
<1>2. ovl_get_block(LowerSize) = NBlocks
  BY <1>1, BlockUnique, ConstAssumption
<1> QED
  BY <1>2, BlockMono, ConstAssumption

LEMMA TailTyped ==
  ASSUME TypeInv, cow_status
  PROVE  /\ NBlocks \in Blocks /\ NBlocks \in Nat /\ NBlocks >= 1 /\ block_count = NBlocks
         /\ copiedUp
         /\ NotCopied(NBlocks) <=> block_status[NBlocks] = UNCOPY
  BY TableSize DEF TypeInv, CowInv, NotCopied, Blocks

\* Where the file is not longer than the lower file, it ends there.
LEMMA TailNext ==
  ASSUME Benign, Dense, TypeInv, CopyCountExact, DataInv, TailInv, [Next]_vars, TypeInv', DataInv'
  PROVE  TailInv'
<1> SUFFICES ASSUME TailBelow' PROVE TailInv'
  BY DEF TailInv
<1>1. /\ usize \in Nat /\ usize' \in Nat /\ LowerSize \in Nat /\ cow_status'
      /\ NBlocks \in Nat /\ LowerSize < NBlocks * BS
      /\ w.pos \in Nat /\ w.n \in Nat /\ w \in WriteCall
      /\ NotCopied(NBlocks)'
  BY ConstAssumption, TableSize DEF TypeInv, TypeOK, TailBelow, WriteCall
<1>2. ASSUME usize' <= LowerSize
      PROVE  \A c \in Cells : LowerSize <= c /\ c < NBlocks * BS => Eof \in ideal'[c]
  <2> SUFFICES ASSUME NEW c \in Cells, LowerSize <= c PROVE Eof \in ideal'[c]
    OBVIOUS
  <2>1. c \in Nat /\ c >= LowerSize /\ ~(c < usize')
    BY <1>1, <1>2, CellFacts
  <2> QED
    BY <2>1 DEF DataInv, UpperRight, UpperView
<1>3. ASSUME usize' <= LowerSize, w'.pc # "mark",
             w'.pc \in {"start", "end", "data"} /\ ~w'.app => w'.pos <= LowerSize
      PROVE  TailInv'
  BY <1>2, <1>3 DEF TailInv
<1>4. CASE CopyUp \/ CopyUpTrunc
  <2>1. w'.pc = "idle" /\ usize' = 0
    BY <1>4 DEF CopyUp, CopyUpTrunc, upperVars, TypeInv, CowInv
  <2> QED
    BY <1>1, <1>3, <2>1
<1>5. CASE UNCHANGED <<cowVars, upperVars, w, ideal>>
  BY <1>5 DEF TailInv, TailBelow, NotCopied, cowVars, upperVars, StartBlock, EndBlock
<1>6. CASE \E s \in Spans, x \in Data : WriteBegin(s[1], s[2], x)
  <2>1. PICK s \in Spans, x \in Data : WriteBegin(s[1], s[2], x)
    BY <1>6
  <2>2. /\ w.pc = "idle" /\ s[1] <= FileEnd /\ usize' = usize /\ TailBelow /\ cow_status
        /\ w' = [NoWrite EXCEPT !.pc = "start", !.pos = s[1], !.n = s[2], !.val = x]
    BY <1>1, <2>1 DEF WriteBegin, Dense, TailBelow, NotCopied, cowVars, upperVars
  <2>3. usize <= LowerSize
    BY <2>2 DEF TailInv
  <2>4. s[1] \in Nat /\ s[1] <= LowerSize
    BY <1>1, <2>2, <2>3 DEF FileEnd, Larger, Spans
  <2>5. w'.pc = "start" /\ w'.pos = s[1]
    BY <2>2 DEF NoWrite
  <2> QED
    BY <1>3, <2>2, <2>3, <2>4, <2>5
<1>7. CASE \E n \in 1 .. MaxPos, x \in Data : AppendBegin(n, x)
  <2>1. PICK n \in 1 .. MaxPos, x \in Data : AppendBegin(n, x)
    BY <1>7
  <2>2. /\ w.pc = "idle" /\ usize' = usize /\ TailBelow /\ cow_status
        /\ w' = [NoWrite EXCEPT !.pc = "append", !.app = TRUE, !.n = n, !.val = x]
    BY <1>1, <2>1 DEF AppendBegin, TailBelow, NotCopied, cowVars, upperVars
  <2>3. usize <= LowerSize
    BY <2>2 DEF TailInv
  <2>4. w'.pc = "append"
    BY <2>2 DEF NoWrite
  <2> QED
    BY <1>3, <2>2, <2>3, <2>4
<1>8. CASE AppendCopy \/ CopyStartBlock \/ CopyEndBlock
  <2>1. UNCHANGED cowVars /\ TailBelow /\ w.pc \in {"append", "start", "end"}
    BY <1>8 DEF AppendCopy, CopyStartBlock, CopyEndBlock, TailBelow, NotCopied, cowVars
  <2>2. usize <= LowerSize /\ (w.pc \in {"start", "end"} /\ ~w.app => w.pos <= LowerSize)
    BY <2>1 DEF TailInv
  <2>3. ASSUME NEW b \in Blocks, CopyUpWholeBlock(b) \/ CopyUpBlockFails(b)
        PROVE  usize' <= LowerSize
    <3>1. PICK e \in BlockStart(b) .. BlockStart(b) + CopyLen(b) : ovl_copy_up_block(b, e)
      BY <2>3, WholeBlock DEF CopyUpWholeBlock, CopyUpBlockFails
    <3>2. usize' <= Larger(usize, LowerSize)
      BY <3>1, CopyType DEF TypeInv
    <3> QED
      BY <1>1, <2>2, <3>2 DEF Larger
  <2>4. usize' <= LowerSize
    BY <1>8, <2>2, <2>3, CopyTarget DEF AppendCopy, CopyStartBlock, CopyEndBlock, upperVars
  <2>5. /\ w'.pc # "mark"
        /\ w'.pc \in {"start", "end", "data"} /\ ~w'.app => w'.pos = w.pos /\ ~w.app
    <3>1. CASE AppendCopy
      <4>1. w.app
        BY <3>1 DEF AppendCopy, TypeInv, WriterInv
      <4>2. w' = NoWrite \/ \E p : w' = [w EXCEPT !.pc = "data", !.pos = p]
        BY <3>1 DEF AppendCopy, CopyUpBlockFails
      <4>3. ASSUME NEW p, w' = [w EXCEPT !.pc = "data", !.pos = p]
            PROVE  w'.pc = "data" /\ w'.app
        BY <1>1, <4>1, <4>3 DEF WriteCall
      <4>4. ASSUME w' = NoWrite PROVE w'.pc = "idle"
        BY <4>4 DEF NoWrite
      <4> QED
        BY <4>2, <4>3, <4>4
    <3>2. CASE CopyStartBlock \/ CopyEndBlock
      <4>1. \/ w' = NoWrite
            \/ w' = [w EXCEPT !.pc = "end", !.partial = TRUE]
            \/ w' = [w EXCEPT !.pc = "end"]
            \/ w' = [w EXCEPT !.pc = "data"]
        BY <3>2 DEF CopyStartBlock, CopyEndBlock, CopyUpBlockFails
      <4>2. ASSUME w' = NoWrite PROVE w'.pc = "idle"
        BY <4>2 DEF NoWrite
      <4>3. ASSUME w' # NoWrite
            PROVE  w'.pc \in {"end", "data"} /\ w'.app = w.app /\ w'.pos = w.pos
        BY <1>1, <4>1, <4>3 DEF WriteCall
      <4> QED
        BY <4>2, <4>3
    <3> QED
      BY <1>8, <3>1, <3>2
  <2>6. w.pc = "append" => w.app
    BY <2>1 DEF TypeInv, WriterInv
  <2> QED
    BY <1>3, <2>1, <2>2, <2>4, <2>5, <2>6
<1>9. CASE WriteData
  <2>1. /\ UNCHANGED cowVars /\ TailBelow /\ w.pc = "data" /\ w.ret = 0 /\ w.n >= 1
        /\ block_count = NBlocks /\ NBlocks >= 1
    BY <1>1, <1>9, TailTyped DEF WriteData, TailBelow, NotCopied, cowVars, DataInv, DataPrepared,
                      TypeInv, WriterInv
  <2>2. /\ usize' = Larger(usize, w.pos + w.n) /\ ideal' = MayWrite(w.pos, w.n, w.val)
        /\ w' = [w EXCEPT !.ret = w.n, !.pc = "mark", !.i = StartBlock]
    <3>1. Chunks(w.n - w.ret) = {w.n}
      BY <1>1, <2>1 DEF Benign, Chunks
    <3>2. w.pos + w.ret = w.pos /\ w.ret + w.n = w.n /\ ~(w.n < w.n - w.n)
      BY <1>1, <2>1
    <3> QED
      BY <1>9, <3>1, <3>2 DEF WriteData, SetIdeal, UpperWrite
  <2>3. w'.pc = "mark" /\ w'.app = w.app /\ w'.pos = w.pos /\ w'.n = w.n
    BY <1>1, <2>2 DEF WriteCall
  <2>4. /\ usize <= LowerSize /\ (~w.app => w.pos <= LowerSize)
        /\ \A c \in Cells : LowerSize <= c /\ c < NBlocks * BS => Eof \in ideal[c]
    BY <2>1 DEF TailInv
  <2>5. \A c \in Cells : LowerSize <= c /\ c < NBlocks * BS => Eof \in ideal'[c]
    BY <2>2, <2>4 DEF MayWrite
  <2>6. usize' <= LowerSize \/ (StartBlock' <= NBlocks /\ NBlocks <= EndBlock')
    <3>1. CASE w.app
      BY <1>1, <2>1, <2>3, <3>1 DEF StartBlock, EndBlock, cowVars
    <3>2. CASE ~w.app /\ w.pos + w.n <= LowerSize
      BY <1>1, <2>2, <2>4, <3>2 DEF Larger
    <3>3. CASE ~w.app /\ LowerSize <= w.pos + w.n
      <4>1. ovl_get_block(w.pos) <= NBlocks /\ NBlocks <= ovl_get_block(w.pos + w.n)
        BY <1>1, <2>1, <2>4, <3>3, TailCrossed
      <4> QED
        BY <2>3, <3>3, <4>1 DEF StartBlock, EndBlock
    <3> QED
      BY <1>1, <3>1, <3>2, <3>3
  <2> QED
    BY <2>3, <2>4, <2>5, <2>6 DEF TailInv
<1>10. CASE WriteFails \/ WritePlain
  <2>1. w' = NoWrite /\ UNCHANGED cowVars /\ TailBelow
    BY <1>10 DEF WriteFails, WritePlain, TailBelow, NotCopied, cowVars
  <2>2. w.pc # "plain" /\ cow_status
    BY <2>1 DEF TailBelow, TypeInv, WriterInv
  <2>3. usize' = usize /\ w.pc = "data"
    BY <1>10, <2>2 DEF WriteFails, WritePlain, upperVars
  <2>4. usize <= LowerSize /\ w'.pc = "idle"
    BY <2>1, <2>3 DEF TailInv, NoWrite
  <2> QED
    BY <1>3, <2>3, <2>4
<1>11. CASE MarkBlock
  <2>1. /\ w.pc = "mark" /\ cow_status /\ UNCHANGED <<copiedUp, cow_status, block_count, usize, ideal>>
        /\ w' = [w EXCEPT !.i = w.i + 1]
    BY <1>11 DEF MarkBlock, TypeInv, WriterInv, Active, upperVars, ghostVars
  <2>2. NBlocks \in Blocks /\ block_count = NBlocks
    BY <2>1, TailTyped
  <2>3. block_status'[NBlocks] = UNCOPY => block_status[NBlocks] = UNCOPY
    BY <1>11, <2>2 DEF MarkBlock, TypeInv, TypeOK, UNCOPY, COPIED
  <2>4. TailBelow
    BY <1>1, <2>1, <2>2, <2>3 DEF TailBelow, NotCopied
  <2>5. w'.pc = w.pc /\ w'.app = w.app /\ w'.pos = w.pos /\ w'.n = w.n
    BY <1>1, <2>1 DEF WriteCall
  <2> QED
    BY <2>1, <2>4, <2>5 DEF TailInv, StartBlock, EndBlock
<1>12. CASE WriteReturn
  <2>1. /\ w.pc = "mark" /\ cow_status /\ UNCHANGED <<block_count, block_status, usize>>
        /\ w' = NoWrite /\ (w.i > EndBlock \/ w.i > block_count)
    BY <1>12 DEF WriteReturn, TypeInv, WriterInv, Active, upperVars
  <2>2. /\ NBlocks \in Blocks /\ block_count = NBlocks /\ block_status[NBlocks] = UNCOPY
        /\ TailBelow /\ w.i \in Nat
    BY <1>1, <2>1, TailTyped DEF TailBelow, NotCopied, WriteCall
  <2>3. ~(StartBlock <= NBlocks /\ NBlocks < w.i)
    BY <2>1, <2>2 DEF DataInv, MarkPrepared, UNCOPY, COPIED
  <2>4. EndBlock \in Int
    BY <1>1, <2>2, BlockBounds DEF EndBlock
  <2>5. ~(StartBlock <= NBlocks /\ NBlocks <= EndBlock)
    BY <1>1, <2>1, <2>2, <2>3, <2>4
  <2>6. usize' <= LowerSize /\ w'.pc = "idle"
    BY <2>1, <2>2, <2>5 DEF TailInv, NoWrite
  <2> QED
    BY <1>3, <2>6
<1>13. CASE \E r \in Readers : (\E s \in Spans : ReadBegin(r, s[1], s[2]))
                                \/ ReaderStep(r) \/ ReadFails(r)
  <2>1. UNCHANGED <<cowVars, upperVars, w, ideal>>
    BY <1>13 DEF ReadBegin, ReaderStep, ReadEnter, ReadPlain, ReadLoop, ReadTail,
                 ReadUpper, ReadLower, ReadReturn, ReadFails, ghostVars
  <2> QED
    BY <1>5, <2>1
<1>14. CASE UNCHANGED vars
  BY <1>5, <1>14 DEF vars, cowVars, upperVars
<1>15. ~(\E n \in 0 .. MaxPos : Truncate(n)) /\ ~Evict
  BY DEF Benign, Truncate, Evict
<1> QED
  BY <1>4, <1>6, <1>7, <1>8, <1>9, <1>10, <1>11, <1>12, <1>13, <1>14, <1>15 DEF Next, WriterStep

\* The gap behind the lower file reads as the end of the file, and the plain file may end.
LEMMA PlainFromInv ==
  ASSUME TypeInv, DataInv, TailInv
  PROVE  SameAsPlainFile
<1> SUFFICES ASSUME NEW c \in Cells, InTailGap(c) PROVE View(c) \in ideal[c]
  BY DataInvMerged DEF SameAsPlainFile, MergedView
<1>1. /\ c >= LowerSize /\ c \in Nat /\ FromLower(c) /\ cow_status
      /\ ovl_get_block(c) <= block_count /\ block_status[ovl_get_block(c)] = UNCOPY
  BY CellFacts DEF InTailGap, FromLower, NotCopied
<1>2. ovl_get_block(c) \in Blocks /\ block_count = NBlocks
  BY <1>1, CellFacts, TailTyped
<1>3. /\ ovl_get_block(c) = NBlocks /\ LowerSize < NBlocks * BS /\ c < NBlocks * BS
  BY <1>1, <1>2, TailBlock
<1>4. TailBelow
  BY <1>1, <1>2, <1>3 DEF TailBelow, NotCopied
<1>5. Eof \in ideal[c]
  BY <1>1, <1>3, <1>4, ConstAssumption DEF TailInv
<1>6. View(c) = Eof
  BY <1>1, ConstAssumption DEF View, LowerView
<1> QED
  BY <1>5, <1>6

LEMMA TailInit == Init => TailInv
  BY DEF Init, TailInv, TailBelow

\* Without sparse writes there is no exception to the merged view: at every moment, also
\* after failed copies and writes, the file that block_status puts together is one that a
\* plain file system could show, the part of the last block behind the lower file included.
THEOREM SameAsPlainFileCorrect == ASSUME Benign, Dense PROVE Spec => []SameAsPlainFile
<1> DEFINE I == TypeInv /\ CopyCountExact /\ DataInv /\ TailInv
<1>1. Init => I
  BY TypeInit, CountInit, DataInit, TailInit
<1>2. I /\ [Next]_vars => I'
  BY TypeNext, CountNext, DataNext, TailNext
<1>3. I => SameAsPlainFile
  BY PlainFromInv
<1> QED
  BY <1>1, <1>2, <1>3, PTL DEF Spec

-----------------------------------------------------------------------------
(* Ends of file. *)

\* An end of file that a read has returned was one of the plain file.
EofReturned(rec, may) ==
  ~rec.failed => \A o \in rec.got : o[2] = Eof => Eof \in may[o[1]]

EofRight(rec, may) == EofOK(rec, may) /\ EofReturned(rec, may)

LEMMA EofInit == Init => EofInv /\ EofRegular
<1> SUFFICES ASSUME Init PROVE EofInv /\ EofRegular
  OBVIOUS
<1>1. \A r \in Readers : rd[r].pc = "idle" /\ rd[r].got = {}
  BY DEF Init, NoRead
<1> QED
  BY <1>1 DEF EofInv, EofOK, EofRegular

\* A read that makes no step only gets more to return.
LEMMA EofKept ==
  ASSUME TypeInv, EofInv, EofRegular, rd' = rd, UNCHANGED ghostVars \/ SetIdeal(ideal')
  PROVE  EofInv' /\ EofRegular'
<1> SUFFICES ASSUME NEW r \in Readers
             PROVE  EofOK(rd[r], allowed[r])' /\ EofReturned(rd[r], allowed[r])'
  BY DEF EofInv, EofRegular, EofReturned
<1> DEFINE R == rd[r]
<1>1. /\ EofOK(R, allowed[r]) /\ EofReturned(R, allowed[r])
      /\ R \in ReadCall /\ rd'[r] = R /\ R.pos + R.cnt <= MaxPos
      /\ R.pc \notin {"idle", "loop", "ret"} => R.cnt >= 1
      /\ R.pc = "loop" => R.cnt >= 1 \/ R.some
  BY DEF EofInv, EofRegular, EofReturned, TypeInv, TypeOK, ReaderInv
<1>2. \A c \in Cells : allowed[r][c] \subseteq allowed'[r][c]
  BY AllowedGrows
<1> HIDE DEF R
<1>3. ~R.some /\ R.pc \notin {"idle", "ret"} => R.pos \in Cells
  <2>1. R.pos \in Nat /\ R.cnt \in Nat
    BY <1>1 DEF ReadCall
  <2> QED
    BY <1>1, <2>1, ConstAssumption DEF Cells
<1>4. EofOK(R, allowed'[r])
  BY <1>1, <1>2, <1>3 DEF EofOK
<1>5. \A o \in R.got : o[1] \in Cells
  BY <1>1 DEF ReadCall
<1>6. EofReturned(R, allowed'[r])
  BY <1>1, <1>2, <1>5 DEF EofReturned
<1> QED
  BY <1>1, <1>4, <1>6 DEF EofOK, EofReturned

\* A step of reader r concerns no other reader.
LEMMA OneEof ==
  ASSUME TypeInv, EofInv, EofRegular, NEW r \in Readers, NEW rec, NEW may,
         rd' = [rd EXCEPT ![r] = rec], allowed' = [allowed EXCEPT ![r] = may],
         EofRight(rec, may)
  PROVE  EofInv' /\ EofRegular'
<1> SUFFICES ASSUME NEW q \in Readers
             PROVE  EofOK(rd'[q], allowed'[q]) /\ EofReturned(rd'[q], allowed'[q])
  BY DEF EofInv, EofRegular, EofReturned, EofOK
<1>1. /\ rd'[q] = IF q = r THEN rec ELSE rd[q]
      /\ allowed'[q] = IF q = r THEN may ELSE allowed[q]
  BY DEF TypeInv, TypeOK
<1>2. EofOK(rd[q], allowed[q]) /\ EofReturned(rd[q], allowed[q])
  BY DEF EofInv, EofRegular, EofReturned
<1> QED
  BY <1>1, <1>2 DEF EofRight

\* A read that returns what it has, or the end of the file.
LEMMA EofReturning ==
  ASSUME NEW rec \in ReadCall, NEW may, EofReturned(rec, may),
         ~rec.some => Eof \in may[rec.pos]
  PROVE  EofRight(Returning(rec), may)
<1>1. /\ Returning(rec).pc = "ret" /\ Returning(rec).failed = rec.failed
      /\ Returning(rec).got = IF rec.some THEN rec.got ELSE {<<rec.pos, Eof>>}
  BY DEF Returning, ReadCall
<1> QED
  BY <1>1 DEF EofRight, EofOK, EofReturned

\* Cells that are delivered are no end of file.
LEMMA EofDeliver ==
  ASSUME TypeInv, NEW r \in Readers, NEW k \in 0 .. rd[r].cnt, NEW content, NEW may,
         \A c \in Cells : rd[r].pos <= c /\ c < rd[r].pos + k => content[c] \in Byte
  PROVE  LET d == Deliver(rd[r], k, content)
         IN  /\ d \in ReadCall /\ d.pos = rd[r].pos + k /\ d.some = (rd[r].some \/ k > 0)
             /\ EofReturned(d, may)
<1>1. /\ rd[r] \in ReadCall /\ rd[r].pos \in Nat /\ rd[r].cnt \in Nat /\ MaxPos \in Nat
      /\ rd[r].pos + rd[r].cnt <= MaxPos /\ k \in Nat /\ k <= rd[r].cnt
  BY ConstAssumption DEF TypeInv, TypeOK, ReaderInv, ReadCall
<1> DEFINE d == Deliver(rd[r], k, content)
<1>2. /\ d \in ReadCall /\ d.pos = rd[r].pos + k /\ d.some = (rd[r].some \/ k > 0)
      /\ d.got = {<<c, content[c]>> : c \in rd[r].pos .. rd[r].pos + k - 1}
  BY <1>1, DeliverType
<1> HIDE DEF d
<1>3. \A o \in d.got : o[2] # Eof
  <2> SUFFICES ASSUME NEW o \in d.got PROVE o[2] # Eof
    OBVIOUS
  <2>1. PICK c \in rd[r].pos .. rd[r].pos + k - 1 : o = <<c, content[c]>>
    BY <1>2
  <2>2. c \in Cells /\ rd[r].pos <= c /\ c < rd[r].pos + k
    BY <1>1, <2>1 DEF Cells
  <2>3. o[2] \in Nat
    BY <2>1, <2>2 DEF Byte
  <2> QED
    BY <2>3 DEF Eof
<1> QED
  BY <1>2, <1>3 DEF d, EofReturned

\* The vfs_iter_read that ends the call finds the end of its file only where the plain
\* file may end.
LEMMA EofLast ==
  ASSUME TypeInv, NEW r \in Readers, rd[r].cnt >= 1, NEW content, NEW size \in Nat, NEW may,
         \A c \in Cells : c < size => content[c] \in Byte,
         size <= rd[r].pos => Eof \in may[rd[r].pos]
  PROVE  EofRight(Returning(Deliver(rd[r], Avail(rd[r].pos, rd[r].cnt, size), content)), may)
<1> DEFINE k == Avail(rd[r].pos, rd[r].cnt, size)
<1>1. rd[r].pos \in Nat /\ rd[r].cnt \in Nat
  BY DEF TypeInv, TypeOK, ReadCall
<1>2. /\ k \in 0 .. rd[r].cnt /\ \A c \in Nat : c < rd[r].pos + k => c < rd[r].pos \/ c < size
      /\ k = 0 => size <= rd[r].pos
  BY <1>1, AvailFits
<1> HIDE DEF k
<1>3. \A c \in Cells : rd[r].pos <= c /\ c < rd[r].pos + k => content[c] \in Byte
  BY <1>1, <1>2, CellFacts
<1> DEFINE d == Deliver(rd[r], k, content)
<1>4. /\ d \in ReadCall /\ d.pos = rd[r].pos + k /\ d.some = (rd[r].some \/ k > 0)
      /\ EofReturned(d, may)
  BY <1>2, <1>3, EofDeliver
<1> HIDE DEF d
<1>5. ASSUME ~d.some PROVE Eof \in may[d.pos]
  <2>1. ~(k > 0)
    BY <1>4, <1>5, Zenon
  <2>2. k = 0 /\ d.pos = rd[r].pos
    BY <1>1, <1>2, <1>4, <2>1
  <2> QED
    BY <1>2, <2>2
<1>6. EofRight(Returning(d), may)
  BY <1>4, <1>5, EofReturning
<1> QED
  BY <1>6 DEF d, k

\* One turn of the inner loop of a block read that delivers something.
LEMMA EofBlock ==
  ASSUME TypeInv, NEW r \in Readers, NEW content, NEW size \in Nat, NEW may,
         \A c \in Cells : c < size => content[c] \in Byte,
         Avail(rd[r].pos, BlockPart(r), size) # 0
  PROVE  LET d == Deliver(rd[r], Avail(rd[r].pos, BlockPart(r), size), content)
         IN  EofRight(d, may) /\ EofRight([d EXCEPT !.pc = "loop"], may)
<1> DEFINE k == Avail(rd[r].pos, BlockPart(r), size)
<1>1. /\ rd[r].pos \in Nat /\ rd[r].cnt \in Nat
      /\ BlockPart(r) \in Nat /\ BlockPart(r) <= rd[r].cnt
  BY ChunkFits DEF TypeInv, TypeOK, ReadCall
<1>2. k \in 0 .. BlockPart(r) /\ \A c \in Nat : c < rd[r].pos + k => c < rd[r].pos \/ c < size
  BY <1>1, AvailFits
<1>3. k # 0
  OBVIOUS
<1> HIDE DEF k
<1>4. k \in 0 .. rd[r].cnt /\ k > 0
  BY <1>1, <1>2, <1>3
<1>5. \A c \in Cells : rd[r].pos <= c /\ c < rd[r].pos + k => content[c] \in Byte
  BY <1>1, <1>2, CellFacts
<1> DEFINE d == Deliver(rd[r], k, content)
           e == [d EXCEPT !.pc = "loop"]
<1>6. d \in ReadCall /\ d.some = (rd[r].some \/ k > 0) /\ EofReturned(d, may)
  BY <1>4, <1>5, EofDeliver
<1> HIDE DEF d
<1>7. e.some = d.some /\ e.got = d.got /\ e.failed = d.failed
  BY <1>6 DEF ReadCall
<1> HIDE DEF e
<1>8. EofRight(d, may) /\ EofRight(e, may)
  BY <1>4, <1>6, <1>7 DEF EofRight, EofOK, EofReturned
<1> QED
  BY <1>8 DEF e, d, k

\* The steps of one reader.
LEMMA EofReader ==
  ASSUME TypeInv, DataInv, ReadInv, TailInv, EofInv, EofRegular, NEW r \in Readers,
         (\E s \in Spans : ReadBegin(r, s[1], s[2])) \/ ReaderStep(r) \/ ReadFails(r)
  PROVE  EofInv' /\ EofRegular'
<1> DEFINE R == rd[r]
           may == allowed[r]
<1>1. /\ R \in ReadCall /\ R.pos \in Nat /\ R.cnt \in Nat /\ TypeOK
      /\ ReadOK(R, may) /\ EofOK(R, may) /\ EofReturned(R, may)
      /\ may \in [Cells -> SUBSET Obs] /\ R.pos + R.cnt <= MaxPos
      /\ R.pc \notin {"idle", "loop", "ret"} => R.cnt >= 1
      /\ R.pc = "loop" => R.cnt >= 1 \/ R.some
  BY DEF TypeInv, TypeOK, ReadCall, ReadInv, EofInv, EofRegular, EofReturned, ReaderInv
<1>2. ASSUME NEW rec, rd' = [rd EXCEPT ![r] = rec], UNCHANGED ghostVars, EofRight(rec, may)
      PROVE  EofInv' /\ EofRegular'
  <2>1. allowed' = [allowed EXCEPT ![r] = may]
    BY <1>1, <1>2 DEF ghostVars, TypeOK
  <2> QED
    BY <1>2, <2>1, OneEof
<1>3. R.cnt >= 1 => R.pos \in Cells /\ Remaining(R, R.pos)
  BY <1>1, ConstAssumption DEF Cells, Remaining
<1>4. ASSUME R.cnt >= 1, R.pc \notin {"idle", "ret"}, Eof \in ideal[R.pos]
      PROVE  Eof \in may[R.pos]
  BY <1>1, <1>3, <1>4 DEF ReadOK
<1>5. ASSUME NEW pc, pc # "lower", R.pc \notin {"idle", "ret"},
             rd' = [rd EXCEPT ![r] = [R EXCEPT !.pc = pc]], UNCHANGED ghostVars
      PROVE  EofInv' /\ EofRegular'
  <2> DEFINE rec == [R EXCEPT !.pc = pc]
  <2>1. /\ rec.pc = pc /\ rec.some = R.some /\ rec.lower_end = R.lower_end /\ rec.pos = R.pos
        /\ rec.got = R.got /\ rec.failed = R.failed
    BY <1>1 DEF ReadCall
  <2>2. rd' = [rd EXCEPT ![r] = rec]
    BY <1>5
  <2> HIDE DEF rec
  <2>3. EofRight(rec, may)
    BY <1>1, <1>5, <2>1 DEF EofRight, EofOK, EofReturned
  <2> QED
    BY <1>2, <1>5, <2>2, <2>3
<1>6. CASE \E s \in Spans : ReadBegin(r, s[1], s[2])
  <2>1. PICK p \in 0 .. MaxPos, n \in 1 .. MaxPos : ReadBegin(r, p, n)
    BY <1>6 DEF Spans
  <2> DEFINE rl == IF copiedUp THEN "upper" ELSE "lower"
             rec == [NoRead EXCEPT !.pc = "enter", !.pos = p, !.cnt = n, !.real = rl]
             new == [c \in Cells |-> IF p <= c /\ c < p + n THEN ideal[c] ELSE {}]
  <2>2. rd' = [rd EXCEPT ![r] = rec] /\ allowed' = [allowed EXCEPT ![r] = new]
    BY <2>1 DEF ReadBegin
  <2>3. rec.pc = "enter" /\ rec.lower_end = FALSE /\ rec.got = {}
    BY DEF NoRead
  <2> HIDE DEF rec, new
  <2>4. EofRight(rec, new)
    BY <2>3 DEF EofRight, EofOK, EofReturned
  <2> QED
    BY <2>2, <2>4, OneEof
<1>7. CASE ReadEnter(r)
  <2>1. /\ R.pc = "enter" /\ UNCHANGED ghostVars
        /\ rd' = [rd EXCEPT ![r] = [R EXCEPT !.pc = IF cow_status THEN "loop" ELSE "plain"]]
    BY <1>1, <1>7 DEF ReadEnter
  <2> QED
    BY <1>5, <2>1
<1>8. CASE ReadPlain(r)
  <2>1. R.pc = "plain" /\ UNCHANGED ghostVars /\ R.cnt >= 1
    BY <1>1, <1>8 DEF ReadPlain
  <2>2. CASE R.real = "upper"
    <3>1. usize <= R.pos => Eof \in may[R.pos]
      <4> SUFFICES ASSUME usize <= R.pos PROVE Eof \in may[R.pos]
        OBVIOUS
      <4>1. ~FromLower(R.pos)
        BY <1>1, <2>1, <2>2 DEF ReadOK, FromLower
      <4>2. ~(R.pos < usize)
        BY <1>1, ContentType
      <4>3. Eof \in ideal[R.pos]
        BY <1>3, <2>1, <4>1, <4>2 DEF DataInv, UpperRight, UpperView
      <4> QED
        BY <1>4, <2>1, <4>3
    <3>2. rd' = [rd EXCEPT ![r] = Returning(Deliver(R, Avail(R.pos, R.cnt, usize), upper))]
      BY <1>8, <2>2 DEF ReadPlain, LastRead
    <3>3. EofRight(Returning(Deliver(R, Avail(R.pos, R.cnt, usize), upper)), may)
      BY <1>1, <2>1, <3>1, ContentType, EofLast
    <3> QED
      BY <1>2, <2>1, <3>2, <3>3
  <2>3. CASE R.real # "upper"
    <3>1. LowerSize <= R.pos => Eof \in may[R.pos]
      BY <1>1, <1>3, <2>1, <2>3, ConstAssumption DEF ReadOK, LowerView
    <3>2. rd' = [rd EXCEPT ![r] = Returning(Deliver(R, Avail(R.pos, R.cnt, LowerSize), LowerData))]
      BY <1>8, <2>3 DEF ReadPlain, LastRead
    <3>3. EofRight(Returning(Deliver(R, Avail(R.pos, R.cnt, LowerSize), LowerData)), may)
      BY <1>1, <2>1, <3>1, ContentType, EofLast
    <3> QED
      BY <1>2, <2>1, <3>2, <3>3
  <2> QED
    BY <2>2, <2>3
<1>9. CASE ReadTail(r)
  <2>1. /\ R.pc = "tail" /\ UNCHANGED ghostVars /\ R.cnt >= 1
        /\ ovl_get_block(R.pos) > NBlocks
    BY <1>1, <1>9 DEF ReadTail, ReadOK
  <2>2. usize <= R.pos => Eof \in may[R.pos]
    <3> SUFFICES ASSUME usize <= R.pos PROVE Eof \in may[R.pos]
      OBVIOUS
    <3>1. R.pos >= LowerSize /\ ~(R.pos < usize)
      BY <1>1, <1>3, <2>1, ContentType, CellFacts, TableSize
    <3>2. Eof \in ideal[R.pos]
      BY <1>3, <2>1, <3>1 DEF DataInv, UpperRight, UpperView
    <3> QED
      BY <1>4, <2>1, <3>2
  <2>3. rd' = [rd EXCEPT ![r] = Returning(Deliver(R, Avail(R.pos, R.cnt, usize), upper))]
    BY <1>9 DEF ReadTail, LastRead
  <2>4. EofRight(Returning(Deliver(R, Avail(R.pos, R.cnt, usize), upper)), may)
    BY <1>1, <2>1, <2>2, ContentType, EofLast
  <2> QED
    BY <1>2, <2>1, <2>3, <2>4
<1>10. CASE ReadLoop(r)
  <2> DEFINE start == ovl_get_block(R.pos)
  <2>1. /\ R.pc = "loop" /\ UNCHANGED ghostVars
        /\ copiedUp /\ block_count = NBlocks /\ start \in Nat /\ start >= 1 /\ NBlocks \in Nat
    BY <1>1, <1>10, BlockBounds, TableSize DEF ReadLoop, ReadOK
  <2>2. \/ R.cnt = 0 /\ rd' = [rd EXCEPT ![r] = Returning(R)]
        \/ R.lower_end /\ rd' = [rd EXCEPT ![r] = Returning(R)]
        \/ rd' = [rd EXCEPT ![r] = [R EXCEPT !.pc = "tail"]]
        \/ rd' = [rd EXCEPT ![r] = [R EXCEPT !.pc = "upper"]]
        \/ /\ R.cnt # 0 /\ ~(start > NBlocks) /\ block_status[start] = UNCOPY
           /\ rd' = [rd EXCEPT ![r] = [R EXCEPT !.pc = "lower"]]
    BY <1>10, <2>1 DEF ReadLoop
  <2>3. CASE (R.cnt = 0 \/ R.lower_end) /\ rd' = [rd EXCEPT ![r] = Returning(R)]
    <3>1. ~R.some => Eof \in may[R.pos]
      BY <1>1, <2>1, <2>3 DEF EofOK
    <3>2. EofRight(Returning(R), may)
      BY <1>1, <3>1, EofReturning
    <3> QED
      BY <1>2, <2>1, <2>3, <3>2
  <2>4. CASE /\ R.cnt # 0 /\ ~(start > NBlocks) /\ block_status[start] = UNCOPY
             /\ rd' = [rd EXCEPT ![r] = [R EXCEPT !.pc = "lower"]]
    <3> DEFINE rec == [R EXCEPT !.pc = "lower"]
    <3>1. /\ rec.pc = "lower" /\ rec.some = R.some /\ rec.lower_end = R.lower_end
          /\ rec.pos = R.pos /\ rec.got = R.got /\ rec.failed = R.failed
      BY <1>1 DEF ReadCall
    <3> HIDE DEF rec
    <3>2. R.cnt >= 1 /\ start \in Blocks
      BY <1>1, <2>1, <2>4 DEF Blocks
    <3>3. cow_status
      BY <2>1, <2>4, <3>2 DEF Blocks, UNCOPY, COPIED, DataInv, CowOffCopied
    <3>4. ASSUME R.pos >= LowerSize PROVE Eof \in may[R.pos]
      <4>1. start = NBlocks /\ LowerSize < NBlocks * BS /\ R.pos < NBlocks * BS
        BY <1>1, <3>2, <3>4, TailBlock
      <4>2. TailBelow
        BY <2>1, <2>4, <3>3, <4>1 DEF TailBelow, NotCopied
      <4>3. Eof \in ideal[R.pos]
        BY <1>1, <1>3, <3>2, <3>4, <4>1, <4>2, ConstAssumption DEF TailInv
      <4> QED
        BY <1>4, <2>1, <3>2, <4>3
    <3>5. EofRight(rec, may)
      BY <1>1, <2>1, <3>1, <3>4 DEF EofRight, EofOK, EofReturned
    <3> QED
      BY <1>2, <2>1, <2>4, <3>5 DEF rec
  <2> QED
    BY <1>5, <2>1, <2>2, <2>3, <2>4
<1>11. CASE ReadUpper(r)
  <2> DEFINE k == Avail(R.pos, BlockPart(r), usize)
             d == Deliver(R, k, upper)
  <2>1. R.pc = "upper" /\ UNCHANGED ghostVars /\ usize \in Nat
    BY <1>1, <1>11, ContentType DEF ReadUpper
  <2>2. \/ R.lower_end /\ rd' = [rd EXCEPT ![r] = Returning(R)]
        \/ rd' = [rd EXCEPT ![r] = [R EXCEPT !.pc = "loop"]]
        \/ k # 0 /\ rd' = [rd EXCEPT ![r] = [d EXCEPT !.pc = "loop"]]
        \/ k # 0 /\ rd' = [rd EXCEPT ![r] = d]
    BY <1>11 DEF ReadUpper
  <2>3. R.lower_end => EofRight(Returning(R), may)
    <3>1. R.lower_end /\ ~R.some => Eof \in may[R.pos]
      BY <1>1, <2>1 DEF EofOK
    <3> QED
      BY <1>1, <3>1, EofReturning
  <2>4. k # 0 => EofRight(d, may) /\ EofRight([d EXCEPT !.pc = "loop"], may)
    BY <1>1, <2>1, ContentType, EofBlock
  <2> HIDE DEF d, k
  <2> QED
    BY <1>2, <1>5, <2>1, <2>2, <2>3, <2>4
<1>12. CASE ReadLower(r)
  <2> DEFINE k == Avail(R.pos, BlockPart(r), LowerSize)
             d == Deliver(R, k, LowerData)
             end == [R EXCEPT !.pc = "loop", !.lower_end = TRUE]
  <2>1. R.pc = "lower" /\ UNCHANGED ghostVars /\ LowerSize \in Nat
    BY <1>12, ConstAssumption DEF ReadLower
  <2>2. \/ k = 0 /\ rd' = [rd EXCEPT ![r] = end]
        \/ k # 0 /\ rd' = [rd EXCEPT ![r] = [d EXCEPT !.pc = "loop"]]
        \/ k # 0 /\ rd' = [rd EXCEPT ![r] = d]
    BY <1>12 DEF ReadLower
  <2>3. k = 0 => R.pos >= LowerSize
    <3>1. BlockPart(r) \in Nat /\ BlockPart(r) >= 1
      BY <1>1, <2>1, ChunkFits
    <3> QED
      BY <1>1, <2>1, <3>1, AvailFits
  <2>4. k = 0 /\ ~R.some => Eof \in may[R.pos]
    BY <1>1, <2>1, <2>3 DEF EofOK
  <2>5. k # 0 => EofRight(d, may) /\ EofRight([d EXCEPT !.pc = "loop"], may)
    BY <1>1, <2>1, ContentType, EofBlock
  <2>6. end.some = R.some /\ end.pos = R.pos /\ end.got = R.got /\ end.failed = R.failed
    BY <1>1 DEF ReadCall
  <2> HIDE DEF d, k, end
  <2>7. k = 0 => EofRight(end, may)
    BY <1>1, <2>4, <2>6 DEF EofRight, EofOK, EofReturned
  <2> QED
    BY <1>2, <2>1, <2>2, <2>5, <2>7
<1>13. CASE ReadFails(r)
  <2>1. UNCHANGED ghostVars
    BY <1>13 DEF ReadFails
  <2>2. CASE R.pc \in {"upper", "lower"} /\ rd' = [rd EXCEPT ![r].pc = "loop"]
    <3>1. rd' = [rd EXCEPT ![r] = [R EXCEPT !.pc = "loop"]]
      BY <2>2
    <3> QED
      BY <1>5, <2>1, <2>2, <3>1
  <2>3. CASE rd' = [rd EXCEPT ![r] = Returning([R EXCEPT !.some = FALSE, !.failed = TRUE])]
    <3> DEFINE rec == Returning([R EXCEPT !.some = FALSE, !.failed = TRUE])
    <3>1. rec.pc = "ret" /\ rec.failed = TRUE
      BY <1>1 DEF Returning, ReadCall
    <3> HIDE DEF rec
    <3>2. EofRight(rec, may)
      BY <3>1 DEF EofRight, EofOK, EofReturned
    <3> QED
      BY <1>2, <2>1, <2>3, <3>2 DEF rec
  <2>4. CASE rd' = [rd EXCEPT ![r].pc = "ret", ![r].got = {}]
    <3> DEFINE rec == [R EXCEPT !.pc = "ret", !.got = {}]
    <3>1. rd' = [rd EXCEPT ![r] = rec]
      BY <2>4
    <3>2. rec.pc = "ret" /\ rec.got = {}
      BY <1>1 DEF ReadCall
    <3> HIDE DEF rec
    <3> QED
      BY <1>2, <2>1, <3>1, <3>2 DEF EofRight, EofOK, EofReturned
  <2> QED
    BY <1>13, <2>2, <2>3, <2>4 DEF ReadFails
<1>14. CASE ReadReturn(r)
  <2>1. rd' = [rd EXCEPT ![r] = NoRead] /\ allowed' = [allowed EXCEPT ![r] = NoCells]
    BY <1>14 DEF ReadReturn
  <2>2. EofRight(NoRead, NoCells)
    BY DEF NoRead, EofRight, EofOK, EofReturned
  <2> QED
    BY <2>1, <2>2, OneEof
<1> QED
  BY <1>6, <1>7, <1>8, <1>9, <1>10, <1>11, <1>12, <1>13, <1>14 DEF ReaderStep

LEMMA EofNext ==
  ASSUME Benign, TypeInv, DataInv, ReadInv, TailInv, EofInv, EofRegular, [Next]_vars
  PROVE  EofInv' /\ EofRegular'
<1>1. CASE \E r \in Readers : (\E s \in Spans : ReadBegin(r, s[1], s[2]))
                               \/ ReaderStep(r) \/ ReadFails(r)
  BY <1>1, EofReader
<1>2. CASE \/ CopyUp \/ CopyUpTrunc \/ WriterStep \/ WriteFails \/ UNCHANGED vars
           \/ \E s \in Spans, x \in Data : WriteBegin(s[1], s[2], x)
           \/ \E n \in 1 .. MaxPos, x \in Data : AppendBegin(n, x)
  <2>1. rd' = rd
    BY <1>2 DEF CopyUp, CopyUpTrunc, WriterStep, WriteFails, vars, WriteBegin, AppendBegin,
                AppendCopy, CopyStartBlock, CopyEndBlock, WriteData, MarkBlock, WriteReturn,
                WritePlain
  <2>2. UNCHANGED ghostVars \/ SetIdeal(ideal')
    BY <1>2 DEF CopyUp, CopyUpTrunc, WriterStep, WriteFails, vars, WriteBegin, AppendBegin,
                AppendCopy, CopyStartBlock, CopyEndBlock, WriteData, MarkBlock, WriteReturn,
                WritePlain, SetIdeal, ghostVars
  <2> QED
    BY <2>1, <2>2, EofKept
<1>3. ~(\E n \in 0 .. MaxPos : Truncate(n)) /\ ~Evict
  BY DEF Benign, Truncate, Evict
<1> QED
  BY <1>1, <1>2, <1>3 DEF Next

\* In a benign environment without sparse writes, an unlocked read returns "end of file"
\* only where the plain file ended at some moment of the read: the two ends it meets, the
\* lower file's and the upper file's, never cut the file short, unless the vfs_iter_read
\* past the last block failed.
THEOREM EofRegularCorrect == ASSUME Benign, Dense PROVE Spec => []EofRegular
<1> DEFINE I == /\ TypeInv /\ CopyCountExact /\ DataInv /\ ReadInv /\ ReadsRegular
                /\ TailInv /\ EofInv /\ EofRegular
<1>1. Init => I
  BY TypeInit, CountInit, DataInit, ReadInit, TailInit, EofInit
<1>2. I /\ [Next]_vars => I'
  BY TypeNext, CountNext, DataNext, ReadNext, TailNext, EofNext
<1>3. I => EofRegular
  OBVIOUS
<1> QED
  BY <1>1, <1>2, <1>3, PTL DEF Spec

\* The invariant that TLC checks on the run cow_reads is one, in every benign environment:
\* it holds at first and every step keeps it.
THEOREM IInvCorrect == ASSUME Benign PROVE Spec => []IInv
<1> DEFINE J == /\ TypeInv /\ CopyCountExact /\ DataInv /\ ReadInv /\ AppendInv
                /\ ReadsRegular
           I == J /\ (Dense => TailInv /\ EofInv /\ EofRegular)
<1>1. Init => I
  BY TypeInit, CountInit, DataInit, ReadInit, TailInit, EofInit DEF Init, AppendInv, NoWrite
<1>2. J /\ [Next]_vars => J'
  BY TypeNext, CountNext, DataNext, ReadNext, AppendNext
<1>3. J /\ [Next]_vars /\ Dense /\ TailInv /\ EofInv /\ EofRegular
        => TailInv' /\ EofInv' /\ EofRegular'
  BY <1>2, TailNext, EofNext
<1>4. Dense' = Dense
  BY DEF Dense
<1>5. I /\ [Next]_vars => I'
  BY <1>2, <1>3, <1>4
<1>6. I => IInv
  BY DEF IInv
<1> QED
  BY <1>1, <1>5, <1>6, PTL DEF Spec

=============================================================================
