--------------------------- MODULE BlockReadProofs --------------------------
(***************************************************************************)
(* What an unlocked read returns, for every block size, lower file, bound, *)
(* set of readers and written values.                                      *)
(***************************************************************************)
EXTENDS BlockCowProofs

\* What a read has returned is among what it may return.
Returned(rec, may) == \A o \in rec.got : o[2] # Eof => o[2] \in may[o[1]]

LEMMA ReadInit == Init => ReadInv /\ ReadsRegular
<1> SUFFICES ASSUME Init PROVE ReadInv /\ ReadsRegular
  OBVIOUS
<1>1. \A r \in Readers : rd[r].pc = "idle" /\ rd[r].got = {}
  BY DEF Init, NoRead
<1> QED
  BY <1>1 DEF ReadInv, ReadOK, ReadsRegular

\* A plain file shows something at every cell.
LEMMA IdealNonempty ==
  ASSUME DataInv, NEW c \in Cells
  PROVE  ideal[c] # {}
  BY DEF DataInv, LowerRight, UpperRight, InTailGap

-----------------------------------------------------------------------------
(* Steps of others. *)

\* What a read may return only grows while it runs.
LEMMA AllowedGrows ==
  ASSUME UNCHANGED ghostVars \/ SetIdeal(ideal'), NEW r \in Readers, NEW c \in Cells
  PROVE  /\ allowed[r][c] \subseteq allowed'[r][c]
         /\ allowed[r][c] # {} /\ ideal[c] \subseteq allowed[r][c]
              => ideal'[c] \subseteq allowed'[r][c]
  BY DEF ghostVars, SetIdeal

\* Copy-on-write only moves forward under a read that has seen it.
CowMonotone ==
  copiedUp => /\ copiedUp'
              /\ block_count' = block_count
              /\ ~cow_status => ~cow_status'
              /\ \A b \in Blocks : block_status[b] = COPIED => block_status'[b] = COPIED

LEMMA ReadKept ==
  ASSUME TypeInv, ReadInv, ReadsRegular, rd' = rd, CowMonotone,
         UNCHANGED ghostVars \/ SetIdeal(ideal')
  PROVE  ReadInv' /\ ReadsRegular'
<1> SUFFICES ASSUME NEW r \in Readers
             PROVE  ReadOK(rd[r], allowed[r])' /\ Returned(rd[r], allowed[r])'
  BY DEF ReadInv, ReadsRegular, Returned
<1> DEFINE R == rd[r]
<1>1. /\ ReadOK(R, allowed[r]) /\ rd'[r] = R /\ R \in ReadCall
      /\ \A o \in R.got : o[2] # Eof => o[2] \in allowed[r][o[1]]
  BY DEF ReadInv, ReadsRegular, TypeInv, TypeOK
<1>2. \A c \in Cells : /\ allowed[r][c] \subseteq allowed'[r][c]
                       /\ allowed[r][c] # {} /\ ideal[c] \subseteq allowed[r][c]
                            => ideal'[c] \subseteq allowed'[r][c]
  BY AllowedGrows
<1>3. Returned(rd[r], allowed[r])'
  <2> SUFFICES ASSUME NEW o \in R.got, o[2] # Eof PROVE o[2] \in allowed'[r][o[1]]
    BY <1>1 DEF Returned
  <2>1. o[1] \in Cells /\ o[2] \in allowed[r][o[1]]
    BY <1>1 DEF ReadCall
  <2> QED
    BY <1>2, <2>1
<1> HIDE DEF R
<1>4. R.pc \notin {"idle", "ret"} => \A c \in Cells :
        Remaining(R, c) => ideal'[c] \subseteq allowed'[r][c] /\ allowed'[r][c] # {}
  BY <1>1, <1>2 DEF ReadOK
<1>5. R.pc \in {"enter", "plain"} =>
        IF R.real = "upper" THEN copiedUp'
        ELSE \A c \in Cells : Remaining(R, c) => LowerView(c) \in allowed'[r][c]
  BY <1>1, <1>2 DEF ReadOK, CowMonotone
<1>6. R.pc = "plain" /\ R.real = "upper" => ~cow_status'
  BY <1>1 DEF ReadOK, CowMonotone
<1>7. R.pc \in {"loop", "tail", "upper", "lower"} => copiedUp' /\ block_count' = NBlocks
  BY <1>1 DEF ReadOK, CowMonotone
<1>8. R.pc = "upper" => /\ ovl_get_block(R.pos) \in Blocks
                        /\ block_status'[ovl_get_block(R.pos)] = COPIED
  BY <1>1 DEF ReadOK, CowMonotone
<1>9. R.pc = "lower" => \A c \in Cells :
        Remaining(R, c) /\ ovl_get_block(c) = ovl_get_block(R.pos) /\ c < LowerSize
          => LowerData[c] \in allowed'[r][c]
  BY <1>1, <1>2 DEF ReadOK
<1>10. R.pc = "tail" => ovl_get_block(R.pos) > NBlocks
  BY <1>1 DEF ReadOK
<1>11. ReadOK(rd[r], allowed[r])'
  BY <1>1, <1>4, <1>5, <1>6, <1>7, <1>8, <1>9, <1>10 DEF ReadOK, Remaining, LowerView
<1> QED
  BY <1>3, <1>11

\* Every step that is not a reader's, in a benign environment.
LEMMA OthersKeep ==
  ASSUME Benign, TypeInv, ReadInv, ReadsRegular,
         \/ CopyUp \/ CopyUpTrunc \/ WriterStep \/ WriteFails
         \/ \E s \in Spans, x \in Data : WriteBegin(s[1], s[2], x)
         \/ \E n \in 1 .. MaxPos, x \in Data : AppendBegin(n, x)
         \/ UNCHANGED vars
  PROVE  ReadInv' /\ ReadsRegular'
<1>1. CASE CopyUp \/ CopyUpTrunc
  <2>1. ~copiedUp /\ rd' = rd
    BY <1>1 DEF CopyUp, CopyUpTrunc
  <2>2. UNCHANGED ghostVars \/ SetIdeal(ideal')
    BY <1>1 DEF CopyUp, CopyUpTrunc, SetIdeal
  <2> QED
    BY <2>1, <2>2, ReadKept DEF CowMonotone
<1>2. CASE MarkBlock
  <2>1. /\ w.i \in Blocks /\ rd' = rd /\ UNCHANGED ghostVars
        /\ UNCHANGED <<copiedUp, cow_status, block_count>>
    BY <1>2, TableSize DEF MarkBlock, TypeInv, WriterInv, CowInv, Active, TypeOK, WriteCall, Blocks
  <2>2. \A b \in Blocks : block_status[b] = COPIED => block_status'[b] = COPIED
    BY <1>2, <2>1 DEF MarkBlock, TypeInv, TypeOK
  <2> QED
    BY <2>1, <2>2, ReadKept DEF CowMonotone
<1>3. CASE WriteReturn
  <2>1. CowMonotone /\ rd' = rd /\ SetIdeal(ideal')
    BY <1>3 DEF WriteReturn, SetIdeal, CowMonotone
  <2> QED
    BY <2>1, ReadKept
<1>4. CASE WriteData \/ WritePlain
  <2>1. UNCHANGED cowVars /\ rd' = rd /\ SetIdeal(ideal')
    BY <1>4 DEF WriteData, WritePlain, SetIdeal
  <2> QED
    BY <2>1, ReadKept DEF CowMonotone, cowVars
<1>5. CASE \/ AppendCopy \/ CopyStartBlock \/ CopyEndBlock \/ WriteFails \/ UNCHANGED vars
           \/ \E s \in Spans, x \in Data : WriteBegin(s[1], s[2], x)
           \/ \E n \in 1 .. MaxPos, x \in Data : AppendBegin(n, x)
  <2>1. UNCHANGED <<cowVars, rd, ghostVars>>
    BY <1>5 DEF AppendCopy, CopyStartBlock, CopyEndBlock, WriteFails, WriteBegin, AppendBegin,
                vars, cowVars, ghostVars
  <2> QED
    BY <2>1, ReadKept DEF CowMonotone, cowVars
<1> QED
  BY <1>1, <1>2, <1>3, <1>4, <1>5 DEF WriterStep

-----------------------------------------------------------------------------
(* The reader's own steps. *)

\* A step of reader r concerns no other reader.
LEMMA OneReads ==
  ASSUME TypeInv, ReadInv, ReadsRegular, NEW r \in Readers, NEW rec, NEW may,
         UNCHANGED <<cowVars, ideal>>,
         rd' = [rd EXCEPT ![r] = rec], allowed' = [allowed EXCEPT ![r] = may],
         ReadOK(rec, may), Returned(rec, may)
  PROVE  ReadInv' /\ ReadsRegular'
<1> SUFFICES ASSUME NEW q \in Readers
             PROVE  ReadOK(rd[q], allowed[q])' /\ Returned(rd[q], allowed[q])'
  BY DEF ReadInv, ReadsRegular, Returned
<1>1. /\ rd'[q] = IF q = r THEN rec ELSE rd[q]
      /\ allowed'[q] = IF q = r THEN may ELSE allowed[q]
  BY DEF TypeInv, TypeOK
<1>2. ReadOK(rd'[q], allowed'[q]) /\ Returned(rd'[q], allowed'[q])
  BY <1>1 DEF ReadInv, ReadsRegular, Returned
<1> QED
  BY <1>2 DEF ReadOK, Returned, Remaining, LowerView, cowVars

\* A block read stays inside one block.
LEMMA PartInBlock ==
  ASSUME TypeInv, NEW r \in Readers, NEW c \in Nat,
         rd[r].pos <= c, c < rd[r].pos + BlockPart(r)
  PROVE  ovl_get_block(c) = ovl_get_block(rd[r].pos)
<1> DEFINE p == rd[r].pos
           n == rd[r].cnt
<1>1. p \in Nat /\ n \in Nat /\ p + n \in Nat /\ BlockPart(r) \in 0 .. n
  BY ChunkFits DEF TypeInv, TypeOK, ReadCall
<1>2. /\ ovl_get_block(p) \in Nat /\ BlockStart(ovl_get_block(p)) \in Nat
      /\ BlockStart(ovl_get_block(p)) <= p
  BY <1>1, BlockBounds
<1>3. CASE ovl_get_block(p) = ovl_get_block(p + n)
  <2>1. c <= p + n
    BY <1>1
  <2>2. ovl_get_block(p) <= ovl_get_block(c) /\ ovl_get_block(c) <= ovl_get_block(p + n)
    BY <1>1, <2>1, BlockMono
  <2>3. ovl_get_block(c) \in Nat
    BY BlockBounds
  <2> QED
    BY <1>2, <1>3, <2>2, <2>3
<1>4. CASE ovl_get_block(p) # ovl_get_block(p + n)
  <2>1. BlockPart(r) = ovl_get_block(p) * BS - p
    BY <1>4 DEF BlockPart
  <2>2. ovl_get_block(p) * BS \in Nat
    BY <1>2, ConstAssumption
  <2>3. (ovl_get_block(p) - 1) * BS <= c /\ c < ovl_get_block(p) * BS
    BY <1>1, <1>2, <2>1, <2>2 DEF BlockStart
  <2> QED
    BY <1>2, <2>3, BlockUnique
<1> QED
  BY <1>3, <1>4

\* What the upper file delivers outside the blocks that come from the lower
\* file, and what the lower file delivers, may be returned.
LEMMA UpperAllowed ==
  ASSUME TypeInv, DataInv, NEW c \in Cells, ~FromLower(c) \/ c >= LowerSize, c < usize
  PROVE  upper[c] \in ideal[c]
  BY DEF DataInv, UpperRight, UpperView

\* A read that returns what it has.
LEMMA ReturnOK ==
  ASSUME NEW rec \in ReadCall, NEW may, Returned(rec, may)
  PROVE  ReadOK(Returning(rec), may) /\ Returned(Returning(rec), may)
<1>1. /\ Returning(rec).pc = "ret"
      /\ Returning(rec).got = IF rec.some THEN rec.got ELSE {<<rec.pos, Eof>>}
  BY DEF Returning, ReadCall
<1>2. ReadOK(Returning(rec), may)
  BY <1>1 DEF ReadOK
<1> QED
  BY <1>1, <1>2 DEF Returned

\* Cells that may be returned are delivered.
LEMMA DeliverOK ==
  ASSUME TypeInv, NEW r \in Readers, NEW k \in 0 .. rd[r].cnt, NEW content,
         \A c \in Cells : rd[r].pos <= c /\ c < rd[r].pos + k
                            => content[c] \in Byte /\ content[c] \in allowed[r][c]
  PROVE  LET d == Deliver(rd[r], k, content)
         IN  /\ d \in ReadCall /\ d.pc = rd[r].pc /\ d.real = rd[r].real
             /\ d.pos = rd[r].pos + k /\ d.cnt = rd[r].cnt - k
             /\ Returned(d, allowed[r])
<1>1. /\ rd[r] \in ReadCall /\ rd[r].pos \in Nat /\ rd[r].cnt \in Nat /\ MaxPos \in Nat
      /\ rd[r].pos + rd[r].cnt <= MaxPos /\ k \in Nat /\ k <= rd[r].cnt
  BY ConstAssumption DEF TypeInv, TypeOK, ReaderInv, ReadCall
<1> DEFINE d == Deliver(rd[r], k, content)
<1>2. /\ d \in ReadCall /\ d.pc = rd[r].pc /\ d.real = rd[r].real
      /\ d.pos = rd[r].pos + k /\ d.cnt = rd[r].cnt - k
      /\ d.got = {<<c, content[c]>> : c \in rd[r].pos .. rd[r].pos + k - 1}
  BY <1>1, DeliverType
<1> HIDE DEF d
<1>3. Returned(d, allowed[r])
  <2> SUFFICES ASSUME NEW o \in d.got PROVE o[2] \in allowed[r][o[1]]
    BY DEF Returned
  <2>1. PICK c \in rd[r].pos .. rd[r].pos + k - 1 : o = <<c, content[c]>>
    BY <1>2
  <2>2. c \in Cells /\ rd[r].pos <= c /\ c < rd[r].pos + k
    BY <1>1, <2>1 DEF Cells
  <2> QED
    BY <2>1, <2>2
<1> QED
  BY <1>2, <1>3 DEF d

\* A vfs_iter_read that ends the call.
LEMMA LastReadOK ==
  ASSUME TypeInv, NEW r \in Readers, NEW content, NEW size \in Nat,
         \A c \in Cells : Remaining(rd[r], c) /\ c < size
                            => content[c] \in Byte /\ content[c] \in allowed[r][c]
  PROVE  LET rec == Returning(Deliver(rd[r], Avail(rd[r].pos, rd[r].cnt, size), content))
         IN  ReadOK(rec, allowed[r]) /\ Returned(rec, allowed[r])
<1> DEFINE k == Avail(rd[r].pos, rd[r].cnt, size)
<1>1. rd[r].pos \in Nat /\ rd[r].cnt \in Nat
  BY DEF TypeInv, TypeOK, ReadCall
<1>2. k \in 0 .. rd[r].cnt /\ \A c \in Nat : c < rd[r].pos + k => c < rd[r].pos \/ c < size
  BY <1>1, AvailFits
<1> HIDE DEF k
<1>3. \A c \in Cells : rd[r].pos <= c /\ c < rd[r].pos + k => Remaining(rd[r], c) /\ c < size
  BY <1>1, <1>2, CellFacts DEF Remaining
<1>4. /\ Deliver(rd[r], k, content) \in ReadCall
      /\ Returned(Deliver(rd[r], k, content), allowed[r])
  BY <1>2, <1>3, DeliverOK
<1> QED
  BY <1>4, ReturnOK DEF k

\* One turn of the inner loop of a block read, from either layer.
LEMMA BlockReadOK ==
  ASSUME TypeInv, NEW r \in Readers, ReadOK(rd[r], allowed[r]), rd[r].pc \in {"upper", "lower"},
         NEW content, NEW size \in Nat,
         \A c \in Cells : Remaining(rd[r], c) /\ ovl_get_block(c) = ovl_get_block(rd[r].pos)
                          /\ c < size
                            => content[c] \in Byte /\ content[c] \in allowed[r][c]
  PROVE  LET k == Avail(rd[r].pos, BlockPart(r), size)
             d == Deliver(rd[r], k, content)
             e == [d EXCEPT !.pc = "loop"]
         IN  /\ Returned(d, allowed[r]) /\ Returned(e, allowed[r])
             /\ k # BlockPart(r) => ReadOK(d, allowed[r])
             /\ ReadOK(e, allowed[r])
<1> DEFINE k == Avail(rd[r].pos, BlockPart(r), size)
           d == Deliver(rd[r], k, content)
           e == [d EXCEPT !.pc = "loop"]
<1>1. /\ rd[r].pos \in Nat /\ rd[r].cnt \in Nat
      /\ BlockPart(r) \in Nat /\ BlockPart(r) <= rd[r].cnt
  BY ChunkFits DEF TypeInv, TypeOK, ReadCall
<1>2. k \in 0 .. BlockPart(r) /\ \A c \in Nat : c < rd[r].pos + k => c < rd[r].pos \/ c < size
  BY <1>1, AvailFits
<1> HIDE DEF k
<1>3. k \in 0 .. rd[r].cnt /\ k \in Nat /\ k <= BlockPart(r)
  BY <1>1, <1>2
<1>4. \A c \in Cells : rd[r].pos <= c /\ c < rd[r].pos + k
        => /\ Remaining(rd[r], c) /\ c < size
           /\ ovl_get_block(c) = ovl_get_block(rd[r].pos)
  <2> SUFFICES ASSUME NEW c \in Cells, rd[r].pos <= c, c < rd[r].pos + k
               PROVE  /\ Remaining(rd[r], c) /\ c < size
                      /\ ovl_get_block(c) = ovl_get_block(rd[r].pos)
    OBVIOUS
  <2>1. c \in Nat /\ c < rd[r].pos + BlockPart(r) /\ c < rd[r].pos + rd[r].cnt
    BY <1>1, <1>3, CellFacts
  <2>2. c < size
    BY <1>1, <1>2, <2>1
  <2> QED
    BY <2>1, <2>2, PartInBlock DEF Remaining
<1>5. /\ d \in ReadCall /\ d.pc = rd[r].pc /\ d.real = rd[r].real
      /\ d.pos = rd[r].pos + k /\ d.cnt = rd[r].cnt - k
      /\ Returned(d, allowed[r])
  BY <1>3, <1>4, DeliverOK
<1> HIDE DEF d
<1>6. e.pc = "loop" /\ e.pos = d.pos /\ e.cnt = d.cnt /\ e.real = d.real /\ e.got = d.got
  BY <1>5 DEF ReadCall
<1> HIDE DEF e
<1>7. Returned(e, allowed[r])
  BY <1>5, <1>6 DEF Returned
<1>8. \A c \in Cells : Remaining(d, c) => Remaining(rd[r], c)
  BY <1>1, <1>3, <1>5, CellFacts DEF Remaining
<1>9. \A c \in Cells : Remaining(e, c) => Remaining(d, c)
  BY <1>6 DEF Remaining
<1>10. ReadOK(e, allowed[r])
  BY <1>6, <1>8, <1>9 DEF ReadOK
<1>11. ASSUME k # BlockPart(r) PROVE ReadOK(d, allowed[r])
  <2>1. d.pos \in Nat /\ rd[r].pos <= d.pos /\ d.pos < rd[r].pos + BlockPart(r)
    BY <1>1, <1>3, <1>5, <1>11
  <2>2. ovl_get_block(d.pos) = ovl_get_block(rd[r].pos)
    BY <2>1, PartInBlock
  <2> QED
    BY <1>5, <1>8, <2>2 DEF ReadOK
<1> QED
  BY <1>5, <1>7, <1>10, <1>11 DEF d, e, k

\* A change of pc that leads to a state with nothing to rely on, or to one in
\* which the read relies on less.
LEMMA PcOK ==
  ASSUME NEW rec \in ReadCall, NEW may, Returned(rec, may), NEW pc
  PROVE  LET new == [rec EXCEPT !.pc = pc]
         IN  /\ Returned(new, may) /\ new.pc = pc /\ new.pos = rec.pos /\ new.cnt = rec.cnt
             /\ new.real = rec.real
             /\ \A c \in Cells : Remaining(new, c) = Remaining(rec, c)
<1>1. /\ [rec EXCEPT !.pc = pc].pc = pc /\ [rec EXCEPT !.pc = pc].pos = rec.pos
      /\ [rec EXCEPT !.pc = pc].cnt = rec.cnt /\ [rec EXCEPT !.pc = pc].real = rec.real
      /\ [rec EXCEPT !.pc = pc].got = rec.got
  BY DEF ReadCall
<1> QED
  BY <1>1 DEF Returned, Remaining

LEMMA ReaderKeeps ==
  ASSUME TypeInv, DataInv, ReadInv, ReadsRegular, NEW r \in Readers,
         (\E s \in Spans : ReadBegin(r, s[1], s[2])) \/ ReaderStep(r) \/ ReadFails(r)
  PROVE  ReadInv' /\ ReadsRegular'
<1> DEFINE R == rd[r]
           may == allowed[r]
<1>1. /\ R \in ReadCall /\ R.pos \in Nat /\ R.cnt \in Nat /\ TypeOK
      /\ ReadOK(R, may) /\ Returned(R, may) /\ may \in [Cells -> SUBSET Obs]
  BY DEF TypeInv, TypeOK, ReadCall, ReadInv, ReadsRegular, Returned
<1>2. ASSUME NEW rec, rd' = [rd EXCEPT ![r] = rec], UNCHANGED <<cowVars, ghostVars>>,
             ReadOK(rec, may), Returned(rec, may)
      PROVE  ReadInv' /\ ReadsRegular'
  <2>1. allowed' = [allowed EXCEPT ![r] = may] /\ ideal' = ideal
    BY <1>1, <1>2 DEF ghostVars, TypeOK
  <2> QED
    BY <1>2, <2>1, OneReads
<1>3. CASE \E s \in Spans : ReadBegin(r, s[1], s[2])
  <2>1. PICK p \in 0 .. MaxPos, n \in 1 .. MaxPos : ReadBegin(r, p, n)
    BY <1>3 DEF Spans
  <2> DEFINE rl == IF copiedUp THEN "upper" ELSE "lower"
             rec == [NoRead EXCEPT !.pc = "enter", !.pos = p, !.cnt = n, !.real = rl]
             new == [c \in Cells |-> IF p <= c /\ c < p + n THEN ideal[c] ELSE {}]
  <2>2. /\ rd' = [rd EXCEPT ![r] = rec] /\ allowed' = [allowed EXCEPT ![r] = new]
        /\ UNCHANGED <<cowVars, ideal>>
    BY <2>1 DEF ReadBegin
  <2>3. rec.pc = "enter" /\ rec.pos = p /\ rec.cnt = n /\ rec.got = {} /\ rec.real = rl
    BY DEF NoRead
  <2> HIDE DEF rec
  <2>4. \A c \in Cells : Remaining(rec, c) => new[c] = ideal[c] /\ ideal[c] # {}
    BY <2>3, IdealNonempty DEF Remaining
  <2>5. ~copiedUp => \A c \in Cells : LowerView(c) \in ideal[c]
    BY DEF DataInv, LowerRight, FromLower, InTailGap
  <2> HIDE DEF new
  <2>6. ReadOK(rec, new) /\ Returned(rec, new)
    BY <2>3, <2>4, <2>5 DEF ReadOK, Returned
  <2> QED
    BY <2>2, <2>6, OneReads
<1>4. CASE ReadEnter(r)
  <2> DEFINE pc == IF cow_status THEN "loop" ELSE "plain"
             rec == [R EXCEPT !.pc = pc]
  <2>1. rd' = [rd EXCEPT ![r] = rec] /\ UNCHANGED <<cowVars, ghostVars>> /\ R.pc = "enter"
    BY <1>1, <1>4 DEF ReadEnter
  <2> HIDE DEF pc
  <2>0. /\ rec.pc = pc /\ rec.pos = R.pos /\ rec.real = R.real /\ rec.cnt = R.cnt
        /\ rec.got = R.got
    BY <1>1 DEF ReadCall
  <2> HIDE DEF rec
  <2>2. /\ Returned(rec, may) /\ rec.pc = pc /\ rec.pos = R.pos /\ rec.real = R.real
        /\ \A c \in Cells : Remaining(rec, c) = Remaining(R, c)
    BY <1>1, <2>0 DEF Returned, Remaining
  <2>3. cow_status => copiedUp /\ block_count = NBlocks
    BY DEF TypeInv, CowInv
  <2>4. ReadOK(rec, may)
    BY <1>1, <2>1, <2>2, <2>3 DEF ReadOK, pc
  <2> QED
    BY <1>2, <2>1, <2>2, <2>4
<1>5. CASE ReadPlain(r)
  <2>1. R.pc = "plain" /\ UNCHANGED <<cowVars, ghostVars>>
    BY <1>5 DEF ReadPlain
  <2>2. CASE R.real = "upper"
    <3>1. \A c \in Cells : Remaining(R, c) /\ c < usize
            => upper[c] \in Byte /\ upper[c] \in may[c]
      BY <1>1, <2>1, <2>2, UpperAllowed, ContentType DEF ReadOK, FromLower
    <3>2. usize \in Nat
      BY <1>1, ContentType
    <3> QED
      BY <1>2, <1>5, <2>1, <2>2, <3>1, <3>2, LastReadOK DEF ReadPlain, LastRead
  <2>3. CASE R.real # "upper"
    <3>1. \A c \in Cells : Remaining(R, c) /\ c < LowerSize
            => LowerData[c] \in Byte /\ LowerData[c] \in may[c]
      BY <1>1, <2>1, <2>3, ContentType DEF ReadOK, LowerView
    <3> QED
      BY <1>2, <1>5, <2>1, <2>3, <3>1, ConstAssumption, LastReadOK DEF ReadPlain, LastRead
  <2> QED
    BY <2>2, <2>3
<1>6. CASE ReadTail(r)
  <2>1. R.pc = "tail" /\ UNCHANGED <<cowVars, ghostVars>> /\ ovl_get_block(R.pos) > NBlocks
    BY <1>1, <1>6 DEF ReadTail, ReadOK
  <2>2. \A c \in Cells : Remaining(R, c) => c >= LowerSize
    <3> SUFFICES ASSUME NEW c \in Cells, Remaining(R, c), c < LowerSize PROVE FALSE
      BY CellFacts, ConstAssumption
    <3>1. ovl_get_block(R.pos) <= ovl_get_block(c)
      BY <1>1, CellFacts, BlockMono DEF Remaining
    <3>2. ovl_get_block(c) \in Nat /\ ovl_get_block(c) <= NBlocks
      BY CellFacts
    <3> QED
      BY <1>1, <2>1, <3>1, <3>2, BlockBounds, TableSize
  <2>3. \A c \in Cells : Remaining(R, c) /\ c < usize
          => upper[c] \in Byte /\ upper[c] \in may[c]
    BY <1>1, <2>1, <2>2, UpperAllowed, ContentType DEF ReadOK
  <2>4. usize \in Nat
    BY <1>1, ContentType
  <2> QED
    BY <1>2, <1>6, <2>1, <2>3, <2>4, LastReadOK DEF ReadTail, LastRead
<1>7. CASE ReadLoop(r)
  <2> DEFINE start == ovl_get_block(R.pos)
  <2>1. /\ R.pc = "loop" /\ UNCHANGED <<cowVars, ghostVars>>
        /\ copiedUp /\ block_count = NBlocks /\ start \in Nat /\ start >= 1 /\ NBlocks \in Nat
    BY <1>1, <1>7, BlockBounds, TableSize DEF ReadLoop, ReadOK
  <2>2. \/ rd' = [rd EXCEPT ![r] = Returning(R)]
        \/ start > NBlocks /\ rd' = [rd EXCEPT ![r] = [R EXCEPT !.pc = "tail"]]
        \/ /\ ~(start > NBlocks) /\ block_status[start] # UNCOPY
           /\ rd' = [rd EXCEPT ![r] = [R EXCEPT !.pc = "upper"]]
        \/ /\ ~(start > NBlocks) /\ block_status[start] = UNCOPY
           /\ rd' = [rd EXCEPT ![r] = [R EXCEPT !.pc = "lower"]]
    BY <1>7, <2>1 DEF ReadLoop
  <2>3. CASE rd' = [rd EXCEPT ![r] = Returning(R)]
    BY <1>1, <1>2, <2>1, <2>3, ReturnOK
  <2>4. CASE start > NBlocks /\ rd' = [rd EXCEPT ![r] = [R EXCEPT !.pc = "tail"]]
    <3> DEFINE rec == [R EXCEPT !.pc = "tail"]
    <3>1. /\ Returned(rec, may) /\ rec.pc = "tail" /\ rec.pos = R.pos
          /\ \A c \in Cells : Remaining(rec, c) = Remaining(R, c)
      BY <1>1, PcOK
    <3> HIDE DEF rec
    <3>2. ReadOK(rec, may)
      BY <1>1, <2>1, <2>4, <3>1 DEF ReadOK
    <3> QED
      BY <1>2, <2>1, <2>4, <3>1, <3>2 DEF rec
  <2>5. CASE /\ ~(start > NBlocks) /\ block_status[start] # UNCOPY
             /\ rd' = [rd EXCEPT ![r] = [R EXCEPT !.pc = "upper"]]
    <3> DEFINE rec == [R EXCEPT !.pc = "upper"]
    <3>1. /\ Returned(rec, may) /\ rec.pc = "upper" /\ rec.pos = R.pos
          /\ \A c \in Cells : Remaining(rec, c) = Remaining(R, c)
      BY <1>1, PcOK
    <3> HIDE DEF rec
    <3>2. start \in Blocks /\ block_status[start] = COPIED
      BY <1>1, <2>1, <2>5 DEF Blocks, TypeOK
    <3>3. ReadOK(rec, may)
      BY <1>1, <2>1, <3>1, <3>2 DEF ReadOK
    <3> QED
      BY <1>2, <2>1, <2>5, <3>1, <3>3 DEF rec
  <2>6. CASE /\ ~(start > NBlocks) /\ block_status[start] = UNCOPY
             /\ rd' = [rd EXCEPT ![r] = [R EXCEPT !.pc = "lower"]]
    <3> DEFINE rec == [R EXCEPT !.pc = "lower"]
    <3>1. /\ Returned(rec, may) /\ rec.pc = "lower" /\ rec.pos = R.pos
          /\ \A c \in Cells : Remaining(rec, c) = Remaining(R, c)
      BY <1>1, PcOK
    <3> HIDE DEF rec
    <3>2. start \in Blocks /\ NotCopied(start) /\ cow_status
      BY <2>1, <2>6 DEF NotCopied, Blocks, UNCOPY, COPIED, DataInv, CowOffCopied
    <3>3. \A c \in Cells : Remaining(R, c) /\ ovl_get_block(c) = start /\ c < LowerSize
            => LowerData[c] \in may[c]
      <4> SUFFICES ASSUME NEW c \in Cells, Remaining(R, c), ovl_get_block(c) = start,
                          c < LowerSize
                   PROVE  LowerData[c] \in may[c]
        OBVIOUS
      <4>1. FromLower(c) /\ ~InTailGap(c)
        BY <3>2, CellFacts, ConstAssumption DEF FromLower, InTailGap
      <4>2. LowerData[c] \in ideal[c]
        BY <4>1 DEF DataInv, LowerRight, LowerView
      <4> QED
        BY <1>1, <2>1, <4>2 DEF ReadOK
    <3>4. ReadOK(rec, may)
      BY <1>1, <2>1, <3>1, <3>3 DEF ReadOK
    <3> QED
      BY <1>2, <2>1, <2>6, <3>1, <3>4 DEF rec
  <2> QED
    BY <2>2, <2>3, <2>4, <2>5, <2>6
<1>8. ASSUME R.pc \in {"upper", "lower"}
      PROVE  /\ ReadOK([R EXCEPT !.pc = "loop"], may) /\ Returned([R EXCEPT !.pc = "loop"], may)
             /\ ReadOK([R EXCEPT !.pc = "loop", !.lower_end = TRUE], may)
             /\ Returned([R EXCEPT !.pc = "loop", !.lower_end = TRUE], may)
  <2> DEFINE rec == [R EXCEPT !.pc = "loop"]
             end == [R EXCEPT !.pc = "loop", !.lower_end = TRUE]
  <2>1. /\ rec.pc = "loop" /\ rec.pos = R.pos /\ rec.cnt = R.cnt /\ rec.got = R.got
        /\ end.pc = "loop" /\ end.pos = R.pos /\ end.cnt = R.cnt /\ end.got = R.got
    BY <1>1 DEF ReadCall
  <2> HIDE DEF rec, end
  <2>2. ReadOK(rec, may) /\ ReadOK(end, may)
    BY <1>1, <1>8, <2>1 DEF ReadOK, Remaining
  <2>3. Returned(rec, may) /\ Returned(end, may)
    BY <1>1, <2>1 DEF Returned
  <2> QED
    BY <2>2, <2>3 DEF rec, end
<1>9. CASE ReadUpper(r)
  <2> DEFINE k == Avail(R.pos, BlockPart(r), usize)
             d == Deliver(R, k, upper)
  <2>1. R.pc = "upper" /\ UNCHANGED <<cowVars, ghostVars>> /\ usize \in Nat
    BY <1>1, <1>9, ContentType DEF ReadUpper
  <2>2. \A c \in Cells : Remaining(R, c) /\ ovl_get_block(c) = ovl_get_block(R.pos) /\ c < usize
          => upper[c] \in Byte /\ upper[c] \in may[c]
    BY <1>1, <2>1, UpperAllowed, ContentType DEF ReadOK, FromLower, NotCopied, UNCOPY, COPIED
  <2>3. /\ Returned(d, may) /\ Returned([d EXCEPT !.pc = "loop"], may)
        /\ k # BlockPart(r) => ReadOK(d, may)
        /\ ReadOK([d EXCEPT !.pc = "loop"], may)
    BY <1>1, <2>1, <2>2, BlockReadOK
  <2>4. \/ rd' = [rd EXCEPT ![r] = Returning(R)]
        \/ rd' = [rd EXCEPT ![r] = [R EXCEPT !.pc = "loop"]]
        \/ rd' = [rd EXCEPT ![r] = [d EXCEPT !.pc = "loop"]]
        \/ k # BlockPart(r) /\ rd' = [rd EXCEPT ![r] = d]
    BY <1>9 DEF ReadUpper
  <2> HIDE DEF d
  <2>5. ReadOK(Returning(R), may) /\ Returned(Returning(R), may)
    BY <1>1, ReturnOK
  <2>6. ReadOK([R EXCEPT !.pc = "loop"], may) /\ Returned([R EXCEPT !.pc = "loop"], may)
    BY <1>8, <2>1
  <2> QED
    BY <1>2, <2>1, <2>3, <2>4, <2>5, <2>6
<1>10. CASE ReadLower(r)
  <2> DEFINE k == Avail(R.pos, BlockPart(r), LowerSize)
             d == Deliver(R, k, LowerData)
  <2>1. R.pc = "lower" /\ UNCHANGED <<cowVars, ghostVars>> /\ LowerSize \in Nat
    BY <1>10, ConstAssumption DEF ReadLower
  <2>2. \A c \in Cells :
          Remaining(R, c) /\ ovl_get_block(c) = ovl_get_block(R.pos) /\ c < LowerSize
            => LowerData[c] \in Byte /\ LowerData[c] \in may[c]
    BY <1>1, <2>1, ContentType DEF ReadOK
  <2>3. /\ Returned(d, may) /\ Returned([d EXCEPT !.pc = "loop"], may)
        /\ k # BlockPart(r) => ReadOK(d, may)
        /\ ReadOK([d EXCEPT !.pc = "loop"], may)
    BY <1>1, <2>1, <2>2, BlockReadOK
  <2>4. \/ rd' = [rd EXCEPT ![r] = [R EXCEPT !.pc = "loop", !.lower_end = TRUE]]
        \/ rd' = [rd EXCEPT ![r] = [d EXCEPT !.pc = "loop"]]
        \/ k # BlockPart(r) /\ rd' = [rd EXCEPT ![r] = d]
    BY <1>10 DEF ReadLower
  <2> HIDE DEF d
  <2>5. /\ ReadOK([R EXCEPT !.pc = "loop", !.lower_end = TRUE], may)
        /\ Returned([R EXCEPT !.pc = "loop", !.lower_end = TRUE], may)
    BY <1>8, <2>1
  <2> QED
    BY <1>2, <2>1, <2>3, <2>4, <2>5
<1>11. CASE ReadFails(r)
  <2>1. UNCHANGED <<cowVars, ghostVars>>
    BY <1>11 DEF ReadFails
  <2>2. CASE R.pc \in {"upper", "lower"} /\ rd' = [rd EXCEPT ![r].pc = "loop"]
    <3>1. rd' = [rd EXCEPT ![r] = [R EXCEPT !.pc = "loop"]]
      BY <2>2
    <3>2. ReadOK([R EXCEPT !.pc = "loop"], may) /\ Returned([R EXCEPT !.pc = "loop"], may)
      BY <1>8, <2>2
    <3> QED
      BY <1>2, <2>1, <3>1, <3>2
  <2>3. CASE rd' = [rd EXCEPT ![r] = Returning([R EXCEPT !.some = FALSE, !.failed = TRUE])]
    <3>1. [R EXCEPT !.some = FALSE, !.failed = TRUE] \in ReadCall /\ Returned([R EXCEPT !.some = FALSE, !.failed = TRUE], may)
      BY <1>1 DEF ReadCall, Returned
    <3> QED
      BY <1>2, <2>1, <2>3, <3>1, ReturnOK
  <2>4. CASE rd' = [rd EXCEPT ![r].pc = "ret", ![r].got = {}]
    <3> DEFINE rec == [R EXCEPT !.pc = "ret", !.got = {}]
    <3>1. rd' = [rd EXCEPT ![r] = rec]
      BY <2>4
    <3>2. rec.pc = "ret" /\ rec.got = {}
      BY <1>1 DEF ReadCall
    <3> HIDE DEF rec
    <3> QED
      BY <1>2, <2>1, <3>1, <3>2 DEF ReadOK, Returned
  <2> QED
    BY <1>11, <2>2, <2>3, <2>4 DEF ReadFails
<1>12. CASE ReadReturn(r)
  <2>1. /\ rd' = [rd EXCEPT ![r] = NoRead] /\ allowed' = [allowed EXCEPT ![r] = NoCells]
        /\ UNCHANGED <<cowVars, ideal>>
    BY <1>12 DEF ReadReturn
  <2>2. ReadOK(NoRead, NoCells) /\ Returned(NoRead, NoCells)
    BY DEF NoRead, ReadOK, Returned
  <2> QED
    BY <2>1, <2>2, OneReads
<1> QED
  BY <1>3, <1>4, <1>5, <1>6, <1>7, <1>9, <1>10, <1>11, <1>12 DEF ReaderStep

LEMMA ReadNext ==
  Benign /\ TypeInv /\ DataInv /\ ReadInv /\ ReadsRegular /\ [Next]_vars
    => ReadInv' /\ ReadsRegular'
<1> SUFFICES ASSUME Benign, TypeInv, DataInv, ReadInv, ReadsRegular, [Next]_vars
             PROVE  ReadInv' /\ ReadsRegular'
  OBVIOUS
<1>1. ~(\E n \in 0 .. MaxPos : Truncate(n)) /\ ~Evict
  BY DEF Benign, Truncate, Evict
<1> QED
  BY <1>1, OthersKeep, ReaderKeeps DEF Next

\* In the same environment, whatever the interleaving of an unlocked read with
\* the steps of a write, failing ones included, each cell that the read returns
\* was in the plain file at some moment of that read.
THEOREM ReadsRegularCorrect == ASSUME Benign PROVE Spec => []ReadsRegular
<1> DEFINE I == TypeInv /\ CopyCountExact /\ DataInv /\ ReadInv /\ ReadsRegular
<1>1. Init => I
  BY TypeInit, CountInit, DataInit, ReadInit
<1>2. I /\ [Next]_vars => I'
  BY TypeNext, CountNext, DataNext, ReadNext
<1>3. I => ReadsRegular
  OBVIOUS
<1> QED
  BY <1>1, <1>2, <1>3, PTL DEF Spec

=============================================================================
