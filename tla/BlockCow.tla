------------------------------ MODULE BlockCow ------------------------------
(***************************************************************************)
(* The data path of one regular file of the overlay under delayed,         *)
(* block-granular copy-up.                                                 *)
(*                                                                         *)
(* Copy-up (copy_up.c, ovl_copy_up_inode) creates an EMPTY upper file and  *)
(* a table block_status, one entry per lower block, all UNCOPY.  From then *)
(* on a write (file.c, block_write_iter) brings up the lower blocks that   *)
(* it covers only in part, writes its data to the upper file and marks the *)
(* blocks COPIED; a read (block_read_iter) takes each block from the upper *)
(* or from the lower file as the table says.  Once every block is COPIED,  *)
(* cow_status is cleared and the upper file alone serves all I/O.          *)
(*                                                                         *)
(* A write, and a truncate, hold the overlay inode's lock, so there is one *)
(* writer at a time; reads take no lock and interleave with its steps.     *)
(* One vfs_iter_read, one vfs_iter_write and one block copy are atomic.    *)
(* Files are made of cells; a block is BS cells.                           *)
(*                                                                         *)
(* The history variables ideal and allowed hold what a plain file would    *)
(* contain after the same calls, the file that the repository's            *)
(* test/feature_test/test.py compares the overlay with.                    *)
(***************************************************************************)
EXTENDS Integers, FiniteSets

CONSTANTS
  BS,         \* cells per block (BLOCK_SIZE)
  LowerSize,  \* size of the lower file, in cells
  LowerData,  \* content of the lower file, which never changes
  MaxPos,     \* bound: no call reaches past this offset
  Data,       \* values that calls may write
  Readers,    \* threads that read
  Env         \* what the environment may do, a subset of EnvEvents

EnvEvents == {
  "sparse",    \* a write may start past the end of the file
  "short",     \* vfs_iter_write may write less than it was asked to
  "copyfail",  \* a block copy may stop early with an error (-EINTR, -EIO, ...)
  "writefail", \* vfs_iter_write may fail
  "readfail",  \* vfs_iter_read may fail
  "truncate",  \* the file may be truncated or extended by setattr
  "evict" }    \* the overlay inode may be dropped from memory and looked up again

Cells  == 0 .. MaxPos - 1
UNCOPY == 0
COPIED == 1
Eof    == -1      \* "no cell here": what a read sees past the end
Byte   == Nat     \* 0 is what a hole reads as
Obs    == Byte \cup {Eof}

ASSUME ConstAssumption ==
  /\ BS \in Nat \ {0}
  /\ LowerSize \in Nat
  /\ MaxPos \in Nat
  /\ LowerSize <= MaxPos
  /\ LowerData \in [0 .. LowerSize - 1 -> Byte]
  /\ Data \subseteq Byte
  /\ Env \subseteq EnvEvents

VARIABLES
  copiedUp,      \* an upper file exists and OVL_UPPERDATA is set
  cow_status,    \* oi->cow_status
  block_count,   \* oi->block_count
  copy_count,    \* oi->copy_count
  block_status,  \* oi->block_status[1..], as allocated for the lower file
  upper,         \* content of the upper file; cells at and past usize are 0
  usize,         \* i_size of the upper file
  w,             \* the call that holds the inode lock
  rd,            \* the reads in progress
  ideal,         \* history: the values a plain file may hold, cell by cell
  allowed        \* history: the values each read in progress may return

cowVars   == <<copiedUp, cow_status, block_count, copy_count, block_status>>
upperVars == <<upper, usize>>
ghostVars == <<ideal, allowed>>
vars == <<copiedUp, cow_status, block_count, copy_count, block_status,
          upper, usize, w, rd, ideal, allowed>>

-----------------------------------------------------------------------------
(* Block arithmetic.  Blocks are numbered from 1. *)

ovl_get_block(pos) == (pos + BS) \div BS
BlockStart(b) == (b - 1) * BS

\* Entries of the table for a lower file of this size.
BlockCount(size) == IF size % BS # 0 THEN size \div BS + 1 ELSE size \div BS
NBlocks == BlockCount(LowerSize)
Blocks  == 1 .. NBlocks
NoBlocks == [b \in Blocks |-> UNCOPY]

\* Length handed to ovl_copy_up_block for block b of the lower file.
CopyLen(b) == IF LowerSize - BlockStart(b) < BS THEN LowerSize - BlockStart(b) ELSE BS

\* A block that a write must bring up before it may overwrite part of it.  The
\* code indexes the table with blocks past block_count too; whatever it finds
\* there, such a block lies past the end of the lower file and copying it does
\* nothing.
NotCopied(b) == b <= block_count /\ block_status[b] = UNCOPY

Larger(a, b)  == IF a < b THEN b ELSE a
Smaller(a, b) == IF a < b THEN a ELSE b

-----------------------------------------------------------------------------
(* The calls in progress. *)

NoWrite == [pc |-> "idle", app |-> FALSE, pos |-> 0, n |-> 0, val |-> 0,
            partial |-> FALSE, ret |-> 0, i |-> 0]
NoRead  == [pc |-> "idle", pos |-> 0, cnt |-> 0, real |-> "lower",
            some |-> FALSE, lower_end |-> FALSE, failed |-> FALSE, got |-> {}]
NoCells == [c \in Cells |-> {}]

\* start_block and end_block of the write in progress.
StartBlock == IF w.app THEN block_count ELSE ovl_get_block(w.pos)
EndBlock   == IF w.app THEN block_count ELSE ovl_get_block(w.pos + w.n)

Init ==
  /\ copiedUp = FALSE
  /\ cow_status = FALSE
  /\ block_count = 0
  /\ copy_count = 0
  /\ block_status = NoBlocks
  /\ upper = [c \in Cells |-> 0]
  /\ usize = 0
  /\ w = NoWrite
  /\ rd = [r \in Readers |-> NoRead]
  /\ ideal = [c \in Cells |-> IF c < LowerSize THEN {LowerData[c]} ELSE {Eof}]
  /\ allowed = [r \in Readers |-> NoCells]

\* The plain file may now hold new: every read in progress may return it.
SetIdeal(new) ==
  /\ ideal' = new
  /\ allowed' = [r \in Readers |->
                   [c \in Cells |-> IF allowed[r][c] = {} THEN {}
                                    ELSE allowed[r][c] \cup new[c]]]

-----------------------------------------------------------------------------
(* Copy-up. *)

\* ovl_copy_up_inode for a regular file without metacopy: the table is set up,
\* no data is copied.  size is 0 when the file is opened with O_TRUNC.
CopyUpInode(size) ==
  /\ copiedUp' = TRUE
  /\ IF size # 0
       THEN /\ cow_status' = TRUE
            /\ block_count' = BlockCount(size)
            /\ block_status' = NoBlocks
       ELSE UNCHANGED <<cow_status, block_count, block_status>>
  /\ UNCHANGED copy_count

\* First open of the file for writing.
CopyUp ==
  /\ ~copiedUp
  /\ CopyUpInode(LowerSize)
  /\ UNCHANGED <<upperVars, w, rd, ghostVars>>

\* First open of the file with O_TRUNC: the plain file becomes empty.
CopyUpTrunc ==
  /\ ~copiedUp
  /\ CopyUpInode(0)
  /\ SetIdeal([c \in Cells |-> {Eof}])
  /\ UNCHANGED <<upperVars, w, rd>>

\* ovl_copy_up_block: cells of block b up to offset e go from lower to upper.
ovl_copy_up_block(b, e) ==
  /\ upper' = [c \in Cells |-> IF BlockStart(b) <= c /\ c < e THEN LowerData[c] ELSE upper[c]]
  /\ usize' = IF BlockStart(b) < e THEN Larger(usize, e) ELSE usize

CopyUpWholeBlock(b) == ovl_copy_up_block(b, BlockStart(b) + CopyLen(b))

\* The copy stops after some cells and the write returns its error.
CopyUpBlockFails(b) ==
  /\ "copyfail" \in Env
  /\ \E e \in BlockStart(b) .. BlockStart(b) + CopyLen(b) : ovl_copy_up_block(b, e)
  /\ w' = NoWrite

-----------------------------------------------------------------------------
(* The write path, under inode_lock: ovl_write_iter and block_write_iter. *)

FileEnd == IF cow_status THEN Larger(usize, LowerSize) ELSE usize

\* ovl_write_iter: takes the lock and picks the path by cow_status.
WriteBegin(p, n, x) ==
  /\ w.pc = "idle" /\ copiedUp
  /\ "sparse" \in Env \/ p <= FileEnd
  /\ w' = [NoWrite EXCEPT !.pc = IF cow_status THEN "start" ELSE "plain",
                          !.pos = p, !.n = n, !.val = x]
  /\ UNCHANGED <<cowVars, upperVars, rd, ghostVars>>

\* The same for a file opened with O_APPEND.
AppendBegin(n, x) ==
  /\ w.pc = "idle" /\ copiedUp
  /\ FileEnd + n <= MaxPos
  /\ w' = IF cow_status
            THEN [NoWrite EXCEPT !.pc = "append", !.app = TRUE, !.n = n, !.val = x]
            ELSE [NoWrite EXCEPT !.pc = "plain", !.app = TRUE, !.pos = usize, !.n = n, !.val = x]
  /\ UNCHANGED <<cowVars, upperVars, rd, ghostVars>>

\* Mutant: the append goes ahead without the last block.
AppendCopyNothing ==
  /\ w.pc = "append"
  /\ w' = [w EXCEPT !.pc = "data", !.pos = usize]
  /\ UNCHANGED <<cowVars, upperVars, rd, ghostVars>>

\* O_APPEND: the last block is brought up, so that the upper file ends where
\* the file does; vfs_iter_write then writes at the end of the upper file.
AppendCopy ==
  /\ w.pc = "append"
  /\ \/ /\ NotCopied(block_count)
        /\ CopyUpWholeBlock(block_count)
        /\ w' = [w EXCEPT !.pc = "data", !.pos = usize']
     \/ /\ ~NotCopied(block_count)
        /\ w' = [w EXCEPT !.pc = "data", !.pos = usize]
        /\ UNCHANGED upperVars
     \/ NotCopied(block_count) /\ CopyUpBlockFails(block_count)
  /\ UNCHANGED <<cowVars, rd, ghostVars>>

\* Mutant: the status of the first block is not looked at.
StartNeedsCopyAlways == w.pos > BlockStart(StartBlock)

\* The first block, when the write starts inside it.
StartNeedsCopy == w.pos > BlockStart(StartBlock) /\ NotCopied(StartBlock)

\* Mutant: partial is set whether or not the first block was copied.
CopyStartBlockPartial ==
  /\ w.pc = "start"
  /\ \/ StartNeedsCopy /\ CopyUpWholeBlock(StartBlock)
     \/ ~StartNeedsCopy /\ UNCHANGED upperVars
  /\ w' = [w EXCEPT !.pc = "end", !.partial = TRUE]
  /\ UNCHANGED <<cowVars, rd, ghostVars>>

CopyStartBlock ==
  /\ w.pc = "start"
  /\ \/ /\ StartNeedsCopy
        /\ CopyUpWholeBlock(StartBlock)
        /\ w' = [w EXCEPT !.pc = "end", !.partial = TRUE]
     \/ /\ ~StartNeedsCopy
        /\ w' = [w EXCEPT !.pc = "end"]
        /\ UNCHANGED upperVars
     \/ StartNeedsCopy /\ CopyUpBlockFails(StartBlock)
  /\ UNCHANGED <<cowVars, rd, ghostVars>>

\* Mutant: a write inside one block never copies it as its last block.
EndNeedsCopyOther ==
  EndBlock * BS > w.pos + w.n /\ NotCopied(EndBlock) /\ EndBlock # StartBlock

\* The last block, when the write ends inside it, unless it is the first block
\* and has just been copied.
EndNeedsCopy ==
  /\ EndBlock * BS > w.pos + w.n
  /\ NotCopied(EndBlock)
  /\ ~(w.partial /\ EndBlock = StartBlock)
CopyEndBlock ==
  /\ w.pc = "end"
  /\ \/ /\ EndNeedsCopy
        /\ CopyUpWholeBlock(EndBlock)
        /\ w' = [w EXCEPT !.pc = "data"]
     \/ /\ ~EndNeedsCopy
        /\ w' = [w EXCEPT !.pc = "data"]
        /\ UNCHANGED upperVars
     \/ EndNeedsCopy /\ CopyUpBlockFails(EndBlock)
  /\ UNCHANGED <<cowVars, rd, ghostVars>>

\* vfs_iter_write of k cells of value x at offset p of the upper file.
UpperWrite(p, k, x) ==
  /\ upper' = [c \in Cells |-> IF p <= c /\ c < p + k THEN x ELSE upper[c]]
  /\ usize' = Larger(usize, p + k)

\* While a write is in progress a plain file may show its cells or not ...
MayWrite(p, k, x) ==
  [c \in Cells |-> ideal[c] \cup (IF p <= c /\ c < p + k THEN {x}
                                  ELSE IF c < p /\ Eof \in ideal[c] THEN {0} ELSE {})]

\* ... and shows exactly them once it has returned.
HasWritten(p, k, x) ==
  [c \in Cells |-> IF p <= c /\ c < p + k THEN {x}
                   ELSE IF c < p /\ Eof \in ideal[c] THEN (ideal[c] \ {Eof}) \cup {0}
                   ELSE ideal[c]]

\* How much of left cells one vfs_iter_write takes.
Chunks(left) == IF "short" \in Env THEN 1 .. left ELSE {left}

\* One turn of the loop "while (ret < iter->count)": the write itself shrinks
\* iter->count, so the loop ends once at least half of the cells are written.
WriteData ==
  /\ w.pc = "data"
  /\ \E k \in Chunks(w.n - w.ret) :
       /\ UpperWrite(w.pos + w.ret, k, w.val)
       /\ SetIdeal(MayWrite(w.pos + w.ret, k, w.val))
       /\ w' = IF w.ret + k < w.n - (w.ret + k)
                 THEN [w EXCEPT !.ret = w.ret + k]
                 ELSE [w EXCEPT !.ret = w.ret + k, !.pc = "mark", !.i = StartBlock]
  /\ UNCHANGED <<cowVars, rd>>

\* vfs_iter_write fails and block_write_iter returns -1 without marking.
WriteFails ==
  /\ w.pc \in {"data", "plain"}
  /\ "writefail" \in Env
  /\ w' = NoWrite
  /\ UNCHANGED <<cowVars, upperVars, rd, ghostVars>>

\* Mutants: every turn counts a block; the loop stays at a block already COPIED.
MarkBlockCounts ==
  /\ w.pc = "mark"
  /\ w.i <= EndBlock /\ w.i <= block_count
  /\ block_status' = [block_status EXCEPT ![w.i] = COPIED]
  /\ copy_count' = copy_count + 1
  /\ w' = [w EXCEPT !.i = w.i + 1]
  /\ UNCHANGED <<copiedUp, cow_status, block_count, upperVars, rd, ghostVars>>
MarkBlockStays ==
  /\ w.pc = "mark"
  /\ w.i <= EndBlock /\ w.i <= block_count
  /\ IF block_status[w.i] = UNCOPY
       THEN /\ block_status' = [block_status EXCEPT ![w.i] = COPIED]
            /\ copy_count' = copy_count + 1
            /\ w' = [w EXCEPT !.i = w.i + 1]
       ELSE UNCHANGED <<block_status, copy_count, w>>
  /\ UNCHANGED <<copiedUp, cow_status, block_count, upperVars, rd, ghostVars>>

\* One turn of the marking loop over start_block..end_block.
MarkBlock ==
  /\ w.pc = "mark"
  /\ w.i <= EndBlock /\ w.i <= block_count
  /\ IF block_status[w.i] = UNCOPY
       THEN /\ block_status' = [block_status EXCEPT ![w.i] = COPIED]
            /\ copy_count' = copy_count + 1
       ELSE UNCHANGED <<block_status, copy_count>>
  /\ w' = [w EXCEPT !.i = w.i + 1]
  /\ UNCHANGED <<copiedUp, cow_status, block_count, upperVars, rd, ghostVars>>

\* Mutant: copy-on-write ends one block early.
WriteReturnEarly ==
  /\ w.pc = "mark"
  /\ w.i > EndBlock \/ w.i > block_count
  /\ cow_status' = IF copy_count + 1 >= block_count THEN FALSE ELSE cow_status
  /\ SetIdeal(HasWritten(w.pos, w.ret, w.val))
  /\ w' = NoWrite
  /\ UNCHANGED <<copiedUp, block_count, copy_count, block_status, upperVars, rd>>

\* After the loop: the end of copy-on-write is noticed, the call returns.
WriteReturn ==
  /\ w.pc = "mark"
  /\ w.i > EndBlock \/ w.i > block_count
  /\ cow_status' = IF copy_count = block_count THEN FALSE ELSE cow_status
  /\ SetIdeal(HasWritten(w.pos, w.ret, w.val))
  /\ w' = NoWrite
  /\ UNCHANGED <<copiedUp, block_count, copy_count, block_status, upperVars, rd>>

\* cow_status clear: one vfs_iter_write on the upper file.
WritePlain ==
  /\ w.pc = "plain"
  /\ \E k \in Chunks(w.n) :
       /\ UpperWrite(w.pos, k, w.val)
       /\ SetIdeal(HasWritten(w.pos, k, w.val))
  /\ w' = NoWrite
  /\ UNCHANGED <<cowVars, rd>>

-----------------------------------------------------------------------------
(* Truncation and eviction. *)

\* Mutant: a second copy-up, of a file that has one.
TruncateAgain(n) ==
  /\ "truncate" \in Env
  /\ w.pc = "idle"
  /\ CopyUpInode(LowerSize)
  /\ usize' = n
  /\ upper' = [c \in Cells |-> IF c < n THEN upper[c] ELSE 0]
  /\ UNCHANGED <<w, rd, ghostVars>>

\* ovl_setattr with ATTR_SIZE: copy-up if there is none yet, then the size of
\* the upper file is set; the table is left alone.
Truncate(n) ==
  /\ "truncate" \in Env
  /\ w.pc = "idle"
  /\ IF copiedUp THEN UNCHANGED cowVars ELSE CopyUpInode(LowerSize)
  /\ usize' = n
  /\ upper' = [c \in Cells |-> IF c < n THEN upper[c] ELSE 0]
  /\ SetIdeal([c \in Cells |-> IF c >= n THEN {Eof}
                               ELSE IF Eof \in ideal[c] THEN (ideal[c] \ {Eof}) \cup {0}
                               ELSE ideal[c]])
  /\ UNCHANGED <<w, rd>>

\* No thread uses the file; its inode is freed, and a later lookup finds the
\* upper file and builds a fresh one (ovl_alloc_inode, ovl_get_inode).
Evict ==
  /\ "evict" \in Env
  /\ w.pc = "idle" /\ copiedUp
  /\ \A r \in Readers : rd[r].pc = "idle"
  /\ cow_status' = FALSE
  /\ block_count' = 0
  /\ copy_count' = 0
  /\ block_status' = NoBlocks
  /\ UNCHANGED <<copiedUp, upperVars, w, rd, ghostVars>>

-----------------------------------------------------------------------------
(* The read path, without a lock: ovl_read_iter and block_read_iter. *)

\* ovl_read_iter: ovl_real_fdget picks the real file.
ReadBegin(r, p, n) ==
  /\ rd[r].pc = "idle"
  /\ rd' = [rd EXCEPT ![r] = [NoRead EXCEPT !.pc = "enter", !.pos = p, !.cnt = n,
                                            !.real = IF copiedUp THEN "upper" ELSE "lower"]]
  /\ allowed' = [allowed EXCEPT ![r] = [c \in Cells |->
                   IF p <= c /\ c < p + n THEN ideal[c] ELSE {}]]
  /\ UNCHANGED <<cowVars, upperVars, w, ideal>>

ReadEnter(r) ==
  /\ rd[r].pc = "enter"
  /\ rd' = [rd EXCEPT ![r].pc = IF cow_status THEN "loop" ELSE "plain"]
  /\ UNCHANGED <<cowVars, upperVars, w, ghostVars>>

\* Mutants: the rest of the read is not cut at the end of the block; the rest of
\* the block is not cut at the end of the read.
BlockPartUncut(r) == rd[r].cnt
BlockPartWhole(r) == ovl_get_block(rd[r].pos) * BS - rd[r].pos

\* c_count: what is left of the read, or of its block.
BlockPart(r) ==
  LET start == ovl_get_block(rd[r].pos)
  IN  IF start = ovl_get_block(rd[r].pos + rd[r].cnt) THEN rd[r].cnt
      ELSE start * BS - rd[r].pos

\* Cells a vfs_iter_read of n cells at offset p gets from a file of this size.
Avail(p, n, size) == IF size <= p THEN 0 ELSE Smaller(n, size - p)

\* The read returns; without a cell the caller takes it for the end of file.
Returning(rec) == [rec EXCEPT !.pc = "ret",
                              !.got = IF rec.some THEN rec.got ELSE {<<rec.pos, Eof>>}]

\* k cells of the given content are handed to the caller.
Deliver(rec, k, content) ==
  [rec EXCEPT !.pos = rec.pos + k, !.cnt = rec.cnt - k, !.some = rec.some \/ k > 0,
              !.got = {<<c, content[c]>> : c \in rec.pos .. rec.pos + k - 1}]

\* One vfs_iter_read of n cells ends the call.
LastRead(r, n, content, size) ==
  rd' = [rd EXCEPT ![r] = Returning(Deliver(rd[r], Avail(rd[r].pos, n, size), content))]

\* cow_status clear: the real file is read.
ReadPlain(r) ==
  /\ rd[r].pc = "plain"
  /\ IF rd[r].real = "upper" THEN LastRead(r, rd[r].cnt, upper, usize)
                             ELSE LastRead(r, rd[r].cnt, LowerData, LowerSize)
  /\ UNCHANGED <<cowVars, upperVars, w, ghostVars>>

\* Mutant: the last block counts as past the table.
ReadLoopShort(r) ==
  LET start == ovl_get_block(rd[r].pos)
  IN  /\ rd[r].pc = "loop"
      /\ rd' = [rd EXCEPT ![r] =
           IF rd[r].cnt = 0 THEN Returning(rd[r])
           ELSE IF start >= block_count THEN [rd[r] EXCEPT !.pc = "tail"]
           ELSE IF block_status[start] # UNCOPY THEN [rd[r] EXCEPT !.pc = "upper"]
           ELSE IF rd[r].lower_end THEN Returning(rd[r])
           ELSE [rd[r] EXCEPT !.pc = "lower"]]
      /\ UNCHANGED <<cowVars, upperVars, w, ghostVars>>

\* Top of the loop "while (count > 0)": where does the next block come from?
ReadLoop(r) ==
  LET start == ovl_get_block(rd[r].pos)
  IN  /\ rd[r].pc = "loop"
      /\ rd' = [rd EXCEPT ![r] =
           IF rd[r].cnt = 0 THEN Returning(rd[r])
           ELSE IF start > block_count THEN [rd[r] EXCEPT !.pc = "tail"]
           ELSE IF block_status[start] # UNCOPY THEN [rd[r] EXCEPT !.pc = "upper"]
           ELSE IF rd[r].lower_end THEN Returning(rd[r])
           ELSE [rd[r] EXCEPT !.pc = "lower"]]
      /\ UNCHANGED <<cowVars, upperVars, w, ghostVars>>

\* Past the last lower block the rest is read from the upper file.
ReadTail(r) ==
  /\ rd[r].pc = "tail"
  /\ LastRead(r, rd[r].cnt, upper, usize)
  /\ UNCHANGED <<cowVars, upperVars, w, ghostVars>>

\* The inner loop over one block: it goes on until the block's part of the
\* read is done or nothing more comes.
ReadUpper(r) ==
  LET k == Avail(rd[r].pos, BlockPart(r), usize)
  IN  /\ rd[r].pc = "upper"
      /\ rd' = [rd EXCEPT ![r] =
           IF k = 0 THEN IF rd[r].lower_end THEN Returning(rd[r])
                                            ELSE [rd[r] EXCEPT !.pc = "loop"]
           ELSE IF k = BlockPart(r) THEN [Deliver(rd[r], k, upper) EXCEPT !.pc = "loop"]
           ELSE Deliver(rd[r], k, upper)]
      /\ UNCHANGED <<cowVars, upperVars, w, ghostVars>>

ReadLower(r) ==
  LET k == Avail(rd[r].pos, BlockPart(r), LowerSize)
  IN  /\ rd[r].pc = "lower"
      /\ rd' = [rd EXCEPT ![r] =
           IF k = 0 THEN [rd[r] EXCEPT !.pc = "loop", !.lower_end = TRUE]
           ELSE IF k = BlockPart(r) THEN [Deliver(rd[r], k, LowerData) EXCEPT !.pc = "loop"]
           ELSE Deliver(rd[r], k, LowerData)]
      /\ UNCHANGED <<cowVars, upperVars, w, ghostVars>>

\* vfs_iter_read fails: inside a block the loop tries again, past the last
\* block the call returns 0, as at the end of the file (failed: history), on the plain
\* path it returns the error.
ReadFails(r) ==
  /\ "readfail" \in Env
  /\ \/ /\ rd[r].pc \in {"upper", "lower"}
        /\ rd' = [rd EXCEPT ![r].pc = "loop"]
     \/ /\ rd[r].pc = "tail"
        /\ rd' = [rd EXCEPT ![r] = Returning([rd[r] EXCEPT !.some = FALSE, !.failed = TRUE])]
     \/ /\ rd[r].pc = "plain"
        /\ rd' = [rd EXCEPT ![r].pc = "ret", ![r].got = {}]
  /\ UNCHANGED <<cowVars, upperVars, w, ghostVars>>

\* End of ovl_read_iter.
ReadReturn(r) ==
  /\ rd[r].pc = "ret"
  /\ rd' = [rd EXCEPT ![r] = NoRead]
  /\ allowed' = [allowed EXCEPT ![r] = NoCells]
  /\ UNCHANGED <<cowVars, upperVars, w, ideal>>

-----------------------------------------------------------------------------
Spans == {s \in (0 .. MaxPos) \X (1 .. MaxPos) : s[1] + s[2] <= MaxPos}

WriterStep ==
  \/ AppendCopy \/ CopyStartBlock \/ CopyEndBlock \/ WriteData
  \/ MarkBlock \/ WriteReturn \/ WritePlain

ReaderStep(r) ==
  \/ ReadEnter(r) \/ ReadPlain(r) \/ ReadLoop(r) \/ ReadTail(r)
  \/ ReadUpper(r) \/ ReadLower(r) \/ ReadReturn(r)

Next ==
  \/ CopyUp \/ CopyUpTrunc
  \/ \E s \in Spans, x \in Data : WriteBegin(s[1], s[2], x)
  \/ \E n \in 1 .. MaxPos, x \in Data : AppendBegin(n, x)
  \/ WriterStep \/ WriteFails
  \/ \E n \in 0 .. MaxPos : Truncate(n)
  \/ Evict
  \/ \E r \in Readers :
       \/ \E s \in Spans : ReadBegin(r, s[1], s[2])
       \/ ReaderStep(r)
       \/ ReadFails(r)

Spec == Init /\ [][Next]_vars

\* The kernel keeps scheduling a thread that is inside a system call.
FairSpec == Spec /\ WF_vars(WriterStep) /\ \A r \in Readers : WF_vars(ReaderStep(r))

-----------------------------------------------------------------------------
(* Properties. *)

WriterPcs == {"idle", "append", "start", "end", "data", "mark", "plain"}
ReaderPcs == {"idle", "enter", "plain", "loop", "tail", "upper", "lower", "ret"}

WriteCall == [pc : WriterPcs, app : BOOLEAN, pos : 0 .. MaxPos, n : 0 .. MaxPos,
              val : Byte, partial : BOOLEAN, ret : 0 .. MaxPos, i : Nat]
ReadCall  == [pc : ReaderPcs, pos : 0 .. MaxPos, cnt : 0 .. MaxPos,
              real : {"upper", "lower"}, some : BOOLEAN,
              lower_end : BOOLEAN, failed : BOOLEAN, got : SUBSET (Cells \X Obs)]

\* Type invariant.
TypeOK ==
  /\ copiedUp \in BOOLEAN
  /\ cow_status \in BOOLEAN
  /\ block_count \in {0, NBlocks}
  /\ copy_count \in Nat
  /\ block_status \in [Blocks -> {UNCOPY, COPIED}]
  /\ upper \in [Cells -> Byte]
  /\ usize \in 0 .. MaxPos
  /\ w \in WriteCall
  /\ rd \in [Readers -> ReadCall]
  /\ ideal \in [Cells -> SUBSET Obs]
  /\ allowed \in [Readers -> [Cells -> SUBSET Obs]]

\* What the upper file holds at cell c, and what a block read of c gets now.
UpperView(c) == IF c < usize THEN upper[c] ELSE Eof
LowerView(c) == IF c < LowerSize THEN LowerData[c] ELSE Eof
FromLower(c) == ~copiedUp \/ (cow_status /\ NotCopied(ovl_get_block(c)))
View(c) == IF FromLower(c) THEN LowerView(c) ELSE UpperView(c)

\* Cells between the end of the lower file and the end of its last block, as
\* long as that block still comes from the lower file.
InTailGap(c) == c >= LowerSize /\ copiedUp /\ FromLower(c)

\* At every moment, also in the middle of a write or after one that failed, the
\* file put together from the two layers by block_status is one a plain file
\* could be: no lower byte is lost under a block marked COPIED, none shows
\* through a block that was overwritten (block_write_iter, block_read_iter).
MergedView == \A c \in Cells : InTailGap(c) \/ View(c) \in ideal[c]

\* The same without the exception: what do_read_cmp of test/feature_test/test.py
\* asserts of the overlay and of a plain file after the same calls.
SameAsPlainFile == \A c \in Cells : View(c) \in ideal[c]

\* "0: not copy or copy done", the meaning of cow_status in ovl_entry.h:121: a
\* file that is copied up and not copying is whole in the upper file.
CowOffMeansDone ==
  copiedUp /\ ~cow_status => \A c \in Cells : UpperView(c) \in ideal[c]

\* copy_count, which decides when copy-on-write ends, counts the COPIED blocks
\* exactly: overlapping and repeated writes count no block twice.
CopyCountExact ==
  copy_count = Cardinality({b \in Blocks : block_status[b] = COPIED})

\* Every cell that a read returned was in the plain file at some moment of that
\* read, although block_read_iter looks at block_status and reads the block in
\* separate steps without a lock, while a write may bring the block up, write it
\* and mark it in between.
ReadsRegular ==
  \A r \in Readers : \A o \in rd[r].got : o[2] # Eof => o[2] \in allowed[r][o[1]]

\* A read returns "end of file" only where the plain file ended at some moment
\* of that read, although it is told of two ends, the lower file's and the upper
\* file's, and the upper file is shorter than the file until its last block has
\* been brought up.  The exception is a vfs_iter_read that fails past the last
\* block, for which block_read_iter returns 0.
EofRegular ==
  \A r \in Readers : ~rd[r].failed =>
    \A o \in rd[r].got : o[2] = Eof => Eof \in allowed[r][o[1]]

\* An O_APPEND write starts at the end of the plain file, although the upper
\* file that vfs_iter_write appends to is shorter than that until its last block
\* has been brought up.
AppendAtEnd ==
  (w.app /\ w.pc \in {"data", "plain"} /\ w.ret = 0) =>
    /\ \A c \in Cells : c < w.pos => ideal[c] # {Eof}
    /\ w.pos \in Cells => Eof \in ideal[w.pos]

\* Once a block is COPIED the upper file's cells in it change only by the data
\* of a write, at its offsets, or by a truncation: no late copy of the lower
\* block ever lands on newer data.
CopyNeverClobbers ==
  [][\A c \in Cells :
       (upper'[c] # upper[c] /\ ovl_get_block(c) \in Blocks
          /\ block_status[ovl_get_block(c)] = COPIED)
       => \/ w.pc \in {"data", "plain"} /\ w.pos <= c /\ c < w.pos + w.n /\ upper'[c] = w.val
          \/ usize' <= c]_vars

\* A block once COPIED stays so while its inode lives, and cow_status, once
\* cleared on a file that is copied up, is never set again.
CopyUpNeverUndone ==
  [][(block_count' = block_count /\ copiedUp) =>
       /\ \A b \in Blocks : block_status[b] = COPIED => block_status'[b] = COPIED
       /\ ~cow_status => ~cow_status']_vars

\* Every write returns and lets go of the inode lock: the loops of
\* block_write_iter end.
WritesReturn == (w.pc # "idle") ~> (w.pc = "idle")

\* Every read returns, as test/feature_test/test.py:15-18 takes for granted when it
\* reads the overlay's file and a plain one and compares what came back.  It is
\* claimed of block_read_iter (file.c:441-513) and does not hold: see the run
\* read_spins.
ReadsReturn == \A r \in Readers : (rd[r].pc # "idle") ~> (rd[r].pc = "idle")

=============================================================================
