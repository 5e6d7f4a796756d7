---------------------------- MODULE BlockCowInv -----------------------------
(***************************************************************************)
(* The inductive invariant behind MergedView, SameAsPlainFile,             *)
(* CopyCountExact, AppendAtEnd, ReadsRegular and EofRegular: what each     *)
(* step of a write has established for the next, and what an unlocked read *)
(* may rely on between its check of block_status and its read.             *)
(* BlockCowProofs and BlockReadProofs prove it; the run cow_reads checks   *)
(* it first.                                                               *)
(***************************************************************************)
EXTENDS BlockCow

\* The environment keeps the write path's assumptions: vfs_iter_write writes
\* all or nothing, and nobody resizes the upper file or drops the table.
Benign == Env \cap {"short", "truncate", "evict"} = {}

Active(pc) == pc \in {"append", "start", "end", "data", "mark"}

\* A file in copy-on-write has its table.
CowInv ==
  /\ cow_status => copiedUp /\ block_count = NBlocks /\ NBlocks >= 1
  /\ ~copiedUp => /\ w.pc = "idle" /\ usize = 0
                  /\ block_count = 0 /\ copy_count = 0 /\ block_status = NoBlocks

\* The write that holds the lock stays inside its bounds, and on the path
\* it chose by cow_status.
WriterInv ==
  /\ Active(w.pc) => cow_status
  /\ w.pc = "plain" => copiedUp /\ ~cow_status
  /\ w.pc # "idle" => w.n >= 1
  /\ w.pc = "append" => /\ w.app /\ w.ret = 0
                        /\ Larger(usize, LowerSize) + w.n <= MaxPos
  /\ w.pc \in {"start", "end"} => ~w.app /\ w.ret = 0
  /\ w.pc \notin {"idle", "append"} => w.pos + w.n <= MaxPos
  /\ w.pc = "data" => w.ret < w.n - w.ret
  /\ w.pc = "mark" => w.ret <= w.n /\ w.i >= StartBlock /\ w.i >= 1

\* A read never looks past what it was asked for.
ReaderInv ==
  \A r \in Readers :
    /\ rd[r].pos + rd[r].cnt <= MaxPos
    /\ rd[r].pc \notin {"idle", "loop", "ret"} => rd[r].cnt >= 1
    /\ rd[r].pc = "loop" => rd[r].cnt >= 1 \/ rd[r].some

TypeInv == TypeOK /\ CowInv /\ WriterInv /\ ReaderInv

\* The upper file holds cell c, with a value the plain file may have.
Ready(c) == c < usize /\ upper[c] \in ideal[c]

InWrite(c) == w.pos <= c /\ c < w.pos + w.n

\* Cell c is in a block that the write in progress will mark.
ToMark(c) == /\ c < LowerSize
             /\ StartBlock <= ovl_get_block(c) /\ ovl_get_block(c) <= EndBlock

\* Where the file comes from the lower layer, the lower layer is right; where
\* it comes from the upper layer, and past the lower file's end, the upper is.
LowerRight ==
  \A c \in Cells : FromLower(c) /\ ~InTailGap(c) => LowerView(c) \in ideal[c]
UpperRight ==
  \A c \in Cells : ~FromLower(c) \/ c >= LowerSize => UpperView(c) \in ideal[c]

\* A COPIED block lies inside the upper file, so that growing the upper file
\* never uncovers a hole in it.
CopiedInside ==
  \A c \in Cells : (c < LowerSize /\ copiedUp /\ ~FromLower(c) /\ cow_status) => c < usize

ZeroTail == \A c \in Cells : c >= usize => upper[c] = 0

\* Copy-on-write ended because nothing is left to copy.
CowOffCopied ==
  copiedUp /\ ~cow_status =>
    block_count = 0 \/ \A b \in Blocks : block_status[b] = COPIED

\* What the steps of block_write_iter have prepared.
StartPrepared ==
  /\ w.pc = "start" => ~w.partial
  /\ w.pc = "end" => \A c \in Cells :
    (c < LowerSize /\ ovl_get_block(c) = StartBlock /\ (c < w.pos \/ w.partial)) => Ready(c)
DataPrepared ==
  w.pc = "data" => /\ w.ret = 0
                   /\ \A c \in Cells : ToMark(c) /\ ~InWrite(c) => Ready(c)
                   /\ w.app => w.pos = usize /\ LowerSize <= usize
MarkPrepared ==
  w.pc = "mark" =>
    /\ w.ret = w.n
    /\ w.pos + w.n <= usize
    /\ \A c \in Cells : ToMark(c) => Ready(c)
    /\ \A c \in Cells : InWrite(c) => upper[c] = w.val /\ w.val \in ideal[c]
    /\ \A b \in Blocks : StartBlock <= b /\ b < w.i => block_status[b] = COPIED
    /\ w.app => LowerSize <= w.pos

DataInv ==
  /\ LowerRight /\ UpperRight /\ CopiedInside /\ ZeroTail /\ CowOffCopied
  /\ StartPrepared /\ DataPrepared /\ MarkPrepared

\* What a read in progress, rec, may rely on; may is what it may return.
Remaining(rec, c) == rec.pos <= c /\ c < rec.pos + rec.cnt
ReadOK(rec, may) ==
  /\ rec.pc \notin {"idle", "ret"} => \A c \in Cells :
       Remaining(rec, c) => ideal[c] \subseteq may[c] /\ may[c] # {}
  /\ rec.pc \in {"enter", "plain"} =>
       IF rec.real = "upper" THEN copiedUp
       ELSE \A c \in Cells : Remaining(rec, c) => LowerView(c) \in may[c]
  /\ rec.pc = "plain" /\ rec.real = "upper" => ~cow_status
  /\ rec.pc \in {"loop", "tail", "upper", "lower"} => copiedUp /\ block_count = NBlocks
  /\ rec.pc = "tail" => ovl_get_block(rec.pos) > NBlocks
  /\ rec.pc = "upper" => /\ ovl_get_block(rec.pos) \in Blocks
                         /\ block_status[ovl_get_block(rec.pos)] = COPIED
  /\ rec.pc = "lower" => \A c \in Cells :
       Remaining(rec, c) /\ ovl_get_block(c) = ovl_get_block(rec.pos) /\ c < LowerSize
         => LowerData[c] \in may[c]
ReadInv == \A r \in Readers : ReadOK(rd[r], allowed[r])

\* An append without copy-on-write starts where the upper file ends.
AppendInv == w.pc = "plain" /\ w.app => w.pos = usize

\* No write starts past the end of the file.
Dense == "sparse" \notin Env

\* The last block of the table reaches past the end of the lower file, and still comes
\* from there.
TailBelow == cow_status /\ NotCopied(NBlocks) /\ LowerSize < NBlocks * BS

\* Then the file ends where the lower file does: whatever makes it longer is a write that
\* touches this block, and marks it before it returns.
TailInv ==
  TailBelow =>
    /\ w.pc # "mark" => usize <= LowerSize
    /\ w.pc \in {"start", "end", "data", "mark"} /\ ~w.app => w.pos <= LowerSize
    /\ w.pc = "mark" => usize <= LowerSize \/ (StartBlock <= NBlocks /\ NBlocks <= EndBlock)
    /\ \A c \in Cells : LowerSize <= c /\ c < NBlocks * BS => Eof \in ideal[c]

\* A read, rec, that has met the end of the lower file without a cell to return, or is
\* about to, has been past the end of the plain file.
EofOK(rec, may) ==
  /\ ~rec.some
  /\ rec.pc \notin {"idle", "ret"}
  /\ (rec.pc = "lower" /\ rec.pos >= LowerSize) \/ rec.lower_end
  => Eof \in may[rec.pos]
EofInv == \A r \in Readers : EofOK(rd[r], allowed[r])

IInv == /\ TypeInv /\ CopyCountExact /\ DataInv /\ ReadInv /\ AppendInv
        /\ Dense => TailInv /\ EofInv

=============================================================================
