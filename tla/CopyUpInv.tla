----------------------------- MODULE CopyUpInv -----------------------------
(***************************************************************************)
(* The inductive invariant behind the safety properties of CopyUpProto.    *)
(***************************************************************************)
EXTENDS CopyUpProto

\* Between ovl_copy_up_start and ovl_copy_up_end.
Holding == Creating \cup {"locked", "finish", "mark", "link", "nlink", "data", "unlock"}

\* A thread holds the oi->lock of an inode exactly while it copies that inode up.
LockInv ==
  \A i \in Inodes, t \in Threads :
    lock[i] = t <=> th[t].pc \in Holding /\ Ino(t) = i

\* What the locals of a copy-up say of the tree.  The parent may be out of date,
\* but not as long as the dentry has no alias: only dentries with an alias move.
Placing == Holding \cup {"lock"}
PlaceInv ==
  \A t \in Threads : th[t].pc \in Placing =>
    /\ th[t].par = None => th[t].next \in Disconnected
    /\ th[t].par # None =>
         /\ InodeOf[th[t].par] \in upper
         /\ th[t].next \notin alias => th[t].par = parent[th[t].next]

\* The progress of the thread that holds the lock.
StageInv ==
  /\ InodeOf[Root] \in upper
  /\ \A t \in Threads :
      /\ th[t].pc \in Creating => Ino(t) \notin upper
      /\ th[t].pc \in {"finish", "mark", "link", "nlink", "data"} => Ino(t) \in upper
      /\ th[t].pc \in {"finish", "mark", "link"} => th[t].next \notin alias
      /\ th[t].pc \in {"mark", "link"} => th[t].par # None
      /\ th[t].pc \in {"upperdata", "update", "finish"} /\ ~ToIndex(th[t].next)
           => entry[th[t].next] = th[t].par

\* There is one rename at a time, of a dentry that has its alias by the time the
\* new parent is copied up.
Renaming(t) == th[t].pc # "idle" /\ th[t].op = "rename"
MoveInv ==
  /\ \A t, u \in Threads : Renaming(t) /\ Renaming(u) => t = u
  /\ \A t \in Threads : /\ th[t].pc \in {"move", "d_move"} => th[t].op = "rename"
                        /\ th[t].pc = "open" => th[t].op # "rename"
  /\ \A t \in Threads : Renaming(t) =>
       /\ th[t].to \in Dentries /\ Dirs(th[t].to) /\ th[t].d # Root
       /\ th[t].d \notin Disconnected /\ th[t].d # th[t].to
       /\ th[t].tgt \in {th[t].d, th[t].to}
       /\ th[t].tgt = th[t].to \/ th[t].pc \in {"ok", "move", "d_move"} => th[t].d \in alias
       /\ th[t].pc = "ok" /\ th[t].tgt = th[t].to => InodeOf[th[t].to] \in upper
       /\ th[t].pc \in {"move", "d_move"} => InodeOf[th[t].to] \in upper
       /\ th[t].pc = "d_move" => entry[th[t].d] = th[t].to

\* The directory that will hold the new name is marked before there is a name.
Making == {"temp", "cow", "table", "attrs", "index", "install"}
ImpureInv ==
  /\ ImpureMarked
  /\ \A t \in Threads :
      /\ th[t].pc \in Making /\ ~ToIndex(th[t].next) => th[t].par \in impure
      /\ th[t].pc = "link" => th[t].par \in impure
      /\ th[t].pc = "move" /\ TypeOrigin(th[t].d) => th[t].to \in impure

\* What needs an index entry has it before the upper inode becomes visible.
ReachInv ==
  /\ UpperReachable
  /\ \A t \in Threads :
      /\ th[t].pc \in {"upperdata", "update"} /\ ToIndex(th[t].next) => Ino(t) \in indexed
      /\ /\ th[t].pc \in {"install", "upperdata", "update"}
         /\ Dirs(th[t].next) /\ NeedIndex(th[t].next)
         => Ino(t) \in indexed

\* What a call that is about to return success has seen.
OkInv ==
  \A t \in Threads :
    /\ th[t].pc = "open" => th[t].tgt = th[t].d /\ th[t].op \in {"read", "write", "trunc"}
    /\ th[t].pc = "ok" /\ th[t].op # "read" =>
         InodeOf[th[t].tgt] \in upper /\ th[t].tgt \in alias \cup Disconnected

\* Without metacopy the table is there before the upper file, unless there is
\* nothing to read; reads are of regular files.
HasTable(i) == i \in Files \ Empty => i \in cow_status \cap block_status
TableInv ==
  /\ \A i \in upper : i \in emptied \/ HasTable(i)
  /\ \A t \in Threads :
      /\ th[t].pc = "table" => Ino(t) \in cow_status
      /\ /\ th[t].pc \in {"attrs", "index", "install", "upperdata", "update"}
         /\ th[t].op # "trunc"
         => HasTable(Ino(t))
      /\ \/ th[t].pc \in {"open", "cowtest"}
         \/ th[t].pc # "idle" /\ th[t].op = "read"
         => InodeOf[th[t].d] \in Files
      /\ th[t].pc = "cowtest" /\ th[t].real = "upper" => InodeOf[th[t].d] \in upper
  /\ ReadTakesData

ProtoInv == /\ TypeOK /\ LockInv /\ PlaceInv /\ StageInv /\ MoveInv /\ UpperMirrorsTree
            /\ ImpureInv /\ ReachInv /\ OkInv
            /\ ~MetaCopy => TableInv
=============================================================================
