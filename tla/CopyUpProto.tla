---------------------------- MODULE CopyUpProto ----------------------------
(***************************************************************************)
(* Copy-up by several threads: who creates the upper file of an overlay    *)
(* inode, in which order the parts of its state become visible, and what   *)
(* is left when a step fails.                                              *)
(*                                                                         *)
(* A thread that needs an upper file (open for writing, chmod, link,       *)
(* rename) calls ovl_copy_up_flags (copy_up.c).  It tests without a lock   *)
(* whether the work is done, walks up to the topmost ancestor that has no  *)
(* upper directory, and copies that one up under its oi->lock, until the   *)
(* object itself is up.  Reads test cow_status with no lock at all, and a  *)
(* rename may move the object, or an ancestor, at any moment in between.   *)
(*                                                                         *)
(* Dentries form a tree; hard links are dentries that share an inode.  All *)
(* of them come from the lower layer; only the root is up at the start.    *)
(***************************************************************************)
EXTENDS Naturals, FiniteSets

CONSTANTS
  Threads,
  Dentries,      \* overlay dentries
  Root,          \* the root of the mount
  Inodes,
  InodeOf,       \* d_inode of each dentry
  Parent0,       \* d_parent of each dentry at the start
  Files,         \* the inodes that are regular files; the others are directories
  Empty,         \* regular files of size 0
  HardLinked,    \* inodes with i_nlink > 1 in the lower layer
  Disconnected,  \* dentries decoded from a file handle (DCACHE_DISCONNECTED)
  Index,         \* an index directory exists
  IndexAll,      \* ovl_index_all: every object is indexed (NFS export)
  MetaCopy,      \* mount option metacopy=on
  TmpFile,       \* ofs->tmpfile: the upper file system supports O_TMPFILE
  Ops,           \* the calls that threads make, a subset of AllOps
  Moves,         \* the renames they make: pairs of a dentry and a new parent
  Faults,        \* calls into the upper file system, allocations and locks may fail
  None           \* neither a thread nor a dentry

AllOps == {"read",    \* open for reading, then one read
           "write",   \* open for writing
           "trunc",   \* open with O_TRUNC
           "meta",    \* ovl_copy_up: chmod, chown, setxattr, link
           "rename"}  \* ovl_rename

Dirs(d) == InodeOf[d] \notin Files

\* ovl_need_index.
NeedIndex(d) == Index /\ (IndexAll \/ (~Dirs(d) /\ InodeOf[d] \in HardLinked))
ToIndex(d)   == NeedIndex(d) /\ ~Dirs(d)

\* ovl_type_origin of a dentry that is up (OVL_CONST_INO): not a hard link that
\* copy-up broke for want of an index.
TypeOrigin(d) == Dirs(d) \/ InodeOf[d] \notin HardLinked \/ ToIndex(d)

ASSUME ProtoAssumption ==
  /\ None \notin Threads /\ None \notin Dentries
  /\ Root \in Dentries /\ Root \notin Disconnected
  /\ InodeOf \in [Dentries -> Inodes]
  /\ Parent0 \in [Dentries -> Dentries]
  /\ Files \subseteq Inodes /\ Empty \subseteq Files
  /\ Disconnected \subseteq {d \in Dentries : InodeOf[d] \in Files}
  /\ Disconnected # {} => Index /\ IndexAll     \* nfs_export=on implies both
  /\ \A d \in Dentries \ Disconnected : Dirs(Parent0[d])
  /\ Dirs(Root)
  /\ \A d, e \in Dentries : d # e /\ InodeOf[d] = InodeOf[e] => ToIndex(d)
  /\ {Index, IndexAll, MetaCopy, TmpFile, Faults} \subseteq BOOLEAN
  /\ Ops \subseteq AllOps
  /\ Moves \subseteq {m \in Dentries \X Dentries :
                        m[1] # Root /\ m[1] # m[2] /\ m[1] \notin Disconnected /\ Dirs(m[2])}

VARIABLES
  upper,         \* inodes whose __upperdentry is set
  upperdata,     \* inodes with OVL_UPPERDATA
  alias,         \* dentries with OVL_E_UPPER_ALIAS
  entry,         \* entry[d]: the directory whose upper directory holds d
  indexed,       \* inodes with an entry in the index directory
  impure,        \* directories marked OVL_IMPURE
  parent,        \* d_parent
  lock,          \* holder of oi->lock
  workLock,      \* holder of lock_rename on the work and the target directory
  cow_status,    \* inodes with oi->cow_status
  block_status,  \* inodes with a table in oi->block_status
  emptied,       \* history: inodes that were copied up by an open with O_TRUNC
  th             \* the threads

treeVars == <<entry, alias, impure, indexed>>
cowVars  == <<cow_status, block_status>>
lockVars == <<lock, workLock>>
upVars   == <<upper, upperdata, emptied>>
vars == <<upper, upperdata, alias, entry, indexed, impure, parent, lock,
          workLock, cow_status, block_status, emptied, th>>

\* d, to: the arguments of the call; tgt: the dentry that ovl_copy_up_flags is
\* called for; next, par: its locals, which become ctx.dentry and ctx.parent;
\* real: the real file that ovl_real_fdget picked.
Idle == [pc |-> "idle", op |-> "meta", d |-> Root, to |-> None, tgt |-> Root,
         next |-> Root, par |-> None, real |-> "lower"]

Init ==
  /\ upper = {InodeOf[Root]}
  /\ upperdata = {InodeOf[Root]}
  /\ alias = {Root}
  /\ entry = [d \in Dentries |-> None]
  /\ indexed = {}
  /\ impure = {}
  /\ parent = Parent0
  /\ lock = [i \in Inodes |-> None]
  /\ workLock = None
  /\ cow_status = {}
  /\ block_status = {}
  /\ emptied = {}
  /\ th = [t \in Threads |-> Idle]

-----------------------------------------------------------------------------
(* What a thread sees. *)

Ino(t) == InodeOf[th[t].next]

\* ovl_open_flags_need_copy_up.
NeedsData(op) == op \in {"write", "trunc"}

\* ovl_has_upperdata.
HasUpperdata(i) == i \in Files => i \in upperdata

\* Mutant: the test wants an alias of a disconnected dentry too.
AliasTestOnly(d, op) ==
  /\ InodeOf[d] \in upper
  /\ d \in alias
  /\ NeedsData(op) => HasUpperdata(InodeOf[d])

\* ovl_already_copied_up: without a lock.
AlreadyCopiedUp(d, op) ==
  /\ InodeOf[d] \in upper
  /\ d \in alias \/ d \in Disconnected
  /\ NeedsData(op) => HasUpperdata(InodeOf[d])

\* ovl_already_copied_up_locked.
AlreadyCopiedUpLocked(d, op) ==
  /\ InodeOf[d] \in upper
  /\ d \in alias \/ d \in Disconnected
  /\ NeedsData(op) => InodeOf[d] \in upperdata

\* ovl_need_meta_copy_up: copy up the attributes and leave the data below.
MetaOnly(t) == MetaCopy /\ Ino(t) \in Files /\ ~NeedsData(th[t].op)

\* Mutant: only an open for writing sets the table up.
DelayedByOpen(t) == Ino(t) \in Files \ Empty /\ th[t].op = "write"

\* The copy-up gets a table: a regular file with data to delay.
Delayed(t) == /\ Ino(t) \in Files \ Empty
              /\ ~MetaOnly(t)
              /\ th[t].op # "trunc"

\* The temporary file is made in the work directory, under its lock.
InWorkdir(t) == ~TmpFile \/ Ino(t) \notin Files

\* i_rwsem of the upper directory of p.  A copy-up by the work directory holds it
\* all the time when that is where the new name goes.
UdirFree(p) ==
  \A t \in Threads : workLock = t => ToIndex(th[t].next) \/ th[t].par # p

\* The same for the directory that a copy-up by O_TMPFILE links to.  With
\* IndexAll directories are prepared in the index directory.
DestFree(t) == IF ToIndex(th[t].next) THEN IndexAll => workLock = None
                                      ELSE UdirFree(th[t].par)

Goto(t, pc) == th' = [th EXCEPT ![t].pc = pc]

-----------------------------------------------------------------------------
(* The calls. *)

Open(t, op, d) ==
  /\ th[t].pc = "idle" /\ op \in Ops \cap {"read", "write", "trunc"}
  /\ InodeOf[d] \in Files
  /\ th' = [th EXCEPT ![t] = [Idle EXCEPT !.pc = "open", !.op = op, !.d = d, !.tgt = d]]
  /\ UNCHANGED <<upVars, treeVars, parent, lockVars, cowVars>>

CopyUpCall(t, d) ==
  /\ th[t].pc = "idle" /\ "meta" \in Ops
  /\ th' = [th EXCEPT ![t] = [Idle EXCEPT !.pc = "check", !.op = "meta", !.d = d, !.tgt = d]]
  /\ UNCHANGED <<upVars, treeVars, parent, lockVars, cowVars>>

\* The VFS makes cross-directory renames one at a time.
RenameCall(t, d, to) ==
  /\ th[t].pc = "idle" /\ "rename" \in Ops
  /\ parent[d] # to
  /\ \A u \in Threads : th[u].pc = "idle" \/ th[u].op # "rename"
  /\ th' = [th EXCEPT ![t] = [Idle EXCEPT !.pc = "check", !.op = "rename",
                                          !.d = d, !.to = to, !.tgt = d]]
  /\ UNCHANGED <<upVars, treeVars, parent, lockVars, cowVars>>

\* Mutant: the test looks at the inode and forgets the alias of a hard link.
OpenByInode(t) ==
  /\ th[t].pc = "open"
  /\ IF \/ InodeOf[th[t].d] \in upper /\ HasUpperdata(InodeOf[th[t].d])
        \/ ~NeedsData(th[t].op)
       THEN Goto(t, "ok")
       ELSE Goto(t, "check")
  /\ UNCHANGED <<upVars, treeVars, parent, lockVars, cowVars>>

\* ovl_maybe_copy_up: most opens need no copy-up.
MaybeCopyUp(t) ==
  /\ th[t].pc = "open"
  /\ IF AlreadyCopiedUp(th[t].d, th[t].op) \/ ~NeedsData(th[t].op)
       THEN Goto(t, "ok")
       ELSE Goto(t, "check")
  /\ UNCHANGED <<upVars, treeVars, parent, lockVars, cowVars>>

\* Head of the loop of ovl_copy_up_flags.
Check(t) ==
  /\ th[t].pc = "check"
  /\ th' = [th EXCEPT
       ![t].pc = IF AlreadyCopiedUp(th[t].tgt, th[t].op) THEN "ok"
                 ELSE IF th[t].tgt \in Disconnected THEN "lock" ELSE "walk",
       ![t].next = th[t].tgt,
       ![t].par = None]
  /\ UNCHANGED <<upVars, treeVars, parent, lockVars, cowVars>>

\* Mutant: copies up the object itself, whether or not its parent is up.
NoWalk(t) ==
  /\ th[t].pc = "walk"
  /\ th' = [th EXCEPT ![t].pc = "lock", ![t].par = parent[th[t].next]]
  /\ UNCHANGED <<upVars, treeVars, parent, lockVars, cowVars>>

\* One dget_parent on the way to the topmost dentry that is not up.
Walk(t) ==
  /\ th[t].pc = "walk"
  /\ LET p == parent[th[t].next] IN
       th' = IF InodeOf[p] \in upper
               THEN [th EXCEPT ![t].pc = "lock", ![t].par = p]
               ELSE [th EXCEPT ![t].next = p]
  /\ UNCHANGED <<upVars, treeVars, parent, lockVars, cowVars>>

-----------------------------------------------------------------------------
(* ovl_copy_up_one, under oi->lock. *)

\* Mutant: copy-up goes on without waiting for the lock.
StartUnlocked(t) ==
  /\ th[t].pc = "lock"
  /\ IF AlreadyCopiedUpLocked(th[t].next, th[t].op)
       THEN Goto(t, "check") /\ UNCHANGED lock
       ELSE Goto(t, "locked") /\ lock' = [lock EXCEPT ![Ino(t)] = t]
  /\ UNCHANGED <<upVars, treeVars, parent, workLock, cowVars>>

\* ovl_copy_up_start.
Start(t) ==
  /\ th[t].pc = "lock"
  /\ lock[Ino(t)] = None
  /\ IF AlreadyCopiedUpLocked(th[t].next, th[t].op)
       THEN Goto(t, "check") /\ UNCHANGED lock
       ELSE Goto(t, "locked") /\ lock' = [lock EXCEPT ![Ino(t)] = t]
  /\ UNCHANGED <<upVars, treeVars, parent, workLock, cowVars>>

\* What is left to do: the inode, the name, the data, in this order.
Dispatch(t) ==
  /\ th[t].pc = "locked"
  /\ Goto(t, IF Ino(t) \notin upper THEN "impure"
             ELSE IF th[t].par # None /\ th[t].next \notin alias THEN "mark"
             ELSE IF NeedsData(th[t].op) /\ Ino(t) \notin upperdata THEN "data"
             ELSE "unlock")
  /\ UNCHANGED <<upVars, treeVars, parent, lockVars, cowVars>>

\* ovl_copy_up_end; the loop of ovl_copy_up_flags goes on.
Unlock(t) ==
  /\ th[t].pc = "unlock"
  /\ lock' = [lock EXCEPT ![Ino(t)] = None]
  /\ Goto(t, "check")
  /\ UNCHANGED <<upVars, treeVars, parent, workLock, cowVars>>

\* Mutant: the parent is not marked.
NotImpure(t) ==
  /\ th[t].pc = "impure"
  /\ UNCHANGED impure
  /\ Goto(t, "temp")
  /\ UNCHANGED <<upVars, entry, alias, indexed, parent, lockVars, cowVars>>

\* ovl_do_copy_up up to the choice of the way: the directory that will hold the
\* name is marked first.  A disconnected dentry is always indexed, so that it needs no
\* parent (WARN_ON).
SetImpure(t) ==
  /\ th[t].pc = "impure"
  /\ impure' = IF ToIndex(th[t].next) THEN impure ELSE impure \cup {th[t].par}
  /\ Goto(t, "temp")
  /\ UNCHANGED <<upVars, entry, alias, indexed, parent, lockVars, cowVars>>

\* Beginning of ovl_copy_up_workdir or ovl_copy_up_tmpfile.
CreateTemp(t) ==
  /\ th[t].pc = "temp"
  /\ IF InWorkdir(t)
       THEN workLock = None /\ workLock' = t
       ELSE UNCHANGED workLock
  /\ Goto(t, IF Delayed(t) THEN "cow" ELSE "attrs")
  /\ UNCHANGED <<upVars, treeVars, parent, lock, cowVars>>

\* ovl_copy_up_inode: copy-on-write is announced (with block_count)...
SetCow(t) ==
  /\ th[t].pc = "cow"
  /\ cow_status' = cow_status \cup {Ino(t)}
  /\ Goto(t, "table")
  /\ UNCHANGED <<upVars, treeVars, parent, lockVars, block_status>>

\* ... and then the table is allocated.
AllocTable(t) ==
  /\ th[t].pc = "table"
  /\ block_status' = block_status \cup {Ino(t)}
  /\ Goto(t, "attrs")
  /\ UNCHANGED <<upVars, treeVars, parent, lockVars, cow_status>>

\* The rest of ovl_copy_up_inode: xattrs, origin, metacopy mark, attributes.
SetAttrs(t) ==
  /\ th[t].pc = "attrs"
  /\ Goto(t, IF Dirs(th[t].next) /\ NeedIndex(th[t].next) THEN "index" ELSE "install")
  /\ UNCHANGED <<upVars, treeVars, parent, lockVars, cowVars>>

\* ovl_create_index: a directory gets its index entry before its name.
CreateIndex(t) ==
  /\ th[t].pc = "index"
  /\ indexed' = indexed \cup {Ino(t)}
  /\ Goto(t, "install")
  /\ UNCHANGED <<upVars, entry, alias, impure, parent, lockVars, cowVars>>

\* Mutant: a hard link is installed nowhere.
InstallNotIndexed(t) ==
  /\ th[t].pc = "install"
  /\ InWorkdir(t) \/ DestFree(t)
  /\ IF ToIndex(th[t].next)
       THEN UNCHANGED <<indexed, entry>>
       ELSE entry' = [entry EXCEPT ![th[t].next] = th[t].par] /\ UNCHANGED indexed
  /\ Goto(t, "upperdata")
  /\ UNCHANGED <<upVars, alias, impure, parent, lockVars, cowVars>>

\* ovl_do_rename or ovl_do_link: the temporary file gets its name, in the upper
\* directory of the parent or, for an indexed file, in the index directory.
Install(t) ==
  /\ th[t].pc = "install"
  /\ InWorkdir(t) \/ DestFree(t)
  /\ IF ToIndex(th[t].next)
       THEN indexed' = indexed \cup {Ino(t)} /\ UNCHANGED entry
       ELSE entry' = [entry EXCEPT ![th[t].next] = th[t].par] /\ UNCHANGED indexed
  /\ Goto(t, "upperdata")
  /\ UNCHANGED <<upVars, alias, impure, parent, lockVars, cowVars>>

\* ovl_set_upperdata, unless the data stays below.
SetUpperdata(t) ==
  /\ th[t].pc = "upperdata"
  /\ upperdata' = IF MetaOnly(t) THEN upperdata ELSE upperdata \cup {Ino(t)}
  /\ Goto(t, "update")
  /\ UNCHANGED <<upper, emptied, treeVars, parent, lockVars, cowVars>>

\* ovl_inode_update, then the work directory is unlocked.
InodeUpdate(t) ==
  /\ th[t].pc = "update"
  /\ upper' = upper \cup {Ino(t)}
  /\ emptied' = IF th[t].op = "trunc" /\ Ino(t) \in Files
                  THEN emptied \cup {Ino(t)} ELSE emptied
  /\ workLock' = IF workLock = t THEN None ELSE workLock
  /\ Goto(t, "finish")
  /\ UNCHANGED <<upperdata, treeVars, parent, lock, cowVars>>

\* End of ovl_do_copy_up: nlink of an indexed file, alias of the others.
Finish(t) ==
  /\ th[t].pc = "finish"
  /\ alias' = IF ToIndex(th[t].next) THEN alias ELSE alias \cup {th[t].next}
  /\ Goto(t, "locked")
  /\ UNCHANGED <<upVars, entry, impure, indexed, parent, lockVars, cowVars>>

\* ovl_link_up, for a hard link of a file that is up: the directory is marked
\* (and the link count stored, ovl_set_nlink_lower) ...
LinkMark(t) ==
  /\ th[t].pc = "mark"
  /\ impure' = impure \cup {th[t].par}
  /\ Goto(t, "link")
  /\ UNCHANGED <<upVars, entry, alias, indexed, parent, lockVars, cowVars>>

\* ... then the link gets its name and the dentry its alias.
LinkUp(t) ==
  /\ th[t].pc = "link"
  /\ UdirFree(th[t].par)
  /\ entry' = [entry EXCEPT ![th[t].next] = th[t].par]
  /\ alias' = alias \cup {th[t].next}
  /\ Goto(t, "nlink")
  /\ UNCHANGED <<upVars, impure, indexed, parent, lockVars, cowVars>>

\* Its ovl_set_nlink_upper.
SetNlink(t) ==
  /\ th[t].pc = "nlink"
  /\ Goto(t, "locked")
  /\ UNCHANGED <<upVars, treeVars, parent, lockVars, cowVars>>

\* ovl_copy_up_meta_inode_data.  ovl_copy_up_data returns at once, so all this
\* does is to remove the metacopy mark and to set OVL_UPPERDATA.
CopyUpMetaInodeData(t) ==
  /\ th[t].pc = "data"
  /\ upperdata' = upperdata \cup {Ino(t)}
  /\ Goto(t, "locked")
  /\ UNCHANGED <<upper, emptied, treeVars, parent, lockVars, cowVars>>

\* Where a call may fail, or be interrupted while it waits for the lock.
MayFail == {"check", "lock", "impure", "temp", "table", "attrs", "index",
            "install", "finish", "mark", "link", "nlink", "data", "move"}

\* The call returns an error.  The temporary file is removed and the locks are
\* released; cow_status and block_status stay as they are.
Fail(t) ==
  /\ Faults
  /\ th[t].pc \in MayFail
  /\ th[t].pc = "finish" => ToIndex(th[t].next)
  /\ lock' = [i \in Inodes |-> IF lock[i] = t THEN None ELSE lock[i]]
  /\ workLock' = IF workLock = t THEN None ELSE workLock
  /\ th' = [th EXCEPT ![t] = Idle]
  /\ UNCHANGED <<upVars, treeVars, parent, cowVars>>

-----------------------------------------------------------------------------
(* After ovl_copy_up_flags. *)

Return(t) ==
  /\ th[t].pc = "ok" /\ th[t].op \notin {"read", "rename"}
  /\ th' = [th EXCEPT ![t] = Idle]
  /\ UNCHANGED <<upVars, treeVars, parent, lockVars, cowVars>>

\* Mutant: goes on to the move without copying up the new parent.
RenameNoCopyUp(t) ==
  /\ th[t].pc = "ok" /\ th[t].op = "rename" /\ th[t].tgt = th[t].d
  /\ th' = [th EXCEPT ![t].pc = "ok", ![t].tgt = th[t].to]
  /\ UNCHANGED <<upVars, treeVars, parent, lockVars, cowVars>>

\* ovl_rename has copied up the object and copies up the new parent ...
RenameParent(t) ==
  /\ th[t].pc = "ok" /\ th[t].op = "rename" /\ th[t].tgt = th[t].d
  /\ th' = [th EXCEPT ![t].pc = "check", ![t].tgt = th[t].to]
  /\ UNCHANGED <<upVars, treeVars, parent, lockVars, cowVars>>

\* ... and marks it.
RenameMark(t) ==
  /\ th[t].pc = "ok" /\ th[t].op = "rename" /\ th[t].tgt # th[t].d
  /\ impure' = IF TypeOrigin(th[t].d) THEN impure \cup {th[t].to} ELSE impure
  /\ Goto(t, "move")
  /\ UNCHANGED <<upVars, entry, alias, indexed, parent, lockVars, cowVars>>

\* The rest of ovl_rename, with both upper directories locked by lock_rename, which
\* excludes every other lock_rename of the file system.  The object is no longer
\* where it was expected when its upper name is not in the old parent.
RenameUpper(t) ==
  /\ th[t].pc = "move"
  /\ workLock = None
  /\ IF entry[th[t].d] = parent[th[t].d]
       THEN /\ entry' = [entry EXCEPT ![th[t].d] = th[t].to]
            /\ Goto(t, "d_move")
       ELSE /\ th' = [th EXCEPT ![t] = Idle]       \* -ESTALE
            /\ UNCHANGED entry
  /\ UNCHANGED <<upVars, impure, alias, indexed, parent, lockVars, cowVars>>

\* The VFS moves the overlay dentry.
DMove(t) ==
  /\ th[t].pc = "d_move"
  /\ parent' = [parent EXCEPT ![th[t].d] = th[t].to]
  /\ th' = [th EXCEPT ![t] = Idle]
  /\ UNCHANGED <<upVars, treeVars, lockVars, cowVars>>

\* ovl_read_iter: ovl_real_fdget (ovl_inode_realdata) ...
RealFdget(t) ==
  /\ th[t].pc = "ok" /\ th[t].op = "read"
  /\ LET i == InodeOf[th[t].d] IN
       th' = [th EXCEPT ![t].pc = "cowtest",
                        ![t].real = IF i \in upper /\ HasUpperdata(i) THEN "upper"
                                                                       ELSE "lower"]
  /\ UNCHANGED <<upVars, treeVars, parent, lockVars, cowVars>>

\* Mutant: a read that was given the upper file trusts it with all of the data.
CowTestLowerOnly(t) ==
  /\ th[t].pc = "cowtest"
  /\ Goto(t, IF InodeOf[th[t].d] \in cow_status /\ th[t].real = "lower"
               THEN "blocks" ELSE "plain")
  /\ UNCHANGED <<upVars, treeVars, parent, lockVars, cowVars>>

\* ... then the test of cow_status: by the table, or all from one file.
CowTest(t) ==
  /\ th[t].pc = "cowtest"
  /\ Goto(t, IF InodeOf[th[t].d] \in cow_status THEN "blocks" ELSE "plain")
  /\ UNCHANGED <<upVars, treeVars, parent, lockVars, cowVars>>

ReadReturn(t) ==
  /\ th[t].pc \in {"blocks", "plain"}
  /\ th' = [th EXCEPT ![t] = Idle]
  /\ UNCHANGED <<upVars, treeVars, parent, lockVars, cowVars>>

-----------------------------------------------------------------------------
Begin(t) == \/ \E op \in Ops, d \in Dentries : Open(t, op, d)
            \/ \E d \in Dentries : CopyUpCall(t, d)
            \/ \E m \in Moves : RenameCall(t, m[1], m[2])

\* Steps that wait for a lock.
Acquire(t) == Start(t) \/ CreateTemp(t) \/ Install(t) \/ LinkUp(t) \/ RenameUpper(t)

Step(t) ==
  \/ MaybeCopyUp(t) \/ Check(t) \/ Walk(t) \/ Dispatch(t) \/ Unlock(t)
  \/ SetImpure(t) \/ SetCow(t) \/ AllocTable(t) \/ SetAttrs(t) \/ CreateIndex(t)
  \/ SetUpperdata(t) \/ InodeUpdate(t) \/ Finish(t) \/ LinkMark(t) \/ SetNlink(t)
  \/ CopyUpMetaInodeData(t) \/ Return(t) \/ RenameParent(t) \/ RenameMark(t) \/ DMove(t)
  \/ RealFdget(t) \/ CowTest(t) \/ ReadReturn(t)

Next == \E t \in Threads : Begin(t) \/ Acquire(t) \/ Step(t) \/ Fail(t)

Spec == Init /\ [][Next]_vars

\* A thread inside a call goes on, and a kernel mutex is handed to every waiter
\* in the end.  Nothing makes a call begin or fail.
FairSpec == Spec /\ \A t \in Threads : WF_vars(Step(t)) /\ SF_vars(Acquire(t))

-----------------------------------------------------------------------------
(* Properties. *)

PCs == {"idle", "open", "check", "walk", "lock", "locked", "impure", "temp", "cow",
        "table", "attrs", "index", "install", "upperdata", "update", "finish", "mark", "link",
        "nlink", "data", "unlock", "ok", "move", "d_move", "cowtest", "blocks", "plain"}

Thread == [pc : PCs, op : AllOps, d : Dentries, to : Dentries \cup {None},
           tgt : Dentries, next : Dentries, par : Dentries \cup {None},
           real : {"lower", "upper"}]

\* Types of all variables.
TypeOK ==
  /\ upper \subseteq Inodes /\ upperdata \subseteq Inodes
  /\ indexed \subseteq Inodes /\ emptied \subseteq Inodes
  /\ cow_status \subseteq Inodes /\ block_status \subseteq Inodes
  /\ alias \subseteq Dentries /\ impure \subseteq Dentries
  /\ entry \in [Dentries -> Dentries \cup {None}]
  /\ parent \in [Dentries -> Dentries]
  /\ lock \in [Inodes -> Threads \cup {None}]
  /\ workLock \in Threads \cup {None}
  /\ th \in [Threads -> Thread]

\* Steps of ovl_do_copy_up up to and with ovl_inode_update.
Creating == {"impure", "temp", "cow", "table", "attrs", "index", "install",
             "upperdata", "update"}

\* The work is done once: whoever is creating the upper file finds that there is
\* none yet, until it has put its own in place, so that WARN_ON in
\* ovl_inode_update never fires and no table in use is replaced by a new one.
WorkOnce ==
  \A t \in Threads : th[t].pc \in Creating => Ino(t) \notin upper

\* The upper layer mirrors the overlay's tree: a dentry that is marked as having
\* an upper alias has its name in the upper directory of its parent, also when
\* it, or an ancestor, is renamed during the copy-up; only the thread that is
\* renaming it sees the name moved before the dentry.
UpperMirrorsTree ==
  \A d \in alias \ {Root} :
    /\ InodeOf[d] \in upper
    /\ InodeOf[parent[d]] \in upper
    /\ \/ entry[d] = parent[d]
       \/ \E t \in Threads : /\ th[t].pc = "d_move" /\ th[t].d = d
                             /\ entry[d] = th[t].to

\* A directory is marked impure before an object with a copy-up origin gets a
\* name in it, whether by copy-up, link or rename, and whatever failed before.
ImpureMarked ==
  \A d \in Dentries : entry[d] # None /\ TypeOrigin(d) => entry[d] \in impure

\* An upper file that has become visible has a name, in a directory or in the
\* index, so that the next mount finds it; with the index on, a hard link always
\* has the index entry, by which its other names find it.
UpperReachable ==
  \A d \in Dentries \ {Root} : InodeOf[d] \in upper =>
    /\ \/ InodeOf[d] \in indexed
       \/ \E e \in Dentries : InodeOf[e] = InodeOf[d] /\ entry[e] # None
    /\ NeedIndex(d) => InodeOf[d] \in indexed

\* When a call that needs the object up succeeds, the object has a name above
\* (or is disconnected), and so have all the directories over it.
SuccessMeansUp ==
  \A t \in Threads : th[t].pc = "ok" /\ th[t].op # "read" =>
    LET d == th[t].tgt IN
    /\ InodeOf[d] \in upper
    /\ d \notin Disconnected \cup {Root} => entry[d] # None /\ InodeOf[parent[d]] \in upper

\* Once an upper file stands for the data of a file, the data can be had: by the
\* table from the lower file, unless the file was truncated by the copy-up.
DataReachable ==
  \A i \in (upper \cap upperdata \cap Files) \ Empty :
    i \in emptied \/ (i \in cow_status /\ i \in block_status)

\* A read that found copy-on-write off and took the upper file, without a lock,
\* took one that holds all of the data: cow_status is visible before the upper
\* file is.
ReadTakesData ==
  \A t \in Threads : th[t].pc = "plain" /\ th[t].real = "upper" =>
    InodeOf[th[t].d] \in Empty \cup emptied

\* Every call returns: no thread waits for a lock for ever, and the loop of
\* ovl_copy_up_flags ends.
CallsReturn == \A t \in Threads : th[t].pc # "idle" ~> th[t].pc = "idle"
=============================================================================
