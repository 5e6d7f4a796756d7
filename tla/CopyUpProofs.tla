---------------------------- MODULE CopyUpProofs ----------------------------
(***************************************************************************)
(* Proofs about CopyUpProto, for any tree, any set of threads and either   *)
(* setting of every mount option.                                          *)
(***************************************************************************)
EXTENDS CopyUpInv, TLAPS

-----------------------------------------------------------------------------
(* Types. *)

\* The state of a thread between two calls.
LEMMA IdleType == Idle \in Thread
  BY ProtoAssumption DEF Idle, Thread, PCs, AllOps

\* A step from one program counter to another.
LEMMA GotoType ==
  ASSUME NEW t \in Threads, NEW p \in PCs, th \in [Threads -> Thread], Goto(t, p)
  PROVE  th' \in [Threads -> Thread]
  BY DEF Goto, Thread

\* A thread gets a new state as a whole.
LEMMA SetType ==
  ASSUME NEW t \in Threads, NEW x \in Thread, th \in [Threads -> Thread],
         th' = [th EXCEPT ![t] = x]
  PROVE  th' \in [Threads -> Thread]
  OBVIOUS

\* The inode that a thread works on.
LEMMA InoType ==
  ASSUME TypeOK, NEW t \in Threads
  PROVE  Ino(t) \in Inodes
  BY ProtoAssumption DEF Ino, TypeOK, Thread

\* A disconnected dentry goes to the index.
LEMMA DisconnectedToIndex ==
  ASSUME NEW d \in Disconnected
  PROVE  ToIndex(d)
  BY ProtoAssumption DEF ToIndex, NeedIndex, Dirs

\* Every step keeps the types.
LEMMA TypeStep ==
  ASSUME TypeOK, PlaceInv, StageInv, MoveInv,
         NEW t \in Threads, Begin(t) \/ Acquire(t) \/ Step(t) \/ Fail(t)
  PROVE  TypeOK'
PROOF
  <1>1. CASE \E op \in Ops, d \in Dentries : Open(t, op, d)
    <2>1. PICK op \in Ops, d \in Dentries : Open(t, op, d)
      BY <1>1
    <2> DEFINE x == [Idle EXCEPT !.pc = "open", !.op = op, !.d = d, !.tgt = d]
    <2>2. x \in Thread
      BY ProtoAssumption DEF Idle, Thread, PCs, AllOps
    <2>3. th' \in [Threads -> Thread]
      BY <2>1, <2>2, SetType DEF TypeOK, Open
    <2>q. QED
      BY <2>1, <2>3 DEF TypeOK, Open, upVars, treeVars, lockVars, cowVars
  <1>2. CASE \E d \in Dentries : CopyUpCall(t, d)
    <2>1. PICK d \in Dentries : CopyUpCall(t, d)
      BY <1>2
    <2> DEFINE x == [Idle EXCEPT !.pc = "check", !.op = "meta", !.d = d, !.tgt = d]
    <2>2. x \in Thread
      BY ProtoAssumption DEF Idle, Thread, PCs, AllOps
    <2>3. th' \in [Threads -> Thread]
      BY <2>1, <2>2, SetType DEF TypeOK, CopyUpCall
    <2>q. QED
      BY <2>1, <2>3 DEF TypeOK, CopyUpCall, upVars, treeVars, lockVars, cowVars
  <1>3. CASE \E m \in Moves : RenameCall(t, m[1], m[2])
    <2>1. PICK m \in Moves : RenameCall(t, m[1], m[2])
      BY <1>3
    <2> DEFINE x == [Idle EXCEPT !.pc = "check", !.op = "rename",
                            !.d = m[1], !.to = m[2], !.tgt = m[1]]
    <2>2. x \in Thread
      BY ProtoAssumption DEF Idle, Thread, PCs, AllOps
    <2>3. th' \in [Threads -> Thread]
      BY <2>1, <2>2, SetType DEF TypeOK, RenameCall
    <2>q. QED
      BY <2>1, <2>3 DEF TypeOK, RenameCall, upVars, treeVars, lockVars, cowVars
  <1>4. CASE MaybeCopyUp(t)
    <2>1. "ok" \in PCs /\ "check" \in PCs
      BY DEF PCs
    <2>2. th' \in [Threads -> Thread]
      BY <1>4, <2>1, GotoType DEF TypeOK, MaybeCopyUp
    <2>q. QED
      BY <1>4, <2>2, InoType DEF TypeOK, MaybeCopyUp, upVars, treeVars, lockVars,
         cowVars
  <1>5. CASE Check(t)
    <2> DEFINE p == IF AlreadyCopiedUp(th[t].tgt, th[t].op) THEN "ok"
                      ELSE IF th[t].tgt \in Disconnected THEN "lock" ELSE "walk"
    <2>1. p \in PCs
      BY DEF PCs
    <2> HIDE DEF p
    <2> DEFINE x == [th[t] EXCEPT !.pc = p, !.next = th[t].tgt, !.par = None]
    <2>2. x \in Thread
      BY <2>1 DEF TypeOK, Thread
    <2>5. th' = [th EXCEPT ![t].pc = p, ![t].next = th[t].tgt, ![t].par = None]
      BY <1>5, Zenon DEF Check, p
    <2>3. th' = [th EXCEPT ![t] = x]
      BY <2>5 DEF TypeOK
    <2>4. th' \in [Threads -> Thread]
      BY <2>2, <2>3, SetType DEF TypeOK
    <2>q. QED
      BY <1>5, <2>4 DEF TypeOK, Check, upVars, treeVars, lockVars, cowVars
  <1>6. CASE Walk(t)
    <2>1. "lock" \in PCs
      BY DEF PCs
    <2> DEFINE x == IF InodeOf[parent[th[t].next]] \in upper
                      THEN [th[t] EXCEPT !.pc = "lock", !.par = parent[th[t].next]]
                      ELSE [th[t] EXCEPT !.next = parent[th[t].next]]
    <2>4. x \in Thread
      BY <2>1 DEF TypeOK, Thread
    <2>3. th' = [th EXCEPT ![t] = x]
      BY <1>6 DEF Walk, TypeOK
    <2>2. th' \in [Threads -> Thread]
      BY <2>4, <2>3, SetType DEF TypeOK
    <2>q. QED
      BY <1>6, <2>2 DEF TypeOK, Walk, upVars, treeVars, lockVars, cowVars
  <1>7. CASE Start(t)
    <2>1. "check" \in PCs /\ "locked" \in PCs
      BY DEF PCs
    <2>2. th' \in [Threads -> Thread]
      BY <1>7, <2>1, GotoType DEF TypeOK, Start
    <2>q. QED
      BY <1>7, <2>2, InoType DEF TypeOK, Start, upVars, treeVars, lockVars, cowVars
  <1>8. CASE Dispatch(t)
    <2>1. "impure" \in PCs /\ "mark" \in PCs /\ "data" \in PCs /\ "unlock" \in PCs
      BY DEF PCs
    <2>2. th' \in [Threads -> Thread]
      BY <1>8, <2>1, GotoType DEF TypeOK, Dispatch
    <2>q. QED
      BY <1>8, <2>2, InoType DEF TypeOK, Dispatch, upVars, treeVars, lockVars, cowVars
  <1>9. CASE Unlock(t)
    <2>1. "check" \in PCs
      BY DEF PCs
    <2>2. th' \in [Threads -> Thread]
      BY <1>9, <2>1, GotoType DEF TypeOK, Unlock
    <2>q. QED
      BY <1>9, <2>2, InoType DEF TypeOK, Unlock, upVars, treeVars, lockVars, cowVars
  <1>10. CASE SetImpure(t)
    <2>1. "temp" \in PCs
      BY DEF PCs
    <2>2. th' \in [Threads -> Thread]
      BY <1>10, <2>1, GotoType DEF TypeOK, SetImpure
    <2>3. th[t].next \in Dentries /\ th[t].par \in Dentries \cup {None}
      BY DEF TypeOK, Thread
    <2>4. ToIndex(th[t].next) \/ th[t].par \in Dentries
      BY <1>10, <2>3, DisconnectedToIndex DEF PlaceInv, SetImpure, Placing, Holding,
         Creating
    <2>q. QED
      BY <1>10, <2>2, <2>4 DEF TypeOK, SetImpure, upVars, treeVars, lockVars, cowVars
  <1>11. CASE CreateTemp(t)
    <2>1. "cow" \in PCs /\ "attrs" \in PCs
      BY DEF PCs
    <2>2. th' \in [Threads -> Thread]
      BY <1>11, <2>1, GotoType DEF TypeOK, CreateTemp
    <2>q. QED
      BY <1>11, <2>2, InoType DEF TypeOK, CreateTemp, upVars, treeVars, lockVars,
         cowVars
  <1>12. CASE SetCow(t)
    <2>1. "table" \in PCs
      BY DEF PCs
    <2>2. th' \in [Threads -> Thread]
      BY <1>12, <2>1, GotoType DEF TypeOK, SetCow
    <2>q. QED
      BY <1>12, <2>2, InoType DEF TypeOK, SetCow, upVars, treeVars, lockVars, cowVars
  <1>13. CASE AllocTable(t)
    <2>1. "attrs" \in PCs
      BY DEF PCs
    <2>2. th' \in [Threads -> Thread]
      BY <1>13, <2>1, GotoType DEF TypeOK, AllocTable
    <2>q. QED
      BY <1>13, <2>2, InoType DEF TypeOK, AllocTable, upVars, treeVars, lockVars,
         cowVars
  <1>14. CASE SetAttrs(t)
    <2>1. "index" \in PCs /\ "install" \in PCs
      BY DEF PCs
    <2>2. th' \in [Threads -> Thread]
      BY <1>14, <2>1, GotoType DEF TypeOK, SetAttrs
    <2>q. QED
      BY <1>14, <2>2, InoType DEF TypeOK, SetAttrs, upVars, treeVars, lockVars, cowVars
  <1>15. CASE CreateIndex(t)
    <2>1. "install" \in PCs
      BY DEF PCs
    <2>2. th' \in [Threads -> Thread]
      BY <1>15, <2>1, GotoType DEF TypeOK, CreateIndex
    <2>q. QED
      BY <1>15, <2>2, InoType DEF TypeOK, CreateIndex, upVars, treeVars, lockVars,
         cowVars
  <1>16. CASE Install(t)
    <2>1. "upperdata" \in PCs
      BY DEF PCs
    <2>2. th' \in [Threads -> Thread]
      BY <1>16, <2>1, GotoType DEF TypeOK, Install
    <2>3. th[t].next \in Dentries /\ th[t].par \in Dentries \cup {None}
      BY DEF TypeOK, Thread
    <2>q. QED
      BY <1>16, <2>2, InoType, <2>3 DEF TypeOK, Install, upVars, treeVars, lockVars,
         cowVars
  <1>17. CASE SetUpperdata(t)
    <2>1. "update" \in PCs
      BY DEF PCs
    <2>2. th' \in [Threads -> Thread]
      BY <1>17, <2>1, GotoType DEF TypeOK, SetUpperdata
    <2>q. QED
      BY <1>17, <2>2, InoType DEF TypeOK, SetUpperdata, upVars, treeVars, lockVars,
         cowVars
  <1>18. CASE InodeUpdate(t)
    <2>1. "finish" \in PCs
      BY DEF PCs
    <2>2. th' \in [Threads -> Thread]
      BY <1>18, <2>1, GotoType DEF TypeOK, InodeUpdate
    <2>q. QED
      BY <1>18, <2>2, InoType DEF TypeOK, InodeUpdate, upVars, treeVars, lockVars,
         cowVars
  <1>19. CASE Finish(t)
    <2>1. "locked" \in PCs
      BY DEF PCs
    <2>2. th' \in [Threads -> Thread]
      BY <1>19, <2>1, GotoType DEF TypeOK, Finish
    <2>3. th[t].next \in Dentries
      BY DEF TypeOK, Thread
    <2>q. QED
      BY <1>19, <2>2, InoType, <2>3 DEF TypeOK, Finish, upVars, treeVars, lockVars,
         cowVars
  <1>20. CASE LinkMark(t)
    <2>1. "link" \in PCs
      BY DEF PCs
    <2>2. th' \in [Threads -> Thread]
      BY <1>20, <2>1, GotoType DEF TypeOK, LinkMark
    <2>3. th[t].par \in Dentries
      BY <1>20 DEF TypeOK, Thread, StageInv, LinkMark
    <2>q. QED
      BY <1>20, <2>2, <2>3 DEF TypeOK, LinkMark, upVars, treeVars, lockVars, cowVars
  <1>21. CASE LinkUp(t)
    <2>1. "nlink" \in PCs
      BY DEF PCs
    <2>2. th' \in [Threads -> Thread]
      BY <1>21, <2>1, GotoType DEF TypeOK, LinkUp
    <2>3. th[t].next \in Dentries /\ th[t].par \in Dentries \cup {None}
      BY DEF TypeOK, Thread
    <2>q. QED
      BY <1>21, <2>2, InoType, <2>3 DEF TypeOK, LinkUp, upVars, treeVars, lockVars,
         cowVars
  <1>22. CASE SetNlink(t)
    <2>1. "locked" \in PCs
      BY DEF PCs
    <2>2. th' \in [Threads -> Thread]
      BY <1>22, <2>1, GotoType DEF TypeOK, SetNlink
    <2>q. QED
      BY <1>22, <2>2, InoType DEF TypeOK, SetNlink, upVars, treeVars, lockVars, cowVars
  <1>23. CASE CopyUpMetaInodeData(t)
    <2>1. "locked" \in PCs
      BY DEF PCs
    <2>2. th' \in [Threads -> Thread]
      BY <1>23, <2>1, GotoType DEF TypeOK, CopyUpMetaInodeData
    <2>q. QED
      BY <1>23, <2>2, InoType DEF TypeOK, CopyUpMetaInodeData, upVars, treeVars,
         lockVars, cowVars
  <1>24. CASE Fail(t)
    <2>1. th' \in [Threads -> Thread]
      BY <1>24, IdleType, SetType DEF TypeOK, Fail
    <2>q. QED
      BY <1>24, <2>1 DEF TypeOK, Fail, upVars, treeVars, lockVars, cowVars
  <1>25. CASE Return(t)
    <2>1. th' \in [Threads -> Thread]
      BY <1>25, IdleType, SetType DEF TypeOK, Return
    <2>q. QED
      BY <1>25, <2>1 DEF TypeOK, Return, upVars, treeVars, lockVars, cowVars
  <1>26. CASE RenameParent(t)
    <2>1. "check" \in PCs /\ th[t].to \in Dentries
      BY <1>26 DEF PCs, MoveInv, Renaming, RenameParent
    <2> DEFINE x == [th[t] EXCEPT !.pc = "check", !.tgt = th[t].to]
    <2>3. x \in Thread
      BY <2>1 DEF TypeOK, Thread
    <2>4. th' = [th EXCEPT ![t] = x]
      BY <1>26 DEF RenameParent, TypeOK
    <2>2. th' \in [Threads -> Thread]
      BY <2>4, <2>3, SetType DEF TypeOK
    <2>q. QED
      BY <1>26, <2>2 DEF TypeOK, RenameParent, upVars, treeVars, lockVars, cowVars
  <1>27. CASE RenameMark(t)
    <2>1. "move" \in PCs
      BY DEF PCs
    <2>2. th' \in [Threads -> Thread]
      BY <1>27, <2>1, GotoType DEF TypeOK, RenameMark
    <2>3. th[t].to \in Dentries
      BY <1>27 DEF MoveInv, Renaming, RenameMark
    <2>q. QED
      BY <1>27, <2>2, <2>3 DEF TypeOK, RenameMark, upVars, treeVars, lockVars, cowVars
  <1>28. CASE RenameUpper(t)
    <2>1. "d_move" \in PCs
      BY DEF PCs
    <2>2. th' \in [Threads -> Thread]
      BY <1>28, <2>1, GotoType, IdleType, SetType DEF TypeOK, RenameUpper
    <2>3. th[t].to \in Dentries \cup {None} /\ th[t].d \in Dentries
      BY DEF TypeOK, Thread
    <2>q. QED
      BY <1>28, <2>2, <2>3 DEF TypeOK, RenameUpper, upVars, treeVars, lockVars, cowVars
  <1>29. CASE DMove(t)
    <2>1. th' \in [Threads -> Thread]
      BY <1>29, IdleType, SetType DEF TypeOK, DMove
    <2>2. th[t].to \in Dentries
      BY <1>29 DEF MoveInv, Renaming, DMove
    <2>q. QED
      BY <1>29, <2>1, <2>2 DEF TypeOK, DMove, upVars, treeVars, lockVars, cowVars
  <1>30. CASE RealFdget(t)
    <2>1. "cowtest" \in PCs
      BY DEF PCs
    <2> DEFINE i == InodeOf[th[t].d]
               x == [th[t] EXCEPT !.pc = "cowtest",
                       !.real = IF i \in upper /\ HasUpperdata(i) THEN "upper" ELSE "lower"]
    <2>3. x \in Thread
      BY <2>1 DEF TypeOK, Thread
    <2>4. th' = [th EXCEPT ![t] = x]
      BY <1>30 DEF RealFdget, TypeOK
    <2>2. th' \in [Threads -> Thread]
      BY <2>4, <2>3, SetType DEF TypeOK
    <2>q. QED
      BY <1>30, <2>2 DEF TypeOK, RealFdget, upVars, treeVars, lockVars, cowVars
  <1>31. CASE CowTest(t)
    <2>1. "blocks" \in PCs /\ "plain" \in PCs
      BY DEF PCs
    <2>2. th' \in [Threads -> Thread]
      BY <1>31, <2>1, GotoType DEF TypeOK, CowTest
    <2>q. QED
      BY <1>31, <2>2, InoType DEF TypeOK, CowTest, upVars, treeVars, lockVars, cowVars
  <1>32. CASE ReadReturn(t)
    <2>1. th' \in [Threads -> Thread]
      BY <1>32, IdleType, SetType DEF TypeOK, ReadReturn
    <2>q. QED
      BY <1>32, <2>1 DEF TypeOK, ReadReturn, upVars, treeVars, lockVars, cowVars
  <1>q. QED
    BY <1>1, <1>2, <1>3, <1>4, <1>5, <1>6, <1>7, <1>8, <1>9, <1>10, <1>11,
       <1>12, <1>13, <1>14, <1>15, <1>16, <1>17, <1>18, <1>19, <1>20, <1>21, <1>22,
       <1>23, <1>24, <1>25, <1>26, <1>27, <1>28, <1>29, <1>30, <1>31, <1>32
       DEF Begin, Acquire, Step

-----------------------------------------------------------------------------
(* The parts of the inductive invariant. *)

\* A dentry with an alias has an upper inode.
LEMMA AliasUpper ==
  ASSUME StageInv, UpperMirrorsTree, NEW d \in alias
  PROVE  InodeOf[d] \in upper
  BY DEF StageInv, UpperMirrorsTree

\* What the head of the loop of ovl_copy_up_flags changes.
LEMMA CheckFrame ==
  ASSUME TypeOK, NEW t \in Threads, Check(t)
  PROVE  /\ th[t].pc = "check" /\ th'[t].pc \in {"ok", "lock", "walk"}
         /\ th'[t].pc = "ok" => AlreadyCopiedUp(th[t].tgt, th[t].op)
         /\ th'[t].pc = "lock" => th[t].tgt \in Disconnected
         /\ th'[t].op = th[t].op /\ th'[t].d = th[t].d /\ th'[t].to = th[t].to
         /\ th'[t].tgt = th[t].tgt /\ th'[t].next = th[t].tgt /\ th'[t].par = None
         /\ \A u \in Threads : u # t => th'[u] = th[u]
         /\ UNCHANGED <<upper, alias, entry, parent>>
  BY DEF Check, TypeOK, Thread, upVars, treeVars

\* What one step up the tree changes.
LEMMA WalkFrame ==
  ASSUME TypeOK, NEW t \in Threads, Walk(t)
  PROVE  /\ th[t].pc = "walk"
         /\ \/ /\ th'[t].pc = "lock" /\ th'[t].next = th[t].next
               /\ th'[t].par = parent[th[t].next] /\ InodeOf[th'[t].par] \in upper
            \/ th'[t].pc = "walk"
         /\ th'[t].op = th[t].op /\ th'[t].d = th[t].d /\ th'[t].to = th[t].to
         /\ th'[t].tgt = th[t].tgt
         /\ \A u \in Threads : u # t => th'[u] = th[u]
         /\ UNCHANGED <<upper, alias, entry, parent>>
  BY DEF Walk, TypeOK, Thread, upVars, treeVars

\* Every step keeps the correspondence of locks and program counters.
LEMMA LockStep ==
  ASSUME TypeOK, LockInv,
         NEW t \in Threads, Begin(t) \/ Acquire(t) \/ Step(t) \/ Fail(t)
  PROVE  LockInv'
PROOF
  <1>1. CASE \E op \in Ops, d \in Dentries : Open(t, op, d)
    BY <1>1, ProtoAssumption DEF TypeOK, Thread, Goto, Idle, Ino, upVars, treeVars,
       lockVars, cowVars, LockInv, Holding, Creating, MayFail, Open
  <1>2. CASE \E d \in Dentries : CopyUpCall(t, d)
    BY <1>2, ProtoAssumption DEF TypeOK, Thread, Goto, Idle, Ino, upVars, treeVars,
       lockVars, cowVars, LockInv, Holding, Creating, MayFail, CopyUpCall
  <1>3. CASE \E m \in Moves : RenameCall(t, m[1], m[2])
    BY <1>3, ProtoAssumption DEF TypeOK, Thread, Goto, Idle, Ino, upVars, treeVars,
       lockVars, cowVars, LockInv, Holding, Creating, MayFail, RenameCall
  <1>4. CASE MaybeCopyUp(t)
    <2>1. th[t].pc = "open" /\ UNCHANGED <<upVars, treeVars, parent, lockVars, cowVars>>
      BY <1>4 DEF MaybeCopyUp
    <2>2. CASE Goto(t, "ok")
      BY <2>1, <2>2, ProtoAssumption DEF TypeOK, Thread, Goto, Idle, Ino, upVars,
         treeVars, lockVars, cowVars, LockInv, Holding, Creating, MayFail
    <2>3. CASE Goto(t, "check")
      BY <2>1, <2>3, ProtoAssumption DEF TypeOK, Thread, Goto, Idle, Ino, upVars,
         treeVars, lockVars, cowVars, LockInv, Holding, Creating, MayFail
    <2>q. QED
      BY <1>4, <2>2, <2>3 DEF MaybeCopyUp
  <1>5. CASE Check(t)
    BY <1>5, ProtoAssumption DEF TypeOK, Thread, Goto, Idle, Ino, upVars, treeVars,
       lockVars, cowVars, LockInv, Holding, Creating, MayFail, Check
  <1>6. CASE Walk(t)
    BY <1>6, ProtoAssumption DEF TypeOK, Thread, Goto, Idle, Ino, upVars, treeVars,
       lockVars, cowVars, LockInv, Holding, Creating, MayFail, Walk
  <1>7. CASE Start(t)
    <2>1. /\ th[t].pc = "lock" /\ lock[Ino(t)] = None
          /\ UNCHANGED <<upVars, treeVars, parent, workLock, cowVars>>
      BY <1>7 DEF Start
    <2>2. CASE Goto(t, "check") /\ lock' = lock
      BY <2>1, <2>2, ProtoAssumption DEF TypeOK, Thread, Goto, Idle, Ino, upVars,
         treeVars, lockVars, cowVars, LockInv, Holding, Creating, MayFail
    <2>3. CASE Goto(t, "locked") /\ lock' = [lock EXCEPT ![Ino(t)] = t]
      BY <2>1, <2>3, ProtoAssumption DEF TypeOK, Thread, Goto, Idle, Ino, upVars,
         treeVars, lockVars, cowVars, LockInv, Holding, Creating, MayFail
    <2>q. QED
      BY <1>7, <2>2, <2>3 DEF Start
  <1>8. CASE Dispatch(t)
    <2>1. th[t].pc = "locked" /\ UNCHANGED <<upVars, treeVars, parent, lockVars, cowVars>>
      BY <1>8 DEF Dispatch
    <2>2. CASE Goto(t, "impure") /\ Ino(t) \notin upper
      BY <2>1, <2>2, ProtoAssumption DEF TypeOK, Thread, Goto, Idle, Ino, upVars,
         treeVars, lockVars, cowVars, LockInv, Holding, Creating, MayFail
    <2>3. CASE /\ Goto(t, "mark") /\ Ino(t) \in upper
               /\ th[t].par # None /\ th[t].next \notin alias
      BY <2>1, <2>3, ProtoAssumption DEF TypeOK, Thread, Goto, Idle, Ino, upVars,
         treeVars, lockVars, cowVars, LockInv, Holding, Creating, MayFail
    <2>4. CASE Goto(t, "data") /\ Ino(t) \in upper
      BY <2>1, <2>4, ProtoAssumption DEF TypeOK, Thread, Goto, Idle, Ino, upVars,
         treeVars, lockVars, cowVars, LockInv, Holding, Creating, MayFail
    <2>5. CASE Goto(t, "unlock")
      BY <2>1, <2>5, ProtoAssumption DEF TypeOK, Thread, Goto, Idle, Ino, upVars,
         treeVars, lockVars, cowVars, LockInv, Holding, Creating, MayFail
    <2>q. QED
      BY <1>8, <2>2, <2>3, <2>4, <2>5 DEF Dispatch
  <1>9. CASE Unlock(t)
    BY <1>9, ProtoAssumption DEF TypeOK, Thread, Goto, Idle, Ino, upVars, treeVars,
       lockVars, cowVars, LockInv, Holding, Creating, MayFail, Unlock
  <1>10. CASE SetImpure(t)
    BY <1>10, ProtoAssumption DEF TypeOK, Thread, Goto, Idle, Ino, upVars, treeVars,
       lockVars, cowVars, LockInv, Holding, Creating, MayFail, SetImpure
  <1>11. CASE CreateTemp(t)
    BY <1>11, ProtoAssumption DEF TypeOK, Thread, Goto, Idle, Ino, upVars, treeVars,
       lockVars, cowVars, LockInv, Holding, Creating, MayFail, CreateTemp
  <1>12. CASE SetCow(t)
    BY <1>12, ProtoAssumption DEF TypeOK, Thread, Goto, Idle, Ino, upVars, treeVars,
       lockVars, cowVars, LockInv, Holding, Creating, MayFail, SetCow
  <1>13. CASE AllocTable(t)
    BY <1>13, ProtoAssumption DEF TypeOK, Thread, Goto, Idle, Ino, upVars, treeVars,
       lockVars, cowVars, LockInv, Holding, Creating, MayFail, AllocTable
  <1>14. CASE SetAttrs(t)
    BY <1>14, ProtoAssumption DEF TypeOK, Thread, Goto, Idle, Ino, upVars, treeVars,
       lockVars, cowVars, LockInv, Holding, Creating, MayFail, SetAttrs
  <1>15. CASE CreateIndex(t)
    BY <1>15, ProtoAssumption DEF TypeOK, Thread, Goto, Idle, Ino, upVars, treeVars,
       lockVars, cowVars, LockInv, Holding, Creating, MayFail, CreateIndex
  <1>16. CASE Install(t)
    BY <1>16, ProtoAssumption DEF TypeOK, Thread, Goto, Idle, Ino, upVars, treeVars,
       lockVars, cowVars, LockInv, Holding, Creating, MayFail, Install
  <1>17. CASE SetUpperdata(t)
    BY <1>17, ProtoAssumption DEF TypeOK, Thread, Goto, Idle, Ino, upVars, treeVars,
       lockVars, cowVars, LockInv, Holding, Creating, MayFail, SetUpperdata
  <1>18. CASE InodeUpdate(t)
    BY <1>18, ProtoAssumption DEF TypeOK, Thread, Goto, Idle, Ino, upVars, treeVars,
       lockVars, cowVars, LockInv, Holding, Creating, MayFail, InodeUpdate
  <1>19. CASE Finish(t)
    BY <1>19, ProtoAssumption DEF TypeOK, Thread, Goto, Idle, Ino, upVars, treeVars,
       lockVars, cowVars, LockInv, Holding, Creating, MayFail, Finish
  <1>20. CASE LinkMark(t)
    BY <1>20, ProtoAssumption DEF TypeOK, Thread, Goto, Idle, Ino, upVars, treeVars,
       lockVars, cowVars, LockInv, Holding, Creating, MayFail, LinkMark
  <1>21. CASE LinkUp(t)
    BY <1>21, ProtoAssumption DEF TypeOK, Thread, Goto, Idle, Ino, upVars, treeVars,
       lockVars, cowVars, LockInv, Holding, Creating, MayFail, LinkUp
  <1>22. CASE SetNlink(t)
    BY <1>22, ProtoAssumption DEF TypeOK, Thread, Goto, Idle, Ino, upVars, treeVars,
       lockVars, cowVars, LockInv, Holding, Creating, MayFail, SetNlink
  <1>23. CASE CopyUpMetaInodeData(t)
    BY <1>23, ProtoAssumption DEF TypeOK, Thread, Goto, Idle, Ino, upVars, treeVars,
       lockVars, cowVars, LockInv, Holding, Creating, MayFail, CopyUpMetaInodeData
  <1>24. CASE Fail(t)
    BY <1>24, ProtoAssumption DEF TypeOK, Thread, Goto, Idle, Ino, upVars, treeVars,
       lockVars, cowVars, LockInv, Holding, Creating, MayFail, Fail
  <1>25. CASE Return(t)
    BY <1>25, ProtoAssumption DEF TypeOK, Thread, Goto, Idle, Ino, upVars, treeVars,
       lockVars, cowVars, LockInv, Holding, Creating, MayFail, Return
  <1>26. CASE RenameParent(t)
    BY <1>26, ProtoAssumption DEF TypeOK, Thread, Goto, Idle, Ino, upVars, treeVars,
       lockVars, cowVars, LockInv, Holding, Creating, MayFail, RenameParent
  <1>27. CASE RenameMark(t)
    BY <1>27, ProtoAssumption DEF TypeOK, Thread, Goto, Idle, Ino, upVars, treeVars,
       lockVars, cowVars, LockInv, Holding, Creating, MayFail, RenameMark
  <1>28. CASE RenameUpper(t)
    <2>1. CASE th' = [th EXCEPT ![t] = Idle]
      BY <1>28, <2>1 DEF TypeOK, Thread, Goto, Idle, Ino, upVars, treeVars,
         lockVars, cowVars, LockInv, Holding, Creating, MayFail, RenameUpper
    <2>2. CASE Goto(t, "d_move")
      BY <1>28, <2>2 DEF TypeOK, Thread, Goto, Idle, Ino, upVars, treeVars,
         lockVars, cowVars, LockInv, Holding, Creating, MayFail, RenameUpper
    <2>q. QED
      BY <1>28, <2>1, <2>2 DEF RenameUpper
  <1>29. CASE DMove(t)
    BY <1>29, ProtoAssumption DEF TypeOK, Thread, Goto, Idle, Ino, upVars, treeVars,
       lockVars, cowVars, LockInv, Holding, Creating, MayFail, DMove
  <1>30. CASE RealFdget(t)
    BY <1>30, ProtoAssumption DEF TypeOK, Thread, Goto, Idle, Ino, upVars, treeVars,
       lockVars, cowVars, LockInv, Holding, Creating, MayFail, RealFdget
  <1>31. CASE CowTest(t)
    BY <1>31, ProtoAssumption DEF TypeOK, Thread, Goto, Idle, Ino, upVars, treeVars,
       lockVars, cowVars, LockInv, Holding, Creating, MayFail, CowTest
  <1>32. CASE ReadReturn(t)
    BY <1>32, ProtoAssumption DEF TypeOK, Thread, Goto, Idle, Ino, upVars, treeVars,
       lockVars, cowVars, LockInv, Holding, Creating, MayFail, ReadReturn
  <1>q. QED
    BY <1>1, <1>2, <1>3, <1>4, <1>5, <1>6, <1>7, <1>8, <1>9, <1>10, <1>11,
       <1>12, <1>13, <1>14, <1>15, <1>16, <1>17, <1>18, <1>19, <1>20, <1>21, <1>22,
       <1>23, <1>24, <1>25, <1>26, <1>27, <1>28, <1>29, <1>30, <1>31, <1>32
       DEF Begin, Acquire, Step

\* Every step keeps what the locals of a copy-up say of the tree.
LEMMA PlaceStep ==
  ASSUME TypeOK, PlaceInv, MoveInv,
         NEW t \in Threads, Begin(t) \/ Acquire(t) \/ Step(t) \/ Fail(t)
  PROVE  PlaceInv'
PROOF
  <1>1. CASE \E op \in Ops, d \in Dentries : Open(t, op, d)
    BY <1>1, ProtoAssumption DEF TypeOK, Thread, Goto, Idle, Ino, upVars, treeVars,
       lockVars, cowVars, PlaceInv, MoveInv, Renaming, Placing, Holding, Creating,
       MayFail, Open
  <1>2. CASE \E d \in Dentries : CopyUpCall(t, d)
    BY <1>2, ProtoAssumption DEF TypeOK, Thread, Goto, Idle, Ino, upVars, treeVars,
       lockVars, cowVars, PlaceInv, MoveInv, Renaming, Placing, Holding, Creating,
       MayFail, CopyUpCall
  <1>3. CASE \E m \in Moves : RenameCall(t, m[1], m[2])
    BY <1>3, ProtoAssumption DEF TypeOK, Thread, Goto, Idle, Ino, upVars, treeVars,
       lockVars, cowVars, PlaceInv, MoveInv, Renaming, Placing, Holding, Creating,
       MayFail, RenameCall
  <1>4. CASE MaybeCopyUp(t)
    <2>1. th[t].pc = "open" /\ UNCHANGED <<upVars, treeVars, parent, lockVars, cowVars>>
      BY <1>4 DEF MaybeCopyUp
    <2>2. CASE Goto(t, "ok")
      BY <2>1, <2>2, ProtoAssumption DEF TypeOK, Thread, Goto, Idle, Ino, upVars,
         treeVars, lockVars, cowVars, PlaceInv, MoveInv, Renaming, Placing, Holding,
         Creating, MayFail
    <2>3. CASE Goto(t, "check")
      BY <2>1, <2>3, ProtoAssumption DEF TypeOK, Thread, Goto, Idle, Ino, upVars,
         treeVars, lockVars, cowVars, PlaceInv, MoveInv, Renaming, Placing, Holding,
         Creating, MayFail
    <2>q. QED
      BY <1>4, <2>2, <2>3 DEF MaybeCopyUp
  <1>5. CASE Check(t)
    <2>1. th'[t].pc \in Placing => th'[t].next \in Disconnected /\ th'[t].par = None
      BY <1>5, CheckFrame DEF Placing, Holding, Creating
    <2>2. /\ \A u \in Threads : u # t => th'[u] = th[u]
          /\ UNCHANGED <<upper, alias, parent>>
      BY <1>5, CheckFrame
    <2>q. QED
      BY <2>1, <2>2 DEF PlaceInv
  <1>6. CASE Walk(t)
    BY <1>6, WalkFrame, ProtoAssumption
       DEF PlaceInv, Placing, Holding, Creating, TypeOK, Thread
  <1>7. CASE Start(t)
    <2>1. /\ th[t].pc = "lock" /\ lock[Ino(t)] = None
          /\ UNCHANGED <<upVars, treeVars, parent, workLock, cowVars>>
      BY <1>7 DEF Start
    <2>2. CASE Goto(t, "check") /\ lock' = lock
      BY <2>1, <2>2, ProtoAssumption DEF TypeOK, Thread, Goto, Idle, Ino, upVars,
         treeVars, lockVars, cowVars, PlaceInv, MoveInv, Renaming, Placing, Holding,
         Creating, MayFail
    <2>3. CASE Goto(t, "locked") /\ lock' = [lock EXCEPT ![Ino(t)] = t]
      BY <2>1, <2>3, ProtoAssumption DEF TypeOK, Thread, Goto, Idle, Ino, upVars,
         treeVars, lockVars, cowVars, PlaceInv, MoveInv, Renaming, Placing, Holding,
         Creating, MayFail
    <2>q. QED
      BY <1>7, <2>2, <2>3 DEF Start
  <1>8. CASE Dispatch(t)
    <2>1. th[t].pc = "locked" /\ UNCHANGED <<upVars, treeVars, parent, lockVars, cowVars>>
      BY <1>8 DEF Dispatch
    <2>2. CASE Goto(t, "impure") /\ Ino(t) \notin upper
      BY <2>1, <2>2, ProtoAssumption DEF TypeOK, Thread, Goto, Idle, Ino, upVars,
         treeVars, lockVars, cowVars, PlaceInv, MoveInv, Renaming, Placing, Holding,
         Creating, MayFail
    <2>3. CASE /\ Goto(t, "mark") /\ Ino(t) \in upper
               /\ th[t].par # None /\ th[t].next \notin alias
      BY <2>1, <2>3, ProtoAssumption DEF TypeOK, Thread, Goto, Idle, Ino, upVars,
         treeVars, lockVars, cowVars, PlaceInv, MoveInv, Renaming, Placing, Holding,
         Creating, MayFail
    <2>4. CASE Goto(t, "data") /\ Ino(t) \in upper
      BY <2>1, <2>4, ProtoAssumption DEF TypeOK, Thread, Goto, Idle, Ino, upVars,
         treeVars, lockVars, cowVars, PlaceInv, MoveInv, Renaming, Placing, Holding,
         Creating, MayFail
    <2>5. CASE Goto(t, "unlock")
      BY <2>1, <2>5, ProtoAssumption DEF TypeOK, Thread, Goto, Idle, Ino, upVars,
         treeVars, lockVars, cowVars, PlaceInv, MoveInv, Renaming, Placing, Holding,
         Creating, MayFail
    <2>q. QED
      BY <1>8, <2>2, <2>3, <2>4, <2>5 DEF Dispatch
  <1>9. CASE Unlock(t)
    BY <1>9, ProtoAssumption DEF TypeOK, Thread, Goto, Idle, Ino, upVars, treeVars,
       lockVars, cowVars, PlaceInv, MoveInv, Renaming, Placing, Holding, Creating,
       MayFail, Unlock
  <1>10. CASE SetImpure(t)
    BY <1>10, ProtoAssumption DEF TypeOK, Thread, Goto, Idle, Ino, upVars, treeVars,
       lockVars, cowVars, PlaceInv, MoveInv, Renaming, Placing, Holding, Creating,
       MayFail, SetImpure
  <1>11. CASE CreateTemp(t)
    BY <1>11, ProtoAssumption DEF TypeOK, Thread, Goto, Idle, Ino, upVars, treeVars,
       lockVars, cowVars, PlaceInv, MoveInv, Renaming, Placing, Holding, Creating,
       MayFail, CreateTemp
  <1>12. CASE SetCow(t)
    BY <1>12, ProtoAssumption DEF TypeOK, Thread, Goto, Idle, Ino, upVars, treeVars,
       lockVars, cowVars, PlaceInv, MoveInv, Renaming, Placing, Holding, Creating,
       MayFail, SetCow
  <1>13. CASE AllocTable(t)
    BY <1>13, ProtoAssumption DEF TypeOK, Thread, Goto, Idle, Ino, upVars, treeVars,
       lockVars, cowVars, PlaceInv, MoveInv, Renaming, Placing, Holding, Creating,
       MayFail, AllocTable
  <1>14. CASE SetAttrs(t)
    BY <1>14, ProtoAssumption DEF TypeOK, Thread, Goto, Idle, Ino, upVars, treeVars,
       lockVars, cowVars, PlaceInv, MoveInv, Renaming, Placing, Holding, Creating,
       MayFail, SetAttrs
  <1>15. CASE CreateIndex(t)
    BY <1>15, ProtoAssumption DEF TypeOK, Thread, Goto, Idle, Ino, upVars, treeVars,
       lockVars, cowVars, PlaceInv, MoveInv, Renaming, Placing, Holding, Creating,
       MayFail, CreateIndex
  <1>16. CASE Install(t)
    BY <1>16, ProtoAssumption DEF TypeOK, Thread, Goto, Idle, Ino, upVars, treeVars,
       lockVars, cowVars, PlaceInv, MoveInv, Renaming, Placing, Holding, Creating,
       MayFail, Install
  <1>17. CASE SetUpperdata(t)
    BY <1>17, ProtoAssumption DEF TypeOK, Thread, Goto, Idle, Ino, upVars, treeVars,
       lockVars, cowVars, PlaceInv, MoveInv, Renaming, Placing, Holding, Creating,
       MayFail, SetUpperdata
  <1>18. CASE InodeUpdate(t)
    BY <1>18, ProtoAssumption DEF TypeOK, Thread, Goto, Idle, Ino, upVars, treeVars,
       lockVars, cowVars, PlaceInv, MoveInv, Renaming, Placing, Holding, Creating,
       MayFail, InodeUpdate
  <1>19. CASE Finish(t)
    BY <1>19, ProtoAssumption DEF TypeOK, Thread, Goto, Idle, Ino, upVars, treeVars,
       lockVars, cowVars, PlaceInv, MoveInv, Renaming, Placing, Holding, Creating,
       MayFail, Finish
  <1>20. CASE LinkMark(t)
    BY <1>20, ProtoAssumption DEF TypeOK, Thread, Goto, Idle, Ino, upVars, treeVars,
       lockVars, cowVars, PlaceInv, MoveInv, Renaming, Placing, Holding, Creating,
       MayFail, LinkMark
  <1>21. CASE LinkUp(t)
    BY <1>21, ProtoAssumption DEF TypeOK, Thread, Goto, Idle, Ino, upVars, treeVars,
       lockVars, cowVars, PlaceInv, MoveInv, Renaming, Placing, Holding, Creating,
       MayFail, LinkUp
  <1>22. CASE SetNlink(t)
    BY <1>22, ProtoAssumption DEF TypeOK, Thread, Goto, Idle, Ino, upVars, treeVars,
       lockVars, cowVars, PlaceInv, MoveInv, Renaming, Placing, Holding, Creating,
       MayFail, SetNlink
  <1>23. CASE CopyUpMetaInodeData(t)
    BY <1>23, ProtoAssumption DEF TypeOK, Thread, Goto, Idle, Ino, upVars, treeVars,
       lockVars, cowVars, PlaceInv, MoveInv, Renaming, Placing, Holding, Creating,
       MayFail, CopyUpMetaInodeData
  <1>24. CASE Fail(t)
    BY <1>24, ProtoAssumption DEF TypeOK, Thread, Goto, Idle, Ino, upVars, treeVars,
       lockVars, cowVars, PlaceInv, MoveInv, Renaming, Placing, Holding, Creating,
       MayFail, Fail
  <1>25. CASE Return(t)
    BY <1>25, ProtoAssumption DEF TypeOK, Thread, Goto, Idle, Ino, upVars, treeVars,
       lockVars, cowVars, PlaceInv, MoveInv, Renaming, Placing, Holding, Creating,
       MayFail, Return
  <1>26. CASE RenameParent(t)
    BY <1>26, ProtoAssumption DEF TypeOK, Thread, Goto, Idle, Ino, upVars, treeVars,
       lockVars, cowVars, PlaceInv, MoveInv, Renaming, Placing, Holding, Creating,
       MayFail, RenameParent
  <1>27. CASE RenameMark(t)
    BY <1>27, ProtoAssumption DEF TypeOK, Thread, Goto, Idle, Ino, upVars, treeVars,
       lockVars, cowVars, PlaceInv, MoveInv, Renaming, Placing, Holding, Creating,
       MayFail, RenameMark
  <1>28. CASE RenameUpper(t)
    <2>1. /\ th'[t].pc \in {"idle", "d_move"}
          /\ \A u \in Threads : u # t => th'[u] = th[u]
      BY <1>28 DEF RenameUpper, Goto, Idle, TypeOK, Thread
    <2>2. UNCHANGED <<upper, alias, parent>>
      BY <1>28 DEF RenameUpper, upVars
    <2>q. QED
      BY <2>1, <2>2 DEF PlaceInv, Placing, Holding, Creating
  <1>29. CASE DMove(t)
    BY <1>29, ProtoAssumption DEF TypeOK, Thread, Goto, Idle, Ino, upVars, treeVars,
       lockVars, cowVars, PlaceInv, MoveInv, Renaming, Placing, Holding, Creating,
       MayFail, DMove
  <1>30. CASE RealFdget(t)
    BY <1>30, ProtoAssumption DEF TypeOK, Thread, Goto, Idle, Ino, upVars, treeVars,
       lockVars, cowVars, PlaceInv, MoveInv, Renaming, Placing, Holding, Creating,
       MayFail, RealFdget
  <1>31. CASE CowTest(t)
    BY <1>31, ProtoAssumption DEF TypeOK, Thread, Goto, Idle, Ino, upVars, treeVars,
       lockVars, cowVars, PlaceInv, MoveInv, Renaming, Placing, Holding, Creating,
       MayFail, CowTest
  <1>32. CASE ReadReturn(t)
    BY <1>32, ProtoAssumption DEF TypeOK, Thread, Goto, Idle, Ino, upVars, treeVars,
       lockVars, cowVars, PlaceInv, MoveInv, Renaming, Placing, Holding, Creating,
       MayFail, ReadReturn
  <1>q. QED
    BY <1>1, <1>2, <1>3, <1>4, <1>5, <1>6, <1>7, <1>8, <1>9, <1>10, <1>11,
       <1>12, <1>13, <1>14, <1>15, <1>16, <1>17, <1>18, <1>19, <1>20, <1>21, <1>22,
       <1>23, <1>24, <1>25, <1>26, <1>27, <1>28, <1>29, <1>30, <1>31, <1>32
       DEF Begin, Acquire, Step

\* Every step keeps what the holder of the lock relies on.
LEMMA StageStep ==
  ASSUME TypeOK, LockInv, PlaceInv, StageInv, MoveInv, UpperMirrorsTree,
         NEW t \in Threads, Begin(t) \/ Acquire(t) \/ Step(t) \/ Fail(t)
  PROVE  StageInv'
PROOF
  <1>1. CASE \E op \in Ops, d \in Dentries : Open(t, op, d)
    BY <1>1, ProtoAssumption DEF TypeOK, Thread, Goto, Idle, Ino, upVars, treeVars,
       lockVars, cowVars, LockInv, StageInv, Holding, Creating, MayFail, Open
  <1>2. CASE \E d \in Dentries : CopyUpCall(t, d)
    BY <1>2, ProtoAssumption DEF TypeOK, Thread, Goto, Idle, Ino, upVars, treeVars,
       lockVars, cowVars, LockInv, StageInv, Holding, Creating, MayFail, CopyUpCall
  <1>3. CASE \E m \in Moves : RenameCall(t, m[1], m[2])
    BY <1>3, ProtoAssumption DEF TypeOK, Thread, Goto, Idle, Ino, upVars, treeVars,
       lockVars, cowVars, LockInv, StageInv, Holding, Creating, MayFail, RenameCall
  <1>4. CASE MaybeCopyUp(t)
    <2>1. th[t].pc = "open" /\ UNCHANGED <<upVars, treeVars, parent, lockVars, cowVars>>
      BY <1>4 DEF MaybeCopyUp
    <2>2. CASE Goto(t, "ok")
      BY <2>1, <2>2, ProtoAssumption DEF TypeOK, Thread, Goto, Idle, Ino, upVars,
         treeVars, lockVars, cowVars, LockInv, StageInv, Holding, Creating, MayFail
    <2>3. CASE Goto(t, "check")
      BY <2>1, <2>3, ProtoAssumption DEF TypeOK, Thread, Goto, Idle, Ino, upVars,
         treeVars, lockVars, cowVars, LockInv, StageInv, Holding, Creating, MayFail
    <2>q. QED
      BY <1>4, <2>2, <2>3 DEF MaybeCopyUp
  <1>5. CASE Check(t)
    BY <1>5, CheckFrame DEF StageInv, Creating, Ino
  <1>6. CASE Walk(t)
    BY <1>6, WalkFrame DEF StageInv, Creating, Ino
  <1>7. CASE Start(t)
    <2>1. /\ th[t].pc = "lock" /\ lock[Ino(t)] = None
          /\ UNCHANGED <<upVars, treeVars, parent, workLock, cowVars>>
      BY <1>7 DEF Start
    <2>2. CASE Goto(t, "check") /\ lock' = lock
      BY <2>1, <2>2, ProtoAssumption DEF TypeOK, Thread, Goto, Idle, Ino, upVars,
         treeVars, lockVars, cowVars, LockInv, StageInv, Holding, Creating, MayFail
    <2>3. CASE Goto(t, "locked") /\ lock' = [lock EXCEPT ![Ino(t)] = t]
      BY <2>1, <2>3, ProtoAssumption DEF TypeOK, Thread, Goto, Idle, Ino, upVars,
         treeVars, lockVars, cowVars, LockInv, StageInv, Holding, Creating, MayFail
    <2>q. QED
      BY <1>7, <2>2, <2>3 DEF Start
  <1>8. CASE Dispatch(t)
    <2>1. th[t].pc = "locked" /\ UNCHANGED <<upVars, treeVars, parent, lockVars, cowVars>>
      BY <1>8 DEF Dispatch
    <2>2. CASE Goto(t, "impure") /\ Ino(t) \notin upper
      BY <2>1, <2>2, ProtoAssumption DEF TypeOK, Thread, Goto, Idle, Ino, upVars,
         treeVars, lockVars, cowVars, LockInv, StageInv, Holding, Creating, MayFail
    <2>3. CASE /\ Goto(t, "mark") /\ Ino(t) \in upper
               /\ th[t].par # None /\ th[t].next \notin alias
      BY <2>1, <2>3, ProtoAssumption DEF TypeOK, Thread, Goto, Idle, Ino, upVars,
         treeVars, lockVars, cowVars, LockInv, StageInv, Holding, Creating, MayFail
    <2>4. CASE Goto(t, "data") /\ Ino(t) \in upper
      BY <2>1, <2>4, ProtoAssumption DEF TypeOK, Thread, Goto, Idle, Ino, upVars,
         treeVars, lockVars, cowVars, LockInv, StageInv, Holding, Creating, MayFail
    <2>5. CASE Goto(t, "unlock")
      BY <2>1, <2>5, ProtoAssumption DEF TypeOK, Thread, Goto, Idle, Ino, upVars,
         treeVars, lockVars, cowVars, LockInv, StageInv, Holding, Creating, MayFail
    <2>q. QED
      BY <1>8, <2>2, <2>3, <2>4, <2>5 DEF Dispatch
  <1>9. CASE Unlock(t)
    BY <1>9, ProtoAssumption DEF TypeOK, Thread, Goto, Idle, Ino, upVars, treeVars,
       lockVars, cowVars, LockInv, StageInv, Holding, Creating, MayFail, Unlock
  <1>10. CASE SetImpure(t)
    BY <1>10, ProtoAssumption DEF TypeOK, Thread, Goto, Idle, Ino, upVars, treeVars,
       lockVars, cowVars, LockInv, StageInv, Holding, Creating, MayFail, SetImpure
  <1>11. CASE CreateTemp(t)
    BY <1>11, ProtoAssumption DEF TypeOK, Thread, Goto, Idle, Ino, upVars, treeVars,
       lockVars, cowVars, LockInv, StageInv, Holding, Creating, MayFail, CreateTemp
  <1>12. CASE SetCow(t)
    BY <1>12, ProtoAssumption DEF TypeOK, Thread, Goto, Idle, Ino, upVars, treeVars,
       lockVars, cowVars, LockInv, StageInv, Holding, Creating, MayFail, SetCow
  <1>13. CASE AllocTable(t)
    BY <1>13, ProtoAssumption DEF TypeOK, Thread, Goto, Idle, Ino, upVars, treeVars,
       lockVars, cowVars, LockInv, StageInv, Holding, Creating, MayFail, AllocTable
  <1>14. CASE SetAttrs(t)
    BY <1>14, ProtoAssumption DEF TypeOK, Thread, Goto, Idle, Ino, upVars, treeVars,
       lockVars, cowVars, LockInv, StageInv, Holding, Creating, MayFail, SetAttrs
  <1>15. CASE CreateIndex(t)
    BY <1>15, ProtoAssumption DEF TypeOK, Thread, Goto, Idle, Ino, upVars, treeVars,
       lockVars, cowVars, LockInv, StageInv, Holding, Creating, MayFail, CreateIndex
  <1>16. CASE Install(t)
    BY <1>16, ProtoAssumption DEF TypeOK, Thread, Goto, Idle, Ino, upVars, treeVars,
       lockVars, cowVars, LockInv, StageInv, Holding, Creating, MayFail, Install
  <1>17. CASE SetUpperdata(t)
    BY <1>17, ProtoAssumption DEF TypeOK, Thread, Goto, Idle, Ino, upVars, treeVars,
       lockVars, cowVars, LockInv, StageInv, Holding, Creating, MayFail,
       SetUpperdata
  <1>18. CASE InodeUpdate(t)
    BY <1>18, ProtoAssumption, AliasUpper, InoType DEF TypeOK, Thread, Goto, Idle,
       Ino, upVars, treeVars, lockVars, cowVars, LockInv, StageInv, Holding,
       Creating, MayFail, InodeUpdate
  <1>19. CASE Finish(t)
    BY <1>19, ProtoAssumption DEF TypeOK, Thread, Goto, Idle, Ino, upVars, treeVars,
       lockVars, cowVars, LockInv, StageInv, Holding, Creating, MayFail, Finish
  <1>20. CASE LinkMark(t)
    BY <1>20, ProtoAssumption DEF TypeOK, Thread, Goto, Idle, Ino, upVars, treeVars,
       lockVars, cowVars, LockInv, StageInv, Holding, Creating, MayFail, LinkMark
  <1>21. CASE LinkUp(t)
    BY <1>21, ProtoAssumption DEF TypeOK, Thread, Goto, Idle, Ino, upVars, treeVars,
       lockVars, cowVars, LockInv, StageInv, Holding, Creating, MayFail, LinkUp
  <1>22. CASE SetNlink(t)
    BY <1>22, ProtoAssumption DEF TypeOK, Thread, Goto, Idle, Ino, upVars, treeVars,
       lockVars, cowVars, LockInv, StageInv, Holding, Creating, MayFail, SetNlink
  <1>23. CASE CopyUpMetaInodeData(t)
    BY <1>23, ProtoAssumption DEF TypeOK, Thread, Goto, Idle, Ino, upVars, treeVars,
       lockVars, cowVars, LockInv, StageInv, Holding, Creating, MayFail,
       CopyUpMetaInodeData
  <1>24. CASE Fail(t)
    BY <1>24, ProtoAssumption DEF TypeOK, Thread, Goto, Idle, Ino, upVars, treeVars,
       lockVars, cowVars, LockInv, StageInv, Holding, Creating, MayFail, Fail
  <1>25. CASE Return(t)
    BY <1>25, ProtoAssumption DEF TypeOK, Thread, Goto, Idle, Ino, upVars, treeVars,
       lockVars, cowVars, LockInv, StageInv, Holding, Creating, MayFail, Return
  <1>26. CASE RenameParent(t)
    BY <1>26, ProtoAssumption DEF TypeOK, Thread, Goto, Idle, Ino, upVars, treeVars,
       lockVars, cowVars, LockInv, StageInv, Holding, Creating, MayFail,
       RenameParent
  <1>27. CASE RenameMark(t)
    BY <1>27, ProtoAssumption DEF TypeOK, Thread, Goto, Idle, Ino, upVars, treeVars,
       lockVars, cowVars, LockInv, StageInv, Holding, Creating, MayFail, RenameMark
  <1>28. CASE RenameUpper(t)
    <2>1. th[t].d \in alias
      BY <1>28 DEF MoveInv, Renaming, RenameUpper
    <2>2. CASE th' = [th EXCEPT ![t] = Idle] /\ entry' = entry
      BY <1>28, <2>2 DEF TypeOK, Thread, Goto, Idle, Ino, upVars, treeVars,
         lockVars, cowVars, LockInv, StageInv, Holding, Creating, MayFail,
         RenameUpper
    <2>3. CASE Goto(t, "d_move") /\ entry' = [entry EXCEPT ![th[t].d] = th[t].to]
      BY <1>28, <2>1, <2>3, AliasUpper DEF TypeOK, Thread, Goto, Idle, Ino, upVars,
         treeVars, lockVars, cowVars, LockInv, StageInv, Holding, Creating, MayFail,
         RenameUpper
    <2>q. QED
      BY <1>28, <2>2, <2>3 DEF RenameUpper
  <1>29. CASE DMove(t)
    BY <1>29, ProtoAssumption DEF TypeOK, Thread, Goto, Idle, Ino, upVars, treeVars,
       lockVars, cowVars, LockInv, StageInv, Holding, Creating, MayFail, DMove
  <1>30. CASE RealFdget(t)
    <2>1. /\ th'[t].pc = "cowtest" /\ th'[t].next = th[t].next
          /\ \A u \in Threads : u # t => th'[u] = th[u]
      BY <1>30 DEF RealFdget, TypeOK, Thread
    <2>2. UNCHANGED <<upper, alias, entry>>
      BY <1>30 DEF RealFdget, upVars, treeVars
    <2>q. QED
      BY <1>30, <2>1, <2>2 DEF StageInv, Creating, Ino
  <1>31. CASE CowTest(t)
    BY <1>31, ProtoAssumption DEF TypeOK, Thread, Goto, Idle, Ino, upVars, treeVars,
       lockVars, cowVars, LockInv, StageInv, Holding, Creating, MayFail, CowTest
  <1>32. CASE ReadReturn(t)
    BY <1>32, ProtoAssumption DEF TypeOK, Thread, Goto, Idle, Ino, upVars, treeVars,
       lockVars, cowVars, LockInv, StageInv, Holding, Creating, MayFail, ReadReturn
  <1>q. QED
    BY <1>1, <1>2, <1>3, <1>4, <1>5, <1>6, <1>7, <1>8, <1>9, <1>10, <1>11,
       <1>12, <1>13, <1>14, <1>15, <1>16, <1>17, <1>18, <1>19, <1>20, <1>21, <1>22,
       <1>23, <1>24, <1>25, <1>26, <1>27, <1>28, <1>29, <1>30, <1>31, <1>32
       DEF Begin, Acquire, Step

\* Every step keeps what a rename relies on.
LEMMA MoveStep ==
  ASSUME TypeOK, StageInv, MoveInv, UpperMirrorsTree,
         NEW t \in Threads, Begin(t) \/ Acquire(t) \/ Step(t) \/ Fail(t)
  PROVE  MoveInv'
PROOF
  <1>1. CASE \E op \in Ops, d \in Dentries : Open(t, op, d)
    BY <1>1, ProtoAssumption DEF TypeOK, Thread, Goto, Idle, Ino, upVars, treeVars,
       lockVars, cowVars, MoveInv, Renaming, MayFail, Open
  <1>2. CASE \E d \in Dentries : CopyUpCall(t, d)
    BY <1>2, ProtoAssumption DEF TypeOK, Thread, Goto, Idle, Ino, upVars, treeVars,
       lockVars, cowVars, MoveInv, Renaming, MayFail, CopyUpCall
  <1>3. CASE \E m \in Moves : RenameCall(t, m[1], m[2])
    BY <1>3, ProtoAssumption DEF TypeOK, Thread, Goto, Idle, Ino, upVars, treeVars,
       lockVars, cowVars, MoveInv, Renaming, MayFail, RenameCall
  <1>4. CASE MaybeCopyUp(t)
    <2>1. th[t].pc = "open" /\ UNCHANGED <<upVars, treeVars, parent, lockVars, cowVars>>
      BY <1>4 DEF MaybeCopyUp
    <2>2. CASE Goto(t, "ok")
      BY <2>1, <2>2, ProtoAssumption DEF TypeOK, Thread, Goto, Idle, Ino, upVars,
         treeVars, lockVars, cowVars, MoveInv, Renaming, MayFail
    <2>3. CASE Goto(t, "check")
      BY <2>1, <2>3, ProtoAssumption DEF TypeOK, Thread, Goto, Idle, Ino, upVars,
         treeVars, lockVars, cowVars, MoveInv, Renaming, MayFail
    <2>q. QED
      BY <1>4, <2>2, <2>3 DEF MaybeCopyUp
  <1>5. CASE Check(t)
    <2>1. th'[t].pc = "ok" /\ Renaming(t)
            => th[t].tgt \in alias /\ InodeOf[th[t].tgt] \in upper
      BY <1>5, CheckFrame, ProtoAssumption DEF AlreadyCopiedUp, MoveInv, Dirs
    <2>q. QED
      BY <1>5, <2>1, CheckFrame DEF MoveInv, Renaming, Dirs
  <1>6. CASE Walk(t)
    BY <1>6, WalkFrame DEF MoveInv, Renaming, Dirs
  <1>7. CASE Start(t)
    <2>1. /\ th[t].pc = "lock" /\ lock[Ino(t)] = None
          /\ UNCHANGED <<upVars, treeVars, parent, workLock, cowVars>>
      BY <1>7 DEF Start
    <2>2. CASE Goto(t, "check") /\ lock' = lock
      BY <2>1, <2>2, ProtoAssumption DEF TypeOK, Thread, Goto, Idle, Ino, upVars,
         treeVars, lockVars, cowVars, MoveInv, Renaming, MayFail
    <2>3. CASE Goto(t, "locked") /\ lock' = [lock EXCEPT ![Ino(t)] = t]
      BY <2>1, <2>3, ProtoAssumption DEF TypeOK, Thread, Goto, Idle, Ino, upVars,
         treeVars, lockVars, cowVars, MoveInv, Renaming, MayFail
    <2>q. QED
      BY <1>7, <2>2, <2>3 DEF Start
  <1>8. CASE Dispatch(t)
    <2>1. th[t].pc = "locked" /\ UNCHANGED <<upVars, treeVars, parent, lockVars, cowVars>>
      BY <1>8 DEF Dispatch
    <2>2. CASE Goto(t, "impure") /\ Ino(t) \notin upper
      BY <2>1, <2>2, ProtoAssumption DEF TypeOK, Thread, Goto, Idle, Ino, upVars,
         treeVars, lockVars, cowVars, MoveInv, Renaming, MayFail
    <2>3. CASE /\ Goto(t, "mark") /\ Ino(t) \in upper
               /\ th[t].par # None /\ th[t].next \notin alias
      BY <2>1, <2>3, ProtoAssumption DEF TypeOK, Thread, Goto, Idle, Ino, upVars,
         treeVars, lockVars, cowVars, MoveInv, Renaming, MayFail
    <2>4. CASE Goto(t, "data") /\ Ino(t) \in upper
      BY <2>1, <2>4, ProtoAssumption DEF TypeOK, Thread, Goto, Idle, Ino, upVars,
         treeVars, lockVars, cowVars, MoveInv, Renaming, MayFail
    <2>5. CASE Goto(t, "unlock")
      BY <2>1, <2>5, ProtoAssumption DEF TypeOK, Thread, Goto, Idle, Ino, upVars,
         treeVars, lockVars, cowVars, MoveInv, Renaming, MayFail
    <2>q. QED
      BY <1>8, <2>2, <2>3, <2>4, <2>5 DEF Dispatch
  <1>9. CASE Unlock(t)
    BY <1>9, ProtoAssumption DEF TypeOK, Thread, Goto, Idle, Ino, upVars, treeVars,
       lockVars, cowVars, MoveInv, Renaming, MayFail, Unlock
  <1>10. CASE SetImpure(t)
    BY <1>10, ProtoAssumption DEF TypeOK, Thread, Goto, Idle, Ino, upVars, treeVars,
       lockVars, cowVars, MoveInv, Renaming, MayFail, SetImpure
  <1>11. CASE CreateTemp(t)
    BY <1>11, ProtoAssumption DEF TypeOK, Thread, Goto, Idle, Ino, upVars, treeVars,
       lockVars, cowVars, MoveInv, Renaming, MayFail, CreateTemp
  <1>12. CASE SetCow(t)
    BY <1>12, ProtoAssumption DEF TypeOK, Thread, Goto, Idle, Ino, upVars, treeVars,
       lockVars, cowVars, MoveInv, Renaming, MayFail, SetCow
  <1>13. CASE AllocTable(t)
    BY <1>13, ProtoAssumption DEF TypeOK, Thread, Goto, Idle, Ino, upVars, treeVars,
       lockVars, cowVars, MoveInv, Renaming, MayFail, AllocTable
  <1>14. CASE SetAttrs(t)
    BY <1>14, ProtoAssumption DEF TypeOK, Thread, Goto, Idle, Ino, upVars, treeVars,
       lockVars, cowVars, MoveInv, Renaming, MayFail, SetAttrs
  <1>15. CASE CreateIndex(t)
    BY <1>15, ProtoAssumption DEF TypeOK, Thread, Goto, Idle, Ino, upVars, treeVars,
       lockVars, cowVars, MoveInv, Renaming, MayFail, CreateIndex
  <1>16. CASE Install(t)
    <2>1. th[t].next \notin alias
      BY <1>16, AliasUpper DEF StageInv, Creating, Install, Ino
    <2>2. \A u \in Threads : th[u].pc = "d_move" => entry'[th[u].d] = entry[th[u].d]
      BY <1>16, <2>1 DEF MoveInv, Renaming, Install, TypeOK
    <2>q. QED
      BY <1>16, <2>2 DEF TypeOK, Thread, Goto, Idle, Ino, upVars, treeVars,
         lockVars, cowVars, MoveInv, Renaming, MayFail, Install
  <1>17. CASE SetUpperdata(t)
    BY <1>17, ProtoAssumption DEF TypeOK, Thread, Goto, Idle, Ino, upVars, treeVars,
       lockVars, cowVars, MoveInv, Renaming, MayFail, SetUpperdata
  <1>18. CASE InodeUpdate(t)
    BY <1>18, ProtoAssumption DEF TypeOK, Thread, Goto, Idle, Ino, upVars, treeVars,
       lockVars, cowVars, MoveInv, Renaming, MayFail, InodeUpdate
  <1>19. CASE Finish(t)
    BY <1>19, ProtoAssumption DEF TypeOK, Thread, Goto, Idle, Ino, upVars, treeVars,
       lockVars, cowVars, MoveInv, Renaming, MayFail, Finish
  <1>20. CASE LinkMark(t)
    BY <1>20, ProtoAssumption DEF TypeOK, Thread, Goto, Idle, Ino, upVars, treeVars,
       lockVars, cowVars, MoveInv, Renaming, MayFail, LinkMark
  <1>21. CASE LinkUp(t)
    <2>1. th[t].next \notin alias
      BY <1>21 DEF StageInv, LinkUp
    <2>2. \A u \in Threads : th[u].pc = "d_move" => entry'[th[u].d] = entry[th[u].d]
      BY <1>21, <2>1 DEF MoveInv, Renaming, LinkUp, TypeOK
    <2>q. QED
      BY <1>21, <2>2 DEF TypeOK, Thread, Goto, Idle, Ino, upVars, treeVars,
         lockVars, cowVars, MoveInv, Renaming, MayFail, LinkUp
  <1>22. CASE SetNlink(t)
    BY <1>22, ProtoAssumption DEF TypeOK, Thread, Goto, Idle, Ino, upVars, treeVars,
       lockVars, cowVars, MoveInv, Renaming, MayFail, SetNlink
  <1>23. CASE CopyUpMetaInodeData(t)
    BY <1>23, ProtoAssumption DEF TypeOK, Thread, Goto, Idle, Ino, upVars, treeVars,
       lockVars, cowVars, MoveInv, Renaming, MayFail, CopyUpMetaInodeData
  <1>24. CASE Fail(t)
    BY <1>24, ProtoAssumption DEF TypeOK, Thread, Goto, Idle, Ino, upVars, treeVars,
       lockVars, cowVars, MoveInv, Renaming, MayFail, Fail
  <1>25. CASE Return(t)
    BY <1>25, ProtoAssumption DEF TypeOK, Thread, Goto, Idle, Ino, upVars, treeVars,
       lockVars, cowVars, MoveInv, Renaming, MayFail, Return
  <1>26. CASE RenameParent(t)
    BY <1>26, ProtoAssumption DEF TypeOK, Thread, Goto, Idle, Ino, upVars, treeVars,
       lockVars, cowVars, MoveInv, Renaming, MayFail, RenameParent
  <1>27. CASE RenameMark(t)
    BY <1>27, ProtoAssumption DEF TypeOK, Thread, Goto, Idle, Ino, upVars, treeVars,
       lockVars, cowVars, MoveInv, Renaming, MayFail, RenameMark
  <1>28. CASE RenameUpper(t)
    <2>2. CASE th' = [th EXCEPT ![t] = Idle] /\ entry' = entry
      BY <1>28, <2>2 DEF TypeOK, Thread, Goto, Idle, Ino, upVars, treeVars,
         lockVars, cowVars, MoveInv, Renaming, MayFail, RenameUpper
    <2>3. CASE Goto(t, "d_move") /\ entry' = [entry EXCEPT ![th[t].d] = th[t].to]
      BY <1>28, <2>3 DEF TypeOK, Thread, Goto, Idle, Ino, upVars, treeVars,
         lockVars, cowVars, MoveInv, Renaming, MayFail, RenameUpper
    <2>q. QED
      BY <1>28, <2>2, <2>3 DEF RenameUpper
  <1>29. CASE DMove(t)
    BY <1>29, ProtoAssumption DEF TypeOK, Thread, Goto, Idle, Ino, upVars, treeVars,
       lockVars, cowVars, MoveInv, Renaming, MayFail, DMove
  <1>30. CASE RealFdget(t)
    BY <1>30, ProtoAssumption DEF TypeOK, Thread, Goto, Idle, Ino, upVars, treeVars,
       lockVars, cowVars, MoveInv, Renaming, MayFail, RealFdget
  <1>31. CASE CowTest(t)
    BY <1>31, ProtoAssumption DEF TypeOK, Thread, Goto, Idle, Ino, upVars, treeVars,
       lockVars, cowVars, MoveInv, Renaming, MayFail, CowTest
  <1>32. CASE ReadReturn(t)
    BY <1>32, ProtoAssumption DEF TypeOK, Thread, Goto, Idle, Ino, upVars, treeVars,
       lockVars, cowVars, MoveInv, Renaming, MayFail, ReadReturn
  <1>q. QED
    BY <1>1, <1>2, <1>3, <1>4, <1>5, <1>6, <1>7, <1>8, <1>9, <1>10, <1>11,
       <1>12, <1>13, <1>14, <1>15, <1>16, <1>17, <1>18, <1>19, <1>20, <1>21, <1>22,
       <1>23, <1>24, <1>25, <1>26, <1>27, <1>28, <1>29, <1>30, <1>31, <1>32
       DEF Begin, Acquire, Step

\* Every step keeps the upper layer in line with the tree.
LEMMA MirrorStep ==
  ASSUME TypeOK, LockInv, PlaceInv, StageInv, MoveInv, UpperMirrorsTree,
         NEW t \in Threads, Begin(t) \/ Acquire(t) \/ Step(t) \/ Fail(t)
  PROVE  UpperMirrorsTree'
PROOF
  <1>1. CASE \E op \in Ops, d \in Dentries : Open(t, op, d)
    BY <1>1, ProtoAssumption DEF TypeOK, Thread, Goto, Idle, Ino, upVars, treeVars,
       lockVars, cowVars, UpperMirrorsTree, MayFail, Open
  <1>2. CASE \E d \in Dentries : CopyUpCall(t, d)
    BY <1>2, ProtoAssumption DEF TypeOK, Thread, Goto, Idle, Ino, upVars, treeVars,
       lockVars, cowVars, UpperMirrorsTree, MayFail, CopyUpCall
  <1>3. CASE \E m \in Moves : RenameCall(t, m[1], m[2])
    <2>1. \A u \in Threads : th[u].pc = "d_move" => th'[u] = th[u]
      BY <1>3 DEF RenameCall, TypeOK
    <2>2. UNCHANGED <<upper, alias, entry, parent>>
      BY <1>3 DEF RenameCall, upVars, treeVars
    <2>q. QED
      BY <2>1, <2>2 DEF UpperMirrorsTree
  <1>4. CASE MaybeCopyUp(t)
    <2>1. th[t].pc = "open" /\ UNCHANGED <<upVars, treeVars, parent, lockVars, cowVars>>
      BY <1>4 DEF MaybeCopyUp
    <2>2. CASE Goto(t, "ok")
      BY <2>1, <2>2, ProtoAssumption DEF TypeOK, Thread, Goto, Idle, Ino, upVars,
         treeVars, lockVars, cowVars, UpperMirrorsTree, MayFail
    <2>3. CASE Goto(t, "check")
      BY <2>1, <2>3, ProtoAssumption DEF TypeOK, Thread, Goto, Idle, Ino, upVars,
         treeVars, lockVars, cowVars, UpperMirrorsTree, MayFail
    <2>q. QED
      BY <1>4, <2>2, <2>3 DEF MaybeCopyUp
  <1>5. CASE Check(t)
    BY <1>5, ProtoAssumption DEF TypeOK, Thread, Goto, Idle, Ino, upVars, treeVars,
       lockVars, cowVars, UpperMirrorsTree, MayFail, Check
  <1>6. CASE Walk(t)
    BY <1>6, ProtoAssumption DEF TypeOK, Thread, Goto, Idle, Ino, upVars, treeVars,
       lockVars, cowVars, UpperMirrorsTree, MayFail, Walk
  <1>7. CASE Start(t)
    <2>1. /\ th[t].pc = "lock" /\ lock[Ino(t)] = None
          /\ UNCHANGED <<upVars, treeVars, parent, workLock, cowVars>>
      BY <1>7 DEF Start
    <2>2. CASE Goto(t, "check") /\ lock' = lock
      BY <2>1, <2>2, ProtoAssumption DEF TypeOK, Thread, Goto, Idle, Ino, upVars,
         treeVars, lockVars, cowVars, UpperMirrorsTree, MayFail
    <2>3. CASE Goto(t, "locked") /\ lock' = [lock EXCEPT ![Ino(t)] = t]
      BY <2>1, <2>3, ProtoAssumption DEF TypeOK, Thread, Goto, Idle, Ino, upVars,
         treeVars, lockVars, cowVars, UpperMirrorsTree, MayFail
    <2>q. QED
      BY <1>7, <2>2, <2>3 DEF Start
  <1>8. CASE Dispatch(t)
    <2>1. th[t].pc = "locked" /\ UNCHANGED <<upVars, treeVars, parent, lockVars, cowVars>>
      BY <1>8 DEF Dispatch
    <2>2. CASE Goto(t, "impure") /\ Ino(t) \notin upper
      BY <2>1, <2>2, ProtoAssumption DEF TypeOK, Thread, Goto, Idle, Ino, upVars,
         treeVars, lockVars, cowVars, UpperMirrorsTree, MayFail
    <2>3. CASE /\ Goto(t, "mark") /\ Ino(t) \in upper
               /\ th[t].par # None /\ th[t].next \notin alias
      BY <2>1, <2>3, ProtoAssumption DEF TypeOK, Thread, Goto, Idle, Ino, upVars,
         treeVars, lockVars, cowVars, UpperMirrorsTree, MayFail
    <2>4. CASE Goto(t, "data") /\ Ino(t) \in upper
      BY <2>1, <2>4, ProtoAssumption DEF TypeOK, Thread, Goto, Idle, Ino, upVars,
         treeVars, lockVars, cowVars, UpperMirrorsTree, MayFail
    <2>5. CASE Goto(t, "unlock")
      BY <2>1, <2>5, ProtoAssumption DEF TypeOK, Thread, Goto, Idle, Ino, upVars,
         treeVars, lockVars, cowVars, UpperMirrorsTree, MayFail
    <2>q. QED
      BY <1>8, <2>2, <2>3, <2>4, <2>5 DEF Dispatch
  <1>9. CASE Unlock(t)
    BY <1>9, ProtoAssumption DEF TypeOK, Thread, Goto, Idle, Ino, upVars, treeVars,
       lockVars, cowVars, UpperMirrorsTree, MayFail, Unlock
  <1>10. CASE SetImpure(t)
    BY <1>10, ProtoAssumption DEF TypeOK, Thread, Goto, Idle, Ino, upVars, treeVars,
       lockVars, cowVars, UpperMirrorsTree, MayFail, SetImpure
  <1>11. CASE CreateTemp(t)
    BY <1>11, ProtoAssumption DEF TypeOK, Thread, Goto, Idle, Ino, upVars, treeVars,
       lockVars, cowVars, UpperMirrorsTree, MayFail, CreateTemp
  <1>12. CASE SetCow(t)
    BY <1>12, ProtoAssumption DEF TypeOK, Thread, Goto, Idle, Ino, upVars, treeVars,
       lockVars, cowVars, UpperMirrorsTree, MayFail, SetCow
  <1>13. CASE AllocTable(t)
    BY <1>13, ProtoAssumption DEF TypeOK, Thread, Goto, Idle, Ino, upVars, treeVars,
       lockVars, cowVars, UpperMirrorsTree, MayFail, AllocTable
  <1>14. CASE SetAttrs(t)
    BY <1>14, ProtoAssumption DEF TypeOK, Thread, Goto, Idle, Ino, upVars, treeVars,
       lockVars, cowVars, UpperMirrorsTree, MayFail, SetAttrs
  <1>15. CASE CreateIndex(t)
    BY <1>15, ProtoAssumption DEF TypeOK, Thread, Goto, Idle, Ino, upVars, treeVars,
       lockVars, cowVars, UpperMirrorsTree, MayFail, CreateIndex
  <1>16. CASE Install(t)
    <2>1. th[t].next \notin alias
      BY <1>16, AliasUpper DEF StageInv, Creating, Install, Ino
    <2>2. \A d \in alias : entry'[d] = entry[d]
      BY <1>16, <2>1 DEF Install, TypeOK
    <2>q. QED
      BY <1>16, <2>2 DEF TypeOK, Thread, Goto, Idle, Ino, upVars, treeVars,
         lockVars, cowVars, UpperMirrorsTree, MayFail, Install
  <1>17. CASE SetUpperdata(t)
    BY <1>17, ProtoAssumption DEF TypeOK, Thread, Goto, Idle, Ino, upVars, treeVars,
       lockVars, cowVars, UpperMirrorsTree, MayFail, SetUpperdata
  <1>18. CASE InodeUpdate(t)
    BY <1>18, ProtoAssumption DEF TypeOK, Thread, Goto, Idle, Ino, upVars, treeVars,
       lockVars, cowVars, UpperMirrorsTree, MayFail, InodeUpdate
  <1>19. CASE Finish(t)
    <2>1. CASE ToIndex(th[t].next)
      BY <1>19, <2>1 DEF TypeOK, Thread, Goto, Idle, Ino, upVars, treeVars,
         lockVars, cowVars, UpperMirrorsTree, MayFail, Finish
    <2>2. CASE ~ToIndex(th[t].next)
      <3>1. th[t].next \in Dentries /\ th[t].par # None
        BY <1>19, <2>2, DisconnectedToIndex DEF PlaceInv, Placing, Holding, Finish,
           TypeOK, Thread
      <3>2. InodeOf[th[t].next] \in upper /\ entry[th[t].next] = th[t].par
        BY <1>19, <2>2 DEF StageInv, Finish, Ino
      <3>3. InodeOf[th[t].par] \in upper /\ th[t].par = parent[th[t].next]
        BY <1>19, <3>1 DEF PlaceInv, StageInv, Placing, Holding, Finish
      <3>q. QED
        BY <1>19, <3>2, <3>3 DEF TypeOK, Thread, Goto, Idle, Ino, upVars, treeVars,
           lockVars, cowVars, UpperMirrorsTree, MayFail, Finish
    <2>q. QED
      BY <2>1, <2>2
  <1>20. CASE LinkMark(t)
    BY <1>20, ProtoAssumption DEF TypeOK, Thread, Goto, Idle, Ino, upVars, treeVars,
       lockVars, cowVars, UpperMirrorsTree, MayFail, LinkMark
  <1>21. CASE LinkUp(t)
    <2>1. th[t].next \notin alias /\ th[t].par # None
      BY <1>21 DEF StageInv, LinkUp
    <2>2. InodeOf[th[t].next] \in upper
      BY <1>21 DEF StageInv, LinkUp, Ino
    <2>3. InodeOf[th[t].par] \in upper /\ th[t].par = parent[th[t].next]
      BY <1>21, <2>1 DEF PlaceInv, Placing, Holding, LinkUp
    <2>4. th[t].next \in Dentries
      BY DEF TypeOK, Thread
    <2>5. entry'[th[t].next] = th[t].par /\ \A d \in alias : entry'[d] = entry[d]
      BY <1>21, <2>1, <2>4 DEF LinkUp, TypeOK
    <2>q. QED
      BY <1>21, <2>2, <2>3, <2>5 DEF TypeOK, Thread, Goto, Idle, Ino, upVars,
         treeVars, lockVars, cowVars, UpperMirrorsTree, MayFail, LinkUp
  <1>22. CASE SetNlink(t)
    BY <1>22, ProtoAssumption DEF TypeOK, Thread, Goto, Idle, Ino, upVars, treeVars,
       lockVars, cowVars, UpperMirrorsTree, MayFail, SetNlink
  <1>23. CASE CopyUpMetaInodeData(t)
    BY <1>23, ProtoAssumption DEF TypeOK, Thread, Goto, Idle, Ino, upVars, treeVars,
       lockVars, cowVars, UpperMirrorsTree, MayFail, CopyUpMetaInodeData
  <1>24. CASE Fail(t)
    BY <1>24, ProtoAssumption DEF TypeOK, Thread, Goto, Idle, Ino, upVars, treeVars,
       lockVars, cowVars, UpperMirrorsTree, MayFail, Fail
  <1>25. CASE Return(t)
    BY <1>25, ProtoAssumption DEF TypeOK, Thread, Goto, Idle, Ino, upVars, treeVars,
       lockVars, cowVars, UpperMirrorsTree, MayFail, Return
  <1>26. CASE RenameParent(t)
    BY <1>26, ProtoAssumption DEF TypeOK, Thread, Goto, Idle, Ino, upVars, treeVars,
       lockVars, cowVars, UpperMirrorsTree, MayFail, RenameParent
  <1>27. CASE RenameMark(t)
    BY <1>27, ProtoAssumption DEF TypeOK, Thread, Goto, Idle, Ino, upVars, treeVars,
       lockVars, cowVars, UpperMirrorsTree, MayFail, RenameMark
  <1>28. CASE RenameUpper(t)
    <2>2. CASE th' = [th EXCEPT ![t] = Idle] /\ entry' = entry
      BY <1>28, <2>2 DEF TypeOK, Thread, Goto, Idle, Ino, upVars, treeVars,
         lockVars, cowVars, UpperMirrorsTree, MayFail, RenameUpper
    <2>3. CASE Goto(t, "d_move") /\ entry' = [entry EXCEPT ![th[t].d] = th[t].to]
      <3>1. th'[t].pc = "d_move" /\ th'[t].d = th[t].d /\ th'[t].to = th[t].to
        BY <2>3 DEF Goto, TypeOK, Thread
      <3>2. entry'[th[t].d] = th[t].to
        BY <2>3 DEF TypeOK, Thread
      <3>3. \A d \in Dentries : d # th[t].d => entry'[d] = entry[d]
        BY <2>3 DEF TypeOK
      <3>4. \A u \in Threads : th[u].pc = "d_move" => th'[u] = th[u]
        BY <1>28, <2>3 DEF Goto, TypeOK, RenameUpper
      <3>q. QED
        BY <1>28, <3>1, <3>2, <3>3, <3>4 DEF UpperMirrorsTree, RenameUpper, TypeOK,
           upVars
    <2>q. QED
      BY <1>28, <2>2, <2>3 DEF RenameUpper
  <1>29. CASE DMove(t)
    <2>1. /\ Renaming(t) /\ th[t].d \in Dentries
          /\ InodeOf[th[t].to] \in upper /\ entry[th[t].d] = th[t].to
      BY <1>29 DEF MoveInv, Renaming, DMove, TypeOK, Thread
    <2>2. \A u \in Threads : u # t => th[u].pc # "d_move"
      BY <2>1 DEF MoveInv, Renaming
    <2>3. parent'[th[t].d] = th[t].to /\ \A d \in Dentries : d # th[t].d => parent'[d] = parent[d]
      BY <1>29, <2>1 DEF DMove, TypeOK
    <2>q. QED
      BY <1>29, <2>1, <2>2, <2>3 DEF UpperMirrorsTree, DMove, TypeOK, upVars,
         treeVars, lockVars, cowVars
  <1>30. CASE RealFdget(t)
    BY <1>30, ProtoAssumption DEF TypeOK, Thread, Goto, Idle, Ino, upVars, treeVars,
       lockVars, cowVars, UpperMirrorsTree, MayFail, RealFdget
  <1>31. CASE CowTest(t)
    BY <1>31, ProtoAssumption DEF TypeOK, Thread, Goto, Idle, Ino, upVars, treeVars,
       lockVars, cowVars, UpperMirrorsTree, MayFail, CowTest
  <1>32. CASE ReadReturn(t)
    BY <1>32, ProtoAssumption DEF TypeOK, Thread, Goto, Idle, Ino, upVars, treeVars,
       lockVars, cowVars, UpperMirrorsTree, MayFail, ReadReturn
  <1>q. QED
    BY <1>1, <1>2, <1>3, <1>4, <1>5, <1>6, <1>7, <1>8, <1>9, <1>10, <1>11,
       <1>12, <1>13, <1>14, <1>15, <1>16, <1>17, <1>18, <1>19, <1>20, <1>21, <1>22,
       <1>23, <1>24, <1>25, <1>26, <1>27, <1>28, <1>29, <1>30, <1>31, <1>32
       DEF Begin, Acquire, Step

-----------------------------------------------------------------------------
(* The arcs of the program: what each program counter was reached by, and    *)
(* which steps change the tree.                                              *)

\* Nothing that is recorded of a copy-up is ever taken back.
Grows ==
  /\ upper \subseteq upper' /\ alias \subseteq alias' /\ impure \subseteq impure'
  /\ indexed \subseteq indexed' /\ emptied \subseteq emptied'
  /\ cow_status \subseteq cow_status' /\ block_status \subseteq block_status'

Arcs(t) ==
  /\ th'[t].pc = "open"      => \E op \in Ops, d \in Dentries : Open(t, op, d)
  /\ th'[t].pc = "temp"      => SetImpure(t)
  /\ th'[t].pc = "cow"       => CreateTemp(t)
  /\ th'[t].pc = "table"     => SetCow(t)
  /\ th'[t].pc = "attrs"     => CreateTemp(t) \/ AllocTable(t)
  /\ th'[t].pc = "index"     => SetAttrs(t)
  /\ th'[t].pc = "install"   => SetAttrs(t) \/ CreateIndex(t)
  /\ th'[t].pc = "upperdata" => Install(t)
  /\ th'[t].pc = "update"    => SetUpperdata(t)
  /\ th'[t].pc = "link"      => LinkMark(t)
  /\ th'[t].pc = "move"      => RenameMark(t)
  /\ th'[t].pc = "ok"        => MaybeCopyUp(t) \/ Check(t)
  /\ th'[t].pc = "cowtest"   => RealFdget(t)
  /\ th'[t].pc = "plain"     => CowTest(t)
  /\ \/ Begin(t)
     \/ th'[t].pc = "idle"
     \/ th[t].pc # "idle" /\ th'[t].op = th[t].op /\ th'[t].d = th[t].d
  /\ upper' # upper => InodeUpdate(t)
  /\ entry' # entry => Install(t) \/ LinkUp(t) \/ RenameUpper(t)

\* A step of one thread leaves the locals of the others alone.
LEMMA ArcStep ==
  ASSUME TypeOK, NEW t \in Threads, Begin(t) \/ Acquire(t) \/ Step(t) \/ Fail(t)
  PROVE  Arcs(t) /\ Grows /\ \A u \in Threads : u # t => th'[u] = th[u]
PROOF
  <1> DEFINE Others == \A u \in Threads : u # t => th'[u] = th[u]
  <1>1. CASE \E op \in Ops, d \in Dentries : Open(t, op, d)
    <2>1. th'[t].pc = "open" /\ Others
      BY <1>1 DEF Open, TypeOK, Idle
    <2>2. UNCHANGED <<upVars, treeVars, cowVars>>
      BY <1>1 DEF Open
    <2>q. QED
      BY <1>1, <2>1, <2>2 DEF Arcs, Grows, Begin, upVars, treeVars, cowVars
  <1>2. CASE \E d \in Dentries : CopyUpCall(t, d)
    <2>1. th'[t].pc = "check" /\ Others
      BY <1>2 DEF CopyUpCall, TypeOK, Idle
    <2>2. UNCHANGED <<upVars, treeVars, cowVars>>
      BY <1>2 DEF CopyUpCall
    <2>q. QED
      BY <1>2, <2>1, <2>2 DEF Arcs, Grows, Begin, upVars, treeVars, cowVars
  <1>3. CASE \E m \in Moves : RenameCall(t, m[1], m[2])
    <2>1. th'[t].pc = "check" /\ Others
      BY <1>3 DEF RenameCall, TypeOK, Idle
    <2>2. UNCHANGED <<upVars, treeVars, cowVars>>
      BY <1>3 DEF RenameCall
    <2>q. QED
      BY <1>3, <2>1, <2>2 DEF Arcs, Grows, Begin, upVars, treeVars, cowVars
  <1>4. CASE MaybeCopyUp(t)
    BY <1>4 DEF TypeOK, Thread, Goto, Idle, upVars, treeVars, cowVars, Arcs, Grows,
       MaybeCopyUp
  <1>5. CASE Check(t)
    BY <1>5 DEF TypeOK, Thread, Goto, Idle, upVars, treeVars, cowVars, Arcs, Grows,
       Check
  <1>6. CASE Walk(t)
    BY <1>6 DEF TypeOK, Thread, Goto, Idle, upVars, treeVars, cowVars, Arcs, Grows,
       Walk
  <1>7. CASE Start(t)
    BY <1>7 DEF TypeOK, Thread, Goto, Idle, upVars, treeVars, cowVars, Arcs, Grows,
       Start
  <1>8. CASE Dispatch(t)
    BY <1>8 DEF TypeOK, Thread, Goto, Idle, upVars, treeVars, cowVars, Arcs, Grows,
       Dispatch
  <1>9. CASE Unlock(t)
    BY <1>9 DEF TypeOK, Thread, Goto, Idle, upVars, treeVars, cowVars, Arcs, Grows,
       Unlock
  <1>10. CASE SetImpure(t)
    BY <1>10 DEF TypeOK, Thread, Goto, Idle, upVars, treeVars, cowVars, Arcs, Grows,
       SetImpure
  <1>11. CASE CreateTemp(t)
    BY <1>11 DEF TypeOK, Thread, Goto, Idle, upVars, treeVars, cowVars, Arcs, Grows,
       CreateTemp
  <1>12. CASE SetCow(t)
    BY <1>12 DEF TypeOK, Thread, Goto, Idle, upVars, treeVars, cowVars, Arcs, Grows,
       SetCow
  <1>13. CASE AllocTable(t)
    BY <1>13 DEF TypeOK, Thread, Goto, Idle, upVars, treeVars, cowVars, Arcs, Grows,
       AllocTable
  <1>14. CASE SetAttrs(t)
    BY <1>14 DEF TypeOK, Thread, Goto, Idle, upVars, treeVars, cowVars, Arcs, Grows,
       SetAttrs
  <1>15. CASE CreateIndex(t)
    BY <1>15 DEF TypeOK, Thread, Goto, Idle, upVars, treeVars, cowVars, Arcs, Grows,
       CreateIndex
  <1>16. CASE Install(t)
    BY <1>16 DEF TypeOK, Thread, Goto, Idle, upVars, treeVars, cowVars, Arcs, Grows,
       Install
  <1>17. CASE SetUpperdata(t)
    BY <1>17 DEF TypeOK, Thread, Goto, Idle, upVars, treeVars, cowVars, Arcs, Grows,
       SetUpperdata
  <1>18. CASE InodeUpdate(t)
    BY <1>18 DEF TypeOK, Thread, Goto, Idle, upVars, treeVars, cowVars, Arcs, Grows,
       InodeUpdate
  <1>19. CASE Finish(t)
    BY <1>19 DEF TypeOK, Thread, Goto, Idle, upVars, treeVars, cowVars, Arcs, Grows,
       Finish
  <1>20. CASE LinkMark(t)
    BY <1>20 DEF TypeOK, Thread, Goto, Idle, upVars, treeVars, cowVars, Arcs, Grows,
       LinkMark
  <1>21. CASE LinkUp(t)
    BY <1>21 DEF TypeOK, Thread, Goto, Idle, upVars, treeVars, cowVars, Arcs, Grows,
       LinkUp
  <1>22. CASE SetNlink(t)
    BY <1>22 DEF TypeOK, Thread, Goto, Idle, upVars, treeVars, cowVars, Arcs, Grows,
       SetNlink
  <1>23. CASE CopyUpMetaInodeData(t)
    BY <1>23 DEF TypeOK, Thread, Goto, Idle, upVars, treeVars, cowVars, Arcs, Grows,
       CopyUpMetaInodeData
  <1>24. CASE Fail(t)
    BY <1>24 DEF TypeOK, Thread, Goto, Idle, upVars, treeVars, cowVars, Arcs, Grows,
       Fail
  <1>25. CASE Return(t)
    BY <1>25 DEF TypeOK, Thread, Goto, Idle, upVars, treeVars, cowVars, Arcs, Grows,
       Return
  <1>26. CASE RenameParent(t)
    BY <1>26 DEF TypeOK, Thread, Goto, Idle, upVars, treeVars, cowVars, Arcs, Grows,
       RenameParent
  <1>27. CASE RenameMark(t)
    BY <1>27 DEF TypeOK, Thread, Goto, Idle, upVars, treeVars, cowVars, Arcs, Grows,
       RenameMark
  <1>28. CASE RenameUpper(t)
    BY <1>28 DEF TypeOK, Thread, Goto, Idle, upVars, treeVars, cowVars, Arcs, Grows,
       RenameUpper
  <1>29. CASE DMove(t)
    BY <1>29 DEF TypeOK, Thread, Goto, Idle, upVars, treeVars, cowVars, Arcs, Grows,
       DMove
  <1>30. CASE RealFdget(t)
    BY <1>30 DEF TypeOK, Thread, Goto, Idle, upVars, treeVars, cowVars, Arcs, Grows,
       RealFdget
  <1>31. CASE CowTest(t)
    BY <1>31 DEF TypeOK, Thread, Goto, Idle, upVars, treeVars, cowVars, Arcs, Grows,
       CowTest
  <1>32. CASE ReadReturn(t)
    BY <1>32 DEF TypeOK, Thread, Goto, Idle, upVars, treeVars, cowVars, Arcs, Grows,
       ReadReturn
  <1>q. QED
    BY <1>1, <1>2, <1>3, <1>4, <1>5, <1>6, <1>7, <1>8, <1>9, <1>10, <1>11,
       <1>12, <1>13, <1>14, <1>15, <1>16, <1>17, <1>18, <1>19, <1>20, <1>21, <1>22,
       <1>23, <1>24, <1>25, <1>26, <1>27, <1>28, <1>29, <1>30, <1>31, <1>32
       DEF Begin, Acquire, Step

\* Every step keeps the marks of the directories.
LEMMA ImpureStep ==
  ASSUME TypeOK, StageInv, MoveInv, ImpureInv,
         NEW t \in Threads, Begin(t) \/ Acquire(t) \/ Step(t) \/ Fail(t)
  PROVE  ImpureInv'
PROOF
  <1>1. Arcs(t) /\ Grows /\ \A u \in Threads : u # t => th'[u] = th[u]
    BY ArcStep
  <1>2. th[t].d \in Dentries /\ th[t].next \in Dentries
    BY DEF TypeOK, Thread
  <1>3. ImpureMarked'
    <2>1. CASE entry' = entry
      BY <1>1, <2>1 DEF ImpureInv, ImpureMarked, Grows
    <2>2. CASE Install(t)
      BY <1>1, <1>2, <2>2 DEF Install, ImpureInv, ImpureMarked, Grows, Making, TypeOK
    <2>3. CASE LinkUp(t)
      BY <1>1, <1>2, <2>3 DEF LinkUp, ImpureInv, ImpureMarked, Grows, TypeOK
    <2>4. CASE RenameUpper(t)
      BY <1>1, <1>2, <2>4 DEF RenameUpper, ImpureInv, ImpureMarked, Grows, TypeOK
    <2>q. QED
      BY <1>1, <2>1, <2>2, <2>3, <2>4 DEF Arcs
  <1>4. th'[t].pc \in Making /\ ~ToIndex(th'[t].next) => th'[t].par \in impure'
    <2>1. CASE SetImpure(t)
      BY <1>2, <2>1 DEF SetImpure, Goto, TypeOK, Thread
    <2>2. CASE th[t].pc \in Making /\ th'[t].next = th[t].next /\ th'[t].par = th[t].par
      BY <1>1, <2>2 DEF ImpureInv, Grows
    <2>3. CASE CreateTemp(t) \/ SetCow(t) \/ AllocTable(t) \/ SetAttrs(t) \/ CreateIndex(t)
      <3>1. th[t].pc \in Making
        BY <2>3 DEF Making, CreateTemp, SetCow, AllocTable, SetAttrs, CreateIndex
      <3>2. th'[t].next = th[t].next /\ th'[t].par = th[t].par
        BY <2>3 DEF CreateTemp, SetCow, AllocTable, SetAttrs, CreateIndex, Goto, TypeOK,
           Thread
      <3>q. QED
        BY <2>2, <3>1, <3>2
    <2>q. QED
      BY <1>1, <2>1, <2>3 DEF Arcs, Making
  <1>5. th'[t].pc = "link" => th'[t].par \in impure'
    <2>1. CASE LinkMark(t)
      BY <2>1 DEF LinkMark, Goto, TypeOK, Thread
    <2>q. QED
      BY <1>1, <2>1 DEF Arcs
  <1>6. th'[t].pc = "move" /\ TypeOrigin(th'[t].d) => th'[t].to \in impure'
    <2>1. CASE RenameMark(t)
      BY <2>1 DEF RenameMark, Goto, TypeOK, Thread
    <2>q. QED
      BY <1>1, <2>1 DEF Arcs
  <1>q. QED
    BY <1>1, <1>3, <1>4, <1>5, <1>6 DEF ImpureInv, Grows

\* Whether an index entry is wanted depends on the inode alone, and only a file
\* that gets one has two dentries.
LEMMA IndexByInode ==
  ASSUME NEW d \in Dentries, NEW e \in Dentries, InodeOf[d] = InodeOf[e]
  PROVE  /\ NeedIndex(d) <=> NeedIndex(e)
         /\ ToIndex(d) <=> ToIndex(e)
         /\ d # e => ToIndex(d)
  BY ProtoAssumption DEF NeedIndex, ToIndex, Dirs

\* Every step keeps the upper files within reach.
LEMMA ReachStep ==
  ASSUME TypeOK, PlaceInv, StageInv, MoveInv, ReachInv,
         NEW t \in Threads, Begin(t) \/ Acquire(t) \/ Step(t) \/ Fail(t)
  PROVE  ReachInv'
PROOF
  <1>1. Arcs(t) /\ Grows /\ \A u \in Threads : u # t => th'[u] = th[u]
    BY ArcStep
  <1>2. th[t].d \in Dentries /\ th[t].next \in Dentries
    BY DEF TypeOK, Thread
  <1>3. \A d \in Dentries : entry[d] # None => entry'[d] # None
    <2>1. CASE Install(t)
      <3>1. ToIndex(th[t].next) \/ th[t].par # None
        BY <1>2, <2>1, DisconnectedToIndex DEF Install, PlaceInv, Placing, Holding, Creating
      <3>q. QED
        BY <1>2, <2>1, <3>1 DEF Install, TypeOK
    <2>2. CASE LinkUp(t)
      BY <1>2, <2>2 DEF LinkUp, TypeOK, StageInv
    <2>3. CASE RenameUpper(t)
      <3>1. th[t].to # None
        BY <2>3, ProtoAssumption DEF RenameUpper, MoveInv, Renaming
      <3>q. QED
        BY <1>2, <2>3, <3>1 DEF RenameUpper, TypeOK
    <2>q. QED
      BY <1>1, <2>1, <2>2, <2>3 DEF Arcs
  <1>4. UpperReachable'
    <2>1. CASE upper' = upper
      BY <1>1, <1>3, <2>1 DEF ReachInv, UpperReachable, Grows
    <2>2. CASE InodeUpdate(t)
      <3> SUFFICES ASSUME NEW d \in Dentries \ {Root}, InodeOf[d] \in upper'
                   PROVE  /\ \/ InodeOf[d] \in indexed'
                             \/ \E e \in Dentries :
                                  InodeOf[e] = InodeOf[d] /\ entry'[e] # None
                          /\ NeedIndex(d) => InodeOf[d] \in indexed'
        BY DEF UpperReachable
      <3>1. CASE InodeOf[d] \in upper
        BY <1>1, <1>3, <3>1 DEF ReachInv, UpperReachable, Grows
      <3>2. CASE InodeOf[d] = InodeOf[th[t].next]
        <4>1. CASE ToIndex(th[t].next)
          BY <1>1, <2>2, <3>2, <4>1 DEF ReachInv, InodeUpdate, Grows, Ino
        <4>2. CASE ~ToIndex(th[t].next)
          <5>1. d = th[t].next
            BY <1>2, <3>2, <4>2, IndexByInode
          <5>2. entry[d] = th[t].par /\ th[t].par # None
            BY <1>2, <2>2, <4>2, <5>1, DisconnectedToIndex DEF InodeUpdate, StageInv,
               PlaceInv, Placing, Holding, Creating
          <5>3. NeedIndex(d) => Dirs(d)
            BY <4>2, <5>1 DEF ToIndex
          <5>4. NeedIndex(d) => InodeOf[d] \in indexed
            BY <2>2, <5>1, <5>3 DEF ReachInv, InodeUpdate, Ino
          <5>q. QED
            BY <1>1, <1>3, <5>2, <5>4 DEF Grows
        <4>q. QED
          BY <4>1, <4>2
      <3>q. QED
        BY <2>2, <3>1, <3>2 DEF InodeUpdate, Ino
    <2>q. QED
      BY <1>1, <2>1, <2>2 DEF Arcs
  <1>5. th'[t].pc \in {"upperdata", "update"} /\ ToIndex(th'[t].next) => Ino(t)' \in indexed'
    <2>1. CASE Install(t)
      BY <1>2, <2>1 DEF Install, Goto, TypeOK, Thread, Ino
    <2>2. CASE SetUpperdata(t)
      BY <1>1, <1>2, <2>2 DEF SetUpperdata, Goto, TypeOK, Thread, Ino, Grows, ReachInv
    <2>q. QED
      BY <1>1, <2>1, <2>2 DEF Arcs
  <1>6. /\ th'[t].pc \in {"install", "upperdata", "update"}
        /\ Dirs(th'[t].next) /\ NeedIndex(th'[t].next)
        => Ino(t)' \in indexed'
    <2>1. CASE Install(t)
      BY <1>1, <1>2, <2>1 DEF Install, Goto, TypeOK, Thread, Ino, Grows, ReachInv
    <2>2. CASE SetUpperdata(t)
      BY <1>1, <1>2, <2>2 DEF SetUpperdata, Goto, TypeOK, Thread, Ino, Grows, ReachInv
    <2>3. CASE SetAttrs(t)
      BY <1>1, <1>2, <2>3 DEF SetAttrs, Goto, TypeOK, Thread
    <2>4. CASE CreateIndex(t)
      BY <1>1, <1>2, <2>4 DEF CreateIndex, Goto, TypeOK, Thread, Ino
    <2>q. QED
      BY <1>1, <2>1, <2>2, <2>3, <2>4 DEF Arcs
  <1>q. QED
    BY <1>1, <1>4, <1>5, <1>6 DEF ReachInv, Grows, Ino

\* Every step keeps what a call knows when it returns success.
LEMMA OkStep ==
  ASSUME TypeOK, OkInv, NEW t \in Threads, Begin(t) \/ Acquire(t) \/ Step(t) \/ Fail(t)
  PROVE  OkInv'
PROOF
  <1>1. Arcs(t) /\ Grows /\ \A u \in Threads : u # t => th'[u] = th[u]
    BY ArcStep
  <1>2. th'[t].pc = "open"
          => th'[t].tgt = th'[t].d /\ th'[t].op \in {"read", "write", "trunc"}
    <2>1. ASSUME NEW op \in Ops, NEW d \in Dentries, Open(t, op, d)
          PROVE  th'[t].tgt = th'[t].d /\ th'[t].op \in {"read", "write", "trunc"}
      BY <2>1 DEF Open, Idle, TypeOK
    <2>q. QED
      BY <1>1, <2>1 DEF Arcs
  <1>3. th'[t].pc = "ok" /\ th'[t].op # "read" =>
          InodeOf[th'[t].tgt] \in upper /\ th'[t].tgt \in alias \cup Disconnected
    <2>1. CASE MaybeCopyUp(t)
      <3>1. th[t].tgt = th[t].d /\ th[t].op \in {"read", "write", "trunc"}
        BY <2>1 DEF MaybeCopyUp, OkInv
      <3>2. th'[t].op = th[t].op /\ th'[t].tgt = th[t].tgt
        BY <2>1 DEF MaybeCopyUp, Goto, TypeOK, Thread
      <3>3. th'[t].pc = "ok" => AlreadyCopiedUp(th[t].d, th[t].op) \/ ~NeedsData(th[t].op)
        BY <2>1 DEF MaybeCopyUp, Goto, TypeOK, Thread
      <3>q. QED
        BY <2>1, <3>1, <3>2, <3>3 DEF AlreadyCopiedUp, NeedsData
    <2>2. CASE Check(t)
      BY <2>2, CheckFrame DEF AlreadyCopiedUp
    <2>q. QED
      BY <1>1, <2>1, <2>2 DEF Arcs
  <1>q. QED
    BY <1>1, <1>2, <1>3 DEF OkInv, Grows

\* Every step keeps the tables in front of the upper files.
LEMMA TableStep ==
  ASSUME TypeOK, TableInv, ~MetaCopy,
         NEW t \in Threads, Begin(t) \/ Acquire(t) \/ Step(t) \/ Fail(t)
  PROVE  TableInv'
PROOF
  <1>1. Arcs(t) /\ Grows /\ \A u \in Threads : u # t => th'[u] = th[u]
    BY ArcStep
  <1>2. \A i : HasTable(i) => HasTable(i)'
    BY <1>1 DEF HasTable, Grows
  <1>3. \A i \in upper' : i \in emptied' \/ HasTable(i)'
    <2>1. CASE upper' = upper
      BY <1>1, <1>2, <2>1 DEF TableInv, Grows
    <2>2. CASE InodeUpdate(t)
      <3>1. Ino(t) \in emptied' \/ HasTable(Ino(t))
        BY <2>2 DEF InodeUpdate, TableInv, HasTable
      <3>q. QED
        BY <1>1, <1>2, <2>2, <3>1 DEF InodeUpdate, TableInv, Grows
    <2>q. QED
      BY <1>1, <2>1, <2>2 DEF Arcs
  <1>4. th'[t].pc = "table" => Ino(t)' \in cow_status'
    <2>1. CASE SetCow(t)
      BY <2>1 DEF SetCow, Goto, TypeOK, Thread, Ino
    <2>q. QED
      BY <1>1, <2>1 DEF Arcs
  <1>5. /\ th'[t].pc \in {"attrs", "index", "install", "upperdata", "update"}
        /\ th'[t].op # "trunc"
        => HasTable(Ino(t))'
    <2>1. CASE AllocTable(t)
      BY <1>1, <2>1 DEF AllocTable, Goto, TypeOK, Thread, Ino, TableInv, HasTable, Grows
    <2>2. CASE CreateTemp(t)
      <3>1. th'[t].op = th[t].op /\ Ino(t)' = Ino(t)
        BY <2>2 DEF CreateTemp, Goto, TypeOK, Thread, Ino
      <3>2. th'[t].pc = "attrs" => ~Delayed(t)
        BY <2>2 DEF CreateTemp, Goto, TypeOK, Thread
      <3>3. th'[t].pc \in {"attrs", "cow"}
        BY <2>2 DEF CreateTemp, Goto, TypeOK, Thread
      <3>q. QED
        BY <3>1, <3>2, <3>3 DEF Delayed, MetaOnly, HasTable
    <2>3. CASE SetAttrs(t) \/ CreateIndex(t) \/ Install(t) \/ SetUpperdata(t)
      <3>1. th'[t].op = th[t].op /\ Ino(t)' = Ino(t)
        BY <2>3 DEF SetAttrs, CreateIndex, Install, SetUpperdata, Goto, TypeOK, Thread, Ino
      <3>2. th[t].pc \in {"attrs", "index", "install", "upperdata"}
        BY <2>3 DEF SetAttrs, CreateIndex, Install, SetUpperdata
      <3>q. QED
        BY <1>2, <3>1, <3>2 DEF TableInv
    <2>q. QED
      BY <1>1, <2>1, <2>2, <2>3 DEF Arcs
  <1>6. \/ th'[t].pc \in {"open", "cowtest"}
        \/ th'[t].pc # "idle" /\ th'[t].op = "read"
        => InodeOf[th'[t].d] \in Files
    <2>1. ASSUME NEW op \in Ops, NEW d \in Dentries, Open(t, op, d)
          PROVE  InodeOf[th'[t].d] \in Files
      BY <2>1 DEF Open, Idle, TypeOK
    <2>2. CASE RealFdget(t)
      BY <2>2 DEF RealFdget, TypeOK, Thread, TableInv
    <2>3. Begin(t) => th'[t].op # "read" \/ \E op \in Ops, d \in Dentries : Open(t, op, d)
      BY DEF Begin, CopyUpCall, RenameCall, Idle, TypeOK
    <2>q. QED
      BY <1>1, <2>1, <2>2, <2>3 DEF Arcs, TableInv
  <1>7. th'[t].pc = "cowtest" /\ th'[t].real = "upper" => InodeOf[th'[t].d] \in upper
    <2>1. CASE RealFdget(t)
      BY <2>1 DEF RealFdget, TypeOK, Thread
    <2>q. QED
      BY <1>1, <2>1 DEF Arcs
  <1>8. th'[t].pc = "plain" /\ th'[t].real = "upper" => InodeOf[th'[t].d] \in Empty \cup emptied
    <2>1. CASE CowTest(t)
      <3>1. th'[t].d = th[t].d /\ th'[t].real = th[t].real
        BY <2>1 DEF CowTest, Goto, TypeOK, Thread
      <3>2. th'[t].pc = "plain" => InodeOf[th[t].d] \notin cow_status
        BY <2>1 DEF CowTest, Goto, TypeOK, Thread
      <3>q. QED
        BY <2>1, <3>1, <3>2 DEF CowTest, TableInv, HasTable
    <2>q. QED
      BY <1>1, <2>1 DEF Arcs
  <1>9. ReadTakesData'
    BY <1>1, <1>8 DEF ReadTakesData, TableInv, Grows
  <1>q. QED
    <2>1. \A u \in Threads : u # t => Ino(u)' = Ino(u)
      BY <1>1 DEF Ino
    <2>q. QED
      BY <1>1, <1>2, <1>3, <1>4, <1>5, <1>6, <1>7, <1>9, <2>1 DEF TableInv, Grows

-----------------------------------------------------------------------------
(* Theorems. *)

\* The initial state satisfies the invariant: nothing is copied up, no lock is
\* held.
LEMMA InitInv == Init => ProtoInv
PROOF
  <1> SUFFICES ASSUME Init PROVE ProtoInv
    OBVIOUS
  <1> USE ProtoAssumption
  <1>1. TypeOK
    <2>1. th \in [Threads -> Thread]
      BY IdleType DEF Init
    <2>q. QED
      BY <2>1 DEF Init, TypeOK
  <1>2. LockInv
    BY DEF Init, LockInv, Idle, Holding, Creating
  <1>3. PlaceInv
    BY DEF Init, PlaceInv, Idle, Placing, Holding, Creating
  <1>4. StageInv
    BY DEF Init, StageInv, Idle, Creating
  <1>5. MoveInv
    BY DEF Init, MoveInv, Renaming, Idle
  <1>6. UpperMirrorsTree
    BY DEF Init, UpperMirrorsTree
  <1>7. ImpureInv
    BY DEF Init, ImpureInv, ImpureMarked, Idle, Making
  <1>8. ReachInv
    BY DEF Init, ReachInv, UpperReachable, Idle, ToIndex, Dirs
  <1>9. OkInv
    BY DEF Init, OkInv, Idle
  <1>10. TableInv
    BY DEF Init, TableInv, HasTable, ReadTakesData, Idle, Dirs
  <1>q. QED
    BY <1>1, <1>2, <1>3, <1>4, <1>5, <1>6, <1>7, <1>8, <1>9, <1>10 DEF ProtoInv

\* The inductive invariant holds in every reachable state, whatever fails.
THEOREM ProtoInvCorrect == Spec => []ProtoInv
PROOF
  <1>1. Init => ProtoInv
    BY InitInv
  <1>2. ProtoInv /\ [Next]_vars => ProtoInv'
    <2> SUFFICES ASSUME ProtoInv, [Next]_vars PROVE ProtoInv'
      OBVIOUS
    <2>1. CASE Next
      <3>1. PICK t \in Threads : Begin(t) \/ Acquire(t) \/ Step(t) \/ Fail(t)
        BY <2>1 DEF Next
      <3>2. TypeOK'
        BY <3>1, TypeStep DEF ProtoInv
      <3>3. LockInv'
        BY <3>1, LockStep DEF ProtoInv
      <3>4. PlaceInv'
        BY <3>1, PlaceStep DEF ProtoInv
      <3>5. StageInv'
        BY <3>1, StageStep DEF ProtoInv
      <3>6. MoveInv'
        BY <3>1, MoveStep DEF ProtoInv
      <3>7. UpperMirrorsTree'
        BY <3>1, MirrorStep DEF ProtoInv
      <3>8. ImpureInv'
        BY <3>1, ImpureStep DEF ProtoInv
      <3>9. ReachInv'
        BY <3>1, ReachStep DEF ProtoInv
      <3>10. OkInv'
        BY <3>1, OkStep DEF ProtoInv
      <3>11. ~MetaCopy => TableInv'
        BY <3>1, TableStep DEF ProtoInv
      <3>q. QED
        BY <3>2, <3>3, <3>4, <3>5, <3>6, <3>7, <3>8, <3>9, <3>10, <3>11 DEF ProtoInv
    <2>2. CASE UNCHANGED vars
      BY <2>2 DEF ProtoInv, TypeOK, LockInv, PlaceInv, StageInv, MoveInv, Renaming,
                  UpperMirrorsTree, ImpureInv, ImpureMarked, ReachInv, UpperReachable,
                  OkInv, TableInv, HasTable, ReadTakesData, Ino, vars
    <2>q. QED
      BY <2>1, <2>2
  <1>q. QED
    BY <1>1, <1>2, PTL DEF Spec

\* Copy-up is done once: with any number of threads opening, renaming and
\* failing, the one that creates the upper file of an inode finds none, because
\* it tested again under oi->lock and nobody else can create one while it holds
\* that lock.
THEOREM WorkOnceCorrect == Spec => []WorkOnce
PROOF
  <1>1. ProtoInv => WorkOnce
    BY DEF ProtoInv, StageInv, WorkOnce
  <1>q. QED
    BY <1>1, ProtoInvCorrect, PTL

\* A copied-up name sits in the upper directory of the dentry's parent, although
\* copy-up reads d_parent without a lock and a rename may change it before the
\* lock is taken.
THEOREM UpperMirrorsTreeCorrect == Spec => []UpperMirrorsTree
PROOF
  <1>1. ProtoInv => UpperMirrorsTree
    BY DEF ProtoInv
  <1>q. QED
    BY <1>1, ProtoInvCorrect, PTL

\* A directory in which an object with a copy-up origin has a name is marked
\* impure, whether the name came by copy-up, link or rename and whatever failed
\* in between: the mark is always set first.
THEOREM ImpureMarkedCorrect == Spec => []ImpureMarked
PROOF
  <1>1. ProtoInv => ImpureMarked
    BY DEF ProtoInv, ImpureInv
  <1>q. QED
    BY <1>1, ProtoInvCorrect, PTL

\* An upper file is never visible without a name by which it is found again:
\* ovl_inode_update comes after the name or the index entry, and after the index
\* entry wherever one is wanted.
THEOREM UpperReachableCorrect == Spec => []UpperReachable
PROOF
  <1>1. ProtoInv => UpperReachable
    BY DEF ProtoInv, ReachInv
  <1>q. QED
    BY <1>1, ProtoInvCorrect, PTL

\* A call that needs the object up and returns success finds it up, with its name
\* and its parent, although it made the last test without a lock and a rename may
\* have moved the object since.
THEOREM SuccessMeansUpCorrect == Spec => []SuccessMeansUp
PROOF
  <1>1. ProtoInv => SuccessMeansUp
    <2> SUFFICES ASSUME ProtoInv, NEW t \in Threads, th[t].pc = "ok", th[t].op # "read"
                 PROVE  /\ InodeOf[th[t].tgt] \in upper
                        /\ th[t].tgt \notin Disconnected \cup {Root}
                           => entry[th[t].tgt] # None /\ InodeOf[parent[th[t].tgt]] \in upper
      BY DEF SuccessMeansUp
    <2>1. InodeOf[th[t].tgt] \in upper /\ th[t].tgt \in alias \cup Disconnected
      BY DEF ProtoInv, OkInv
    <2>2. CASE th[t].tgt \in alias \ {Root}
      <3>1. th[t].tgt \in Dentries /\ parent[th[t].tgt] # None
        BY ProtoAssumption DEF ProtoInv, TypeOK, Thread
      <3>2. \A u \in Threads : th[u].pc = "d_move" => th[u].to # None
        BY ProtoAssumption DEF ProtoInv, MoveInv, Renaming
      <3>q. QED
        BY <2>1, <2>2, <3>1, <3>2 DEF ProtoInv, UpperMirrorsTree
    <2>q. QED
      BY <2>1, <2>2
  <1>q. QED
    BY <1>1, ProtoInvCorrect, PTL

\* Without metacopy, an upper file that is not all of the data has its table: what
\* the copy-up left below can be read, whatever failed on the way.
THEOREM DataReachableCorrect == ASSUME ~MetaCopy PROVE Spec => []DataReachable
PROOF
  <1>1. ProtoInv => DataReachable
    BY DEF ProtoInv, TableInv, HasTable, DataReachable
  <1>q. QED
    BY <1>1, ProtoInvCorrect, PTL

\* Without metacopy, a read that picked its file and tested cow_status at two
\* different moments, both without a lock, never takes an upper file with holes
\* for the whole of the data.
THEOREM ReadTakesDataCorrect == ASSUME ~MetaCopy PROVE Spec => []ReadTakesData
PROOF
  <1>1. ProtoInv => ReadTakesData
    BY DEF ProtoInv, TableInv
  <1>q. QED
    BY <1>1, ProtoInvCorrect, PTL

=============================================================================
