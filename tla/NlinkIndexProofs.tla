-------------------------- MODULE NlinkIndexProofs --------------------------
(***************************************************************************)
(* Proofs about NlinkIndex, for any finite set of names, any lower names   *)
(* among them (at least two), any number of concurrent calls and any       *)
(* number of failures, evictions and crashes.                              *)
(***************************************************************************)
EXTENDS NlinkIndexInv, FiniteSetTheorems, TLAPS

-----------------------------------------------------------------------------
(* Counting. *)

LEMMA CountFacts ==
  /\ IsFiniteSet(Ours) /\ Cardinality(Ours) \in Nat
  /\ Cardinality(Ours) = 0 <=> Ours = {}
  /\ IsFiniteSet(Links) /\ Cardinality(Links) \in Nat
  /\ Cardinality(Links) = 0 <=> Links = {}
  /\ Cardinality(Ours) <= Cardinality(Names)
  /\ Links \subseteq Ours
  /\ LowerNlink \in Nat /\ LowerNames # {} /\ Cardinality(Names) \in Nat
PROOF
  <1>1. Ours \subseteq Names /\ Links \subseteq Names /\ Links \subseteq Ours
    BY DEF Ours, Links
  <1>2. /\ IsFiniteSet(Ours) /\ IsFiniteSet(Links) /\ IsFiniteSet(LowerNames)
        /\ IsFiniteSet(Names)
    BY <1>1, NlinkAssumption, FS_Subset
  <1>3. /\ Cardinality(Ours) \in Nat /\ Cardinality(Links) \in Nat /\ LowerNlink \in Nat
        /\ Cardinality(Names) \in Nat
    BY <1>2, FS_CardinalityType DEF LowerNlink
  <1>4. /\ Cardinality(Ours) = 0 <=> Ours = {}
        /\ Cardinality(Links) = 0 <=> Links = {}
        /\ Cardinality(LowerNames) = 0 <=> LowerNames = {}
    BY <1>2, FS_EmptySet
  <1>5. Cardinality(Ours) <= Cardinality(Names)
    BY <1>1, <1>2, FS_Subset
  <1>6. LowerNames # {}
    <2>1. Cardinality(LowerNames) > 1
      BY NlinkAssumption
    <2>q. QED
      BY <1>4, <2>1
  <1>q. QED
    BY <1>1, <1>2, <1>3, <1>4, <1>5, <1>6, Zenon

\* The links of the upper inode.
LEMMA UpperFacts ==
  ASSUME TypeInv, EntryInv
  PROVE  /\ UpperNlink \in Nat
         /\ UpperNlink > 0 <=> index = "link"
         /\ index = "link" /\ ~work => UpperNlink = Cardinality(Links) + 1
         /\ index = "link" => UpperNlink - One(work) = Cardinality(Links) + 1
         /\ UpperNlink = 1 => ~work
PROOF
  <1> DEFINE u == Cardinality(Links)
  <1>1. u \in Nat /\ (u = 0 <=> Links = {})
    BY CountFacts
  <1>2. UpperNlink = u + One(index = "link") + One(work)
    BY DEF UpperNlink, Links
  <1>3. (Links # {} => index = "link") /\ (work => index = "link")
    BY DEF EntryInv
  <1> HIDE DEF u
  <1>4. CASE work
    <2>1. One(work) = 1 /\ One(index = "link") = 1
      BY <1>3, <1>4 DEF One
    <2>2. index = "link" /\ UpperNlink = u + 2
      <3>1. UpperNlink = u + 1 + 1
        BY <1>2, <2>1, Zenon
      <3>2. index = "link"
        BY <1>3, <1>4
      <3>q. QED
        BY <1>1, <3>1, <3>2
    <2>3. UpperNlink \in Nat /\ UpperNlink > 0 /\ UpperNlink # 1 /\ UpperNlink - 1 = u + 1
      BY <1>1, <2>2
    <2>q. QED
      BY <1>4, <2>1, <2>2, <2>3 DEF u
  <1>5. CASE ~work
    <2>1. One(work) = 0
      BY <1>5 DEF One
    <2>2. CASE index = "link"
      <3>1. One(index = "link") = 1
        BY <2>2 DEF One
      <3>q. QED
        BY <1>1, <1>2, <1>5, <2>1, <2>2, <3>1 DEF u
    <2>3. CASE index # "link"
      <3>1. One(index = "link") = 0 /\ u = 0
        BY <1>1, <1>3, <2>3 DEF One
      <3>q. QED
        BY <1>1, <1>2, <1>5, <2>1, <2>3, <3>1
    <2>q. QED
      BY <2>2, <2>3
  <1>q. QED
    BY <1>4, <1>5

\* There is a link in the work directory only while a call is about to rename it.
LEMMA NoWork ==
  ASSUME TypeInv, CallInv, EntryInv, mounted,
         holder = NoOne \/ \E p \in Procs : op[p].pc \in Locked \ {"change"}
  PROVE  ~work
PROOF
  <1>1. SUFFICES ASSUME work
                 PROVE  FALSE
    OBVIOUS
  <1>2. PICK q \in Procs : op[q].pc = "change"
    BY <1>1 DEF EntryInv
  <1>3. holder = q
    BY <1>2 DEF CallInv, CallOk, Locked, NamePcs
  <1>4. q # NoOne
    BY NlinkAssumption DEF NoOne
  <1>5. PICK p \in Procs : op[p].pc \in Locked \ {"change"}
    BY <1>3, <1>4
  <1>6. holder = p
    BY <1>5 DEF CallInv, CallOk
  <1>q. QED
    BY <1>2, <1>3, <1>5, <1>6

\* The names when one becomes a link or stops being one.
LEMMA NameAdded ==
  ASSUME TypeInv, NEW n \in Names, n \notin Ours, ent' = [ent EXCEPT ![n] = "link"]
  PROVE  /\ Cardinality(Ours)' = Cardinality(Ours) + 1
         /\ Cardinality(Links)' = Cardinality(Links) + 1
PROOF
  <1>1. ent' = [x \in Names |-> IF x = n THEN "link" ELSE ent[x]]
    BY DEF TypeInv
  <1>2. Ours' = Ours \cup {n} /\ Links' = Links \cup {n} /\ n \notin Links
    BY <1>1 DEF Ours, Links
  <1>3. IsFiniteSet(Ours) /\ IsFiniteSet(Links)
    BY CountFacts
  <1>q. QED
    BY <1>2, <1>3, FS_AddElement

LEMMA NameRemoved ==
  ASSUME TypeInv, NEW n \in Names, ent[n] = "link", NEW k \in {"gone", "other"},
         ent' = [ent EXCEPT ![n] = k]
  PROVE  /\ Cardinality(Ours)' = Cardinality(Ours) - 1
         /\ Cardinality(Links)' = Cardinality(Links) - 1
PROOF
  <1>1. ent' = [x \in Names |-> IF x = n THEN k ELSE ent[x]]
    BY DEF TypeInv
  <1>2. Ours' = Ours \ {n} /\ Links' = Links \ {n} /\ n \in Links /\ n \in Ours
    BY <1>1 DEF Ours, Links
  <1>3. IsFiniteSet(Ours) /\ IsFiniteSet(Links)
    BY CountFacts
  <1>q. QED
    BY <1>2, <1>3, FS_RemoveElement

LEMMA NameCopied ==
  ASSUME TypeInv, NEW n \in Names, ent[n] = "lower", ent' = [ent EXCEPT ![n] = "link"]
  PROVE  /\ Ours' = Ours /\ Links' = Links \cup {n} /\ n \notin Links
         /\ Cardinality(Links)' = Cardinality(Links) + 1
PROOF
  <1>1. ent' = [x \in Names |-> IF x = n THEN "link" ELSE ent[x]]
    BY DEF TypeInv
  <1>2. Ours' = Ours /\ Links' = Links \cup {n} /\ n \notin Links
    BY <1>1 DEF Ours, Links
  <1>3. IsFiniteSet(Links)
    BY CountFacts
  <1>q. QED
    BY <1>2, <1>3, FS_AddElement

-----------------------------------------------------------------------------
(* Steps. *)

\* The steps of one call.
CallStep(p) ==
  \/ \E n \in Names : \/ \E kind \in {"copyup", "unlink", "replace"} : StartOn(p, kind, n)
                      \/ \E m \in Names : StartLink(p, n, m)
  \/ CopyUpStart(p) \/ CopyToIndex(p) \/ IndexNlink(p)
  \/ LinkLower(p) \/ LinkUp(p) \/ LinkUpper(p) \/ CopyUpDone(p)
  \/ NlinkStart(p) \/ LinkTemp(p) \/ ChangeName(p) \/ CountName(p)
  \/ CleanupIndex(p) \/ NlinkEnd(p)
  \/ StepFails(p) \/ NlinkStartFails(p) \/ LinkRefused(p) \/ CleanupFails(p)

Pcs == {"idle", "copyup", "start", "done"} \cup Locked
Op  == [kind : {"idle", "copyup"} \cup Changing, name : Names \cup {""},
        to : Names \cup {""}, pc : Pcs]

LEMMA IdleFields == Idle.pc = "idle" /\ Idle.kind = "idle"
  BY DEF Idle

\* What a step of p does to the calls in progress: it starts, goes on or ends its own.
LEMMA OpStep ==
  ASSUME TypeInv, NEW p \in Procs, CallStep(p)
  PROVE  /\ op' \in [Procs -> Op]
         /\ \A q \in Procs : q # p => op'[q] = op[q]
         /\ \/ op[p] = Idle
            \/ op'[p] = Idle
            \/ /\ op'[p].kind = op[p].kind /\ op'[p].name = op[p].name /\ op'[p].to = op[p].to
               /\ op'[p] = [op[p] EXCEPT !.pc = op'[p].pc]
PROOF
  <1>0. op \in [Procs -> Op] /\ Idle \in Op
    BY DEF TypeInv, Op, Pcs, Idle
  <1>1. ASSUME NEW l \in Pcs, Goto(p, l)
        PROVE  /\ op' \in [Procs -> Op]
               /\ \A q \in Procs : q # p => op'[q] = op[q]
               /\ op'[p].kind = op[p].kind /\ op'[p].name = op[p].name /\ op'[p].to = op[p].to
               /\ op'[p] = [op[p] EXCEPT !.pc = op'[p].pc]
    <2>1. op' = [op EXCEPT ![p] = [op[p] EXCEPT !.pc = l]]
      BY <1>0, <1>1 DEF Goto
    <2>2. [op[p] EXCEPT !.pc = l] \in Op
      BY <1>0, <1>1 DEF Op
    <2>3. op' \in [Procs -> Op] /\ op'[p] = [op[p] EXCEPT !.pc = l]
          /\ \A q \in Procs : q # p => op'[q] = op[q]
      BY <1>0, <2>1, <2>2
    <2>4. op[p] \in Op
      BY <1>0
    <2>q. QED
      BY <2>3, <2>4 DEF Op
  <1>2. ASSUME NEW o \in Op, op' = [op EXCEPT ![p] = o]
        PROVE  op' \in [Procs -> Op] /\ (\A q \in Procs : q # p => op'[q] = op[q]) /\ op'[p] = o
    BY <1>0, <1>2
  <1>3. CASE \E n \in Names : \E kind \in {"copyup", "unlink", "replace"} : StartOn(p, kind, n)
    <2>1. PICK n \in Names, kind \in {"copyup", "unlink", "replace"} : StartOn(p, kind, n)
      BY <1>3
    <2>2. [kind |-> kind, name |-> n, to |-> n, pc |-> "copyup"] \in Op
      BY DEF Op, Pcs, Changing
    <2>q. QED
      BY <1>2, <2>1, <2>2 DEF StartOn
  <1>4. CASE \E n, m \in Names : StartLink(p, n, m)
    <2>1. PICK n \in Names, m \in Names : StartLink(p, n, m)
      BY <1>4
    <2>2. [kind |-> "link", name |-> n, to |-> m, pc |-> "copyup"] \in Op
      BY DEF Op, Pcs, Changing
    <2>q. QED
      BY <1>2, <2>1, <2>2 DEF StartLink
  <1>5. CASE CopyUpStart(p)
    <2>1. \E l \in {"done", "start", "linkLower", "index"} : Goto(p, l)
      BY <1>5 DEF CopyUpStart
    <2>q. QED
      BY <1>1, <2>1 DEF Pcs, Locked, CopyPcs, NamePcs
  <1>6. CASE CopyToIndex(p) \/ IndexNlink(p) \/ LinkLower(p) \/ LinkUp(p) \/ LinkUpper(p)
    <2>1. \E l \in {"indexNlink", "linkLower", "link", "linkUpper", "done", "start"} : Goto(p, l)
      BY <1>6 DEF CopyToIndex, IndexNlink, LinkLower, LinkUp, LinkUpper
    <2>q. QED
      BY <1>1, <2>1 DEF Pcs, Locked, CopyPcs, NamePcs
  <1>7. CASE NlinkStart(p) \/ LinkTemp(p) \/ ChangeName(p) \/ CountName(p)
    <2>1. \E l \in {"temp", "change", "count", "end"} : Goto(p, l)
      BY <1>7 DEF NlinkStart, LinkTemp, ChangeName, CountName
    <2>q. QED
      BY <1>1, <2>1 DEF Pcs, Locked, CopyPcs, NamePcs
  <1>8. CASE \/ CopyUpDone(p) \/ CleanupIndex(p) \/ NlinkEnd(p) \/ StepFails(p)
             \/ NlinkStartFails(p) \/ LinkRefused(p) \/ CleanupFails(p)
    <2>1. op' = [op EXCEPT ![p] = Idle]
      BY <1>8 DEF CopyUpDone, CleanupIndex, NlinkEnd, StepFails, NlinkStartFails, LinkRefused,
         CleanupFails, Finish
    <2>q. QED
      BY <1>0, <1>2, <2>1
  <1>q. QED
    BY <1>3, <1>4, <1>5, <1>6, <1>7, <1>8 DEF CallStep

\* The stored counts.
LEMMA CountsType ==
  ASSUME TypeInv, EntryInv
  PROVE  /\ NlinkUpper \in [base : {"none", "U", "L"}, diff : Int]
         /\ NlinkUpper.base = "U" /\ NlinkUpper.diff = ino.nlink - UpperNlink
         /\ NlinkLower \in [base : {"none", "U", "L"}, diff : Int]
         /\ NlinkLower.base = "L" /\ NlinkLower.diff = ino.nlink - LowerNlink
PROOF
  <1>1. ino.nlink \in Int
    BY DEF TypeInv
  <1>2. UpperNlink \in Nat /\ LowerNlink \in Nat
    BY UpperFacts, CountFacts
  <1>3. ino.nlink - UpperNlink \in Int /\ ino.nlink - LowerNlink \in Int
    BY <1>1, <1>2
  <1>q. QED
    BY <1>3 DEF NlinkUpper, NlinkLower

\* What becomes of the stored count.
LEMMA XattrStep ==
  ASSUME NEW p \in Procs, CallStep(p)
  PROVE  \/ xattr' = xattr
         \/ CopyToIndex(p) /\ xattr' = NoXattr
         \/ (IndexNlink(p) \/ LinkUpper(p) \/ NlinkStart(p)) /\ xattr' = NlinkUpper
         \/ LinkLower(p) /\ xattr' = NlinkLower
         \/ CleanupIndex(p) /\ UpperNlink # 1 /\ xattr' = [base |-> "U", diff |-> -1]
PROOF
  <1>1. CASE \E n \in Names : \/ \E kind \in {"copyup", "unlink", "replace"} : StartOn(p, kind, n)
                              \/ \E m \in Names : StartLink(p, n, m)
    BY <1>1 DEF StartOn, StartLink
  <1>2. CASE \/ CopyUpStart(p) \/ CopyToIndex(p) \/ IndexNlink(p)
             \/ LinkLower(p) \/ LinkUp(p) \/ LinkUpper(p) \/ CopyUpDone(p)
    BY <1>2 DEF CopyUpStart, CopyToIndex, IndexNlink, LinkLower, LinkUp, LinkUpper, CopyUpDone
  <1>3. CASE \/ NlinkStart(p) \/ LinkTemp(p) \/ ChangeName(p) \/ CountName(p)
             \/ CleanupIndex(p) \/ NlinkEnd(p)
    BY <1>3 DEF NlinkStart, LinkTemp, ChangeName, CountName, CleanupIndex, NlinkEnd
  <1>4. CASE StepFails(p) \/ NlinkStartFails(p) \/ LinkRefused(p) \/ CleanupFails(p)
    BY <1>4 DEF StepFails, NlinkStartFails, LinkRefused, CleanupFails
  <1>q. QED
    BY <1>1, <1>2, <1>3, <1>4 DEF CallStep

\* What becomes of the names, the index and the link in the work directory.
LEMMA NamesStep ==
  ASSUME NEW p \in Procs, CallStep(p)
  PROVE  /\ \/ ent' = ent
            \/ LinkUp(p) /\ ent' = [ent EXCEPT ![op[p].name] = "link"]
            \/ /\ ChangeName(p)
               /\ ent' = [ent EXCEPT ![op[p].to] = CASE op[p].kind = "link" -> "link"
                                                     [] op[p].kind = "unlink" -> "gone"
                                                     [] op[p].kind = "replace" -> "other"]
         /\ \/ index' = index
            \/ CopyToIndex(p) /\ index' = "link"
            \/ CleanupIndex(p) /\ UpperNlink = 1 /\ index = "link" /\ index' = OrphanBecomes
         /\ \/ work' = work
            \/ work' = FALSE
            \/ LinkTemp(p) /\ work' = TRUE
         /\ mounted' = mounted /\ nfs_export' = nfs_export /\ uncounted' = uncounted
PROOF
  <1> USE DEF options
  <1>1. CASE \E n \in Names : \/ \E kind \in {"copyup", "unlink", "replace"} : StartOn(p, kind, n)
                              \/ \E m \in Names : StartLink(p, n, m)
    BY <1>1 DEF StartOn, StartLink
  <1>2. CASE \/ CopyUpStart(p) \/ CopyToIndex(p) \/ IndexNlink(p)
             \/ LinkLower(p) \/ LinkUp(p) \/ LinkUpper(p) \/ CopyUpDone(p)
    BY <1>2 DEF CopyUpStart, CopyToIndex, IndexNlink, LinkLower, LinkUp, LinkUpper, CopyUpDone
  <1>3. CASE \/ NlinkStart(p) \/ LinkTemp(p) \/ ChangeName(p) \/ CountName(p)
             \/ CleanupIndex(p) \/ NlinkEnd(p)
    BY <1>3 DEF NlinkStart, LinkTemp, ChangeName, CountName, CleanupIndex, NlinkEnd
  <1>4. CASE StepFails(p) \/ NlinkStartFails(p) \/ LinkRefused(p) \/ CleanupFails(p)
    BY <1>4 DEF StepFails, NlinkStartFails, LinkRefused, CleanupFails
  <1>q. QED
    BY <1>1, <1>2, <1>3, <1>4 DEF CallStep

\* What becomes of the inode in memory.
LEMMA InoStep ==
  ASSUME NEW p \in Procs, CallStep(p)
  PROVE  \/ ino' = ino
         \/ CopyToIndex(p) /\ ino' = [ino EXCEPT !.hasUpper = TRUE, !.indexed = TRUE]
         \/ /\ CountName(p)
            /\ ino' = [ino EXCEPT !.nlink = IF op[p].kind = "link" THEN @ + 1 ELSE @ - 1]
         \/ CleanupIndex(p) /\ UpperNlink # 1 /\ ino' = [ino EXCEPT !.nlink = UpperNlink - 1]
PROOF
  <1>1. CASE \E n \in Names : \/ \E kind \in {"copyup", "unlink", "replace"} : StartOn(p, kind, n)
                              \/ \E m \in Names : StartLink(p, n, m)
    BY <1>1 DEF StartOn, StartLink
  <1>2. CASE \/ CopyUpStart(p) \/ CopyToIndex(p) \/ IndexNlink(p)
             \/ LinkLower(p) \/ LinkUp(p) \/ LinkUpper(p) \/ CopyUpDone(p)
    BY <1>2 DEF CopyUpStart, CopyToIndex, IndexNlink, LinkLower, LinkUp, LinkUpper, CopyUpDone
  <1>3. CASE \/ NlinkStart(p) \/ LinkTemp(p) \/ ChangeName(p) \/ CountName(p)
             \/ CleanupIndex(p) \/ NlinkEnd(p)
    BY <1>3 DEF NlinkStart, LinkTemp, ChangeName, CountName, CleanupIndex, NlinkEnd
  <1>4. CASE StepFails(p) \/ NlinkStartFails(p) \/ LinkRefused(p) \/ CleanupFails(p)
    BY <1>4 DEF StepFails, NlinkStartFails, LinkRefused, CleanupFails
  <1>q. QED
    BY <1>1, <1>2, <1>3, <1>4 DEF CallStep

\* A call goes on, or ends.
LEMMA GotoPc ==
  ASSUME TypeInv, NEW p \in Procs, NEW l, Goto(p, l)
  PROVE  op'[p].pc = l
PROOF
  <1>1. op[p] \in Op
    BY DEF TypeInv, Op, Pcs
  <1>2. op'[p] = [op[p] EXCEPT !.pc = l]
    BY DEF TypeInv, Goto
  <1>q. QED
    BY <1>1, <1>2 DEF Op

LEMMA CallEnds ==
  ASSUME TypeInv, NEW p \in Procs, op' = [op EXCEPT ![p] = Idle]
  PROVE  op'[p] = Idle /\ op'[p].pc = "idle" /\ op'[p].kind = "idle"
  BY DEF TypeInv, Idle

LEMMA CallBegins ==
  ASSUME TypeInv, NEW p \in Procs,
         NEW k, NEW n, NEW t, op' = [op EXCEPT ![p] = [kind |-> k, name |-> n, to |-> t, pc |-> "copyup"]]
  PROVE  op'[p].kind = k /\ op'[p].name = n /\ op'[p].to = t /\ op'[p].pc = "copyup"
  BY DEF TypeInv

\* Who holds the lock: a step changes it only when p has it, or no one has.
LEMMA HolderStep ==
  ASSUME TypeInv, CallInv, NEW p \in Procs, CallStep(p)
  PROVE  /\ holder' \in {holder, p, NoOne}
         /\ holder' # holder => holder \in {NoOne, p}
         /\ op'[p].pc \in Locked => holder' = p
PROOF
  <1>0. op[p].pc \in Locked => holder = p
    BY DEF CallInv, CallOk
  <1>a. /\ "copyup" \notin Locked /\ "done" \notin Locked /\ "start" \notin Locked
        /\ "idle" \notin Locked
    BY DEF Locked, CopyPcs, NamePcs
  <1>1. CASE \E n \in Names : \/ \E kind \in {"copyup", "unlink", "replace"} : StartOn(p, kind, n)
                              \/ \E m \in Names : StartLink(p, n, m)
    <2>1. holder' = holder /\ op'[p].pc = "copyup"
      BY <1>1, CallBegins DEF StartOn, StartLink
    <2>q. QED
      BY <1>a, <2>1
  <1>2. CASE CopyUpStart(p)
    <2>1. holder = NoOne /\ holder' \in {NoOne, p}
      BY <1>2 DEF CopyUpStart
    <2>2. CASE ent[op[p].name] # "lower"
      <3>1. Goto(p, "done") \/ Goto(p, "start")
        <4>1. op[p].kind = "copyup" => Goto(p, "done")
          BY <1>2, <2>2 DEF CopyUpStart
        <4>2. op[p].kind # "copyup" => Goto(p, "start")
          BY <1>2, <2>2 DEF CopyUpStart
        <4>q. QED
          BY <4>1, <4>2
      <3>2. op'[p].pc \in {"done", "start"}
        BY <3>1, GotoPc
      <3>q. QED
        BY <1>a, <2>1, <3>2
    <2>3. CASE ent[op[p].name] = "lower"
      BY <1>2, <2>1, <2>3 DEF CopyUpStart
    <2>q. QED
      BY <2>2, <2>3
  <1>3. CASE CopyToIndex(p) \/ IndexNlink(p) \/ LinkLower(p) \/ LinkUp(p)
    <2>1. holder' = holder /\ op[p].pc \in Locked
      BY <1>3 DEF CopyToIndex, IndexNlink, LinkLower, LinkUp, Locked, CopyPcs
    <2>q. QED
      BY <1>0, <2>1
  <1>4. CASE LinkUpper(p)
    <2>1. /\ holder' = NoOne /\ op[p].pc = "linkUpper"
          /\ Goto(p, "done") \/ Goto(p, "start")
      BY <1>4 DEF LinkUpper
    <2>2. op[p].pc \in Locked
      BY <2>1 DEF Locked, CopyPcs
    <2>3. op'[p].pc \in {"done", "start"}
      BY <2>1, GotoPc
    <2>q. QED
      BY <1>0, <1>a, <2>1, <2>2, <2>3
  <1>5. CASE CopyUpDone(p)
    <2>1. holder' = holder /\ op'[p].pc = "idle"
      BY <1>5, CallEnds DEF CopyUpDone
    <2>q. QED
      BY <1>a, <2>1
  <1>6. CASE NlinkStart(p)
    BY <1>6 DEF NlinkStart
  <1>7. CASE LinkTemp(p) \/ ChangeName(p) \/ CountName(p)
    <2>1. holder' = holder /\ op[p].pc \in Locked
      BY <1>7 DEF LinkTemp, ChangeName, CountName, Locked, NamePcs
    <2>q. QED
      BY <1>0, <2>1
  <1>8. CASE CleanupIndex(p) \/ NlinkEnd(p) \/ StepFails(p) \/ LinkRefused(p) \/ CleanupFails(p)
    <2>1. Finish(p) /\ op[p].pc \in Locked
      BY <1>8 DEF CleanupIndex, NlinkEnd, StepFails, LinkRefused, CleanupFails, Locked, CopyPcs,
         NamePcs
    <2>2. holder' = NoOne /\ op'[p].pc = "idle"
      BY <2>1, CallEnds DEF Finish
    <2>q. QED
      BY <1>0, <1>a, <2>1, <2>2
  <1>9. CASE NlinkStartFails(p)
    <2>1. holder' = NoOne /\ holder = NoOne /\ op'[p].pc = "idle"
      BY <1>9, CallEnds DEF NlinkStartFails, Finish
    <2>q. QED
      BY <1>a, <2>1
  <1>q. QED
    BY <1>1, <1>2, <1>3, <1>4, <1>5, <1>6, <1>7, <1>8, <1>9 DEF CallStep

\* The types.
LEMMA TypeStep ==
  ASSUME TypeInv, CallInv, EntryInv, NEW p \in Procs, CallStep(p)
  PROVE  TypeInv'
PROOF
  <1> DEFINE X == [base : {"none", "U", "L"}, diff : Int]
             I == [cached : BOOLEAN, nlink : Int, hasUpper : BOOLEAN, indexed : BOOLEAN]
  <1>0. xattr \in X /\ ino \in I /\ ino.nlink \in Int /\ work \in BOOLEAN
    BY DEF TypeInv
  <1>1. ent' \in [Names -> EntKinds] /\ \A n \in Names \ LowerNames : ent'[n] # "lower"
    <2>1. ent' = ent \/ \E x, k : k \in {"link", "gone", "other"} /\ ent' = [ent EXCEPT ![x] = k]
      <3>1. CASE ChangeName(p)
        <4>1. op[p].kind \in Changing
          BY <3>1 DEF ChangeName, CallInv, CallOk, NamePcs
        <4>q. QED
          BY <3>1, <4>1 DEF ChangeName, Changing
      <3>q. QED
        BY <3>1, NamesStep
    <2>q. QED
      BY <2>1 DEF TypeInv, EntKinds
  <1>2. index' \in {"no", "link", "whiteout"}
    BY NamesStep DEF TypeInv, OrphanBecomes
  <1>3. work' \in BOOLEAN
    BY <1>0, NamesStep, Zenon
  <1>4. xattr' \in X /\ (xattr'.base = "none" => xattr' = NoXattr)
    <2>1. CASE xattr' = xattr
      BY <2>1 DEF TypeInv
    <2>2. CASE xattr' = NoXattr
      BY <2>2 DEF NoXattr
    <2>3. CASE xattr' \in {NlinkUpper, NlinkLower}
      BY <2>3, CountsType
    <2>4. CASE xattr' = [base |-> "U", diff |-> -1]
      BY <2>4
    <2>q. QED
      BY <2>1, <2>2, <2>3, <2>4, XattrStep
  <1>5. ino' \in I
    <2>1. CASE ino' = [ino EXCEPT !.hasUpper = TRUE, !.indexed = TRUE]
      BY <1>0, <2>1, Zenon
    <2>2. ASSUME NEW k \in Int, ino' = [ino EXCEPT !.nlink = k]
          PROVE  ino' \in I
      BY <1>0, <2>2, Zenon
    <2>3. ino.nlink + 1 \in Int /\ ino.nlink - 1 \in Int /\ UpperNlink - 1 \in Int
      BY <1>0, UpperFacts
    <2>4. CASE ino' = ino
      BY <1>0, <2>4
    <2>5. CASE ino' = [ino EXCEPT !.nlink = IF op[p].kind = "link" THEN @ + 1 ELSE @ - 1]
      <3>1. ino' = [ino EXCEPT !.nlink = ino.nlink + 1] \/ ino' = [ino EXCEPT !.nlink = ino.nlink - 1]
        BY <2>5
      <3>q. QED
        BY <2>2, <2>3, <3>1
    <2>6. CASE ino' = [ino EXCEPT !.nlink = UpperNlink - 1]
      BY <2>2, <2>3, <2>6
    <2>q. QED
      BY <2>1, <2>4, <2>5, <2>6, InoStep
  <1>6. op' \in [Procs -> Op]
    BY OpStep
  <1>7. holder' \in Procs \cup {NoOne}
    BY HolderStep DEF TypeInv
  <1>8. mounted' \in BOOLEAN /\ nfs_export' \in BOOLEAN /\ uncounted' \in BOOLEAN
    BY NamesStep DEF TypeInv
  <1>q. QED
    BY <1>1, <1>2, <1>3, <1>4, <1>5, <1>6, <1>7, <1>8 DEF TypeInv, Op, Pcs

\* The fields of the inode in memory.
LEMMA InoFields ==
  ASSUME TypeInv, NEW p \in Procs, CallStep(p)
  PROVE  /\ ino'.cached = ino.cached
         /\ \/ CopyToIndex(p) /\ ino'.hasUpper = TRUE /\ ino'.indexed = TRUE
            \/ ~CopyToIndex(p) /\ ino'.hasUpper = ino.hasUpper /\ ino'.indexed = ino.indexed
         /\ \/ ino'.nlink = ino.nlink
            \/ CountName(p) /\ ino'.nlink = IF op[p].kind = "link" THEN ino.nlink + 1 ELSE ino.nlink - 1
            \/ CleanupIndex(p) /\ UpperNlink # 1 /\ ino'.nlink = UpperNlink - 1
PROOF
  <1>0. ino \in [cached : BOOLEAN, nlink : Int, hasUpper : BOOLEAN, indexed : BOOLEAN]
    BY DEF TypeInv
  <1>1. CASE CopyToIndex(p)
    <2>1. ino' = [ino EXCEPT !.hasUpper = TRUE, !.indexed = TRUE]
      BY <1>1 DEF CopyToIndex
    <2>2. ino'.hasUpper = TRUE /\ ino'.indexed = TRUE /\ ino'.cached = ino.cached
          /\ ino'.nlink = ino.nlink
      BY <1>0, <2>1, Zenon
    <2>q. QED
      BY <1>1, <2>2
  <1>2. CASE ~CopyToIndex(p)
    <2>1. ASSUME NEW k, ino' = [ino EXCEPT !.nlink = k]
          PROVE  ino'.cached = ino.cached /\ ino'.hasUpper = ino.hasUpper
                 /\ ino'.indexed = ino.indexed /\ ino'.nlink = k
      BY <1>0, <2>1
    <2>2. CASE ino' = ino
      BY <1>2, <2>2
    <2>3. CASE CountName(p)
      <3>1. ino' = [ino EXCEPT !.nlink = IF op[p].kind = "link" THEN ino.nlink + 1 ELSE ino.nlink - 1]
        BY <2>3 DEF CountName
      <3>q. QED
        BY <1>2, <2>1, <2>3, <3>1
    <2>4. CASE CleanupIndex(p) /\ UpperNlink # 1 /\ ino' = [ino EXCEPT !.nlink = UpperNlink - 1]
      BY <1>2, <2>1, <2>4
    <2>q. QED
      BY <1>2, <2>2, <2>3, <2>4, InoStep
  <1>q. QED
    BY <1>1, <1>2

\* The steps that a call may take at some places.
LEMMA StepAt ==
  ASSUME TypeInv, NEW p \in Procs, CallStep(p)
  PROVE  /\ op[p].pc = "change" => ChangeName(p) \/ StepFails(p) \/ LinkRefused(p)
         /\ op[p].pc = "count" => CountName(p)
         /\ op[p].pc \notin Locked => /\ xattr' = xattr \/ NlinkStart(p)
                                      /\ UNCHANGED <<ent, index, work, ino>>
PROOF
  <1> USE DEF Locked, CopyPcs, NamePcs
  <1>1. CASE \E n \in Names : \/ \E kind \in {"copyup", "unlink", "replace"} : StartOn(p, kind, n)
                              \/ \E m \in Names : StartLink(p, n, m)
    <2>1. op[p] = Idle /\ UNCHANGED <<ent, index, work, xattr, ino>>
      BY <1>1 DEF StartOn, StartLink
    <2>2. op[p].pc = "idle"
      BY <2>1, IdleFields
    <2>q. QED
      BY <2>1, <2>2
  <1>2. CASE \/ CopyUpStart(p) \/ CopyToIndex(p) \/ IndexNlink(p)
             \/ LinkLower(p) \/ LinkUp(p) \/ LinkUpper(p) \/ CopyUpDone(p)
    BY <1>2 DEF CopyUpStart, CopyToIndex, IndexNlink, LinkLower, LinkUp, LinkUpper, CopyUpDone
  <1>3. CASE \/ NlinkStart(p) \/ LinkTemp(p) \/ ChangeName(p) \/ CountName(p)
             \/ CleanupIndex(p) \/ NlinkEnd(p)
    BY <1>3 DEF NlinkStart, LinkTemp, ChangeName, CountName, CleanupIndex, NlinkEnd
  <1>4. CASE StepFails(p) \/ NlinkStartFails(p) \/ LinkRefused(p) \/ CleanupFails(p)
    BY <1>4 DEF StepFails, NlinkStartFails, LinkRefused, CleanupFails
  <1>q. QED
    BY <1>1, <1>2, <1>3, <1>4 DEF CallStep

-----------------------------------------------------------------------------
(* The index entry. *)

LEMMA EntryStep ==
  ASSUME TypeInv, CallInv, EntryInv, NEW p \in Procs, CallStep(p)
  PROVE  EntryInv'
PROOF
  <1>0. CallOk(p)
    BY DEF CallInv
  <1>1. ~mounted' => ~ino'.cached
    BY InoFields, NamesStep DEF EntryInv
  <1>a. ~ino'.cached => ino' = NoInode
    <2>1. SUFFICES ASSUME ~ino.cached
                   PROVE  ino' = ino
      BY InoFields DEF EntryInv
    <2>2. op[p].pc = "idle"
      BY <1>0, <2>1 DEF CallOk
    <2>q. QED
      BY <2>2, StepAt DEF Locked, CopyPcs, NamePcs
  <1>2. ino'.indexed <=> ino'.hasUpper
    BY InoFields DEF EntryInv
  <1>3. ino'.cached /\ index' = "link" => ino'.hasUpper
    <2>1. CASE CopyToIndex(p)
      BY <2>1, InoFields
    <2>2. CASE ~CopyToIndex(p)
      <3>1. index' = "link" => index = "link"
        BY <2>2, NamesStep
      <3>q. QED
        BY <2>2, <3>1, InoFields DEF EntryInv
    <2>q. QED
      BY <2>1, <2>2
  <1>4. Links' # {} => index' = "link" /\ xattr'.base # "none"
    <2>1. SUFFICES ASSUME Links' # {}
                   PROVE  index' = "link" /\ xattr'.base # "none"
      OBVIOUS
    <2>2. CASE LinkUp(p)
      <3>1. index = "link" /\ index' = index /\ xattr' = xattr /\ op[p].pc = "link"
        BY <2>2, UpperFacts DEF LinkUp
      <3>q. QED
        BY <1>0, <3>1 DEF CallOk
    <2>3. CASE ChangeName(p)
      <3>1. op[p].pc = "change" /\ index' = index /\ xattr' = xattr
        BY <2>3 DEF ChangeName
      <3>2. ent[op[p].name] = "link" /\ op[p].name \in Names
        BY <1>0, <3>1 DEF CallOk
      <3>3. Links # {}
        BY <3>2 DEF Links
      <3>q. QED
        BY <3>1, <3>3 DEF EntryInv
    <2>4. CASE ~LinkUp(p) /\ ~ChangeName(p)
      <3>1. ent' = ent
        BY <2>4, NamesStep
      <3>2. Links # {}
        BY <2>1, <3>1 DEF Links
      <3>3. index = "link" /\ xattr.base # "none"
        BY <3>2 DEF EntryInv
      <3>4. ~CopyToIndex(p)
        <4>1. SUFFICES ASSUME CopyToIndex(p)
                       PROVE  FALSE
          OBVIOUS
        <4>2. op[p].pc = "index"
          BY <4>1 DEF CopyToIndex
        <4>3. ~ino.hasUpper /\ ino.cached
          BY <1>0, <4>2 DEF CallOk
        <4>q. QED
          BY <3>3, <4>3 DEF EntryInv
      <3>5. index' = "link"
        <4>1. UpperNlink # 1 \/ ~CleanupIndex(p)
          <5>1. UpperNlink = 1 => Cardinality(Links) = 0
            BY <3>3, UpperFacts, CountFacts
          <5>2. Cardinality(Links) # 0
            BY <3>2, CountFacts
          <5>q. QED
            BY <5>1, <5>2
        <4>q. QED
          BY <3>3, <4>1, NamesStep
      <3>6. xattr'.base # "none"
        <4>1. NlinkUpper.base = "U" /\ NlinkLower.base = "L"
          BY CountsType
        <4>q. QED
          BY <3>3, <3>4, <4>1, XattrStep
      <3>q. QED
        BY <3>5, <3>6
    <2>q. QED
      BY <2>2, <2>3, <2>4
  <1>5. work' => index' = "link"
    <2>1. CASE LinkTemp(p)
      <3>1. UpperNlink > 0 /\ index' = index
        BY <2>1 DEF LinkTemp
      <3>q. QED
        BY <3>1, UpperFacts
    <2>2. CASE ~LinkTemp(p)
      <3>1. work' => work
        BY <2>2, NamesStep
      <3>2. UpperNlink = 1 => ~work
        BY UpperFacts
      <3>q. QED
        BY <3>1, <3>2, NamesStep DEF EntryInv
    <2>q. QED
      BY <2>1, <2>2
  <1>6. work' /\ mounted' => \E q \in Procs : op'[q].pc = "change"
    <2>1. CASE LinkTemp(p)
      BY <2>1, GotoPc DEF LinkTemp
    <2>2. CASE ~LinkTemp(p) /\ work' /\ mounted'
      <3>1. work /\ mounted
        BY <2>2, NamesStep
      <3>2. PICK q \in Procs : op[q].pc = "change"
        BY <3>1 DEF EntryInv
      <3>3. CASE q # p
        BY <3>2, <3>3, OpStep
      <3>4. CASE q = p
        <4>1. LinkRefused(p)
          BY <2>2, <3>2, <3>4, StepAt DEF ChangeName, StepFails
        <4>2. UpperNlink = 0
          BY <4>1 DEF LinkRefused
        <4>3. index = "link"
          BY <3>1 DEF EntryInv
        <4>4. UpperNlink > 0
          BY <4>3, UpperFacts
        <4>q. QED
          BY <4>2, <4>4
      <3>q. QED
        BY <3>3, <3>4
    <2>q. QED
      BY <2>1, <2>2
  <1>q. QED
    BY <1>a, <1>1, <1>2, <1>3, <1>4, <1>5, <1>6, Zenon DEF EntryInv

-----------------------------------------------------------------------------
(* The calls in progress. *)

\* The call of another process while p takes a step.
LEMMA OtherCall ==
  ASSUME TypeInv, CallInv, EntryInv, NEW p \in Procs, CallStep(p), NEW q \in Procs, q # p
  PROVE  CallOk(q)'
PROOF
  <1>0. CallOk(p) /\ CallOk(q)
    BY DEF CallInv
  <1>1. op'[q] = op[q] /\ mounted' = mounted /\ ino'.cached = ino.cached
    BY OpStep, NamesStep, InoFields
  <1>2. CASE op[q].pc \in Locked
    <2>1. holder = q
      BY <1>0, <1>2 DEF CallOk
    <2>2. q # NoOne
      BY NlinkAssumption DEF NoOne
    <2>3. op[p].pc \notin Locked /\ holder' = holder
      BY <1>0, <2>1, <2>2, HolderStep DEF CallOk
    <2>4. UNCHANGED <<ent, index, ino, xattr>>
      BY <2>1, <2>2, <2>3, StepAt DEF NlinkStart
    <2>q. QED
      BY <1>0, <1>1, <2>3, <2>4 DEF CallOk, Ours
  <1>3. CASE op[q].pc \notin Locked
    <2>1. op[q].pc \notin CopyPcs \cup NamePcs
      BY <1>3 DEF Locked
    <2>2. op[q].kind \in Changing =>
            \A n \in Names : (n \in Ours => n \in Ours') /\ (ent[n] \in {"gone", "link"} => ent'[n] = ent[n])
      <3>1. CASE ent' = ent
        BY <3>1 DEF Ours
      <3>2. CASE LinkUp(p)
        <4>1. ent[op[p].name] = "lower" /\ op[p].name \in Names
          BY <1>0, <3>2 DEF LinkUp, CallOk, CopyPcs
        <4>2. ent' = [ent EXCEPT ![op[p].name] = "link"]
          BY <3>2 DEF LinkUp
        <4>q. QED
          BY <4>1, <4>2 DEF Ours, TypeInv
      <3>3. CASE ChangeName(p)
        <4>1. op[p].kind \in Changing
          BY <1>0, <3>3 DEF ChangeName, CallOk, NamePcs
        <4>q. QED
          BY <4>1 DEF CallInv
      <3>q. QED
        BY <3>1, <3>2, <3>3, NamesStep
    <2>3. op[q].pc = "start" => op[q].kind \in Changing /\ op[q].name \in Names /\ ent[op[q].name] = "link"
      BY <1>0 DEF CallOk
    <2>4. op[q].kind \in Changing => op[q].pc # "idle"
      <3>1. op[q].pc = "idle" => op[q].kind = "idle"
        BY <1>0, IdleFields DEF CallOk
      <3>q. QED
        BY <3>1 DEF Changing
    <2>5. op[q].kind \in Changing =>
            /\ op[q].name \in Ours'
            /\ IF op[q].kind = "link" THEN ent'[op[q].to] = "gone" ELSE op[q].to = op[q].name
      <3>1. SUFFICES ASSUME op[q].kind \in Changing
                     PROVE  /\ op[q].name \in Ours'
                            /\ IF op[q].kind = "link" THEN ent'[op[q].to] = "gone"
                                                      ELSE op[q].to = op[q].name
        OBVIOUS
      <3>2. op[q].pc # "idle" /\ op[q].pc \notin {"count", "end"}
        BY <2>1, <2>4, <3>1 DEF NamePcs
      <3>3. /\ op[q].name \in Names /\ op[q].to \in Names /\ op[q].name \in Ours
            /\ IF op[q].kind = "link" THEN ent[op[q].to] = "gone" ELSE op[q].to = op[q].name
        BY <1>0, <3>1, <3>2 DEF CallOk
      <3>q. QED
        BY <2>2, <3>1, <3>3
    <2>6. op[q].pc = "start" => ent'[op[q].name] = "link"
      BY <2>2, <2>3
    <2>q. QED
      BY <1>0, <1>1, <1>3, <2>1, <2>3, <2>5, <2>6 DEF CallOk, CopyPcs, NamePcs
  <1>q. QED
    BY <1>2, <1>3

\* Only one call changes names.
LEMMA OneChanges ==
  ASSUME TypeInv, CallInv, NEW p \in Procs, CallStep(p)
  PROVE  \A q, r \in Procs : op'[q].kind \in Changing /\ op'[r].kind \in Changing => q = r
PROOF
  <1>1. CASE op[p] = Idle
    <2>1. \A q \in Procs : q # p => op'[q] = op[q]
      BY OpStep
    <2>2. op'[p].kind \in Changing => \A q \in Procs : op[q].kind \notin Changing
      <3>1. op[p].pc = "idle"
        BY <1>1, IdleFields
      <3>2. CASE \E n \in Names, kind \in {"copyup", "unlink", "replace"} : StartOn(p, kind, n)
        <4>1. PICK n \in Names, kind \in {"copyup", "unlink", "replace"} : StartOn(p, kind, n)
          BY <3>2
        <4>2. op'[p].kind = kind /\ (kind # "copyup" => ~NamesLocked)
          BY <4>1, CallBegins DEF StartOn
        <4>q. QED
          BY <4>2 DEF NamesLocked, Changing
      <3>3. CASE \E n, m \in Names : StartLink(p, n, m)
        BY <3>3 DEF StartLink, NamesLocked, Changing
      <3>q. QED
        BY <3>1, <3>2, <3>3 DEF CallStep, CopyUpStart, CopyToIndex, IndexNlink,
           LinkLower, LinkUp, LinkUpper, CopyUpDone, NlinkStart, LinkTemp, ChangeName, CountName,
           CleanupIndex, NlinkEnd, StepFails, NlinkStartFails, LinkRefused, CleanupFails
    <2>q. QED
      BY <2>1, <2>2 DEF CallInv
  <1>2. CASE op[p] # Idle
    <2>1. \A q \in Procs : op'[q].kind \in Changing => op[q].kind \in Changing
      <3>1. op'[p].kind \in {"idle", op[p].kind}
        BY <1>2, OpStep, IdleFields
      <3>2. "idle" \notin Changing
        BY DEF Changing
      <3>q. QED
        BY <3>1, <3>2, OpStep
    <2>q. QED
      BY <2>1 DEF CallInv
  <1>q. QED
    BY <1>1, <1>2

\* The call of p itself.
LEMMA OwnCall ==
  ASSUME TypeInv, CallInv, EntryInv, NEW p \in Procs, CallStep(p)
  PROVE  CallOk(p)'
PROOF
  <1> DEFINE o == op[p]
             k == op[p].kind
             n == op[p].name
             t == op[p].to
             l == op'[p].pc
  <1>0. CallOk(p)
    BY DEF CallInv
  <1>a. mounted' = mounted /\ ino'.cached = ino.cached
    BY NamesStep, InoFields
  <1>b. l \in Locked => holder' = p
    BY HolderStep
  <1>c. CASE op'[p] = Idle
    <2>1. l = "idle" /\ op'[p].kind = "idle"
      BY <1>c, IdleFields
    <2>2. l \notin CopyPcs /\ l \notin NamePcs /\ l \notin Locked /\ op'[p].kind \notin Changing
      BY <2>1 DEF CopyPcs, NamePcs, Locked, Changing
    <2>q. QED
      BY <1>c, <2>1, <2>2 DEF CallOk
  <1>d. ASSUME op[p].pc # "idle", l # "idle",
               op'[p].kind = k, op'[p].name = n, op'[p].to = t
        PROVE  /\ l = "idle" <=> op'[p] = Idle
               /\ mounted' /\ ino'.cached /\ k # "idle" /\ n \in Names /\ t \in Names
    <2>1. op'[p] # Idle
      BY <1>d, IdleFields
    <2>q. QED
      BY <1>0, <1>a, <1>d, <2>1 DEF CallOk
  <1>1. CASE \E x \in Names, kind \in {"copyup", "unlink", "replace"} : StartOn(p, kind, x)
    <2>1. PICK x \in Names, kind \in {"copyup", "unlink", "replace"} : StartOn(p, kind, x)
      BY <1>1
    <2>2. op'[p].kind = kind /\ op'[p].name = x /\ op'[p].to = x /\ l = "copyup"
      BY <2>1, CallBegins DEF StartOn
    <2>3. op'[p] # Idle
      BY <2>2, IdleFields
    <2>4. /\ mounted' /\ ino'.cached /\ x \in Ours' /\ kind # "idle" /\ kind # "link"
      BY <1>a, <2>1 DEF StartOn, Ours
    <2>q. QED
      BY <1>b, <2>2, <2>3, <2>4 DEF CallOk, CopyPcs, NamePcs, Locked
  <1>2. CASE \E x, y \in Names : StartLink(p, x, y)
    <2>1. PICK x \in Names, y \in Names : StartLink(p, x, y)
      BY <1>2
    <2>2. op'[p].kind = "link" /\ op'[p].name = x /\ op'[p].to = y /\ l = "copyup"
      BY <2>1, CallBegins DEF StartLink
    <2>3. op'[p] # Idle
      BY <2>2, IdleFields
    <2>4. /\ mounted' /\ ino'.cached /\ x \in Ours' /\ ent'[y] = "gone"
      BY <1>a, <2>1 DEF StartLink, Ours
    <2>q. QED
      BY <1>b, <2>2, <2>3, <2>4 DEF CallOk, CopyPcs, NamePcs, Locked
  <1>3. CASE CopyUpStart(p)
    <2>1. o.pc = "copyup" /\ UNCHANGED <<ent, index, ino, xattr>>
      BY <1>3 DEF CopyUpStart
    <2>2. CASE ent[n] # "lower" /\ k = "copyup"
      <3>1. Goto(p, "done")
        BY <1>3, <2>2 DEF CopyUpStart
      <3>2. l = "done" /\ op'[p].kind = k /\ op'[p].name = n /\ op'[p].to = t
        BY <2>1, <3>1, GotoPc, OpStep, IdleFields
      <3>q. QED
        BY <1>b, <1>d, <2>1, <2>2, <3>2 DEF CallOk, CopyPcs, NamePcs, Locked, Changing
    <2>3. CASE ent[n] # "lower" /\ k # "copyup"
      <3>1. Goto(p, "start")
        BY <1>3, <2>3 DEF CopyUpStart
      <3>2. l = "start" /\ op'[p].kind = k /\ op'[p].name = n /\ op'[p].to = t
        BY <2>1, <3>1, GotoPc, OpStep, IdleFields
      <3>3. k \in Changing
        <4>1. k \in {"idle", "copyup"} \cup Changing
          BY DEF TypeInv
        <4>q. QED
          BY <1>0, <2>1, <2>3, <4>1 DEF CallOk
      <3>4. n \in Ours /\ (IF k = "link" THEN ent[t] = "gone" ELSE t = n)
        BY <1>0, <2>1, <3>3 DEF CallOk
      <3>5. ent[n] = "link"
        BY <2>3, <3>4 DEF Ours
      <3>q. QED
        BY <1>b, <1>d, <2>1, <3>2, <3>3, <3>4, <3>5 DEF CallOk, CopyPcs, NamePcs, Locked, Ours
    <2>4. CASE ent[n] = "lower"
      <3>1. Goto(p, IF ino.hasUpper THEN "linkLower" ELSE "index")
        BY <1>3, <2>4 DEF CopyUpStart
      <3>2. /\ l = IF ino.hasUpper THEN "linkLower" ELSE "index"
            /\ op'[p].kind = k /\ op'[p].name = n /\ op'[p].to = t
        BY <2>1, <3>1, GotoPc, OpStep, IdleFields
      <3>3. k \in Changing => n \in Ours /\ (IF k = "link" THEN ent[t] = "gone" ELSE t = n)
        BY <1>0, <2>1 DEF CallOk
      <3>q. QED
        BY <1>b, <1>d, <2>1, <2>4, <3>2, <3>3 DEF CallOk, CopyPcs, NamePcs, Ours
    <2>q. QED
      BY <2>2, <2>3, <2>4
  <1>e. ASSUME NEW x, Goto(p, x), o.pc # "idle", x # "idle"
        PROVE  l = x /\ op'[p].kind = k /\ op'[p].name = n /\ op'[p].to = t
    BY <1>e, GotoPc, OpStep, IdleFields
  <1>4. CASE CopyToIndex(p)
    <2>1. o.pc = "index" /\ Goto(p, "indexNlink") /\ index' = "link" /\ ent' = ent
      BY <1>4 DEF CopyToIndex
    <2>2. k \in Changing => n \in Ours /\ (IF k = "link" THEN ent[t] = "gone" ELSE t = n)
      BY <1>0, <2>1 DEF CallOk
    <2>3. ent[n] = "lower"
      BY <1>0, <2>1 DEF CallOk, CopyPcs
    <2>q. QED
      BY <1>b, <1>d, <1>e, <2>1, <2>2, <2>3 DEF CallOk, CopyPcs, NamePcs, Ours
  <1>5. CASE IndexNlink(p) \/ LinkLower(p)
    <2>1. /\ o.pc \in {"indexNlink", "linkLower"} /\ UNCHANGED <<ent, index, ino>>
          /\ \/ Goto(p, "linkLower")
             \/ Goto(p, "link") /\ xattr' = NlinkLower
      BY <1>5 DEF IndexNlink, LinkLower
    <2>2. k \in Changing => n \in Ours /\ (IF k = "link" THEN ent[t] = "gone" ELSE t = n)
      BY <1>0, <2>1 DEF CallOk
    <2>3. ent[n] = "lower"
      BY <1>0, <2>1 DEF CallOk, CopyPcs
    <2>4. l = "linkLower" \/ (l = "link" /\ xattr'.base = "L")
      BY <1>e, <2>1, CountsType
    <2>q. QED
      BY <1>b, <1>d, <1>e, <2>1, <2>2, <2>3, <2>4 DEF CallOk, CopyPcs, NamePcs, Ours
  <1>6. CASE LinkUp(p)
    <2>1. /\ o.pc = "link" /\ Goto(p, "linkUpper") /\ UNCHANGED <<index, ino, xattr>>
          /\ ent' = [ent EXCEPT ![n] = "link"]
      BY <1>6 DEF LinkUp
    <2>2. k \in Changing => n \in Ours /\ (IF k = "link" THEN ent[t] = "gone" ELSE t = n)
      BY <1>0, <2>1 DEF CallOk
    <2>3. ent[n] = "lower" /\ n \in Names /\ t \in Names /\ xattr.base = "L"
      BY <1>0, <2>1 DEF CallOk, CopyPcs
    <2>4. ent'[n] = "link" /\ n \in Ours' /\ (t # n => ent'[t] = ent[t])
      BY <2>1, <2>3 DEF TypeInv, Ours
    <2>5. k \in Changing => n \in Ours' /\ (IF k = "link" THEN ent'[t] = "gone" ELSE t = n)
      BY <2>2, <2>3, <2>4
    <2>q. QED
      BY <1>b, <1>d, <1>e, <2>1, <2>3, <2>4, <2>5 DEF CallOk, CopyPcs, NamePcs
  <1>7. CASE LinkUpper(p)
    <2>1. /\ o.pc = "linkUpper" /\ UNCHANGED <<ent, index, ino>>
          /\ Goto(p, IF k = "copyup" THEN "done" ELSE "start")
      BY <1>7 DEF LinkUpper
    <2>2. k \in Changing => n \in Ours /\ (IF k = "link" THEN ent[t] = "gone" ELSE t = n)
      BY <1>0, <2>1 DEF CallOk
    <2>3. ent[n] = "link"
      BY <1>0, <2>1 DEF CallOk
    <2>4. k # "copyup" => k \in Changing
      <3>1. k \in {"idle", "copyup"} \cup Changing
        BY DEF TypeInv
      <3>q. QED
        BY <1>0, <2>1, <3>1 DEF CallOk
    <2>5. l = IF k = "copyup" THEN "done" ELSE "start"
      BY <1>e, <2>1
    <2>q. QED
      BY <1>b, <1>d, <1>e, <2>1, <2>2, <2>3, <2>4, <2>5 DEF CallOk, CopyPcs, NamePcs, Locked, Ours
  <1>8. CASE NlinkStart(p)
    <2>1. /\ o.pc = "start" /\ UNCHANGED <<ent, index, ino>>
          /\ Goto(p, IF k = "link" /\ t \in LowerNames THEN "temp" ELSE "change")
      BY <1>8 DEF NlinkStart
    <2>2. k \in Changing /\ n \in Ours /\ (IF k = "link" THEN ent[t] = "gone" ELSE t = n)
      BY <1>0, <2>1 DEF CallOk
    <2>3. ent[n] = "link" /\ n \in Names /\ ino.cached
      BY <1>0, <2>1 DEF CallOk
    <2>4. l = IF k = "link" /\ t \in LowerNames THEN "temp" ELSE "change"
      BY <1>e, <2>1
    <2>5. ino.indexed
      BY <2>3 DEF EntryInv, Links
    <2>6. xattr'.base = "U"
      BY <1>8, <2>5, CountsType DEF NlinkStart
    <2>q. QED
      BY <1>b, <1>d, <1>e, <2>1, <2>2, <2>3, <2>4, <2>6 DEF CallOk, CopyPcs, NamePcs, Ours
  <1>9. CASE LinkTemp(p)
    <2>1. o.pc = "temp" /\ UNCHANGED <<ent, index, ino, xattr>> /\ Goto(p, "change")
      BY <1>9 DEF LinkTemp
    <2>2. k \in Changing
      BY <1>0, <2>1 DEF CallOk, NamePcs
    <2>3. /\ n \in Ours /\ (IF k = "link" THEN ent[t] = "gone" ELSE t = n) /\ ent[n] = "link"
          /\ xattr.base = "U"
      BY <1>0, <2>1, <2>2 DEF CallOk
    <2>q. QED
      BY <1>b, <1>d, <1>e, <2>1, <2>2, <2>3 DEF CallOk, CopyPcs, NamePcs, Ours
  <1>10. CASE ChangeName(p)
    <2>1. o.pc = "change" /\ UNCHANGED <<index, ino, xattr>> /\ Goto(p, "count")
      BY <1>10 DEF ChangeName
    <2>2. k \in Changing
      BY <1>0, <2>1 DEF CallOk, NamePcs
    <2>3. ent[n] = "link" /\ n \in Names
      BY <1>0, <2>1 DEF CallOk
    <2>4. index = "link"
      BY <2>3 DEF EntryInv, Links
    <2>5. k = "link" => n \in Ours'
      <3>1. SUFFICES ASSUME k = "link"
                     PROVE  n \in Ours'
        OBVIOUS
      <3>2. ent[t] = "gone"
        BY <1>0, <2>1, <2>2, <3>1 DEF CallOk
      <3>3. ent' = [ent EXCEPT ![t] = "link"]
        BY <1>10, <3>1 DEF ChangeName
      <3>q. QED
        BY <2>3, <3>2, <3>3 DEF Ours, TypeInv
    <2>q. QED
      BY <1>b, <1>d, <1>e, <2>1, <2>2, <2>4, <2>5 DEF CallOk, CopyPcs, NamePcs
  <1>11. CASE CountName(p)
    <2>1. o.pc = "count" /\ UNCHANGED <<ent, index, xattr>> /\ Goto(p, "end")
      BY <1>11 DEF CountName
    <2>2. k \in Changing
      BY <1>0, <2>1 DEF CallOk, NamePcs
    <2>3. index = "link"
      BY <1>0, <2>1 DEF CallOk
    <2>q. QED
      BY <1>b, <1>d, <1>e, <2>1, <2>2, <2>3 DEF CallOk, CopyPcs, NamePcs
  <1>12. CASE \/ CopyUpDone(p) \/ CleanupIndex(p) \/ NlinkEnd(p) \/ StepFails(p)
              \/ NlinkStartFails(p) \/ LinkRefused(p) \/ CleanupFails(p)
    <2>1. op' = [op EXCEPT ![p] = Idle]
      BY <1>12 DEF CopyUpDone, CleanupIndex, NlinkEnd, StepFails, NlinkStartFails, LinkRefused,
         CleanupFails, Finish
    <2>q. QED
      BY <1>c, <2>1, CallEnds
  <1>q. QED
    BY <1>1, <1>2, <1>3, <1>4, <1>5, <1>6, <1>7, <1>8, <1>9, <1>10, <1>11, <1>12 DEF CallStep

LEMMA CallsStep ==
  ASSUME TypeInv, CallInv, EntryInv, NEW p \in Procs, CallStep(p)
  PROVE  CallInv'
PROOF
  <1>1. \A q \in Procs : CallOk(q)'
    BY OwnCall, OtherCall
  <1>q. QED
    BY <1>1, OneChanges DEF CallInv

-----------------------------------------------------------------------------
(* The counts. *)

\* While p holds the lock, or no one does, no other call is between its change of the
\* names and that of the count.
LEMMA NoneCounts ==
  ASSUME TypeInv, CallInv, NEW p \in Procs, op[p].pc # "count", holder \in {p, NoOne},
         NEW q \in Procs
  PROVE  op[q].pc # "count"
PROOF
  <1>1. op[q].pc = "count" => holder = q
    BY DEF CallInv, CallOk, Locked, NamePcs
  <1>2. q # NoOne
    BY NlinkAssumption DEF NoOne
  <1>q. QED
    BY <1>1, <1>2

LEMMA ToCount ==
  ASSUME TypeInv, NEW p \in Procs, CallStep(p), ~ChangeName(p)
  PROVE  op'[p].pc # "count"
PROOF
  <1>1. CASE \E n \in Names : \/ \E kind \in {"copyup", "unlink", "replace"} : StartOn(p, kind, n)
                              \/ \E m \in Names : StartLink(p, n, m)
    <2>1. op'[p].pc = "copyup"
      BY <1>1, CallBegins DEF StartOn, StartLink
    <2>q. QED
      BY <2>1
  <1>2. ASSUME NEW l, Goto(p, l), l # "count"
        PROVE  op'[p].pc # "count"
    BY <1>2, GotoPc
  <1>3. CASE \/ CopyUpStart(p) \/ CopyToIndex(p) \/ IndexNlink(p)
             \/ LinkLower(p) \/ LinkUp(p) \/ LinkUpper(p)
    <2>1. \E l \in {"done", "start", "linkLower", "index", "indexNlink", "link", "linkUpper"} :
            Goto(p, l)
      BY <1>3 DEF CopyUpStart, CopyToIndex, IndexNlink, LinkLower, LinkUp, LinkUpper
    <2>q. QED
      BY <1>2, <2>1
  <1>4. CASE NlinkStart(p) \/ LinkTemp(p) \/ CountName(p)
    <2>1. \E l \in {"temp", "change", "end"} : Goto(p, l)
      BY <1>4 DEF NlinkStart, LinkTemp, CountName
    <2>q. QED
      BY <1>2, <2>1
  <1>5. CASE \/ CopyUpDone(p) \/ CleanupIndex(p) \/ NlinkEnd(p) \/ StepFails(p)
             \/ NlinkStartFails(p) \/ LinkRefused(p) \/ CleanupFails(p)
    <2>1. op' = [op EXCEPT ![p] = Idle]
      BY <1>5 DEF CopyUpDone, CleanupIndex, NlinkEnd, StepFails, NlinkStartFails, LinkRefused,
         CleanupFails, Finish
    <2>q. QED
      BY <2>1, CallEnds
  <1>q. QED
    BY <1>1, <1>3, <1>4, <1>5 DEF CallStep

\* At count 0 nothing but the index is left: the safety measure of ovl_cleanup_index is
\* never needed as long as the counts are right.
LEMMA NothingLeft ==
  ASSUME TypeInv, CallInv, EntryInv, CountInv, NEW p \in Procs, CleanupIndex(p), ~uncounted
  PROVE  Ours = {} /\ UpperNlink = 1
PROOF
  <1>1. op[p].pc = "end" /\ ino.nlink = 0
    BY DEF CleanupIndex
  <1>2. holder = p /\ index = "link" /\ ino.cached /\ mounted
    BY <1>1 DEF CallInv, CallOk, Locked, NamePcs
  <1>3. \A q \in Procs : op[q].pc # "count"
    BY <1>1, <1>2, NoneCounts
  <1>4. Cardinality(Ours) = 0
    BY <1>1, <1>2, <1>3 DEF CountInv
  <1>5. Ours = {} /\ Links = {} /\ Cardinality(Links) = 0
    BY <1>4, CountFacts
  <1>6. ~work
    BY <1>1, <1>2, NoWork DEF Locked, NamePcs
  <1>7. UpperNlink = Cardinality(Links) + 1
    BY <1>2, <1>6, UpperFacts
  <1>q. QED
    BY <1>5, <1>7

\* How a change of the names changes the counts.
LEMMA ChangeCounts ==
  ASSUME TypeInv, CallInv, NEW p \in Procs, ChangeName(p)
  PROVE  /\ op[p].kind = "link" => /\ Cardinality(Ours)' = Cardinality(Ours) + 1
                                   /\ Cardinality(Links)' = Cardinality(Links) + 1
         /\ op[p].kind # "link" => /\ Cardinality(Ours)' = Cardinality(Ours) - 1
                                   /\ Cardinality(Links)' = Cardinality(Links) - 1
PROOF
  <1>1. op[p].pc = "change"
    BY DEF ChangeName
  <1>2. op[p].kind \in Changing /\ op[p].to \in Names
    BY <1>1 DEF CallInv, CallOk, NamePcs
  <1>3. /\ IF op[p].kind = "link" THEN ent[op[p].to] = "gone" ELSE op[p].to = op[p].name
        /\ ent[op[p].name] = "link"
    BY <1>1, <1>2 DEF CallInv, CallOk
  <1>4. CASE op[p].kind = "link"
    <2>1. ent' = [ent EXCEPT ![op[p].to] = "link"]
      BY <1>4 DEF ChangeName
    <2>2. op[p].to \notin Ours
      BY <1>3, <1>4 DEF Ours
    <2>q. QED
      BY <1>2, <1>4, <2>1, <2>2, NameAdded
  <1>5. CASE op[p].kind # "link"
    <2>1. \E k \in {"gone", "other"} : ent' = [ent EXCEPT ![op[p].to] = k]
      BY <1>2, <1>5 DEF ChangeName, Changing
    <2>2. ent[op[p].to] = "link"
      BY <1>3, <1>5
    <2>q. QED
      BY <1>2, <1>5, <2>1, <2>2, NameRemoved
  <1>q. QED
    BY <1>4, <1>5

LEMMA CountStep ==
  ASSUME TypeInv, CallInv, EntryInv, CountInv, NEW p \in Procs, CallStep(p)
  PROVE  CountInv'
PROOF
  <1>1. SUFFICES ASSUME ino.cached, ~uncounted
                 PROVE  /\ (\A q \in Procs : op'[q].pc # "count") => ino'.nlink = Cardinality(Ours)'
                        /\ \A q \in Procs : op'[q].pc = "count" =>
                             ino'.nlink = Cardinality(Ours)'
                                            + (IF op'[q].kind = "link" THEN -1 ELSE 1)
    BY NamesStep, InoFields DEF CountInv
  <1>2. /\ (\A q \in Procs : op[q].pc # "count") => ino.nlink = Cardinality(Ours)
        /\ \A q \in Procs : op[q].pc = "count" =>
             ino.nlink = Cardinality(Ours) + (IF op[q].kind = "link" THEN -1 ELSE 1)
    BY <1>1 DEF CountInv
  <1>0. CallOk(p) /\ Cardinality(Ours) \in Nat
    BY CountFacts DEF CallInv
  <1>3. CASE ChangeName(p)
    <2>1. op[p].pc = "change" /\ ino' = ino /\ Goto(p, "count")
      BY <1>3 DEF ChangeName
    <2>2. holder = p
      BY <1>0, <2>1 DEF CallOk, Locked, NamePcs
    <2>3. \A q \in Procs : op[q].pc # "count"
      BY <2>1, <2>2, NoneCounts
    <2>4. ino.nlink = Cardinality(Ours)
      BY <1>2, <2>3
    <2>5. op'[p].pc = "count" /\ op'[p].kind = op[p].kind
      BY <2>1, GotoPc, OpStep, IdleFields
    <2>6. \A q \in Procs : q # p => op'[q].pc # "count"
      BY <2>3, OpStep
    <2>7. ino.nlink = Cardinality(Ours)' + (IF op[p].kind = "link" THEN -1 ELSE 1)
      BY <1>0, <1>3, <2>4, ChangeCounts
    <2>q. QED
      BY <2>1, <2>5, <2>6, <2>7
  <1>4. CASE CountName(p)
    <2>1. /\ op[p].pc = "count" /\ ent' = ent /\ Goto(p, "end")
          /\ ino' = [ino EXCEPT !.nlink = IF op[p].kind = "link" THEN @ + 1 ELSE @ - 1]
      BY <1>4 DEF CountName
    <2>2. holder = p
      BY <1>0, <2>1 DEF CallOk, Locked, NamePcs
    <2>3. \A q \in Procs : q # p => op[q].pc # "count"
      <3>1. \A q \in Procs : op[q].pc = "count" => holder = q
        BY DEF CallInv, CallOk, Locked, NamePcs
      <3>q. QED
        BY <2>2, <3>1
    <2>4. \A q \in Procs : op'[q].pc # "count"
      BY <2>1, <2>3, GotoPc, OpStep
    <2>5. ino.nlink = Cardinality(Ours) + (IF op[p].kind = "link" THEN -1 ELSE 1)
      BY <1>2, <2>1
    <2>6. ino'.nlink = IF op[p].kind = "link" THEN ino.nlink + 1 ELSE ino.nlink - 1
      BY <2>1 DEF TypeInv
    <2>7. Cardinality(Ours)' = Cardinality(Ours)
      BY <2>1 DEF Ours
    <2>8. ino'.nlink = Cardinality(Ours)
      BY <1>0, <2>5, <2>6
    <2>q. QED
      BY <2>4, <2>7, <2>8
  <1>5. CASE ~ChangeName(p) /\ ~CountName(p)
    <2>1. op[p].pc # "count" /\ op'[p].pc # "count"
      BY <1>5, StepAt, ToCount
    <2>2. ino'.nlink = ino.nlink
      BY <1>1, <1>5, InoFields, NothingLeft
    <2>3. Cardinality(Ours)' = Cardinality(Ours)
      <3>1. CASE LinkUp(p)
        <4>1. op[p].pc = "link" /\ ent' = [ent EXCEPT ![op[p].name] = "link"]
          BY <3>1 DEF LinkUp
        <4>2. ent[op[p].name] = "lower" /\ op[p].name \in Names
          BY <1>0, <4>1 DEF CallOk, CopyPcs
        <4>3. Ours' = Ours
          BY <4>1, <4>2, NameCopied
        <4>q. QED
          BY <4>3
      <3>2. CASE ent' = ent
        BY <3>2 DEF Ours
      <3>q. QED
        BY <1>5, <3>1, <3>2, NamesStep
    <2>4. \A q \in Procs : /\ op'[q].pc = "count" <=> op[q].pc = "count"
                           /\ op[q].pc = "count" => op'[q] = op[q]
      BY <2>1, OpStep
    <2>q. QED
      BY <1>2, <2>2, <2>3, <2>4
  <1>q. QED
    BY <1>3, <1>4, <1>5

LEMMA StoredStep ==
  ASSUME TypeInv, CallInv, EntryInv, CountInv, StoredInv, NEW p \in Procs, CallStep(p)
  PROVE  StoredInv'
PROOF
  <1>1. SUFFICES ASSUME ~uncounted
                 PROVE  /\ index' = "link" /\ xattr'.base # "none" => Stored' = Cardinality(Ours)'
                        /\ index' # "link" \/ xattr'.base = "none" =>
                             Ours' = {} \/ \A n \in LowerNames : ent'[n] = "lower"
                        /\ index' = "whiteout" => Ours' = {}
    BY NamesStep DEF StoredInv
  <1>2. /\ index = "link" /\ xattr.base # "none" => Stored = Cardinality(Ours)
        /\ index # "link" \/ xattr.base = "none" =>
             Ours = {} \/ \A n \in LowerNames : ent[n] = "lower"
        /\ index = "whiteout" => Ours = {}
    BY <1>1 DEF StoredInv
  <1>0. CallOk(p)
    BY DEF CallInv
  <1>a. /\ Cardinality(Links) \in Nat /\ Cardinality(Ours) \in Nat /\ LowerNlink \in Nat
        /\ xattr.diff \in Int
    BY CountFacts DEF TypeInv
  <1>3. CASE UNCHANGED <<ent, index, xattr>>
    BY <1>2, <1>3 DEF Stored, Links, Ours
  <1>4. CASE CopyToIndex(p)
    <2>1. op[p].pc = "index" /\ index' = "link" /\ xattr' = NoXattr /\ ent' = ent
      BY <1>4 DEF CopyToIndex
    <2>2. index # "link"
      BY <1>0, <2>1 DEF CallOk, EntryInv
    <2>3. xattr'.base = "none"
      BY <2>1 DEF NoXattr
    <2>q. QED
      BY <1>2, <2>1, <2>2, <2>3 DEF Ours
  <1>5. CASE /\ UNCHANGED <<ent, index>> /\ xattr' \in {NlinkUpper, NlinkLower}
             /\ op[p].pc \in {"indexNlink", "linkLower", "linkUpper", "start"}
             /\ holder \in {p, NoOne} /\ (op[p].pc = "start" => holder = NoOne)
    <2>1. \A q \in Procs : op[q].pc # "count"
      BY <1>5, NoneCounts
    <2>2. ino.cached /\ mounted
      BY <1>0, <1>5 DEF CallOk
    <2>3. ino.nlink = Cardinality(Ours)
      BY <1>1, <2>1, <2>2 DEF CountInv
    <2>4. ~work
      <3>1. holder = NoOne \/ op[p].pc \in Locked \ {"change"}
        BY <1>5 DEF Locked, CopyPcs
      <3>q. QED
        BY <2>2, <3>1, NoWork
    <2>5. index = "link" => UpperNlink = Cardinality(Links) + 1
      BY <2>4, UpperFacts
    <2>6. index = "link" => Stored' = Cardinality(Ours)
      <3>1. Cardinality(Links)' = Cardinality(Links)
        BY <1>5 DEF Links
      <3>2. CASE xattr' = NlinkUpper /\ index = "link"
        <4>1. xattr'.base = "U" /\ xattr'.diff = ino.nlink - UpperNlink
          BY <3>2, CountsType
        <4>2. Stored' = Cardinality(Links)' + 1 + xattr'.diff
          BY <4>1 DEF Stored
        <4>3. Cardinality(Links) + 1 + (Cardinality(Ours) - (Cardinality(Links) + 1)) = Cardinality(Ours)
          BY <1>a
        <4>q. QED
          BY <2>3, <2>5, <3>1, <3>2, <4>1, <4>2, <4>3
      <3>3. CASE xattr' = NlinkLower
        <4>1. xattr'.base = "L" /\ xattr'.diff = ino.nlink - LowerNlink
          BY <3>3, CountsType
        <4>2. Stored' = LowerNlink + xattr'.diff
          BY <4>1 DEF Stored, LowerNlink
        <4>q. QED
          BY <1>a, <2>3, <4>1, <4>2
      <3>q. QED
        BY <1>5, <3>2, <3>3
    <2>7. xattr'.base # "none"
      BY <1>5, CountsType
    <2>q. QED
      BY <1>2, <1>5, <2>6, <2>7 DEF Ours
  <1>6. CASE LinkUp(p)
    <2>1. /\ op[p].pc = "link" /\ ent' = [ent EXCEPT ![op[p].name] = "link"]
          /\ UNCHANGED <<index, xattr>> /\ UpperNlink > 0
      BY <1>6 DEF LinkUp
    <2>2. ent[op[p].name] = "lower" /\ op[p].name \in Names /\ xattr.base = "L"
      BY <1>0, <2>1 DEF CallOk, CopyPcs
    <2>3. index = "link"
      BY <2>1, UpperFacts
    <2>4. Ours' = Ours
      BY <2>1, <2>2, NameCopied
    <2>5. Stored' = Stored
      BY <2>1, <2>2 DEF Stored, LowerNlink
    <2>q. QED
      BY <1>2, <2>1, <2>2, <2>3, <2>4, <2>5
  <1>7. CASE ChangeName(p)
    <2>1. op[p].pc = "change" /\ UNCHANGED <<index, xattr>>
      BY <1>7 DEF ChangeName
    <2>2. ent[op[p].name] = "link" /\ op[p].name \in Names /\ xattr.base = "U"
      BY <1>0, <2>1 DEF CallOk
    <2>3. index = "link"
      BY <2>2 DEF EntryInv, Links
    <2>4. /\ Stored = Cardinality(Links) + 1 + xattr.diff
          /\ Stored' = Cardinality(Links)' + 1 + xattr.diff
      BY <2>1, <2>2 DEF Stored
    <2>5. Stored' - Cardinality(Ours)' = Stored - Cardinality(Ours)
      BY <1>7, <1>a, <2>4, ChangeCounts
    <2>6. Stored' = Cardinality(Ours)'
      <3>1. Stored = Cardinality(Ours)
        BY <1>2, <2>2, <2>3
      <3>2. Cardinality(Ours)' \in Int /\ Cardinality(Links)' \in Int
        BY <1>7, <1>a, ChangeCounts
      <3>q. QED
        BY <1>a, <2>4, <2>5, <3>1, <3>2
    <2>q. QED
      BY <2>1, <2>2, <2>3, <2>6
  <1>8. CASE CleanupIndex(p)
    <2>1. Ours = {} /\ UpperNlink = 1
      BY <1>1, <1>8, NothingLeft
    <2>2. ent' = ent /\ xattr' = xattr
      BY <1>8, <2>1 DEF CleanupIndex
    <2>3. Ours' = {}
      BY <2>1, <2>2 DEF Ours
    <2>4. index' # "link"
      BY <1>8, <2>1 DEF CleanupIndex, OrphanBecomes
    <2>q. QED
      BY <2>3, <2>4
  <1>9. CASE IndexNlink(p) \/ LinkLower(p) \/ LinkUpper(p) \/ NlinkStart(p)
    <2>1. /\ UNCHANGED <<ent, index>>
          /\ op[p].pc \in {"indexNlink", "linkLower", "linkUpper", "start"}
          /\ xattr' \in {xattr, NlinkUpper, NlinkLower}
          /\ op[p].pc = "start" => holder = NoOne
      BY <1>9 DEF IndexNlink, LinkLower, LinkUpper, NlinkStart
    <2>2. holder \in {p, NoOne}
      BY <1>0, <2>1 DEF CallOk, Locked, CopyPcs
    <2>q. QED
      BY <1>3, <1>5, <2>1, <2>2
  <1>10. CASE /\ ~CopyToIndex(p) /\ ~LinkUp(p) /\ ~ChangeName(p) /\ ~CleanupIndex(p)
              /\ ~IndexNlink(p) /\ ~LinkLower(p) /\ ~LinkUpper(p) /\ ~NlinkStart(p)
    <2>1. UNCHANGED <<ent, index, xattr>>
      BY <1>10, NamesStep, XattrStep
    <2>q. QED
      BY <1>3, <2>1
  <1>q. QED
    BY <1>4, <1>6, <1>7, <1>8, <1>9, <1>10

-----------------------------------------------------------------------------
(* Lookup, eviction, crash and mount. *)

\* While the inode is not in memory there are no calls.
LEMMA NoCalls ==
  ASSUME CallInv, ~ino.cached, NEW p \in Procs
  PROVE  op[p] = Idle /\ op[p].pc = "idle"
  BY DEF CallInv, CallOk

\* No call in progress: nothing to show about calls.
LEMMA IdleCalls ==
  ASSUME \A p \in Procs : op[p] = Idle
  PROVE  CallInv
PROOF
  <1>1. \A p \in Procs : op[p].pc = "idle" /\ op[p].kind = "idle"
    BY IdleFields
  <1>2. /\ "idle" \notin CopyPcs /\ "idle" \notin NamePcs /\ "idle" \notin Locked
        /\ "idle" \notin Changing
    BY DEF CopyPcs, NamePcs, Locked, Changing
  <1>q. QED
    BY <1>1, <1>2 DEF CallInv, CallOk

LEMMA IdleCallsNext ==
  ASSUME \A p \in Procs : op'[p] = Idle
  PROVE  CallInv'
PROOF
  <1>1. \A p \in Procs : op'[p].pc = "idle" /\ op'[p].kind = "idle"
    BY IdleFields
  <1>2. /\ "idle" \notin CopyPcs /\ "idle" \notin NamePcs /\ "idle" \notin Locked
        /\ "idle" \notin Changing
    BY DEF CopyPcs, NamePcs, Locked, Changing
  <1>q. QED
    BY <1>1, <1>2 DEF CallInv, CallOk

\* What the stored count says, for an index that has one.
LEMMA StoredCount ==
  ASSUME TypeInv, EntryInv, StoredInv, ~uncounted, index = "link", xattr.base # "none",
         NEW fallback
  PROVE  GetNlink(Cardinality(Links) + 1, fallback) =
           IF Ours = {} THEN fallback ELSE Cardinality(Ours)
PROOF
  <1>1. Stored = Cardinality(Ours)
    BY DEF StoredInv
  <1>2. GetNlink(Cardinality(Links) + 1, fallback) = IF Stored <= 0 THEN fallback ELSE Stored
    BY DEF GetNlink, Stored
  <1>3. Cardinality(Ours) \in Nat /\ (Cardinality(Ours) = 0 <=> Ours = {})
    BY CountFacts
  <1>q. QED
    BY <1>1, <1>2, <1>3

\* Without a count, or without an index, the lower names are all there are.
LEMMA Untouched ==
  ASSUME TypeInv, EntryInv, StoredInv, ~uncounted, index # "link", Ours # {}
  PROVE  Cardinality(Ours) = LowerNlink
PROOF
  <1>1. \A n \in LowerNames : ent[n] = "lower"
    BY DEF StoredInv
  <1>2. Links = {}
    BY DEF EntryInv
  <1>3. Ours = LowerNames
    BY <1>1, <1>2, NlinkAssumption DEF Ours, Links, TypeInv
  <1>q. QED
    BY <1>3 DEF LowerNlink

LEMMA LookupStep ==
  ASSUME NlinkInv, Lookup
  PROVE  NlinkInv'
PROOF
  <1>0. TypeInv /\ CallInv /\ EntryInv /\ CountInv /\ StoredInv
    BY DEF NlinkInv
  <1>1. /\ UNCHANGED <<ent, index, work, xattr, op, holder, mounted, nfs_export>>
        /\ mounted /\ ~ino.cached /\ Ours # {} /\ index # "whiteout"
        /\ uncounted' = (uncounted \/ Uncounted)
    BY DEF Lookup
  <1> DEFINE k == IF index = "link" THEN GetNlink(UpperNlink, UpperNlink) ELSE LowerNlink
             b == index = "link"
  <1>2. ino' = [cached |-> TRUE, hasUpper |-> b, indexed |-> b, nlink |-> k]
    BY DEF Lookup
  <1>3. k \in Int
    <2>1. UpperNlink \in Nat /\ LowerNlink \in Nat /\ xattr.diff \in Int
      BY <1>0, UpperFacts, CountFacts DEF TypeInv
    <2>q. QED
      BY <2>1 DEF GetNlink
  <1>4. b \in BOOLEAN /\ (b <=> index = "link")
    OBVIOUS
  <1> HIDE DEF b, k
  <1>5. /\ ino' \in [cached : BOOLEAN, nlink : Int, hasUpper : BOOLEAN, indexed : BOOLEAN]
        /\ ino'.cached = TRUE /\ ino'.hasUpper = b /\ ino'.indexed = b /\ ino'.nlink = k
    BY <1>2, <1>3, <1>4, Zenon
  <1>6. uncounted' \in BOOLEAN
    BY <1>1, Zenon
  <1>7. TypeInv'
    BY <1>0, <1>1, <1>5, <1>6 DEF TypeInv
  <1>8. CallInv'
    BY <1>0, <1>1, NoCalls, IdleCallsNext
  <1>9. EntryInv'
    BY <1>0, <1>1, <1>4, <1>5 DEF EntryInv, Links
  <1>10. CountInv'
    <2>1. SUFFICES ASSUME ~uncounted'
                   PROVE  /\ (\A q \in Procs : op'[q].pc # "count") => ino'.nlink = Cardinality(Ours)'
                          /\ \A q \in Procs : op'[q].pc = "count" =>
                               ino'.nlink = Cardinality(Ours)'
                                              + (IF op'[q].kind = "link" THEN -1 ELSE 1)
      BY DEF CountInv
    <2>2. \A q \in Procs : op'[q].pc = "idle"
      BY <1>0, <1>1, NoCalls
    <2>3. Cardinality(Ours)' = Cardinality(Ours)
      BY <1>1 DEF Ours
    <2>4. k = Cardinality(Ours)
      <3>1. CASE index # "link"
        BY <1>0, <1>1, <2>1, <3>1, Untouched DEF k
      <3>2. CASE index = "link"
        <4>1. xattr.base # "none"
          BY <1>0, <1>1, <2>1, <3>2 DEF TypeInv, Uncounted
        <4>2. ~work
          <5>1. \A q \in Procs : op[q].pc # "change"
            BY <1>0, <1>1, NoCalls
          <5>q. QED
            BY <1>0, <1>1, <5>1 DEF EntryInv
        <4>3. UpperNlink = Cardinality(Links) + 1
          BY <1>0, <3>2, <4>2, UpperFacts
        <4>4. GetNlink(Cardinality(Links) + 1, UpperNlink) = Cardinality(Ours)
          BY <1>0, <1>1, <2>1, <3>2, <4>1, StoredCount
        <4>q. QED
          BY <3>2, <4>3, <4>4 DEF k
      <3>q. QED
        BY <3>1, <3>2
    <2>q. QED
      BY <1>5, <2>2, <2>3, <2>4
  <1>11. StoredInv'
    BY <1>0, <1>1 DEF StoredInv, Stored, Links, Ours
  <1>q. QED
    BY <1>7, <1>8, <1>9, <1>10, <1>11 DEF NlinkInv

\* The inode is forgotten: Evict and Crash.
LEMMA Forgotten ==
  ASSUME NlinkInv, ino' = NoInode, \A p \in Procs : op'[p] = Idle,
         op' \in [Procs -> Op], holder' \in Procs \cup {NoOne}, mounted' \in BOOLEAN,
         ~mounted' \/ ~work, UNCHANGED <<ent, index, work, xattr, nfs_export, uncounted>>
  PROVE  NlinkInv'
PROOF
  <1>0. TypeInv /\ CallInv /\ EntryInv /\ CountInv /\ StoredInv
    BY DEF NlinkInv
  <1>1. /\ ino' \in [cached : BOOLEAN, nlink : Int, hasUpper : BOOLEAN, indexed : BOOLEAN]
        /\ ino'.cached = FALSE /\ ino'.hasUpper = FALSE /\ ino'.indexed = FALSE
    BY DEF NoInode
  <1>2. TypeInv'
    BY <1>0, <1>1 DEF TypeInv, Op, Pcs
  <1>3. CallInv'
    BY IdleCallsNext
  <1>4. EntryInv'
    BY <1>0, <1>1 DEF EntryInv, Links
  <1>5. CountInv'
    BY <1>1 DEF CountInv
  <1>6. StoredInv'
    BY <1>0 DEF StoredInv, Stored, Links, Ours
  <1>q. QED
    BY <1>2, <1>3, <1>4, <1>5, <1>6 DEF NlinkInv

LEMMA EvictCrashStep ==
  ASSUME NlinkInv, Evict \/ Crash
  PROVE  NlinkInv'
PROOF
  <1>0. TypeInv /\ CallInv /\ EntryInv /\ Idle \in Op
    BY DEF NlinkInv, Op, Pcs, Idle
  <1>1. CASE Evict
    <2>1. \A p \in Procs : op[p] = Idle /\ op[p].pc = "idle"
      BY <1>1, IdleFields DEF Evict
    <2>2. ~work
      BY <1>0, <1>1, <2>1 DEF Evict, EntryInv
    <2>q. QED
      BY <1>0, <1>1, <2>1, <2>2, Forgotten DEF Evict, options, TypeInv, Op, Pcs
  <1>2. CASE Crash
    <2>1. /\ ino' = NoInode /\ op' = [p \in Procs |-> Idle] /\ holder' = NoOne /\ mounted' = FALSE
          /\ UNCHANGED <<ent, index, work, xattr, nfs_export, uncounted>>
      BY <1>2 DEF Crash, options
    <2>2. op' \in [Procs -> Op] /\ \A p \in Procs : op'[p] = Idle
      BY <1>0, <2>1
    <2>q. QED
      BY <2>1, <2>2, Forgotten
  <1>q. QED
    BY <1>1, <1>2

\* What the next mount makes of the index.
LEMMA CleanedFacts ==
  ASSUME TypeInv, EntryInv, StoredInv
  PROVE  /\ CleanedIndex = "link" => index = "link"
         /\ CleanedIndex \in {"no", "link", "whiteout"}
         /\ Links # {} => CleanedIndex = "link"
         /\ ~uncounted /\ ~Uncounted /\ CleanedIndex # index => Ours = {}
PROOF
  <1>1. CleanedIndex = index \/ (index = "link" /\ IsOrphan /\ CleanedIndex \in {"no", "whiteout"})
    BY DEF CleanedIndex, OrphanBecomes
  <1>2. ASSUME index = "link", IsOrphan
        PROVE  Links = {} /\ (~uncounted /\ ~Uncounted => Ours = {})
    <2>1. UpperNlink - One(work) = Cardinality(Links) + 1
      BY <1>2, UpperFacts
    <2>2. Cardinality(Links) + 1 = 1 /\ GetNlink(Cardinality(Links) + 1, 0) = 0
      BY <1>2, <2>1 DEF IsOrphan
    <2>3. Cardinality(Links) \in Nat /\ (Cardinality(Links) = 0 <=> Links = {})
      BY CountFacts
    <2>4. Links = {}
      BY <2>2, <2>3
    <2>5. ASSUME ~uncounted, ~Uncounted
          PROVE  Ours = {}
      <3>1. xattr.base # "none"
        BY <1>2, <2>5 DEF Uncounted, TypeInv
      <3>2. GetNlink(Cardinality(Links) + 1, 0) = IF Ours = {} THEN 0 ELSE Cardinality(Ours)
        BY <1>2, <2>5, <3>1, StoredCount
      <3>q. QED
        BY <2>2, <3>2, CountFacts
    <2>q. QED
      BY <2>4, <2>5
  <1>q. QED
    BY <1>1, <1>2 DEF TypeInv, EntryInv

LEMMA MountStep ==
  ASSUME NlinkInv, Mount
  PROVE  NlinkInv'
PROOF
  <1>0. TypeInv /\ CallInv /\ EntryInv /\ CountInv /\ StoredInv
    BY DEF NlinkInv
  <1>1. /\ ~mounted /\ mounted' = TRUE /\ work' = FALSE /\ index' = CleanedIndex
        /\ uncounted' = (uncounted \/ Uncounted)
        /\ UNCHANGED <<ent, xattr, ino, op, holder, nfs_export>>
    BY DEF Mount
  <1>2. ~ino.cached
    BY <1>0, <1>1 DEF EntryInv
  <1>3. uncounted' \in BOOLEAN
    BY <1>1, Zenon
  <1>4. TypeInv'
    <2>1. index' \in {"no", "link", "whiteout"}
      BY <1>0, <1>1, CleanedFacts
    <2>q. QED
      BY <1>0, <1>1, <1>3, <2>1 DEF TypeInv
  <1>5. CallInv'
    <2>1. \A p \in Procs : op'[p] = Idle
      BY <1>0, <1>1, <1>2, NoCalls
    <2>q. QED
      BY <2>1, IdleCallsNext
  <1>6. EntryInv'
    <2>1. Links' = Links
      BY <1>1 DEF Links
    <2>2. Links # {} => index' = "link" /\ xattr.base # "none"
      BY <1>0, <1>1, CleanedFacts DEF EntryInv
    <2>3. (ino.indexed <=> ino.hasUpper) /\ (~ino.cached => ino = NoInode)
      BY <1>0 DEF EntryInv
    <2>q. QED
      BY <1>1, <1>2, <2>1, <2>2, <2>3 DEF EntryInv
  <1>7. CountInv'
    BY <1>1, <1>2 DEF CountInv
  <1>8. StoredInv'
    <2>1. SUFFICES ASSUME ~uncounted'
                   PROVE  /\ index' = "link" /\ xattr'.base # "none" => Stored' = Cardinality(Ours)'
                          /\ index' # "link" \/ xattr'.base = "none" =>
                               Ours' = {} \/ \A n \in LowerNames : ent'[n] = "lower"
                          /\ index' = "whiteout" => Ours' = {}
      BY DEF StoredInv
    <2>2. ~uncounted /\ ~Uncounted
      BY <1>1, <2>1
    <2>3. Ours' = Ours /\ Stored' = Stored
      BY <1>1 DEF Ours, Stored, Links
    <2>4. CASE index' = index
      BY <1>0, <1>1, <2>2, <2>3, <2>4 DEF StoredInv
    <2>5. CASE index' # index
      <3>1. Ours = {}
        BY <1>0, <1>1, <2>2, <2>5, CleanedFacts
      <3>2. index' # "link"
        BY <1>0, <1>1, <2>5, CleanedFacts
      <3>q. QED
        BY <2>3, <3>1, <3>2
    <2>q. QED
      BY <2>4, <2>5
  <1>q. QED
    BY <1>4, <1>5, <1>6, <1>7, <1>8 DEF NlinkInv

-----------------------------------------------------------------------------
(* The invariant, and the properties. *)

LEMMA InitInv == Init => NlinkInv
PROOF
  <1>0. SUFFICES ASSUME Init
                 PROVE  NlinkInv
    OBVIOUS
  <1>1. /\ ent = [n \in Names |-> IF n \in LowerNames THEN "lower" ELSE "gone"]
        /\ index = "no" /\ work = FALSE /\ xattr = NoXattr /\ ino = NoInode
        /\ op = [p \in Procs |-> Idle] /\ holder = NoOne /\ mounted = TRUE
        /\ nfs_export \in BOOLEAN /\ uncounted = FALSE
    BY <1>0 DEF Init
  <1>2. /\ ino \in [cached : BOOLEAN, nlink : Int, hasUpper : BOOLEAN, indexed : BOOLEAN]
        /\ ino.cached = FALSE /\ ino.hasUpper = FALSE /\ ino.indexed = FALSE
    BY <1>1 DEF NoInode
  <1>3. Idle \in Op /\ \A p \in Procs : op[p] = Idle
    BY <1>1 DEF Idle, Op, Pcs
  <1>4. TypeInv
    <2>1. op \in [Procs -> Op]
      BY <1>1, <1>3
    <2>2. xattr \in [base : {"none", "U", "L"}, diff : Int]
      BY <1>1 DEF NoXattr
    <2>3. ent \in [Names -> EntKinds] /\ \A n \in Names \ LowerNames : ent[n] # "lower"
      BY <1>1 DEF EntKinds
    <2>4. work \in BOOLEAN /\ mounted \in BOOLEAN /\ uncounted \in BOOLEAN
      BY <1>1, Zenon
    <2>q. QED
      BY <1>1, <1>2, <2>1, <2>2, <2>3, <2>4 DEF TypeInv, Op, Pcs
  <1>5. CallInv
    BY <1>3, IdleCalls
  <1>6. EntryInv
    <2>1. Links = {}
      BY <1>1 DEF Links
    <2>q. QED
      BY <1>1, <1>2, <2>1 DEF EntryInv
  <1>7. CountInv
    BY <1>2 DEF CountInv
  <1>8. StoredInv
    <2>1. \A n \in LowerNames : ent[n] = "lower"
      BY <1>1, NlinkAssumption
    <2>q. QED
      BY <1>1, <2>1 DEF StoredInv
  <1>q. QED
    BY <1>4, <1>5, <1>6, <1>7, <1>8 DEF NlinkInv

LEMMA StutterInv ==
  ASSUME NlinkInv, UNCHANGED vars
  PROVE  NlinkInv'
PROOF
  <1>1. UNCHANGED <<ent, index, work, xattr, ino, op, holder, mounted, nfs_export, uncounted>>
    BY DEF vars
  <1> USE <1>1 DEF NlinkInv, Links, Ours
  <1>2. TypeInv'
    BY DEF TypeInv
  <1>3. CallInv'
    BY DEF CallInv, CallOk
  <1>4. EntryInv'
    BY DEF EntryInv
  <1>5. CountInv' /\ StoredInv'
    BY DEF CountInv, StoredInv, Stored, LowerNlink
  <1>q. QED
    BY <1>2, <1>3, <1>4, <1>5

LEMMA NlinkInvCorrect == Spec => []NlinkInv
PROOF
  <1>1. NlinkInv /\ [Next]_vars => NlinkInv'
    <2>1. SUFFICES ASSUME NlinkInv, [Next]_vars
                   PROVE  NlinkInv'
      OBVIOUS
    <2>2. CASE Lookup
      BY <2>1, <2>2, LookupStep
    <2>3. CASE Evict \/ Crash
      BY <2>1, <2>3, EvictCrashStep
    <2>4. CASE Mount
      BY <2>1, <2>4, MountStep
    <2>5. CASE \E p \in Procs : CallStep(p)
      <3>1. PICK p \in Procs : CallStep(p)
        BY <2>5
      <3>2. TypeInv /\ CallInv /\ EntryInv /\ CountInv /\ StoredInv
        BY <2>1 DEF NlinkInv
      <3>3. TypeInv' /\ CallInv' /\ EntryInv'
        BY <3>1, <3>2, TypeStep, CallsStep, EntryStep
      <3>4. CountInv' /\ StoredInv'
        BY <3>1, <3>2, CountStep, StoredStep
      <3>q. QED
        BY <3>3, <3>4 DEF NlinkInv
    <2>6. CASE UNCHANGED vars
      BY <2>1, <2>6, StutterInv
    <2>q. QED
      BY <2>1, <2>2, <2>3, <2>4, <2>5, <2>6 DEF Next, CallStep
  <1>q. QED
    BY <1>1, InitInv, PTL DEF Spec

\* IndexCovers: a link to the upper inode never outlives the index entry, and a whiteout
\* entry means that no name is left (unless a mount took an index without a count for an
\* orphan), for any number of names, calls, failures and crashes.
THEOREM IndexCoversCorrect == Spec => []IndexCovers
PROOF
  <1>1. NlinkInv => IndexCovers
    <2>1. SUFFICES ASSUME NlinkInv
                   PROVE  IndexCovers
      OBVIOUS
    <2>2. (\E n \in Names : ent[n] = "link") => index = "link"
      BY <2>1 DEF NlinkInv, EntryInv, Links
    <2>3. index = "whiteout" /\ ~uncounted => Ours = {}
      BY <2>1 DEF NlinkInv, StoredInv
    <2>q. QED
      BY <2>2, <2>3 DEF IndexCovers
  <1>q. QED
    BY <1>1, NlinkInvCorrect, PTL

\* NlinkUnion: whenever no call holds ovl_inode_lock the count in memory is the number of
\* names.
THEOREM NlinkUnionCorrect == Spec => []NlinkUnion
PROOF
  <1>1. NlinkInv => NlinkUnion
    <2>1. SUFFICES ASSUME NlinkInv
                   PROVE  NlinkUnion
      OBVIOUS
    <2>2. TypeInv /\ CallInv /\ EntryInv /\ CountInv
      BY <2>1 DEF NlinkInv
    <2>3. ino.cached /\ holder = NoOne /\ ~uncounted => ino.nlink = Cardinality(Ours)
      <3>1. SUFFICES ASSUME ino.cached, holder = NoOne, ~uncounted
                     PROVE  ino.nlink = Cardinality(Ours)
        OBVIOUS
      <3>2. \A q \in Procs : op[q].pc # "count"
        <4>1. SUFFICES ASSUME NEW q \in Procs, op[q].pc = "count"
                       PROVE  FALSE
          OBVIOUS
        <4>2. holder = q
          BY <2>2, <4>1 DEF CallInv, CallOk, Locked, NamePcs
        <4>q. QED
          BY <3>1, <4>2, NlinkAssumption DEF NoOne
      <3>q. QED
        BY <2>2, <3>1, <3>2 DEF CountInv
    <2>4. ino.nlink \in IF uncounted THEN Int ELSE 0..(Cardinality(Names) + 1)
      <3>1. ino.nlink \in Int
        BY <2>2 DEF TypeInv
      <3>2. ASSUME ~uncounted, ~ino.cached
            PROVE  ino.nlink = 0
        BY <2>2, <3>2 DEF EntryInv, NoInode
      <3>3. ASSUME ~uncounted, ino.cached
            PROVE  ino.nlink \in 0..(Cardinality(Names) + 1)
        <4>1. /\ Cardinality(Ours) \in Nat /\ Cardinality(Names) \in Nat
              /\ Cardinality(Ours) <= Cardinality(Names)
          BY CountFacts
        <4>2. CASE \A q \in Procs : op[q].pc # "count"
          <5>1. ino.nlink = Cardinality(Ours)
            BY <2>2, <3>3, <4>2 DEF CountInv
          <5>q. QED
            BY <4>1, <5>1
        <4>3. CASE \E q \in Procs : op[q].pc = "count"
          <5>1. PICK q \in Procs : op[q].pc = "count"
            BY <4>3
          <5>2. ino.nlink = Cardinality(Ours) + (IF op[q].kind = "link" THEN -1 ELSE 1)
            BY <2>2, <3>3, <5>1 DEF CountInv
          <5>3. op[q].kind = "link" => Cardinality(Ours) > 0
            <6>1. op[q].kind = "link" => Ours # {}
              BY <2>2, <5>1 DEF CallInv, CallOk
            <6>q. QED
              BY <4>1, <6>1, CountFacts
          <5>q. QED
            BY <4>1, <5>2, <5>3
        <4>q. QED
          BY <4>2, <4>3
      <3>q. QED
        BY <3>1, <3>2, <3>3, CountFacts
    <2>5. TypeOK
      BY <2>2, <2>4 DEF TypeOK, TypeInv
    <2>q. QED
      BY <2>3, <2>5 DEF NlinkUnion
  <1>q. QED
    BY <1>1, NlinkInvCorrect, PTL

\* NlinkPersistent: after a crash at any point of any call the next mount reads the number
\* of names there are then.
THEOREM NlinkPersistentCorrect == Spec => []NlinkPersistent
PROOF
  <1>1. NlinkInv => NlinkPersistent
    <2>1. SUFFICES ASSUME NlinkInv, ~uncounted
                   PROVE  IF CleanedIndex = "link"
                          THEN GetNlink(UpperNlink - One(work), 0) = Cardinality(Ours)
                          ELSE Ours = {} \/ \A n \in LowerNames : ent[n] = "lower"
      BY DEF NlinkPersistent
    <2>2. TypeInv /\ EntryInv /\ StoredInv
      BY <2>1 DEF NlinkInv
    <2>3. CASE CleanedIndex = "link"
      <3>1. index = "link"
        BY <2>2, <2>3, CleanedFacts
      <3>2. UpperNlink - One(work) = Cardinality(Links) + 1
        BY <2>2, <3>1, UpperFacts
      <3>3. xattr.base # "none"
        <4>1. SUFFICES ASSUME xattr.base = "none"
                       PROVE  FALSE
          OBVIOUS
        <4>2. Links = {} /\ Cardinality(Links) = 0
          BY <2>2, <4>1, CountFacts DEF EntryInv
        <4>3. GetNlink(Cardinality(Links) + 1, 0) = 0
          BY <4>1 DEF GetNlink
        <4>4. IsOrphan
          BY <3>2, <4>2, <4>3 DEF IsOrphan
        <4>q. QED
          BY <2>3, <3>1, <4>4 DEF CleanedIndex, OrphanBecomes
      <3>4. GetNlink(Cardinality(Links) + 1, 0) = IF Ours = {} THEN 0 ELSE Cardinality(Ours)
        BY <2>1, <2>2, <3>1, <3>3, StoredCount
      <3>q. QED
        BY <2>3, <3>2, <3>4, CountFacts
    <2>4. CASE CleanedIndex # "link"
      <3>1. CASE index = "link" /\ xattr.base # "none"
        <4>1. ~Uncounted
          BY <3>1 DEF Uncounted, NoXattr
        <4>2. Ours = {}
          BY <2>1, <2>2, <2>4, <3>1, <4>1, CleanedFacts
        <4>q. QED
          BY <2>4, <4>2
      <3>2. CASE index # "link" \/ xattr.base = "none"
        BY <2>1, <2>2, <2>4, <3>2 DEF StoredInv
      <3>q. QED
        BY <3>1, <3>2
    <2>q. QED
      BY <2>3, <2>4
  <1>q. QED
    BY <1>1, NlinkInvCorrect, PTL

=============================================================================
