--------------------------- MODULE NlinkIndexInv ---------------------------
(***************************************************************************)
(* The inductive invariant behind the safety properties of NlinkIndex:     *)
(* what a call knows of its names and of the stored count at each step.    *)
(***************************************************************************)
EXTENDS NlinkIndex

Changing == {"link", "unlink", "replace"}          \* calls that change the names
CopyPcs  == {"index", "indexNlink", "linkLower", "link", "linkUpper"}
NamePcs  == {"temp", "change", "count", "end"}
Locked   == CopyPcs \cup NamePcs                   \* ovl_inode_lock is held

Links == {n \in Names : ent[n] = "link"}

\* The full types.
TypeInv ==
  /\ ent \in [Names -> EntKinds]
  /\ index \in {"no", "link", "whiteout"} /\ work \in BOOLEAN
  /\ xattr \in [base : {"none", "U", "L"}, diff : Int] /\ (xattr.base = "none" => xattr = NoXattr)
  /\ ino \in [cached : BOOLEAN, nlink : Int, hasUpper : BOOLEAN, indexed : BOOLEAN]
  /\ op \in [Procs -> [kind : {"idle", "copyup"} \cup Changing, name : Names \cup {""},
                       to : Names \cup {""}, pc : {"idle", "copyup", "start", "done"} \cup Locked]]
  /\ holder \in Procs \cup {NoOne}
  /\ mounted \in BOOLEAN /\ nfs_export \in BOOLEAN /\ uncounted \in BOOLEAN
  /\ \A n \in Names \ LowerNames : ent[n] # "lower"

\* The call of p: what it holds and where its names stand.
CallOk(p) ==
  LET o == op[p]
  IN  /\ o.pc \in Locked => holder = p
      /\ o.pc = "idle" <=> o = Idle
      /\ o.pc # "idle" => /\ mounted /\ ino.cached
                          /\ o.kind # "idle" /\ o.name \in Names /\ o.to \in Names
      /\ o.pc \in {"start"} \cup NamePcs => o.kind \in Changing
      /\ o.kind \in Changing /\ o.pc \notin {"count", "end"} =>
           /\ o.name \in Ours
           /\ IF o.kind = "link" THEN ent[o.to] = "gone" ELSE o.to = o.name
      /\ o.kind = "link" /\ o.pc = "count" => o.name \in Ours
      /\ o.pc = "temp" => o.kind = "link"
      /\ o.pc \in CopyPcs \ {"linkUpper"} => ent[o.name] = "lower"
      /\ o.pc \in {"linkUpper", "start", "temp", "change"} => ent[o.name] = "link"
      /\ o.pc = "index" => ~ino.hasUpper
      /\ o.pc \in {"indexNlink", "count", "end"} => index = "link"
      /\ o.pc \in {"link", "linkUpper"} => xattr.base = "L"
      /\ o.pc \in {"temp", "change"} => xattr.base = "U"
CallInv ==
  /\ \A p \in Procs : CallOk(p)
  /\ \A p, q \in Procs : op[p].kind \in Changing /\ op[q].kind \in Changing => p = q

\* The index entry, the upper inode and its links.
EntryInv ==
  /\ ~mounted => ~ino.cached
  /\ ~ino.cached => ino = NoInode
  /\ ino.indexed <=> ino.hasUpper
  /\ ino.cached /\ index = "link" => ino.hasUpper
  /\ Links # {} => index = "link" /\ xattr.base # "none"
  /\ work => index = "link"
  /\ work /\ mounted => \E p \in Procs : op[p].pc = "change"

\* The count in memory follows the names with the step of CountName.
CountInv ==
  ino.cached /\ ~uncounted =>
    /\ (\A p \in Procs : op[p].pc # "count") => ino.nlink = Cardinality(Ours)
    /\ \A p \in Procs : op[p].pc = "count" =>
         ino.nlink = Cardinality(Ours) + (IF op[p].kind = "link" THEN -1 ELSE 1)

\* The count on disk is that of the names at every step, once there is one; as long as
\* there is none the lower names are untouched, or no name is left.
Stored == (IF xattr.base = "L" THEN LowerNlink ELSE Cardinality(Links) + 1) + xattr.diff
StoredInv ==
  ~uncounted =>
    /\ index = "link" /\ xattr.base # "none" => Stored = Cardinality(Ours)
    /\ index # "link" \/ xattr.base = "none" =>
         Ours = {} \/ \A n \in LowerNames : ent[n] = "lower"
    /\ index = "whiteout" => Ours = {}

NlinkInv == TypeInv /\ CallInv /\ EntryInv /\ CountInv /\ StoredInv
=============================================================================
