----------------------------- MODULE NlinkIndex -----------------------------
(***************************************************************************)
(* Hard links with the inodes index (index=on): one lower inode with       *)
(* several names, the upper inode it is copied up to, the index entry that *)
(* holds the two together, and the link count of the overlay inode, which  *)
(* counts the union of the names and is stored relative to the count of    *)
(* the upper or the lower inode in the xattr trusted.overlay.nlink.        *)
(*                                                                         *)
(* Copy-up of one name runs beside a call that links, unlinks or renames   *)
(* another; each holds ovl_inode_lock.  Steps may fail, the inode          *)
(* may be evicted and the machine may crash between any two steps; the     *)
(* next mount cleans the work directory and then the index directory.      *)
(***************************************************************************)
EXTENDS Integers, FiniteSets

CONSTANTS
  Names,         \* the names
  LowerNames,    \* those of the lower inode
  Procs,         \* calls that run at the same time
  MaxCalls,      \* bound: calls
  MaxTroubles    \* bound: failed steps, evictions and crashes

ASSUME NlinkAssumption ==
  /\ LowerNames \subseteq Names /\ IsFiniteSet(Names)
  /\ Cardinality(LowerNames) > 1        \* ovl_need_index
  /\ MaxCalls \in Nat /\ MaxTroubles \in Nat
  /\ "no one" \notin Procs

VARIABLES
  ent,           \* ent[n]: what the name is in the overlay
  index,         \* the index entry of the lower inode
  work,          \* is a link to the upper inode in the work directory?
  xattr,         \* trusted.overlay.nlink of the upper inode
  ino,           \* the overlay inode in memory
  op,            \* op[p]: the call in progress
  holder,        \* who holds ovl_inode_lock
  mounted,
  nfs_export,    \* the mount option (ovl_index_all)
  uncounted,     \* history: a mount or lookup met an index without its first count
  calls, troubles

options == <<nfs_export, uncounted>>
vars == <<ent, index, work, xattr, ino, op, holder, mounted, nfs_export, uncounted,
          calls, troubles>>

\* "lower": the name is seen through to the lower inode; "link": a link to the upper
\* inode; "other": another object; "gone": nothing, or a whiteout over a lower name.
EntKinds == {"lower", "link", "other", "gone"}
NoXattr  == [base |-> "none", diff |-> 0]
NoInode  == [cached |-> FALSE, nlink |-> 0, hasUpper |-> FALSE, indexed |-> FALSE]
Idle     == [kind |-> "idle", name |-> "", to |-> "", pc |-> "idle"]
NoOne    == "no one"

Init ==
  /\ ent = [n \in Names |-> IF n \in LowerNames THEN "lower" ELSE "gone"]
  /\ index = "no" /\ work = FALSE /\ xattr = NoXattr
  /\ ino = NoInode
  /\ op = [p \in Procs |-> Idle]
  /\ holder = NoOne
  /\ mounted = TRUE
  /\ nfs_export \in BOOLEAN /\ uncounted = FALSE
  /\ calls = 0 /\ troubles = 0

One(b) == IF b THEN 1 ELSE 0

\* The names of the inode: the count that stat has to report.
Ours == {n \in Names : ent[n] \in {"lower", "link"}}

LowerNlink == Cardinality(LowerNames)
UpperNlink == Cardinality({n \in Names : ent[n] = "link"}) + One(index = "link") + One(work)

-----------------------------------------------------------------------------
(* The stored count. *)

\* ovl_set_nlink_common, relative to the upper or the lower inode.
NlinkUpper == [base |-> "U", diff |-> ino.nlink - UpperNlink]

\* Mutant: before copy-up the count is stored relative to the upper inode.
NlinkLowerAsUpper == NlinkUpper

NlinkLower == [base |-> "L", diff |-> ino.nlink - LowerNlink]

\* ovl_get_nlink for an upper inode with link count upper: the fallback where nothing
\* is stored or the sum is not positive.
GetNlink(upper, fallback) ==
  LET sum == (IF xattr.base = "L" THEN LowerNlink ELSE upper) + xattr.diff
  IN IF xattr.base = "none" \/ sum <= 0 THEN fallback ELSE sum

\* ovl_verify_index of the entry once the work directory is clean: an index with no
\* other link whose count is 0 is an orphan.
IsOrphan == LET upper == UpperNlink - One(work)
            IN upper = 1 /\ GetNlink(upper, 0) = 0

\* ovl_cleanup or, with nfs_export, ovl_cleanup_and_whiteout of an orphan.
OrphanBecomes == IF nfs_export THEN "whiteout" ELSE "no"

\* A copy-up to the index that did not get as far as ovl_set_nlink_upper.
Uncounted == index = "link" /\ xattr = NoXattr

\* The index after ovl_indexdir_cleanup.
CleanedIndex == IF index = "link" /\ IsOrphan THEN OrphanBecomes ELSE index

-----------------------------------------------------------------------------
(* Lookup *)

\* ovl_lookup of a name: ovl_check_origin or the lower layer gives the lower inode,
\* ovl_lookup_index its index; ovl_get_inode hashes the inode by the lower one, so all
\* names share it.  A whiteout index under a lower name is an error.
Lookup ==
  /\ mounted /\ ~ino.cached
  /\ Ours # {} /\ index # "whiteout"
  /\ ino' = [cached |-> TRUE, hasUpper |-> index = "link", indexed |-> index = "link",
             nlink |-> IF index = "link" THEN GetNlink(UpperNlink, UpperNlink)
                       ELSE LowerNlink]
  /\ uncounted' = (uncounted \/ Uncounted)
  /\ UNCHANGED <<ent, index, work, xattr, op, holder, mounted, nfs_export, calls, troubles>>

\* The inode is dropped from memory.
Evict ==
  /\ mounted /\ ino.cached /\ troubles < MaxTroubles
  /\ \A p \in Procs : op[p] = Idle
  /\ ino' = NoInode
  /\ troubles' = troubles + 1
  /\ UNCHANGED <<ent, index, work, xattr, op, holder, mounted, calls, options>>

-----------------------------------------------------------------------------
(* Calls.  A call first copies the name up, for ovl_unlink and ovl_rename in        *)
(* ovl_nlink_start, then changes the names between ovl_nlink_start and ovl_nlink_end *)

Goto(p, pc) == op' = [op EXCEPT ![p].pc = pc]
Trouble == troubles < MaxTroubles /\ troubles' = troubles + 1

\* The call of p ends (and ovl_inode_unlock).
Finish(p) == op' = [op EXCEPT ![p] = Idle] /\ holder' = NoOne

\* vfs_link, vfs_unlink and vfs_rename hold the i_rwsem of the overlay inode; copy-up
\* for an open does not.
NamesLocked == \E p \in Procs : op[p].kind \in {"link", "unlink", "replace"}

\* open for writing, chmod: ovl_copy_up.  ovl_unlink.  ovl_rename over the name.
StartOn(p, kind, n) ==
  /\ mounted /\ ino.cached /\ calls < MaxCalls
  /\ op[p] = Idle
  /\ n \in Ours
  /\ kind # "copyup" => ~NamesLocked
  /\ op' = [op EXCEPT ![p] = [kind |-> kind, name |-> n, to |-> n, pc |-> "copyup"]]
  /\ calls' = calls + 1
  /\ UNCHANGED <<ent, index, work, xattr, ino, holder, mounted, troubles, options>>

\* ovl_link of one name to a new one.
StartLink(p, n, m) ==
  /\ mounted /\ ino.cached /\ calls < MaxCalls
  /\ op[p] = Idle
  /\ n \in Ours /\ ent[m] = "gone" /\ ~NamesLocked
  /\ op' = [op EXCEPT ![p] = [kind |-> "link", name |-> n, to |-> m, pc |-> "copyup"]]
  /\ calls' = calls + 1
  /\ UNCHANGED <<ent, index, work, xattr, ino, holder, mounted, troubles, options>>

\* ovl_copy_up_start: take the lock; what is left to do depends on the state then.
CopyUpStart(p) ==
  /\ op[p].pc = "copyup" /\ holder = NoOne
  /\ LET up == ent[op[p].name] # "lower"
     IN /\ Goto(p, CASE up /\ op[p].kind = "copyup" -> "done"
                     [] up /\ op[p].kind # "copyup" -> "start"
                     [] ~up /\ ino.hasUpper -> "linkLower"
                     [] OTHER -> "index")
        /\ holder' = IF up THEN NoOne ELSE p
  /\ UNCHANGED <<ent, index, work, xattr, ino, mounted, calls, troubles, options>>

\* ovl_do_copy_up of the inode, straight to the index.
CopyToIndex(p) ==
  /\ op[p].pc = "index"
  /\ index' = "link" /\ xattr' = NoXattr
  /\ ino' = [ino EXCEPT !.hasUpper = TRUE, !.indexed = TRUE]
  /\ Goto(p, "indexNlink")
  /\ UNCHANGED <<ent, work, holder, mounted, calls, troubles, options>>

\* ... and the first stored count.
IndexNlink(p) ==
  /\ op[p].pc = "indexNlink"
  /\ xattr' = NlinkUpper
  /\ Goto(p, "linkLower")
  /\ UNCHANGED <<ent, index, work, ino, holder, mounted, calls, troubles, options>>

\* ovl_link_up: ovl_set_nlink_lower,
LinkLower(p) ==
  /\ op[p].pc = "linkLower"
  /\ xattr' = NlinkLower
  /\ Goto(p, "link")
  /\ UNCHANGED <<ent, index, work, ino, holder, mounted, calls, troubles, options>>

\* ovl_do_link (an inode without links cannot be linked),
LinkUp(p) ==
  /\ op[p].pc = "link" /\ UpperNlink > 0
  /\ ent' = [ent EXCEPT ![op[p].name] = "link"]
  /\ Goto(p, "linkUpper")
  /\ UNCHANGED <<index, work, xattr, ino, holder, mounted, calls, troubles, options>>

\* ovl_set_nlink_upper and ovl_copy_up_end.
LinkUpper(p) ==
  /\ op[p].pc = "linkUpper"
  /\ xattr' = NlinkUpper
  /\ Goto(p, IF op[p].kind = "copyup" THEN "done" ELSE "start")
  /\ holder' = NoOne
  /\ UNCHANGED <<ent, index, work, ino, mounted, calls, troubles, options>>

\* Mutant: the count is not stored before the names change.
StartWithoutNlink(p) ==
  /\ op[p].pc = "start" /\ holder = NoOne
  /\ holder' = p
  /\ Goto(p, IF op[p].kind = "link" /\ op[p].to \in LowerNames THEN "temp" ELSE "change")
  /\ UNCHANGED <<ent, index, work, xattr, ino, mounted, calls, troubles, options>>

\* ovl_nlink_start after the copy-up: the lock, and the count relative to the upper
\* inode, so that it follows the change of the upper inode's count.
NlinkStart(p) ==
  /\ op[p].pc = "start" /\ holder = NoOne
  /\ holder' = p
  /\ xattr' = IF ino.indexed THEN NlinkUpper ELSE xattr
  /\ Goto(p, IF op[p].kind = "link" /\ op[p].to \in LowerNames THEN "temp" ELSE "change")
  /\ UNCHANGED <<ent, index, work, ino, mounted, calls, troubles, options>>

\* ovl_create_over_whiteout of a link: first a link in the work directory.
LinkTemp(p) ==
  /\ op[p].pc = "temp" /\ UpperNlink > 0
  /\ work' = TRUE
  /\ Goto(p, "change")
  /\ UNCHANGED <<ent, index, xattr, ino, holder, mounted, calls, troubles, options>>

\* The upper file system changes the name: ovl_create_upper or the rename of
\* ovl_create_over_whiteout; ovl_remove_upper or ovl_remove_and_whiteout; the rename
\* over it.
ChangeName(p) ==
  /\ op[p].pc = "change"
  /\ op[p].kind = "link" => UpperNlink > 0
  /\ ent' = [ent EXCEPT ![op[p].to] = CASE op[p].kind = "link" -> "link"
                                         [] op[p].kind = "unlink" -> "gone"
                                         [] op[p].kind = "replace" -> "other"]
  /\ work' = FALSE
  /\ Goto(p, "count")
  /\ UNCHANGED <<index, xattr, ino, holder, mounted, calls, troubles, options>>

\* inc_nlink in ovl_instantiate, drop_nlink in ovl_do_remove and ovl_rename.
CountName(p) ==
  /\ op[p].pc = "count"
  /\ ino' = [ino EXCEPT !.nlink = IF op[p].kind = "link" THEN @ + 1 ELSE @ - 1]
  /\ Goto(p, "end")
  /\ UNCHANGED <<ent, index, work, xattr, holder, mounted, calls, troubles, options>>

\* Mutant: the index goes with the count, whatever links are left.
CleanupUnchecked(p) ==
  /\ op[p].pc = "end" /\ ino.indexed /\ ino.nlink = 0
  /\ index' = IF index = "link" THEN OrphanBecomes ELSE index
  /\ UNCHANGED <<ino, xattr>>
  /\ Finish(p)
  /\ UNCHANGED <<ent, work, mounted, calls, troubles, options>>

\* ovl_nlink_end at count 0, ovl_cleanup_index: an index whose inode has other links is
\* kept and the count put right.
CleanupIndex(p) ==
  /\ op[p].pc = "end" /\ ino.indexed /\ ino.nlink = 0
  /\ IF UpperNlink # 1
     THEN /\ ino' = [ino EXCEPT !.nlink = UpperNlink - 1]
          /\ xattr' = [base |-> "U", diff |-> -1]
          /\ UNCHANGED index
     ELSE /\ index' = IF index = "link" THEN OrphanBecomes ELSE index
          /\ UNCHANGED <<ino, xattr>>
  /\ Finish(p)
  /\ UNCHANGED <<ent, work, mounted, calls, troubles, options>>

\* ovl_nlink_end otherwise.
NlinkEnd(p) ==
  /\ op[p].pc = "end" /\ ~(ino.indexed /\ ino.nlink = 0)
  /\ Finish(p)
  /\ UNCHANGED <<ent, index, work, xattr, ino, mounted, calls, troubles, options>>

CopyUpDone(p) ==
  /\ op[p].pc = "done"
  /\ op' = [op EXCEPT ![p] = Idle]
  /\ UNCHANGED <<ent, index, work, xattr, ino, holder, mounted, calls, troubles, options>>

-----------------------------------------------------------------------------
(* Failures and crashes *)

\* A step fails and the call with it: nothing that was done is undone, but for the link
\* in the work directory.
StepFails(p) ==
  /\ op[p].pc \in {"index", "indexNlink", "linkLower", "link", "linkUpper", "temp", "change"}
  /\ Trouble
  /\ work' = FALSE
  /\ Finish(p)
  /\ UNCHANGED <<ent, index, xattr, ino, mounted, calls, options>>

\* So does ovl_nlink_start when its count cannot be stored,
NlinkStartFails(p) ==
  /\ op[p].pc = "start" /\ holder = NoOne /\ ino.indexed
  /\ Trouble
  /\ Finish(p)
  /\ UNCHANGED <<ent, index, work, xattr, ino, mounted, calls, options>>

\* and a link of an upper inode that has none left.
LinkRefused(p) ==
  /\ op[p].pc \in {"link", "temp", "change"} /\ UpperNlink = 0
  /\ op[p].pc = "change" => op[p].kind = "link"
  /\ Finish(p)
  /\ UNCHANGED <<ent, index, work, xattr, ino, mounted, calls, troubles, options>>

\* ovl_cleanup of the index fails: it stays until the next mount.
CleanupFails(p) ==
  /\ op[p].pc = "end" /\ ino.indexed /\ ino.nlink = 0 /\ UpperNlink = 1
  /\ Trouble
  /\ Finish(p)
  /\ UNCHANGED <<ent, index, work, xattr, ino, mounted, calls, options>>

Crash ==
  /\ mounted /\ Trouble
  /\ mounted' = FALSE
  /\ ino' = NoInode /\ op' = [p \in Procs |-> Idle] /\ holder' = NoOne
  /\ UNCHANGED <<ent, index, work, xattr, calls, options>>

\* ovl_fill_super: ovl_workdir_cleanup, then ovl_indexdir_cleanup.
Mount ==
  /\ ~mounted
  /\ mounted' = TRUE
  /\ work' = FALSE
  /\ index' = CleanedIndex
  /\ uncounted' = (uncounted \/ Uncounted)
  /\ UNCHANGED <<ent, xattr, ino, op, holder, nfs_export, calls, troubles>>

Next ==
  \/ Lookup \/ Evict \/ Crash \/ Mount
  \/ \E p \in Procs :
       \/ \E n \in Names : \/ \E kind \in {"copyup", "unlink", "replace"} : StartOn(p, kind, n)
                           \/ \E m \in Names : StartLink(p, n, m)
       \/ CopyUpStart(p) \/ CopyToIndex(p) \/ IndexNlink(p)
       \/ LinkLower(p) \/ LinkUp(p) \/ LinkUpper(p) \/ CopyUpDone(p)
       \/ NlinkStart(p) \/ LinkTemp(p) \/ ChangeName(p) \/ CountName(p)
       \/ CleanupIndex(p) \/ NlinkEnd(p)
       \/ StepFails(p) \/ NlinkStartFails(p) \/ LinkRefused(p) \/ CleanupFails(p)

Spec == Init /\ [][Next]_vars

-----------------------------------------------------------------------------
(* Properties *)

\* Every variable has its type.  After a wrong first count drop_nlink may go below zero.
TypeOK ==
  /\ ent \in [Names -> EntKinds]
  /\ index \in {"no", "link", "whiteout"} /\ work \in BOOLEAN
  /\ xattr.base \in {"none", "U", "L"} /\ xattr.diff \in Int
  /\ ino.nlink \in IF uncounted THEN Int ELSE 0..(Cardinality(Names) + 1)
  /\ holder \in Procs \cup {NoOne}

\* The count survives a crash at any point of any call (inode.c:601-622: "the union
\* nlink does not change, whether the operation succeeds or fails", "incremented or
\* decremented IFF the operation succeeds"): what the next mount would read, after it
\* cleaned the work and the index directory, is the number of names there are then;
\* without an index all lower names are untouched or none of the names is left.  (With
\* the exception of NlinkUnion.)
NlinkPersistent ==
  uncounted \/
  IF CleanedIndex = "link" THEN GetNlink(UpperNlink - One(work), 0) = Cardinality(Ours)
  ELSE Ours = {} \/ \A n \in LowerNames : ent[n] = "lower"

\* In memory the count is the number of names whenever no call holds the lock, after
\* failures, evictions and crashes too; except after a lookup of an index whose first
\* ovl_set_nlink_upper failed, which takes the count of the upper inode for it.
\* (And every variable has its type.)
NlinkUnion ==
  /\ TypeOK
  /\ ino.cached /\ holder = NoOne /\ ~uncounted => ino.nlink = Cardinality(Ours)

\* The index entry and the names agree.  A link to the upper inode never outlives the
\* entry: otherwise its other names are no longer the same file (util.c:
\* ovl_cleanup_index, "as a safety measure").  And a whiteout entry exists only if all
\* aliases have been unlinked (namei.c:718-722): no name is left whose lookup it would
\* fail.  The exception is a crash between the copy-up to the index and the first count:
\* the mount takes that entry for an orphan, and with nfs_export whites it out although
\* every lower name is still there.
IndexCovers ==
  /\ (\E n \in Names : ent[n] = "link") => index = "link"
  /\ index = "whiteout" /\ ~uncounted => Ours = {}
=============================================================================
