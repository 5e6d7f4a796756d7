------------------------------- MODULE DirOps -------------------------------
(***************************************************************************)
(* The directory operations of the overlay (dir.c): create, mkdir, unlink, *)
(* rmdir, rename and exchange, each as the sequence of calls into the      *)
(* upper file system that the code makes, with the whiteouts, opaque marks *)
(* and redirects that keep the lower layers hidden or reachable, the       *)
(* temporary objects in the work directory, the clean-up after a call that *)
(* fails, and a crash between any two calls.                               *)
(*                                                                         *)
(* One call is in progress at a time: the VFS holds the i_rwsem of the     *)
(* parents.  Copy-up of an object is one step here (CopyUpProto has its    *)
(* protocol).  ovl_cleanup itself does not fail.                           *)
(***************************************************************************)
EXTENDS OvlLookup, FiniteSets

CONSTANTS
  Mounts,        \* pairs of mount options and a stack of lower layers
  NewIds,        \* identities for objects that are created
  Calls,         \* the calls made, a subset of AllFns
  MaxCalls,      \* bound: calls made in one behaviour
  MaxTroubles    \* bound: failing calls into the upper layer, and crashes

AllFns == {"create", "mkdir", "unlink", "rmdir", "rename", "exchange"}

ASSUME DirOpsAssumption ==
  /\ NewIds \subseteq Nat \ {0}
  \* A new object gets an identity that no name of the upper layer has.
  /\ IsFiniteSet(Paths) /\ IsFiniteSet(NewIds) /\ Cardinality(NewIds) >= Cardinality(Paths)
  /\ {MaxCalls, MaxTroubles} \subseteq Nat
  /\ Calls \subseteq AllFns
  /\ Mounts \subseteq [redirect_dir : BOOLEAN, redirect_follow : BOOLEAN]
                     \X Seq([Paths -> NodeType])
  /\ \A m \in Mounts :
       /\ m[1].redirect_dir => m[1].redirect_follow
       \* ovl_get_redirect_xattr: an absolute redirect has a component.
       /\ \A l \in DOMAIN m[2], p \in Paths :
            Absolute(m[2][l][p].redirect) => Len(m[2][l][p].redirect) > 1

VARIABLES
  lower,         \* the lower layers, which never change
  up,            \* the upper layer
  work,          \* the temporary object in the work directory, and the names in it
  dc,            \* the dentry cache
  op,            \* the call in progress
  used           \* calls, faults and crashes so far

layers == <<config, lower>>
vars == <<config, lower, up, work, dc, op, used>>

\* A temporary object: a node and, of a directory, the nodes in it.
NoWork == [node |-> NoNode, kids |-> {}]
Temp(node) == [node |-> node, kids |-> {}]

\* pc: the next step; flags: of ovl_do_rename; list: the upper whiteouts that
\* ovl_check_empty_dir selected; lowerPos: ovl_lower_positive; sweep:
\* cleanup_whiteout; over: ovl_create_over_whiteout was taken; done: the call
\* has taken effect; err: what the call returns, then in result.
Idle(how) == [pc |-> "idle", fn |-> "none", p |-> <<>>, q |-> <<>>, flags |-> "",
              list |-> {}, lowerPos |-> FALSE, sweep |-> FALSE, over |-> FALSE,
              done |-> FALSE, err |-> "", result |-> how]

Init ==
  /\ \E m \in Mounts : config = m[1] /\ lower = m[2]
  /\ up = [p \in Paths |-> NoNode]
  /\ work = NoWork
  /\ dc = NoDentry
  /\ op = Idle("none")
  /\ used = [calls |-> 0, faults |-> 0, crashes |-> 0]

-----------------------------------------------------------------------------
(* Helpers. *)

\* The dentry at a path; the root is always cached.
D(p) == IF p = <<>> THEN RootEntry(lower) ELSE dc[p]

Family(p) == {p} \cup Kids(p)
KidNodes(p) == {up[k] : k \in Kids(p)} \ {NoNode}

\* The path that takes the place of x when p and q trade places.
Trade(x, p, q) ==
  IF x \in Family(q) THEN p \o SubSeq(x, Len(q) + 1, Len(x))
  ELSE IF x \in Family(p) THEN q \o SubSeq(x, Len(p) + 1, Len(x))
  ELSE x

\* d_drop: the dentry leaves the cache, and with it what is below it.
Drop(p, cache) == [x \in Paths |-> IF x = p THEN [cache[x] EXCEPT !.hashed = FALSE]
                                   ELSE IF x \in Kids(p) THEN NoEntry ELSE cache[x]]

FreshId ==
  CHOOSE i \in NewIds :
    /\ \A p \in Paths : up[p].id # i
    /\ \A j \in NewIds : j < i => \E p \in Paths : up[p].id = j

New(fn) == Node(IF fn = "mkdir" THEN "dir" ELSE "file", FALSE, NoRedirect, FALSE, FreshId)

Goto(pc) == op' = [op EXCEPT !.pc = pc]
Finish   == op' = [op EXCEPT !.pc = "ret"]
Fail(e)  == op' = [op EXCEPT !.pc = "ret", !.err = e]

\* A call into the upper layer fails.
Fault == /\ used.faults + used.crashes < MaxTroubles
         /\ used' = [used EXCEPT !.faults = @ + 1]

\* The names that ovl_dir_read_merged finds in the directory p: for each name the
\* node of the topmost layer that has it, and whether that is the upper layer.
MergedNames(p) ==
  LET e == D(p)
      inUp(k) == e.upper /\ up[k].kind # "no"
      lowNode(i, k) == LET at == Append(e.lower[i].path, Last(k))
                       IN IF at \in Paths THEN lower[e.lower[i].layer][at] ELSE NoNode
      first(k) == {i \in 1..Len(e.lower) : /\ lowNode(i, k).kind # "no"
                                           /\ \A j \in 1..(i - 1) : lowNode(j, k).kind = "no"}
  IN {[name |-> k, upper |-> TRUE, node |-> up[k]] : k \in {x \in Kids(p) : inUp(x)}}
     \cup UNION {{[name |-> k, upper |-> FALSE, node |-> lowNode(i, k)] : i \in first(k)} :
                   k \in {x \in Kids(p) : ~inUp(x)}}

\* ovl_check_empty_dir.
CheckEmpty(p) == \A m \in MergedNames(p) : m.node.kind = "whiteout"

\* Mutant: the whiteouts of the upper directory are not selected.
NoWhiteouts(p) == {}

UpperWhiteouts(p) == {m.name : m \in {x \in MergedNames(p) : x.upper}}

-----------------------------------------------------------------------------
(* The dentry cache. *)

\* A path walk looks the name up in a directory that nobody holds locked.
DoLookup(p) ==
  /\ op.pc = "idle"
  /\ ~dc[p].hashed
  /\ D(Parent(p)).dir
  /\ LET e == Lookup(up, lower, D(Parent(p)), p)
     IN /\ dc' = [dc EXCEPT ![p] = e]
        /\ up' = FixOrigin(up, p, e)
        /\ dc' # dc \/ up' # up
  /\ UNCHANGED <<layers, work, op, used>>

-----------------------------------------------------------------------------
(* The start of a call: what the VFS tests, then what the handler decides     *)
(* before it touches the upper layer.                                         *)

Cached(p) == dc[p].hashed
Begin(fn, p, q) == [Idle("none") EXCEPT !.pc = "body", !.fn = fn, !.p = p, !.q = q]

\* Bound: a directory of depth 2 has nothing in it, not even in a lower layer.
Shallow(p, q) ==
  (Len(q) = 2 /\ dc[p].dir) => MergedNames(p) = {} /\ Len(p) = 1

\* ovl_create_object, ovl_create, ovl_mkdir.
StartCreate(fn, p) ==
  /\ ~dc[p].positive
  /\ op' = Begin(fn, p, <<>>)

\* ovl_do_remove, ovl_unlink, ovl_rmdir.
StartRemove(fn, p) ==
  /\ dc[p].positive /\ dc[p].dir = (fn = "rmdir")
  /\ LET lp == LowerPositive(lower, D(Parent(p)), p, dc[p])
         look == fn = "rmdir" /\ (lp \/ ~PureUpper(dc[p]))
     IN op' = IF look /\ ~CheckEmpty(p)
              THEN [Begin(fn, p, <<>>) EXCEPT !.pc = "ret", !.err = "ENOTEMPTY"]
              ELSE [Begin(fn, p, <<>>) EXCEPT
                      !.lowerPos = lp,
                      !.list = IF look THEN UpperWhiteouts(p) ELSE {}]

\* ovl_rename up to ovl_want_write.
StartRename(fn, p, q) ==
  LET old == dc[p]
      new == dc[q]
      over == fn = "rename"
      lp == LowerPositive(lower, D(Parent(p)), p, old)
      look == over /\ new.dir /\ ~PureUpper(new)
  IN /\ p # q /\ q \notin Kids(p) /\ p \notin Kids(q)
     /\ old.positive
     /\ IF over THEN new.positive => old.dir = new.dir ELSE new.positive
     /\ Shallow(p, q) /\ (~over => Shallow(q, p))
     /\ op' = IF ~CanMove(old) \/ (~over /\ ~CanMove(new))
              THEN [Begin(fn, p, q) EXCEPT !.pc = "ret", !.err = "EXDEV"]
              ELSE IF look /\ ~CheckEmpty(q)
              THEN [Begin(fn, p, q) EXCEPT !.pc = "ret", !.err = "ENOTEMPTY"]
              ELSE [Begin(fn, p, q) EXCEPT
                      !.list = IF look THEN UpperWhiteouts(q) ELSE {},
                      !.flags = CASE ~over -> "EXCHANGE"
                                  [] over /\ lp -> IF IsWhiteout(new) THEN "EXCHANGE"
                                                   ELSE "WHITEOUT"
                                  [] over /\ ~lp -> IF old.dir /\ IsWhiteout(new)
                                                    THEN "EXCHANGE" ELSE "",
                      !.sweep = over /\ ~lp /\ old.dir /\ IsWhiteout(new)]

Start ==
  /\ op.pc = "idle"
  /\ used.calls < MaxCalls
  /\ used' = [used EXCEPT !.calls = @ + 1]
  /\ \E fn \in Calls, p \in Paths :
       /\ Cached(p)
       /\ \/ fn \in {"create", "mkdir"} /\ StartCreate(fn, p)
          \/ fn \in {"unlink", "rmdir"} /\ StartRemove(fn, p)
          \/ /\ fn \in {"rename", "exchange"}
             /\ \E q \in Paths : Cached(q) /\ StartRename(fn, p, q)
  /\ UNCHANGED <<layers, up, work, dc>>

-----------------------------------------------------------------------------
(* ovl_copy_up of the parents, and of what is renamed. *)

Chain(p) == IF p = <<>> THEN <<>> ELSE IF Parent(p) = <<>> THEN <<p>> ELSE <<Parent(p), p>>
ToCopyUp == CASE op.fn = "rename"   -> Chain(op.p) \o Chain(Parent(op.q))
              [] op.fn = "exchange" -> Chain(op.p) \o Chain(op.q)
              [] OTHER              -> Chain(Parent(op.p))
Missing == {i \in DOMAIN ToCopyUp : ~dc[ToCopyUp[i]].upper}

\* Mutant: the parent is not copied up first.
WithoutCopyUp == op.pc = "body"

UpToDate == op.pc = "body" /\ Missing = {}

\* ovl_copy_up_one, in one step: a directory gets its origin xattr and may have
\* whiteouts from now on.
CopyUp ==
  /\ op.pc = "body" /\ Missing # {}
  /\ LET x == ToCopyUp[Min(Missing)]
         e == dc[x]
     IN \/ /\ up' = [up EXCEPT ![x] = Node(IF e.dir THEN "dir" ELSE "file", FALSE,
                                           NoRedirect, e.dir, e.id)]
           /\ dc' = [dc EXCEPT ![x].upper = TRUE, ![x].whiteouts = @ \/ e.dir]
           /\ UNCHANGED <<op, used>>
        \/ Fault /\ Fail("EIO") /\ UNCHANGED <<up, dc>>
  /\ UNCHANGED <<layers, work>>

-----------------------------------------------------------------------------
(* create and mkdir. *)

Making == op.fn \in {"create", "mkdir"}

\* ovl_create_upper, ovl_create_real: make the object in the upper directory.
CreateUpper ==
  /\ UpToDate /\ Making /\ ~IsWhiteout(dc[op.p])
  /\ IF up[op.p].kind # "no" THEN Fail("ESTALE") /\ UNCHANGED <<up, used>>
     ELSE \/ /\ up' = [up EXCEPT ![op.p] = New(op.fn)]
             /\ op' = [op EXCEPT
                         !.done = TRUE,
                         !.pc = IF op.fn = "mkdir" /\ TypeMerge(D(Parent(op.p)))
                                THEN "opaque" ELSE "instantiate"]
             /\ UNCHANGED used
          \/ Fault /\ Fail("EIO") /\ UNCHANGED up
  /\ UNCHANGED <<layers, work, dc>>

\* ovl_set_opaque of a new directory, "just an optimization, allow to fail".
MarkNewOpaque ==
  /\ op.pc = "opaque"
  /\ \/ /\ up' = [up EXCEPT ![op.p].opaque = TRUE]
        /\ dc' = [dc EXCEPT ![op.p].opaque = TRUE]
        /\ UNCHANGED used
     \/ Fault /\ UNCHANGED <<up, dc>>
  /\ Goto("instantiate")
  /\ UNCHANGED <<layers, work>>

\* ovl_instantiate: the dentry becomes positive and keeps its opaque flag.
Instantiate ==
  /\ op.pc = "instantiate"
  /\ dc' = [dc EXCEPT ![op.p] = [NoEntry EXCEPT
              !.positive = TRUE, !.dir = op.fn = "mkdir", !.upper = TRUE,
              !.hashed = TRUE, !.opaque = dc[op.p].opaque, !.id = up[op.p].id]]
  /\ Finish
  /\ UNCHANGED <<layers, up, work, used>>

\* ovl_get_inode fails: ovl_create_upper removes the new object.  After
\* ovl_create_over_whiteout ovl_cleanup is called with the wrong directory, which
\* the VFS answers with BUG: that outcome is Crash.
InstantiateFails ==
  /\ op.pc = "instantiate" /\ ~op.over
  /\ Fault
  /\ up' = [up EXCEPT ![op.p] = NoNode]
  /\ op' = [op EXCEPT !.done = FALSE, !.pc = "ret", !.err = "EIO"]
  /\ UNCHANGED <<layers, work, dc>>

\* ovl_create_over_whiteout: make the object in the work directory...
OverTemp ==
  /\ UpToDate /\ Making /\ IsWhiteout(dc[op.p])
  /\ IF up[op.p].kind # "whiteout" THEN Fail("ESTALE") /\ UNCHANGED <<work, used>>
     ELSE \/ /\ work' = Temp(New(op.fn))
             /\ op' = [op EXCEPT !.over = TRUE, !.pc = "over_attr"]
             /\ UNCHANGED used
          \/ Fault /\ Fail("EIO") /\ UNCHANGED work
  /\ UNCHANGED <<layers, up, dc>>

\* Mutant: a directory made over a whiteout is not marked.
OverNoMark ==
  /\ op.pc = "over_attr"
  /\ Goto("over_rename")
  /\ UNCHANGED <<layers, up, work, dc, used>>

\* ... set its mode and ACLs, and of a directory the opaque xattr...
OverAttr ==
  /\ op.pc = "over_attr"
  /\ \/ /\ work' = [work EXCEPT !.node.opaque = op.fn = "mkdir"]
        /\ Goto("over_rename")
        /\ UNCHANGED used
     \/ Fault /\ work' = NoWork /\ Fail("EIO")
  /\ UNCHANGED <<layers, up, dc>>

\* ... put it in the place of the whiteout, a directory by RENAME_EXCHANGE...
OverRename ==
  /\ op.pc = "over_rename"
  /\ \/ /\ up' = [up EXCEPT ![op.p] = work.node]
        /\ work' = IF op.fn = "mkdir" THEN Temp(up[op.p]) ELSE NoWork
        /\ op' = [op EXCEPT !.done = TRUE,
                            !.pc = IF op.fn = "mkdir" THEN "over_cleanup" ELSE "instantiate"]
        /\ UNCHANGED used
     \/ Fault /\ work' = NoWork /\ Fail("EIO") /\ UNCHANGED up
  /\ UNCHANGED <<layers, dc>>

\* Mutant: the whiteout stays in the work directory.
OverNoCleanup ==
  /\ op.pc = "over_cleanup"
  /\ Goto("instantiate")
  /\ UNCHANGED <<layers, up, work, dc, used>>

\* ... and remove the whiteout, which is now in the work directory.
OverCleanup ==
  /\ op.pc = "over_cleanup"
  /\ work' = NoWork
  /\ Goto("instantiate")
  /\ UNCHANGED <<layers, up, dc, used>>

-----------------------------------------------------------------------------
(* ovl_clear_empty: a directory that only holds whiteouts is replaced by an   *)
(* empty opaque one, before it is removed or overwritten.                     *)

Victim == IF op.fn = "rename" THEN op.q ELSE op.p

ClearTemp ==
  /\ UpToDate /\ op.list # {}
  /\ \/ /\ work' = Temp(Node("dir", FALSE, NoRedirect, FALSE, up[Victim].id))
        /\ Goto("clear_opaque")
        /\ UNCHANGED used
     \/ Fault /\ Fail("EIO") /\ UNCHANGED work
  /\ UNCHANGED <<layers, up, dc>>

\* ovl_copy_xattr, then ovl_set_opaque(dentry, opaquedir): the dentry is flagged
\* before the directory is in place.
ClearOpaque ==
  /\ op.pc = "clear_opaque"
  /\ \/ /\ work' = [work EXCEPT !.node.opaque = TRUE]
        /\ dc' = [dc EXCEPT ![Victim].opaque = TRUE]
        /\ Goto("clear_swap")
        /\ UNCHANGED used
     \/ Fault /\ work' = NoWork /\ Fail("EIO") /\ UNCHANGED dc
  /\ UNCHANGED <<layers, up>>

ClearSwap ==
  /\ op.pc = "clear_swap"
  /\ \/ /\ up' = [x \in Paths |-> IF x = Victim THEN work.node
                                  ELSE IF x \in Kids(Victim) THEN NoNode ELSE up[x]]
        /\ work' = [node |-> up[Victim], kids |-> {k \in Kids(Victim) : up[k] # NoNode}]
        /\ Goto("clear_whiteouts")
        /\ UNCHANGED used
     \/ Fault /\ work' = NoWork /\ Fail("EIO") /\ UNCHANGED up
  /\ UNCHANGED <<layers, dc>>

\* ovl_cleanup_whiteouts.
ClearWhiteouts ==
  /\ op.pc = "clear_whiteouts"
  /\ work' = [work EXCEPT !.kids = @ \ op.list]
  /\ Goto("clear_cleanup")
  /\ UNCHANGED <<layers, up, dc, used>>

\* ovl_cleanup: rmdir, which leaves a directory that is not empty.
CleanupTemp == IF work.kids = {} THEN NoWork ELSE work

ClearCleanup ==
  /\ op.pc = "clear_cleanup"
  /\ work' = CleanupTemp
  /\ dc' = Drop(Victim, dc)
  /\ op' = [op EXCEPT !.list = {}, !.pc = "body"]
  /\ UNCHANGED <<layers, up, used>>

-----------------------------------------------------------------------------
(* unlink and rmdir. *)

Ready == UpToDate /\ op.list = {}
Removing == op.fn \in {"unlink", "rmdir"}

\* ovl_remove_upper: vfs_rmdir looks at the upper directory only.
RemoveUpper ==
  /\ Ready /\ Removing /\ ~op.lowerPos
  /\ IF KidNodes(op.p) # {} THEN Fail("ENOTEMPTY") /\ UNCHANGED <<up, dc, used>>
     ELSE \/ /\ up' = [up EXCEPT ![op.p] = NoNode]
             /\ dc' = Drop(op.p, dc)
             /\ op' = [op EXCEPT !.done = TRUE, !.pc = "ret"]
             /\ UNCHANGED used
          \/ Fault /\ Fail("EIO") /\ UNCHANGED <<up, dc>>
  /\ UNCHANGED <<layers, work>>

\* ovl_remove_and_whiteout, ovl_whiteout: a whiteout in the work directory...
WhiteoutTemp ==
  /\ Ready /\ Removing /\ op.lowerPos
  /\ \/ work' = Temp(Whiteout) /\ Goto("whiteout_rename") /\ UNCHANGED <<dc, used>>
     \/ Fault /\ Fail("EIO") /\ dc' = Drop(op.p, dc) /\ UNCHANGED work
  /\ UNCHANGED <<layers, up>>

\* ... ovl_cleanup_and_whiteout: moved over the object, a directory by
\* RENAME_EXCHANGE...
WhiteoutRename ==
  /\ op.pc = "whiteout_rename"
  /\ \/ LET dir == up[op.p].kind = "dir"
        IN /\ up' = [x \in Paths |-> IF x = op.p THEN work.node
                                     ELSE IF x \in Kids(op.p) THEN NoNode ELSE up[x]]
           /\ work' = IF dir THEN [node |-> up[op.p],
                                   kids |-> {k \in Kids(op.p) : up[k] # NoNode}]
                      ELSE NoWork
           /\ op' = [op EXCEPT !.done = TRUE, !.pc = "whiteout_cleanup"]
           /\ UNCHANGED <<dc, used>>
     \/ Fault /\ work' = NoWork /\ Fail("EIO") /\ dc' = Drop(op.p, dc) /\ UNCHANGED up
  /\ UNCHANGED layers

\* ... and what it replaced removed.
WhiteoutCleanup ==
  /\ op.pc = "whiteout_cleanup"
  /\ work' = CleanupTemp
  /\ dc' = Drop(op.p, dc)
  /\ Finish
  /\ UNCHANGED <<layers, up, used>>

-----------------------------------------------------------------------------
(* rename and exchange. *)

Renaming == op.fn \in {"rename", "exchange"}
SameDir  == Parent(op.p) = Parent(op.q)

\* Mutant: an absolute redirect starts from the names that the dentries have now.
NamesOnly(p) == <<"/">> \o p

\* ovl_get_redirect, absolute: the path by which the lower layers know p, from the
\* redirects of the ancestors and of p where there are any.
AbsoluteRedirect(p) ==
  LET own(x) == IF dc[x].redirect # NoRedirect THEN dc[x].redirect ELSE <<Last(x)>>
      full == IF Len(p) = 2 /\ ~Absolute(own(p)) THEN own(Parent(p)) \o own(p) ELSE own(p)
  IN IF Absolute(full) THEN full ELSE <<"/">> \o full

\* ovl_set_redirect.
NewRedirect(p) ==
  LET now == dc[p].redirect
  IN IF now # NoRedirect /\ (SameDir \/ Absolute(now)) THEN now
     ELSE IF SameDir THEN <<Last(p)>> ELSE AbsoluteRedirect(p)

\* Before p moves under the directory of q: a directory with a lower part records
\* where that is, one without becomes opaque where it could merge.
Marked(p, q) ==
  CASE dc[p].dir /\ MergeOrLower(dc[p]) -> [up[p] EXCEPT !.redirect = NewRedirect(p)]
    [] dc[p].dir /\ ~MergeOrLower(dc[p]) /\ ~dc[p].opaque /\ TypeMerge(D(Parent(q))) ->
         [up[p] EXCEPT !.opaque = TRUE]
    [] OTHER -> up[p]

Mark(p, q, next) ==
  \/ /\ up' = [up EXCEPT ![p] = Marked(p, q)]
     /\ dc' = [dc EXCEPT ![p].redirect = IF dc[p].dir /\ MergeOrLower(dc[p])
                                         THEN NewRedirect(p) ELSE @,
                         ![p].opaque = @ \/ (Marked(p, q).opaque /\ ~up[p].opaque)]
     /\ Goto(next)
     /\ UNCHANGED used
  \/ Marked(p, q) # up[p] /\ Fault /\ Fail("EXDEV") /\ UNCHANGED <<up, dc>>

\* ovl_rename under lock_rename: the upper directory must hold at q what the dentry
\* says, then old is marked.
MarkOld ==
  /\ Ready /\ Renaming
  /\ IF /\ ~(dc[op.q].positive /\ dc[op.q].upper)
        /\ up[op.q].kind # "no"
        /\ ~(dc[op.q].opaque /\ up[op.q].kind = "whiteout")
     THEN Fail("ESTALE") /\ UNCHANGED <<up, dc, used>>
     ELSE Mark(op.p, op.q, IF op.fn = "exchange" THEN "mark_new" ELSE "rename")
  /\ UNCHANGED <<layers, work>>

MarkNew ==
  /\ op.pc = "mark_new"
  /\ Mark(op.q, op.p, "rename")
  /\ UNCHANGED <<layers, work>>

\* What the upper file system refuses.
Refused ==
  IF op.flags = "EXCHANGE" THEN up[op.q].kind = "no"
  ELSE /\ up[op.q].kind # "no"
       /\ \/ (up[op.p].kind = "dir") # (up[op.q].kind = "dir")
          \/ KidNodes(op.q) # {}

\* ovl_do_rename with the flags chosen at the start.
DoRename ==
  /\ op.pc = "rename"
  /\ IF Refused
     THEN /\ Fail(IF KidNodes(op.q) # {} THEN "ENOTEMPTY" ELSE "EINVAL")
          /\ UNCHANGED <<up, used>>
     ELSE \/ /\ up' = [x \in Paths |->
                         LET y == Trade(x, op.p, op.q)
                         IN IF op.flags # "EXCHANGE" /\ x \in Family(op.p)
                            THEN IF x = op.p /\ op.flags = "WHITEOUT" THEN Whiteout ELSE NoNode
                            ELSE IF y \in Paths THEN up[y] ELSE NoNode]
             /\ op' = [op EXCEPT !.done = TRUE, !.pc = IF op.sweep THEN "sweep" ELSE "ret"]
             /\ UNCHANGED used
          \/ Fault /\ Fail("EIO") /\ UNCHANGED up
  /\ UNCHANGED <<layers, work, dc>>

\* cleanup_whiteout: the whiteout that came from q in exchange is removed.
Sweep ==
  /\ op.pc = "sweep"
  /\ up' = [up EXCEPT ![op.p] = NoNode]
  /\ Finish
  /\ UNCHANGED <<layers, work, dc, used>>

-----------------------------------------------------------------------------
(* The end of a call, and of the machine. *)

\* The VFS moves or exchanges the dentries of a successful rename.
Renamed(x) ==
  LET y == Trade(x, op.p, op.q)
  IN IF ~Renaming \/ op.err # "" THEN dc[x]
     ELSE IF op.fn = "rename" /\ x \in Family(op.p) THEN NoEntry
     ELSE IF y \in Paths THEN dc[y] ELSE NoEntry

\* Dentries that were dropped go away with the last reference.
Return ==
  /\ op.pc = "ret"
  /\ dc' = [x \in Paths |-> IF Renamed(x).hashed THEN Renamed(x) ELSE NoEntry]
  /\ op' = Idle(IF op.err = "" THEN "ok" ELSE "error")
  /\ UNCHANGED <<layers, up, work, used>>

\* The machine stops and the file system is mounted again: ovl_workdir_cleanup
\* empties the work directory, the caches start empty.
Crash ==
  /\ used.faults + used.crashes < MaxTroubles
  /\ used' = [used EXCEPT !.crashes = @ + 1]
  /\ op' = Idle("crash")
  /\ dc' = NoDentry
  /\ work' = NoWork
  /\ UNCHANGED <<layers, up>>

Next ==
  \/ \E p \in Paths : DoLookup(p)
  \/ Start \/ CopyUp
  \/ CreateUpper \/ MarkNewOpaque \/ Instantiate \/ InstantiateFails
  \/ OverTemp \/ OverAttr \/ OverRename \/ OverCleanup
  \/ ClearTemp \/ ClearOpaque \/ ClearSwap \/ ClearWhiteouts \/ ClearCleanup
  \/ RemoveUpper \/ WhiteoutTemp \/ WhiteoutRename \/ WhiteoutCleanup
  \/ MarkOld \/ MarkNew \/ DoRename \/ Sweep
  \/ Return \/ Crash

Spec == Init /\ [][Next]_vars

-----------------------------------------------------------------------------
(* Properties. *)

AllIds == NewIds \cup UNION {{m[2][l][p].id : l \in DOMAIN m[2], p \in Paths} : m \in Mounts}

\* Type invariant: the upper layer is a tree of nodes, the work directory holds at
\* most one temporary object, and at most the bounds are used.
TypeOK ==
  /\ <<config, lower>> \in Mounts
  /\ up \in [Paths -> NodeType]
  /\ \A p \in Paths : Len(p) = 2 /\ up[p].kind # "no" => up[Parent(p)].kind = "dir"
  /\ work.node \in NodeType /\ work.kids \subseteq Paths
  /\ \A p \in Paths : dc[p].redirect = NoRedirect \/ dc[p].dir
  /\ op.fn \in AllFns \cup {"none"}
  /\ used.calls <= MaxCalls /\ used.faults + used.crashes <= MaxTroubles

\* The overlay behaves as one plain tree: the tree that the layers show changes in
\* one step of each call that succeeds and in none of a call that fails, whatever
\* the sequence of whiteouts, opaque marks, redirects and exchanges, and a crash
\* between two of them leaves the old tree or the new one.
Plain == INSTANCE PlainTree WITH
           TreePaths <- Paths,
           Ids <- AllIds \ {NoId},
           tree <- View(up, lower),
           call <- [fn |-> op.fn, p |-> op.p, q |-> op.q, done |-> op.done,
                    result |-> op.result]
IsPlainTree == Plain!Spec

\* Between two calls a cached dentry says what a new lookup would say: nothing that
\* a call changed in the layers was left out of the cache (ovl_instantiate, d_drop,
\* ovl_dentry_set_opaque, oi->redirect, d_move).
CacheCoherent ==
  op.pc = "idle" =>
    \A p \in Paths : dc[p].hashed =>
      LET e == Lookup(up, lower, D(Parent(p)), p)
      IN /\ <<dc[p].positive, dc[p].dir, dc[p].upper, dc[p].id>>
              = <<e.positive, e.dir, e.upper, e.id>>
         /\ e.dir => <<dc[p].lower, dc[p].redirect>> = <<e.lower, e.redirect>>
         /\ used.faults = 0 => IsWhiteout(dc[p]) = IsWhiteout(e)

\* Between two calls the work directory is empty: every path through a handler,
\* failing ones included, removes its temporary objects (ovl_cleanup).
WorkEmpty == op.pc = "idle" => work = NoWork

\* A call on a healthy upper layer fails only for a reason that the caller can see:
\* a directory with visible entries, or a move that needs redirect_dir.  In
\* particular a directory that looks empty can be removed or overwritten.
ErrorsAreReal ==
  op.pc = "ret" /\ used.faults = 0 /\ used.crashes = 0 =>
    \/ op.err = ""
    \/ op.err = "EXDEV" /\ ~config.redirect_dir
    \/ op.err = "ENOTEMPTY" /\ \E k \in Kids(Victim) : View(up, lower)[k].kind # "no"
=============================================================================
