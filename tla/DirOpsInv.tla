----------------------------- MODULE DirOpsInv -----------------------------
(***************************************************************************)
(* The inductive invariant behind TypeOK and WorkEmpty: how the dentries   *)
(* agree with the upper layer at each step of a call, and what the call    *)
(* has established when it has come to that step.                          *)
(***************************************************************************)
EXTENDS DirOps

Objects == {"file", "dir"}

\* A redirect that ovl_get_redirect_xattr accepts.
GoodName(name) == Absolute(name) => Len(name) > 1

\* struct ovl_lookup_data.
DataType == [name : NameType, isDir : BOOLEAN, opaque : BOOLEAN, stop : BOOLEAN,
             redirected : BOOLEAN]
GoodData == {d \in DataType : GoodName(d.name)}

LayerOk(tree) == /\ tree \in [Paths -> NodeType]
                 /\ \A x \in Paths : GoodName(tree[x].redirect)

NodeInv(n) ==
  /\ n \in NodeType /\ GoodName(n.redirect)
  /\ n.kind = "no" => n = NoNode
  /\ n.kind = "whiteout" => n.id = NoId

EntryFields == {"positive", "dir", "upper", "lower", "opaque", "redirect", "whiteouts",
                "hashed", "id"}
EntryInv(e) ==
  /\ DOMAIN e = EntryFields
  /\ e.positive \in BOOLEAN /\ e.dir \in BOOLEAN /\ e.upper \in BOOLEAN
  /\ e.hashed \in BOOLEAN /\ e.opaque \in BOOLEAN /\ e.id \in Nat
  /\ e.redirect \in NameType /\ GoodName(e.redirect)
  /\ e.redirect = NoRedirect \/ e.dir
  /\ e.dir \/ e.upper => e.positive

OpFields == {"pc", "fn", "p", "q", "flags", "list", "lowerPos", "sweep", "over", "done",
             "err", "result"}

\* The variables have their fields.
Shape ==
  /\ <<config, lower>> \in Mounts
  /\ up = [x \in Paths |-> up[x]] /\ \A x \in Paths : NodeInv(up[x])
  /\ dc = [x \in Paths |-> dc[x]] /\ \A x \in Paths : EntryInv(dc[x])
  /\ work \in [node : NodeType, kids : SUBSET Paths] /\ GoodName(work.node.redirect)
  /\ DOMAIN op = OpFields /\ op.sweep \in BOOLEAN /\ op.lowerPos \in BOOLEAN
  /\ used \in [calls : 0 .. MaxCalls, faults : Nat, crashes : Nat]
  /\ used.faults + used.crashes <= MaxTroubles

\* What the upper layer has lies in directories.
UpDir(d) == d = <<>> \/ up[d].kind = "dir"
Tree == \A x \in Paths : up[x].kind # "no" => UpDir(Parent(x))

\* A dentry in the cache has a directory in the cache above it.
Anchored(x) == Parent(x) = <<>> \/ (dc[Parent(x)].hashed /\ dc[Parent(x)].dir)
CacheTree ==
  /\ \A x \in Paths : dc[x].hashed => Anchored(x)
  /\ op.pc = "idle" => \A x \in Paths : dc[x].dir => dc[x].hashed

\* A dentry has an upper part exactly where the upper layer has an object, and of its kind.
Agrees(e, n) ==
  /\ e.upper <=> n.kind \in Objects
  /\ e.upper => (e.dir <=> n.kind = "dir")

\* Where a call has changed the upper layer and not yet the dentry.
Unsettled ==
  CASE op.pc \in {"opaque", "instantiate", "over_cleanup"} -> {op.p}
    [] op.pc = "whiteout_cleanup" -> Family(op.p)
    [] op.pc \in {"clear_whiteouts", "clear_cleanup"} -> Family(Victim)
    [] OTHER -> {}

\* After the rename on disk the dentries count as they will be.
Seen(x) == IF op.pc \in {"sweep", "ret"} THEN Renamed(x) ELSE dc[x]
Settled == \A x \in Paths \ Unsettled : Seen(x).hashed => Agrees(Seen(x), up[x])

\* The list of ovl_check_empty_dir has all that the upper directory of the victim holds.
Bare(p) == \A k \in Kids(p) : up[k].kind = "no"
Covers(p) == \A k \in Kids(p) : up[k].kind # "no" => k \in op.list

\* The call in progress: its names, and what the directories above them are.
Names ==
  /\ op.fn \in AllFns \cup {"none"}
  /\ op.pc # "idle" =>
       /\ op.fn \in AllFns /\ op.p \in Paths /\ Anchored(op.p)
       /\ Renaming => /\ op.q \in Paths /\ Anchored(op.q)
                      /\ op.p # op.q /\ op.p \notin Kids(op.q) /\ op.q \notin Kids(op.p)
       /\ op.pc # "ret" => op.err = ""
       /\ op.pc \notin {"body", "ret"} =>
            UpDir(Parent(op.p)) /\ (Renaming => UpDir(Parent(op.q)))

NewKind == IF op.fn = "mkdir" THEN "dir" ELSE "file"

MakeInv ==
  /\ op.pc \in {"opaque", "instantiate", "over_attr", "over_rename", "over_cleanup"} => Making
  /\ op.pc \notin {"idle", "ret"} /\ Making =>
       ~dc[op.p].positive /\ dc[op.p].hashed /\ Bare(op.p)
  /\ op.pc \in {"opaque", "instantiate", "over_cleanup"} => up[op.p].kind = NewKind
  /\ op.pc \in {"over_attr", "over_rename"} =>
       up[op.p].kind = "whiteout" /\ work.node.kind = NewKind

RemoveInv ==
  /\ op.pc \in {"whiteout_rename", "whiteout_cleanup"} => Removing
  /\ op.pc = "body" /\ Removing /\ op.lowerPos => Covers(op.p)
  /\ op.pc = "whiteout_rename" => work.node = Whiteout /\ Bare(op.p)

ClearInv ==
  /\ op.pc # "idle" /\ op.list # {} => op.fn \in {"rmdir", "rename"}
  /\ op.pc = "body" /\ op.list # {} => Covers(Victim)
  /\ op.pc \in {"clear_opaque", "clear_swap"} =>
       op.list # {} /\ Covers(Victim) /\ work.node.kind = "dir"
  /\ op.pc \in {"clear_whiteouts", "clear_cleanup"} =>
       op.list # {} /\ up[Victim].kind = "dir" /\ Bare(Victim)

RenameInv ==
  /\ op.pc = "mark_new" => op.fn = "exchange"
  /\ op.pc \in {"rename", "sweep"} => Renaming
  /\ op.pc \notin {"idle", "ret", "sweep"} /\ Renaming => dc[op.p].hashed /\ dc[op.p].positive
  /\ op.pc \notin {"idle", "ret", "sweep"} /\ op.fn = "exchange" =>
       dc[op.q].hashed /\ dc[op.q].positive /\ op.flags = "EXCHANGE"
  /\ op.pc \in {"mark_new", "rename"} => dc[op.p].upper /\ (op.fn = "exchange" => dc[op.q].upper)
  /\ op.pc # "idle" /\ op.sweep => op.fn = "rename" /\ op.list = {} /\ op.flags = "EXCHANGE"
  /\ op.pc \in {"body", "rename"} /\ op.sweep => up[op.q].kind # "dir"
  /\ op.pc = "sweep" => op.sweep /\ Bare(op.p)

\* The temporary object.
WorkInv ==
  /\ op.pc \in {"idle", "body", "ret", "opaque", "instantiate", "mark_new", "rename", "sweep"}
       => work = NoWork
  /\ op.pc = "clear_whiteouts" => work.kids \subseteq op.list
  /\ op.pc # "clear_whiteouts" => work.kids = {}

DirInv ==
  /\ Shape /\ Tree /\ CacheTree /\ Settled /\ Names
  /\ MakeInv /\ RemoveInv /\ ClearInv /\ RenameInv /\ WorkInv
=============================================================================
