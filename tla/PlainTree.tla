----------------------------- MODULE PlainTree -----------------------------
(***************************************************************************)
(* What the directory operations of an overlay promise: the behaviour of   *)
(* one ordinary directory tree.  A call takes effect at one instant; a call*)
(* that returns success has taken effect, a call that fails has not; after *)
(* a crash the tree is as the call found it or as it would have left it.   *)
(* A tree maps every path to the kind of object there and which object it  *)
(* is, so that a renamed object is recognised at its new place.            *)
(***************************************************************************)
EXTENDS Naturals, Sequences

CONSTANTS
  TreePaths,     \* paths of length 1 and 2
  Ids            \* identities of objects

VARIABLES
  tree,          \* TreePaths -> [kind, id]
  call           \* the call in progress, whether it has taken effect, and how
                 \* the last one ended

plainVars == <<tree, call>>

Absent   == [kind |-> "no", id |-> 0]
NoCall(how) == [fn |-> "none", p |-> <<>>, q |-> <<>>, done |-> FALSE, result |-> how]
Fns      == {"create", "mkdir", "unlink", "rmdir", "rename", "exchange"}

Below(p) == {x \in TreePaths : Len(x) > Len(p) /\ SubSeq(x, 1, Len(p)) = p}
Exists(p) == p = <<>> \/ tree[p].kind # "no"
IsDir(p)  == p = <<>> \/ tree[p].kind = "dir"
IsEmpty(p) == \A x \in Below(p) : tree[x].kind = "no"
Up(p) == SubSeq(p, 1, Len(p) - 1)

\* Where the object at x comes from when p and q trade places, or p moves to q.
Source(x, p, q) ==
  IF x = q \/ x \in Below(q) THEN p \o SubSeq(x, Len(q) + 1, Len(x))
  ELSE IF x = p \/ x \in Below(p) THEN q \o SubSeq(x, Len(p) + 1, Len(x))
  ELSE x
At(x) == IF x \in TreePaths THEN tree[x] ELSE Absent

PlainInit ==
  /\ tree \in [TreePaths -> [kind : {"no", "file", "dir"}, id : Ids \cup {0}]]
  /\ \A p \in TreePaths : Exists(p) => IsDir(Up(p))
  /\ call = NoCall("none")

Start(fn, p, q) ==
  /\ call.fn = "none"
  /\ call' = [fn |-> fn, p |-> p, q |-> q, done |-> FALSE, result |-> "none"]
  /\ UNCHANGED tree

Make(p, kind) ==
  /\ ~Exists(p) /\ IsDir(Up(p))
  /\ \E id \in Ids : /\ \A x \in TreePaths : tree[x].id # id
                     /\ tree' = [tree EXCEPT ![p] = [kind |-> kind, id |-> id]]

Remove(p, kind) ==
  /\ tree[p].kind = kind /\ IsEmpty(p)
  /\ tree' = [tree EXCEPT ![p] = Absent]

\* The object at q, if there is one, is replaced.
Move(p, q) ==
  /\ Exists(p) /\ IsDir(Up(q))
  /\ Exists(q) => IsDir(p) = IsDir(q) /\ IsEmpty(q)
  /\ tree' = [x \in TreePaths |->
                IF x = p \/ x \in Below(p) THEN Absent ELSE At(Source(x, p, q))]

Exchange(p, q) ==
  /\ Exists(p) /\ Exists(q)
  /\ tree' = [x \in TreePaths |-> At(Source(x, p, q))]

Effect ==
  /\ call.fn # "none" /\ ~call.done
  /\ call' = [call EXCEPT !.done = TRUE]
  /\ CASE call.fn = "create"   -> Make(call.p, "file")
       [] call.fn = "mkdir"    -> Make(call.p, "dir")
       [] call.fn = "unlink"   -> Remove(call.p, "file")
       [] call.fn = "rmdir"    -> Remove(call.p, "dir")
       [] call.fn = "rename"   -> Move(call.p, call.q)
       [] call.fn = "exchange" -> Exchange(call.p, call.q)

\* A creation may be taken back before the call returns.
Undo ==
  /\ call.done /\ call.fn \in {"create", "mkdir"}
  /\ call' = [call EXCEPT !.done = FALSE]
  /\ tree' = [tree EXCEPT ![call.p] = Absent]

\* Success is reported exactly when the call took effect.
Return ==
  /\ call.fn # "none"
  /\ call' = NoCall(IF call.done THEN "ok" ELSE "error")
  /\ UNCHANGED tree

Crash == call' = NoCall("crash") /\ UNCHANGED tree

PlainNext ==
  \/ \E fn \in Fns, p \in TreePaths, q \in TreePaths \cup {<<>>} : Start(fn, p, q)
  \/ Effect
  \/ Undo
  \/ Return
  \/ Crash

Spec == PlainInit /\ [][PlainNext]_plainVars
=============================================================================
