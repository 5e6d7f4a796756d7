----------------------------- MODULE OvlLookup -----------------------------
(***************************************************************************)
(* How the overlay finds an object: the layers, what a dentry remembers of *)
(* them (struct ovl_entry and the flags of its inode), and ovl_lookup,     *)
(* which reads the layers from the top down and obeys whiteouts, opaque    *)
(* directories and redirects (namei.c, util.c).                            *)
(*                                                                         *)
(* A layer is a function from paths to nodes.  Paths are <<n>> and <<n, m>>*)
(* below the root <<>>, so directories of depth 2 have no children here.   *)
(* Metacopy files, the origin of a regular file and the errors of the      *)
(* layers' own lookups are left out.                                       *)
(***************************************************************************)
EXTENDS Naturals, Sequences, SequencesExt

CONSTANTS
  Top,             \* names in the root directory
  Sub              \* names in its subdirectories

ASSUME LookupAssumption == {"", "/"} \cap (Top \cup Sub) = {}

VARIABLE
  config           \* the mount options redirect_dir (a directory with a lower
                   \* part can move) and redirect_follow

Paths    == {<<n>> : n \in Top} \cup {<<n, m>> : n \in Top, m \in Sub}
Kids(p)  == IF Len(p) = 1 THEN {Append(p, m) : m \in Sub} ELSE {}
Parent(p) == Front(p)

\* F(x), where TLC evaluates x once, also in a primed state.
With(x, F(_)) == CHOOSE r \in {F(v) : v \in {x}} : TRUE

\* A redirect, and a name that ovl_lookup_data carries, is <<n>> relative to
\* the directory that is being searched, or <<"/", n, ...>> from the root.
NameType == Seq(Top \cup Sub \cup {"/"})
NoRedirect == <<>>
Absolute(name) == name # <<>> /\ Head(name) = "/"

\* An inode of a layer.  kind: no such name, whiteout, regular file, directory;
\* the xattrs opaque, redirect and (of directories) origin; id: which object
\* of the overlay this is, the same after copy-up as before.
NoId == 0
Node(kind, opaque, redirect, origin, id) ==
  [kind |-> kind, opaque |-> opaque, redirect |-> redirect, origin |-> origin, id |-> id]
NodeType == [kind : {"no", "whiteout", "file", "dir"}, opaque : BOOLEAN,
             redirect : NameType, origin : BOOLEAN, id : Nat]
NoNode   == Node("no", FALSE, NoRedirect, FALSE, NoId)
Whiteout == Node("whiteout", FALSE, NoRedirect, FALSE, NoId)

\* What a dentry and its inode keep: positive (d_inode), dir (d_is_dir), upper
\* (ovl_dentry_upper, which is at the same path of the upper layer), lower
\* (oe->lowerstack: layer index and path in that layer), opaque (OVL_E_OPAQUE),
\* redirect (oi->redirect), whiteouts (OVL_WHITEOUTS), hashed (still in the
\* dentry cache), id.
NoEntry == [positive |-> FALSE, dir |-> FALSE, upper |-> FALSE, lower |-> <<>>,
            opaque |-> FALSE, redirect |-> NoRedirect, whiteouts |-> FALSE,
            hashed |-> FALSE, id |-> NoId]
NoDentry == [p \in Paths |-> NoEntry]

\* The root dentry merges the upper root with every lower root.
RootEntry(lower) ==
  [NoEntry EXCEPT !.positive = TRUE, !.dir = TRUE, !.upper = TRUE, !.hashed = TRUE,
                  !.whiteouts = TRUE,
                  !.lower = [l \in 1..Len(lower) |-> [layer |-> l, path |-> <<>>]]]

-----------------------------------------------------------------------------
(* Questions asked of a dentry. *)

\* ovl_dentry_is_whiteout.
IsWhiteout(e) == ~e.positive /\ e.opaque

\* ovl_path_type: OVL_TYPE_MERGE.  Only directories merge, metacopy left out.
TypeMerge(e) == IF e.upper THEN e.dir /\ e.lower # <<>> ELSE Len(e.lower) > 1

\* ovl_type_merge_or_lower.
MergeOrLower(e) == TypeMerge(e) \/ ~e.upper

\* ovl_pure_upper.
PureUpper(e) == e.lower = <<>> /\ ~e.whiteouts

\* ovl_can_move.
CanMove(e) == config.redirect_dir \/ ~e.dir \/ ~MergeOrLower(e)

-----------------------------------------------------------------------------
(* ovl_lookup. *)

Nowhere == <<"">>       \* a NULL dentry

\* struct ovl_lookup_data.
LookupData(name) == [name |-> name, isDir |-> FALSE, opaque |-> FALSE,
                     stop |-> FALSE, redirected |-> FALSE]

\* ovl_check_redirect: the found component is replaced; pre and post are the
\* components of the name before and behind it.
CheckRedirect(node, d, pre, post) ==
  IF node.redirect = NoRedirect THEN d
  ELSE [d EXCEPT !.redirected = TRUE,
                 !.stop = @ /\ ~Absolute(node.redirect),
                 !.name = (IF Absolute(node.redirect) THEN <<>> ELSE pre)
                          \o node.redirect \o post]

\* ovl_lookup_single: one name in one directory of one layer.  last: no layer
\* follows, so opaque and redirect do not matter.
LookupSingle(tree, last, base, name, pre, post, d) ==
  LET at == Append(base, name)
      node == IF at \in Paths THEN tree[at] ELSE NoNode
      end == post = <<>>
      seen == [d EXCEPT !.isDir = @ \/ end]
  IN CASE node.kind = "no" -> [d |-> d, at |-> Nowhere]
       [] node.kind = "whiteout" ->
            [d |-> [d EXCEPT !.stop = TRUE, !.opaque = TRUE], at |-> Nowhere]
       [] node.kind = "file" ->
            [d |-> [d EXCEPT !.stop = TRUE], at |-> IF d.isDir \/ ~end THEN Nowhere ELSE at]
       [] node.kind = "dir" /\ last -> [d |-> seen, at |-> at]
       [] node.kind = "dir" /\ ~last /\ node.opaque ->
            [d |-> [seen EXCEPT !.stop = TRUE, !.opaque = @ \/ end], at |-> at]
       [] node.kind = "dir" /\ ~last /\ ~node.opaque ->
            [d |-> CheckRedirect(node, seen, pre, post), at |-> at]

\* One component of the walk of ovl_lookup_layer along name; s is what the components
\* before it gave.
WalkStep(tree, last, name, s, i) ==
  LET post == SubSeq(name, i + 1, Len(name))
      pre  == SubSeq(s.d.name, 1, Len(s.d.name) - Len(post) - 1)
  IN IF s.at = Nowhere THEN s
     ELSE LookupSingle(tree, last, s.at, name[i], pre, post, s.d)

\* ovl_lookup_layer: a relative name is one component; an absolute one is walked
\* from the root of the layer, and may be changed by redirects on the way, which
\* leaves the components still to come as they are.
LookupLayer(tree, last, base, d) ==
  LET walk[i \in 1..Len(d.name)] ==
        IF i = 1 THEN [d |-> d, at |-> <<>>]
        ELSE With(walk[i - 1], LAMBDA s : WalkStep(tree, last, d.name, s, i))
  IN IF ~Absolute(d.name)
     THEN LookupSingle(tree, last, base, d.name[1], <<>>, <<>>, d)
     ELSE walk[Len(d.name)]

\* One turn of the loop over the lower layers.  An absolute redirect makes the
\* search continue below the roots of the layers (poe = roe) and no longer in the
\* directories that the parent's dentry merges.
LookupLower(lower, parent, s, l) ==
  LET bases == SelectSeq(parent.lower, LAMBDA x : x.layer = l)
      last  == IF config.redirect_follow THEN l = Len(lower)
               ELSE l = parent.lower[Len(parent.lower)].layer
      Found(f) ==
        IF f.at = Nowhere THEN [s EXCEPT !.d = f.d]
        ELSE [d |-> f.d,
              stack |-> Append(s.stack, [layer |-> l, path |-> f.at]),
              refused |-> f.d.redirected /\ ~config.redirect_follow]     \* -EPERM
  IN IF s.d.stop \/ s.refused \/ (bases = <<>> /\ ~Absolute(s.d.name)) THEN s
     ELSE With(LookupLayer(lower[l], last,
                           IF Absolute(s.d.name) THEN <<>> ELSE bases[1].path, s.d), Found)

\* The rest of ovl_lookup, from what the upper layer u and the search of the lower
\* layers gave: the new ovl_entry, and the inode from ovl_get_inode.
LookupDone(up, lower, p, u, all) ==
  LET inUpper == u.at # Nowhere
      low  == all.stack
      real == IF inUpper THEN up[p]
              ELSE IF low # <<>> THEN lower[low[1].layer][low[1].path] ELSE NoNode
      dir  == real.kind = "dir"
  IN IF all.refused THEN NoEntry
     ELSE [positive |-> inUpper \/ low # <<>>, dir |-> dir, upper |-> inUpper,
           lower |-> low, opaque |-> u.d.opaque,
           redirect |-> IF u.d.redirected THEN u.d.name ELSE NoRedirect,
           \* A directory that is or was merged may have whiteouts.
           whiteouts |-> dir /\ (\/ inUpper /\ low # <<>>
                                 \/ Len(low) > 1
                                 \/ real.origin),
           hashed |-> TRUE, id |-> real.id]

\* The first part of ovl_lookup: the name in the upper directory, if the parent has one.
LookupUpper(up, parent, p) ==
  LET d0 == LookupData(<<Last(p)>>)
  IN IF parent.upper
     THEN LookupLayer(up, ~config.redirect_follow /\ parent.lower = <<>>, Parent(p), d0)
     ELSE [d |-> d0, at |-> Nowhere]

\* The loop over the lower layers, which starts with what the upper layer left in d.
LookupStack(lower, parent, d) ==
  LET search[l \in 0..Len(lower)] ==
        IF l = 0 THEN [d |-> d, stack |-> <<>>, refused |-> FALSE]
        ELSE With(search[l - 1], LAMBDA s : LookupLower(lower, parent, s, l))
  IN search[Len(lower)]

\* ovl_lookup of p below the dentry parent.
Lookup(up, lower, parent, p) ==
  With(LookupUpper(up, parent, p), LAMBDA u :
    With(LookupStack(lower, parent, u.d), LAMBDA all : LookupDone(up, lower, p, u, all)))

\* ovl_fix_origin: the upper part of a merged directory gets its origin xattr
\* when it is looked up.
FixOrigin(up, p, e) ==
  IF e.upper /\ e.dir /\ e.lower # <<>> THEN [up EXCEPT ![p].origin = TRUE] ELSE up

\* ovl_lower_positive: is there something in the lower directories of the parent
\* that the name would uncover?  The first layer that has the name decides.
LowerPositive(lower, parent, p, e) ==
  LET at(i) == lower[parent.lower[i].layer][Append(parent.lower[i].path, Last(p))]
      has == {i \in 1..Len(parent.lower) :
                /\ Append(parent.lower[i].path, Last(p)) \in Paths
                /\ at(i).kind # "no"}
  IN IF ~e.positive THEN e.opaque
     ELSE \/ ~e.upper
          \/ \E i \in has : (\A j \in has : i <= j) /\ at(i).kind # "whiteout"

-----------------------------------------------------------------------------
(* The tree that the layers show to somebody who has nothing cached. *)

View(up, lower) ==
  LET Show(e) == [kind |-> IF ~e.positive THEN "no" ELSE IF e.dir THEN "dir" ELSE "file",
                  id |-> e.id]
      top(n) == Lookup(up, lower, RootEntry(lower), <<n>>)
      SubDir(p, e) == IF e.dir THEN Lookup(up, lower, e, p) ELSE NoEntry
  IN [p \in Paths |-> IF Len(p) = 1 THEN With(top(p[1]), Show)
                      ELSE With(With(top(p[1]), LAMBDA e : SubDir(p, e)), Show)]
=============================================================================
