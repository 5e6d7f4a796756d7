--------------------------- MODULE MCCopyUpProto ---------------------------
(***************************************************************************)
(* Instances of CopyUpProto.  Tree: directories D and E under the root R,  *)
(* a file F in D.  Link: a directory D with the file F, a hard link G of F *)
(* in the root, and X, the same file reached by a file handle.             *)
(***************************************************************************)
EXTENDS CopyUpInv, TLC

CONSTANTS R, D, E, F, G, X, r, de, dd, f

TreeDentries == {R, D, E, F}
TreeInodes   == {r, dd, de, f}
TreeInodeOf  == (R :> r) @@ (D :> dd) @@ (E :> de) @@ (F :> f)
TreeParent   == (R :> R) @@ (D :> R) @@ (E :> R) @@ (F :> D)
TreeMoves    == {<<F, E>>, <<D, E>>, <<F, R>>}

LinkDentries == {R, D, F, G, X}
LinkInodes   == {r, dd, f}
LinkInodeOf  == (R :> r) @@ (D :> dd) @@ (F :> f) @@ (G :> f) @@ (X :> f)
LinkParent   == (R :> R) @@ (D :> R) @@ (F :> D) @@ (G :> R) @@ (X :> X)
LinkMoves    == {<<G, D>>}
=============================================================================
