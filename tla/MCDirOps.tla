------------------------------ MODULE MCDirOps ------------------------------
(***************************************************************************)
(* Instances of DirOps: two names in the root, one in each subdirectory,   *)
(* and two lower layers that differ in what the upper one of them hides.   *)
(***************************************************************************)
EXTENDS DirOps, TLC

LFile(i) == Node("file", FALSE, NoRedirect, FALSE, i)
LDir(i)  == Node("dir", FALSE, NoRedirect, FALSE, i)

\* A layer from the nodes at a, b, a/c and b/c.
Layer(a, b, ac, bc) ==
  (<<"a">> :> a) @@ (<<"b">> :> b) @@ (<<"a", "c">> :> ac) @@ (<<"b", "c">> :> bc)

\* a/c in the first layer, b/c in the second.
Apart  == <<Layer(LDir(11), NoNode, LFile(12), NoNode),
            Layer(NoNode, LDir(21), NoNode, LFile(22))>>
\* a merges two lower layers; b is a file.
Merged == <<Layer(LDir(11), NoNode, NoNode, NoNode),
            Layer(LDir(21), LFile(22), LFile(23), NoNode)>>
\* The first layer hides the directory a and the file b/c of the second.
Hidden == <<Layer(Whiteout, LDir(11), NoNode, Whiteout),
            Layer(LDir(21), LDir(22), LFile(23), LFile(24))>>
\* The first layer was once an upper layer where a was moved to b.
Moved  == <<Layer(Whiteout, Node("dir", FALSE, <<"/", "a">>, TRUE, 11), NoNode, NoNode),
            Layer(LDir(21), NoNode, LFile(22), NoNode)>>
\* The first layer has an opaque directory a.
Covered == <<Layer(Node("dir", TRUE, NoRedirect, FALSE, 11), NoNode, NoNode, NoNode),
             Layer(LDir(21), LDir(22), LFile(23), NoNode)>>

\* A directory in a directory, in both layers.
Nested == <<Layer(LDir(11), NoNode, LDir(12), NoNode),
            Layer(LDir(21), NoNode, LDir(22), NoNode)>>

RedirectOn       == [redirect_dir |-> TRUE, redirect_follow |-> TRUE]
RedirectOff      == [redirect_dir |-> FALSE, redirect_follow |-> TRUE]
RedirectNoFollow == [redirect_dir |-> FALSE, redirect_follow |-> FALSE]

AllMounts == ({RedirectOn} \X {Merged, Hidden, Moved, Nested})
             \cup ({RedirectNoFollow} \X {Merged, Covered})
             \cup {<<RedirectOff, Apart>>}
=============================================================================
