----------------------------- MODULE MCReadDir -----------------------------
(* Instances of ReadDir for TLC: three names and one directory of each kind. *)
EXTENDS ReadDirInv, TLC

FdSymmetry == Permutations(Fds)

MCNameSeq == <<"a", "b", "c">>

Layer(a, b, c) == [n \in {"a", "b", "c"} |-> CASE n = "a" -> a [] n = "b" -> b [] n = "c" -> c]
Empty == Layer(Gone, Gone, Gone)

\* merge: a is deleted, b was copied up, c is only in the lowest layer.
MCLowerDir == [lower  |-> <<Layer(Obj(1, 1), Gone, Obj(3, 3))>>,
               merge  |-> <<Layer(Gone, Obj(2, 2), Gone), Layer(Obj(1, 1), Gone, Obj(3, 3))>>,
               upper  |-> <<>>,
               former |-> <<>>]
MCUpperDir == [lower  |-> Empty,
               merge  |-> Layer(Wh, Obj(12, 2), Gone),
               upper  |-> Layer(Obj(11, 11), Obj(12, 2), Gone),
               former |-> Layer(Obj(11, 11), Wh, Gone)]
=============================================================================
