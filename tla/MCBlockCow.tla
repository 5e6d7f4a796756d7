----------------------------- MODULE MCBlockCow -----------------------------
(* Small instances of BlockCow for TLC. *)
EXTENDS BlockCowInv

\* Every lower cell has a value of its own, so that a cell copied to the wrong
\* place shows; written values and holes (0) differ from all of them.
MCLowerData == [c \in 0 .. LowerSize - 1 |-> c + 1]

=============================================================================
