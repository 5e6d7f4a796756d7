---------------------------- MODULE MCNlinkIndex ----------------------------
(* Instances of NlinkIndex for TLC. *)
EXTENDS NlinkIndexInv, TLC

Symmetry == Permutations(Procs)
=============================================================================
