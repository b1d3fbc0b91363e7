---------------------------- MODULE MCNodeDirectory ----------------------------
(* A small instance of NodeDirectory for TLC. *)
EXTENDS NodeDirectory, TLC

Symmetry == Permutations(Process) \cup Permutations(Port)
=============================================================================
