--------------------------- MODULE MCPairingSession ---------------------------
(* Small instances of PairingSession for TLC. *)
EXTENDS PairingSession, TLC

\* Sound for Spec; not used with the liveness properties.
Symmetry == Permutations(User)
=============================================================================
