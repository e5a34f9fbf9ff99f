--------------------------- MODULE MCRecoveryCode ---------------------------
(* Model values for module RecoveryCode. *)
EXTENDS RecoveryCode, TLC

CONSTANTS c1, c2, k1, k2, k3

Interchangeable == Permutations({c1, c2}) \cup Permutations({k1, k2, k3})
=============================================================================
