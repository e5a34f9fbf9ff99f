------------------------------- MODULE MCSetup -------------------------------
(* Model values for module Setup. *)
EXTENDS Setup, TLC

CONSTANTS s1, s2, p1, p2, d1, d2

Symmetry == Permutations({s1, s2}) \cup Permutations({p1, p2})
=============================================================================
