--------------------------- MODULE MCAuthThrottle ---------------------------
(* Instances of AuthThrottle for TLC. *)
EXTENDS AuthThrottle, TLC

CONSTANTS c1, c2, c3

ClientSymmetry == Permutations({c1, c2, c3})
=============================================================================
