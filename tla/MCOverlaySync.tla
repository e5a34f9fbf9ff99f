--------------------------- MODULE MCOverlaySync ---------------------------
(* Model values for module OverlaySync. *)
EXTENDS OverlaySync, TLC

CONSTANTS t1, t2, x1, x2

Interchangeable == Permutations(Threads)
=============================================================================
