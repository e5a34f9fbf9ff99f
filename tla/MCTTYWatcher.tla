---------------------------- MODULE MCTTYWatcher ----------------------------
(* Model values for module TTYWatcher. *)
EXTENDS TTYWatcher, TLC

CONSTANTS t1, t2, w1, w2, w3, v1, v2, v3
=============================================================================
