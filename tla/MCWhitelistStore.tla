-------------------------- MODULE MCWhitelistStore --------------------------
(* Model values for module WhitelistStore. *)
EXTENDS WhitelistStore, TLC

CONSTANTS c1, c2, i1, i2, i3, d1, d2

Interchangeable ==
    Permutations(Clients) \cup Permutations(Ids) \cup Permutations(Devices)
=============================================================================
