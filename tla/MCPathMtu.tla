----------------------------- MODULE MCPathMtu -----------------------------
(***************************************************************************)
(* Small instances of PathMtu.  Four destinations compete for at most three*)
(* places; MTU 0 in path metadata means "no metadata".                     *)
(***************************************************************************)
EXTENDS PathMtu

CONSTANTS d1, d2, d3, d4, n1, n2, n3

MCDests == {d1, d2, d3, d4}
MCNodes == {n1, n2, n3}
MCPathMtus == {0, 3}
MCScmpMtus == {1, 2}
MCHopMtus == {1, 2}
MCCapacities == {0, 3}

Symmetry == Permutations(MCDests) \cup Permutations(MCNodes)
=============================================================================
