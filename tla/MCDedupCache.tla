---------------------------- MODULE MCDedupCache ----------------------------
(* Model values and symmetry of DedupCache for TLC.                         *)
EXTENDS DedupCache, TLC
CONSTANTS k1, k2, k3, k4, k5, k6
Symmetry == Permutations(Keys)
=============================================================================
