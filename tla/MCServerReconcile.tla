-------------------------- MODULE MCServerReconcile --------------------------
(* Values of the constants of ServerReconcile for TLC.                       *)
EXTENDS ServerReconcile, TLC
CONSTANTS s1, s2, r1, r2, r3, p, q
\* s1 is up with parameters p; s2 does not exist yet.
MCInitial == [s \in Servers |-> IF s = s1 THEN [params |-> p, enabled |-> TRUE] ELSE Absent]
Symmetry == Permutations(Requests)
=============================================================================
