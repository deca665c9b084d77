--------------------------- MODULE MCTakConnector ---------------------------
(* Model values and symmetry of TakConnector for TLC.                       *)
EXTENDS TakConnector, TLC
CONSTANTS f1, f2, f3
=============================================================================
