------------------------ MODULE MCPolicyDistribution ------------------------
(* Values of the constants of PolicyDistribution for TLC.                   *)
EXTENDS PolicyDistribution, TLC
CONSTANTS n1, p
MCConfigured == [default |-> "allow", overrides |-> [q \in Peers |-> "block"], pairs |-> {}]
MCOpen == Permissive
=============================================================================
