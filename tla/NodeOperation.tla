---------------------------- MODULE NodeOperation ----------------------------
(***************************************************************************)
(* Operating a node: its hot reconfiguration, and the two ways it has to   *)
(* reach ATAK devices, the EUD server and the multicast bridge, side by    *)
(* side: they share no variable.                                           *)
(***************************************************************************)
EXTENDS HotReconfigure, EudServer, AtakBridge

\* Every variable in its set.
NodeTypeOK == ReconfigureTypeOK /\ EudTypeOK /\ AtakTypeOK
=============================================================================
