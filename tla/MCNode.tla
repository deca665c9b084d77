------------------------------- MODULE MCNode -------------------------------
(***************************************************************************)
(* Operating a node.  The models of its parts share no variable, so a      *)
(* behaviour runs one of them.                                             *)
(***************************************************************************)
EXTENDS NodeOperation, TLC

CONSTANTS b1, b2, c1, c2, d1
MCDevice == [c \in Conns |-> d1]

VARIABLE focus      \* the part this behaviour runs
nodeRunVars == <<focus, reconfigureVars, eudVars, atakVars>>

NodeInit ==
    /\ focus \in {"reconfigure", "eud", "atak"}
    /\ ReconfigureInit /\ EudInit
    /\ AtakInit /\ (focus = "atak" \/ ~ sendYields)

NodeNext ==
    \/ focus = "reconfigure" /\ ReconfigureNext /\ UNCHANGED <<focus, eudVars, atakVars>>
    \/ focus = "eud" /\ EudNext /\ UNCHANGED <<focus, reconfigureVars, atakVars>>
    \/ /\ focus = "atak" /\ AtakNext /\ UNCHANGED <<focus, reconfigureVars, eudVars>>
       /\ sendYields => reports' <= 1   \* only the translations have promises then

NodeSpec == NodeInit /\ [][NodeNext]_nodeRunVars

NodeSymmetry == Permutations(Conns) \cup Permutations(Bridges)
=============================================================================
