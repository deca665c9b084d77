--------------------------- MODULE CoalitionPolicy ---------------------------
(***************************************************************************)
(* What the distribution of the coalition policy promises: the authority   *)
(* issues policies under version numbers, and every member holds one of    *)
(* them, or the permissive policy it starts with; a member moves only to a *)
(* policy issued under a higher version than its own, unless it restarts.  *)
(***************************************************************************)
EXTENDS Naturals

CONSTANTS Members, Policies, Permissive

VARIABLES issued,   \* what has been issued: a set of [version, policy]
          current,  \* version of the authority's policy
          held,     \* member -> policy it enforces
          position  \* member -> version of the policy it holds, 0: none

vars == <<issued, current, held, position>>

Init ==
    /\ \E p \in Policies : issued = {[version |-> 1, policy |-> p]}
    /\ current = 1
    /\ position = [n \in Members |-> 0]
    /\ held = [n \in Members |-> Permissive]

Issue(v) ==
    /\ \E p \in Policies : issued' = issued \cup {[version |-> v, policy |-> p]}
    /\ current' = v
    /\ UNCHANGED <<held, position>>

Adopt(n) ==
    \E u \in issued :
        /\ u.version > position[n]
        /\ position' = [position EXCEPT ![n] = u.version]
        /\ held' = [held EXCEPT ![n] = u.policy]
        /\ UNCHANGED <<issued, current>>

Restart(n) ==
    /\ position' = [position EXCEPT ![n] = 0]
    /\ held' = [held EXCEPT ![n] = Permissive]
    /\ UNCHANGED <<issued, current>>

\* The next version, or the first one again after a restart of the authority.
Next ==
    \/ Issue(current + 1)
    \/ Issue(1)
    \/ \E n \in Members : Adopt(n) \/ Restart(n)

Spec == Init /\ [][Next]_vars
==============================================================================
