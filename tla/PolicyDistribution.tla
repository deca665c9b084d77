------------------------- MODULE PolicyDistribution -------------------------
(***************************************************************************)
(* Coalition-wide connection policy (connections/distributor.py, over the  *)
(* policies of connections/policy.py, wired by gateway/gateway.py).        *)
(*                                                                         *)
(* One node is the authority.  Each change of its coalition policy bumps a *)
(* version and broadcasts a snapshot, and a loop re-broadcasts it; every   *)
(* other node replaces its copy by any strictly newer one.  A member       *)
(* accepts a peer's traffic only if its local row, the coalition policy    *)
(* and the pair map all do.                                                *)
(*                                                                         *)
(* A change, its version bump and its broadcast run without a suspension   *)
(* point over UDP and are one step.  Updates may be lost, duplicated,      *)
(* delayed and reordered.  Every update comes from the authority and its   *)
(* signature verifies: forged updates are not modelled.                    *)
(***************************************************************************)
EXTENDS Naturals, Sequences, FiniteSets

CONSTANTS
    Members,            \* the nodes other than the authority
    Peers,              \* originators a policy speaks about
    Configured,         \* the coalition policy in the authority's config file
    MaxEdits,           \* bound: authority and local edits
    MaxRestarts,        \* bound: member restarts
    AuthorityRestarts   \* bound: authority restarts

Policies == [default : {"allow", "deny"},
             overrides : [Peers -> {"allow", "block", "none"}],
             pairs : SUBSET (Members \X Peers)]

Permissive == [default |-> "allow", overrides |-> [p \in Peers |-> "none"], pairs |-> {}]

ASSUME PolicyAssumptions ==
    /\ Configured \in Policies /\ Configured.pairs = {}
    /\ {MaxEdits, MaxRestarts, AuthorityRestarts} \subseteq Nat

VARIABLES
    issued,     \* the authority's policies in version order; the last is its own
    policy,     \* member -> its copy of the coalition policy and pair map
    version,    \* member -> _version
    blocked,    \* member -> peers its local row blocks
    net,        \* member -> updates on their way to it
    archive,    \* history: the updates of the authority's earlier lives
    edits, restarts, authorityRestarts      \* budgets spent

budgets == <<edits, restarts, authorityRestarts>>
vars == <<issued, policy, version, blocked, net, archive, budgets>>

Update == [version : Nat, policy : Policies]

Init ==
    /\ issued = <<Configured>>
    /\ policy = [n \in Members |-> Permissive]
    /\ version = [n \in Members |-> 0]
    /\ blocked = [n \in Members |-> {}]
    /\ net = [n \in Members |-> {}]
    /\ archive = {}
    /\ edits = 0
    /\ restarts = 0
    /\ authorityRestarts = 0

-----------------------------------------------------------------------------
(* Authority.                                                              *)

\* The authority starts at version 1, its configured policy.
AuthorityVersion == Len(issued)
AuthorityPolicy == issued[Len(issued)]
LifeUpdates == {[version |-> i, policy |-> issued[i]] : i \in DOMAIN issued}

Broadcast(v, p) ==
    net' = [n \in Members |-> net[n] \cup {[version |-> v, policy |-> p]}]

\* Mutant of Commit: the snapshot is broadcast before the version is bumped.
Commit_BumpedLast(p) ==
    /\ edits < MaxEdits
    /\ edits' = edits + 1
    /\ issued' = Append(issued, p)
    /\ Broadcast(AuthorityVersion, p)
    /\ UNCHANGED <<policy, version, blocked, archive, restarts, authorityRestarts>>

Commit(p) ==
    /\ edits < MaxEdits
    /\ edits' = edits + 1
    /\ issued' = Append(issued, p)
    /\ Broadcast(AuthorityVersion + 1, p)
    /\ UNCHANGED <<policy, version, blocked, archive, restarts, authorityRestarts>>

\* Mutant of SetPeer: a reset is stored as an override of its own.
SetPeer_ResetStored(q) ==
    \E action \in {"block", "allow", "reset"} :
        Commit([AuthorityPolicy EXCEPT !.overrides[q] = action])

SetPeer(q) ==
    \E action \in {"block", "allow", "none"} :
        Commit([AuthorityPolicy EXCEPT !.overrides[q] = action])

SetDefault(action) == Commit([AuthorityPolicy EXCEPT !.default = action])

BlockPair(n, q) == Commit([AuthorityPolicy EXCEPT !.pairs = @ \cup {<<n, q>>}])
AllowPair(n, q) == Commit([AuthorityPolicy EXCEPT !.pairs = @ \ {<<n, q>>}])

\* The periodic loop.
Rebroadcast ==
    /\ Broadcast(AuthorityVersion, AuthorityPolicy)
    /\ UNCHANGED <<issued, policy, version, blocked, archive, budgets>>

\* A new gateway object: version 1 and the policy of the config file again.
AuthorityRestart ==
    /\ authorityRestarts < AuthorityRestarts
    /\ authorityRestarts' = authorityRestarts + 1
    /\ archive' = archive \cup LifeUpdates
    /\ issued' = <<Configured>>
    /\ UNCHANGED <<policy, version, blocked, net, edits, restarts>>

-----------------------------------------------------------------------------
(* Members.                                                                *)

\* The update leaves the network, or another copy of it is still to come.
Arrives(n, u) ==
    /\ u \in net[n]
    /\ \/ net' = [net EXCEPT ![n] = @ \ {u}]
       \/ UNCHANGED net

\* Mutants of OnUpdate: no version test; the pair map is not replaced.
OnUpdate_AnyVersion(n, u) ==
    /\ Arrives(n, u)
    /\ version' = [version EXCEPT ![n] = u.version]
    /\ policy' = [policy EXCEPT ![n] = u.policy]
    /\ UNCHANGED <<issued, blocked, archive, budgets>>

OnUpdate_PairsKept(n, u) ==
    /\ Arrives(n, u)
    /\ IF u.version > version[n]
       THEN /\ version' = [version EXCEPT ![n] = u.version]
            /\ policy' = [policy EXCEPT ![n] = [u.policy EXCEPT !.pairs = policy[n].pairs]]
       ELSE UNCHANGED <<version, policy>>
    /\ UNCHANGED <<issued, blocked, archive, budgets>>

OnUpdate(n, u) ==
    /\ Arrives(n, u)
    /\ IF u.version > version[n]
       THEN /\ version' = [version EXCEPT ![n] = u.version]
            /\ policy' = [policy EXCEPT ![n] = u.policy]
       ELSE UNCHANGED <<version, policy>>
    /\ UNCHANGED <<issued, blocked, archive, budgets>>

Lose(n, u) ==
    /\ u \in net[n]
    /\ net' = [net EXCEPT ![n] = @ \ {u}]
    /\ UNCHANGED <<issued, policy, version, blocked, archive, budgets>>

\* POST /api/connections/{peer}: the member's own row.
SetLocal(n, q) ==
    /\ edits < MaxEdits
    /\ edits' = edits + 1
    /\ \/ blocked' = [blocked EXCEPT ![n] = @ \cup {q}]
       \/ blocked' = [blocked EXCEPT ![n] = @ \ {q}]
    /\ UNCHANGED <<issued, policy, version, net, archive, restarts, authorityRestarts>>

\* A late joiner: permissive, at version 0.  The local row is that of its config
\* file, which blocks nobody: edits of it live in memory only.
MemberRestart(n) ==
    /\ restarts < MaxRestarts
    /\ restarts' = restarts + 1
    /\ policy' = [policy EXCEPT ![n] = Permissive]
    /\ version' = [version EXCEPT ![n] = 0]
    /\ blocked' = [blocked EXCEPT ![n] = {}]
    /\ UNCHANGED <<issued, net, archive, edits, authorityRestarts>>

Next ==
    \/ \E q \in Peers : SetPeer(q)
    \/ \E action \in {"allow", "deny"} : SetDefault(action)
    \/ \E n \in Members, q \in Peers : BlockPair(n, q) \/ AllowPair(n, q) \/ SetLocal(n, q)
    \/ Rebroadcast
    \/ AuthorityRestart
    \/ \E n \in Members : MemberRestart(n) \/ \E u \in net[n] : OnUpdate(n, u) \/ Lose(n, u)

Spec == Init /\ [][Next]_vars

(* The authority's loop never ends, and of the copies of its current update *)
(* broadcast again and again not all are lost.                              *)
Fairness ==
    /\ WF_vars(Rebroadcast)
    /\ \A n \in Members :
         SF_vars(\E u \in net[n] : /\ u.version = AuthorityVersion
                                   /\ u.policy = AuthorityPolicy
                                   /\ OnUpdate(n, u))

FairSpec == Spec /\ Fairness

-----------------------------------------------------------------------------
(* Enforcement: CompositePolicy over the local row, the coalition policy   *)
(* and the pair map.                                                       *)

AllowsPeer(p, q) ==
    IF p.overrides[q] = "none" THEN p.default = "allow" ELSE p.overrides[q] = "allow"

\* What the member enforces under a given coalition policy.
AcceptsUnder(n, q, p) == q \notin blocked[n] /\ AllowsPeer(p, q) /\ <<n, q>> \notin p.pairs

Accepts(n, q) == AcceptsUnder(n, q, policy[n])

-----------------------------------------------------------------------------
(* Properties.                                                             *)

\* Every variable in its set.
TypeOK ==
    /\ issued \in Seq(Policies) /\ issued # <<>>
    /\ policy \in [Members -> Policies]
    /\ version \in [Members -> Nat]
    /\ blocked \in [Members -> SUBSET Peers]
    /\ net \in [Members -> SUBSET Update]
    /\ archive \subseteq Update
    /\ edits \in Nat /\ restarts \in Nat /\ authorityRestarts \in Nat

PolicyOf(v) == IF v = 0 THEN Permissive ELSE issued[v]

\* Until the authority restarts, a version number names one policy: the policy
\* a member enforces is the one the authority issued under the member's
\* version, and so is every update still on its way, however late.
VersionNamesPolicy ==
    authorityRestarts = 0 =>
        \A n \in Members :
            /\ version[n] <= AuthorityVersion /\ policy[n] = PolicyOf(version[n])
            /\ \A u \in net[n] :
                 u.version \in 1 .. AuthorityVersion /\ u.policy = issued[u.version]

\* Distribution implements CoalitionPolicy: a member only ever enforces a policy
\* the authority has issued, whole, with its pair map, and moves to ever higher
\* versions, whatever is lost, repeated, delayed or restarted.
Abstract == INSTANCE CoalitionPolicy WITH
    issued <- archive \cup LifeUpdates, current <- AuthorityVersion,
    held <- policy, position <- version
ImplementsCoalitionPolicy == Abstract!Spec

\* distributor.py docstring: a coalition-wide block/allow converges across the
\* whole network, late joiners included.  Once edits and restarts have stopped,
\* every member enforces what the authority's policy says.
Converges ==
    <>[](\A n \in Members, q \in Peers : Accepts(n, q) <=> AcceptsUnder(n, q, AuthorityPolicy))

\* A restarted authority counts from 1 again, so its updates are ignored by the
\* members that hold a higher version; but once its edits have overtaken every
\* version of its earlier lives, the members do follow it, and updates of an
\* earlier life that are still on their way can no longer lead them astray.
OvertakingConverges ==
    <>[](\A u \in archive : u.version < AuthorityVersion) => Converges
=============================================================================
