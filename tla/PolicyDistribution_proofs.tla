---------------------- MODULE PolicyDistribution_proofs ----------------------
(***************************************************************************)
(* Proofs about PolicyDistribution, for any members, peers, policies and   *)
(* bounds: type correctness; that a version names one policy until the     *)
(* authority restarts; and that the distribution, restarts included,       *)
(* implements CoalitionPolicy.                                             *)
(***************************************************************************)
EXTENDS PolicyDistribution, TLAPS, SequenceTheorems

LEMMA PermissiveIsPolicy == Permissive \in Policies
  BY DEF Permissive, Policies

\* What a sequence keeps when a policy is appended.
LEMMA AppendIssued ==
    ASSUME NEW s \in Seq(Policies), NEW p \in Policies
    PROVE  /\ Append(s, p) \in Seq(Policies) /\ Append(s, p) # <<>>
           /\ Len(s) \in Nat
           /\ Len(Append(s, p)) = Len(s) + 1
           /\ Append(s, p)[Len(s) + 1] = p
           /\ \A i \in 1 .. Len(s) : Append(s, p)[i] = s[i]
<1>1. /\ Append(s, p) \in Seq(Policies)
      /\ Len(s) \in Nat
      /\ Len(Append(s, p)) = Len(s) + 1
      /\ Append(s, p)[Len(s) + 1] = p
      /\ \A i \in 1 .. Len(s) : Append(s, p)[i] = s[i]
  OBVIOUS
<1>2. Append(s, p) # <<>>
  BY <1>1, EmptySeq
<1>3. QED BY <1>1, <1>2

LEMMA ConfiguredIssued ==
    <<Configured>> \in Seq(Policies) /\ <<Configured>> # <<>> /\ Len(<<Configured>>) = 1
  BY PolicyAssumptions

\* The authority has issued something, and it is a policy.
LEMMA AuthorityIssued ==
    ASSUME TypeOK
    PROVE  /\ AuthorityVersion \in Nat \ {0}
           /\ AuthorityPolicy \in Policies
           /\ \A i \in 1 .. AuthorityVersion : issued[i] \in Policies
<1>1. Len(issued) \in Nat \ {0} /\ \A i \in 1 .. Len(issued) : issued[i] \in Policies
  BY EmptySeq, LenProperties DEF TypeOK
<1>2. QED BY <1>1 DEF AuthorityVersion, AuthorityPolicy

\* Every edit of the authority commits a policy.
LEMMA EditsCommitPolicies ==
    ASSUME TypeOK
    PROVE  /\ \A q \in Peers : SetPeer(q) => \E p \in Policies : Commit(p)
           /\ \A action \in {"allow", "deny"} :
                SetDefault(action) => \E p \in Policies : Commit(p)
           /\ \A n \in Members, q \in Peers :
                BlockPair(n, q) \/ AllowPair(n, q) => \E p \in Policies : Commit(p)
<1>1. AuthorityPolicy \in Policies
  BY AuthorityIssued
<1>2. ASSUME NEW q \in Peers, SetPeer(q) PROVE \E p \in Policies : Commit(p)
  <2>1. PICK action \in {"block", "allow", "none"} :
          Commit([AuthorityPolicy EXCEPT !.overrides[q] = action])
    BY <1>2 DEF SetPeer
  <2>2. [AuthorityPolicy EXCEPT !.overrides[q] = action] \in Policies
    BY <1>1 DEF Policies
  <2>3. QED BY <2>1, <2>2
<1>3. ASSUME NEW action \in {"allow", "deny"}, SetDefault(action)
      PROVE  \E p \in Policies : Commit(p)
  <2>1. [AuthorityPolicy EXCEPT !.default = action] \in Policies
    BY <1>1 DEF Policies
  <2>2. QED BY <1>3, <2>1 DEF SetDefault
<1>4. ASSUME NEW n \in Members, NEW q \in Peers, BlockPair(n, q) \/ AllowPair(n, q)
      PROVE  \E p \in Policies : Commit(p)
  <2>1. /\ [AuthorityPolicy EXCEPT !.pairs = @ \cup {<<n, q>>}] \in Policies
        /\ [AuthorityPolicy EXCEPT !.pairs = @ \ {<<n, q>>}] \in Policies
    BY <1>1 DEF Policies
  <2>2. QED BY <1>4, <2>1 DEF BlockPair, AllowPair
<1>5. QED BY <1>2, <1>3, <1>4

-----------------------------------------------------------------------------
(* Type correctness.                                                       *)

LEMMA InitTypeOK == Init => TypeOK
  BY PolicyAssumptions, PermissiveIsPolicy, ConfiguredIssued DEF Init, TypeOK

\* A broadcast puts well-formed updates on the net.
LEMMA BroadcastTypes ==
    ASSUME TypeOK, NEW v \in Nat, NEW p \in Policies, Broadcast(v, p)
    PROVE  net' \in [Members -> SUBSET Update]
<1>1. [version |-> v, policy |-> p] \in Update
  BY DEF Update
<1>2. \A n \in Members : net[n] \cup {[version |-> v, policy |-> p]} \in SUBSET Update
  BY <1>1 DEF TypeOK
<1>3. QED BY <1>2 DEF Broadcast

LEMMA NextTypeOK == TypeOK /\ [Next]_vars => TypeOK'
<1> SUFFICES ASSUME TypeOK, [Next]_vars PROVE TypeOK'
  OBVIOUS
<1> USE DEF budgets
<1>1. ASSUME NEW p \in Policies, Commit(p) PROVE TypeOK'
  <2>1. issued' \in Seq(Policies) /\ issued' # <<>>
    BY <1>1, AppendIssued DEF Commit, TypeOK
  <2>2. AuthorityVersion + 1 \in Nat
    BY AuthorityIssued
  <2>3. net' \in [Members -> SUBSET Update]
    BY <1>1, <2>2, BroadcastTypes DEF Commit
  <2>4. QED BY <1>1, <2>1, <2>3 DEF Commit, TypeOK
<1>2. ASSUME Rebroadcast PROVE TypeOK'
  <2>1. net' \in [Members -> SUBSET Update]
    BY <1>2, AuthorityIssued, BroadcastTypes DEF Rebroadcast
  <2>2. QED BY <1>2, <2>1 DEF Rebroadcast, TypeOK
<1>3. ASSUME AuthorityRestart PROVE TypeOK'
  <2>1. issued' \in Seq(Policies) /\ issued' # <<>>
    BY <1>3, ConfiguredIssued DEF AuthorityRestart
  <2>2. archive' \subseteq Update
    BY <1>3, AuthorityIssued DEF AuthorityRestart, TypeOK, LifeUpdates, Update, AuthorityVersion
  <2>3. QED BY <1>3, <2>1, <2>2 DEF AuthorityRestart, TypeOK
<1>4. ASSUME NEW n \in Members, NEW u \in net[n], OnUpdate(n, u) PROVE TypeOK'
  <2>1. u.version \in Nat /\ u.policy \in Policies
    BY DEF TypeOK, Update
  <2>2. net' \in [Members -> SUBSET Update]
    BY <1>4 DEF OnUpdate, Arrives, TypeOK
  <2>3. version' \in [Members -> Nat] /\ policy' \in [Members -> Policies]
    BY <1>4, <2>1 DEF OnUpdate, TypeOK
  <2>4. QED BY <1>4, <2>2, <2>3 DEF OnUpdate, TypeOK
<1>5. ASSUME NEW n \in Members, NEW u \in net[n], Lose(n, u) PROVE TypeOK'
  BY <1>5 DEF Lose, TypeOK
<1>6. ASSUME NEW n \in Members, NEW q \in Peers, SetLocal(n, q) PROVE TypeOK'
  <2>1. blocked[n] \cup {q} \in SUBSET Peers /\ blocked[n] \ {q} \in SUBSET Peers
    BY DEF TypeOK
  <2>2. blocked' \in [Members -> SUBSET Peers]
    BY <1>6, <2>1 DEF SetLocal, TypeOK
  <2>3. QED BY <1>6, <2>2 DEF SetLocal, TypeOK
<1>7. ASSUME NEW n \in Members, MemberRestart(n) PROVE TypeOK'
  BY <1>7, PermissiveIsPolicy DEF MemberRestart, TypeOK
<1>8. CASE UNCHANGED vars
  BY <1>8 DEF vars, TypeOK
<1>9. QED
  BY <1>1, <1>2, <1>3, <1>4, <1>5, <1>6, <1>7, <1>8, EditsCommitPolicies DEF Next

\* Type correctness, authority restarts included.
THEOREM TypeCorrect == Spec => []TypeOK
  BY InitTypeOK, NextTypeOK, PTL DEF Spec
-----------------------------------------------------------------------------
(* A version names one policy.                                             *)

\* What VersionNamesPolicy says while the authority has not been restarted.
NamesOnePolicy ==
    \A n \in Members :
        /\ version[n] <= AuthorityVersion /\ policy[n] = PolicyOf(version[n])
        /\ \A u \in net[n] :
             u.version \in 1 .. AuthorityVersion /\ u.policy = issued[u.version]

LEMMA InitVersionNamesPolicy == Init => VersionNamesPolicy
<1> SUFFICES ASSUME Init PROVE VersionNamesPolicy
  OBVIOUS
<1>1. AuthorityVersion = 1
  BY ConfiguredIssued DEF Init, AuthorityVersion
<1>2. QED BY <1>1 DEF Init, VersionNamesPolicy, PolicyOf

\* Issuing one more policy under the next version keeps the names given so far.
LEMMA CommitKeepsNames ==
    ASSUME TypeOK, NamesOnePolicy, NEW p \in Policies, Commit(p)
    PROVE  NamesOnePolicy'
<1>1. /\ AuthorityVersion' = AuthorityVersion + 1
      /\ issued'[AuthorityVersion + 1] = p
      /\ \A i \in 1 .. AuthorityVersion : issued'[i] = issued[i]
      /\ AuthorityVersion \in Nat \ {0}
  BY AppendIssued, AuthorityIssued DEF Commit, AuthorityVersion, TypeOK
<1>2. ASSUME NEW n \in Members
      PROVE  version'[n] <= AuthorityVersion' /\ policy'[n] = PolicyOf(version[n])'
  <2>1. /\ version'[n] = version[n] /\ policy'[n] = policy[n] /\ version[n] \in Nat
        /\ version[n] <= AuthorityVersion /\ policy[n] = PolicyOf(version[n])
    BY DEF Commit, TypeOK, NamesOnePolicy
  <2>2. version[n] # 0 => version[n] \in 1 .. AuthorityVersion
    BY <1>1, <2>1
  <2>3. PolicyOf(version[n])' = PolicyOf(version[n])
    BY <1>1, <2>1, <2>2 DEF PolicyOf
  <2>4. QED BY <1>1, <2>1, <2>3
<1>3. ASSUME NEW n \in Members, NEW u \in net'[n]
      PROVE  u.version \in 1 .. AuthorityVersion' /\ u.policy = issued'[u.version]
  <2>1. u \in net[n] \/ u = [version |-> AuthorityVersion + 1, policy |-> p]
    BY <1>3 DEF Commit, Broadcast
  <2>2. CASE u \in net[n]
    BY <1>1, <2>2 DEF NamesOnePolicy
  <2>3. CASE u = [version |-> AuthorityVersion + 1, policy |-> p]
    BY <1>1, <2>3
  <2>4. QED BY <2>1, <2>2, <2>3
<1>4. QED BY <1>2, <1>3 DEF NamesOnePolicy

LEMMA NextNamesOnePolicy ==
    TypeOK /\ NamesOnePolicy /\ [Next]_vars => NamesOnePolicy' \/ AuthorityRestart
<1> SUFFICES ASSUME TypeOK, NamesOnePolicy, [Next]_vars, ~ AuthorityRestart
             PROVE  NamesOnePolicy'
  OBVIOUS
<1>1. ASSUME NEW p \in Policies, Commit(p) PROVE NamesOnePolicy'
  BY <1>1, CommitKeepsNames
<1>2. ASSUME Rebroadcast PROVE NamesOnePolicy'
  <2>1. /\ issued' = issued /\ policy' = policy /\ version' = version
        /\ AuthorityVersion' = AuthorityVersion
        /\ AuthorityVersion \in 1 .. AuthorityVersion
    BY <1>2, AuthorityIssued DEF Rebroadcast, AuthorityVersion
  <2>2. ASSUME NEW n \in Members, NEW u \in net'[n]
        PROVE  u.version \in 1 .. AuthorityVersion /\ u.policy = issued[u.version]
    <3>1. u \in net[n] \/ u = [version |-> AuthorityVersion, policy |-> AuthorityPolicy]
      BY <1>2, <2>2 DEF Rebroadcast, Broadcast
    <3>2. CASE u \in net[n]
      BY <3>2 DEF NamesOnePolicy
    <3>3. CASE u = [version |-> AuthorityVersion, policy |-> AuthorityPolicy]
      BY <2>1, <3>3 DEF AuthorityVersion, AuthorityPolicy
    <3>4. QED BY <3>1, <3>2, <3>3
  <2>3. QED BY <2>1, <2>2 DEF NamesOnePolicy, PolicyOf
<1>3. ASSUME issued' = issued,
             \A x \in Members : net'[x] \subseteq net[x],
             NEW n \in Members,
             \A x \in Members \ {n} : version'[x] = version[x] /\ policy'[x] = policy[x],
             version'[n] <= AuthorityVersion /\ policy'[n] = PolicyOf(version'[n])
      PROVE  NamesOnePolicy'
  <2>1. AuthorityVersion' = AuthorityVersion
    BY <1>3 DEF AuthorityVersion
  <2>2. QED BY <1>3, <2>1 DEF NamesOnePolicy, PolicyOf
<1>4. ASSUME NEW n \in Members, NEW u \in net[n], OnUpdate(n, u) PROVE NamesOnePolicy'
  <2>1. /\ u.version \in 1 .. AuthorityVersion /\ u.policy = issued[u.version]
        /\ AuthorityVersion \in Nat
    BY AuthorityIssued DEF NamesOnePolicy
  <2>2. u.version <= AuthorityVersion /\ u.policy = PolicyOf(u.version)
    BY <2>1 DEF PolicyOf
  <2>3. issued' = issued /\ \A x \in Members : net'[x] \subseteq net[x]
    BY <1>4 DEF OnUpdate, Arrives, TypeOK
  <2>4. \A x \in Members \ {n} : version'[x] = version[x] /\ policy'[x] = policy[x]
    BY <1>4 DEF OnUpdate, TypeOK
  <2>5. version'[n] <= AuthorityVersion /\ policy'[n] = PolicyOf(version'[n])
    BY <1>4, <2>2 DEF OnUpdate, TypeOK, NamesOnePolicy
  <2>6. QED BY <1>3, <2>3, <2>4, <2>5
<1>5. ASSUME NEW n \in Members, MemberRestart(n) PROVE NamesOnePolicy'
  <2>1. issued' = issued /\ \A x \in Members : net'[x] \subseteq net[x]
    BY <1>5 DEF MemberRestart
  <2>2. \A x \in Members \ {n} : version'[x] = version[x] /\ policy'[x] = policy[x]
    BY <1>5 DEF MemberRestart, TypeOK
  <2>3. version'[n] <= AuthorityVersion /\ policy'[n] = PolicyOf(version'[n])
    BY <1>5, AuthorityIssued DEF MemberRestart, TypeOK, PolicyOf
  <2>4. QED BY <1>3, <2>1, <2>2, <2>3
<1>6. ASSUME issued' = issued, version' = version, policy' = policy,
             \A x \in Members : net'[x] \subseteq net[x]
      PROVE  NamesOnePolicy'
  BY <1>6 DEF NamesOnePolicy, PolicyOf, AuthorityVersion
<1>7. ASSUME NEW n \in Members, NEW u \in net[n], Lose(n, u) PROVE NamesOnePolicy'
  BY <1>6, <1>7 DEF Lose, TypeOK
<1>8. ASSUME NEW n \in Members, NEW q \in Peers, SetLocal(n, q) PROVE NamesOnePolicy'
  BY <1>6, <1>8 DEF SetLocal
<1>9. CASE UNCHANGED vars
  BY <1>6, <1>9 DEF vars
<1>10. QED
  BY <1>1, <1>2, <1>4, <1>5, <1>7, <1>8, <1>9, EditsCommitPolicies DEF Next

\* Only a restart of the authority ends the validity of the names.
LEMMA NextVersionNamesPolicy == TypeOK /\ VersionNamesPolicy /\ [Next]_vars => VersionNamesPolicy'
<1> SUFFICES ASSUME TypeOK, VersionNamesPolicy, [Next]_vars, authorityRestarts' = 0
             PROVE  NamesOnePolicy'
  BY DEF VersionNamesPolicy, NamesOnePolicy
<1>1. authorityRestarts = 0 /\ ~ AuthorityRestart
  <2>1. ~ AuthorityRestart
    BY DEF AuthorityRestart, TypeOK
  <2>2. ASSUME NEW p \in Policies, Commit(p) PROVE authorityRestarts' = authorityRestarts
    BY <2>2 DEF Commit
  <2>3. ASSUME Rebroadcast \/ UNCHANGED vars PROVE authorityRestarts' = authorityRestarts
    BY <2>3 DEF Rebroadcast, vars, budgets
  <2>4. ASSUME NEW n \in Members, \/ MemberRestart(n)
                                  \/ \E q \in Peers : SetLocal(n, q)
                                  \/ \E u \in net[n] : OnUpdate(n, u) \/ Lose(n, u)
        PROVE  authorityRestarts' = authorityRestarts
    BY <2>4 DEF MemberRestart, SetLocal, OnUpdate, Lose, budgets
  <2>5. QED BY <2>1, <2>2, <2>3, <2>4, EditsCommitPolicies DEF Next
<1>2. NamesOnePolicy
  BY <1>1 DEF VersionNamesPolicy, NamesOnePolicy
<1>3. QED BY <1>1, <1>2, NextNamesOnePolicy

\* Until the authority restarts, a version names one policy at every member and
\* in every update on its way, whatever is lost, duplicated or reordered.
THEOREM VersionsNamePolicies == Spec => []VersionNamesPolicy
  BY InitVersionNamesPolicy, NextVersionNamesPolicy, TypeCorrect, PTL DEF Spec

-----------------------------------------------------------------------------
(* The distribution implements CoalitionPolicy: what a member may adopt    *)
(* has been issued, in this life of the authority or in an earlier one.    *)

Issued == archive \cup LifeUpdates

UpdatesIssued == \A n \in Members : net[n] \subseteq Issued

\* A commit and a restart each issue one update; no other step issues any.
LEMMA CommitIssues ==
    ASSUME TypeOK, NEW p \in Policies, Commit(p)
    PROVE  /\ Issued' = Issued \cup {[version |-> AuthorityVersion + 1, policy |-> p]}
           /\ AuthorityVersion' = AuthorityVersion + 1
<1>1. /\ issued \in Seq(Policies) /\ issued' = Append(issued, p) /\ archive' = archive
      /\ DOMAIN issued = 1 .. Len(issued)
  BY LenProperties DEF Commit, TypeOK
<1>2. /\ Len(issued) \in Nat
      /\ issued' \in Seq(Policies)
      /\ Len(issued') = Len(issued) + 1
      /\ issued'[Len(issued) + 1] = p
      /\ \A i \in 1 .. Len(issued) : issued'[i] = issued[i]
  BY <1>1, AppendIssued
<1>3. DOMAIN issued' = 1 .. (Len(issued) + 1)
  BY <1>2, LenProperties
<1>4. DOMAIN issued' = DOMAIN issued \cup {Len(issued) + 1}
  BY <1>1, <1>2, <1>3
<1>5. LifeUpdates' = LifeUpdates \cup {[version |-> Len(issued) + 1, policy |-> p]}
  BY <1>1, <1>2, <1>4 DEF LifeUpdates
<1>6. QED BY <1>1, <1>2, <1>5 DEF Issued, AuthorityVersion

LEMMA RestartIssues ==
    ASSUME AuthorityRestart
    PROVE  /\ Issued' = Issued \cup {[version |-> 1, policy |-> Configured]}
           /\ AuthorityVersion' = 1
<1>1. DOMAIN <<Configured>> = {1} /\ <<Configured>>[1] = Configured /\ Len(<<Configured>>) = 1
  OBVIOUS
<1>2. LifeUpdates' = {[version |-> 1, policy |-> Configured]}
  BY <1>1 DEF AuthorityRestart, LifeUpdates
<1>3. QED BY <1>1, <1>2 DEF AuthorityRestart, Issued, AuthorityVersion

LEMMA CurrentIssued ==
    ASSUME TypeOK
    PROVE  [version |-> AuthorityVersion, policy |-> AuthorityPolicy] \in Issued
<1>1. Len(issued) \in DOMAIN issued
  BY EmptySeq, LenProperties DEF TypeOK
<1>2. QED BY <1>1 DEF Issued, LifeUpdates, AuthorityVersion, AuthorityPolicy

LEMMA InitUpdatesIssued == Init => UpdatesIssued
  BY DEF Init, UpdatesIssued

LEMMA NextUpdatesIssued == TypeOK /\ UpdatesIssued /\ [Next]_vars => UpdatesIssued'
<1> SUFFICES ASSUME TypeOK, UpdatesIssued, [Next]_vars PROVE UpdatesIssued'
  OBVIOUS
<1>1. ASSUME NEW p \in Policies, Commit(p) PROVE UpdatesIssued'
  BY <1>1, CommitIssues DEF Commit, Broadcast, UpdatesIssued
<1>2. ASSUME Rebroadcast PROVE UpdatesIssued'
  <2>1. Issued' = Issued
    BY <1>2 DEF Rebroadcast, Issued, LifeUpdates
  <2>2. QED BY <1>2, <2>1, CurrentIssued DEF Rebroadcast, Broadcast, UpdatesIssued
<1>3. ASSUME AuthorityRestart PROVE UpdatesIssued'
  BY <1>3, RestartIssues DEF AuthorityRestart, UpdatesIssued
<1>4. ASSUME issued' = issued, archive' = archive, \A x \in Members : net'[x] \subseteq net[x]
      PROVE  UpdatesIssued'
  BY <1>4 DEF UpdatesIssued, Issued, LifeUpdates
<1>5. ASSUME NEW n \in Members, NEW u \in net[n], OnUpdate(n, u) \/ Lose(n, u)
      PROVE  UpdatesIssued'
  BY <1>4, <1>5 DEF OnUpdate, Arrives, Lose, TypeOK
<1>6. ASSUME NEW n \in Members, MemberRestart(n) \/ \E q \in Peers : SetLocal(n, q)
      PROVE  UpdatesIssued'
  BY <1>4, <1>6 DEF MemberRestart, SetLocal
<1>7. CASE UNCHANGED vars
  BY <1>4, <1>7 DEF vars
<1>8. QED BY <1>1, <1>2, <1>3, <1>5, <1>6, <1>7, EditsCommitPolicies DEF Next

LEMMA InitRefines == Init => Abstract!Init
<1> SUFFICES ASSUME Init PROVE Abstract!Init
  OBVIOUS
<1>1. /\ DOMAIN <<Configured>> = {1} /\ <<Configured>>[1] = Configured /\ Len(<<Configured>>) = 1
      /\ Configured \in Policies
  BY PolicyAssumptions
<1>2. archive \cup LifeUpdates = {[version |-> 1, policy |-> Configured]} /\ AuthorityVersion = 1
  BY <1>1 DEF Init, LifeUpdates, AuthorityVersion
<1>3. QED BY <1>1, <1>2 DEF Init, Abstract!Init

\* Every step is a step of CoalitionPolicy or leaves its variables alone.
LEMMA NextRefines ==
    TypeOK /\ UpdatesIssued /\ [Next]_vars => [Abstract!Next]_(Abstract!vars)
<1> SUFFICES ASSUME TypeOK, UpdatesIssued, [Next]_vars
             PROVE  Abstract!Next \/ UNCHANGED Abstract!vars
  OBVIOUS
<1> USE DEF Abstract!vars
<1>1. ASSUME NEW p \in Policies, Commit(p) PROVE Abstract!Next
  <2>1. UNCHANGED <<policy, version>>
    BY <1>1 DEF Commit
  <2>2. Abstract!Issue(AuthorityVersion + 1)
    BY <1>1, <2>1, CommitIssues DEF Issued, Abstract!Issue
  <2>3. QED BY <2>2 DEF Abstract!Next
<1>2. ASSUME AuthorityRestart PROVE Abstract!Next
  <2>1. UNCHANGED <<policy, version>> /\ Configured \in Policies
    BY <1>2, PolicyAssumptions DEF AuthorityRestart
  <2>2. Abstract!Issue(1)
    BY <1>2, <2>1, RestartIssues DEF Issued, Abstract!Issue
  <2>3. QED BY <2>2 DEF Abstract!Next
<1>3. ASSUME UNCHANGED <<issued, archive>>
      PROVE  UNCHANGED <<archive \cup LifeUpdates, AuthorityVersion>>
  BY <1>3 DEF LifeUpdates, AuthorityVersion
<1>4. ASSUME NEW n \in Members, NEW u \in net[n], OnUpdate(n, u)
      PROVE  Abstract!Next \/ UNCHANGED Abstract!vars
  <2>1. UNCHANGED <<archive \cup LifeUpdates, AuthorityVersion>>
    BY <1>3, <1>4 DEF OnUpdate
  <2>2. CASE u.version > version[n]
    <3>1. u \in archive \cup LifeUpdates
      BY DEF UpdatesIssued, Issued
    <3>2. Abstract!Adopt(n)
      BY <1>4, <2>1, <2>2, <3>1 DEF OnUpdate, Abstract!Adopt
    <3>3. QED BY <3>2 DEF Abstract!Next
  <2>3. CASE ~ (u.version > version[n])
    BY <1>4, <2>1, <2>3 DEF OnUpdate
  <2>4. QED BY <2>2, <2>3
<1>5. ASSUME NEW n \in Members, MemberRestart(n) PROVE Abstract!Next
  <2>1. UNCHANGED <<archive \cup LifeUpdates, AuthorityVersion>>
    BY <1>3, <1>5 DEF MemberRestart
  <2>2. QED BY <1>5, <2>1 DEF MemberRestart, Abstract!Next, Abstract!Restart
<1>6. ASSUME UNCHANGED <<issued, archive, policy, version>> PROVE UNCHANGED Abstract!vars
  BY <1>3, <1>6
<1>7. ASSUME NEW n \in Members, NEW u \in net[n], Lose(n, u) PROVE UNCHANGED Abstract!vars
  BY <1>6, <1>7 DEF Lose
<1>8. ASSUME NEW n \in Members, NEW q \in Peers, SetLocal(n, q) PROVE UNCHANGED Abstract!vars
  BY <1>6, <1>8 DEF SetLocal
<1>9. ASSUME Rebroadcast \/ UNCHANGED vars PROVE UNCHANGED Abstract!vars
  BY <1>6, <1>9 DEF Rebroadcast, vars
<1>10. QED
  BY <1>1, <1>2, <1>4, <1>5, <1>7, <1>8, <1>9, EditsCommitPolicies DEF Next

\* Restarts of either side included, members enforce only policies the authority
\* has issued, and move only to ever higher versions.
THEOREM DistributionRefines == Spec => ImplementsCoalitionPolicy
<1>1. Spec => []UpdatesIssued
  BY InitUpdatesIssued, NextUpdatesIssued, TypeCorrect, PTL DEF Spec
<1>2. Spec => Abstract!Spec
  BY <1>1, InitRefines, NextRefines, TypeCorrect, PTL DEF Spec, Abstract!Spec
<1>3. QED BY <1>2 DEF ImplementsCoalitionPolicy
=============================================================================
