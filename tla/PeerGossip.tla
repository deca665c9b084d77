----------------------------- MODULE PeerGossip -----------------------------
(***************************************************************************)
(* The connection matrix that every node assembles from the peer digests   *)
(* of the others (monitor/gossip.py, the peer table of monitor/metrics.py, *)
(* connection_matrix of the gateway).                                      *)
(*                                                                         *)
(* Digests are control frames: sent to everyone, the sender included,      *)
(* authenticated but not deduplicated, so each may arrive late, twice, out *)
(* of order or never.  What a Strangers node sends does not authenticate.  *)
(* A row maps originators to the messages heard of them.  Time is counted  *)
(* in ticks; 0 is never.                                                   *)
(***************************************************************************)
EXTENDS Naturals, FiniteSets, Functions

CONSTANTS
    Members,        \* nodes with the coalition's key
    Strangers,      \* nodes without it
    RowTtl,         \* _ttl
    MaxTime,        \* bound: ticks
    MaxHeard,       \* bound: messages heard, all nodes together
    MaxDigests      \* bound: digests broadcast

\* A node either has the key or has it not.
ASSUME GossipAssumptions == Members \cap Strangers = {}

Senders == Members \cup Strangers

VARIABLES
    now,
    peerCount,      \* node -> originator -> messages heard (_nodes)
    peerSeen,       \* node -> originator -> last_seen
    remote,         \* node -> node -> [row, ts] in _remote
    digests         \* digests broadcast: [node, row, at]

gossipVars == <<now, peerCount, peerSeen, remote, digests>>

NoRemote == [m \in {} |-> 0]

GossipInit ==
    /\ now = 1
    /\ peerCount = [n \in Senders |-> [o \in Senders |-> 0]]
    /\ peerSeen = peerCount
    /\ remote = [n \in Members |-> NoRemote]
    /\ digests = {}

GossipTick ==
    /\ now < MaxTime /\ now' = now + 1
    /\ UNCHANGED <<peerCount, peerSeen, remote, digests>>

HeardTotal ==
    LET row(n) == FoldFunctionOnSet(LAMBDA a, b : a + b, 0, peerCount[n], Senders)
    IN  FoldFunctionOnSet(LAMBDA a, b : a + b, 0, [n \in Members |-> row(n)], Members)

\* A message of a member is accepted: node_seen, then _enrich_peer counts it.
HearMessage(n, o) ==
    /\ n # o /\ HeardTotal < MaxHeard
    /\ peerCount' = [peerCount EXCEPT ![n][o] = @ + 1]
    /\ peerSeen' = [peerSeen EXCEPT ![n][o] = now]
    /\ UNCHANGED <<now, remote, digests>>

\* peers: every peer ever seen is listed; the timeout only marks the silent ones.
OwnRow(n) == [o \in {p \in Senders : peerSeen[n][p] # 0} |-> peerCount[n][o]]

\* One round of _loop.
BroadcastDigest(n) ==
    /\ Cardinality(digests) < MaxDigests
    /\ digests' = digests \cup {[node |-> n, row |-> OwnRow(n), at |-> now]}
    /\ UNCHANGED <<now, peerCount, peerSeen, remote>>

Recorded(n, d) ==
    remote' = [remote EXCEPT ![n] =
                 [m \in DOMAIN @ \cup {d.node} |->
                    IF m = d.node THEN [row |-> d.row, ts |-> now] ELSE @[m]]]

\* Mutant of OnDigest: the node's own digest, looped back, is recorded too.
OnDigest_OwnKept(n, d) ==
    /\ d \in digests /\ d.node \notin Strangers
    /\ Recorded(n, d)
    /\ UNCHANGED <<now, peerCount, peerSeen, digests>>

\* _on_digest of a digest that authenticates; the time is that of its arrival.
OnDigest(n, d) ==
    /\ d \in digests /\ d.node \notin Strangers /\ d.node # n
    /\ Recorded(n, d)
    /\ UNCHANGED <<now, peerCount, peerSeen, digests>>

GossipNext ==
    \/ GossipTick
    \/ \E n \in Members, o \in Members : HearMessage(n, o)
    \/ \E n \in Senders : BroadcastDigest(n)
    \/ \E n \in Members, d \in digests : OnDigest(n, d)

GossipSpec == GossipInit /\ [][GossipNext]_gossipVars

-----------------------------------------------------------------------------
FreshRemote(n) == {m \in DOMAIN remote[n] : now - remote[n][m].ts <= RowTtl}

\* matrix: the own row, then every fresh remote row.
MatrixRows(n) ==
    [m \in {n} \cup FreshRemote(n) |-> IF m \in FreshRemote(n) THEN remote[n][m].row ELSE OwnRow(n)]

MatrixNodes(n) ==
    DOMAIN MatrixRows(n) \cup UNION {DOMAIN MatrixRows(n)[m] : m \in DOMAIN MatrixRows(n)}

(* Properties.                                                             *)

\* Every variable in its set.
GossipTypeOK ==
    /\ peerCount \in [Senders -> [Senders -> Nat]]
    /\ peerSeen \in [Senders -> [Senders -> 0 .. now]]
    /\ \A n \in Members : \A m \in DOMAIN remote[n] : remote[n][m].ts \in 1 .. now

\* gossip.py: a node's matrix shows its own row as it is now, whatever digests
\* come back to it, and of another node only a row which that node has had: no
\* count above what it has heard by now.  "A rejected rogue never appears".
MatrixTruth ==
    \A n \in Members :
        /\ MatrixRows(n)[n] = OwnRow(n)
        /\ MatrixNodes(n) \cap Strangers = {}
        /\ \A m \in FreshRemote(n) : \A o \in DOMAIN MatrixRows(n)[m] :
               MatrixRows(n)[m][o] <= peerCount[m][o]
=============================================================================
