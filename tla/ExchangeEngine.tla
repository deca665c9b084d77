--------------------------- MODULE ExchangeEngine ---------------------------
(***************************************************************************)
(* The Information Exchange Mechanism: one ExchangeEngine per node over a  *)
(* UDP multicast group (iem/exchange.py, iem/transport_udp.py), with the   *)
(* gateway operations that feed it (gateway/gateway.py).                   *)
(*                                                                         *)
(* A frame is put on the wire Repeat times; every copy goes to every node, *)
(* the sender included (multicast loopback), and each copy may be lost,    *)
(* delayed or overtaken.  A receiver runs the ingest pipeline (security,   *)
(* codec, policy, capability, duplicate) and hands an accepted message to  *)
(* its handlers one after the other, each of them an await at which any    *)
(* other task of the node may run.                                         *)
(*                                                                         *)
(* The pipeline itself, and the UDP transmit loop, contain no suspension   *)
(* point, so each is one step.  Metrics, the peer table and the sequence   *)
(* numbers, stamped but never read, are not kept here.  Malformed frames   *)
(* are rejected before any state is read and are left out.                 *)
(***************************************************************************)
EXTENDS Naturals, Sequences, FiniteSets, Functions

CONSTANTS
    Nodes,          \* the gateways
    Origins,        \* originator ids: the nodes and the bridged sources
    Msgs,           \* messages, one per (originator_id, message_id) key
    Types,          \* message types
    Handlers,       \* message handlers
    NoNode,         \* not yet transmitted
    Origin,         \* message -> originator
    Type,           \* message -> type
    Subs,           \* handler -> types it subscribes to
    InitHandlers,   \* the handlers a node registers before start()
    Key,            \* node -> coalition key
    CodecOf,        \* node -> configured codec
    Repeat,         \* copies per frame
    Window,         \* dedup_window
    Faulty,         \* handlers that may raise
    MaxLoss,        \* bound: copies of a message lost on the way to one node
    MaxEdits,       \* bound: policy and capability edits
    MaxForgets      \* bound: purges and restarts

ASSUME WindowAssumption == Window \in Nat \ {0}

ASSUME EngineAssumptions ==
    /\ IsFiniteSet(Msgs)
    /\ Nodes \subseteq Origins
    /\ NoNode \notin Nodes
    /\ Origin \in [Msgs -> Origins]
    /\ Type \in [Msgs -> Types]
    /\ Subs \in [Handlers -> SUBSET Types]
    /\ InitHandlers \in Seq(Handlers)
    /\ IsInjective(InitHandlers)    \* each registration is an object of its own
    /\ Repeat \in Nat \ {0}
    /\ Faulty \subseteq Handlers
    /\ {MaxLoss, MaxEdits, MaxForgets} \subseteq Nat

VARIABLES
    cache,      \* _seen_order (DedupCache checks that _seen is its range)
    permitted,  \* originators the node's effective policy allows
    rx, tx,     \* types the node may receive and emit
    handlers,   \* _handlers, in registration order
    tasks,      \* dispatches in progress: [msg, run, next]
    net,        \* copies in flight: node -> message -> count
    lost,       \* copies lost: node -> message -> count
    edits, forgets,                       \* budgets spent
    (* history *)
    via,        \* the node that put the message on the wire
    dispatched, \* node -> message -> number of dispatches started
    forgot,     \* node -> message -> times its key left the cache
    handled,    \* node -> handler -> message -> completed calls
    drops,      \* node -> {<<reason, message>>} rejected so far
    restarted   \* nodes whose process has been restarted

wireVars == <<net, lost>>
policyVars == <<permitted, rx, tx, edits>>
historyVars == <<via, dispatched, forgot, handled, drops, restarted>>
vars == <<cache, handlers, tasks, forgets, wireVars, policyVars, historyVars>>

Stages == <<"security", "codec", "policy", "capability", "duplicate">>
Task == [msg : Msgs, run : Nat \ {0}, next : Nat \ {0}]
PerMsg(v) == [n \in Nodes |-> [m \in Msgs |-> v]]

Init ==
    /\ cache = [n \in Nodes |-> <<>>]
    /\ permitted = [n \in Nodes |-> Origins]
    /\ rx = [n \in Nodes |-> Types]
    /\ tx = [n \in Nodes |-> Types]
    /\ handlers = [n \in Nodes |-> InitHandlers]
    /\ tasks = [n \in Nodes |-> {}]
    /\ net = PerMsg(0)
    /\ lost = PerMsg(0)
    /\ edits = 0
    /\ forgets = 0
    /\ via = [m \in Msgs |-> NoNode]
    /\ dispatched = PerMsg(0)
    /\ forgot = PerMsg(0)
    /\ handled = [n \in Nodes |-> [h \in Handlers |-> [m \in Msgs |-> 0]]]
    /\ drops = [n \in Nodes |-> {}]
    /\ restarted = {}

-----------------------------------------------------------------------------
(* The dedup cache: a FIFO of the last Window distinct keys.               *)

\* Mutant of Remember: the eviction of the oldest key is left out.
Remember_NoEviction(q, k) == IF k \in Range(q) THEN q ELSE Append(q, k)

Remember(q, k) ==
    IF k \in Range(q) THEN q
    ELSE IF Len(q) = Window THEN Append(Tail(q), k) ELSE Append(q, k)

Evicted(q, k) ==
    IF k \notin Range(q) /\ Len(q) = Window THEN {Head(q)} ELSE {}

Forget(n, K) ==
    forgot' = [forgot EXCEPT ![n] = [m \in Msgs |-> IF m \in K THEN @[m] + 1 ELSE @[m]]]

RememberAt(n, m) ==
    /\ cache' = [cache EXCEPT ![n] = Remember(@, m)]
    /\ Forget(n, Evicted(cache[n], m))

-----------------------------------------------------------------------------
(* Dispatch: a loop over the live handler list with an await per           *)
(* subscribed handler.  A task names the index the loop has reached.       *)

Pending(n, t) ==
    {i \in t.next .. Len(handlers[n]) : Type[t.msg] \in Subs[handlers[n][i]]}

FirstPending(n, t) == CHOOSE i \in Pending(n, t) : \A j \in Pending(n, t) : i <= j

\* The task as it stays in the set: gone when no subscribed handler is left.
Remaining(n, t) == IF Pending(n, t) = {} THEN {} ELSE {t}

Dispatch(n, m) ==
    LET t == [msg |-> m, run |-> dispatched[n][m] + 1, next |-> 1]
    IN  /\ dispatched' = [dispatched EXCEPT ![n][m] = @ + 1]
        /\ tasks' = [tasks EXCEPT ![n] = @ \cup Remaining(n, t)]

\* Mutant of HandlerReturns: the loop does not move past the handler.
HandlerReturns_NotAdvanced(n, t) ==
    /\ t \in tasks[n]
    /\ handled' = [handled EXCEPT ![n][handlers[n][FirstPending(n, t)]][t.msg] = @ + 1]
    /\ handled[n][handlers[n][FirstPending(n, t)]][t.msg] < 2
    /\ UNCHANGED <<cache, handlers, tasks, forgets, wireVars, policyVars,
                   via, dispatched, forgot, drops, restarted>>

\* Mutant of HandlerReturns: the loop stops at the last handler but one.
HandlerReturns_StopsEarly(n, t) ==
    /\ t \in tasks[n]
    /\ LET i == FirstPending(n, t)
       IN  IF i = Len(handlers[n]) /\ i > 1
           THEN UNCHANGED handled
           ELSE handled' = [handled EXCEPT ![n][handlers[n][i]][t.msg] = @ + 1]
    /\ tasks' = [tasks EXCEPT ![n] = @ \ {t}]
    /\ UNCHANGED <<cache, handlers, forgets, wireVars, policyVars,
                   via, dispatched, forgot, drops, restarted>>

HandlerReturns(n, t) ==
    /\ t \in tasks[n]
    /\ LET i == FirstPending(n, t)
           u == [t EXCEPT !.next = i + 1]
       IN  /\ tasks' = [tasks EXCEPT ![n] = (@ \ {t}) \cup Remaining(n, u)]
           /\ handled' = [handled EXCEPT ![n][handlers[n][i]][t.msg] = @ + 1]
    /\ UNCHANGED <<cache, handlers, forgets, wireVars, policyVars,
                   via, dispatched, forgot, drops, restarted>>

\* An exception leaves the loop: the handlers behind the faulty one are skipped.
HandlerRaises(n, t) ==
    /\ t \in tasks[n]
    /\ handlers[n][FirstPending(n, t)] \in Faulty
    /\ tasks' = [tasks EXCEPT ![n] = @ \ {t}]
    /\ UNCHANGED <<cache, handlers, forgets, wireVars, policyVars, historyVars>>

AddHandler(n, h) ==
    /\ h \notin Range(handlers[n])
    /\ handlers' = [handlers EXCEPT ![n] = Append(@, h)]
    /\ UNCHANGED <<cache, tasks, forgets, wireVars, policyVars, historyVars>>

-----------------------------------------------------------------------------
(* Sending.                                                                *)

\* Mutants of Transmit: the own key is not remembered; a single copy is sent.
Transmit_NotRemembered(n, m) ==
    /\ via[m] = NoNode
    /\ via' = [via EXCEPT ![m] = n]
    /\ net' = [d \in Nodes |-> [net[d] EXCEPT ![m] = @ + Repeat]]
    /\ UNCHANGED <<cache, forgot>>

Transmit_SentOnce(n, m) ==
    /\ via[m] = NoNode
    /\ via' = [via EXCEPT ![m] = n]
    /\ net' = [d \in Nodes |-> [net[d] EXCEPT ![m] = @ + 1]]
    /\ RememberAt(n, m)

\* Put Repeat copies on the wire to every node, remember the key.
Transmit(n, m) ==
    /\ via[m] = NoNode
    /\ via' = [via EXCEPT ![m] = n]
    /\ net' = [d \in Nodes |-> [net[d] EXCEPT ![m] = @ + Repeat]]
    /\ RememberAt(n, m)

\* A disabled type raises CapabilityError before anything changes.
Publish(n, m) ==
    /\ Origin[m] = n
    /\ Type[m] \in tx[n]
    /\ Transmit(n, m)
    /\ UNCHANGED <<handlers, tasks, forgets, lost, policyVars, dispatched, handled, drops,
                   restarted>>

\* A bridged message keeps its own originator and enters the local picture too.
IngestFromBridge(n, m) ==
    /\ Origin[m] \notin Nodes
    /\ Transmit(n, m)
    /\ Dispatch(n, m)
    /\ UNCHANGED <<handlers, forgets, lost, policyVars, handled, drops, restarted>>

-----------------------------------------------------------------------------
(* Receiving.                                                              *)

\* Mutant of Fails: the duplicate test is left out.
Fails_NoDuplicateTest(n, m) ==
    [security   |-> Key[via[m]] # Key[n],
     codec      |-> CodecOf[via[m]] # CodecOf[n],
     policy     |-> Origin[m] \notin permitted[n],
     capability |-> Type[m] \notin rx[n],
     duplicate  |-> FALSE]

Fails(n, m) ==
    [security   |-> Key[via[m]] # Key[n],
     codec      |-> CodecOf[via[m]] # CodecOf[n],
     policy     |-> Origin[m] \notin permitted[n],
     capability |-> Type[m] \notin rx[n],
     duplicate  |-> m \in Range(cache[n])]

FailsAt(n, m, i) ==
    /\ Fails(n, m)[Stages[i]]
    /\ \A j \in 1 .. (i - 1) : ~ Fails(n, m)[Stages[j]]

Arrives(n, m) ==
    /\ net[n][m] > 0
    /\ net' = [net EXCEPT ![n][m] = @ - 1]

\* Mutant of Reject: the key is remembered before the checks, not after them.
Reject_Remembers(n, m) ==
    /\ Arrives(n, m)
    /\ \E i \in DOMAIN Stages :
         /\ FailsAt(n, m, i)
         /\ drops' = [drops EXCEPT ![n] = @ \cup {<<Stages[i], m>>}]
    /\ RememberAt(n, m)
    /\ UNCHANGED <<handlers, tasks, forgets, lost, policyVars,
                   via, dispatched, handled, restarted>>

Reject(n, m) ==
    /\ Arrives(n, m)
    /\ \E i \in DOMAIN Stages :
         /\ FailsAt(n, m, i)
         /\ drops' = [drops EXCEPT ![n] = @ \cup {<<Stages[i], m>>}]
    /\ UNCHANGED <<cache, handlers, tasks, forgets, lost, policyVars,
                   via, dispatched, forgot, handled, restarted>>

Accept(n, m) ==
    /\ Arrives(n, m)
    /\ \A i \in DOMAIN Stages : ~ Fails(n, m)[Stages[i]]
    /\ RememberAt(n, m)
    /\ Dispatch(n, m)
    /\ UNCHANGED <<handlers, forgets, lost, policyVars, via, handled, drops,
                   restarted>>

Lose(n, m) ==
    /\ lost[n][m] < MaxLoss
    /\ Arrives(n, m)
    /\ lost' = [lost EXCEPT ![n][m] = @ + 1]
    /\ UNCHANGED <<cache, handlers, tasks, forgets, policyVars, historyVars>>

-----------------------------------------------------------------------------
(* Operator edits, purge and restart.                                      *)

Edit == edits < MaxEdits /\ edits' = edits + 1

SetPeer(n, o) ==
    /\ Edit
    /\ \/ permitted' = [permitted EXCEPT ![n] = @ \ {o}]
       \/ permitted' = [permitted EXCEPT ![n] = @ \cup {o}]
    /\ UNCHANGED <<cache, handlers, tasks, forgets, wireVars, rx, tx, historyVars>>

SetCapability(n, ty) ==
    /\ Edit
    /\ \E on \in BOOLEAN :
         \/ rx' = [rx EXCEPT ![n] = IF on THEN @ \cup {ty} ELSE @ \ {ty}] /\ UNCHANGED tx
         \/ tx' = [tx EXCEPT ![n] = IF on THEN @ \cup {ty} ELSE @ \ {ty}] /\ UNCHANGED rx
    /\ UNCHANGED <<cache, handlers, tasks, forgets, wireVars, permitted, historyVars>>

ForgetAll(n) ==
    /\ forgets < MaxForgets
    /\ forgets' = forgets + 1
    /\ cache' = [cache EXCEPT ![n] = <<>>]
    /\ Forget(n, Range(cache[n]))

PurgeMessages(n) ==
    /\ ForgetAll(n)
    /\ UNCHANGED <<handlers, tasks, wireVars, policyVars,
                   via, dispatched, handled, drops, restarted>>

\* A restarted process: a new engine with an empty cache;
\* dispatches in progress die.  Connection edits live in memory only; capability
\* edits survive if the node has a config file.
Restart(n) ==
    /\ ForgetAll(n)
    /\ tasks' = [tasks EXCEPT ![n] = {}]
    /\ handlers' = [handlers EXCEPT ![n] = InitHandlers]
    /\ permitted' = [permitted EXCEPT ![n] = Origins]
    /\ restarted' = restarted \cup {n}
    /\ \/ UNCHANGED <<rx, tx>>
       \/ rx' = [rx EXCEPT ![n] = Types] /\ tx' = [tx EXCEPT ![n] = Types]
    /\ UNCHANGED <<wireVars, edits, via, dispatched, handled, drops>>

Next ==
    \E n \in Nodes :
        \/ \E m \in Msgs :
             \/ Publish(n, m)
             \/ IngestFromBridge(n, m)
             \/ Reject(n, m)
             \/ Accept(n, m)
             \/ Lose(n, m)
        \/ \E t \in tasks[n] : HandlerReturns(n, t) \/ HandlerRaises(n, t)
        \/ \E h \in Handlers : AddHandler(n, h)
        \/ \E o \in Origins : SetPeer(n, o)
        \/ \E ty \in Types : SetCapability(n, ty)
        \/ PurgeMessages(n)
        \/ Restart(n)

Spec == Init /\ [][Next]_vars

-----------------------------------------------------------------------------
(* Properties.                                                             *)

\* Every variable stays within its intended set; in particular the cache never
\* grows past dedup_window (_remember evicts before it appends).
TypeOK ==
    /\ cache \in [Nodes -> Seq(Msgs)]
    /\ \A n \in Nodes : Len(cache[n]) <= Window
    /\ permitted \in [Nodes -> SUBSET Origins]
    /\ rx \in [Nodes -> SUBSET Types]
    /\ tx \in [Nodes -> SUBSET Types]
    /\ handlers \in [Nodes -> Seq(Handlers)]
    /\ tasks \in [Nodes -> SUBSET Task]
    /\ net \in [Nodes -> [Msgs -> Nat]]
    /\ lost \in [Nodes -> [Msgs -> Nat]]
    /\ edits \in Nat
    /\ forgets \in Nat
    /\ via \in [Msgs -> Nodes \cup {NoNode}]
    /\ dispatched \in [Nodes -> [Msgs -> Nat]]
    /\ forgot \in [Nodes -> [Msgs -> Nat]]
    /\ handled \in [Nodes -> [Handlers -> [Msgs -> Nat]]]
    /\ drops \in [Nodes -> SUBSET (Range(Stages) \X Msgs)]
    /\ restarted \subseteq Nodes

Known(n, m) == IF m \in Range(cache[n]) THEN 1 ELSE 0

\* Repeats are idempotent (exchange.py module docstring): a node starts to
\* dispatch a message, from the net or from a bridge, at most once more than
\* its key has left the cache by eviction, purge or restart, whatever copies
\* are repeated, reordered or looped back to the sender.
AtMostOncePerMemory ==
    \A n \in Nodes, m \in Msgs : dispatched[n][m] <= forgot[n][m] + Known(n, m)

\* Deduplication never hides a message: a key is in the cache, and a frame is
\* dropped as a duplicate, only if this node transmitted the message or has
\* dispatched it.  So a copy refused by the policy or the capability matrix
\* does not spoil the copies that arrive after the peer is allowed again.
NoFalseDuplicate ==
    \A n \in Nodes, m \in Msgs :
        (m \in Range(cache[n]) \/ <<"duplicate", m>> \in drops[n])
            => (via[m] = n \/ dispatched[n][m] > 0)

\* The running dispatches of a message that will still call the handler.
Ahead(n, m, h) ==
    {t \in tasks[n] : t.msg = m /\ \E i \in Pending(n, t) : handlers[n][i] = h}

\* Along the dispatch loop a handler gets a message at most once per dispatch:
\* completed calls plus the calls still ahead of running tasks never exceed
\* the dispatches, although handlers are added and tasks interleave.
HandledOncePerDispatch ==
    \A n \in Nodes, m \in Msgs, h \in Handlers :
        handled[n][h][m] + Cardinality(Ahead(n, m, h)) <= dispatched[n][m]

Shielded(n, h) ==
    \E i \in DOMAIN handlers[n] :
        handlers[n][i] = h /\ \A j \in 1 .. i : handlers[n][j] \notin Faulty

\* A handler registered before start() that neither raises nor stands behind
\* one that may raise is not passed over: every dispatch of a message of its
\* types has called it or has the call ahead, unless the process restarted.
ShieldedHandlerServed ==
    \A n \in Nodes \ restarted, m \in Msgs, h \in Range(InitHandlers) :
        Type[m] \in Subs[h] /\ Shielded(n, h) =>
            handled[n][h][m] + Cardinality(Ahead(n, m, h)) = dispatched[n][m]

\* The node that transmits a message never processes its own multicast
\* loopback: unless it forgot the key, a message it publishes is not
\* dispatched at all and a bridged one exactly once.
LoopbackIgnored ==
    \A n \in Nodes, m \in Msgs :
        via[m] = n /\ forgot[n][m] = 0 =>
            dispatched[n][m] = (IF Origin[m] = n THEN 0 ELSE 1)

Readable(n, m) ==
    via[m] \in Nodes /\ Key[via[m]] = Key[n] /\ CodecOf[via[m]] = CodecOf[n]

\* Message repetition (exchange.py docstring): if fewer copies than Repeat are
\* lost on the way to a node that shares key and codec with the sender, then by
\* the time its last copy is gone the node has dispatched the message, or has
\* dropped a copy for its policy or its capability matrix.
RepetitionDelivers ==
    \A n \in Nodes, m \in Msgs :
        Readable(n, m) /\ via[m] # n /\ net[n][m] = 0 /\ lost[n][m] < Repeat =>
            dispatched[n][m] > 0 \/ {<<"policy", m>>, <<"capability", m>>} \cap drops[n] # {}

\* README "Connection management" and interfaces.py ConnectionPolicy: a blocked
\* peer never enters the operational picture, i.e. no dispatch starts for a
\* message whose originator the node does not permit.
BlockedNeverEnters ==
    [][\A n \in Nodes, m \in Msgs :
        dispatched'[n][m] > dispatched[n][m] => Origin[m] \in permitted[n]]_vars

=============================================================================
