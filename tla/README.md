# A verification project for JDSS Arrow

JDSS Arrow is a Python node for coalition data exchange: position tracks, reports and
chat travel between *gateways* over UDP multicast, are relayed to and from TAK servers and
ATAK devices, and are governed by connection policies and capability matrices that an
operator edits while the node runs.  Almost everything runs on one `asyncio` event loop
per process; the difficulty lies in what happens between two awaits, in what the network
does to repeated frames, and in what a restart forgets.

This directory holds TLA+ modules that model that behaviour, TLC configurations that check
them on small instances, and proofs that the TLA+ proof system checks for every value of
the constants.  `PROJECT.json` records, for every definition, the lines it models, and for
every property the run that checks it and a mutant of the code that would break it.

All source paths below are relative to `src/jdssarrow/` unless they start with
`README.md`, `simulator/` or `web-ui/`.

## 1. The system

### 1.1 Components

| Component | State it keeps | Operations | Talks to | What makes it correct |
|---|---|---|---|---|
| Exchange engine (`iem/exchange.py`) | dedup set and deque, handler list, capability matrix, policy | publish, relay_from_bridge, receive pipeline, dispatch, clear_dedup, add_handler | transport, security provider, codec, policy, metrics | a message is processed once whatever copies arrive; refused traffic never enters; an accepted message reaches every handler |
| UDP multicast transport (`iem/transport_udp.py`) | socket, callback | start, stop, send, datagram received | engine | every copy reaches the engine, the sender's own included |
| Loopback transport (`iem/transport_loopback.py`) | bus of transports, handler, running flag | start, stop, send | engine | every other peer of the bus has handled a frame when its send returns |
| Gateway (`gateway/gateway.py`, `gateway/node.py`) | engine, policies, distributor, gossip, metrics | start, stop, publish, identify, operator edits, purge | everything | start and stop are orderly; edits take effect at once |
| Connection policies (`connections/policy.py`) | default, overrides, pair map | allow, block, reset, pairs | engine, distributor | a message is accepted only if every policy allows it |
| Policy distribution (`connections/distributor.py`) | version, coalition policy, pair map | authority edits, broadcast loop, on_update | transport, policies | versions order updates; all members converge |
| Policy signing (`connections/signing.py`) | key | sign, verify | distributor | an update that was tampered with is refused |
| Capability matrix (`capabilities.py`) | types the node may send and receive | enable, disable | engine, config file | disabled types neither leave nor enter; edits are kept |
| TAK server connector (`bridges/takserver.py`) | writer, bounded queue, drop counter, backoff, write lock | start, stop, send, supervise, flush, read | TAK server, manager | frames wait in order, are not duplicated or lost silently; locks are released |
| TAK server manager (`web/servers.py`, `web/routers/servers.py`) | definitions, live connectors, temporary certificate files, originators per server | create, update, delete, reconcile, attach, receive, relay | connectors, gateway, config file | exactly the enabled servers are connected; no server gets its own tracks back |
| Hot reconfiguration (`web/runtime.py`, `web/routers/config.py`, `config/`) | running gateway and node, config file | PUT, capability and section edits, start of the process | gateway, managers, file | a bad patch never leaves the node down; the file says what is live |
| ATAK bridge (`bridges/atak.py`) | table of last presences | start, stop, both translations, sweep | CoT multicast, node | no loop between the networks; silent tracks are deleted, live ones are not |
| CoT mapping, symbology (`bridges/cot.py`, `datamodel/symbology.py`) | none | both translations, staleness, delete, symbol codes | all bridges | what goes out and comes back is the same thing |
| EUD server (`web/eud_server.py`) | listener, clients, originators per client | reconfigure, accept, ingest, fan out | devices, gateway | the listener asked for; no echo to the origin; a broken client hurts nobody else |
| Peer gossip (`monitor/gossip.py`) | rows of other nodes | broadcast, receive, matrix | transport | the matrix shows what nodes have really heard |
| Metrics, audit log, telemetry (`monitor/`, `audit.py`) | counters, ring buffers, feeds | record, purge, subscribe | engine, browsers | the records agree; a slow browser hurts nobody |
| Data model, codecs (`datamodel/`) | none | encode, decode, validate | engine | a message comes back as it was, or not at all |
| Security (`security/`) | keys, certificates | protect, verify | engine | only what holders of the key sent is accepted |
| Network access, loaned radio (`networkaccess/`, `loanedradio/`) | none | allocate an address, build a transport | gateway | distinct nodes get distinct addresses |
| Plugin registry (`plugins/`) | factories | register, create | gateway | |
| In-process simulation (`simulator/`) | one simulation, its loop task, its statistics | start, stop, tick, report | loopback or UDP, dashboard | one simulation at a time; the report is what happened |
| External simulator (`simulator/engine.py` at the top) | units, feed, seen messages | start, stop, tick, receive, acknowledge | gateway's REST and feed, or multicast | one Receipt per message |
| Users and sessions (`auth/users.py`, `web/routers/auth.py`) | credentials file, secret | seed, migrate, save, log in, verify | web | sessions and accounts outlive restarts |
| Web application, CLI, dashboard (`web/app.py`, `cli.py`, `web-ui/`) | none of their own | wiring, read endpoints | all | |

### 1.2 How they interact

    operator --REST--> routers --> gateway --> engine --> transport ==UDP multicast==> other nodes
                          |           |          ^  |
                          |           |          |  +--> handlers --> bridges (TAK, ATAK, EUD)
                          |           +--> policies <-- distributor <==policy updates==
                          +--> server manager --> TAK connectors --TCP--> TAK servers
                          +--> runtime.reconfigure (replaces gateway and node, re-attaches
                          |       the server manager and the EUD server, saves the file)
                          +--> simulation manager --> clients on a bus of their own
                          +--> /ws/events <-- metrics feeds;  /api/inject <-- simulators

Handlers registered with the engine send accepted messages to the bridges; bridges put what
they receive back through `ingest_from_bridge`.  Updates of the coalition policy travel as
control frames over the same transport.  REST endpoints written with `async def` run on the
event loop; those written with plain `def` (for example the purge of `web/routers/logs.py`)
run in a worker thread beside it.

### 1.3 What is hard

* **Repetition, loss, reordering, loopback.**  Each frame is sent several times; copies
  arrive late, in any order, around purges and restarts, at the sender too.
* **Awaits.**  Dispatch awaits each handler; the TAK flush awaits a lock and a drain between
  reading the head of the queue and removing it; reconciliation awaits connectors.
* **Threads.**  The purge runs beside the event loop with no lock.
* **Restarts.**  Policy versions and dedup keys live in memory only; config and credentials
  are files that are truncated and then written.
* **Missing locks.**  Reconfiguration, reconciliation, the EUD listener and the simulation
  manager test a condition, await, and act on it.
* **Limits.**  The dedup window, the TAK queue, the ring buffers, the queue of a slow browser.
* **Loops.**  CoT and JDSS are bridged at several places at once, and simulators answer
  each other: markers and tables of originators have to stop the circles.

`PROJECT.json` "hazards" lists each of them at the line where it bites, with the properties
that would catch it, or the reason why no property does so yet.

## 2. The modules

| Module | Models | Composed with |
|---|---|---|
| `ExchangeEngine` | engine, UDP transport, the gateway operations that feed them, several nodes | uses the set view of the cache, justified by `DedupCache` |
| `DedupCache` | `_seen` and `_seen_order` statement by statement, with the purge thread | implements `DedupWindow` |
| `DedupWindow` | abstract: the last `Window` distinct keys | |
| `PolicyDistribution` | distributor, policies, their enforcement | implements `CoalitionPolicy` |
| `CoalitionPolicy` | abstract: members move forward along a sequence of issued policies | |
| `TakConnector` | supervisor, flush, concurrent sends, link and server | |
| `ServerReconcile` | REST requests, reconcile, connectors, certificate files | |
| `HotReconfigure` | PUT, section edits, the config file, crash and start | `NodeOperation` |
| `EudServer` | listener, clients, ingest, fan-out | `NodeOperation` |
| `AtakBridge` | several bridges between the coalition and the CoT group | `NodeOperation` |
| `NodeOperation` | the three side by side, and the types of them together | `MCNode` |
| `ServerRelay` | tracks of TAK servers to the coalition and back, under a replaced gateway | `Services` |
| `Monitoring` | telemetry, audit log, feeds, purge | `Services` |
| `PeerGossip` | digests and the connection matrix | `Services` |
| `SimulationControl` | start, stop and loop of the simulation manager | `Services` |
| `SimScenario` | a whole run of the simulation and its report | `Services` |
| `ExternalSimulator` | several external simulators and their acknowledgements | `Services` |
| `UserStore` | credentials file, process starts, sessions | `Services` |
| `Services` | these seven and `DedupCache` side by side, and what several of them promise together | `MCSupport` |
| `MessageMapping` | CoT mapping, symbol codes, inject schema: pure functions | `MCSupport` |
| `WireFormat` | XML codec, validation, tag, frame: pure functions | `MCSupport` |
| `MCNode`, `MCSupport` | behaviours that run one of the modules of `NodeOperation`, `Services` or the translations | |
| other `MC*` | model values, symmetry sets and functions for TLC | |
| `SequenceFacts` | lemmas on sequences and finite sets | used by the proof modules below |
| `ExchangeEngine_proofs`, `PolicyDistribution_proofs`, `DedupCache_proofs`, `TakConnector_proofs`, `ServerReconcile_proofs` | theorems about one module each | extend it |
| `Node_proofs` | theorems about `AtakBridge`, `EudServer`, `HotReconfigure` | extends `NodeOperation` |
| `Support_proofs` | theorems about `ServerRelay`, `ExternalSimulator`, `UserStore`, `Monitoring`, `SimulationControl`, `PeerGossip`, `SimScenario` | extends `Services` and `DedupCache_proofs` |

`NodeOperation` and `Services` extend modules that share no variable.  In `MCNode` and
`MCSupport` a variable (`focus`, `part`) chosen in the initial state says which of them the
behaviour runs; the others stay in an initial state.  So one run explores each of the modules
as far as a run of its own would, and the sum, not the product, of their states.
Each of those modules also has a specification of its own, over its own variables (`AtakSpec`,
`EudSpec`, `ReconfigureSpec`, `RelaySpec`, `SimulatorSpec`, `StoreSpec`, `MonitoringSpec`,
`SimSpec`, `GossipSpec`, `ScenarioSpec`); the theorems are about these.

In every module, operators named `X_Something` that precede `X` under a comment "Mutant of
X" are wrong versions of `X`, the way a plausible bug would have it.  They are not part of
the specification; the property they are paired with in `PROJECT.json` must fail when they
replace `X`.  Variables under "history" are not in the program: they record what the
properties speak about and no guard reads them, with two exceptions: `via`, which
says whether a message has been transmitted and by which node, i.e. stands for the contents
of the frame on the wire; and `dispatched`, which gives each dispatch a number of its own.

### 2.1 `ExchangeEngine`

One engine per node.  A *message* stands for one `originator_id:message_id` key.  `Publish`
is `Gateway.publish` and `ExchangeEngine.publish` down to `_transmit` and the UDP loop that
sends `Repeat` copies: it contains no suspension point on UDP, so it is one step and the
node's key is remembered before the first copy comes back.  `IngestFromBridge` transmits
without capability test and then dispatches locally, as the code does.  `Reject` and
`Accept` are `_on_frame`: the five tests are the record `Fails`, tried in the order of
`Stages`; the first that fails names the drop reason, and only a frame that passes all five
is remembered and dispatched.  Wrong key and wrong codec are properties of sender and
receiver (`Key`, `CodecOf`).  A *task* is one run of `_dispatch`; `next` is the position of
the loop in the **live** handler list, so that handlers added during a dispatch are seen by
it, and an exception (`HandlerRaises`) ends it.  `Restart` builds a new engine:
empty cache, the handlers registered at start-up.  Connection edits live in memory only and
are gone; capability edits are saved if the node was started from a file, hence the two
alternatives.  Copies in flight survive a restart.

Abstractions: payloads, timestamps and signatures are not kept; metrics, the audit log, the
peer table and the sequence number are written but never read by this code and are left
out; frames that cannot be parsed are refused before any state is read.

### 2.2 `DedupCache` and `DedupWindow`

`ExchangeEngine` treats the cache as one sequence.  The code keeps a set and a deque, and
`clear_dedup` clears them in two statements in a worker thread.  `DedupCache` has one action
per statement of `_is_duplicate`, `_remember` and `clear_dedup`, and the variable `overlap`,
chosen initially, says whether the purge may fall between the statements of the event loop.  Without overlap
it implements `DedupWindow`, which is what `ExchangeEngine` assumes; with overlap it shows
what is still true, and what is not (section 5).  `_remember` has two callers: `Receive` is
`_on_frame`, `Transmitted` is `_transmit`, and `receiving` tells them apart: only a frame
that came in is one `_on_frame` has to decide about, so only its `IndexError` sets `failed`.  A single call on a set or deque is atomic
under the interpreter lock.  One purge runs at a time.

### 2.3 `PolicyDistribution` and `CoalitionPolicy`

`issued` is what the authority has issued since it started; its length is the version, since
the counter starts at 1 with the configured policy and grows by one with each edit (`Commit`
changes, bumps and broadcasts without suspension).  `archive` (history) keeps the updates of
its earlier lives.  `OnUpdate` is the handler of a member: strictly newer replaces policy
and pair map, anything else is ignored.  `net` is a set of
updates for each member: a delivered update may stay (duplication, delay) or leave, and may
be lost.  `AllowsPeer`, `AcceptsUnder` are `CoalitionPolicy.allows_peer` and
`CompositePolicy`.  `MemberRestart` is a late joiner; `AuthorityRestart` is a new authority
process, at version 1 with the policy of its config file.  Every update is the authority's
and its signature verifies.

`CoalitionPolicy` is what a member may rely on: it enforces a policy only if the authority
has issued it, in this life or an earlier one, with the version it was issued under, and its
version never goes down unless it restarts itself.

### 2.4 `TakConnector`

The supervisor task is the variable `sup`, one value per await of `_run`, `_flush_queue`
and `_read_loop`; each concurrent `send()` is a frame with its own position in `send`.  The
`asyncio.Lock` is the queue `lock`, holder first.  `send()` reads the writer *before* it
waits for the lock (`captured`) and `_flush_queue` reads the head of the queue *before* it waits
for the lock and drains (`frame`); both matter.  A connection is a number, its link is `up`,
`dead` (broken, or closed with data still in its buffer) or `lost`; a `dead` one takes what is
written to it, as `asyncio` transports do until their buffer is empty, writing to a lost one
does nothing and `drain()` raises.  `wait_closed()` waits for `lost`.  `written` records what was handed to some connection; what the server
reads of it is beyond the connector's knowledge and beyond the model.  `Wake`, the end of the
backoff sleep, waits until tasks that can go on have gone on: the sleep lasts at least a
second.  `StopAndStart` cancels the supervisor at any await.  Read data is reduced to the
exception a receive handler may raise (`ReadHandlerRaises`).  TCP and `asyncio` are external.

### 2.5 `ServerReconcile`

A request is a coroutine: the endpoint replaces `gateway.config.servers`, `reconcile` works
from its own snapshot `desired`, visits the connectors it must stop, then the servers it
must start, assigns `_defs` and saves the file.  Only `connector.start()` and
`connector.stop()` are awaited; `current` gives the event loop to one request between two
such awaits.  `overlapped` (history) says whether a request has begun before the last one
ended.  `_tmp` (certificate files) is modelled because `_stop_one` reads it after an await.

### 2.6 `HotReconfigure`

A request is a coroutine (PUT, an edit of the servers) or a worker thread (a capability
edit); `at` is the await it has reached.  `StopOld`, `StartNew`, `Identify`,
`ServersReconciled`, `EudReconfigured` are the awaits of `reconfigure` in its order; `Load`,
`Truncate`, `Write` those of saving, where the event loop does not yield (`LoopFree`) but
threads do not wait for it.  `gateways` are all gateways ever built: those a failed or an
overlapped PUT leaves running stay in it.  A node has an address, because the managers
remember nodes by Python's `id()`: a freed address may come back.  `Crash` kills the process
between any two steps and starts it on the file as it is.  The config is three leaves; the
pydantic models, of which `deep_merge` replaces leaves, are abstracted to them.

### 2.7 `EudServer`

`eudCalls` are the calls of `reconfigure`, at the await they have reached: `wait_closed`,
`start_server` before and after the bind.  A connection is accepted, then its task runs and
registers it, so that a listener stopped in between leaves a client behind that registers
with a server that is gone.  Closing a connection is not losing it: as long as the transport's
buffer is not empty, what is written to a closed writer is sent behind it, so `WriteFrame`
allows both outcomes for a closed connection and loses only what goes to a broken one.  `fanOuts` holds for each dispatched message the clients of the
snapshot still to serve; the task of the client that published it waits for it.  Removing a
client under the fan-out, under its own task and under a stop is what the module is for.

### 2.8 `AtakBridge`

Each bridge takes from two wires, `cotWire` and `jdssWire`, and puts what it translates on
every bridge's.  `hops` counts translations (history).  `lastSeen` is the table, `heard` the
truth it should follow.  The sweep is one step for a transport whose `send` does not yield,
as UDP's, and three for one that does, as `LoopbackTransport`'s (it gathers its peers'
handlers).

### 2.9 `ServerRelay`

An event of a server is noted, announced (`Identification`) and published, each publication
awaited, and through the dispatch it reaches the relay, which serves the other servers one
by one (`RelayTo`).  The read loop of the connector waits for all that: stopping the
connector cancels it.  The stop is awaited (`stopping`); an overlapping reconciliation may
start another connector of the server meanwhile, and when the stop has returned
(`ConnectorStopped`) the server's originators are forgotten for both: `robbed` (history)
holds the connectors this happens to.  The gateway may be stopped, replaced and re-attached meanwhile; a
message carries the `stamp` of the gateway whose configuration made its header.

### 2.10 `Monitoring`

`RecordAccepted`, `RecordAudit`, `Emit` are the steps of recording a message on the event
loop between which the purge thread (`PurgeAudit`, `PurgeTelemetry`) may run.  Feeds are
queues of bounded size, drained while nothing is being recorded.

### 2.11 `PeerGossip`

Digests stay in `digests` for ever and may be delivered to anybody any number of times, in
any order: loss, delay and duplication at once.  `MatrixRows` is the matrix a node shows.

### 2.12 `SimulationControl` and `SimScenario`

The manager's calls and its loop task, at every client they start or stop; and a run of the
simulation itself, client by client and tick by tick, with what each profile sends, the
medics' reactions, the connection matrices of the scenario, the four kinds of rogue, and
the report.  On the loopback bus a publication is handled everywhere before it returns, so
the run has one behaviour for each of its set-ups.

### 2.13 `ExternalSimulator`

`traffic` is what was sent; a message may be heard again at any time.  In inject mode the
feed handles one event after the other; in multicast mode every unit hears every message,
and `acking` are the acknowledgements being published at once.  A publication may be out,
or not, or time out and be out all the same.

### 2.14 `UserStore`

The file is JSON, missing or broken; a start reads it, draws what is missing, hashes
passwords written in plain text and saves, by truncating and writing.  The process may end
between the two.  Random secrets are numbers never used before.

### 2.15 `MessageMapping` and `WireFormat`

Pure functions over finite sets of inputs that hold every branch: absent and empty fields,
unknown letters, courses at and past the ends of their ranges, codes too short, too long and
with a character that is no digit, cut frames, and keys of a stranger.  A CoT type is its
tokens, a symbol code its digits, a document a tree, a tag a symbol of key and payload.
An HMAC is as unforgeable as in the literature.  The recursive operators of
`WireFormat` keep it out of the proofs.

## 3. The runs

One run per question, and for each disagreement with a document one run that TLC must find
violated.

| Run | Module, constants that matter | Shows |
|---|---|---|
| `engine_pipeline` | 3 nodes (one with another codec), 3 messages (one bridged), 3 handlers (one late and faulty), window 1, one edit, two forgets, one copy lost | `TypeOK`, `AtMostOncePerMemory`, `LoopbackIgnored`, `NoFalseDuplicate`, `RepetitionDelivers`, `HandledOncePerDispatch`, `ShieldedHandlerServed` |
| `engine_bypass` | one edit | **violation** of `BlockedNeverEnters` |
| `cache_crash` | overlap, 2 keys, window 1 | **violation** of `EveryFrameDecided` |
| `policy_convergence` | fairness; 3 edits, a restart of the member, a restart of the authority | `TypeOK`, `VersionNamesPolicy`, `ImplementsCoalitionPolicy`, `OvertakingConverges` |
| `policy_restart` | fairness; one edit, a restart of the authority | **violation** of `Converges` |
| `tak_link` | fairness; 3 sends, queue of 2, 2 connections, a failed connect, a stop and start | `TypeOK`, `DropsAccounted`, `FlushInOrder`, `QueueDrains`, `SendsReturn` |
| `servers` | 3 requests on 2 servers, overlapping or not | `TypeOK`, `NoStrayConnector`, `SequentialTruth` |
| `servers_race` | 2 requests | **violation** of `LiveTruth` |
| `node` | `HotReconfigure` with 3 requests and a crash; `EudServer` with 2 connections of one device and 3 calls or messages; `AtakBridge` with 2 bridges, 3 ticks, 2 reports (1 when a send yields) | `NodeTypeOK`, `ServingNodeRuns`, `LeaksAccounted`, `ReconfiguredTruth`, `ListenerTruth`, `OwnTrackNotEchoed`, `FanOutServes`, `MapTruth`, `DeletedOnlySilent` |
| `node_failed_start` | one PUT | **violation** of `NeverLeftDown` |
| `support` | the nine modules around the node, `DedupCache` with and without overlap (6 keys, window 2), and about 4500 inputs of the translations | `SupportTypeOK`, `OwnTrackNotReturned`, `StampedByItsGateway`, `FeedComplete`, `DashboardTruth`, `SimulationTruth`, `AckOnce`, `SessionsSurvive`, `SimulationReport`, `TranslationLaws`, `CacheTruth`, `ImplementsWindow` |
| `support_empty_text` | the same inputs | **violation** of `EveryBodyDecodes` |

`engine_pipeline` explores two scenarios in one run (`MCExchangeEngine`): in "copies" two
nodes exchange a native and a bridged message that no handler takes, are edited and forget
twice; in "handlers" three nodes, not edited, exchange one message that the handlers take, with a lost copy.

What the properties say is in the comments above them.  The ones to know first:

* `AtMostOncePerMemory`: the number of times a node starts to dispatch a message never
  exceeds the number of times its key left the cache, plus one if the cache holds it now.
  This is the exact promise of a bounded cache, true also around purges and restarts, with
  any window.  `LoopbackIgnored` is its companion for the sender: unless it forgot the key,
  what it publishes never comes back, and a bridged message is shown exactly once.
* `NoFalseDuplicate`: a copy refused by the policy does not hide the copies that arrive
  after the peer is allowed again.
* `RepetitionDelivers`: if fewer than `Repeat` copies are lost on the way to a node that can
  read the message, then by the time the last copy is gone the node has dispatched it, or
  its policy or capability matrix has refused a copy.
* `HandledOncePerDispatch`, `ShieldedHandlerServed`: calls done plus calls ahead never exceed
  the dispatches, and for a handler in front of every one that may raise they equal them.
* `CacheTruth` (`WindowRecognised`, `SeenBounded`): whatever a purge races with, a key in the
  window is recognised once both are at rest, and the set cannot leak more than one more
  window.
* `VersionNamesPolicy`: until the authority restarts, what a member enforces is what the
  authority issued under the member's version.  `OvertakingConverges`: after an
  authority restart members follow it again only once its versions have overtaken those of
  its earlier lives, and then they do.
* `DropsAccounted`: a frame `send()` has returned for was written to some connection, or
  waits in the queue, or is one of those `dropped` counts, even when an eviction falls
  between the flush reading the head and removing it.
* `NoStrayConnector`: however requests overlap, no connector runs outside the manager's
  table except while its `stop()` is awaited.
* `SequentialTruth`: after any sequence of requests that did not overlap, config, file,
  definitions, connectors and certificate files agree.
* `ServingNodeRuns`, `LeaksAccounted`: however PUTs overlap, when they have ended the node the
  application refers to is running, and every gateway left running without an owner is the
  price of one overlap or one failure, never of anything else.
* `ReconfiguredTruth`: through PUTs, section edits and crashes between any two steps of
  requests that did not interleave, the file says what is live, and both managers serve the
  node that is.
* `ListenerTruth`: what `GET /api/eud` reports is so; overlapping calls can lose at most one
  listener each.  `FanOutServes`: a client that fails costs nobody else a message.
* `OwnTrackNotEchoed`: a connection carries its own message back only if the server has closed
  it (section 5), whatever fan-outs, failures and leaves do to its entry meanwhile.
  `OwnTrackNotReturned`: the same of a TAK server's connector, the exception being one
  whose originators went with an earlier connector's (section 5).
* `MapTruth`: with any number of bridges a report crosses at most there and back, and a track
  on the map is watched by the sweep.  `DeletedOnlySilent`: no track of a live node is
  deleted.
* `StampedByItsGateway`: no message carries the network, classification or releasability of
  another gateway's configuration than the one that sends it.
* `FeedComplete`: a browser that keeps up gets every event, once and in order, however slow
  the others are.  `DashboardTruth`: telemetry, audit log and connection matrix are what the
  nodes have heard; a rogue never appears.
* `SimulationTruth`: a simulation nobody can stop comes only from overlapping calls or a
  failure, and at most so many; `SimulationReport`: the report's matrix and totals are what
  was sent and accepted.
* `AckOnce`: no storm of Receipts between simulators.
* `SessionsSurvive`: a session outlives restarts, migrations and edits that do not concern it.
* `TranslationLaws`: the round trips, for every input.

### 3.1 Bounds, and why they are enough

Every bound is a constant named `Max...`, or a set given in the `.cfg`.

* Two nodes are one sender and one receiver; each is both, and the properties speak of one
  node and one message at a time.  The third node has another codec: it refuses what the
  others send.  Two messages and a window of one make the eviction happen; a bridged and a
  native message take the two ways into the picture.  Two copies per frame make repetition;
  two forgets allow a purge and a restart in either order.  Of three handlers two
  are registered at start-up and the third, which may raise, while dispatches run.
* Six keys fill two windows of two and leave two more, which `SeenBounded` needs.
* One member and one peer: members do not talk to each other about policy and peers are
  independent rows of a policy.  Three edits let a restarted authority (version 1 again)
  overtake the version it had reached before, and let an old update be late in between.
* Three frames and a queue of two make an overflow while the flush waits; two connections
  make a break, a reconnection with frames of both lives under way, and a flush on each.
* Two servers, one up at the start and one yet to be created, and two parameter values make
  every kind of request; two requests suffice for each to invalidate the other's snapshot, a
  third lets damage be seen by a later, quiet one.

* Three requests let two overlap and a quiet one follow, whose end is where the properties
  look; the crash may fall into any of them.  Two EUD connections of one device make the
  second a source of what the first sent.  Two bridges are the smallest loop.
* Two servers, two gateways and three connectors: a server that gets another's track, a
  gateway replaced, a connector built anew, one started while another's stop is awaited.  A feed's queue of one and buffers of two and
  three entries fill at once.  Two members, one stranger, three ticks: a digest that is
  fresh, one that has expired and one that is older than the row it replaces.
* Nine ticks are past the last tick that any profile's schedule treats differently; the
  rosters are the full scenario, one with two medics and two command posts, and one alone.

Bounds end behaviours early, therefore `CHECK_DEADLOCK FALSE` in the runs where a state with
nothing left to send, connect or request is a state the system may rest in.  The runs of
`PolicyDistribution` and `cache_crash` check deadlock.  Symmetry is used in `servers`
(interchangeable requests), `node` (connections, bridges) and `support` (servers,
simulators), whose properties are invariants and action properties; no liveness run uses it.

### 3.2 Fairness

* `PolicyDistribution` and `TakConnector` are the parts whose promises are about what must
  happen.  All others are checked for safety only, without fairness.
* `PolicyDistribution`: weak fairness on the re-broadcast loop, which never ends, and strong
  fairness on the delivery of the current update: it is sent again and again and not
  every copy is lost.  This is the assumption the word "converges" of the code's docstring
  needs; with every copy lost nothing converges.
* `TakConnector`: the supervisor and the pending sends are tasks of the event loop; a broken
  link is eventually noticed.  Connecting fails a bounded number of times and the last
  connection of the bound stays up.  `drain()` returns as long as the link is up, that is, the
  peer reads: of a server that keeps the connection open and never reads, `QueueDrains` and
  `SendsReturn` say nothing.  Nobody cancels a `send()`; the only task cancelled is the
  supervisor.

## 4. What is proved

The proofs hold for every set of nodes, messages, handlers, servers, clients, every window,
queue and number of repetitions, and every bound.  Nothing is assumed of the constants but
what the modules state by name:

| Assumption | Says |
|---|---|
| `WindowAssumption`, `CacheAssumptions` | a cache of at least one key |
| `EngineAssumptions` | finitely many messages; nodes are originators; each registration of a handler is an object of its own |
| `PolicyAssumptions` | what is configured is a policy without per-pair rules; the bounds are natural numbers |
| `TakAssumptions` | a queue of at least one frame, at least one frame, and natural bounds; the flush is not a frame |
| `ReconcileAssumptions` | finitely many servers, at least one; the initial configuration gives each a definition |
| `EudAssumptions`, `AtakAssumptions`, `GossipAssumptions` | names differ: the network is no connection, "nobody" is no bridge, a member is no stranger; `EudServer`'s bound is a natural number |
| `UserStoreAssumptions` | the default user is one of the users |
| `MonitoringAssumptions` | natural capacities; the telemetry buffer is no larger than the audit log |
| `RelayAssumptions` | at least one gateway |
| `ScenarioAssumptions` | rosters are non-empty sequences of roles; a natural number of ticks |
| `SimAssumptions` | a number of simulated clients |

History variables (`forgot`, `overlapped`, `failures`, `interleaved`, `spoilt` and the like)
are read by no guard, so a theorem may speak of them without restricting what runs.

`ExchangeEngine_proofs`:

* `TypeCorrect` — `Spec => []TypeOK`.  `TypeOK` alone is not inductive: `HandlerReturns`
  indexes the handler list at `FirstPending`, which exists only if the task has something
  pending.  The invariant is `TypeInv`: `TypeOK` and `TasksPending`, every task kept has a
  pending handler.  It survives `AddHandler`, which only appends, and restarts, which clear
  tasks and handlers together.
* `AtMostOnce`, `NeverFalselyDuplicate`, `OwnLoopbackIgnored` — the three properties of the
  cache, from the one invariant `DedupInv`: `TypeOK`; `Untransmitted` (a message no node
  has transmitted is on no wire, in no cache and dispatched nowhere, so that `Transmit` may
  assume a fresh key); `OwnKeyKept` (the sender's key is in its cache unless it was
  forgotten), which makes the loopback a duplicate; and the three properties themselves,
  which support each other: `Accept` needs the first, the last needs `OwnKeyKept`.
  `RememberAtCounts` and `ForgetAllCounts` carry the argument: whichever way a key leaves
  the cache, `forgot` counts it.
* `RepetitionSuffices` — `Spec => []RepetitionDelivers`.  The property speaks of the moment
  the last copy is gone; the invariant `CopiesCounted` speaks of every moment: the copies in
  flight and the copies lost are together still all `Repeat`, or some copy was examined and
  led to a dispatch or to a refusal by the policy or the capability matrix.  A copy refused
  as a duplicate was preceded by a dispatch, which is `NoFalseDuplicate` again.
* `HandledOnce`, `ShieldedServed` — the loop over the handlers, from `LoopInv`.  Both
  properties count calls; the invariant counts the tasks that may still make one.  `CalledAt`:
  the calls made of a handler and the tasks that have not passed it (`Uncalled`) are together
  no more than the dispatches — a handler added late is uncalled by every task that runs, and
  that is what it may still receive.  `ServedAt`, as long as the node was not restarted: the
  calls made of an initial handler with no faulty one up to it, and the tasks before it, are
  together all of the dispatches.  `HeadKeptAt` keeps the initial handlers the head of the
  list, and `RunsAt` keeps two dispatches of a message two tasks.

`PolicyDistribution_proofs`, for any number of restarts of either side:

* `TypeCorrect` — `Spec => []TypeOK`.
* `VersionsNamePolicies` — `Spec => []VersionNamesPolicy`.  The statement is inductive
  together with typing because it includes the updates on their way: a member may adopt any
  of them.
* `DistributionRefines` — `Spec => ImplementsCoalitionPolicy`: each step of the distribution
  is an `Issue`, an `Adopt`, a `Restart` or a stutter of `CoalitionPolicy`, by the invariant
  `UpdatesIssued`: every update on its way was issued in some life.

`DedupCache_proofs`, for the statements of the event loop and of the purge in any order:

* `TypeCorrect`, and `CacheStaysTrue` — `Spec => []CacheTruth`: at rest the set recognises
  what the window holds, and it never outgrows the bound the race with a purge allows.
  `WindowInv` says what the deque holds that the set does not (`Lacking`) while a statement
  is in progress; `OrphansInv` counts the keys only the set has (`Orphans`): at most one while
  the purge is between its statements, at most that one and a whole window after it.
* `WindowImplemented` — `Spec => ImplementsWindow`: without overlap each statement is a
  `Remember`, a `Forget` or a stutter of `DedupWindow`, because then the set is the deque
  but for `Lacking` (`SequentialInv`).

`TakConnector_proofs`:

* `TypeCorrect` — with three invariants that typing rests on.  `LinkInv`: whoever writes
  names a connection that was made.  `LockInv`: the lock's queue holds each task between
  asking for it and giving it back, once, and only its head drains.  `QueueInv`: the frame
  the flush has in hand is at the queue's head or was evicted.
* `LossesCounted` — `Spec => []DropsAccounted`.  The flush removes the head after its write,
  though an eviction may have put another frame there; `GoneInv` therefore counts the frame
  in hand as gone as soon as it is evicted, and `WrittenInv` ties a lost write to a lost link.
* `FlushKeepsOrder` — `Spec => []FlushInOrder`, from `OrderInv`: what was flushed is older
  than what is left in the queue, with the frame in hand between the two.

`ServerReconcile_proofs`, for any number of requests overlapping in any way:

* `TypeCorrect`.
* `NoneEscapes` — `Spec => []NoStrayConnector`, with `NumbersInv`: numbers identify
  connectors, and the one a request awaits is out of `_conns` already.
* `LiveWithoutOverlap` — `Spec => []SequentialTruth`, from `SequentialInv`: one request is
  under way; while it stops, the servers it has to visit are as `_defs` had them and those
  behind it as it desires (`Stopping`); while it starts, those behind it are there
  (`Starting`); `CertsInv` accounts for each certificate file.

`Node_proofs`:

* `MapIsTrue`, `OnlySilentDeleted` (an action property) — the ATAK bridges.  `HopsInv`: an
  unmarked frame has not been translated, so nothing circles.  `WatchInv`: where no send
  yields, the table holds the last presence of every track on the map, so that whatever a
  sweep deletes has been silent.
* `NeverEchoed`, `EveryClientServed` — the fan-out of the EUD server.  `AuthorInv` is what
  makes them inductive: while a client's message is fanned out the client awaits it, so its
  entry still names the originator unless it was forgotten and its connection closed.  The
  closed connection is the exception `OwnTrackNotEchoed` states; that a closing one may carry
  what is written to it is in the model, so the theorem does not rest on its loss.
* `ListenerIsTrue` — `EudSpec => []ListenerTruth`.  `LostInv` counts the lost sockets, the
  calls under way and the listener together; `AloneInv` follows the one call of a run
  without overlap; `AcceptedInv` says why a connection ends with its listener.
* `ServingRuns`, `LeaksBounded` — the hot reconfiguration.  `RunningInv` counts: the nodes
  running, the PUTs about to stop one and the PUTs about to start one are no more than the
  nodes a PUT will stop, the one that serves, the overlaps and the failures.
* `FileSaysLive` — `ReconfigureSpec => []ReconfiguredTruth`.  The property speaks of the node
  at rest; `TruthInv` follows a request that is alone from stage to stage: what it has
  changed of the node, what is attached, and what it has still to write (`Restarting`,
  `Editing`, `Saving`).
* `NodeTypesCorrect` — `[]NodeTypeOK`, of the three modules together.  The typing of the
  EUD server rests on its invariants (a fan-out is of a message there is) and on `WorkInv`,
  the bound of calls and messages; that of the reconfiguration on `ValuesInv`: every
  setting in the file, in a gateway or in the hands of a request is one of its values.

`Support_proofs`:

* `NotReturned`, `Stamps` — the relay.  A connector that runs or is being stopped belongs to
  its server, for which every track that came from it is noted unless another connector's
  stop took it along (`TrackInv`), whatever the gateway was replaced by meanwhile
  (`GatewayInv`).
* `AcknowledgedOnce` — `SimulatorSpec => []AckOnce`: a Receipt being published is not out
  yet, and what is out was seen; both survive drops and restarts (`AckInv`).
* `SessionsGoOn` — `StoreSpec => []SessionsSurvive`: a session no edit took the ground from
  is honoured by the memory and by the file, also by one read back after a crash
  (`MemoryInv`, `FileInv`).
* `FeedsComplete` — `MonitoringSpec => []FeedComplete`: what a feed got and what waits in its
  queue are what was sent since it subscribed, complete unless it was too slow (`FeedsInv`).
* `NothingRunsOn` — `SimSpec => []SimulationTruth`.  `HeldInv` counts the simulations that
  run or are being started: all of them, or all but `_sim` while the calls went one by one,
  are owed to an overlap (two for each) or a failure.
* `MatrixTells` — `GossipSpec => []MatrixTruth`: a row on its way or recorded is one its
  member had, and what it counts has only grown since (`RowsInv`).
* `BuffersTell`, and with `MatrixTells` `DashboardTells` — `[]DashboardTruth`.  "The one log
  ends with the other" is stated as a relation of sets, `Youngest`: what one lacks is older
  than all it has.  It composes, survives the eviction of the oldest entry and the entry of
  a younger one.  `BufferInv` adds the order of both buffers and `AgreeInv`, which carries
  the relation through the steps of a record (what is accepted and not yet in the audit log
  counts as if it were: `Pending`) and of a purge no record met.
* `ReportTells` — `ScenarioSpec => []SimulationReport`.  The report speaks of finished ticks;
  `ReportInv` speaks of every client's turn: the matrix cell by cell (`MatrixInv`), the
  rogue (`RogueInv`), the calls for evacuation (`CallsAcknowledged`), the types seen by the
  first command post (`SeenInv`) and the sum of what all command posts saw (`SumInv`).
  Sums over sets are folds, which the provers cannot unfold by induction; the proof counts
  tokens instead, one for each message heard, and compares two totals by a bijection of
  their tokens (`TokensAre`, `TokensGrow`).
* `SupportTypesCorrect` — `[]SupportTypeOK`, of the eight modules together, from their
  invariants and one more of each: a read loop waits for a message there is (`ReaderInv`), a
  full queue takes no more (`QueueInv`), nothing was heard in the future (`TimesInv`), what
  a simulator has acknowledged and what it is acknowledging is no more than it received
  (`CountsInv`), secrets are counted (`SecretsInv`), a call speaks of a simulation or loop
  there is (`CallsInv`).

Lemmas on data (`SequenceFacts`) come first; then one lemma per compound action; then the
step of the invariant with one case per action; the theorem combines them.

**Only model-checked.**

* Liveness (`OvertakingConverges`, `Converges`, `QueueDrains`, `SendsReturn`): out of this
  prover's reach, as is `ENABLED`.
* `TranslationLaws`: the mapping is written with recursive operators and bit operations,
  which exclude a proof in the same module; what a recursion computes for every input would
  need induction over data.

Every other invariant and action property of the passing runs is stated by a theorem.

## 5. Where code and documentation disagree

Each is a run that TLC must find violated.

* `engine_bypass` — README.md says a blocked peer never enters the picture; the code lets a
  message of a blocked originator in when it arrives through a bridge, since
  `ingest_from_bridge` dispatches without the policy stage.
* `cache_crash` — `_on_frame` is to record a reason for every rejected frame; when the purge
  empties the deque between the length test and the subscript `_seen_order[0]` while a received
  frame is being remembered, the receive ends in an `IndexError`: neither accepted nor
  recorded.  (The same subscript can fail for a frame of the node's own, whose publisher then
  gets the exception although the frame is on the wire; the property does not count that.)
* `policy_restart` — the distributor's docstring promises convergence; a restarted authority
  starts again at version 1 and is ignored until it overtakes its earlier versions.
* `servers_race` — the endpoint promises that the servers become "the live + persisted
  truth"; overlapping requests leave a file, a table of definitions or a connector that does
  not match the configuration.

* `node_failed_start` — the docstring of `reconfigure` says that the running node is only torn
  down after the new config validates, so that a bad patch never leaves the node down; a
  config that validates may still not start (an address that cannot be bound) or forbid the
  Identification a node starts with, and the old node is stopped by then.
* `support_empty_text` — `_elements_to_dict` is called the inverse of `_dict_to_elements`; an
  empty text or list that the models do not coerce comes back as null, and the message is
  refused by every receiver although its sender was allowed to publish it.

Seen while modelling, and not given a run of their own because a reading of the code settles
them:

* `MessageHeader.sequence` is documented as "monotonically increasing per originator"
  (`datamodel/messages.py:62`); the counter restarts at 1 with the process
  (`iem/exchange.py:128`), and two gateways that bridge the same source stamp it from counters
  of their own.  Nothing reads it.
* The connector's docstring says "Sends during a disconnect are dropped"
  (`bridges/takserver.py:9-10`); they are queued (`:118-121`), as `README.md` says.
* "Don't echo an EUD's own track back to it" (`web/eud_server.py:213`) does not outlive a stop
  of the listener: `_stop_server` closes the writers and clears `_origins` (`:85-89`) while a
  fan-out waits in another client's `drain()`; the fan-out then finds no originators for the
  source, and writes its own track to a connection that flushes what its buffer holds and
  this behind it.  `OwnTrackNotEchoed` excepts closed connections for this reason.
* "Don't echo a server's own track back to it" (`web/servers.py:168`) does not outlive
  overlapping reconciliations: `_stop_one` pops `_origins` after it has awaited `stop()`
  (`:101-106`), and with them those of a connector started for the server meanwhile.
  `OwnTrackNotReturned` excepts such connectors.
* A browser's feed (`web/routers/ws.py:21`) stays with the gateway it subscribed to; after a
  reconfiguration it shows heartbeats only until it reconnects.
* A PUT merges its patch into the gateway's config object, which capability edits never
  update (`web/runtime.py:77`): a later PUT takes file and node back to the permission as it
  was before the edit.
* Two section edits that interleave lose one of them in the file (`web/runtime.py:53`), and a
  crash between truncation and writing leaves an empty config or credentials file, which
  starts with defaults.
* Nodes are remembered by `id()` (`web/servers.py:65`): a node built at the address of a freed
  one gets no relay.  `HotReconfigure` has this behaviour and states no property of it.
* `manager.py` says that only one simulation runs at a time; overlapping starts make two, of
  which one can no longer be stopped (`OneSimulation` states it and no run checks it).
* An external simulator counts a Receipt as acknowledged though its publication failed, and
  never acknowledges what its units hear before the acknowledging unit is chosen.
* A ContactSighting of a friendly track returns from CoT as a Presence, GenInfo as Chat, and
  half-known movement as zero; `/api/inject` lists Sketch among its types and refuses it.
* The address allocator folds a hash into two octets: two nodes may get one address.
* `README.md:246-248` says a brief link drop does not lose traffic; a frame written to a
  stream whose link is broken but not yet noticed is lost with it, and not counted.

## 6. Not modelled

* Cryptography, certificates, signatures (`security/`, `connections/signing.py`): taken to
  work; frames under another key do not open, updates verify.
* The splitting of a TCP stream into CoT events; the Arrow codec; keep-alive answers.
* Two purges at the same time; `start()` called twice on a TAK connector without `stop()`
  between; reconciliation from `PUT /api/config` and from start-up, which run through the
  same `reconcile`.
* Address allocation, the radio bearer, the plugin registry and PKCS#12: expressions,
  constructors, a dictionary filled at import and a library call, without state that
  changes while the node runs.
* Prometheus counters, the application log and the CoT traffic logs: written and shown,
  never read by the program.
* The external simulator's movement of units, its scenario catalogue and window.
* Pure input and output: read-only endpoints, the CLI, the dashboard, vendored packages.

## 7. Plan

What is left:

1. A composition of `ServerRelay` with `TakConnector`, so that the relay's frames meet the
   queue and its losses.  Each keeps the other's part as small as its own properties allow:
   the relay hands a frame to a connector or does not, the connector takes frames from
   anybody.
2. The parts of `TranslationLaws` that need no recursion (staleness, the symbol codes, the
   inject schema) as theorems, once `MessageMapping` is split along that line.
3. Properties for the hazards that have none yet: what sits in a stream's buffer when its
   link breaks, `id()` of a freed node, and collisions of allocated addresses; the notes in
   `PROJECT.json` say why none has one so far.
