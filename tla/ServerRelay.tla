---------------------------- MODULE ServerRelay ----------------------------
(***************************************************************************)
(* What the server connection manager does with messages (web/servers.py): *)
(* the tracks of the TAK servers published on the coalition network, each  *)
(* under an originator of its own, and the coalition's messages sent to    *)
(* the servers.  ServerReconcile has the connectors' lives, TakConnector   *)
(* what one connector does with a frame.                                   *)
(*                                                                         *)
(* The read loop of a connector waits for the publication of its event,    *)
(* and that for every handler of the node, the relay to the other servers  *)
(* included: stopping the connector cancels all of it.  The stop is        *)
(* awaited, and an overlapping reconciliation may start another connector  *)
(* for the server meanwhile.  The gateway behind the manager is stopped,   *)
(* replaced and attached anew while events are on their way (sequentially; *)
(* overlapping PUTs of the configuration are in HotReconfigure).           *)
(* Stale, unparsable and control CoT is dropped before anything changes.   *)
(***************************************************************************)
EXTENDS Naturals, Sequences, FiniteSets, Functions

CONSTANTS
    Servers,        \* ids of configured servers
    MaxGateways,    \* bound: gateways built one after the other
    MaxConnectors,  \* bound: connectors started, over all servers
    MaxRelayed      \* bound: messages dispatched

ASSUME RelayAssumptions == MaxGateways \in Nat \ {0}

VARIABLES
    relayGateway,   \* _gateway of the manager
    gatewayUp,      \* gateways that are running
    connectors,     \* server -> its connector in _conns, 0 for none
    stopping,       \* <<server, connector>> whose stop() is awaited
    started_,       \* connectors started so far
    origins,        \* server -> originators it has sourced
    identified,     \* originators whose Identification was announced
    reader,         \* server -> what its read loop waits for: [then, gw, msg]
    relayed,        \* the messages so far: [track, gw, stamp, from, body]
    relaying,       \* message -> connectors the relay has still to serve
    returned,       \* history: messages handed to the connector they came from
    robbed          \* history: connectors whose originators went with another's

gatewayVars == <<relayGateway, gatewayUp>>
connectorVars == <<connectors, stopping, started_, origins, identified, reader, robbed>>
relayingVars == <<relayed, relaying, returned>>
relayVars == <<gatewayVars, connectorVars, relayingVars>>

Idle == [then |-> "read", gw |-> 0, msg |-> 0]
Abroad == "abroad"

RelayInit ==
    /\ relayGateway = 1 /\ gatewayUp = {1}
    /\ connectors = [s \in Servers |-> 0] /\ started_ = 0
    /\ stopping = {} /\ robbed = {}
    /\ origins = [s \in Servers |-> {}] /\ identified = {}
    /\ reader = [s \in Servers |-> Idle]
    /\ relayed = <<>> /\ relaying = <<>> /\ returned = {}

-----------------------------------------------------------------------------
(* The gateway and the connectors.                                         *)

StopGateway ==
    /\ gatewayUp # {}
    /\ gatewayUp' = {}
    /\ UNCHANGED <<relayGateway, connectorVars, relayingVars>>

StartGateway ==
    /\ gatewayUp = {} /\ relayGateway < MaxGateways
    /\ gatewayUp' = {relayGateway + 1}
    /\ UNCHANGED <<relayGateway, connectorVars, relayingVars>>

\* Mutant of AttachManager: the manager is attached, then the node is stopped.
AttachManager_BeforeStop ==
    /\ relayGateway < MaxGateways
    /\ gatewayUp' = gatewayUp \cup {relayGateway + 1}
    /\ relayGateway' = relayGateway + 1
    /\ UNCHANGED <<connectorVars, relayingVars>>

AttachManager ==
    /\ gatewayUp \ {relayGateway} # {}
    /\ relayGateway' = relayGateway + 1
    /\ UNCHANGED <<gatewayUp, connectorVars, relayingVars>>

StartConnector(s) ==
    /\ connectors[s] = 0 /\ started_ < MaxConnectors
    /\ started_' = started_ + 1
    /\ connectors' = [connectors EXCEPT ![s] = started_']
    /\ UNCHANGED <<stopping, origins, identified, reader, robbed, gatewayVars, relayingVars>>

\* _stop_one: the read loop is cancelled with the relaying it waits for; once the
\* stop() has returned, what is noted of the server is forgotten,
StopConnector(s) ==
    /\ connectors[s] # 0
    /\ connectors' = [connectors EXCEPT ![s] = 0]
    /\ stopping' = stopping \cup {<<s, connectors[s]>>}
    /\ reader' = [reader EXCEPT ![s] = Idle]
    /\ relaying' = [m \in DOMAIN relaying |-> IF m = reader[s].msg THEN {} ELSE relaying[m]]
    /\ UNCHANGED <<started_, origins, identified, robbed, gatewayVars, relayed, returned>>

\* for a connector that was started for it meanwhile as well.
ConnectorStopped(c) ==
    /\ c \in stopping
    /\ stopping' = stopping \ {c}
    /\ origins' = [origins EXCEPT ![c[1]] = {}]
    /\ robbed' = robbed \cup ({connectors[c[1]]} \ {0})
                      \cup {d[2] : d \in {e \in stopping' : e[1] = c[1]}}
    /\ UNCHANGED <<connectors, started_, identified, reader, gatewayVars, relayingVars>>

-----------------------------------------------------------------------------
(* CoT to JDSS.                                                            *)

Connected == {s \in Servers : connectors[s] # 0}

\* The message is transmitted and dispatched: the relay takes its snapshot.
Relays(message) ==
    /\ Len(relayed) < MaxRelayed
    /\ relayed' = Append(relayed, message)
    /\ relaying' = Append(relaying, {<<s, connectors[s]>> : s \in Connected})
    /\ UNCHANGED returned

\* The header is that of the manager's gateway now, whichever gateway publishes.
Stamped(s, gw, body) ==
    [track |-> s, gw |-> gw, stamp |-> relayGateway, from |-> connectors[s], body |-> body]

\* Mutant of RxEvent: the originator is noted once its message is out.
RxEvent_NotedLate(s, named) ==
    /\ s \in Connected /\ reader[s] = Idle
    /\ LET first == named /\ s \notin identified
       IN  /\ identified' = IF first THEN identified \cup {s} ELSE identified
           /\ Relays(Stamped(s, relayGateway, ~ first))
           /\ reader' = [reader EXCEPT ![s] =
                [then |-> IF first THEN "body" ELSE "read", gw |-> relayGateway,
                 msg |-> Len(relayed')]]
    /\ relayGateway \in gatewayUp
    /\ UNCHANGED <<gatewayVars, connectors, stopping, started_, origins, robbed>>

\* _on_cot: a track with a callsign not yet announced is identified first.  The
\* gateway is read once; where it is stopped both publications raise.
RxEvent(s, named) ==
    /\ s \in Connected /\ reader[s] = Idle
    /\ origins' = [origins EXCEPT ![s] = @ \cup {s}]
    /\ LET first == named /\ s \notin identified
       IN  /\ identified' = IF first THEN identified \cup {s} ELSE identified
           /\ IF relayGateway \in gatewayUp
              THEN /\ Relays(Stamped(s, relayGateway, ~ first))
                   /\ reader' = [reader EXCEPT ![s] =
                        [then |-> IF first THEN "body" ELSE "read", gw |-> relayGateway,
                         msg |-> Len(relayed')]]
              ELSE UNCHANGED <<reader, relayingVars>>
    /\ UNCHANGED <<gatewayVars, connectors, stopping, started_, robbed>>

\* The body follows on the gateway read at the start, if that is still running.
RxBody(s) ==
    /\ reader[s].then = "body" /\ relaying[reader[s].msg] = {}
    /\ IF reader[s].gw \in gatewayUp
       THEN /\ Relays(Stamped(s, reader[s].gw, TRUE))
            /\ reader' = [reader EXCEPT ![s].then = "read", ![s].msg = Len(relayed')]
       ELSE reader' = [reader EXCEPT ![s] = Idle] /\ UNCHANGED relayingVars
    /\ UNCHANGED <<gatewayVars, connectors, stopping, started_, origins, identified, robbed>>

RxDone(s) ==
    /\ reader[s] # Idle /\ reader[s].then = "read" /\ relaying[reader[s].msg] = {}
    /\ reader' = [reader EXCEPT ![s] = Idle]
    /\ UNCHANGED <<gatewayVars, connectors, stopping, started_, origins, identified, robbed,
                   relayingVars>>

-----------------------------------------------------------------------------
(* JDSS to CoT.                                                            *)

FromAbroad(g) ==
    /\ g \in gatewayUp
    /\ Relays([track |-> Abroad, gw |-> g, stamp |-> g, from |-> 0, body |-> TRUE])
    /\ UNCHANGED <<gatewayVars, connectorVars>>

\* A late multicast copy of an own message, where the dedup cache is purged or new.
ComesBack(g, m) ==
    /\ g \in gatewayUp /\ relayed[m].track # Abroad
    /\ Relays([relayed[m] EXCEPT !.gw = g, !.stamp = g])
    /\ UNCHANGED <<gatewayVars, connectorVars>>

\* _emit: a server's own track is passed over, else the frame is sent or queued.  A
\* connector that is being stopped may have its writer yet; the queue of one that
\* is stopped is never written out.
RelayTo(m, c) ==
    /\ c \in relaying[m]
    /\ relaying' = [relaying EXCEPT ![m] = @ \ {c}]
    /\ \/ /\ relayed[m].track \notin origins[c[1]]
          /\ connectors[c[1]] = c[2] \/ c \in stopping
          /\ returned' = returned \cup (IF c[2] = relayed[m].from THEN {m} ELSE {})
       \/ /\ relayed[m].track \in origins[c[1]] \/ connectors[c[1]] # c[2]
          /\ UNCHANGED returned
    /\ UNCHANGED <<gatewayVars, connectorVars, relayed>>

RelayNext ==
    \/ StopGateway \/ StartGateway \/ AttachManager
    \/ \E s \in Servers :
         \/ StartConnector(s) \/ StopConnector(s)
         \/ \E named \in BOOLEAN : RxEvent(s, named)
         \/ RxBody(s) \/ RxDone(s)
    \/ \E c \in stopping : ConnectorStopped(c)
    \/ \E g \in gatewayUp : FromAbroad(g) \/ \E m \in DOMAIN relayed : ComesBack(g, m)
    \/ \E m \in DOMAIN relaying : \E c \in relaying[m] : RelayTo(m, c)

RelaySpec == RelayInit /\ [][RelayNext]_relayVars

-----------------------------------------------------------------------------
(* Properties.                                                             *)

\* Every variable in its set.
RelayTypeOK ==
    /\ relayGateway \in 1 .. MaxGateways /\ gatewayUp \subseteq 1 .. MaxGateways
    /\ connectors \in [Servers -> 0 .. started_]
    /\ stopping \subseteq Servers \X (1 .. started_) /\ robbed \subseteq 1 .. started_
    /\ origins \in [Servers -> SUBSET Servers]
    /\ \A s \in Servers : reader[s].msg \in 0 .. Len(relayed)
    /\ DOMAIN relaying = DOMAIN relayed /\ returned \subseteq DOMAIN relayed

\* "don't echo a server's own track back to it" (_emit), even where the message
\* reaches the node a second time; a connector built anew may get it.  The one thing
\* that breaks it is the stop of another connector of the same server, awaited
\* while this one was started: it takes this one's originators with it.
OwnTrackNotReturned == \A m \in returned : relayed[m].from \in robbed

\* _on_rx stamps a message with the configuration of the gateway attached now
\* and publishes it on that gateway, whatever was re-pointed or stopped since
\* the event was read: no message carries the network, classification and
\* releasability of another gateway's configuration.
StampedByItsGateway == \A m \in DOMAIN relayed : relayed[m].stamp = relayed[m].gw
=============================================================================
