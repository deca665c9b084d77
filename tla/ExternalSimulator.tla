------------------------- MODULE ExternalSimulator -------------------------
(***************************************************************************)
(* The external simulator (src/simulator/engine.py): several of them on    *)
(* one coalition network, each driving its units, hearing the coalition's  *)
(* traffic and answering it with Receipts.                                 *)
(*                                                                         *)
(* A simulator either injects through a gateway's REST interface and hears *)
(* the gateway's live feed, one event after the other, or joins the        *)
(* multicast network with a gateway for each unit, and then every unit     *)
(* hears every message, concurrently.  The coalition is what was sent so   *)
(* far: a message reaches a simulator any number of times, in any order.   *)
(* The units of a simulator are one here; what they send: MessageMapping.  *)
(***************************************************************************)
EXTENDS Naturals, Sequences, FiniteSets

CONSTANTS
    Engines,        \* the simulators
    Others,         \* what else sends on the network
    MaxSimReports   \* bound: messages that are not Receipts

VARIABLES
    mode,           \* engine -> "inject" or "multicast"
    phase,          \* engine -> off, starting, running
    feedUp,         \* engines whose feed (inject) or units (multicast) are connected
    traffic,        \* the messages so far: [from, ack], ack 0 or the message acknowledged
    heardIds,       \* engine -> _seen, as message numbers
    acking,         \* engine -> messages whose Receipt is being published
    received,       \* engine -> received
    acked           \* engine -> acked

engineVars == <<mode, phase, feedUp, heardIds, acking, received, acked>>
simulatorVars == <<engineVars, traffic>>

SimulatorInit ==
    /\ mode \in [Engines -> {"inject", "multicast"}]
    /\ phase = [e \in Engines |-> "off"] /\ feedUp = {}
    /\ traffic = <<>>
    /\ heardIds = [e \in Engines |-> {}] /\ acking = heardIds
    /\ received = [e \in Engines |-> 0] /\ acked = received

-----------------------------------------------------------------------------
\* start: the feed is opened last; units join one by one and hear at once, while
\* the unit that acknowledges is designated when all have joined.
StartEngine(e) ==
    /\ phase[e] = "off"
    /\ phase' = [phase EXCEPT ![e] = IF mode[e] = "inject" THEN "running" ELSE "starting"]
    /\ feedUp' = IF mode[e] = "inject" THEN feedUp ELSE feedUp \cup {e}
    /\ UNCHANGED <<mode, heardIds, acking, received, acked, traffic>>

DesignateAckUnit(e) ==
    /\ phase[e] = "starting"
    /\ phase' = [phase EXCEPT ![e] = "running"]
    /\ UNCHANGED <<mode, feedUp, heardIds, acking, received, acked, traffic>>

\* _ws_listen connects, and connects again after a drop.
FeedConnects(e) ==
    /\ mode[e] = "inject" /\ phase[e] = "running" /\ e \notin feedUp
    /\ feedUp' = feedUp \cup {e}
    /\ UNCHANGED <<mode, phase, heardIds, acking, received, acked, traffic>>

FeedDrops(e) ==
    /\ mode[e] = "inject" /\ e \in feedUp /\ acking[e] = {}
    /\ feedUp' = feedUp \ {e}
    /\ UNCHANGED <<mode, phase, heardIds, acking, received, acked, traffic>>

\* stop: the feed's task is cancelled in the middle of a publication that may be
\* out already; handlers of the multicast units run on, without an ack unit.
StopEngine(e) ==
    /\ phase[e] = "running"
    /\ phase' = [phase EXCEPT ![e] = "off"]
    /\ feedUp' = feedUp \ {e}
    /\ IF mode[e] = "inject"
       THEN /\ acking' = [acking EXCEPT ![e] = {}]
            /\ \/ UNCHANGED traffic
               \/ \E m \in acking[e] : traffic' = Append(traffic, [from |-> e, ack |-> m])
       ELSE UNCHANGED <<acking, traffic>>
    /\ UNCHANGED <<mode, heardIds, received, acked>>

Reports == Cardinality({m \in DOMAIN traffic : traffic[m].ack = 0})

\* A message of a unit's tick, of the announcement, or of another sender.
SendReport(from) ==
    /\ from \in Engines => phase[from] = "running"
    /\ Reports < MaxSimReports
    /\ traffic' = Append(traffic, [from |-> from, ack |-> 0])
    /\ UNCHANGED engineVars

-----------------------------------------------------------------------------
(* _receive.                                                               *)

Hears(e, m) ==
    /\ e \in feedUp /\ traffic[m].from # e
    /\ mode[e] = "inject" => acking[e] = {}

\* Never an acknowledgement of an acknowledgement, "or we'd loop".
ToAck(e, m) == traffic[m].ack = 0 /\ phase[e] = "running"

\* Mutant of ReceiveMessage: a message is marked as seen once it is acknowledged.
ReceiveMessage_SeenLate(e, m) ==
    /\ Hears(e, m) /\ m \notin heardIds[e]
    /\ heardIds' = IF ToAck(e, m) THEN heardIds ELSE [heardIds EXCEPT ![e] = @ \cup {m}]
    /\ received' = [received EXCEPT ![e] = @ + 1]
    /\ acking' = IF ToAck(e, m) THEN [acking EXCEPT ![e] = @ \cup {m}] ELSE acking
    /\ UNCHANGED <<mode, phase, feedUp, acked, traffic>>

\* What is received before the ack unit is designated is never acknowledged.
ReceiveMessage(e, m) ==
    /\ Hears(e, m) /\ m \notin heardIds[e]
    /\ heardIds' = [heardIds EXCEPT ![e] = @ \cup {m}]
    /\ received' = [received EXCEPT ![e] = @ + 1]
    /\ acking' = IF ToAck(e, m) THEN [acking EXCEPT ![e] = @ \cup {m}] ELSE acking
    /\ UNCHANGED <<mode, phase, feedUp, acked, traffic>>

\* _publish: the Receipt is out, or is not, or timed out and is out all the same;
\* an exception, as of a gateway that is stopped, is swallowed and the Receipt counted.
AckDone(e, m) ==
    /\ m \in acking[e]
    /\ acking' = [acking EXCEPT ![e] = @ \ {m}]
    /\ acked' = [acked EXCEPT ![e] = @ + 1]
    /\ \/ UNCHANGED traffic
       \/ phase[e] = "running" /\ traffic' = Append(traffic, [from |-> e, ack |-> m])
    /\ UNCHANGED <<mode, phase, feedUp, heardIds, received>>

SimulatorNext ==
    \/ \E e \in Engines :
         \/ StartEngine(e) \/ DesignateAckUnit(e) \/ FeedConnects(e) \/ FeedDrops(e)
         \/ StopEngine(e)
         \/ \E m \in DOMAIN traffic : ReceiveMessage(e, m) \/ AckDone(e, m)
    \/ \E from \in Engines \cup Others : SendReport(from)

SimulatorSpec == SimulatorInit /\ [][SimulatorNext]_simulatorVars

-----------------------------------------------------------------------------
(* Properties.                                                             *)

\* Every variable in its set.
SimulatorTypeOK ==
    /\ phase \in [Engines -> {"off", "starting", "running"}] /\ feedUp \subseteq Engines
    /\ \A e \in Engines :
         /\ acking[e] \subseteq DOMAIN traffic /\ heardIds[e] \subseteq DOMAIN traffic
         /\ acked[e] <= received[e]

\* "never ack an ack, or we'd loop" (_receive), with simulators that answer each
\* other: a Receipt names a message that its sender did not send and that is no
\* Receipt, and no simulator acknowledges a message twice, however many of its
\* units hear it at once, and through drops of the feed, stops and restarts.
AckOnce ==
    \A m \in DOMAIN traffic : traffic[m].ack # 0 =>
        /\ traffic[traffic[m].ack].ack = 0 /\ traffic[traffic[m].ack].from # traffic[m].from
        /\ \A n \in DOMAIN traffic :
               n # m => traffic[n] # traffic[m]
=============================================================================
