----------------------------- MODULE MCSupport -----------------------------
(***************************************************************************)
(* The parts around the node that keep a state of their own, and the pure  *)
(* translations of messages.  Their models share no variable, so that one  *)
(* behaviour runs one of them; for the translations it is a single input,  *)
(* in "sample".                                                            *)
(***************************************************************************)
EXTENDS Services, MessageMapping, WireFormat, TLC

CONSTANTS sv1, sv2, s1, s2

MCRosters ==
    {<<"commandpost", "teamleader", "rifleman", "rifleman", "medic", "scout", "observer",
       "sensor", "atak", "vehicle">>,
     <<"medic", "teamleader", "commandpost", "medic", "commandpost">>, <<"rifleman">>}
MCBlockRoles ==
    {<<"none", "none">>, <<"medic", "teamleader">>, <<"commandpost", "scout">>}

VARIABLES
    part,       \* the part this behaviour runs
    sample      \* the input, where that is a translation

NoSample == [on |-> "none"]
Samples ==
         {[on |-> "body", body |-> b] : b \in Bodies}
    \cup {[on |-> "event", event |-> e] : e \in Events}
    \cup {[on |-> "symbol", code |-> c, identity |-> i, status |-> s] :
              c \in Codes, i \in 0 .. 6, s \in Statuses}
    \cup {[on |-> "data", data |-> d] : d \in Data}
    \cup {[on |-> "frame", codec |-> c, payload |-> p, cut |-> n] :
              c \in Codecs, p \in Payloads, n \in 0 .. 12}

\* Only the part that runs starts in each of its initial states.
SupportInit ==
    /\ part \in {"relay", "monitoring", "gossip", "control", "simulator", "users",
                 "scenario", "cache", "translation"}
    /\ sample \in IF part = "translation" THEN Samples ELSE {NoSample}
    /\ part = "simulator" \/ mode = [e \in Engines |-> "inject"]
    /\ part = "scenario" \/ setup = CHOOSE s \in Setups : Len(s.roster) = 1
    /\ part = "cache" \/ overlap = FALSE
    /\ RelayInit /\ MonitoringInit /\ GossipInit /\ SimInit /\ SimulatorInit
    /\ StoreInit /\ ScenarioInit /\ Init

supportVars ==
    <<part, sample, relayVars, monitoringVars, gossipVars, simVars, simulatorVars,
      storeVars, scenarioVars, vars>>

SupportNext ==
    \/ /\ part = "relay" /\ RelayNext
       /\ UNCHANGED <<part, sample, monitoringVars, gossipVars, simVars,
                      simulatorVars, storeVars, scenarioVars, vars>>
    \/ /\ part = "monitoring" /\ MonitoringNext
       /\ UNCHANGED <<part, sample, relayVars, gossipVars, simVars, simulatorVars,
                      storeVars, scenarioVars, vars>>
    \/ /\ part = "gossip" /\ GossipNext
       /\ UNCHANGED <<part, sample, relayVars, monitoringVars, simVars,
                      simulatorVars, storeVars, scenarioVars, vars>>
    \/ /\ part = "control" /\ SimNext
       /\ UNCHANGED <<part, sample, relayVars, monitoringVars, gossipVars,
                      simulatorVars, storeVars, scenarioVars, vars>>
    \/ /\ part = "simulator" /\ SimulatorNext
       /\ UNCHANGED <<part, sample, relayVars, monitoringVars, gossipVars, simVars,
                      storeVars, scenarioVars, vars>>
    \/ /\ part = "users" /\ StoreNext
       /\ UNCHANGED <<part, sample, relayVars, monitoringVars, gossipVars, simVars,
                      simulatorVars, scenarioVars, vars>>
    \/ /\ part = "scenario" /\ ScenarioNext
       /\ UNCHANGED <<part, sample, relayVars, monitoringVars, gossipVars, simVars,
                      simulatorVars, storeVars, vars>>
    \/ /\ part = "cache" /\ Next
       /\ UNCHANGED <<part, sample, relayVars, monitoringVars, gossipVars, simVars,
                      simulatorVars, storeVars, scenarioVars>>

SupportSpec == SupportInit /\ [][SupportNext]_supportVars

SupportSymmetry ==
    Permutations(Servers) \cup Permutations(Engines)

-----------------------------------------------------------------------------
(* The translations.                                                       *)

\* What a receiver makes of a document (datamodel/codec/xml_mip.py) or of a cut
\* frame (iem/exchange.py) is what was sent, or nothing; and the translations of a
\* message (bridges/cot.py, datamodel/symbology.py, web/routers/monitor.py) keep
\* what they are to keep: on every bounded input.
TranslationLaws ==
    /\ sample.on = "data" => XmlRoundTrip(sample.data)
    /\ sample.on = "frame" => FrameIntegrity(sample.codec, sample.payload, sample.cut)
    /\ sample.on = "body" => CotRoundTrip(sample.body) /\ InjectKeeps(sample.body)
    /\ sample.on = "event" => CotIngest(sample.event)
    /\ sample.on = "symbol" => SymbolInSync(sample.code, sample.identity, sample.status)

\* xml_mip.py _elements_to_dict, "Inverse of _dict_to_elements": whatever a node
\* may publish, its receivers decode.
EveryBodyDecodes == sample.on = "data" => XmlInverse(sample.data)
=============================================================================
