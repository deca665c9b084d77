------------------------------ MODULE Services ------------------------------
(***************************************************************************)
(* The parts around the node that keep a state of their own, side by side: *)
(* they share no variable.  What several of them promise together.         *)
(***************************************************************************)
EXTENDS ServerRelay, Monitoring, PeerGossip, SimulationControl,
        ExternalSimulator, UserStore, SimScenario, DedupCache

\* Every variable in its set.
SupportTypeOK ==
    /\ RelayTypeOK  /\ MonitoringTypeOK /\ GossipTypeOK /\ SimTypeOK
    /\ SimulatorTypeOK /\ StoreTypeOK /\ ScenarioTypeOK /\ TypeOK

\* The two pictures of the traffic that the dashboard draws (monitor/gossip.py;
\* audit.py and monitor/telemetry_arrow.py) are what the nodes have heard.
DashboardTruth == MatrixTruth /\ BuffersAgree
=============================================================================
