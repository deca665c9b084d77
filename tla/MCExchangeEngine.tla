-------------------------- MODULE MCExchangeEngine --------------------------
(***************************************************************************)
(* Constants of ExchangeEngine for TLC, and the scenarios of its run:      *)
(* "copies", a native and a bridged message of a type no handler takes     *)
(* between two nodes that forget twice and are edited; and "handlers", one *)
(* message at three nodes with three handlers, a lost copy and one         *)
(* forgetting.                                                             *)
(***************************************************************************)
EXTENDS ExchangeEngine, TLC

CONSTANTS a, b, c, eud, m1, m2, mx, h1, h2, h3

VARIABLE scenario

\* a publishes m1 and m2; the bridged source eud is the originator of mx.
MCOrigin == [m \in Msgs |-> IF m = mx THEN eud ELSE a]
MCType == [m \in Msgs |-> IF m = m2 THEN "order" ELSE "track"]
MCSubs == [h \in Handlers |-> {"order"}]
MCNoHandlers == <<>>
MCTwoHandlers == <<h1, h2>>
MCSameKey == [n \in Nodes |-> "coalition"]
\* c speaks another codec.
MCCodec == [n \in Nodes |-> IF n = c THEN "json" ELSE "xml_mip"]

MCInit == Init /\ scenario \in {"copies", "handlers"}

Actors == IF scenario = "copies" THEN {a, b} ELSE Nodes
Traffic == IF scenario = "copies" THEN {m1, mx} ELSE {m2}
Senders == {Origin[m] : m \in Traffic}

\* Only the scenario's nodes, messages, types and senders take part.
InScenario ==
    /\ \A m \in Msgs \ Traffic : via'[m] = NoNode
    /\ scenario = "copies" => handlers' = handlers /\ lost' = lost
    /\ scenario = "handlers" => forgets' <= 1 /\ edits' = edits
    /\ edits' # edits =>
         \A n \in Nodes :
             /\ permitted[n] \ Senders = permitted'[n] \ Senders
             /\ rx[n] \ {"track"} = rx'[n] \ {"track"}
             /\ tx[n] \ {"track"} = tx'[n] \ {"track"}
    /\ \A n \in Nodes \ Actors :
         /\ drops'[n] = {} /\ cache'[n] = <<>> /\ n \notin restarted'
         /\ permitted'[n] = permitted[n] /\ rx'[n] = rx[n] /\ tx'[n] = tx[n]

MCNext == Next /\ InScenario /\ UNCHANGED scenario
MCSpec == MCInit /\ [][MCNext]_<<vars, scenario>>

\* A blocked bridged originator: the whole next-state relation.
BypassSpec == Init /\ scenario = "bypass" /\ [][Next /\ UNCHANGED scenario]_<<vars, scenario>>
=============================================================================
