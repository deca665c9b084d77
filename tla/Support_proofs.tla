--------------------------- MODULE Support_proofs ---------------------------
(***************************************************************************)
(* Proofs about the services around a node: the relay between TAK servers  *)
(* and the coalition (OwnTrackNotReturned, StampedByItsGateway), the       *)
(* external simulators (AckOnce), users and sessions (SessionsSurvive),    *)
(* the live feeds (FeedComplete), the live simulation (SimulationTruth),   *)
(* the report of a run (SimulationReport), the connection matrix           *)
(* (MatrixTruth) and the telemetry and audit buffers (with the matrix,     *)
(* DashboardTruth), and the types of them all, for any values of the       *)
(* constants.                                                              *)
(***************************************************************************)
EXTENDS Services, DedupCache_proofs, SequenceFacts, FunctionTheorems

-----------------------------------------------------------------------------
(* The relay.  At most one gateway runs, the manager's or the next.        *)

Messages == [track : Servers \cup {Abroad}, gw : Nat, stamp : Nat, from : Nat, body : BOOLEAN]

RelayTypes ==
    /\ relayGateway \in Nat /\ started_ \in Nat
    /\ connectors \in [Servers -> 0 .. started_]
    /\ stopping \subseteq Servers \X (1 .. started_) /\ robbed \subseteq 1 .. started_
    /\ origins \in [Servers -> SUBSET Servers]
    /\ reader \in [Servers -> [then : {"read", "body"}, gw : Nat, msg : Nat]]
    /\ relayed \in Seq(Messages)
    /\ DOMAIN relaying = DOMAIN relayed /\ relaying \in Seq(Range(relaying))
    /\ \A m \in DOMAIN relaying : relaying[m] \subseteq Servers \X (Nat \ {0})

\* A read loop that still has a body to publish read the gateway of its time.
GatewayInv ==
    /\ gatewayUp \in {{}, {relayGateway}, {relayGateway + 1}}
    /\ \A s \in Servers : reader[s].gw <= relayGateway
    /\ \A m \in DOMAIN relayed : relayed[m].stamp = relayed[m].gw

\* A connector that runs, or whose stop is awaited.
Alive(s, k) == k # 0 /\ (connectors[s] = k \/ <<s, k>> \in stopping)

\* Its server has noted the tracks that came from it, unless another took them along.
Noted(s, k) == s \in origins[s] \/ k \in robbed

\* A connector belongs to one server, for which its tracks are noted.
TrackInv ==
    /\ \A s, t \in Servers, k \in Nat : Alive(s, k) /\ Alive(t, k) => s = t
    /\ \A m \in DOMAIN relayed : relayed[m].from <= started_
    /\ \A m \in DOMAIN relayed, s \in Servers : Alive(s, relayed[m].from) =>
         relayed[m].track = s /\ Noted(s, relayed[m].from)
    /\ \A s \in Servers : reader[s].then = "body" =>
         connectors[s] # 0 /\ Noted(s, connectors[s])
    /\ returned \subseteq DOMAIN relayed
    /\ OwnTrackNotReturned

RelayInv == RelayTypes /\ GatewayInv /\ TrackInv

LEMMA InitRelayInv == RelayInit => RelayInv
<1> SUFFICES ASSUME RelayInit PROVE RelayInv
  OBVIOUS
<1>1. /\ relayed = <<>> /\ relaying = <<>> /\ DOMAIN relayed = {} /\ DOMAIN relaying = {}
      /\ relayed \in Seq(Messages)
  BY DEF RelayInit
<1>2. relaying \in Seq(Range(relaying))
  <2>1. relaying = [i \in 1 .. 0 |-> relaying[i]]
    BY <1>1
  <2>2. QED BY <2>1, SequenceAny
<1>3. QED
  BY <1>1, <1>2 DEF RelayInit, RelayInv, RelayTypes, GatewayInv, TrackInv, Alive, Idle, OwnTrackNotReturned

\* What publishing one message adds.
LEMMA RelaysAdds ==
    ASSUME RelayTypes, NEW message \in Messages, Relays(message)
    PROVE  /\ relayed' \in Seq(Messages) /\ Len(relayed) \in Nat /\ Len(relayed') \in Nat
           /\ relaying' \in Seq(Range(relaying'))
           /\ DOMAIN relayed' = DOMAIN relayed \cup {Len(relayed) + 1}
           /\ Len(relayed) + 1 \notin DOMAIN relayed
           /\ \A m \in DOMAIN relayed : relayed'[m] = relayed[m]
           /\ relayed'[Len(relayed) + 1] = message
           /\ DOMAIN relaying' = DOMAIN relayed'
           /\ \A m \in DOMAIN relaying' : relaying'[m] \subseteq Servers \X (Nat \ {0})
           /\ returned' = returned
<1> DEFINE pairs == {<<s, connectors[s]>> : s \in Connected}
           n == Len(relayed) + 1
<1>1. /\ relayed' = Append(relayed, message) /\ relaying' = Append(relaying, pairs)
      /\ returned' = returned
  BY DEF Relays
<1>2. /\ relayed' \in Seq(Messages) /\ Len(relayed) \in Nat /\ Len(relayed') = n
      /\ DOMAIN relayed = 1 .. Len(relayed) /\ DOMAIN relayed' = 1 .. n
      /\ \A m \in DOMAIN relayed : relayed'[m] = relayed[m]
      /\ relayed'[n] = message
  BY <1>1, AppendRange, LenProperties DEF RelayTypes
<1>3. pairs \subseteq Servers \X (Nat \ {0})
  BY DEF Connected, RelayTypes
<1> HIDE DEF pairs
<1>4. /\ relaying' \in Seq(Range(relaying')) /\ Len(relaying) = Len(relayed)
      /\ DOMAIN relaying' = DOMAIN relaying \cup {Len(relaying) + 1}
  BY <1>1, <1>2, AppendAny, LenProperties DEF RelayTypes
<1>5. \A m \in DOMAIN relaying : relaying'[m] = relaying[m]
  BY <1>1, <1>2, LenProperties DEF RelayTypes
<1>6. relaying'[Len(relaying) + 1] = pairs
  BY <1>1, <1>2, <1>4, LenProperties DEF RelayTypes
<1>7. \A m \in DOMAIN relaying' : relaying'[m] \subseteq Servers \X (Nat \ {0})
  BY <1>3, <1>4, <1>5, <1>6 DEF RelayTypes
<1>8. QED BY <1>1, <1>2, <1>4, <1>7 DEF RelayTypes

\* A message that is of its gateway, and of the server it came from, keeps the invariant.
LEMMA RelaysKeeps ==
    ASSUME RelayInv, NEW message \in Messages, Relays(message),
           message.stamp = message.gw, message.from <= started_,
           UNCHANGED <<gatewayVars, connectors, stopping, started_, robbed>>,
           origins' \in [Servers -> SUBSET Servers],
           \A s \in Servers : origins[s] \subseteq origins'[s],
           reader' \in [Servers -> [then : {"read", "body"}, gw : Nat, msg : Nat]],
           \A s \in Servers : reader'[s].gw <= relayGateway,
           \A s \in Servers : reader'[s].then = "body" =>
               connectors[s] # 0 /\ (s \in origins'[s] \/ connectors[s] \in robbed),
           \A s \in Servers : Alive(s, message.from) =>
               message.track = s /\ (s \in origins'[s] \/ message.from \in robbed)
    PROVE  RelayInv'
<1> DEFINE n == Len(relayed) + 1
<1>0. RelayTypes /\ GatewayInv /\ TrackInv
  BY DEF RelayInv
<1>1. /\ relayed' \in Seq(Messages) /\ relaying' \in Seq(Range(relaying'))
      /\ DOMAIN relayed' = DOMAIN relayed \cup {n}
      /\ n \notin DOMAIN relayed
      /\ \A m \in DOMAIN relayed : relayed'[m] = relayed[m]
      /\ relayed'[n] = message
      /\ DOMAIN relaying' = DOMAIN relayed'
      /\ \A m \in DOMAIN relaying' : relaying'[m] \subseteq Servers \X (Nat \ {0})
      /\ returned' = returned
  BY <1>0, RelaysAdds
<1> HIDE DEF n
<1>2. RelayTypes'
  BY <1>0, <1>1 DEF RelayTypes, gatewayVars
<1>3. GatewayInv'
  BY <1>0, <1>1 DEF GatewayInv, gatewayVars
<1>4. returned' \subseteq DOMAIN relayed' /\ OwnTrackNotReturned'
  BY <1>0, <1>1 DEF TrackInv, OwnTrackNotReturned
<1>5. (\A m \in DOMAIN relayed, s \in Servers : Alive(s, relayed[m].from) =>
         relayed[m].track = s /\ Noted(s, relayed[m].from))'
  <2> SUFFICES ASSUME NEW m \in DOMAIN relayed', NEW s \in Servers,
                      relayed'[m].from # 0,
                      connectors[s] = relayed'[m].from \/ <<s, relayed'[m].from>> \in stopping
               PROVE  relayed'[m].track = s /\ (s \in origins'[s] \/ relayed'[m].from \in robbed)
    BY DEF Alive, Noted
  <2>1. CASE m \in DOMAIN relayed
    BY <1>0, <1>1, <2>1 DEF TrackInv, Alive, Noted
  <2>2. CASE m = n
    BY <1>1, <2>2 DEF Alive
  <2>3. QED BY <1>1, <2>1, <2>2
<1>6. TrackInv'
  <2>1. \A m \in DOMAIN relayed' : relayed'[m].from <= started_
    BY <1>0, <1>1 DEF TrackInv
  <2>2. QED BY <1>0, <1>4, <1>5, <2>1 DEF TrackInv, Alive, Noted
<1>7. QED BY <1>2, <1>3, <1>6 DEF RelayInv

LEMMA NextRelayInv == RelayInv /\ [RelayNext]_relayVars => RelayInv'
<1> SUFFICES ASSUME RelayInv, [RelayNext]_relayVars PROVE RelayInv'
  OBVIOUS
<1>0. RelayTypes /\ GatewayInv /\ TrackInv
  BY DEF RelayInv
<1> USE DEF relayVars, gatewayVars, connectorVars, relayingVars
<1>1. CASE StopGateway
  BY <1>0, <1>1 DEF StopGateway, RelayInv, RelayTypes, GatewayInv, TrackInv, Alive, Noted,
         OwnTrackNotReturned
<1>2. CASE StartGateway
  BY <1>0, <1>2 DEF StartGateway, RelayInv, RelayTypes, GatewayInv, TrackInv, Alive, Noted,
         OwnTrackNotReturned
<1>3. CASE AttachManager
  BY <1>0, <1>3 DEF AttachManager, RelayInv, RelayTypes, GatewayInv, TrackInv, Alive, Noted,
         OwnTrackNotReturned
<1>4. ASSUME NEW s \in Servers, StartConnector(s) PROVE RelayInv'
  <2>1. /\ started_' = started_ + 1 /\ connectors' = [connectors EXCEPT ![s] = started_ + 1]
        /\ connectors[s] = 0
        /\ UNCHANGED <<stopping, origins, identified, reader, robbed, gatewayVars, relayingVars>>
    BY <1>4 DEF StartConnector
  <2>2. RelayTypes'
    BY <1>0, <2>1 DEF RelayTypes
  <2>3. GatewayInv'
    BY <1>0, <2>1 DEF GatewayInv
  <2>4. \A m \in DOMAIN relayed : relayed[m].from \in Nat /\ relayed[m].from <= started_
    <3>1. \A m \in DOMAIN relayed : relayed[m] \in Messages
      BY <1>0, LenProperties DEF RelayTypes
    <3>2. QED BY <1>0, <3>1 DEF TrackInv, Messages
  <2>5. \A t \in Servers : connectors[t] \in Nat /\ connectors[t] <= started_
    BY <1>0 DEF RelayTypes
  <2>6. \A t \in Servers, k \in Nat : Alive(t, k)' =>
          (Alive(t, k) /\ k <= started_) \/ (t = s /\ k = started_ + 1)
    BY <1>0, <2>1, <2>5 DEF Alive, RelayTypes
  <2>7. \A t \in Servers, k \in Nat : Alive(t, k) => k <= started_ /\ started_ \in Nat
    BY <1>0, <2>5 DEF Alive, RelayTypes
  <2>8. \A t \in Servers : reader[t].then = "body" => connectors'[t] = connectors[t]
    BY <1>0, <2>1 DEF TrackInv, RelayTypes
  <2>9. TrackInv'
    <3>1. (\A t, u \in Servers, k \in Nat : Alive(t, k) /\ Alive(u, k) => t = u)'
      BY <1>0, <2>6, <2>7 DEF TrackInv
    <3>2. (\A m \in DOMAIN relayed, t \in Servers : Alive(t, relayed[m].from) =>
             relayed[m].track = t /\ Noted(t, relayed[m].from))'
      BY <1>0, <2>1, <2>4, <2>6 DEF TrackInv, Noted, RelayTypes
    <3>3. QED BY <1>0, <2>1, <2>4, <2>8, <3>1, <3>2 DEF TrackInv, Noted, RelayTypes,
                 OwnTrackNotReturned
  <2>10. QED BY <2>2, <2>3, <2>9 DEF RelayInv
<1>5. ASSUME NEW s \in Servers, StopConnector(s) PROVE RelayInv'
  <2>1. /\ connectors[s] # 0 /\ connectors' = [connectors EXCEPT ![s] = 0]
        /\ stopping' = stopping \cup {<<s, connectors[s]>>}
        /\ reader' = [reader EXCEPT ![s] = Idle]
        /\ relaying' = [m \in DOMAIN relaying |-> IF m = reader[s].msg THEN {} ELSE relaying[m]]
        /\ UNCHANGED <<started_, origins, identified, robbed, gatewayVars, relayed, returned>>
    BY <1>5 DEF StopConnector
  <2>2. relaying' \in Seq(Range(relaying'))
    <3>1. Len(relayed) \in Nat /\ DOMAIN relaying' = 1 .. Len(relayed)
      BY <1>0, <2>1, LenProperties DEF RelayTypes
    <3>2. relaying' = [i \in 1 .. Len(relayed) |-> relaying'[i]]
      BY <2>1, <3>1
    <3>3. QED BY <3>1, <3>2, SequenceAny
  <2>3. RelayTypes'
    BY <1>0, <2>1, <2>2 DEF RelayTypes, Idle
  <2>4. GatewayInv'
    BY <1>0, <2>1 DEF GatewayInv, Idle, RelayTypes
  <2>5. \A t \in Servers, k \in Nat : Alive(t, k)' => Alive(t, k)
    BY <1>0, <2>1 DEF Alive, RelayTypes
  <2>6. \A t \in Servers : reader'[t].then = "body" =>
          reader[t].then = "body" /\ connectors'[t] = connectors[t]
    BY <1>0, <2>1 DEF RelayTypes, Idle
  <2>7. TrackInv'
    <3>1. \A m \in DOMAIN relayed : relayed[m].from \in Nat
      <4>1. \A m \in DOMAIN relayed : relayed[m] \in Messages
        BY <1>0, LenProperties DEF RelayTypes
      <4>2. QED BY <4>1 DEF Messages
    <3>2. QED BY <1>0, <2>1, <2>5, <2>6, <3>1 DEF TrackInv, Noted, OwnTrackNotReturned
  <2>8. QED BY <2>3, <2>4, <2>7 DEF RelayInv
<1>6. ASSUME NEW s \in Servers, NEW named \in BOOLEAN, RxEvent(s, named) PROVE RelayInv'
  <2> DEFINE first == named /\ s \notin identified
             message == Stamped(s, relayGateway, ~ first)
  <2>1. /\ connectors[s] # 0 /\ origins' = [origins EXCEPT ![s] = @ \cup {s}]
        /\ UNCHANGED <<gatewayVars, connectors, stopping, started_, robbed>>
    BY <1>6 DEF RxEvent, Connected
  <2>2. /\ origins' \in [Servers -> SUBSET Servers] /\ s \in origins'[s]
        /\ \A t \in Servers : origins[t] \subseteq origins'[t]
    BY <1>0, <2>1 DEF RelayTypes
  <2>3. CASE relayGateway \in gatewayUp
    <3>1. /\ Relays(message)
          /\ reader' = [reader EXCEPT ![s] = [then |-> IF first THEN "body" ELSE "read",
                          gw |-> relayGateway, msg |-> Len(relayed')]]
      BY <1>6, <2>3 DEF RxEvent
    <3>2. /\ message \in Messages /\ message.stamp = message.gw /\ message.from = connectors[s]
          /\ message.track = s
      BY <1>0 DEF RelayTypes, Stamped, Messages
    <3> HIDE DEF first, message
    <3>3. Len(relayed') \in Nat
      BY <1>0, <3>1, <3>2, RelaysAdds
    <3>4. /\ reader' \in [Servers -> [then : {"read", "body"}, gw : Nat, msg : Nat]]
          /\ \A t \in Servers : reader'[t].gw <= relayGateway
          /\ \A t \in Servers : reader'[t].then = "body" => reader[t].then = "body" \/ t = s
      BY <1>0, <2>2, <3>1, <3>3 DEF RelayTypes, GatewayInv
    <3>5. \A t \in Servers : reader'[t].then = "body" =>
            connectors[t] # 0 /\ (t \in origins'[t] \/ connectors[t] \in robbed)
      BY <1>0, <2>1, <2>2, <3>4 DEF TrackInv, Noted
    <3>6. \A t \in Servers : Alive(t, message.from) => t = s
      <4>1. Alive(s, connectors[s]) /\ connectors[s] \in Nat
        BY <1>0, <2>1 DEF Alive, RelayTypes
      <4>2. QED BY <1>0, <3>2, <4>1 DEF TrackInv
    <3>7. \A t \in Servers : Alive(t, message.from) =>
            message.track = t /\ (t \in origins'[t] \/ message.from \in robbed)
      BY <2>2, <3>2, <3>6
    <3>8. connectors[s] <= started_
      BY <1>0 DEF RelayTypes
    <3>9. QED BY <2>1, <2>2, <3>1, <3>2, <3>4, <3>5, <3>7, <3>8, RelaysKeeps
  <2>4. CASE relayGateway \notin gatewayUp
    <3>1. UNCHANGED <<reader, relayingVars>>
      BY <1>6, <2>4 DEF RxEvent
    <3>2. RelayTypes' /\ GatewayInv'
      BY <1>0, <2>1, <2>2, <3>1 DEF RelayTypes, GatewayInv
    <3>3. TrackInv'
      BY <1>0, <2>1, <2>2, <3>1 DEF TrackInv, Alive, Noted, OwnTrackNotReturned
    <3>4. QED BY <3>2, <3>3 DEF RelayInv
  <2>5. QED BY <2>3, <2>4
<1>7. ASSUME NEW s \in Servers, RxBody(s) PROVE RelayInv'
  <2> DEFINE message == Stamped(s, reader[s].gw, TRUE)
  <2>1. /\ reader[s].then = "body"
        /\ UNCHANGED <<gatewayVars, connectors, stopping, started_, origins, identified, robbed>>
    BY <1>7 DEF RxBody
  <2>2. CASE reader[s].gw \in gatewayUp
    <3>1. /\ Relays(message)
          /\ reader' = [reader EXCEPT ![s].then = "read", ![s].msg = Len(relayed')]
      BY <1>7, <2>2 DEF RxBody
    <3>2. reader[s].gw = relayGateway
      BY <1>0, <2>2 DEF GatewayInv, RelayTypes
    <3>3. /\ message \in Messages /\ message.stamp = message.gw /\ message.from = connectors[s]
          /\ message.track = s
      BY <1>0, <3>2 DEF RelayTypes, Stamped, Messages
    <3>4. connectors[s] # 0 /\ Noted(s, connectors[s])
      BY <1>0, <2>1 DEF TrackInv
    <3> HIDE DEF message
    <3>5. Len(relayed') \in Nat
      BY <1>0, <3>1, <3>3, RelaysAdds
    <3>6. /\ reader' \in [Servers -> [then : {"read", "body"}, gw : Nat, msg : Nat]]
          /\ \A t \in Servers : reader'[t].gw <= relayGateway
          /\ \A t \in Servers : reader'[t].then = "body" =>
               connectors[t] # 0 /\ Noted(t, connectors[t])
      <4> DEFINE R == [then : {"read", "body"}, gw : Nat, msg : Nat]
                 past == [reader EXCEPT ![s].then = "read"]
      <4>1. /\ past \in [Servers -> R]
            /\ \A t \in Servers : past[t].gw = reader[t].gw
            /\ \A t \in Servers : past[t].then = "body" => reader[t].then = "body"
        BY <1>0 DEF RelayTypes
      <4>2. reader' = [past EXCEPT ![s].msg = Len(relayed')]
        BY <3>1
      <4> HIDE DEF past
      <4>3. /\ reader' \in [Servers -> R]
            /\ \A t \in Servers : reader'[t].gw = past[t].gw /\ reader'[t].then = past[t].then
        BY <3>5, <4>1, <4>2
      <4>4. QED BY <1>0, <4>1, <4>3 DEF GatewayInv, TrackInv
    <3>7. \A t \in Servers : Alive(t, message.from) => t = s
      <4>1. Alive(s, connectors[s]) /\ connectors[s] \in Nat
        BY <1>0, <3>4 DEF Alive, RelayTypes
      <4>2. QED BY <1>0, <3>3, <4>1 DEF TrackInv
    <3>8. connectors[s] <= started_ /\ origins' \in [Servers -> SUBSET Servers]
      BY <1>0, <2>1 DEF RelayTypes
    <3>9. /\ \A t \in Servers : reader'[t].then = "body" =>
               connectors[t] # 0 /\ (t \in origins'[t] \/ connectors[t] \in robbed)
          /\ \A t \in Servers : Alive(t, message.from) =>
               message.track = t /\ (t \in origins'[t] \/ message.from \in robbed)
      BY <2>1, <3>3, <3>4, <3>6, <3>7 DEF Noted
    <3>10. QED BY <2>1, <3>1, <3>3, <3>6, <3>8, <3>9, RelaysKeeps
  <2>3. CASE reader[s].gw \notin gatewayUp
    <3>1. reader' = [reader EXCEPT ![s] = Idle] /\ UNCHANGED relayingVars
      BY <1>7, <2>3 DEF RxBody
    <3>2. RelayTypes' /\ GatewayInv'
      BY <1>0, <2>1, <3>1 DEF RelayTypes, GatewayInv, Idle
    <3>3. TrackInv'
      BY <1>0, <2>1, <3>1 DEF RelayTypes, TrackInv, Alive, Noted, OwnTrackNotReturned, Idle
    <3>4. QED BY <3>2, <3>3 DEF RelayInv
  <2>4. QED BY <2>2, <2>3
<1>8. ASSUME NEW s \in Servers, RxDone(s) PROVE RelayInv'
  <2>1. /\ reader' = [reader EXCEPT ![s] = Idle]
        /\ UNCHANGED <<gatewayVars, connectors, stopping, started_, origins, identified, robbed,
                       relayingVars>>
    BY <1>8 DEF RxDone
  <2>2. RelayTypes' /\ GatewayInv'
    BY <1>0, <2>1 DEF RelayTypes, GatewayInv, Idle
  <2>3. TrackInv'
    BY <1>0, <2>1 DEF RelayTypes, TrackInv, Alive, Noted, OwnTrackNotReturned, Idle
  <2>4. QED BY <2>2, <2>3 DEF RelayInv
<1>9. ASSUME NEW g, FromAbroad(g) PROVE RelayInv'
  <2> DEFINE message == [track |-> Abroad, gw |-> g, stamp |-> g, from |-> 0, body |-> TRUE]
  <2>1. Relays(message) /\ g \in gatewayUp /\ UNCHANGED <<gatewayVars, connectorVars>>
    BY <1>9 DEF FromAbroad
  <2>2. /\ message \in Messages /\ message.stamp = message.gw /\ message.from = 0
    BY <1>0, <2>1 DEF Messages, GatewayInv, RelayTypes
  <2> HIDE DEF message
  <2>3. 0 <= started_
    BY <1>0 DEF RelayTypes
  <2>4. QED BY <1>0, <2>1, <2>2, <2>3, RelaysKeeps DEF RelayTypes, GatewayInv, TrackInv, Alive, Noted
<1>10. ASSUME NEW g, NEW m \in DOMAIN relayed, ComesBack(g, m) PROVE RelayInv'
  <2> DEFINE message == [relayed[m] EXCEPT !.gw = g, !.stamp = g]
  <2>1. Relays(message) /\ g \in gatewayUp /\ UNCHANGED <<gatewayVars, connectorVars>>
    BY <1>10 DEF ComesBack
  <2>2. relayed[m] \in Messages
    BY <1>0, LenProperties DEF RelayTypes
  <2>3. /\ message \in Messages /\ message.stamp = message.gw
        /\ message.from = relayed[m].from /\ message.track = relayed[m].track
    <3> DEFINE old == relayed[m]
               republished == [old EXCEPT !.gw = g]
    <3>1. message = [track |-> relayed[m].track, gw |-> g, stamp |-> g,
                     from |-> relayed[m].from, body |-> relayed[m].body]
      <4>1. message = [republished EXCEPT !.stamp = g]
        OBVIOUS
      <4> HIDE DEF message, old
      <4>2. republished = [track |-> old.track, gw |-> g, stamp |-> old.stamp,
                           from |-> old.from, body |-> old.body]
        BY <2>2 DEF Messages, old
      <4> HIDE DEF republished
      <4>3. message = [track |-> old.track, gw |-> g, stamp |-> g,
                       from |-> old.from, body |-> old.body]
        BY <4>1, <4>2
      <4>4. QED BY <4>3 DEF old
    <3> HIDE DEF message
    <3>2. g \in Nat
      <4>1. relayGateway \in Nat /\ (g = relayGateway \/ g = relayGateway + 1)
        BY <1>0, <2>1 DEF GatewayInv, RelayTypes
      <4>2. QED BY <4>1
    <3>3. /\ relayed[m].track \in Servers \cup {Abroad} /\ relayed[m].from \in Nat
          /\ relayed[m].body \in BOOLEAN
      BY <2>2 DEF Messages
    <3>4. message \in Messages
      BY <3>1, <3>2, <3>3 DEF Messages
    <3>5. QED BY <3>1, <3>4
  <2> HIDE DEF message
  <2>4. /\ UNCHANGED <<gatewayVars, connectors, started_, origins, reader>>
    BY <2>1 DEF connectorVars
  <2>5. message.from <= started_
    BY <1>0, <2>3 DEF TrackInv
  <2>6. /\ origins \in [Servers -> SUBSET Servers]
        /\ reader \in [Servers -> [then : {"read", "body"}, gw : Nat, msg : Nat]]
        /\ \A s \in Servers : reader[s].gw <= relayGateway
        /\ \A s \in Servers : reader[s].then = "body" =>
             connectors[s] # 0 /\ (s \in origins[s] \/ connectors[s] \in robbed)
    BY <1>0 DEF RelayTypes, GatewayInv, TrackInv, Noted
  <2>7. \A s \in Servers : Alive(s, message.from) =>
          message.track = s /\ (s \in origins[s] \/ message.from \in robbed)
    BY <1>0, <2>3 DEF TrackInv, Noted
  <2>8. origins' = origins /\ reader' = reader
    BY <2>4
  <2>9. QED BY <2>1, <2>3, <2>4, <2>5, <2>6, <2>7, <2>8, RelaysKeeps
<1>11. ASSUME NEW m \in DOMAIN relaying, NEW c \in relaying[m], RelayTo(m, c) PROVE RelayInv'
  <2>1. /\ relaying' = [relaying EXCEPT ![m] = @ \ {c}]
        /\ \/ returned' = returned
           \/ /\ relayed[m].track \notin origins[c[1]]
              /\ connectors[c[1]] = c[2] \/ c \in stopping
              /\ c[2] = relayed[m].from /\ returned' = returned \cup {m}
        /\ UNCHANGED <<gatewayVars, connectorVars, relayed>>
    BY <1>11 DEF RelayTo
  <2>2. c[1] \in Servers /\ c[2] \in Nat \ {0} /\ m \in DOMAIN relayed /\ c = <<c[1], c[2]>>
    BY <1>0 DEF RelayTypes
  <2>3. relaying' \in Seq(Range(relaying'))
    BY <1>0, <2>1, OneChanged DEF RelayTypes
  <2>4. RelayTypes'
    BY <1>0, <2>1, <2>3 DEF RelayTypes
  <2>5. GatewayInv'
    BY <1>0, <2>1 DEF GatewayInv
  <2>6. \A n \in returned' : n \in returned \/ (n = m /\ relayed[m].from \in robbed)
    <3>1. CASE returned' = returned
      BY <3>1
    <3>2. CASE /\ relayed[m].track \notin origins[c[1]]
               /\ connectors[c[1]] = c[2] \/ c \in stopping
               /\ c[2] = relayed[m].from /\ returned' = returned \cup {m}
      <4>1. Alive(c[1], relayed[m].from)
        BY <2>2, <3>2 DEF Alive
      <4>2. relayed[m].from \in robbed
        BY <1>0, <2>2, <3>2, <4>1 DEF TrackInv, Noted
      <4>3. QED BY <3>2, <4>2
    <3>3. QED BY <2>1, <3>1, <3>2
  <2>7. TrackInv'
    BY <1>0, <2>1, <2>2, <2>6 DEF TrackInv, Alive, Noted, OwnTrackNotReturned
  <2>8. QED BY <2>4, <2>5, <2>7 DEF RelayInv
<1>12. ASSUME NEW c \in stopping, ConnectorStopped(c) PROVE RelayInv'
  <2>1. /\ stopping' = stopping \ {c} /\ origins' = [origins EXCEPT ![c[1]] = {}]
        /\ robbed' = robbed \cup ({connectors[c[1]]} \ {0})
                          \cup {d[2] : d \in {e \in stopping' : e[1] = c[1]}}
        /\ UNCHANGED <<connectors, started_, identified, reader, gatewayVars, relayingVars>>
    BY <1>12 DEF ConnectorStopped
  <2>2. /\ c[1] \in Servers /\ \A d \in stopping : d[1] \in Servers /\ d[2] \in 1 .. started_
        /\ \A s \in Servers : connectors[s] \in 0 .. started_
    BY <1>0 DEF RelayTypes
  <2>3. robbed' \subseteq 1 .. started_ /\ robbed \subseteq robbed'
    <3>1. robbed \subseteq 1 .. started_ /\ started_ \in Nat
      BY <1>0 DEF RelayTypes
    <3>2. {connectors[c[1]]} \ {0} \subseteq 1 .. started_
      BY <2>2, <3>1
    <3>3. \A d \in stopping' : d[2] \in 1 .. started_
      BY <2>1, <2>2
    <3>4. {d[2] : d \in {e \in stopping' : e[1] = c[1]}} \subseteq 1 .. started_
      BY <3>3
    <3>5. QED BY <2>1, <3>1, <3>2, <3>4
  <2>4. RelayTypes'
    BY <1>0, <2>1, <2>3 DEF RelayTypes
  <2>5. GatewayInv'
    BY <1>0, <2>1 DEF GatewayInv
  <2>6. \A s \in Servers, k \in Nat : Alive(s, k)' => Alive(s, k)
    BY <2>1 DEF Alive
  <2>7. \A s \in Servers, k \in Nat : Alive(s, k)' /\ Noted(s, k) => Noted(s, k)'
    <3> SUFFICES ASSUME NEW s \in Servers, NEW k \in Nat, Alive(s, k)', Noted(s, k)
                 PROVE  Noted(s, k)'
      OBVIOUS
    <3>1. CASE s = c[1]
      <4>1. CASE connectors[s] = k
        BY <2>1, <3>1, <4>1 DEF Alive, Noted
      <4>2. CASE <<s, k>> \in stopping'
        <5>1. <<s, k>>[1] = c[1] /\ <<s, k>>[2] = k
          BY <3>1
        <5>2. QED BY <2>1, <4>2, <5>1 DEF Noted
      <4>3. QED BY <2>1, <4>1, <4>2 DEF Alive
    <3>2. CASE s # c[1]
      BY <1>0, <2>1, <2>3, <3>2 DEF Noted, RelayTypes
    <3>3. QED BY <3>1, <3>2
  <2>8. TrackInv'
    <3>1. \A m \in DOMAIN relayed : relayed[m].from \in Nat
      <4>1. \A m \in DOMAIN relayed : relayed[m] \in Messages
        BY <1>0, LenProperties DEF RelayTypes
      <4>2. QED BY <4>1 DEF Messages
    <3>2. (\A s \in Servers : reader[s].then = "body" =>
             connectors[s] # 0 /\ Noted(s, connectors[s]))'
      <4> SUFFICES ASSUME NEW s \in Servers, reader[s].then = "body"
                   PROVE  connectors[s] # 0 /\ Noted(s, connectors[s])'
        BY <2>1 DEF Noted
      <4>1. connectors[s] # 0 /\ connectors[s] \in Nat /\ Noted(s, connectors[s])
        BY <1>0, <2>2 DEF TrackInv
      <4>2. PICK k \in Nat : k = connectors[s]
        BY <4>1
      <4>3. Alive(s, k)' /\ Noted(s, k)
        BY <2>1, <4>1, <4>2 DEF Alive
      <4>4. Noted(s, k)'
        BY <2>7, <4>3
      <4>5. QED BY <2>1, <4>1, <4>2, <4>4 DEF Noted
    <3>3. (\A m \in DOMAIN relayed, s \in Servers : Alive(s, relayed[m].from) =>
             relayed[m].track = s /\ Noted(s, relayed[m].from))'
      <4> SUFFICES ASSUME NEW m \in DOMAIN relayed, NEW s \in Servers,
                          Alive(s, relayed[m].from)'
                   PROVE  relayed[m].track = s /\ Noted(s, relayed[m].from)'
        BY <2>1
      <4>1. PICK k \in Nat : k = relayed[m].from
        BY <3>1
      <4>2. relayed'[m].from = k
        BY <2>1, <4>1
      <4>3. Alive(s, k)'
        BY <4>2 DEF Alive
      <4>4. Alive(s, relayed[m].from)
        BY <2>6, <4>1, <4>3
      <4>5. relayed[m].track = s /\ Noted(s, k)
        BY <1>0, <4>1, <4>4 DEF TrackInv
      <4>6. Noted(s, k)'
        BY <2>7, <4>3, <4>5
      <4>7. QED BY <4>2, <4>5, <4>6 DEF Noted
    <3>4. QED BY <1>0, <2>1, <2>3, <2>6, <3>2, <3>3 DEF TrackInv, OwnTrackNotReturned
  <2>9. QED BY <2>4, <2>5, <2>8 DEF RelayInv
<1>13. CASE UNCHANGED relayVars
  BY <1>0, <1>13 DEF RelayInv, RelayTypes, GatewayInv, TrackInv, Alive, Noted, OwnTrackNotReturned
<1>14. QED BY <1>1, <1>2, <1>3, <1>4, <1>5, <1>6, <1>7, <1>8, <1>9, <1>10, <1>11, <1>12, <1>13
              DEF RelayNext

\* servers.py _emit: a track that came from a server is not handed to the connector
\* it came from, by whichever gateway it reaches the relay again, unless the stop of
\* another connector of the server took this one's originators with it.
THEOREM NotReturned == RelaySpec => []OwnTrackNotReturned
<1>1. RelayInv => OwnTrackNotReturned
  BY DEF RelayInv, TrackInv
<1>2. QED BY <1>1, InitRelayInv, NextRelayInv, PTL DEF RelaySpec

\* servers.py _on_rx: a message carries the stamp of the gateway it is published
\* on, though the manager is attached to another one while the message waits.
THEOREM Stamps == RelaySpec => []StampedByItsGateway
<1>1. RelayInv => StampedByItsGateway
  BY DEF RelayInv, GatewayInv, StampedByItsGateway
<1>2. QED BY <1>1, InitRelayInv, NextRelayInv, PTL DEF RelaySpec

-----------------------------------------------------------------------------
(* The external simulators.  What a simulator has seen stays seen through  *)
(* drops, stops and restarts; a Receipt that is being published is not out *)
(* yet, and one that is out is of a message that was seen.                 *)

SimulatorTypes ==
    /\ traffic \in Seq([from : Engines \cup Others, ack : Nat])
    /\ heardIds \in [Engines -> SUBSET DOMAIN traffic]
    /\ acking \in [Engines -> SUBSET DOMAIN traffic]

AckInv ==
    /\ \A e \in Engines : \A m \in acking[e] :
         /\ m \in heardIds[e] /\ traffic[m].ack = 0 /\ traffic[m].from # e
         /\ \A n \in DOMAIN traffic : traffic[n].from = e => traffic[n].ack # m
    /\ \A n \in DOMAIN traffic : traffic[n].ack # 0 =>
         /\ traffic[n].from \in Engines /\ traffic[n].ack \in heardIds[traffic[n].from]
    /\ AckOnce

SimulatorInv == SimulatorTypes /\ AckInv

LEMMA InitSimulatorInv == SimulatorInit => SimulatorInv
<1> SUFFICES ASSUME SimulatorInit PROVE SimulatorInv
  OBVIOUS
<1>1. traffic = <<>> /\ DOMAIN traffic = {} /\ traffic \in Seq([from : Engines \cup Others, ack : Nat])
  BY DEF SimulatorInit
<1>2. QED
  BY <1>1 DEF SimulatorInit, SimulatorInv, SimulatorTypes, AckInv, AckOnce

\* A Receipt of a message that is being acknowledged, and is so no longer.
LEMMA ReceiptKeeps ==
    ASSUME SimulatorInv, NEW e \in Engines, NEW m \in acking[e],
           traffic' = Append(traffic, [from |-> e, ack |-> m]),
           acking' \in [Engines -> SUBSET DOMAIN traffic],
           \A d \in Engines : acking'[d] \subseteq acking[d],
           m \notin acking'[e], heardIds' = heardIds
    PROVE  SimulatorInv'
<1> DEFINE receipt == [from |-> e, ack |-> m]
           k == Len(traffic) + 1
<1>0. SimulatorTypes /\ AckInv
  BY DEF SimulatorInv
<1>1. Len(traffic) \in Nat /\ DOMAIN traffic = 1 .. Len(traffic)
  BY <1>0, LenProperties DEF SimulatorTypes
<1>2. receipt \in [from : Engines \cup Others, ack : Nat] /\ m # 0 /\ m \in DOMAIN traffic
  BY <1>0, <1>1 DEF SimulatorTypes
<1>3. receipt.from = e /\ receipt.ack = m
  OBVIOUS
<1> HIDE DEF receipt
<1>4. /\ traffic' \in Seq([from : Engines \cup Others, ack : Nat])
      /\ DOMAIN traffic' = DOMAIN traffic \cup {k} /\ k \notin DOMAIN traffic
      /\ \A n \in DOMAIN traffic : traffic'[n] = traffic[n]
      /\ traffic'[k] = receipt
  <2>1. traffic' = Append(traffic, receipt)
    BY DEF receipt
  <2>2. QED BY <1>0, <1>1, <1>2, <2>1, AppendRange, LenProperties DEF SimulatorTypes
<1> HIDE DEF k
<1>5. SimulatorTypes'
  BY <1>0, <1>4 DEF SimulatorTypes
<1>6. traffic[m].ack = 0 /\ traffic[m].from # e /\ m \in heardIds[e]
      /\ \A n \in DOMAIN traffic : traffic[n].from = e => traffic[n].ack # m
  BY <1>0 DEF AckInv
<1>7. \A n \in DOMAIN traffic : traffic[n] # receipt
  BY <1>3, <1>6
<1>8. (\A d \in Engines : \A j \in acking[d] :
         /\ j \in heardIds[d] /\ traffic[j].ack = 0 /\ traffic[j].from # d
         /\ \A n \in DOMAIN traffic : traffic[n].from = d => traffic[n].ack # j)'
  <2> SUFFICES ASSUME NEW d \in Engines, NEW j \in acking'[d]
               PROVE  /\ j \in heardIds[d] /\ traffic'[j].ack = 0 /\ traffic'[j].from # d
                      /\ \A n \in DOMAIN traffic' : traffic'[n].from = d => traffic'[n].ack # j
    BY DEF AckInv
  <2>1. /\ j \in acking[d] /\ j \in DOMAIN traffic /\ (d = e => j # m)
    BY <1>0 DEF SimulatorTypes
  <2>2. /\ j \in heardIds[d] /\ traffic[j].ack = 0 /\ traffic[j].from # d
        /\ \A n \in DOMAIN traffic : traffic[n].from = d => traffic[n].ack # j
    BY <1>0, <2>1 DEF AckInv
  <2>3. QED BY <1>3, <1>4, <2>1, <2>2
<1>9. (\A n \in DOMAIN traffic : traffic[n].ack # 0 =>
         /\ traffic[n].from \in Engines /\ traffic[n].ack \in heardIds[traffic[n].from])'
  BY <1>0, <1>3, <1>4, <1>6 DEF AckInv
<1>10. AckOnce'
  <2> SUFFICES ASSUME NEW n \in DOMAIN traffic', traffic'[n].ack # 0
               PROVE  /\ traffic'[traffic'[n].ack].ack = 0
                      /\ traffic'[traffic'[n].ack].from # traffic'[n].from
                      /\ \A j \in DOMAIN traffic' : j # n => traffic'[j] # traffic'[n]
    BY DEF AckOnce
  <2>1. CASE n = k
    BY <1>2, <1>3, <1>4, <1>6, <1>7, <2>1
  <2>2. CASE n \in DOMAIN traffic
    <3>1. /\ traffic[n].from \in Engines /\ traffic[n].ack \in heardIds[traffic[n].from]
          /\ traffic[traffic[n].ack].ack = 0 /\ traffic[traffic[n].ack].from # traffic[n].from
          /\ \A j \in DOMAIN traffic : j # n => traffic[j] # traffic[n]
      BY <1>0, <1>4, <2>2 DEF AckInv, AckOnce
    <3>2. traffic[n].ack \in DOMAIN traffic
      BY <1>0, <3>1 DEF SimulatorTypes
    <3>3. QED BY <1>4, <1>7, <2>2, <3>1, <3>2
  <2>3. QED BY <1>4, <2>1, <2>2
<1>11. QED BY <1>5, <1>8, <1>9, <1>10 DEF SimulatorInv, AckInv

\* Nothing is sent, and nothing new is being acknowledged.
LEMMA NothingSentKeeps ==
    ASSUME SimulatorInv, UNCHANGED <<traffic, heardIds>>,
           acking' \in [Engines -> SUBSET DOMAIN traffic],
           \A d \in Engines : acking'[d] \subseteq acking[d]
    PROVE  SimulatorInv'
<1>1. QED BY DEF SimulatorInv, SimulatorTypes, AckInv, AckOnce

LEMMA NextSimulatorInv == SimulatorInv /\ [SimulatorNext]_simulatorVars => SimulatorInv'
<1> SUFFICES ASSUME SimulatorInv, [SimulatorNext]_simulatorVars PROVE SimulatorInv'
  OBVIOUS
<1>0. SimulatorTypes /\ AckInv
  BY DEF SimulatorInv
<1>q. CASE UNCHANGED <<traffic, heardIds, acking>>
  BY <1>0, <1>q, NothingSentKeeps DEF SimulatorTypes
<1>1. ASSUME NEW e \in Engines,
             StartEngine(e) \/ DesignateAckUnit(e) \/ FeedConnects(e) \/ FeedDrops(e)
      PROVE  SimulatorInv'
  BY <1>1, <1>q DEF StartEngine, DesignateAckUnit, FeedConnects, FeedDrops
<1>2. ASSUME NEW e \in Engines, StopEngine(e) PROVE SimulatorInv'
  <2>1. heardIds' = heardIds
    BY <1>2 DEF StopEngine
  <2>2. CASE mode[e] # "inject"
    BY <1>2, <1>q, <2>1, <2>2 DEF StopEngine
  <2>3. CASE mode[e] = "inject"
    <3>1. acking' = [acking EXCEPT ![e] = {}]
      BY <1>2, <2>3 DEF StopEngine
    <3>2. /\ acking' \in [Engines -> SUBSET DOMAIN traffic] /\ acking'[e] = {}
          /\ \A d \in Engines : acking'[d] \subseteq acking[d]
      BY <1>0, <3>1 DEF SimulatorTypes
    <3>3. CASE UNCHANGED traffic
      BY <2>1, <3>2, <3>3, NothingSentKeeps
    <3>4. ASSUME NEW m \in acking[e], traffic' = Append(traffic, [from |-> e, ack |-> m])
          PROVE  SimulatorInv'
      BY <2>1, <3>2, <3>4, ReceiptKeeps
    <3>5. QED BY <1>2, <2>3, <3>3, <3>4 DEF StopEngine
  <2>4. QED BY <2>2, <2>3
<1>3. ASSUME NEW e \in Engines, NEW m \in DOMAIN traffic, AckDone(e, m) PROVE SimulatorInv'
  <2>1. m \in acking[e] /\ acking' = [acking EXCEPT ![e] = @ \ {m}] /\ heardIds' = heardIds
    BY <1>3 DEF AckDone
  <2>2. /\ acking' \in [Engines -> SUBSET DOMAIN traffic] /\ m \notin acking'[e]
        /\ \A d \in Engines : acking'[d] \subseteq acking[d]
    BY <1>0, <2>1 DEF SimulatorTypes
  <2>3. CASE UNCHANGED traffic
    BY <2>1, <2>2, <2>3, NothingSentKeeps
  <2>4. CASE traffic' = Append(traffic, [from |-> e, ack |-> m])
    BY <2>1, <2>2, <2>4, ReceiptKeeps
  <2>5. QED BY <1>3, <2>3, <2>4 DEF AckDone
<1>4. ASSUME NEW e \in Engines, NEW m \in DOMAIN traffic, ReceiveMessage(e, m)
      PROVE  SimulatorInv'
  <2>1. /\ m \notin heardIds[e] /\ traffic[m].from # e /\ traffic' = traffic
        /\ heardIds' = [heardIds EXCEPT ![e] = @ \cup {m}]
        /\ acking' = IF ToAck(e, m) THEN [acking EXCEPT ![e] = @ \cup {m}] ELSE acking
    BY <1>4 DEF ReceiveMessage, Hears
  <2>2. SimulatorTypes'
    BY <1>0, <2>1 DEF SimulatorTypes
  <2>3. \A n \in DOMAIN traffic : traffic[n].from = e => traffic[n].ack # m
    <3>1. m # 0
      BY <1>0, LenProperties DEF SimulatorTypes
    <3>2. QED BY <1>0, <2>1, <3>1 DEF AckInv
  <2>4. \A d \in Engines : \A j \in acking'[d] :
          j \in acking[d] \/ (d = e /\ j = m /\ traffic[m].ack = 0)
    BY <1>0, <2>1 DEF SimulatorTypes, ToAck
  <2>5. /\ m \in heardIds'[e]
        /\ \A d \in Engines : heardIds[d] \subseteq heardIds'[d]
    BY <1>0, <2>1 DEF SimulatorTypes
  <2>6. AckInv'
    BY <1>0, <2>1, <2>3, <2>4, <2>5 DEF AckInv, AckOnce
  <2>7. QED BY <2>2, <2>6 DEF SimulatorInv
<1>5. ASSUME NEW from \in Engines \cup Others, SendReport(from) PROVE SimulatorInv'
  <2> DEFINE report == [from |-> from, ack |-> 0]
             k == Len(traffic) + 1
  <2>1. traffic' = Append(traffic, report) /\ heardIds' = heardIds /\ acking' = acking
    BY <1>5 DEF SendReport, engineVars
  <2>2. report \in [from : Engines \cup Others, ack : Nat] /\ report.ack = 0
    OBVIOUS
  <2> HIDE DEF report
  <2>3. /\ traffic' \in Seq([from : Engines \cup Others, ack : Nat])
        /\ DOMAIN traffic' = DOMAIN traffic \cup {k} /\ k \notin DOMAIN traffic
        /\ \A n \in DOMAIN traffic : traffic'[n] = traffic[n]
        /\ traffic'[k] = report
    BY <1>0, <2>1, <2>2, AppendRange, LenProperties DEF SimulatorTypes
  <2> HIDE DEF k
  <2>4. SimulatorTypes'
    BY <1>0, <2>1, <2>3 DEF SimulatorTypes
  <2>5. /\ \A e \in Engines : acking[e] \subseteq DOMAIN traffic /\ heardIds[e] \subseteq DOMAIN traffic
        /\ \A e \in Engines : \A m \in acking[e] : m \in Nat \ {0}
    BY <1>0, LenProperties DEF SimulatorTypes
  <2>6. (\A e \in Engines : \A m \in acking[e] :
           /\ m \in heardIds[e] /\ traffic[m].ack = 0 /\ traffic[m].from # e
           /\ \A n \in DOMAIN traffic : traffic[n].from = e => traffic[n].ack # m)'
    BY <1>0, <2>1, <2>2, <2>3, <2>5 DEF AckInv
  <2>7. (\A n \in DOMAIN traffic : traffic[n].ack # 0 =>
           /\ traffic[n].from \in Engines /\ traffic[n].ack \in heardIds[traffic[n].from])'
    BY <1>0, <2>1, <2>2, <2>3 DEF AckInv
  <2>8. AckOnce'
    <3> SUFFICES ASSUME NEW n \in DOMAIN traffic', traffic'[n].ack # 0
                 PROVE  /\ traffic'[traffic'[n].ack].ack = 0
                        /\ traffic'[traffic'[n].ack].from # traffic'[n].from
                        /\ \A j \in DOMAIN traffic' : j # n => traffic'[j] # traffic'[n]
      BY DEF AckOnce
    <3>1. n \in DOMAIN traffic /\ traffic'[n] = traffic[n]
      BY <2>2, <2>3
    <3>2. /\ traffic[n].from \in Engines /\ traffic[n].ack \in heardIds[traffic[n].from]
          /\ traffic[traffic[n].ack].ack = 0 /\ traffic[traffic[n].ack].from # traffic[n].from
          /\ \A j \in DOMAIN traffic : j # n => traffic[j] # traffic[n]
      BY <1>0, <3>1 DEF AckInv, AckOnce
    <3>3. traffic[n].ack \in DOMAIN traffic
      BY <2>5, <3>2
    <3>4. QED BY <2>2, <2>3, <3>1, <3>2, <3>3
  <2>9. QED BY <2>4, <2>6, <2>7, <2>8 DEF SimulatorInv, AckInv
<1>6. CASE UNCHANGED simulatorVars
  BY <1>6, <1>q DEF simulatorVars, engineVars
<1>7. QED BY <1>1, <1>2, <1>3, <1>4, <1>5, <1>6 DEF SimulatorNext

\* engine.py _receive: no Receipt of a Receipt or of an own message, and never two
\* Receipts of one message from one simulator, through drops, stops and restarts.
THEOREM AcknowledgedOnce == SimulatorSpec => []AckOnce
<1>1. SimulatorInv => AckOnce
  BY DEF SimulatorInv, AckInv
<1>2. QED BY <1>1, InitSimulatorInv, NextSimulatorInv, PTL DEF SimulatorSpec

-----------------------------------------------------------------------------
(* Users and sessions.  A session that no edit took the ground from is     *)
(* accepted by what is in memory and by what the file holds, the one while *)
(* the process is up, the other unless the file is being written.          *)

UsersOK(users) == \A u \in DOMAIN users : users[u] \in Records
Honoured(t, data) == t.secret = data.secret /\ t.user \in DOMAIN data.users

StoreTypes ==
    /\ secrets \in Nat /\ edits \in Nat /\ editsRead \in 0 .. edits
    /\ userFile \in {Missing, Broken} \/ userFile.kind = "json"
    /\ userFile.secret \in Nat /\ UsersOK(userFile.users)
    /\ \A t \in tokens : t.secret \in Nat \ {0}
    /\ \A t \in tokens : t = [user |-> t.user, secret |-> t.secret, intact |-> t.intact]

MemoryInv ==
    store # NoData =>
        /\ store.secret \in Nat \ {0}
        /\ UsersOK(store.users) /\ DOMAIN store.users # {}
        /\ \A u \in DOMAIN store.users : store.users[u].hashed
        /\ ~ spoilt => \A t \in tokens : t.intact => Honoured(t, store)

FileInv ==
    /\ saving # NoData => saving = store /\ store # NoData
    /\ userFile = Broken => spoilt \/ saving # NoData
    /\ ~ spoilt /\ userFile # Broken => \A t \in tokens : t.intact => Honoured(t, userFile)
    /\ ProcessUp /\ edits = editsRead => userFile = Json(store)

StoreInv == StoreTypes /\ MemoryInv /\ FileInv

LEMMA RecordsOK ==
    /\ UsersOK(NoUsers) /\ DefaultRecord \in Records /\ DefaultRecord.hashed
    /\ Missing.secret = 0 /\ Broken.secret = 0 /\ NoData.secret = 0
    /\ Missing.users = NoUsers /\ Broken.users = NoUsers /\ DOMAIN NoUsers = {}
    /\ Missing.kind = "missing" /\ Broken.kind = "broken"
<1>1. QED
  BY DEF UsersOK, NoUsers, DefaultRecord, Records, DefaultPassword, Passwords, Missing, Broken, NoData

\* What the process makes of its file has a user, and hashed passwords only.
LEMMA MigratedOK ==
    ASSUME NEW users, UsersOK(users)
    PROVE  /\ UsersOK(Migrated(users)) /\ DOMAIN Migrated(users) # {}
           /\ \A u \in DOMAIN Migrated(users) : Migrated(users)[u].hashed
           /\ DOMAIN users # {} => DOMAIN Migrated(users) = DOMAIN users
<1>1. CASE DOMAIN users = {}
  <2>1. Migrated(users) = [u \in {DefaultUser} |-> DefaultRecord]
    BY <1>1 DEF Migrated, Seeded
  <2>2. QED BY <1>1, <2>1, RecordsOK DEF UsersOK
<1>2. CASE DOMAIN users # {}
  <2>1. Migrated(users) = [u \in DOMAIN users |-> [users[u] EXCEPT !.hashed = TRUE]]
    BY <1>2 DEF Migrated
  <2>2. ASSUME NEW u \in DOMAIN users
        PROVE  /\ [users[u] EXCEPT !.hashed = TRUE] \in Records
               /\ [users[u] EXCEPT !.hashed = TRUE].hashed
    <3>1. users[u] \in Records
      BY DEF UsersOK
    <3>2. QED BY <3>1 DEF Records
  <2>3. QED BY <1>2, <2>1, <2>2 DEF UsersOK
<1>3. QED BY <1>1, <1>2

LEMMA InitStoreInv == StoreInit => StoreInv
<1>1. QED
  BY RecordsOK DEF StoreInit, StoreInv, StoreTypes, MemoryInv, FileInv, ProcessUp

LEMMA NextStoreInv == StoreInv /\ [StoreNext]_storeVars => StoreInv'
<1> SUFFICES ASSUME StoreInv, [StoreNext]_storeVars PROVE StoreInv'
  OBVIOUS
<1>0. StoreTypes /\ MemoryInv /\ FileInv
  BY DEF StoreInv
<1>k. /\ userFile.kind \in {"missing", "broken"} => userFile \in {Missing, Broken}
      /\ userFile.kind = "json" => userFile # Broken /\ userFile # Missing
  BY <1>0, RecordsOK DEF StoreTypes
<1>1. CASE StartSeeds
  <2>1. /\ store = NoData /\ editsRead' = edits /\ secrets' = secrets + 1
        /\ store' = Seeded(secrets') /\ saving' = store'
        /\ userFile \in {Missing, Broken}
        /\ UNCHANGED <<userFile, edits, tokens, spoilt>>
    BY <1>1, <1>k DEF StartSeeds
  <2>2. /\ store'.secret = secrets + 1 /\ store'.users = [u \in {DefaultUser} |-> DefaultRecord]
        /\ store' # NoData
    <3>1. store' = [secret |-> secrets + 1, users |-> [u \in {DefaultUser} |-> DefaultRecord]]
      BY <2>1 DEF Seeded
    <3>2. secrets + 1 # 0
      BY <1>0 DEF StoreTypes
    <3>3. QED BY <3>1, <3>2, RecordsOK
  <2>3. ~ spoilt => \A t \in tokens : ~ t.intact
    BY <1>0, <2>1, RecordsOK DEF FileInv, Honoured
  <2>4. StoreTypes'
    BY <1>0, <2>1 DEF StoreTypes
  <2>5. MemoryInv'
    <3>1. /\ DOMAIN store'.users = {DefaultUser}
          /\ \A u \in DOMAIN store'.users : store'.users[u] = DefaultRecord
      BY <2>2
    <3>2. UsersOK(store'.users) /\ \A u \in DOMAIN store'.users : store'.users[u].hashed
      BY <3>1, RecordsOK DEF UsersOK
    <3>3. store'.secret \in Nat \ {0}
      BY <1>0, <2>2 DEF StoreTypes
    <3>4. QED BY <2>1, <2>3, <3>1, <3>2, <3>3 DEF MemoryInv
  <2>6. FileInv'
    BY <1>0, <2>1, <2>2 DEF FileInv, ProcessUp
  <2>7. QED BY <2>4, <2>5, <2>6 DEF StoreInv
<1>2. CASE StartLoads
  <2> DEFINE secret == IF userFile.secret = 0 THEN secrets' ELSE userFile.secret
             data == [secret |-> secret, users |-> Migrated(userFile.users)]
  <2>1. /\ store = NoData /\ userFile.kind = "json" /\ editsRead' = edits
        /\ secrets' = IF userFile.secret = 0 THEN secrets + 1 ELSE secrets
        /\ store' = data
        /\ saving' = IF Json(data) # userFile THEN data ELSE NoData
        /\ UNCHANGED <<userFile, edits, tokens, spoilt>>
    BY <1>2 DEF StartLoads
  <2>2. secret \in Nat \ {0} /\ secrets' \in Nat
    BY <1>0, <2>1 DEF StoreTypes
  <2>3. data.secret = secret /\ data.users = Migrated(userFile.users) /\ data # NoData
    BY <2>2, RecordsOK
  <2> HIDE DEF data
  <2>4. UsersOK(userFile.users)
    BY <1>0 DEF StoreTypes
  <2>5. /\ UsersOK(data.users) /\ DOMAIN data.users # {}
        /\ \A u \in DOMAIN data.users : data.users[u].hashed
        /\ DOMAIN userFile.users # {} => DOMAIN data.users = DOMAIN userFile.users
    BY <2>3, <2>4, MigratedOK
  <2>6. ~ spoilt => \A t \in tokens : t.intact => Honoured(t, data)
    <3> SUFFICES ASSUME ~ spoilt, NEW t \in tokens, t.intact PROVE Honoured(t, data)
      OBVIOUS
    <3>1. Honoured(t, userFile) /\ t.secret # 0
      BY <1>0, <1>k, <2>1 DEF FileInv, StoreTypes
    <3>2. QED BY <2>3, <2>5, <3>1 DEF Honoured
  <2> HIDE DEF secret
  <2>7. StoreTypes'
    BY <1>0, <2>1, <2>2 DEF StoreTypes
  <2>8. MemoryInv'
    BY <2>1, <2>2, <2>3, <2>5, <2>6 DEF MemoryInv
  <2>9. FileInv'
    BY <1>0, <1>k, <2>1, <2>3 DEF FileInv, ProcessUp
  <2>10. QED BY <2>7, <2>8, <2>9 DEF StoreInv
<1>3. CASE SaveTruncates
  <2>1. /\ saving # NoData /\ userFile' = Broken
        /\ UNCHANGED <<store, saving, secrets, starts, edits, editsRead, tokens, spoilt>>
    BY <1>3 DEF SaveTruncates
  <2>2. StoreTypes'
    BY <1>0, <2>1, RecordsOK DEF StoreTypes
  <2>3. MemoryInv' /\ FileInv'
    BY <1>0, <2>1 DEF MemoryInv, FileInv, ProcessUp
  <2>4. QED BY <2>2, <2>3 DEF StoreInv
<1>4. CASE SaveWrites
  <2>1. /\ saving # NoData /\ saving = store /\ store # NoData
        /\ userFile' = Json(store) /\ saving' = NoData
        /\ UNCHANGED <<store, secrets, starts, edits, editsRead, tokens, spoilt>>
    BY <1>0, <1>4 DEF SaveWrites, FileInv
  <2>2. /\ userFile'.kind = "json" /\ userFile'.secret = store.secret
        /\ userFile'.users = store.users
    BY <2>1 DEF Json
  <2>3. StoreTypes'
    BY <1>0, <2>1, <2>2 DEF StoreTypes, MemoryInv
  <2>4. MemoryInv'
    BY <1>0, <2>1 DEF MemoryInv
  <2>5. FileInv'
    BY <1>0, <2>1, <2>2, RecordsOK DEF FileInv, MemoryInv, Honoured
  <2>6. QED BY <2>3, <2>4, <2>5 DEF StoreInv
<1>5. CASE ProcessEnds
  <2>1. /\ store' = NoData /\ saving' = NoData /\ spoilt' = (spoilt \/ userFile = Broken)
        /\ UNCHANGED <<userFile, secrets, starts, edits, editsRead, tokens>>
    BY <1>5 DEF ProcessEnds
  <2>2. StoreTypes' /\ MemoryInv' /\ FileInv'
    BY <1>0, <2>1 DEF StoreTypes, MemoryInv, FileInv, ProcessUp
  <2>3. QED BY <2>2 DEF StoreInv
<1>6. CASE SpoilFile
  <2>1. /\ saving = NoData /\ edits' = edits + 1
        /\ userFile' \in {Missing, Broken} /\ spoilt' = TRUE
        /\ UNCHANGED <<store, saving, secrets, starts, editsRead, tokens>>
    BY <1>6 DEF SpoilFile, EditByHand
  <2>2. StoreTypes'
    BY <1>0, <2>1, RecordsOK DEF StoreTypes
  <2>3. MemoryInv' /\ FileInv'
    BY <1>0, <2>1 DEF MemoryInv, FileInv, StoreTypes
  <2>4. QED BY <2>2, <2>3 DEF StoreInv
<1>7. CASE EditUsers
  <2> DEFINE old == IF userFile.kind = "json" THEN userFile ELSE Json(NoData)
  <2>1. PICK some \in SUBSET Users, p \in Passwords, kept \in BOOLEAN :
          /\ userFile' = Json([secret |-> IF kept THEN old.secret ELSE 0,
                               users |-> [u \in some |->
                                 IF u \in DOMAIN old.users THEN old.users[u]
                                 ELSE [password |-> p, hashed |-> FALSE]]])
          /\ tokens' = {[t EXCEPT !.intact = @ /\ kept /\ t.user \in some] : t \in tokens}
    BY <1>7 DEF EditUsers
  <2>2. /\ saving = NoData /\ edits' = edits + 1
        /\ UNCHANGED <<store, saving, secrets, starts, editsRead, spoilt>>
    BY <1>7 DEF EditUsers, EditByHand
  <2>3. /\ userFile'.kind = "json" /\ userFile'.secret = IF kept THEN old.secret ELSE 0
        /\ userFile'.users = [u \in some |-> IF u \in DOMAIN old.users THEN old.users[u]
                                             ELSE [password |-> p, hashed |-> FALSE]]
        /\ DOMAIN userFile'.users = some
    BY <2>1 DEF Json
  <2>4. /\ UsersOK(old.users) /\ old.secret \in Nat
        /\ userFile.kind = "json" => old = userFile
    BY <1>0, RecordsOK DEF StoreTypes, Json, NoData
  <2> HIDE DEF old
  <2>5. [password |-> p, hashed |-> FALSE] \in Records
    BY DEF Records
  <2>6. UsersOK(userFile'.users)
    BY <2>3, <2>4, <2>5 DEF UsersOK
  <2>7. ASSUME NEW s \in tokens'
        PROVE  \E t \in tokens : /\ s.user = t.user /\ s.secret = t.secret
                                 /\ s = [user |-> s.user, secret |-> s.secret, intact |-> s.intact]
                                 /\ s.intact => t.intact /\ kept /\ t.user \in some
    <3>1. PICK t \in tokens : s = [t EXCEPT !.intact = @ /\ kept /\ t.user \in some]
      BY <2>1
    <3>2. t = [user |-> t.user, secret |-> t.secret, intact |-> t.intact]
      BY <1>0 DEF StoreTypes
    <3>3. s = [user |-> t.user, secret |-> t.secret,
               intact |-> t.intact /\ kept /\ t.user \in some]
      BY <3>1, <3>2
    <3>4. QED BY <3>3
  <2>8. StoreTypes'
    BY <1>0, <2>2, <2>3, <2>4, <2>6, <2>7 DEF StoreTypes
  <2>9. MemoryInv'
    BY <1>0, <2>2, <2>7 DEF MemoryInv, Honoured
  <2>10. userFile.kind = "json" /\ userFile # Broken => old = userFile
    BY <2>4
  <2>11. ~ spoilt => \A s \in tokens' : s.intact => Honoured(s, userFile')
    <3> SUFFICES ASSUME ~ spoilt, NEW s \in tokens', s.intact PROVE Honoured(s, userFile')
      OBVIOUS
    <3>1. PICK t \in tokens : /\ s.user = t.user /\ s.secret = t.secret
                              /\ t.intact /\ kept /\ t.user \in some
      BY <2>7
    <3>2. userFile # Broken
      BY <1>0, <2>2 DEF FileInv
    <3>3. Honoured(t, userFile) /\ t.secret # 0
      BY <1>0, <3>1, <3>2 DEF FileInv, StoreTypes
    <3>4. userFile # Missing
      BY <3>3, RecordsOK DEF Honoured
    <3>5. userFile.kind = "json"
      BY <1>0, <3>2, <3>4 DEF StoreTypes
    <3>6. QED BY <2>3, <2>4, <3>1, <3>3, <3>5 DEF Honoured
  <2>12. userFile' # Broken /\ edits' # editsRead'
    BY <1>0, <2>2, <2>3, RecordsOK DEF StoreTypes
  <2>13. FileInv'
    BY <1>0, <2>2, <2>11, <2>12 DEF FileInv
  <2>14. QED BY <2>8, <2>9, <2>13 DEF StoreInv
<1>8. ASSUME NEW u \in Users, NEW p \in Passwords, Login(u, p) PROVE StoreInv'
  <2> DEFINE session == [user |-> u, secret |-> store.secret, intact |-> edits = editsRead]
  <2>1. /\ ProcessUp /\ u \in DOMAIN store.users /\ tokens' = tokens \cup {session}
        /\ UNCHANGED <<userFile, store, saving, secrets, starts, edits, editsRead, spoilt>>
    BY <1>8 DEF Login, Verifies
  <2>2. session.user = u /\ session.secret = store.secret /\ session.intact = (edits = editsRead)
        /\ session = [user |-> session.user, secret |-> session.secret, intact |-> session.intact]
    OBVIOUS
  <2> HIDE DEF session
  <2>3. store.secret \in Nat \ {0} /\ store # NoData
    BY <1>0, <2>1 DEF MemoryInv, ProcessUp
  <2>4. StoreTypes'
    BY <1>0, <2>1, <2>2, <2>3 DEF StoreTypes
  <2>5. Honoured(session, store)
    BY <2>1, <2>2 DEF Honoured
  <2>6. session.intact => Honoured(session, userFile)
    <3>1. Json(store).secret = store.secret /\ Json(store).users = store.users
      BY DEF Json
    <3>2. session.intact => userFile = Json(store)
      BY <1>0, <2>1, <2>2 DEF FileInv
    <3>3. QED BY <2>5, <3>1, <3>2 DEF Honoured
  <2>7. MemoryInv' /\ FileInv'
    BY <1>0, <2>1, <2>5, <2>6 DEF MemoryInv, FileInv, ProcessUp
  <2>8. QED BY <2>4, <2>7 DEF StoreInv
<1>9. CASE UNCHANGED storeVars
  BY <1>0, <1>9 DEF storeVars, StoreInv, StoreTypes, MemoryInv, FileInv, ProcessUp
<1>10. QED BY <1>1, <1>2, <1>3, <1>4, <1>5, <1>6, <1>7, <1>8, <1>9 DEF StoreNext

\* users.py: sessions go on through restarts, migrations and edits that leave their
\* user and the secret alone; there is a user always, and no password in plain text.
THEOREM SessionsGoOn == StoreSpec => []SessionsSurvive
<1>1. StoreInv => SessionsSurvive
  BY DEF StoreInv, StoreTypes, MemoryInv, FileInv, SessionsSurvive, ProcessUp, Accepted, Honoured
<1>2. QED BY <1>1, InitStoreInv, NextStoreInv, PTL DEF StoreSpec

-----------------------------------------------------------------------------
(* The live feeds.  What a browser has been sent and what waits in its     *)
(* queue are, in order, events since it subscribed.                        *)

LEMMA AppendToRight ==
    ASSUME NEW d \in Seq(Nat), NEW q \in Seq(Nat), NEW r \in Nat
    PROVE  d \o Append(q, r) = Append(d \o q, r)
<1>1. <<r>> \in Seq(Nat) /\ d \o q \in Seq(Nat)
  BY ConcatProperties
<1>2. Append(q, r) = q \o <<r>> /\ Append(d \o q, r) = (d \o q) \o <<r>>
  BY <1>1, AppendIsConcat
<1>3. QED BY <1>1, <1>2, ConcatAssociative

LEMMA MoveHead ==
    ASSUME NEW d \in Seq(Nat), NEW q \in Seq(Nat), q # <<>>
    PROVE  /\ Append(d, Head(q)) \o Tail(q) = d \o q
           /\ Append(d, Head(q)) \in Seq(Nat) /\ Tail(q) \in Seq(Nat)
<1> DEFINE h == Head(q)
           t == Tail(q)
           e == Append(d, h)
<1>1. /\ h = q[1] /\ h \in Nat /\ t \in Seq(Nat) /\ Len(q) \in Nat \ {0} /\ Len(t) = Len(q) - 1
      /\ \A i \in 1 .. Len(t) : t[i] = q[i + 1]
  BY HeadTailProperties, EmptySeq
<1> HIDE DEF h, t
<1>2. /\ e \in Seq(Nat) /\ Len(d) \in Nat /\ Len(e) = Len(d) + 1
      /\ \A i \in 1 .. Len(d) : e[i] = d[i]
      /\ e[Len(d) + 1] = h
  BY <1>1, AppendProperties, LenProperties
<1> HIDE DEF e
<1>3. /\ e \o t \in Seq(Nat) /\ Len(e \o t) = Len(e) + Len(t)
      /\ \A i \in 1 .. Len(e) + Len(t) : (e \o t)[i] = IF i <= Len(e) THEN e[i] ELSE t[i - Len(e)]
  <2>1. e \in Seq(Nat) /\ t \in Seq(Nat)
    BY <1>1, <1>2
  <2>2. QED BY <2>1, ConcatProperties
<1>4. /\ d \o q \in Seq(Nat) /\ Len(d \o q) = Len(d) + Len(q)
      /\ \A i \in 1 .. Len(d) + Len(q) : (d \o q)[i] = IF i <= Len(d) THEN d[i] ELSE q[i - Len(d)]
  BY ConcatProperties
<1>5. Len(e \o t) = Len(d \o q)
  BY <1>1, <1>2, <1>3, <1>4
<1>6. ASSUME NEW i \in 1 .. Len(e \o t) PROVE (e \o t)[i] = (d \o q)[i]
  <2>1. i \in 1 .. Len(d) + Len(q) /\ i \in 1 .. Len(e) + Len(t)
    BY <1>1, <1>2, <1>3
  <2>2. CASE i <= Len(d)
    BY <1>2, <1>3, <1>4, <2>1, <2>2
  <2>3. CASE i = Len(d) + 1
    <3>1. i <= Len(e) /\ ~ (i <= Len(d)) /\ i - Len(d) = 1
      BY <1>2, <2>3
    <3>2. (e \o t)[i] = h /\ (d \o q)[i] = q[i - Len(d)]
      BY <1>2, <1>3, <1>4, <2>1, <2>3, <3>1
    <3>3. QED BY <1>1, <3>1, <3>2
  <2>4. CASE i > Len(d) + 1
    <3>1. (e \o t)[i] = t[i - Len(e)] /\ (d \o q)[i] = q[i - Len(d)]
      <4>1. ~ (i <= Len(d)) /\ ~ (i <= Len(e))
        BY <1>2, <2>1, <2>4
      <4>2. QED BY <1>3, <1>4, <2>1, <4>1
    <3>2. i - Len(e) \in 1 .. Len(t)
      BY <1>1, <1>2, <2>1, <2>4
    <3>3. (i - Len(e)) + 1 = i - Len(d)
      BY <1>2, <2>1
    <3>4. t[i - Len(e)] = q[(i - Len(e)) + 1]
      BY <1>1, <3>2
    <3>5. t[i - Len(e)] = q[i - Len(d)]
      BY <3>3, <3>4
    <3>6. QED BY <3>1, <3>5
  <2>5. i <= Len(d) \/ i = Len(d) + 1 \/ i > Len(d) + 1
    <3>1. i \in Nat /\ Len(d) \in Nat
      BY <1>2, <2>1
    <3>2. QED BY <3>1
  <2>6. QED BY <2>2, <2>3, <2>4, <2>5
<1>7. e \o t = d \o q
  BY <1>3, <1>4, <1>5, <1>6, SeqEqual
<1>8. QED BY <1>1, <1>2, <1>7 DEF e, h, t

LEMMA LongerSuffix ==
    ASSUME NEW q \in Seq(Nat), NEW r \in Nat, NEW k \in 0 .. Len(q)
    PROVE  /\ SubSeq(q, k + 1, Len(q)) \in Seq(Nat)
           /\ \A i \in 1 .. Len(SubSeq(q, k + 1, Len(q))) :
                \E j \in 1 .. Len(q) : SubSeq(q, k + 1, Len(q))[i] = q[j]
           /\ SubSeq(Append(q, r), k + 1, Len(q) + 1) = Append(SubSeq(q, k + 1, Len(q)), r)
<1> DEFINE longer == Append(q, r)
           n == Len(q)
           old == SubSeq(q, k + 1, n)
           new == SubSeq(longer, k + 1, n + 1)
<1>1. /\ n \in Nat /\ \A i \in 1 .. n : q[i] \in Nat
      /\ longer \in Seq(Nat) /\ Len(longer) = n + 1
      /\ \A i \in 1 .. n : longer[i] = q[i]
      /\ longer[n + 1] = r
  BY AppendProperties, LenProperties
<1> HIDE DEF longer, n
<1>2. k \in Nat /\ k <= n
  BY <1>1 DEF n
<1>3. /\ old \in Seq(Nat) /\ Len(old) = n - k
      /\ \A i \in 1 .. n - k : old[i] = q[k + i]
  <2>1. \A i \in k + 1 .. n : q[i] \in Nat
    <3> SUFFICES ASSUME NEW i \in k + 1 .. n PROVE q[i] \in Nat
      OBVIOUS
    <3>1. i \in 1 .. n
      BY <1>1, <1>2
    <3>2. QED BY <1>1, <3>1
  <2>2. /\ old \in Seq(Nat) /\ Len(old) = IF k + 1 <= n THEN n - (k + 1) + 1 ELSE 0
        /\ \A i \in 1 .. n - (k + 1) + 1 : old[i] = q[(k + 1) + i - 1]
    <3>1. k + 1 \in Int /\ n \in Int
      BY <1>1, <1>2
    <3>2. QED BY <2>1, <3>1, SubSeqProperties
  <2> HIDE DEF old
  <2>3. QED BY <1>1, <1>2, <2>2
<1>4. /\ new \in Seq(Nat) /\ Len(new) = n - k + 1
      /\ \A i \in 1 .. n - k + 1 : new[i] = longer[k + i]
  <2>1. \A i \in k + 1 .. n + 1 : longer[i] \in Nat
    BY <1>1, <1>2, ElementOfSeq
  <2>2. /\ new \in Seq(Nat) /\ Len(new) = IF k + 1 <= n + 1 THEN (n + 1) - (k + 1) + 1 ELSE 0
        /\ \A i \in 1 .. (n + 1) - (k + 1) + 1 : new[i] = longer[(k + 1) + i - 1]
    <3>1. k + 1 \in Int /\ n + 1 \in Int
      BY <1>1, <1>2
    <3>2. QED BY <2>1, <3>1, SubSeqProperties
  <2> HIDE DEF new
  <2>3. QED BY <1>1, <1>2, <2>2
<1> HIDE DEF old, new
<1>5. /\ Append(old, r) \in Seq(Nat) /\ Len(Append(old, r)) = n - k + 1
      /\ \A i \in 1 .. n - k : Append(old, r)[i] = old[i]
      /\ Append(old, r)[n - k + 1] = r
  BY <1>3, AppendProperties
<1>6. ASSUME NEW i \in 1 .. Len(new) PROVE new[i] = Append(old, r)[i]
  <2>1. i \in Nat /\ (i \in 1 .. n - k \/ i = n - k + 1)
    BY <1>1, <1>2, <1>4
  <2>2. CASE i \in 1 .. n - k
    <3>1. k + i \in 1 .. n
      BY <1>1, <1>2, <2>2
    <3>2. QED BY <1>1, <1>3, <1>4, <1>5, <2>2, <3>1
  <2>3. CASE i = n - k + 1
    <3>1. k + i = n + 1
      BY <1>1, <1>2, <2>3
    <3>2. QED BY <1>1, <1>4, <1>5, <2>3, <3>1
  <2>4. QED BY <2>1, <2>2, <2>3
<1>7. new = Append(old, r)
  BY <1>4, <1>5, <1>6, SeqEqual
<1>8. \A i \in 1 .. Len(old) : \E j \in 1 .. n : old[i] = q[j]
  BY <1>1, <1>2, <1>3
<1>9. QED BY <1>3, <1>7, <1>8 DEF old, new, longer, n

Got(f) == delivered[f] \o queues[f]
Sent(f) == SubSeq(events, since[f] + 1, Len(events))

\* What one feed got, of what was sent: all of it if it was never slow.
Served(got, sent, all) ==
    /\ all => got = sent
    /\ \A i, j \in DOMAIN got : i < j => got[i] < got[j]
    /\ \A i \in DOMAIN got : Contains(sent, got[i])

\* A younger event than any before is sent, and got or missed.
LEMMA ServedNext ==
    ASSUME NEW got \in Seq(Nat), NEW sent \in Seq(Nat), NEW r \in Nat, NEW all \in BOOLEAN,
           Served(got, sent, all), \A i \in 1 .. Len(sent) : sent[i] < r
    PROVE  /\ Served(Append(got, r), Append(sent, r), all)
           /\ Served(got, Append(sent, r), FALSE)
<1> DEFINE more == Append(got, r)
           later == Append(sent, r)
<1>1. /\ more \in Seq(Nat) /\ Len(got) \in Nat /\ Len(more) = Len(got) + 1
      /\ \A i \in 1 .. Len(got) : more[i] = got[i]
      /\ more[Len(got) + 1] = r
      /\ DOMAIN got = 1 .. Len(got) /\ DOMAIN more = 1 .. Len(got) + 1
  BY AppendProperties, LenProperties
<1>2. /\ later \in Seq(Nat) /\ Len(sent) \in Nat /\ Len(later) = Len(sent) + 1
      /\ \A i \in 1 .. Len(sent) : later[i] = sent[i]
      /\ later[Len(sent) + 1] = r
  BY AppendProperties, LenProperties
<1>3. all => more = later
  BY DEF Served
<1> HIDE DEF more, later
<1>4. \A i \in DOMAIN got : got[i] < r /\ got[i] \in Nat
  <2>1. \A i \in DOMAIN got : got[i] \in Nat /\ \E j \in 1 .. Len(sent) : sent[j] = got[i]
    BY <1>1, ElementOfSeq DEF Served, Contains
  <2>2. QED BY <2>1
<1>5. \A i \in DOMAIN got : Contains(later, got[i])
  <2>1. \A i \in DOMAIN got : \E j \in 1 .. Len(sent) : sent[j] = got[i]
    BY DEF Served, Contains
  <2>2. \A i \in 1 .. Len(sent) : i \in 1 .. Len(later)
    BY <1>2
  <2>3. QED BY <1>2, <2>1, <2>2 DEF Contains
<1>6. Served(got, later, FALSE)
  BY <1>5 DEF Served
<1>7. Contains(later, r)
  <2>1. Len(sent) + 1 \in 1 .. Len(later)
    BY <1>2
  <2>2. QED BY <1>2, <2>1 DEF Contains
<1>8. \A i \in DOMAIN more : Contains(later, more[i])
  <2> SUFFICES ASSUME NEW i \in DOMAIN more PROVE Contains(later, more[i])
    OBVIOUS
  <2>1. CASE i \in DOMAIN got
    BY <1>1, <1>5, <2>1
  <2>2. CASE i = Len(got) + 1
    BY <1>1, <1>7, <2>2
  <2>3. QED BY <1>1, <2>1, <2>2
<1>9. ASSUME NEW i \in DOMAIN more, NEW j \in DOMAIN more, i < j PROVE more[i] < more[j]
  <2>1. i \in DOMAIN got /\ more[i] = got[i]
    BY <1>1, <1>9
  <2>2. CASE j \in DOMAIN got
    BY <1>1, <1>9, <2>1, <2>2 DEF Served
  <2>3. CASE j = Len(got) + 1
    BY <1>1, <1>4, <2>1, <2>3
  <2>4. QED BY <1>1, <2>2, <2>3
<1>10. Served(more, later, all)
  BY <1>3, <1>8, <1>9 DEF Served
<1>11. QED BY <1>6, <1>10 DEF more, later

MonitoringTypes ==
    /\ records \in Nat /\ recording \in [of : Nat, at : {"none", "audit", "emit"}]
    /\ events \in Seq(Nat)
    /\ queues \in [Feeds -> Seq(Nat)] /\ delivered \in [Feeds -> Seq(Nat)]
    /\ since \in [Feeds -> Nat] /\ subscribers \subseteq Feeds

\* Events are numbered in the order of their records; the one under way is younger.
EventsInv ==
    /\ \A i \in 1 .. Len(events) : events[i] <= records
    /\ recording # Quiet => /\ recording.of = records
                            /\ \A i \in 1 .. Len(events) : events[i] < records

FeedsInv ==
    \A f \in subscribers : since[f] <= Len(events) /\ Served(Got(f), Sent(f), f \notin slow)

MonitoringInv == MonitoringTypes /\ EventsInv /\ FeedsInv

LEMMA InitMonitoringInv == MonitoringInit => MonitoringInv
<1> SUFFICES ASSUME MonitoringInit PROVE MonitoringInv
  OBVIOUS
<1>1. events = <<>> /\ Len(events) = 0 /\ events \in Seq(Nat) /\ recording = Quiet
  BY DEF MonitoringInit
<1>2. QED
  BY <1>1 DEF MonitoringInit, MonitoringInv, MonitoringTypes, EventsInv, FeedsInv, Quiet

LEMMA GotTypes ==
    ASSUME MonitoringTypes, NEW f \in Feeds, since[f] <= Len(events)
    PROVE  /\ Got(f) \in Seq(Nat) /\ Sent(f) \in Seq(Nat)
           /\ delivered[f] \in Seq(Nat) /\ queues[f] \in Seq(Nat) /\ since[f] \in 0 .. Len(events)
           /\ \A i \in 1 .. Len(Sent(f)) : \E j \in 1 .. Len(events) : Sent(f)[i] = events[j]
<1>1. /\ delivered[f] \in Seq(Nat) /\ queues[f] \in Seq(Nat) /\ since[f] \in 0 .. Len(events)
  BY LenProperties DEF MonitoringTypes
<1>2. events \in Seq(Nat) /\ 0 \in Nat
  BY DEF MonitoringTypes
<1>3. QED BY <1>1, <1>2, ConcatProperties, LongerSuffix DEF Got, Sent

\* Neither events nor feeds change.
LEMMA FeedsStay ==
    ASSUME MonitoringInv, UNCHANGED <<events, feedVars>>
    PROVE  FeedsInv'
<1>1. QED BY DEF MonitoringInv, FeedsInv, feedVars, Got, Sent

LEMMA NextMonitoringInv ==
    MonitoringInv /\ [MonitoringNext]_monitoringVars => MonitoringInv'
<1> SUFFICES ASSUME MonitoringInv, [MonitoringNext]_monitoringVars PROVE MonitoringInv'
  OBVIOUS
<1>0. MonitoringTypes /\ EventsInv /\ FeedsInv
  BY DEF MonitoringInv
<1>t. Len(events) \in Nat /\ \A i \in 1 .. Len(events) : events[i] \in Nat
  BY <1>0, LenProperties DEF MonitoringTypes
<1>1. CASE RecordAccepted \/ RecordDropped
  <2>1. /\ recording = Quiet /\ records' = records + 1 /\ UNCHANGED <<events, feedVars>>
        /\ recording' = [of |-> records + 1, at |-> "audit"] \/ recording' = recording
    BY <1>1 DEF RecordAccepted, RecordDropped, RecordStarts
  <2>2. MonitoringTypes'
    BY <1>0, <2>1 DEF MonitoringTypes, feedVars
  <2>3. EventsInv'
    BY <1>0, <1>t, <2>1 DEF EventsInv, MonitoringTypes
  <2>4. QED BY <2>1, <2>2, <2>3, FeedsStay DEF MonitoringInv
<1>2. CASE RecordAudit
  <2>1. /\ recording.at = "audit" /\ recording' = [recording EXCEPT !.at = "emit"]
        /\ UNCHANGED <<records, events, feedVars>>
    BY <1>2 DEF RecordAudit
  <2>2. recording' \in [of : Nat, at : {"none", "audit", "emit"}] /\ recording'.of = recording.of
    BY <1>0, <2>1 DEF MonitoringTypes
  <2>3. recording # Quiet
    BY <2>1 DEF Quiet
  <2>4. MonitoringTypes'
    BY <1>0, <2>1, <2>2 DEF MonitoringTypes, feedVars
  <2>5. EventsInv'
    BY <1>0, <2>1, <2>2, <2>3 DEF EventsInv
  <2>6. QED BY <2>1, <2>4, <2>5, FeedsStay DEF MonitoringInv
<1>3. CASE Emit
  <2> DEFINE r == recording.of
  <2>1. /\ recording.at = "emit" /\ recording' = Quiet /\ events' = Append(events, r)
        /\ slow' = slow \cup {f \in subscribers : Full(f)}
        /\ queues' = [f \in Feeds |-> IF f \in subscribers /\ ~ Full(f)
                                      THEN Append(queues[f], r) ELSE queues[f]]
        /\ UNCHANGED <<records, subscribers, delivered, since>>
    BY <1>3 DEF Emit
  <2>2. /\ r \in Nat /\ r = records /\ \A i \in 1 .. Len(events) : events[i] < r
    BY <1>0, <2>1 DEF EventsInv, MonitoringTypes, Quiet
  <2> HIDE DEF r
  <2>3. /\ events' \in Seq(Nat) /\ Len(events') = Len(events) + 1
        /\ \A i \in 1 .. Len(events) : events'[i] = events[i]
        /\ events'[Len(events) + 1] = r
    BY <1>0, <2>1, <2>2, AppendProperties DEF MonitoringTypes
  <2>4. \A f \in Feeds : queues'[f] \in Seq(Nat)
    BY <1>0, <2>1, <2>2, AppendProperties DEF MonitoringTypes
  <2>5. MonitoringTypes'
    <3>1. queues' \in [Feeds -> Seq(Nat)]
      BY <2>1, <2>4
    <3>2. QED BY <1>0, <2>1, <2>3, <3>1 DEF MonitoringTypes, Quiet
  <2>6. EventsInv'
    BY <1>t, <2>1, <2>2, <2>3 DEF EventsInv
  <2>7. ASSUME NEW f \in subscribers
        PROVE  since[f] <= Len(events') /\ Served(Got(f)', Sent(f)', f \notin slow')
    <3>1. f \in Feeds /\ since[f] <= Len(events) /\ Served(Got(f), Sent(f), f \notin slow)
      BY <1>0 DEF MonitoringTypes, FeedsInv
    <3>2. /\ Got(f) \in Seq(Nat) /\ Sent(f) \in Seq(Nat) /\ since[f] \in 0 .. Len(events)
          /\ delivered[f] \in Seq(Nat) /\ queues[f] \in Seq(Nat)
          /\ \A i \in 1 .. Len(Sent(f)) : \E j \in 1 .. Len(events) : Sent(f)[i] = events[j]
      BY <1>0, <3>1, GotTypes
    <3>3. Sent(f)' = Append(Sent(f), r)
      <4>1. Sent(f)' = SubSeq(Append(events, r), since[f] + 1, Len(events) + 1)
        BY <2>1, <2>3 DEF Sent
      <4>2. events \in Seq(Nat)
        BY <1>0 DEF MonitoringTypes
      <4>3. SubSeq(Append(events, r), since[f] + 1, Len(events) + 1)
              = Append(SubSeq(events, since[f] + 1, Len(events)), r)
        BY <2>2, <3>2, <4>2, LongerSuffix
      <4>4. QED BY <4>1, <4>3 DEF Sent
    <3>4. \A i \in 1 .. Len(Sent(f)) : Sent(f)[i] < r
      BY <2>2, <3>2
    <3>5. since[f] <= Len(events')
      BY <1>t, <2>3, <3>2
    <3>6. CASE Full(f)
      <4>1. Got(f)' = Got(f) /\ f \in slow'
        BY <2>1, <3>1, <3>6 DEF Got
      <4>2. (f \notin slow') = FALSE
        BY <4>1
      <4>3. (f \notin slow) \in BOOLEAN
        OBVIOUS
      <4>4. Served(Got(f), Append(Sent(f), r), FALSE)
        BY <2>2, <3>1, <3>2, <3>4, <4>3, ServedNext
      <4>5. QED BY <3>3, <3>5, <4>1, <4>2, <4>4
    <3>7. CASE ~ Full(f)
      <4>1. queues'[f] = Append(queues[f], r) /\ (f \notin slow' <=> f \notin slow)
        BY <2>1, <3>1, <3>7
      <4>2. Got(f)' = Append(Got(f), r)
        <5>1. Got(f)' = delivered[f] \o Append(queues[f], r)
          BY <2>1, <4>1 DEF Got
        <5>2. delivered[f] \o Append(queues[f], r) = Append(delivered[f] \o queues[f], r)
          BY <2>2, <3>2, AppendToRight
        <5>3. QED BY <5>1, <5>2 DEF Got
      <4>3. (f \notin slow) \in BOOLEAN
        OBVIOUS
      <4>4. Served(Append(Got(f), r), Append(Sent(f), r), f \notin slow)
        BY <2>2, <3>1, <3>2, <3>4, <4>3, ServedNext
      <4>5. Served(Got(f)', Sent(f)', f \notin slow)
        BY <3>3, <4>2, <4>4
      <4>6. QED BY <3>5, <4>1, <4>5 DEF Served
    <3>8. QED BY <3>6, <3>7
  <2>8. FeedsInv'
    BY <2>1, <2>7 DEF FeedsInv
  <2>9. QED BY <2>5, <2>6, <2>8 DEF MonitoringInv
<1>4. ASSUME NEW f \in Feeds, Subscribe(f) PROVE MonitoringInv'
  <2>1. /\ subscribers' = subscribers \cup {f} /\ queues' = [queues EXCEPT ![f] = <<>>]
        /\ delivered' = [delivered EXCEPT ![f] = <<>>]
        /\ since' = [since EXCEPT ![f] = Len(events)]
        /\ slow' = slow \ {f} /\ UNCHANGED bufferVars
    BY <1>4 DEF Subscribe
  <2>2. <<>> \in Seq(Nat)
    BY EmptySeq
  <2>3. MonitoringTypes'
    BY <1>0, <1>t, <2>1, <2>2 DEF MonitoringTypes, bufferVars
  <2>4. EventsInv'
    BY <1>0, <2>1 DEF EventsInv, bufferVars
  <2>5. ASSUME NEW g \in subscribers'
        PROVE  since'[g] <= Len(events') /\ Served(Got(g)', Sent(g)', g \notin slow')
    <3>1. CASE g = f
      <4>1. since'[g] = Len(events) /\ events' = events /\ delivered'[g] = <<>> /\ queues'[g] = <<>>
        BY <1>0, <2>1, <3>1 DEF MonitoringTypes, bufferVars
      <4>2. Got(g)' = <<>>
        BY <2>2, <4>1, ConcatEmptySeq DEF Got
      <4>3. Sent(g)' = <<>>
        BY <1>t, <4>1, SubSeqEmpty DEF Sent
      <4>4. DOMAIN Got(g)' = {}
        BY <4>2
      <4>5. QED BY <1>t, <4>1, <4>2, <4>3, <4>4 DEF Served
    <3>2. CASE g # f
      <4>1. /\ g \in subscribers /\ events' = events /\ since'[g] = since[g]
            /\ delivered'[g] = delivered[g] /\ queues'[g] = queues[g]
            /\ (g \notin slow' <=> g \notin slow)
        BY <1>0, <2>1, <3>2 DEF MonitoringTypes, bufferVars
      <4>2. Got(g)' = Got(g) /\ Sent(g)' = Sent(g)
        BY <4>1 DEF Got, Sent
      <4>3. QED BY <1>0, <4>1, <4>2 DEF FeedsInv, Served
    <3>3. QED BY <3>1, <3>2
  <2>6. FeedsInv'
    BY <2>5 DEF FeedsInv
  <2>7. QED BY <2>3, <2>4, <2>6 DEF MonitoringInv
<1>5. ASSUME NEW f \in Feeds, Deliver(f) PROVE MonitoringInv'
  <2>1. /\ f \in subscribers /\ queues[f] # <<>>
        /\ delivered' = [delivered EXCEPT ![f] = Append(delivered[f], Head(queues[f]))]
        /\ queues' = [queues EXCEPT ![f] = Tail(queues[f])]
        /\ UNCHANGED <<bufferVars, subscribers, since, slow>>
    BY <1>5 DEF Deliver
  <2>2. delivered[f] \in Seq(Nat) /\ queues[f] \in Seq(Nat)
    BY <1>0 DEF MonitoringTypes
  <2>3. /\ Append(delivered[f], Head(queues[f])) \o Tail(queues[f]) = delivered[f] \o queues[f]
        /\ Append(delivered[f], Head(queues[f])) \in Seq(Nat) /\ Tail(queues[f]) \in Seq(Nat)
    BY <2>1, <2>2, MoveHead
  <2>4. MonitoringTypes'
    BY <1>0, <2>1, <2>3 DEF MonitoringTypes, bufferVars
  <2>5. EventsInv'
    BY <1>0, <2>1 DEF EventsInv, bufferVars
  <2>6. \A g \in Feeds : Got(g)' = Got(g) /\ Sent(g)' = Sent(g)
    BY <1>0, <2>1, <2>3 DEF MonitoringTypes, bufferVars, Got, Sent
  <2>7. FeedsInv'
    BY <1>0, <2>1, <2>6 DEF FeedsInv, MonitoringTypes, bufferVars
  <2>8. QED BY <2>4, <2>5, <2>7 DEF MonitoringInv
<1>6. ASSUME NEW f \in Feeds, Unsubscribe(f) PROVE MonitoringInv'
  <2>1. /\ subscribers' = subscribers \ {f}
        /\ UNCHANGED <<bufferVars, queues, delivered, since, slow>>
    BY <1>6 DEF Unsubscribe
  <2>2. MonitoringTypes' /\ EventsInv'
    BY <1>0, <2>1 DEF MonitoringTypes, EventsInv, bufferVars
  <2>3. FeedsInv'
    BY <1>0, <2>1 DEF FeedsInv, bufferVars, Got, Sent
  <2>4. QED BY <2>2, <2>3 DEF MonitoringInv
<1>7. CASE PurgeBegins \/ PurgeAudit \/ PurgeTelemetry \/ UNCHANGED monitoringVars
  <2>1. UNCHANGED <<records, recording, events, feedVars>>
    BY <1>7 DEF PurgeBegins, PurgeAudit, PurgeTelemetry, monitoringVars, bufferVars
  <2>2. MonitoringTypes' /\ EventsInv'
    BY <1>0, <2>1 DEF MonitoringTypes, EventsInv, feedVars
  <2>3. QED BY <2>1, <2>2, FeedsStay DEF MonitoringInv
<1>8. QED BY <1>1, <1>2, <1>3, <1>4, <1>5, <1>6, <1>7 DEF MonitoringNext

\* metrics.py _emit: a feed whose queue was never full has every event since it
\* subscribed, once and in order, whatever the other feeds do; a slow one a part.
THEOREM FeedsComplete == MonitoringSpec => []FeedComplete
<1>1. MonitoringInv => FeedComplete
  BY DEF MonitoringInv, FeedsInv, Served, Got, Sent, FeedComplete
<1>2. QED BY <1>1, InitMonitoringInv, NextMonitoringInv, PTL DEF MonitoringSpec

-----------------------------------------------------------------------------
(* The two buffers of the traffic.  Each is in the order of the messages,  *)
(* so that one ends with the other when what it lacks is older.            *)

\* What was recorded and not yet entered in the audit log.
Pending == IF recording.at = "audit" THEN {recording.of} ELSE {}

Entries == [of : Nat, accepted : BOOLEAN]

BufferTypes ==
    /\ telemetry \in Seq(Nat) /\ Len(telemetry) <= TelemetryCap
    /\ audit \in Seq(Entries) /\ Len(audit) <= AuditCap
    /\ purging \in {"none", "audit", "telemetry"}
    /\ raced \in BOOLEAN

\* Both buffers are in the order of the traffic, and what is recorded next is younger.
BufferOrder ==
    /\ \A i, j \in 1 .. Len(telemetry) : i < j => telemetry[i] < telemetry[j]
    /\ \A i, j \in 1 .. Len(audit) : i < j => audit[i].of < audit[j].of
    /\ \A i \in 1 .. Len(telemetry) : telemetry[i] <= records
    /\ \A i \in 1 .. Len(audit) :
         audit[i].of <= records /\ (recording.at = "audit" => audit[i].of < records)

\* A purge that no record met is between its two steps only while nothing accepted
\* has been entered since the first; otherwise the buffers agree on what the audit
\* log has or is about to be told.
AgreeInv ==
    ~ raced =>
        /\ recording # Quiet => purging = "none"
        /\ purging = "telemetry" => AcceptedIn(audit) = {}
        /\ purging = "none" =>
             /\ Len(audit) < AuditCap =>
                  Youngest(Range(telemetry), AcceptedIn(audit) \cup Pending)
             /\ Len(telemetry) < TelemetryCap =>
                  Youngest(AcceptedIn(audit) \cup Pending, Range(telemetry))

BufferInv == BufferTypes /\ BufferOrder /\ AgreeInv

\* A bounded buffer after an entry: all of it and the entry, or without the oldest.
EntryOf(b, s, e, cap) ==
    /\ Len(b) <= cap
    /\ Len(s) < cap => /\ Len(b) = Len(s) + 1 /\ b[Len(s) + 1] = e
                       /\ \A i \in 1 .. Len(s) : b[i] = s[i]
    /\ Len(s) = cap => /\ Len(b) = cap
                       /\ \A i \in 1 .. cap - 1 : b[i] = s[i + 1]
                       /\ cap > 0 => b[cap] = e

LEMMA BoundedEntry ==
    ASSUME NEW S, NEW s \in Seq(S), NEW e \in S, NEW cap \in Nat, Len(s) <= cap,
           NEW b, b = Bounded(s, e, cap)
    PROVE  b \in Seq(S) /\ EntryOf(b, s, e, cap)
<1> DEFINE longer == Append(s, e)
           n == Len(s)
<1>1. /\ longer \in Seq(S) /\ longer # <<>> /\ n \in Nat /\ Len(longer) = n + 1
      /\ \A i \in 1 .. n : longer[i] = s[i]
      /\ longer[n + 1] = e
  BY AppendRange, LenProperties
<1>2. Bounded(s, e, cap) = IF Len(longer) > cap THEN Tail(longer) ELSE longer
  BY DEF Bounded
<1> HIDE DEF longer
<1>3. /\ Tail(longer) \in Seq(S) /\ Len(Tail(longer)) = n
      /\ \A i \in 1 .. n : Tail(longer)[i] = longer[i + 1]
  <2>1. /\ Tail(longer) \in Seq(S) /\ Len(Tail(longer)) = Len(longer) - 1
        /\ \A i \in 1 .. (Len(longer) - 1) : Tail(longer)[i] = longer[i + 1]
    BY <1>1, TailRange
  <2>2. Len(longer) - 1 = n
    BY <1>1
  <2>3. QED BY <2>1, <2>2
<1> HIDE DEF n
<1>4. CASE n < cap
  <2>1. Bounded(s, e, cap) = longer
    BY <1>1, <1>2, <1>4
  <2>2. QED BY <1>1, <1>4, <2>1 DEF n, EntryOf
<1>5. CASE n = cap
  <2>1. Bounded(s, e, cap) = Tail(longer)
    BY <1>1, <1>2, <1>5
  <2>2. ASSUME NEW i \in 1 .. cap - 1 PROVE Tail(longer)[i] = s[i + 1]
    <3>1. i \in 1 .. n /\ i + 1 \in 1 .. n
      BY <1>1, <1>5
    <3>2. Tail(longer)[i] = longer[i + 1] /\ longer[i + 1] = s[i + 1]
      BY <1>1, <1>3, <3>1
    <3>3. QED BY <3>2
  <2>3. cap > 0 => Tail(longer)[cap] = e
    BY <1>1, <1>3, <1>5
  <2>4. QED BY <1>3, <1>5, <2>1, <2>2, <2>3 DEF n, EntryOf
<1>6. QED BY <1>1, <1>4, <1>5 DEF n, EntryOf

\* What the audit log has accepted, by position.
LEMMA AcceptedAt ==
    ASSUME NEW log \in Seq(Entries)
    PROVE  \A a : a \in AcceptedIn(log) <=>
                    \E i \in 1 .. Len(log) : log[i].accepted /\ a = log[i].of
<1>1. DOMAIN log = 1 .. Len(log)
  BY LenProperties
<1>2. QED BY <1>1 DEF AcceptedIn

LEMMA InitBufferInv == MonitoringInit => BufferInv
<1> SUFFICES ASSUME MonitoringInit PROVE BufferInv
  OBVIOUS
<1>1. /\ telemetry = <<>> /\ audit = <<>> /\ recording = Quiet /\ raced = FALSE
      /\ Len(telemetry) = 0 /\ Len(audit) = 0 /\ purging = "none"
      /\ telemetry \in Seq(Nat) /\ audit \in Seq(Entries)
  BY EmptySeq DEF MonitoringInit
<1>2. AcceptedIn(audit) = {}
  BY <1>1 DEF AcceptedIn
<1>3. Range(telemetry) = {} /\ Pending = {}
  BY <1>1, RangeIndex DEF Pending, Quiet
<1>4. BufferTypes
  <2>1. Len(telemetry) <= TelemetryCap /\ Len(audit) <= AuditCap
    BY <1>1, MonitoringAssumptions
  <2>2. raced \in BOOLEAN /\ purging \in {"none", "audit", "telemetry"}
    BY <1>1
  <2>3. QED BY <1>1, <2>1, <2>2 DEF BufferTypes
<1>7. BufferOrder
  BY <1>1 DEF BufferOrder
<1>5. AgreeInv
  BY <1>1, <1>2, <1>3 DEF AgreeInv, Youngest
<1>6. QED BY <1>4, <1>5, <1>7 DEF BufferInv

LEMMA YoungestOfYoungest ==
    ASSUME NEW P, NEW Q, NEW W, Youngest(P, Q), Youngest(Q, W)
    PROVE  Youngest(P, W)
<1>1. QED BY Zenon DEF Youngest

LEMMA YoungestGrow ==
    ASSUME NEW P, NEW W, Youngest(P, W), NEW r, \A w \in W : w < r
    PROVE  Youngest(P \cup {r}, W \cup {r})
<1>1. QED BY DEF Youngest

\* Keys that grow along a buffer, "k" before an entry and "l" after it.
\* Entered: r is entered after the n keys of k, and the m keys of l are the result.
Entered(k, n, r, cap, l, m) ==
    /\ n \in Nat /\ cap \in Nat /\ n <= cap /\ m \in Nat /\ r \in Nat
    /\ \A i \in 1 .. n : k[i] \in Nat /\ k[i] < r
    /\ \A i, j \in 1 .. n : i < j => k[i] < k[j]
    /\ n < cap => m = n + 1 /\ l[n + 1] = r /\ \A i \in 1 .. n : l[i] = k[i]
    /\ n = cap => /\ m = cap /\ \A i \in 1 .. cap - 1 : l[i] = k[i + 1]
                  /\ cap > 0 => l[cap] = r

LEMMA KeysGrow ==
    ASSUME NEW k, NEW n, NEW r, NEW cap, NEW l, NEW m, Entered(k, n, r, cap, l, m)
    PROVE  /\ \A i, j \in 1 .. m : i < j => l[i] < l[j]
           /\ \A i \in 1 .. m : l[i] \in Nat /\ l[i] <= r
           /\ n = cap => \A i \in 1 .. m, j \in 1 .. n : j = 1 => k[j] < l[i]
<1>0. /\ n \in Nat /\ cap \in Nat /\ n <= cap /\ m \in Nat /\ r \in Nat
      /\ \A i \in 1 .. n : k[i] \in Nat /\ k[i] < r
      /\ \A i, j \in 1 .. n : i < j => k[i] < k[j]
      /\ n < cap => m = n + 1 /\ l[n + 1] = r /\ \A i \in 1 .. n : l[i] = k[i]
      /\ n = cap => /\ m = cap /\ \A i \in 1 .. cap - 1 : l[i] = k[i + 1]
                    /\ cap > 0 => l[cap] = r
  BY DEF Entered
<1>1. CASE n < cap
  <2>1. m = n + 1 /\ l[n + 1] = r /\ \A i \in 1 .. n : l[i] = k[i]
    BY <1>0, <1>1
  <2>2. ASSUME NEW i \in 1 .. m PROVE l[i] \in Nat /\ l[i] <= r
    BY <1>0, <2>1
  <2>3. ASSUME NEW i \in 1 .. m, NEW j \in 1 .. m, i < j PROVE l[i] < l[j]
    <3>1. i \in 1 .. n /\ l[i] = k[i]
      BY <1>0, <2>1, <2>3
    <3>2. CASE j = n + 1
      BY <1>0, <2>1, <3>1, <3>2
    <3>3. CASE j \in 1 .. n
      BY <1>0, <2>1, <2>3, <3>1, <3>3
    <3>4. QED BY <1>0, <2>1, <3>2, <3>3
  <2>4. QED BY <1>0, <1>1, <2>2, <2>3
<1>2. CASE n = cap
  <2>1. /\ m = n /\ \A i \in 1 .. n - 1 : l[i] = k[i + 1]
        /\ n > 0 => l[n] = r
    BY <1>0, <1>2
  <2>2. \A i \in 1 .. n - 1 : i + 1 \in 1 .. n /\ l[i] = k[i + 1]
    BY <1>0, <2>1
  <2>3. ASSUME NEW i \in 1 .. m PROVE l[i] \in Nat /\ l[i] <= r
    <3>1. CASE i = n
      BY <1>0, <2>1, <3>1
    <3>2. CASE i \in 1 .. n - 1
      BY <1>0, <2>2, <3>2
    <3>3. QED BY <1>0, <2>1, <3>1, <3>2
  <2>4. ASSUME NEW i \in 1 .. m, NEW j \in 1 .. m, i < j PROVE l[i] < l[j]
    <3>1. i \in 1 .. n - 1 /\ i + 1 \in 1 .. n /\ l[i] = k[i + 1]
      BY <1>0, <2>1, <2>2, <2>4
    <3>2. CASE j = n
      BY <1>0, <2>1, <3>1, <3>2
    <3>3. CASE j \in 1 .. n - 1
      <4>1. j + 1 \in 1 .. n /\ l[j] = k[j + 1] /\ i + 1 < j + 1
        BY <1>0, <2>2, <2>4, <3>3
      <4>2. QED BY <1>0, <3>1, <4>1
    <3>4. QED BY <1>0, <2>1, <3>2, <3>3
  <2>5. ASSUME NEW i \in 1 .. m, NEW j \in 1 .. n, j = 1 PROVE k[j] < l[i]
    <3>1. CASE i = n
      BY <1>0, <2>1, <3>1
    <3>2. CASE i \in 1 .. n - 1
      <4>1. i + 1 \in 1 .. n /\ l[i] = k[i + 1] /\ j < i + 1
        BY <1>0, <2>2, <2>5, <3>2
      <4>2. QED BY <1>0, <4>1
    <3>3. QED BY <1>0, <2>1, <3>1, <3>2
  <2>6. QED BY <1>0, <2>3, <2>4, <2>5
<1>3. QED BY <1>0, <1>1, <1>2

\* The entry of a bounded buffer is the youngest; the oldest is what makes room.
LEMMA TelemetryEntry ==
    ASSUME NEW s \in Seq(Nat), NEW cap \in Nat, Len(s) <= cap, NEW r \in Nat,
           \A i \in 1 .. Len(s) : s[i] < r,
           \A i, j \in 1 .. Len(s) : i < j => s[i] < s[j],
           NEW b, b = Bounded(s, r, cap)
    PROVE  /\ b \in Seq(Nat) /\ Len(b) <= cap
           /\ \A i, j \in 1 .. Len(b) : i < j => b[i] < b[j]
           /\ \A i \in 1 .. Len(b) : b[i] <= r
           /\ Youngest(Range(b), Range(s) \cup {r})
           /\ Len(b) < cap => Len(s) < cap /\ Range(b) = Range(s) \cup {r}
<1> DEFINE n == Len(s)
           m == Len(b)
<1>1. b \in Seq(Nat) /\ EntryOf(b, s, r, cap)
  BY BoundedEntry, Zenon
<1>2. n \in Nat /\ m \in Nat /\ \A i \in 1 .. n : s[i] \in Nat
  BY <1>1, LenProperties
<1>3. /\ n < cap => /\ m = n + 1 /\ b[n + 1] = r
                    /\ \A i \in 1 .. n : b[i] = s[i]
      /\ n = cap => /\ m = cap
                    /\ \A i \in 1 .. cap - 1 : b[i] = s[i + 1]
                    /\ cap > 0 => b[cap] = r
      /\ m <= cap
  BY <1>1 DEF EntryOf
<1>4. n = cap => /\ m = cap /\ \A i \in 1 .. cap - 1 : b[i] = s[i + 1]
                 /\ cap > 0 => b[cap] = r
  BY <1>3
<1>5. /\ \A x : x \in Range(s) <=> \E i \in 1 .. n : x = s[i]
      /\ \A x : x \in Range(b) <=> \E i \in 1 .. m : x = b[i]
  <2>1. DOMAIN s = 1 .. n /\ DOMAIN b = 1 .. m
    BY <1>1, LenProperties
  <2>2. QED BY <2>1 DEF Range
<1> HIDE DEF n, m
<1>6. /\ \A i, j \in 1 .. m : i < j => b[i] < b[j]
      /\ \A i \in 1 .. m : b[i] \in Nat /\ b[i] <= r
      /\ n = cap => \A i \in 1 .. m, j \in 1 .. n : j = 1 => s[j] < b[i]
  <2>1. /\ \A i \in 1 .. n : s[i] \in Nat /\ s[i] < r
        /\ \A i, j \in 1 .. n : i < j => s[i] < s[j]
        /\ n <= cap
    BY <1>2 DEF n
  <2>2. Entered(s, n, r, cap, b, m)
    BY <1>2, <1>3, <1>4, <2>1 DEF Entered
  <2>3. QED BY <2>2, KeysGrow
<1>7. CASE n < cap
  <2>1. Range(b) = Range(s) \cup {r}
    <3>1. ASSUME NEW x \in Range(b) PROVE x \in Range(s) \cup {r}
      <4>1. PICK i \in 1 .. m : x = b[i]
        BY <1>5
      <4>2. CASE i = n + 1
        BY <1>3, <1>7, <4>1, <4>2
      <4>3. CASE i \in 1 .. n
        BY <1>3, <1>5, <1>7, <4>1, <4>3
      <4>4. QED BY <1>2, <1>3, <1>7, <4>2, <4>3
    <3>2. ASSUME NEW x \in Range(s) \cup {r} PROVE x \in Range(b)
      <4>1. n + 1 \in 1 .. m /\ (\A i \in 1 .. n : i \in 1 .. m)
        BY <1>2, <1>3, <1>7
      <4>2. QED BY <1>3, <1>5, <1>7, <4>1
    <3>3. QED BY <3>1, <3>2
  <2>2. Youngest(Range(b), Range(s) \cup {r})
    BY <2>1 DEF Youngest
  <2>3. QED BY <1>1, <1>3, <1>6, <1>7, <2>1, <2>2 DEF n, m
<1>8. CASE n = cap
  <2>1. m = n /\ (\A i \in 1 .. n - 1 : b[i] = s[i + 1]) /\ (n > 0 => b[n] = r)
    BY <1>4, <1>8
  <2>2. ASSUME NEW x \in Range(b) PROVE x \in Range(s) \cup {r}
    <3>1. PICK i \in 1 .. n : x = b[i]
      BY <1>5, <2>1
    <3>2. CASE i = n
      BY <1>2, <2>1, <3>1, <3>2
    <3>3. CASE i \in 1 .. n - 1
      <4>1. i + 1 \in 1 .. n /\ x = s[i + 1]
        BY <1>2, <2>1, <3>1, <3>3
      <4>2. QED BY <1>5, <4>1
    <3>4. QED BY <1>2, <3>2, <3>3
  <2>3. ASSUME NEW old \in Range(s) \cup {r}, old \notin Range(b), NEW new \in Range(b)
        PROVE  old < new
    <3>1. PICK i \in 1 .. n : new = b[i]
      BY <1>5, <2>1
    <3>2. r \in Range(b)
      <4>1. n > 0 /\ n \in 1 .. n
        BY <1>2, <3>1
      <4>2. QED BY <1>5, <2>1, <4>1
    <3>3. PICK k \in 1 .. n : old = s[k]
      BY <1>5, <2>3, <3>2
    <3>4. k = 1
      <4>1. ASSUME k # 1 PROVE FALSE
        <5>1. k - 1 \in 1 .. n - 1 /\ (k - 1) + 1 = k /\ k - 1 \in 1 .. n
          BY <1>2, <4>1
        <5>2. b[k - 1] = s[k]
          BY <2>1, <5>1
        <5>3. QED BY <1>5, <2>1, <2>3, <3>3, <5>1, <5>2
      <4>2. QED BY <4>1
    <3>5. QED BY <1>6, <1>8, <2>1, <3>1, <3>3, <3>4
  <2>4. Youngest(Range(b), Range(s) \cup {r})
    BY <2>2, <2>3 DEF Youngest
  <2>5. ~ (m < cap)
    BY <1>2, <1>8, <2>1
  <2>6. QED BY <1>1, <1>3, <1>6, <2>4, <2>5 DEF m
<1>9. n < cap \/ n = cap
  BY <1>2 DEF n
<1>10. QED BY <1>7, <1>8, <1>9

\* The same of the audit log, which knows a message by its record.
AcceptedOf(e) == IF e.accepted THEN {e.of} ELSE {}

LEMMA AuditEntry ==
    ASSUME NEW s \in Seq(Entries), NEW cap \in Nat, Len(s) <= cap, NEW e \in Entries,
           \A i \in 1 .. Len(s) : s[i].of < e.of,
           \A i, j \in 1 .. Len(s) : i < j => s[i].of < s[j].of,
           NEW b, b = Bounded(s, e, cap)
    PROVE  /\ b \in Seq(Entries) /\ Len(b) <= cap
           /\ \A i, j \in 1 .. Len(b) : i < j => b[i].of < b[j].of
           /\ \A i \in 1 .. Len(b) : b[i].of <= e.of
           /\ Youngest(AcceptedIn(b), AcceptedIn(s) \cup AcceptedOf(e))
           /\ Len(b) < cap =>
                Len(s) < cap /\ AcceptedIn(b) = AcceptedIn(s) \cup AcceptedOf(e)
<1> DEFINE n == Len(s)
           m == Len(b)
           k == [i \in 1 .. n |-> s[i].of]
           l == [i \in 1 .. m |-> b[i].of]
           r == e.of
<1>1. b \in Seq(Entries) /\ EntryOf(b, s, e, cap)
  BY BoundedEntry, Zenon
<1>2. n \in Nat /\ m \in Nat /\ r \in Nat /\ e.accepted \in BOOLEAN
  BY <1>1, LenProperties DEF Entries
<1>3. /\ n < cap => /\ m = n + 1 /\ b[n + 1] = e
                    /\ \A i \in 1 .. n : b[i] = s[i]
      /\ n = cap => /\ m = cap
                    /\ \A i \in 1 .. cap - 1 : b[i] = s[i + 1]
                    /\ cap > 0 => b[cap] = e
      /\ m <= cap /\ n <= cap
  BY <1>1 DEF EntryOf
<1>4. \A i \in 1 .. n : s[i].of \in Nat /\ s[i].accepted \in BOOLEAN
  <2>1. \A i \in 1 .. n : s[i] \in Entries
    BY LenProperties
  <2>2. QED BY <2>1 DEF Entries
<1>5. /\ \A x : x \in AcceptedIn(s) <=> \E i \in 1 .. n : s[i].accepted /\ x = s[i].of
      /\ \A x : x \in AcceptedIn(b) <=> \E i \in 1 .. m : b[i].accepted /\ x = b[i].of
  BY <1>1, AcceptedAt
<1>6. /\ \A i \in 1 .. n : s[i].of < r
      /\ \A i, j \in 1 .. n : i < j => s[i].of < s[j].of
  OBVIOUS
<1> HIDE DEF n, m, r
<1>7. Entered(k, n, r, cap, l, m)
  <2> HIDE DEF k, l
  <2>1. /\ \A i \in 1 .. n : k[i] = s[i].of
        /\ \A i \in 1 .. m : l[i] = b[i].of
    BY DEF k, l
  <2>2. /\ \A i \in 1 .. n : k[i] \in Nat /\ k[i] < r
        /\ \A i, j \in 1 .. n : i < j => k[i] < k[j]
    BY <1>4, <1>6, <2>1
  <2>3. ASSUME n < cap PROVE m = n + 1 /\ l[n + 1] = r /\ \A i \in 1 .. n : l[i] = k[i]
    <3>1. /\ m = n + 1 /\ b[n + 1] = e /\ \A i \in 1 .. n : b[i] = s[i]
      BY <1>3, <2>3
    <3>2. n + 1 \in 1 .. m /\ \A i \in 1 .. n : i \in 1 .. m
      BY <1>2, <3>1
    <3>3. QED BY <2>1, <3>1, <3>2 DEF r
  <2>4. ASSUME n = cap PROVE /\ m = cap /\ \A i \in 1 .. cap - 1 : l[i] = k[i + 1]
                             /\ cap > 0 => l[cap] = r
    <3>1. /\ m = cap
          /\ cap > 0 => b[cap] = e
          /\ \A i \in 1 .. cap - 1 : b[i] = s[i + 1]
      BY <1>3, <2>4
    <3>2. ASSUME NEW i \in 1 .. cap - 1 PROVE l[i] = k[i + 1]
      <4>1. i \in 1 .. m /\ i + 1 \in 1 .. n
        BY <1>2, <2>4, <3>1
      <4>2. QED BY <2>1, <3>1, <4>1
    <3>3. cap > 0 => cap \in 1 .. m
      BY <1>2, <3>1
    <3>4. QED BY <2>1, <3>1, <3>2, <3>3 DEF r
  <2>5. QED BY <1>2, <1>3, <2>2, <2>3, <2>4 DEF Entered
<1>8. /\ \A i, j \in 1 .. m : i < j => b[i].of < b[j].of
      /\ \A i \in 1 .. m : b[i].of \in Nat /\ b[i].of <= r
      /\ n = cap => \A i \in 1 .. m, j \in 1 .. n : j = 1 => s[j].of < b[i].of
  <2> HIDE DEF k, l
  <2>1. /\ \A i, j \in 1 .. m : i < j => l[i] < l[j]
        /\ \A i \in 1 .. m : l[i] \in Nat /\ l[i] <= r
        /\ n = cap => \A i \in 1 .. m, j \in 1 .. n : j = 1 => k[j] < l[i]
    BY <1>7, KeysGrow
  <2>2. /\ \A i \in 1 .. n : k[i] = s[i].of
        /\ \A i \in 1 .. m : l[i] = b[i].of
    BY DEF k, l
  <2>3. QED BY <2>1, <2>2
<1> HIDE DEF k, l
<1> DEFINE A == AcceptedIn(s)
           B == AcceptedIn(b)
           new == AcceptedOf(e)
<1>9. \A x : x \in new <=> e.accepted /\ x = r
  BY DEF AcceptedOf, r
<1> HIDE DEF A, B, new
<1>10. /\ \A x : x \in A <=> \E i \in 1 .. n : s[i].accepted /\ x = s[i].of
       /\ \A x : x \in B <=> \E i \in 1 .. m : b[i].accepted /\ x = b[i].of
  BY <1>5 DEF A, B
<1>11. /\ b \in Seq(Entries) /\ m <= cap
       /\ Youngest(B, A \cup new)
       /\ m < cap => n < cap /\ B = A \cup new
  <2>1. CASE n < cap
    <3>1. m = n + 1 /\ b[n + 1] = e /\ \A i \in 1 .. n : b[i] = s[i]
      BY <1>3, <2>1
    <3>2. ASSUME NEW x \in B PROVE x \in A \cup new
      <4>1. PICK i \in 1 .. m : b[i].accepted /\ x = b[i].of
        BY <1>10
      <4>2. CASE i = n + 1
        BY <1>9, <3>1, <4>1, <4>2 DEF r
      <4>3. CASE i \in 1 .. n
        BY <1>10, <3>1, <4>1, <4>3
      <4>4. QED BY <1>2, <3>1, <4>2, <4>3
    <3>3. ASSUME NEW x \in A PROVE x \in B
      <4>1. PICK i \in 1 .. n : s[i].accepted /\ x = s[i].of
        BY <1>10
      <4>2. i \in 1 .. m /\ b[i] = s[i]
        BY <1>2, <3>1
      <4>3. QED BY <1>10, <4>1, <4>2
    <3>4. ASSUME NEW x \in new PROVE x \in B
      <4>1. e.accepted /\ x = e.of
        BY <1>9, <3>4 DEF r
      <4>2. n + 1 \in 1 .. m /\ b[n + 1] = e
        BY <1>2, <3>1
      <4>3. QED BY <1>10, <4>1, <4>2
    <3>5. B = A \cup new
      BY <3>2, <3>3, <3>4
    <3>6. Youngest(B, A \cup new)
      BY <3>5 DEF Youngest
    <3>7. QED BY <1>1, <1>3, <2>1, <3>5, <3>6
  <2>2. CASE n = cap
    <3>1. m = n /\ (\A i \in 1 .. n - 1 : b[i] = s[i + 1]) /\ (n > 0 => b[n] = e)
      BY <1>3, <2>2
    <3>2. ASSUME NEW x \in B PROVE x \in A \cup new
      <4>1. PICK i \in 1 .. n : b[i].accepted /\ x = b[i].of
        BY <1>10, <3>1
      <4>2. CASE i = n
        BY <1>2, <1>9, <3>1, <4>1, <4>2 DEF r
      <4>3. CASE i \in 1 .. n - 1
        <5>1. i + 1 \in 1 .. n /\ b[i] = s[i + 1]
          BY <1>2, <3>1, <4>3
        <5>2. QED BY <1>10, <4>1, <5>1
      <4>4. QED BY <1>2, <4>2, <4>3
    <3>3. ASSUME NEW old \in A \cup new, old \notin B, NEW young \in B
          PROVE  old < young
      <4>1. PICK i \in 1 .. n : b[i].accepted /\ young = b[i].of
        BY <1>10, <3>1
      <4>2. n > 0 /\ n \in 1 .. m /\ b[n] = e
        BY <1>2, <3>1, <4>1
      <4>3. old \notin new
        BY <1>9, <1>10, <3>3, <4>2 DEF r
      <4>4. PICK j \in 1 .. n : s[j].accepted /\ old = s[j].of
        BY <1>10, <3>3, <4>3
      <4>5. ASSUME j # 1 PROVE FALSE
        <5>1. j - 1 \in 1 .. n - 1 /\ (j - 1) + 1 = j /\ j - 1 \in 1 .. m
          BY <1>2, <3>1, <4>5
        <5>2. b[j - 1] = s[j]
          BY <3>1, <5>1
        <5>3. QED BY <1>10, <3>3, <4>4, <5>1, <5>2
      <4>6. QED BY <1>8, <2>2, <3>1, <4>1, <4>4, <4>5
    <3>4. Youngest(B, A \cup new)
      BY <3>2, <3>3 DEF Youngest
    <3>5. ~ (m < cap)
      BY <1>2, <2>2, <3>1
    <3>6. QED BY <1>1, <1>3, <3>4, <3>5
  <2>3. n < cap \/ n = cap
    BY <1>2, <1>3
  <2>4. QED BY <2>1, <2>2, <2>3
<1>12. QED BY <1>8, <1>11 DEF n, m, r, A, B, new

LEMMA NextBufferInv ==
    MonitoringInv /\ BufferInv /\ [MonitoringNext]_monitoringVars => BufferInv'
<1> SUFFICES ASSUME MonitoringInv, BufferInv, [MonitoringNext]_monitoringVars
             PROVE  BufferInv'
  OBVIOUS
<1>0. /\ BufferTypes /\ BufferOrder /\ AgreeInv
      /\ records \in Nat /\ recording \in [of : Nat, at : {"none", "audit", "emit"}]
      /\ recording # Quiet => recording.of = records
      /\ TelemetryCap \in Nat /\ AuditCap \in Nat
  BY MonitoringAssumptions DEF BufferInv, MonitoringInv, MonitoringTypes, EventsInv
<1>t. /\ Len(telemetry) \in Nat /\ \A i \in 1 .. Len(telemetry) : telemetry[i] \in Nat
      /\ Len(audit) \in Nat /\ \A i \in 1 .. Len(audit) : audit[i].of \in Nat
  <2>1. telemetry \in Seq(Nat) /\ audit \in Seq(Entries)
    BY <1>0 DEF BufferTypes
  <2>2. \A i \in 1 .. Len(audit) : audit[i] \in Entries
    BY <2>1, LenProperties
  <2>3. QED BY <2>1, <2>2, LenProperties DEF Entries
<1>1. CASE RecordAccepted
  <2> DEFINE r == records + 1
  <2>1. /\ recording = Quiet /\ records' = r /\ recording' = [of |-> r, at |-> "audit"]
        /\ telemetry' = Bounded(telemetry, r, TelemetryCap)
        /\ raced' = (raced \/ purging # "none")
        /\ UNCHANGED <<audit, purging>>
    BY <1>1 DEF RecordAccepted, RecordStarts
  <2>2. /\ r \in Nat /\ \A i \in 1 .. Len(telemetry) : telemetry[i] < r
        /\ \A i \in 1 .. Len(audit) : audit[i].of < r
    BY <1>0, <1>t, SMTT(30) DEF BufferOrder
  <2>3. /\ telemetry' \in Seq(Nat) /\ Len(telemetry') <= TelemetryCap
        /\ \A i, j \in 1 .. Len(telemetry') : i < j => telemetry'[i] < telemetry'[j]
        /\ \A i \in 1 .. Len(telemetry') : telemetry'[i] <= r
        /\ Youngest(Range(telemetry'), Range(telemetry) \cup {r})
        /\ Len(telemetry') < TelemetryCap =>
             Len(telemetry) < TelemetryCap /\ Range(telemetry') = Range(telemetry) \cup {r}
    <3>1. /\ telemetry \in Seq(Nat) /\ Len(telemetry) <= TelemetryCap
          /\ \A i, j \in 1 .. Len(telemetry) : i < j => telemetry[i] < telemetry[j]
      BY <1>0 DEF BufferTypes, BufferOrder
    <3> HIDE DEF r
    <3>2. QED BY <1>0, <2>1, <2>2, <3>1, TelemetryEntry, Zenon
  <2> HIDE DEF r
  <2>4. BufferTypes'
    BY <1>0, <2>1, <2>3, Zenon DEF BufferTypes
  <2>5. BufferOrder'
    BY <1>0, <1>t, <2>1, <2>2, <2>3, SMTT(30) DEF BufferOrder
  <2>6. ASSUME ~ raced', Len(audit) < AuditCap
        PROVE  Youngest(Range(telemetry'), AcceptedIn(audit) \cup {r})
    <3>1. Youngest(Range(telemetry), AcceptedIn(audit))
      BY <1>0, <2>1, <2>6 DEF AgreeInv, Pending, Quiet
    <3>2. \A w \in AcceptedIn(audit) : w < r
      <4>1. audit \in Seq(Entries)
        BY <1>0 DEF BufferTypes
      <4>2. QED BY <2>2, <4>1, AcceptedAt
    <3>3. Youngest(Range(telemetry) \cup {r}, AcceptedIn(audit) \cup {r})
      BY <3>1, <3>2, YoungestGrow
    <3>4. QED BY <2>3, <3>3, YoungestOfYoungest, Zenon
  <2>7. ASSUME ~ raced', Len(telemetry') < TelemetryCap
        PROVE  Youngest(AcceptedIn(audit) \cup {r}, Range(telemetry'))
    <3>1. Youngest(AcceptedIn(audit), Range(telemetry))
      BY <1>0, <2>1, <2>3, <2>7 DEF AgreeInv, Pending, Quiet
    <3>2. \A w \in Range(telemetry) : w < r
      <4>1. telemetry \in Seq(Nat)
        BY <1>0 DEF BufferTypes
      <4>2. QED BY <2>2, <4>1, RangeIndex
    <3>3. Youngest(AcceptedIn(audit) \cup {r}, Range(telemetry) \cup {r})
      BY <3>1, <3>2, YoungestGrow
    <3>4. QED BY <2>3, <2>7, <3>3
  <2>8. Pending' = {r} /\ AcceptedIn(audit)' = AcceptedIn(audit)
    BY <2>1 DEF Pending
  <2>9. AgreeInv'
    BY <2>1, <2>6, <2>7, <2>8 DEF AgreeInv
  <2>10. QED BY <2>4, <2>5, <2>9 DEF BufferInv
<1>2. CASE RecordDropped
  <2> DEFINE e == [of |-> records + 1, accepted |-> FALSE]
  <2>1. /\ recording = Quiet /\ records' = records + 1
        /\ audit' = Bounded(audit, e, AuditCap)
        /\ UNCHANGED <<recording, telemetry, raced, purging>>
    BY <1>2 DEF RecordDropped, RecordStarts
  <2>2. e \in Entries /\ e.of = records + 1 /\ AcceptedOf(e) = {}
    BY <1>0 DEF Entries, AcceptedOf
  <2> HIDE DEF e
  <2>3. \A i \in 1 .. Len(audit) : audit[i].of < e.of
    BY <1>0, <1>t, <2>2 DEF BufferOrder
  <2>4. /\ audit' \in Seq(Entries) /\ Len(audit') <= AuditCap
        /\ \A i, j \in 1 .. Len(audit') : i < j => audit'[i].of < audit'[j].of
        /\ \A i \in 1 .. Len(audit') : audit'[i].of <= e.of
        /\ Youngest(AcceptedIn(audit'), AcceptedIn(audit) \cup AcceptedOf(e))
        /\ Len(audit') < AuditCap =>
             Len(audit) < AuditCap /\ AcceptedIn(audit') = AcceptedIn(audit) \cup AcceptedOf(e)
    BY <1>0, <2>1, <2>2, <2>3, AuditEntry DEF BufferTypes, BufferOrder
  <2>5. /\ Youngest(AcceptedIn(audit'), AcceptedIn(audit))
        /\ Len(audit') < AuditCap =>
             Len(audit) < AuditCap /\ AcceptedIn(audit') = AcceptedIn(audit)
    <3>1. AcceptedIn(audit) \cup AcceptedOf(e) = AcceptedIn(audit)
      BY <2>2
    <3>2. QED BY <2>4, <3>1
  <2>6. BufferTypes'
    BY <1>0, <2>1, <2>4, Zenon DEF BufferTypes
  <2>7. recording.at # "audit"
    BY <2>1 DEF Quiet
  <2>8. BufferOrder'
    <3>1. \A i \in 1 .. Len(telemetry) : telemetry[i] <= records + 1
      BY <1>0, <1>t DEF BufferOrder
    <3>2. QED BY <1>0, <2>1, <2>2, <2>4, <2>7, <3>1 DEF BufferOrder
  <2>9. Pending' = {} /\ Pending = {} /\ Range(telemetry)' = Range(telemetry)
    BY <2>1, <2>7 DEF Pending
  <2>10. AgreeInv'
    <3> SUFFICES ASSUME ~ raced PROVE
             /\ purging = "telemetry" => AcceptedIn(audit') = {}
             /\ purging = "none" =>
                  /\ Len(audit') < AuditCap => Youngest(Range(telemetry), AcceptedIn(audit'))
                  /\ Len(telemetry) < TelemetryCap =>
                        Youngest(AcceptedIn(audit'), Range(telemetry))
      BY <2>1, <2>9 DEF AgreeInv
    <3>1. /\ purging = "telemetry" => AcceptedIn(audit) = {}
          /\ purging = "none" =>
               /\ Len(audit) < AuditCap => Youngest(Range(telemetry), AcceptedIn(audit))
               /\ Len(telemetry) < TelemetryCap =>
                     Youngest(AcceptedIn(audit), Range(telemetry))
      BY <1>0, <2>9 DEF AgreeInv
    <3>2. AcceptedIn(audit') \subseteq AcceptedIn(audit)
      BY <2>5 DEF Youngest
    <3>3. QED BY <2>5, <3>1, <3>2, YoungestOfYoungest
  <2>11. QED BY <2>6, <2>8, <2>10 DEF BufferInv
<1>3. CASE RecordAudit
  <2> DEFINE e == [of |-> recording.of, accepted |-> TRUE]
  <2>1. /\ recording.at = "audit" /\ recording' = [recording EXCEPT !.at = "emit"]
        /\ audit' = Bounded(audit, e, AuditCap)
        /\ UNCHANGED <<records, telemetry, raced, purging>>
    BY <1>3 DEF RecordAudit, purgeVars
  <2>2. /\ e \in Entries /\ e.of = records /\ AcceptedOf(e) = {records}
        /\ recording # Quiet /\ recording.of = records
    BY <1>0, <2>1 DEF Entries, AcceptedOf, Quiet
  <2> HIDE DEF e
  <2>3. \A i \in 1 .. Len(audit) : audit[i].of < e.of
    BY <1>0, <2>1, <2>2 DEF BufferOrder
  <2>4. /\ audit' \in Seq(Entries) /\ Len(audit') <= AuditCap
        /\ \A i, j \in 1 .. Len(audit') : i < j => audit'[i].of < audit'[j].of
        /\ \A i \in 1 .. Len(audit') : audit'[i].of <= e.of
        /\ Youngest(AcceptedIn(audit'), AcceptedIn(audit) \cup AcceptedOf(e))
        /\ Len(audit') < AuditCap =>
             Len(audit) < AuditCap /\ AcceptedIn(audit') = AcceptedIn(audit) \cup AcceptedOf(e)
    BY <1>0, <2>1, <2>2, <2>3, AuditEntry DEF BufferTypes, BufferOrder
  <2>5. BufferTypes'
    BY <1>0, <2>1, <2>4, Zenon DEF BufferTypes
  <2>6. recording'.at = "emit" /\ recording' # Quiet
    BY <1>0, <2>1 DEF Quiet
  <2>7. BufferOrder'
    BY <1>0, <1>t, <2>1, <2>2, <2>4, <2>6 DEF BufferOrder
  <2>8. /\ Pending' = {} /\ Pending = {records} /\ Range(telemetry)' = Range(telemetry)
    BY <2>1, <2>2, <2>6 DEF Pending
  <2>9. AgreeInv'
    <3> DEFINE all == AcceptedIn(audit) \cup {records}
    <3> SUFFICES ASSUME ~ raced PROVE
             /\ purging = "none"
             /\ Len(audit') < AuditCap => Youngest(Range(telemetry), AcceptedIn(audit'))
             /\ Len(telemetry) < TelemetryCap => Youngest(AcceptedIn(audit'), Range(telemetry))
      BY <2>1, <2>8 DEF AgreeInv
    <3>1. /\ purging = "none"
          /\ Len(audit) < AuditCap => Youngest(Range(telemetry), all)
          /\ Len(telemetry) < TelemetryCap => Youngest(all, Range(telemetry))
      BY <1>0, <2>2, <2>8 DEF AgreeInv
    <3>2. /\ Youngest(AcceptedIn(audit'), all)
          /\ Len(audit') < AuditCap => Len(audit) < AuditCap /\ AcceptedIn(audit') = all
      BY <2>2, <2>4
    <3> HIDE DEF all
    <3>3. QED BY <3>1, <3>2, YoungestOfYoungest
  <2>10. QED BY <2>5, <2>7, <2>9 DEF BufferInv
<1>4. CASE Emit
  <2>1. /\ recording.at = "emit" /\ recording' = Quiet
        /\ UNCHANGED <<records, telemetry, audit, purging, raced>>
    BY <1>4 DEF Emit, purgeVars
  <2>2. Pending = {} /\ Pending' = {}
    BY <2>1 DEF Pending, Quiet
  <2>3. BufferTypes'
    BY <1>0, <2>1, Zenon DEF BufferTypes
  <2>4. BufferOrder'
    BY <1>0, <2>1 DEF BufferOrder, Quiet
  <2>5. AgreeInv'
    BY <1>0, <2>1, <2>2 DEF AgreeInv
  <2>6. QED BY <2>3, <2>4, <2>5 DEF BufferInv
<1>5. CASE \/ \E f \in Feeds : Subscribe(f) \/ Deliver(f) \/ Unsubscribe(f)
           \/ UNCHANGED monitoringVars
  <2>1. UNCHANGED <<records, recording, telemetry, audit, purging, raced>>
    BY <1>5 DEF Subscribe, Deliver, Unsubscribe, monitoringVars, bufferVars, purgeVars
  <2>2. BufferTypes'
    BY <1>0, <2>1, Zenon DEF BufferTypes
  <2>3. BufferOrder' /\ AgreeInv'
    BY <1>0, <2>1 DEF BufferOrder, AgreeInv, Pending
  <2>4. QED BY <2>2, <2>3 DEF BufferInv
<1>6. CASE PurgeBegins \/ PurgeAudit \/ PurgeTelemetry
  <2>1. /\ UNCHANGED <<records, recording>>
        /\ raced' = (raced \/ recording # Quiet)
    BY <1>6 DEF PurgeBegins, PurgeAudit, PurgeTelemetry, PurgeStep, bufferVars
  <2>2. raced' \in BOOLEAN
    BY <2>1
  <2>3. /\ <<>> \in Seq(Nat) /\ <<>> \in Seq(Entries) /\ Len(<<>>) = 0
        /\ AcceptedIn(<<>>) = {} /\ Range(<<>>) = {}
    BY EmptySeq DEF AcceptedIn, Range
  <2>4. CASE PurgeBegins
    <3>1. purging' = "audit" /\ UNCHANGED <<telemetry, audit>>
      BY <2>4 DEF PurgeBegins, PurgeStep, bufferVars
    <3>2. BufferTypes'
      BY <1>0, <2>2, <3>1 DEF BufferTypes
    <3>3. BufferOrder' /\ AgreeInv'
      BY <1>0, <2>1, <3>1 DEF BufferOrder, AgreeInv
    <3>4. QED BY <3>2, <3>3 DEF BufferInv
  <2>5. CASE PurgeAudit
    <3>1. purging' = "telemetry" /\ audit' = <<>> /\ UNCHANGED telemetry
      BY <2>5 DEF PurgeAudit, PurgeStep
    <3>2. BufferTypes'
      BY <1>0, <2>2, <2>3, <3>1 DEF BufferTypes
    <3>3. BufferOrder'
      BY <1>0, <2>1, <2>3, <3>1 DEF BufferOrder
    <3>4. AgreeInv'
      BY <2>1, <2>3, <3>1 DEF AgreeInv
    <3>5. QED BY <3>2, <3>3, <3>4 DEF BufferInv
  <2>6. CASE PurgeTelemetry
    <3>1. purging = "telemetry" /\ purging' = "none" /\ telemetry' = <<>> /\ UNCHANGED audit
      BY <2>6 DEF PurgeTelemetry, PurgeStep
    <3>2. BufferTypes'
      BY <1>0, <2>2, <2>3, <3>1 DEF BufferTypes
    <3>3. BufferOrder'
      BY <1>0, <2>1, <2>3, <3>1 DEF BufferOrder
    <3>4. AgreeInv'
      <4>1. ASSUME ~ raced' PROVE AcceptedIn(audit') = {} /\ Pending' = {} /\ recording' = Quiet
        <5>1. recording = Quiet /\ AcceptedIn(audit) = {}
          BY <1>0, <2>1, <3>1, <4>1 DEF AgreeInv
        <5>2. QED BY <2>1, <3>1, <5>1 DEF Pending, Quiet
      <4>2. QED BY <2>3, <3>1, <4>1 DEF AgreeInv, Youngest
    <3>5. QED BY <3>2, <3>3, <3>4 DEF BufferInv
  <2>7. QED BY <1>6, <2>4, <2>5, <2>6
<1>7. QED BY <1>1, <1>2, <1>3, <1>4, <1>5, <1>6 DEF MonitoringNext

\* gateway.py purge_logs, metrics.py record_sent, record_received, record_dropped:
\* until one of them is full, the telemetry buffer and the audit log have accepted
\* the same messages, unless a purge ran in the middle of a record.
THEOREM BuffersTell == MonitoringSpec => []BuffersAgree
<1>1. MonitoringInv /\ BufferInv => BuffersAgree
  <2> SUFFICES ASSUME BufferInv PROVE BuffersAgree
    OBVIOUS
  <2>1. BufferTypes /\ BufferOrder /\ AgreeInv
    BY DEF BufferInv
  <2>2. DOMAIN telemetry = 1 .. Len(telemetry) /\ DOMAIN audit = 1 .. Len(audit)
    BY <2>1, LenProperties DEF BufferTypes
  <2>3. recording = Quiet => Pending = {}
    BY DEF Pending, Quiet
  <2>4. QED BY <2>1, <2>2, <2>3 DEF BuffersAgree, BufferOrder, AgreeInv
<1>2. QED
  BY <1>1, InitMonitoringInv, NextMonitoringInv, InitBufferInv, NextBufferInv, PTL
  DEF MonitoringSpec

-----------------------------------------------------------------------------
(* The live simulation.  A simulation is held while it has clients running *)
(* or is being started; what is held besides _sim is owed to an overlap or *)
(* a failure.  While nothing is owed for _sim either, the calls have gone  *)
(* through their stages one at a time.                                     *)

SimTypes ==
    /\ sims \in Seq(Range(sims)) /\ loops \in Seq(Range(loops))
    /\ simCalls \in Seq(Range(simCalls))
    /\ sim \in 0 .. Len(sims) /\ task \in 0 .. Len(loops)
    /\ simOverlaps \in Nat /\ simFailures \in Nat
    /\ \A c \in DOMAIN simCalls :
         /\ {"kind", "at", "of", "next"} \subseteq DOMAIN simCalls[c]
         /\ simCalls[c].next \in Nat \ {0}
         /\ simCalls[c].kind = "start" => simCalls[c].at \in {"clients", "done"}
         /\ simCalls[c].at = "clients" => simCalls[c].of \in DOMAIN sims

IsStarting(k) ==
    \E c \in DOMAIN simCalls :
        simCalls[c].kind = "start" /\ simCalls[c].at = "clients" /\ simCalls[c].of = k
Held == {k \in DOMAIN sims : sims[k] # {} \/ IsStarting(k)}
Owed == 2 * simOverlaps + simFailures

\* The stages of a start and of a stop that are alone, and the rest between them.
Stage(c) ==
    \/ /\ simCalls[c].kind = "start" /\ simCalls[c].at = "clients" /\ simCalls[c].of = sim
       /\ simCalls[c].next <= ClientCount + 1
       /\ sims[sim] = 1 .. simCalls[c].next - 1
    \/ /\ simCalls[c].kind = "stop" /\ simCalls[c].at = "task" /\ simCalls[c].of = task
       /\ simCalls[c].next = 1 /\ sims[sim] = Clients
       /\ task # 0 /\ loops[task] \in {"cancelling", "cancelled"}
    \/ /\ simCalls[c].kind = "stop" /\ simCalls[c].at = "clients" /\ simCalls[c].of = sim
       /\ sims[sim] = simCalls[c].next .. ClientCount
       /\ task = 0
OnAir == SimPending = {} /\ task # 0 /\ loops[task] = "runs" /\ sims[sim] = Clients
Tidy == sim # 0 /\ (OnAir \/ \E c \in SimPending : SimPending = {c} /\ Stage(c))
AtRest == SimPending = {} /\ sim = 0 /\ task = 0

HeldInv ==
    /\ \/ Cardinality(Held) <= Owed
       \/ Tidy /\ Cardinality(Held \ {sim}) <= Owed
    /\ Owed = 0 => Tidy \/ AtRest

SimulationInv == SimTypes /\ HeldInv

LEMMA OwedGrows ==
    ASSUME NEW a \in Nat, NEW b \in Nat, NEW c \in Nat, b <= c
    PROVE  /\ 2 * a + b \in Nat /\ 2 * a + c \in Nat /\ 2 * a + b <= 2 * a + c
           /\ 2 * a + c = 2 * a + b => c = b
  OBVIOUS

LEMMA SimFacts ==
    ASSUME SimTypes
    PROVE  /\ Len(sims) \in Nat /\ DOMAIN sims = 1 .. Len(sims)
           /\ Len(loops) \in Nat /\ DOMAIN loops = 1 .. Len(loops)
           /\ Len(simCalls) \in Nat /\ DOMAIN simCalls = 1 .. Len(simCalls)
           /\ IsFiniteSet(Held) /\ Held \subseteq DOMAIN sims /\ Owed \in Nat
<1>1. /\ Len(sims) \in Nat /\ DOMAIN sims = 1 .. Len(sims)
      /\ Len(loops) \in Nat /\ DOMAIN loops = 1 .. Len(loops)
      /\ Len(simCalls) \in Nat /\ DOMAIN simCalls = 1 .. Len(simCalls)
  BY LenProperties DEF SimTypes
<1>2. IsFiniteSet(DOMAIN sims)
  BY <1>1, FS_Interval
<1>3. Held \in SUBSET (DOMAIN sims)
  BY DEF Held
<1>4. IsFiniteSet(Held)
  BY <1>2, <1>3, FS_Subset
<1>5. Owed \in Nat
  BY DEF Owed, SimTypes
<1>6. QED BY <1>1, <1>3, <1>4, <1>5

LEMMA InitSimulationInv == SimInit => SimulationInv
<1> SUFFICES ASSUME SimInit PROVE SimulationInv
  OBVIOUS
<1>1. /\ sims = <<>> /\ loops = <<>> /\ simCalls = <<>> /\ sim = 0 /\ task = 0
      /\ simOverlaps = 0 /\ simFailures = 0
  BY DEF SimInit
<1>2. sims \in Seq(Range(sims)) /\ Len(sims) = 0
  <2>1. sims = [k \in 1 .. 0 |-> sims[k]]
    BY <1>1
  <2>2. QED BY <2>1, SequenceAny
<1>3. sims = loops /\ sims = simCalls
  BY <1>1
<1>4. SimTypes
  BY <1>1, <1>2, <1>3 DEF SimTypes
<1>5. Held = {} /\ SimPending = {}
  BY <1>1 DEF Held, SimPending
<1>6. Cardinality(Held) <= Owed
  BY <1>1, <1>5, FS_EmptySet DEF Owed
<1>7. QED BY <1>1, <1>4, <1>5, <1>6 DEF SimulationInv, HeldInv, AtRest

\* A new call.
LEMMA CallMade ==
    ASSUME SimTypes, NEW x, simCalls' = Append(simCalls, x), NEW n, n = Len(simCalls) + 1
    PROVE  /\ simCalls' \in Seq(Range(simCalls'))
           /\ DOMAIN simCalls' = DOMAIN simCalls \cup {n} /\ n \notin DOMAIN simCalls
           /\ simCalls'[n] = x
           /\ \A c \in DOMAIN simCalls : simCalls'[c] = simCalls[c]
           /\ SimPending' = IF x.at = "done" THEN SimPending ELSE SimPending \cup {n}
<1>1. /\ simCalls' \in Seq(Range(simCalls'))
      /\ DOMAIN simCalls' = DOMAIN simCalls \cup {n} /\ n \notin DOMAIN simCalls
      /\ simCalls'[n] = x
      /\ \A c \in DOMAIN simCalls : simCalls'[c] = simCalls[c]
  BY AppendAny DEF SimTypes
<1>2. SimPending' = IF x.at = "done" THEN SimPending ELSE SimPending \cup {n}
  BY <1>1 DEF SimPending
<1>3. QED BY <1>1, <1>2

\* A call goes on.
LEMMA CallChanged ==
    ASSUME SimTypes, NEW c \in SimPending, NEW x, simCalls' = [simCalls EXCEPT ![c] = x]
    PROVE  /\ simCalls' \in Seq(Range(simCalls'))
           /\ DOMAIN simCalls' = DOMAIN simCalls /\ c \in DOMAIN simCalls /\ simCalls'[c] = x
           /\ \A d \in DOMAIN simCalls : d # c => simCalls'[d] = simCalls[d]
           /\ SimPending' = IF x.at = "done" THEN SimPending \ {c} ELSE SimPending
<1>1. c \in DOMAIN simCalls
  BY DEF SimPending
<1>2. /\ simCalls' \in Seq(Range(simCalls'))
      /\ DOMAIN simCalls' = DOMAIN simCalls /\ simCalls'[c] = x
      /\ \A d \in DOMAIN simCalls : d # c => simCalls'[d] = simCalls[d]
  BY <1>1, OneChanged DEF SimTypes
<1>3. SimPending' = IF x.at = "done" THEN SimPending \ {c} ELSE SimPending
  BY <1>1, <1>2 DEF SimPending
<1>4. QED BY <1>1, <1>2, <1>3

\* start.
LEMMA StartHolds ==
    ASSUME SimulationInv, StartSimulation
    PROVE  SimulationInv'
<1> USE SimAssumptions
<1>1. SimTypes /\ HeldInv
  BY DEF SimulationInv
<1>2. /\ ~ SimRunning /\ SimCall("start", "clients", Len(sims) + 1)
      /\ sims' = Append(sims, {}) /\ sim' = Len(sims) + 1
      /\ task' = task /\ loops' = loops /\ simFailures' = simFailures
  BY DEF StartSimulation
<1>3. PICK k : k = Len(sims) + 1
  OBVIOUS
<1>4. PICK n : n = Len(simCalls) + 1
  OBVIOUS
<1>5. /\ sims' \in Seq(Range(sims')) /\ Len(sims') = Len(sims) + 1 /\ Len(sims) \in Nat
      /\ DOMAIN sims' = DOMAIN sims \cup {k} /\ k \notin DOMAIN sims /\ sims'[k] = {}
      /\ \A j \in DOMAIN sims : sims'[j] = sims[j]
  BY <1>1, <1>2, <1>3, AppendAny DEF SimTypes
<1>6. /\ simCalls' \in Seq(Range(simCalls'))
      /\ DOMAIN simCalls' = DOMAIN simCalls \cup {n} /\ n \notin DOMAIN simCalls
      /\ simCalls'[n] = [kind |-> "start", at |-> "clients", of |-> k, next |-> 1]
      /\ \A c \in DOMAIN simCalls : simCalls'[c] = simCalls[c]
      /\ simOverlaps' = IF SimPending = {} THEN simOverlaps ELSE simOverlaps + 1
      /\ SimPending' = SimPending \cup {n}
  <2> DEFINE x == [kind |-> "start", at |-> "clients", of |-> k, next |-> 1]
  <2>1. /\ simCalls' = Append(simCalls, x) /\ x.at = "clients"
        /\ simOverlaps' = IF SimPending = {} THEN simOverlaps ELSE simOverlaps + 1
    BY <1>1, <1>2, <1>3 DEF SimCall, SimTypes
  <2> HIDE DEF x
  <2>2. /\ simCalls' \in Seq(Range(simCalls'))
        /\ DOMAIN simCalls' = DOMAIN simCalls \cup {n} /\ n \notin DOMAIN simCalls
        /\ simCalls'[n] = x
        /\ \A c \in DOMAIN simCalls : simCalls'[c] = simCalls[c]
        /\ SimPending' = IF x.at = "done" THEN SimPending ELSE SimPending \cup {n}
    BY <1>1, <1>4, <2>1, CallMade
  <2>3. QED BY <2>1, <2>2 DEF x
<1>7. SimTypes'
  <2>1. sim' \in 0 .. Len(sims') /\ simOverlaps' \in Nat
    BY <1>1, <1>2, <1>5, <1>6 DEF SimTypes
  <2>2. \A c \in DOMAIN simCalls' :
         /\ {"kind", "at", "of", "next"} \subseteq DOMAIN simCalls'[c]
         /\ simCalls'[c].next \in Nat \ {0}
         /\ simCalls'[c].kind = "start" => simCalls'[c].at \in {"clients", "done"}
         /\ simCalls'[c].at = "clients" => simCalls'[c].of \in DOMAIN sims'
    BY <1>1, <1>5, <1>6 DEF SimTypes
  <2>3. loops' \in Seq(Range(loops')) /\ task' \in 0 .. Len(loops') /\ simFailures' \in Nat
    BY <1>1, <1>2 DEF SimTypes
  <2>4. QED BY <1>5, <1>6, <2>1, <2>2, <2>3 DEF SimTypes
<1>8. Held' \subseteq Held \cup {k}
  BY <1>5, <1>6 DEF Held, IsStarting
<1>9. /\ IsFiniteSet(Held) /\ IsFiniteSet(Held') /\ Owed \in Nat /\ Owed' \in Nat
      /\ Cardinality(Held) \in Nat
  <2>1. IsFiniteSet(Held) /\ Owed \in Nat /\ Cardinality(Held) \in Nat
    BY <1>1, SimFacts, FS_CardinalityType
  <2>2. IsFiniteSet(Held')
    BY <1>8, <2>1, FS_AddElement, FS_Subset
  <2>3. Owed' \in Nat
    <3>1. PICK a \in Nat, b \in Nat : simOverlaps' = a /\ simFailures' = b
      BY <1>7 DEF SimTypes
    <3>2. QED BY <3>1 DEF Owed
  <2>4. QED BY <2>1, <2>2, <2>3
<1>10. CASE SimPending # {}
  <2>1. Owed' = Owed + 2
    BY <1>1, <1>2, <1>6, <1>10 DEF Owed, SimTypes
  <2>2. Cardinality(Held) <= Owed + 1
    <3>1. /\ Cardinality(Held \ {sim}) \in Nat /\ IsFiniteSet(Held \ {sim})
          /\ Cardinality(Held) <= Cardinality(Held \ {sim}) + 1
      <4>1. IsFiniteSet(Held \ {sim}) /\ Cardinality(Held \ {sim}) \in Nat
        BY <1>9, FS_RemoveElement, FS_CardinalityType
      <4>2. /\ Cardinality((Held \ {sim}) \cup {sim}) <= Cardinality(Held \ {sim}) + 1
            /\ Cardinality((Held \ {sim}) \cup {sim}) \in Nat
            /\ IsFiniteSet((Held \ {sim}) \cup {sim})
        BY <4>1, AddAtMostOne
      <4>3. Held \in SUBSET ((Held \ {sim}) \cup {sim})
        OBVIOUS
      <4>4. Cardinality(Held) <= Cardinality((Held \ {sim}) \cup {sim})
        BY <4>2, <4>3, FS_Subset
      <4>5. QED BY <1>9, <4>1, <4>2, <4>4
    <3>2. QED BY <1>1, <1>9, <3>1 DEF HeldInv
  <2>3. Cardinality(Held') <= Cardinality(Held) + 1 /\ Cardinality(Held') \in Nat
    <3>1. IsFiniteSet(Held \cup {k}) /\ Cardinality(Held \cup {k}) <= Cardinality(Held) + 1
          /\ Cardinality(Held \cup {k}) \in Nat
      BY <1>9, AddAtMostOne
    <3>2. Cardinality(Held') <= Cardinality(Held \cup {k}) /\ Cardinality(Held') \in Nat
      BY <1>8, <1>9, <3>1, FS_Subset, FS_CardinalityType
    <3>3. QED BY <1>9, <3>1, <3>2
  <2>4. Cardinality(Held') <= Owed' /\ Owed' # 0
    BY <1>9, <2>1, <2>2, <2>3
  <2>5. QED BY <1>7, <2>4 DEF SimulationInv, HeldInv
<1>11. CASE SimPending = {}
  <2>1. Owed' = Owed
    BY <1>2, <1>6, <1>11 DEF Owed
  <2>2. ~ Tidy
    BY <1>2, <1>11 DEF Tidy, OnAir, SimRunning
  <2>3. Cardinality(Held' \ {k}) <= Owed'
    <3>1. Held' \ {k} \in SUBSET Held
      BY <1>8
    <3>2. Cardinality(Held' \ {k}) <= Cardinality(Held) /\ Cardinality(Held' \ {k}) \in Nat
      BY <1>9, <3>1, FS_Subset, FS_CardinalityType
    <3>3. QED BY <1>1, <1>9, <2>1, <2>2, <3>2 DEF HeldInv
  <2>4. Tidy'
    <3>1. SimPending' = {n} /\ sim' = k /\ k # 0
      BY <1>2, <1>3, <1>5, <1>6, <1>11
    <3>2. 1 <= ClientCount + 1 /\ {} = 1 .. 1 - 1
      OBVIOUS
    <3>3. Stage(n)'
      BY <1>5, <1>6, <3>1, <3>2 DEF Stage
    <3>4. QED BY <3>1, <3>3 DEF Tidy
  <2>5. QED BY <1>2, <1>3, <1>7, <2>3, <2>4 DEF SimulationInv, HeldInv
<1>12. QED BY <1>10, <1>11

\* Whatever else happens holds no more, and owes no less.
Quieter ==
    /\ Held' \subseteq Held
    /\ Owed' \in Nat /\ Owed <= Owed'

\* Of _sim alone, in turn: it stays as tidy, or is given up, or something is owed.
Orderly ==
    /\ Tidy /\ Owed' = Owed => \/ Tidy' /\ sim' = sim
                               \/ AtRest' /\ sim \notin Held'
    /\ AtRest /\ Owed' = Owed => AtRest'

LEMMA QuieterHolds ==
    ASSUME SimulationInv, SimTypes', Quieter, Orderly
    PROVE  SimulationInv'
<1>1. SimTypes /\ HeldInv /\ IsFiniteSet(Held) /\ Owed \in Nat /\ Cardinality(Held) \in Nat
  BY SimFacts, FS_CardinalityType DEF SimulationInv
<1>2. Held' \in SUBSET Held /\ Owed' \in Nat /\ Owed <= Owed'
  BY DEF Quieter
<1>3. /\ Cardinality(Held') <= Cardinality(Held) /\ Cardinality(Held') \in Nat
      /\ IsFiniteSet(Held')
  BY <1>1, <1>2, FS_Subset, FS_CardinalityType
<1>4. CASE ~ Tidy
  <2>1. Cardinality(Held') <= Owed'
    BY <1>1, <1>2, <1>3, <1>4 DEF HeldInv
  <2>2. Owed' = 0 => AtRest'
    BY <1>1, <1>2, <1>4 DEF HeldInv, Orderly
  <2>3. QED BY <2>1, <2>2 DEF SimulationInv, HeldInv
<1>5. CASE Tidy
  <2>1. /\ IsFiniteSet(Held \ {sim}) /\ Cardinality(Held \ {sim}) \in Nat
        /\ Cardinality(Held \ {sim}) <= Owed /\ Cardinality(Held) <= Owed + 1
    <3>1. IsFiniteSet(Held \ {sim}) /\ Cardinality(Held \ {sim}) \in Nat
      BY <1>1, FS_RemoveElement, FS_CardinalityType
    <3>2. /\ Cardinality((Held \ {sim}) \cup {sim}) <= Cardinality(Held \ {sim}) + 1
          /\ Cardinality((Held \ {sim}) \cup {sim}) \in Nat
          /\ IsFiniteSet((Held \ {sim}) \cup {sim})
      BY <3>1, AddAtMostOne
    <3>3. Held \in SUBSET ((Held \ {sim}) \cup {sim}) /\ Held \ {sim} \in SUBSET Held
      OBVIOUS
    <3>4. /\ Cardinality(Held) <= Cardinality((Held \ {sim}) \cup {sim})
          /\ Cardinality(Held \ {sim}) <= Cardinality(Held)
      BY <1>1, <3>2, <3>3, FS_Subset
    <3>5. Cardinality(Held \ {sim}) <= Owed
      BY <1>1, <3>1, <3>4 DEF HeldInv
    <3>6. QED BY <1>1, <3>1, <3>2, <3>4, <3>5
  <2>2. CASE Owed' # Owed
    <3>1. Cardinality(Held') <= Owed' /\ Owed' # 0
      BY <1>1, <1>2, <1>3, <2>1, <2>2
    <3>2. QED BY <3>1 DEF SimulationInv, HeldInv
  <2>3. CASE Owed' = Owed
    <3>1. CASE Tidy' /\ sim' = sim
      <4>1. Held' \ {sim} \in SUBSET (Held \ {sim})
        BY <1>2
      <4>2. /\ Cardinality(Held' \ {sim}) <= Cardinality(Held \ {sim})
            /\ Cardinality(Held' \ {sim}) \in Nat
        BY <2>1, <4>1, FS_Subset, FS_CardinalityType
      <4>3. Cardinality(Held' \ {sim'}) <= Owed'
        BY <1>1, <2>1, <2>3, <3>1, <4>2
      <4>4. QED BY <3>1, <4>3 DEF SimulationInv, HeldInv
    <3>2. CASE AtRest' /\ sim \notin Held'
      <4>1. Held' \in SUBSET (Held \ {sim})
        BY <1>2, <3>2
      <4>2. Cardinality(Held') <= Cardinality(Held \ {sim})
        BY <2>1, <4>1, FS_Subset
      <4>3. Cardinality(Held') <= Owed'
        BY <1>1, <1>3, <2>1, <2>3, <4>2
      <4>4. QED BY <3>2, <4>3 DEF SimulationInv, HeldInv
    <3>3. QED BY <1>5, <2>3, <3>1, <3>2 DEF Orderly
  <2>4. QED BY <2>2, <2>3
<1>6. QED BY <1>4, <1>5

\* The calls of stop.
LEMMA StopBeginsKeeps ==
    ASSUME SimTypes, StopTask \/ StopRaises \/ StopWithoutTask
    PROVE  SimTypes' /\ Quieter /\ Orderly
<1>1. PICK where, of :
        /\ where \in {"clients", "task", "done"} /\ SimCall("stop", where, of)
        /\ UNCHANGED <<sims, sim, task, simFailures>>
        /\ \/ /\ task # 0 /\ where = "task" /\ of = task
              /\ loops' = [loops EXCEPT ![task] = IF @ = "runs" THEN "cancelling" ELSE @]
           \/ task # 0 /\ loops[task] = "died" /\ where = "done" /\ loops' = loops
           \/ /\ task = 0 /\ loops' = loops
              /\ sim = 0 => where = "done"
              /\ where \in {"clients", "done"} /\ of = sim
  <2>1. CASE StopTask
    <3>1. /\ SimCall("stop", "task", task) /\ task # 0
          /\ UNCHANGED <<sims, sim, task, simFailures>>
          /\ loops' = [loops EXCEPT ![task] = IF @ = "runs" THEN "cancelling" ELSE @]
      BY <2>1 DEF StopTask
    <3>2. QED BY <3>1
  <2>2. CASE StopRaises
    <3>1. /\ SimCall("stop", "done", 0) /\ task # 0 /\ loops[task] = "died"
          /\ UNCHANGED <<sims, sim, task, simFailures, loops>>
      BY <2>2 DEF StopRaises, managerVars
    <3>2. QED BY <3>1
  <2>3. CASE StopWithoutTask
    <3>1. /\ SimCall("stop", IF sim = 0 THEN "done" ELSE "clients", sim) /\ task = 0
          /\ UNCHANGED <<sims, sim, task, simFailures, loops>>
      BY <2>3 DEF StopWithoutTask, managerVars
    <3>2. CASE sim = 0
      BY <3>1, <3>2
    <3>3. CASE sim # 0
      BY <3>1, <3>3
    <3>4. QED BY <3>2, <3>3
  <2>4. QED BY <2>1, <2>2, <2>3
<1>2. PICK n : n = Len(simCalls) + 1
  OBVIOUS
<1>3. /\ simCalls' \in Seq(Range(simCalls'))
      /\ DOMAIN simCalls' = DOMAIN simCalls \cup {n} /\ n \notin DOMAIN simCalls
      /\ simCalls'[n] = [kind |-> "stop", at |-> where, of |-> of, next |-> 1]
      /\ \A c \in DOMAIN simCalls : simCalls'[c] = simCalls[c]
      /\ simOverlaps' = IF SimPending = {} THEN simOverlaps ELSE simOverlaps + 1
      /\ SimPending' = IF where = "done" THEN SimPending ELSE SimPending \cup {n}
  <2> DEFINE x == [kind |-> "stop", at |-> where, of |-> of, next |-> 1]
  <2>1. /\ simCalls' = Append(simCalls, x) /\ x.at = where
        /\ simOverlaps' = IF SimPending = {} THEN simOverlaps ELSE simOverlaps + 1
    BY <1>1 DEF SimCall, SimTypes
  <2> HIDE DEF x
  <2>2. /\ simCalls' \in Seq(Range(simCalls'))
        /\ DOMAIN simCalls' = DOMAIN simCalls \cup {n} /\ n \notin DOMAIN simCalls
        /\ simCalls'[n] = x
        /\ \A c \in DOMAIN simCalls : simCalls'[c] = simCalls[c]
        /\ SimPending' = IF x.at = "done" THEN SimPending ELSE SimPending \cup {n}
    BY <1>2, <2>1, CallMade
  <2>3. QED BY <2>1, <2>2 DEF x
<1>4. /\ loops' \in Seq(Range(loops')) /\ Len(loops') = Len(loops) /\ Len(loops) \in Nat
      /\ task # 0 /\ where = "task" => loops'[task] = IF loops[task] = "runs" THEN "cancelling" ELSE loops[task]
  <2>1. CASE loops' = loops
    BY <1>1, <2>1, SimFacts DEF SimTypes
  <2>2. CASE /\ task # 0 /\ where = "task" /\ of = task
             /\ loops' = [loops EXCEPT ![task] = IF @ = "runs" THEN "cancelling" ELSE @]
    <3> DEFINE x == IF loops[task] = "runs" THEN "cancelling" ELSE loops[task]
    <3>1. task \in DOMAIN loops /\ loops \in Seq(Range(loops))
      BY <2>2, SimFacts DEF SimTypes
    <3>2. loops' = [loops EXCEPT ![task] = x]
      BY <2>2
    <3> HIDE DEF x
    <3>3. /\ loops' \in Seq(Range(loops')) /\ DOMAIN loops' = DOMAIN loops /\ loops'[task] = x
      BY <3>1, <3>2, OneChanged
    <3>4. Len(loops') \in Nat /\ DOMAIN loops' = 1 .. Len(loops')
      BY <3>3, LenProperties
    <3>5. Len(loops') = Len(loops)
      BY <3>3, <3>4, SimFacts
    <3>6. QED BY <3>3, <3>5, SimFacts DEF x
  <2>3. QED BY <1>1, <2>1, <2>2
<1>m. PICK more : more = IF SimPending = {} THEN simOverlaps ELSE simOverlaps + 1
  OBVIOUS
<1>5. /\ simOverlaps' = more /\ more \in Nat /\ simOverlaps <= more
      /\ simFailures' = simFailures
      /\ SimPending # {} => more # simOverlaps
  <2>1. simOverlaps \in Nat
    BY DEF SimTypes
  <2>2. more \in Nat /\ simOverlaps <= more /\ (SimPending # {} => more # simOverlaps)
    BY <1>m, <2>1
  <2>3. simOverlaps' = more /\ simFailures' = simFailures
    BY <1>1, <1>3, <1>m
  <2>4. QED BY <2>2, <2>3
<1>6. SimTypes'
  <2>1. \A c \in DOMAIN simCalls' :
         /\ {"kind", "at", "of", "next"} \subseteq DOMAIN simCalls'[c]
         /\ simCalls'[c].next \in Nat \ {0}
         /\ simCalls'[c].kind = "start" => simCalls'[c].at \in {"clients", "done"}
         /\ simCalls'[c].at = "clients" => simCalls'[c].of \in DOMAIN sims'
    <3>1. where = "clients" => of \in DOMAIN sims
      BY <1>1, SimFacts DEF SimTypes
    <3>2. QED BY <1>1, <1>3, <3>1 DEF SimTypes
  <2>2. QED BY <1>1, <1>3, <1>4, <1>5, <2>1 DEF SimTypes
<1>7. Quieter
  <2>1. Held' \subseteq Held
    BY <1>1, <1>3 DEF Held, IsStarting
  <2>2. Owed' \in Nat /\ Owed <= Owed'
    BY <1>5 DEF Owed, SimTypes
  <2>3. QED BY <2>1, <2>2 DEF Quieter
<1>8. Owed' = Owed => SimPending = {}
  BY <1>5 DEF Owed, SimTypes
<1>9. ASSUME Tidy, SimPending = {} PROVE Tidy' /\ sim' = sim
  <2>1. /\ OnAir /\ where = "task" /\ of = task /\ task # 0 /\ sim # 0
        /\ loops[task] = "runs" /\ sims[sim] = Clients
    BY <1>1, <1>9 DEF Tidy, OnAir
  <2>2. SimPending' = {n} /\ Stage(n)'
    BY <1>1, <1>3, <1>4, <1>9, <2>1 DEF Stage, Clients
  <2>3. QED BY <1>1, <2>1, <2>2 DEF Tidy
<1>10. ASSUME AtRest PROVE AtRest'
  BY <1>1, <1>3, <1>10 DEF AtRest
<1>11. QED BY <1>6, <1>7, <1>8, <1>9, <1>10 DEF Orderly

\* The steps of the loop tasks.
LEMMA LoopsKeep ==
    ASSUME SimTypes, NEW l \in DOMAIN loops, LoopTick(l) \/ LoopDies(l) \/ LoopCancelled(l)
    PROVE  SimTypes' /\ Quieter /\ Orderly
<1>1. PICK x : /\ loops' = [loops EXCEPT ![l] = x]
               /\ UNCHANGED <<sims, sim, task, simCalls, simOverlaps>>
               /\ \/ /\ loops[l] = "runs" /\ (sim = 0 \/ sims[sim] # Clients)
                     /\ simFailures' = simFailures
                  \/ simFailures' = simFailures + 1
                  \/ loops[l] = "cancelling" /\ x = "cancelled" /\ simFailures' = simFailures
  BY DEF LoopTick, LoopDies, LoopCancelled
<1>2. /\ loops' \in Seq(Range(loops')) /\ DOMAIN loops' = DOMAIN loops /\ loops'[l] = x
      /\ \A k \in DOMAIN loops : k # l => loops'[k] = loops[k]
  BY <1>1, OneChanged DEF SimTypes
<1>3. SimTypes'
  <2>1. Len(loops') = Len(loops)
    BY <1>2, LenProperties, SimFacts
  <2>2. simFailures' \in Nat
    BY <1>1 DEF SimTypes
  <2>3. QED BY <1>1, <1>2, <2>1, <2>2 DEF SimTypes
<1>4. SimPending' = SimPending /\ Held' = Held
  BY <1>1 DEF SimPending, Held, IsStarting
<1>5. Quieter
  <2>1. Owed' \in Nat /\ Owed <= Owed'
    <3>1. PICK more : simFailures' = more /\ more \in Nat /\ simFailures <= more
      BY <1>1 DEF SimTypes
    <3>2. simOverlaps \in Nat /\ simFailures \in Nat /\ simOverlaps' = simOverlaps
      BY <1>1 DEF SimTypes
    <3>3. QED BY <3>1, <3>2, OwedGrows DEF Owed
  <2>2. QED BY <1>4, <2>1 DEF Quieter
<1>6. Owed' = Owed => simFailures' = simFailures
  BY <1>1 DEF Owed, SimTypes
<1>7. task # 0 => task \in DOMAIN loops
  BY SimFacts DEF SimTypes
<1>8. ASSUME Tidy, simFailures' = simFailures PROVE Tidy' /\ sim' = sim
  <2>1. simFailures' # simFailures + 1
    BY <1>8 DEF SimTypes
  <2>2. CASE OnAir
    <3>1. l # task
      BY <1>1, <1>8, <2>1, <2>2 DEF OnAir, Tidy
    <3>2. OnAir'
      BY <1>1, <1>2, <1>4, <1>7, <2>2, <3>1 DEF OnAir
    <3>3. QED BY <1>1, <1>8, <3>2 DEF Tidy
  <2>3. CASE ~ OnAir
    <3>1. PICK c \in SimPending : SimPending = {c} /\ Stage(c)
      BY <1>8, <2>3 DEF Tidy
    <3>2. task # 0 /\ loops[task] \in {"cancelling", "cancelled"} =>
            loops'[task] \in {"cancelling", "cancelled"}
      BY <1>1, <1>2, <1>7, <2>1
    <3>3. Stage(c)'
      BY <1>1, <3>1, <3>2 DEF Stage, Clients
    <3>4. QED BY <1>1, <1>4, <1>8, <3>1, <3>3 DEF Tidy
  <2>4. QED BY <2>2, <2>3
<1>9. ASSUME AtRest PROVE AtRest'
  BY <1>1, <1>4, <1>9 DEF AtRest
<1>10. QED BY <1>3, <1>5, <1>6, <1>8, <1>9 DEF Orderly

\* What a call needs to show as it goes on from one step to the next.
LEMMA CallKeeps ==
    ASSUME SimTypes, NEW c \in SimPending, NEW x, simCalls' = [simCalls EXCEPT ![c] = x],
           {"kind", "at", "of", "next"} \subseteq DOMAIN x, x.next \in Nat \ {0},
           x.kind = simCalls[c].kind, x.kind = "start" => x.at \in {"clients", "done"},
           x.kind = "start" /\ x.at = "clients" => x.of = simCalls[c].of,
           x.at = "clients" => x.of \in DOMAIN sims,
           sims' \in Seq(Range(sims')), Len(sims') = Len(sims),
           \A k \in DOMAIN sims : sims'[k] # {} => k \in Held,
           loops' \in Seq(Range(loops')), sim' \in 0 .. Len(sims'), task' \in 0 .. Len(loops'),
           simOverlaps' = simOverlaps,
           simFailures' = simFailures \/ simFailures' = simFailures + 1,
           simFailures' = simFailures /\ Stage(c) /\ SimPending = {c} /\ sim # 0 =>
             \/ x.at # "done" /\ Stage(c)' /\ sim' = sim
             \/ /\ x.at = "done" /\ sim' = sim
                /\ task' # 0 /\ loops'[task'] = "runs" /\ sims'[sim] = Clients
             \/ x.at = "done" /\ sim' = 0 /\ task' = 0 /\ sims'[sim] = {}
    PROVE  SimTypes' /\ Quieter /\ Orderly
<1>1. /\ simCalls' \in Seq(Range(simCalls'))
      /\ DOMAIN simCalls' = DOMAIN simCalls /\ c \in DOMAIN simCalls /\ simCalls'[c] = x
      /\ \A d \in DOMAIN simCalls : d # c => simCalls'[d] = simCalls[d]
      /\ SimPending' = IF x.at = "done" THEN SimPending \ {c} ELSE SimPending
  BY CallChanged
<1>2. PICK more : /\ simFailures' = more /\ more \in Nat /\ simFailures <= more
                  /\ (more = simFailures \/ more = simFailures + 1)
  BY DEF SimTypes
<1>3. SimTypes'
  <2>1. \A d \in DOMAIN simCalls' :
         /\ {"kind", "at", "of", "next"} \subseteq DOMAIN simCalls'[d]
         /\ simCalls'[d].next \in Nat \ {0}
         /\ simCalls'[d].kind = "start" => simCalls'[d].at \in {"clients", "done"}
         /\ simCalls'[d].at = "clients" => simCalls'[d].of \in DOMAIN sims'
    <3>1. DOMAIN sims' = DOMAIN sims
      BY LenProperties, SimFacts
    <3>2. QED BY <1>1, <3>1 DEF SimTypes
  <2>2. simOverlaps' \in Nat /\ simFailures' \in Nat
    BY <1>2 DEF SimTypes
  <2>3. QED BY <1>1, <2>1, <2>2 DEF SimTypes
<1>4. \A k : IsStarting(k)' => IsStarting(k)
  <2> SUFFICES ASSUME NEW k, NEW d \in DOMAIN simCalls, simCalls'[d].kind = "start",
                      simCalls'[d].at = "clients", simCalls'[d].of = k
               PROVE  IsStarting(k)
    BY <1>1 DEF IsStarting
  <2>1. CASE d # c
    BY <1>1, <2>1 DEF IsStarting
  <2>2. CASE d = c
    <3>1. simCalls[c].kind = "start" /\ simCalls[c].of = k
      BY <1>1, <2>2
    <3>2. simCalls[c].at = "clients"
      BY <1>1, <3>1 DEF SimTypes, SimPending
    <3>3. QED BY <1>1, <3>1, <3>2 DEF IsStarting
  <2>3. QED BY <2>1, <2>2
<1>5. Held' \subseteq Held
  <2>1. DOMAIN sims' = DOMAIN sims
    BY LenProperties, SimFacts
  <2>2. QED BY <1>4, <2>1 DEF Held
<1>6. Quieter
  <2>1. Owed' \in Nat /\ Owed <= Owed'
    <3>1. /\ simOverlaps \in Nat /\ simOverlaps' = simOverlaps /\ simFailures \in Nat
      BY DEF SimTypes
    <3>2. QED BY <1>2, <3>1, OwedGrows DEF Owed
  <2>2. QED BY <1>5, <2>1 DEF Quieter
<1>7. Owed' = Owed => simFailures' = simFailures
  <2>1. simOverlaps \in Nat /\ simFailures \in Nat /\ simOverlaps' = simOverlaps
    BY DEF SimTypes
  <2>2. QED BY <1>2, <2>1, OwedGrows DEF Owed
<1>8. ASSUME Tidy, simFailures' = simFailures
      PROVE  (Tidy' /\ sim' = sim) \/ (AtRest' /\ sim \notin Held')
  <2>1. SimPending = {c} /\ Stage(c) /\ sim # 0
    BY <1>8 DEF Tidy, OnAir
  <2>2. CASE x.at # "done" /\ Stage(c)' /\ sim' = sim
    <3>1. SimPending' = {c} /\ sim' # 0
      BY <1>1, <2>1, <2>2
    <3>2. Tidy'
      BY <2>2, <3>1 DEF Tidy
    <3>3. QED BY <2>2, <3>2
  <2>3. CASE /\ x.at = "done" /\ sim' = sim
             /\ task' # 0 /\ loops'[task'] = "runs" /\ sims'[sim] = Clients
    <3>1. SimPending' = {}
      BY <1>1, <2>1, <2>3
    <3>2. OnAir'
      BY <2>3, <3>1 DEF OnAir, Clients
    <3>3. sim' # 0
      BY <2>1, <2>3
    <3>4. Tidy'
      BY <3>2, <3>3 DEF Tidy
    <3>5. QED BY <2>3, <3>4
  <2>4. CASE x.at = "done" /\ sim' = 0 /\ task' = 0 /\ sims'[sim] = {}
    <3>1. SimPending' = {}
      BY <1>1, <2>1, <2>4
    <3>2. PICK k : k = sim
      OBVIOUS
    <3>3. \A d \in DOMAIN simCalls' : simCalls'[d].at # "clients"
      BY <1>1, <3>1 DEF SimPending
    <3>4. ~ IsStarting(k)'
      BY <3>3 DEF IsStarting
    <3>5. sim \notin Held'
      BY <2>4, <3>2, <3>4 DEF Held
    <3>6. AtRest'
      BY <2>4, <3>1 DEF AtRest
    <3>7. QED BY <3>5, <3>6
  <2>5. QED BY <1>8, <2>1, <2>2, <2>3, <2>4
<1>9. ~ AtRest
  BY DEF AtRest
<1>10. QED BY <1>3, <1>6, <1>7, <1>8, <1>9 DEF Orderly

LEMMA CallsKeep ==
    ASSUME SimTypes, NEW c \in SimPending,
           \/ StartClient(c)
           \/ StartClientFails(c)
           \/ CreateLoop(c)
           \/ TaskEnded(c)
           \/ StopClient(c)
           \/ StopEnds(c)
    PROVE  SimTypes' /\ Quieter /\ Orderly
<1> USE SimAssumptions
<1> DEFINE q == simCalls[c]
           went == [q EXCEPT !.at = "done"]
           further == [q EXCEPT !.next = @ + 1]
<1>1. /\ c \in DOMAIN simCalls /\ {"kind", "at", "of", "next"} \subseteq DOMAIN q
      /\ q.next \in Nat \ {0} /\ (q.kind = "start" => q.at \in {"clients", "done"})
      /\ (q.at = "clients" => q.of \in DOMAIN sims)
      /\ sims \in Seq(Range(sims)) /\ loops \in Seq(Range(loops))
      /\ sim \in 0 .. Len(sims) /\ task \in 0 .. Len(loops)
      /\ Len(sims) \in Nat /\ Len(loops) \in Nat /\ DOMAIN sims = 1 .. Len(sims)
  BY SimFacts DEF SimTypes, SimPending
<1>2. /\ {"kind", "at", "of", "next"} \subseteq DOMAIN went
      /\ went.at = "done" /\ went.kind = q.kind /\ went.next = q.next /\ went.of = q.of
  BY <1>1
<1>3. /\ {"kind", "at", "of", "next"} \subseteq DOMAIN further
      /\ further.at = q.at /\ further.kind = q.kind /\ further.next = q.next + 1
      /\ further.of = q.of /\ further.next \in Nat \ {0}
  BY <1>1
<1>h. q.kind = "start" /\ q.at = "clients" => q.of \in Held
  BY <1>1 DEF Held, IsStarting
<1>k. \A k \in DOMAIN sims : sims[k] # {} => k \in Held
  BY DEF Held
<1> HIDE DEF went, further
\* A client more or less of the simulation at hand.
<1>4. ASSUME NEW running, sims' = [sims EXCEPT ![q.of] = running], q.at = "clients",
             running # {} => q.of \in Held
      PROVE  /\ sims' \in Seq(Range(sims')) /\ Len(sims') = Len(sims) /\ sims'[q.of] = running
             /\ \A k \in DOMAIN sims : sims'[k] # {} => k \in Held
  <2> DEFINE p == [sims EXCEPT ![q.of] = running]
  <2>a. q.of \in DOMAIN sims /\ sims \in Seq(Range(sims))
    BY <1>1, <1>4
  <2>p. /\ p \in Seq(Range(p)) /\ DOMAIN p = DOMAIN sims /\ p[q.of] = running
        /\ \A k \in DOMAIN sims : k # q.of => p[k] = sims[k]
    BY <2>a, OneChanged
  <2> HIDE DEF p
  <2>1. /\ sims' \in Seq(Range(sims')) /\ DOMAIN sims' = DOMAIN sims /\ sims'[q.of] = running
        /\ \A k \in DOMAIN sims : k # q.of => sims'[k] = sims[k]
    BY <1>4, <2>p DEF p
  <2>2. Len(sims') \in Nat /\ DOMAIN sims' = 1 .. Len(sims')
    BY <2>1, LenProperties
  <2>3. Len(sims') = Len(sims)
    BY <1>1, <2>1, <2>2
  <2>4. QED BY <1>k, <1>4, <2>1, <2>3
<1>5. CASE StartClient(c)
  <2> DEFINE running == sims[q.of] \cup {q.next}
  <2>1. /\ q.at = "clients" /\ q.kind = "start" /\ q.next \in Clients
        /\ sims' = [sims EXCEPT ![q.of] = running]
        /\ simCalls' = [simCalls EXCEPT ![c] = further]
        /\ UNCHANGED <<sim, task, loops, simOverlaps, simFailures>>
    BY <1>5 DEF StartClient, CallAt, further
  <2>2. /\ sims' \in Seq(Range(sims')) /\ Len(sims') = Len(sims) /\ sims'[q.of] = running
        /\ \A k \in DOMAIN sims : sims'[k] # {} => k \in Held
    BY <1>4, <1>h, <2>1
  <2>3. ASSUME Stage(c), sim # 0 PROVE Stage(c)'
    <3>1. q.of = sim /\ sims[sim] = 1 .. q.next - 1
      BY <2>1, <2>3 DEF Stage
    <3>n. PICK next \in Nat \ {0} : next = q.next /\ next <= ClientCount
      BY <1>1, <2>1, SimAssumptions DEF Clients
    <3>2. /\ 1 .. next = (1 .. next - 1) \cup {next} /\ next + 1 <= ClientCount + 1
          /\ next + 1 - 1 = next
      BY <3>n, SimAssumptions
    <3>3. sims'[sim'] = 1 .. further.next - 1 /\ further.next <= ClientCount + 1
      BY <1>3, <2>1, <2>2, <3>1, <3>2, <3>n
    <3>4. simCalls'[c] = further
      BY <2>1, CallChanged
    <3>5. QED BY <1>3, <2>1, <3>1, <3>3, <3>4 DEF Stage
  <2>4. further.at # "done"
    BY <1>3, <2>1
  <2>5. /\ sim' \in 0 .. Len(sims') /\ task' \in 0 .. Len(loops') /\ loops' \in Seq(Range(loops'))
        /\ further.kind = "start" => further.at \in {"clients", "done"}
    BY <1>1, <1>3, <2>1, <2>2
  <2>6. QED BY <1>1, <1>3, <2>1, <2>2, <2>3, <2>4, <2>5, CallKeeps
<1>6. CASE StartClientFails(c)
  <2>1. /\ simCalls' = [simCalls EXCEPT ![c] = went] /\ simFailures' = simFailures + 1
        /\ UNCHANGED <<sims, sim, task, loops, simOverlaps>>
    BY <1>6 DEF StartClientFails, CallGoes, managerVars, went
  <2>2. simFailures' # simFailures
    BY <2>1 DEF SimTypes
  <2>3. QED BY <1>1, <1>2, <1>k, <2>1, <2>2, CallKeeps
<1>7. CASE CreateLoop(c)
  <2>1. /\ q.at = "clients" /\ q.kind = "start" /\ q.next \notin Clients
        /\ loops' = Append(loops, "runs") /\ task' = Len(loops')
        /\ simCalls' = [simCalls EXCEPT ![c] = went]
        /\ UNCHANGED <<sims, sim, simOverlaps, simFailures>>
    BY <1>7 DEF CreateLoop, CallAt, CallGoes, went
  <2>2. /\ loops' \in Seq(Range(loops')) /\ Len(loops') = Len(loops) + 1
        /\ loops'[Len(loops) + 1] = "runs"
    BY <1>1, <2>1, AppendAny
  <2>3. /\ task' # 0 /\ loops'[task'] = "runs" /\ task' \in 0 .. Len(loops')
    BY <1>1, <2>1, <2>2
  <2>4. ASSUME Stage(c) PROVE sims'[sim] = Clients
    <3>1. sims[sim] = 1 .. q.next - 1 /\ q.next <= ClientCount + 1
      BY <2>1, <2>4 DEF Stage
    <3>2. q.next - 1 = ClientCount
      BY <1>1, <2>1, <3>1 DEF Clients
    <3>3. QED BY <2>1, <3>1, <3>2 DEF Clients
  <2>5. QED BY <1>1, <1>2, <1>k, <2>1, <2>2, <2>3, <2>4, CallKeeps
<1>8. CASE TaskEnded(c)
  <2> DEFINE led == [q EXCEPT !.at = IF sim = 0 THEN "done" ELSE "clients"]
             x == [led EXCEPT !.of = sim]
  <2>1. /\ q.at = "task" /\ task' = 0
        /\ UNCHANGED <<sims, sim, loops, simOverlaps, simFailures>>
    BY <1>8 DEF TaskEnded, CallAt
  <2>2. simCalls' = [simCalls EXCEPT ![c] = x]
    BY <1>1, <1>8 DEF TaskEnded
  <2>3. /\ {"kind", "at", "of", "next"} \subseteq DOMAIN led /\ led.kind = q.kind
        /\ led.next = q.next /\ led.at = IF sim = 0 THEN "done" ELSE "clients"
    BY <1>1
  <2> HIDE DEF led
  <2>4. /\ {"kind", "at", "of", "next"} \subseteq DOMAIN x /\ x.kind = q.kind
        /\ x.next = q.next /\ x.at = (IF sim = 0 THEN "done" ELSE "clients") /\ x.of = sim
    BY <2>3
  <2> HIDE DEF x
  <2>5. q.kind # "start"
    BY <1>1, <2>1
  <2>6. ASSUME Stage(c), sim # 0 PROVE Stage(c)'
    <3>1. q.kind = "stop" /\ q.next = 1 /\ sims[sim] = Clients
      BY <2>1, <2>6 DEF Stage
    <3>2. simCalls'[c] = x
      BY <2>2, CallChanged
    <3>3. QED BY <2>1, <2>4, <2>6, <3>1, <3>2 DEF Stage, Clients
  <2>7. /\ x.at = "clients" => x.of \in DOMAIN sims
        /\ sim # 0 => x.at # "done"
        /\ task' \in 0 .. Len(loops') /\ sim' \in 0 .. Len(sims')
    BY <1>1, <2>1, <2>4
  <2>8. QED BY <1>1, <1>k, <2>1, <2>2, <2>4, <2>5, <2>6, <2>7, CallKeeps
<1>9. CASE StopClient(c)
  <2> DEFINE running == sims[q.of] \ {q.next}
  <2>1. /\ q.at = "clients" /\ q.kind = "stop" /\ q.next \in Clients
        /\ sims' = [sims EXCEPT ![q.of] = running]
        /\ simCalls' = [simCalls EXCEPT ![c] = further]
        /\ UNCHANGED <<sim, task, loops, simOverlaps, simFailures>>
    BY <1>9 DEF StopClient, CallAt, further
  <2>2. /\ sims' \in Seq(Range(sims')) /\ Len(sims') = Len(sims) /\ sims'[q.of] = running
        /\ \A k \in DOMAIN sims : sims'[k] # {} => k \in Held
    BY <1>1, <1>4, <1>k, <2>1
  <2>3. ASSUME Stage(c), sim # 0 PROVE Stage(c)'
    <3>1. q.of = sim /\ sims[sim] = q.next .. ClientCount /\ task = 0
      BY <2>1, <2>3 DEF Stage
    <3>2. (q.next .. ClientCount) \ {q.next} = (q.next + 1) .. ClientCount
      BY <1>1, <2>1 DEF Clients
    <3>3. sims'[sim'] = further.next .. ClientCount
      BY <1>3, <2>1, <2>2, <3>1, <3>2
    <3>4. simCalls'[c] = further
      BY <2>1, CallChanged
    <3>5. QED BY <1>3, <2>1, <3>1, <3>3, <3>4 DEF Stage
  <2>4. further.at # "done" /\ further.kind # "start"
    BY <1>3, <2>1
  <2>5. /\ sim' \in 0 .. Len(sims') /\ task' \in 0 .. Len(loops') /\ loops' \in Seq(Range(loops'))
    BY <1>1, <2>1, <2>2
  <2>6. QED BY <1>1, <1>3, <2>1, <2>2, <2>3, <2>4, <2>5, CallKeeps
<1>10. CASE StopEnds(c)
  <2>1. /\ q.at = "clients" /\ q.kind = "stop" /\ q.next \notin Clients /\ sim' = 0
        /\ simCalls' = [simCalls EXCEPT ![c] = went]
        /\ UNCHANGED <<sims, task, loops, simOverlaps, simFailures>>
    BY <1>10 DEF StopEnds, CallAt, CallGoes, went
  <2>2. ASSUME Stage(c) PROVE sims'[sim] = {} /\ task' = 0
    <3>1. sims[sim] = q.next .. ClientCount /\ task = 0
      BY <2>1, <2>2 DEF Stage
    <3>2. q.next .. ClientCount = {}
      BY <1>1, <2>1 DEF Clients
    <3>3. QED BY <2>1, <3>1, <3>2
  <2>3. sim' \in 0 .. Len(sims')
    BY <1>1, <2>1
  <2>4. QED BY <1>1, <1>2, <1>k, <2>1, <2>2, <2>3, CallKeeps
<1>11. QED BY <1>5, <1>6, <1>7, <1>8, <1>9, <1>10

LEMMA NextSimulationInv == SimulationInv /\ [SimNext]_simVars => SimulationInv'
<1> SUFFICES ASSUME SimulationInv, [SimNext]_simVars PROVE SimulationInv'
  OBVIOUS
<1>1. SimTypes
  BY DEF SimulationInv
<1>2. CASE UNCHANGED simVars
  <2>1. UNCHANGED <<sims, sim, task, loops, simCalls, simOverlaps, simFailures>>
    BY <1>2 DEF simVars, managerVars
  <2>2. Held' = Held /\ SimPending' = SimPending /\ Owed' = Owed
    BY <2>1 DEF Held, IsStarting, SimPending, Owed
  <2>3. \A c \in SimPending : Stage(c)' <=> Stage(c)
    BY <2>1 DEF Stage, Clients
  <2>4. (Tidy' <=> Tidy) /\ (AtRest' <=> AtRest)
    BY <2>1, <2>2, <2>3 DEF Tidy, OnAir, AtRest, Clients
  <2>5. SimTypes'
    BY <1>1, <2>1 DEF SimTypes
  <2>6. QED BY <2>1, <2>2, <2>4, <2>5 DEF SimulationInv, HeldInv
<1>3. CASE SimNext
  <2>1. CASE StartSimulation
    BY <2>1, StartHolds
  <2>2. CASE StopTask \/ StopRaises \/ StopWithoutTask
    BY <1>1, <2>2, StopBeginsKeeps, QuieterHolds
  <2>3. ASSUME NEW c \in SimPending,
               \/ StartClient(c)
               \/ StartClientFails(c)
               \/ CreateLoop(c)
               \/ TaskEnded(c)
               \/ StopClient(c)
               \/ StopEnds(c)
        PROVE  SimulationInv'
    BY <1>1, <2>3, CallsKeep, QuieterHolds
  <2>4. ASSUME NEW l \in DOMAIN loops, LoopTick(l) \/ LoopDies(l) \/ LoopCancelled(l)
        PROVE  SimulationInv'
    BY <1>1, <2>4, LoopsKeep, QuieterHolds
  <2>5. QED BY <1>3, <2>1, <2>2, <2>3, <2>4 DEF SimNext
<1>4. QED BY <1>2, <1>3

\* simulator/manager.py start and stop: between calls that never overlapped or
\* failed every running client belongs to _sim, all of them while the loop runs
\* and none without it; simulations that run on with nobody to stop them are no
\* more than two for each overlap and one for each failure.
THEOREM NothingRunsOn == SimSpec => []SimulationTruth
<1>1. SimulationInv => SimulationTruth
  <2> SUFFICES ASSUME SimulationInv, SimPending = {}
               PROVE  /\ simOverlaps = 0 /\ simFailures = 0 =>
                           /\ Ghosts = {}
                           /\ IF SimRunning THEN sim # 0 /\ sims[sim] = Clients ELSE sim = 0
                      /\ Cardinality(Ghosts) <= 2 * simOverlaps + simFailures
    BY DEF SimulationTruth
  <2>1. /\ SimTypes /\ HeldInv /\ IsFiniteSet(Held) /\ Cardinality(Held) \in Nat
        /\ Owed \in Nat /\ Owed = 2 * simOverlaps + simFailures
    BY SimFacts, FS_CardinalityType DEF SimulationInv, Owed
  <2>2. Ghosts \in SUBSET (Held \ {sim}) /\ Ghosts \in SUBSET Held
    BY DEF Ghosts, Held
  <2>3. IsFiniteSet(Held \ {sim}) /\ Cardinality(Held \ {sim}) \in Nat
    BY <2>1, FS_RemoveElement, FS_CardinalityType
  <2>4. /\ Cardinality(Ghosts) <= Cardinality(Held) /\ IsFiniteSet(Ghosts)
        /\ Cardinality(Ghosts) <= Cardinality(Held \ {sim}) /\ Cardinality(Ghosts) \in Nat
    BY <2>1, <2>2, <2>3, FS_Subset, FS_CardinalityType
  <2>5. Cardinality(Ghosts) <= Owed
    BY <2>1, <2>3, <2>4 DEF HeldInv
  <2>6. ASSUME simOverlaps = 0, simFailures = 0
        PROVE  /\ Ghosts = {}
               /\ IF SimRunning THEN sim # 0 /\ sims[sim] = Clients ELSE sim = 0
    <3>1. Owed = 0
      BY <2>6 DEF Owed
    <3>2. Ghosts = {}
      BY <2>4, <2>5, <3>1, FS_EmptySet
    <3>3. CASE Tidy
      BY <3>2, <3>3 DEF Tidy, OnAir, SimRunning
    <3>4. CASE AtRest
      BY <3>2, <3>4 DEF AtRest, SimRunning
    <3>5. QED BY <2>1, <3>1, <3>2, <3>3, <3>4 DEF HeldInv
  <2>7. QED BY <2>1, <2>5, <2>6
<1>2. SimSpec => []SimulationInv
  BY InitSimulationInv, NextSimulationInv, PTL DEF SimSpec
<1>3. QED BY <1>1, <1>2, PTL

-----------------------------------------------------------------------------
(* The connection matrix.  A row that is on its way, or has been recorded, *)
(* is one of a member, about members, and what it counts has only grown    *)
(* since.                                                                  *)

\* A row that m may have had by now.
RowOf(m, row) ==
    /\ m \in Members /\ DOMAIN row \subseteq Members
    /\ \A o \in DOMAIN row : row[o] \in Nat /\ row[o] <= peerCount[m][o]

GossipTypes ==
    /\ peerCount \in [Senders -> [Senders -> Nat]]
    /\ peerSeen \in [Senders -> [Senders -> Nat]]
    /\ DOMAIN remote = Members /\ now \in Nat

RowsInv ==
    /\ \A n \in Members, o \in Strangers : peerSeen[n][o] = 0
    /\ \A d \in digests : "node" \in DOMAIN d /\ "row" \in DOMAIN d
    /\ \A d \in digests : d.node \notin Strangers => RowOf(d.node, d.row)
    /\ \A n \in Members : \A m \in DOMAIN remote[n] :
         m # n /\ RowOf(m, remote[n][m].row)

GossipInv == GossipTypes /\ RowsInv

LEMMA InitGossipInv == GossipInit => GossipInv
<1> SUFFICES ASSUME GossipInit PROVE GossipInv
  OBVIOUS
<1>1. /\ peerCount = [n \in Senders |-> [o \in Senders |-> 0]] /\ peerSeen = peerCount
      /\ remote = [n \in Members |-> NoRemote] /\ digests = {} /\ now = 1
  BY DEF GossipInit
<1>2. DOMAIN NoRemote = {}
  BY DEF NoRemote
<1>3. Members \subseteq Senders /\ Strangers \subseteq Senders
  BY DEF Senders
<1>4. QED BY <1>1, <1>2, <1>3 DEF GossipInv, GossipTypes, RowsInv

\* Rows stay rows of their node as its counts grow.
LEMMA RowsStay ==
    ASSUME NEW m, NEW row, RowOf(m, row), GossipTypes, NEW more, peerCount' = more,
           more \in [Senders -> [Senders -> Nat]],
           \A n \in Members, o \in Members : peerCount[n][o] <= more[n][o]
    PROVE  RowOf(m, row)'
<1>1. /\ m \in Members /\ DOMAIN row \subseteq Members /\ Members \subseteq Senders
      /\ \A o \in DOMAIN row : row[o] \in Nat /\ row[o] <= peerCount[m][o]
  BY DEF RowOf, Senders
<1>2. ASSUME NEW o \in DOMAIN row PROVE row[o] <= more[m][o]
  <2>1. peerCount[m][o] \in Nat /\ more[m][o] \in Nat /\ peerCount[m][o] <= more[m][o]
    BY <1>1 DEF GossipTypes
  <2>2. QED BY <1>1, <2>1
<1>3. QED BY <1>1, <1>2 DEF RowOf

\* What does not touch the counts of messages keeps the rows.
LEMMA RowsKept ==
    ASSUME NEW m, NEW row, peerCount' = peerCount
    PROVE  RowOf(m, row)' <=> RowOf(m, row)
  BY DEF RowOf

LEMMA NextGossipInv == GossipInv /\ [GossipNext]_gossipVars => GossipInv'
<1> USE GossipAssumptions
<1> SUFFICES ASSUME GossipInv, [GossipNext]_gossipVars PROVE GossipInv'
  OBVIOUS
<1>1. /\ GossipTypes /\ RowsInv /\ Members \subseteq Senders
  BY DEF GossipInv, Senders
<1>2. CASE GossipTick \/ UNCHANGED gossipVars
  <2>1. UNCHANGED <<peerCount, peerSeen, remote, digests>>
    BY <1>2 DEF GossipTick, gossipVars
  <2>2. now' \in Nat
    BY <1>1, <1>2 DEF GossipTick, gossipVars, GossipTypes
  <2>3. QED BY <1>1, <2>1, <2>2, RowsKept DEF GossipInv, GossipTypes, RowsInv
<1>3. ASSUME NEW n \in Members, NEW o \in Members, HearMessage(n, o) PROVE GossipInv'
  <2> DEFINE more == [peerCount EXCEPT ![n][o] = @ + 1]
             times == [peerSeen EXCEPT ![n][o] = now]
  <2>1. /\ peerCount' = more /\ peerSeen' = times
        /\ UNCHANGED <<now, remote, digests>>
    BY <1>3 DEF HearMessage
  <2>2. more \in [Senders -> [Senders -> Nat]]
    BY <1>1 DEF GossipTypes
  <2>3. \A m \in Members, p \in Members : peerCount[m][p] <= more[m][p]
    BY <1>1 DEF GossipTypes
  <2>9. times \in [Senders -> [Senders -> Nat]]
    BY <1>1 DEF GossipTypes
  <2>4. DOMAIN times = Senders /\ \A m \in Senders, p \in Senders :
            ~ (m = n /\ p = o) => times[m][p] = peerSeen[m][p]
    BY <1>1 DEF GossipTypes
  <2> HIDE DEF more, times
  <2>5. \A m \in Members, p \in Strangers : peerSeen'[m][p] = 0
    BY <1>1, <2>1, <2>4 DEF RowsInv, Senders
  <2>6. \A d \in digests : d.node \notin Strangers => RowOf(d.node, d.row)'
    BY <1>1, <2>1, <2>2, <2>3, RowsStay DEF RowsInv
  <2>7. \A k \in Members : \A m \in DOMAIN remote[k] : RowOf(m, remote[k][m].row)'
    BY <1>1, <2>1, <2>2, <2>3, RowsStay DEF RowsInv
  <2>8. QED BY <1>1, <2>1, <2>2, <2>9, <2>5, <2>6, <2>7 DEF GossipInv, GossipTypes, RowsInv
<1>4. ASSUME NEW n \in Senders, BroadcastDigest(n) PROVE GossipInv'
  <2> DEFINE d == [node |-> n, row |-> OwnRow(n), at |-> now]
  <2>1. digests' = digests \cup {d} /\ UNCHANGED <<now, peerCount, peerSeen, remote>>
    BY <1>4 DEF BroadcastDigest
  <2>2. n \in Members => RowOf(n, OwnRow(n))
    BY <1>1 DEF RowOf, OwnRow, GossipTypes, RowsInv, Senders
  <2>3. "node" \in DOMAIN d /\ "row" \in DOMAIN d /\ d.node = n /\ d.row = OwnRow(n)
    OBVIOUS
  <2>4. n \notin Strangers => n \in Members
    BY DEF Senders
  <2> HIDE DEF d
  <2>5. \A e \in digests' : e.node \notin Strangers => RowOf(e.node, e.row)
    BY <1>1, <2>1, <2>2, <2>3, <2>4 DEF RowsInv
  <2>6. QED BY <1>1, <2>1, <2>3, <2>5, RowsKept DEF GossipInv, GossipTypes, RowsInv
<1>5. ASSUME NEW n \in Members, NEW d \in digests, OnDigest(n, d) PROVE GossipInv'
  <2> DEFINE rows == [m \in DOMAIN remote[n] \cup {d.node} |->
                        IF m = d.node THEN [row |-> d.row, ts |-> now] ELSE remote[n][m]]
  <2>1. /\ remote' = [remote EXCEPT ![n] = rows] /\ d.node # n /\ d.node \notin Strangers
        /\ UNCHANGED <<now, peerCount, peerSeen, digests>>
    BY <1>5 DEF OnDigest, Recorded
  <2>2. RowOf(d.node, d.row)
    BY <1>1, <2>1 DEF RowsInv
  <2>3. \A m \in DOMAIN rows : m # n /\ RowOf(m, rows[m].row)
    BY <1>1, <2>1, <2>2 DEF RowsInv
  <2> HIDE DEF rows
  <2>4. /\ DOMAIN remote' = Members /\ remote'[n] = rows
        /\ \A k \in Members : k # n => remote'[k] = remote[k]
    BY <1>1, <2>1 DEF GossipTypes
  <2>5. \A k \in Members : \A m \in DOMAIN remote'[k] : m # k /\ RowOf(m, remote'[k][m].row)
    BY <1>1, <2>3, <2>4 DEF RowsInv
  <2>6. QED BY <1>1, <2>1, <2>4, <2>5, RowsKept DEF GossipInv, GossipTypes, RowsInv
<1>6. QED BY <1>2, <1>3, <1>4, <1>5 DEF GossipNext

\* monitor/gossip.py matrix: the own row of a node's matrix is what it has heard
\* by now, whatever digests come back to it; the row of another node is one that
\* node has had, and nobody without the key is in the matrix.
THEOREM MatrixTells == GossipSpec => []MatrixTruth
<1> USE GossipAssumptions
<1>1. GossipInv => MatrixTruth
  <2> SUFFICES ASSUME GossipInv, NEW n \in Members
               PROVE  /\ MatrixRows(n)[n] = OwnRow(n)
                      /\ MatrixNodes(n) \cap Strangers = {}
                      /\ \A m \in FreshRemote(n) : \A o \in DOMAIN MatrixRows(n)[m] :
                             MatrixRows(n)[m][o] <= peerCount[m][o]
    BY DEF MatrixTruth
  <2> DEFINE rows == MatrixRows(n)
  <2>1. GossipTypes /\ RowsInv
    BY DEF GossipInv
  <2>2. \A m \in FreshRemote(n) : m # n /\ RowOf(m, remote[n][m].row)
    BY <2>1 DEF RowsInv, FreshRemote
  <2>3. /\ DOMAIN rows = {n} \cup FreshRemote(n) /\ rows[n] = OwnRow(n)
        /\ \A m \in FreshRemote(n) : rows[m] = remote[n][m].row
    BY <2>2 DEF MatrixRows
  <2>4. DOMAIN OwnRow(n) \cap Strangers = {}
    BY <2>1 DEF OwnRow, RowsInv
  <2> HIDE DEF rows
  <2>5. \A m \in DOMAIN rows : m \notin Strangers /\ DOMAIN rows[m] \cap Strangers = {}
    BY <2>2, <2>3, <2>4 DEF RowOf
  <2>6. MatrixNodes(n) \cap Strangers = {}
    BY <2>5 DEF MatrixNodes, rows
  <2>7. \A m \in FreshRemote(n) : \A o \in DOMAIN rows[m] : rows[m][o] <= peerCount[m][o]
    BY <2>2, <2>3 DEF RowOf
  <2>8. QED BY <2>3, <2>6, <2>7 DEF rows
<1>2. GossipSpec => []GossipInv
  BY InitGossipInv, NextGossipInv, PTL DEF GossipSpec
<1>3. QED BY <1>1, <1>2, PTL

-----------------------------------------------------------------------------
(* One run of the in-process simulation. *)

\* profiles.py: what every role sends are messages of the model; no role calls for
\* evacuation when it starts, and no medic ever does.
LEMMA StartMessages ==
    ASSUME NEW role \in Roles
    PROVE  /\ OnStart(role) \in Seq(Types) /\ Len(OnStart(role)) \in Nat \ {0}
           /\ \A i \in 1 .. Len(OnStart(role)) : OnStart(role)[i] # "CasevacRequest"
<1>1. OnStart(role) \in {<<"Identification", "Overlay">>,
                         <<"Identification", "Overlay", "Chatrooms">>, <<"Identification">>}
  BY Zenon DEF OnStart
<1> DEFINE sends == OnStart(role)
<1> HIDE DEF sends
<1>0. {"Identification", "Overlay", "Chatrooms"} \subseteq Types
  BY DEF Types
<1>2. sends \in Seq(Types)
  <2>1. /\ <<"Identification", "Overlay">> \in Seq(Types)
        /\ <<"Identification", "Overlay", "Chatrooms">> \in Seq(Types)
        /\ <<"Identification">> \in Seq(Types)
    BY <1>0
  <2>2. QED BY <1>1, <2>1, Zenon DEF sends
<1>3. Len(sends) \in 1 .. 3 /\ \A i \in 1 .. Len(sends) : sends[i] # "CasevacRequest"
  <2>1. CASE sends = <<"Identification", "Overlay">>
    BY <2>1
  <2>2. CASE sends = <<"Identification", "Overlay", "Chatrooms">>
    BY <2>2
  <2>3. CASE sends = <<"Identification">>
    BY <2>3
  <2>4. QED BY <1>1, <2>1, <2>2, <2>3 DEF sends
<1>4. QED BY <1>2, <1>3 DEF sends

LEMMA StartExamples ==
    /\ OnStart("observer") = <<"Identification", "Overlay">>
    /\ OnStart("atak") = <<"Identification", "Overlay", "Chatrooms">>
<1>1. QED BY Zenon DEF OnStart

\* One message on some ticks.
LEMMA SometimesMessage ==
    ASSUME NEW S, NEW n \in Nat, NEW t \in Nat, NEW type \in S
    PROVE  /\ Each(n, t, type) \in Seq(S) /\ Every(n, t, type) \in Seq(S)
           /\ At(n, t, type) \in Seq(S)
<1>1. <<type>> \in Seq(S) /\ <<>> \in Seq(S)
  OBVIOUS
<1>2. QED BY <1>1, Zenon DEF Each, Every, At

LEMMA TickMessages ==
    ASSUME NEW role \in Roles, NEW t \in Nat
    PROVE  OnTick(role, t) \in Seq(Types)
<1>0. {"Presence", "Chat", "CasevacRequest", "ContactSighting", "GenInfo", "Sketch"} \subseteq Types
  BY DEF Types
<1>p. <<"Presence">> \in Seq(Types)
  BY <1>0
<1>1. CASE role = "rifleman"
  <2>1. OnTick(role, t) = <<"Presence">> \o Every(5, t, "Chat")
    BY <1>1, Zenon DEF OnTick
  <2>2. QED BY <1>0, <1>p, <2>1, SometimesMessage, ConcatProperties
<1>2. CASE role = "teamleader"
  <2>1. OnTick(role, t) = <<"Presence">> \o At(2, t, "CasevacRequest") \o Every(4, t, "Chat")
                            \o Every(6, t, "ContactSighting") \o Every(5, t, "GenInfo")
    BY <1>2, Zenon DEF OnTick
  <2>2. <<"Presence">> \o At(2, t, "CasevacRequest") \in Seq(Types)
    BY <1>0, <1>p, SometimesMessage, ConcatProperties
  <2>3. <<"Presence">> \o At(2, t, "CasevacRequest") \o Every(4, t, "Chat") \in Seq(Types)
    BY <1>0, <2>2, SometimesMessage, ConcatProperties
  <2>4. <<"Presence">> \o At(2, t, "CasevacRequest") \o Every(4, t, "Chat")
          \o Every(6, t, "ContactSighting") \in Seq(Types)
    BY <1>0, <2>3, SometimesMessage, ConcatProperties
  <2>5. QED BY <1>0, <2>1, <2>4, SometimesMessage, ConcatProperties
<1>3. CASE role = "medic"
  <2>1. OnTick(role, t) = <<"Presence">>
    BY <1>3, Zenon DEF OnTick
  <2>2. QED BY <1>p, <2>1
<1>4. CASE role = "scout"
  <2>1. OnTick(role, t) =
          <<"Presence">> \o Each(2, t, "ContactSighting") \o Every(5, t, "Sketch")
    BY <1>4, Zenon DEF OnTick
  <2>2. <<"Presence">> \o Each(2, t, "ContactSighting") \in Seq(Types)
    BY <1>0, <1>p, SometimesMessage, ConcatProperties
  <2>3. QED BY <1>0, <2>1, <2>2, SometimesMessage, ConcatProperties
<1>5. CASE role = "observer"
  <2>1. OnTick(role, t) = <<"Presence">> \o Each(3, t, "ContactSighting")
    BY <1>5, Zenon DEF OnTick
  <2>2. QED BY <1>0, <1>p, <2>1, SometimesMessage, ConcatProperties
<1>6. CASE role = "sensor"
  <2>1. OnTick(role, t) = <<"Presence", "ContactSighting">>
    BY <1>6, Zenon DEF OnTick
  <2>2. <<"Presence", "ContactSighting">> \in Seq(Types)
    BY <1>0
  <2>3. QED BY <2>1, <2>2
<1>7. CASE role = "commandpost"
  <2>1. OnTick(role, t) = Every(7, t, "Chat")
    BY <1>7, Zenon DEF OnTick
  <2>2. QED BY <1>0, <2>1, SometimesMessage
<1>8. CASE role = "atak"
  <2>1. OnTick(role, t) =
          <<"Presence">> \o Each(3, t, "ContactSighting") \o Every(5, t, "Chat")
    BY <1>8, Zenon DEF OnTick
  <2>2. <<"Presence">> \o Each(3, t, "ContactSighting") \in Seq(Types)
    BY <1>0, <1>p, SometimesMessage, ConcatProperties
  <2>3. QED BY <1>0, <2>1, <2>2, SometimesMessage, ConcatProperties
<1>9. CASE role = "vehicle"
  <2>1. OnTick(role, t) = <<"Presence", "Presence">> \o Each(4, t, "ContactSighting")
    BY <1>9, Zenon DEF OnTick
  <2>2. <<"Presence", "Presence">> \in Seq(Types)
    BY <1>0
  <2>3. QED BY <1>0, <2>1, <2>2, SometimesMessage, ConcatProperties
<1>10. QED
  BY <1>1, <1>2, <1>3, <1>4, <1>5, <1>6, <1>7, <1>8, <1>9, Zenon DEF Roles

-----------------------------------------------------------------------------
(* What a publication does, with the operators of Publish by name. *)

Reacting(origin, types, up) ==
    IF Count(types, "CasevacRequest") = 0 THEN {} ELSE Medics(origin, up)
Sends(c, origin, types, up) ==
    IF c = origin THEN types ELSE IF c \in Reacting(origin, types, up) THEN MedicReaction ELSE <<>>
HeardLinks(up) ==
    {link \in up \X (1 .. Rogue) : link[1] # link[2] /\ Accepts(link[1], link[2])}
PostLinks(up) ==
    {link \in HeardLinks(up) : link[1] # Rogue /\ Role(link[1]) = "commandpost"}
Hearings(t, origin, types, up) ==
    UNION {{link} \X Positions(Sends(link[2], origin, types, up), t) : link \in PostLinks(up)}

LEMMA PublishDoes ==
    ASSUME NEW origin, NEW types, NEW up, Publish(origin, types, up)
    PROVE  /\ sentBy' = [c \in DOMAIN sentBy |-> sentBy[c] + Len(Sends(c, origin, types, up))]
           /\ heardBy' = [o \in DOMAIN heardBy |-> [c \in DOMAIN heardBy |->
                heardBy[o][c] + (IF <<o, c>> \in HeardLinks(up)
                                 THEN Len(Sends(c, origin, types, up)) ELSE 0)]]
           /\ observed' = [t \in Types |->
                observed[t] + Cardinality(Hearings(t, origin, types, up))]
           /\ casevacs' = casevacs + Count(types, "CasevacRequest")
           /\ acks' = acks + Count(types, "CasevacRequest") *
                                 Cardinality(Reacting(origin, types, up))
  BY Zenon DEF Publish, Sends, Reacting, HeardLinks, PostLinks, Hearings

\* The positions of a message in a sequence.
LEMMA PositionsFacts ==
    ASSUME NEW s \in Seq(Types), NEW t
    PROVE  /\ \A i : i \in Positions(s, t) <=> i \in 1 .. Len(s) /\ s[i] = t
           /\ IsFiniteSet(Positions(s, t)) /\ Count(s, t) \in Nat
           /\ Count(s, t) = 0 <=> \A i \in 1 .. Len(s) : s[i] # t
<1>1. DOMAIN s = 1 .. Len(s) /\ Len(s) \in Nat
  BY LenProperties
<1>2. \A i : i \in Positions(s, t) <=> i \in 1 .. Len(s) /\ s[i] = t
  BY <1>1 DEF Positions
<1>3. IsFiniteSet(Positions(s, t))
  <2>1. IsFiniteSet(1 .. Len(s)) /\ Positions(s, t) \subseteq 1 .. Len(s)
    BY <1>1, <1>2, FS_Interval
  <2>2. QED BY <2>1, FS_Subset
<1>4. Count(s, t) \in Nat
  BY <1>3, FS_CardinalityType DEF Count
<1>5. Count(s, t) = 0 <=> Positions(s, t) = {}
  BY <1>3, FS_EmptySet DEF Count
<1>6. QED BY <1>2, <1>3, <1>4, <1>5

-----------------------------------------------------------------------------
(* The invariant. *)

Started(c) == tickNo > 0 \/ c < turn
Stepped(c, t) == t + 1 < tickNo \/ (t + 1 = tickNo /\ c < turn)
Tells(s, t) == \E i \in 1 .. Len(s) : s[i] = t

ScenarioTypes ==
    /\ setup \in Setups
    /\ turn \in 1 .. Rogue + 1 /\ tickNo \in 0 .. ScenarioTicks
    /\ tickNo = 0 => turn \in 1 .. Rogue
    /\ sentBy \in [1 .. Rogue -> Nat]
    /\ heardBy \in [1 .. Rogue -> [1 .. Rogue -> Nat]]
    /\ observed \in [Types -> Nat]
    /\ casevacs \in Nat /\ acks \in Nat /\ rejects \in Nat

\* A client that was started before another missed what that said on its start.
MatrixInv ==
    /\ \A o, c \in Squad :
         /\ o = c \/ <<o, c>> \in setup.blocks => heardBy[o][c] = 0
         /\ o # c /\ <<o, c>> \notin setup.blocks =>
              heardBy[o][c] + (IF o > c /\ Started(c) THEN Len(OnStart(Role(c))) ELSE 0)
                = sentBy[c]
    /\ \A c \in Squad : sentBy[c] > 0 <=> Started(c)

RogueInv ==
    /\ \A o \in Squad : heardBy[o][Rogue] = 0
    /\ setup.rogue = "wrong_key" => \A p \in 1 .. Rogue : heardBy[Rogue][p] = 0
    /\ setup.rogue # "none" /\ (tickNo > 1 \/ (tickNo = 1 /\ turn > Rogue)) => rejects > 0

\* With a command post first and nobody refused, every message sent was seen.
SeenInv ==
    setup.blocks = {} /\ Role(1) = "commandpost" =>
        /\ \A c \in Squad \ {1} : Started(c) =>
             \A t \in Types : Tells(OnStart(Role(c)), t) => observed[t] > 0
        /\ \A c \in Squad \ {1}, n \in Nat : Stepped(c, n) =>
             \A t \in Types : Tells(OnTick(Role(c), n), t) => observed[t] > 0
        /\ observed["CasevacRequest"] > 0 => casevacs > 0
        /\ casevacs > 0 /\ (\E m \in Squad : Role(m) = "medic") => observed["Receipt"] > 0

LEMMA SetupFacts ==
    ASSUME setup \in Setups
    PROVE  /\ setup.roster \in Seq(Roles) /\ Size \in Nat \ {0} /\ Rogue \in Nat
           /\ Squad = 1 .. Size /\ Rogue = Size + 1 /\ Rogue \notin Squad
           /\ Squad \subseteq 1 .. Rogue /\ \A c \in 1 .. Rogue : c \in Squad \/ c = Rogue
           /\ \A c \in Squad : Role(c) \in Roles
           /\ setup.rogue \in RogueModes
           /\ AllUp \subseteq 1 .. Rogue /\ Squad \subseteq AllUp
           /\ Rogue \in AllUp <=> setup.rogue # "none"
<1>1. PICK r \in Rosters, kind \in RogueModes, b \in BlockRoles :
        setup = [roster |-> r, rogue |-> kind,
                 blocks |-> {link \in (1 .. Len(r)) \X (1 .. Len(r)) :
                               link[1] # link[2] /\ <<r[link[1]], r[link[2]]>> = b}]
  BY DEF Setups
<1>2. setup.roster = r /\ setup.rogue = kind
  BY <1>1
<1>3. r \in Seq(Roles) /\ r # <<>>
  BY ScenarioAssumptions
<1>4. Len(r) \in Nat \ {0} /\ \A c \in 1 .. Len(r) : r[c] \in Roles
  BY <1>3, EmptySeq, LenProperties
<1>5. /\ Size \in Nat \ {0} /\ Squad = 1 .. Size /\ Rogue = Size + 1
      /\ \A c \in Squad : Role(c) \in Roles
  BY <1>2, <1>4 DEF Size, Squad, Rogue, Role
<1>6. /\ Rogue \notin Squad /\ Squad \subseteq 1 .. Rogue
      /\ \A c \in 1 .. Rogue : c \in Squad \/ c = Rogue
  BY <1>5
<1>7. /\ AllUp \subseteq 1 .. Rogue /\ Squad \subseteq AllUp
      /\ Rogue \in AllUp <=> setup.rogue # "none"
  BY <1>5, <1>6 DEF AllUp
<1>8. QED BY <1>2, <1>3, <1>5, <1>6, <1>7

LEMMA HeardFacts ==
    ASSUME NEW up
    PROVE  \A o, c : <<o, c>> \in HeardLinks(up) <=>
             o \in up /\ c \in 1 .. Rogue /\ o # c /\ Accepts(o, c)
  BY DEF HeardLinks

\* Who hears what of one publication.
LEMMA PublishTypes ==
    ASSUME ScenarioTypes, NEW origin \in 1 .. Rogue, NEW types \in Seq(Types),
           NEW up \in SUBSET (1 .. Rogue)
    PROVE  /\ \A c : /\ Sends(c, origin, types, up) \in Seq(Types)
                     /\ Len(Sends(c, origin, types, up)) \in Nat
           /\ \A o, c : <<o, c>> \in HeardLinks(up) <=>
                o \in up /\ c \in 1 .. Rogue /\ o # c /\ Accepts(o, c)
           /\ \A o, c : <<o, c>> \in PostLinks(up) <=>
                <<o, c>> \in HeardLinks(up) /\ o \in Posts
           /\ Reacting(origin, types, up) \subseteq {m \in Squad : Role(m) = "medic"} \ {origin}
           /\ (\A i \in 1 .. Len(types) : types[i] # "CasevacRequest")
                => Reacting(origin, types, up) = {}
<1>0. setup \in Setups
  BY DEF ScenarioTypes
<1>1. Len(<<>>) = 0 /\ <<>> \in Seq(Types) /\ MedicReaction \in Seq(Types)
  <2>1. {"Receipt", "Chat", "Presence"} \subseteq Types
    BY DEF Types
  <2>2. QED BY <2>1 DEF MedicReaction
<1>2. ASSUME NEW c PROVE Sends(c, origin, types, up) \in Seq(Types)
  BY <1>1, Zenon DEF Sends
<1>3. \A o, c : <<o, c>> \in HeardLinks(up) <=>
                o \in up /\ c \in 1 .. Rogue /\ o # c /\ Accepts(o, c)
  BY DEF HeardLinks
<1>4. \A o, c : <<o, c>> \in PostLinks(up) <=> <<o, c>> \in HeardLinks(up) /\ o \in Posts
  <2> SUFFICES ASSUME NEW o, NEW c
               PROVE  <<o, c>> \in PostLinks(up) <=> <<o, c>> \in HeardLinks(up) /\ o \in Posts
    OBVIOUS
  <2>1. <<o, c>> \in PostLinks(up) <=>
          <<o, c>> \in HeardLinks(up) /\ o # Rogue /\ Role(o) = "commandpost"
    BY DEF PostLinks
  <2>2. <<o, c>> \in HeardLinks(up) => (o # Rogue <=> o \in Squad)
    BY <1>0, <1>3, SetupFacts
  <2>3. QED BY <2>1, <2>2 DEF Posts
<1>5. Reacting(origin, types, up) \subseteq {m \in Squad : Role(m) = "medic"} \ {origin}
  BY <1>0, SetupFacts DEF Reacting, Medics
<1>6. (\A i \in 1 .. Len(types) : types[i] # "CasevacRequest")
                => Reacting(origin, types, up) = {}
  BY PositionsFacts DEF Reacting
<1>7. QED BY <1>2, <1>3, <1>4, <1>5, <1>6, LenProperties

-----------------------------------------------------------------------------
(* What one publication adds, entry by entry. *)

\* No more is sent than the messages of the publication and a medic's reaction.
LEMMA SendsBound ==
    ASSUME NEW c, NEW origin, NEW types \in Seq(Types), NEW up
    PROVE  Len(Sends(c, origin, types, up)) <= Len(types) + 3
<1> DEFINE s == Sends(c, origin, types, up)
<1>1. Len(<<>>) = 0 /\ Len(MedicReaction) = 3
  BY DEF MedicReaction
<1>2. s = types \/ s = MedicReaction \/ s = <<>>
  BY Zenon DEF Sends
<1>3. Len(types) \in Nat
  BY LenProperties
<1> HIDE DEF s
<1>4. Len(s) = Len(types) \/ Len(s) = Len(MedicReaction) \/ Len(s) = 0
  BY <1>1, <1>2
<1>5. Len(MedicReaction) = 3
  BY <1>1, Zenon
<1> DEFINE k == Len(s)
           m == Len(types)
<1>6. m \in Nat /\ (k = m \/ k = 3 \/ k = 0)
  BY <1>3, <1>4, <1>5
<1> HIDE DEF k, m
<1>7. k <= m + 3
  BY <1>6
<1>8. QED BY <1>7 DEF k, m, s

LEMMA HearingsFacts ==
    ASSUME ScenarioTypes, NEW origin \in 1 .. Rogue, NEW types \in Seq(Types),
           NEW up \in SUBSET (1 .. Rogue), NEW t
    PROVE  /\ IsFiniteSet(Hearings(t, origin, types, up))
           /\ Cardinality(Hearings(t, origin, types, up)) \in Nat
           /\ Cardinality(Hearings(t, origin, types, up)) > 0 <=>
                \E link \in PostLinks(up) : Tells(Sends(link[2], origin, types, up), t)
           /\ \A h : h \in Hearings(t, origin, types, up) <=>
                \E link \in PostLinks(up) : \E i \in 1 .. Len(Sends(link[2], origin, types, up)) :
                  h = <<link, i>> /\ Sends(link[2], origin, types, up)[i] = t
<1> DEFINE sends(c) == Sends(c, origin, types, up)
           heard == Hearings(t, origin, types, up)
           n == Len(types) + 3
<1>0. Rogue \in Nat
  BY SetupFacts DEF ScenarioTypes
<1>1. /\ \A c : sends(c) \in Seq(Types) /\ Len(sends(c)) \in Nat
      /\ Len(types) \in Nat
  BY PublishTypes, LenProperties
<1>2. \A c : Len(sends(c)) <= n
  BY SendsBound
<1>3. \A h : h \in heard <=>
        \E link \in PostLinks(up) : \E i \in Positions(sends(link[2]), t) : h = <<link, i>>
  BY DEF Hearings
<1>p. \A c, i : i \in Positions(sends(c), t) <=> i \in 1 .. Len(sends(c)) /\ sends(c)[i] = t
  BY <1>1, PositionsFacts
<1>4. \A h : h \in heard <=>
        \E link \in PostLinks(up) : \E i \in 1 .. Len(sends(link[2])) :
           h = <<link, i>> /\ sends(link[2])[i] = t
  <2> HIDE DEF sends, heard
  <2> QED BY <1>3, <1>p
<1>5. IsFiniteSet(heard)
  <2>1. PostLinks(up) \subseteq (1 .. Rogue) \X (1 .. Rogue)
    BY DEF PostLinks, HeardLinks
  <2>2. heard \subseteq ((1 .. Rogue) \X (1 .. Rogue)) \X (1 .. n)
    <3>1. \A c : 1 .. Len(sends(c)) \subseteq 1 .. n
      <4> HIDE DEF sends
      <4> QED BY <1>1, <1>2
    <3> HIDE DEF sends, heard, n
    <3>2. QED BY <1>4, <2>1, <3>1
  <2>3. IsFiniteSet(1 .. Rogue) /\ IsFiniteSet(1 .. n)
    BY <1>0, <1>1, FS_Interval
  <2>4. IsFiniteSet(((1 .. Rogue) \X (1 .. Rogue)) \X (1 .. n))
    BY <2>3, FS_Product
  <2>5. QED BY <2>2, <2>4, FS_Subset
<1>6. Cardinality(heard) \in Nat /\ (Cardinality(heard) = 0 <=> heard = {})
  BY <1>5, FS_CardinalityType, FS_EmptySet
<1>7. heard # {} <=> \E link \in PostLinks(up) : Tells(sends(link[2]), t)
  <2> HIDE DEF sends, heard
  <2> QED BY <1>4 DEF Tells
<1>8. QED
  <2>1. Cardinality(heard) > 0 <=> heard # {}
    <3> HIDE DEF heard
    <3> QED BY <1>6
  <2>2. QED BY <1>4, <1>5, <1>6, <1>7, <2>1

\* What a publication adds to the matrix and to what the posts saw.
MatrixGrows(origin, types, up) ==
    /\ \A c \in 1 .. Rogue : sentBy'[c] = sentBy[c] + Len(Sends(c, origin, types, up))
    /\ \A o, c \in 1 .. Rogue : heardBy'[o][c] = heardBy[o][c] +
         (IF <<o, c>> \in HeardLinks(up) THEN Len(Sends(c, origin, types, up)) ELSE 0)

SeenGrows(origin, types, up) ==
    \A t \in Types : /\ IsFiniteSet(Hearings(t, origin, types, up))
                     /\ observed'[t] = observed[t] + Cardinality(Hearings(t, origin, types, up))

LEMMA PublishEffect ==
    ASSUME ScenarioTypes, NEW origin \in 1 .. Rogue, NEW types \in Seq(Types),
           NEW up \in SUBSET (1 .. Rogue), Publish(origin, types, up)
    PROVE  /\ sentBy' \in [1 .. Rogue -> Nat]
           /\ \A c \in 1 .. Rogue :
                sentBy'[c] = sentBy[c] + Len(Sends(c, origin, types, up))
           /\ heardBy' \in [1 .. Rogue -> [1 .. Rogue -> Nat]]
           /\ \A o, c \in 1 .. Rogue :
                heardBy'[o][c] = heardBy[o][c] +
                  (IF <<o, c>> \in HeardLinks(up) THEN Len(Sends(c, origin, types, up)) ELSE 0)
           /\ observed' \in [Types -> Nat]
           /\ \A t \in Types :
                /\ observed'[t] = observed[t] + Cardinality(Hearings(t, origin, types, up))
                /\ observed[t] > 0 => observed'[t] > 0
                /\ observed'[t] > 0 => \/ observed[t] > 0
                                       \/ \E link \in PostLinks(up) :
                                            Tells(Sends(link[2], origin, types, up), t)
                /\ (\E link \in PostLinks(up) : Tells(Sends(link[2], origin, types, up), t))
                     => observed'[t] > 0
           /\ casevacs' \in Nat /\ casevacs' = casevacs + Count(types, "CasevacRequest")
           /\ acks' \in Nat
           /\ acks' = acks + Count(types, "CasevacRequest") *
                               Cardinality(Reacting(origin, types, up))
           /\ MatrixGrows(origin, types, up) /\ SeenGrows(origin, types, up)
<1> DEFINE sends(c) == Sends(c, origin, types, up)
           hearings(t) == Hearings(t, origin, types, up)
           calls == Count(types, "CasevacRequest")
           medics == Reacting(origin, types, up)
<1>0. \A c : sends(c) \in Seq(Types) /\ Len(sends(c)) \in Nat
  BY PublishTypes
<1>1. /\ DOMAIN sentBy = 1 .. Rogue /\ DOMAIN heardBy = 1 .. Rogue
      /\ \A c \in 1 .. Rogue : sentBy[c] \in Nat
      /\ \A o, c \in 1 .. Rogue : heardBy[o][c] \in Nat
      /\ \A t \in Types : observed[t] \in Nat
      /\ casevacs \in Nat /\ acks \in Nat
  BY DEF ScenarioTypes
<1>2. /\ sentBy' = [c \in 1 .. Rogue |-> sentBy[c] + Len(sends(c))]
      /\ heardBy' = [o \in 1 .. Rogue |-> [c \in 1 .. Rogue |->
            heardBy[o][c] + (IF <<o, c>> \in HeardLinks(up) THEN Len(sends(c)) ELSE 0)]]
      /\ observed' = [t \in Types |-> observed[t] + Cardinality(hearings(t))]
      /\ casevacs' = casevacs + calls
      /\ acks' = acks + calls * Cardinality(medics)
  <2>1. /\ sentBy' = [c \in DOMAIN sentBy |-> sentBy[c] + Len(sends(c))]
        /\ heardBy' = [o \in DOMAIN heardBy |-> [c \in DOMAIN heardBy |->
              heardBy[o][c] + (IF <<o, c>> \in HeardLinks(up) THEN Len(sends(c)) ELSE 0)]]
        /\ observed' = [t \in Types |-> observed[t] + Cardinality(hearings(t))]
        /\ casevacs' = casevacs + calls
        /\ acks' = acks + calls * Cardinality(medics)
    BY PublishDoes, Zenon
  <2> HIDE DEF sends, hearings, calls, medics
  <2>2. QED BY <1>1, <2>1
<1>3. \A t : /\ Cardinality(hearings(t)) \in Nat
             /\ Cardinality(hearings(t)) > 0 <=>
                  \E link \in PostLinks(up) : Tells(sends(link[2]), t)
  BY HearingsFacts, Zenon
<1>4. calls \in Nat /\ Cardinality(medics) \in Nat
  <2>1. medics \subseteq 1 .. Rogue /\ Rogue \in Nat
    BY PublishTypes, SetupFacts DEF ScenarioTypes
  <2>2. IsFiniteSet(1 .. Rogue)
    BY <2>1, FS_Interval
  <2>3. QED BY <2>1, <2>2, FS_Subset, FS_CardinalityType, PositionsFacts
<1> HIDE DEF sends, hearings, calls, medics
<1>5. /\ sentBy' \in [1 .. Rogue -> Nat]
      /\ \A c \in 1 .. Rogue : sentBy'[c] = sentBy[c] + Len(sends(c))
  BY <1>0, <1>1, <1>2
<1>6. /\ heardBy' \in [1 .. Rogue -> [1 .. Rogue -> Nat]]
      /\ \A o, c \in 1 .. Rogue :
           heardBy'[o][c] = heardBy[o][c] +
                  (IF <<o, c>> \in HeardLinks(up) THEN Len(sends(c)) ELSE 0)
  <2> DEFINE more(o, c) == heardBy[o][c] + (IF <<o, c>> \in HeardLinks(up) THEN Len(sends(c)) ELSE 0)
  <2>1. \A o, c \in 1 .. Rogue : more(o, c) \in Nat
    BY <1>0, <1>1
  <2>2. heardBy' = [o \in 1 .. Rogue |-> [c \in 1 .. Rogue |-> more(o, c)]]
    BY <1>2, Zenon
  <2> HIDE DEF more
  <2>3. QED
    <3>1. heardBy' \in [1 .. Rogue -> [1 .. Rogue -> Nat]]
      BY <2>1, <2>2
    <3>2. \A o, c \in 1 .. Rogue : heardBy'[o][c] = more(o, c)
      BY <2>2
    <3>3. QED BY <3>1, <3>2, Zenon DEF more
<1>7. /\ observed' \in [Types -> Nat]
      /\ \A t \in Types :
           /\ observed'[t] = observed[t] + Cardinality(hearings(t))
           /\ observed[t] > 0 => observed'[t] > 0
           /\ observed'[t] > 0 => \/ observed[t] > 0
                                  \/ \E link \in PostLinks(up) : Tells(sends(link[2]), t)
           /\ (\E link \in PostLinks(up) : Tells(sends(link[2]), t)) => observed'[t] > 0
  <2>1. \A t \in Types : observed'[t] = observed[t] + Cardinality(hearings(t))
    BY <1>2
  <2>2. observed' \in [Types -> Nat]
    BY <1>1, <1>2, <1>3
  <2>3. ASSUME NEW t \in Types
        PROVE  /\ observed[t] > 0 => observed'[t] > 0
               /\ observed'[t] > 0 => observed[t] > 0 \/ Cardinality(hearings(t)) > 0
               /\ Cardinality(hearings(t)) > 0 => observed'[t] > 0
    <3>1. PICK n \in Nat : n = Cardinality(hearings(t))
      BY <1>3
    <3>2. PICK m \in Nat : m = observed[t]
      BY <1>1
    <3>3. observed'[t] = m + n
      BY <2>1, <3>1, <3>2
    <3>4. QED BY <3>1, <3>2, <3>3
  <2>4. QED BY <1>3, <2>1, <2>2, <2>3, Zenon
<1>8. /\ casevacs' \in Nat /\ casevacs' = casevacs + calls
      /\ acks' \in Nat /\ acks' = acks + calls * Cardinality(medics)
  <2>1. PICK n \in Nat : n = Cardinality(medics)
    BY <1>4
  <2>2. calls * n \in Nat
    BY <1>4
  <2>3. QED BY <1>1, <1>2, <1>4, <2>1, <2>2
<1>9. MatrixGrows(origin, types, up)
  BY <1>5, <1>6, Zenon DEF MatrixGrows, sends
<1>10. SeenGrows(origin, types, up)
  <2>1. \A t : IsFiniteSet(hearings(t))
    BY HearingsFacts, Zenon DEF hearings
  <2>2. QED BY <1>7, <2>1, Zenon DEF SeenGrows, hearings
<1>11. QED BY <1>5, <1>6, <1>7, <1>8, <1>9, <1>10 DEF sends, hearings, calls, medics

LEMMA PublishGrows ==
    ASSUME ScenarioTypes, NEW origin \in 1 .. Rogue, NEW types \in Seq(Types),
           NEW up \in SUBSET (1 .. Rogue), Publish(origin, types, up)
    PROVE  MatrixGrows(origin, types, up) /\ SeenGrows(origin, types, up)
  BY PublishEffect

LEMMA SameSetup ==
    ASSUME setup' = setup
    PROVE  /\ Size' = Size /\ Squad' = Squad /\ Rogue' = Rogue /\ AllUp' = AllUp
           /\ Posts' = Posts /\ \A c : Role(c)' = Role(c)
  BY DEF Size, Squad, Rogue, AllUp, Posts, Role

\* The three publications of a run.
LEMMA StartFacts ==
    ASSUME ScenarioTypes, StartNext
    PROVE  /\ turn \in Squad /\ turn \in 1 .. Rogue /\ turn \in Nat
           /\ Role(turn) \in Roles
           /\ OnStart(Role(turn)) \in Seq(Types) /\ Len(OnStart(Role(turn))) \in Nat \ {0}
           /\ \A i \in 1 .. Len(OnStart(Role(turn))) : OnStart(Role(turn))[i] # "CasevacRequest"
           /\ (1 .. turn) \in SUBSET (1 .. Rogue)
           /\ tickNo = 0 /\ tickNo' = 0 /\ setup' = setup /\ rejects' = rejects /\ turn' = turn + 1
<1>1. setup \in Setups /\ tickNo = 0 /\ turn \in Squad /\ turn' = turn + 1
  BY DEF ScenarioTypes, StartNext
<1>2. turn \in 1 .. Rogue /\ turn \in Nat /\ (1 .. turn) \subseteq 1 .. Rogue /\ Role(turn) \in Roles
  BY <1>1, SetupFacts
<1>3. QED BY <1>1, <1>2, StartMessages DEF StartNext

LEMMA StepFacts ==
    ASSUME ScenarioTypes, StepNext
    PROVE  /\ turn \in Squad /\ turn \in 1 .. Rogue /\ turn \in Nat
           /\ Role(turn) \in Roles /\ tickNo - 1 \in Nat
           /\ OnTick(Role(turn), tickNo - 1) \in Seq(Types)
           /\ AllUp \in SUBSET (1 .. Rogue) /\ Squad \subseteq AllUp
           /\ tickNo > 0 /\ setup' = setup /\ tickNo' = tickNo /\ rejects' = rejects
           /\ turn' = turn + 1
<1>1. setup \in Setups /\ tickNo > 0 /\ tickNo \in Nat /\ turn \in Squad /\ turn' = turn + 1
  BY ScenarioAssumptions DEF ScenarioTypes, StepNext
<1>2. tickNo - 1 \in Nat
  BY <1>1
<1>3. /\ turn \in 1 .. Rogue /\ turn \in Nat /\ Role(turn) \in Roles
      /\ AllUp \in SUBSET (1 .. Rogue) /\ Squad \subseteq AllUp
  BY <1>1, SetupFacts
<1>4. QED BY <1>1, <1>2, <1>3, TickMessages DEF StepNext

LEMMA RogueFacts ==
    ASSUME ScenarioTypes, RogueStep
    PROVE  /\ turn = Rogue /\ Rogue \in 1 .. Rogue /\ Rogue \in AllUp /\ Rogue \in Nat
           /\ <<"Presence">> \in Seq(Types) /\ Len(<<"Presence">>) = 1
           /\ \A i \in 1 .. Len(<<"Presence">>) : <<"Presence">>[i] # "CasevacRequest"
           /\ AllUp \in SUBSET (1 .. Rogue)
           /\ tickNo > 0 /\ setup' = setup /\ tickNo' = tickNo /\ turn' = turn + 1
           /\ rejects' \in Nat /\ rejects' > 0
<1>1. setup \in Setups /\ rejects \in Nat
  BY DEF ScenarioTypes
<1>2. /\ Size \in Nat \ {0} /\ Rogue \in Nat /\ Rogue = Size + 1 /\ AllUp \in SUBSET (1 .. Rogue)
  BY <1>1, SetupFacts
<1>3. "Presence" \in Types
  BY DEF Types
<1>4. rejects' = rejects + Size * 2 \/ rejects' = rejects + Size * 1
  BY DEF RogueStep
<1>5. rejects' \in Nat /\ rejects' > 0
  <2>1. PICK n \in Nat \ {0} : n = Size
    BY <1>2
  <2>2. QED BY <1>1, <1>4, <2>1
<1>6. <<"Presence">> \in Seq(Types) /\ Len(<<"Presence">>) = 1 /\ <<"Presence">>[1] = "Presence"
  BY <1>3
<1>7. QED BY <1>2, <1>5, <1>6 DEF RogueStep

\* A publication without a call for evacuation sets off nothing.
LEMMA QuietPublish ==
    ASSUME ScenarioTypes, NEW origin \in 1 .. Rogue, NEW types \in Seq(Types),
           NEW up \in SUBSET (1 .. Rogue),
           \A i \in 1 .. Len(types) : types[i] # "CasevacRequest"
    PROVE  /\ Sends(origin, origin, types, up) = types
           /\ \A c : c # origin => Sends(c, origin, types, up) = <<>>
           /\ \A c : c # origin => Len(Sends(c, origin, types, up)) = 0
           /\ Count(types, "CasevacRequest") = 0
<1>1. Reacting(origin, types, up) = {}
  BY PublishTypes
<1>2. \A c : c # origin => Sends(c, origin, types, up) = <<>>
  BY <1>1, Zenon DEF Sends
<1>3. Len(<<>>) = 0
  OBVIOUS
<1>4. \A c : c # origin => Len(Sends(c, origin, types, up)) = 0
  BY <1>2, <1>3, Zenon
<1>5. Sends(origin, origin, types, up) = types
  BY Zenon DEF Sends
<1>6. QED BY <1>2, <1>4, <1>5, PositionsFacts

-----------------------------------------------------------------------------
(* Types. *)

LEMMA ScenarioTypesInit == ScenarioInit => ScenarioTypes
<1> SUFFICES ASSUME ScenarioInit PROVE ScenarioTypes
  OBVIOUS
<1>1. setup \in Setups /\ turn = 1 /\ tickNo = 0
  BY DEF ScenarioInit
<1>2. Rogue \in Nat /\ Size \in Nat \ {0} /\ Rogue = Size + 1
  BY <1>1, SetupFacts
<1>3. QED BY <1>1, <1>2, ScenarioAssumptions DEF ScenarioInit, ScenarioTypes

LEMMA ScenarioTypesStep ==
    ASSUME ScenarioTypes, [ScenarioNext]_scenarioVars
    PROVE  ScenarioTypes'
<1>0. /\ setup \in Setups /\ Rogue \in Nat /\ Size \in Nat \ {0} /\ Rogue = Size + 1
      /\ Squad = 1 .. Size
  BY SetupFacts DEF ScenarioTypes
<1>1. CASE StartNext
  <2>0. Publish(turn, OnStart(Role(turn)), 1 .. turn)
    BY <1>1 DEF StartNext
  <2>1. /\ sentBy' \in [1 .. Rogue -> Nat] /\ heardBy' \in [1 .. Rogue -> [1 .. Rogue -> Nat]]
        /\ observed' \in [Types -> Nat] /\ casevacs' \in Nat /\ acks' \in Nat
    BY <1>1, <2>0, StartFacts, PublishEffect
  <2>2. /\ setup' = setup /\ rejects' = rejects /\ tickNo' = tickNo
        /\ turn' \in 1 .. Rogue /\ turn' \in 1 .. Rogue + 1
    BY <1>0, <1>1, StartFacts
  <2>3. QED BY <2>1, <2>2, SameSetup DEF ScenarioTypes
<1>2. CASE StepNext
  <2>0. Publish(turn, OnTick(Role(turn), tickNo - 1), AllUp)
    BY <1>2 DEF StepNext
  <2>1. /\ sentBy' \in [1 .. Rogue -> Nat] /\ heardBy' \in [1 .. Rogue -> [1 .. Rogue -> Nat]]
        /\ observed' \in [Types -> Nat] /\ casevacs' \in Nat /\ acks' \in Nat
    BY <1>2, <2>0, StepFacts, PublishEffect
  <2>2. /\ setup' = setup /\ rejects' = rejects /\ tickNo' = tickNo /\ tickNo > 0
        /\ turn' \in 1 .. Rogue + 1
    BY <1>0, <1>2, StepFacts
  <2>3. QED BY <2>1, <2>2, SameSetup DEF ScenarioTypes
<1>3. CASE RogueStep
  <2>0. Publish(Rogue, <<"Presence">>, AllUp)
    BY <1>3 DEF RogueStep
  <2>1. /\ sentBy' \in [1 .. Rogue -> Nat] /\ heardBy' \in [1 .. Rogue -> [1 .. Rogue -> Nat]]
        /\ observed' \in [Types -> Nat] /\ casevacs' \in Nat /\ acks' \in Nat
    BY <1>3, <2>0, RogueFacts, PublishEffect
  <2>2. /\ setup' = setup /\ rejects' \in Nat /\ tickNo' = tickNo /\ tickNo > 0
        /\ turn' \in 1 .. Rogue + 1
    BY <1>0, <1>3, RogueFacts
  <2>3. QED BY <2>1, <2>2, SameSetup DEF ScenarioTypes
<1>4. CASE NextTick
  <2>1. /\ UNCHANGED <<setup, sentBy, heardBy, observed, casevacs, acks, rejects>>
        /\ turn' = 1 /\ tickNo' = tickNo + 1 /\ tickNo < ScenarioTicks
    BY <1>4 DEF NextTick
  <2>2. turn' \in 1 .. Rogue /\ turn' \in 1 .. Rogue + 1 /\ tickNo' \in 0 .. ScenarioTicks
    BY <1>0, <2>1, ScenarioAssumptions DEF ScenarioTypes
  <2>3. QED BY <2>1, <2>2, SameSetup DEF ScenarioTypes
<1>5. CASE UNCHANGED scenarioVars
  BY <1>5, SameSetup DEF scenarioVars, ScenarioTypes
<1>6. QED BY <1>1, <1>2, <1>3, <1>4, <1>5 DEF ScenarioNext

-----------------------------------------------------------------------------
(* The matrix. *)

LEMMA WhoAccepts ==
    ASSUME ScenarioTypes
    PROVE  /\ \A o, c \in Squad : Accepts(o, c) <=> <<o, c>> \notin setup.blocks
           /\ \A o : ~ Accepts(o, Rogue)
           /\ setup.rogue = "wrong_key" => \A c : ~ Accepts(Rogue, c)
<1>1. Rogue \notin Squad
  BY SetupFacts DEF ScenarioTypes
<1>2. QED BY <1>1 DEF Accepts

LEMMA MatrixStart ==
    ASSUME ScenarioTypes, MatrixInv, StartNext
    PROVE  MatrixInv'
<1> DEFINE types == OnStart(Role(turn))
           sends(c) == Sends(c, turn, types, 1 .. turn)
<1>0. /\ setup \in Setups /\ turn \in Squad /\ turn \in 1 .. Rogue /\ turn \in Nat /\ Size \in Nat
      /\ Squad = 1 .. Size /\ Squad \subseteq 1 .. Rogue
      /\ tickNo = 0 /\ tickNo' = 0 /\ turn' = turn + 1 /\ setup' = setup
      /\ types \in Seq(Types) /\ Len(types) \in Nat \ {0} /\ 1 .. turn \subseteq 1 .. Rogue
      /\ Publish(turn, types, 1 .. turn)
      /\ \A c \in Squad : sentBy[c] \in Nat
      /\ \A o, c \in Squad : heardBy[o][c] \in Nat
  BY StartFacts, SetupFacts DEF ScenarioTypes, StartNext
<1>1. sends(turn) = types /\ \A c : c # turn => Len(sends(c)) = 0
  BY StartFacts, QuietPublish, Zenon
<1>2. \A o, c \in Squad : <<o, c>> \in HeardLinks(1 .. turn) <=>
        o <= turn /\ o # c /\ <<o, c>> \notin setup.blocks
  <2>1. \A o, c : <<o, c>> \in HeardLinks(1 .. turn) <=>
          o \in 1 .. turn /\ c \in 1 .. Rogue /\ o # c /\ Accepts(o, c)
    BY HeardFacts
  <2>2. \A o, c \in Squad : Accepts(o, c) <=> <<o, c>> \notin setup.blocks
    BY WhoAccepts
  <2>3. \A o \in Squad : o \in 1 .. turn <=> o <= turn
    BY <1>0
  <2>4. Squad \subseteq 1 .. Rogue
    BY <1>0
  <2>5. QED BY <2>1, <2>2, <2>3, <2>4
<1>3. /\ \A c \in Squad : sentBy'[c] = sentBy[c] + Len(sends(c))
      /\ \A o, c \in Squad : heardBy'[o][c] = heardBy[o][c] +
           (IF <<o, c>> \in HeardLinks(1 .. turn) THEN Len(sends(c)) ELSE 0)
  <2>1. MatrixGrows(turn, types, 1 .. turn) /\ Squad \subseteq 1 .. Rogue
    BY <1>0, PublishGrows
  <2>2. QED BY <2>1 DEF MatrixGrows
<1>4. /\ \A c \in Squad : c # turn => sentBy'[c] = sentBy[c]
      /\ sentBy'[turn] = sentBy[turn] + Len(types)
      /\ \A o, c \in Squad : c # turn => heardBy'[o][c] = heardBy[o][c]
      /\ \A o \in Squad : heardBy'[o][turn] =
            heardBy[o][turn] + (IF o < turn /\ <<o, turn>> \notin setup.blocks THEN Len(types) ELSE 0)
  <2> HIDE DEF types, sends
  <2>1. /\ \A c \in Squad : c # turn => sentBy'[c] = sentBy[c]
        /\ sentBy'[turn] = sentBy[turn] + Len(types)
    <3>1. ASSUME NEW c \in Squad, c # turn PROVE sentBy'[c] = sentBy[c]
      <4>1. sentBy'[c] = sentBy[c] + 0 /\ sentBy[c] \in Nat
        BY <1>0, <1>1, <1>3, <3>1
      <4>2. QED BY <4>1
    <3>2. sentBy'[turn] = sentBy[turn] + Len(types)
      BY <1>0, <1>1, <1>3
    <3>3. QED BY <3>1, <3>2
  <2>2. \A o, c \in Squad : c # turn => heardBy'[o][c] = heardBy[o][c]
    <3>1. ASSUME NEW o \in Squad, NEW c \in Squad, c # turn PROVE heardBy'[o][c] = heardBy[o][c]
      <4>1. Len(sends(c)) = 0 /\ heardBy[o][c] \in Nat
        BY <1>0, <1>1, <3>1
      <4>2. heardBy'[o][c] = heardBy[o][c] + 0
        BY <1>3, <4>1
      <4>3. QED BY <4>1, <4>2
    <3>2. QED BY <3>1
  <2>3. \A o \in Squad : heardBy'[o][turn] =
            heardBy[o][turn] + (IF o < turn /\ <<o, turn>> \notin setup.blocks THEN Len(types) ELSE 0)
    BY <1>0, <1>1, <1>2, <1>3
  <2>4. QED BY <2>1, <2>2, <2>3
<1>5. \A c \in Squad : /\ Started(c)' <=> c <= turn
                       /\ Started(c) <=> c < turn
  BY <1>0 DEF Started
<1>6. \A c : Role(c)' = Role(c)
  BY <1>0, SameSetup
<1>7. /\ sentBy[turn] = 0 /\ sentBy'[turn] = Len(types)
      /\ \A c \in Squad : sentBy'[c] > 0 <=> Started(c)'
  <2> HIDE DEF types
  <2>1. sentBy[turn] = 0 /\ sentBy'[turn] = Len(types)
    BY <1>0, <1>4, <1>5 DEF MatrixInv
  <2>2. QED BY <1>0, <1>4, <1>5, <2>1 DEF MatrixInv
<1>8. ASSUME NEW o \in Squad, NEW c \in Squad
      PROVE  /\ o = c \/ <<o, c>> \in setup.blocks => heardBy'[o][c] = 0
             /\ o # c /\ <<o, c>> \notin setup.blocks =>
                  heardBy'[o][c] + (IF o > c /\ Started(c)' THEN Len(OnStart(Role(c))) ELSE 0)
                    = sentBy'[c]
  <2>1. CASE c # turn
    <3>1. heardBy'[o][c] = heardBy[o][c] /\ sentBy'[c] = sentBy[c] /\ (Started(c)' <=> Started(c))
      BY <1>0, <1>4, <1>5, <2>1
    <3>2. QED BY <3>1, <1>0 DEF MatrixInv
  <2>2. CASE c = turn
    <3>1. o = c \/ <<o, c>> \in setup.blocks => heardBy'[o][c] = 0
      <4>1. o = c \/ <<o, c>> \in setup.blocks => heardBy[o][c] = 0
        BY DEF MatrixInv
      <4>2. o = c \/ <<o, c>> \in setup.blocks => heardBy'[o][c] = heardBy[o][c]
        <5> HIDE DEF types
        <5> QED BY <1>0, <1>4, <2>2
      <4>3. QED BY <4>1, <4>2
    <3>2. o # c /\ <<o, c>> \notin setup.blocks => heardBy[o][c] = 0
      BY <1>0, <1>5, <1>7, <2>2 DEF MatrixInv
    <3>3. ASSUME o # c, <<o, c>> \notin setup.blocks
          PROVE  heardBy'[o][c] + (IF o > c /\ Started(c)' THEN Len(OnStart(Role(c))) ELSE 0)
                    = sentBy'[c]
      <4>1. PICK n \in Nat \ {0} : n = Len(OnStart(Role(c)))
        BY <1>0, <2>2
      <4>2. Started(c)' /\ sentBy'[c] = n
        <5>1. turn <= turn /\ turn \in Squad
          BY <1>0
        <5>2. QED BY <1>5, <1>7, <2>2, <4>1, <5>1
      <4>3. heardBy'[o][c] = IF o < turn THEN n ELSE 0
        <5>1. heardBy'[o][c] = 0 + (IF o < turn THEN n ELSE 0)
          BY <1>0, <1>4, <2>2, <3>2, <3>3, <4>1
        <5>2. QED BY <5>1
      <4>4. o < turn \/ o > turn
        BY <1>0, <2>2, <3>3
      <4>5. CASE o < turn
        <5>1. heardBy'[o][c] = n /\ ~ (o > c)
          BY <1>0, <2>2, <4>3, <4>5
        <5>2. heardBy'[o][c] + 0 = sentBy'[c]
          BY <4>1, <4>2, <5>1
        <5>3. QED BY <5>1, <5>2
      <4>6. CASE o > turn
        <5>1. heardBy'[o][c] = 0 /\ o > c
          BY <1>0, <2>2, <4>3, <4>6
        <5>2. heardBy'[o][c] + n = sentBy'[c]
          BY <4>1, <4>2, <5>1
        <5>3. QED BY <4>1, <4>2, <5>1, <5>2
      <4>7. QED BY <4>4, <4>5, <4>6
    <3>4. QED BY <3>1, <3>3
  <2>3. QED BY <2>1, <2>2
<1>9. QED
  <2>1. \A c \in Squad : OnStart(Role(c)') = OnStart(Role(c))
    BY <1>6
  <2>2. Squad' = Squad
    BY <1>0, SameSetup
  <2>3. ASSUME NEW o \in Squad, NEW c \in Squad
        PROVE  (/\ o = c \/ <<o, c>> \in setup.blocks => heardBy[o][c] = 0
                /\ o # c /\ <<o, c>> \notin setup.blocks =>
                     heardBy[o][c] + (IF o > c /\ Started(c) THEN Len(OnStart(Role(c))) ELSE 0)
                       = sentBy[c])'
    BY <1>0, <1>8, <2>1 DEF Role
  <2>4. QED BY <1>7, <2>2, <2>3 DEF MatrixInv

LEMMA MatrixLater ==
    ASSUME ScenarioTypes, MatrixInv, StepNext \/ RogueStep
    PROVE  MatrixInv'
<1>1. PICK origin \in 1 .. Rogue, types \in Seq(Types) : Publish(origin, types, AllUp)
  <2>1. StepNext => Publish(turn, OnTick(Role(turn), tickNo - 1), AllUp)
    BY DEF StepNext
  <2>2. RogueStep => Publish(Rogue, <<"Presence">>, AllUp)
    BY DEF RogueStep
  <2>3. QED BY <2>1, <2>2, StepFacts, RogueFacts
<1> DEFINE sends(c) == Sends(c, origin, types, AllUp)
<1>0. /\ setup \in Setups /\ Squad \subseteq 1 .. Rogue /\ Squad \subseteq AllUp
      /\ AllUp \in SUBSET (1 .. Rogue)
      /\ tickNo > 0 /\ tickNo' > 0 /\ setup' = setup
      /\ \A c \in Squad : sentBy[c] \in Nat
      /\ \A o, c \in Squad : heardBy[o][c] \in Nat
  BY StepFacts, RogueFacts, SetupFacts DEF ScenarioTypes
<1>2. \A o, c \in Squad : <<o, c>> \in HeardLinks(AllUp) <=> o # c /\ <<o, c>> \notin setup.blocks
  BY <1>0, PublishTypes, WhoAccepts
<1>3. /\ \A c \in Squad : Len(sends(c)) \in Nat /\ sentBy'[c] = sentBy[c] + Len(sends(c))
      /\ \A o, c \in Squad : heardBy'[o][c] = heardBy[o][c] +
           (IF <<o, c>> \in HeardLinks(AllUp) THEN Len(sends(c)) ELSE 0)
  <2>1. MatrixGrows(origin, types, AllUp)
    BY <1>0, <1>1, PublishGrows
  <2>2. \A c : Len(sends(c)) \in Nat
    BY <1>0, PublishTypes
  <2>3. QED BY <1>0, <2>1, <2>2 DEF MatrixGrows
<1>4. \A c \in Squad : Started(c) /\ Started(c)'
  BY <1>0 DEF Started
<1>5. \A c \in Squad : sentBy'[c] > 0
  <2> HIDE DEF sends
  <2> QED BY <1>3, <1>4, <1>0 DEF MatrixInv
<1>6. ASSUME NEW o \in Squad, NEW c \in Squad
      PROVE  /\ o = c \/ <<o, c>> \in setup.blocks => heardBy'[o][c] = 0
             /\ o # c /\ <<o, c>> \notin setup.blocks =>
                  heardBy'[o][c] + (IF o > c THEN Len(OnStart(Role(c))) ELSE 0) = sentBy'[c]
  <2>1. o = c \/ <<o, c>> \in setup.blocks => heardBy'[o][c] = 0
    <3> HIDE DEF sends
    <3> QED BY <1>0, <1>2, <1>3 DEF MatrixInv
  <2>2. ASSUME o # c, <<o, c>> \notin setup.blocks
        PROVE  heardBy'[o][c] + (IF o > c THEN Len(OnStart(Role(c))) ELSE 0) = sentBy'[c]
    <3>1. PICK n \in Nat : n = Len(OnStart(Role(c)))
      BY <1>0, SetupFacts, StartMessages
    <3>2. PICK m \in Nat : m = Len(sends(c))
      BY <1>3
    <3> HIDE DEF sends
    <3>3. /\ heardBy[o][c] + (IF o > c THEN n ELSE 0) = sentBy[c]
          /\ heardBy'[o][c] = heardBy[o][c] + m /\ sentBy'[c] = sentBy[c] + m
      BY <1>2, <1>3, <1>4, <2>2, <3>1, <3>2 DEF MatrixInv
    <3>4. heardBy[o][c] \in Nat /\ sentBy[c] \in Nat
      BY <1>0
    <3>5. heardBy'[o][c] + (IF o > c THEN n ELSE 0) = sentBy'[c]
      BY <3>3, <3>4
    <3>6. QED BY <3>1, <3>5
  <2>3. QED BY <2>1, <2>2
<1>7. QED
  <2>2. Squad' = Squad
    BY <1>0, SameSetup
  <2>3. QED BY <1>0, <1>4, <1>5, <1>6, <2>2 DEF MatrixInv, Role

LEMMA MatrixStep ==
    ASSUME ScenarioTypes, MatrixInv, [ScenarioNext]_scenarioVars
    PROVE  MatrixInv'
<1>0. Size \in Nat /\ Squad = 1 .. Size /\ Rogue = Size + 1
  BY SetupFacts DEF ScenarioTypes
<1>1. CASE NextTick
  <2>1. /\ setup' = setup /\ sentBy' = sentBy /\ heardBy' = heardBy
        /\ tickNo' = tickNo + 1 /\ turn \notin Squad /\ tickNo \in Nat
    BY <1>1, ScenarioAssumptions DEF NextTick, ScenarioTypes
  <2>2. tickNo = 0 => turn = Rogue
    BY <1>0, <2>1 DEF ScenarioTypes
  <2>3. \A c \in Squad : Started(c) /\ Started(c)'
    BY <1>0, <2>1, <2>2 DEF Started
  <2>4. Squad' = Squad
    BY <2>1, SameSetup
  <2>5. QED BY <2>1, <2>3, <2>4 DEF MatrixInv, Role
<1>2. CASE UNCHANGED scenarioVars
  <2>1. setup' = setup /\ sentBy' = sentBy /\ heardBy' = heardBy /\ turn' = turn /\ tickNo' = tickNo
    BY <1>2 DEF scenarioVars
  <2>2. Squad' = Squad
    BY <2>1, SameSetup
  <2>3. QED BY <2>1, <2>2 DEF MatrixInv, Role, Started
<1>3. QED BY <1>1, <1>2, MatrixStart, MatrixLater DEF ScenarioNext

-----------------------------------------------------------------------------
(* The rogue. *)

LEMMA RogueDeaf ==
    ASSUME ScenarioTypes, RogueInv, NEW origin \in 1 .. Rogue, NEW types \in Seq(Types),
           NEW up \in SUBSET (1 .. Rogue), Publish(origin, types, up)
    PROVE  /\ \A o \in Squad : heardBy'[o][Rogue] = 0
           /\ setup.rogue = "wrong_key" => \A p \in 1 .. Rogue : heardBy'[Rogue][p] = 0
<1>0. Rogue \in 1 .. Rogue /\ Squad \subseteq 1 .. Rogue
  BY SetupFacts DEF ScenarioTypes
<1>1. /\ \A o : <<o, Rogue>> \notin HeardLinks(up)
      /\ setup.rogue = "wrong_key" => \A c : <<Rogue, c>> \notin HeardLinks(up)
  BY HeardFacts, WhoAccepts
<1>2. \A o, c \in 1 .. Rogue : <<o, c>> \notin HeardLinks(up) /\ heardBy[o][c] = 0 =>
        heardBy'[o][c] = 0
  <2>1. ASSUME NEW o \in 1 .. Rogue, NEW c \in 1 .. Rogue,
               <<o, c>> \notin HeardLinks(up), heardBy[o][c] = 0
        PROVE  heardBy'[o][c] = 0
    <3>1. heardBy'[o][c] = heardBy[o][c] +
            (IF <<o, c>> \in HeardLinks(up) THEN Len(Sends(c, origin, types, up)) ELSE 0)
      <4>1. MatrixGrows(origin, types, up)
        BY PublishGrows
      <4>2. QED BY <4>1 DEF MatrixGrows
    <3>2. heardBy'[o][c] = 0 + 0
      BY <2>1, <3>1
    <3>3. QED BY <3>2
  <2>2. QED BY <2>1
<1>3. QED BY <1>0, <1>1, <1>2 DEF RogueInv

LEMMA RogueInvStep ==
    ASSUME ScenarioTypes, RogueInv, [ScenarioNext]_scenarioVars
    PROVE  RogueInv'
<1>0. /\ Size \in Nat \ {0} /\ Squad = 1 .. Size /\ Rogue = Size + 1 /\ Rogue \in Nat
      /\ Rogue \in AllUp <=> setup.rogue # "none"
      /\ turn \in Nat /\ tickNo \in Nat
  <2>1. setup \in Setups
    BY DEF ScenarioTypes
  <2>2. Rogue \in Nat
    BY <2>1, SetupFacts
  <2>3. turn \in Nat /\ tickNo \in Nat
    BY <2>2, ScenarioAssumptions DEF ScenarioTypes
  <2>4. QED BY <2>1, <2>3, SetupFacts
<1>1. CASE StartNext
  <2>1. Publish(turn, OnStart(Role(turn)), 1 .. turn)
    BY <1>1 DEF StartNext
  <2>2. /\ \A o \in Squad : heardBy'[o][Rogue] = 0
        /\ setup.rogue = "wrong_key" => \A p \in 1 .. Rogue : heardBy'[Rogue][p] = 0
    BY <1>1, <2>1, StartFacts, RogueDeaf
  <2>3. tickNo' = 0 /\ setup' = setup
    BY <1>1, StartFacts
  <2>4. Squad' = Squad /\ Rogue' = Rogue
    BY <2>3, SameSetup
  <2>5. QED BY <2>2, <2>3, <2>4 DEF RogueInv
<1>2. CASE StepNext
  <2>1. Publish(turn, OnTick(Role(turn), tickNo - 1), AllUp)
    BY <1>2 DEF StepNext
  <2>2. /\ \A o \in Squad : heardBy'[o][Rogue] = 0
        /\ setup.rogue = "wrong_key" => \A p \in 1 .. Rogue : heardBy'[Rogue][p] = 0
    BY <1>2, <2>1, StepFacts, RogueDeaf
  <2>3. tickNo' = tickNo /\ setup' = setup /\ rejects' = rejects /\ ~ (turn' > Rogue)
    BY <1>0, <1>2, StepFacts
  <2>4. Squad' = Squad /\ Rogue' = Rogue
    BY <2>3, SameSetup
  <2>5. QED BY <2>2, <2>3, <2>4 DEF RogueInv
<1>3. CASE RogueStep
  <2>1. Publish(Rogue, <<"Presence">>, AllUp)
    BY <1>3 DEF RogueStep
  <2>2. /\ \A o \in Squad : heardBy'[o][Rogue] = 0
        /\ setup.rogue = "wrong_key" => \A p \in 1 .. Rogue : heardBy'[Rogue][p] = 0
    BY <1>3, <2>1, RogueFacts, RogueDeaf
  <2>3. setup' = setup /\ rejects' > 0
    BY <1>3, RogueFacts
  <2>4. Squad' = Squad /\ Rogue' = Rogue
    BY <2>3, SameSetup
  <2>5. QED BY <2>2, <2>3, <2>4 DEF RogueInv
<1>4. CASE NextTick
  <2>1. /\ setup' = setup /\ heardBy' = heardBy /\ rejects' = rejects
        /\ turn' = 1 /\ tickNo' = tickNo + 1
        /\ tickNo > 0 /\ Rogue \in AllUp => turn > Rogue
    BY <1>4 DEF NextTick
  <2>2. setup.rogue # "none" /\ (tickNo' > 1 \/ (tickNo' = 1 /\ turn' > Rogue))
          => tickNo > 1 \/ (tickNo = 1 /\ turn > Rogue)
    BY <1>0, <2>1
  <2>3. Squad' = Squad /\ Rogue' = Rogue
    BY <2>1, SameSetup
  <2>4. QED BY <2>1, <2>2, <2>3 DEF RogueInv
<1>5. CASE UNCHANGED scenarioVars
  <2>1. /\ setup' = setup /\ heardBy' = heardBy /\ rejects' = rejects
        /\ turn' = turn /\ tickNo' = tickNo
    BY <1>5 DEF scenarioVars
  <2>2. Squad' = Squad /\ Rogue' = Rogue
    BY <2>1, SameSetup
  <2>3. QED BY <2>1, <2>2 DEF RogueInv
<1>6. QED BY <1>1, <1>2, <1>3, <1>4, <1>5 DEF ScenarioNext

-----------------------------------------------------------------------------
(* The calls for evacuation. *)

\* A medic's tick calls nobody.
LEMMA MedicTick ==
    ASSUME NEW t
    PROVE  \A i \in 1 .. Len(OnTick("medic", t)) : OnTick("medic", t)[i] # "CasevacRequest"
<1>1. OnTick("medic", t) = <<"Presence">>
  BY Zenon DEF OnTick
<1>2. QED BY <1>1

\* With nobody refused, every medic reacts to a call.
LEMMA EveryMedic ==
    ASSUME ScenarioTypes, NEW origin \in Squad, Role(origin) # "medic", setup.blocks = {},
           NEW types, Count(types, "CasevacRequest") # 0
    PROVE  Reacting(origin, types, AllUp) = {m \in Squad : Role(m) = "medic"}
<1>1. Squad \subseteq AllUp /\ AllUp \subseteq 1 .. Rogue /\ Rogue \notin Squad
      /\ \A c \in AllUp : c \in Squad \/ c = Rogue
  BY SetupFacts DEF ScenarioTypes, AllUp
<1>2. \A m \in Squad : Accepts(m, origin)
  BY WhoAccepts
<1>3. Medics(origin, AllUp) = {m \in Squad : Role(m) = "medic"}
  <2>1. \A m : m \in Medics(origin, AllUp) <=>
          m \in AllUp /\ m # origin /\ m # Rogue /\ Role(m) = "medic" /\ Accepts(m, origin)
    BY DEF Medics
  <2>2. \A m : m \in AllUp /\ m # Rogue <=> m \in Squad
    BY <1>1
  <2>3. QED BY <1>2, <2>1, <2>2
<1>4. QED BY <1>3, Zenon DEF Reacting

LEMMA Distributes ==
    ASSUME NEW a \in Nat, NEW b \in Nat, NEW m \in Nat, NEW k \in Nat, NEW n \in Nat
    PROVE  /\ a <= b * n /\ k <= n => a + m * k <= (b + m) * n
           /\ a = b * n => a + m * n = (b + m) * n
<1>1. (b + m) * n = b * n + m * n
  OBVIOUS
<1>2. k <= n => m * k <= m * n
  <2>1. ASSUME k <= n PROVE m * k <= m * n
    <3>1. PICK j \in Nat : n = k + j
      <4>1. n - k \in Nat /\ n = k + (n - k)
        BY <2>1
      <4>2. QED BY <4>1
    <3>2. m * n = m * k + m * j /\ m * j \in Nat /\ m * k \in Nat
      BY <3>1
    <3>3. QED BY <3>2
  <2>2. QED BY <2>1
<1>3. m * k \in Int /\ m * n \in Int /\ b * n \in Int
  OBVIOUS
<1>4. a <= b * n /\ k <= n => a + m * k <= b * n + m * n
  <2> DEFINE x == m * k
             y == m * n
             z == b * n
  <2>1. x \in Int /\ y \in Int /\ z \in Int /\ (k <= n => x <= y)
    BY <1>2, <1>3
  <2> HIDE DEF x, y, z
  <2>2. a <= z /\ k <= n => a + x <= z + y
    BY <2>1
  <2>3. QED BY <2>2 DEF x, y, z
<1>5. QED
  <2>1. a = b * n => a + m * n = b * n + m * n
    OBVIOUS
  <2>2. QED BY <1>1, <1>4, <2>1

LEMMA CallsStep ==
    ASSUME ScenarioTypes, CallsAcknowledged, [ScenarioNext]_scenarioVars
    PROVE  CallsAcknowledged'
<1> DEFINE medics == {m \in Squad : Role(m) = "medic"}
           n == Cardinality(medics)
<1>0. n \in Nat /\ IsFiniteSet(medics)
  <2>1. IsFiniteSet(Squad) /\ medics \subseteq Squad
    BY SetupFacts, FS_Interval DEF ScenarioTypes
  <2>2. IsFiniteSet(medics)
    BY <2>1, FS_Subset
  <2>3. QED BY <2>2, FS_CardinalityType
<1>s. setup' = setup
  BY StartFacts, StepFacts, RogueFacts DEF ScenarioNext, NextTick, scenarioVars
<1>r. acks \in Nat /\ casevacs \in Nat
  BY DEF ScenarioTypes
<1>1. CASE UNCHANGED <<casevacs, acks>>
  <2>1. medics' = medics
    BY <1>s, SameSetup DEF Role
  <2>2. n' = n
    BY <2>1
  <2>3. casevacs' = casevacs /\ acks' = acks /\ setup'.blocks = setup.blocks
    BY <1>1, <1>s
  <2> HIDE DEF n
  <2>4. CallsAcknowledged <=>
          /\ acks <= casevacs * n
          /\ setup.blocks = {} => acks = casevacs * n
    BY DEF CallsAcknowledged, n
  <2>5. CallsAcknowledged' <=>
          /\ acks' <= casevacs' * n'
          /\ setup'.blocks = {} => acks' = casevacs' * n'
    BY DEF CallsAcknowledged, n
  <2>6. QED BY <2>2, <2>3, <2>4, <2>5
<1>2. ASSUME NEW origin \in 1 .. Rogue, NEW types \in Seq(Types), NEW up \in SUBSET (1 .. Rogue),
             Publish(origin, types, up),
             \/ \A i \in 1 .. Len(types) : types[i] # "CasevacRequest"
             \/ up = AllUp /\ origin \in Squad /\ Role(origin) # "medic"
      PROVE  CallsAcknowledged'
  <2> DEFINE m == Count(types, "CasevacRequest")
             k == Cardinality(Reacting(origin, types, up))
  <2>1. acks' = acks + m * k /\ casevacs' = casevacs + m /\ m \in Nat
    BY <1>2, PublishEffect, PositionsFacts
  <2>2. k \in Nat /\ k <= n
    <3>1. Reacting(origin, types, up) \subseteq medics
      BY PublishTypes
    <3>2. QED BY <1>0, <3>1, FS_Subset, FS_CardinalityType
  <2>3. setup.blocks = {} => m = 0 \/ k = n
    <3>1. (\A i \in 1 .. Len(types) : types[i] # "CasevacRequest") => m = 0
      BY PositionsFacts
    <3>2. ASSUME setup.blocks = {}, m # 0, up = AllUp, origin \in Squad, Role(origin) # "medic"
          PROVE  k = n
      BY <3>2, EveryMedic
    <3>3. QED BY <1>2, <3>1, <3>2
  <2>4. n' = n
    BY <1>s, SameSetup DEF Role
  <2> HIDE DEF n, m, k
  <2>5. acks <= casevacs * n /\ (setup.blocks = {} => acks = casevacs * n)
    BY DEF CallsAcknowledged, n
  <2>6. acks' <= casevacs' * n
    BY <1>0, <1>r, <2>1, <2>2, <2>5, Distributes
  <2>7. setup.blocks = {} => acks' = casevacs' * n
    <3>1. ASSUME setup.blocks = {}, m = 0 PROVE acks' = casevacs' * n
      <4>1. m * k = 0
        BY <2>2, <3>1
      <4>2. acks' = acks /\ casevacs' = casevacs
        BY <1>r, <2>1, <3>1, <4>1
      <4>3. QED BY <2>5, <3>1, <4>2
    <3>2. ASSUME setup.blocks = {}, k = n PROVE acks' = casevacs' * n
      BY <1>0, <1>r, <2>1, <2>5, <3>2, Distributes
    <3>3. QED BY <2>3, <3>1, <3>2
  <2>8. CallsAcknowledged' <=>
          /\ acks' <= casevacs' * n'
          /\ setup'.blocks = {} => acks' = casevacs' * n'
    BY DEF CallsAcknowledged, n
  <2>9. QED BY <1>s, <2>4, <2>6, <2>7, <2>8
<1>3. CASE StartNext
  <2>1. Publish(turn, OnStart(Role(turn)), 1 .. turn)
    BY <1>3 DEF StartNext
  <2>2. QED BY <1>2, <1>3, <2>1, StartFacts
<1>4. CASE StepNext
  <2>1. Publish(turn, OnTick(Role(turn), tickNo - 1), AllUp)
    BY <1>4 DEF StepNext
  <2>2. Role(turn) = "medic" => \A i \in 1 .. Len(OnTick(Role(turn), tickNo - 1)) :
          OnTick(Role(turn), tickNo - 1)[i] # "CasevacRequest"
    BY MedicTick
  <2>3. QED BY <1>2, <1>4, <2>1, <2>2, StepFacts
<1>5. CASE RogueStep
  <2>1. Publish(Rogue, <<"Presence">>, AllUp)
    BY <1>5 DEF RogueStep
  <2>2. QED BY <1>2, <1>5, <2>1, RogueFacts
<1>6. CASE NextTick
  BY <1>1, <1>6 DEF NextTick
<1>7. CASE UNCHANGED scenarioVars
  BY <1>1, <1>7 DEF scenarioVars
<1>8. QED BY <1>3, <1>4, <1>5, <1>6, <1>7 DEF ScenarioNext

-----------------------------------------------------------------------------
(* What the first command post has seen. *)

LEMMA SeenPublish ==
    ASSUME ScenarioTypes, NEW origin \in 1 .. Rogue, NEW types \in Seq(Types),
           NEW up \in SUBSET (1 .. Rogue), Publish(origin, types, up),
           setup.blocks = {}, Role(1) = "commandpost", 1 \in up,
           \/ \A i \in 1 .. Len(types) : types[i] # "CasevacRequest"
           \/ up = AllUp /\ origin \in Squad /\ Role(origin) # "medic"
    PROVE  /\ \A t \in Types : observed[t] > 0 => observed'[t] > 0
           /\ origin \in Squad \ {1} => \A t \in Types : Tells(types, t) => observed'[t] > 0
           /\ (observed["CasevacRequest"] > 0 => casevacs > 0)
                => (observed'["CasevacRequest"] > 0 => casevacs' > 0)
           /\ (casevacs > 0 /\ (\E m \in Squad : Role(m) = "medic") => observed["Receipt"] > 0)
                => (casevacs' > 0 /\ (\E m \in Squad : Role(m) = "medic")
                      => observed'["Receipt"] > 0)
<1> DEFINE sends(c) == Sends(c, origin, types, up)
           calls == Count(types, "CasevacRequest")
<1>0. /\ 1 \in Squad /\ 1 \in Posts /\ Squad \subseteq 1 .. Rogue
      /\ casevacs \in Nat /\ calls \in Nat /\ casevacs' = casevacs + calls
      /\ {"CasevacRequest", "Receipt"} \subseteq Types
  <2>1. 1 \in Squad /\ Squad \subseteq 1 .. Rogue
    BY SetupFacts DEF ScenarioTypes
  <2>2. casevacs' = casevacs + calls
    BY PublishEffect
  <2>3. calls \in Nat
    BY PositionsFacts
  <2>4. QED BY <2>1, <2>2, <2>3 DEF Posts, ScenarioTypes, Types
<1>1. \A t \in Types :
        /\ observed[t] > 0 => observed'[t] > 0
        /\ observed'[t] > 0 => observed[t] > 0 \/ \E link \in PostLinks(up) : Tells(sends(link[2]), t)
        /\ (\E link \in PostLinks(up) : Tells(sends(link[2]), t)) => observed'[t] > 0
  BY PublishEffect, Zenon
<1>2. \A c \in Squad \ {1} : <<1, c>> \in PostLinks(up)
  <2>1. \A o, c : <<o, c>> \in PostLinks(up) <=> <<o, c>> \in HeardLinks(up) /\ o \in Posts
    BY PublishTypes
  <2>2. \A c \in Squad : Accepts(1, c)
    BY <1>0, WhoAccepts
  <2>3. \A c \in Squad \ {1} : <<1, c>> \in HeardLinks(up)
    BY <1>0, <2>2, HeardFacts
  <2>4. QED BY <1>0, <2>1, <2>3
<1>3. \A c \in Squad \ {1}, t \in Types : Tells(sends(c), t) => observed'[t] > 0
  <2>1. ASSUME NEW c \in Squad \ {1}, NEW t \in Types, Tells(sends(c), t)
        PROVE  observed'[t] > 0
    <3>1. <<1, c>> \in PostLinks(up) /\ <<1, c>>[2] = c
      BY <1>2
    <3>2. \E link \in PostLinks(up) : Tells(sends(link[2]), t)
      BY <2>1, <3>1
    <3> HIDE DEF sends
    <3>3. QED BY <1>1, <3>2
  <2>2. QED BY <2>1
<1>4. sends(origin) = types /\ \A c \in Reacting(origin, types, up) : sends(c) = MedicReaction
  BY PublishTypes DEF Sends
<1>5. origin \in Squad \ {1} => \A t \in Types : Tells(types, t) => observed'[t] > 0
  BY <1>3, <1>4
<1>6. ASSUME observed["CasevacRequest"] > 0 => casevacs > 0, observed'["CasevacRequest"] > 0
      PROVE  casevacs' > 0
  <2>1. CASE observed["CasevacRequest"] > 0
    BY <1>0, <1>6, <2>1
  <2>2. CASE \E link \in PostLinks(up) : Tells(sends(link[2]), "CasevacRequest")
    <3>1. PICK c : Tells(sends(c), "CasevacRequest")
      BY <2>2
    <3>2. ~ Tells(MedicReaction, "CasevacRequest") /\ ~ Tells(<<>>, "CasevacRequest")
      BY DEF Tells, MedicReaction
    <3>3. sends(c) = types \/ sends(c) = MedicReaction \/ sends(c) = <<>>
      BY Zenon DEF Sends
    <3>4. Tells(types, "CasevacRequest")
      BY <3>1, <3>2, <3>3, Zenon
    <3>5. calls # 0
      BY <3>4, PositionsFacts DEF Tells
    <3> HIDE DEF calls
    <3>6. QED BY <1>0, <3>5
  <2>3. QED BY <1>0, <1>1, <1>6, <2>1, <2>2
<1>7. ASSUME casevacs > 0 /\ (\E m \in Squad : Role(m) = "medic") => observed["Receipt"] > 0,
             casevacs' > 0, \E m \in Squad : Role(m) = "medic"
      PROVE  observed'["Receipt"] > 0
  <2>1. CASE casevacs > 0
    BY <1>0, <1>1, <1>7, <2>1
  <2>2. CASE casevacs = 0
    <3>1. calls # 0
      <4> HIDE DEF calls
      <4> QED BY <1>0, <1>7, <2>2
    <3>2. up = AllUp /\ origin \in Squad /\ Role(origin) # "medic"
      BY <3>1, PositionsFacts
    <3>3. PICK m \in Squad : Role(m) = "medic"
      BY <1>7
    <3>4. m \in Reacting(origin, types, up) /\ m # 1
      BY <3>1, <3>2, <3>3, EveryMedic
    <3>5. sends(m) = MedicReaction
      BY <1>4, <3>4
    <3>6. Tells(MedicReaction, "Receipt")
      BY DEF Tells, MedicReaction
    <3>7. Tells(sends(m), "Receipt")
      BY <3>5, <3>6
    <3> HIDE DEF sends
    <3>8. QED BY <1>0, <1>3, <3>4, <3>7
  <2>3. QED BY <1>0, <2>1, <2>2
<1>8. QED BY <1>1, <1>5, <1>6, <1>7

LEMMA SeenStep ==
    ASSUME ScenarioTypes, SeenInv, [ScenarioNext]_scenarioVars
    PROVE  SeenInv'
<1> SUFFICES ASSUME setup.blocks = {}, Role(1) = "commandpost", setup' = setup
             PROVE
        /\ \A c \in Squad \ {1} : Started(c)' =>
             \A t \in Types : Tells(OnStart(Role(c)), t) => observed'[t] > 0
        /\ \A c \in Squad \ {1}, n \in Nat : Stepped(c, n)' =>
             \A t \in Types : Tells(OnTick(Role(c), n), t) => observed'[t] > 0
        /\ observed'["CasevacRequest"] > 0 => casevacs' > 0
        /\ casevacs' > 0 /\ (\E m \in Squad : Role(m) = "medic") => observed'["Receipt"] > 0
  <2>1. setup' = setup
    BY StartFacts, StepFacts, RogueFacts DEF ScenarioNext, NextTick, scenarioVars
  <2>2. Squad' = Squad
    BY <2>1, SameSetup
  <2>3. QED BY <2>1, <2>2 DEF SeenInv, Role
<1>0. /\ Size \in Nat \ {0} /\ Squad = 1 .. Size /\ Rogue = Size + 1 /\ 1 \in AllUp
      /\ turn \in Nat /\ tickNo \in Nat
  <2>1. setup \in Setups
    BY DEF ScenarioTypes
  <2>2. Rogue \in Nat /\ Size \in Nat \ {0} /\ Squad = 1 .. Size /\ Rogue = Size + 1 /\ 1 \in AllUp
    BY <2>1, SetupFacts
  <2>3. turn \in Nat /\ tickNo \in Nat
    BY <2>2, ScenarioAssumptions DEF ScenarioTypes
  <2>4. QED BY <2>2, <2>3
<1>i. /\ \A c \in Squad \ {1} : Started(c) =>
           \A t \in Types : Tells(OnStart(Role(c)), t) => observed[t] > 0
      /\ \A c \in Squad \ {1}, n \in Nat : Stepped(c, n) =>
           \A t \in Types : Tells(OnTick(Role(c), n), t) => observed[t] > 0
      /\ observed["CasevacRequest"] > 0 => casevacs > 0
      /\ casevacs > 0 /\ (\E m \in Squad : Role(m) = "medic") => observed["Receipt"] > 0
  BY DEF SeenInv
<1>1. CASE StartNext
  <2> DEFINE types == OnStart(Role(turn))
  <2>1. Publish(turn, types, 1 .. turn)
    BY <1>1 DEF StartNext
  <2>2. 1 \in 1 .. turn /\ turn \in Squad
    BY <1>0, <1>1, StartFacts
  <2>3. /\ \A t \in Types : observed[t] > 0 => observed'[t] > 0
        /\ turn \in Squad \ {1} => \A t \in Types : Tells(types, t) => observed'[t] > 0
        /\ observed'["CasevacRequest"] > 0 => casevacs' > 0
        /\ casevacs' > 0 /\ (\E m \in Squad : Role(m) = "medic") => observed'["Receipt"] > 0
    BY <1>i, <1>1, <2>1, <2>2, StartFacts, SeenPublish
  <2>4. /\ \A c \in Squad : Started(c)' => Started(c) \/ c = turn
        /\ \A c, n \in Nat : ~ Stepped(c, n)'
    BY <1>0, <1>1, StartFacts DEF Started, Stepped
  <2>5. Squad \subseteq Nat
    BY <1>0
  <2> HIDE DEF types
  <2>6. \A c \in Squad \ {1} : Started(c)' =>
             \A t \in Types : Tells(OnStart(Role(c)), t) => observed'[t] > 0
    BY <1>i, <2>3, <2>4 DEF types
  <2>7. QED BY <2>3, <2>4, <2>5, <2>6
<1>2. CASE StepNext
  <2> DEFINE types == OnTick(Role(turn), tickNo - 1)
  <2>1. Publish(turn, types, AllUp)
    BY <1>2 DEF StepNext
  <2>2. Role(turn) = "medic" => \A i \in 1 .. Len(types) : types[i] # "CasevacRequest"
    BY MedicTick
  <2>3. /\ \A t \in Types : observed[t] > 0 => observed'[t] > 0
        /\ turn \in Squad \ {1} => \A t \in Types : Tells(types, t) => observed'[t] > 0
        /\ observed'["CasevacRequest"] > 0 => casevacs' > 0
        /\ casevacs' > 0 /\ (\E m \in Squad : Role(m) = "medic") => observed'["Receipt"] > 0
    BY <1>0, <1>i, <1>2, <2>1, <2>2, StepFacts, SeenPublish
  <2>4. /\ \A c \in Squad : Started(c)
        /\ \A c \in Squad, n \in Nat : Stepped(c, n)' =>
             Stepped(c, n) \/ (c = turn /\ n = tickNo - 1)
    BY <1>0, <1>2, StepFacts DEF Started, Stepped
  <2> HIDE DEF types
  <2>5. \A c \in Squad \ {1} : \A t \in Types : Tells(OnStart(Role(c)), t) => observed'[t] > 0
    BY <1>i, <2>3, <2>4
  <2>6. ASSUME NEW c \in Squad \ {1}, NEW n \in Nat, Stepped(c, n)'
        PROVE  \A t \in Types : Tells(OnTick(Role(c), n), t) => observed'[t] > 0
    <3>1. CASE Stepped(c, n)
      BY <1>i, <2>3, <3>1
    <3>2. CASE c = turn /\ n = tickNo - 1
      BY <2>3, <3>2 DEF types
    <3>3. QED BY <2>4, <2>6, <3>1, <3>2
  <2>7. QED BY <2>3, <2>5, <2>6
<1>3. CASE RogueStep
  <2>1. Publish(Rogue, <<"Presence">>, AllUp)
    BY <1>3 DEF RogueStep
  <2>3. /\ \A t \in Types : observed[t] > 0 => observed'[t] > 0
        /\ observed'["CasevacRequest"] > 0 => casevacs' > 0
        /\ casevacs' > 0 /\ (\E m \in Squad : Role(m) = "medic") => observed'["Receipt"] > 0
    BY <1>0, <1>i, <1>3, <2>1, RogueFacts, SeenPublish
  <2>4. /\ \A c \in Squad : Started(c)
        /\ \A c \in Squad, n \in Nat : Stepped(c, n)' => Stepped(c, n)
    BY <1>0, <1>3, RogueFacts DEF Started, Stepped
  <2>5. QED BY <1>i, <2>3, <2>4
<1>4. CASE NextTick
  <2>1. /\ UNCHANGED <<observed, casevacs>>
        /\ turn' = 1 /\ tickNo' = tickNo + 1 /\ turn \notin Squad
        /\ tickNo = 0 => turn \in 1 .. Rogue
    BY <1>4 DEF NextTick, ScenarioTypes
  <2>2. /\ \A c \in Squad : Started(c)
        /\ \A c \in Squad, n \in Nat : Stepped(c, n)' => Stepped(c, n)
    <3>1. turn > Size
      <4>1. turn \in 1 .. Rogue + 1
        BY DEF ScenarioTypes
      <4>2. QED BY <1>0, <2>1, <4>1
    <3>2. ASSUME NEW c \in Squad PROVE c \in Nat /\ 1 <= c /\ c < turn
      BY <1>0, <3>1
    <3>3. ASSUME NEW c \in Squad, NEW n \in Nat, Stepped(c, n)' PROVE Stepped(c, n)
      <4>1. n + 1 < tickNo + 1 \/ (n + 1 = tickNo + 1 /\ c < 1)
        BY <2>1, <3>3 DEF Stepped
      <4>2. n + 1 < tickNo \/ n + 1 = tickNo
        BY <1>0, <3>2, <4>1
      <4>3. QED BY <3>2, <4>2 DEF Stepped
    <3>4. QED BY <3>2, <3>3 DEF Started
  <2>3. QED BY <1>i, <2>1, <2>2
<1>5. CASE UNCHANGED scenarioVars
  BY <1>5, <1>i DEF scenarioVars, Started, Stepped
<1>6. QED BY <1>1, <1>2, <1>3, <1>4, <1>5 DEF ScenarioNext

-----------------------------------------------------------------------------
(* What the command posts saw and what they heard. *)

\* One token for each time a member of S has been counted.
Tokens(S, f) == UNION {{s} \X (1 .. f[s]) : s \in S}

LEMMA TokensAre ==
    ASSUME NEW S, NEW f
    PROVE  \A d : d \in Tokens(S, f) <=> \E s \in S : \E i \in 1 .. f[s] : d = <<s, i>>
  BY DEF Tokens

\* When each counter grows by the size of a set, the sets without common elements, the
\* tokens grow by the size of their union.
Grown(S, f, g, part, G) ==
    /\ f \in [S -> Nat] /\ g \in [S -> Nat] /\ IsFiniteSet(G) /\ IsFiniteSet(Tokens(S, f))
    /\ \A s \in S : IsFiniteSet(part[s]) /\ g[s] = f[s] + Cardinality(part[s])
    /\ \A s, r \in S : s # r => part[s] \cap part[r] = {}
    /\ \A x : x \in G <=> \E s \in S : x \in part[s]

LEMMA TokensGrow ==
    ASSUME NEW S, NEW f, NEW g, NEW part, NEW G, Grown(S, f, g, part, G)
    PROVE  /\ IsFiniteSet(Tokens(S, g))
           /\ Cardinality(Tokens(S, g)) = Cardinality(Tokens(S, f)) + Cardinality(G)
<1> DEFINE n(s) == Cardinality(part[s])
           b == [s \in S |-> CHOOSE h : h \in Bijection(1 .. n(s), part[s])]
           D == {d \in Tokens(S, g) : d \notin Tokens(S, f)}
           F == [d \in D |-> b[d[1]][d[2] - f[d[1]]]]
<1>0. /\ f \in [S -> Nat] /\ g \in [S -> Nat] /\ IsFiniteSet(G) /\ IsFiniteSet(Tokens(S, f))
      /\ \A s \in S : IsFiniteSet(part[s]) /\ g[s] = f[s] + Cardinality(part[s])
      /\ \A s, r \in S : s # r => part[s] \cap part[r] = {}
      /\ \A x : x \in G <=> \E s \in S : x \in part[s]
  BY Zenon DEF Grown
<1>1. \A s \in S : n(s) \in Nat /\ f[s] \in Nat /\ g[s] \in Nat /\ g[s] = f[s] + n(s)
  BY <1>0, FS_CardinalityType
<1>2. ASSUME NEW s \in S PROVE b[s] \in Bijection(1 .. n(s), part[s])
  <2>1. Bijection(1 .. n(s), part[s]) # {}
    BY <1>0, FS_CardinalityType DEF ExistsBijection
  <2>2. (CHOOSE h : h \in Bijection(1 .. n(s), part[s])) \in Bijection(1 .. n(s), part[s])
    BY <2>1, Zenon
  <2>3. QED BY <2>2, Zenon
<1>3. \A s \in S : /\ \A i \in 1 .. n(s) : b[s][i] \in part[s]
                   /\ \A i, j \in 1 .. n(s) : b[s][i] = b[s][j] => i = j
                   /\ \A x \in part[s] : \E i \in 1 .. n(s) : b[s][i] = x
  <2> SUFFICES ASSUME NEW s \in S
               PROVE  /\ \A i \in 1 .. n(s) : b[s][i] \in part[s]
                      /\ \A i, j \in 1 .. n(s) : b[s][i] = b[s][j] => i = j
                      /\ \A x \in part[s] : \E i \in 1 .. n(s) : b[s][i] = x
    OBVIOUS
  <2> DEFINE h == b[s]
             I == 1 .. n(s)
             P == part[s]
  <2>1. h \in Bijection(I, P)
    BY <1>2
  <2> HIDE DEF h, I, P
  <2>2. /\ h \in [I -> P] /\ \A i, j \in I : h[i] = h[j] => i = j
        /\ \A x \in P : \E i \in I : h[i] = x
    BY <2>1, Fun_BijectionProperties
  <2>3. QED BY <2>2 DEF h, I, P
<1>4. \A d : d \in D <=> \E s \in S : \E i \in 1 .. n(s) : d = <<s, f[s] + i>>
  <2> SUFFICES ASSUME NEW d
               PROVE  d \in D <=> \E s \in S : \E i \in 1 .. n(s) : d = <<s, f[s] + i>>
    OBVIOUS
  <2>1. ASSUME d \in D PROVE \E s \in S : \E i \in 1 .. n(s) : d = <<s, f[s] + i>>
    <3>0. PICK s \in S : \E k \in 1 .. g[s] : d = <<s, k>>
      BY <2>1, TokensAre
    <3>1. PICK k \in 1 .. g[s] : d = <<s, k>>
      BY <3>0
    <3>2. ~ (k \in 1 .. f[s])
      BY <2>1, <3>1, TokensAre
    <3> HIDE DEF n
    <3>3. k - f[s] \in 1 .. n(s) /\ f[s] + (k - f[s]) = k
      BY <1>1, <3>1, <3>2
    <3>4. QED BY <3>1, <3>3
  <2>2. ASSUME NEW s \in S, NEW i \in 1 .. n(s), d = <<s, f[s] + i>> PROVE d \in D
    <3> HIDE DEF n
    <3>1. f[s] + i \in 1 .. g[s] /\ f[s] + i \notin 1 .. f[s]
      BY <1>1
    <3>2. d \in Tokens(S, g)
      BY <2>2, <3>1, TokensAre
    <3>3. d \notin Tokens(S, f)
      BY <2>2, <3>1, TokensAre
    <3>4. QED BY <3>2, <3>3
  <2>3. QED BY <2>1, <2>2
<1>5. \A s \in S : \A i \in 1 .. n(s) : <<s, f[s] + i>> \in D /\ F[<<s, f[s] + i>>] = b[s][i]
  <2> SUFFICES ASSUME NEW s \in S, NEW i \in 1 .. n(s)
               PROVE  <<s, f[s] + i>> \in D /\ F[<<s, f[s] + i>>] = b[s][i]
    OBVIOUS
  <2>1. <<s, f[s] + i>> \in D
    BY <1>4
  <2>2. <<s, f[s] + i>>[1] = s /\ <<s, f[s] + i>>[2] - f[s] = i
    <3> HIDE DEF n
    <3> QED BY <1>1
  <2> HIDE DEF D, n, b
  <2>3. QED BY <2>1, <2>2
<1> HIDE DEF n, b, D, F
<1>6. F \in [D -> G]
  <2>1. ASSUME NEW d \in D PROVE F[d] \in G
    <3>0. PICK s \in S : \E i \in 1 .. n(s) : d = <<s, f[s] + i>>
      BY <1>4
    <3>1. PICK i \in 1 .. n(s) : d = <<s, f[s] + i>>
      BY <3>0
    <3>2. QED BY <1>0, <1>3, <1>5, <3>1
  <2>2. F = [d \in D |-> F[d]]
    BY DEF F
  <2>3. QED BY <2>1, <2>2
<1>7. ASSUME NEW d \in D, NEW e \in D, F[d] = F[e] PROVE d = e
  <2>a. PICK s \in S : \E i \in 1 .. n(s) : d = <<s, f[s] + i>>
    BY <1>4
  <2>b. PICK r \in S : \E j \in 1 .. n(r) : e = <<r, f[r] + j>>
    BY <1>4
  <2>1. PICK i \in 1 .. n(s) : d = <<s, f[s] + i>>
    BY <2>a
  <2>2. PICK j \in 1 .. n(r) : e = <<r, f[r] + j>>
    BY <2>b
  <2>3. b[s][i] \in part[s] /\ b[r][j] \in part[r] /\ b[s][i] = b[r][j]
    BY <1>3, <1>5, <1>7, <2>1, <2>2
  <2>4. s = r
    BY <1>0, <2>3
  <2>5. QED BY <1>3, <2>1, <2>2, <2>3, <2>4
<1>8. ASSUME NEW x \in G PROVE \E d \in D : F[d] = x
  <2>1. PICK s \in S : x \in part[s]
    BY <1>0
  <2>2. PICK i \in 1 .. n(s) : b[s][i] = x
    BY <1>3, <2>1
  <2>3. QED BY <1>5, <2>2
<1>9. ExistsBijection(G, D)
  <2>1. F \in Bijection(D, G)
    BY <1>6, <1>7, <1>8, Fun_IsBij
  <2>2. ExistsBijection(D, G)
    BY <2>1 DEF ExistsBijection
  <2>3. QED BY <2>2, Fun_ExistsBijSymmetric
<1>10. IsFiniteSet(D) /\ Cardinality(D) = Cardinality(G)
  BY <1>0, <1>9, FS_Bijection
<1>11. Tokens(S, f) \cup D = Tokens(S, g) /\ Tokens(S, f) \cap D = {}
  <2>1. Tokens(S, f) \subseteq Tokens(S, g)
    <3>1. ASSUME NEW d \in Tokens(S, f) PROVE d \in Tokens(S, g)
      <4>0. PICK s \in S : \E i \in 1 .. f[s] : d = <<s, i>>
        BY TokensAre
      <4>1. PICK i \in 1 .. f[s] : d = <<s, i>>
        BY <4>0
      <4>2. i \in 1 .. g[s]
        BY <1>1
      <4>3. QED BY <4>1, <4>2, TokensAre
    <3>2. QED BY <3>1
  <2>2. QED BY <2>1 DEF D
<1>12. QED
  <2>1. Cardinality({}) = 0
    BY FS_EmptySet
  <2>2. /\ IsFiniteSet(Tokens(S, g))
        /\ Cardinality(Tokens(S, g)) = Cardinality(Tokens(S, f)) + Cardinality(D) - 0
    <3> DEFINE A == Tokens(S, f)
    <3>1. IsFiniteSet(A)
      BY <1>0
    <3> HIDE DEF A
    <3>2. /\ IsFiniteSet(A \cup D)
          /\ Cardinality(A \cup D) = Cardinality(A) + Cardinality(D) - Cardinality(A \cap D)
      BY <1>10, <3>1, FS_Union
    <3>3. A \cup D = Tokens(S, g) /\ A \cap D = {}
      BY <1>11 DEF A
    <3>4. QED BY <2>1, <3>2, <3>3 DEF A
  <2>3. Cardinality(D) \in Nat /\ Cardinality(Tokens(S, f)) \in Nat
    BY <1>0, <1>10, FS_CardinalityType
  <2>4. QED BY <1>10, <2>2, <2>3

Heard(pairs, heard) == [link \in pairs |-> heard[link[1]][link[2]]]

LEMMA HeardTokens ==
    ASSUME NEW pairs, NEW heard
    PROVE  \A d : d \in Tokens(pairs, Heard(pairs, heard)) <=>
             \E link \in pairs : \E i \in 1 .. heard[link[1]][link[2]] : d = <<link, i>>
<1>1. \A link \in pairs : Heard(pairs, heard)[link] = heard[link[1]][link[2]]
  BY DEF Heard
<1>2. QED BY <1>1, TokensAre

LEMMA CountTo ==
    ASSUME NEW k \in Nat
    PROVE  IsFiniteSet(1 .. k) /\ Cardinality(1 .. k) = k
  BY FS_Interval

SumInv ==
    /\ IsFiniteSet(Observations) /\ IsFiniteSet(HeardByPosts)
    /\ Cardinality(Observations) = Cardinality(HeardByPosts)

LEMMA SumPublish ==
    ASSUME ScenarioTypes, SumInv, setup' = setup,
           NEW origin \in 1 .. Rogue, NEW types \in Seq(Types),
           NEW up \in SUBSET (1 .. Rogue), Publish(origin, types, up)
    PROVE  SumInv'
<1> DEFINE sends(c) == Sends(c, origin, types, up)
           len(link) == Len(sends(link[2]))
           n == Len(types) + 3
           links == PostLinks(up)
           G == UNION {{link} \X (1 .. len(link)) : link \in links}
           sights == [t \in Types |-> Hearings(t, origin, types, up)]
           pairs == Posts \X (1 .. Rogue)
           heard == [link \in pairs |-> IF link \in links THEN {link} \X (1 .. len(link)) ELSE {}]
           before == Heard(pairs, heardBy)
           after == Heard(pairs, heardBy')
<1>0. /\ Rogue \in Nat /\ Posts \subseteq 1 .. Rogue /\ Len(types) \in Nat
      /\ \A c : sends(c) \in Seq(Types) /\ Len(sends(c)) \in Nat /\ Len(sends(c)) <= n
      /\ observed \in [Types -> Nat] /\ observed' \in [Types -> Nat]
      /\ links \subseteq pairs
  <2>1. Rogue \in Nat /\ Posts \subseteq 1 .. Rogue
    BY SetupFacts DEF Posts, ScenarioTypes
  <2>2. \A c : sends(c) \in Seq(Types) /\ Len(sends(c)) \in Nat
    BY PublishTypes
  <2>3. \A c : Len(sends(c)) <= n
    BY SendsBound
  <2>4. observed \in [Types -> Nat] /\ observed' \in [Types -> Nat]
    BY PublishEffect DEF ScenarioTypes
  <2>5. links \subseteq pairs
    <3>1. \A o, c : <<o, c>> \in links => o \in Posts /\ c \in 1 .. Rogue
      BY PublishTypes
    <3>2. links \subseteq up \X (1 .. Rogue)
      BY DEF PostLinks, HeardLinks
    <3>3. QED BY <3>1, <3>2
  <2>6. QED BY <2>1, <2>2, <2>3, <2>4, <2>5, LenProperties
<1>e. /\ Observations = Tokens(Types, observed) /\ HeardByPosts = Tokens(pairs, before)
      /\ Observations' = Tokens(Types, observed') /\ HeardByPosts' = Tokens(pairs, after)
  <2>1. Observations = Tokens(Types, observed) /\ Observations' = Tokens(Types, observed')
    BY Zenon DEF Observations, Tokens
  <2>2. HeardByPosts = Tokens(pairs, before)
    <3>1. \A d : d \in HeardByPosts <=>
            \E link \in pairs : \E i \in 1 .. heardBy[link[1]][link[2]] : d = <<link, i>>
      BY DEF HeardByPosts
    <3>2. \A d : d \in Tokens(pairs, before) <=>
            \E link \in pairs : \E i \in 1 .. heardBy[link[1]][link[2]] : d = <<link, i>>
      BY HeardTokens
    <3> HIDE DEF pairs, before
    <3>3. \A d : d \in HeardByPosts <=> d \in Tokens(pairs, before)
      BY <3>1, <3>2
    <3>4. QED BY <3>3
  <2>3. HeardByPosts' = Tokens(pairs, after)
    <3>1. \A d : d \in HeardByPosts' <=>
            \E link \in pairs : \E i \in 1 .. heardBy'[link[1]][link[2]] : d = <<link, i>>
      <4>1. Posts' = Posts /\ Rogue' = Rogue
        BY SameSetup
      <4>2. \A d : d \in HeardByPosts' <=> \E link \in Posts' \X (1 .. Rogue') :
              \E i \in 1 .. heardBy'[link[1]][link[2]] : d = <<link, i>>
        BY DEF HeardByPosts
      <4>3. QED BY <4>1, <4>2
    <3>2. \A d : d \in Tokens(pairs, after) <=>
            \E link \in pairs : \E i \in 1 .. heardBy'[link[1]][link[2]] : d = <<link, i>>
      BY HeardTokens
    <3> HIDE DEF pairs, after
    <3>3. \A d : d \in HeardByPosts' <=> d \in Tokens(pairs, after)
      BY <3>1, <3>2
    <3>4. QED BY <3>3
  <2>4. QED BY <2>1, <2>2, <2>3
<1>1. \A h : h \in G <=> \E link \in links : \E i \in 1 .. len(link) : h = <<link, i>>
  OBVIOUS
<1>2. IsFiniteSet(G)
  <2>1. \A link : 1 .. len(link) \subseteq 1 .. n
    <3> HIDE DEF sends
    <3> QED BY <1>0
  <2>2. G \subseteq ((1 .. Rogue) \X (1 .. Rogue)) \X (1 .. n)
    <3> SUFFICES ASSUME NEW h \in G PROVE h \in ((1 .. Rogue) \X (1 .. Rogue)) \X (1 .. n)
      OBVIOUS
    <3> HIDE DEF len, n, links, G
    <3>1. PICK link \in links : \E i \in 1 .. len(link) : h = <<link, i>>
      BY <1>1
    <3>2. PICK i \in 1 .. len(link) : h = <<link, i>>
      BY <3>1
    <3>3. i \in 1 .. n
      BY <2>1
    <3>4. link \in (1 .. Rogue) \X (1 .. Rogue)
      BY <1>0
    <3>5. QED BY <3>2, <3>3, <3>4
  <2>3. IsFiniteSet(1 .. Rogue) /\ IsFiniteSet(1 .. n)
    BY <1>0, FS_Interval
  <2>4. IsFiniteSet(((1 .. Rogue) \X (1 .. Rogue)) \X (1 .. n))
    BY <2>3, FS_Product
  <2>5. QED BY <2>2, <2>4, FS_Subset
<1>3. /\ IsFiniteSet(Tokens(Types, observed'))
      /\ Cardinality(Tokens(Types, observed')) = Cardinality(Tokens(Types, observed)) + Cardinality(G)
  <2>1. \A t \in Types : /\ IsFiniteSet(sights[t])
                         /\ observed'[t] = observed[t] + Cardinality(sights[t])
    <3>1. SeenGrows(origin, types, up)
      BY PublishGrows
    <3>2. QED BY <3>1 DEF SeenGrows
  <2>2. \A t \in Types : \A h : h \in sights[t] <=>
          \E link \in links : \E i \in 1 .. len(link) : h = <<link, i>> /\ sends(link[2])[i] = t
    <3> SUFFICES ASSUME NEW t \in Types
                 PROVE  \A h : h \in sights[t] <=> \E link \in links : \E i \in 1 .. len(link) :
                          h = <<link, i>> /\ sends(link[2])[i] = t
      OBVIOUS
    <3>1. sights[t] = Hearings(t, origin, types, up)
      OBVIOUS
    <3> HIDE DEF sights
    <3>2. \A h : h \in Hearings(t, origin, types, up) <=> \E link \in links :
            \E i \in 1 .. len(link) : h = <<link, i>> /\ sends(link[2])[i] = t
      BY HearingsFacts
    <3>3. QED BY <3>1, <3>2, Zenon
  <2>3. \A t, r \in Types : t # r => sights[t] \cap sights[r] = {}
    <3> SUFFICES ASSUME NEW t \in Types, NEW r \in Types, NEW h \in sights[t] \cap sights[r] PROVE t = r
      OBVIOUS
    <3> HIDE DEF sights, links, len, sends
    <3>1. PICK link \in links : \E i \in 1 .. len(link) : h = <<link, i>> /\ sends(link[2])[i] = t
      BY <2>2
    <3>2. PICK i \in 1 .. len(link) : h = <<link, i>> /\ sends(link[2])[i] = t
      BY <3>1
    <3>3. PICK mate \in links : \E j \in 1 .. len(mate) : h = <<mate, j>> /\ sends(mate[2])[j] = r
      BY <2>2
    <3>4. PICK j \in 1 .. len(mate) : h = <<mate, j>> /\ sends(mate[2])[j] = r
      BY <3>3
    <3>5. link = mate /\ i = j
      BY <3>2, <3>4
    <3>6. QED BY <3>2, <3>4, <3>5
  <2>4. \A x : x \in G <=> \E t \in Types : x \in sights[t]
    <3>1. \A link : \A i \in 1 .. len(link) : sends(link[2])[i] \in Types
      BY <1>0, ElementOfSeq
    <3> HIDE DEF sights, links, len, sends, G
    <3>2. ASSUME NEW x \in G PROVE \E t \in Types : x \in sights[t]
      <4>1. PICK link \in links : \E i \in 1 .. len(link) : x = <<link, i>>
        BY <1>1
      <4>2. PICK i \in 1 .. len(link) : x = <<link, i>>
        BY <4>1
      <4>3. sends(link[2])[i] \in Types
        BY <3>1
      <4>4. QED BY <2>2, <4>2, <4>3
    <3>3. ASSUME NEW x, NEW t \in Types, x \in sights[t] PROVE x \in G
      BY <1>1, <2>2, <3>3
    <3>4. QED BY <3>2, <3>3
  <2>5. IsFiniteSet(Tokens(Types, observed))
    BY <1>e DEF SumInv
  <2> HIDE DEF sights, G
  <2>6. observed \in [Types -> Nat] /\ observed' \in [Types -> Nat]
    BY <1>0
  <2>7. Grown(Types, observed, observed', sights, G)
    BY <1>2, <2>1, <2>3, <2>4, <2>5, <2>6, Zenon DEF Grown
  <2>8. QED BY <2>7, TokensGrow
<1>4. /\ IsFiniteSet(Tokens(pairs, after))
      /\ Cardinality(Tokens(pairs, after)) = Cardinality(Tokens(pairs, before)) + Cardinality(G)
  <2>1. before \in [pairs -> Nat] /\ after \in [pairs -> Nat]
    <3>1. /\ heardBy \in [1 .. Rogue -> [1 .. Rogue -> Nat]]
          /\ heardBy' \in [1 .. Rogue -> [1 .. Rogue -> Nat]]
      BY PublishEffect DEF ScenarioTypes
    <3>2. \A link \in pairs : heardBy[link[1]][link[2]] \in Nat /\ heardBy'[link[1]][link[2]] \in Nat
      BY <1>0, <3>1
    <3>3. QED BY <3>2 DEF Heard
  <2>2. ASSUME NEW link \in pairs
        PROVE  IsFiniteSet(heard[link]) /\ after[link] = before[link] + Cardinality(heard[link])
    <3>1. PICK o \in Posts, c \in 1 .. Rogue : link = <<o, c>>
      OBVIOUS
    <3>2. before[link] = heardBy[o][c] /\ after[link] = heardBy'[o][c]
      BY <3>1 DEF Heard
    <3>3. heardBy'[o][c] = heardBy[o][c] + (IF <<o, c>> \in HeardLinks(up) THEN Len(sends(c)) ELSE 0)
      <4>1. MatrixGrows(origin, types, up) /\ o \in 1 .. Rogue
        BY <1>0, PublishGrows
      <4>2. QED BY <4>1 DEF MatrixGrows
    <3>4. link \in links <=> <<o, c>> \in HeardLinks(up)
      BY <3>1, PublishTypes
    <3>5. CASE link \in links
      <4>1. heard[link] = {link} \X (1 .. Len(sends(c)))
        BY <3>1, <3>5
      <4>2. PICK k \in Nat : k = Len(sends(c))
        BY <1>0
      <4>3. /\ IsFiniteSet({link}) /\ Cardinality({link}) = 1
            /\ IsFiniteSet(1 .. k) /\ Cardinality(1 .. k) = k
        BY CountTo, FS_Singleton
      <4>4. /\ IsFiniteSet({link} \X (1 .. k))
            /\ Cardinality({link} \X (1 .. k)) = Cardinality({link}) * Cardinality(1 .. k)
        BY <4>3, FS_Product
      <4>5. Cardinality({link} \X (1 .. k)) = k
        BY <4>3, <4>4
      <4> HIDE DEF heard, sends, before, after
      <4>6. after[link] = before[link] + k
        BY <3>2, <3>3, <3>4, <3>5, <4>2
      <4>7. QED BY <4>1, <4>2, <4>4, <4>5, <4>6
    <3>6. CASE link \notin links
      <4>1. heard[link] = {}
        BY <3>6
      <4>2. IsFiniteSet(heard[link]) /\ Cardinality(heard[link]) = 0
        BY <4>1, FS_EmptySet
      <4> HIDE DEF heard, sends, before, after
      <4>3. after[link] = before[link] + 0
        BY <3>2, <3>3, <3>4, <3>6
      <4>4. QED BY <4>2, <4>3
    <3>7. QED BY <3>5, <3>6
  <2>3. \A link \in pairs : \A h : h \in heard[link] <=>
          link \in links /\ \E i \in 1 .. len(link) : h = <<link, i>>
    OBVIOUS
  <2>4. \A link, mate \in pairs : link # mate => heard[link] \cap heard[mate] = {}
    <3> HIDE DEF heard, len, links, pairs
    <3> QED BY <2>3
  <2>5. \A x : x \in G <=> \E link \in pairs : x \in heard[link]
    <3> HIDE DEF heard, len, links, pairs, G
    <3> QED BY <1>0, <1>1, <2>3
  <2>6. IsFiniteSet(Tokens(pairs, before))
    BY <1>e DEF SumInv
  <2> HIDE DEF heard, G, pairs, before, after
  <2>7. Grown(pairs, before, after, heard, G)
    BY <1>2, <2>1, <2>2, <2>4, <2>5, <2>6, Zenon DEF Grown
  <2>8. QED BY <2>7, TokensGrow
<1> HIDE DEF G, pairs, before, after
<1>6. Cardinality(Observations') = Cardinality(HeardByPosts')
  BY <1>3, <1>4, <1>e DEF SumInv
<1>7. QED BY <1>3, <1>4, <1>e, <1>6 DEF SumInv

-----------------------------------------------------------------------------
(* Every message type. *)

\* What a client sends is what its parts say, in their order.
LEMMA ConcatTells ==
    ASSUME NEW S, NEW p \in Seq(S), NEW q \in Seq(S), NEW t
    PROVE  p \o q \in Seq(S) /\ (Tells(p, t) \/ Tells(q, t) => Tells(p \o q, t))
<1> DEFINE r == p \o q
<1>1. /\ r \in Seq(S) /\ Len(r) = Len(p) + Len(q)
      /\ \A i \in 1 .. Len(r) : r[i] = IF i <= Len(p) THEN p[i] ELSE q[i - Len(p)]
  BY ConcatProperties
<1>2. Len(p) \in Nat /\ Len(q) \in Nat
  BY LenProperties
<1> HIDE DEF r
<1>3. ASSUME NEW i \in 1 .. Len(p), p[i] = t PROVE Tells(r, t)
  <2>1. i \in 1 .. Len(r) /\ r[i] = t
    BY <1>1, <1>2, <1>3
  <2>2. QED BY <2>1 DEF Tells
<1>4. ASSUME NEW i \in 1 .. Len(q), q[i] = t PROVE Tells(r, t)
  <2>1. /\ Len(p) + i \in 1 .. Len(r) /\ ~ (Len(p) + i <= Len(p))
        /\ Len(p) + i - Len(p) = i
    BY <1>1, <1>2
  <2>2. r[Len(p) + i] = t
    BY <1>1, <1>4, <2>1
  <2>3. QED BY <2>1, <2>2 DEF Tells
<1>5. QED BY <1>1, <1>3, <1>4 DEF Tells, r

\* The ticks on which the roles say what the other ticks do not.
LEMMA TickExamples ==
    /\ Tells(OnTick("teamleader", 2), "CasevacRequest")
    /\ Tells(OnTick("teamleader", 4), "Chat")
    /\ Tells(OnTick("teamleader", 5), "GenInfo")
    /\ Tells(OnTick("teamleader", 5), "Presence")
    /\ Tells(OnTick("scout", 0), "ContactSighting") /\ Tells(OnTick("scout", 5), "Sketch")
<1>0. /\ {"Presence", "CasevacRequest", "Chat", "ContactSighting", "GenInfo", "Sketch"} \subseteq Types
      /\ {0, 2, 4, 5, 6} \subseteq Nat
  BY DEF Types
<1>p. <<"Presence">> \in Seq(Types)
  BY <1>0
<1>t. \A type : Tells(<<type>>, type)
  BY DEF Tells
<1>1. \A type : /\ Each(2, 0, type) = <<type>> /\ Every(5, 5, type) = <<type>>
                /\ Every(4, 4, type) = <<type>> /\ At(2, 2, type) = <<type>>
  BY DEF Each, Every, At
<1>2. \A type : /\ Tells(Each(2, 0, type), type) /\ Tells(Every(5, 5, type), type)
                /\ Tells(Every(4, 4, type), type) /\ Tells(At(2, 2, type), type)
  BY <1>1, <1>t, Zenon
<1>3. ASSUME NEW t \in {0, 5}
      PROVE  \A type : Tells(Each(2, t, "ContactSighting"), type) \/ Tells(Every(5, t, "Sketch"), type)
                         => Tells(OnTick("scout", t), type)
  <2>1. OnTick("scout", t) =
          <<"Presence">> \o Each(2, t, "ContactSighting") \o Every(5, t, "Sketch")
    BY Zenon DEF OnTick
  <2>2. Each(2, t, "ContactSighting") \in Seq(Types) /\ Every(5, t, "Sketch") \in Seq(Types)
    BY <1>0, SometimesMessage
  <2> DEFINE p == <<"Presence">>
             a == Each(2, t, "ContactSighting")
             b == Every(5, t, "Sketch")
  <2>3. p \in Seq(Types) /\ a \in Seq(Types) /\ b \in Seq(Types)
    BY <1>p, <2>2
  <2> HIDE DEF p, a, b
  <2>4. \A type : /\ p \o a \in Seq(Types)
                  /\ Tells(a, type) => Tells(p \o a, type)
                  /\ Tells(p \o a, type) => Tells(p \o a \o b, type)
                  /\ Tells(b, type) => Tells(p \o a \o b, type)
    <3>1. \A type : p \o a \in Seq(Types) /\ (Tells(a, type) => Tells(p \o a, type))
      BY <2>3, ConcatTells
    <3> DEFINE q == p \o a
    <3>2. q \in Seq(Types)
      BY <3>1
    <3> HIDE DEF q
    <3>3. \A type : Tells(q, type) \/ Tells(b, type) => Tells(q \o b, type)
      BY <2>3, <3>2, ConcatTells
    <3>4. QED BY <3>1, <3>3 DEF q
  <2>5. QED BY <2>1, <2>4 DEF p, a, b
<1>4. ASSUME NEW t \in {2, 4, 5}
      PROVE  \A type : (\/ Tells(<<"Presence">>, type) \/ Tells(At(2, t, "CasevacRequest"), type)
                        \/ Tells(Every(4, t, "Chat"), type) \/ Tells(Every(5, t, "GenInfo"), type))
                         => Tells(OnTick("teamleader", t), type)
  <2>1. OnTick("teamleader", t) = <<"Presence">> \o At(2, t, "CasevacRequest") \o Every(4, t, "Chat")
                            \o Every(6, t, "ContactSighting") \o Every(5, t, "GenInfo")
    BY Zenon DEF OnTick
  <2>2. /\ At(2, t, "CasevacRequest") \in Seq(Types) /\ Every(4, t, "Chat") \in Seq(Types)
        /\ Every(6, t, "ContactSighting") \in Seq(Types) /\ Every(5, t, "GenInfo") \in Seq(Types)
    BY <1>0, SometimesMessage
  <2> DEFINE p == <<"Presence">>
             a == At(2, t, "CasevacRequest")
             b == Every(4, t, "Chat")
             c == Every(6, t, "ContactSighting")
             d == Every(5, t, "GenInfo")
             said2 == p \o a
             said3 == said2 \o b
             said4 == said3 \o c
             said5 == said4 \o d
  <2>3. p \in Seq(Types) /\ a \in Seq(Types) /\ b \in Seq(Types) /\ c \in Seq(Types) /\ d \in Seq(Types)
    BY <1>p, <2>2
  <2> HIDE DEF p, a, b, c, d
  <2>4. said2 \in Seq(Types) /\ \A type : Tells(p, type) \/ Tells(a, type) => Tells(said2, type)
    BY <2>3, ConcatTells
  <2> HIDE DEF said2
  <2>5. said3 \in Seq(Types) /\ \A type : Tells(said2, type) \/ Tells(b, type) => Tells(said3, type)
    BY <2>3, <2>4, ConcatTells
  <2> HIDE DEF said3
  <2>6. said4 \in Seq(Types) /\ \A type : Tells(said3, type) \/ Tells(c, type) => Tells(said4, type)
    BY <2>3, <2>5, ConcatTells
  <2> HIDE DEF said4
  <2>7. \A type : Tells(said4, type) \/ Tells(d, type) => Tells(said5, type)
    BY <2>3, <2>6, ConcatTells
  <2>8. OnTick("teamleader", t) = said5
    BY <2>1 DEF p, a, b, c, d, said2, said3, said4
  <2> HIDE DEF said5
  <2>9. \A type : Tells(p, type) \/ Tells(a, type) \/ Tells(b, type) \/ Tells(d, type)
                    => Tells(OnTick("teamleader", t), type)
    BY <2>4, <2>5, <2>6, <2>7, <2>8
  <2>10. QED BY <2>9 DEF p, a, b, d
<1>5. Tells(OnTick("teamleader", 2), "CasevacRequest")
  <2>1. 2 \in {2, 4, 5}
    OBVIOUS
  <2>2. Tells(At(2, 2, "CasevacRequest"), "CasevacRequest")
    BY <1>2
  <2>3. QED BY <1>4, <2>1, <2>2
<1>6. Tells(OnTick("teamleader", 4), "Chat")
  <2>1. 4 \in {2, 4, 5}
    OBVIOUS
  <2>2. Tells(Every(4, 4, "Chat"), "Chat")
    BY <1>2
  <2>3. QED BY <1>4, <2>1, <2>2
<1>7. Tells(OnTick("teamleader", 5), "GenInfo") /\ Tells(OnTick("teamleader", 5), "Presence")
  <2>1. 5 \in {2, 4, 5}
    OBVIOUS
  <2>2. Tells(Every(5, 5, "GenInfo"), "GenInfo") /\ Tells(<<"Presence">>, "Presence")
    BY <1>2, <1>t
  <2>3. QED BY <1>4, <2>1, <2>2
<1>8. Tells(OnTick("scout", 0), "ContactSighting") /\ Tells(OnTick("scout", 5), "Sketch")
  <2>1. 0 \in {0, 5} /\ 5 \in {0, 5}
    OBVIOUS
  <2>2. QED BY <1>2, <1>3, <2>1, Zenon
<1>9. QED BY <1>5, <1>6, <1>7, <1>8

-----------------------------------------------------------------------------
(* Every step, and the report. *)

ReportInv ==
    /\ ScenarioTypes /\ MatrixInv /\ RogueInv /\ SeenInv /\ CallsAcknowledged /\ SumInv

LEMMA ReportInit == ScenarioInit => ReportInv
<1> SUFFICES ASSUME ScenarioInit PROVE ReportInv
  OBVIOUS
<1>0. /\ ScenarioTypes /\ setup \in Setups /\ turn = 1 /\ tickNo = 0 /\ casevacs = 0 /\ acks = 0
      /\ sentBy = [c \in 1 .. Rogue |-> 0]
      /\ heardBy = [o \in 1 .. Rogue |-> [c \in 1 .. Rogue |-> 0]]
      /\ observed = [t \in Types |-> 0]
  BY ScenarioTypesInit DEF ScenarioInit
<1>1. /\ Size \in Nat \ {0} /\ Squad = 1 .. Size /\ Rogue \in 1 .. Rogue /\ Squad \subseteq 1 .. Rogue
      /\ Posts \subseteq 1 .. Rogue
  BY <1>0, SetupFacts DEF Posts
<1>2. \A c \in Squad : ~ Started(c) /\ \A n \in Nat : ~ Stepped(c, n)
  BY <1>0, <1>1 DEF Started, Stepped
<1>3. /\ \A c \in 1 .. Rogue : sentBy[c] = 0 /\ \A o \in 1 .. Rogue : heardBy[o][c] = 0
  BY <1>0
<1>4. MatrixInv
  BY <1>1, <1>2, <1>3 DEF MatrixInv
<1>5. RogueInv
  BY <1>0, <1>1, <1>3 DEF RogueInv
<1>6. SeenInv
  <2>1. "CasevacRequest" \in Types
    BY DEF Types
  <2>2. QED BY <1>0, <1>2, <2>1 DEF SeenInv
<1>7. CallsAcknowledged
  <2> DEFINE medics == {m \in Squad : Role(m) = "medic"}
  <2>1. Cardinality(medics) \in Nat
    <3>1. IsFiniteSet(Squad) /\ medics \subseteq Squad
      BY <1>1, FS_Interval
    <3>2. QED BY <3>1, FS_Subset, FS_CardinalityType
  <2>2. CallsAcknowledged <=> /\ acks <= casevacs * Cardinality(medics)
                              /\ setup.blocks = {} => acks = casevacs * Cardinality(medics)
    BY DEF CallsAcknowledged
  <2> DEFINE n == Cardinality(medics)
  <2> HIDE DEF n
  <2>3. n \in Nat /\ casevacs * n = 0
    BY <1>0, <2>1 DEF n
  <2>4. QED BY <1>0, <2>2, <2>3 DEF n
<1>8. SumInv
  <2>1. Observations = {}
    BY <1>0 DEF Observations
  <2>2. HeardByPosts = {}
    <3>1. \A link \in Posts \X (1 .. Rogue) : heardBy[link[1]][link[2]] = 0
      BY <1>1, <1>3
    <3>2. \A d : d \notin HeardByPosts
      BY <3>1 DEF HeardByPosts
    <3>3. QED BY <3>2
  <2>3. QED BY <2>1, <2>2, FS_EmptySet DEF SumInv
<1>9. QED BY <1>0, <1>4, <1>5, <1>6, <1>7, <1>8 DEF ReportInv

LEMMA SumStep ==
    ASSUME ScenarioTypes, SumInv, [ScenarioNext]_scenarioVars
    PROVE  SumInv'
<1>1. CASE StartNext
  <2>1. Publish(turn, OnStart(Role(turn)), 1 .. turn)
    BY <1>1 DEF StartNext
  <2>2. QED BY <1>1, <2>1, StartFacts, SumPublish
<1>2. CASE StepNext
  <2>1. Publish(turn, OnTick(Role(turn), tickNo - 1), AllUp)
    BY <1>2 DEF StepNext
  <2>2. QED BY <1>2, <2>1, StepFacts, SumPublish
<1>3. CASE RogueStep
  <2>1. Publish(Rogue, <<"Presence">>, AllUp)
    BY <1>3 DEF RogueStep
  <2>2. QED BY <1>3, <2>1, RogueFacts, SumPublish
<1>4. CASE UNCHANGED <<setup, heardBy, observed>>
  <2>1. Observations' = Observations
    BY <1>4 DEF Observations
  <2>2. HeardByPosts' = HeardByPosts
    <3>1. Posts' = Posts /\ Rogue' = Rogue /\ heardBy' = heardBy
      BY <1>4, SameSetup
    <3>2. \A d : d \in HeardByPosts' <=> \E link \in Posts' \X (1 .. Rogue') :
            \E i \in 1 .. heardBy'[link[1]][link[2]] : d = <<link, i>>
      BY DEF HeardByPosts
    <3>3. \A d : d \in HeardByPosts <=> \E link \in Posts \X (1 .. Rogue) :
            \E i \in 1 .. heardBy[link[1]][link[2]] : d = <<link, i>>
      BY DEF HeardByPosts
    <3>4. \A d : d \in HeardByPosts' <=> d \in HeardByPosts
      BY <3>1, <3>2, <3>3
    <3>5. QED BY <3>4
  <2>3. QED BY <2>1, <2>2 DEF SumInv
<1>5. QED
  BY <1>1, <1>2, <1>3, <1>4 DEF ScenarioNext, NextTick, scenarioVars

LEMMA ReportStep == ReportInv /\ [ScenarioNext]_scenarioVars => ReportInv'
  BY ScenarioTypesStep, MatrixStep, RogueInvStep, SeenStep, CallsStep, SumStep DEF ReportInv

\* How many ticks the report counts.
LEMMA TicksDone ==
    ASSUME ScenarioTypes
    PROVE  /\ Size \in Nat \ {0} /\ Rogue = Size + 1 /\ turn \in Nat /\ tickNo \in Nat
           /\ TickDone <=> turn > (IF setup.rogue = "none" THEN Size ELSE Rogue)
           /\ Ticked = IF TickDone THEN tickNo ELSE tickNo - 1
<1>0. /\ setup \in Setups /\ Size \in Nat \ {0} /\ Rogue = Size + 1 /\ Rogue \in Nat
      /\ Squad = 1 .. Size
  BY SetupFacts DEF ScenarioTypes
<1>1. turn \in Nat /\ tickNo \in Nat
  BY <1>0, ScenarioAssumptions DEF ScenarioTypes
<1>2. /\ Cardinality(1 .. Size) = Size /\ Cardinality(1 .. Rogue) = Rogue
  BY <1>0, CountTo
<1>3. AllUp = IF setup.rogue = "none" THEN 1 .. Size ELSE 1 .. Rogue
  <2>1. (1 .. Size) \cup {Rogue} = 1 .. Rogue
    BY <1>0
  <2>2. QED BY <1>0, <2>1 DEF AllUp
<1>4. Cardinality(AllUp) = IF setup.rogue = "none" THEN Size ELSE Rogue
  BY <1>2, <1>3
<1>5. QED BY <1>0, <1>1, <1>4 DEF TickDone, Ticked

LEMMA MatrixReported ==
    ASSUME ScenarioTypes, MatrixInv, RogueInv
    PROVE  ReportMatrix
<1>0. /\ setup \in Setups /\ Rogue \in 1 .. Rogue /\ Squad \subseteq 1 .. Rogue
      /\ Rogue \in AllUp <=> setup.rogue # "none"
  BY SetupFacts DEF ScenarioTypes
<1>1. /\ SimReport.matrix = ConnectionMatrix /\ SimReport.rogueFramesRejected = rejects
      /\ SimReport.rogueObserved = \E post \in Posts : Rogue \in DOMAIN ConnectionMatrix[post]
  BY DEF SimReport
<1>2. \A o \in Squad \cup (AllUp \cap {Rogue}) :
        DOMAIN SimReport.matrix[o] = {p \in 1 .. Rogue : heardBy[o][p] > 0}
  <2>1. \A o \in Squad \cup (AllUp \cap {Rogue}) :
          ConnectionMatrix[o] = [c \in {p \in 1 .. Rogue : heardBy[o][p] > 0} |-> heardBy[o][c]]
    BY DEF ConnectionMatrix
  <2>2. QED BY <1>1, <2>1
<1>3. \A o, c \in Squad :
         /\ o = c \/ <<o, c>> \in setup.blocks => c \notin DOMAIN SimReport.matrix[o]
         /\ o # c /\ <<o, c>> \notin setup.blocks =>
              heardBy[o][c] = sentBy[c] -
                 (IF o > c /\ sentBy[c] > 0 THEN Len(OnStart(Role(c))) ELSE 0)
  <2> SUFFICES ASSUME NEW o \in Squad, NEW c \in Squad
               PROVE  /\ o = c \/ <<o, c>> \in setup.blocks => c \notin DOMAIN SimReport.matrix[o]
                      /\ o # c /\ <<o, c>> \notin setup.blocks =>
                           heardBy[o][c] = sentBy[c] -
                              (IF o > c /\ sentBy[c] > 0 THEN Len(OnStart(Role(c))) ELSE 0)
    OBVIOUS
  <2>1. o = c \/ <<o, c>> \in setup.blocks => c \notin DOMAIN SimReport.matrix[o]
    BY <1>2 DEF MatrixInv
  <2>2. ASSUME o # c, <<o, c>> \notin setup.blocks
        PROVE  heardBy[o][c] = sentBy[c] -
                 (IF o > c /\ sentBy[c] > 0 THEN Len(OnStart(Role(c))) ELSE 0)
    <3>1. PICK n \in Nat : n = Len(OnStart(Role(c)))
      BY <1>0, SetupFacts, StartMessages
    <3>2. /\ heardBy[o][c] + (IF o > c /\ Started(c) THEN n ELSE 0) = sentBy[c]
          /\ sentBy[c] > 0 <=> Started(c)
      BY <2>2, <3>1 DEF MatrixInv
    <3>3. heardBy[o][c] \in Nat /\ sentBy[c] \in Nat
      BY <1>0 DEF ScenarioTypes
    <3>4. heardBy[o][c] = sentBy[c] - (IF o > c /\ sentBy[c] > 0 THEN n ELSE 0)
      BY <3>2, <3>3
    <3>5. QED BY <3>1, <3>4
  <2>3. QED BY <2>1, <2>2
<1>4. \A o \in Squad : Rogue \notin DOMAIN SimReport.matrix[o]
  BY <1>2 DEF RogueInv
<1>5. Ticked > 0 => (RogueRejected <=> Rogue \in AllUp)
  <2>1. ~ SimReport.rogueObserved
    BY <1>1, <1>4 DEF Posts
  <2>2. Ticked > 0 /\ setup.rogue # "none" => rejects > 0
    <3>1. Ticked > 0 /\ setup.rogue # "none" => tickNo > 1 \/ (tickNo = 1 /\ turn > Rogue)
      BY TicksDone
    <3>2. QED BY <3>1 DEF RogueInv
  <2>3. QED BY <1>0, <1>1, <2>1, <2>2 DEF RogueRejected
<1>6. setup.rogue = "wrong_key" => DOMAIN SimReport.matrix[Rogue] = {}
  BY <1>0, <1>2 DEF RogueInv
<1>7. QED BY <1>3, <1>4, <1>5, <1>6 DEF ReportMatrix

LEMMA AllTypesReported ==
    ASSUME ScenarioTypes, SeenInv
    PROVE  AllTypesSeen
<1> SUFFICES ASSUME Ticked >= 6, setup.blocks = {}, Role(1) = "commandpost",
                    {"teamleader", "medic", "scout", "observer", "atak"} \subseteq Range(setup.roster)
             PROVE  AllMessageTypes
  BY DEF AllTypesSeen
<1>0. /\ setup.roster \in Seq(Roles) /\ Size \in Nat /\ Squad = 1 .. Size
  BY SetupFacts DEF ScenarioTypes
<1>1. \A role \in {"teamleader", "medic", "scout", "observer", "atak"} :
        \E c \in Squad \ {1} : Role(c) = role
  <2>1. \A x \in Range(setup.roster) : \E c \in 1 .. Len(setup.roster) : x = setup.roster[c]
    BY <1>0, RangeIndex
  <2>2. QED BY <1>0, <2>1 DEF Role, Size
<1>2. \A c \in Squad : Started(c) /\ \A n \in {0, 2, 4, 5} : Stepped(c, n)
  <2> SUFFICES ASSUME NEW c \in Squad PROVE Started(c) /\ \A n \in {0, 2, 4, 5} : Stepped(c, n)
    OBVIOUS
  <2>1. c \in Nat /\ c <= Size
    BY <1>0
  <2>2. tickNo > 6 \/ (tickNo = 6 /\ turn > Size)
    <3>1. tickNo >= 6 /\ (tickNo = 6 => TickDone)
      BY TicksDone
    <3>2. TickDone => turn > Size
      BY TicksDone
    <3>3. tickNo \in Nat
      BY TicksDone
    <3>4. QED BY <3>1, <3>2, <3>3
  <2>3. tickNo > 6 \/ (tickNo = 6 /\ c < turn)
    BY <1>0, <2>1, <2>2, TicksDone
  <2>4. tickNo \in Nat
    BY TicksDone
  <2>5. QED BY <2>3, <2>4 DEF Started, Stepped
<1>3. \A c \in Squad \ {1}, t \in Types :
        /\ Tells(OnStart(Role(c)), t) => observed[t] > 0
        /\ \A n \in {0, 2, 4, 5} : Tells(OnTick(Role(c), n), t) => observed[t] > 0
  BY <1>2 DEF SeenInv
<1>4. \A role \in {"teamleader", "medic", "scout", "observer", "atak"}, t \in Types :
        /\ Tells(OnStart(role), t) => observed[t] > 0
        /\ \A n \in {0, 2, 4, 5} : Tells(OnTick(role, n), t) => observed[t] > 0
  BY <1>1, <1>3
<1>5. /\ observed["CasevacRequest"] > 0 /\ observed["Chat"] > 0 /\ observed["GenInfo"] > 0
      /\ observed["Presence"] > 0 /\ observed["ContactSighting"] > 0 /\ observed["Sketch"] > 0
  BY <1>4, TickExamples DEF Types
<1>6. observed["Identification"] > 0 /\ observed["Overlay"] > 0 /\ observed["Chatrooms"] > 0
  <2>1. /\ Tells(<<"Identification", "Overlay">>, "Identification")
        /\ Tells(<<"Identification", "Overlay">>, "Overlay")
        /\ Tells(<<"Identification", "Overlay", "Chatrooms">>, "Chatrooms")
    BY DEF Tells
  <2>2. /\ Tells(OnStart("observer"), "Identification") /\ Tells(OnStart("observer"), "Overlay")
        /\ Tells(OnStart("atak"), "Chatrooms")
    BY <2>1, StartExamples
  <2>3. QED BY <1>4, <2>2 DEF Types
<1>7. observed["Receipt"] > 0
  <2>1. \E m \in Squad : Role(m) = "medic"
    BY <1>1
  <2>2. QED BY <1>5, <2>1 DEF SeenInv
<1>8. QED BY <1>5, <1>6, <1>7 DEF AllMessageTypes, SimReport, Types

\* The report of a run (simulator/scenario.py), for any rosters and any number of
\* ticks: its matrix says who heard whom and how often, every message type is
\* observed where every role had its say, the rogue is heard by nobody and counted
\* as rejected, every call for evacuation is acknowledged by the medics that accept
\* the caller, and what the command posts saw is what the matrix says they heard.
THEOREM ReportTells == ScenarioSpec => []SimulationReport
<1>1. ReportInv => SimulationReport
  BY MatrixReported, AllTypesReported DEF ReportInv, SumInv, SimulationReport
<1>2. QED BY <1>1, ReportInit, ReportStep, PTL DEF ScenarioSpec

-----------------------------------------------------------------------------
\* The two pictures the dashboard draws of the traffic, the telemetry and audit log
\* of a node and the connection matrix of all, are what the nodes have heard.
THEOREM DashboardTells == MonitoringSpec /\ GossipSpec => []DashboardTruth
<1>1. MatrixTruth /\ BuffersAgree => DashboardTruth
  BY DEF DashboardTruth
<1>2. QED BY <1>1, BuffersTell, MatrixTells, PTL

-----------------------------------------------------------------------------
(* Types.  Each module's variables stay in their sets by its invariant     *)
(* above and by what is added to it here.                                  *)

\* The relay: a read loop waits for a message there is.
ReaderInv ==
    /\ relayGateway \in 1 .. MaxGateways /\ gatewayUp \subseteq 1 .. MaxGateways
    /\ \A s \in Servers : reader[s].msg <= Len(relayed)

LEMMA ReaderStep ==
    ASSUME RelayInv, RelayInv', ReaderInv, [RelayNext]_relayVars
    PROVE  ReaderInv'
<1> USE RelayAssumptions
<1>0. /\ RelayTypes /\ RelayTypes'
      /\ gatewayUp \in {{}, {relayGateway}, {relayGateway + 1}}
      /\ \A s \in Servers : reader[s].msg \in Nat /\ reader[s].msg <= Len(relayed)
      /\ Len(relayed) \in Nat /\ relayed \in Seq(Messages)
  BY LenProperties DEF RelayInv, GatewayInv, RelayTypes, ReaderInv
<1>1. CASE StopGateway \/ StartGateway \/ AttachManager \/ UNCHANGED relayVars
  <2>1. relayed' = relayed /\ reader' = reader
    BY <1>1 DEF StopGateway, StartGateway, AttachManager, relayVars, connectorVars, relayingVars
  <2>2. relayGateway \in 1 .. MaxGateways /\ gatewayUp \subseteq 1 .. MaxGateways
    BY DEF ReaderInv
  <2>3. CASE StopGateway \/ StartGateway \/ UNCHANGED relayVars
    <3>1. relayGateway' \in 1 .. MaxGateways /\ gatewayUp' \subseteq 1 .. MaxGateways
      <4>1. CASE StopGateway \/ UNCHANGED relayVars
        BY <2>2, <4>1 DEF StopGateway, relayVars, gatewayVars
      <4>2. CASE StartGateway
        <5>1. relayGateway' = relayGateway /\ gatewayUp' = {relayGateway + 1}
              /\ relayGateway < MaxGateways
          BY <4>2 DEF StartGateway
        <5>2. relayGateway + 1 \in 1 .. MaxGateways
          BY <2>2, <5>1
        <5>3. QED BY <2>2, <5>1, <5>2
      <4>3. QED BY <2>3, <4>1, <4>2
    <3>2. QED BY <1>0, <2>1, <3>1 DEF ReaderInv
  <2>4. CASE AttachManager
    <3>1. relayGateway' = relayGateway + 1 /\ gatewayUp' = gatewayUp
          /\ gatewayUp \ {relayGateway} # {}
      BY <2>4 DEF AttachManager
    <3>2. relayGateway + 1 \in gatewayUp
      BY <1>0, <3>1
    <3>3. QED BY <1>0, <2>1, <2>2, <3>1, <3>2 DEF ReaderInv
  <2>5. QED BY <1>1, <2>3, <2>4
<1>2. CASE \/ \E s \in Servers :
                \/ StartConnector(s) \/ StopConnector(s)
                \/ \E named \in BOOLEAN : RxEvent(s, named)
                \/ RxBody(s) \/ RxDone(s)
           \/ \E c \in stopping : ConnectorStopped(c)
           \/ \E g \in gatewayUp : FromAbroad(g) \/ \E m \in DOMAIN relayed : ComesBack(g, m)
           \/ \E m \in DOMAIN relaying : \E c \in relaying[m] : RelayTo(m, c)
  <2>1. UNCHANGED gatewayVars
    BY <1>2 DEF StartConnector, StopConnector, RxEvent, RxBody, RxDone, ConnectorStopped, FromAbroad,
       ComesBack, RelayTo
  <2>2. relayed' = relayed \/ \E x : relayed' = Append(relayed, x)
    BY <1>2 DEF StartConnector, StopConnector, RxEvent, RxBody, RxDone, ConnectorStopped, FromAbroad,
       ComesBack, RelayTo,
       Relays, relayingVars
  <2>3. Len(relayed') \in Nat /\ Len(relayed) <= Len(relayed')
    BY <1>0, <2>2, AppendLength
  <2>4. \A s \in Servers : reader'[s].msg \in {reader[s].msg, 0, Len(relayed')}
    <3>1. ASSUME NEW s \in Servers, StartConnector(s) \/ StopConnector(s) \/ RxDone(s)
          PROVE  reader' = reader \/ reader' = [reader EXCEPT ![s] = Idle]
      BY <3>1 DEF StartConnector, StopConnector, RxDone
    <3>2. ASSUME NEW s \in Servers, NEW named \in BOOLEAN, RxEvent(s, named)
          PROVE  \/ reader' = reader
                 \/ \E w, g : reader' = [reader EXCEPT ![s] =
                      [then |-> w, gw |-> g, msg |-> Len(relayed')]]
      BY <3>2 DEF RxEvent
    <3>3. ASSUME NEW s \in Servers, RxBody(s)
          PROVE  \/ reader' = [reader EXCEPT ![s] = Idle]
                 \/ reader' = [reader EXCEPT ![s].then = "read", ![s].msg = Len(relayed')]
      BY <3>3 DEF RxBody
    <3>4. ASSUME \/ \E g \in gatewayUp : FromAbroad(g) \/ \E m \in DOMAIN relayed : ComesBack(g, m)
                 \/ \E m \in DOMAIN relaying : \E c \in relaying[m] : RelayTo(m, c)
                 \/ \E c \in stopping : ConnectorStopped(c)
          PROVE  reader' = reader
      BY <3>4 DEF FromAbroad, ComesBack, RelayTo, ConnectorStopped, connectorVars
    <3>5. reader \in [Servers -> [then : {"read", "body"}, gw : Nat, msg : Nat]]
      BY <1>0 DEF RelayTypes
    <3>6. reader' = reader => \A s \in Servers : reader'[s].msg = reader[s].msg
      OBVIOUS
    <3>7. ASSUME NEW s \in Servers,
                 \/ reader' = [reader EXCEPT ![s] = Idle]
                 \/ \E w, g : reader' = [reader EXCEPT ![s] =
                      [then |-> w, gw |-> g, msg |-> Len(relayed')]]
                 \/ reader' = [reader EXCEPT ![s].then = "read", ![s].msg = Len(relayed')]
          PROVE  \A t \in Servers : reader'[t].msg \in {reader[t].msg, 0, Len(relayed')}
      BY <3>5, <3>7 DEF Idle
    <3>8. CASE reader' = reader
      BY <3>6, <3>8
    <3>9. ASSUME NEW s \in Servers,
                 \/ StartConnector(s) \/ StopConnector(s) \/ RxDone(s)
                 \/ \E named \in BOOLEAN : RxEvent(s, named)
                 \/ RxBody(s)
          PROVE  \A t \in Servers : reader'[t].msg \in {reader[t].msg, 0, Len(relayed')}
      <4>1. CASE StartConnector(s) \/ StopConnector(s) \/ RxDone(s)
        BY <3>1, <3>7, <3>8, <4>1
      <4>2. ASSUME NEW named \in BOOLEAN, RxEvent(s, named)
            PROVE  \A t \in Servers : reader'[t].msg \in {reader[t].msg, 0, Len(relayed')}
        BY <3>2, <3>7, <3>8, <4>2
      <4>3. CASE RxBody(s)
        BY <3>3, <3>7, <4>3
      <4>4. QED BY <3>9, <4>1, <4>2, <4>3
    <3>10. QED BY <1>2, <3>4, <3>8, <3>9
  <2>5. \A s \in Servers : reader'[s].msg <= Len(relayed')
    BY <1>0, <2>3, <2>4
  <2>6. QED BY <2>1, <2>5 DEF ReaderInv, gatewayVars
<1>3. QED BY <1>1, <1>2 DEF RelayNext

LEMMA RelayTypesCorrect == RelaySpec => []RelayTypeOK
<1>1. RelayInit => ReaderInv
  <2>1. <<>> \in Seq(Messages) /\ Len(<<>>) = 0
    OBVIOUS
  <2>2. QED BY <2>1, RelayAssumptions DEF RelayInit, ReaderInv, Idle
<1>2. RelayInv /\ ReaderInv => RelayTypeOK
  BY LenProperties DEF RelayInv, RelayTypes, ReaderInv, TrackInv, RelayTypeOK
<1>3. QED BY <1>1, <1>2, InitRelayInv, NextRelayInv, ReaderStep, PTL DEF RelaySpec

\* The feeds: a full queue takes no more.
QueueInv == \A f \in Feeds : Len(queues[f]) <= QueueCap

LEMMA QueueStep ==
    ASSUME MonitoringInv, QueueInv, [MonitoringNext]_monitoringVars
    PROVE  QueueInv'
<1> USE MonitoringAssumptions
<1>0. /\ queues \in [Feeds -> Seq(Nat)]
      /\ \A f \in Feeds : Len(queues[f]) \in Nat /\ Len(queues[f]) <= QueueCap
  BY LenProperties DEF MonitoringInv, MonitoringTypes, QueueInv
<1>1. CASE Emit
  <2>1. queues' = [f \in Feeds |-> IF f \in subscribers /\ ~ Full(f)
                                   THEN Append(queues[f], recording.of) ELSE queues[f]]
    BY <1>1 DEF Emit
  <2>2. ASSUME NEW f \in Feeds PROVE Len(queues'[f]) <= QueueCap
    <3>1. Len(Append(queues[f], recording.of)) = Len(queues[f]) + 1
      BY <1>0, AppendLength
    <3>2. ~ Full(f) => Len(queues[f]) # QueueCap
      BY DEF Full
    <3>3. QED BY <1>0, <2>1, <3>1, <3>2
  <2>3. QED BY <2>2 DEF QueueInv
<1>2. ASSUME NEW f \in Feeds, Subscribe(f) PROVE QueueInv'
  <2>1. queues' = [queues EXCEPT ![f] = <<>>] /\ Len(<<>>) = 0
    BY <1>2 DEF Subscribe
  <2>2. QED BY <1>0, <2>1 DEF QueueInv
<1>3. ASSUME NEW f \in Feeds, Deliver(f) PROVE QueueInv'
  <2>1. queues' = [queues EXCEPT ![f] = Tail(@)] /\ queues[f] # <<>>
    BY <1>3 DEF Deliver
  <2>2. Len(Tail(queues[f])) = Len(queues[f]) - 1
    BY <1>0, <2>1, TailRange
  <2>3. QED BY <1>0, <2>1, <2>2 DEF QueueInv
<1>4. CASE \/ RecordAccepted \/ RecordDropped \/ RecordAudit
           \/ PurgeBegins \/ PurgeAudit \/ PurgeTelemetry \/ UNCHANGED monitoringVars
           \/ \E f \in Feeds : Unsubscribe(f)
  <2>1. queues' = queues
    BY <1>4 DEF RecordAccepted, RecordDropped, RecordStarts, RecordAudit, PurgeBegins, PurgeAudit,
       PurgeTelemetry, Unsubscribe, monitoringVars, feedVars
  <2>2. QED BY <2>1 DEF QueueInv
<1>5. QED BY <1>1, <1>2, <1>3, <1>4 DEF MonitoringNext

LEMMA MonitoringTypesCorrect == MonitoringSpec => []MonitoringTypeOK
<1>1. MonitoringInit => QueueInv
  <2>1. Len(<<>>) = 0
    OBVIOUS
  <2>2. QED BY <2>1, MonitoringAssumptions DEF MonitoringInit, QueueInv
<1>2. MonitoringInv /\ BufferInv /\ QueueInv => MonitoringTypeOK
  BY DEF MonitoringInv, MonitoringTypes, EventsInv, BufferInv, BufferTypes, QueueInv,
     MonitoringTypeOK, Quiet
<1>3. QED BY <1>1, <1>2, InitMonitoringInv, NextMonitoringInv, InitBufferInv, NextBufferInv,
             QueueStep, PTL DEF MonitoringSpec

\* The connection matrix: nothing was heard, or recorded, in the future.
TimesInv ==
    /\ now \in Nat \ {0}
    /\ \A n \in Senders, o \in Senders : peerSeen[n][o] <= now
    /\ \A n \in Members : \A m \in DOMAIN remote[n] : remote[n][m].ts \in 1 .. now

LEMMA TimesStep ==
    ASSUME GossipInv, TimesInv, [GossipNext]_gossipVars
    PROVE  TimesInv'
<1>0. /\ peerSeen \in [Senders -> [Senders -> Nat]] /\ DOMAIN remote = Members
      /\ Members \subseteq Senders /\ now \in Nat \ {0}
      /\ \A n \in Senders, o \in Senders : peerSeen[n][o] \in Nat /\ peerSeen[n][o] <= now
      /\ \A n \in Members : \A m \in DOMAIN remote[n] : remote[n][m].ts \in 1 .. now
  BY DEF GossipInv, GossipTypes, TimesInv, Senders
<1>1. CASE GossipTick
  <2>1. now' = now + 1 /\ peerSeen' = peerSeen /\ remote' = remote
    BY <1>1 DEF GossipTick
  <2>2. QED BY <1>0, <2>1 DEF TimesInv
<1>2. ASSUME NEW n \in Members, NEW o \in Members, HearMessage(n, o) PROVE TimesInv'
  <2>1. /\ peerSeen' = [peerSeen EXCEPT ![n][o] = now] /\ now' = now /\ remote' = remote
    BY <1>2 DEF HearMessage
  <2>2. \A k \in Senders, p \in Senders : peerSeen'[k][p] <= now
    BY <1>0, <2>1
  <2>3. QED BY <1>0, <2>1, <2>2 DEF TimesInv
<1>3. ASSUME NEW n \in Members, NEW d \in digests, OnDigest(n, d) PROVE TimesInv'
  <2>1. /\ now' = now /\ peerSeen' = peerSeen
        /\ remote' = [remote EXCEPT ![n] =
                 [m \in DOMAIN remote[n] \cup {d.node} |->
                    IF m = d.node THEN [row |-> d.row, ts |-> now] ELSE remote[n][m]]]
    BY <1>3 DEF OnDigest, Recorded
  <2>2. \A k \in Members : \A m \in DOMAIN remote'[k] : remote'[k][m].ts \in 1 .. now
    <3>1. \A k \in Members : k # n => remote'[k] = remote[k]
      BY <1>0, <2>1
    <3>2. /\ DOMAIN remote'[n] = DOMAIN remote[n] \cup {d.node}
          /\ \A m \in DOMAIN remote'[n] :
               remote'[n][m] = IF m = d.node THEN [row |-> d.row, ts |-> now] ELSE remote[n][m]
      BY <1>0, <2>1
    <3>3. \A m \in DOMAIN remote'[n] : remote'[n][m].ts \in 1 .. now
      BY <1>0, <3>2
    <3>4. QED BY <1>0, <3>1, <3>3
  <2>3. QED BY <1>0, <2>1, <2>2 DEF TimesInv
<1>4. CASE (\E n \in Senders : BroadcastDigest(n)) \/ UNCHANGED gossipVars
  <2>1. UNCHANGED <<now, peerSeen, remote>>
    BY <1>4 DEF BroadcastDigest, gossipVars
  <2>2. QED BY <2>1 DEF TimesInv
<1>5. QED BY <1>1, <1>2, <1>3, <1>4 DEF GossipNext

LEMMA GossipTypesCorrect == GossipSpec => []GossipTypeOK
<1>1. GossipInit => TimesInv
  BY DEF GossipInit, TimesInv, NoRemote, Senders
<1>2. GossipInv /\ TimesInv => GossipTypeOK
  <2> SUFFICES ASSUME GossipInv, TimesInv PROVE GossipTypeOK
    OBVIOUS
  <2>1. /\ peerCount \in [Senders -> [Senders -> Nat]] /\ peerSeen \in [Senders -> [Senders -> Nat]]
        /\ now \in Nat
        /\ \A n \in Senders, o \in Senders : peerSeen[n][o] <= now
    BY DEF GossipInv, GossipTypes, TimesInv
  <2>2. \A n \in Senders : peerSeen[n] \in [Senders -> 0 .. now]
    BY <2>1
  <2>3. peerSeen \in [Senders -> [Senders -> 0 .. now]]
    BY <2>1, <2>2
  <2>4. QED BY <2>1, <2>3 DEF GossipTypeOK, TimesInv
<1>3. QED BY <1>1, <1>2, InitGossipInv, NextGossipInv, TimesStep, PTL DEF GossipSpec

\* An external simulator has acknowledged, or is about to, no more than it received.
CountsInv ==
    /\ phase \in [Engines -> {"off", "starting", "running"}] /\ feedUp \subseteq Engines
    /\ received \in [Engines -> Nat] /\ acked \in [Engines -> Nat]
    /\ \A e \in Engines :
         IsFiniteSet(acking[e]) /\ acked[e] + Cardinality(acking[e]) <= received[e]

LEMMA CountsStep ==
    ASSUME SimulatorInv, CountsInv, [SimulatorNext]_simulatorVars
    PROVE  CountsInv'
<1>0. /\ phase \in [Engines -> {"off", "starting", "running"}] /\ feedUp \subseteq Engines
      /\ received \in [Engines -> Nat] /\ acked \in [Engines -> Nat]
      /\ acking \in [Engines -> SUBSET DOMAIN traffic]
      /\ \A e \in Engines : /\ IsFiniteSet(acking[e]) /\ Cardinality(acking[e]) \in Nat
                             /\ acked[e] + Cardinality(acking[e]) <= received[e]
      /\ \A e \in Engines : acking[e] \subseteq heardIds[e]
  BY FS_CardinalityType DEF SimulatorInv, SimulatorTypes, AckInv, CountsInv
<1>1. ASSUME NEW e \in Engines,
             StartEngine(e) \/ DesignateAckUnit(e) \/ FeedConnects(e) \/ FeedDrops(e)
      PROVE  CountsInv'
  <2>1. UNCHANGED <<received, acked, acking>>
    BY <1>1 DEF StartEngine, DesignateAckUnit, FeedConnects, FeedDrops
  <2>2. phase' \in [Engines -> {"off", "starting", "running"}] /\ feedUp' \subseteq Engines
    BY <1>0, <1>1 DEF StartEngine, DesignateAckUnit, FeedConnects, FeedDrops
  <2>3. QED BY <1>0, <2>1, <2>2 DEF CountsInv
<1>2. ASSUME NEW e \in Engines, StopEngine(e) PROVE CountsInv'
  <2>1. /\ UNCHANGED <<received, acked>>
        /\ acking' = acking \/ acking' = [acking EXCEPT ![e] = {}]
        /\ phase' = [phase EXCEPT ![e] = "off"] /\ feedUp' = feedUp \ {e}
    BY <1>2 DEF StopEngine
  <2>2. phase' \in [Engines -> {"off", "starting", "running"}] /\ feedUp' \subseteq Engines
    BY <1>0, <2>1
  <2>3. IsFiniteSet({}) /\ Cardinality({}) = 0
    BY FS_EmptySet
  <2>4. ASSUME NEW d \in Engines
        PROVE  IsFiniteSet(acking'[d]) /\ acked[d] + Cardinality(acking'[d]) <= received[d]
    <3>1. acking'[d] = acking[d] \/ acking'[d] = {}
      BY <1>0, <2>1
    <3>2. /\ acked[d] \in Nat /\ received[d] \in Nat /\ Cardinality(acking[d]) \in Nat
          /\ IsFiniteSet(acking[d]) /\ acked[d] + Cardinality(acking[d]) <= received[d]
      BY <1>0
    <3>3. QED BY <2>3, <3>1, <3>2
  <2>5. QED BY <1>0, <2>1, <2>2, <2>4 DEF CountsInv
<1>3. ASSUME NEW e \in Engines, NEW m \in DOMAIN traffic, ReceiveMessage(e, m)
      PROVE  CountsInv'
  <2>1. /\ m \notin heardIds[e] /\ received' = [received EXCEPT ![e] = @ + 1]
        /\ acking' = acking \/ acking' = [acking EXCEPT ![e] = @ \cup {m}]
        /\ UNCHANGED <<phase, feedUp, acked>>
    BY <1>3 DEF ReceiveMessage
  <2>2. /\ IsFiniteSet(acking[e] \cup {m}) /\ Cardinality(acking[e] \cup {m}) \in Nat
        /\ Cardinality(acking[e] \cup {m}) <= Cardinality(acking[e]) + 1
    BY <1>0, AddAtMostOne
  <2>3. \A d \in Engines : d # e => acking'[d] = acking[d] /\ received'[d] = received[d]
    BY <1>0, <2>1
  <2>4. /\ acking'[e] = acking[e] \/ acking'[e] = acking[e] \cup {m}
        /\ received'[e] = received[e] + 1
    BY <1>0, <2>1
  <2>5. IsFiniteSet(acking'[e]) /\ acked[e] + Cardinality(acking'[e]) <= received'[e]
    <3>1. /\ acked[e] \in Nat /\ received[e] \in Nat /\ Cardinality(acking[e]) \in Nat
          /\ IsFiniteSet(acking[e]) /\ acked[e] + Cardinality(acking[e]) <= received[e]
      BY <1>0
    <3>2. CASE acking'[e] = acking[e]
      BY <2>4, <3>1, <3>2
    <3>3. CASE acking'[e] = acking[e] \cup {m}
      <4>1. IsFiniteSet(acking'[e])
        BY <2>2, <3>3
      <4>2. Cardinality(acking'[e]) \in Nat /\ Cardinality(acking'[e]) <= Cardinality(acking[e]) + 1
        BY <2>2, <3>3
      <4>3. QED BY <2>4, <3>1, <4>1, <4>2
    <3>4. QED BY <2>4, <3>2, <3>3
  <2>6. received' \in [Engines -> Nat]
    BY <1>0, <2>1
  <2>7. QED BY <1>0, <2>1, <2>3, <2>5, <2>6 DEF CountsInv
<1>4. ASSUME NEW e \in Engines, NEW m \in DOMAIN traffic, AckDone(e, m) PROVE CountsInv'
  <2>1. /\ m \in acking[e] /\ acking' = [acking EXCEPT ![e] = @ \ {m}]
        /\ acked' = [acked EXCEPT ![e] = @ + 1] /\ UNCHANGED <<phase, feedUp, received>>
    BY <1>4 DEF AckDone
  <2>2. /\ IsFiniteSet(acking[e] \ {m}) /\ Cardinality(acking[e] \ {m}) \in Nat
        /\ Cardinality(acking[e] \ {m}) = Cardinality(acking[e]) - 1
    BY <1>0, <2>1, FS_RemoveElement, FS_CardinalityType
  <2>3. QED BY <1>0, <2>1, <2>2 DEF CountsInv
<1>5. CASE (\E from \in Engines \cup Others : SendReport(from)) \/ UNCHANGED simulatorVars
  <2>1. UNCHANGED <<phase, feedUp, acking, received, acked>>
    BY <1>5 DEF SendReport, simulatorVars, engineVars
  <2>2. QED BY <2>1 DEF CountsInv
<1>6. QED BY <1>1, <1>2, <1>3, <1>4, <1>5 DEF SimulatorNext

LEMMA SimulatorTypesCorrect == SimulatorSpec => []SimulatorTypeOK
<1>1. SimulatorInit => CountsInv
  BY FS_EmptySet DEF SimulatorInit, CountsInv
<1>2. SimulatorInv /\ CountsInv => SimulatorTypeOK
  <2> SUFFICES ASSUME SimulatorInv, CountsInv PROVE SimulatorTypeOK
    OBVIOUS
  <2>1. \A e \in Engines : /\ acking[e] \subseteq DOMAIN traffic /\ heardIds[e] \subseteq DOMAIN traffic
                           /\ Cardinality(acking[e]) \in Nat
    BY FS_CardinalityType DEF SimulatorInv, SimulatorTypes, CountsInv
  <2>2. \A e \in Engines : acked[e] <= received[e]
    BY <2>1 DEF CountsInv
  <2>3. QED BY <2>1, <2>2 DEF SimulatorTypeOK, CountsInv
<1>3. QED BY <1>1, <1>2, InitSimulatorInv, NextSimulatorInv, CountsStep, PTL DEF SimulatorSpec

\* The credentials: no secret was drawn that is not counted.
SecretsInv ==
    /\ secrets \in Nat
    /\ userFile.secret \in 0 .. secrets /\ store.secret \in 0 .. secrets

LEMMA SecretsStep ==
    ASSUME StoreInv, SecretsInv, [StoreNext]_storeVars
    PROVE  SecretsInv'
<1>0. /\ secrets \in Nat /\ userFile.secret \in 0 .. secrets /\ store.secret \in 0 .. secrets
      /\ saving # NoData => saving = store
  BY DEF StoreInv, FileInv, SecretsInv
<1>1. CASE StartSeeds
  <2>1. /\ secrets' = secrets + 1 /\ userFile' = userFile /\ store'.secret = secrets + 1
    BY <1>1 DEF StartSeeds, Seeded
  <2>2. QED BY <1>0, <2>1 DEF SecretsInv
<1>2. CASE StartLoads
  <2>1. /\ secrets' = IF userFile.secret = 0 THEN secrets + 1 ELSE secrets
        /\ userFile' = userFile
        /\ store'.secret = IF userFile.secret = 0 THEN secrets' ELSE userFile.secret
    BY <1>2 DEF StartLoads
  <2>2. QED BY <1>0, <2>1 DEF SecretsInv
<1>3. CASE SaveTruncates \/ SaveWrites \/ ProcessEnds \/ SpoilFile \/ EditUsers
  <2>1. secrets' = secrets /\ store'.secret \in {store.secret, 0}
    BY <1>3, RecordsOK DEF SaveTruncates, SaveWrites, ProcessEnds, SpoilFile, EditUsers, EditByHand
  <2>2. userFile'.secret \in {userFile.secret, store.secret, 0}
    <3>1. CASE SaveTruncates \/ ProcessEnds \/ SpoilFile
      BY <3>1, RecordsOK DEF SaveTruncates, ProcessEnds, SpoilFile
    <3>2. CASE SaveWrites
      BY <1>0, <3>2 DEF SaveWrites, Json
    <3>3. CASE EditUsers
      <4>1. PICK some \in SUBSET Users, p \in Passwords, kept \in BOOLEAN, old \in {userFile, Json(NoData)} :
              userFile'.secret = IF kept THEN old.secret ELSE 0
        BY <3>3 DEF EditUsers, Json
      <4>2. Json(NoData).secret = 0
        BY RecordsOK DEF Json
      <4>3. QED BY <2>1, <4>1, <4>2
    <3>4. QED BY <1>3, <3>1, <3>2, <3>3
  <2>3. QED BY <1>0, <2>1, <2>2 DEF SecretsInv
<1>4. CASE (\E u \in Users, p \in Passwords : Login(u, p)) \/ UNCHANGED storeVars
  <2>1. UNCHANGED <<userFile, store, secrets>>
    BY <1>4 DEF Login, storeVars
  <2>2. QED BY <2>1 DEF SecretsInv
<1>5. QED BY <1>1, <1>2, <1>3, <1>4 DEF StoreNext

LEMMA StoreTypesCorrect == StoreSpec => []StoreTypeOK
<1>1. StoreInit => SecretsInv
  BY RecordsOK DEF StoreInit, SecretsInv
<1>2. StoreInv /\ SecretsInv => StoreTypeOK
  <2> SUFFICES ASSUME StoreInv, SecretsInv PROVE StoreTypeOK
    OBVIOUS
  <2>1. UsersOK(store.users)
    <3>1. NoData.users = NoUsers
      BY DEF NoData
    <3>2. QED BY <3>1, RecordsOK DEF StoreInv, MemoryInv
  <2>2. userFile.kind \in {"missing", "broken", "json"}
    BY RecordsOK DEF StoreInv, StoreTypes
  <2>3. QED BY <2>1, <2>2 DEF StoreTypeOK, SecretsInv, UsersOK
<1>3. QED BY <1>1, <1>2, InitStoreInv, NextStoreInv, SecretsStep, PTL DEF StoreSpec

\* A run of the simulation.
LEMMA ScenarioTypesCorrect == ScenarioSpec => []ScenarioTypeOK
<1>1. ScenarioTypes => ScenarioTypeOK
  BY DEF ScenarioTypes, ScenarioTypeOK
<1>2. QED BY <1>1, ScenarioTypesInit, ScenarioTypesStep, PTL DEF ScenarioSpec

\* The live simulation: its clients, its loops, and what a call speaks of.
CallsInv ==
    /\ \A k \in DOMAIN sims : sims[k] \subseteq Clients
    /\ \A l \in DOMAIN loops : loops[l] \in {"runs", "cancelling", "cancelled", "died"}
    /\ \A c \in DOMAIN simCalls :
         simCalls[c].of \in IF CallAt(c, "task") THEN 1 .. Len(loops) ELSE 0 .. Len(sims)

LEMMA CallsInvBegins ==
    ASSUME SimTypes, CallsInv,
           StartSimulation \/ StopTask \/ StopRaises \/ StopWithoutTask
    PROVE  CallsInv'
<1>0. /\ Len(sims) \in Nat /\ DOMAIN sims = 1 .. Len(sims)
      /\ Len(loops) \in Nat /\ DOMAIN loops = 1 .. Len(loops)
      /\ sim \in 0 .. Len(sims) /\ task \in 0 .. Len(loops)
      /\ \A c \in DOMAIN simCalls :
           simCalls[c].of \in IF CallAt(c, "task") THEN 1 .. Len(loops) ELSE 0 .. Len(sims)
  BY SimFacts DEF SimTypes, CallsInv
<1>1. PICK x : /\ simCalls' = Append(simCalls, x)
               /\ x.of \in IF x.at = "task" THEN 1 .. Len(loops)' ELSE 0 .. Len(sims)'
               /\ Len(sims)' \in Nat /\ Len(sims) <= Len(sims)' /\ Len(loops)' = Len(loops)
               /\ \A k \in DOMAIN sims' : sims'[k] \subseteq Clients
               /\ \A l \in DOMAIN loops' : loops'[l] \in {"runs", "cancelling", "cancelled", "died"}
  <2>1. CASE StartSimulation
    <3>1. /\ simCalls' = Append(simCalls, [kind |-> "start", at |-> "clients",
                                          of |-> Len(sims) + 1, next |-> 1])
          /\ sims' = Append(sims, {}) /\ loops' = loops
      BY <2>1 DEF StartSimulation, SimCall
    <3>2. /\ Len(sims') = Len(sims) + 1 /\ DOMAIN sims' = DOMAIN sims \cup {Len(sims) + 1}
          /\ sims'[Len(sims) + 1] = {} /\ \A k \in DOMAIN sims : sims'[k] = sims[k]
      BY <3>1, AppendAny DEF SimTypes
    <3>3. \A k \in DOMAIN sims' : sims'[k] \subseteq Clients
      BY <3>2 DEF CallsInv
    <3>4. \A l \in DOMAIN loops' : loops'[l] \in {"runs", "cancelling", "cancelled", "died"}
      BY <3>1 DEF CallsInv
    <3> DEFINE x == [kind |-> "start", at |-> "clients", of |-> Len(sims) + 1, next |-> 1]
    <3>5. x.at = "clients" /\ x.of \in 0 .. Len(sims')
      BY <1>0, <3>2
    <3>6. /\ simCalls' = Append(simCalls, x) /\ Len(sims') \in Nat /\ Len(sims) <= Len(sims')
          /\ Len(loops') = Len(loops)
      BY <1>0, <3>1, <3>2
    <3> HIDE DEF x
    <3>7. QED BY <3>3, <3>4, <3>5, <3>6
  <2>2. CASE StopTask
    <3>1. /\ simCalls' = Append(simCalls, [kind |-> "stop", at |-> "task", of |-> task, next |-> 1])
          /\ loops' = [loops EXCEPT ![task] = IF @ = "runs" THEN "cancelling" ELSE @]
          /\ task # 0 /\ sims' = sims
      BY <2>2 DEF StopTask, SimCall
    <3>2. task \in DOMAIN loops
      BY <1>0, <3>1
    <3>3. Len(loops') = Len(loops)
      <4>1. loops \in Seq(Range(loops)) /\ loops' \in Seq(Range(loops')) /\ DOMAIN loops' = DOMAIN loops
        BY <3>1, <3>2, OneChanged DEF SimTypes
      <4>2. QED BY <4>1, SameLength
    <3>4. QED BY <1>0, <3>1, <3>2, <3>3 DEF CallsInv
  <2>3. CASE StopRaises
    <3>1. /\ simCalls' = Append(simCalls, [kind |-> "stop", at |-> "done", of |-> 0, next |-> 1])
          /\ loops' = loops /\ sims' = sims
      BY <2>3 DEF StopRaises, SimCall, managerVars
    <3>2. QED BY <1>0, <3>1 DEF CallsInv
  <2>4. CASE StopWithoutTask
    <3> DEFINE where == IF sim = 0 THEN "done" ELSE "clients"
    <3>1. /\ simCalls' = Append(simCalls, [kind |-> "stop", at |-> where, of |-> sim, next |-> 1])
          /\ loops' = loops /\ sims' = sims
      BY <2>4 DEF StopWithoutTask, SimCall, managerVars
    <3>2. where # "task"
      OBVIOUS
    <3> HIDE DEF where
    <3>3. QED BY <1>0, <3>1, <3>2 DEF CallsInv
  <2>5. QED BY <2>1, <2>2, <2>3, <2>4
<1>2. /\ DOMAIN simCalls' = DOMAIN simCalls \cup {Len(simCalls) + 1}
      /\ simCalls'[Len(simCalls) + 1] = x
      /\ \A c \in DOMAIN simCalls : simCalls'[c] = simCalls[c]
  BY <1>1, CallMade
<1>3. ASSUME NEW c \in DOMAIN simCalls'
      PROVE  simCalls'[c].of \in IF simCalls'[c].at = "task" THEN 1 .. Len(loops') ELSE 0 .. Len(sims')
  <2>1. CASE c \in DOMAIN simCalls
    BY <1>0, <1>1, <1>2, <2>1 DEF CallAt
  <2>2. CASE c = Len(simCalls) + 1
    BY <1>1, <1>2, <2>2
  <2>3. QED BY <1>2, <2>1, <2>2
<1>4. QED BY <1>1, <1>3 DEF CallsInv, CallAt

LEMMA CallsInvGoesOn ==
    ASSUME SimTypes, CallsInv, NEW c \in SimPending,
           \/ StartClient(c) \/ StartClientFails(c) \/ CreateLoop(c)
           \/ TaskEnded(c) \/ StopClient(c) \/ StopEnds(c)
    PROVE  CallsInv'
<1>0. /\ Len(sims) \in Nat /\ DOMAIN sims = 1 .. Len(sims)
      /\ Len(loops) \in Nat /\ DOMAIN loops = 1 .. Len(loops)
      /\ sim \in 0 .. Len(sims) /\ c \in DOMAIN simCalls
      /\ {"kind", "at", "of", "next"} \subseteq DOMAIN simCalls[c]
      /\ \A d \in DOMAIN simCalls :
           simCalls[d].of \in IF simCalls[d].at = "task" THEN 1 .. Len(loops) ELSE 0 .. Len(sims)
  BY SimFacts DEF SimTypes, CallsInv, SimPending, CallAt
<1>1. PICK x : /\ simCalls' = [simCalls EXCEPT ![c] = x]
               /\ x.at \in {"clients", "done"} /\ x.of \in 0 .. Len(sims)
  <2> DEFINE q == simCalls[c]
             went == [q EXCEPT !.at = "done"]
             further == [q EXCEPT !.next = @ + 1]
             led == [q EXCEPT !.at = IF sim = 0 THEN "done" ELSE "clients", !.of = sim]
  <2>1. /\ went.at = "done" /\ went.of = q.of
        /\ further.at = q.at /\ further.of = q.of
        /\ led.at \in {"clients", "done"} /\ led.of = sim
    BY <1>0
  <2>2. CASE StartClient(c) \/ StopClient(c)
    <3>1. simCalls' = [simCalls EXCEPT ![c] = further] /\ q.at = "clients"
      BY <1>0, <2>2 DEF StartClient, StopClient, CallAt
    <3>2. QED BY <1>0, <2>1, <3>1
  <2>3. CASE StartClientFails(c) \/ CreateLoop(c) \/ StopEnds(c)
    <3>1. simCalls' = [simCalls EXCEPT ![c] = went] /\ q.at = "clients"
      BY <1>0, <2>3 DEF StartClientFails, CreateLoop, StopEnds, CallAt, CallGoes
    <3>2. QED BY <1>0, <2>1, <3>1
  <2>4. CASE TaskEnded(c)
    <3>1. simCalls' = [simCalls EXCEPT ![c] = led]
      BY <1>0, <2>4 DEF TaskEnded
    <3>2. QED BY <1>0, <2>1, <3>1
  <2>5. QED BY <2>2, <2>3, <2>4
<1>2. /\ DOMAIN simCalls' = DOMAIN simCalls /\ simCalls'[c] = x
      /\ \A d \in DOMAIN simCalls : d # c => simCalls'[d] = simCalls[d]
  BY <1>1, CallChanged
<1>3. /\ Len(sims') = Len(sims) /\ \A k \in DOMAIN sims' : sims'[k] \subseteq Clients
  <2>1. CASE StartClient(c) \/ StopClient(c)
    <3> DEFINE k == simCalls[c].of
    <3>1. k \in DOMAIN sims
      BY <1>0, <2>1 DEF StartClient, StopClient, CallAt, SimTypes
    <3>2. PICK up \in SUBSET Clients : sims' = [sims EXCEPT ![k] = up]
      <4> DEFINE some == sims[k] \cup {simCalls[c].next}
                 fewer == sims[k] \ {simCalls[c].next}
      <4>1. some \in SUBSET Clients /\ fewer \in SUBSET Clients
        BY <2>1, <3>1 DEF StartClient, StopClient, CallsInv
      <4>2. /\ StartClient(c) => sims' = [sims EXCEPT ![k] = some]
            /\ StopClient(c) => sims' = [sims EXCEPT ![k] = fewer]
        BY DEF StartClient, StopClient
      <4> HIDE DEF some, fewer, k
      <4>3. QED BY <2>1, <4>1, <4>2
    <3> HIDE DEF k
    <3>3. sims \in Seq(Range(sims)) /\ sims' \in Seq(Range(sims')) /\ DOMAIN sims' = DOMAIN sims
      <4>1. sims \in Seq(Range(sims))
        BY DEF SimTypes
      <4>2. QED BY <3>1, <3>2, <4>1, OneChanged
    <3>4. Len(sims') = Len(sims)
      BY <3>3, SameLength
    <3>5. QED BY <3>2, <3>3, <3>4 DEF CallsInv
  <2>2. CASE StartClientFails(c) \/ CreateLoop(c) \/ TaskEnded(c) \/ StopEnds(c)
    <3>1. sims' = sims
      BY <2>2 DEF StartClientFails, CreateLoop, TaskEnded, StopEnds, managerVars
    <3>2. QED BY <3>1 DEF CallsInv
  <2>3. QED BY <2>1, <2>2
<1>4. /\ Len(loops') \in Nat /\ Len(loops) <= Len(loops')
      /\ \A l \in DOMAIN loops' : loops'[l] \in {"runs", "cancelling", "cancelled", "died"}
  <2>1. CASE CreateLoop(c)
    <3>1. loops' = Append(loops, "runs")
      BY <2>1 DEF CreateLoop
    <3>2. /\ Len(loops') = Len(loops) + 1 /\ DOMAIN loops' = DOMAIN loops \cup {Len(loops) + 1}
          /\ loops'[Len(loops) + 1] = "runs" /\ \A l \in DOMAIN loops : loops'[l] = loops[l]
      BY <3>1, AppendAny DEF SimTypes
    <3>3. QED BY <1>0, <3>2 DEF CallsInv
  <2>2. CASE \/ StartClient(c) \/ StopClient(c) \/ StartClientFails(c) \/ TaskEnded(c) \/ StopEnds(c)
    <3>1. loops' = loops
      BY <2>2 DEF StartClient, StopClient, StartClientFails, TaskEnded, StopEnds, managerVars
    <3>2. QED BY <1>0, <3>1 DEF CallsInv
  <2>3. QED BY <2>1, <2>2
<1>5. ASSUME NEW d \in DOMAIN simCalls
      PROVE  simCalls'[d].of \in IF simCalls'[d].at = "task" THEN 1 .. Len(loops') ELSE 0 .. Len(sims')
  <2>1. CASE d = c
    BY <1>1, <1>2, <1>3, <2>1
  <2>2. CASE d # c
    BY <1>0, <1>2, <1>3, <1>4, <2>2
  <2>3. QED BY <2>1, <2>2
<1>6. QED BY <1>2, <1>3, <1>4, <1>5 DEF CallsInv, CallAt

LEMMA CallsInvStep ==
    ASSUME SimulationInv, CallsInv, [SimNext]_simVars
    PROVE  CallsInv'
<1>0. SimTypes
  BY DEF SimulationInv
<1>1. ASSUME NEW l \in DOMAIN loops, LoopTick(l) \/ LoopDies(l) \/ LoopCancelled(l)
      PROVE  CallsInv'
  <2>1. PICK w \in {"died", "cancelled"} :
          loops' = [loops EXCEPT ![l] = w] /\ UNCHANGED <<sims, simCalls>>
    BY <1>1 DEF LoopTick, LoopDies, LoopCancelled
  <2>2. /\ loops \in Seq(Range(loops)) /\ loops' \in Seq(Range(loops')) /\ DOMAIN loops' = DOMAIN loops
    BY <1>0, <2>1, OneChanged DEF SimTypes
  <2>3. Len(loops') = Len(loops)
    BY <2>2, SameLength
  <2>4. QED BY <2>1, <2>2, <2>3 DEF CallsInv, CallAt
<1>2. CASE UNCHANGED simVars
  BY <1>2 DEF simVars, managerVars, CallsInv, CallAt
<1>3. QED BY <1>0, <1>1, <1>2, CallsInvBegins, CallsInvGoesOn DEF SimNext

LEMMA SimTypesCorrect == SimSpec => []SimTypeOK
<1>1. SimInit => CallsInv
  BY DEF SimInit, CallsInv
<1>2. SimulationInv /\ CallsInv => SimTypeOK
  <2> SUFFICES ASSUME SimulationInv, CallsInv PROVE SimTypeOK
    OBVIOUS
  <2>1. /\ SimTypes /\ Len(sims) \in Nat /\ DOMAIN sims = 1 .. Len(sims)
        /\ sims \in Seq(Range(sims))
    BY SimFacts DEF SimulationInv, SimTypes
  <2>2. sims \in [1 .. Len(sims) -> SUBSET Clients]
    <3>1. sims \in [1 .. Len(sims) -> Range(sims)]
      BY <2>1, LenProperties
    <3>2. QED BY <2>1, <3>1 DEF CallsInv
  <2>3. sims \in Seq(SUBSET Clients)
    BY <2>1, <2>2, SeqDef
  <2>4. QED BY <2>1, <2>3 DEF SimTypeOK, SimTypes, CallsInv
<1>3. QED BY <1>1, <1>2, InitSimulationInv, NextSimulationInv, CallsInvStep, PTL DEF SimSpec

\* Whatever the services around the node do, each for itself, its variables stay in
\* their sets: no buffer or queue outgrows its bound, nothing was heard in the
\* future, no simulator acknowledges more than it received, no call of the
\* simulation manager speaks of a simulation or a loop that is not there.
THEOREM SupportTypesCorrect ==
    RelaySpec /\ MonitoringSpec /\ GossipSpec /\ SimSpec /\ SimulatorSpec /\ StoreSpec
        /\ ScenarioSpec /\ Spec => []SupportTypeOK
<1>1. RelayTypeOK /\ MonitoringTypeOK /\ GossipTypeOK /\ SimTypeOK /\ SimulatorTypeOK
        /\ StoreTypeOK /\ ScenarioTypeOK /\ TypeOK => SupportTypeOK
  BY DEF SupportTypeOK
<1>2. QED
  BY <1>1, RelayTypesCorrect, MonitoringTypesCorrect, GossipTypesCorrect, SimTypesCorrect,
     SimulatorTypesCorrect, StoreTypesCorrect, ScenarioTypesCorrect, TypeCorrect, PTL
=============================================================================
