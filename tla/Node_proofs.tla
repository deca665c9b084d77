----------------------------- MODULE Node_proofs -----------------------------
(***************************************************************************)
(* Proofs about operating a node: the ATAK multicast bridge (MapTruth,     *)
(* DeletedOnlySilent), the EUD server (ListenerTruth, OwnTrackNotEchoed,   *)
(* FanOutServes) and the hot reconfiguration (ServingNodeRuns,             *)
(* LeaksAccounted, ReconfiguredTruth), and the types of all three, for any *)
(* values of the constants.                                                *)
(***************************************************************************)
EXTENDS NodeOperation, SequenceFacts

(* The ATAK bridge.  A frame's marker tells how far it has come: unmarked  *)
(* CoT has not been translated, so what is republished has been once, and  *)
(* what is emitted again twice.  Where no send yields a sweep is one step, *)
(* and the table then holds the last presence of every track it has.       *)

CotFrames == [id : Nat, marked : BOOLEAN, hops : Nat]
JdssFrames == [id : Nat, origin : Originators, hops : Nat]

AtakInv ==
    /\ AtakTypeOK
    /\ ticks \in Nat \ {0} /\ reports \in Nat /\ sendYields \in BOOLEAN
    /\ heard \in [Bridges -> [Originators -> Nat]]
    /\ cotWire \in [Bridges -> SUBSET CotFrames]
    /\ jdssWire \in [Bridges -> SUBSET JdssFrames]

HopsInv ==
    \A b \in Bridges :
        /\ \A f \in cotWire[b] : f.hops <= 2 /\ (~ f.marked => f.hops = 0)
        /\ \A m \in jdssWire[b] : m.hops <= 1

WatchInv ==
    ~ sendYields =>
        \A b \in Bridges :
            /\ sweep[b] = {} /\ deleting[b] = NoOne
            /\ \A o \in Originators : lastSeen[b][o] # 0 => lastSeen[b][o] = heard[b][o]
            /\ \A o \in shown[b] : lastSeen[b][o] # 0

BridgeInv == AtakInv /\ HopsInv /\ WatchInv

LEMMA InitBridgeInv == AtakInit => BridgeInv
<1> SUFFICES ASSUME AtakInit PROVE BridgeInv
  OBVIOUS
<1>1. AtakInv
  BY DEF AtakInit, AtakInv, AtakTypeOK
<1>2. HopsInv
  BY DEF AtakInit, HopsInv
<1>3. WatchInv
  BY DEF AtakInit, WatchInv
<1>4. QED BY <1>1, <1>2, <1>3 DEF BridgeInv

\* Steps that touch no track: only the wires, the clock and who is up.
LEMMA BridgeInvWires ==
    ASSUME BridgeInv, UNCHANGED <<tracks, sendYields>>,
           ticks' \in Nat, ticks <= ticks', reports' \in Nat,
           cotUp' \subseteq bridgeUp', bridgeUp' \subseteq Bridges,
           cotWire' \in [Bridges -> SUBSET CotFrames],
           jdssWire' \in [Bridges -> SUBSET JdssFrames],
           HopsInv'
    PROVE  BridgeInv'
<1>1. AtakInv
  BY DEF BridgeInv
<1>2. lastSeen' \in [Bridges -> [Originators -> 0 .. ticks']]
  <2>1. 0 .. ticks \subseteq 0 .. ticks'
    BY <1>1 DEF AtakInv
  <2>2. lastSeen \in [Bridges -> [Originators -> 0 .. ticks]] /\ lastSeen' = lastSeen
    BY <1>1 DEF AtakInv, AtakTypeOK, tracks
  <2>3. \A b \in Bridges : lastSeen[b] \in [Originators -> 0 .. ticks']
    BY <2>1, <2>2
  <2>4. QED BY <2>2, <2>3
<1>3. ticks' # 0
  BY <1>1 DEF AtakInv
<1>4. AtakInv'
  BY <1>1, <1>2, <1>3 DEF AtakInv, AtakTypeOK, tracks
<1>5. WatchInv'
  BY DEF BridgeInv, WatchInv, tracks
<1>6. QED BY <1>4, <1>5 DEF BridgeInv

\* A presence is handled: timed in the table, and shown where the send succeeds.
LEMMA EmitCotKeeps ==
    ASSUME BridgeInv, NEW b \in Bridges, NEW m \in jdssWire[b], EmitCot(b, m)
    PROVE  BridgeInv'
<1>1. AtakInv /\ HopsInv /\ WatchInv
  BY DEF BridgeInv
<1>2. m \in JdssFrames /\ m.hops <= 1 /\ m.origin \in Originators
  BY <1>1 DEF AtakInv, HopsInv, JdssFrames
<1>3. /\ jdssWire' \in [Bridges -> SUBSET JdssFrames]
      /\ \A c \in Bridges : jdssWire'[c] \subseteq jdssWire[c]
  BY <1>1 DEF EmitCot, Taken, AtakInv
<1>4. /\ lastSeen' \in [Bridges -> [Originators -> 0 .. ticks]]
      /\ heard' \in [Bridges -> [Originators -> Nat]]
      /\ \A c \in Bridges, o \in Originators :
           IF c = b /\ o = m.origin THEN lastSeen'[c][o] = ticks /\ heard'[c][o] = ticks
           ELSE lastSeen'[c][o] = lastSeen[c][o] /\ heard'[c][o] = heard[c][o]
  <2>1. ticks \in 0 .. ticks /\ ticks \in Nat
    BY <1>1 DEF AtakInv
  <2>2. /\ lastSeen \in [Bridges -> [Originators -> 0 .. ticks]]
        /\ heard \in [Bridges -> [Originators -> Nat]]
    BY <1>1 DEF AtakInv, AtakTypeOK
  <2>3. /\ lastSeen' = [lastSeen EXCEPT ![b][m.origin] = ticks]
        /\ heard' = [heard EXCEPT ![b][m.origin] = ticks]
    BY DEF EmitCot
  <2>4. QED BY <1>2, <2>1, <2>2, <2>3
<1>5. /\ shown' \in [Bridges -> SUBSET Originators]
      /\ \A c \in Bridges : shown'[c] \subseteq shown[c] \cup (IF c = b THEN {m.origin} ELSE {})
  <2>1. shown' = shown \/ shown' = [shown EXCEPT ![b] = @ \cup {m.origin}]
    BY DEF EmitCot, Emitted
  <2>2. shown \in [Bridges -> SUBSET Originators]
    BY <1>1 DEF AtakInv, AtakTypeOK
  <2>3. QED BY <1>2, <2>1, <2>2
<1>6. /\ cotWire' \in [Bridges -> SUBSET CotFrames]
      /\ \A c \in Bridges : \A f \in cotWire'[c] :
           f \in cotWire[c] \/ (f.marked /\ f.hops <= 2)
  <2> DEFINE f0 == [id |-> m.id, marked |-> TRUE, hops |-> m.hops + 1]
  <2>1. f0 \in CotFrames /\ f0.marked /\ f0.hops <= 2
    BY <1>2 DEF JdssFrames, CotFrames
  <2>2. cotWire' = cotWire \/ cotWire' = [c \in Bridges |-> cotWire[c] \cup {f0}]
    BY DEF EmitCot, Emitted, ToAll
  <2> HIDE DEF f0
  <2>3. cotWire \in [Bridges -> SUBSET CotFrames]
    BY <1>1 DEF AtakInv
  <2>4. QED BY <2>1, <2>2, <2>3
<1>7. AtakInv'
  BY <1>1, <1>3, <1>4, <1>5, <1>6 DEF AtakInv, AtakTypeOK, EmitCot, started
<1>8. HopsInv'
  BY <1>1, <1>3, <1>6 DEF HopsInv
<1>9. WatchInv'
  <2> SUFFICES ASSUME ~ sendYields, NEW c \in Bridges
               PROVE  /\ sweep'[c] = {} /\ deleting'[c] = NoOne
                      /\ \A o \in Originators : lastSeen'[c][o] # 0 => lastSeen'[c][o] = heard'[c][o]
                      /\ \A o \in shown'[c] : lastSeen'[c][o] # 0
    BY DEF WatchInv, EmitCot
  <2>1. sweep'[c] = {} /\ deleting'[c] = NoOne
    BY <1>1 DEF WatchInv, EmitCot
  <2>2. ASSUME NEW o \in Originators PROVE lastSeen'[c][o] # 0 => lastSeen'[c][o] = heard'[c][o]
    BY <1>1, <1>4 DEF WatchInv
  <2>3. ASSUME NEW o \in shown'[c] PROVE lastSeen'[c][o] # 0
    <3>1. o \in Originators /\ ticks # 0
      BY <1>1, <1>5 DEF AtakInv
    <3>2. o \in shown[c] \/ (c = b /\ o = m.origin)
      BY <1>5
    <3>3. QED BY <1>1, <1>4, <3>1, <3>2 DEF WatchInv
  <2>4. QED BY <2>1, <2>2, <2>3
<1>10. QED BY <1>7, <1>8, <1>9 DEF BridgeInv

\* The sweep in one step: the dead tracks leave the map and the table together.
LEMMA SweepAtOnceKeeps ==
    ASSUME BridgeInv, NEW b \in Bridges, SweepAtOnce(b)
    PROVE  BridgeInv'
<1>1. AtakInv /\ HopsInv /\ WatchInv
  BY DEF BridgeInv
<1>2. /\ lastSeen' \in [Bridges -> [Originators -> 0 .. ticks]]
      /\ \A c \in Bridges, o \in Originators :
           lastSeen'[c][o] = IF c = b /\ o \in Dead(b) THEN 0 ELSE lastSeen[c][o]
  <2>1. 0 \in 0 .. ticks
    BY <1>1 DEF AtakInv
  <2>2. lastSeen \in [Bridges -> [Originators -> 0 .. ticks]]
    BY <1>1 DEF AtakInv, AtakTypeOK
  <2>3. lastSeen' = [lastSeen EXCEPT ![b] = [o \in Originators |->
                        IF o \in Dead(b) THEN 0 ELSE @[o]]]
    BY DEF SweepAtOnce, Forgotten
  <2>4. QED BY <2>1, <2>2, <2>3
<1>3. /\ shown' \in [Bridges -> SUBSET Originators]
      /\ \A c \in Bridges : shown'[c] = IF c = b THEN shown[c] \ Dead(b) ELSE shown[c]
  BY <1>1 DEF SweepAtOnce, AtakInv, AtakTypeOK
<1>4. AtakInv'
  BY <1>1, <1>2, <1>3 DEF AtakInv, AtakTypeOK, SweepAtOnce, started, wires
<1>5. HopsInv'
  BY <1>1 DEF HopsInv, SweepAtOnce, wires
<1>6. WatchInv'
  BY <1>1, <1>2, <1>3 DEF WatchInv, SweepAtOnce, AtakInv, AtakTypeOK
<1>7. QED BY <1>4, <1>5, <1>6 DEF BridgeInv

\* The steps of a sweep whose send yields.
LEMMA SweepKeeps ==
    ASSUME BridgeInv, NEW b \in Bridges,
           \/ SweepBegins(b) \/ Deleted(b)
           \/ \E o \in sweep[b] : SendDelete(b, o) \/ DeleteFails(b, o)
    PROVE  BridgeInv'
<1>1. AtakInv /\ HopsInv /\ WatchInv
  BY DEF BridgeInv
<1>2. sendYields
  BY <1>1 DEF SweepBegins, Deleted, WatchInv
<1>3. UNCHANGED <<ticks, heard, started, wires, reports, sendYields>>
  BY DEF SweepBegins, Deleted, SendDelete, DeleteFails
<1>4. AtakTypeOK'
  <2>1. AtakTypeOK /\ 0 \in 0 .. ticks
    BY <1>1 DEF AtakInv
  <2>2. CASE SweepBegins(b)
    BY <2>1, <2>2 DEF SweepBegins, AtakTypeOK, Dead, started
  <2>3. CASE Deleted(b)
    <3>1. lastSeen' \in [Bridges -> [Originators -> 0 .. ticks]]
      <4>1. lastSeen \in [Bridges -> [Originators -> 0 .. ticks]]
        BY <2>1 DEF AtakTypeOK
      <4>2. lastSeen' = [lastSeen EXCEPT ![b] = [o \in Originators |->
                            IF o \in {deleting[b]} THEN 0 ELSE @[o]]]
        BY <2>3 DEF Deleted, Forgotten
      <4>3. QED BY <2>1, <4>1, <4>2
    <3>2. deleting' \in [Bridges -> Originators \cup {NoOne}]
      BY <2>1, <2>3 DEF Deleted, AtakTypeOK
    <3>3. QED BY <1>3, <2>1, <2>3, <3>1, <3>2 DEF Deleted, AtakTypeOK, started
  <2>4. CASE \E o \in sweep[b] : SendDelete(b, o) \/ DeleteFails(b, o)
    <3>1. PICK o \in sweep[b] : SendDelete(b, o) \/ DeleteFails(b, o)
      BY <2>4
    <3>2. o \in Originators
      BY <2>1 DEF AtakTypeOK
    <3>3. CASE SendDelete(b, o)
      BY <1>3, <2>1, <3>2, <3>3 DEF SendDelete, AtakTypeOK, started
    <3>4. CASE DeleteFails(b, o)
      BY <1>3, <2>1, <3>4 DEF DeleteFails, AtakTypeOK, started
    <3>5. QED BY <3>1, <3>3, <3>4
  <2>5. QED BY <2>2, <2>3, <2>4
<1>5. AtakInv'
  BY <1>1, <1>3, <1>4 DEF AtakInv, wires
<1>6. HopsInv' /\ WatchInv'
  BY <1>1, <1>2, <1>3 DEF HopsInv, WatchInv, wires
<1>7. QED BY <1>5, <1>6 DEF BridgeInv

\* Stopping cancels the sweep where it is.
LEMMA StopBridgeKeeps ==
    ASSUME BridgeInv, NEW b \in Bridges, StopBridge(b)
    PROVE  BridgeInv'
<1>1. AtakInv /\ HopsInv /\ WatchInv
  BY DEF BridgeInv
<1>2. AtakInv'
  BY <1>1 DEF AtakInv, AtakTypeOK, StopBridge, wires
<1>3. HopsInv'
  BY <1>1 DEF HopsInv, StopBridge, wires
<1>4. WatchInv'
  BY <1>1 DEF WatchInv, StopBridge, AtakInv, AtakTypeOK
<1>5. QED BY <1>2, <1>3, <1>4 DEF BridgeInv

LEMMA NextBridgeInv == BridgeInv /\ [AtakNext]_atakVars => BridgeInv'
<1> SUFFICES ASSUME BridgeInv, [AtakNext]_atakVars PROVE BridgeInv'
  OBVIOUS
<1>0. AtakInv /\ HopsInv
  BY DEF BridgeInv
<1> USE DEF wires, started
<1>1. CASE Tick
  BY <1>0, <1>1, BridgeInvWires DEF Tick, AtakInv, AtakTypeOK, HopsInv
<1>2. CASE DeviceReport
  <2> DEFINE f == [id |-> reports', marked |-> FALSE, hops |-> 0]
  <2>1. reports' \in Nat /\ f \in CotFrames /\ f.hops = 0
    BY <1>0, <1>2 DEF DeviceReport, Report, AtakInv, CotFrames
  <2>2. cotWire' = [b \in Bridges |-> cotWire[b] \cup {f}]
    BY <1>2 DEF DeviceReport, ToAll
  <2>3. UNCHANGED <<ticks, tracks, bridgeUp, cotUp, jdssWire, sendYields>>
    BY <1>2 DEF DeviceReport
  <2> HIDE DEF f
  <2>4. cotWire' \in [Bridges -> SUBSET CotFrames]
    BY <1>0, <2>1, <2>2 DEF AtakInv
  <2>5. HopsInv'
    BY <1>0, <2>1, <2>2, <2>3 DEF HopsInv
  <2>6. QED BY <1>0, <2>1, <2>3, <2>4, <2>5, BridgeInvWires DEF AtakInv, AtakTypeOK
<1>3. ASSUME NEW o \in Soldiers, SoldierPresence(o) PROVE BridgeInv'
  <2> DEFINE m == [id |-> reports', origin |-> o, hops |-> 0]
  <2>1. reports' \in Nat /\ m \in JdssFrames /\ m.hops = 0
    BY <1>0, <1>3 DEF SoldierPresence, Report, AtakInv, JdssFrames, Originators
  <2>2. jdssWire' = [b \in Bridges |-> jdssWire[b] \cup {m}]
    BY <1>3 DEF SoldierPresence, ToAll
  <2>3. UNCHANGED <<ticks, tracks, bridgeUp, cotUp, cotWire, sendYields>>
    BY <1>3 DEF SoldierPresence
  <2> HIDE DEF m
  <2>4. jdssWire' \in [Bridges -> SUBSET JdssFrames]
    BY <1>0, <2>1, <2>2 DEF AtakInv
  <2>5. HopsInv'
    BY <1>0, <2>1, <2>2, <2>3 DEF HopsInv
  <2>6. QED BY <1>0, <2>1, <2>3, <2>4, <2>5, BridgeInvWires DEF AtakInv, AtakTypeOK
<1>4. ASSUME NEW b \in Bridges, NEW f \in cotWire[b], IgnoreCot(b, f) PROVE BridgeInv'
  <2>1. /\ cotWire' \in [Bridges -> SUBSET CotFrames]
        /\ \A c \in Bridges : cotWire'[c] \subseteq cotWire[c]
    BY <1>0, <1>4 DEF IgnoreCot, Taken, AtakInv
  <2>2. UNCHANGED <<ticks, tracks, bridgeUp, cotUp, jdssWire, reports, sendYields>>
    BY <1>4 DEF IgnoreCot
  <2>3. HopsInv'
    BY <1>0, <2>1, <2>2 DEF HopsInv
  <2>4. QED BY <1>0, <2>1, <2>2, <2>3, BridgeInvWires DEF AtakInv, AtakTypeOK
<1>5. ASSUME NEW b \in Bridges, NEW f \in cotWire[b], Republish(b, f) PROVE BridgeInv'
  <2> DEFINE m == [id |-> f.id, origin |-> b, hops |-> f.hops + 1]
  <2>1. f \in CotFrames /\ f.hops = 0
    BY <1>0, <1>5 DEF Republish, AtakInv, HopsInv
  <2>2. m \in JdssFrames /\ m.hops = 1
    BY <2>1 DEF CotFrames, JdssFrames, Originators
  <2>3. /\ cotWire' \in [Bridges -> SUBSET CotFrames]
        /\ \A c \in Bridges : cotWire'[c] \subseteq cotWire[c]
    BY <1>0, <1>5 DEF Republish, Taken, AtakInv
  <2>4. jdssWire' = [c \in Bridges |-> jdssWire[c] \cup {m}]
    BY <1>5 DEF Republish, ToAll
  <2>5. UNCHANGED <<ticks, tracks, bridgeUp, cotUp, reports, sendYields>>
    BY <1>5 DEF Republish
  <2> HIDE DEF m
  <2>6. jdssWire' \in [Bridges -> SUBSET JdssFrames]
    BY <1>0, <2>2, <2>4 DEF AtakInv
  <2>7. HopsInv'
    BY <1>0, <2>2, <2>3, <2>4 DEF HopsInv
  <2>8. QED BY <1>0, <2>3, <2>5, <2>6, <2>7, BridgeInvWires DEF AtakInv, AtakTypeOK
<1>6. ASSUME NEW b \in Bridges, NEW m \in jdssWire[b], SkipOwn(b, m) PROVE BridgeInv'
  <2>1. /\ jdssWire' \in [Bridges -> SUBSET JdssFrames]
        /\ \A c \in Bridges : jdssWire'[c] \subseteq jdssWire[c]
    BY <1>0, <1>6 DEF SkipOwn, Taken, AtakInv
  <2>2. UNCHANGED <<ticks, tracks, bridgeUp, cotUp, cotWire, reports, sendYields>>
    BY <1>6 DEF SkipOwn
  <2>3. HopsInv'
    BY <1>0, <2>1, <2>2 DEF HopsInv
  <2>4. QED BY <1>0, <2>1, <2>2, <2>3, BridgeInvWires DEF AtakInv, AtakTypeOK
<1>7. ASSUME NEW b \in Bridges, StartCot(b) PROVE BridgeInv'
  <2>1. HopsInv'
    BY <1>0, <1>7 DEF StartCot, HopsInv
  <2>2. QED BY <1>0, <1>7, <2>1, BridgeInvWires DEF StartCot, AtakInv, AtakTypeOK
<1>8. CASE UNCHANGED atakVars
  <2>1. HopsInv'
    BY <1>0, <1>8 DEF atakVars, HopsInv
  <2>2. QED BY <1>0, <1>8, <2>1, BridgeInvWires DEF atakVars, AtakInv, AtakTypeOK
<1>9. QED
  BY <1>1, <1>2, <1>3, <1>4, <1>5, <1>6, <1>7, <1>8, EmitCotKeeps, SweepAtOnceKeeps,
     SweepKeeps, StopBridgeKeeps
  DEF AtakNext

LEMMA BridgeInvariant == AtakSpec => []BridgeInv
  BY InitBridgeInv, NextBridgeInv, PTL DEF AtakSpec

\* For any number of bridges, soldiers, frames and any stale time: a report is
\* not translated in circles, and without a send that yields every track on the
\* map is one the sweep watches.
THEOREM MapIsTrue == AtakSpec => []MapTruth
<1>1. BridgeInv => MapTruth
  BY DEF BridgeInv, HopsInv, WatchInv, MapTruth, NoTranslationLoop, ShownTrackWatched
<1>2. QED BY <1>1, BridgeInvariant, PTL

\* For any stale time, a track leaves the map only when its node has been silent
\* for longer, where no send yields.
THEOREM OnlySilentDeleted == AtakSpec => DeletedOnlySilent
<1>1. ASSUME BridgeInv, [AtakNext]_atakVars, ~ sendYields, NEW b \in Bridges,
             NEW o \in shown[b] \ shown'[b]
      PROVE  ticks - heard[b][o] > StaleTime
  <2>1. /\ \A c \in Bridges : sweep[c] = {} /\ deleting[c] = NoOne
        /\ \A p \in Originators : lastSeen[b][p] # 0 => lastSeen[b][p] = heard[b][p]
    BY <1>1 DEF BridgeInv, WatchInv
  <2>2. shown \in [Bridges -> SUBSET Originators] /\ o \in Originators
    BY <1>1 DEF BridgeInv, AtakInv, AtakTypeOK
  <2>3. PICK c \in Bridges : SweepAtOnce(c)
    <3>1. shown' # shown
      BY <1>1
    <3>2. ASSUME NEW c \in Bridges, NEW m \in jdssWire[c], EmitCot(c, m) PROVE shown[b] \subseteq shown'[b]
      BY <2>2, <3>2 DEF EmitCot, Emitted
    <3>3. QED
      BY <1>1, <2>1, <3>1, <3>2
      DEF AtakNext, atakVars, tracks, Tick, DeviceReport, SoldierPresence, IgnoreCot, Republish,
          SkipOwn, SweepBegins, Deleted, StartCot, StopBridge
  <2>4. o \in Dead(b)
    BY <1>1, <2>2, <2>3 DEF SweepAtOnce
  <2>5. QED BY <2>1, <2>2, <2>4 DEF Dead
<1>2. BridgeInv /\ [AtakNext]_atakVars =>
        [~ sendYields => \A b \in Bridges : \A o \in shown[b] \ shown'[b] :
            ticks - heard[b][o] > StaleTime]_atakVars
  BY <1>1
<1>3. QED BY <1>2, BridgeInvariant, PTL DEF AtakSpec, DeletedOnlySilent

-----------------------------------------------------------------------------
(* The EUD server's fan-outs.  While the message of a client is being      *)
(* fanned out, the client waits: its table entry names the originator, or  *)
(* it has been forgotten, and then its connection was closed with it.      *)

Early == {"none", "accepted"}
Phases == Early \cup {"reading", "ingesting", "gone"}
Sources == Conns \cup {Device[c] : c \in Conns} \cup {TheNetwork}
Messages == [from : Conns \cup {TheNetwork}, src : Sources, snapshot : SUBSET Conns]

FanOutTypes ==
    /\ clientPhase \in [Conns -> Phases]
    /\ DOMAIN clients \subseteq Conns
    /\ published \in Seq(Messages)
    /\ DOMAIN fanOuts \subseteq DOMAIN published
    /\ \A m \in DOMAIN fanOuts : fanOuts[m] \subseteq published[m].snapshot
    /\ sentTo \subseteq (DOMAIN published) \X Conns

TableInv ==
    /\ \A c \in DOMAIN clients : clientPhase[c] \in {"reading", "ingesting"}
    /\ \A m \in DOMAIN published : \A c \in published[m].snapshot : clientPhase[c] \notin Early

\* The client behind a message that is being fanned out.
AuthorInv(m) ==
    LET c == published[m].from
    IN  c \in Conns =>
          /\ clientPhase[c] = "ingesting"
          /\ IF c \in DOMAIN clients THEN published[m].src \in clients[c] ELSE c \in writerClosed
          /\ \A n \in DOMAIN fanOuts : published[n].from = c => n = m

FanOutInv ==
    /\ FanOutTypes
    /\ TableInv
    /\ \A m \in DOMAIN fanOuts : AuthorInv(m)
    /\ OwnTrackNotEchoed
    /\ FanOutServes

LEMMA PublishedMessages ==
    ASSUME FanOutInv
    PROVE  /\ published \in Seq(Messages) /\ Len(published) \in Nat
           /\ DOMAIN published = 1 .. Len(published)
           /\ \A m \in DOMAIN published :
                /\ published[m] \in Messages
                /\ published[m].snapshot \subseteq Conns
                /\ published[m].from \in Conns \cup {TheNetwork}
<1>1. published \in Seq(Messages)
  BY DEF FanOutInv, FanOutTypes
<1>2. /\ Len(published) \in Nat /\ DOMAIN published = 1 .. Len(published)
      /\ \A m \in 1 .. Len(published) : published[m] \in Messages
  BY <1>1, LenProperties, ElementOfSeq
<1>3. \A msg \in Messages : msg.snapshot \subseteq Conns /\ msg.from \in Conns \cup {TheNetwork}
  BY DEF Messages
<1>4. QED BY <1>1, <1>2, <1>3

\* How the clients may move on under the fan-outs.
ClientsMoveOn ==
    /\ clientPhase' \in [Conns -> Phases]
    /\ DOMAIN clients' \subseteq Conns
    /\ \A c \in DOMAIN clients' : clientPhase'[c] \in {"reading", "ingesting"}
    /\ \A c \in Conns :
         /\ clientPhase[c] = "ingesting" => clientPhase'[c] = "ingesting"
         /\ clientPhase[c] \notin Early =>
              /\ clientPhase'[c] \notin Early
              /\ c \in DOMAIN clients' => c \in DOMAIN clients /\ clients[c] \subseteq clients'[c]
              /\ c \in DOMAIN clients \ DOMAIN clients' => c \in writerClosed'
    /\ writerClosed \subseteq writerClosed' /\ linkDown \subseteq linkDown'

\* What a message in its fan-out keeps when the clients move on.
LEMMA MoveOnMessage ==
    ASSUME FanOutInv, ClientsMoveOn, NEW m \in DOMAIN published,
           NEW c \in published[m].snapshot,
           \/ <<m, c>> \in sentTo
           \/ c \in writerClosed \cup linkDown
           \/ published[m].src \in SourcedBy(c)
    PROVE  \/ <<m, c>> \in sentTo
           \/ c \in writerClosed' \cup linkDown'
           \/ published[m].src \in SourcedBy(c)'
<1>1. c \in Conns /\ clientPhase[c] \notin Early
  <2>1. published[m] \in Messages
    BY ElementOfSeq, LenProperties DEF FanOutInv, FanOutTypes
  <2>2. QED BY <2>1 DEF FanOutInv, TableInv, Messages
<1>2. CASE published[m].src \in SourcedBy(c)
  <2>1. c \in DOMAIN clients /\ published[m].src \in clients[c]
    BY <1>2 DEF SourcedBy
  <2>2. CASE c \in DOMAIN clients'
    BY <1>1, <2>1, <2>2 DEF SourcedBy, ClientsMoveOn
  <2>3. CASE c \notin DOMAIN clients'
    BY <1>1, <2>1, <2>3 DEF ClientsMoveOn
  <2>4. QED BY <2>2, <2>3
<1>3. QED BY <1>2 DEF ClientsMoveOn

LEMMA MoveOnAuthor ==
    ASSUME FanOutInv, ClientsMoveOn, NEW m \in DOMAIN fanOuts,
           NEW c \in Conns, c = published[m].from
    PROVE  /\ clientPhase'[c] = "ingesting"
           /\ IF c \in DOMAIN clients' THEN published[m].src \in clients'[c]
                                       ELSE c \in writerClosed'
<1>1. /\ clientPhase[c] = "ingesting"
      /\ IF c \in DOMAIN clients THEN published[m].src \in clients[c] ELSE c \in writerClosed
  BY DEF FanOutInv, AuthorInv
<1>2. clientPhase[c] \notin Early
  BY <1>1 DEF Early
<1>3. QED BY <1>1, <1>2 DEF ClientsMoveOn

\* Steps of clients and of the listener.
LEMMA MoveOnKeeps ==
    ASSUME FanOutInv, ClientsMoveOn, UNCHANGED fanOutVars
    PROVE  FanOutInv'
<1> USE DEF fanOutVars
<1>1. FanOutTypes'
  BY DEF FanOutInv, FanOutTypes, ClientsMoveOn
<1>2. TableInv'
  <2>1. \A m \in DOMAIN published : published[m].snapshot \subseteq Conns
    BY PublishedMessages
  <2>2. QED BY <2>1 DEF FanOutInv, TableInv, ClientsMoveOn
<1>3. \A m \in DOMAIN fanOuts' : AuthorInv(m)'
  BY MoveOnAuthor DEF AuthorInv, FanOutInv
<1>4. OwnTrackNotEchoed'
  BY DEF FanOutInv, OwnTrackNotEchoed, ClientsMoveOn
<1>5. FanOutServes'
  BY MoveOnMessage DEF FanOutInv, FanOutServes
<1>6. QED BY <1>1, <1>2, <1>3, <1>4, <1>5 DEF FanOutInv

\* A message starts its fan-out; its author, if a client, waits for the end.
LEMMA StartFanOutKeeps ==
    ASSUME FanOutInv, ClientsMoveOn, NEW from \in Conns \cup {TheNetwork}, NEW src \in Sources,
           StartFanOut(from, src),
           from \in Conns => /\ clientPhase[from] # "ingesting"
                             /\ clientPhase'[from] = "ingesting"
                             /\ from \in DOMAIN clients' /\ src \in clients'[from]
    PROVE  FanOutInv'
<1> DEFINE msg == [from |-> from, src |-> src, snapshot |-> DOMAIN clients']
           new == Len(published) + 1
<1>1. /\ published \in Seq(Messages) /\ Len(published) \in Nat
      /\ DOMAIN published = 1 .. Len(published)
      /\ msg \in Messages
      /\ msg.from = from /\ msg.src = src /\ msg.snapshot = DOMAIN clients'
      /\ \A m \in DOMAIN published : published[m] \in Messages
  <2>1. msg \in Messages
    BY DEF ClientsMoveOn, Messages
  <2>2. msg.from = from /\ msg.src = src /\ msg.snapshot = DOMAIN clients'
    OBVIOUS
  <2>3. QED BY <2>1, <2>2, PublishedMessages
<1>2. /\ published' = Append(published, msg)
      /\ fanOuts' = [m \in DOMAIN fanOuts \cup {new} |->
                       IF m \in DOMAIN fanOuts THEN fanOuts[m] ELSE DOMAIN clients']
      /\ sentTo' = sentTo
  BY DEF StartFanOut
<1> HIDE DEF msg
<1>3. /\ published' \in Seq(Messages)
      /\ DOMAIN published' = DOMAIN published \cup {new}
      /\ \A m \in DOMAIN published : published'[m] = published[m]
      /\ published'[new] = msg
      /\ new \notin DOMAIN published
  <2>1. /\ published' \in Seq(Messages)
        /\ Len(published') = Len(published) + 1
        /\ \A m \in 1 .. Len(published) : published'[m] = published[m]
        /\ published'[Len(published) + 1] = msg
    BY <1>1, <1>2, AppendRange
  <2>2. DOMAIN published' = 1 .. (Len(published) + 1)
    BY <2>1, LenProperties
  <2>3. QED BY <1>1, <2>1, <2>2
<1> HIDE DEF new
<1>4. /\ DOMAIN fanOuts \subseteq DOMAIN published
      /\ DOMAIN fanOuts' = DOMAIN fanOuts \cup {new}
      /\ \A m \in DOMAIN fanOuts : fanOuts'[m] = fanOuts[m]
      /\ fanOuts'[new] = DOMAIN clients'
  BY <1>2, <1>3 DEF FanOutInv, FanOutTypes
<1>5. FanOutTypes'
  <2>1. \A m \in DOMAIN fanOuts' : fanOuts'[m] \subseteq published'[m].snapshot
    BY <1>1, <1>3, <1>4 DEF FanOutInv, FanOutTypes
  <2>2. sentTo' \subseteq (DOMAIN published') \X Conns
    BY <1>2, <1>3 DEF FanOutInv, FanOutTypes
  <2>3. QED BY <1>3, <1>4, <2>1, <2>2 DEF FanOutTypes, ClientsMoveOn, FanOutInv
<1>6. TableInv'
  <2>1. ASSUME NEW m \in DOMAIN published', NEW c \in published'[m].snapshot
        PROVE  clientPhase'[c] \notin Early
    <3>1. CASE m \in DOMAIN published
      <4>1. c \in published[m].snapshot /\ c \in Conns
        BY <1>1, <1>3, <2>1, <3>1 DEF Messages
      <4>2. QED BY <3>1, <4>1 DEF FanOutInv, TableInv, ClientsMoveOn
    <3>2. CASE m = new
      BY <1>1, <1>3, <2>1, <3>2 DEF ClientsMoveOn, Early
    <3>3. QED BY <1>3, <3>1, <3>2
  <2>2. QED BY <2>1 DEF TableInv, ClientsMoveOn
<1>7. ASSUME NEW m \in DOMAIN fanOuts' PROVE AuthorInv(m)'
  <2>1. ASSUME NEW c \in Conns, c = published'[m].from
        PROVE  /\ clientPhase'[c] = "ingesting"
               /\ IF c \in DOMAIN clients' THEN published'[m].src \in clients'[c]
                                           ELSE c \in writerClosed'
               /\ \A n \in DOMAIN fanOuts' : published'[n].from = c => n = m
    <3>1. CASE m \in DOMAIN fanOuts
      <4>1. published'[m] = published[m]
        BY <1>3, <1>4, <3>1
      <4>2. clientPhase[c] = "ingesting"
        BY <2>1, <3>1, <4>1 DEF FanOutInv, AuthorInv
      <4>3. \A n \in DOMAIN fanOuts' : published'[n].from = c => n = m
        <5>1. c # from
          BY <4>2
        <5>2. \A n \in DOMAIN fanOuts : published[n].from = c => n = m
          BY <2>1, <3>1, <4>1 DEF FanOutInv, AuthorInv
        <5>3. QED BY <1>1, <1>3, <1>4, <5>1, <5>2
      <4>4. QED BY <2>1, <3>1, <4>1, <4>3, MoveOnAuthor
    <3>2. CASE m = new
      <4>1. c = from /\ published'[m].src = src
        BY <1>1, <1>3, <2>1, <3>2
      <4>2. clientPhase[c] # "ingesting" /\ clientPhase'[c] = "ingesting"
            /\ c \in DOMAIN clients' /\ src \in clients'[c]
        BY <2>1, <4>1
      <4>3. \A n \in DOMAIN fanOuts : published[n].from # c
        BY <2>1, <4>2 DEF FanOutInv, AuthorInv
      <4>4. QED BY <1>3, <1>4, <3>2, <4>1, <4>2, <4>3
    <3>3. QED BY <1>4, <3>1, <3>2
  <2>2. QED BY <2>1 DEF AuthorInv
<1>8. OwnTrackNotEchoed'
  <2>1. writerClosed \subseteq writerClosed'
    BY DEF ClientsMoveOn
  <2>2. ASSUME NEW m \in DOMAIN published', <<m, published'[m].from>> \in sentTo'
        PROVE  published'[m].from \in writerClosed'
    <3>1. m \in DOMAIN published /\ published'[m] = published[m]
      BY <1>2, <1>3, <2>2 DEF FanOutInv, FanOutTypes
    <3>2. QED BY <1>2, <2>1, <2>2, <3>1 DEF FanOutInv, OwnTrackNotEchoed
  <2>3. QED BY <2>2 DEF OwnTrackNotEchoed
<1>9. FanOutServes'
  <2> SUFFICES ASSUME NEW m \in DOMAIN published',
                      NEW c \in published'[m].snapshot,
                      ~ (m \in DOMAIN fanOuts' /\ c \in fanOuts'[m])
               PROVE  \/ <<m, c>> \in sentTo
                      \/ c \in writerClosed' \cup linkDown'
                      \/ published'[m].src \in SourcedBy(c)'
    BY <1>2 DEF FanOutServes
  <2>1. m # new
    BY <1>1, <1>3, <1>4
  <2>2. m \in DOMAIN published /\ published'[m] = published[m]
    BY <1>3, <2>1
  <2>3. ~ (m \in DOMAIN fanOuts /\ c \in fanOuts[m])
    BY <1>4
  <2>4. \/ <<m, c>> \in sentTo
        \/ c \in writerClosed \cup linkDown
        \/ published[m].src \in SourcedBy(c)
    BY <2>2, <2>3 DEF FanOutInv, FanOutServes
  <2>5. QED BY <2>2, <2>4, MoveOnMessage
<1>10. QED BY <1>5, <1>6, <1>7, <1>8, <1>9 DEF FanOutInv

\* A client of the snapshot has its turn: it is served, its connection is gone,
\* or it is a source of the originator.
LEMMA TurnKeeps ==
    ASSUME FanOutInv, NEW m \in DOMAIN fanOuts, NEW c \in fanOuts[m],
           Skip(m, c) \/ SendFrame(m, c) \/ SendFrameFails(m, c)
    PROVE  FanOutInv'
<1>1. /\ published \in Seq(Messages) /\ m \in DOMAIN published
      /\ published[m] \in Messages
      /\ c \in published[m].snapshot /\ c \in Conns
      /\ published' = published /\ clientPhase' = clientPhase /\ linkDown' = linkDown
      /\ fanOuts' = [fanOuts EXCEPT ![m] = @ \ {c}]
  <2>1. m \in DOMAIN published /\ c \in published[m].snapshot
    BY DEF FanOutInv, FanOutTypes
  <2>2. /\ published \in Seq(Messages) /\ published[m] \in Messages /\ c \in Conns
    BY <2>1, PublishedMessages
  <2>3. /\ published' = published /\ clientPhase' = clientPhase /\ linkDown' = linkDown
        /\ fanOuts' = [fanOuts EXCEPT ![m] = @ \ {c}]
    BY DEF Skip, SendFrame, SendFrameFails, PassOver, clientVars
  <2>4. QED BY <2>1, <2>2, <2>3
<1>2. /\ DOMAIN fanOuts' = DOMAIN fanOuts
      /\ \A n \in DOMAIN fanOuts : fanOuts'[n] = IF n = m THEN fanOuts[n] \ {c} ELSE fanOuts[n]
  BY <1>1
<1>3. ClientsMoveOn
  <2>1. \A d \in Conns : clientPhase[d] = "ingesting" => clientPhase[d] \notin Early
    BY DEF Early
  <2>2. CASE Skip(m, c) \/ SendFrame(m, c)
    BY <2>2 DEF Skip, SendFrame, clientVars, ClientsMoveOn, FanOutInv, FanOutTypes, TableInv
  <2>3. CASE SendFrameFails(m, c)
    <3>1. clients' = [d \in DOMAIN clients \ {c} |-> clients[d]]
      BY <2>3 DEF SendFrameFails, Without, Restrict
    <3>2. writerClosed' = writerClosed \cup {c}
      BY <2>3 DEF SendFrameFails
    <3>3. QED BY <1>1, <3>1, <3>2 DEF ClientsMoveOn, FanOutInv, FanOutTypes, TableInv
  <2>4. QED BY <2>2, <2>3
<1>4. \/ sentTo' = sentTo /\ (c \in writerClosed' \cup linkDown' \/ published[m].src \in SourcedBy(c)')
      \/ /\ sentTo' = sentTo \cup {<<m, c>>} /\ published[m].src \notin SourcedBy(c)
  <2>1. CASE Skip(m, c)
    BY <2>1 DEF Skip, clientVars, SourcedBy
  <2>2. CASE SendFrame(m, c)
    BY <2>2 DEF SendFrame, Turn, WriteFrame, clientVars
  <2>3. CASE SendFrameFails(m, c)
    BY <2>3 DEF SendFrameFails, Turn, WriteFrame
  <2>4. QED BY <2>1, <2>2, <2>3
<1>5. FanOutTypes'
  <2>1. sentTo' \subseteq (DOMAIN published') \X Conns
    BY <1>1, <1>4 DEF FanOutInv, FanOutTypes
  <2>2. \A n \in DOMAIN fanOuts' : fanOuts'[n] \subseteq published'[n].snapshot
    BY <1>1, <1>2 DEF FanOutInv, FanOutTypes
  <2>3. QED BY <1>1, <1>2, <1>3, <2>1, <2>2 DEF FanOutInv, FanOutTypes, ClientsMoveOn
<1>6. TableInv'
  BY <1>1, <1>3 DEF FanOutInv, TableInv, ClientsMoveOn
<1>7. \A n \in DOMAIN fanOuts' : AuthorInv(n)'
  BY <1>1, <1>2, <1>3, MoveOnAuthor DEF AuthorInv, FanOutInv
<1>8. OwnTrackNotEchoed'
  <2>1. AuthorInv(m)
    BY DEF FanOutInv
  <2>2. published[m].from = c => c \in writerClosed \/ published[m].src \in SourcedBy(c)
    BY <1>1, <2>1 DEF AuthorInv, SourcedBy
  <2>3. writerClosed \subseteq writerClosed'
    BY <1>3 DEF ClientsMoveOn
  <2>4. QED BY <1>1, <1>4, <2>2, <2>3 DEF FanOutInv, OwnTrackNotEchoed
<1>9. FanOutServes'
  <2> SUFFICES ASSUME NEW n \in DOMAIN published, NEW d \in published[n].snapshot,
                      ~ (n \in DOMAIN fanOuts' /\ d \in fanOuts'[n])
               PROVE  \/ <<n, d>> \in sentTo'
                      \/ d \in writerClosed' \cup linkDown'
                      \/ published[n].src \in SourcedBy(d)'
    BY <1>1 DEF FanOutServes
  <2>1. CASE n = m /\ d = c
    BY <1>4, <2>1
  <2>2. CASE ~ (n = m /\ d = c)
    <3>1. ~ (n \in DOMAIN fanOuts /\ d \in fanOuts[n])
      BY <1>2, <2>2
    <3>2. \/ <<n, d>> \in sentTo
          \/ d \in writerClosed \cup linkDown
          \/ published[n].src \in SourcedBy(d)
      BY <3>1 DEF FanOutInv, FanOutServes
    <3>3. QED BY <1>3, <1>4, <3>2, MoveOnMessage
  <2>3. QED BY <2>1, <2>2
<1>10. QED BY <1>5, <1>6, <1>7, <1>8, <1>9 DEF FanOutInv

\* The fan-out is over: its author goes on reading.
LEMMA FanOutEndsKeeps ==
    ASSUME FanOutInv, NEW m \in DOMAIN fanOuts, FanOutEnds(m)
    PROVE  FanOutInv'
<1>1. /\ fanOuts[m] = {}
      /\ fanOuts' = [n \in DOMAIN fanOuts \ {m} |-> fanOuts[n]]
      /\ clientPhase' = [c \in Conns |-> IF c = published[m].from THEN "reading" ELSE clientPhase[c]]
      /\ UNCHANGED <<clients, writerClosed, linkDown, published, sentTo>>
  BY DEF FanOutEnds, Restrict
<1>2. \A c \in Conns :
        /\ clientPhase[c] \in Phases
        /\ c = published[m].from => clientPhase[c] = "ingesting" /\ clientPhase'[c] = "reading"
        /\ c # published[m].from => clientPhase'[c] = clientPhase[c]
  BY <1>1 DEF FanOutInv, FanOutTypes, AuthorInv
<1>3. FanOutTypes'
  <2>1. clientPhase' \in [Conns -> Phases]
    BY <1>1, <1>2 DEF Phases
  <2>2. QED BY <1>1, <2>1 DEF FanOutInv, FanOutTypes
<1>4. TableInv'
  <2>1. \A n \in DOMAIN published : published[n].snapshot \subseteq Conns
    BY PublishedMessages
  <2>2. DOMAIN clients \subseteq Conns
    BY DEF FanOutInv, FanOutTypes
  <2>3. QED BY <1>1, <1>2, <2>1, <2>2 DEF FanOutInv, TableInv, Early
<1>5. ASSUME NEW n \in DOMAIN fanOuts' PROVE AuthorInv(n)'
  <2>1. n \in DOMAIN fanOuts /\ n # m
    BY <1>1
  <2>2. AuthorInv(n) /\ AuthorInv(m)
    BY <2>1 DEF FanOutInv
  <2>3. published[n].from \in Conns => published[n].from # published[m].from
    BY <2>1, <2>2 DEF AuthorInv
  <2>4. QED BY <1>1, <1>2, <2>2, <2>3 DEF AuthorInv
<1>6. OwnTrackNotEchoed'
  BY <1>1 DEF FanOutInv, OwnTrackNotEchoed
<1>7. FanOutServes'
  BY <1>1 DEF FanOutInv, FanOutServes, SourcedBy
<1>8. QED BY <1>3, <1>4, <1>5, <1>6, <1>7 DEF FanOutInv

LEMMA InitFanOutInv == EudInit => FanOutInv
<1> SUFFICES ASSUME EudInit PROVE FanOutInv
  OBVIOUS
<1>1. /\ published = <<>> /\ DOMAIN published = {} /\ published \in Seq(Messages)
      /\ DOMAIN fanOuts = {} /\ DOMAIN clients = {} /\ sentTo = {}
      /\ clientPhase \in [Conns -> Phases]
  BY DEF EudInit, NoClients, Phases, Early
<1>2. QED BY <1>1 DEF FanOutInv, FanOutTypes, TableInv, OwnTrackNotEchoed, FanOutServes

LEMMA NextFanOutInv == FanOutInv /\ [EudNext]_eudVars => FanOutInv'
<1> SUFFICES ASSUME FanOutInv, [EudNext]_eudVars PROVE FanOutInv'
  OBVIOUS
<1>0. /\ FanOutTypes /\ TableInv
      /\ \A c \in Conns : clientPhase[c] = "ingesting" => clientPhase[c] \notin Early
  BY DEF FanOutInv, Early
<1> USE DEF clientVars
<1>1. ASSUME UNCHANGED <<clientVars, fanOutVars>> PROVE FanOutInv'
  <2>1. ClientsMoveOn
    BY <1>0, <1>1 DEF ClientsMoveOn, FanOutTypes, TableInv
  <2>2. QED BY <1>1, <2>1, MoveOnKeeps
<1>2. ASSUME NEW cfg \in EudConfigs, StopListener(cfg) PROVE FanOutInv'
  <2>1. /\ clients' = NoClients /\ DOMAIN clients' = {}
        /\ writerClosed' = writerClosed \cup DOMAIN clients
        /\ clientPhase' = clientPhase /\ linkDown' = linkDown
        /\ UNCHANGED fanOutVars
    BY <1>2 DEF StopListener, NoClients
  <2>2. ClientsMoveOn
    BY <1>0, <2>1 DEF ClientsMoveOn, FanOutTypes, TableInv
  <2>3. QED BY <2>1, <2>2, MoveOnKeeps
<1>3. ASSUME NEW cfg \in EudConfigs, Reapply(cfg) PROVE FanOutInv'
  BY <1>1, <1>3 DEF Reapply
<1>4. ASSUME NEW k \in EudPending, ListenerClosed(k) \/ Bind(k) \/ BindFails(k) \/ Assign(k)
      PROVE  FanOutInv'
  BY <1>1, <1>4 DEF ListenerClosed, Bind, BindFails, Assign
<1>5. ASSUME NEW c \in Conns, AcceptClient(c) PROVE FanOutInv'
  <2>1. /\ clientPhase[c] = "none"
        /\ clientPhase' = [clientPhase EXCEPT ![c] = "accepted"]
        /\ UNCHANGED <<clients, writerClosed, linkDown, fanOutVars>>
    BY <1>5 DEF AcceptClient
  <2>2. ClientsMoveOn
    BY <1>0, <2>1 DEF ClientsMoveOn, FanOutTypes, TableInv, Phases, Early
  <2>3. QED BY <2>1, <2>2, MoveOnKeeps
<1>6. ASSUME NEW c \in Conns, Register(c) PROVE FanOutInv'
  <2>1. /\ clientPhase[c] = "accepted"
        /\ clientPhase' = [clientPhase EXCEPT ![c] = "reading"]
        /\ clients' = [d \in DOMAIN clients \cup {c} |-> IF d = c THEN {} ELSE clients[d]]
        /\ UNCHANGED <<writerClosed, linkDown, fanOutVars>>
    BY <1>6 DEF Register
  <2>2. ClientsMoveOn
    BY <1>0, <2>1 DEF ClientsMoveOn, FanOutTypes, TableInv, Phases, Early
  <2>3. QED BY <2>1, <2>2, MoveOnKeeps
<1>7. ASSUME NEW c \in Conns, PeerGone(c) PROVE FanOutInv'
  <2>1. /\ linkDown' = linkDown \cup {c}
        /\ UNCHANGED <<clientPhase, clients, writerClosed, fanOutVars>>
    BY <1>7 DEF PeerGone
  <2>2. ClientsMoveOn
    BY <1>0, <2>1 DEF ClientsMoveOn, FanOutTypes, TableInv
  <2>3. QED BY <2>1, <2>2, MoveOnKeeps
<1>8. ASSUME NEW c \in Conns, Leave(c) \/ IngestOrphan(c) PROVE FanOutInv'
  <2>1. /\ clientPhase[c] = "reading"
        /\ clientPhase' = [clientPhase EXCEPT ![c] = "gone"]
        /\ clients' = [d \in DOMAIN clients \ {c} |-> clients[d]] \/ (clients' = clients /\ c \notin DOMAIN clients)
        /\ writerClosed' = writerClosed \cup {c}
        /\ UNCHANGED <<linkDown, fanOutVars>>
    BY <1>8 DEF Leave, IngestOrphan, Without, Restrict
  <2>2. ClientsMoveOn
    BY <1>0, <2>1 DEF ClientsMoveOn, FanOutTypes, TableInv, Phases, Early
  <2>3. QED BY <2>1, <2>2, MoveOnKeeps
<1>9. ASSUME NEW c \in Conns, NEW self \in BOOLEAN, IngestEvent(c, self) PROVE FanOutInv'
  <2>1. /\ clientPhase[c] = "reading" /\ c \in DOMAIN clients
        /\ clientPhase' = [clientPhase EXCEPT ![c] = "ingesting"]
        /\ clients' = [clients EXCEPT ![c] = @ \cup {Originator(c, self)}]
        /\ StartFanOut(c, Originator(c, self))
        /\ UNCHANGED <<writerClosed, linkDown>>
    BY <1>9 DEF IngestEvent
  <2>2. ClientsMoveOn
    BY <1>0, <2>1 DEF ClientsMoveOn, FanOutTypes, TableInv, Phases, Early
  <2>3. Originator(c, self) \in Sources
    BY DEF Originator, Sources
  <2>4. /\ clientPhase[c] # "ingesting" /\ clientPhase'[c] = "ingesting"
        /\ c \in DOMAIN clients' /\ Originator(c, self) \in clients'[c]
    BY <1>0, <2>1 DEF FanOutTypes
  <2>5. QED BY <2>1, <2>2, <2>3, <2>4, StartFanOutKeeps
<1>10. ASSUME NEW c \in Conns, NEW self \in BOOLEAN, IngestRefused(c, self) PROVE FanOutInv'
  <2>1. /\ clientPhase[c] = "reading" /\ c \in DOMAIN clients
        /\ clients' = [clients EXCEPT ![c] = @ \cup {Originator(c, self)}]
        /\ UNCHANGED <<clientPhase, writerClosed, linkDown, fanOutVars>>
    BY <1>10 DEF IngestRefused
  <2>2. ClientsMoveOn
    BY <1>0, <2>1 DEF ClientsMoveOn, FanOutTypes, TableInv
  <2>3. QED BY <2>1, <2>2, MoveOnKeeps
<1>11. CASE FromNetwork
  <2>1. UNCHANGED clientVars /\ StartFanOut(TheNetwork, TheNetwork)
    BY <1>11 DEF FromNetwork
  <2>2. ClientsMoveOn
    BY <1>0, <2>1 DEF ClientsMoveOn, FanOutTypes, TableInv
  <2>3. TheNetwork \in Sources /\ TheNetwork \notin Conns
    BY EudAssumptions DEF Sources
  <2>4. QED BY <2>1, <2>2, <2>3, StartFanOutKeeps
<1>12. CASE UNCHANGED eudVars
  BY <1>1, <1>12 DEF eudVars
<1>13. QED
  BY <1>2, <1>3, <1>4, <1>5, <1>6, <1>7, <1>8, <1>9, <1>10, <1>11, <1>12,
     TurnKeeps, FanOutEndsKeeps
  DEF EudNext

LEMMA FanOutInvariant == EudSpec => []FanOutInv
  BY InitFanOutInv, NextFanOutInv, PTL DEF EudSpec

\* For any connections, devices and interleaving: a fan-out writes a message to the
\* client that sent it only on a connection that a stop of the listener has closed.
THEOREM NeverEchoed == EudSpec => []OwnTrackNotEchoed
<1>1. FanOutInv => OwnTrackNotEchoed
  BY DEF FanOutInv
<1>2. QED BY <1>1, FanOutInvariant, PTL

\* Whoever was connected when a message came in has it after its turn, unless
\* its connection ended or it is a source of the originator.
THEOREM EveryClientServed == EudSpec => []FanOutServes
<1>1. FanOutInv => FanOutServes
  BY DEF FanOutInv
<1>2. QED BY <1>1, FanOutInvariant, PTL

-----------------------------------------------------------------------------
(* The EUD server's listener.  Every socket that listens was bound by a    *)
(* call of reconfigure, which then keeps it or, overtaken by another call, *)
(* loses it.  A call under way, the listener and the lost sockets together *)
(* are at most one more than the calls that began during another.          *)

Steps == {"closing", "bind", "assign", "done"}
Calls == [cfg : EudConfigs, at : Steps, srv : Nat]

ListenerTypes ==
    /\ eudCfg \in EudConfigs /\ listener \in Nat /\ eudOverlaps \in Nat
    /\ IsFiniteSet(bound)
    /\ eudCalls \in Seq(Calls)
    /\ acceptedBy \in [Conns -> Nat]

BoundInv ==
    /\ listener # 0 => listener \in DOMAIN eudCalls /\ eudCalls[listener].at = "done"
    /\ \A b \in bound : b.id \in DOMAIN eudCalls /\ eudCalls[b.id].at \in {"assign", "done"}
    /\ \A b, d \in bound : b.id = d.id => b = d

\* Sockets that no call will keep any more.
Lost == {b \in bound : b.id # listener /\ eudCalls[b.id].at = "done"}
Has == IF listener = 0 THEN 0 ELSE 1

LostInv ==
    /\ Cardinality(Lost) <= eudOverlaps
    /\ Cardinality(Lost) + Cardinality(EudPending) + Has <= eudOverlaps + 1

\* As long as no call has begun during another.
AloneInv ==
    eudOverlaps = 0 =>
        /\ EudPending = {} =>
             IF listener # 0
             THEN eudCfg.enabled /\ bound = {[id |-> listener, port |-> eudCfg.port]}
             ELSE bound = {} /\ (eudCfg.enabled => bindFailed)
        /\ \A k \in EudPending :
             /\ EudPending = {k} /\ listener = 0
             /\ eudCalls[k].at \in {"closing", "bind"} => bound = {}
             /\ eudCalls[k].at \in {"bind", "assign"} =>
                  eudCfg = eudCalls[k].cfg /\ eudCfg.enabled
             /\ eudCalls[k].at = "assign" => bound = {[id |-> k, port |-> eudCfg.port]}

\* A connection is as good as ended, or its listener is bound or being closed.
AcceptedInv ==
    \A c \in Conns : clientPhase[c] # "none" =>
        \/ c \in writerClosed \cup linkDown
        \/ \E b \in bound : b.id = acceptedBy[c]
        \/ \E k \in DOMAIN eudCalls : eudCalls[k].at = "closing" /\ eudCalls[k].srv = acceptedBy[c]

ListenerInv == ListenerTypes /\ BoundInv /\ LostInv /\ AloneInv /\ AcceptedInv

LEMMA CallsFacts ==
    ASSUME ListenerTypes
    PROVE  /\ Len(eudCalls) \in Nat /\ DOMAIN eudCalls = 1 .. Len(eudCalls)
           /\ \A k \in DOMAIN eudCalls : eudCalls[k] \in Calls
           /\ EudPending \subseteq DOMAIN eudCalls
           /\ IsFiniteSet(EudPending) /\ Cardinality(EudPending) \in Nat
           /\ IsFiniteSet(Lost) /\ Cardinality(Lost) \in Nat
<1>1. /\ Len(eudCalls) \in Nat /\ DOMAIN eudCalls = 1 .. Len(eudCalls)
      /\ \A k \in 1 .. Len(eudCalls) : eudCalls[k] \in Calls
  BY LenProperties, ElementOfSeq DEF ListenerTypes
<1>2. EudPending \subseteq DOMAIN eudCalls /\ Lost \subseteq bound
  BY DEF EudPending, Lost
<1>3. IsFiniteSet(1 .. Len(eudCalls))
  BY <1>1, FS_Interval
<1>4. IsFiniteSet(EudPending) /\ IsFiniteSet(Lost)
  BY <1>1, <1>2, <1>3, FS_Subset DEF ListenerTypes
<1>5. QED BY <1>1, <1>2, <1>4, FS_CardinalityType

\* A call of reconfigure begins.
LEMMA CallBegins ==
    ASSUME ListenerTypes, NEW call \in Calls, EudCall(call)
    PROVE  LET n == Len(eudCalls) + 1
           IN  /\ eudCalls' \in Seq(Calls)
               /\ DOMAIN eudCalls' = DOMAIN eudCalls \cup {n}
               /\ n \in Nat \ {0} /\ n \notin DOMAIN eudCalls
               /\ \A k \in DOMAIN eudCalls : eudCalls'[k] = eudCalls[k]
               /\ eudCalls'[n] = call
               /\ EudPending' = EudPending \cup (IF call.at = "done" THEN {} ELSE {n})
               /\ eudOverlaps' = eudOverlaps + (IF EudPending = {} THEN 0 ELSE 1)
               /\ eudOverlaps' \in Nat
<1> DEFINE n == Len(eudCalls) + 1
<1>1. eudCalls' = Append(eudCalls, call)
      /\ eudOverlaps' = eudOverlaps + (IF EudPending = {} THEN 0 ELSE 1)
  BY DEF EudCall
<1>2. /\ Len(eudCalls) \in Nat /\ DOMAIN eudCalls = 1 .. Len(eudCalls)
      /\ eudCalls \in Seq(Calls)
  BY CallsFacts DEF ListenerTypes
<1>3. /\ eudCalls' \in Seq(Calls) /\ Len(eudCalls') = n
      /\ \A k \in 1 .. Len(eudCalls) : eudCalls'[k] = eudCalls[k]
      /\ eudCalls'[n] = call
  BY <1>1, <1>2, AppendRange
<1>4. DOMAIN eudCalls' = 1 .. n
  BY <1>3, LenProperties
<1>5. /\ DOMAIN eudCalls' = DOMAIN eudCalls \cup {n}
      /\ n \in Nat \ {0} /\ n \notin DOMAIN eudCalls
      /\ \A k \in DOMAIN eudCalls : eudCalls'[k] = eudCalls[k]
  BY <1>2, <1>3, <1>4
<1> HIDE DEF n
<1>6. EudPending' = EudPending \cup (IF call.at = "done" THEN {} ELSE {n})
  BY <1>3, <1>5 DEF EudPending
<1>7. eudOverlaps' \in Nat
  BY <1>1 DEF ListenerTypes
<1>8. QED BY <1>1, <1>3, <1>5, <1>6, <1>7 DEF n

\* A call under way comes to its next step.
LEMMA CallGoes ==
    ASSUME ListenerTypes, NEW k \in EudPending, NEW a \in Steps,
           eudCalls' = [eudCalls EXCEPT ![k].at = a]
    PROVE  /\ eudCalls' \in Seq(Calls)
           /\ DOMAIN eudCalls' = DOMAIN eudCalls
           /\ \A j \in DOMAIN eudCalls : j # k => eudCalls'[j] = eudCalls[j]
           /\ k \in DOMAIN eudCalls
           /\ eudCalls'[k].at = a /\ eudCalls'[k].cfg = eudCalls[k].cfg
           /\ EudPending' = EudPending \ (IF a = "done" THEN {k} ELSE {})
<1>1. k \in DOMAIN eudCalls /\ eudCalls[k] \in Calls /\ eudCalls \in Seq(Calls)
  BY CallsFacts DEF ListenerTypes
<1>2. eudCalls[k].at # "done"
  BY DEF EudPending
<1> DEFINE call == [eudCalls[k] EXCEPT !.at = a]
<1>3. call \in Calls /\ call.at = a /\ call.cfg = eudCalls[k].cfg
  <2>1. PICK c \in Calls : c = eudCalls[k]
    BY <1>1
  <2>2. call = [c EXCEPT !.at = a]
    BY <2>1
  <2>3. QED BY <2>1, <2>2 DEF Calls
<1>4. eudCalls' = [eudCalls EXCEPT ![k] = call]
  OBVIOUS
<1> HIDE DEF call
<1>5. eudCalls' \in Seq(Calls)
  BY <1>1, <1>3, <1>4, ExceptSeq, SMTT(30)
<1>6. /\ DOMAIN eudCalls' = DOMAIN eudCalls
      /\ \A j \in DOMAIN eudCalls : j # k => eudCalls'[j] = eudCalls[j]
      /\ eudCalls'[k] = call
  BY <1>1, <1>4
<1>7. EudPending' = EudPending \ (IF a = "done" THEN {k} ELSE {})
  BY <1>1, <1>2, <1>3, <1>6 DEF EudPending
<1>8. QED BY <1>1, <1>3, <1>5, <1>6, <1>7

\* A call that leaves EudPending is one less.
LEMMA OneCallLess ==
    ASSUME ListenerTypes, NEW k \in EudPending
    PROVE  /\ Cardinality(EudPending \ {k}) = Cardinality(EudPending) - 1
           /\ Cardinality(EudPending) >= 1
           /\ IsFiniteSet(EudPending \ {k})
<1>1. IsFiniteSet(EudPending) /\ Cardinality(EudPending) \in Nat
  BY CallsFacts
<1>2. /\ Cardinality(EudPending \ {k}) = Cardinality(EudPending) - 1
      /\ IsFiniteSet(EudPending \ {k})
  BY <1>1, FS_RemoveElement
<1>3. Cardinality(EudPending \ {k}) \in Nat
  BY <1>2, FS_CardinalityType
<1>4. QED BY <1>1, <1>2, <1>3
-----------------------------------------------------------------------------
\* What the connections may do while the listener stays as it is.
LEMMA ConnectionsMoveOn ==
    ASSUME ListenerInv, UNCHANGED listenerVars, acceptedBy' \in [Conns -> Nat],
           writerClosed \cup linkDown \subseteq writerClosed' \cup linkDown',
           \A c \in Conns : clientPhase'[c] # "none" =>
              \/ clientPhase[c] # "none" /\ acceptedBy'[c] = acceptedBy[c]
              \/ \E b \in bound : b.id = acceptedBy'[c]
    PROVE  ListenerInv'
<1> USE DEF listenerVars
<1>1. ListenerTypes' /\ BoundInv' /\ LostInv' /\ AloneInv'
  BY DEF ListenerInv, ListenerTypes, BoundInv, LostInv, AloneInv, Lost, Has, EudPending
<1>2. ASSUME NEW c \in Conns, clientPhase'[c] # "none"
      PROVE  \/ c \in writerClosed' \cup linkDown'
             \/ \E b \in bound' : b.id = acceptedBy'[c]
             \/ \E k \in DOMAIN eudCalls' :
                  eudCalls'[k].at = "closing" /\ eudCalls'[k].srv = acceptedBy'[c]
  <2>1. CASE clientPhase[c] # "none" /\ acceptedBy'[c] = acceptedBy[c]
    BY <2>1 DEF ListenerInv, AcceptedInv
  <2>2. CASE \E b \in bound : b.id = acceptedBy'[c]
    BY <2>2
  <2>3. QED BY <1>2, <2>1, <2>2
<1>3. AcceptedInv'
  BY <1>2 DEF AcceptedInv
<1>4. QED BY <1>1, <1>3 DEF ListenerInv

LEMMA StopListenerKeeps ==
    ASSUME ListenerInv, FanOutInv, NEW cfg \in EudConfigs, StopListener(cfg)
    PROVE  ListenerInv'
<1> DEFINE n == Len(eudCalls) + 1
           call == [cfg |-> cfg, at |-> "closing", srv |-> listener]
<1>1. /\ ListenerTypes /\ BoundInv /\ LostInv /\ AloneInv /\ AcceptedInv
      /\ listener # 0 /\ listener \in DOMAIN eudCalls
  BY DEF ListenerInv, StopListener, MustStop, BoundInv
<1>2. call \in Calls /\ EudCall(call) /\ call.at = "closing" /\ call.srv = listener
  BY <1>1 DEF StopListener, Calls, Steps, ListenerTypes
<1>3. /\ listener' = 0 /\ bound' = {b \in bound : b.id # listener}
      /\ writerClosed' = writerClosed \cup DOMAIN clients
      /\ UNCHANGED <<eudCfg, bindFailed, clientPhase, acceptedBy, linkDown>>
  BY DEF StopListener
<1> HIDE DEF call
<1>4. /\ eudCalls' \in Seq(Calls)
      /\ DOMAIN eudCalls' = DOMAIN eudCalls \cup {n}
      /\ n \in Nat \ {0} /\ n \notin DOMAIN eudCalls
      /\ \A k \in DOMAIN eudCalls : eudCalls'[k] = eudCalls[k]
      /\ eudCalls'[n] = call
      /\ EudPending' = EudPending \cup {n}
      /\ eudOverlaps' = eudOverlaps + (IF EudPending = {} THEN 0 ELSE 1)
      /\ eudOverlaps' \in Nat
  BY <1>1, <1>2, CallBegins
<1> HIDE DEF n
<1>5. DOMAIN eudCalls \subseteq Nat \ {0} /\ EudPending \subseteq DOMAIN eudCalls
  BY <1>1, CallsFacts
<1>6. ListenerTypes'
  <2>1. IsFiniteSet(bound')
    BY <1>1, <1>3, FS_Subset DEF ListenerTypes
  <2>2. QED BY <1>1, <1>3, <1>4, <2>1 DEF ListenerTypes
<1>7. BoundInv'
  BY <1>1, <1>3, <1>4 DEF BoundInv
<1>8. LostInv'
  <2>1. Lost' = Lost /\ Has' = 0 /\ Has = 1
    BY <1>1, <1>3, <1>4, <1>5 DEF Lost, Has, BoundInv
  <2>2. /\ Cardinality(Lost) \in Nat /\ Cardinality(EudPending) \in Nat
        /\ IsFiniteSet(EudPending)
    BY <1>1, CallsFacts
  <2>3. Cardinality(EudPending') = Cardinality(EudPending) + 1
    BY <1>4, <1>5, <2>2, FS_AddElement
  <2>4. eudOverlaps \in Nat /\ eudOverlaps <= eudOverlaps'
    BY <1>1, <1>4 DEF ListenerTypes
  <2>5. QED BY <1>1, <1>4, <2>1, <2>2, <2>3, <2>4 DEF LostInv
<1>9. AloneInv'
  <2> SUFFICES ASSUME eudOverlaps' = 0 PROVE AloneInv'
    BY DEF AloneInv
  <2>1. eudOverlaps = 0 /\ EudPending = {}
    BY <1>1, <1>4 DEF ListenerTypes
  <2>2. bound' = {}
    BY <1>1, <1>3, <2>1 DEF AloneInv
  <2>3. EudPending' = {n}
    BY <1>4, <2>1
  <2>4. QED BY <1>2, <1>3, <1>4, <2>2, <2>3 DEF AloneInv
<1>10. AcceptedInv'
  <2> SUFFICES ASSUME NEW c \in Conns, clientPhase[c] # "none", c \notin writerClosed' \cup linkDown',
                      \A b \in bound' : b.id # acceptedBy[c]
               PROVE  \E k \in DOMAIN eudCalls' :
                        eudCalls'[k].at = "closing" /\ eudCalls'[k].srv = acceptedBy[c]
    BY <1>3 DEF AcceptedInv
  <2>1. CASE acceptedBy[c] = listener
    BY <1>2, <1>4, <2>1
  <2>2. CASE acceptedBy[c] # listener
    <3>1. c \notin writerClosed \cup linkDown /\ \A b \in bound : b.id # acceptedBy[c]
      BY <1>3, <2>2
    <3>2. QED BY <1>1, <1>4, <3>1 DEF AcceptedInv
  <2>3. QED BY <2>1, <2>2
<1>11. QED BY <1>6, <1>7, <1>8, <1>9, <1>10 DEF ListenerInv

LEMMA ReapplyKeeps ==
    ASSUME ListenerInv, NEW cfg \in EudConfigs, Reapply(cfg)
    PROVE  ListenerInv'
<1> DEFINE n == Len(eudCalls) + 1
           call == [cfg |-> cfg, at |-> NextStep(cfg), srv |-> 0]
<1>1. ListenerTypes /\ BoundInv /\ LostInv /\ AloneInv /\ AcceptedInv
  BY DEF ListenerInv
<1>2. /\ call \in Calls /\ EudCall(call) /\ call.cfg = cfg
      /\ call.at = IF cfg.enabled /\ listener = 0 THEN "bind" ELSE "done"
  BY DEF Reapply, Calls, Steps, NextStep
<1>3. /\ eudCfg' = cfg
      /\ listener = 0 \/ (cfg.enabled /\ cfg.port = eudCfg.port)
      /\ UNCHANGED <<listener, bound, bindFailed, clientPhase, acceptedBy, writerClosed, linkDown>>
  <2>1. ~ MustStop(cfg)
    BY DEF Reapply
  <2>2. listener = 0 \/ (cfg.enabled /\ cfg.port = eudCfg.port)
    BY <2>1 DEF MustStop
  <2>3. /\ eudCfg' = cfg
        /\ UNCHANGED <<listener, bound, bindFailed, clientPhase, acceptedBy, writerClosed, linkDown>>
    BY DEF Reapply, clientVars
  <2>4. QED BY <2>2, <2>3
<1> HIDE DEF call
<1>4. /\ eudCalls' \in Seq(Calls)
      /\ DOMAIN eudCalls' = DOMAIN eudCalls \cup {n}
      /\ n \in Nat \ {0} /\ n \notin DOMAIN eudCalls
      /\ \A k \in DOMAIN eudCalls : eudCalls'[k] = eudCalls[k]
      /\ eudCalls'[n] = call
      /\ EudPending' = EudPending \cup (IF call.at = "done" THEN {} ELSE {n})
      /\ eudOverlaps' = eudOverlaps + (IF EudPending = {} THEN 0 ELSE 1)
      /\ eudOverlaps' \in Nat
  BY <1>1, <1>2, CallBegins
<1> HIDE DEF n
<1>5. DOMAIN eudCalls \subseteq Nat \ {0} /\ EudPending \subseteq DOMAIN eudCalls
  BY <1>1, CallsFacts
<1>6. ListenerTypes'
  BY <1>1, <1>3, <1>4 DEF ListenerTypes
<1>7. BoundInv'
  BY <1>1, <1>3, <1>4 DEF BoundInv
<1>8. LostInv'
  <2>1. Lost' = Lost /\ Has' = Has
    BY <1>1, <1>3, <1>4 DEF Lost, Has, BoundInv
  <2>2. /\ Cardinality(Lost) \in Nat /\ Cardinality(EudPending) \in Nat
        /\ IsFiniteSet(EudPending)
    BY <1>1, CallsFacts
  <2>3. eudOverlaps \in Nat /\ eudOverlaps <= eudOverlaps'
    BY <1>1, <1>4 DEF ListenerTypes
  <2>4. CASE call.at = "done"
    BY <1>1, <1>4, <2>1, <2>2, <2>3, <2>4 DEF LostInv, Has
  <2>5. CASE call.at # "done"
    <3>1. listener = 0 /\ Has = 0 /\ EudPending' = EudPending \cup {n}
      BY <1>2, <1>4, <2>5 DEF Has
    <3>2. Cardinality(EudPending') = Cardinality(EudPending) + 1
      BY <1>4, <1>5, <2>2, <3>1, FS_AddElement
    <3>3. CASE EudPending = {}
      <4>1. Cardinality(EudPending) = 0
        BY <3>3, FS_EmptySet
      <4>2. QED BY <1>1, <1>4, <2>1, <2>2, <2>3, <3>1, <3>2, <3>3, <4>1 DEF LostInv
    <3>4. CASE EudPending # {}
      BY <1>1, <1>4, <2>1, <2>2, <2>3, <3>1, <3>2, <3>4 DEF LostInv
    <3>5. QED BY <3>3, <3>4
  <2>6. QED BY <2>4, <2>5
<1>9. AloneInv'
  <2> SUFFICES ASSUME eudOverlaps' = 0 PROVE AloneInv'
    BY DEF AloneInv
  <2>1. eudOverlaps = 0 /\ EudPending = {}
    BY <1>1, <1>4 DEF ListenerTypes
  <2>2. IF listener # 0
        THEN eudCfg.enabled /\ bound = {[id |-> listener, port |-> eudCfg.port]}
        ELSE bound = {}
    BY <1>1, <2>1 DEF AloneInv
  <2>3. CASE cfg.enabled /\ listener = 0
    <3>1. EudPending' = {n} /\ eudCalls'[n].cfg = cfg /\ eudCalls'[n].at = "bind"
      BY <1>2, <1>4, <2>1, <2>3
    <3>2. QED BY <1>3, <2>2, <2>3, <3>1 DEF AloneInv
  <2>4. CASE ~ (cfg.enabled /\ listener = 0)
    <3>1. EudPending' = {}
      BY <1>2, <1>4, <2>1, <2>4
    <3>2. QED BY <1>3, <2>2, <2>4, <3>1 DEF AloneInv
  <2>5. QED BY <2>3, <2>4
<1>10. AcceptedInv'
  BY <1>1, <1>3, <1>4 DEF AcceptedInv
<1>11. QED BY <1>6, <1>7, <1>8, <1>9, <1>10 DEF ListenerInv

LEMMA ListenerClosedKeeps ==
    ASSUME ListenerInv, NEW k \in EudPending, ListenerClosed(k)
    PROVE  ListenerInv'
<1> DEFINE a == NextStep(eudCalls[k].cfg)
<1>1. ListenerTypes /\ BoundInv /\ LostInv /\ AloneInv /\ AcceptedInv
  BY DEF ListenerInv
<1>2. /\ k \in DOMAIN eudCalls /\ eudCalls[k] \in Calls /\ eudCalls[k].cfg \in EudConfigs
      /\ eudCalls[k].at = "closing"
      /\ eudCfg' = eudCalls[k].cfg
      /\ UNCHANGED <<listener, bound, bindFailed, eudOverlaps, clientPhase, acceptedBy,
                     writerClosed, linkDown>>
  BY <1>1, CallsFacts DEF ListenerClosed, clientVars, Calls
<1>3. /\ a \in Steps
      /\ a = IF eudCalls[k].cfg.enabled /\ listener = 0 THEN "bind" ELSE "done"
      /\ eudCalls' = [eudCalls EXCEPT ![k].at = a]
  BY DEF ListenerClosed, NextStep, Steps
<1> HIDE DEF a
<1>4. /\ eudCalls' \in Seq(Calls)
      /\ DOMAIN eudCalls' = DOMAIN eudCalls
      /\ \A j \in DOMAIN eudCalls : j # k => eudCalls'[j] = eudCalls[j]
      /\ eudCalls'[k].at = a /\ eudCalls'[k].cfg = eudCalls[k].cfg
      /\ EudPending' = EudPending \ (IF a = "done" THEN {k} ELSE {})
  BY <1>1, <1>3, CallGoes
<1>5. k # listener /\ \A b \in bound : b.id # k
  <2>1. k # 0
    BY <1>1, <1>2, CallsFacts
  <2>2. QED BY <1>1, <1>2, <2>1 DEF BoundInv
<1>6. ListenerTypes'
  BY <1>1, <1>2, <1>4 DEF ListenerTypes
<1>7. BoundInv'
  BY <1>1, <1>2, <1>4, <1>5 DEF BoundInv
<1>8. LostInv'
  <2>1. Lost' = Lost /\ Has' = Has
    BY <1>1, <1>2, <1>4, <1>5 DEF Lost, Has, BoundInv
  <2>2. Cardinality(Lost) \in Nat /\ Cardinality(EudPending) \in Nat /\ eudOverlaps \in Nat
    BY <1>1, CallsFacts DEF ListenerTypes
  <2>3. Cardinality(EudPending') \in Nat /\ Cardinality(EudPending') <= Cardinality(EudPending)
    <3>1. /\ Cardinality(EudPending \ {k}) = Cardinality(EudPending) - 1
          /\ Cardinality(EudPending) >= 1
      BY <1>1, OneCallLess
    <3>2. EudPending' = EudPending \/ EudPending' = EudPending \ {k}
      BY <1>4
    <3>3. QED BY <2>2, <3>1, <3>2
  <2>4. QED BY <1>1, <1>2, <2>1, <2>2, <2>3 DEF LostInv, Has
<1>9. AloneInv'
  <2> SUFFICES ASSUME eudOverlaps = 0 PROVE AloneInv'
    BY <1>2 DEF AloneInv
  <2>1. EudPending = {k} /\ listener = 0 /\ bound = {}
    BY <1>1, <1>2 DEF AloneInv
  <2>2. CASE a = "bind"
    <3>1. EudPending' = {k} /\ eudCalls[k].cfg.enabled
      BY <1>3, <1>4, <2>1, <2>2
    <3>2. QED BY <1>2, <1>4, <2>1, <2>2, <3>1 DEF AloneInv
  <2>3. CASE a = "done"
    <3>1. EudPending' = {} /\ ~ eudCalls[k].cfg.enabled
      BY <1>3, <1>4, <2>1, <2>3
    <3>2. QED BY <1>2, <2>1, <3>1 DEF AloneInv
  <2>4. QED BY <1>3, <2>2, <2>3
<1>10. AcceptedInv'
  <2> SUFFICES ASSUME NEW c \in Conns, clientPhase[c] # "none", c \notin writerClosed \cup linkDown,
                      \A b \in bound : b.id # acceptedBy[c]
               PROVE  \E j \in DOMAIN eudCalls' :
                        eudCalls'[j].at = "closing" /\ eudCalls'[j].srv = acceptedBy[c]
    BY <1>2 DEF AcceptedInv
  <2>1. PICK j \in DOMAIN eudCalls : eudCalls[j].at = "closing" /\ eudCalls[j].srv = acceptedBy[c]
    BY <1>1 DEF AcceptedInv
  <2>2. j # k
    BY <2>1 DEF ListenerClosed
  <2>3. QED BY <1>4, <2>1, <2>2
<1>11. QED BY <1>6, <1>7, <1>8, <1>9, <1>10 DEF ListenerInv

\* A step at which the listener's socket may be lost: the call k ends, and Lost
\* grows by no more than the socket of the listener.
LEMMA AtMostOneLost ==
    ASSUME ListenerTypes, LostInv, NEW k \in EudPending, NEW x,
           EudPending' = EudPending \ {k},
           eudOverlaps' = eudOverlaps,
           IF listener = 0 THEN Lost' \subseteq Lost ELSE Lost' \subseteq Lost \cup {x}
    PROVE  LostInv'
<1> DEFINE lost == Cardinality(Lost)
           calls == Cardinality(EudPending)
<1>1. /\ IsFiniteSet(Lost) /\ lost \in Nat /\ calls \in Nat /\ eudOverlaps \in Nat
      /\ Cardinality(EudPending') = calls - 1 /\ calls >= 1
  BY CallsFacts, OneCallLess DEF ListenerTypes
<1>2. IsFiniteSet(Lost \cup {x}) /\ Cardinality(Lost \cup {x}) <= lost + 1
      /\ Cardinality(Lost \cup {x}) \in Nat
  BY <1>1, AddAtMostOne
<1>3. lost <= eudOverlaps /\ lost + calls + Has <= eudOverlaps + 1
  BY DEF LostInv
<1>4. Cardinality(Lost') \in Nat
      /\ Cardinality(Lost') <= lost + Has
  <2>1. CASE listener = 0
    <3>1. IsFiniteSet(Lost') /\ Cardinality(Lost') <= Cardinality(Lost)
      BY <1>1, <2>1, FS_Subset
    <3>2. Cardinality(Lost') \in Nat
      BY <3>1, FS_CardinalityType
    <3>3. QED BY <1>1, <2>1, <3>1, <3>2 DEF Has
  <2>2. CASE listener # 0
    <3>1. IsFiniteSet(Lost') /\ Cardinality(Lost') <= Cardinality(Lost \cup {x})
      BY <1>2, <2>2, FS_Subset
    <3>2. Cardinality(Lost') \in Nat
      BY <3>1, FS_CardinalityType
    <3>3. QED BY <1>1, <1>2, <2>2, <3>1, <3>2 DEF Has
  <2>3. QED BY <2>1, <2>2
<1>5. Has \in {0, 1} /\ Has' \in {0, 1}
  BY DEF Has
<1> HIDE DEF lost, calls
<1>6. QED BY <1>1, <1>3, <1>4, <1>5 DEF LostInv

LEMMA BindKeeps ==
    ASSUME ListenerInv, NEW k \in EudPending, Bind(k)
    PROVE  ListenerInv'
<1> DEFINE new == [id |-> k, port |-> eudCalls[k].cfg.port]
<1>1. ListenerTypes /\ BoundInv /\ LostInv /\ AloneInv /\ AcceptedInv
  BY DEF ListenerInv
<1>2. /\ eudCalls[k].at = "bind" /\ bound' = bound \cup {new} /\ new.id = k
      /\ eudCalls' = [eudCalls EXCEPT ![k].at = "assign"]
      /\ UNCHANGED <<eudCfg, listener, bindFailed, eudOverlaps, clientPhase, acceptedBy,
                     writerClosed, linkDown>>
  BY DEF Bind, clientVars
<1>3. /\ eudCalls' \in Seq(Calls)
      /\ DOMAIN eudCalls' = DOMAIN eudCalls
      /\ \A j \in DOMAIN eudCalls : j # k => eudCalls'[j] = eudCalls[j]
      /\ k \in DOMAIN eudCalls /\ k # 0
      /\ eudCalls'[k].at = "assign" /\ eudCalls'[k].cfg = eudCalls[k].cfg
      /\ EudPending' = EudPending
  <2>1. "assign" \in Steps /\ "done" \in Steps
    BY DEF Steps
  <2>2. DOMAIN eudCalls = 1 .. Len(eudCalls) /\ Len(eudCalls) \in Nat
    BY <1>1, CallsFacts
  <2>3. eudCalls' = [eudCalls EXCEPT ![k].at = "assign"]
    BY <1>2
  <2>4. /\ eudCalls' \in Seq(Calls)
        /\ DOMAIN eudCalls' = DOMAIN eudCalls
        /\ \A j \in DOMAIN eudCalls : j # k => eudCalls'[j] = eudCalls[j]
        /\ k \in DOMAIN eudCalls
        /\ eudCalls'[k].at = "assign" /\ eudCalls'[k].cfg = eudCalls[k].cfg
        /\ EudPending' = EudPending \ (IF "assign" = "done" THEN {k} ELSE {})
    BY <1>1, <2>1, <2>3, CallGoes
  <2>5. QED BY <2>2, <2>4
<1>4. k # listener /\ \A b \in bound : b.id # k
  BY <1>1, <1>2, <1>3 DEF BoundInv
<1>5. ListenerTypes'
  <2>1. IsFiniteSet(bound')
    BY <1>1, <1>2, FS_AddElement DEF ListenerTypes
  <2>2. QED BY <1>1, <1>2, <1>3, <2>1 DEF ListenerTypes
<1>6. AloneInv'
  <2> SUFFICES ASSUME eudOverlaps = 0 PROVE AloneInv'
    BY <1>2 DEF AloneInv
  <2>1. /\ EudPending = {k} /\ listener = 0 /\ bound = {}
        /\ eudCfg = eudCalls[k].cfg /\ eudCfg.enabled
    BY <1>1, <1>2 DEF AloneInv
  <2>2. bound' = {[id |-> k, port |-> eudCfg.port]}
    BY <1>2, <2>1
  <2>3. QED BY <1>2, <1>3, <2>1, <2>2 DEF AloneInv
<1> HIDE DEF new
<1>7. BoundInv'
  BY <1>1, <1>2, <1>3, <1>4 DEF BoundInv
<1>8. LostInv'
  <2>1. Lost' = Lost /\ Has' = Has
    BY <1>1, <1>2, <1>3, <1>4 DEF Lost, Has, BoundInv
  <2>2. QED BY <1>1, <1>2, <1>3, <2>1 DEF LostInv
<1>9. AcceptedInv'
  <2> SUFFICES ASSUME NEW c \in Conns, clientPhase[c] # "none", c \notin writerClosed \cup linkDown,
                      \A b \in bound : b.id # acceptedBy[c]
               PROVE  \E j \in DOMAIN eudCalls' :
                        eudCalls'[j].at = "closing" /\ eudCalls'[j].srv = acceptedBy[c]
    BY <1>2 DEF AcceptedInv
  <2>1. PICK j \in DOMAIN eudCalls : eudCalls[j].at = "closing" /\ eudCalls[j].srv = acceptedBy[c]
    BY <1>1 DEF AcceptedInv
  <2>2. QED BY <1>2, <1>3, <2>1
<1>10. QED BY <1>5, <1>6, <1>7, <1>8, <1>9 DEF ListenerInv

\* The bind failed, or the new listener is kept: either may lose one before it.
LEMMA CallEndsKeeps ==
    ASSUME ListenerInv, NEW k \in EudPending, BindFails(k) \/ Assign(k)
    PROVE  ListenerInv'
<1>1. ListenerTypes /\ BoundInv /\ LostInv /\ AloneInv /\ AcceptedInv
  BY DEF ListenerInv
<1>2. /\ \/ eudCalls[k].at = "bind" /\ listener' = 0 /\ bindFailed' = TRUE
         \/ eudCalls[k].at = "assign" /\ listener' = k
      /\ eudCalls' = [eudCalls EXCEPT ![k].at = "done"]
      /\ UNCHANGED <<eudCfg, bound, eudOverlaps, clientPhase, acceptedBy, writerClosed, linkDown>>
  BY DEF BindFails, Assign, clientVars
<1>3. /\ eudCalls' \in Seq(Calls)
      /\ DOMAIN eudCalls' = DOMAIN eudCalls
      /\ \A j \in DOMAIN eudCalls : j # k => eudCalls'[j] = eudCalls[j]
      /\ k \in DOMAIN eudCalls /\ k \in Nat \ {0}
      /\ eudCalls'[k].at = "done"
      /\ EudPending' = EudPending \ {k}
  <2>1. "assign" \in Steps /\ "done" \in Steps
    BY DEF Steps
  <2>2. DOMAIN eudCalls = 1 .. Len(eudCalls) /\ Len(eudCalls) \in Nat
    BY <1>1, CallsFacts
  <2>3. eudCalls' = [eudCalls EXCEPT ![k].at = "done"]
    BY <1>2
  <2>4. /\ eudCalls' \in Seq(Calls)
        /\ DOMAIN eudCalls' = DOMAIN eudCalls
        /\ \A j \in DOMAIN eudCalls : j # k => eudCalls'[j] = eudCalls[j]
        /\ k \in DOMAIN eudCalls
        /\ eudCalls'[k].at = "done" /\ eudCalls'[k].cfg = eudCalls[k].cfg
        /\ EudPending' = EudPending \ (IF "done" = "done" THEN {k} ELSE {})
    BY <1>1, <2>1, <2>3, CallGoes
  <2>5. QED BY <2>2, <2>4
<1>4. /\ k # listener
      /\ \A b \in bound : b.id = k => eudCalls[k].at = "assign"
      /\ \A b \in bound : b.id # 0
  BY <1>1, <1>2, <1>3, CallsFacts DEF BoundInv
<1>5. ListenerTypes'
  BY <1>1, <1>2, <1>3 DEF ListenerTypes
<1>6. BoundInv'
  BY <1>1, <1>2, <1>3 DEF BoundInv
<1>7. LostInv'
  <2>1. \A b \in Lost' : b \in Lost \/ (listener # 0 /\ b \in bound /\ b.id = listener)
    BY <1>1, <1>2, <1>3, <1>4 DEF Lost
  <2>2. CASE listener = 0
    BY <1>1, <1>2, <1>3, <2>1, <2>2, AtMostOneLost
  <2>3. CASE listener # 0
    <3>1. PICK x : \A b \in bound : b.id = listener => b = x
      BY <1>1 DEF BoundInv
    <3>2. Lost' \subseteq Lost \cup {x}
      BY <2>1, <3>1
    <3>3. QED BY <1>1, <1>2, <1>3, <2>3, <3>2, AtMostOneLost
  <2>4. QED BY <2>2, <2>3
<1>8. AloneInv'
  <2> SUFFICES ASSUME eudOverlaps = 0 PROVE AloneInv'
    BY <1>2 DEF AloneInv
  <2>1. /\ EudPending = {k} /\ EudPending' = {}
        /\ eudCfg = eudCalls[k].cfg /\ eudCfg.enabled
        /\ eudCalls[k].at = "bind" => bound = {}
        /\ eudCalls[k].at = "assign" => bound = {[id |-> k, port |-> eudCfg.port]}
    BY <1>1, <1>2, <1>3 DEF AloneInv
  <2>2. QED BY <1>2, <1>3, <2>1 DEF AloneInv
<1>9. AcceptedInv'
  <2> SUFFICES ASSUME NEW c \in Conns, clientPhase[c] # "none", c \notin writerClosed \cup linkDown,
                      \A b \in bound : b.id # acceptedBy[c]
               PROVE  \E j \in DOMAIN eudCalls' :
                        eudCalls'[j].at = "closing" /\ eudCalls'[j].srv = acceptedBy[c]
    BY <1>2 DEF AcceptedInv
  <2>1. PICK j \in DOMAIN eudCalls : eudCalls[j].at = "closing" /\ eudCalls[j].srv = acceptedBy[c]
    BY <1>1 DEF AcceptedInv
  <2>2. QED BY <1>2, <1>3, <2>1
<1>10. QED BY <1>5, <1>6, <1>7, <1>8, <1>9 DEF ListenerInv

LEMMA InitListenerInv == EudInit => ListenerInv
<1> SUFFICES ASSUME EudInit PROVE ListenerInv
  OBVIOUS
<1>1. /\ listener = 0 /\ bound = {} /\ eudOverlaps = 0 /\ eudCalls = <<>>
      /\ eudCfg = [enabled |-> FALSE, port |-> 1]
      /\ clientPhase = [c \in Conns |-> "none"]
      /\ acceptedBy = [c \in Conns |-> 0]
  BY DEF EudInit
<1>2. eudCalls \in Seq(Calls) /\ DOMAIN eudCalls = {} /\ EudPending = {} /\ Lost = {}
  BY <1>1 DEF EudPending, Lost
<1>3. /\ IsFiniteSet(bound) /\ Cardinality(Lost) = 0 /\ Cardinality(EudPending) = 0
  BY <1>1, <1>2, FS_EmptySet
<1>4. ListenerTypes
  BY <1>1, <1>2, <1>3 DEF ListenerTypes, EudConfigs, Ports
<1>5. BoundInv /\ LostInv /\ AcceptedInv
  BY <1>1, <1>2, <1>3 DEF BoundInv, LostInv, Has, AcceptedInv
<1>6. AloneInv
  BY <1>1, <1>2 DEF AloneInv
<1>7. QED BY <1>4, <1>5, <1>6 DEF ListenerInv

LEMMA NextListenerInv == ListenerInv /\ FanOutInv /\ [EudNext]_eudVars => ListenerInv'
<1> SUFFICES ASSUME ListenerInv, FanOutInv, [EudNext]_eudVars PROVE ListenerInv'
  OBVIOUS
<1>0. acceptedBy \in [Conns -> Nat] /\ clientPhase \in [Conns -> Phases]
  BY DEF ListenerInv, ListenerTypes, FanOutInv, FanOutTypes
<1>1. ASSUME UNCHANGED <<listenerVars, acceptedBy>>,
             writerClosed \cup linkDown \subseteq writerClosed' \cup linkDown',
             \A c \in Conns : clientPhase'[c] # "none" => clientPhase[c] # "none"
      PROVE  ListenerInv'
  BY <1>0, <1>1, ConnectionsMoveOn
<1>2. ASSUME NEW c \in Conns, AcceptClient(c) PROVE ListenerInv'
  <2>1. PICK b \in bound : acceptedBy' = [acceptedBy EXCEPT ![c] = b.id]
    BY <1>2 DEF AcceptClient
  <2>2. /\ UNCHANGED listenerVars /\ writerClosed' = writerClosed /\ linkDown' = linkDown
        /\ clientPhase' = [clientPhase EXCEPT ![c] = "accepted"]
    BY <1>2 DEF AcceptClient
  <2>3. b.id \in Nat
    <3>1. b.id \in DOMAIN eudCalls
      BY DEF ListenerInv, BoundInv
    <3>2. QED BY <3>1, CallsFacts DEF ListenerInv
  <2>4. \A d \in Conns : clientPhase'[d] # "none" =>
           \/ clientPhase[d] # "none" /\ acceptedBy'[d] = acceptedBy[d]
           \/ \E e \in bound : e.id = acceptedBy'[d]
    BY <1>0, <2>1, <2>2
  <2>5. acceptedBy' \in [Conns -> Nat]
    BY <1>0, <2>1, <2>3
  <2>6. QED BY <2>2, <2>4, <2>5, ConnectionsMoveOn
<1>3. ASSUME NEW c \in Conns, Register(c) PROVE ListenerInv'
  <2>1. \A d \in Conns : clientPhase'[d] # "none" => clientPhase[d] # "none"
    BY <1>0, <1>3 DEF Register
  <2>2. QED BY <1>1, <1>3, <2>1 DEF Register
<1>4. ASSUME NEW c \in Conns, PeerGone(c) PROVE ListenerInv'
  BY <1>1, <1>4 DEF PeerGone
<1>5. ASSUME NEW c \in Conns, Leave(c) \/ IngestOrphan(c) PROVE ListenerInv'
  <2>1. \A d \in Conns : clientPhase'[d] # "none" => clientPhase[d] # "none"
    BY <1>0, <1>5 DEF Leave, IngestOrphan
  <2>2. QED BY <1>1, <1>5, <2>1 DEF Leave, IngestOrphan
<1>6. ASSUME NEW c \in Conns, NEW self \in BOOLEAN, IngestEvent(c, self) \/ IngestRefused(c, self)
      PROVE  ListenerInv'
  <2>1. \A d \in Conns : clientPhase'[d] # "none" => clientPhase[d] # "none"
    BY <1>0, <1>6 DEF IngestEvent, IngestRefused
  <2>2. QED BY <1>1, <1>6, <2>1 DEF IngestEvent, IngestRefused
<1>7. CASE FromNetwork
  BY <1>1, <1>7 DEF FromNetwork, clientVars
<1>8. ASSUME NEW m \in DOMAIN fanOuts, NEW c \in fanOuts[m],
             Skip(m, c) \/ SendFrame(m, c) \/ SendFrameFails(m, c)
      PROVE  ListenerInv'
  BY <1>1, <1>8 DEF Skip, SendFrame, SendFrameFails, clientVars
<1>9. ASSUME NEW m \in DOMAIN fanOuts, FanOutEnds(m) PROVE ListenerInv'
  <2>1. \A c \in Conns : clientPhase'[c] # "none" => clientPhase[c] # "none"
    <3>1. AuthorInv(m)
      BY DEF FanOutInv
    <3>2. QED BY <1>9, <3>1 DEF FanOutEnds, AuthorInv
  <2>2. QED BY <1>1, <1>9, <2>1 DEF FanOutEnds
<1>10. CASE UNCHANGED eudVars
  BY <1>1, <1>10 DEF eudVars, clientVars
<1>11. QED
  BY <1>2, <1>3, <1>4, <1>5, <1>6, <1>7, <1>8, <1>9, <1>10, StopListenerKeeps, ReapplyKeeps,
     ListenerClosedKeeps, BindKeeps, CallEndsKeeps
  DEF EudNext

\* However reconfigurations, connections and failures interleave, what GET
\* /api/eud reports of the listener and its devices is so, and the sockets left
\* listening are no more than the calls that began during another.
THEOREM ListenerIsTrue == EudSpec => []ListenerTruth
<1>1. ListenerInv /\ FanOutInv => ListenerTruth
  <2> SUFFICES ASSUME ListenerInv, FanOutInv PROVE TheListener /\ TheClients
    BY DEF ListenerTruth
  <2>1. TheListener
    <3> SUFFICES ASSUME EudPending = {} PROVE TheListener
      BY DEF TheListener
    <3>1. Lost = {b \in bound : b.id # listener}
      BY DEF ListenerInv, BoundInv, Lost, EudPending
    <3>2. QED BY <3>1 DEF TheListener, ListenerInv, LostInv, AloneInv
  <2>2. TheClients
    <3>1. \A c \in DOMAIN clients : clientPhase[c] \in {"reading", "ingesting"} /\ c \in Conns
      BY DEF FanOutInv, FanOutTypes, TableInv
    <3>2. EudPending = {} /\ bound = {} => DOMAIN clients \subseteq writerClosed \cup linkDown
      BY <3>1 DEF ListenerInv, AcceptedInv, EudPending
    <3>3. QED BY <3>1, <3>2 DEF TheClients
  <2>3. QED BY <2>1, <2>2
<1>2. EudSpec => []ListenerInv
  BY InitListenerInv, NextListenerInv, FanOutInvariant, PTL DEF EudSpec
<1>3. QED BY <1>1, <1>2, FanOutInvariant, PTL

-----------------------------------------------------------------------------
(* Hot reconfiguration.  Every PUT stops the node that served when it      *)
(* began and starts one of its own, so each node running is the one that   *)
(* serves or one that a PUT is about to stop; what exceeds that is owed to *)
(* an overlap or a failure.                                                *)

At(where) == {r \in DOMAIN requests : requests[r].kind = "put" /\ requests[r].at = where}
InRestart == {"stop", "start", "identify"}
Up == {g \in DOMAIN gateways : gateways[g].up}
Doomed == {g \in Up : \E r \in At("stop") : requests[r].gw = g}
Replaced == At("stop") \cup At("start") \cup At("identify")
ServingUp == serving # 0 /\ gateways[serving].up
Served == IF ServingUp \/ Replaced # {} THEN 1 ELSE 0

NodeTypes ==
    /\ gateways \in Seq(Range(gateways)) /\ requests \in Seq(Range(requests))
    /\ \A g \in DOMAIN gateways : "up" \in DOMAIN gateways[g] /\ gateways[g].up \in BOOLEAN
    /\ \A r \in DOMAIN requests :
         {"kind", "at", "gw"} \subseteq DOMAIN requests[r] /\ requests[r].gw \in DOMAIN gateways
    /\ serving \in 0 .. Len(gateways)
    /\ overlaps \in Nat /\ failures \in Nat

\* A node that waits to be identified runs, and only its own PUT knows it.
NewNodeInv ==
    /\ \A r \in DOMAIN requests : requests[r].at \in InRestart => requests[r].kind = "put"
    /\ \A r \in At("identify") :
         /\ requests[r].gw # serving
         /\ gateways[requests[r].gw].up
         /\ \A q \in DOMAIN requests \ {r} : requests[q].gw # requests[r].gw

ServingInv ==
    failures = 0 /\ serving # 0 => ServingUp \/ At("start") \cup At("identify") # {}

RunningInv ==
    Cardinality(Up) + Cardinality(At("start")) + Cardinality(At("stop"))
        <= Cardinality(Doomed) + Served + overlaps + failures

ReconfigureInv == NodeTypes /\ NewNodeInv /\ ServingInv /\ RunningInv
LEMMA NodeFacts ==
    ASSUME NodeTypes
    PROVE  /\ Len(gateways) \in Nat /\ DOMAIN gateways = 1 .. Len(gateways)
           /\ Len(requests) \in Nat /\ DOMAIN requests = 1 .. Len(requests)
           /\ IsFiniteSet(Up) /\ Cardinality(Up) \in Nat
           /\ IsFiniteSet(Doomed) /\ Cardinality(Doomed) \in Nat
           /\ \A where : IsFiniteSet(At(where)) /\ Cardinality(At(where)) \in Nat
           /\ Served \in {0, 1}
<1>1. /\ Len(gateways) \in Nat /\ DOMAIN gateways = 1 .. Len(gateways)
      /\ Len(requests) \in Nat /\ DOMAIN requests = 1 .. Len(requests)
  BY LenProperties DEF NodeTypes
<1>2. IsFiniteSet(DOMAIN gateways) /\ IsFiniteSet(DOMAIN requests)
  BY <1>1, FS_Interval
<1>3. Up \subseteq DOMAIN gateways /\ Doomed \subseteq DOMAIN gateways
  BY DEF Up, Doomed
<1>4. IsFiniteSet(Up) /\ IsFiniteSet(Doomed)
  BY <1>2, <1>3, FS_Subset
<1>5. ASSUME NEW where PROVE IsFiniteSet(At(where)) /\ Cardinality(At(where)) \in Nat
  <2>1. At(where) \subseteq DOMAIN requests
    BY DEF At
  <2>2. IsFiniteSet(At(where))
    BY <1>2, <2>1, FS_Subset
  <2>3. QED BY <2>2, FS_CardinalityType
<1>6. Served \in {0, 1}
  BY DEF Served
<1>7. QED BY <1>1, <1>4, <1>5, <1>6, FS_CardinalityType

\* A step that leaves what runs and the PUTs up to their identification alone;
\* a request may be added to the others.
Quiet ==
    /\ requests' \in Seq(Range(requests')) /\ gateways' \in Seq(Range(gateways'))
    /\ DOMAIN requests \subseteq DOMAIN requests'
    /\ \A r \in DOMAIN requests' :
         /\ {"kind", "at", "gw"} \subseteq DOMAIN requests'[r]
         /\ IF r \in DOMAIN requests
            THEN /\ requests'[r].kind = requests[r].kind /\ requests'[r].gw = requests[r].gw
                 /\ requests'[r].at = requests[r].at
                      \/ (requests'[r].at \notin InRestart /\ requests[r].at \notin InRestart)
            ELSE requests'[r].at \notin InRestart /\ requests'[r].gw = serving /\ serving # 0
    /\ DOMAIN gateways' = DOMAIN gateways
    /\ \A g \in DOMAIN gateways : "up" \in DOMAIN gateways'[g] /\ gateways'[g].up = gateways[g].up
    /\ serving' = serving /\ failures' = failures
    /\ overlaps' \in Nat /\ overlaps <= overlaps'

LEMMA QuietKeeps ==
    ASSUME ReconfigureInv, Quiet
    PROVE  ReconfigureInv'
<1>1. NodeTypes /\ NewNodeInv /\ ServingInv /\ RunningInv
  BY DEF ReconfigureInv
<1>2. /\ DOMAIN gateways = 1 .. Len(gateways) /\ Len(gateways) \in Nat
      /\ \A g \in DOMAIN gateways : gateways'[g].up = gateways[g].up
      /\ serving # 0 => serving \in DOMAIN gateways
  BY <1>1, NodeFacts DEF Quiet, NodeTypes
<1>3. NodeTypes'
  <2>1. DOMAIN gateways' = 1 .. Len(gateways') /\ Len(gateways') \in Nat
    BY LenProperties DEF Quiet
  <2>2. Len(gateways') = Len(gateways)
    BY <1>2, <2>1 DEF Quiet
  <2>3. \A r \in DOMAIN requests' :
           {"kind", "at", "gw"} \subseteq DOMAIN requests'[r] /\ requests'[r].gw \in DOMAIN gateways'
    BY <1>1, <1>2 DEF Quiet, NodeTypes
  <2>4. QED BY <1>1, <1>2, <2>2, <2>3 DEF Quiet, NodeTypes
<1>4. ASSUME NEW where \in InRestart PROVE At(where)' = At(where)
  BY <1>4 DEF At, Quiet
<1>5. At("stop")' = At("stop") /\ At("start")' = At("start") /\ At("identify")' = At("identify")
  BY <1>4 DEF InRestart
<1>6. Up' = Up /\ ServingUp' = ServingUp
  BY <1>2 DEF Up, ServingUp, Quiet
<1>7. Doomed' = Doomed
  <2>1. \A r \in At("stop") : requests'[r].gw = requests[r].gw
    BY DEF At, Quiet
  <2>2. QED BY <1>5, <1>6, <2>1 DEF Doomed
<1>8. Served' = Served
  BY <1>5, <1>6 DEF Served, Replaced
<1>9. NewNodeInv'
  <2>1. \A r \in DOMAIN requests' : requests'[r].at \in InRestart => requests'[r].kind = "put"
    BY <1>1 DEF Quiet, NewNodeInv
  <2>2. ASSUME NEW r \in At("identify")
        PROVE  /\ requests'[r].gw # serving'
               /\ gateways'[requests'[r].gw].up
               /\ \A q \in DOMAIN requests' \ {r} : requests'[q].gw # requests'[r].gw
    <3>1. /\ r \in DOMAIN requests /\ requests'[r].gw = requests[r].gw
          /\ requests[r].gw # serving /\ requests[r].gw \in DOMAIN gateways
          /\ gateways[requests[r].gw].up
          /\ \A q \in DOMAIN requests \ {r} : requests[q].gw # requests[r].gw
      BY <1>1 DEF At, Quiet, NewNodeInv, NodeTypes
    <3>2. QED BY <1>2, <3>1 DEF Quiet
  <2>3. QED BY <1>5, <2>1, <2>2 DEF NewNodeInv
<1>10. ServingInv'
  BY <1>1, <1>5, <1>6 DEF ServingInv, Quiet
<1>11. RunningInv'
  <2>1. PICK more : /\ overlaps' = more /\ more \in Nat /\ overlaps \in Nat /\ overlaps <= more
                    /\ failures' = failures /\ failures \in Nat
    BY <1>1 DEF Quiet, NodeTypes
  <2> DEFINE up == Cardinality(Up)
             doomed == Cardinality(Doomed)
             start == Cardinality(At("start"))
             stop == Cardinality(At("stop"))
  <2>2. /\ up \in Nat /\ doomed \in Nat /\ start \in Nat /\ stop \in Nat /\ Served \in {0, 1}
        /\ up + start + stop <= doomed + Served + overlaps + failures
    BY <1>1, NodeFacts DEF RunningInv
  <2>3. /\ Cardinality(Up') = up /\ Cardinality(Doomed') = doomed /\ Served' = Served
        /\ Cardinality(At("start")') = start /\ Cardinality(At("stop")') = stop
    BY <1>5, <1>6, <1>7, <1>8
  <2> HIDE DEF up, doomed, start, stop
  <2>4. up + start + stop <= doomed + Served + more + failures
    BY <2>1, <2>2
  <2>5. /\ Cardinality(Up') + Cardinality(At("start")') + Cardinality(At("stop")') = up + start + stop
        /\ Cardinality(Doomed') + Served' + overlaps' + failures' = doomed + Served + more + failures
    BY <2>1, <2>3
  <2>6. QED BY <2>4, <2>5 DEF RunningInv
<1>12. QED BY <1>3, <1>9, <1>10, <1>11 DEF ReconfigureInv
-----------------------------------------------------------------------------
\* A request comes to its next step.
LEMMA RequestMoves ==
    ASSUME NodeTypes, NEW r \in DOMAIN requests, NEW where,
           requests' = [requests EXCEPT ![r].at = where]
    PROVE  /\ requests' \in Seq(Range(requests')) /\ DOMAIN requests' = DOMAIN requests
           /\ {"kind", "at", "gw"} \subseteq DOMAIN requests'[r]
           /\ requests'[r].at = where /\ requests'[r].kind = requests[r].kind
           /\ requests'[r].gw = requests[r].gw
           /\ \A q \in DOMAIN requests : q # r => requests'[q] = requests[q]
<1> DEFINE x == [requests[r] EXCEPT !.at = where]
<1>1. {"kind", "at", "gw"} \subseteq DOMAIN requests[r] /\ requests \in Seq(Range(requests))
  BY DEF NodeTypes
<1>2. /\ {"kind", "at", "gw"} \subseteq DOMAIN x
      /\ x.at = where /\ x.kind = requests[r].kind /\ x.gw = requests[r].gw
  BY <1>1
<1> DEFINE p == [requests EXCEPT ![r] = x]
<1>3. requests' = p
  OBVIOUS
<1> HIDE DEF x
<1>4. /\ p \in Seq(Range(p)) /\ DOMAIN p = DOMAIN requests /\ p[r] = x
      /\ \A q \in DOMAIN requests : q # r => p[q] = requests[q]
  BY <1>1, OneChanged
<1> HIDE DEF p
<1>5. QED BY <1>2, <1>3, <1>4

\* A request of its own number is made of the node that serves.
LEMMA RequestMade ==
    ASSUME NodeTypes, NEW kind, NEW where, NEW config, Request(kind, where, config)
    PROVE  LET n == Len(requests) + 1
           IN  /\ requests' \in Seq(Range(requests')) /\ DOMAIN requests' = DOMAIN requests \cup {n}
               /\ n \notin DOMAIN requests
               /\ {"kind", "at", "gw"} \subseteq DOMAIN requests'[n]
               /\ requests'[n].kind = kind /\ requests'[n].at = where /\ requests'[n].gw = serving
               /\ \A q \in DOMAIN requests : requests'[q] = requests[q]
               /\ serving # 0 /\ serving \in DOMAIN gateways
               /\ failures' = failures /\ overlaps' \in Nat /\ overlaps <= overlaps'
               /\ kind = "put" /\ (\E r \in UnderWay : requests[r].kind = "put") =>
                    overlaps' = overlaps + 1
<1> DEFINE n == Len(requests) + 1
           x == [kind |-> kind, at |-> where, gw |-> serving, config |-> config]
<1>1. /\ requests' = Append(requests, x) /\ serving # 0 /\ failures' = failures
      /\ overlaps' = IF kind = "put" /\ \E r \in UnderWay : requests[r].kind = "put"
                     THEN overlaps + 1 ELSE overlaps
  BY DEF Request
<1>2. /\ {"kind", "at", "gw"} \subseteq DOMAIN x
      /\ x.kind = kind /\ x.at = where /\ x.gw = serving
  OBVIOUS
<1> HIDE DEF x
<1>3. /\ requests' \in Seq(Range(requests')) /\ DOMAIN requests' = DOMAIN requests \cup {n}
      /\ n \notin DOMAIN requests /\ requests'[n] = x
      /\ \A q \in DOMAIN requests : requests'[q] = requests[q]
  BY <1>1, AppendAny DEF NodeTypes
<1>4. serving \in DOMAIN gateways /\ overlaps \in Nat
  BY <1>1, NodeFacts DEF NodeTypes
<1>5. overlaps' \in Nat /\ overlaps <= overlaps'
  BY <1>1, <1>4
<1>6. QED BY <1>1, <1>2, <1>3, <1>4, <1>5

\* A gateway changes, but not whether it is up.
LEMMA GatewayChanges ==
    ASSUME NodeTypes, NEW g \in DOMAIN gateways, NEW x, gateways' = [gateways EXCEPT ![g] = x],
           "up" \in DOMAIN x, x.up = gateways[g].up
    PROVE  /\ gateways' \in Seq(Range(gateways')) /\ DOMAIN gateways' = DOMAIN gateways
           /\ \A h \in DOMAIN gateways :
                "up" \in DOMAIN gateways'[h] /\ gateways'[h].up = gateways[h].up
  BY OneChanged DEF NodeTypes

LEMMA AttachChanges ==
    ASSUME NodeTypes, NEW g \in DOMAIN gateways, NEW ms, Attach(g, ms, gateways)
    PROVE  /\ gateways' \in Seq(Range(gateways')) /\ DOMAIN gateways' = DOMAIN gateways
           /\ \A h \in DOMAIN gateways :
                "up" \in DOMAIN gateways'[h] /\ gateways'[h].up = gateways[h].up
<1> DEFINE x == [gateways[g] EXCEPT !.relays =
                   @ \cup {m \in ms : gateways[g].addr \notin relayIds[m]}]
<1>1. gateways' = [gateways EXCEPT ![g] = x]
  BY DEF Attach
<1>2. "up" \in DOMAIN x /\ x.up = gateways[g].up
  BY DEF NodeTypes
<1> HIDE DEF x
<1>3. QED BY <1>1, <1>2, GatewayChanges

LEMMA QuietRequest ==
    ASSUME NodeTypes, NEW kind, NEW where, where \notin InRestart, NEW config,
           Request(kind, where, config),
           gateways' \in Seq(Range(gateways')), DOMAIN gateways' = DOMAIN gateways,
           \A h \in DOMAIN gateways :
                "up" \in DOMAIN gateways'[h] /\ gateways'[h].up = gateways[h].up,
           serving' = serving
    PROVE  Quiet
<1> DEFINE n == Len(requests) + 1
<1>1. /\ requests' \in Seq(Range(requests')) /\ DOMAIN requests' = DOMAIN requests \cup {n}
      /\ n \notin DOMAIN requests
      /\ {"kind", "at", "gw"} \subseteq DOMAIN requests'[n]
      /\ requests'[n].at = where /\ requests'[n].gw = serving
      /\ \A q \in DOMAIN requests : requests'[q] = requests[q]
      /\ serving # 0
      /\ failures' = failures /\ overlaps' \in Nat /\ overlaps <= overlaps'
  BY RequestMade
<1> HIDE DEF n
<1>2. QED BY <1>1 DEF Quiet, NodeTypes

LEMMA QuietMove ==
    ASSUME NodeTypes, NEW r \in DOMAIN requests, requests[r].at \notin InRestart,
           requests' \in Seq(Range(requests')), DOMAIN requests' = DOMAIN requests,
           {"kind", "at", "gw"} \subseteq DOMAIN requests'[r],
           requests'[r].at \notin InRestart, requests'[r].kind = requests[r].kind,
           requests'[r].gw = requests[r].gw,
           \A q \in DOMAIN requests : q # r => requests'[q] = requests[q],
           gateways' \in Seq(Range(gateways')), DOMAIN gateways' = DOMAIN gateways,
           \A h \in DOMAIN gateways :
                "up" \in DOMAIN gateways'[h] /\ gateways'[h].up = gateways[h].up,
           UNCHANGED <<serving, failures, overlaps>>
    PROVE  Quiet
<1>1. ASSUME NEW q \in DOMAIN requests'
      PROVE  /\ {"kind", "at", "gw"} \subseteq DOMAIN requests'[q]
             /\ requests'[q].kind = requests[q].kind /\ requests'[q].gw = requests[q].gw
             /\ \/ requests'[q].at = requests[q].at
                \/ requests'[q].at \notin InRestart /\ requests[q].at \notin InRestart
  <2>1. CASE q = r
    BY <2>1
  <2>2. CASE q # r
    BY <2>2 DEF NodeTypes
  <2>3. QED BY <2>1, <2>2
<1>2. overlaps' \in Nat /\ overlaps <= overlaps'
  BY DEF NodeTypes
<1>3. QED BY <1>1, <1>2 DEF Quiet

LEMMA QuietSteps ==
    ASSUME NodeTypes, NEW r \in UnderWay,
           \/ ServersReconciled(r) \/ EudReconfigured(r) \/ SetMatrix(r)
           \/ Load(r) \/ Truncate(r) \/ Write(r)
    PROVE  Quiet
<1> DEFINE SameUp == /\ gateways' \in Seq(Range(gateways')) /\ DOMAIN gateways' = DOMAIN gateways
                     /\ \A h \in DOMAIN gateways :
                          "up" \in DOMAIN gateways'[h] /\ gateways'[h].up = gateways[h].up
<1>1. r \in DOMAIN requests /\ requests[r].gw \in DOMAIN gateways
  BY DEF UnderWay, NodeTypes
<1>2. ASSUME gateways' = gateways PROVE SameUp
  BY <1>2 DEF NodeTypes
<1>3. requests[r].at \notin InRestart /\ UNCHANGED <<serving, failures, overlaps>>
  BY DEF RequestAt, InRestart, ServersReconciled, EudReconfigured, SetMatrix, Load, Truncate, Write,
         nodeVars
<1>4. SameUp
  <2>1. CASE ServersReconciled(r)
    BY <1>1, <1>2, <2>1, AttachChanges DEF ServersReconciled
  <2>2. CASE SetMatrix(r)
    <3> DEFINE g == requests[r].gw
               x == [gateways[g] EXCEPT !.emit = requests[r].config["identification"]]
    <3>1. gateways' = [gateways EXCEPT ![g] = x]
      BY <2>2 DEF SetMatrix
    <3>2. "up" \in DOMAIN x /\ x.up = gateways[g].up
      BY <1>1 DEF NodeTypes
    <3> HIDE DEF x, g
    <3>3. g \in DOMAIN gateways
      BY <1>1 DEF g
    <3>4. QED BY <3>1, <3>2, <3>3, GatewayChanges
  <2>3. CASE EudReconfigured(r) \/ Load(r) \/ Truncate(r) \/ Write(r)
    BY <1>2, <2>3 DEF EudReconfigured, Load, Truncate, Write, nodeVars
  <2>4. QED BY <2>1, <2>2, <2>3
<1>5. CASE ~ Load(r)
  <2>1. PICK where \in {"eud", "load", "stored", "write", "done"} :
          requests' = [requests EXCEPT ![r].at = where]
    BY <1>5 DEF ServersReconciled, EudReconfigured, SetMatrix, Truncate, Write, RequestGoes
  <2>2. where \notin InRestart
    BY DEF InRestart
  <2>3. /\ requests' \in Seq(Range(requests')) /\ DOMAIN requests' = DOMAIN requests
        /\ {"kind", "at", "gw"} \subseteq DOMAIN requests'[r]
        /\ requests'[r].at = where /\ requests'[r].kind = requests[r].kind
        /\ requests'[r].gw = requests[r].gw
        /\ \A q \in DOMAIN requests : q # r => requests'[q] = requests[q]
    BY <1>1, <2>1, RequestMoves, Zenon
  <2>4. QED BY <1>1, <1>3, <1>4, <2>2, <2>3, QuietMove
<1>6. CASE Load(r)
  <2> DEFINE x == [requests[r] EXCEPT
                     !.config = [s \in DOMAIN cfgFile \cup DOMAIN @ |->
                                   IF s \in DOMAIN @ THEN @[s] ELSE cfgFile[s]],
                     !.at = "stored"]
  <2>1. requests' = [requests EXCEPT ![r] = x]
    BY <1>1, <1>6, Zenon DEF Load
  <2>2. /\ {"kind", "at", "gw"} \subseteq DOMAIN x
        /\ x.kind = requests[r].kind /\ x.gw = requests[r].gw /\ x.at = "stored"
    BY <1>1 DEF NodeTypes
  <2> HIDE DEF x
  <2>3. /\ requests' \in Seq(Range(requests')) /\ DOMAIN requests' = DOMAIN requests
        /\ requests'[r] = x
        /\ \A q \in DOMAIN requests : q # r => requests'[q] = requests[q]
    BY <1>1, <2>1, OneChanged DEF NodeTypes
  <2>4. "stored" \notin InRestart
    BY DEF InRestart
  <2>5. /\ {"kind", "at", "gw"} \subseteq DOMAIN requests'[r]
        /\ requests'[r].at \notin InRestart
        /\ requests'[r].kind = requests[r].kind /\ requests'[r].gw = requests[r].gw
    BY <2>2, <2>3, <2>4
  <2>6. QED BY <1>1, <1>3, <1>4, <2>3, <2>5, QuietMove, Zenon
<1>7. QED BY <1>5, <1>6
-----------------------------------------------------------------------------
\* A PUT leaves a step of its restart.
LEMMA OnePutLess ==
    ASSUME NodeTypes, NEW where, NEW r \in At(where)
    PROVE  Cardinality(At(where) \ {r}) = Cardinality(At(where)) - 1
<1> DEFINE all == At(where)
<1>1. IsFiniteSet(all)
  BY NodeFacts
<1> HIDE DEF all
<1>2. r \in all
  BY DEF all
<1>3. Cardinality(all \ {r}) = Cardinality(all) - 1
  BY <1>1, <1>2, FS_RemoveElement
<1>4. QED BY <1>3 DEF all

LEMMA PutKeeps ==
    ASSUME ReconfigureInv, NEW patch, Put(patch)
    PROVE  ReconfigureInv'
<1> DEFINE n == Len(requests) + 1
<1>1. NodeTypes /\ NewNodeInv /\ ServingInv /\ RunningInv
  BY DEF ReconfigureInv
<1>2. /\ requests' \in Seq(Range(requests')) /\ DOMAIN requests' = DOMAIN requests \cup {n}
      /\ n \notin DOMAIN requests
      /\ {"kind", "at", "gw"} \subseteq DOMAIN requests'[n]
      /\ requests'[n].kind = "put" /\ requests'[n].at = "stop" /\ requests'[n].gw = serving
      /\ \A q \in DOMAIN requests : requests'[q] = requests[q]
      /\ serving # 0 /\ serving \in DOMAIN gateways
      /\ failures' = failures /\ overlaps' \in Nat /\ overlaps <= overlaps'
      /\ (\E r \in UnderWay : requests[r].kind = "put") => overlaps' = overlaps + 1
  BY <1>1, RequestMade DEF Put
<1>3. UNCHANGED <<gateways, serving>>
  BY DEF Put, nodeVars
<1> HIDE DEF n
<1>4. NodeTypes'
  BY <1>1, <1>2, <1>3 DEF NodeTypes
<1>5. /\ At("stop")' = At("stop") \cup {n} /\ n \notin At("stop")
      /\ At("start")' = At("start") /\ At("identify")' = At("identify")
      /\ Up' = Up /\ ServingUp' = ServingUp
      /\ Served' = 1
  BY <1>2, <1>3 DEF At, Up, ServingUp, Served, Replaced
<1>6. NewNodeInv'
  <2>1. \A r \in DOMAIN requests' : requests'[r].at \in InRestart => requests'[r].kind = "put"
    BY <1>1, <1>2 DEF NewNodeInv
  <2>2. ASSUME NEW r \in At("identify")
        PROVE  /\ requests'[r].gw # serving'
               /\ gateways'[requests'[r].gw].up
               /\ \A q \in DOMAIN requests' \ {r} : requests'[q].gw # requests'[r].gw
    BY <1>1, <1>2, <1>3 DEF NewNodeInv, At
  <2>3. QED BY <1>5, <2>1, <2>2 DEF NewNodeInv
<1>7. ServingInv'
  BY <1>1, <1>2, <1>3, <1>5 DEF ServingInv
<1>8. RunningInv'
  <2> DEFINE up == Cardinality(Up)
             doomed == Cardinality(Doomed)
             start == Cardinality(At("start"))
             stop == Cardinality(At("stop"))
  <2>1. /\ up \in Nat /\ doomed \in Nat /\ start \in Nat /\ stop \in Nat
        /\ overlaps \in Nat /\ failures \in Nat /\ Served \in {0, 1}
        /\ up + start + stop <= doomed + Served + overlaps + failures
    BY <1>1, NodeFacts DEF NodeTypes, RunningInv
  <2>2. Cardinality(At("stop")') = stop + 1
    BY <1>1, <1>5, NodeFacts, FS_AddElement
  <2>3. Doomed' = Doomed \cup (IF ServingUp THEN {serving} ELSE {})
    <3>1. \A q \in At("stop") : requests'[q].gw = requests[q].gw
      BY <1>2 DEF At
    <3>2. ServingUp <=> serving \in Up
      BY <1>2 DEF ServingUp, Up
    <3>3. QED BY <1>2, <1>5, <3>1, <3>2 DEF Doomed
  <2>4. /\ IsFiniteSet(Doomed) /\ IsFiniteSet(Doomed') /\ Cardinality(Doomed') \in Nat
        /\ Doomed \subseteq Doomed'
    <3>1. IsFiniteSet(Doomed)
      BY <1>1, NodeFacts
    <3>2. IsFiniteSet(Doomed \cup {serving})
      BY <3>1, FS_AddElement
    <3>3. Doomed' = Doomed \/ Doomed' = Doomed \cup {serving}
      BY <2>3
    <3>4. IsFiniteSet(Doomed')
      BY <3>1, <3>2, <3>3
    <3>5. QED BY <2>3, <3>1, <3>4, FS_CardinalityType
  <2>5. doomed <= Cardinality(Doomed')
    BY <2>4, FS_Subset
  <2>6. CASE \E r \in UnderWay : requests[r].kind = "put"
    <3>1. overlaps' = overlaps + 1
      BY <1>2, <2>6
    <3>2. /\ Cardinality(Up') = up /\ Cardinality(At("start")') = start
          /\ Cardinality(At("stop")') = stop + 1 /\ Served' = 1 /\ failures' = failures
      BY <1>2, <1>5, <2>2
    <3> HIDE DEF up, doomed, start, stop
    <3>3. up + start + (stop + 1) <= doomed + 1 + (overlaps + 1) + failures
      BY <2>1
    <3>4. PICK more : more = Cardinality(Doomed') /\ more \in Nat /\ doomed <= more
      BY <2>4, <2>5
    <3>5. up + start + (stop + 1) <= more + 1 + (overlaps + 1) + failures
      BY <2>1, <3>3, <3>4
    <3>6. QED BY <3>1, <3>2, <3>4, <3>5 DEF RunningInv
  <2>7. CASE ~ \E r \in UnderWay : requests[r].kind = "put"
    <3>1. At("stop") = {} /\ At("start") = {} /\ At("identify") = {} /\ Doomed = {}
      BY <2>7 DEF At, UnderWay, Ended, Doomed
    <3>2. stop = 0 /\ start = 0 /\ doomed = 0
      BY <3>1, FS_EmptySet
    <3>3. Served = IF ServingUp THEN 1 ELSE 0
      BY <3>1 DEF Served, Replaced
    <3>4. Cardinality(Doomed') = Served
      <4>1. CASE ServingUp
        <5>1. Doomed' = {serving} /\ Served = 1
          BY <2>3, <3>1, <3>3, <4>1
        <5>2. QED BY <5>1, FS_Singleton
      <4>2. CASE ~ ServingUp
        <5>1. Doomed' = {} /\ Served = 0
          BY <2>3, <3>1, <3>3, <4>2
        <5>2. QED BY <5>1, FS_EmptySet
      <4>3. QED BY <4>1, <4>2
    <3>5. Cardinality(At("start")') = start /\ Cardinality(Up') = up
      BY <1>5
    <3> HIDE DEF up, doomed, start, stop
    <3>6. QED BY <1>2, <1>5, <2>1, <2>2, <3>2, <3>4, <3>5 DEF RunningInv
  <2>8. QED BY <2>6, <2>7
<1>9. QED BY <1>4, <1>6, <1>7, <1>8 DEF ReconfigureInv

LEMMA StopOldKeeps ==
    ASSUME ReconfigureInv, NEW r \in DOMAIN requests, StopOld(r)
    PROVE  ReconfigureInv'
<1> DEFINE g == requests[r].gw
           x == [gateways[g] EXCEPT !.up = FALSE]
<1>1. NodeTypes /\ NewNodeInv /\ ServingInv /\ RunningInv
  BY DEF ReconfigureInv
<1>2. /\ requests' \in Seq(Range(requests')) /\ DOMAIN requests' = DOMAIN requests
      /\ {"kind", "at", "gw"} \subseteq DOMAIN requests'[r]
      /\ requests'[r].at = "start" /\ requests'[r].kind = requests[r].kind
      /\ requests'[r].gw = requests[r].gw
      /\ \A q \in DOMAIN requests : q # r => requests'[q] = requests[q]
  BY <1>1, RequestMoves DEF StopOld, RequestGoes
<1>3. /\ requests[r].at = "stop" /\ gateways' = [gateways EXCEPT ![g] = x]
      /\ g \in DOMAIN gateways /\ "up" \in DOMAIN x /\ x.up = FALSE
      /\ UNCHANGED <<serving, overlaps, failures>>
  BY <1>1 DEF StopOld, RequestAt, NodeTypes
<1>4. \A q \in DOMAIN requests : requests'[q].gw = requests[q].gw
  BY <1>2
<1> HIDE DEF x, g
<1>5. /\ gateways' \in Seq(Range(gateways')) /\ DOMAIN gateways' = DOMAIN gateways
      /\ gateways'[g] = x
      /\ \A h \in DOMAIN gateways : h # g => gateways'[h] = gateways[h]
  BY <1>1, <1>3, OneChanged DEF NodeTypes
<1>6. NodeTypes'
  <2>1. Len(gateways') = Len(gateways)
    BY <1>5, LenProperties, NodeFacts, <1>1
  <2>2. \A h \in DOMAIN gateways' : "up" \in DOMAIN gateways'[h] /\ gateways'[h].up \in BOOLEAN
    BY <1>1, <1>3, <1>5 DEF NodeTypes
  <2>3. \A q \in DOMAIN requests' :
          {"kind", "at", "gw"} \subseteq DOMAIN requests'[q] /\ requests'[q].gw \in DOMAIN gateways'
    BY <1>1, <1>2, <1>4, <1>5 DEF NodeTypes
  <2>4. QED BY <1>1, <1>2, <1>3, <1>5, <2>1, <2>2, <2>3 DEF NodeTypes
<1>7. /\ At("stop")' = At("stop") \ {r} /\ r \in At("stop")
      /\ At("start")' = At("start") \cup {r} /\ r \notin At("start")
      /\ At("identify")' = At("identify")
      /\ requests[r].kind = "put"
      /\ Cardinality(At("stop") \ {r}) = Cardinality(At("stop")) - 1
  <2>1. requests[r].kind = "put"
    BY <1>1, <1>3 DEF NewNodeInv, InRestart
  <2>2. /\ At("stop")' = At("stop") \ {r} /\ r \in At("stop")
        /\ At("start")' = At("start") \cup {r} /\ r \notin At("start")
        /\ At("identify")' = At("identify")
    BY <1>2, <1>3, <2>1 DEF At
  <2>3. QED BY <1>1, <2>1, <2>2, OnePutLess
<1>8. Up' = Up \ {g}
  BY <1>3, <1>5 DEF Up
<1>9. NewNodeInv'
  <2>1. \A q \in DOMAIN requests' : requests'[q].at \in InRestart => requests'[q].kind = "put"
    BY <1>1, <1>2, <1>7 DEF NewNodeInv
  <2>2. ASSUME NEW q \in At("identify")
        PROVE  /\ requests'[q].gw # serving'
               /\ gateways'[requests'[q].gw].up
               /\ \A p \in DOMAIN requests' \ {q} : requests'[p].gw # requests'[q].gw
    <3>1. q \in DOMAIN requests /\ q # r
      BY <1>3 DEF At
    <3>2. /\ requests[q].gw # serving /\ gateways[requests[q].gw].up
          /\ \A p \in DOMAIN requests \ {q} : requests[p].gw # requests[q].gw
      BY <1>1 DEF NewNodeInv
    <3>3. requests[q].gw \in DOMAIN gateways /\ requests[q].gw # g
      BY <1>1, <3>1, <3>2 DEF NodeTypes, g
    <3>4. QED BY <1>2, <1>3, <1>4, <1>5, <3>1, <3>2, <3>3
  <2>3. QED BY <1>7, <2>1, <2>2 DEF NewNodeInv
<1>10. ServingInv'
  BY <1>7 DEF ServingInv
<1>11. RunningInv'
  <2> DEFINE up == Cardinality(Up)
             doomed == Cardinality(Doomed)
             start == Cardinality(At("start"))
             stop == Cardinality(At("stop"))
  <2>1. /\ up \in Nat /\ doomed \in Nat /\ start \in Nat /\ stop \in Nat
        /\ overlaps \in Nat /\ failures \in Nat /\ Served = 1 /\ Served' = 1
        /\ up + start + stop <= doomed + Served + overlaps + failures
    BY <1>1, <1>7, NodeFacts DEF NodeTypes, RunningInv, Served, Replaced
  <2>2. Cardinality(At("stop")') = stop - 1 /\ Cardinality(At("start")') = start + 1
    BY <1>1, <1>7, NodeFacts, FS_AddElement
  <2>3. Doomed' = Doomed \ {g} /\ (g \in Up <=> g \in Doomed)
    BY <1>4, <1>7, <1>8 DEF Doomed, At, g
  <2>4. CASE g \in Up
    <3>1. Cardinality(Up') = up - 1 /\ Cardinality(Doomed') = doomed - 1
      BY <1>1, <1>8, <2>3, <2>4, NodeFacts, FS_RemoveElement
    <3> HIDE DEF up, doomed, start, stop
    <3>2. QED BY <1>3, <2>1, <2>2, <3>1 DEF RunningInv
  <2>5. CASE g \notin Up
    <3>1. Cardinality(Up') = up /\ Cardinality(Doomed') = doomed
      <4>1. Up' = Up /\ Doomed' = Doomed
        BY <1>8, <2>3, <2>5
      <4>2. QED BY <4>1
    <3> HIDE DEF up, doomed, start, stop
    <3>2. QED BY <1>3, <2>1, <2>2, <3>1 DEF RunningInv
  <2>6. QED BY <2>4, <2>5
<1>12. QED BY <1>6, <1>9, <1>10, <1>11 DEF ReconfigureInv

\* A PUT fails where it starts or identifies its node.
LEMMA PutFailsKeeps ==
    ASSUME ReconfigureInv, NEW r \in DOMAIN requests,
           requests[r].at \in {"start", "identify"}, PutFails(r),
           UNCHANGED <<gateways, serving, overlaps>>
    PROVE  ReconfigureInv'
<1>1. NodeTypes /\ NewNodeInv /\ ServingInv /\ RunningInv
  BY DEF ReconfigureInv
<1>2. /\ requests' \in Seq(Range(requests')) /\ DOMAIN requests' = DOMAIN requests
      /\ {"kind", "at", "gw"} \subseteq DOMAIN requests'[r]
      /\ requests'[r].at = "failed" /\ requests'[r].kind = requests[r].kind
      /\ requests'[r].gw = requests[r].gw
      /\ \A q \in DOMAIN requests : q # r => requests'[q] = requests[q]
  BY <1>1, RequestMoves DEF PutFails, RequestGoes
<1>3. /\ \A q \in DOMAIN requests : requests'[q].gw = requests[q].gw
      /\ failures' = failures + 1 /\ failures \in Nat
  BY <1>1, <1>2 DEF PutFails, NodeTypes
<1>4. NodeTypes'
  <2>1. \A q \in DOMAIN requests' :
          {"kind", "at", "gw"} \subseteq DOMAIN requests'[q] /\ requests'[q].gw \in DOMAIN gateways'
    BY <1>1, <1>2, <1>3 DEF NodeTypes
  <2>2. QED BY <1>1, <1>2, <1>3, <2>1 DEF NodeTypes
<1>5. /\ requests[r].kind = "put" /\ r \in At(requests[r].at)
      /\ At("stop")' = At("stop")
      /\ At("start")' = At("start") \ {r}
      /\ At("identify")' = At("identify") \ {r}
  <2>1. requests[r].kind = "put" /\ r \in At(requests[r].at)
    BY <1>1 DEF NewNodeInv, InRestart, At
  <2>2. /\ At("stop")' = At("stop") /\ At("start")' = At("start") \ {r}
        /\ At("identify")' = At("identify") \ {r}
    BY <1>2, <2>1 DEF At
  <2>3. QED BY <2>1, <2>2
<1>6. /\ Up' = Up /\ Doomed' = Doomed /\ Served' \in {0, 1}
  <2>1. Up' = Up /\ Served' \in {0, 1}
    BY DEF Up, Served
  <2>2. QED BY <1>3, <1>5, <2>1 DEF Doomed, At
<1>7. NewNodeInv'
  <2>1. \A q \in DOMAIN requests' : requests'[q].at \in InRestart => requests'[q].kind = "put"
    BY <1>1, <1>2, <1>5 DEF NewNodeInv
  <2>2. ASSUME NEW q \in At("identify")
        PROVE  /\ requests'[q].gw # serving'
               /\ gateways'[requests'[q].gw].up
               /\ \A p \in DOMAIN requests' \ {q} : requests'[p].gw # requests'[q].gw
    BY <1>1, <1>2, <1>3 DEF NewNodeInv, At
  <2>3. QED BY <1>5, <2>1, <2>2 DEF NewNodeInv
<1>8. ServingInv'
  BY <1>3 DEF ServingInv
<1>9. RunningInv'
  <2> DEFINE up == Cardinality(Up)
             doomed == Cardinality(Doomed)
             start == Cardinality(At("start"))
             stop == Cardinality(At("stop"))
  <2>1. /\ up \in Nat /\ doomed \in Nat /\ start \in Nat /\ stop \in Nat
        /\ overlaps \in Nat /\ Served = 1
        /\ up + start + stop <= doomed + Served + overlaps + failures
    <3>1. Served = 1
      BY <1>5 DEF Served, Replaced
    <3>2. QED BY <1>1, <3>1, NodeFacts DEF NodeTypes, RunningInv
  <2>2. Cardinality(At("start") \ {r}) \in Nat /\ Cardinality(At("start") \ {r}) <= start
    <3>1. IsFiniteSet(At("start"))
      BY <1>1, NodeFacts
    <3>2. IsFiniteSet(At("start") \ {r}) /\ Cardinality(At("start") \ {r}) <= start
      BY <3>1, FS_Subset
    <3>3. QED BY <3>2, FS_CardinalityType
  <2>3. /\ Cardinality(Up') = up /\ Cardinality(Doomed') = doomed
        /\ Cardinality(At("stop")') = stop
        /\ Cardinality(At("start")') = Cardinality(At("start") \ {r})
    BY <1>5, <1>6
  <2>4. overlaps' = overlaps
    OBVIOUS
  <2> HIDE DEF up, doomed, start, stop
  <2>5. QED BY <1>3, <1>6, <2>1, <2>2, <2>3, <2>4 DEF RunningInv
<1>10. QED BY <1>4, <1>7, <1>8, <1>9 DEF ReconfigureInv

LEMMA StartNewKeeps ==
    ASSUME ReconfigureInv, NEW r \in DOMAIN requests, StartNew(r)
    PROVE  ReconfigureInv'
<1>1. NodeTypes /\ NewNodeInv /\ ServingInv /\ RunningInv
  BY DEF ReconfigureInv
<1>2. requests[r].at = "start" /\ UNCHANGED <<serving, overlaps>>
  BY DEF StartNew, RequestAt
<1>3. CASE ~ Startable(requests[r].config)
  BY <1>2, <1>3, PutFailsKeeps DEF StartNew
<1>4. CASE Startable(requests[r].config)
  <2> DEFINE n == Len(gateways) + 1
             x == [requests[r] EXCEPT !.at = "identify", !.gw = n]
  <2>1. PICK addr \in Addresses : gateways' = Append(gateways, Build(requests[r].config, addr))
    BY <1>4 DEF StartNew
  <2> DEFINE new == Build(requests[r].config, addr)
  <2>2. "up" \in DOMAIN new /\ new.up = TRUE
    BY DEF Build
  <2>3. requests' = [requests EXCEPT ![r] = x] /\ failures' = failures
    BY <1>4 DEF StartNew
  <2>4. /\ {"kind", "at", "gw"} \subseteq DOMAIN x
        /\ x.at = "identify" /\ x.gw = n /\ x.kind = requests[r].kind
    BY <1>1 DEF NodeTypes
  <2> HIDE DEF x, new
  <2>5. /\ gateways' \in Seq(Range(gateways')) /\ Len(gateways') = n
        /\ DOMAIN gateways' = DOMAIN gateways \cup {n}
        /\ n \notin DOMAIN gateways
        /\ \A g \in DOMAIN gateways : gateways'[g] = gateways[g]
        /\ gateways'[n] = new
        /\ Len(gateways) \in Nat
    BY <1>1, <2>1, AppendAny DEF NodeTypes, new
  <2>6. serving \in 0 .. n /\ serving # n
    BY <1>1, <2>5 DEF NodeTypes
  <2> HIDE DEF n
  <2>7. /\ requests' \in Seq(Range(requests')) /\ DOMAIN requests' = DOMAIN requests
        /\ requests'[r] = x
        /\ \A q \in DOMAIN requests : q # r => requests'[q] = requests[q]
    BY <1>1, <2>3, OneChanged DEF NodeTypes
  <2>8. NodeTypes'
    <3>1. \A g \in DOMAIN gateways' : "up" \in DOMAIN gateways'[g] /\ gateways'[g].up \in BOOLEAN
      BY <1>1, <2>2, <2>5 DEF NodeTypes
    <3>2. \A q \in DOMAIN requests' :
            {"kind", "at", "gw"} \subseteq DOMAIN requests'[q] /\ requests'[q].gw \in DOMAIN gateways'
      BY <1>1, <2>4, <2>5, <2>7 DEF NodeTypes
    <3>3. QED BY <1>1, <1>2, <2>3, <2>5, <2>6, <2>7, <3>1, <3>2 DEF NodeTypes
  <2>9. /\ At("stop")' = At("stop")
        /\ At("start")' = At("start") \ {r} /\ r \in At("start")
        /\ At("identify")' = At("identify") \cup {r} /\ r \notin At("identify")
        /\ requests[r].kind = "put"
    <3>1. requests[r].kind = "put"
      BY <1>1, <1>2 DEF NewNodeInv, InRestart
    <3>2. QED BY <1>2, <2>4, <2>7, <3>1 DEF At
  <2>10. Up' = Up \cup {n} /\ n \notin Up
    BY <2>2, <2>5 DEF Up
  <2>11. NewNodeInv'
    <3>1. \A q \in DOMAIN requests' : requests'[q].at \in InRestart => requests'[q].kind = "put"
      BY <1>1, <2>4, <2>7, <2>9 DEF NewNodeInv
    <3>2. ASSUME NEW q \in At("identify")
          PROVE  /\ requests'[q].gw # serving'
                 /\ gateways'[requests'[q].gw].up
                 /\ \A p \in DOMAIN requests' \ {q} : requests'[p].gw # requests'[q].gw
      <4>1. /\ q \in DOMAIN requests /\ q # r /\ requests[q].gw \in DOMAIN gateways
            /\ requests[q].gw # serving /\ gateways[requests[q].gw].up
            /\ \A p \in DOMAIN requests \ {q} : requests[p].gw # requests[q].gw
        BY <1>1, <2>9 DEF NewNodeInv, NodeTypes, At
      <4>2. requests[q].gw # n
        BY <2>5, <4>1
      <4>3. requests'[q] = requests[q] /\ \A p \in DOMAIN requests \ {q, r} : requests'[p] = requests[p]
        BY <2>7, <4>1
      <4>4. gateways'[requests[q].gw].up /\ serving' = serving
        BY <1>2, <2>5, <4>1
      <4>5. \A p \in DOMAIN requests' \ {q} : requests'[p].gw # requests'[q].gw
        BY <2>4, <2>7, <4>1, <4>2, <4>3
      <4>6. QED BY <4>1, <4>3, <4>4, <4>5
    <3>3. /\ requests'[r].gw # serving'
          /\ gateways'[requests'[r].gw].up
          /\ \A p \in DOMAIN requests' \ {r} : requests'[p].gw # requests'[r].gw
      <4>1. \A p \in DOMAIN requests : requests[p].gw # n
        BY <1>1, <2>5 DEF NodeTypes
      <4>2. QED BY <1>2, <2>2, <2>4, <2>5, <2>6, <2>7, <4>1
    <3>4. QED BY <2>9, <3>1, <3>2, <3>3 DEF NewNodeInv
  <2>12. ServingInv'
    BY <2>9 DEF ServingInv
  <2>13. RunningInv'
    <3> DEFINE up == Cardinality(Up)
               doomed == Cardinality(Doomed)
               start == Cardinality(At("start"))
               stop == Cardinality(At("stop"))
    <3>1. Served = 1 /\ Served' = 1
      BY <2>9 DEF Served, Replaced
    <3>2. /\ up \in Nat /\ doomed \in Nat /\ start \in Nat /\ stop \in Nat
          /\ overlaps \in Nat /\ failures \in Nat
          /\ up + start + stop <= doomed + Served + overlaps + failures
      BY <1>1, NodeFacts DEF NodeTypes, RunningInv
    <3>3. Cardinality(Up') = up + 1 /\ Cardinality(At("start")') = start - 1
      BY <1>1, <2>9, <2>10, NodeFacts, FS_AddElement, OnePutLess
    <3>4. Doomed' = Doomed
      <4>1. \A q \in At("stop") : /\ requests'[q].gw = requests[q].gw
                                  /\ requests[q].gw \in DOMAIN gateways
        BY <1>1, <1>2, <2>7 DEF At, NodeTypes
      <4>2. n \notin Doomed' /\ n \notin Doomed
        BY <2>5, <2>9, <2>10, <4>1 DEF Doomed
      <4>3. QED BY <2>9, <2>10, <4>1, <4>2 DEF Doomed
    <3>5. Cardinality(At("stop")') = stop /\ Cardinality(Doomed') = doomed
      BY <2>9, <3>4
    <3> HIDE DEF up, doomed, start, stop
    <3>6. QED BY <1>2, <2>3, <3>1, <3>2, <3>3, <3>5 DEF RunningInv
  <2>14. QED BY <2>8, <2>11, <2>12, <2>13 DEF ReconfigureInv
<1>5. QED BY <1>3, <1>4

LEMMA IdentifyKeeps ==
    ASSUME ReconfigureInv, NEW r \in DOMAIN requests, Identify(r)
    PROVE  ReconfigureInv'
<1> DEFINE g == requests[r].gw
<1>1. NodeTypes /\ NewNodeInv /\ ServingInv /\ RunningInv
  BY DEF ReconfigureInv
<1>2. requests[r].at = "identify" /\ overlaps' = overlaps /\ g \in DOMAIN gateways
  BY <1>1 DEF Identify, RequestAt, NodeTypes
<1>3. CASE gateways[g].emit = "off"
  BY <1>2, <1>3, PutFailsKeeps DEF Identify
<1>4. CASE gateways[g].emit # "off"
  <2>1. /\ serving' = g /\ Attach(g, {"servers"}, gateways) /\ failures' = failures
        /\ requests' = [requests EXCEPT ![r].at = "reconcile"]
    BY <1>4 DEF Identify, RequestGoes
  <2>2. /\ requests' \in Seq(Range(requests')) /\ DOMAIN requests' = DOMAIN requests
        /\ {"kind", "at", "gw"} \subseteq DOMAIN requests'[r]
        /\ requests'[r].at = "reconcile" /\ requests'[r].kind = requests[r].kind
        /\ requests'[r].gw = requests[r].gw
        /\ \A q \in DOMAIN requests : q # r => requests'[q] = requests[q]
    BY <1>1, <2>1, RequestMoves
  <2>3. \A q \in DOMAIN requests : requests'[q].gw = requests[q].gw
    BY <2>2
  <2>4. /\ gateways' \in Seq(Range(gateways')) /\ DOMAIN gateways' = DOMAIN gateways
        /\ \A h \in DOMAIN gateways :
             "up" \in DOMAIN gateways'[h] /\ gateways'[h].up = gateways[h].up
    BY <1>1, <1>2, <2>1, AttachChanges
  <2>5. /\ At("stop")' = At("stop") /\ At("start")' = At("start")
        /\ At("identify")' = At("identify") \ {r} /\ r \in At("identify")
    <3>1. requests[r].kind = "put"
      BY <1>1, <1>2 DEF NewNodeInv, InRestart
    <3>2. QED BY <1>2, <2>2, <3>1 DEF At
  <2>6. /\ gateways[g].up /\ g # serving
        /\ \A q \in DOMAIN requests \ {r} : requests[q].gw # g
    BY <1>1, <2>5 DEF NewNodeInv
  <2> HIDE DEF g
  <2>7. g \in Nat \ {0} /\ g \in 0 .. Len(gateways') /\ Len(gateways') = Len(gateways)
    <3>1. DOMAIN gateways' = 1 .. Len(gateways') /\ Len(gateways') \in Nat
      BY <2>4, LenProperties
    <3>2. DOMAIN gateways = 1 .. Len(gateways) /\ Len(gateways) \in Nat
      BY <1>1, NodeFacts
    <3>3. Len(gateways') = Len(gateways)
      <4>1. gateways \in Seq(Range(gateways))
        BY <1>1 DEF NodeTypes
      <4>2. QED BY <2>4, <4>1, SameLength
    <3>4. g \in 1 .. Len(gateways)
      BY <1>2, <3>2
    <3>5. QED BY <3>2, <3>3, <3>4
  <2>8. NodeTypes'
    <3>1. \A q \in DOMAIN requests' :
            {"kind", "at", "gw"} \subseteq DOMAIN requests'[q] /\ requests'[q].gw \in DOMAIN gateways'
      BY <1>1, <2>2, <2>3, <2>4 DEF NodeTypes
    <3>2. \A h \in DOMAIN gateways' : "up" \in DOMAIN gateways'[h] /\ gateways'[h].up \in BOOLEAN
      BY <1>1, <2>4 DEF NodeTypes
    <3>3. QED BY <1>1, <1>2, <2>1, <2>2, <2>4, <2>7, <3>1, <3>2 DEF NodeTypes
  <2>9. Up' = Up /\ Doomed' = Doomed /\ ServingUp'
    <3>1. Up' = Up
      BY <2>4 DEF Up
    <3>2. ServingUp'
      BY <1>2, <2>1, <2>4, <2>6, <2>7 DEF ServingUp
    <3>3. QED BY <2>3, <2>5, <3>1, <3>2 DEF Doomed, At
  <2>10. NewNodeInv'
    <3>1. \A q \in DOMAIN requests' : requests'[q].at \in InRestart => requests'[q].kind = "put"
      BY <1>1, <2>2 DEF NewNodeInv, InRestart
    <3>2. ASSUME NEW q \in At("identify"), q # r
          PROVE  /\ requests'[q].gw # serving'
                 /\ gateways'[requests'[q].gw].up
                 /\ \A p \in DOMAIN requests' \ {q} : requests'[p].gw # requests'[q].gw
      <4>1. /\ q \in DOMAIN requests /\ requests[q].gw \in DOMAIN gateways
            /\ gateways[requests[q].gw].up /\ requests[q].gw # g
            /\ \A p \in DOMAIN requests \ {q} : requests[p].gw # requests[q].gw
        BY <1>1, <2>6, <3>2 DEF NewNodeInv, NodeTypes, At
      <4>2. QED BY <2>1, <2>2, <2>3, <2>4, <4>1
    <3>3. QED BY <2>5, <3>1, <3>2 DEF NewNodeInv
  <2>11. ServingInv'
    BY <2>9 DEF ServingInv
  <2>12. RunningInv'
    <3>1. Served' = 1 /\ Served = 1
      BY <2>5, <2>9 DEF Served, Replaced
    <3>2. QED BY <1>1, <1>2, <2>1, <2>5, <2>9, <3>1 DEF RunningInv
  <2>13. QED BY <2>8, <2>10, <2>11, <2>12 DEF ReconfigureInv
<1>5. QED BY <1>3, <1>4

\* The process is started again with one node or none.
LEMMA CrashKeeps ==
    ASSUME ReconfigureInv, Crash
    PROVE  ReconfigureInv'
<1> DEFINE n == Len(gateways) + 1
           down == [k \in DOMAIN gateways |-> [gateways[k] EXCEPT !.up = FALSE]]
           fresh == [Build(Filled(cfgFile), n) EXCEPT !.relays = Managers]
           ended == [r \in DOMAIN requests |->
                       [requests[r] EXCEPT !.at = IF @ \in Ended THEN @ ELSE "done"]]
<1>1. NodeTypes
  BY DEF ReconfigureInv
<1>2. /\ requests' = ended /\ overlaps' = 0 /\ failures' = 0
      /\ \/ gateways' = Append(down, fresh) /\ serving' = n
         \/ gateways' = down /\ serving' = 0
  BY DEF Crash
<1>3. /\ Len(gateways) \in Nat /\ DOMAIN gateways = 1 .. Len(gateways)
      /\ Len(requests) \in Nat /\ DOMAIN requests = 1 .. Len(requests)
  BY <1>1, NodeFacts
<1>4. /\ DOMAIN ended = DOMAIN requests
      /\ \A r \in DOMAIN requests :
           /\ {"kind", "at", "gw"} \subseteq DOMAIN ended[r]
           /\ ended[r].at \notin InRestart /\ ended[r].gw = requests[r].gw
  BY <1>1 DEF NodeTypes, Ended, InRestart
<1>5. ended \in Seq(Range(ended))
  <2>1. ended = [i \in 1 .. Len(requests) |-> ended[i]]
    BY <1>3
  <2> HIDE DEF ended
  <2>2. QED BY <1>3, <2>1, SequenceAny
<1>6. /\ DOMAIN down = DOMAIN gateways
      /\ \A g \in DOMAIN gateways : "up" \in DOMAIN down[g] /\ down[g].up = FALSE
      /\ "up" \in DOMAIN fresh /\ fresh.up = TRUE
  BY <1>1 DEF NodeTypes, Build
<1>7. down \in Seq(Range(down)) /\ Len(down) = Len(gateways)
  <2>1. down = [i \in 1 .. Len(gateways) |-> down[i]]
    BY <1>3
  <2> HIDE DEF down
  <2>2. QED BY <1>3, <2>1, SequenceAny
<1> HIDE DEF down, fresh, ended
<1>8. /\ At("stop")' = {} /\ At("start")' = {} /\ At("identify")' = {}
      /\ Doomed' = {}
  <2>1. /\ At("stop")' = {} /\ At("start")' = {} /\ At("identify")' = {}
    BY <1>2, <1>4 DEF At, InRestart
  <2>2. QED BY <2>1 DEF Doomed
<1>9. NewNodeInv'
  BY <1>2, <1>4, <1>8 DEF NewNodeInv
<1>10. Cardinality({}) = 0
  BY FS_EmptySet
<1>11. CASE gateways' = Append(down, fresh) /\ serving' = n
  <2>1. /\ gateways' \in Seq(Range(gateways')) /\ Len(gateways') = n
        /\ DOMAIN gateways' = DOMAIN gateways \cup {n} /\ n \notin DOMAIN gateways
        /\ \A g \in DOMAIN gateways : gateways'[g] = down[g]
        /\ gateways'[n] = fresh
    BY <1>6, <1>7, <1>11, AppendAny
  <2>2. n \in Nat \ {0} /\ serving' = n /\ serving' \in 0 .. n
    BY <1>3, <1>11
  <2> HIDE DEF n
  <2>3. NodeTypes'
    <3>1. \A g \in DOMAIN gateways' : "up" \in DOMAIN gateways'[g] /\ gateways'[g].up \in BOOLEAN
      BY <1>6, <2>1
    <3>2. \A r \in DOMAIN requests' :
            {"kind", "at", "gw"} \subseteq DOMAIN requests'[r] /\ requests'[r].gw \in DOMAIN gateways'
      BY <1>1, <1>2, <1>4, <2>1 DEF NodeTypes
    <3>3. QED BY <1>2, <1>5, <2>1, <2>2, <3>1, <3>2 DEF NodeTypes
  <2>4. Up' = {n} /\ ServingUp'
    BY <1>6, <2>1, <2>2 DEF Up, ServingUp
  <2>5. ServingInv'
    BY <2>4 DEF ServingInv
  <2>6. RunningInv'
    <3>1. Cardinality(Up') = 1
      BY <2>4, FS_Singleton
    <3>2. Served' = 1
      BY <2>4 DEF Served
    <3>3. /\ Cardinality(At("stop")') = 0 /\ Cardinality(At("start")') = 0
          /\ Cardinality(Doomed') = 0
      BY <1>8, <1>10
    <3>4. QED BY <1>2, <3>1, <3>2, <3>3 DEF RunningInv
  <2>7. QED BY <1>9, <2>3, <2>5, <2>6 DEF ReconfigureInv
<1>12. CASE gateways' = down /\ serving' = 0
  <2>1. NodeTypes'
    <3>1. \A g \in DOMAIN gateways' : "up" \in DOMAIN gateways'[g] /\ gateways'[g].up \in BOOLEAN
      BY <1>6, <1>12
    <3>2. \A r \in DOMAIN requests' :
            {"kind", "at", "gw"} \subseteq DOMAIN requests'[r] /\ requests'[r].gw \in DOMAIN gateways'
      BY <1>1, <1>2, <1>4, <1>6, <1>12 DEF NodeTypes
    <3>3. serving' \in 0 .. Len(gateways')
      BY <1>3, <1>7, <1>12
    <3>4. QED BY <1>2, <1>5, <1>7, <1>12, <3>1, <3>2, <3>3 DEF NodeTypes
  <2>2. Up' = {} /\ ~ ServingUp' /\ Served' = 0
    BY <1>6, <1>8, <1>12 DEF Up, ServingUp, Served, Replaced
  <2>3. ServingInv'
    BY <1>12 DEF ServingInv
  <2>4. RunningInv'
    <3>1. /\ Cardinality(At("stop")') = 0 /\ Cardinality(At("start")') = 0
          /\ Cardinality(Doomed') = 0 /\ Cardinality(Up') = 0
      BY <1>8, <1>10, <2>2
    <3>2. QED BY <1>2, <2>2, <3>1 DEF RunningInv
  <2>5. QED BY <1>9, <2>1, <2>3, <2>4 DEF ReconfigureInv
<1>13. QED BY <1>2, <1>11, <1>12

LEMMA InitReconfigureInv == ReconfigureInit => ReconfigureInv
<1> SUFFICES ASSUME ReconfigureInit PROVE ReconfigureInv
  OBVIOUS
<1> DEFINE node == [Build(Default, 1) EXCEPT !.relays = Managers]
<1>1. /\ gateways = <<node>> /\ requests = <<>> /\ serving = 1
      /\ overlaps = 0 /\ failures = 0
      /\ "up" \in DOMAIN node /\ node.up = TRUE
  BY DEF ReconfigureInit, Build
<1> HIDE DEF node
<1>2. /\ DOMAIN gateways = {1} /\ gateways[1] = node /\ Len(gateways) = 1
      /\ DOMAIN requests = {}
  BY <1>1
<1>3. gateways \in Seq(Range(gateways)) /\ requests \in Seq(Range(requests))
  <2>1. gateways = [i \in 1 .. 1 |-> gateways[i]]
    BY <1>1
  <2>2. requests = [i \in 1 .. 0 |-> requests[i]]
    BY <1>1
  <2>3. QED BY <2>1, <2>2, SequenceAny
<1>4. NodeTypes
  <2>1. \A g \in DOMAIN gateways : "up" \in DOMAIN gateways[g] /\ gateways[g].up \in BOOLEAN
    BY <1>1, <1>2
  <2>2. /\ \A r \in DOMAIN requests :
             {"kind", "at", "gw"} \subseteq DOMAIN requests[r] /\ requests[r].gw \in DOMAIN gateways
        /\ serving \in 0 .. Len(gateways) /\ overlaps \in Nat /\ failures \in Nat
    BY <1>1, <1>2
  <2>3. QED BY <1>3, <2>1, <2>2 DEF NodeTypes
<1>5. /\ At("stop") = {} /\ At("start") = {} /\ At("identify") = {}
      /\ Up = {1} /\ Doomed = {} /\ ServingUp /\ Served = 1
  BY <1>1, <1>2 DEF At, Up, Doomed, ServingUp, Served
<1>6. NewNodeInv /\ ServingInv
  BY <1>1, <1>2, <1>5 DEF NewNodeInv, ServingInv
<1>7. RunningInv
  <2>1. Cardinality(Up) = 1 /\ Cardinality({}) = 0
    BY <1>5, FS_Singleton, FS_EmptySet
  <2>2. /\ Cardinality(At("stop")) = 0 /\ Cardinality(At("start")) = 0
        /\ Cardinality(Doomed) = 0
    BY <1>5, <2>1
  <2>3. QED BY <1>1, <1>5, <2>1, <2>2 DEF RunningInv
<1>8. QED BY <1>4, <1>6, <1>7 DEF ReconfigureInv

LEMMA NextReconfigureInv == ReconfigureInv /\ [ReconfigureNext]_reconfigureVars => ReconfigureInv'
<1> SUFFICES ASSUME ReconfigureInv, [ReconfigureNext]_reconfigureVars PROVE ReconfigureInv'
  OBVIOUS
<1>0. NodeTypes
  BY DEF ReconfigureInv
<1>1. CASE PutInvalid
  <2>1. Request("put", "done", gateways[serving].config) /\ UNCHANGED nodeVars
    BY <1>1 DEF PutInvalid
  <2>2. "done" \notin InRestart
    BY DEF InRestart
  <2>3. Quiet
    BY <1>0, <2>1, <2>2, QuietRequest DEF nodeVars, NodeTypes
  <2>4. QED BY <2>3, QuietKeeps
<1>2. ASSUME NEW v, EditCapability(v) PROVE ReconfigureInv'
  <2>1. Request("capability", "set", [s \in {"identification"} |-> v]) /\ UNCHANGED nodeVars
    BY <1>2 DEF EditCapability
  <2>2. "set" \notin InRestart
    BY DEF InRestart
  <2>3. Quiet
    BY <1>0, <2>1, <2>2, QuietRequest DEF nodeVars, NodeTypes
  <2>4. QED BY <2>3, QuietKeeps
<1>3. ASSUME NEW v, EditServers(v) PROVE ReconfigureInv'
  <2> DEFINE x == [gateways[serving] EXCEPT !.config["servers"] = v]
  <2>1. Request("servers", "reconcile", [s \in {"servers"} |-> v]) /\ serving' = serving
    BY <1>3 DEF EditServers
  <2>2. "reconcile" \notin InRestart
    BY DEF InRestart
  <2>3. serving \in DOMAIN gateways
    BY <1>0, <2>1, RequestMade
  <2>4. gateways' = [gateways EXCEPT ![serving] = x]
    BY <1>3 DEF EditServers
  <2>5. "up" \in DOMAIN x /\ x.up = gateways[serving].up
    BY <1>0, <2>3 DEF NodeTypes
  <2> HIDE DEF x
  <2>6. /\ gateways' \in Seq(Range(gateways')) /\ DOMAIN gateways' = DOMAIN gateways
        /\ \A h \in DOMAIN gateways :
             "up" \in DOMAIN gateways'[h] /\ gateways'[h].up = gateways[h].up
    BY <1>0, <2>3, <2>4, <2>5, GatewayChanges
  <2>7. Quiet
    BY <1>0, <2>1, <2>2, <2>6, QuietRequest
  <2>8. QED BY <2>7, QuietKeeps
<1>4. ASSUME NEW r \in UnderWay,
             \/ ServersReconciled(r) \/ EudReconfigured(r) \/ SetMatrix(r)
             \/ Load(r) \/ Truncate(r) \/ Write(r)
      PROVE  ReconfigureInv'
  BY <1>0, <1>4, QuietSteps, QuietKeeps
<1>5. ASSUME NEW r \in UnderWay, StopOld(r) \/ StartNew(r) \/ Identify(r) PROVE ReconfigureInv'
  BY <1>5, StopOldKeeps, StartNewKeeps, IdentifyKeeps DEF UnderWay
<1>6. CASE UNCHANGED reconfigureVars
  BY <1>6 DEF reconfigureVars, nodeVars, ReconfigureInv, NodeTypes, NewNodeInv, ServingInv,
              RunningInv, At, Up, Doomed, Replaced, ServingUp, Served
<1>7. QED
  BY <1>1, <1>2, <1>3, <1>4, <1>5, <1>6, PutKeeps, CrashKeeps DEF ReconfigureNext

LEMMA ReconfigureInvariant == ReconfigureSpec => []ReconfigureInv
  BY InitReconfigureInv, NextReconfigureInv, PTL DEF ReconfigureSpec

\* However PUTs, edits and crashes interleave, the node the app refers to runs
\* once they have ended, unless one failed after its config had validated.
THEOREM ServingRuns == ReconfigureSpec => []ServingNodeRuns
<1>1. ReconfigureInv => ServingNodeRuns
  BY DEF ReconfigureInv, ServingInv, ServingNodeRuns, ServingUp, Settled, UnderWay, Ended, At
<1>2. QED BY <1>1, ReconfigureInvariant, PTL

\* No more nodes are left running unreferred to than PUTs overlapped or failed.
THEOREM LeaksBounded == ReconfigureSpec => []LeaksAccounted
<1>1. ReconfigureInv => LeaksAccounted
  <2> SUFFICES ASSUME ReconfigureInv, Settled
               PROVE  Cardinality({g \in DOMAIN gateways \ {serving} : gateways[g].up})
                        <= overlaps + failures
    BY DEF LeaksAccounted
  <2>1. NodeTypes /\ RunningInv
    BY DEF ReconfigureInv
  <2>2. At("stop") = {} /\ At("start") = {} /\ At("identify") = {} /\ Doomed = {}
    BY DEF Settled, UnderWay, Ended, At, Doomed
  <2>3. Served = IF serving \in Up THEN 1 ELSE 0
    BY <2>1, <2>2, NodeFacts DEF Served, Replaced, ServingUp, Up, Settled, NodeTypes
  <2>4. {g \in DOMAIN gateways \ {serving} : gateways[g].up} = Up \ {serving}
    BY DEF Up
  <2> DEFINE up == Cardinality(Up)
             left == Cardinality(Up \ {serving})
  <2>5. up <= Served + overlaps + failures /\ up \in Nat
        /\ overlaps \in Nat /\ failures \in Nat
    BY <2>1, <2>2, NodeFacts, FS_EmptySet DEF RunningInv, NodeTypes
  <2>6. left = up - Served
    <3>1. CASE serving \in Up
      BY <2>1, <2>3, <3>1, NodeFacts, FS_RemoveElement
    <3>2. CASE serving \notin Up
      <4>1. Up \ {serving} = Up
        BY <3>2
      <4>2. left = up /\ Served = 0
        BY <2>3, <3>2, <4>1
      <4> HIDE DEF up, left
      <4>3. QED BY <2>5, <4>2
    <3>3. QED BY <3>1, <3>2
  <2>7. Served \in {0, 1}
    BY <2>3
  <2> HIDE DEF up, left
  <2>8. left <= overlaps + failures
    BY <2>5, <2>6, <2>7
  <2>9. QED BY <2>4, <2>8 DEF left
<1>2. QED BY <1>1, ReconfigureInvariant, PTL

-----------------------------------------------------------------------------
(* What the file says is what is live.  The invariant follows a request    *)
(* that is alone from stage to stage: what it has changed of the node, and *)
(* what it has still to write.                                             *)

Complete(f) == f = [s \in Settings |-> f[s]]

ConfigTypes ==
    /\ \A g \in DOMAIN gateways :
         /\ {"up", "config", "emit", "addr", "relays"} \subseteq DOMAIN gateways[g]
         /\ Complete(gateways[g].config)
    /\ \A r \in DOMAIN requests :
         /\ "config" \in DOMAIN requests[r]
         /\ requests[r].at \in {"stop", "start"} => Complete(requests[r].config)
    /\ serving = 0 => UnderWay = {}

\* What a node does, and what a file makes of a setting.
Shows(x, s) == IF s = "identification" THEN x.emit ELSE x.config[s]
Says(f, s) == IF s \in DOMAIN f THEN f[s] ELSE Default[s]

Built(q) == \A s \in Settings : Shows(gateways[q.gw], s) = q.config[s]
LiveIs(f) == \A s \in Settings : Shows(gateways[serving], s) = Says(f, s)
LiveEdited(f) ==
    \A s \in Settings :
        Shows(gateways[serving], s) = IF s \in DOMAIN f THEN f[s] ELSE Says(cfgFile, s)
AllAttached == \A m \in Managers : attached[m] = serving

Restarting(q) ==
    /\ q.kind = "put" /\ Complete(q.config)
    /\ \/ q.at \in {"stop", "start"} /\ AllAttached
       \/ q.at = "identify" /\ AllAttached /\ Built(q)
       \/ q.at = "reconcile" /\ q.gw = serving /\ attached["servers"] = serving /\ Built(q)
       \/ q.at = "eud" /\ q.gw = serving /\ AllAttached /\ Built(q)

Editing(q) ==
    /\ AllAttached
    /\ \/ /\ q.kind = "capability" /\ q.at = "set" /\ q.gw = serving
          /\ DOMAIN q.config = {"identification"} /\ LiveIs(cfgFile)
       \/ q.kind = "servers" /\ q.at = "reconcile" /\ LiveEdited(q.config)
       \/ q.kind # "put" /\ q.at = "load" /\ LiveEdited(q.config)

Saving(q) == q.at \in {"stored", "write"} /\ AllAttached /\ LiveIs(q.config)

Stage(r) == Restarting(requests[r]) \/ Editing(requests[r]) \/ Saving(requests[r])

TruthInv ==
    ~ interleaved /\ failures = 0 /\ serving # 0 =>
        /\ UnderWay = {} => AllAttached /\ LiveIs(cfgFile)
        /\ \A r \in UnderWay : UnderWay = {r} /\ Stage(r)

LEMMA InitTruthInv == ReconfigureInit => ConfigTypes /\ TruthInv
<1> SUFFICES ASSUME ReconfigureInit PROVE ConfigTypes /\ TruthInv
  OBVIOUS
<1> DEFINE node == [Build(Default, 1) EXCEPT !.relays = Managers]
<1>1. /\ gateways = <<node>> /\ requests = <<>> /\ serving = 1 /\ cfgFile = NoFile
      /\ attached = [m \in Managers |-> 1]
      /\ {"up", "config", "emit", "addr", "relays"} \subseteq DOMAIN node
      /\ node.config = Default /\ node.emit = Default["identification"]
  BY DEF ReconfigureInit, Build
<1> HIDE DEF node
<1>2. Complete(Default)
  BY DEF Complete, Default, Settings
<1>3. /\ DOMAIN gateways = {1} /\ gateways[1] = node /\ DOMAIN requests = {} /\ UnderWay = {}
  BY <1>1 DEF UnderWay
<1>4. ConfigTypes
  BY <1>1, <1>2, <1>3 DEF ConfigTypes
<1>5. LiveIs(cfgFile)
  BY <1>1, <1>3 DEF LiveIs, Shows, Says, NoFile
<1>6. QED BY <1>1, <1>3, <1>4, <1>5 DEF TruthInv, AllAttached

\* The nodes there are keep what they do.
NodesKept ==
    /\ DOMAIN gateways \subseteq DOMAIN gateways'
    /\ \A g \in DOMAIN gateways :
         /\ {"up", "config", "emit", "addr", "relays"} \subseteq DOMAIN gateways'[g]
         /\ gateways'[g].config = gateways[g].config /\ gateways'[g].emit = gateways[g].emit

\* A request alone goes to its next stage, or ends.
LEMMA MovesOn ==
    ASSUME NodeTypes, NEW r \in UnderWay, NEW x, requests' = [requests EXCEPT ![r] = x]
    PROVE  /\ DOMAIN requests' = DOMAIN requests /\ requests'[r] = x
           /\ \A q \in DOMAIN requests : q # r => requests'[q] = requests[q]
           /\ x.at \notin Ended => UnderWay' = UnderWay
           /\ x.at \in Ended => UnderWay' = UnderWay \ {r}
<1>1. r \in DOMAIN requests /\ requests \in Seq(Range(requests))
  BY DEF UnderWay, NodeTypes
<1> DEFINE p == [requests EXCEPT ![r] = x]
<1>2. DOMAIN p = DOMAIN requests /\ p[r] = x /\ \A q \in DOMAIN requests : q # r => p[q] = requests[q]
  BY <1>1
<1> HIDE DEF p
<1>3. requests' = p
  BY DEF p
<1>4. QED BY <1>1, <1>2, <1>3 DEF UnderWay

LEMMA StageFollows ==
    ASSUME NodeTypes, ConfigTypes, TruthInv, NEW r \in UnderWay, NEW x,
           requests' = [requests EXCEPT ![r] = x], "config" \in DOMAIN x,
           x.at \notin Ended, x.at \in {"stop", "start"} => Complete(x.config),
           \A g \in DOMAIN gateways' :
             /\ {"up", "config", "emit", "addr", "relays"} \subseteq DOMAIN gateways'[g]
             /\ Complete(gateways'[g].config),
           interleaved' = interleaved, failures' = failures, serving' # 0,
           ~ interleaved /\ failures = 0 /\ serving # 0 /\ Stage(r) => Stage(r)'
    PROVE  ConfigTypes' /\ TruthInv'
<1>1. /\ DOMAIN requests' = DOMAIN requests /\ requests'[r] = x
      /\ \A q \in DOMAIN requests : q # r => requests'[q] = requests[q]
      /\ UnderWay' = UnderWay
  BY MovesOn
<1>2. serving # 0
  BY DEF ConfigTypes
<1>3. ConfigTypes'
  BY <1>1 DEF ConfigTypes
<1>4. TruthInv'
  <2> SUFFICES ASSUME ~ interleaved, failures = 0
               PROVE  UnderWay' # {} /\ \A q \in UnderWay' : UnderWay' = {q} /\ Stage(q)'
    BY DEF TruthInv
  <2>1. UnderWay = {r} /\ Stage(r)
    BY <1>2 DEF TruthInv
  <2>2. Stage(r)'
    BY <1>2, <2>1
  <2>3. QED BY <1>1, <2>1, <2>2
<1>5. QED BY <1>3, <1>4

\* A request is made.
LEMMA RequestOpens ==
    ASSUME NodeTypes, ConfigTypes, TruthInv, NEW kind, NEW where, NEW config,
           Request(kind, where, config), serving' = serving,
           where \in {"stop", "start"} => Complete(config),
           \A g \in DOMAIN gateways' :
             /\ {"up", "config", "emit", "addr", "relays"} \subseteq DOMAIN gateways'[g]
             /\ Complete(gateways'[g].config),
           NEW n, n = Len(requests) + 1
    PROVE  /\ requests'[n] = [kind |-> kind, at |-> where, gw |-> serving, config |-> config]
           /\ serving \in DOMAIN gateways /\ serving # 0
           /\ ConfigTypes'
           /\ where \notin Ended /\ (AllAttached /\ LiveIs(cfgFile) => Stage(n)') => TruthInv'
           /\ where \in Ended /\ (AllAttached /\ LiveIs(cfgFile) => AllAttached' /\ LiveIs(cfgFile)')
                => TruthInv'
<1> DEFINE x == [kind |-> kind, at |-> where, gw |-> serving, config |-> config]
<1>1. /\ requests' = Append(requests, x) /\ serving # 0 /\ failures' = failures
      /\ interleaved' = (interleaved \/ UnderWay # {})
  BY DEF Request
<1>2. "config" \in DOMAIN x /\ x.at = where
  OBVIOUS
<1>3. /\ DOMAIN requests' = DOMAIN requests \cup {n} /\ n \notin DOMAIN requests
      /\ requests'[n] = x
      /\ \A q \in DOMAIN requests : requests'[q] = requests[q]
  <2> HIDE DEF x
  <2>1. QED BY <1>1, AppendAny DEF NodeTypes
<1>4. serving \in DOMAIN gateways
  BY <1>1, NodeFacts DEF NodeTypes
<1> HIDE DEF x
<1>5. /\ where \notin Ended => UnderWay' = UnderWay \cup {n}
      /\ where \in Ended => UnderWay' = UnderWay
  BY <1>2, <1>3 DEF UnderWay
<1>6. ConfigTypes'
  <2>1. x.at \in {"stop", "start"} => Complete(x.config)
    BY DEF x
  <2>2. QED BY <1>1, <1>2, <1>3, <2>1 DEF ConfigTypes
<1>7. where \notin Ended /\ (AllAttached /\ LiveIs(cfgFile) => Stage(n)') => TruthInv'
  <2> HAVE where \notin Ended /\ (AllAttached /\ LiveIs(cfgFile) => Stage(n)')
  <2> SUFFICES ASSUME ~ interleaved', failures' = 0
               PROVE  UnderWay' # {} /\ \A q \in UnderWay' : UnderWay' = {q} /\ Stage(q)'
    BY DEF TruthInv
  <2>1. ~ interleaved /\ UnderWay = {} /\ failures = 0
    BY <1>1
  <2>2. AllAttached /\ LiveIs(cfgFile)
    BY <1>1, <2>1 DEF TruthInv
  <2>3. UnderWay' = {n} /\ Stage(n)'
    BY <1>5, <2>1, <2>2
  <2>4. QED BY <2>3
<1>8. where \in Ended /\ (AllAttached /\ LiveIs(cfgFile) => AllAttached' /\ LiveIs(cfgFile)')
        => TruthInv'
  <2> HAVE where \in Ended /\ (AllAttached /\ LiveIs(cfgFile) => AllAttached' /\ LiveIs(cfgFile)')
  <2> SUFFICES ASSUME ~ interleaved', failures' = 0
               PROVE  UnderWay' = {} /\ AllAttached' /\ LiveIs(cfgFile)'
    BY DEF TruthInv
  <2>1. ~ interleaved /\ UnderWay = {} /\ failures = 0
    BY <1>1
  <2>2. AllAttached /\ LiveIs(cfgFile)
    BY <1>1, <2>1 DEF TruthInv
  <2>3. QED BY <1>5, <2>1, <2>2
<1>9. QED BY <1>1, <1>3, <1>4, <1>6, <1>7, <1>8 DEF x

\* A setting of the file is one of a section that is put into it.
LEMMA SectionsSay ==
    ASSUME NEW f, NEW s \in Settings,
           NEW whole, whole = [k \in DOMAIN cfgFile \cup DOMAIN f |->
                                 IF k \in DOMAIN f THEN f[k] ELSE cfgFile[k]]
    PROVE  Says(whole, s) = IF s \in DOMAIN f THEN f[s] ELSE Says(cfgFile, s)
  BY DEF Says

\* Nodes that keep what they do are whole.
LEMMA KeptWhole ==
    ASSUME ConfigTypes, NodesKept, DOMAIN gateways' = DOMAIN gateways
    PROVE  \A g \in DOMAIN gateways' :
             /\ {"up", "config", "emit", "addr", "relays"} \subseteq DOMAIN gateways'[g]
             /\ Complete(gateways'[g].config)
  BY DEF ConfigTypes, NodesKept

\* One node changes in a field that is neither its config nor what it may send.
LEMMA OneKept ==
    ASSUME NodeTypes, ConfigTypes, NEW g \in DOMAIN gateways, NEW x,
           gateways' = [gateways EXCEPT ![g] = x],
           {"up", "config", "emit", "addr", "relays"} \subseteq DOMAIN x,
           x.config = gateways[g].config, x.emit = gateways[g].emit
    PROVE  NodesKept /\ DOMAIN gateways' = DOMAIN gateways
<1> DEFINE p == [gateways EXCEPT ![g] = x]
<1>1. DOMAIN p = DOMAIN gateways /\ p[g] = x /\ \A h \in DOMAIN gateways : h # g => p[h] = gateways[h]
  BY OneChanged DEF NodeTypes
<1> HIDE DEF p
<1>2. gateways' = p
  BY DEF p
<1>3. QED BY <1>1, <1>2 DEF NodesKept, ConfigTypes

LEMMA AttachKept ==
    ASSUME NodeTypes, ConfigTypes, NEW g \in DOMAIN gateways, NEW ms, Attach(g, ms, gateways)
    PROVE  /\ NodesKept /\ DOMAIN gateways' = DOMAIN gateways
           /\ attached' = [m \in Managers |-> IF m \in ms THEN g ELSE attached[m]]
<1> DEFINE x == [gateways[g] EXCEPT !.relays =
                   @ \cup {m \in ms : gateways[g].addr \notin relayIds[m]}]
<1>1. gateways' = [gateways EXCEPT ![g] = x]
  BY DEF Attach
<1>2. /\ {"up", "config", "emit", "addr", "relays"} \subseteq DOMAIN x
      /\ x.config = gateways[g].config /\ x.emit = gateways[g].emit
  BY DEF ConfigTypes
<1> HIDE DEF x
<1>3. NodesKept /\ DOMAIN gateways' = DOMAIN gateways
  BY <1>1, <1>2, OneKept
<1>4. QED BY <1>3 DEF Attach

LEMMA OpeningsKeepTruth ==
    ASSUME NodeTypes, ConfigTypes, TruthInv,
           \/ \E patch : Put(patch)
           \/ PutInvalid
           \/ \E v : EditCapability(v)
           \/ \E v : EditServers(v)
    PROVE  ConfigTypes' /\ TruthInv'
<1>1. PICK n : n = Len(requests) + 1
  OBVIOUS
<1>w. UNCHANGED gateways =>
        \A g \in DOMAIN gateways' :
             /\ {"up", "config", "emit", "addr", "relays"} \subseteq DOMAIN gateways'[g]
             /\ Complete(gateways'[g].config)
  BY DEF ConfigTypes
<1>2. ASSUME NEW patch, Put(patch) PROVE ConfigTypes' /\ TruthInv'
  <2> DEFINE config == DeepMerge(gateways[serving].config, patch)
             x == [kind |-> "put", at |-> "stop", gw |-> serving, config |-> config]
  <2>1. Request("put", "stop", config) /\ UNCHANGED <<nodeVars, cfgFile>>
    BY <1>2 DEF Put
  <2>2. Complete(config)
    BY DEF Complete, DeepMerge
  <2> HIDE DEF config
  <2>3. serving' = serving /\ UNCHANGED gateways /\ UNCHANGED attached
    BY <2>1 DEF nodeVars
  <2>4. "stop" \notin Ended
    BY DEF Ended
  <2>5. /\ requests'[n] = x /\ ConfigTypes'
        /\ (AllAttached /\ LiveIs(cfgFile) => Stage(n)') => TruthInv'
    BY <1>1, <1>w, <2>1, <2>2, <2>3, <2>4, RequestOpens
  <2>6. ASSUME AllAttached PROVE Stage(n)'
    <3>1. AllAttached'
      BY <2>3, <2>6 DEF AllAttached
    <3>2. Restarting(requests[n])'
      BY <2>2, <2>5, <3>1 DEF Restarting
    <3>3. QED BY <3>2 DEF Stage
  <2>7. QED BY <2>5, <2>6
<1>3. CASE PutInvalid
  <2>1. /\ Request("put", "done", gateways[serving].config)
        /\ UNCHANGED <<serving, gateways, attached, cfgFile>>
    BY <1>3 DEF PutInvalid, nodeVars
  <2>2. "done" \in Ended
    BY DEF Ended
  <2>3. /\ ConfigTypes'
        /\ (AllAttached /\ LiveIs(cfgFile) => AllAttached' /\ LiveIs(cfgFile)') => TruthInv'
    BY <1>1, <1>w, <2>1, <2>2, RequestOpens
  <2>4. AllAttached /\ LiveIs(cfgFile) => AllAttached' /\ LiveIs(cfgFile)'
    BY <2>1 DEF AllAttached, LiveIs
  <2>5. QED BY <2>3, <2>4
<1>4. ASSUME NEW v, EditCapability(v) PROVE ConfigTypes' /\ TruthInv'
  <2> DEFINE config == [s \in {"identification"} |-> v]
             x == [kind |-> "capability", at |-> "set", gw |-> serving, config |-> config]
  <2>1. /\ Request("capability", "set", config)
        /\ UNCHANGED <<serving, gateways, attached, cfgFile>>
    BY <1>4 DEF EditCapability, nodeVars
  <2>2. DOMAIN config = {"identification"} /\ "set" \notin Ended
    BY DEF Ended
  <2> HIDE DEF config
  <2>3. /\ requests'[n] = x /\ ConfigTypes'
        /\ (AllAttached /\ LiveIs(cfgFile) => Stage(n)') => TruthInv'
    BY <1>1, <1>w, <2>1, <2>2, RequestOpens
  <2>4. ASSUME AllAttached, LiveIs(cfgFile) PROVE Stage(n)'
    <3>1. AllAttached' /\ LiveIs(cfgFile)'
      BY <2>1, <2>4 DEF AllAttached, LiveIs
    <3>2. Editing(requests[n])'
      BY <2>1, <2>2, <2>3, <3>1 DEF Editing
    <3>3. QED BY <3>2 DEF Stage
  <2>5. QED BY <2>3, <2>4
<1>5. ASSUME NEW v, EditServers(v) PROVE ConfigTypes' /\ TruthInv'
  <2> DEFINE config == [s \in {"servers"} |-> v]
             x == [kind |-> "servers", at |-> "reconcile", gw |-> serving, config |-> config]
             edited == [gateways[serving].config EXCEPT !["servers"] = v]
             node == [gateways[serving] EXCEPT !.config = edited]
  <2>1. /\ Request("servers", "reconcile", config)
        /\ gateways' = [gateways EXCEPT ![serving].config["servers"] = v]
        /\ UNCHANGED <<serving, attached, cfgFile>>
    BY <1>5 DEF EditServers
  <2>2. serving \in DOMAIN gateways
    BY <2>1, NodeFacts DEF NodeTypes, Request
  <2>3. gateways' = [gateways EXCEPT ![serving] = node]
    BY <2>1
  <2>4. /\ DOMAIN config = {"servers"} /\ config["servers"] = v /\ "reconcile" \notin Ended
    BY DEF Ended
  <2>5. /\ Complete(edited) /\ edited["servers"] = v
        /\ \A s \in Settings : s # "servers" => edited[s] = gateways[serving].config[s]
    <3> DEFINE old == gateways[serving].config
    <3>1. old = [s \in Settings |-> old[s]]
      BY <2>2 DEF ConfigTypes, Complete
    <3> HIDE DEF old
    <3>2. /\ [old EXCEPT !["servers"] = v] = [s \in Settings |-> IF s = "servers" THEN v ELSE old[s]]
      BY <3>1
    <3>3. edited = [s \in Settings |-> IF s = "servers" THEN v ELSE old[s]]
      BY <3>2 DEF old
    <3> HIDE DEF edited
    <3>4. QED BY <3>3 DEF Complete, Settings, old
  <2> HIDE DEF edited, config
  <2>6. /\ {"up", "config", "emit", "addr", "relays"} \subseteq DOMAIN node
        /\ node.config = edited /\ node.emit = gateways[serving].emit
    BY <2>2 DEF ConfigTypes
  <2> HIDE DEF node
  <2>7. /\ DOMAIN gateways' = DOMAIN gateways /\ gateways'[serving] = node
        /\ \A h \in DOMAIN gateways : h # serving => gateways'[h] = gateways[h]
    BY <2>2, <2>3, OneChanged DEF NodeTypes
  <2>8. \A g \in DOMAIN gateways' :
             /\ {"up", "config", "emit", "addr", "relays"} \subseteq DOMAIN gateways'[g]
             /\ Complete(gateways'[g].config)
    BY <2>5, <2>6, <2>7 DEF ConfigTypes
  <2>9. /\ requests'[n] = x /\ ConfigTypes'
        /\ (AllAttached /\ LiveIs(cfgFile) => Stage(n)') => TruthInv'
    BY <1>1, <2>1, <2>4, <2>8, RequestOpens
  <2>10. ASSUME AllAttached, LiveIs(cfgFile) PROVE Stage(n)'
    <3>1. AllAttached'
      BY <2>1, <2>10 DEF AllAttached
    <3>2. ASSUME NEW s \in Settings
          PROVE  Shows(gateways'[serving], s) = IF s \in DOMAIN config THEN config[s] ELSE Says(cfgFile, s)
      <4>1. Shows(gateways[serving], s) = Says(cfgFile, s)
        BY <2>10 DEF LiveIs
      <4>2. QED BY <2>4, <2>5, <2>6, <2>7, <4>1 DEF Shows
    <3>3. LiveEdited(requests[n].config)'
      BY <2>1, <2>9, <3>2 DEF LiveEdited, Says
    <3>4. Editing(requests[n])'
      BY <2>9, <3>1, <3>3 DEF Editing
    <3>5. QED BY <3>4 DEF Stage
  <2>11. QED BY <2>9, <2>10
<1>6. QED BY <1>2, <1>3, <1>4, <1>5

\* A request under way comes to a stage that is not its last.
LEMMA Goes ==
    ASSUME NodeTypes, ConfigTypes, TruthInv, NEW r \in UnderWay, NEW where, where \notin Ended,
           RequestGoes(r, where),
           where \in {"stop", "start"} => requests[r].at \in {"stop", "start"},
           \A g \in DOMAIN gateways' :
             /\ {"up", "config", "emit", "addr", "relays"} \subseteq DOMAIN gateways'[g]
             /\ Complete(gateways'[g].config),
           interleaved' = interleaved, failures' = failures, serving' # 0
    PROVE  /\ requests'[r].kind = requests[r].kind /\ requests'[r].gw = requests[r].gw
           /\ requests'[r].config = requests[r].config /\ requests'[r].at = where
           /\ (serving # 0 /\ Stage(r) => Stage(r)') => ConfigTypes' /\ TruthInv'
<1> DEFINE x == [requests[r] EXCEPT !.at = where]
<1>1. /\ {"kind", "at", "gw", "config"} \subseteq DOMAIN requests[r] /\ r \in DOMAIN requests
      /\ requests[r].at \in {"stop", "start"} => Complete(requests[r].config)
  BY DEF NodeTypes, ConfigTypes, UnderWay
<1>2. requests' = [requests EXCEPT ![r] = x]
  BY DEF RequestGoes
<1>3. /\ "config" \in DOMAIN x /\ x.at = where /\ x.kind = requests[r].kind
      /\ x.gw = requests[r].gw /\ x.config = requests[r].config
  BY <1>1
<1> HIDE DEF x
<1>4. requests'[r] = x
  BY <1>2, MovesOn
<1>5. x.at \notin Ended /\ (x.at \in {"stop", "start"} => Complete(x.config))
  BY <1>1, <1>3
<1>6. (serving # 0 /\ Stage(r) => Stage(r)') => ConfigTypes' /\ TruthInv'
  BY <1>2, <1>3, <1>5, StageFollows
<1>7. QED BY <1>3, <1>4, <1>6

\* The last stage of a request: it has failed, or what it leaves is in order.
LEMMA GoesLast ==
    ASSUME NodeTypes, ConfigTypes, TruthInv, NEW r \in UnderWay, NEW where \in Ended,
           RequestGoes(r, where),
           \A g \in DOMAIN gateways' :
             /\ {"up", "config", "emit", "addr", "relays"} \subseteq DOMAIN gateways'[g]
             /\ Complete(gateways'[g].config),
           serving' = serving,
           \/ failures' # 0
           \/ /\ interleaved' = interleaved /\ failures' = failures
              /\ serving # 0 /\ Stage(r) => AllAttached' /\ LiveIs(cfgFile)'
    PROVE  ConfigTypes' /\ TruthInv'
<1> DEFINE x == [requests[r] EXCEPT !.at = where]
<1>1. {"kind", "at", "gw", "config"} \subseteq DOMAIN requests[r] /\ r \in DOMAIN requests
  BY DEF NodeTypes, ConfigTypes, UnderWay
<1>2. requests' = [requests EXCEPT ![r] = x]
  BY DEF RequestGoes
<1>3. "config" \in DOMAIN x /\ x.at = where
  BY <1>1
<1> HIDE DEF x
<1>4. /\ DOMAIN requests' = DOMAIN requests /\ requests'[r] = x
      /\ \A q \in DOMAIN requests : q # r => requests'[q] = requests[q]
      /\ UnderWay' = UnderWay \ {r}
  BY <1>2, <1>3, MovesOn
<1>5. serving # 0
  BY DEF ConfigTypes
<1>6. where \notin {"stop", "start"}
  BY DEF Ended
<1>7. ConfigTypes'
  BY <1>3, <1>4, <1>5, <1>6 DEF ConfigTypes
<1>8. TruthInv'
  <2> SUFFICES ASSUME ~ interleaved', failures' = 0
               PROVE  UnderWay' = {} /\ AllAttached' /\ LiveIs(cfgFile)'
    BY DEF TruthInv
  <2>1. UnderWay = {r} /\ Stage(r)
    BY <1>5 DEF TruthInv
  <2>2. QED BY <1>4, <1>5, <2>1
<1>9. QED BY <1>7, <1>8

LEMMA RestartKeepsTruth ==
    ASSUME NodeTypes, ConfigTypes, TruthInv, NEW r \in UnderWay,
           StopOld(r) \/ StartNew(r) \/ Identify(r)
    PROVE  ConfigTypes' /\ TruthInv'
<1>1. /\ r \in DOMAIN requests /\ requests[r].gw \in DOMAIN gateways
      /\ {"kind", "at", "gw", "config"} \subseteq DOMAIN requests[r]
      /\ serving \in DOMAIN gateways /\ serving # 0 /\ failures \in Nat
      /\ DOMAIN gateways \subseteq Nat \ {0}
  BY NodeFacts DEF NodeTypes, ConfigTypes, UnderWay
<1>w. UNCHANGED gateways =>
        \A g \in DOMAIN gateways' :
             /\ {"up", "config", "emit", "addr", "relays"} \subseteq DOMAIN gateways'[g]
             /\ Complete(gateways'[g].config)
  BY DEF ConfigTypes
<1>2. CASE StopOld(r)
  <2> DEFINE g == requests[r].gw
             x == [gateways[g] EXCEPT !.up = FALSE]
  <2>1. /\ requests[r].at = "stop" /\ RequestGoes(r, "start")
        /\ gateways' = [gateways EXCEPT ![g] = x]
        /\ UNCHANGED <<serving, attached, cfgFile, interleaved, failures>>
    BY <1>2 DEF StopOld, RequestAt
  <2>2. /\ {"up", "config", "emit", "addr", "relays"} \subseteq DOMAIN x
        /\ x.config = gateways[g].config /\ x.emit = gateways[g].emit
    BY <1>1 DEF ConfigTypes
  <2> HIDE DEF x
  <2>3. NodesKept /\ DOMAIN gateways' = DOMAIN gateways
    BY <1>1, <2>1, <2>2, OneKept
  <2>4. "start" \notin Ended
    BY DEF Ended
  <2>5. /\ requests'[r].kind = requests[r].kind
        /\ requests'[r].config = requests[r].config /\ requests'[r].at = "start"
        /\ (serving # 0 /\ Stage(r) => Stage(r)') => ConfigTypes' /\ TruthInv'
    BY <1>1, <2>1, <2>3, <2>4, KeptWhole, Goes
  <2>6. ASSUME Stage(r) PROVE Stage(r)'
    <3>1. Restarting(requests[r]) /\ AllAttached
      BY <2>1, <2>6 DEF Stage, Restarting, Editing, Saving
    <3>2. AllAttached'
      BY <2>1, <3>1 DEF AllAttached
    <3>3. Restarting(requests[r])'
      BY <2>5, <3>1, <3>2 DEF Restarting
    <3>4. QED BY <3>3 DEF Stage
  <2>7. QED BY <2>5, <2>6
<1>3. CASE StartNew(r)
  <2> DEFINE config == requests[r].config
             n == Len(gateways) + 1
             x == [requests[r] EXCEPT !.at = "identify", !.gw = n]
  <2>1. /\ requests[r].at = "start"
        /\ UNCHANGED <<serving, attached, cfgFile, interleaved>>
    BY <1>3 DEF StartNew, RequestAt
  <2>2. CASE ~ Startable(config)
    <3>1. RequestGoes(r, "failed") /\ failures' = failures + 1 /\ UNCHANGED gateways
      BY <1>3, <2>2 DEF StartNew, PutFails
    <3>2. "failed" \in Ended /\ failures' # 0
      BY <1>1, <3>1 DEF Ended
    <3>3. QED BY <1>w, <2>1, <3>1, <3>2, GoesLast
  <2>3. CASE Startable(config)
    <3>1. PICK addr \in Addresses : gateways' = Append(gateways, Build(config, addr))
      BY <1>3, <2>3 DEF StartNew
    <3> DEFINE node == Build(config, addr)
    <3>2. requests' = [requests EXCEPT ![r] = x] /\ failures' = failures
      BY <1>3, <2>3 DEF StartNew
    <3>3. /\ "config" \in DOMAIN x /\ x.at = "identify" /\ x.kind = requests[r].kind
          /\ x.gw = n /\ x.config = config
      BY <1>1
    <3>4. /\ {"up", "config", "emit", "addr", "relays"} \subseteq DOMAIN node
          /\ node.config = config /\ node.emit = config["identification"]
      BY DEF Build
    <3> HIDE DEF node, x
    <3>5. /\ DOMAIN gateways' = DOMAIN gateways \cup {n} /\ n \notin DOMAIN gateways
          /\ gateways'[n] = node
          /\ \A g \in DOMAIN gateways : gateways'[g] = gateways[g]
      BY <3>1, AppendAny DEF NodeTypes, node
    <3> HIDE DEF n
    <3>6. Complete(config)
      BY <1>1, <2>1 DEF ConfigTypes
    <3>7. \A g \in DOMAIN gateways' :
             /\ {"up", "config", "emit", "addr", "relays"} \subseteq DOMAIN gateways'[g]
             /\ Complete(gateways'[g].config)
      BY <3>4, <3>5, <3>6 DEF ConfigTypes
    <3>8. x.at \notin Ended /\ x.at \notin {"stop", "start"}
      BY <3>3 DEF Ended
    <3>9. requests'[r] = x
      BY <3>2, MovesOn
    <3>10. ASSUME Stage(r) PROVE Stage(r)'
      <4>1. Restarting(requests[r]) /\ AllAttached
        BY <2>1, <3>10 DEF Stage, Restarting, Editing, Saving
      <4>2. AllAttached'
        BY <2>1, <4>1 DEF AllAttached
      <4>3. \A s \in Settings : Shows(gateways'[n], s) = config[s]
        BY <3>4, <3>5 DEF Shows
      <4>4. Built(requests[r])'
        BY <3>3, <3>9, <4>3 DEF Built
      <4>5. Restarting(requests[r])'
        BY <3>3, <3>6, <3>9, <4>1, <4>2, <4>4 DEF Restarting
      <4>6. QED BY <4>5 DEF Stage
    <3>11. serving' # 0
      BY <1>1, <2>1
    <3>12. QED BY <2>1, <3>2, <3>3, <3>7, <3>8, <3>10, <3>11, StageFollows
  <2>4. QED BY <2>2, <2>3
<1>4. CASE Identify(r)
  <2> DEFINE g == requests[r].gw
  <2>1. requests[r].at = "identify" /\ UNCHANGED <<cfgFile, interleaved>>
    BY <1>4 DEF Identify, RequestAt
  <2>2. CASE gateways[g].emit = "off"
    <3>1. /\ RequestGoes(r, "failed") /\ failures' = failures + 1
          /\ UNCHANGED <<gateways, serving, attached>>
      BY <1>4, <2>2 DEF Identify, PutFails
    <3>2. "failed" \in Ended /\ failures' # 0
      BY <1>1, <3>1 DEF Ended
    <3>3. QED BY <1>w, <3>1, <3>2, GoesLast
  <2>3. CASE gateways[g].emit # "off"
    <3>1. /\ serving' = g /\ Attach(g, {"servers"}, gateways)
          /\ RequestGoes(r, "reconcile") /\ failures' = failures
      BY <1>4, <2>3 DEF Identify
    <3>2. /\ NodesKept /\ DOMAIN gateways' = DOMAIN gateways
          /\ attached' = [m \in Managers |-> IF m \in {"servers"} THEN g ELSE attached[m]]
      BY <1>1, <3>1, AttachKept
    <3>3. "reconcile" \notin Ended /\ serving' # 0 /\ "servers" \in Managers
      BY <1>1, <3>1 DEF Ended, Managers
    <3>4. /\ requests'[r].kind = requests[r].kind /\ requests'[r].gw = g
          /\ requests'[r].config = requests[r].config /\ requests'[r].at = "reconcile"
          /\ (serving # 0 /\ Stage(r) => Stage(r)') => ConfigTypes' /\ TruthInv'
      BY <2>1, <3>1, <3>2, <3>3, KeptWhole, Goes
    <3>5. ASSUME Stage(r) PROVE Stage(r)'
      <4>1. Restarting(requests[r]) /\ Built(requests[r])
        BY <2>1, <3>5 DEF Stage, Restarting, Editing, Saving
      <4>2. Built(requests[r])'
        BY <1>1, <3>2, <3>4, <4>1 DEF Built, NodesKept, Shows
      <4>3. Restarting(requests[r])'
        BY <3>1, <3>2, <3>3, <3>4, <4>1, <4>2 DEF Restarting
      <4>4. QED BY <4>3 DEF Stage
    <3>6. QED BY <3>4, <3>5
  <2>4. QED BY <2>2, <2>3
<1>5. QED BY <1>2, <1>3, <1>4

LEMMA SavesKeepTruth ==
    ASSUME NodeTypes, ConfigTypes, TruthInv, NEW r \in UnderWay,
           \/ ServersReconciled(r)
           \/ EudReconfigured(r)
           \/ SetMatrix(r)
           \/ Load(r)
           \/ Truncate(r)
           \/ Write(r)
    PROVE  ConfigTypes' /\ TruthInv'
<1>1. /\ r \in DOMAIN requests /\ requests[r].gw \in DOMAIN gateways
      /\ {"kind", "at", "gw", "config"} \subseteq DOMAIN requests[r]
      /\ serving \in DOMAIN gateways /\ serving # 0
      /\ "load" \notin Ended /\ "eud" \notin Ended /\ "stored" \notin Ended
      /\ "write" \notin Ended /\ "done" \in Ended
  BY NodeFacts DEF NodeTypes, ConfigTypes, UnderWay, Ended
<1>w. UNCHANGED gateways =>
        \A g \in DOMAIN gateways' :
             /\ {"up", "config", "emit", "addr", "relays"} \subseteq DOMAIN gateways'[g]
             /\ Complete(gateways'[g].config)
  BY DEF ConfigTypes
<1>2. CASE ServersReconciled(r)
  <2> DEFINE g == requests[r].gw
  <2>1. /\ requests[r].at = "reconcile"
        /\ UNCHANGED <<serving, cfgFile, interleaved, failures>>
    BY <1>2 DEF ServersReconciled, RequestAt
  <2>2. CASE requests[r].kind = "put"
    <3>1. Attach(g, {"eud"}, gateways) /\ RequestGoes(r, "eud")
      BY <1>2, <2>2 DEF ServersReconciled
    <3>2. /\ NodesKept /\ DOMAIN gateways' = DOMAIN gateways
          /\ attached' = [m \in Managers |-> IF m \in {"eud"} THEN g ELSE attached[m]]
      BY <1>1, <3>1, AttachKept
    <3>3. /\ requests'[r].kind = requests[r].kind /\ requests'[r].gw = g
          /\ requests'[r].config = requests[r].config /\ requests'[r].at = "eud"
          /\ (serving # 0 /\ Stage(r) => Stage(r)') => ConfigTypes' /\ TruthInv'
      BY <1>1, <2>1, <3>1, <3>2, KeptWhole, Goes
    <3>4. ASSUME Stage(r) PROVE Stage(r)'
      <4>1. /\ Complete(requests[r].config) /\ g = serving
            /\ attached["servers"] = serving /\ Built(requests[r])
        BY <2>1, <2>2, <3>4 DEF Stage, Restarting, Editing, Saving
      <4>2. Built(requests[r])'
        BY <1>1, <3>2, <3>3, <4>1 DEF Built, NodesKept, Shows
      <4>3. AllAttached'
        BY <2>1, <3>2, <4>1 DEF AllAttached, Managers
      <4>4. Restarting(requests[r])'
        BY <2>1, <2>2, <3>3, <4>1, <4>2, <4>3 DEF Restarting
      <4>5. QED BY <4>4 DEF Stage
    <3>5. QED BY <3>3, <3>4
  <2>3. CASE requests[r].kind # "put"
    <3>1. RequestGoes(r, "load") /\ UNCHANGED <<gateways, attached>>
      BY <1>2, <2>3 DEF ServersReconciled
    <3>2. /\ requests'[r].kind = requests[r].kind
          /\ requests'[r].config = requests[r].config /\ requests'[r].at = "load"
          /\ (serving # 0 /\ Stage(r) => Stage(r)') => ConfigTypes' /\ TruthInv'
      BY <1>1, <1>w, <2>1, <3>1, Goes
    <3>3. ASSUME Stage(r) PROVE Stage(r)'
      <4>1. AllAttached /\ LiveEdited(requests[r].config)
        BY <2>1, <2>3, <3>3 DEF Stage, Restarting, Editing, Saving
      <4>2. AllAttached' /\ LiveEdited(requests[r].config)'
        BY <2>1, <3>1, <3>2, <4>1 DEF AllAttached, LiveEdited
      <4>3. Editing(requests[r])'
        BY <2>3, <3>2, <4>2 DEF Editing
      <4>4. QED BY <4>3 DEF Stage
    <3>4. QED BY <3>2, <3>3
  <2>4. QED BY <2>2, <2>3
<1>3. CASE EudReconfigured(r)
  <2>1. /\ requests[r].at = "eud" /\ RequestGoes(r, "stored")
        /\ UNCHANGED <<gateways, attached, serving, cfgFile, interleaved, failures>>
    BY <1>3 DEF EudReconfigured, RequestAt, nodeVars
  <2>2. /\ requests'[r].config = requests[r].config /\ requests'[r].at = "stored"
        /\ (serving # 0 /\ Stage(r) => Stage(r)') => ConfigTypes' /\ TruthInv'
    BY <1>1, <1>w, <2>1, Goes
  <2>3. ASSUME Stage(r) PROVE Stage(r)'
    <3>1. /\ Complete(requests[r].config) /\ requests[r].gw = serving
          /\ AllAttached /\ Built(requests[r])
      BY <2>1, <2>3 DEF Stage, Restarting, Editing, Saving
    <3>2. DOMAIN requests[r].config = Settings
      BY <3>1 DEF Complete
    <3>3. LiveIs(requests[r].config)
      BY <3>1, <3>2 DEF LiveIs, Built, Says
    <3>4. AllAttached' /\ LiveIs(requests[r].config)'
      BY <2>1, <2>2, <3>1, <3>3 DEF AllAttached, LiveIs
    <3>5. Saving(requests[r])'
      BY <2>2, <3>4 DEF Saving
    <3>6. QED BY <3>5 DEF Stage
  <2>4. QED BY <2>2, <2>3
<1>4. CASE SetMatrix(r)
  <2> DEFINE g == requests[r].gw
             v == requests[r].config["identification"]
             x == [gateways[g] EXCEPT !.emit = v]
  <2>1. /\ requests[r].at = "set" /\ RequestGoes(r, "load")
        /\ gateways' = [gateways EXCEPT ![g] = x]
        /\ UNCHANGED <<serving, attached, cfgFile, interleaved, failures>>
    BY <1>4 DEF SetMatrix, RequestAt
  <2>2. /\ {"up", "config", "emit", "addr", "relays"} \subseteq DOMAIN x
        /\ x.config = gateways[g].config /\ x.emit = v
    BY <1>1 DEF ConfigTypes
  <2> HIDE DEF x
  <2>3. /\ DOMAIN gateways' = DOMAIN gateways /\ gateways'[g] = x
        /\ \A h \in DOMAIN gateways : h # g => gateways'[h] = gateways[h]
    BY <1>1, <2>1, OneChanged DEF NodeTypes
  <2>4. \A h \in DOMAIN gateways' :
             /\ {"up", "config", "emit", "addr", "relays"} \subseteq DOMAIN gateways'[h]
             /\ Complete(gateways'[h].config)
    BY <1>1, <2>2, <2>3 DEF ConfigTypes
  <2>5. /\ requests'[r].kind = requests[r].kind
        /\ requests'[r].config = requests[r].config /\ requests'[r].at = "load"
        /\ (serving # 0 /\ Stage(r) => Stage(r)') => ConfigTypes' /\ TruthInv'
    BY <1>1, <2>1, <2>4, Goes
  <2>6. ASSUME Stage(r) PROVE Stage(r)'
    <3>1. /\ requests[r].kind = "capability" /\ g = serving /\ AllAttached
          /\ DOMAIN requests[r].config = {"identification"} /\ LiveIs(cfgFile)
      BY <2>1, <2>6 DEF Stage, Restarting, Editing, Saving
    <3>2. ASSUME NEW s \in Settings
          PROVE  Shows(gateways'[serving], s) =
                   IF s \in DOMAIN requests[r].config THEN requests[r].config[s] ELSE Says(cfgFile, s)
      <4>1. Shows(gateways[serving], s) = Says(cfgFile, s)
        BY <3>1 DEF LiveIs
      <4>2. QED BY <2>2, <2>3, <3>1, <4>1 DEF Shows
    <3>3. AllAttached' /\ LiveEdited(requests[r].config)'
      BY <2>1, <2>5, <3>1, <3>2 DEF AllAttached, LiveEdited, Says
    <3>4. Editing(requests[r])'
      BY <2>5, <3>1, <3>3 DEF Editing
    <3>5. QED BY <3>4 DEF Stage
  <2>7. QED BY <2>5, <2>6
<1>5. CASE Load(r)
  <2> DEFINE f == requests[r].config
             whole == [s \in DOMAIN cfgFile \cup DOMAIN f |->
                         IF s \in DOMAIN f THEN f[s] ELSE cfgFile[s]]
             loaded == [requests[r] EXCEPT !.config = whole]
             x == [loaded EXCEPT !.at = "stored"]
  <2>1. /\ requests[r].at = "load"
        /\ UNCHANGED <<gateways, attached, serving, cfgFile, interleaved, failures>>
    BY <1>5, Zenon DEF Load, RequestAt, nodeVars
  <2>2. requests' = [requests EXCEPT ![r] = x]
    BY <1>1, <1>5, Zenon DEF Load
  <2>3. loaded.config = whole /\ {"kind", "at", "gw", "config"} \subseteq DOMAIN loaded
    BY <1>1
  <2>q. \A s \in Settings : Says(whole, s) = IF s \in DOMAIN f THEN f[s] ELSE Says(cfgFile, s)
    BY SectionsSay
  <2> HIDE DEF whole, loaded
  <2>4. "config" \in DOMAIN x /\ x.config = whole /\ x.at = "stored"
    BY <2>3
  <2> HIDE DEF x
  <2>5. requests'[r] = x
    BY <2>2, MovesOn
  <2>6. ASSUME Stage(r) PROVE Stage(r)'
    <3>1. AllAttached /\ LiveEdited(f)
      BY <2>1, <2>6 DEF Stage, Restarting, Editing, Saving
    <3>2. LiveIs(whole)
      BY <2>q, <3>1 DEF LiveIs, LiveEdited
    <3>3. AllAttached' /\ LiveIs(requests[r].config)'
      BY <2>1, <2>4, <2>5, <3>1, <3>2 DEF AllAttached, LiveIs
    <3>4. Saving(requests[r])'
      BY <2>4, <2>5, <3>3 DEF Saving
    <3>5. QED BY <3>4 DEF Stage
  <2>7. x.at \notin Ended /\ x.at \notin {"stop", "start"} /\ serving' # 0
    BY <1>1, <2>1, <2>4
  <2>8. /\ \A g \in DOMAIN gateways' :
             /\ {"up", "config", "emit", "addr", "relays"} \subseteq DOMAIN gateways'[g]
             /\ Complete(gateways'[g].config)
        /\ interleaved' = interleaved /\ failures' = failures
        /\ "config" \in DOMAIN x /\ (x.at \in {"stop", "start"} => Complete(x.config))
    BY <1>w, <2>1, <2>4, <2>7
  <2>9. QED BY <2>2, <2>6, <2>7, <2>8, StageFollows, Zenon
<1>6. CASE Truncate(r)
  <2>1. /\ requests[r].at = "stored" /\ RequestGoes(r, "write")
        /\ UNCHANGED <<gateways, attached, serving, interleaved, failures>>
    BY <1>6 DEF Truncate, RequestAt, nodeVars
  <2>2. /\ requests'[r].config = requests[r].config /\ requests'[r].at = "write"
        /\ (serving # 0 /\ Stage(r) => Stage(r)') => ConfigTypes' /\ TruthInv'
    BY <1>1, <1>w, <2>1, Goes
  <2>3. ASSUME Stage(r) PROVE Stage(r)'
    <3>1. AllAttached /\ LiveIs(requests[r].config)
      BY <2>1, <2>3 DEF Stage, Restarting, Editing, Saving
    <3>2. AllAttached' /\ LiveIs(requests[r].config)'
      BY <2>1, <2>2, <3>1 DEF AllAttached, LiveIs
    <3>3. Saving(requests[r])'
      BY <2>2, <3>2 DEF Saving
    <3>4. QED BY <3>3 DEF Stage
  <2>4. QED BY <2>2, <2>3
<1>7. CASE Write(r)
  <2>1. /\ requests[r].at = "write" /\ RequestGoes(r, "done")
        /\ cfgFile' = requests[r].config
        /\ UNCHANGED <<gateways, attached, serving, interleaved, failures>>
    BY <1>7 DEF Write, RequestAt, nodeVars
  <2>2. ASSUME Stage(r) PROVE AllAttached' /\ LiveIs(cfgFile)'
    <3>1. AllAttached /\ LiveIs(requests[r].config)
      BY <2>1, <2>2 DEF Stage, Restarting, Editing, Saving
    <3>2. QED BY <2>1, <3>1 DEF AllAttached, LiveIs
  <2>3. QED BY <1>1, <1>w, <2>1, <2>2, GoesLast
<1>8. QED BY <1>2, <1>3, <1>4, <1>5, <1>6, <1>7

LEMMA CrashKeepsTruth ==
    ASSUME NodeTypes, ConfigTypes, Crash
    PROVE  ConfigTypes' /\ TruthInv'
<1> DEFINE file == Filled(cfgFile)
           down == [k \in DOMAIN gateways |-> [gateways[k] EXCEPT !.up = FALSE]]
           ended == [r \in DOMAIN requests |->
                       [requests[r] EXCEPT !.at = IF @ \in Ended THEN @ ELSE "done"]]
<1>1. /\ requests' = ended /\ UNCHANGED cfgFile
      /\ gateways \in Seq(Range(gateways)) /\ Len(gateways) \in Nat
  BY DEF Crash, NodeTypes
<1>2. /\ DOMAIN down = DOMAIN gateways
      /\ \A k \in DOMAIN gateways :
           /\ {"up", "config", "emit", "addr", "relays"} \subseteq DOMAIN down[k]
           /\ Complete(down[k].config)
  BY DEF ConfigTypes
<1>3. /\ DOMAIN ended = DOMAIN requests
      /\ \A r \in DOMAIN requests : "config" \in DOMAIN ended[r] /\ ended[r].at \in Ended
  BY DEF ConfigTypes, NodeTypes, Ended
<1>4. Complete(file) /\ \A s \in Settings : file[s] = Says(cfgFile, s)
  BY SMTT(30) DEF Complete, Filled, Says
<1>d. down \in Seq(Range(down)) /\ Len(down) = Len(gateways)
  BY <1>1, <1>2, SequenceAny
<1> HIDE DEF ended, down, file
<1>5. UnderWay' = {} /\ \A r \in DOMAIN requests' : "config" \in DOMAIN requests'[r]
                                                   /\ requests'[r].at \notin {"stop", "start"}
  BY <1>1, <1>3 DEF UnderWay, Ended
<1>6. PICK n : n = Len(gateways) + 1
  OBVIOUS
<1> DEFINE fresh == [Build(file, n) EXCEPT !.relays = Managers]
<1>7. /\ {"up", "config", "emit", "addr", "relays"} \subseteq DOMAIN fresh
      /\ fresh.config = file /\ fresh.emit = file["identification"]
  BY DEF Build
<1>8. \/ /\ gateways' = Append(down, fresh) /\ serving' = n
         /\ attached' = [m \in Managers |-> n]
      \/ gateways' = down /\ serving' = 0
  BY <1>6 DEF Crash, down, file
<1> HIDE DEF fresh
<1>9. CASE gateways' = Append(down, fresh) /\ serving' = n /\ attached' = [m \in Managers |-> n]
  <2>1. /\ DOMAIN gateways' = DOMAIN down \cup {n} /\ n \notin DOMAIN down
        /\ gateways'[n] = fresh
        /\ \A g \in DOMAIN down : gateways'[g] = down[g]
    BY <1>d, <1>6, <1>9, AppendAny
  <2>2. ConfigTypes'
    BY <1>2, <1>4, <1>5, <1>7, <2>1 DEF ConfigTypes
  <2>3. \A s \in Settings : Shows(gateways'[serving'], s) = Says(cfgFile', s)
    BY <1>1, <1>4, <1>7, <1>9, <2>1 DEF Shows
  <2>4. LiveIs(cfgFile)' /\ AllAttached'
    BY <1>9, <2>3 DEF LiveIs, AllAttached, Says
  <2>5. QED BY <1>5, <2>2, <2>4 DEF TruthInv
<1>10. CASE gateways' = down /\ serving' = 0
  <2>1. ConfigTypes'
    BY <1>2, <1>5, <1>10 DEF ConfigTypes
  <2>2. QED BY <1>10, <2>1 DEF TruthInv
<1>11. QED BY <1>8, <1>9, <1>10

LEMMA NextTruthInv ==
    NodeTypes /\ ConfigTypes /\ TruthInv /\ [ReconfigureNext]_reconfigureVars
        => ConfigTypes' /\ TruthInv'
<1> SUFFICES ASSUME NodeTypes, ConfigTypes, TruthInv, [ReconfigureNext]_reconfigureVars
             PROVE  ConfigTypes' /\ TruthInv'
  OBVIOUS
<1>1. CASE UNCHANGED reconfigureVars
  <2>1. UNCHANGED <<gateways, serving, attached, cfgFile, requests, interleaved, failures>>
    BY <1>1 DEF reconfigureVars, nodeVars
  <2>2. UnderWay' = UnderWay
    BY <2>1 DEF UnderWay
  <2>3. ConfigTypes'
    BY <2>1, <2>2 DEF ConfigTypes
  <2>4. \A r \in UnderWay : Stage(r)' <=> Stage(r)
    BY <2>1 DEF Stage, Restarting, Editing, Saving, AllAttached, LiveIs, LiveEdited, Built,
                Shows, Says
  <2>5. AllAttached' = AllAttached /\ LiveIs(cfgFile)' = LiveIs(cfgFile)
    BY <2>1 DEF AllAttached, LiveIs
  <2>6. TruthInv'
    BY <2>1, <2>2, <2>4, <2>5 DEF TruthInv
  <2>7. QED BY <2>3, <2>6
<1>2. CASE ReconfigureNext
  BY <1>2, OpeningsKeepTruth, RestartKeepsTruth, SavesKeepTruth, CrashKeepsTruth
     DEF ReconfigureNext
<1>3. QED BY <1>1, <1>2

\* runtime.py reconfigure, update_config and the edits of one section: through
\* any sequence of requests and crashes in which no two requests were
\* interleaved and none failed, the config file says what is live and both
\* managers are at the serving node.
THEOREM FileSaysLive == ReconfigureSpec => []ReconfiguredTruth
<1>1. ReconfigureSpec => [](ConfigTypes /\ TruthInv)
  <2>1. ReconfigureInit => ConfigTypes /\ TruthInv
    BY InitTruthInv
  <2>2. (NodeTypes /\ NodeTypes') /\ (ConfigTypes /\ TruthInv) /\ [ReconfigureNext]_reconfigureVars
          => (ConfigTypes /\ TruthInv)'
    BY NextTruthInv
  <2>3. ReconfigureSpec => []NodeTypes
    <3>1. ReconfigureInv => NodeTypes
      BY DEF ReconfigureInv
    <3>2. QED BY <3>1, ReconfigureInvariant, PTL
  <2>4. QED BY <2>1, <2>2, <2>3, PTL DEF ReconfigureSpec
<1>2. NodeTypes /\ ConfigTypes /\ TruthInv => ReconfiguredTruth
  <2> SUFFICES ASSUME NodeTypes, ConfigTypes, TruthInv, Settled, ~ interleaved, failures = 0
               PROVE  Filled(cfgFile) = Live /\ \A m \in Managers : attached[m] = serving
    BY DEF ReconfiguredTruth
  <2>1. AllAttached /\ LiveIs(cfgFile) /\ serving # 0
    BY DEF TruthInv, Settled
  <2> DEFINE node == gateways[serving]
             config == node.config
  <2>2. config = [s \in Settings |-> config[s]]
    <3>1. serving \in DOMAIN gateways
      BY <2>1, NodeFacts DEF NodeTypes
    <3>2. QED BY <3>1 DEF ConfigTypes, Complete
  <2>3. Live = [config EXCEPT !["identification"] = node.emit]
    BY DEF Live
  <2>4. \A s \in Settings : Filled(cfgFile)[s] = IF s = "identification" THEN node.emit ELSE config[s]
    BY <2>1 DEF LiveIs, Shows, Says, Filled
  <2>5. Filled(cfgFile) = [s \in Settings |-> Filled(cfgFile)[s]]
    BY DEF Filled
  <2> DEFINE filled == Filled(cfgFile)
  <2> HIDE DEF config, filled
  <2>6. [config EXCEPT !["identification"] = node.emit]
          = [s \in Settings |-> IF s = "identification" THEN node.emit ELSE config[s]]
    BY <2>2
  <2>7. filled = [s \in Settings |-> IF s = "identification" THEN node.emit ELSE config[s]]
    BY <2>4, <2>5 DEF filled
  <2>8. QED BY <2>1, <2>3, <2>6, <2>7 DEF AllAttached, filled, config
<1>3. QED BY <1>1, <1>2, ReconfigureInvariant, PTL DEF ReconfigureInv
-----------------------------------------------------------------------------
(* Types.  The calls and messages of the EUD server are within their bound *)
(* and a socket has a port; a setting has a value of its own wherever it   *)
(* is: in a node, the file, or a request.                                  *)

WorkInv ==
    /\ \A b \in bound : b \in [id : Nat, port : Ports]
    /\ Len(eudCalls) + Len(published) <= MaxWork

\* A step that makes neither a call nor a message.
LEMMA LengthsKept ==
    ASSUME ListenerTypes, FanOutTypes, WorkInv,
           DOMAIN eudCalls' = DOMAIN eudCalls, eudCalls' \in Seq(Calls),
           published' = published,
           \A b \in bound' : b \in [id : Nat, port : Ports]
    PROVE  WorkInv'
<1>1. Len(eudCalls') = Len(eudCalls)
  BY SameLength DEF ListenerTypes
<1>2. QED BY <1>1 DEF WorkInv

LEMMA OneMoreCall ==
    ASSUME ListenerTypes, FanOutTypes, WorkInv, NEW call \in Calls, EudCall(call),
           published' = published, bound' \subseteq bound
    PROVE  WorkInv'
<1>1. Len(eudCalls') = Len(eudCalls) + 1
  BY AppendRange DEF EudCall, ListenerTypes
<1>2. Len(eudCalls) \in Nat /\ Len(published) \in Nat
  BY LenProperties DEF ListenerTypes, FanOutTypes
<1>3. QED BY <1>1, <1>2, EudAssumptions DEF WorkInv, EudCall, WorkLeft

LEMMA OneMoreMessage ==
    ASSUME ListenerTypes, FanOutTypes, WorkInv, NEW from, NEW src, StartFanOut(from, src), WorkLeft,
           UNCHANGED listenerVars
    PROVE  WorkInv'
<1> DEFINE message == [from |-> from, src |-> src, snapshot |-> DOMAIN clients']
           S == Messages \cup {message}
<1>1. published' = Append(published, message)
  BY DEF StartFanOut
<1> HIDE DEF message
<1>2. published \in Seq(S) /\ message \in S
  BY SeqDef, LenProperties DEF FanOutTypes
<1> HIDE DEF S
<1>3. Len(published') = Len(published) + 1
  BY <1>1, <1>2, AppendRange
<1>4. Len(eudCalls) \in Nat /\ Len(published) \in Nat
  BY LenProperties DEF ListenerTypes, FanOutTypes
<1>5. QED BY <1>3, <1>4, EudAssumptions DEF WorkInv, WorkLeft, listenerVars

LEMMA NextWorkInv == ListenerInv /\ FanOutInv /\ WorkInv /\ [EudNext]_eudVars => WorkInv'
<1> SUFFICES ASSUME ListenerInv, FanOutInv, WorkInv, [EudNext]_eudVars PROVE WorkInv'
  OBVIOUS
<1>0. ListenerTypes /\ FanOutTypes
  BY DEF ListenerInv, FanOutInv
<1>1. ASSUME UNCHANGED listenerVars, published' = published PROVE WorkInv'
  BY <1>1 DEF WorkInv, listenerVars
<1>2. ASSUME NEW cfg \in EudConfigs, StopListener(cfg) PROVE WorkInv'
  <2>1. [cfg |-> cfg, at |-> "closing", srv |-> listener] \in Calls
    BY <1>0 DEF Calls, Steps, ListenerTypes
  <2>2. QED BY <1>0, <1>2, <2>1, OneMoreCall DEF StopListener, fanOutVars
<1>3. ASSUME NEW cfg \in EudConfigs, Reapply(cfg) PROVE WorkInv'
  <2>1. [cfg |-> cfg, at |-> NextStep(cfg), srv |-> 0] \in Calls
    BY DEF Calls, Steps, NextStep
  <2>2. QED BY <1>0, <1>3, <2>1, OneMoreCall DEF Reapply, fanOutVars
<1>4. ASSUME NEW k \in EudPending, ListenerClosed(k) \/ Bind(k) \/ BindFails(k) \/ Assign(k)
      PROVE  WorkInv'
  <2>1. PICK a \in Steps : eudCalls' = [eudCalls EXCEPT ![k].at = a]
    BY <1>4 DEF ListenerClosed, Bind, BindFails, Assign, Steps, NextStep
  <2>2. eudCalls' \in Seq(Calls) /\ DOMAIN eudCalls' = DOMAIN eudCalls /\ k \in DOMAIN eudCalls
    BY <1>0, <2>1, CallGoes
  <2>3. published' = published
    BY <1>4 DEF ListenerClosed, Bind, BindFails, Assign, fanOutVars
  <2>4. [id |-> k, port |-> eudCalls[k].cfg.port] \in [id : Nat, port : Ports]
    <3>1. eudCalls[k] \in Calls /\ k \in Nat
      BY <1>0, <2>2, CallsFacts
    <3>2. QED BY <3>1 DEF Calls, EudConfigs
  <2>5. bound' \subseteq bound \cup {[id |-> k, port |-> eudCalls[k].cfg.port]}
    BY <1>4 DEF ListenerClosed, Bind, BindFails, Assign
  <2>6. QED BY <1>0, <2>2, <2>3, <2>4, <2>5, LengthsKept DEF WorkInv
<1>5. ASSUME NEW c \in Conns,
             AcceptClient(c) \/ Register(c) \/ PeerGone(c) \/ Leave(c) \/ IngestOrphan(c)
      PROVE  WorkInv'
  BY <1>1, <1>5 DEF AcceptClient, Register, PeerGone, Leave, IngestOrphan, fanOutVars
<1>6. ASSUME NEW c \in Conns, NEW self \in BOOLEAN, IngestEvent(c, self) \/ IngestRefused(c, self)
      PROVE  WorkInv'
  <2>1. CASE IngestEvent(c, self)
    BY <1>0, <2>1, OneMoreMessage DEF IngestEvent
  <2>2. CASE IngestRefused(c, self)
    BY <1>1, <2>2 DEF IngestRefused, fanOutVars
  <2>3. QED BY <1>6, <2>1, <2>2
<1>7. CASE FromNetwork
  BY <1>0, <1>7, OneMoreMessage DEF FromNetwork
<1>8. ASSUME NEW m \in DOMAIN fanOuts, NEW c \in fanOuts[m],
             Skip(m, c) \/ SendFrame(m, c) \/ SendFrameFails(m, c)
      PROVE  WorkInv'
  BY <1>1, <1>8 DEF Skip, SendFrame, SendFrameFails
<1>9. ASSUME NEW m \in DOMAIN fanOuts, FanOutEnds(m) PROVE WorkInv'
  BY <1>1, <1>9 DEF FanOutEnds
<1>10. CASE UNCHANGED eudVars
  BY <1>1, <1>10 DEF eudVars, fanOutVars
<1>11. QED
  BY <1>2, <1>3, <1>4, <1>5, <1>6, <1>7, <1>8, <1>9, <1>10 DEF EudNext

LEMMA EudTypes == EudSpec => []EudTypeOK
<1>1. EudInit => WorkInv
  BY EudAssumptions DEF EudInit, WorkInv
<1>2. ListenerInv /\ FanOutInv /\ WorkInv => EudTypeOK
  <2> SUFFICES ASSUME ListenerInv, FanOutInv, WorkInv PROVE EudTypeOK
    OBVIOUS
  <2>1. ListenerTypes /\ FanOutTypes /\ BoundInv
    BY DEF ListenerInv, FanOutInv
  <2>2. /\ DOMAIN eudCalls = 1 .. Len(eudCalls) /\ Len(eudCalls) \in Nat
        /\ Len(published) \in Nat
    BY <2>1, CallsFacts, LenProperties DEF FanOutTypes
  <2>3. Len(eudCalls) <= MaxWork /\ MaxWork \in Nat
    BY <2>2, EudAssumptions DEF WorkInv
  <2>4. \A k \in DOMAIN eudCalls : k \in 1 .. MaxWork
    BY <2>2, <2>3
  <2>5. listener \in 0 .. MaxWork
    BY <2>1, <2>3, <2>4 DEF BoundInv, ListenerTypes
  <2>6. bound \subseteq [id : 1 .. MaxWork, port : Ports]
    BY <2>1, <2>4 DEF BoundInv, WorkInv
  <2>7. QED BY <2>1, <2>5, <2>6 DEF EudTypeOK, ListenerTypes, FanOutTypes, Phases, Early
<1>3. EudSpec => []ListenerInv
  BY InitListenerInv, NextListenerInv, FanOutInvariant, PTL DEF EudSpec
<1>4. QED BY <1>1, <1>2, <1>3, NextWorkInv, FanOutInvariant, PTL DEF EudSpec

\* Settings as a file, a request or a node may have them.
SettingsOf(f) == DOMAIN f \subseteq Settings /\ \A s \in DOMAIN f : f[s] \in Values[s]
NodeOf(x) == x.relays \subseteq Managers /\ \A s \in Settings : x.config[s] \in Values[s]

ValuesInv ==
    /\ \A g \in DOMAIN gateways : NodeOf(gateways[g])
    /\ attached \in [Managers -> DOMAIN gateways]
    /\ SettingsOf(cfgFile)
    /\ \A r \in DOMAIN requests : SettingsOf(requests[r].config)

LEMMA RequestSays ==
    ASSUME NodeTypes, ValuesInv, NEW kind, NEW where, NEW config, Request(kind, where, config),
           SettingsOf(config)
    PROVE  \A r \in DOMAIN requests' : SettingsOf(requests'[r].config)
<1> DEFINE x == [kind |-> kind, at |-> where, gw |-> serving, config |-> config]
<1>1. requests' = Append(requests, x) /\ x.config = config
  BY DEF Request
<1> HIDE DEF x
<1>2. /\ DOMAIN requests' = DOMAIN requests \cup {Len(requests) + 1}
      /\ \A r \in DOMAIN requests : requests'[r] = requests[r]
      /\ requests'[Len(requests) + 1] = x
  BY <1>1, AppendAny DEF NodeTypes
<1>3. QED BY <1>1, <1>2 DEF ValuesInv

LEMMA MoveSays ==
    ASSUME NodeTypes, ConfigTypes, ValuesInv, NEW r \in UnderWay, NEW where, RequestGoes(r, where)
    PROVE  \A q \in DOMAIN requests' : SettingsOf(requests'[q].config)
<1>1. r \in DOMAIN requests /\ {"at", "config"} \subseteq DOMAIN requests[r]
  BY DEF UnderWay, NodeTypes, ConfigTypes
<1> DEFINE x == [requests[r] EXCEPT !.at = where]
<1>2. requests' = [requests EXCEPT ![r] = x] /\ x.config = requests[r].config
  BY <1>1 DEF RequestGoes
<1> HIDE DEF x
<1>3. /\ DOMAIN requests' = DOMAIN requests /\ requests'[r] = x
      /\ \A q \in DOMAIN requests : q # r => requests'[q] = requests[q]
  BY <1>2, MovesOn
<1>4. QED BY <1>1, <1>2, <1>3 DEF ValuesInv

LEMMA AttachSays ==
    ASSUME NodeTypes, ConfigTypes, ValuesInv, NEW g \in DOMAIN gateways, NEW ms,
           ms \subseteq Managers, Attach(g, ms, gateways)
    PROVE  /\ \A h \in DOMAIN gateways' : NodeOf(gateways'[h])
           /\ attached' \in [Managers -> DOMAIN gateways']
<1> DEFINE new == {m \in ms : gateways[g].addr \notin relayIds[m]}
           x == [gateways[g] EXCEPT !.relays = @ \cup new]
<1>1. gateways' = [gateways EXCEPT ![g] = x] /\ new \subseteq Managers
  BY DEF Attach
<1> HIDE DEF new
<1>2. NodeOf(x)
  BY <1>1 DEF ValuesInv, NodeOf, ConfigTypes
<1> HIDE DEF x
<1> DEFINE p == [gateways EXCEPT ![g] = x]
<1>3. DOMAIN p = DOMAIN gateways /\ p[g] = x
      /\ \A h \in DOMAIN gateways : h # g => p[h] = gateways[h]
  BY OneChanged DEF NodeTypes
<1> HIDE DEF p
<1>4. gateways' = p
  BY <1>1 DEF p
<1>5. \A h \in DOMAIN gateways' : NodeOf(gateways'[h])
  BY <1>2, <1>3, <1>4 DEF ValuesInv
<1>6. attached' = [m \in Managers |-> IF m \in ms THEN g ELSE attached[m]]
  BY DEF Attach
<1>7. attached' \in [Managers -> DOMAIN gateways']
  BY <1>3, <1>4, <1>6 DEF ValuesInv
<1>8. QED BY <1>5, <1>7

\* One node changes.
LEMMA NodeSays ==
    ASSUME NodeTypes, ValuesInv, NEW g \in DOMAIN gateways, NEW x, NodeOf(x),
           gateways' = [gateways EXCEPT ![g] = x], attached' = attached
    PROVE  /\ \A h \in DOMAIN gateways' : NodeOf(gateways'[h])
           /\ attached' \in [Managers -> DOMAIN gateways']
<1> DEFINE p == [gateways EXCEPT ![g] = x]
<1>1. DOMAIN p = DOMAIN gateways /\ p[g] = x
      /\ \A h \in DOMAIN gateways : h # g => p[h] = gateways[h]
  BY OneChanged DEF NodeTypes
<1> HIDE DEF p
<1>2. gateways' = p
  BY DEF p
<1>3. QED BY <1>1, <1>2 DEF ValuesInv

\* A new one is built.
LEMMA BuildSays ==
    ASSUME NEW config, SettingsOf(config), DOMAIN config = Settings, NEW addr
    PROVE  NodeOf(Build(config, addr)) /\ NodeOf([Build(config, addr) EXCEPT !.relays = Managers])
  BY DEF Build, NodeOf, SettingsOf

LEMMA OpeningsSay ==
    ASSUME NodeTypes, ConfigTypes, ValuesInv,
           \/ \E patch \in Patches : Put(patch)
           \/ PutInvalid
           \/ \E v \in Values["identification"] : EditCapability(v)
           \/ \E v \in Values["servers"] : EditServers(v)
    PROVE  ValuesInv'
<1>0. ASSUME serving # 0
      PROVE  serving \in DOMAIN gateways /\ SettingsOf(gateways[serving].config)
             /\ DOMAIN gateways[serving].config = Settings
  <2>1. serving \in DOMAIN gateways
    BY <1>0, NodeFacts DEF NodeTypes
  <2>2. Complete(gateways[serving].config) /\ NodeOf(gateways[serving])
    BY <2>1 DEF ConfigTypes, ValuesInv
  <2>3. DOMAIN gateways[serving].config = Settings
    BY <2>2 DEF Complete
  <2>4. QED BY <2>1, <2>2, <2>3 DEF NodeOf, SettingsOf
<1>1. ASSUME UNCHANGED <<gateways, attached, cfgFile>>, NEW kind, NEW where, NEW config,
             SettingsOf(config), Request(kind, where, config)
      PROVE  ValuesInv'
  BY <1>1, RequestSays DEF ValuesInv
<1>2. ASSUME NEW patch \in Patches, Put(patch) PROVE ValuesInv'
  <2> DEFINE old == gateways[serving].config
             config == DeepMerge(old, patch)
  <2>1. Request("put", "stop", config) /\ UNCHANGED <<gateways, attached, cfgFile>>
    BY <1>2 DEF Put, nodeVars
  <2>2. SettingsOf(old) /\ DOMAIN old = Settings
    BY <1>0, <2>1 DEF Request
  <2>3. \A s \in DOMAIN patch : patch[s] \in Values[s]
    <3>1. PICK s \in Settings : patch \in [{s} -> Values[s]]
      BY DEF Patches
    <3>2. QED BY <3>1
  <2> HIDE DEF old
  <2>4. SettingsOf(config)
    BY <2>2, <2>3 DEF SettingsOf, DeepMerge
  <2> HIDE DEF config
  <2>5. QED BY <1>1, <2>1, <2>4
<1>3. CASE PutInvalid
  <2>1. /\ Request("put", "done", gateways[serving].config)
        /\ UNCHANGED <<gateways, attached, cfgFile>>
    BY <1>3 DEF PutInvalid, nodeVars
  <2>2. SettingsOf(gateways[serving].config)
    BY <1>0, <2>1 DEF Request
  <2>3. QED BY <1>1, <2>1, <2>2
<1>4. ASSUME NEW v \in Values["identification"], EditCapability(v) PROVE ValuesInv'
  <2> DEFINE config == [s \in {"identification"} |-> v]
  <2>1. Request("capability", "set", config) /\ UNCHANGED <<gateways, attached, cfgFile>>
    BY <1>4 DEF EditCapability, nodeVars
  <2>2. SettingsOf(config)
    BY DEF SettingsOf, Settings
  <2> HIDE DEF config
  <2>3. QED BY <1>1, <2>1, <2>2
<1>5. ASSUME NEW v \in Values["servers"], EditServers(v) PROVE ValuesInv'
  <2> DEFINE config == [s \in {"servers"} |-> v]
             old == gateways[serving].config
             edited == [old EXCEPT !["servers"] = v]
             node == [gateways[serving] EXCEPT !.config = edited]
  <2>1. /\ Request("servers", "reconcile", config)
        /\ gateways' = [gateways EXCEPT ![serving] = node]
        /\ UNCHANGED <<attached, cfgFile>>
    BY <1>5 DEF EditServers
  <2>2. SettingsOf(config)
    BY DEF SettingsOf, Settings
  <2>3. /\ serving \in DOMAIN gateways /\ SettingsOf(old) /\ DOMAIN old = Settings
        /\ {"config", "relays"} \subseteq DOMAIN gateways[serving] /\ NodeOf(gateways[serving])
    BY <1>0, <2>1 DEF Request, ConfigTypes, ValuesInv
  <2> HIDE DEF config, old
  <2>4. \A s \in Settings : edited[s] \in Values[s]
    BY <2>3 DEF SettingsOf
  <2> HIDE DEF edited
  <2>5. NodeOf(node)
    BY <2>3, <2>4 DEF NodeOf
  <2> HIDE DEF node
  <2>6. QED BY <2>1, <2>2, <2>3, <2>5, NodeSays, RequestSays DEF ValuesInv
<1>6. QED BY <1>2, <1>3, <1>4, <1>5

LEMMA NextValuesInv ==
    NodeTypes /\ ConfigTypes /\ ValuesInv /\ [ReconfigureNext]_reconfigureVars => ValuesInv'
<1> SUFFICES ASSUME NodeTypes, ConfigTypes, ValuesInv, [ReconfigureNext]_reconfigureVars
             PROVE  ValuesInv'
  OBVIOUS
<1>0. ASSUME NEW r \in UnderWay
      PROVE  /\ r \in DOMAIN requests /\ requests[r].gw \in DOMAIN gateways
             /\ {"kind", "at", "gw", "config"} \subseteq DOMAIN requests[r]
             /\ SettingsOf(requests[r].config)
             /\ requests[r].at = "start" => DOMAIN requests[r].config = Settings
  <2>1. r \in DOMAIN requests
    BY DEF UnderWay
  <2>2. requests[r].at = "start" => DOMAIN requests[r].config = Settings
    BY <2>1 DEF ConfigTypes, Complete
  <2>3. QED BY <2>1, <2>2 DEF NodeTypes, ConfigTypes, ValuesInv
<1>1. ASSUME NEW r \in UnderWay, NEW where, RequestGoes(r, where),
             UNCHANGED <<gateways, attached, cfgFile>>
      PROVE  ValuesInv'
  BY <1>1, MoveSays DEF ValuesInv
<1>2. ASSUME NEW r \in UnderWay, StopOld(r) \/ SetMatrix(r) PROVE ValuesInv'
  <2>1. PICK where : RequestGoes(r, where)
    BY <1>2 DEF StopOld, SetMatrix
  <2> DEFINE g == requests[r].gw
             down == [gateways[g] EXCEPT !.up = FALSE]
             set == [gateways[g] EXCEPT !.emit = requests[r].config["identification"]]
  <2>2. PICK x \in {down, set} : gateways' = [gateways EXCEPT ![g] = x]
    BY <1>2 DEF StopOld, SetMatrix
  <2>3. UNCHANGED <<attached, cfgFile>>
    BY <1>2 DEF StopOld, SetMatrix
  <2>4. NodeOf(down) /\ NodeOf(set)
    BY <1>0 DEF ConfigTypes, ValuesInv, NodeOf
  <2> HIDE DEF down, set
  <2>5. QED BY <1>0, <2>1, <2>2, <2>3, <2>4, NodeSays, MoveSays DEF ValuesInv
<1>3. ASSUME NEW r \in UnderWay, StartNew(r) PROVE ValuesInv'
  <2>1. UNCHANGED <<attached, cfgFile>> /\ requests[r].at = "start"
    BY <1>3 DEF StartNew, RequestAt
  <2>2. CASE PutFails(r) /\ UNCHANGED gateways
    BY <1>1, <2>1, <2>2 DEF PutFails
  <2>3. ASSUME NEW addr, gateways' = Append(gateways, Build(requests[r].config, addr)),
               requests' = [requests EXCEPT ![r].at = "identify", ![r].gw = Len(gateways) + 1]
        PROVE  ValuesInv'
    <3> DEFINE node == Build(requests[r].config, addr)
    <3>1. NodeOf(node)
      BY <1>0, <2>1, BuildSays
    <3> HIDE DEF node
    <3>2. /\ DOMAIN gateways' = DOMAIN gateways \cup {Len(gateways) + 1}
          /\ \A g \in DOMAIN gateways : gateways'[g] = gateways[g]
          /\ gateways'[Len(gateways) + 1] = node
      BY <2>3, AppendAny DEF NodeTypes, node
    <3>3. \A g \in DOMAIN gateways' : NodeOf(gateways'[g])
      BY <3>1, <3>2 DEF ValuesInv
    <3>4. attached' \in [Managers -> DOMAIN gateways']
      BY <2>1, <3>2 DEF ValuesInv
    <3> DEFINE x == [requests[r] EXCEPT !.at = "identify", !.gw = Len(gateways) + 1]
    <3>5. requests' = [requests EXCEPT ![r] = x] /\ x.config = requests[r].config
      BY <1>0, <2>3
    <3> HIDE DEF x
    <3>6. /\ DOMAIN requests' = DOMAIN requests /\ requests'[r] = x
          /\ \A q \in DOMAIN requests : q # r => requests'[q] = requests[q]
      BY <3>5, MovesOn
    <3>7. \A q \in DOMAIN requests' : SettingsOf(requests'[q].config)
      BY <1>0, <3>5, <3>6 DEF ValuesInv
    <3>8. QED BY <2>1, <3>3, <3>4, <3>7 DEF ValuesInv
  <2>4. QED BY <1>3, <2>2, <2>3 DEF StartNew
<1>4. ASSUME NEW r \in UnderWay, Identify(r) PROVE ValuesInv'
  <2>1. cfgFile' = cfgFile
    BY <1>4 DEF Identify
  <2>2. CASE PutFails(r) /\ UNCHANGED <<gateways, serving, attached, relayIds>>
    BY <1>1, <2>1, <2>2 DEF PutFails
  <2>3. CASE Attach(requests[r].gw, {"servers"}, gateways) /\ RequestGoes(r, "reconcile")
    <3>1. {"servers"} \subseteq Managers
      BY DEF Managers
    <3>2. QED BY <1>0, <2>1, <2>3, <3>1, AttachSays, MoveSays DEF ValuesInv
  <2>4. QED BY <1>4, <2>2, <2>3 DEF Identify
<1>5. ASSUME NEW r \in UnderWay, ServersReconciled(r) PROVE ValuesInv'
  <2>1. cfgFile' = cfgFile
    BY <1>5 DEF ServersReconciled
  <2>2. CASE RequestGoes(r, "load") /\ UNCHANGED <<gateways, attached, relayIds>>
    BY <1>1, <2>1, <2>2
  <2>3. CASE Attach(requests[r].gw, {"eud"}, gateways) /\ RequestGoes(r, "eud")
    <3>1. {"eud"} \subseteq Managers
      BY DEF Managers
    <3>2. QED BY <1>0, <2>1, <2>3, <3>1, AttachSays, MoveSays DEF ValuesInv
  <2>4. QED BY <1>5, <2>2, <2>3 DEF ServersReconciled
<1>6. ASSUME NEW r \in UnderWay, EudReconfigured(r) PROVE ValuesInv'
  BY <1>1, <1>6 DEF EudReconfigured, nodeVars
<1>7. ASSUME NEW r \in UnderWay, Load(r) PROVE ValuesInv'
  <2> DEFINE section == requests[r].config
             whole == [s \in DOMAIN cfgFile \cup DOMAIN section |->
                         IF s \in DOMAIN section THEN section[s] ELSE cfgFile[s]]
             x == [requests[r] EXCEPT !.config = whole, !.at = "stored"]
  <2>1. requests' = [requests EXCEPT ![r] = x] /\ UNCHANGED <<gateways, attached, cfgFile>>
    BY <1>7 DEF Load, nodeVars
  <2>2. SettingsOf(section) /\ SettingsOf(cfgFile)
    BY <1>0 DEF ValuesInv
  <2> HIDE DEF section
  <2>3. SettingsOf(whole)
    BY <2>2 DEF SettingsOf
  <2> HIDE DEF whole
  <2>4. x.config = whole
    BY <1>0
  <2> HIDE DEF x
  <2>5. /\ DOMAIN requests' = DOMAIN requests /\ requests'[r] = x
        /\ \A q \in DOMAIN requests : q # r => requests'[q] = requests[q]
    BY <2>1, MovesOn
  <2>6. \A q \in DOMAIN requests' : SettingsOf(requests'[q].config)
    BY <2>3, <2>4, <2>5 DEF ValuesInv
  <2>7. QED BY <2>1, <2>6 DEF ValuesInv
<1>8. ASSUME NEW r \in UnderWay, Truncate(r) \/ Write(r) PROVE ValuesInv'
  <2>1. PICK where : RequestGoes(r, where)
    BY <1>8 DEF Truncate, Write
  <2>2. SettingsOf(NoFile) /\ SettingsOf(requests[r].config)
    BY <1>0 DEF SettingsOf, NoFile
  <2>3. UNCHANGED <<gateways, attached>> /\ cfgFile' \in {NoFile, requests[r].config}
    BY <1>8 DEF Truncate, Write, nodeVars
  <2>4. QED BY <2>1, <2>2, <2>3, MoveSays DEF ValuesInv
<1>9. CASE Crash
  <2> DEFINE down == [k \in DOMAIN gateways |-> [gateways[k] EXCEPT !.up = FALSE]]
             n == Len(gateways) + 1
             fresh == [Build(Filled(cfgFile), n) EXCEPT !.relays = Managers]
             ended == [r \in DOMAIN requests |->
                         [requests[r] EXCEPT !.at = IF @ \in Ended THEN @ ELSE "done"]]
  <2>1. /\ cfgFile' = cfgFile /\ requests' = ended
        /\ \/ gateways' = Append(down, fresh) /\ attached' = [m \in Managers |-> n]
           \/ gateways' = down /\ attached' = attached
    BY <1>9 DEF Crash
  <2>2. /\ Len(gateways) \in Nat /\ DOMAIN gateways = 1 .. Len(gateways)
    BY NodeFacts
  <2>3. /\ DOMAIN down = DOMAIN gateways /\ \A k \in DOMAIN gateways : NodeOf(down[k])
    BY DEF ConfigTypes, ValuesInv, NodeOf
  <2>4. down \in Seq(Range(down)) /\ Len(down) = Len(gateways)
    BY <2>2, SequenceAny
  <2>5. NodeOf(fresh)
    <3>1. SettingsOf(Filled(cfgFile)) /\ DOMAIN Filled(cfgFile) = Settings
      BY DEF ValuesInv, SettingsOf, Filled, Settings, Default, Values
    <3>2. QED BY <3>1, BuildSays
  <2>6. \A r \in DOMAIN requests' : SettingsOf(requests'[r].config)
    BY <2>1 DEF ConfigTypes, ValuesInv
  <2> HIDE DEF down, fresh, ended
  <2>7. CASE gateways' = Append(down, fresh) /\ attached' = [m \in Managers |-> n]
    <3>1. /\ DOMAIN gateways' = DOMAIN down \cup {n} /\ gateways'[n] = fresh
          /\ \A k \in DOMAIN down : gateways'[k] = down[k]
      BY <2>4, <2>7, AppendAny
    <3>2. QED BY <2>1, <2>3, <2>5, <2>6, <2>7, <3>1 DEF ValuesInv
  <2>8. CASE gateways' = down /\ attached' = attached
    BY <2>1, <2>3, <2>6, <2>8 DEF ValuesInv
  <2>9. QED BY <2>1, <2>7, <2>8
<1>10. CASE UNCHANGED reconfigureVars
  BY <1>10 DEF reconfigureVars, nodeVars, ValuesInv
<1>11. QED
  BY <1>2, <1>3, <1>4, <1>5, <1>6, <1>7, <1>8, <1>9, <1>10, OpeningsSay DEF ReconfigureNext

LEMMA ReconfigureTypes == ReconfigureSpec => []ReconfigureTypeOK
<1>1. ReconfigureInit => ValuesInv
  <2> SUFFICES ASSUME ReconfigureInit PROVE ValuesInv
    OBVIOUS
  <2> DEFINE node == [Build(Default, 1) EXCEPT !.relays = Managers]
  <2>1. SettingsOf(Default) /\ DOMAIN Default = Settings
    BY DEF SettingsOf, Default, Settings, Values
  <2>2. NodeOf(node)
    BY <2>1, BuildSays
  <2> HIDE DEF node
  <2>3. gateways = <<node>> /\ requests = <<>> /\ attached = [m \in Managers |-> 1]
        /\ cfgFile = NoFile
    BY DEF ReconfigureInit, node
  <2>4. QED BY <2>2, <2>3 DEF ValuesInv, SettingsOf, NoFile
<1>2. NodeTypes /\ ConfigTypes /\ ValuesInv => ReconfigureTypeOK
  BY DEF NodeTypes, ConfigTypes, ValuesInv, ReconfigureTypeOK, NodeOf, SettingsOf
<1>3. ReconfigureSpec => [](NodeTypes /\ ConfigTypes)
  <2>1. ReconfigureInit => ConfigTypes /\ TruthInv
    BY InitTruthInv
  <2>2. (NodeTypes /\ NodeTypes') /\ (ConfigTypes /\ TruthInv) /\ [ReconfigureNext]_reconfigureVars
          => (ConfigTypes /\ TruthInv)'
    BY NextTruthInv
  <2>3. ReconfigureInv => NodeTypes
    BY DEF ReconfigureInv
  <2>4. QED BY <2>1, <2>2, <2>3, ReconfigureInvariant, PTL DEF ReconfigureSpec
<1>4. QED BY <1>1, <1>2, <1>3, NextValuesInv, PTL DEF ReconfigureSpec

\* Every variable in its set: the configuration and the nodes of any sequence of
\* requests and crashes (web/runtime.py), the listener and clients of the EUD server
\* (web/eud_server.py), the tables of the bridges (bridges/atak.py).
THEOREM NodeTypesCorrect == ReconfigureSpec /\ EudSpec /\ AtakSpec => []NodeTypeOK
<1>1. BridgeInv => AtakTypeOK
  BY DEF BridgeInv, AtakInv
<1>2. QED BY <1>1, ReconfigureTypes, EudTypes, BridgeInvariant, PTL DEF NodeTypeOK
=============================================================================
