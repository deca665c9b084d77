----------------------------- MODULE AtakBridge -----------------------------
(***************************************************************************)
(* Gateways that bridge the coalition network and ATAK's CoT multicast     *)
(* group (bridges/atak.py): several of them, each hearing both networks,   *)
(* its own CoT included, with the marker that keeps CoT from going round   *)
(* in circles and the sweep that deletes the tracks of silent nodes.       *)
(*                                                                         *)
(* Frames on either network reach a bridge in any order or never.  A frame *)
(* carries the number of times it has been translated.  The UDP transport  *)
(* sends without yielding; the loopback transport's send yields (gather),  *)
(* and then presences arrive in the middle of a sweep.                     *)
(***************************************************************************)
EXTENDS Naturals, FiniteSets

CONSTANTS
    Bridges,        \* the bridges' node ids
    Soldiers,       \* originators that are not bridges
    NoOne,
    StaleTime,      \* cot_stale_s, in ticks of the clock
    MaxTicks,       \* bound: ticks of the clock
    MaxReports      \* bound: events of ATAK devices and presences of soldiers

ASSUME AtakAssumptions == NoOne \notin Bridges \cup Soldiers

Originators == Bridges \cup Soldiers

VARIABLES
    ticks,          \* the clock; 0 in lastSeen stands for no entry
    lastSeen,       \* bridge -> _last_seen
    heard,          \* bridge -> node -> last presence handled (not in the code)
    shown,          \* bridge -> tracks it has put on the map and not deleted since
    sweep,          \* bridge -> dead tracks its sweep has still to delete
    deleting,       \* bridge -> the track whose delete is being sent
    bridgeUp,       \* bridges whose node is started
    cotUp,          \* those of them whose CoT transport is started too
    cotWire,        \* bridge -> CoT frames on their way to it
    jdssWire,       \* bridge -> messages on their way to its handler
    reports,        \* reports so far
    sendYields      \* whether the CoT transport's send yields

wires == <<cotWire, jdssWire>>
tracks == <<lastSeen, heard, shown, sweep, deleting>>
started == <<bridgeUp, cotUp>>
atakVars == <<ticks, tracks, started, wires, reports, sendYields>>

ToAll(wire, f) == [b \in Bridges |-> wire[b] \cup {f}]
Taken(wire, b, f) == [wire EXCEPT ![b] = @ \ {f}]

AtakInit ==
    /\ ticks = 1 /\ reports = 0
    /\ lastSeen = [b \in Bridges |-> [o \in Originators |-> 0]]
    /\ heard = lastSeen
    /\ shown = [b \in Bridges |-> {}] /\ sweep = shown
    /\ deleting = [b \in Bridges |-> NoOne]
    /\ bridgeUp = Bridges /\ cotUp = {}
    /\ cotWire = [b \in Bridges |-> {}] /\ jdssWire = cotWire
    /\ sendYields \in BOOLEAN

-----------------------------------------------------------------------------
(* Around the bridges.                                                     *)

Tick ==
    /\ ticks < MaxTicks /\ ticks' = ticks + 1
    /\ UNCHANGED <<tracks, started, wires, reports, sendYields>>

Report == reports < MaxReports /\ reports' = reports + 1

\* An ATAK device reports its position.
DeviceReport ==
    /\ Report
    /\ cotWire' = ToAll(cotWire, [id |-> reports', marked |-> FALSE, hops |-> 0])
    /\ UNCHANGED <<ticks, tracks, started, jdssWire, sendYields>>

SoldierPresence(o) ==
    /\ Report
    /\ jdssWire' = ToAll(jdssWire, [id |-> reports', origin |-> o, hops |-> 0])
    /\ UNCHANGED <<ticks, tracks, started, cotWire, sendYields>>

-----------------------------------------------------------------------------
(* CoT to JDSS and back.                                                   *)

\* Marked or stale CoT, and CoT that no message stands for, is dropped.
IgnoreCot(b, f) ==
    /\ b \in cotUp /\ f \in cotWire[b]
    /\ cotWire' = Taken(cotWire, b, f)
    /\ UNCHANGED <<ticks, tracks, started, jdssWire, reports, sendYields>>

\* Mutant of Republish: the marker is not looked at.
Republish_Marked(b, f) ==
    /\ b \in cotUp /\ f \in cotWire[b]
    /\ cotWire' = Taken(cotWire, b, f)
    /\ jdssWire' = ToAll(jdssWire, [id |-> f.id, origin |-> b, hops |-> f.hops + 1])
    /\ UNCHANGED <<ticks, tracks, started, reports, sendYields>>

\* _on_cot: published under the bridge's own identity; engines drop their own.
Republish(b, f) ==
    /\ b \in cotUp /\ f \in cotWire[b] /\ ~ f.marked
    /\ cotWire' = Taken(cotWire, b, f)
    /\ jdssWire' = ToAll(jdssWire, [id |-> f.id, origin |-> b, hops |-> f.hops + 1])
    /\ UNCHANGED <<ticks, tracks, started, reports, sendYields>>

\* _emit_cot of the bridge's own message.
SkipOwn(b, m) ==
    /\ b \in bridgeUp /\ m \in jdssWire[b] /\ m.origin = b
    /\ jdssWire' = Taken(jdssWire, b, m)
    /\ UNCHANGED <<ticks, tracks, started, cotWire, reports, sendYields>>

\* The send: until the CoT transport is started it raises, and nothing is shown.
Emitted(b, m) ==
    IF b \in cotUp
    THEN /\ shown' = [shown EXCEPT ![b] = @ \cup {m.origin}]
         /\ cotWire' = ToAll(cotWire, [id |-> m.id, marked |-> TRUE, hops |-> m.hops + 1])
    ELSE UNCHANGED <<shown, cotWire>>

\* Mutant of EmitCot: a track already in the table is not timed again.
EmitCot_TimedOnce(b, m) ==
    /\ b \in bridgeUp /\ m \in jdssWire[b] /\ m.origin # b
    /\ jdssWire' = Taken(jdssWire, b, m)
    /\ heard' = [heard EXCEPT ![b][m.origin] = ticks]
    /\ lastSeen' = [lastSeen EXCEPT ![b][m.origin] = IF @ = 0 THEN ticks ELSE @]
    /\ Emitted(b, m)
    /\ UNCHANGED <<ticks, sweep, deleting, started, reports, sendYields>>

\* _emit_cot of a presence: timed, then sent with the marker.
EmitCot(b, m) ==
    /\ b \in bridgeUp /\ m \in jdssWire[b] /\ m.origin # b
    /\ jdssWire' = Taken(jdssWire, b, m)
    /\ heard' = [heard EXCEPT ![b][m.origin] = ticks]
    /\ lastSeen' = [lastSeen EXCEPT ![b][m.origin] = ticks]
    /\ Emitted(b, m)
    /\ UNCHANGED <<ticks, sweep, deleting, started, reports, sendYields>>

-----------------------------------------------------------------------------
(* The sweep.                                                              *)

Dead(b) ==
    {o \in Originators : lastSeen[b][o] # 0 /\ ticks - lastSeen[b][o] > StaleTime}

Forgotten(b, gone) == [lastSeen EXCEPT ![b] = [o \in Originators |->
                          IF o \in gone THEN 0 ELSE @[o]]]

\* Without a yield the dead tracks are deleted and forgotten in one go.
SweepAtOnce(b) ==
    /\ b \in cotUp /\ ~ sendYields /\ Dead(b) # {}
    /\ lastSeen' = Forgotten(b, Dead(b))
    /\ shown' = [shown EXCEPT ![b] = @ \ Dead(b)]
    /\ UNCHANGED <<ticks, heard, sweep, deleting, started, wires, reports, sendYields>>

SweepBegins(b) ==
    /\ b \in cotUp /\ sendYields /\ sweep[b] = {} /\ deleting[b] = NoOne
    /\ Dead(b) # {}
    /\ sweep' = [sweep EXCEPT ![b] = Dead(b)]
    /\ UNCHANGED <<ticks, lastSeen, heard, shown, deleting, started, wires, reports, sendYields>>

SendDelete(b, o) ==
    /\ deleting[b] = NoOne /\ o \in sweep[b]
    /\ sweep' = [sweep EXCEPT ![b] = @ \ {o}]
    /\ deleting' = [deleting EXCEPT ![b] = o]
    /\ shown' = [shown EXCEPT ![b] = @ \ {o}]
    /\ UNCHANGED <<ticks, lastSeen, heard, started, wires, reports, sendYields>>

\* The send has returned: the track is forgotten, seen meanwhile or not.
Deleted(b) ==
    /\ deleting[b] # NoOne
    /\ lastSeen' = Forgotten(b, {deleting[b]})
    /\ deleting' = [deleting EXCEPT ![b] = NoOne]
    /\ UNCHANGED <<ticks, heard, shown, sweep, started, wires, reports, sendYields>>

\* The send raised: the loop gives this sweep up and the rest stays in the table.
DeleteFails(b, o) ==
    /\ deleting[b] = NoOne /\ o \in sweep[b]
    /\ sweep' = [sweep EXCEPT ![b] = {}]
    /\ UNCHANGED <<ticks, lastSeen, heard, shown, deleting, started, wires, reports, sendYields>>

-----------------------------------------------------------------------------
\* start: the node first, with its handler; the CoT transport and the sweep next.
StartCot(b) ==
    /\ b \in bridgeUp \ cotUp
    /\ cotUp' = cotUp \cup {b}
    /\ UNCHANGED <<ticks, tracks, bridgeUp, wires, reports, sendYields>>

\* Mutant of StopBridge: the CoT transport is not stopped.
StopBridge_CotLeftUp(b) ==
    /\ b \in cotUp
    /\ bridgeUp' = bridgeUp \ {b}
    /\ UNCHANGED <<ticks, tracks, cotUp, wires, reports, sendYields>>

\* stop cancels the sweep where it is.
StopBridge(b) ==
    /\ b \in cotUp
    /\ bridgeUp' = bridgeUp \ {b} /\ cotUp' = cotUp \ {b}
    /\ sweep' = [sweep EXCEPT ![b] = {}]
    /\ deleting' = [deleting EXCEPT ![b] = NoOne]
    /\ UNCHANGED <<ticks, lastSeen, heard, shown, wires, reports, sendYields>>

AtakNext ==
    \/ Tick \/ DeviceReport \/ \E o \in Soldiers : SoldierPresence(o)
    \/ \E b \in Bridges :
         \/ \E f \in cotWire[b] : IgnoreCot(b, f) \/ Republish(b, f)
         \/ \E m \in jdssWire[b] : SkipOwn(b, m) \/ EmitCot(b, m)
         \/ SweepAtOnce(b) \/ SweepBegins(b) \/ Deleted(b)
         \/ \E o \in sweep[b] : SendDelete(b, o) \/ DeleteFails(b, o)
         \/ StartCot(b) \/ StopBridge(b)

AtakSpec == AtakInit /\ [][AtakNext]_atakVars

-----------------------------------------------------------------------------
(* Properties.                                                             *)

\* Every variable in its set.
AtakTypeOK ==
    /\ lastSeen \in [Bridges -> [Originators -> 0 .. ticks]]
    /\ shown \in [Bridges -> SUBSET Originators]
    /\ sweep \in [Bridges -> SUBSET Originators]
    /\ deleting \in [Bridges -> Originators \cup {NoOne}]
    /\ cotUp \subseteq bridgeUp /\ bridgeUp \subseteq Bridges

\* atak.py "Loop protection": with any number of bridges between the two
\* networks a report is translated at most to the other network and back, and
\* what is back on the CoT group is not taken up again.
NoTranslationLoop ==
    \A b \in Bridges :
        /\ \A f \in cotWire[b] : f.hops <= 2
        /\ \A m \in jdssWire[b] : m.hops <= 1

\* A track on the map is one the sweep still watches, so it is deleted once its
\* node falls silent.  A send that yields breaks this: a presence that arrives
\* while the delete is being sent puts the track back and is then forgotten.
ShownTrackWatched ==
    ~ sendYields => \A b \in Bridges : \A o \in shown[b] : lastSeen[b][o] # 0

\* On the map of the ATAK devices: reports are not translated
\* in circles, and a track that is shown is watched by the sweep.
MapTruth == NoTranslationLoop /\ ShownTrackWatched

\* The sweep deletes a track only when its bridge has heard no presence of the
\* node for longer than the stale time, but for a send that yields.
DeletedOnlySilent ==
    [][~ sendYields => \A b \in Bridges : \A o \in shown[b] \ shown'[b] :
           ticks - heard[b][o] > StaleTime]_atakVars
=============================================================================
