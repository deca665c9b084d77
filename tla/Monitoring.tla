----------------------------- MODULE Monitoring -----------------------------
(***************************************************************************)
(* What a gateway records of its traffic (monitor/metrics.py, audit.py,    *)
(* monitor/telemetry_arrow.py) and whom it tells: the telemetry buffer,    *)
(* the audit log, the live feeds of the browsers (web/routers/ws.py) and   *)
(* the purge of both buffers (gateway.py, web/routers/logs.py).            *)
(*                                                                         *)
(* The engine records on the event loop, where the feeds run too.  The     *)
(* purge is a plain function: FastAPI runs it in a worker thread, between  *)
(* any two steps of a record.  A message is known by its number; the CoT   *)
(* traffic logs, which the same purge clears, are in the connectors.       *)
(***************************************************************************)
EXTENDS Naturals, Sequences, SequencesExt

CONSTANTS
    Feeds,          \* browsers
    TelemetryCap,   \* capacity of the telemetry buffer
    QueueCap,       \* capacity of a feed's queue (256 in the code)
    MaxRecords,     \* bound: messages recorded
    MaxPurges       \* bound: purges

\* The gateway gives the audit log max(1000, capacity of the telemetry buffer).
CONSTANT AuditCap
ASSUME MonitoringAssumptions ==
    {TelemetryCap, AuditCap, QueueCap} \subseteq Nat /\ TelemetryCap <= AuditCap

VARIABLES
    records,        \* messages recorded so far
    recording,      \* the record under way: [of, at]
    telemetry,      \* telemetry._buf, as message numbers
    audit,          \* audit._buf: [of, accepted]
    events,         \* messages emitted to the feeds, in order
    queues,         \* feed -> its queue
    subscribers,    \* the feeds in _subscribers
    delivered,      \* history: feed -> messages sent to the browser
    since,          \* history: feed -> how many events preceded it
    slow,           \* history: feeds that found their queue full
    purging,        \* what the purge under way clears next, or "none"
    purges,
    raced           \* history: a purge and a record were interleaved

bufferVars == <<records, recording, telemetry, audit, events>>
feedVars == <<queues, subscribers, delivered, since, slow>>
purgeVars == <<purging, purges, raced>>
monitoringVars == <<bufferVars, feedVars, purgeVars>>

Quiet == [of |-> 0, at |-> "none"]

MonitoringInit ==
    /\ records = 0 /\ recording = Quiet
    /\ telemetry = <<>> /\ audit = <<>> /\ events = <<>>
    /\ queues = [f \in Feeds |-> <<>>] /\ delivered = queues
    /\ subscribers = {} /\ slow = {} /\ since = [f \in Feeds |-> 0]
    /\ purging = "none" /\ purges = 0 /\ raced = FALSE

-----------------------------------------------------------------------------
(* Recording a message: each step is where the purge may come between.     *)

\* A deque with maxlen: the oldest entry makes room.
Bounded(s, e, cap) ==
    LET longer == Append(s, e)
    IN  IF Len(longer) > cap THEN Tail(longer) ELSE longer

RecordStarts ==
    /\ recording = Quiet /\ records < MaxRecords
    /\ records' = records + 1
    /\ UNCHANGED <<events, feedVars, purging, purges>>

\* record_sent, record_received: telemetry first.
RecordAccepted ==
    /\ RecordStarts
    /\ recording' = [of |-> records', at |-> "audit"]
    /\ telemetry' = Bounded(telemetry, records', TelemetryCap)
    /\ raced' = (raced \/ purging # "none")
    /\ UNCHANGED audit

\* record_dropped: the audit log alone, in one step.
RecordDropped ==
    /\ RecordStarts
    /\ audit' = Bounded(audit, [of |-> records', accepted |-> FALSE], AuditCap)
    /\ UNCHANGED <<recording, telemetry, raced>>

RecordAudit ==
    /\ recording.at = "audit"
    /\ audit' = Bounded(audit, [of |-> recording.of, accepted |-> TRUE], AuditCap)
    /\ recording' = [recording EXCEPT !.at = "emit"]
    /\ UNCHANGED <<records, telemetry, events, feedVars, purgeVars>>

Full(f) == Len(queues[f]) = QueueCap

\* Mutant of Emit: the full queue's exception ends the loop over the feeds.
Emit_LoopLeft ==
    /\ recording.at = "emit"
    /\ recording' = Quiet
    /\ events' = Append(events, recording.of)
    /\ slow' = slow \cup {f \in subscribers : Full(f)}
    /\ \E served \in SUBSET {f \in subscribers : ~ Full(f)} :
         /\ slow' = {} => served = subscribers
         /\ queues' = [f \in Feeds |-> IF f \in served THEN Append(queues[f], recording.of)
                                       ELSE queues[f]]
    /\ UNCHANGED <<records, telemetry, audit, subscribers, delivered, since, purgeVars>>

\* _emit: put_nowait for every feed; a full queue costs its own feed the event.
Emit ==
    /\ recording.at = "emit"
    /\ recording' = Quiet
    /\ events' = Append(events, recording.of)
    /\ slow' = slow \cup {f \in subscribers : Full(f)}
    /\ queues' = [f \in Feeds |-> IF f \in subscribers /\ ~ Full(f)
                                  THEN Append(queues[f], recording.of) ELSE queues[f]]
    /\ UNCHANGED <<records, telemetry, audit, subscribers, delivered, since, purgeVars>>

-----------------------------------------------------------------------------
(* The feeds.                                                              *)

Subscribe(f) ==
    /\ recording = Quiet /\ f \notin subscribers
    /\ subscribers' = subscribers \cup {f}
    /\ queues' = [queues EXCEPT ![f] = <<>>]
    /\ delivered' = [delivered EXCEPT ![f] = <<>>]
    /\ since' = [since EXCEPT ![f] = Len(events)]
    /\ slow' = slow \ {f}
    /\ UNCHANGED <<bufferVars, purgeVars>>

Deliver(f) ==
    /\ recording = Quiet /\ f \in subscribers /\ queues[f] # <<>>
    /\ delivered' = [delivered EXCEPT ![f] = Append(@, Head(queues[f]))]
    /\ queues' = [queues EXCEPT ![f] = Tail(@)]
    /\ UNCHANGED <<bufferVars, subscribers, since, slow, purgeVars>>

\* WebSocketDisconnect.
Unsubscribe(f) ==
    /\ recording = Quiet /\ f \in subscribers
    /\ subscribers' = subscribers \ {f}
    /\ UNCHANGED <<bufferVars, queues, delivered, since, slow, purgeVars>>

-----------------------------------------------------------------------------
(* The purge, in its worker thread.                                        *)

PurgeStep(from, to) ==
    /\ purging = from /\ purging' = to
    /\ purges' = IF from = "none" THEN purges + 1 ELSE purges
    /\ raced' = (raced \/ recording # Quiet)

PurgeBegins ==
    /\ purges < MaxPurges
    /\ PurgeStep("none", "audit")
    /\ UNCHANGED <<bufferVars, feedVars>>

PurgeAudit ==
    /\ PurgeStep("audit", "telemetry")
    /\ audit' = <<>>
    /\ UNCHANGED <<records, recording, telemetry, events, feedVars>>

\* Mutant of PurgeTelemetry: the telemetry buffer is left as it is.
PurgeTelemetry_Forgotten ==
    /\ PurgeStep("telemetry", "none")
    /\ UNCHANGED <<bufferVars, feedVars>>

PurgeTelemetry ==
    /\ PurgeStep("telemetry", "none")
    /\ telemetry' = <<>>
    /\ UNCHANGED <<records, recording, audit, events, feedVars>>

MonitoringNext ==
    \/ RecordAccepted \/ RecordDropped \/ RecordAudit \/ Emit
    \/ \E f \in Feeds : Subscribe(f) \/ Deliver(f) \/ Unsubscribe(f)
    \/ PurgeBegins \/ PurgeAudit \/ PurgeTelemetry

MonitoringSpec == MonitoringInit /\ [][MonitoringNext]_monitoringVars

-----------------------------------------------------------------------------
(* Properties.                                                             *)

\* Every variable in its set.
MonitoringTypeOK ==
    /\ recording.of \in 0 .. records /\ recording.at \in {"none", "audit", "emit"}
    /\ Len(telemetry) <= TelemetryCap /\ Len(audit) <= AuditCap
    /\ \A f \in Feeds : Len(queues[f]) <= QueueCap
    /\ purging \in {"none", "audit", "telemetry"}

\* metrics.py: "a slow UI can never block the exchange hot path - it just drops
\* events".  A feed whose own queue was never full gets every event since it
\* subscribed, once and in order, however slow the other feeds are; a slow one
\* gets a part of them, in order.
FeedComplete ==
    \A f \in subscribers :
        LET got == delivered[f] \o queues[f]
            sent == SubSeq(events, since[f] + 1, Len(events))
        IN  /\ f \notin slow => got = sent
            /\ \A i, j \in DOMAIN got : i < j => got[i] < got[j]
            /\ \A i \in DOMAIN got : Contains(sent, got[i])

AcceptedIn(log) == {log[i].of : i \in {j \in DOMAIN log : log[j].accepted}}

\* What is in "part" is what is youngest in "whole".
Youngest(part, whole) ==
    part \subseteq whole /\ \A old \in whole \ part, new \in part : old < new

\* The two records of the traffic tell one story, each in the order of the traffic:
\* until one of them is full, what it has accepted is what the other ends with,
\* through any rejections, evictions and purges - unless a purge ran in the middle
\* of a record, which takes the message from one and leaves it in the other.
BuffersAgree ==
    /\ \A i, j \in DOMAIN telemetry : i < j => telemetry[i] < telemetry[j]
    /\ \A i, j \in DOMAIN audit : i < j => audit[i].of < audit[j].of
    /\ recording = Quiet /\ purging = "none" /\ ~ raced =>
         /\ Len(audit) < AuditCap => Youngest(Range(telemetry), AcceptedIn(audit))
         /\ Len(telemetry) < TelemetryCap => Youngest(AcceptedIn(audit), Range(telemetry))
=============================================================================
