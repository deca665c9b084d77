------------------------------ MODULE EudServer ------------------------------
(***************************************************************************)
(* The built-in CoT server for ATAK devices (web/eud_server.py): the       *)
(* listener that PUT /api/eud and the hot reconfiguration start, stop and  *)
(* rebind; the connected clients; and the fan-out of every dispatched      *)
(* message to them.                                                        *)
(*                                                                         *)
(* All of it runs on the event loop; a coroutine yields where it waits for *)
(* the listener, for a client's drain() or for the dispatch of the message *)
(* it has published.  _clients and _origins have the same keys at every    *)
(* yield and are one function here, from a client to the originators it    *)
(* has sourced.  The events that are answered or ignored before any state  *)
(* changes (keep-alive, control, stale, unparsable) are left out.          *)
(***************************************************************************)
EXTENDS Naturals, Sequences, FiniteSets, Functions

CONSTANTS
    Conns,          \* TCP connections
    Device,         \* connection -> the device behind it
    MaxWork         \* bound: calls of reconfigure and messages together

\* What is not from a client is from the network, which is no client.
TheNetwork == "network"

ASSUME EudAssumptions == TheNetwork \notin Conns /\ MaxWork \in Nat

Ports == {1, 2}
EudConfigs == [enabled : BOOLEAN, port : Ports]

VARIABLES
    eudCfg,         \* _cfg
    listener,       \* _server: number of the listener, 0 for None
    bound,          \* the sockets that listen: {[id, port]}
    bindFailed,     \* last_error is set
    eudCalls,       \* the reconfigure calls: [cfg, at, srv]
    clientPhase,    \* connection -> none, accepted, reading, ingesting, gone
    acceptedBy,     \* connection -> the listener that accepted it
    clients,        \* _clients and _origins: client -> originators it sourced
    learned,        \* connections whose device uid is known
    writerClosed,   \* connections whose writer has been closed
    linkDown,       \* connections whose peer is gone
    fanOuts,        \* fan-outs under way: message number -> clients still to serve
    published,      \* the messages so far: [from, src, snapshot]
    sentTo,         \* history: <<message, client>> that a connection has carried
    eudOverlaps     \* history: calls of reconfigure that began during another

listenerVars == <<eudCfg, listener, bound, bindFailed, eudCalls, eudOverlaps>>
clientVars == <<clientPhase, acceptedBy, clients, learned, writerClosed, linkDown>>
fanOutVars == <<fanOuts, published, sentTo>>
eudVars == <<listenerVars, clientVars, fanOutVars>>

NoClients == [c \in {} |-> {}]

EudInit ==
    /\ eudCfg = [enabled |-> FALSE, port |-> 1]
    /\ listener = 0 /\ bound = {} /\ bindFailed = FALSE
    /\ eudCalls = <<>> /\ eudOverlaps = 0
    /\ clientPhase = [c \in Conns |-> "none"]
    /\ acceptedBy = [c \in Conns |-> 0]
    /\ clients = NoClients
    /\ learned = {} /\ writerClosed = {} /\ linkDown = {}
    /\ fanOuts = [m \in {} |-> {}] /\ published = <<>> /\ sentTo = {}

-----------------------------------------------------------------------------
(* The listener.                                                           *)

WorkLeft == Len(eudCalls) + Len(published) < MaxWork

EudPending == {k \in DOMAIN eudCalls : eudCalls[k].at # "done"}

NextStep(cfg) == IF cfg.enabled /\ listener = 0 THEN "bind" ELSE "done"

EudCall(call) ==
    /\ WorkLeft
    /\ eudCalls' = Append(eudCalls, call)
    /\ eudOverlaps' = eudOverlaps + (IF EudPending = {} THEN 0 ELSE 1)

MustStop(cfg) == listener # 0 /\ (~ cfg.enabled \/ cfg.port # eudCfg.port)

\* _stop_server: clients are closed and forgotten, then wait_closed is awaited.
StopListener(cfg) ==
    /\ MustStop(cfg)
    /\ EudCall([cfg |-> cfg, at |-> "closing", srv |-> listener])
    /\ listener' = 0
    /\ bound' = {b \in bound : b.id # listener}
    /\ writerClosed' = writerClosed \cup DOMAIN clients
    /\ clients' = NoClients
    /\ UNCHANGED <<eudCfg, bindFailed, clientPhase, acceptedBy, learned, linkDown, fanOutVars>>

\* Nothing to stop: the settings are taken over at once.
Reapply(cfg) ==
    /\ ~ MustStop(cfg)
    /\ EudCall([cfg |-> cfg, at |-> NextStep(cfg), srv |-> 0])
    /\ eudCfg' = cfg
    /\ UNCHANGED <<listener, bound, bindFailed, clientVars, fanOutVars>>

\* wait_closed returns when every connection the listener accepted is gone.
ListenerClosed(k) ==
    /\ eudCalls[k].at = "closing"
    /\ \A c \in Conns : acceptedBy[c] = eudCalls[k].srv /\ clientPhase[c] # "none" =>
                            c \in writerClosed \cup linkDown
    /\ eudCfg' = eudCalls[k].cfg
    /\ eudCalls' = [eudCalls EXCEPT ![k].at = NextStep(eudCalls[k].cfg)]
    /\ UNCHANGED <<listener, bound, bindFailed, eudOverlaps, clientVars, fanOutVars>>

\* start_server binds, then yields before it returns the listener.
Bind(k) ==
    /\ eudCalls[k].at = "bind"
    /\ \A b \in bound : b.port # eudCalls[k].cfg.port
    /\ bound' = bound \cup {[id |-> k, port |-> eudCalls[k].cfg.port]}
    /\ eudCalls' = [eudCalls EXCEPT ![k].at = "assign"]
    /\ UNCHANGED <<eudCfg, listener, bindFailed, eudOverlaps, clientVars, fanOutVars>>

\* The port is in use, by a listener of this node or by another program.
BindFails(k) ==
    /\ eudCalls[k].at = "bind"
    /\ listener' = 0 /\ bindFailed' = TRUE
    /\ eudCalls' = [eudCalls EXCEPT ![k].at = "done"]
    /\ UNCHANGED <<eudCfg, bound, eudOverlaps, clientVars, fanOutVars>>

\* Mutant of Assign: the listener is not kept.
Assign_Lost(k) ==
    /\ eudCalls[k].at = "assign"
    /\ bindFailed' = FALSE
    /\ eudCalls' = [eudCalls EXCEPT ![k].at = "done"]
    /\ UNCHANGED <<eudCfg, listener, bound, eudOverlaps, clientVars, fanOutVars>>

Assign(k) ==
    /\ eudCalls[k].at = "assign"
    /\ listener' = k /\ bindFailed' = FALSE
    /\ eudCalls' = [eudCalls EXCEPT ![k].at = "done"]
    /\ UNCHANGED <<eudCfg, bound, eudOverlaps, clientVars, fanOutVars>>

-----------------------------------------------------------------------------
(* Clients.                                                                *)

\* The connection is accepted and its task created; it registers when it runs.
AcceptClient(c) ==
    /\ clientPhase[c] = "none"
    /\ \E b \in bound : acceptedBy' = [acceptedBy EXCEPT ![c] = b.id]
    /\ clientPhase' = [clientPhase EXCEPT ![c] = "accepted"]
    /\ UNCHANGED <<listenerVars, clients, learned, writerClosed, linkDown, fanOutVars>>

Register(c) ==
    /\ clientPhase[c] = "accepted"
    /\ clientPhase' = [clientPhase EXCEPT ![c] = "reading"]
    /\ clients' = [d \in DOMAIN clients \cup {c} |-> IF d = c THEN {} ELSE clients[d]]
    /\ UNCHANGED <<listenerVars, acceptedBy, learned, writerClosed, linkDown, fanOutVars>>

Without(c) == Restrict(clients, DOMAIN clients \ {c})

PeerGone(c) ==
    /\ clientPhase[c] \notin {"none", "gone"} /\ c \notin linkDown
    /\ linkDown' = linkDown \cup {c}
    /\ UNCHANGED <<listenerVars, clientPhase, acceptedBy, clients, learned, writerClosed,
                   fanOutVars>>

\* The read ends; the client is forgotten and its writer closed.
Leave(c) ==
    /\ clientPhase[c] = "reading" /\ c \in writerClosed \cup linkDown
    /\ clientPhase' = [clientPhase EXCEPT ![c] = "gone"]
    /\ clients' = Without(c)
    /\ writerClosed' = writerClosed \cup {c}
    /\ UNCHANGED <<listenerVars, acceptedBy, learned, linkDown, fanOutVars>>

StartFanOut(from, src) ==
    /\ published' = Append(published, [from |-> from, src |-> src, snapshot |-> DOMAIN clients'])
    /\ fanOuts' = [m \in DOMAIN fanOuts \cup {Len(published) + 1} |->
                     IF m \in DOMAIN fanOuts THEN fanOuts[m] ELSE DOMAIN clients']
    /\ UNCHANGED sentTo

\* The uid of the device once a self-report has told it, else one of the connection.
Originator(c, self) == IF self \/ c \in learned THEN Device[c] ELSE c

\* Mutant of IngestEvent: the originator is noted only after the publication.
IngestEvent_NotedLate(c, self) ==
    /\ clientPhase[c] = "reading" /\ c \in DOMAIN clients /\ WorkLeft
    /\ learned' = IF self THEN learned \cup {c} ELSE learned
    /\ UNCHANGED clients
    /\ StartFanOut(c, Originator(c, self))
    /\ clientPhase' = [clientPhase EXCEPT ![c] = "ingesting"]
    /\ UNCHANGED <<listenerVars, acceptedBy, writerClosed, linkDown>>

\* _ingest of an event: what was in the buffer is read even if the client is
\* closed or forgotten by now.  It waits for the dispatch of its message (and of
\* the Identification that a new callsign puts before it, one more like it).
IngestEvent(c, self) ==
    /\ clientPhase[c] = "reading" /\ c \in DOMAIN clients /\ WorkLeft
    /\ learned' = IF self THEN learned \cup {c} ELSE learned
    /\ clients' = [clients EXCEPT ![c] = @ \cup {Originator(c, self)}]
    /\ StartFanOut(c, Originator(c, self))
    /\ clientPhase' = [clientPhase EXCEPT ![c] = "ingesting"]
    /\ UNCHANGED <<listenerVars, acceptedBy, writerClosed, linkDown>>

\* An event of a client that _emit or a stop has forgotten: _origins[cid] is a
\* KeyError, which ends the task.
IngestOrphan(c) ==
    /\ clientPhase[c] = "reading" /\ c \notin DOMAIN clients
    /\ clientPhase' = [clientPhase EXCEPT ![c] = "gone"]
    /\ writerClosed' = writerClosed \cup {c}
    /\ UNCHANGED <<listenerVars, acceptedBy, clients, learned, linkDown, fanOutVars>>

\* The gateway is stopped: the publication raises and the exception is suppressed.
IngestRefused(c, self) ==
    /\ clientPhase[c] = "reading" /\ c \in DOMAIN clients
    /\ learned' = IF self THEN learned \cup {c} ELSE learned
    /\ clients' = [clients EXCEPT ![c] = @ \cup {Originator(c, self)}]
    /\ UNCHANGED <<listenerVars, clientPhase, acceptedBy, writerClosed, linkDown, fanOutVars>>

\* A message of another node is dispatched.
FromNetwork ==
    /\ WorkLeft
    /\ UNCHANGED clientVars
    /\ StartFanOut(TheNetwork, TheNetwork)
    /\ UNCHANGED listenerVars

-----------------------------------------------------------------------------
(* The fan-out of one message: the clients of its snapshot in turn.        *)

SourcedBy(c) == IF c \in DOMAIN clients THEN clients[c] ELSE {}

PassOver(m, c) == fanOuts' = [fanOuts EXCEPT ![m] = @ \ {c}]

Skip(m, c) ==
    /\ c \in fanOuts[m] /\ published[m].src \in SourcedBy(c)
    /\ PassOver(m, c)
    /\ UNCHANGED <<listenerVars, clientVars, published, sentTo>>

\* What is written to a closing connection goes out behind what its buffer still
\* holds, or is lost if that is empty; on a broken one it is lost.
WriteFrame(m, c) ==
    \/ c \notin linkDown /\ sentTo' = sentTo \cup {<<m, c>>}
    \/ c \in writerClosed \cup linkDown /\ sentTo' = sentTo

Turn(m, c) == c \in fanOuts[m] /\ published[m].src \notin SourcedBy(c)

SendFrame(m, c) ==
    /\ Turn(m, c)
    /\ WriteFrame(m, c)
    /\ PassOver(m, c)
    /\ UNCHANGED <<listenerVars, clientVars, published>>

\* Mutant of SendFrameFails: the exception ends the fan-out.
SendFrameFails_LoopLeft(m, c) ==
    /\ Turn(m, c) /\ c \in writerClosed \cup linkDown
    /\ WriteFrame(m, c)
    /\ fanOuts' = [fanOuts EXCEPT ![m] = {}]
    /\ clients' = Without(c)
    /\ writerClosed' = writerClosed \cup {c}
    /\ UNCHANGED <<listenerVars, clientPhase, acceptedBy, learned, linkDown, published>>

\* write or drain raises: the client is forgotten and closed.
SendFrameFails(m, c) ==
    /\ Turn(m, c) /\ c \in writerClosed \cup linkDown
    /\ WriteFrame(m, c)
    /\ PassOver(m, c)
    /\ clients' = Without(c)
    /\ writerClosed' = writerClosed \cup {c}
    /\ UNCHANGED <<listenerVars, clientPhase, acceptedBy, learned, linkDown, published>>

FanOutEnds(m) ==
    /\ fanOuts[m] = {}
    /\ fanOuts' = Restrict(fanOuts, DOMAIN fanOuts \ {m})
    /\ clientPhase' = [c \in Conns |-> IF c = published[m].from THEN "reading" ELSE clientPhase[c]]
    /\ UNCHANGED <<listenerVars, acceptedBy, clients, learned, writerClosed, linkDown,
                   published, sentTo>>

EudNext ==
    \/ \E cfg \in EudConfigs : StopListener(cfg) \/ Reapply(cfg)
    \/ \E k \in EudPending : ListenerClosed(k) \/ Bind(k) \/ BindFails(k) \/ Assign(k)
    \/ \E c \in Conns :
         \/ AcceptClient(c) \/ Register(c) \/ PeerGone(c) \/ Leave(c) \/ IngestOrphan(c)
         \/ \E self \in BOOLEAN : IngestEvent(c, self) \/ IngestRefused(c, self)
    \/ FromNetwork
    \/ \E m \in DOMAIN fanOuts :
         \/ \E c \in fanOuts[m] : Skip(m, c) \/ SendFrame(m, c) \/ SendFrameFails(m, c)
         \/ FanOutEnds(m)

EudSpec == EudInit /\ [][EudNext]_eudVars

-----------------------------------------------------------------------------
(* Properties.                                                             *)

\* Every variable in its set.
EudTypeOK ==
    /\ eudCfg \in EudConfigs
    /\ listener \in 0 .. MaxWork
    /\ bound \subseteq [id : 1 .. MaxWork, port : Ports]
    /\ clientPhase \in [Conns -> {"none", "accepted", "reading", "ingesting", "gone"}]
    /\ DOMAIN clients \subseteq Conns /\ DOMAIN fanOuts \subseteq DOMAIN published

\* With no reconfiguration under way the listener is the one the settings ask
\* for, or the last bind failed; only overlapping reconfigurations can leave
\* another one listening that the manager has lost, at most one each.
TheListener ==
    EudPending = {} =>
        /\ eudOverlaps = 0 =>
             IF listener # 0
             THEN eudCfg.enabled /\ bound = {[id |-> listener, port |-> eudCfg.port]}
             ELSE bound = {} /\ (eudCfg.enabled => bindFailed)
        /\ Cardinality({b \in bound : b.id # listener}) <= eudOverlaps

\* The table names only clients whose task is running, and no device stays
\* connected to a server switched off, even one whose task had not yet run when
\* the listener was stopped.
TheClients ==
    /\ \A c \in DOMAIN clients : clientPhase[c] \in {"reading", "ingesting"}
    /\ EudPending = {} /\ bound = {} => DOMAIN clients \subseteq writerClosed \cup linkDown

\* What GET /api/eud reports is so, through any interleaving of
\* reconfigurations, connections and failures: which listener there is and
\* which devices are on it.
ListenerTruth == TheListener /\ TheClients

\* "Don't echo an EUD's own track back to it" (_emit): no fan-out writes a message
\* to the client that sent it, whatever becomes of the client under it.  But a stop
\* of the listener forgets what its clients have sourced while fan-outs wait, and a
\* closing connection may still carry what they write: one it has closed is excepted.
OwnTrackNotEchoed ==
    \A m \in DOMAIN published :
        <<m, published[m].from>> \in sentTo => published[m].from \in writerClosed

\* A client that is gone, closed or slow to fail does not cost the others the
\* message: whoever is in the snapshot and not still ahead has got it, unless
\* its connection ended or it is a source of the message's originator.
FanOutServes ==
    \A m \in DOMAIN published :
        \A c \in published[m].snapshot \ (IF m \in DOMAIN fanOuts THEN fanOuts[m] ELSE {}) :
            \/ <<m, c>> \in sentTo
            \/ c \in writerClosed \cup linkDown
            \/ published[m].src \in SourcedBy(c)
=============================================================================
