--------------------------- MODULE ServerReconcile ---------------------------
(***************************************************************************)
(* CRUD of the TAK server connections: the endpoints of                    *)
(* web/routers/servers.py and ServerConnectionManager.reconcile            *)
(* (web/servers.py), which start and stop one TakServerConnector per       *)
(* enabled server.                                                         *)
(*                                                                         *)
(* Each request is a coroutine on the event loop; nothing serialises two   *)
(* of them.  "current" is the request that runs: others get a turn only    *)
(* when it awaits a connector's start() or stop().  A connector is known   *)
(* by its number and keeps its parameters for life.                        *)
(***************************************************************************)
EXTENDS Naturals, FiniteSets

CONSTANTS
    Servers,    \* server ids
    Params,     \* connection parameters (_CONNECT_FIELDS)
    Requests,   \* create, update and delete requests, one task each
    Absent,     \* no such server
    NoRequest,
    Initial     \* the servers of the config file at start-up

Definitions == [params : Params, enabled : BOOLEAN] \cup {Absent}

ASSUME ReconcileAssumptions ==
    /\ Servers # {} /\ IsFiniteSet(Servers)
    /\ Absent \notin [params : Params, enabled : BOOLEAN]
    /\ Initial \in [Servers -> Definitions]
    /\ NoRequest \notin Requests

VARIABLES
    config,     \* gateway.config.servers
    file,       \* the servers section of the config file
    defs,       \* _defs
    conns,      \* _conns: server -> number of its connector, 0 for none
    running,    \* connectors whose supervisor runs: {[id, server, params]}
    tmp,        \* _tmp: server -> connector whose certificate files it names
    certs,      \* connectors whose temporary certificate files exist
    made,       \* connectors made so far
    pc,         \* request -> where it is
    desired,    \* request -> the servers it wants
    todo,       \* request -> servers its loop has still to visit
    visiting,   \* request -> server and connector it awaits
    current,    \* the request the event loop is running
    overlapped  \* history: a request has begun while another was under way

liveVars == <<conns, running, tmp, certs, made>>
taskVars == <<pc, desired, todo, visiting, current>>
vars == <<config, file, defs, liveVars, taskVars, overlapped>>

Enabled(d) == d # Absent /\ d.enabled

Init ==
    /\ config = Initial /\ file = Initial /\ defs = Initial
    /\ \E number \in [Servers -> 1 .. Cardinality(Servers)] :
         /\ \A s, t \in Servers : number[s] = number[t] => s = t
         /\ conns = [s \in Servers |-> IF Enabled(Initial[s]) THEN number[s] ELSE 0]
    /\ running = {[id |-> conns[s], server |-> s, params |-> Initial[s].params] :
                     s \in {t \in Servers : conns[t] # 0}}
    /\ tmp = conns
    /\ certs = {conns[s] : s \in Servers} \ {0}
    /\ made = Cardinality(Servers)
    /\ pc = [r \in Requests |-> "new"]
    /\ desired = [r \in Requests |-> Initial]
    /\ todo = [r \in Requests |-> {}]
    /\ visiting = [r \in Requests |-> [server |-> CHOOSE s \in Servers : TRUE, id |-> 0]]
    /\ current = NoRequest
    /\ overlapped = FALSE

Turn(r) == current \in {NoRequest, r}

Quiet == \A r \in Requests : pc[r] \in {"new", "done"}

Goto(r, where) == pc' = [pc EXCEPT ![r] = where]

-----------------------------------------------------------------------------
(* The endpoint: config.servers is replaced, reconcile takes its snapshot. *)

Changed(old, new) == IF old = Absent THEN TRUE ELSE old.params # new.params

\* Mutant of Begin: the body is stored as it came, without the default of "enabled".
Begin_Unvalidated(r) ==
    /\ pc[r] = "new"
    /\ current = NoRequest
    /\ \E s \in Servers, par \in Params :
         desired' = [desired EXCEPT ![r] = [config EXCEPT ![s] = [params |-> par]]]
    /\ config' = desired'[r]
    /\ todo' = [todo EXCEPT ![r] = {s \in Servers : conns[s] # 0}]
    /\ Goto(r, "stop")
    /\ current' = r
    /\ overlapped' = (overlapped \/ ~ Quiet)
    /\ UNCHANGED <<file, defs, liveVars, visiting>>

Begin(r) ==
    /\ pc[r] = "new"
    /\ current = NoRequest
    /\ \E s \in Servers, d \in Definitions :
         /\ ~ (config[s] = Absent /\ d = Absent)
         /\ desired' = [desired EXCEPT ![r] = [config EXCEPT ![s] = d]]
    /\ config' = desired'[r]
    /\ todo' = [todo EXCEPT ![r] = {s \in Servers : conns[s] # 0}]
    /\ Goto(r, "stop")
    /\ current' = r
    /\ overlapped' = (overlapped \/ ~ Quiet)
    /\ UNCHANGED <<file, defs, liveVars, visiting>>

\* The connector must go: its server is gone, disabled or connects differently.
\* A server another request has taken out of _defs counts as changed.
Obsolete(r, s) == Enabled(desired[r][s]) => Changed(defs[s], desired[r][s])

KeepOne(r) ==
    /\ pc[r] = "stop" /\ Turn(r)
    /\ \E s \in todo[r] :
         /\ ~ Obsolete(r, s)
         /\ todo' = [todo EXCEPT ![r] = @ \ {s}]
    /\ current' = r
    /\ UNCHANGED <<config, file, defs, liveVars, pc, desired, visiting>>

CleanUp(s) ==
    /\ certs' = certs \ {tmp[s]}
    /\ tmp' = [tmp EXCEPT ![s] = 0]

\* Mutant of StopOne: the connector is forgotten, but not told to stop.
StopOne_NotStopped(r) ==
    /\ pc[r] = "stop" /\ Turn(r)
    /\ \E s \in todo[r] :
         /\ Obsolete(r, s)
         /\ todo' = [todo EXCEPT ![r] = @ \ {s}]
         /\ conns' = [conns EXCEPT ![s] = 0]
         /\ CleanUp(s)
    /\ current' = r
    /\ UNCHANGED <<config, file, defs, running, made, pc, desired, visiting>>

\* _stop_one: the connector leaves _conns, then its stop() is awaited.  If
\* another request has taken it already there is nothing to await.
StopOne(r) ==
    /\ pc[r] = "stop" /\ Turn(r)
    /\ \E s \in todo[r] :
         /\ Obsolete(r, s)
         /\ todo' = [todo EXCEPT ![r] = @ \ {s}]
         /\ IF conns[s] = 0
            THEN /\ CleanUp(s)
                 /\ current' = r
                 /\ UNCHANGED <<conns, pc, visiting>>
            ELSE /\ visiting' = [visiting EXCEPT ![r] = [server |-> s, id |-> conns[s]]]
                 /\ conns' = [conns EXCEPT ![s] = 0]
                 /\ Goto(r, "stopping")
                 /\ current' = NoRequest
                 /\ UNCHANGED <<tmp, certs>>
    /\ UNCHANGED <<config, file, defs, running, made, desired>>

\* stop() has returned; _tmp is read only now.
StoppedOne(r) ==
    /\ pc[r] = "stopping" /\ Turn(r)
    /\ running' = {c \in running : c.id # visiting[r].id}
    /\ CleanUp(visiting[r].server)
    /\ Goto(r, "stop")
    /\ current' = r
    /\ UNCHANGED <<config, file, defs, conns, made, desired, todo, visiting>>

StopsDone(r) ==
    /\ pc[r] = "stop" /\ Turn(r)
    /\ todo[r] = {}
    /\ todo' = [todo EXCEPT ![r] = {s \in Servers : Enabled(desired[r][s])}]
    /\ Goto(r, "start")
    /\ current' = r
    /\ UNCHANGED <<config, file, defs, liveVars, desired, visiting>>

\* Mutant of StartOne: an enabled server is started whether or not it is up.
StartOne_Always(r) ==
    /\ pc[r] = "start" /\ Turn(r)
    /\ \E s \in todo[r] :
         /\ todo' = [todo EXCEPT ![r] = @ \ {s}]
         /\ made' = made + 1
         /\ conns' = [conns EXCEPT ![s] = made + 1]
         /\ running' = running \cup
                {[id |-> made + 1, server |-> s, params |-> desired[r][s].params]}
         /\ tmp' = [tmp EXCEPT ![s] = made + 1]
         /\ certs' = certs \cup {made + 1}
         /\ visiting' = [visiting EXCEPT ![r] = [server |-> s, id |-> made + 1]]
    /\ Goto(r, "starting")
    /\ current' = NoRequest
    /\ UNCHANGED <<config, file, defs, desired>>

\* _start_one: start() waits for the first connection, up to its timeout.
StartOne(r) ==
    /\ pc[r] = "start" /\ Turn(r)
    /\ \E s \in todo[r] :
         /\ conns[s] = 0
         /\ todo' = [todo EXCEPT ![r] = @ \ {s}]
         /\ made' = made + 1
         /\ conns' = [conns EXCEPT ![s] = made + 1]
         /\ running' = running \cup
                {[id |-> made + 1, server |-> s, params |-> desired[r][s].params]}
         /\ tmp' = [tmp EXCEPT ![s] = made + 1]
         /\ certs' = certs \cup {made + 1}
         /\ visiting' = [visiting EXCEPT ![r] = [server |-> s, id |-> made + 1]]
    /\ Goto(r, "starting")
    /\ current' = NoRequest
    /\ UNCHANGED <<config, file, defs, desired>>

IsUp(r) ==
    /\ pc[r] = "start" /\ Turn(r)
    /\ \E s \in todo[r] :
         /\ conns[s] # 0
         /\ todo' = [todo EXCEPT ![r] = @ \ {s}]
    /\ current' = r
    /\ UNCHANGED <<config, file, defs, liveVars, pc, desired, visiting>>

StartedOne(r) ==
    /\ pc[r] = "starting" /\ Turn(r)
    /\ Goto(r, "start")
    /\ current' = r
    /\ UNCHANGED <<config, file, defs, liveVars, desired, todo, visiting>>

\* reconcile ends with the assignment of _defs; the section is then saved.
Finish(r) ==
    /\ pc[r] = "start" /\ Turn(r)
    /\ todo[r] = {}
    /\ defs' = desired[r]
    /\ file' = desired[r]
    /\ Goto(r, "done")
    /\ current' = NoRequest
    /\ UNCHANGED <<config, liveVars, desired, todo, visiting>>

Step(r) ==
    \/ KeepOne(r) \/ StopOne(r) \/ StoppedOne(r) \/ StopsDone(r)
    \/ StartOne(r) \/ IsUp(r) \/ StartedOne(r) \/ Finish(r)

Next == \E r \in Requests : Begin(r) \/ (Step(r) /\ UNCHANGED overlapped)

Spec == Init /\ [][Next]_vars

-----------------------------------------------------------------------------
(* Properties.                                                             *)

\* Every variable in its set.
TypeOK ==
    /\ {config, file, defs} \subseteq [Servers -> Definitions]
    /\ made \in Nat
    /\ conns \in [Servers -> 0 .. made]
    /\ running \subseteq [id : 1 .. made, server : Servers, params : Params]
    /\ tmp \in [Servers -> 0 .. made]
    /\ certs \subseteq 1 .. made
    /\ pc \in [Requests -> {"new", "stop", "stopping", "start", "starting", "done"}]
    /\ desired \in [Requests -> [Servers -> Definitions]]
    /\ todo \in [Requests -> SUBSET Servers]
    /\ visiting \in [Requests -> [server : Servers, id : 0 .. made]]
    /\ current \in Requests \cup {NoRequest}
    /\ overlapped \in BOOLEAN

\* No connector escapes the manager: a running connector is the one _conns
\* names for its server, or a request is awaiting its stop(); and _conns never
\* names a connector that has stopped.  This holds however requests overlap.
NoStrayConnector ==
    /\ \A c \in running :
         \/ conns[c.server] = c.id
         \/ \E r \in Requests : pc[r] = "stopping" /\ visiting[r] = [server |-> c.server, id |-> c.id]
    /\ \A s \in Servers : conns[s] # 0 => \E c \in running : c.id = conns[s] /\ c.server = s

\* routers/servers.py _apply: "Make servers the live + persisted truth: config,
\* connectors, and the config file".  With no request under way the config, the
\* file and the manager agree, exactly the enabled servers have a running
\* connector, with the configured parameters, and the temporary certificate
\* files are those of the live connectors: none missing, none left behind.
LiveTruth ==
    Quiet =>
        /\ file = config /\ defs = config
        /\ {<<c.server, c.params>> : c \in running}
             = {<<s, config[s].params>> : s \in {t \in Servers : Enabled(config[t])}}
        /\ certs = {conns[s] : s \in Servers} \ {0}

\* The same where the code can keep it: as long as no two requests overlapped,
\* in any sequence of creations, edits, switches and deletions.
SequentialTruth == ~ overlapped => LiveTruth
=============================================================================
