--------------------------- MODULE HotReconfigure ---------------------------
(***************************************************************************)
(* Changing a running node's configuration: PUT /api/config, which stops   *)
(* the node and builds another (web/runtime.py, web/app.py), the edits of  *)
(* one section, and the config file they are all written to.               *)
(*                                                                         *)
(* PUT and the edits of the servers and EUD sections are coroutines of the *)
(* event loop, interleaved where they await; a capability edit is a plain  *)
(* function and runs in a worker thread, interleaved anywhere.  The config *)
(* is a function on its leaf settings: deep_merge replaces the leaves a    *)
(* patch names.  Three leaves stand for the rest: "identification", the    *)
(* permission to emit that message type; "endpoint", which may validate    *)
(* and yet not be one a gateway can be built for or started on; and        *)
(* "servers", edited in place.  A node is known by its number; its address *)
(* (Python's id) may be that of an earlier node that has been freed.       *)
(***************************************************************************)
EXTENDS Naturals, Sequences, FiniteSets, Functions

CONSTANTS
    MaxRequests,    \* bound: requests to one process and its successors
    MaxCrashes      \* bound: crashes of the process

Settings == {"identification", "endpoint", "servers"}
Values == [identification |-> {"on", "off"}, endpoint |-> {"lan", "bad"},
           servers |-> {"none", "one"}]
Default == [identification |-> "on", endpoint |-> "lan", servers |-> "none"]
Managers == {"servers", "eud"}
NoFile == [s \in {} |-> "none"]

VARIABLES
    gateways,   \* every gateway and node built: [up, config, emit, addr, relays]
    serving,    \* app.state.gateway and node, 0 while the process is down
    first,      \* the process's first node, which the lifespan's frame keeps alive
    attached,   \* manager -> the gateway it is attached to
    relayIds,   \* manager -> _relay_nodes
    cfgFile,    \* the settings in the config file
    requests,   \* the requests so far: [kind, at, gw, config]
    crashes,
    overlaps,   \* history: PUTs that began during another
    interleaved,\* history: a request began during another
    failures    \* history: PUTs that ended in an exception

nodeVars == <<gateways, serving, first, attached, relayIds>>
reconfigureVars ==
    <<nodeVars, cfgFile, requests, crashes, overlaps, interleaved, failures>>

Filled(f) == [s \in Settings |-> IF s \in DOMAIN f THEN f[s] ELSE Default[s]]

DeepMerge(base, patch) ==
    [s \in Settings |-> IF s \in DOMAIN patch THEN patch[s] ELSE base[s]]

Patches == UNION {[{s} -> Values[s]] : s \in Settings}

Build(config, addr) ==
    [up |-> TRUE, config |-> config, emit |-> config["identification"],
     addr |-> addr, relays |-> {}]

\* The gateway can be constructed and its transport bound.
Startable(config) == config["endpoint"] # "bad"

\* attach: the relay is registered once per node address.
Attach(g, ms, gws) ==
    /\ attached' = [m \in Managers |-> IF m \in ms THEN g ELSE attached[m]]
    /\ relayIds' = [m \in Managers |->
                      relayIds[m] \cup (IF m \in ms THEN {gws[g].addr} ELSE {})]
    /\ gateways' = [gws EXCEPT ![g].relays =
                      @ \cup {m \in ms : gws[g].addr \notin relayIds[m]}]

\* The lifespan of the app: build, identify, attach both managers.
ReconfigureInit ==
    /\ gateways = <<[Build(Default, 1) EXCEPT !.relays = Managers]>>
    /\ serving = 1 /\ first = 1
    /\ attached = [m \in Managers |-> 1]
    /\ relayIds = [m \in Managers |-> {1}]
    /\ cfgFile = NoFile
    /\ requests = <<>>
    /\ crashes = 0 /\ overlaps = 0 /\ interleaved = FALSE /\ failures = 0

-----------------------------------------------------------------------------
Ended == {"done", "failed"}
UnderWay == {r \in DOMAIN requests : requests[r].at \notin Ended}

\* A coroutine between the load and the end of the save does not yield.
LoopFree(r) ==
    \A q \in UnderWay \ {r} :
        requests[q].kind # "capability" => requests[q].at \notin {"stored", "write"}

RequestAt(r, where) == r \in DOMAIN requests /\ requests[r].at = where
RequestGoes(r, where) == requests' = [requests EXCEPT ![r].at = where]

Request(kind, where, config) ==
    /\ serving # 0 /\ Len(requests) < MaxRequests
    /\ requests' = Append(requests,
                     [kind |-> kind, at |-> where, gw |-> serving, config |-> config])
    /\ interleaved' = (interleaved \/ UnderWay # {})
    /\ overlaps' = IF kind = "put" /\ \E r \in UnderWay : requests[r].kind = "put"
                   THEN overlaps + 1 ELSE overlaps
    /\ UNCHANGED <<crashes, failures>>

Put(patch) ==
    /\ LoopFree(0)
    /\ Request("put", "stop", DeepMerge(gateways[serving].config, patch))
    /\ UNCHANGED <<nodeVars, cfgFile>>

\* Mutant of PutInvalid: the config is validated once the node is stopped.
PutInvalid_TornDown ==
    /\ LoopFree(0)
    /\ Request("put", "done", gateways[serving].config)
    /\ gateways' = [gateways EXCEPT ![serving].up = FALSE]
    /\ UNCHANGED <<serving, first, attached, relayIds, cfgFile>>

\* A config that does not validate ends the request before anything changes.
PutInvalid ==
    /\ LoopFree(0)
    /\ Request("put", "done", gateways[serving].config)
    /\ UNCHANGED <<nodeVars, cfgFile>>

\* Mutant of StopOld: the node is left to its successor to stop.
StopOld_LeftUp(r) ==
    /\ RequestAt(r, "stop") /\ LoopFree(r)
    /\ RequestGoes(r, "start")
    /\ UNCHANGED <<nodeVars, cfgFile, crashes, overlaps, interleaved, failures>>

\* The node that was serving when the request began.
StopOld(r) ==
    /\ RequestAt(r, "stop") /\ LoopFree(r)
    /\ gateways' = [gateways EXCEPT ![requests[r].gw].up = FALSE]
    /\ RequestGoes(r, "start")
    /\ UNCHANGED <<serving, first, attached, relayIds, cfgFile, crashes, overlaps, interleaved,
                   failures>>

InUse == {serving, first} \cup Range(attached) \cup {requests[q].gw : q \in UnderWay}
Addresses ==
    ({Len(gateways) + 1} \cup {gateways[g].addr : g \in DOMAIN gateways})
        \ {gateways[g].addr : g \in InUse \ {0}}

PutFails(r) == RequestGoes(r, "failed") /\ failures' = failures + 1

StartNew(r) ==
    /\ RequestAt(r, "start") /\ LoopFree(r)
    /\ LET config == requests[r].config
       IN  IF ~ Startable(config)
           THEN PutFails(r) /\ UNCHANGED gateways
           ELSE /\ \E addr \in Addresses : gateways' = Append(gateways, Build(config, addr))
                /\ requests' = [requests EXCEPT ![r].at = "identify",
                                                ![r].gw = Len(gateways) + 1]
                /\ UNCHANGED failures
    /\ UNCHANGED <<serving, first, attached, relayIds, cfgFile, crashes, overlaps, interleaved>>

\* identify() publishes and raises CapabilityError where that is not permitted;
\* else the new node is the app's and the server manager's.
Identify(r) ==
    /\ RequestAt(r, "identify") /\ LoopFree(r)
    /\ LET g == requests[r].gw
       IN  IF gateways[g].emit = "off"
           THEN PutFails(r) /\ UNCHANGED <<gateways, serving, attached, relayIds>>
           ELSE /\ serving' = g
                /\ Attach(g, {"servers"}, gateways)
                /\ RequestGoes(r, "reconcile")
                /\ UNCHANGED failures
    /\ UNCHANGED <<first, cfgFile, crashes, overlaps, interleaved>>

\* Mutant of ServersReconciled: the EUD server keeps the node it has.
ServersReconciled_EudForgotten(r) ==
    /\ RequestAt(r, "reconcile") /\ LoopFree(r)
    /\ IF requests[r].kind = "put" THEN RequestGoes(r, "eud") ELSE RequestGoes(r, "load")
    /\ UNCHANGED <<nodeVars, cfgFile, crashes, overlaps, interleaved, failures>>

\* The servers are reconciled; an edit of them goes on to its section of the file.
ServersReconciled(r) ==
    /\ RequestAt(r, "reconcile") /\ LoopFree(r)
    /\ IF requests[r].kind = "put"
       THEN Attach(requests[r].gw, {"eud"}, gateways) /\ RequestGoes(r, "eud")
       ELSE RequestGoes(r, "load") /\ UNCHANGED <<gateways, attached, relayIds>>
    /\ UNCHANGED <<serving, first, cfgFile, crashes, overlaps, interleaved, failures>>

EudReconfigured(r) ==
    /\ RequestAt(r, "eud") /\ LoopFree(r)
    /\ RequestGoes(r, "stored")
    /\ UNCHANGED <<nodeVars, cfgFile, crashes, overlaps, interleaved, failures>>

-----------------------------------------------------------------------------
(* Edits of one section, and the file.                                     *)

EditCapability(v) ==
    /\ Request("capability", "set", [s \in {"identification"} |-> v])
    /\ UNCHANGED <<nodeVars, cfgFile>>

\* The matrix of the gateway that was serving when the request was resolved.
SetMatrix(r) ==
    /\ RequestAt(r, "set")
    /\ gateways' = [gateways EXCEPT ![requests[r].gw].emit = requests[r].config["identification"]]
    /\ RequestGoes(r, "load")
    /\ UNCHANGED <<serving, first, attached, relayIds, cfgFile, crashes, overlaps, interleaved,
                   failures>>

EditServers(v) ==
    /\ LoopFree(0)
    /\ Request("servers", "reconcile", [s \in {"servers"} |-> v])
    /\ gateways' = [gateways EXCEPT ![serving].config["servers"] = v]
    /\ UNCHANGED <<serving, first, attached, relayIds, cfgFile>>

\* Mutant of Load: the section is saved alone.
Load_SectionOnly(r) ==
    /\ RequestAt(r, "load")
    /\ RequestGoes(r, "stored")
    /\ UNCHANGED <<nodeVars, cfgFile, crashes, overlaps, interleaved, failures>>

\* persist_config_section: the section is put into what the file holds now.
Load(r) ==
    /\ RequestAt(r, "load")
    /\ requests[r].kind # "capability" => LoopFree(r)
    /\ requests' = [requests EXCEPT
         ![r].config = [s \in DOMAIN cfgFile \cup DOMAIN @ |->
                          IF s \in DOMAIN @ THEN @[s] ELSE cfgFile[s]],
         ![r].at = "stored"]
    /\ UNCHANGED <<nodeVars, cfgFile, crashes, overlaps, interleaved, failures>>

\* write_text empties the file before it writes.
Truncate(r) ==
    /\ RequestAt(r, "stored")
    /\ requests[r].kind # "capability" => LoopFree(r)
    /\ cfgFile' = NoFile
    /\ RequestGoes(r, "write")
    /\ UNCHANGED <<nodeVars, crashes, overlaps, interleaved, failures>>

Write(r) ==
    /\ RequestAt(r, "write")
    /\ cfgFile' = requests[r].config
    /\ RequestGoes(r, "done")
    /\ UNCHANGED <<nodeVars, crashes, overlaps, interleaved, failures>>

\* The process dies and is started again on what the file holds; where the
\* node cannot start or identify itself, the process does not come up.
Crash ==
    /\ crashes < MaxCrashes /\ crashes' = crashes + 1
    /\ requests' = [r \in DOMAIN requests |->
                      [requests[r] EXCEPT !.at = IF @ \in Ended THEN @ ELSE "done"]]
    /\ LET g == Len(gateways) + 1
           down == [k \in DOMAIN gateways |-> [gateways[k] EXCEPT !.up = FALSE]]
           fresh == [Build(Filled(cfgFile), g) EXCEPT !.relays = Managers]
       IN  IF Startable(fresh.config) /\ fresh.emit = "on"
           THEN /\ gateways' = Append(down, fresh)
                /\ serving' = g /\ first' = g
                /\ attached' = [m \in Managers |-> g]
                /\ relayIds' = [m \in Managers |-> {g}]
           ELSE gateways' = down /\ serving' = 0 /\ UNCHANGED <<first, attached, relayIds>>
    /\ overlaps' = 0 /\ interleaved' = FALSE /\ failures' = 0
    /\ UNCHANGED cfgFile

ReconfigureNext ==
    \/ \E patch \in Patches : Put(patch)
    \/ PutInvalid
    \/ \E v \in Values["identification"] : EditCapability(v)
    \/ \E v \in Values["servers"] : EditServers(v)
    \/ \E r \in UnderWay :
         \/ StopOld(r) \/ StartNew(r) \/ Identify(r) \/ ServersReconciled(r)
         \/ EudReconfigured(r) \/ SetMatrix(r) \/ Load(r) \/ Truncate(r) \/ Write(r)
    \/ Crash

ReconfigureSpec == ReconfigureInit /\ [][ReconfigureNext]_reconfigureVars

-----------------------------------------------------------------------------
(* Properties.                                                             *)

Settled == UnderWay = {} /\ serving # 0
Live == [gateways[serving].config EXCEPT !["identification"] = gateways[serving].emit]

\* Every variable in its set.
ReconfigureTypeOK ==
    /\ \A g \in DOMAIN gateways :
         /\ gateways[g].up \in BOOLEAN
         /\ gateways[g].relays \subseteq Managers
         /\ \A s \in Settings : gateways[g].config[s] \in Values[s]
    /\ serving \in 0 .. Len(gateways)
    /\ attached \in [Managers -> DOMAIN gateways]
    /\ DOMAIN cfgFile \subseteq Settings
    /\ \A r \in DOMAIN requests : requests[r].gw \in DOMAIN gateways

\* config.py update_config: "an invalid patch (HTTP 422) never takes the node
\* offline".  However requests overlap, once they have ended the node the app
\* refers to is running, unless one of them failed after validation.
ServingNodeRuns == Settled /\ failures = 0 => gateways[serving].up

\* A gateway left running that nobody refers to comes from two overlapping
\* PUTs, which stop the same node and start two, or from one that failed.
LeaksAccounted ==
    Settled =>
        Cardinality({g \in DOMAIN gateways \ {serving} : gateways[g].up}) <= overlaps + failures

\* reconfigure "persist"s and "re-point"s: through any sequence of
\* reconfigurations, edits and crashes in which no two requests were interleaved
\* and none failed, the config file says what is live and both managers are at
\* the serving node.
ReconfiguredTruth ==
    Settled /\ ~ interleaved /\ failures = 0 =>
        /\ Filled(cfgFile) = Live
        /\ \A m \in Managers : attached[m] = serving

\* runtime.py reconfigure: "the running node is only torn down after the new
\* config validates, so a bad patch never leaves the node down".
NeverLeftDown == Settled => gateways[serving].up
=============================================================================
