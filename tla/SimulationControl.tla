------------------------- MODULE SimulationControl -------------------------
(***************************************************************************)
(* Starting and stopping the live simulation from the dashboard            *)
(* (simulator/manager.py, the lifecycle part of simulator/scenario.py,     *)
(* web/routers/simcontrol.py).                                             *)
(*                                                                         *)
(* start and stop are coroutines of the event loop and there is no lock:   *)
(* they interleave with each other and with the loop task wherever a       *)
(* client is started, stopped or ticked.  A simulation is its clients that *)
(* are running, the rogue the last of them.                                *)
(***************************************************************************)
EXTENDS Naturals, Sequences, FiniteSets

CONSTANTS
    ClientCount,    \* clients of a simulation
    MaxSimCalls,    \* bound: calls of start and stop
    MaxSimFailures  \* bound: clients that do not start and ticks that raise

ASSUME SimAssumptions == ClientCount \in Nat

VARIABLES
    sims,           \* every Simulation built: its clients that are running
    sim,            \* _sim: number of a simulation, 0 for None
    task,           \* _task: number of a loop, 0 for None
    loops,          \* every loop task: runs, cancelling, cancelled, died (raised)
    simCalls,       \* the calls: [kind, at, of, next]
    simOverlaps,    \* history: calls that began during another
    simFailures     \* history: clients that failed to start, ticks that raised

managerVars == <<sims, sim, task, loops>>
simVars == <<managerVars, simCalls, simOverlaps, simFailures>>

SimInit ==
    /\ sims = <<>> /\ sim = 0 /\ task = 0 /\ loops = <<>>
    /\ simCalls = <<>> /\ simOverlaps = 0 /\ simFailures = 0

Clients == 1 .. ClientCount
SimRunning == task # 0 /\ loops[task] \in {"runs", "cancelling"}

SimPending == {c \in DOMAIN simCalls : simCalls[c].at # "done"}
CallAt(c, where) == simCalls[c].at = where
CallGoes(c, where) == simCalls' = [simCalls EXCEPT ![c].at = where]

SimCall(kind, where, of) ==
    /\ Len(simCalls) < MaxSimCalls
    /\ simCalls' = Append(simCalls, [kind |-> kind, at |-> where, of |-> of, next |-> 1])
    /\ simOverlaps' = simOverlaps + (IF SimPending = {} THEN 0 ELSE 1)

-----------------------------------------------------------------------------
(* start                                                                   *)

\* running is tested here, and _task set only once every client is up.
StartSimulation ==
    /\ ~ SimRunning
    /\ SimCall("start", "clients", Len(sims) + 1)
    /\ sims' = Append(sims, {})
    /\ sim' = Len(sims) + 1
    /\ UNCHANGED <<task, loops, simFailures>>

StartClient(c) ==
    /\ CallAt(c, "clients") /\ simCalls[c].kind = "start" /\ simCalls[c].next \in Clients
    /\ sims' = [sims EXCEPT ![simCalls[c].of] = @ \cup {simCalls[c].next}]
    /\ simCalls' = [simCalls EXCEPT ![c].next = @ + 1]
    /\ UNCHANGED <<sim, task, loops, simOverlaps, simFailures>>

\* A client's transport does not start: those before it stay up, _sim stays set.
StartClientFails(c) ==
    /\ CallAt(c, "clients") /\ simCalls[c].kind = "start" /\ simCalls[c].next \in Clients
    /\ simFailures < MaxSimFailures /\ simFailures' = simFailures + 1
    /\ CallGoes(c, "done")
    /\ UNCHANGED <<managerVars, simOverlaps>>

\* The loop is created, in the place of one that overlapping starts left there.
CreateLoop(c) ==
    /\ CallAt(c, "clients") /\ simCalls[c].kind = "start" /\ simCalls[c].next \notin Clients
    /\ loops' = Append(loops, "runs")
    /\ task' = Len(loops')
    /\ CallGoes(c, "done")
    /\ UNCHANGED <<sims, sim, simOverlaps, simFailures>>

-----------------------------------------------------------------------------
(* The loop.                                                               *)

\* A tick drives _sim as it is now: none, or a client that is down, raises.
LoopTick(l) ==
    /\ loops[l] = "runs"
    /\ IF sim = 0 THEN TRUE ELSE sims[sim] # Clients
    /\ loops' = [loops EXCEPT ![l] = "died"]
    /\ UNCHANGED <<sims, sim, task, simCalls, simOverlaps, simFailures>>

\* A tick raises of itself: a walk that has left the range of a latitude.
LoopDies(l) ==
    /\ loops[l] = "runs"
    /\ simFailures < MaxSimFailures /\ simFailures' = simFailures + 1
    /\ loops' = [loops EXCEPT ![l] = "died"]
    /\ UNCHANGED <<sims, sim, task, simCalls, simOverlaps>>

-----------------------------------------------------------------------------
(* stop                                                                    *)

StopTask ==
    /\ task # 0 /\ loops[task] # "died"
    /\ SimCall("stop", "task", task)
    /\ loops' = [loops EXCEPT ![task] = IF @ = "runs" THEN "cancelling" ELSE @]
    /\ UNCHANGED <<sims, sim, task, simFailures>>

LoopCancelled(l) ==
    /\ loops[l] = "cancelling"
    /\ loops' = [loops EXCEPT ![l] = "cancelled"]
    /\ UNCHANGED <<sims, sim, task, simCalls, simOverlaps, simFailures>>

\* Awaiting a loop that died raises its exception: stop ends here, every time.
StopRaises ==
    /\ task # 0 /\ loops[task] = "died"
    /\ SimCall("stop", "done", 0)
    /\ UNCHANGED <<managerVars, simFailures>>

StopWithoutTask ==
    /\ task = 0
    /\ SimCall("stop", IF sim = 0 THEN "done" ELSE "clients", sim)
    /\ UNCHANGED <<managerVars, simFailures>>

\* Mutant of TaskEnded: the simulation is let go with its clients running.
TaskEnded_ClientsLeft(c) ==
    /\ CallAt(c, "task") /\ loops[simCalls[c].of] = "cancelled"
    /\ task' = 0 /\ sim' = 0
    /\ CallGoes(c, "done")
    /\ UNCHANGED <<sims, loops, simOverlaps, simFailures>>

TaskEnded(c) ==
    /\ CallAt(c, "task") /\ loops[simCalls[c].of] = "cancelled"
    /\ task' = 0
    /\ simCalls' = [simCalls EXCEPT ![c].at = IF sim = 0 THEN "done" ELSE "clients",
                                    ![c].of = sim]
    /\ UNCHANGED <<sims, sim, loops, simOverlaps, simFailures>>

StopClient(c) ==
    /\ CallAt(c, "clients") /\ simCalls[c].kind = "stop" /\ simCalls[c].next \in Clients
    /\ sims' = [sims EXCEPT ![simCalls[c].of] = @ \ {simCalls[c].next}]
    /\ simCalls' = [simCalls EXCEPT ![c].next = @ + 1]
    /\ UNCHANGED <<sim, task, loops, simOverlaps, simFailures>>

\* _sim is None now, whichever simulation it was.
StopEnds(c) ==
    /\ CallAt(c, "clients") /\ simCalls[c].kind = "stop" /\ simCalls[c].next \notin Clients
    /\ sim' = 0
    /\ CallGoes(c, "done")
    /\ UNCHANGED <<sims, task, loops, simOverlaps, simFailures>>

SimNext ==
    \/ StartSimulation \/ StopTask \/ StopRaises \/ StopWithoutTask
    \/ \E c \in SimPending :
         \/ StartClient(c) \/ StartClientFails(c) \/ CreateLoop(c)
         \/ TaskEnded(c) \/ StopClient(c) \/ StopEnds(c)
    \/ \E l \in DOMAIN loops : LoopTick(l) \/ LoopDies(l) \/ LoopCancelled(l)

SimSpec == SimInit /\ [][SimNext]_simVars

-----------------------------------------------------------------------------
(* Properties.                                                             *)

\* Every variable in its set.
SimTypeOK ==
    /\ sims \in Seq(SUBSET Clients)
    /\ sim \in 0 .. Len(sims) /\ task \in 0 .. Len(loops)
    /\ \A l \in DOMAIN loops : loops[l] \in {"runs", "cancelling", "cancelled", "died"}
    /\ \A c \in DOMAIN simCalls :
         simCalls[c].of \in IF CallAt(c, "task") THEN 1 .. Len(loops) ELSE 0 .. Len(sims)

Ghosts == {k \in DOMAIN sims \ {sim} : sims[k] # {}}

\* "switch it on ... then switch it off": between calls that never overlapped or
\* failed, every running client belongs to _sim, all of them run while the loop
\* does and none without it.  A simulation that runs on with nobody to stop it
\* comes from calls that overlapped, two from each at most, or from a failed
\* start or a tick that raised, one from each.
SimulationTruth ==
    SimPending = {} =>
        /\ simOverlaps = 0 /\ simFailures = 0 =>
             /\ Ghosts = {}
             /\ IF SimRunning THEN sim # 0 /\ sims[sim] = Clients ELSE sim = 0
        /\ Cardinality(Ghosts) <= 2 * simOverlaps + simFailures

\* manager.py: "Only one simulation runs at a time".
OneSimulation == Cardinality({k \in DOMAIN sims : sims[k] # {}}) <= 1
=============================================================================
