---------------------------- MODULE SimScenario ----------------------------
(***************************************************************************)
(* One run of the in-process simulation (simulator/scenario.py): the roles *)
(* and what each sends (simulator/profiles.py), the rogue client           *)
(* (simulator/rogue.py), and the report drawn up at the end.               *)
(*                                                                         *)
(* The clients share a loopback bus: a publication has been handled by     *)
(* every running client, reactions included, when the sender goes on, so a *)
(* run is one sequence of starts and steps.  Duplicates of the repetition  *)
(* are dropped by the engine (module ExchangeEngine) and do not appear.    *)
(* Clients are numbered in the order they are started, the rogue last.     *)
(***************************************************************************)
EXTENDS Naturals, Sequences, FiniteSets, FiniteSetsExt, SequencesExt

CONSTANTS
    Rosters,        \* rosters, each the sequence of its clients' roles
    BlockRoles,     \* pairs of roles <<observer, refused>>, or none: connection matrices
    ScenarioTicks   \* bound: behaviour ticks of a run

Roles == {"rifleman", "teamleader", "medic", "scout", "observer", "sensor",
          "commandpost", "atak", "vehicle"}
ASSUME ScenarioAssumptions ==
    Rosters \subseteq Seq(Roles) \ {<<>>} /\ ScenarioTicks \in Nat

VARIABLES
    setup,          \* the Simulation's parameters: [roster, blocks, rogue]
    turn,           \* the next client to start or step
    tickNo,         \* -1 + the tick, 0 while clients are started
    sentBy,         \* client -> messages it has published
    heardBy,        \* observer -> originator -> messages accepted
    observed,       \* Stats.observed: type -> how often a command post saw it
    casevacs,       \* Stats.casevac_requests
    acks,           \* Stats.casevac_acks
    rejects         \* frames dropped by the clients as "decode"

scenarioVars ==
    <<setup, turn, tickNo, sentBy, heardBy, observed, casevacs, acks, rejects>>

Types == {"Presence", "Identification", "ContactSighting", "Sketch", "Overlay",
          "CasevacRequest", "Chat", "GenInfo", "Receipt", "Chatrooms"}
RogueModes == {"none", "wrong_key", "garbage", "insider"}

Size == Len(setup.roster)
Squad == 1 .. Size
Rogue == Size + 1
Role(c) == setup.roster[c]

-----------------------------------------------------------------------------
(* The profiles.                                                           *)

OnStart(role) ==
    CASE role = "observer" -> <<"Identification", "Overlay">>
      [] role = "atak" -> <<"Identification", "Overlay", "Chatrooms">>
      [] OTHER -> <<"Identification">>

\* On every n-th tick, tick 0 included; on every n-th tick after it.
Each(n, t, type) == IF t % n = 0 THEN <<type>> ELSE <<>>
Every(n, t, type) == IF t % n = 0 /\ t # 0 THEN <<type>> ELSE <<>>
At(n, t, type) == IF t = n THEN <<type>> ELSE <<>>

OnTick(role, t) ==
    CASE role = "rifleman" -> <<"Presence">> \o Every(5, t, "Chat")
      [] role = "teamleader" ->
            <<"Presence">> \o At(2, t, "CasevacRequest") \o Every(4, t, "Chat")
                \o Every(6, t, "ContactSighting") \o Every(5, t, "GenInfo")
      [] role = "medic" -> <<"Presence">>
      [] role = "scout" ->
            <<"Presence">> \o Each(2, t, "ContactSighting") \o Every(5, t, "Sketch")
      [] role = "observer" -> <<"Presence">> \o Each(3, t, "ContactSighting")
      [] role = "sensor" -> <<"Presence", "ContactSighting">>
      [] role = "commandpost" -> Every(7, t, "Chat")
      [] role = "atak" ->
            <<"Presence">> \o Each(3, t, "ContactSighting") \o Every(5, t, "Chat")
      [] role = "vehicle" -> <<"Presence", "Presence">> \o Each(4, t, "ContactSighting")

MedicReaction == <<"Receipt", "Chat", "Presence">>

-----------------------------------------------------------------------------
(* The bus.                                                                *)

\* Mutant of Accepts: any frame that is well formed is accepted.
Accepts_AnyKey(observer, origin) == <<observer, origin>> \notin setup.blocks

\* The rogue's own frames pass no check; with the wrong key it decodes nothing.
Accepts(observer, origin) ==
    /\ <<observer, origin>> \notin setup.blocks
    /\ origin # Rogue
    /\ observer = Rogue => setup.rogue # "wrong_key"

Medics(origin, up) ==
    {m \in up \ {origin} : m # Rogue /\ Role(m) = "medic" /\ Accepts(m, origin)}

Positions(types, t) == {i \in DOMAIN types : types[i] = t}
Count(types, t) == Cardinality(Positions(types, t))

\* A client's messages and the reactions they set off, while "up" are running.
Publish(origin, types, up) ==
    LET calls == Count(types, "CasevacRequest")
        medics == IF calls = 0 THEN {} ELSE Medics(origin, up)
        From(c) == IF c = origin THEN types ELSE IF c \in medics THEN MedicReaction ELSE <<>>
        Heard == {link \in up \X (1 .. Rogue) : link[1] # link[2] /\ Accepts(link[1], link[2])}
        ByPosts == {link \in Heard : link[1] # Rogue /\ Role(link[1]) = "commandpost"}
    IN  /\ sentBy' = [c \in DOMAIN sentBy |-> sentBy[c] + Len(From(c))]
        /\ heardBy' = [o \in DOMAIN heardBy |-> [c \in DOMAIN heardBy |->
                         heardBy[o][c] + (IF <<o, c>> \in Heard THEN Len(From(c)) ELSE 0)]]
        /\ observed' = [t \in Types |-> observed[t] +
              Cardinality(UNION {{link} \X Positions(From(link[2]), t) : link \in ByPosts})]
        /\ casevacs' = casevacs + calls
        /\ acks' = acks + calls * Cardinality(medics)

-----------------------------------------------------------------------------
(* The run.                                                                *)

Setups ==
    {[roster |-> r, rogue |-> mode,
      blocks |-> {link \in (1 .. Len(r)) \X (1 .. Len(r)) :
                    link[1] # link[2] /\ <<r[link[1]], r[link[2]]>> = b}] :
        r \in Rosters, mode \in RogueModes, b \in BlockRoles}

ScenarioInit ==
    /\ setup \in Setups
    /\ turn = 1 /\ tickNo = 0
    /\ sentBy = [c \in 1 .. Rogue |-> 0]
    /\ heardBy = [o \in 1 .. Rogue |-> [c \in 1 .. Rogue |-> 0]]
    /\ observed = [t \in Types |-> 0]
    /\ casevacs = 0 /\ acks = 0 /\ rejects = 0

AllUp == Squad \cup (IF setup.rogue = "none" THEN {} ELSE {Rogue})

\* A client starts and announces itself to those started before it.
StartNext ==
    /\ tickNo = 0 /\ turn \in Squad
    /\ Publish(turn, OnStart(Role(turn)), 1 .. turn)
    /\ turn' = turn + 1
    /\ UNCHANGED <<setup, tickNo, rejects>>

StepNext ==
    /\ tickNo > 0 /\ turn \in Squad
    /\ Publish(turn, OnTick(Role(turn), tickNo - 1), AllUp)
    /\ turn' = turn + 1
    /\ UNCHANGED <<setup, tickNo, rejects>>

\* A message in the engine's two repetitions under a key that is not the
\* coalition's, junk, or junk under the coalition's key.
RogueStep ==
    /\ tickNo > 0 /\ turn = Rogue /\ Rogue \in AllUp
    /\ Publish(Rogue, <<"Presence">>, AllUp)
    /\ rejects' = rejects + Size * (IF setup.rogue = "wrong_key" THEN 2 ELSE 1)
    /\ turn' = turn + 1
    /\ UNCHANGED <<setup, tickNo>>

NextTick ==
    /\ turn \notin Squad
    /\ tickNo > 0 /\ Rogue \in AllUp => turn > Rogue
    /\ tickNo < ScenarioTicks
    /\ tickNo' = tickNo + 1 /\ turn' = 1
    /\ UNCHANGED <<setup, sentBy, heardBy, observed, casevacs, acks, rejects>>

ScenarioNext == StartNext \/ StepNext \/ RogueStep \/ NextTick

ScenarioSpec == ScenarioInit /\ [][ScenarioNext]_scenarioVars

-----------------------------------------------------------------------------
(* The report: the matrix of what every node accepted from every other,    *)
(* and what the command posts saw.                                         *)

Posts == {c \in Squad : Role(c) = "commandpost"}

ConnectionMatrix ==
    [o \in Squad \cup (AllUp \cap {Rogue}) |->
        [c \in {p \in 1 .. Rogue : heardBy[o][p] > 0} |-> heardBy[o][c]]]

SimReport ==
    [matrix |-> ConnectionMatrix,
     typesObserved |-> {t \in Types : observed[t] > 0},
     rogueObserved |-> \E post \in Posts : Rogue \in DOMAIN ConnectionMatrix[post],
     rogueFramesRejected |-> rejects]

AllMessageTypes == Types \subseteq SimReport.typesObserved

RogueRejected ==
    setup.rogue # "none" /\ ~ SimReport.rogueObserved /\ SimReport.rogueFramesRejected > 0

-----------------------------------------------------------------------------
(* Properties.                                                             *)

\* Every variable in its set.
ScenarioTypeOK ==
    /\ turn \in 1 .. Rogue + 1 /\ tickNo \in 0 .. ScenarioTicks
    /\ sentBy \in [1 .. Rogue -> Nat]
    /\ heardBy \in [1 .. Rogue -> [1 .. Rogue -> Nat]]
    /\ observed \in [Types -> Nat]
    /\ acks \in Nat /\ rejects \in Nat

TickDone == turn > Cardinality(AllUp)
Ticked == IF TickDone THEN tickNo ELSE tickNo - 1

\* The report: SimReport.all_message_types, "every JDSSDM message type was
\* observed on the network", once a roster with a command post, started first,
\* and every role has run six ticks with nobody blocked.
AllTypesSeen ==
    (/\ Ticked >= 6 /\ setup.blocks = {} /\ Role(1) = "commandpost"
     /\ {"teamleader", "medic", "scout", "observer", "atak"} \subseteq Range(setup.roster))
        => AllMessageTypes

\* test_simulator.py: "rogue column all-zero"; the matrix of a run says of each
\* pair that the observer heard all of what the originator sent since the
\* observer started, or none of it where it refuses the originator; the rogue
\* is heard by nobody, its frames are counted as rejected, and a rogue without
\* the coalition's key hears nobody either.
ReportMatrix ==
    /\ \A o, c \in Squad :
         /\ o = c \/ <<o, c>> \in setup.blocks => c \notin DOMAIN SimReport.matrix[o]
         /\ o # c /\ <<o, c>> \notin setup.blocks =>
              heardBy[o][c] = sentBy[c] -
                 (IF o > c /\ sentBy[c] > 0 THEN Len(OnStart(Role(c))) ELSE 0)
    /\ \A o \in Squad : Rogue \notin DOMAIN SimReport.matrix[o]
    /\ Ticked > 0 => (RogueRejected <=> Rogue \in AllUp)
    /\ setup.rogue = "wrong_key" => DOMAIN SimReport.matrix[Rogue] = {}

\* The command posts' observations, one by one, and what the matrix says they heard.
Observations == UNION {{t} \X (1 .. observed[t]) : t \in Types}
HeardByPosts ==
    UNION {{link} \X (1 .. heardBy[link[1]][link[2]]) : link \in Posts \X (1 .. Rogue)}

\* Each call for evacuation is acknowledged once by every medic that accepts the caller.
CallsAcknowledged ==
    LET medics == {m \in Squad : Role(m) = "medic"}
    IN  /\ acks <= casevacs * Cardinality(medics)
        /\ setup.blocks = {} => acks = casevacs * Cardinality(medics)

\* What the command posts saw is what the matrix says they heard, and it is all.
SimulationReport ==
    /\ ReportMatrix /\ AllTypesSeen /\ CallsAcknowledged
    /\ Cardinality(Observations) = Cardinality(HeardByPosts)
=============================================================================
