------------------------ MODULE ServerReconcile_proofs ------------------------
(***************************************************************************)
(* Proofs about ServerReconcile, for any servers, parameters and requests: *)
(* type correctness; that no connector escapes the manager however         *)
(* requests overlap; and that the stored and the running connections agree *)
(* as long as none do.                                                     *)
(***************************************************************************)
EXTENDS ServerReconcile, TLAPS, FiniteSetTheorems

(* Type correctness.  A request starts only servers it wants up, so that   *)
(* it has parameters for their connectors.                                 *)

TodoInv ==
    \A r \in Requests : pc[r] \in {"start", "starting"} =>
      \A s \in todo[r] : Enabled(desired[r][s])

TypeInv == TypeOK /\ TodoInv

LEMMA InitTypeOK == Init => TypeOK
<1> SUFFICES ASSUME Init PROVE TypeOK
  OBVIOUS
<1>1. made \in Nat /\ made = Cardinality(Servers)
  BY ReconcileAssumptions, FS_CardinalityType DEF Init
<1>2. PICK number \in [Servers -> 1 .. Cardinality(Servers)] :
        conns = [s \in Servers |-> IF Enabled(Initial[s]) THEN number[s] ELSE 0]
  BY DEF Init
<1>3. conns \in [Servers -> 0 .. made]
  BY <1>1, <1>2
<1>4. \A s \in Servers : conns[s] # 0 => Initial[s] \in [params : Params, enabled : BOOLEAN]
  BY <1>2, ReconcileAssumptions DEF Enabled, Definitions
<1>5. running \subseteq [id : 1 .. made, server : Servers, params : Params]
  <2>1. ASSUME NEW s \in Servers, conns[s] # 0
        PROVE  [id |-> conns[s], server |-> s, params |-> Initial[s].params]
                 \in [id : 1 .. made, server : Servers, params : Params]
    <3>1. conns[s] \in 1 .. made
      BY <1>1, <1>3, <2>1
    <3>2. Initial[s].params \in Params
      BY <1>4, <2>1
    <3>3. QED BY <3>1, <3>2
  <2>2. running = {[id |-> conns[s], server |-> s, params |-> Initial[s].params] :
                     s \in {t \in Servers : conns[t] # 0}}
    BY DEF Init
  <2>3. QED BY <2>1, <2>2
<1>6. certs \subseteq 1 .. made
  BY <1>1, <1>3 DEF Init
<1>7. (CHOOSE s \in Servers : TRUE) \in Servers
  BY ReconcileAssumptions
<1>8. visiting \in [Requests -> [server : Servers, id : 0 .. made]]
  BY <1>1, <1>7 DEF Init
<1>9. QED BY <1>1, <1>3, <1>5, <1>6, <1>8, ReconcileAssumptions DEF Init, TypeOK

LEMMA NextTypeOK == TypeInv /\ [Next]_vars => TypeOK'
<1> SUFFICES ASSUME TypeOK, TodoInv, [Next]_vars PROVE TypeOK'
  BY DEF TypeInv
<1> USE DEF liveVars, taskVars, Goto
<1>1. ASSUME NEW r \in Requests, Begin(r) PROVE TypeOK'
  <2>1. PICK s \in Servers, d \in Definitions :
          desired' = [desired EXCEPT ![r] = [config EXCEPT ![s] = d]]
    BY <1>1 DEF Begin
  <2>2. [config EXCEPT ![s] = d] \in [Servers -> Definitions]
    BY DEF TypeOK
  <2>3. desired' \in [Requests -> [Servers -> Definitions]] /\ config' \in [Servers -> Definitions]
    BY <1>1, <2>1, <2>2 DEF Begin, TypeOK
  <2>4. todo' \in [Requests -> SUBSET Servers]
    BY <1>1 DEF Begin, TypeOK
  <2>5. overlapped' \in BOOLEAN
    BY <1>1 DEF Begin, TypeOK, Quiet
  <2>6. QED BY <1>1, <2>3, <2>4, <2>5 DEF Begin, TypeOK
<1>2. ASSUME NEW r \in Requests, KeepOne(r) \/ IsUp(r), UNCHANGED overlapped PROVE TypeOK'
  <2>1. CASE KeepOne(r)
    BY <1>2, <2>1 DEF KeepOne, TypeOK
  <2>2. CASE IsUp(r)
    BY <1>2, <2>2 DEF IsUp, TypeOK
  <2>3. QED BY <1>2, <2>1, <2>2
<1>3. ASSUME NEW r \in Requests, StopOne(r), UNCHANGED overlapped PROVE TypeOK'
  <2>1. PICK s \in Servers :
          /\ todo' = [todo EXCEPT ![r] = @ \ {s}]
          /\ \/ CleanUp(s) /\ current' = r /\ UNCHANGED <<conns, pc, visiting>>
             \/ /\ visiting' = [visiting EXCEPT ![r] = [server |-> s, id |-> conns[s]]]
                /\ conns' = [conns EXCEPT ![s] = 0]
                /\ pc' = [pc EXCEPT ![r] = "stopping"]
                /\ current' = NoRequest
                /\ UNCHANGED <<tmp, certs>>
    BY <1>3 DEF StopOne, TypeOK
  <2>2. UNCHANGED <<config, file, defs, running, made, desired, overlapped>>
    BY <1>3 DEF StopOne
  <2>3. made \in Nat /\ conns[s] \in 0 .. made /\ 0 \in 0 .. made
    BY DEF TypeOK
  <2>4. CASE CleanUp(s) /\ current' = r /\ UNCHANGED <<conns, pc, visiting>>
    BY <2>1, <2>2, <2>3, <2>4 DEF CleanUp, TypeOK
  <2>5. CASE /\ visiting' = [visiting EXCEPT ![r] = [server |-> s, id |-> conns[s]]]
             /\ conns' = [conns EXCEPT ![s] = 0]
             /\ pc' = [pc EXCEPT ![r] = "stopping"]
             /\ current' = NoRequest
             /\ UNCHANGED <<tmp, certs>>
    BY <2>1, <2>2, <2>3, <2>5 DEF TypeOK
  <2>6. QED BY <2>1, <2>4, <2>5
<1>4. ASSUME NEW r \in Requests, StoppedOne(r), UNCHANGED overlapped PROVE TypeOK'
  <2>1. /\ tmp' = [tmp EXCEPT ![visiting[r].server] = 0] /\ certs' \subseteq certs
        /\ running' \subseteq running /\ pc' = [pc EXCEPT ![r] = "stop"] /\ current' = r
        /\ UNCHANGED <<config, file, defs, conns, made, desired, todo, visiting, overlapped>>
    BY <1>4 DEF StoppedOne, CleanUp
  <2>2. made \in Nat /\ 0 \in 0 .. made
    BY DEF TypeOK
  <2>3. tmp' \in [Servers -> 0 .. made]
    BY <2>1, <2>2 DEF TypeOK
  <2>4. QED BY <2>1, <2>3 DEF TypeOK
<1>5. ASSUME NEW r \in Requests, StopsDone(r), UNCHANGED overlapped PROVE TypeOK'
  BY <1>5 DEF StopsDone, TypeOK
<1>6. ASSUME NEW r \in Requests, StartOne(r), UNCHANGED overlapped PROVE TypeOK'
  <2>1. PICK s \in todo[r] :
          /\ todo' = [todo EXCEPT ![r] = @ \ {s}]
          /\ conns' = [conns EXCEPT ![s] = made + 1]
          /\ running' = running \cup
                 {[id |-> made + 1, server |-> s, params |-> desired[r][s].params]}
          /\ tmp' = [tmp EXCEPT ![s] = made + 1]
          /\ certs' = certs \cup {made + 1}
          /\ visiting' = [visiting EXCEPT ![r] = [server |-> s, id |-> made + 1]]
          /\ made' = made + 1
    BY <1>6 DEF StartOne
  <2>2. /\ pc' = [pc EXCEPT ![r] = "starting"] /\ current' = NoRequest
        /\ UNCHANGED <<config, file, defs, desired, overlapped>>
    BY <1>6 DEF StartOne
  <2>3. s \in Servers /\ made \in Nat /\ made + 1 \in 1 .. (made + 1)
        /\ 0 .. made \subseteq 0 .. (made + 1) /\ 1 .. made \subseteq 1 .. (made + 1)
    BY DEF TypeOK
  <2>4. desired[r][s] \in [params : Params, enabled : BOOLEAN]
    <3>1. Enabled(desired[r][s]) /\ desired[r][s] \in Definitions
      BY <1>6, <2>3 DEF StartOne, TodoInv, TypeOK
    <3>2. QED BY <3>1 DEF Enabled, Definitions
  <2>5. running' \subseteq [id : 1 .. made', server : Servers, params : Params]
    <3>1. [id |-> made + 1, server |-> s, params |-> desired[r][s].params]
            \in [id : 1 .. made', server : Servers, params : Params]
      BY <2>1, <2>3, <2>4
    <3>2. running \subseteq [id : 1 .. made', server : Servers, params : Params]
      BY <2>1, <2>3 DEF TypeOK
    <3>3. QED BY <2>1, <3>1, <3>2
  <2>6. conns' \in [Servers -> 0 .. made'] /\ tmp' \in [Servers -> 0 .. made'] /\ certs' \subseteq 1 .. made'
    BY <2>1, <2>3 DEF TypeOK
  <2>7. visiting' \in [Requests -> [server : Servers, id : 0 .. made']]
    <3>1. [server |-> s, id |-> made + 1] \in [server : Servers, id : 0 .. made']
      BY <2>1, <2>3
    <3>2. visiting \in [Requests -> [server : Servers, id : 0 .. made']]
      BY <2>1, <2>3 DEF TypeOK
    <3>3. QED BY <2>1, <3>1, <3>2
  <2>8. QED BY <2>1, <2>2, <2>3, <2>5, <2>6, <2>7 DEF TypeOK
<1>7. ASSUME NEW r \in Requests, StartedOne(r), UNCHANGED overlapped PROVE TypeOK'
  BY <1>7 DEF StartedOne, TypeOK
<1>8. ASSUME NEW r \in Requests, Finish(r), UNCHANGED overlapped PROVE TypeOK'
  <2>1. /\ defs' = desired[r] /\ file' = desired[r] /\ current' = NoRequest
        /\ pc' = [pc EXCEPT ![r] = "done"]
        /\ UNCHANGED <<config, liveVars, desired, todo, visiting, overlapped>>
    BY <1>8 DEF Finish
  <2>2. desired[r] \in [Servers -> Definitions]
    BY DEF TypeOK
  <2>3. QED BY <2>1, <2>2 DEF TypeOK
<1>9. CASE UNCHANGED vars
  BY <1>9 DEF vars, TypeOK
<1>10. QED
  BY <1>1, <1>2, <1>3, <1>4, <1>5, <1>6, <1>7, <1>8, <1>9 DEF Next, Step
LEMMA NextTodoInv == TypeInv /\ [Next]_vars => TodoInv'
<1> SUFFICES ASSUME TypeOK, TodoInv, [Next]_vars PROVE TodoInv'
  BY DEF TypeInv
<1> USE DEF liveVars, taskVars, Goto
<1>1. ASSUME NEW r \in Requests, Begin(r) PROVE TodoInv'
  <2>1. \A q \in Requests \ {r} :
          pc'[q] = pc[q] /\ todo'[q] = todo[q] /\ desired'[q] = desired[q]
    BY <1>1 DEF Begin, TypeOK
  <2>2. pc'[r] = "stop"
    BY <1>1 DEF Begin, TypeOK
  <2>3. QED BY <2>1, <2>2 DEF TodoInv
<1>2. ASSUME NEW r \in Requests, KeepOne(r) \/ StopOne(r) \/ StoppedOne(r) PROVE TodoInv'
  <2>0. /\ pc \in [Requests -> {"new", "stop", "stopping", "start", "starting", "done"}]
        /\ todo \in [Requests -> SUBSET Servers]
    BY DEF TypeOK
  <2>1. /\ pc[r] \in {"stop", "stopping"}
        /\ \/ pc' = pc
           \/ \E where \in {"stop", "stopping"} : pc' = [pc EXCEPT ![r] = where]
        /\ \/ todo' = todo
           \/ \E s \in todo[r] : todo' = [todo EXCEPT ![r] = @ \ {s}]
        /\ desired' = desired
    BY <1>2 DEF KeepOne, StopOne, StoppedOne
  <2>2. /\ \A q \in Requests \ {r} : pc'[q] = pc[q] /\ todo'[q] = todo[q]
        /\ pc'[r] \in {"stop", "stopping"}
    BY <2>0, <2>1
  <2>3. QED BY <2>1, <2>2 DEF TodoInv
<1>3. ASSUME NEW r \in Requests, StopsDone(r) PROVE TodoInv'
  BY <1>3 DEF StopsDone, TodoInv, TypeOK
<1>4. ASSUME NEW r \in Requests, StartOne(r) \/ IsUp(r) \/ StartedOne(r) \/ Finish(r) PROVE TodoInv'
  <2>1. /\ \A q \in Requests \ {r} : pc'[q] = pc[q] /\ todo'[q] = todo[q]
        /\ pc[r] \in {"start", "starting"} /\ todo'[r] \subseteq todo[r] /\ desired' = desired
    BY <1>4 DEF StartOne, IsUp, StartedOne, Finish, TypeOK
  <2>2. QED BY <2>1 DEF TodoInv
<1>5. CASE UNCHANGED vars
  BY <1>5 DEF vars, TodoInv
<1>6. QED BY <1>1, <1>2, <1>3, <1>4, <1>5 DEF Next, Step

LEMMA InitTypeInv == Init => TypeInv
  BY InitTypeOK DEF Init, TodoInv, TypeInv

LEMMA NextTypeInv == TypeInv /\ [Next]_vars => TypeInv'
  BY NextTypeOK, NextTodoInv DEF TypeInv

\* Every variable in its set, however the requests interleave.
THEOREM TypeCorrect == Spec => []TypeOK
<1>1. Spec => []TypeInv
  BY InitTypeInv, NextTypeInv, PTL DEF Spec
<1>2. TypeInv => TypeOK
  BY DEF TypeInv
<1>3. QED BY <1>1, <1>2, PTL

-----------------------------------------------------------------------------
(* A connector's number is its identity, and the one whose stop() a        *)
(* request awaits is not in _conns.                                        *)

NumbersInv ==
    /\ \A c, d \in running : c.id = d.id => c = d
    /\ \A r \in Requests : pc[r] = "stopping" =>
         visiting[r].id # 0 /\ \A s \in Servers : conns[s] # visiting[r].id

StrayInv == NumbersInv /\ NoStrayConnector

\* A request has taken the connector out of _conns and awaits its stop().
Awaited(c) == \E r \in Requests : pc[r] = "stopping" /\ visiting[r] = [server |-> c.server, id |-> c.id]

LEMMA StrayForms ==
    NoStrayConnector <=>
      /\ \A c \in running : conns[c.server] = c.id \/ Awaited(c)
      /\ \A s \in Servers : conns[s] # 0 => \E c \in running : c.id = conns[s] /\ c.server = s
  BY DEF NoStrayConnector, Awaited

LEMMA InitStrayInv == Init => StrayInv
<1> SUFFICES ASSUME Init PROVE StrayInv
  OBVIOUS
<1>1. PICK number \in [Servers -> 1 .. Cardinality(Servers)] :
        /\ \A s, t \in Servers : number[s] = number[t] => s = t
        /\ conns = [s \in Servers |-> IF Enabled(Initial[s]) THEN number[s] ELSE 0]
  BY DEF Init
<1>2. running = {[id |-> conns[s], server |-> s, params |-> Initial[s].params] :
                   s \in {t \in Servers : conns[t] # 0}}
  BY DEF Init
<1>3. \A s, t \in Servers : conns[s] = conns[t] /\ conns[s] # 0 => s = t
  BY <1>1
<1>4. ASSUME NEW c \in running
      PROVE  /\ conns[c.server] = c.id /\ c.server \in Servers /\ conns[c.server] # 0
             /\ c = [id |-> conns[c.server], server |-> c.server, params |-> Initial[c.server].params]
  BY <1>2
<1>5. \A c, d \in running : c.id = d.id => c = d
  <2> SUFFICES ASSUME NEW c \in running, NEW d \in running, c.id = d.id PROVE c = d
    OBVIOUS
  <2>1. c.server = d.server
    BY <1>3, <1>4
  <2>2. QED BY <1>4, <2>1
<1>6. ASSUME NEW s \in Servers, conns[s] # 0
      PROVE  \E c \in running : c.id = conns[s] /\ c.server = s
  <2>1. [id |-> conns[s], server |-> s, params |-> Initial[s].params] \in running
    BY <1>2, <1>6
  <2>2. QED BY <2>1
<1>7. \A r \in Requests : pc[r] = "new"
  BY DEF Init
<1>8. QED BY <1>4, <1>5, <1>6, <1>7 DEF StrayInv, NumbersInv, NoStrayConnector

\* A step that neither starts, stops nor forgets a connector.
LEMMA SameConnectors ==
    ASSUME StrayInv, UNCHANGED <<running, conns>>,
           \A r \in Requests : pc[r] = "stopping" <=> pc'[r] = "stopping",
           \A r \in Requests : pc[r] = "stopping" => visiting'[r] = visiting[r]
    PROVE  StrayInv'
<1>1. NumbersInv'
  BY DEF StrayInv, NumbersInv
<1>2. \A c \in running : Awaited(c) => Awaited(c)'
  BY DEF Awaited
<1>3. \A c \in running' : conns'[c.server] = c.id \/ Awaited(c)'
  BY <1>2, StrayForms DEF StrayInv
<1>4. \A s \in Servers : conns'[s] # 0 => \E c \in running' : c.id = conns'[s] /\ c.server = s
  BY DEF StrayInv, NoStrayConnector
<1>5. QED BY <1>1, <1>3, <1>4 DEF StrayInv, NoStrayConnector, Awaited

LEMMA StopOneStray ==
    ASSUME TypeInv, StrayInv, NEW r \in Requests, StopOne(r)
    PROVE  StrayInv'
<1> USE DEF liveVars, taskVars, Goto
<1>0. /\ pc \in [Requests -> {"new", "stop", "stopping", "start", "starting", "done"}]
      /\ visiting \in [Requests -> [server : Servers, id : 0 .. made]]
      /\ conns \in [Servers -> 0 .. made]
      /\ running \subseteq [id : 1 .. made, server : Servers, params : Params]
      /\ pc[r] = "stop" /\ running' = running
  BY DEF StopOne, TypeInv, TypeOK
<1>1. PICK s \in Servers :
        IF conns[s] = 0
        THEN UNCHANGED <<conns, pc, visiting>>
        ELSE /\ visiting' = [visiting EXCEPT ![r] = [server |-> s, id |-> conns[s]]]
             /\ conns' = [conns EXCEPT ![s] = 0]
             /\ pc' = [pc EXCEPT ![r] = "stopping"]
  BY DEF StopOne, TypeInv, TypeOK
<1>2. CASE conns[s] = 0
  BY <1>0, <1>1, <1>2, SameConnectors
<1>3. CASE conns[s] # 0
  <2>1. /\ pc'[r] = "stopping" /\ visiting'[r] = [server |-> s, id |-> conns[s]]
        /\ \A q \in Requests \ {r} : pc'[q] = pc[q] /\ visiting'[q] = visiting[q]
        /\ conns'[s] = 0 /\ \A t \in Servers \ {s} : conns'[t] = conns[t]
    BY <1>0, <1>1, <1>3
  <2>2. \A t \in Servers \ {s} : conns[t] # conns[s]
    BY <1>0, <1>3 DEF StrayInv, NumbersInv, NoStrayConnector
  <2>3. NumbersInv'
    <3>1. \A t \in Servers : conns'[t] # conns[s]
      BY <1>3, <2>1, <2>2
    <3>2. ASSUME NEW q \in Requests, pc'[q] = "stopping", NEW t \in Servers
          PROVE  conns'[t] # visiting'[q].id /\ visiting'[q].id # 0
      <4>1. CASE q = r
        BY <1>3, <2>1, <3>1, <4>1
      <4>2. CASE q # r /\ t # s
        BY <2>1, <3>2, <4>2 DEF StrayInv, NumbersInv
      <4>3. CASE q # r /\ t = s
        BY <2>1, <3>2, <4>3 DEF StrayInv, NumbersInv
      <4>4. QED BY <4>1, <4>2, <4>3
    <3>3. \A q \in Requests : pc'[q] = "stopping" => visiting'[q].id # 0
      BY <1>3, <2>1 DEF StrayInv, NumbersInv
    <3>4. QED BY <1>0, <3>2, <3>3 DEF StrayInv, NumbersInv
  <2>4. NoStrayConnector'
    <3>1. ASSUME NEW c \in running PROVE conns'[c.server] = c.id \/ Awaited(c)'
      <4>1. CASE Awaited(c)
        BY <1>0, <2>1, <4>1 DEF Awaited
      <4>2. CASE conns[c.server] = c.id /\ c.server = s
        BY <2>1, <4>2 DEF Awaited
      <4>3. CASE conns[c.server] = c.id /\ c.server # s
        BY <1>0, <2>1, <4>3
      <4>4. QED BY <4>1, <4>2, <4>3, StrayForms DEF StrayInv
    <3>2. \A t \in Servers : conns'[t] # 0 => \E c \in running' : c.id = conns'[t] /\ c.server = t
      BY <1>0, <2>1 DEF StrayInv, NoStrayConnector
    <3>3. QED BY <1>0, <3>1, <3>2 DEF NoStrayConnector, Awaited
  <2>5. QED BY <2>3, <2>4 DEF StrayInv
<1>4. QED BY <1>2, <1>3

LEMMA StoppedOneStray ==
    ASSUME TypeInv, StrayInv, NEW r \in Requests, StoppedOne(r)
    PROVE  StrayInv'
<1>1. /\ pc \in [Requests -> {"new", "stop", "stopping", "start", "starting", "done"}]
      /\ pc[r] = "stopping" /\ pc' = [pc EXCEPT ![r] = "stop"]
      /\ running' = {c \in running : c.id # visiting[r].id}
      /\ UNCHANGED <<conns, visiting>>
  BY DEF StoppedOne, Goto, TypeInv, TypeOK
<1>2. \A q \in Requests : pc'[q] = "stopping" => pc[q] = "stopping"
  BY <1>1
<1>3. NumbersInv'
  BY <1>1, <1>2 DEF StrayInv, NumbersInv
<1>4. ASSUME NEW c \in running' PROVE conns'[c.server] = c.id \/ Awaited(c)'
  <2>1. CASE Awaited(c)
    <3>1. PICK q \in Requests : pc[q] = "stopping" /\ visiting[q] = [server |-> c.server, id |-> c.id]
      BY <2>1 DEF Awaited
    <3>2. q # r
      BY <1>1, <3>1
    <3>3. QED BY <1>1, <3>1, <3>2 DEF Awaited
  <2>2. CASE conns[c.server] = c.id
    BY <1>1, <2>2
  <2>3. QED BY <1>1, <2>1, <2>2, StrayForms DEF StrayInv
<1>5. \A s \in Servers : conns'[s] # 0 => \E c \in running' : c.id = conns'[s] /\ c.server = s
  BY <1>1 DEF StrayInv, NumbersInv, NoStrayConnector
<1>6. QED BY <1>3, <1>4, <1>5 DEF StrayInv, NoStrayConnector, Awaited

\* What starting a connector does.
LEMMA StartOneFacts ==
    ASSUME TypeInv, NEW r \in Requests, StartOne(r)
    PROVE  \E s \in todo[r] :
             /\ s \in Servers /\ conns[s] = 0 /\ pc[r] = "start"
             /\ pc'[r] = "starting" /\ visiting'[r] = [server |-> s, id |-> made + 1]
             /\ todo'[r] = todo[r] \ {s}
             /\ \A q \in Requests \ {r} :
                  pc'[q] = pc[q] /\ visiting'[q] = visiting[q] /\ todo'[q] = todo[q]
             /\ conns'[s] = made + 1 /\ tmp'[s] = made + 1
             /\ \A t \in Servers \ {s} : conns'[t] = conns[t] /\ tmp'[t] = tmp[t]
             /\ running' = running \cup
                    {[id |-> made + 1, server |-> s, params |-> desired[r][s].params]}
             /\ certs' = certs \cup {made + 1}
             /\ UNCHANGED <<config, file, defs, desired>>
<1>1. PICK s \in todo[r] :
         /\ conns[s] = 0
         /\ todo' = [todo EXCEPT ![r] = @ \ {s}]
         /\ conns' = [conns EXCEPT ![s] = made + 1]
         /\ running' = running \cup
                {[id |-> made + 1, server |-> s, params |-> desired[r][s].params]}
         /\ tmp' = [tmp EXCEPT ![s] = made + 1]
         /\ certs' = certs \cup {made + 1}
         /\ visiting' = [visiting EXCEPT ![r] = [server |-> s, id |-> made + 1]]
  BY DEF StartOne
<1>2. /\ pc[r] = "start" /\ pc' = [pc EXCEPT ![r] = "starting"]
      /\ UNCHANGED <<config, file, defs, desired>>
  BY DEF StartOne, Goto
<1>3. /\ s \in Servers
      /\ pc \in [Requests -> {"new", "stop", "stopping", "start", "starting", "done"}]
      /\ conns \in [Servers -> 0 .. made] /\ tmp \in [Servers -> 0 .. made]
      /\ todo \in [Requests -> SUBSET Servers]
      /\ visiting \in [Requests -> [server : Servers, id : 0 .. made]]
  BY DEF TypeInv, TypeOK
<1>4. QED BY <1>1, <1>2, <1>3

\* No number has been used that is higher than made.
LEMMA NumbersMade ==
    ASSUME TypeInv
    PROVE  /\ made \in Nat
           /\ \A c \in running : c.id \in 1 .. made /\ c.server \in Servers
           /\ \A s \in Servers : conns[s] \in 0 .. made /\ tmp[s] \in 0 .. made
           /\ \A r \in Requests : visiting[r].id \in 0 .. made /\ visiting[r].server \in Servers
  BY DEF TypeInv, TypeOK

LEMMA StartOneStray ==
    ASSUME TypeInv, StrayInv, NEW r \in Requests, StartOne(r)
    PROVE  StrayInv'
<1>1. PICK s \in todo[r] :
         /\ s \in Servers /\ conns[s] = 0 /\ pc[r] = "start"
         /\ pc'[r] = "starting" /\ visiting'[r] = [server |-> s, id |-> made + 1]
         /\ todo'[r] = todo[r] \ {s}
         /\ \A q \in Requests \ {r} :
              pc'[q] = pc[q] /\ visiting'[q] = visiting[q] /\ todo'[q] = todo[q]
         /\ conns'[s] = made + 1 /\ tmp'[s] = made + 1
         /\ \A t \in Servers \ {s} : conns'[t] = conns[t] /\ tmp'[t] = tmp[t]
         /\ running' = running \cup
                {[id |-> made + 1, server |-> s, params |-> desired[r][s].params]}
         /\ certs' = certs \cup {made + 1}
         /\ UNCHANGED <<config, file, defs, desired>>
  BY StartOneFacts
<1> DEFINE new == [id |-> made + 1, server |-> s, params |-> desired[r][s].params]
<1>2. /\ made \in Nat /\ new.id = made + 1 /\ new.server = s
      /\ \A c \in running : c.id # made + 1 /\ c.id # 0 /\ c.server \in Servers
      /\ \A q \in Requests : visiting[q].id # made + 1
  BY NumbersMade
<1>3. running' = running \cup {new}
  BY <1>1
<1> HIDE DEF new
<1>4. NumbersInv'
  <2>1. \A c, d \in running' : c.id = d.id => c = d
    BY <1>2, <1>3 DEF StrayInv, NumbersInv
  <2>2. ASSUME NEW q \in Requests, pc'[q] = "stopping", NEW t \in Servers
        PROVE  visiting'[q].id # 0 /\ conns'[t] # visiting'[q].id
    <3>1. q # r /\ pc[q] = "stopping" /\ visiting'[q] = visiting[q]
      BY <1>1, <2>2
    <3>2. visiting[q].id # 0 /\ conns[t] # visiting[q].id
      BY <3>1 DEF StrayInv, NumbersInv
    <3>3. QED BY <1>1, <1>2, <3>1, <3>2
  <2>3. \A q \in Requests : pc'[q] = "stopping" => visiting'[q].id # 0
    BY <1>1, <2>2 DEF StrayInv, NumbersInv
  <2>4. QED BY <2>1, <2>2, <2>3 DEF NumbersInv
<1>5. ASSUME NEW c \in running' PROVE conns'[c.server] = c.id \/ Awaited(c)'
  <2>1. CASE c = new
    BY <1>1, <1>2, <2>1
  <2>2. CASE c \in running /\ Awaited(c)
    <3>1. PICK q \in Requests : pc[q] = "stopping" /\ visiting[q] = [server |-> c.server, id |-> c.id]
      BY <2>2 DEF Awaited
    <3>2. q # r
      BY <1>1, <3>1
    <3>3. QED BY <1>1, <3>1, <3>2 DEF Awaited
  <2>3. CASE c \in running /\ conns[c.server] = c.id
    BY <1>1, <1>2, <2>3
  <2>4. QED BY <1>3, <2>1, <2>2, <2>3, StrayForms DEF StrayInv
<1>6. ASSUME NEW t \in Servers, conns'[t] # 0
      PROVE  \E c \in running' : c.id = conns'[t] /\ c.server = t
  <2>1. CASE t = s
    BY <1>1, <1>2, <1>3, <2>1
  <2>2. CASE t # s
    BY <1>1, <1>3, <1>6, <2>2 DEF StrayInv, NoStrayConnector
  <2>3. QED BY <2>1, <2>2
<1>7. QED BY <1>4, <1>5, <1>6 DEF StrayInv, NoStrayConnector, Awaited

LEMMA NextStrayInv == TypeInv /\ StrayInv /\ [Next]_vars => StrayInv'
<1> SUFFICES ASSUME TypeInv, StrayInv, [Next]_vars PROVE StrayInv'
  OBVIOUS
<1> USE DEF liveVars, taskVars, Goto
<1>0. pc \in [Requests -> {"new", "stop", "stopping", "start", "starting", "done"}]
  BY DEF TypeInv, TypeOK
<1>1. ASSUME NEW r \in Requests,
             Begin(r) \/ KeepOne(r) \/ StopsDone(r) \/ IsUp(r) \/ StartedOne(r) \/ Finish(r)
      PROVE  StrayInv'
  <2>1. /\ UNCHANGED <<running, conns, visiting>>
        /\ pc[r] # "stopping"
        /\ \/ UNCHANGED pc
           \/ \E where \in {"stop", "start", "done"} : pc' = [pc EXCEPT ![r] = where]
    BY <1>1 DEF Begin, KeepOne, StopsDone, IsUp, StartedOne, Finish
  <2>2. QED BY <1>0, <2>1, SameConnectors
<1>2. ASSUME NEW r \in Requests, StopOne(r) PROVE StrayInv'
  BY <1>2, StopOneStray
<1>3. ASSUME NEW r \in Requests, StoppedOne(r) PROVE StrayInv'
  BY <1>3, StoppedOneStray
<1>4. ASSUME NEW r \in Requests, StartOne(r) PROVE StrayInv'
  BY <1>4, StartOneStray
<1>5. CASE UNCHANGED vars
  BY <1>5, SameConnectors DEF vars
<1>6. QED BY <1>1, <1>2, <1>3, <1>4, <1>5 DEF Next, Step

\* However requests overlap, a running connector is the one _conns names for its server
\* or somebody awaits its stop(), and _conns names none that has stopped.
THEOREM NoneEscapes == Spec => []NoStrayConnector
<1>1. Spec => [](TypeInv /\ StrayInv)
  BY InitTypeInv, NextTypeInv, InitStrayInv, NextStrayInv, PTL DEF Spec
<1>2. StrayInv => NoStrayConnector
  BY DEF StrayInv
<1>3. QED BY <1>1, <1>2, PTL

-----------------------------------------------------------------------------
(* Without overlap one request is under way at a time.  While it stops     *)
(* connectors, those it has still to visit are the ones _defs asked for    *)
(* and those it has passed are the ones it desires; while it starts them,  *)
(* those it has passed are there.  _tmp names the certificate files of the *)
(* connectors in _conns and of the one being stopped.                      *)

Active(r) == pc[r] \notin {"new", "done"}

\* The connector of s, if there is one, was made with these parameters.
Fits(s, d) == \A c \in running : c.id = conns[s] => c.params = d.params

Stopping(r) ==
    /\ \A s \in todo[r] : conns[s] # 0 /\ Fits(s, defs[s])
    /\ \A s \in Servers \ todo[r] :
         conns[s] # 0 => Enabled(desired[r][s]) /\ Fits(s, desired[r][s])

Starting(r) ==
    /\ \A s \in todo[r] : Enabled(desired[r][s])
    /\ \A s \in Servers : conns[s] # 0 => Enabled(desired[r][s]) /\ Fits(s, desired[r][s])
    /\ \A s \in Servers \ todo[r] : Enabled(desired[r][s]) => conns[s] # 0

CertsInv ==
    /\ \A s, t \in Servers : tmp[s] = tmp[t] /\ tmp[s] # 0 => s = t
    /\ \A s \in Servers : tmp[s] # conns[s] =>
         \E r \in Requests : pc[r] = "stopping" /\ visiting[r] = [server |-> s, id |-> tmp[s]]
    /\ \A r \in Requests : pc[r] = "stopping" =>
         tmp[visiting[r].server] = visiting[r].id /\ conns[visiting[r].server] = 0
    /\ certs = {tmp[s] : s \in Servers} \ {0}

Sequential ==
    /\ \A r, q \in Requests : Active(r) /\ Active(q) => r = q
    /\ Quiet => /\ file = config /\ defs = config
                /\ \A s \in Servers :
                     (conns[s] # 0 <=> Enabled(config[s])) /\ Fits(s, config[s])
    /\ \A r \in Requests : Active(r) => config = desired[r]
    /\ \A r \in Requests : pc[r] \in {"stop", "stopping"} => Stopping(r)
    /\ \A r \in Requests : pc[r] \in {"start", "starting"} => Starting(r)
    /\ CertsInv

SequentialInv == ~ overlapped => Sequential

\* No two servers share a connector, and it is the server's own.
LEMMA OwnConnector ==
    ASSUME TypeInv, StrayInv, NEW s \in Servers, conns[s] # 0
    PROVE  /\ \A t \in Servers \ {s} : conns[t] # conns[s]
           /\ \A c \in running : c.id = conns[s] => c.server = s
  BY NumbersMade DEF StrayInv, NumbersInv, NoStrayConnector

\* The other requests have not begun or are done.
LEMMA OthersRest ==
    ASSUME TypeInv, Sequential, NEW r \in Requests, Active(r)
    PROVE  \A q \in Requests \ {r} : pc[q] \in {"new", "done"}
  BY DEF Sequential, Active

\* What is to be shown of a step of the one request under way.
LEMMA StepOfOne ==
    ASSUME NEW r \in Requests,
           \A q \in Requests \ {r} : pc'[q] \in {"new", "done"},
           Active(r)', config' = desired'[r],
           pc'[r] \in {"stop", "stopping"} => Stopping(r)',
           pc'[r] \in {"start", "starting"} => Starting(r)',
           CertsInv'
    PROVE  Sequential'
<1>1. ~ Quiet'
  BY DEF Quiet, Active
<1>2. \A q \in Requests : Active(q)' => q = r
  BY DEF Active
<1>3. \A q \in Requests : pc'[q] \in {"stop", "stopping"} => Stopping(q)'
  <2> SUFFICES ASSUME NEW q \in Requests, pc'[q] \in {"stop", "stopping"} PROVE Stopping(q)'
    OBVIOUS
  <2>1. q = r
    BY <1>2 DEF Active
  <2>2. QED BY <2>1
<1>4. \A q \in Requests : pc'[q] \in {"start", "starting"} => Starting(q)'
  <2> SUFFICES ASSUME NEW q \in Requests, pc'[q] \in {"start", "starting"} PROVE Starting(q)'
    OBVIOUS
  <2>1. q = r
    BY <1>2 DEF Active
  <2>2. QED BY <2>1
<1>5. \A q \in Requests : Active(q)' => config' = desired'[q]
  BY <1>2
<1>6. QED BY <1>1, <1>2, <1>3, <1>4, <1>5 DEF Sequential

\* While no stop() is awaited, _tmp names the files of the connectors of _conns.
LEMMA FilesOfConns ==
    ASSUME CertsInv, \A q \in Requests : pc[q] # "stopping"
    PROVE  \A s \in Servers : tmp[s] = conns[s]
  BY DEF CertsInv

\* A step that leaves connectors, files and the awaited stop() alone.
LEMMA SameCerts ==
    ASSUME CertsInv, UNCHANGED <<tmp, certs, conns, visiting>>,
           \A q \in Requests : pc'[q] = "stopping" <=> pc[q] = "stopping"
    PROVE  CertsInv'
  BY DEF CertsInv

LEMMA BeginSequential ==
    ASSUME TypeInv, StrayInv, Sequential, Quiet, NEW r \in Requests, Begin(r)
    PROVE  Sequential'
<1>0. /\ pc \in [Requests -> {"new", "stop", "stopping", "start", "starting", "done"}]
      /\ todo \in [Requests -> SUBSET Servers] /\ desired \in [Requests -> [Servers -> Definitions]]
  BY DEF TypeInv, TypeOK
<1>1. /\ pc[r] = "new" /\ pc' = [pc EXCEPT ![r] = "stop"] /\ config' = desired'[r]
      /\ todo' = [todo EXCEPT ![r] = {s \in Servers : conns[s] # 0}]
      /\ UNCHANGED <<conns, running, tmp, certs, defs, visiting>>
  BY DEF Begin, Goto, liveVars
<1>2. /\ \A q \in Requests \ {r} : pc'[q] \in {"new", "done"} /\ pc'[q] = pc[q]
      /\ pc'[r] = "stop" /\ todo'[r] = {s \in Servers : conns[s] # 0}
  BY <1>0, <1>1 DEF Quiet
<1>3. Stopping(r)'
  BY <1>1, <1>2 DEF Stopping, Sequential, Fits
<1>4. CertsInv'
  BY <1>0, <1>1, <1>2, SameCerts DEF Sequential
<1>5. QED BY <1>1, <1>2, <1>3, <1>4, StepOfOne DEF Active

LEMMA KeepOneSequential ==
    ASSUME TypeInv, StrayInv, Sequential, NEW r \in Requests, KeepOne(r)
    PROVE  Sequential'
<1>0. todo \in [Requests -> SUBSET Servers]
  BY DEF TypeInv, TypeOK
<1>1. PICK s \in todo[r] : ~ Obsolete(r, s) /\ todo' = [todo EXCEPT ![r] = @ \ {s}]
  BY DEF KeepOne
<1>2. /\ pc[r] = "stop" /\ Active(r)
      /\ UNCHANGED <<conns, running, tmp, certs, config, defs, desired, visiting, pc>>
  BY DEF KeepOne, liveVars, Active
<1>3. \A q \in Requests \ {r} : pc[q] \in {"new", "done"}
  BY <1>2, OthersRest
<1>4. Stopping(r) /\ config = desired[r] /\ CertsInv
  BY <1>2 DEF Sequential
<1>5. s \in Servers /\ todo'[r] = todo[r] \ {s}
  BY <1>0, <1>1
<1>6. Enabled(desired[r][s]) /\ Fits(s, desired[r][s])
  BY <1>1, <1>4 DEF Obsolete, Changed, Stopping, Fits
<1>7. Stopping(r)'
  BY <1>2, <1>4, <1>5, <1>6 DEF Stopping, Fits
<1>8. CertsInv'
  BY <1>2, <1>4, SameCerts
<1>9. QED BY <1>2, <1>3, <1>4, <1>7, <1>8, StepOfOne DEF Active

LEMMA StopOneSequential ==
    ASSUME TypeInv, StrayInv, Sequential, NEW r \in Requests, StopOne(r)
    PROVE  Sequential'
<1>0. /\ pc \in [Requests -> {"new", "stop", "stopping", "start", "starting", "done"}]
      /\ todo \in [Requests -> SUBSET Servers]
      /\ conns \in [Servers -> 0 .. made]
      /\ visiting \in [Requests -> [server : Servers, id : 0 .. made]]
  BY DEF TypeInv, TypeOK
<1>1. /\ pc[r] = "stop" /\ Active(r)
      /\ UNCHANGED <<config, file, defs, running, made, desired>>
  BY DEF StopOne, Active
<1>2. Stopping(r) /\ config = desired[r] /\ CertsInv
  BY <1>1 DEF Sequential
<1>3. \A q \in Requests \ {r} : pc[q] \in {"new", "done"}
  BY <1>1, OthersRest
<1>4. PICK s \in todo[r] :
        /\ s \in Servers /\ conns[s] # 0
        /\ todo' = [todo EXCEPT ![r] = @ \ {s}]
        /\ visiting' = [visiting EXCEPT ![r] = [server |-> s, id |-> conns[s]]]
        /\ conns' = [conns EXCEPT ![s] = 0]
        /\ pc' = [pc EXCEPT ![r] = "stopping"]
        /\ UNCHANGED <<tmp, certs>>
  BY <1>0, <1>2 DEF StopOne, Goto, Stopping
<1>5. /\ pc'[r] = "stopping" /\ visiting'[r] = [server |-> s, id |-> conns[s]]
      /\ todo'[r] = todo[r] \ {s} /\ conns'[s] = 0
      /\ \A t \in Servers \ {s} : conns'[t] = conns[t]
      /\ \A q \in Requests \ {r} : pc'[q] \in {"new", "done"}
  BY <1>0, <1>3, <1>4
<1>6. Stopping(r)'
  <2>1. \A t \in todo'[r] : t \in Servers \ {s} /\ t \in todo[r]
    BY <1>0, <1>5
  <2>2. \A t \in todo'[r] : conns'[t] # 0 /\ Fits(t, defs[t])'
    BY <1>1, <1>2, <1>5, <2>1 DEF Stopping, Fits
  <2>3. \A t \in Servers \ todo'[r] :
          conns'[t] # 0 => Enabled(desired[r][t]) /\ Fits(t, desired[r][t])'
    BY <1>1, <1>2, <1>5 DEF Stopping, Fits
  <2>4. QED BY <1>1, <2>2, <2>3 DEF Stopping, Fits
<1>7. \A t \in Servers : tmp[t] = conns[t]
  BY <1>1, <1>2, <1>3, FilesOfConns
<1>8. CertsInv'
  <2>1. \A t \in Servers : tmp'[t] # conns'[t] => t = s
    BY <1>4, <1>5, <1>7
  <2>2. pc'[r] = "stopping" /\ visiting'[r] = [server |-> s, id |-> tmp'[s]]
    BY <1>4, <1>5, <1>7
  <2>3. \A q \in Requests : pc'[q] = "stopping" => q = r
    BY <1>5
  <2>4. tmp'[s] = conns[s] /\ conns'[s] = 0
    BY <1>4, <1>5, <1>7
  <2>5. QED BY <1>2, <1>4, <1>5, <2>1, <2>2, <2>3, <2>4 DEF CertsInv
<1>9. QED BY <1>1, <1>2, <1>5, <1>6, <1>8, StepOfOne DEF Active

LEMMA StoppedOneSequential ==
    ASSUME TypeInv, StrayInv, Sequential, NEW r \in Requests, StoppedOne(r)
    PROVE  Sequential'
<1>0. /\ pc \in [Requests -> {"new", "stop", "stopping", "start", "starting", "done"}]
      /\ visiting \in [Requests -> [server : Servers, id : 0 .. made]]
      /\ tmp \in [Servers -> 0 .. made]
  BY DEF TypeInv, TypeOK
<1> DEFINE s == visiting[r].server
<1>1. /\ pc[r] = "stopping" /\ Active(r) /\ s \in Servers
      /\ pc' = [pc EXCEPT ![r] = "stop"]
      /\ running' \subseteq running
      /\ certs' = certs \ {tmp[s]} /\ tmp' = [tmp EXCEPT ![s] = 0]
      /\ UNCHANGED <<config, defs, conns, desired, todo, visiting>>
  BY <1>0 DEF StoppedOne, CleanUp, Goto, Active
<1>2. Stopping(r) /\ config = desired[r] /\ CertsInv
  BY <1>1 DEF Sequential
<1>3. \A q \in Requests \ {r} : pc[q] \in {"new", "done"}
  BY <1>1, OthersRest
<1>4. pc'[r] = "stop" /\ \A q \in Requests \ {r} : pc'[q] \in {"new", "done"}
  BY <1>0, <1>1, <1>3
<1>5. Stopping(r)'
  BY <1>1, <1>2 DEF Stopping, Fits
<1> HIDE DEF s
<1>6. /\ tmp'[s] = 0 /\ conns[s] = 0
      /\ \A t \in Servers \ {s} : tmp'[t] = tmp[t] /\ tmp[t] = conns[t]
  <2>1. conns[s] = 0
    BY <1>1, <1>2 DEF CertsInv, s
  <2>2. ASSUME NEW t \in Servers, t # s PROVE tmp[t] = conns[t]
    <3>1. \A q \in Requests : pc[q] = "stopping" => q = r
      BY <1>3
    <3>2. visiting[r] # [server |-> t, id |-> tmp[t]]
      BY <2>2 DEF s
    <3>3. QED BY <1>2, <3>1, <3>2 DEF CertsInv
  <2>3. QED BY <1>0, <1>1, <2>1, <2>2
<1>7. CertsInv'
  <2>1. certs' = {tmp'[t] : t \in Servers} \ {0}
    <3>1. certs = {tmp[t] : t \in Servers} \ {0} /\ \A t \in Servers : tmp[t] = tmp[s] /\ tmp[t] # 0 => t = s
      BY <1>1, <1>2 DEF CertsInv
    <3>2. ASSUME NEW x \in certs' PROVE x \in {tmp'[t] : t \in Servers} \ {0}
      BY <1>1, <1>6, <3>1, <3>2
    <3>3. ASSUME NEW t \in Servers, tmp'[t] # 0 PROVE tmp'[t] \in certs'
      BY <1>1, <1>6, <3>1, <3>3
    <3>4. QED BY <3>2, <3>3
  <2>2. \A t, u \in Servers : tmp'[t] = tmp'[u] /\ tmp'[t] # 0 => t = u
    BY <1>2, <1>6 DEF CertsInv
  <2>3. \A t \in Servers : tmp'[t] = conns'[t]
    BY <1>1, <1>6
  <2>4. \A q \in Requests : pc'[q] # "stopping"
    BY <1>4
  <2>5. QED BY <2>1, <2>2, <2>3, <2>4 DEF CertsInv
<1>8. QED BY <1>1, <1>2, <1>4, <1>5, <1>7, StepOfOne DEF Active

LEMMA StopsDoneSequential ==
    ASSUME TypeInv, StrayInv, Sequential, NEW r \in Requests, StopsDone(r)
    PROVE  Sequential'
<1>0. /\ pc \in [Requests -> {"new", "stop", "stopping", "start", "starting", "done"}]
      /\ todo \in [Requests -> SUBSET Servers]
  BY DEF TypeInv, TypeOK
<1>1. /\ pc[r] = "stop" /\ Active(r) /\ todo[r] = {}
      /\ todo' = [todo EXCEPT ![r] = {s \in Servers : Enabled(desired[r][s])}]
      /\ pc' = [pc EXCEPT ![r] = "start"]
      /\ UNCHANGED <<conns, running, tmp, certs, config, defs, desired, visiting>>
  BY DEF StopsDone, Goto, liveVars, Active
<1>2. Stopping(r) /\ config = desired[r] /\ CertsInv
  BY <1>1 DEF Sequential
<1>3. \A q \in Requests \ {r} : pc[q] \in {"new", "done"}
  BY <1>1, OthersRest
<1>4. /\ pc'[r] = "start" /\ \A q \in Requests \ {r} : pc'[q] \in {"new", "done"} /\ pc'[q] = pc[q]
      /\ todo'[r] = {s \in Servers : Enabled(desired[r][s])}
  BY <1>0, <1>1, <1>3
<1>5. Starting(r)'
  BY <1>1, <1>2, <1>4 DEF Stopping, Starting, Fits
<1>6. CertsInv'
  BY <1>1, <1>2, <1>4, SameCerts
<1>7. QED BY <1>1, <1>2, <1>4, <1>5, <1>6, StepOfOne DEF Active

LEMMA StartOneSequential ==
    ASSUME TypeInv, StrayInv, Sequential, NEW r \in Requests, StartOne(r)
    PROVE  Sequential'
<1>1. PICK s \in todo[r] :
         /\ s \in Servers /\ conns[s] = 0 /\ pc[r] = "start"
         /\ pc'[r] = "starting" /\ visiting'[r] = [server |-> s, id |-> made + 1]
         /\ todo'[r] = todo[r] \ {s}
         /\ \A q \in Requests \ {r} :
              pc'[q] = pc[q] /\ visiting'[q] = visiting[q] /\ todo'[q] = todo[q]
         /\ conns'[s] = made + 1 /\ tmp'[s] = made + 1
         /\ \A t \in Servers \ {s} : conns'[t] = conns[t] /\ tmp'[t] = tmp[t]
         /\ running' = running \cup
                {[id |-> made + 1, server |-> s, params |-> desired[r][s].params]}
         /\ certs' = certs \cup {made + 1}
         /\ UNCHANGED <<config, file, defs, desired>>
  BY StartOneFacts
<1>2. Active(r) /\ Starting(r) /\ config = desired[r] /\ CertsInv
  BY <1>1 DEF Sequential, Active
<1>3. \A q \in Requests \ {r} : pc[q] \in {"new", "done"}
  BY <1>2, OthersRest
<1>4. /\ made \in Nat /\ \A c \in running : c.id \in 1 .. made
      /\ \A t \in Servers : conns[t] \in 0 .. made /\ tmp[t] \in 0 .. made
  BY NumbersMade
<1>5. Fits(s, desired[r][s])'
  <2> SUFFICES ASSUME NEW c \in running', c.id = conns'[s] PROVE c.params = desired'[r][s].params
    BY DEF Fits
  <2>1. c \notin running
    BY <1>1, <1>4
  <2>2. QED BY <1>1, <2>1
<1>6. ASSUME NEW t \in Servers \ {s}, conns[t] # 0, Fits(t, desired[r][t])
      PROVE  Fits(t, desired[r][t])'
  <2> SUFFICES ASSUME NEW c \in running', c.id = conns'[t] PROVE c.params = desired'[r][t].params
    BY DEF Fits
  <2>1. c \in running
    BY <1>1, <1>4
  <2>2. QED BY <1>1, <1>6, <2>1 DEF Fits
<1>7. Starting(r)'
  <2>1. \A t \in todo'[r] : Enabled(desired'[r][t])
    BY <1>1, <1>2 DEF Starting
  <2>2. ASSUME NEW t \in Servers, conns'[t] # 0
        PROVE  Enabled(desired'[r][t]) /\ Fits(t, desired[r][t])'
    <3>1. CASE t = s
      BY <1>1, <1>2, <1>5, <3>1 DEF Starting
    <3>2. CASE t # s
      BY <1>1, <1>2, <1>6, <2>2, <3>2 DEF Starting
    <3>3. QED BY <3>1, <3>2
  <2>3. \A t \in Servers \ todo'[r] : Enabled(desired'[r][t]) => conns'[t] # 0
    BY <1>1, <1>2, <1>4 DEF Starting
  <2>4. QED BY <2>1, <2>2, <2>3 DEF Starting
<1>8. \A t \in Servers : tmp[t] = conns[t]
  BY <1>1, <1>2, <1>3, FilesOfConns
<1>9. CertsInv'
  <2>1. \A t \in Servers : tmp'[t] = conns'[t]
    BY <1>1, <1>8
  <2>2. \A q \in Requests : pc'[q] # "stopping"
    BY <1>1, <1>3
  <2>3. \A t, u \in Servers : tmp'[t] = tmp'[u] /\ tmp'[t] # 0 => t = u
    BY <1>1, <1>2, <1>4 DEF CertsInv
  <2>4. certs' = {tmp'[t] : t \in Servers} \ {0}
    <3>1. certs = {tmp[t] : t \in Servers} \ {0} /\ tmp[s] = 0 /\ made + 1 # 0
      BY <1>1, <1>2, <1>4, <1>8 DEF CertsInv
    <3>2. ASSUME NEW x \in certs' PROVE x \in {tmp'[t] : t \in Servers} \ {0}
      <4>1. CASE x = made + 1
        BY <1>1, <3>1, <4>1
      <4>2. CASE x \in certs
        BY <1>1, <3>1, <4>2
      <4>3. QED BY <1>1, <3>2, <4>1, <4>2
    <3>3. ASSUME NEW t \in Servers, tmp'[t] # 0 PROVE tmp'[t] \in certs'
      BY <1>1, <3>1, <3>3
    <3>4. QED BY <3>2, <3>3
  <2>5. QED BY <2>1, <2>2, <2>3, <2>4 DEF CertsInv
<1>10. \A q \in Requests \ {r} : pc'[q] \in {"new", "done"}
  BY <1>1, <1>3
<1>11. QED BY <1>1, <1>2, <1>7, <1>9, <1>10, StepOfOne DEF Active

LEMMA IsUpSequential ==
    ASSUME TypeInv, StrayInv, Sequential, NEW r \in Requests, IsUp(r) \/ StartedOne(r)
    PROVE  Sequential'
<1>0. /\ pc \in [Requests -> {"new", "stop", "stopping", "start", "starting", "done"}]
      /\ todo \in [Requests -> SUBSET Servers]
  BY DEF TypeInv, TypeOK
<1>1. /\ pc[r] \in {"start", "starting"} /\ Active(r)
      /\ pc' = pc \/ pc' = [pc EXCEPT ![r] = "start"]
      /\ UNCHANGED <<conns, running, tmp, certs, config, defs, desired, visiting>>
      /\ \/ todo' = todo
         \/ \E s \in todo[r] : conns[s] # 0 /\ todo' = [todo EXCEPT ![r] = @ \ {s}]
  BY DEF IsUp, StartedOne, Goto, liveVars, Active
<1>2. Starting(r) /\ config = desired[r] /\ CertsInv
  BY <1>1 DEF Sequential
<1>3. \A q \in Requests \ {r} : pc[q] \in {"new", "done"}
  BY <1>1, OthersRest
<1>4. /\ pc'[r] \in {"start", "starting"}
      /\ \A q \in Requests \ {r} : pc'[q] \in {"new", "done"} /\ pc'[q] = pc[q]
      /\ todo'[r] \subseteq todo[r] /\ \A s \in todo[r] \ todo'[r] : conns[s] # 0
  BY <1>0, <1>1, <1>3
<1>5. Starting(r)'
  BY <1>1, <1>2, <1>4 DEF Starting, Fits
<1>6. CertsInv'
  BY <1>1, <1>2, <1>4, SameCerts
<1>7. QED BY <1>1, <1>2, <1>4, <1>5, <1>6, StepOfOne DEF Active

LEMMA FinishSequential ==
    ASSUME TypeInv, StrayInv, Sequential, NEW r \in Requests, Finish(r)
    PROVE  Sequential'
<1>0. pc \in [Requests -> {"new", "stop", "stopping", "start", "starting", "done"}]
  BY DEF TypeInv, TypeOK
<1>1. /\ pc[r] = "start" /\ Active(r) /\ todo[r] = {}
      /\ defs' = desired[r] /\ file' = desired[r]
      /\ pc' = [pc EXCEPT ![r] = "done"]
      /\ UNCHANGED <<conns, running, tmp, certs, config, desired, visiting>>
  BY DEF Finish, Goto, liveVars, Active
<1>2. Starting(r) /\ config = desired[r] /\ CertsInv
  BY <1>1 DEF Sequential
<1>3. \A q \in Requests \ {r} : pc[q] \in {"new", "done"}
  BY <1>1, OthersRest
<1>4. \A q \in Requests : pc'[q] \in {"new", "done"} /\ (pc'[q] = "stopping" <=> pc[q] = "stopping")
  BY <1>0, <1>1, <1>3
<1>5. CertsInv'
  BY <1>1, <1>2, <1>4, SameCerts
<1>6. \A s \in Servers : (conns[s] # 0 <=> Enabled(config[s])) /\ Fits(s, config[s])
  <2> SUFFICES ASSUME NEW s \in Servers
               PROVE  (conns[s] # 0 <=> Enabled(config[s])) /\ Fits(s, config[s])
    OBVIOUS
  <2>1. conns[s] # 0 <=> Enabled(config[s])
    BY <1>1, <1>2 DEF Starting
  <2>2. CASE conns[s] # 0
    BY <1>2, <2>1, <2>2 DEF Starting
  <2>3. CASE conns[s] = 0
    BY <2>1, <2>3, NumbersMade DEF Fits
  <2>4. QED BY <2>1, <2>2, <2>3
<1>7. /\ file' = config' /\ defs' = config'
      /\ \A s \in Servers : (conns'[s] # 0 <=> Enabled(config'[s])) /\ Fits(s, config[s])'
  BY <1>1, <1>2, <1>6 DEF Fits
<1>8. QED BY <1>4, <1>5, <1>7 DEF Sequential, Active

LEMMA NextSequentialInv == TypeInv /\ StrayInv /\ SequentialInv /\ [Next]_vars => SequentialInv'
<1> SUFFICES ASSUME TypeInv, StrayInv, SequentialInv, [Next]_vars, ~ overlapped'
             PROVE  Sequential'
  BY DEF SequentialInv
<1>1. ASSUME NEW r \in Requests, Begin(r) PROVE Sequential'
  <2>1. Quiet /\ Sequential
    BY <1>1 DEF Begin, SequentialInv
  <2>2. QED BY <1>1, <2>1, BeginSequential
<1>2. ASSUME NEW r \in Requests, Step(r), UNCHANGED overlapped PROVE Sequential'
  <2>1. Sequential
    BY <1>2 DEF SequentialInv
  <2>2. QED
    BY <1>2, <2>1, KeepOneSequential, StopOneSequential, StoppedOneSequential,
       StopsDoneSequential, StartOneSequential, IsUpSequential, FinishSequential DEF Step
<1>3. CASE UNCHANGED vars
  <2>1. Sequential
    BY <1>3 DEF vars, SequentialInv
  <2>2. UNCHANGED <<config, file, defs, conns, running, tmp, certs, pc, desired, todo, visiting>>
    BY <1>3 DEF vars, liveVars, taskVars
  <2>3. CertsInv'
    BY <2>1, <2>2, SameCerts DEF Sequential
  <2>4. QED BY <2>1, <2>2, <2>3 DEF Sequential, Active, Quiet, Stopping, Starting, Fits
<1>4. QED BY <1>1, <1>2, <1>3 DEF Next

LEMMA InitSequentialInv == Init => SequentialInv
<1> SUFFICES ASSUME Init PROVE Sequential
  BY DEF SequentialInv
<1>1. PICK number \in [Servers -> 1 .. Cardinality(Servers)] :
        /\ \A s, t \in Servers : number[s] = number[t] => s = t
        /\ conns = [s \in Servers |-> IF Enabled(Initial[s]) THEN number[s] ELSE 0]
  BY DEF Init
<1>2. Cardinality(Servers) \in Nat
  BY ReconcileAssumptions, FS_CardinalityType
<1>3. /\ \A s \in Servers : conns[s] # 0 <=> Enabled(Initial[s])
      /\ \A s, t \in Servers : conns[s] = conns[t] /\ conns[s] # 0 => s = t
  BY <1>1, <1>2
<1>4. running = {[id |-> conns[s], server |-> s, params |-> Initial[s].params] :
                   s \in {t \in Servers : conns[t] # 0}}
  BY DEF Init
<1>5. \A s \in Servers : Fits(s, Initial[s])
  BY <1>3, <1>4 DEF Fits
<1>6. \A r \in Requests : pc[r] = "new"
  BY DEF Init
<1>7. tmp = conns /\ certs = {conns[s] : s \in Servers} \ {0} /\ {file, defs, config} = {Initial}
  BY DEF Init
<1>8. CertsInv
  BY <1>3, <1>6, <1>7 DEF CertsInv
<1>9. QED BY <1>3, <1>5, <1>6, <1>7, <1>8 DEF Sequential, Active

\* As long as no two requests overlapped, config, file and manager agree between
\* requests, the enabled servers and no others have a connector, made with their
\* parameters, and no temporary certificate file is missing or left behind.
THEOREM LiveWithoutOverlap == Spec => []SequentialTruth
<1>1. Spec => [](TypeInv /\ StrayInv /\ SequentialInv)
  BY InitTypeInv, NextTypeInv, InitStrayInv, NextStrayInv, InitSequentialInv,
     NextSequentialInv, PTL DEF Spec
<1>2. TypeInv /\ StrayInv /\ SequentialInv => SequentialTruth
  <2> SUFFICES ASSUME TypeInv, StrayInv, Sequential, Quiet PROVE LiveTruth
    BY DEF SequentialInv, SequentialTruth, LiveTruth
  <2>1. /\ file = config /\ defs = config /\ CertsInv
        /\ \A s \in Servers : (conns[s] # 0 <=> Enabled(config[s])) /\ Fits(s, config[s])
    BY DEF Sequential
  <2>2. \A q \in Requests : pc[q] # "stopping"
    BY DEF Quiet
  <2>3. \A s \in Servers : tmp[s] = conns[s]
    BY <2>1, <2>2, FilesOfConns
  <2>4. certs = {conns[s] : s \in Servers} \ {0}
    BY <2>1, <2>3 DEF CertsInv
  <2>5. ASSUME NEW c \in running
        PROVE  c.server \in Servers /\ Enabled(config[c.server]) /\ c.params = config[c.server].params
    <3>1. conns[c.server] = c.id
      BY <2>2 DEF StrayInv, NoStrayConnector
    <3>2. c.server \in Servers /\ conns[c.server] # 0
      BY <3>1, NumbersMade
    <3>3. QED BY <2>1, <3>1, <3>2 DEF Fits
  <2>6. ASSUME NEW s \in Servers, Enabled(config[s])
        PROVE  \E c \in running : c.server = s /\ c.params = config[s].params
    BY <2>1, <2>6 DEF StrayInv, NoStrayConnector, Fits
  <2>7. {<<c.server, c.params>> : c \in running}
          = {<<s, config[s].params>> : s \in {t \in Servers : Enabled(config[t])}}
    <3>1. ASSUME NEW c \in running
          PROVE  <<c.server, c.params>>
                   \in {<<s, config[s].params>> : s \in {t \in Servers : Enabled(config[t])}}
      BY <2>5
    <3>2. ASSUME NEW s \in Servers, Enabled(config[s])
          PROVE  <<s, config[s].params>> \in {<<c.server, c.params>> : c \in running}
      BY <2>6, <3>2
    <3>3. QED BY <3>1, <3>2
  <2>8. QED BY <2>1, <2>4, <2>7 DEF LiveTruth
<1>3. QED BY <1>1, <1>2, PTL
=============================================================================
