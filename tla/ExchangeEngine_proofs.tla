------------------------ MODULE ExchangeEngine_proofs ------------------------
(***************************************************************************)
(* Proofs about ExchangeEngine: type correctness, what the dedup cache     *)
(* promises (AtMostOncePerMemory, NoFalseDuplicate, LoopbackIgnored),      *)
(* repetition (RepetitionDelivers) and the dispatch loop                   *)
(* (HandledOncePerDispatch, ShieldedHandlerServed), for any values of the  *)
(* constants.                                                              *)
(***************************************************************************)
EXTENDS ExchangeEngine, SequenceFacts, WellFoundedInduction

(* The window.                                                             *)

\* _remember: the key is in the window afterwards, the window stays within its
\* bound, nothing else enters it and only the evicted key may leave it.
LEMMA RememberKeepsWindow ==
    ASSUME NEW q \in Seq(Msgs), Len(q) <= Window, NEW k \in Msgs
    PROVE  /\ Remember(q, k) \in Seq(Msgs)
           /\ Len(Remember(q, k)) <= Window
           /\ k \in Range(Remember(q, k))
           /\ Range(Remember(q, k)) \subseteq Range(q) \cup {k}
           /\ Range(q) \ Evicted(q, k) \subseteq Range(Remember(q, k))
<1>1. CASE k \in Range(q)
  BY <1>1 DEF Remember, Evicted
<1>2. CASE k \notin Range(q) /\ Len(q) = Window
  <2>1. q # <<>>
    BY <1>2, WindowAssumption, EmptySeq
  <2>2. Remember(q, k) = Append(Tail(q), k) /\ Evicted(q, k) = {Head(q)}
    BY <1>2 DEF Remember, Evicted
  <2> DEFINE rest == Tail(q)
  <2>3. /\ rest \in Seq(Msgs)
        /\ Len(rest) = Len(q) - 1
        /\ Range(q) = Range(rest) \cup {Head(q)}
    BY <2>1, TailRange
  <2> HIDE DEF rest
  <2>4. /\ Append(rest, k) \in Seq(Msgs)
        /\ Len(Append(rest, k)) = Len(rest) + 1
        /\ Range(Append(rest, k)) = Range(rest) \cup {k}
    BY <2>3, AppendRange
  <2>5. QED BY <1>2, <2>2, <2>3, <2>4, WindowAssumption DEF rest
<1>3. CASE k \notin Range(q) /\ Len(q) # Window
  <2>1. Remember(q, k) = Append(q, k)
    BY <1>3 DEF Remember
  <2>2. /\ Append(q, k) \in Seq(Msgs)
        /\ Len(Append(q, k)) = Len(q) + 1
        /\ Range(Append(q, k)) = Range(q) \cup {k}
    BY AppendRange
  <2>3. Len(q) + 1 <= Window
    BY <1>3, WindowAssumption, LenProperties
  <2>4. QED BY <2>1, <2>2, <2>3
<1>4. QED BY <1>1, <1>2, <1>3

-----------------------------------------------------------------------------
(* What the compound operations do to the cache.                           *)

\* Keys leave a cache only when forgot counts it, and forgot never decreases.
KeysCounted ==
    /\ cache' \in [Nodes -> Seq(Msgs)]
    /\ \A x \in Nodes : Len(cache'[x]) <= Window
    /\ forgot' \in [Nodes -> [Msgs -> Nat]]
    /\ \A x \in Nodes, k \in Msgs :
         /\ forgot'[x][k] >= forgot[x][k]
         /\ k \in Range(cache[x]) \ Range(cache'[x]) => forgot'[x][k] > forgot[x][k]

\* Forget counts the given keys and no others.
LEMMA ForgetCounts ==
    ASSUME TypeOK, NEW n \in Nodes, NEW K, Forget(n, K)
    PROVE  /\ forgot' \in [Nodes -> [Msgs -> Nat]]
           /\ \A x \in Nodes, k \in Msgs :
                forgot'[x][k] = IF x = n /\ k \in K THEN forgot[x][k] + 1 ELSE forgot[x][k]
  BY DEF TypeOK, Forget

\* _remember at a node: the key is known there, no other key becomes known.
LEMMA RememberAtCounts ==
    ASSUME TypeOK, NEW n \in Nodes, NEW m \in Msgs, RememberAt(n, m)
    PROVE  /\ KeysCounted
           /\ m \in Range(cache'[n])
           /\ \A x \in Nodes, k \in Msgs :
                k \in Range(cache'[x]) => k \in Range(cache[x]) \/ (x = n /\ k = m)
<1>1. cache[n] \in Seq(Msgs) /\ Len(cache[n]) <= Window
  BY DEF TypeOK
<1>2. /\ Remember(cache[n], m) \in Seq(Msgs)
      /\ Len(Remember(cache[n], m)) <= Window
      /\ m \in Range(Remember(cache[n], m))
      /\ Range(Remember(cache[n], m)) \subseteq Range(cache[n]) \cup {m}
      /\ Range(cache[n]) \ Evicted(cache[n], m) \subseteq Range(Remember(cache[n], m))
  BY <1>1, RememberKeepsWindow
<1>3. /\ cache' \in [Nodes -> Seq(Msgs)]
      /\ cache'[n] = Remember(cache[n], m)
      /\ \A x \in Nodes \ {n} : cache'[x] = cache[x]
  BY <1>2 DEF TypeOK, RememberAt
<1>4. \A x \in Nodes : Len(cache'[x]) <= Window
  BY <1>2, <1>3 DEF TypeOK
<1>5. /\ forgot' \in [Nodes -> [Msgs -> Nat]]
      /\ \A x \in Nodes, k \in Msgs :
           forgot'[x][k] = IF x = n /\ k \in Evicted(cache[n], m)
                           THEN forgot[x][k] + 1 ELSE forgot[x][k]
  BY ForgetCounts DEF RememberAt
<1>6. ASSUME NEW x \in Nodes, NEW k \in Msgs
      PROVE  /\ forgot'[x][k] >= forgot[x][k]
             /\ k \in Range(cache[x]) \ Range(cache'[x]) => forgot'[x][k] > forgot[x][k]
  <2>1. forgot[x][k] \in Nat
    BY DEF TypeOK
  <2>2. k \in Range(cache[x]) \ Range(cache'[x]) => x = n /\ k \in Evicted(cache[n], m)
    BY <1>2, <1>3
  <2>3. QED BY <1>5, <2>1, <2>2
<1>7. KeysCounted
  BY <1>3, <1>4, <1>5, <1>6 DEF KeysCounted
<1>8. QED BY <1>2, <1>3, <1>7

\* A purge or a restart: every key that goes is counted, none comes.
LEMMA ForgetAllCounts ==
    ASSUME TypeOK, NEW n \in Nodes, ForgetAll(n)
    PROVE  /\ KeysCounted
           /\ \A x \in Nodes, k \in Msgs : k \in Range(cache'[x]) => k \in Range(cache[x])
<1>1. /\ <<>> \in Seq(Msgs)
      /\ Len(<<>>) <= Window
      /\ Range(<<>>) = {}
  BY EmptySeq, WindowAssumption DEF Range
<1>2. /\ cache' \in [Nodes -> Seq(Msgs)]
      /\ cache'[n] = <<>>
      /\ \A x \in Nodes \ {n} : cache'[x] = cache[x]
  BY <1>1 DEF TypeOK, ForgetAll
<1>3. /\ forgot' \in [Nodes -> [Msgs -> Nat]]
      /\ \A x \in Nodes, k \in Msgs :
           forgot'[x][k] = IF x = n /\ k \in Range(cache[n])
                           THEN forgot[x][k] + 1 ELSE forgot[x][k]
  BY ForgetCounts DEF ForgetAll
<1>4. \A x \in Nodes : Len(cache'[x]) <= Window
  BY <1>1, <1>2 DEF TypeOK
<1>5. ASSUME NEW x \in Nodes, NEW k \in Msgs
      PROVE  /\ forgot'[x][k] >= forgot[x][k]
             /\ k \in Range(cache[x]) \ Range(cache'[x]) => forgot'[x][k] > forgot[x][k]
  <2>1. forgot[x][k] \in Nat
    BY DEF TypeOK
  <2>2. k \in Range(cache[x]) \ Range(cache'[x]) => x = n
    BY <1>2
  <2>3. QED BY <1>3, <2>1, <2>2
<1>6. KeysCounted
  BY <1>2, <1>3, <1>4, <1>5 DEF KeysCounted
<1>7. QED BY <1>1, <1>2, <1>6

\* The loop over the handlers: the next subscribed one is an index of the list.
LEMMA FirstPendingInList ==
    ASSUME TypeOK, NEW n \in Nodes, NEW t \in Task, Pending(n, t) # {}
    PROVE  /\ FirstPending(n, t) \in Pending(n, t)
           /\ FirstPending(n, t) \in Nat \ {0}
           /\ \A j \in Pending(n, t) : FirstPending(n, t) <= j
<1>1. /\ Len(handlers[n]) \in Nat
      /\ t.next \in Nat \ {0}
  BY LenProperties DEF TypeOK, Task
<1>2. Pending(n, t) \subseteq Nat \ {0}
  BY <1>1 DEF Pending
<1>3. \E i \in Pending(n, t) : \A j \in Pending(n, t) : ~ (<<j, i>> \in OpToRel(<, Nat))
  BY <1>2, NatLessThanWellFounded, WFMin
<1>4. \E i \in Pending(n, t) : \A j \in Pending(n, t) : i <= j
  <2>1. \A i, j \in Nat : j < i => <<j, i>> \in OpToRel(<, Nat)
    BY DEF OpToRel
  <2>2. \A i, j \in Nat : ~ (j < i) => i <= j
    OBVIOUS
  <2>3. PICK i \in Pending(n, t) : \A j \in Pending(n, t) : ~ (<<j, i>> \in OpToRel(<, Nat))
    BY <1>3
  <2>4. \A j \in Pending(n, t) : i <= j
    BY <1>2, <2>1, <2>2, <2>3, Zenon
  <2>5. QED BY <2>4
<1>5. FirstPending(n, t) \in Pending(n, t) /\ \A j \in Pending(n, t) : FirstPending(n, t) <= j
  BY <1>4 DEF FirstPending
<1>6. QED BY <1>2, <1>5
-----------------------------------------------------------------------------
(* Type correctness.                                                       *)

\* A dispatch in progress has a subscribed handler ahead of it.
TasksPending == \A n \in Nodes : \A t \in tasks[n] : Pending(n, t) # {}

TypeInv == TypeOK /\ TasksPending

\* The conjuncts of TypeOK that Dispatch and Transmit touch.
LEMMA DispatchTypes ==
    ASSUME TypeInv, NEW n \in Nodes, NEW m \in Msgs, Dispatch(n, m), handlers' = handlers
    PROVE  /\ tasks' \in [Nodes -> SUBSET Task]
           /\ dispatched' \in [Nodes -> [Msgs -> Nat]]
           /\ TasksPending'
<1> DEFINE t == [msg |-> m, run |-> dispatched[n][m] + 1, next |-> 1]
<1>1. t \in Task
  BY DEF Task, TypeInv, TypeOK
<1>2. Remaining(n, t) \in SUBSET Task /\ \A u \in Remaining(n, t) : Pending(n, u) # {}
  BY <1>1 DEF Remaining
<1>3. tasks' = [tasks EXCEPT ![n] = @ \cup Remaining(n, t)]
  BY DEF Dispatch
<1>4. tasks' \in [Nodes -> SUBSET Task]
  BY <1>2, <1>3 DEF TypeInv, TypeOK
<1>5. dispatched' \in [Nodes -> [Msgs -> Nat]]
  BY DEF Dispatch, TypeInv, TypeOK
<1>6. ASSUME NEW x \in Nodes, NEW u \in tasks'[x] PROVE Pending(x, u)' # {}
  <2>1. Pending(x, u)' = Pending(x, u)
    BY DEF Pending
  <2>2. u \in tasks[x] \/ (x = n /\ u \in Remaining(n, t))
    BY <1>3 DEF TypeInv, TypeOK
  <2>3. QED BY <1>2, <2>1, <2>2 DEF TypeInv, TasksPending
<1>7. QED BY <1>4, <1>5, <1>6 DEF TasksPending

LEMMA TransmitTypes ==
    ASSUME TypeOK, NEW n \in Nodes, NEW m \in Msgs, Transmit(n, m)
    PROVE  /\ via' \in [Msgs -> Nodes \cup {NoNode}]
           /\ net' \in [Nodes -> [Msgs -> Nat]]
<1>1. Repeat \in Nat
  BY EngineAssumptions
<1>2. via' \in [Msgs -> Nodes \cup {NoNode}]
  BY DEF Transmit, TypeOK
<1>3. net' \in [Nodes -> [Msgs -> Nat]]
  <2>1. ASSUME NEW d \in Nodes PROVE [net[d] EXCEPT ![m] = @ + Repeat] \in [Msgs -> Nat]
    <3>1. net[d] \in [Msgs -> Nat]
      BY DEF TypeOK
    <3>2. net[d][m] + Repeat \in Nat
      BY <1>1, <3>1
    <3>3. QED BY <3>1, <3>2
  <2>2. net' = [d \in Nodes |-> [net[d] EXCEPT ![m] = @ + Repeat]]
    BY DEF Transmit
  <2>3. QED BY <2>1, <2>2
<1>4. QED BY <1>2, <1>3

\* Tasks keep a handler ahead of them while neither they nor the list change.
LEMMA TasksPendingKept ==
    ASSUME TypeInv, tasks' = tasks, handlers' = handlers
    PROVE  TasksPending'
  BY DEF TypeInv, TasksPending, Pending

LEMMA InitTypeInv == Init => TypeInv
<1> SUFFICES ASSUME Init PROVE TypeInv
  OBVIOUS
<1>1. cache \in [Nodes -> Seq(Msgs)] /\ \A n \in Nodes : Len(cache[n]) <= Window
  BY EmptySeq, WindowAssumption DEF Init
<1>2. handlers \in [Nodes -> Seq(Handlers)]
  BY EngineAssumptions DEF Init
<1>3. TypeOK
  BY <1>1, <1>2 DEF Init, TypeOK, PerMsg
<1>4. TasksPending
  BY DEF Init, TasksPending
<1>5. QED BY <1>3, <1>4 DEF TypeInv
\* Every step preserves the type invariant; one step of the proof per action.
LEMMA NextTypeInv == TypeInv /\ [Next]_vars => TypeInv'
<1> SUFFICES ASSUME TypeInv, [Next]_vars PROVE TypeInv'
  OBVIOUS
<1> USE DEF wireVars, policyVars, historyVars
<1>0. TypeOK /\ TasksPending
  BY DEF TypeInv
<1>1. ASSUME NEW n \in Nodes, NEW m \in Msgs, Publish(n, m) PROVE TypeInv'
  <2>1. Transmit(n, m) /\ RememberAt(n, m)
    BY <1>1 DEF Publish, Transmit
  <2>2. KeysCounted
    BY <1>0, <2>1, RememberAtCounts
  <2>3. TypeOK'
    BY <1>0, <1>1, <2>1, <2>2, TransmitTypes DEF Publish, TypeOK, KeysCounted
  <2>4. QED BY <1>1, <2>3, TasksPendingKept DEF Publish, TypeInv
<1>2. ASSUME NEW n \in Nodes, NEW m \in Msgs, IngestFromBridge(n, m) PROVE TypeInv'
  <2>1. Transmit(n, m) /\ RememberAt(n, m) /\ Dispatch(n, m) /\ handlers' = handlers
    BY <1>2 DEF IngestFromBridge, Transmit
  <2>2. KeysCounted
    BY <1>0, <2>1, RememberAtCounts
  <2>3. /\ tasks' \in [Nodes -> SUBSET Task]
        /\ dispatched' \in [Nodes -> [Msgs -> Nat]]
        /\ TasksPending'
    BY <2>1, DispatchTypes
  <2>4. TypeOK'
    BY <1>0, <1>2, <2>1, <2>2, <2>3, TransmitTypes
    DEF IngestFromBridge, TypeOK, KeysCounted
  <2>5. QED BY <2>3, <2>4 DEF TypeInv
<1>3. ASSUME NEW n \in Nodes, NEW m \in Msgs, Reject(n, m) PROVE TypeInv'
  <2>1. net' \in [Nodes -> [Msgs -> Nat]]
    BY <1>0, <1>3 DEF Reject, Arrives, TypeOK
  <2>2. drops' \in [Nodes -> SUBSET (Range(Stages) \X Msgs)]
    <3>1. PICK i \in DOMAIN Stages : drops' = [drops EXCEPT ![n] = @ \cup {<<Stages[i], m>>}]
      BY <1>3 DEF Reject
    <3>2. <<Stages[i], m>> \in Range(Stages) \X Msgs
      BY DEF Range
    <3>3. QED BY <1>0, <3>1, <3>2 DEF TypeOK
  <2>3. TypeOK'
    BY <1>0, <1>3, <2>1, <2>2 DEF Reject, TypeOK
  <2>4. QED BY <1>3, <2>3, TasksPendingKept DEF Reject, TypeInv
<1>4. ASSUME NEW n \in Nodes, NEW m \in Msgs, Accept(n, m) PROVE TypeInv'
  <2>1. net' \in [Nodes -> [Msgs -> Nat]]
    BY <1>0, <1>4 DEF Accept, Arrives, TypeOK
  <2>2. KeysCounted
    BY <1>0, <1>4, RememberAtCounts DEF Accept
  <2>3. /\ tasks' \in [Nodes -> SUBSET Task]
        /\ dispatched' \in [Nodes -> [Msgs -> Nat]]
        /\ TasksPending'
    BY <1>4, DispatchTypes DEF Accept
  <2>4. TypeOK'
    BY <1>0, <1>4, <2>1, <2>2, <2>3 DEF Accept, TypeOK, KeysCounted
  <2>5. QED BY <2>3, <2>4 DEF TypeInv
<1>5. ASSUME NEW n \in Nodes, NEW m \in Msgs, Lose(n, m) PROVE TypeInv'
  <2>1. net' \in [Nodes -> [Msgs -> Nat]] /\ lost' \in [Nodes -> [Msgs -> Nat]]
    BY <1>0, <1>5 DEF Lose, Arrives, TypeOK
  <2>2. TypeOK'
    BY <1>0, <1>5, <2>1 DEF Lose, TypeOK
  <2>3. QED BY <1>5, <2>2, TasksPendingKept DEF Lose, TypeInv
<1>6. ASSUME NEW n \in Nodes, NEW t \in tasks[n], HandlerReturns(n, t) PROVE TypeInv'
  <2> DEFINE i == FirstPending(n, t)
             u == [t EXCEPT !.next = i + 1]
  <2>1. t \in Task /\ Pending(n, t) # {}
    BY <1>0 DEF TypeOK, TasksPending
  <2>2. i \in Nat \ {0}
    BY <1>0, <2>1, FirstPendingInList
  <2>3. u \in Task
    BY <2>1, <2>2 DEF Task
  <2>4. Remaining(n, u) \in SUBSET Task /\ \A v \in Remaining(n, u) : Pending(n, v) # {}
    BY <2>3 DEF Remaining
  <2>5. /\ tasks' = [tasks EXCEPT ![n] = (@ \ {t}) \cup Remaining(n, u)]
        /\ handled' = [handled EXCEPT ![n][handlers[n][i]][t.msg] = @ + 1]
        /\ handlers' = handlers
    BY <1>6 DEF HandlerReturns
  <2>6. tasks' \in [Nodes -> SUBSET Task]
    BY <1>0, <2>4, <2>5 DEF TypeOK
  <2>7. handled' \in [Nodes -> [Handlers -> [Msgs -> Nat]]]
    <3>1. i \in 1 .. Len(handlers[n])
      BY <1>0, <2>1, <2>2, FirstPendingInList DEF Pending
    <3>2. handlers[n][i] \in Handlers /\ t.msg \in Msgs
      BY <1>0, <2>1, <3>1, ElementOfSeq DEF TypeOK, Task
    <3>3. handled[n][handlers[n][i]][t.msg] + 1 \in Nat
      BY <1>0, <3>2 DEF TypeOK
    <3> DEFINE g == handlers[n][i]
               counts == [handled[n][g] EXCEPT ![t.msg] = @ + 1]
               row == [handled[n] EXCEPT ![g] = counts]
    <3>4. /\ g \in Handlers /\ handled[n] \in [Handlers -> [Msgs -> Nat]]
          /\ handled[n][g] \in [Msgs -> Nat]
      BY <1>0, <3>2 DEF TypeOK
    <3>5. handled' = [handled EXCEPT ![n] = row]
      BY <2>5
    <3> HIDE DEF g
    <3>6. counts \in [Msgs -> Nat]
      BY <3>2, <3>3, <3>4
    <3> HIDE DEF counts
    <3>7. row \in [Handlers -> [Msgs -> Nat]]
      BY <3>4, <3>6
    <3> HIDE DEF row
    <3>8. QED BY <1>0, <3>5, <3>7 DEF TypeOK
  <2>8. TypeOK'
    BY <1>0, <1>6, <2>6, <2>7 DEF HandlerReturns, TypeOK
  <2>9. ASSUME NEW x \in Nodes, NEW v \in tasks'[x] PROVE Pending(x, v)' # {}
    <3>1. Pending(x, v)' = Pending(x, v)
      BY <2>5 DEF Pending
    <3>2. v \in tasks[x] \/ (x = n /\ v \in Remaining(n, u))
      BY <1>0, <2>5 DEF TypeOK
    <3>3. QED BY <1>0, <2>4, <3>1, <3>2 DEF TasksPending
  <2>10. QED BY <2>8, <2>9 DEF TypeInv, TasksPending
<1>7. ASSUME NEW n \in Nodes, NEW t \in tasks[n], HandlerRaises(n, t) PROVE TypeInv'
  <2>1. /\ tasks' = [tasks EXCEPT ![n] = @ \ {t}]
        /\ handlers' = handlers
    BY <1>7 DEF HandlerRaises
  <2>2. TypeOK'
    BY <1>0, <1>7, <2>1 DEF HandlerRaises, TypeOK
  <2>3. ASSUME NEW x \in Nodes, NEW v \in tasks'[x] PROVE Pending(x, v)' # {}
    <3>1. Pending(x, v)' = Pending(x, v)
      BY <2>1 DEF Pending
    <3>2. v \in tasks[x]
      BY <1>0, <2>1 DEF TypeOK
    <3>3. QED BY <1>0, <3>1, <3>2 DEF TasksPending
  <2>4. QED BY <2>2, <2>3 DEF TypeInv, TasksPending
<1>8. ASSUME NEW n \in Nodes, NEW h \in Handlers, AddHandler(n, h) PROVE TypeInv'
  <2>1. /\ handlers' = [handlers EXCEPT ![n] = Append(@, h)]
        /\ tasks' = tasks
    BY <1>8 DEF AddHandler
  <2>2. handlers' \in [Nodes -> Seq(Handlers)]
    BY <1>0, <2>1 DEF TypeOK
  <2>3. TypeOK'
    BY <1>0, <1>8, <2>2 DEF AddHandler, TypeOK
  <2>4. ASSUME NEW x \in Nodes, NEW v \in tasks'[x] PROVE Pending(x, v)' # {}
    <3>1. v \in tasks[x] /\ v \in Task
      BY <1>0, <2>1 DEF TypeOK
    <3>2. PICK j \in Pending(x, v) : TRUE
      BY <1>0, <3>1 DEF TasksPending
    <3>3. /\ handlers[x] \in Seq(Handlers)
          /\ Len(handlers[x]) \in Nat
          /\ v.next \in Nat
      BY <1>0, <3>1, LenProperties DEF TypeOK, Task
    <3>4. /\ j \in v.next .. Len(handlers[x])
          /\ Type[v.msg] \in Subs[handlers[x][j]]
          /\ j \in 1 .. Len(handlers[x])
      BY <3>1, <3>2, <3>3 DEF Pending, Task
    <3>5. j \in v.next .. Len(handlers'[x]) /\ handlers'[x][j] = handlers[x][j]
      <4>1. CASE x = n
        <5>1. handlers'[x] = Append(handlers[x], h)
          BY <1>0, <2>1, <4>1 DEF TypeOK
        <5>2. /\ Len(handlers'[x]) = Len(handlers[x]) + 1
              /\ handlers'[x][j] = handlers[x][j]
          BY <3>3, <3>4, <5>1
        <5>3. QED BY <3>3, <3>4, <5>2
      <4>2. CASE x # n
        BY <1>0, <2>1, <3>4, <4>2 DEF TypeOK
      <4>3. QED BY <4>1, <4>2
    <3>6. j \in Pending(x, v)'
      BY <3>4, <3>5 DEF Pending
    <3>7. QED BY <3>6
  <2>5. QED BY <2>3, <2>4 DEF TypeInv, TasksPending
<1>9. ASSUME NEW n \in Nodes, NEW o \in Origins, SetPeer(n, o) PROVE TypeInv'
  <2>1. permitted' \in [Nodes -> SUBSET Origins] /\ edits' \in Nat
    <3>1. edits' \in Nat
      BY <1>0, <1>9 DEF SetPeer, Edit, TypeOK
    <3>2. \/ permitted' = [permitted EXCEPT ![n] = @ \ {o}]
          \/ permitted' = [permitted EXCEPT ![n] = @ \cup {o}]
      BY <1>9 DEF SetPeer
    <3>3. permitted' \in [Nodes -> SUBSET Origins]
      <4>1. permitted \in [Nodes -> SUBSET Origins] /\ permitted[n] \in SUBSET Origins
        BY <1>0 DEF TypeOK
      <4>2. permitted[n] \ {o} \in SUBSET Origins /\ permitted[n] \cup {o} \in SUBSET Origins
        BY <4>1
      <4>3. QED BY <3>2, <4>1, <4>2
    <3>4. QED BY <3>1, <3>3
  <2>2. TypeOK'
    BY <1>0, <1>9, <2>1 DEF SetPeer, TypeOK
  <2>3. QED BY <1>9, <2>2, TasksPendingKept DEF SetPeer, TypeInv
<1>10. ASSUME NEW n \in Nodes, NEW ty \in Types, SetCapability(n, ty) PROVE TypeInv'
  <2>1. /\ rx' \in [Nodes -> SUBSET Types]
        /\ tx' \in [Nodes -> SUBSET Types]
        /\ edits' \in Nat
    <3>1. edits' \in Nat
      BY <1>0, <1>10 DEF SetCapability, Edit, TypeOK
    <3>2. PICK on \in BOOLEAN :
            \/ rx' = [rx EXCEPT ![n] = IF on THEN @ \cup {ty} ELSE @ \ {ty}] /\ UNCHANGED tx
            \/ tx' = [tx EXCEPT ![n] = IF on THEN @ \cup {ty} ELSE @ \ {ty}] /\ UNCHANGED rx
      BY <1>10 DEF SetCapability
    <3>3. rx' \in [Nodes -> SUBSET Types] /\ tx' \in [Nodes -> SUBSET Types]
      <4>1. {rx, tx} \subseteq [Nodes -> SUBSET Types]
        BY <1>0 DEF TypeOK
      <4>2. \A s \in SUBSET Types :
              (IF on THEN s \cup {ty} ELSE s \ {ty}) \in SUBSET Types
        OBVIOUS
      <4>3. \A f \in [Nodes -> SUBSET Types] :
              [f EXCEPT ![n] = IF on THEN @ \cup {ty} ELSE @ \ {ty}] \in [Nodes -> SUBSET Types]
        BY <4>2
      <4>4. QED BY <3>2, <4>1, <4>3
    <3>4. QED BY <3>1, <3>3
  <2>2. TypeOK'
    BY <1>0, <1>10, <2>1 DEF SetCapability, TypeOK
  <2>3. QED BY <1>10, <2>2, TasksPendingKept DEF SetCapability, TypeInv
<1>11. ASSUME NEW n \in Nodes, PurgeMessages(n) PROVE TypeInv'
  <2>1. KeysCounted /\ forgets' \in Nat
    <3>1. ForgetAll(n)
      BY <1>11 DEF PurgeMessages
    <3>2. KeysCounted
      BY <1>0, <3>1, ForgetAllCounts
    <3>3. forgets' \in Nat
      BY <1>0, <3>1 DEF ForgetAll, TypeOK
    <3>4. QED BY <3>2, <3>3
  <2>2. TypeOK'
    BY <1>0, <1>11, <2>1 DEF PurgeMessages, TypeOK, KeysCounted
  <2>3. QED BY <1>11, <2>2, TasksPendingKept DEF PurgeMessages, TypeInv
<1>12. ASSUME NEW n \in Nodes, Restart(n) PROVE TypeInv'
  <2>1. KeysCounted /\ forgets' \in Nat
    <3>1. ForgetAll(n)
      BY <1>12 DEF Restart
    <3>2. KeysCounted
      BY <1>0, <3>1, ForgetAllCounts
    <3>3. forgets' \in Nat
      BY <1>0, <3>1 DEF ForgetAll, TypeOK
    <3>4. QED BY <3>2, <3>3
  <2>2. /\ tasks' = [tasks EXCEPT ![n] = {}]
        /\ tasks' \in [Nodes -> SUBSET Task]
        /\ handlers' = [handlers EXCEPT ![n] = InitHandlers]
        /\ handlers' \in [Nodes -> Seq(Handlers)]
        /\ permitted' \in [Nodes -> SUBSET Origins]
        /\ rx' \in [Nodes -> SUBSET Types] /\ tx' \in [Nodes -> SUBSET Types]
    <3>1. /\ tasks' = [tasks EXCEPT ![n] = {}]
          /\ tasks' \in [Nodes -> SUBSET Task]
      BY <1>0, <1>12 DEF Restart, TypeOK
    <3>2. /\ handlers' = [handlers EXCEPT ![n] = InitHandlers]
          /\ handlers' \in [Nodes -> Seq(Handlers)]
      BY <1>0, <1>12, EngineAssumptions DEF Restart, TypeOK
    <3>3. permitted' \in [Nodes -> SUBSET Origins]
      <4>1. permitted \in [Nodes -> SUBSET Origins]
        BY <1>0 DEF TypeOK
      <4>2. permitted' = [permitted EXCEPT ![n] = Origins]
        BY <1>12 DEF Restart
      <4>3. QED BY <4>1, <4>2
    <3>4. rx' \in [Nodes -> SUBSET Types] /\ tx' \in [Nodes -> SUBSET Types]
      <4>1. rx \in [Nodes -> SUBSET Types] /\ tx \in [Nodes -> SUBSET Types]
        BY <1>0 DEF TypeOK
      <4>2. \/ UNCHANGED <<rx, tx>>
            \/ rx' = [rx EXCEPT ![n] = Types] /\ tx' = [tx EXCEPT ![n] = Types]
        BY <1>12 DEF Restart
      <4>3. QED BY <4>1, <4>2
    <3>5. QED BY <3>1, <3>2, <3>3, <3>4
  <2>3. TypeOK'
    <3>1. /\ cache' \in [Nodes -> Seq(Msgs)]
          /\ \A x \in Nodes : Len(cache'[x]) <= Window
          /\ forgot' \in [Nodes -> [Msgs -> Nat]]
      BY <2>1 DEF KeysCounted
    <3>2. UNCHANGED <<net, lost, edits, via, dispatched, handled, drops>>
      BY <1>12 DEF Restart
    <3>3. restarted' \subseteq Nodes
      BY <1>0, <1>12 DEF Restart, TypeOK
    <3>4. QED BY <1>0, <2>1, <2>2, <3>1, <3>2, <3>3 DEF TypeOK
  <2>4. ASSUME NEW x \in Nodes, NEW v \in tasks'[x] PROVE Pending(x, v)' # {}
    <3>1. x # n /\ v \in tasks[x]
      BY <1>0, <2>2 DEF TypeOK
    <3>2. Pending(x, v)' = Pending(x, v)
      BY <1>0, <2>2, <3>1 DEF Pending, TypeOK
    <3>3. QED BY <1>0, <3>1, <3>2 DEF TasksPending
  <2>5. QED BY <2>3, <2>4 DEF TypeInv, TasksPending
<1>13. CASE UNCHANGED vars
  <2>1. TypeOK'
    BY <1>0, <1>13 DEF TypeOK, vars
  <2>2. QED BY <1>13, <2>1, TasksPendingKept DEF vars, TypeInv
<1>14. QED
  BY <1>1, <1>2, <1>3, <1>4, <1>5, <1>6, <1>7, <1>8, <1>9, <1>10, <1>11, <1>12, <1>13
  DEF Next

LEMMA TypeInvariant == Spec => []TypeInv
  BY InitTypeInv, NextTypeInv, PTL DEF Spec

\* Type correctness of the exchange engine: whatever is sent, lost, repeated,
\* purged or restarted, every variable keeps its type, and the dedup cache of
\* every node stays within dedup_window.
THEOREM TypeCorrect == Spec => []TypeOK
<1>1. TypeInv => TypeOK
  BY DEF TypeInv
<1>2. QED BY <1>1, TypeInvariant, PTL

-----------------------------------------------------------------------------
(* What the dedup cache promises.  AtMostOncePerMemory is not inductive:   *)
(* a bridged message is dispatched without a duplicate test, so it must be *)
(* known that nobody has met the message before it is transmitted; and     *)
(* LoopbackIgnored needs that a sender still holds its key.                *)

Untransmitted ==
    \A m \in Msgs : via[m] = NoNode =>
        \A n \in Nodes : m \notin Range(cache[n]) /\ dispatched[n][m] = 0 /\ net[n][m] = 0

OwnKeyKept ==
    \A n \in Nodes, m \in Msgs :
        via[m] = n /\ forgot[n][m] = 0 => m \in Range(cache[n])

DedupInv ==
    /\ TypeOK
    /\ Untransmitted
    /\ OwnKeyKept
    /\ AtMostOncePerMemory
    /\ NoFalseDuplicate
    /\ LoopbackIgnored

LEMMA InitDedupInv == Init => DedupInv
<1> SUFFICES ASSUME Init PROVE DedupInv
  OBVIOUS
<1>1. TypeOK
  BY InitTypeInv DEF TypeInv
<1>2. \A n \in Nodes, m \in Msgs :
        /\ m \notin Range(cache[n])
        /\ dispatched[n][m] = 0 /\ net[n][m] = 0 /\ forgot[n][m] = 0
        /\ via[m] = NoNode /\ drops[n] = {}
  BY DEF Init, PerMsg, Range
<1>3. Untransmitted /\ NoFalseDuplicate
  BY <1>2 DEF Untransmitted, NoFalseDuplicate
<1>4. OwnKeyKept /\ LoopbackIgnored
  BY <1>2, EngineAssumptions DEF OwnKeyKept, LoopbackIgnored
<1>5. AtMostOncePerMemory
  BY <1>2 DEF AtMostOncePerMemory, Known
<1>6. QED BY <1>1, <1>3, <1>4, <1>5 DEF DedupInv

\* A step that counts the keys it loses, lets none in, and dispatches, sends and
\* rejects nothing new preserves the invariant.
LEMMA DedupInvKept ==
    ASSUME DedupInv, TypeOK', KeysCounted,
           \A x \in Nodes, k \in Msgs : k \in Range(cache'[x]) => k \in Range(cache[x]),
           via' = via, dispatched' = dispatched,
           \A x \in Nodes, k \in Msgs : net[x][k] = 0 => net'[x][k] = 0,
           \A x \in Nodes, k \in Msgs :
             <<"duplicate", k>> \in drops'[x] =>
                 <<"duplicate", k>> \in drops[x] \/ k \in Range(cache[x])
    PROVE  DedupInv'
<1> USE DEF DedupInv
<1>1. Untransmitted'
  BY DEF Untransmitted
<1>2. \A x \in Nodes, k \in Msgs :
        /\ forgot[x][k] \in Nat /\ forgot'[x][k] \in Nat /\ dispatched[x][k] \in Nat
        /\ forgot'[x][k] >= forgot[x][k]
        /\ k \in Range(cache[x]) \ Range(cache'[x]) => forgot'[x][k] > forgot[x][k]
  BY DEF KeysCounted, TypeOK
<1>3. OwnKeyKept'
  BY <1>2 DEF OwnKeyKept
<1>4. AtMostOncePerMemory'
  BY <1>2 DEF AtMostOncePerMemory, Known
<1>5. NoFalseDuplicate'
  BY DEF NoFalseDuplicate
<1>6. LoopbackIgnored'
  BY <1>2 DEF LoopbackIgnored
<1>7. QED BY <1>1, <1>3, <1>4, <1>5, <1>6

\* Keys are counted by a step that leaves cache and forgot alone.
LEMMA CacheUnchangedCounts ==
    ASSUME TypeOK, cache' = cache, forgot' = forgot
    PROVE  KeysCounted /\ \A x \in Nodes, k \in Msgs : k \in Range(cache'[x]) => k \in Range(cache[x])
  BY DEF TypeOK, KeysCounted
\* Transmit by Publish (dispatched is left alone) or by IngestFromBridge (one
\* dispatch at the sender).
LEMMA TransmitDedupInv ==
    ASSUME DedupInv, TypeOK', NEW n \in Nodes, NEW m \in Msgs, Transmit(n, m), drops' = drops,
           dispatched' = IF Origin[m] = n THEN dispatched
                         ELSE [dispatched EXCEPT ![n][m] = @ + 1]
    PROVE  DedupInv'
<1>1. TypeOK /\ Untransmitted /\ OwnKeyKept /\ AtMostOncePerMemory /\ NoFalseDuplicate
      /\ LoopbackIgnored
  BY DEF DedupInv
<1>2. /\ KeysCounted
      /\ m \in Range(cache'[n])
      /\ \A x \in Nodes, k \in Msgs :
           k \in Range(cache'[x]) => k \in Range(cache[x]) \/ (x = n /\ k = m)
  BY <1>1, RememberAtCounts DEF Transmit
<1>3. \A x \in Nodes, k \in Msgs :
        /\ forgot[x][k] \in Nat /\ forgot'[x][k] \in Nat
        /\ dispatched[x][k] \in Nat /\ dispatched'[x][k] \in Nat
        /\ forgot'[x][k] >= forgot[x][k]
        /\ k \in Range(cache[x]) \ Range(cache'[x]) => forgot'[x][k] > forgot[x][k]
  <2>1. ASSUME NEW x \in Nodes, NEW k \in Msgs
        PROVE  /\ forgot[x][k] \in Nat /\ forgot'[x][k] \in Nat
               /\ dispatched[x][k] \in Nat /\ dispatched'[x][k] \in Nat
    BY <1>1 DEF TypeOK
  <2>2. QED BY <1>2, <2>1 DEF KeysCounted
<1>4. /\ via[m] = NoNode /\ via'[m] = n /\ n # NoNode
      /\ \A k \in Msgs \ {m} : via'[k] = via[k]
  BY <1>1, EngineAssumptions DEF Transmit, TypeOK
<1>5. \A x \in Nodes : m \notin Range(cache[x]) /\ dispatched[x][m] = 0
  BY <1>1, <1>4 DEF Untransmitted
<1>6. /\ \A x \in Nodes, k \in Msgs : x # n \/ k # m => dispatched'[x][k] = dispatched[x][k]
      /\ dispatched'[n][m] = IF Origin[m] = n THEN 0 ELSE 1
  BY <1>1, <1>5, SMTT(30) DEF TypeOK
<1>7. \A x \in Nodes, k \in Msgs \ {m} : net'[x][k] = net[x][k]
  BY <1>1 DEF Transmit, TypeOK
<1>8. Untransmitted'
  BY <1>1, <1>2, <1>4, <1>6, <1>7 DEF Untransmitted
<1>9. OwnKeyKept'
  BY <1>1, <1>2, <1>3, <1>4 DEF OwnKeyKept
<1>10. AtMostOncePerMemory'
  <2>1. ASSUME NEW x \in Nodes, NEW k \in Msgs
        PROVE  dispatched'[x][k] <= forgot'[x][k] + (IF k \in Range(cache'[x]) THEN 1 ELSE 0)
    <3>1. CASE x = n /\ k = m
      BY <1>2, <1>3, <1>6, <3>1
    <3>2. CASE ~ (x = n /\ k = m)
      <4>1. dispatched[x][k] <= forgot[x][k] + (IF k \in Range(cache[x]) THEN 1 ELSE 0)
        BY <1>1 DEF AtMostOncePerMemory, Known
      <4>2. dispatched'[x][k] = dispatched[x][k]
        BY <1>6, <3>2
      <4>3. QED BY <1>3, <4>1, <4>2
    <3>3. QED BY <3>1, <3>2
  <2>2. QED BY <2>1 DEF AtMostOncePerMemory, Known
<1>11. NoFalseDuplicate'
  <2>1. ASSUME NEW x \in Nodes, NEW k \in Msgs,
               k \in Range(cache'[x]) \/ <<"duplicate", k>> \in drops'[x]
        PROVE  via'[k] = x \/ dispatched'[x][k] > 0
    <3>1. CASE x = n /\ k = m
      BY <1>4, <3>1
    <3>2. CASE ~ (x = n /\ k = m)
      <4>1. via[k] = x \/ dispatched[x][k] > 0
        BY <1>1, <1>2, <2>1, <3>2 DEF NoFalseDuplicate
      <4>2. k # m
        BY <1>4, <1>5, <4>1, EngineAssumptions
      <4>3. QED BY <1>4, <1>6, <4>1, <4>2
    <3>3. QED BY <3>1, <3>2
  <2>2. QED BY <2>1 DEF NoFalseDuplicate
<1>12. LoopbackIgnored'
  <2>1. ASSUME NEW x \in Nodes, NEW k \in Msgs, via'[k] = x, forgot'[x][k] = 0
        PROVE  dispatched'[x][k] = IF Origin[k] = x THEN 0 ELSE 1
    <3>1. CASE k = m
      BY <1>4, <1>6, <2>1, <3>1
    <3>2. CASE k # m
      <4>1. via[k] = x /\ forgot[x][k] = 0
        BY <1>3, <1>4, <2>1, <3>2
      <4>2. QED BY <1>1, <1>6, <3>2, <4>1 DEF LoopbackIgnored
    <3>3. QED BY <3>1, <3>2
  <2>2. QED BY <2>1 DEF LoopbackIgnored
<1>13. QED BY <1>8, <1>9, <1>10, <1>11, <1>12 DEF DedupInv

\* An accepted copy: the duplicate test found the key unknown.
LEMMA AcceptDedupInv ==
    ASSUME DedupInv, TypeOK', NEW n \in Nodes, NEW m \in Msgs, Accept(n, m)
    PROVE  DedupInv'
<1>1. TypeOK /\ Untransmitted /\ OwnKeyKept /\ AtMostOncePerMemory /\ NoFalseDuplicate
      /\ LoopbackIgnored
  BY DEF DedupInv
<1>2. /\ KeysCounted
      /\ m \in Range(cache'[n])
      /\ \A x \in Nodes, k \in Msgs :
           k \in Range(cache'[x]) => k \in Range(cache[x]) \/ (x = n /\ k = m)
  BY <1>1, RememberAtCounts DEF Accept
<1>3. \A x \in Nodes, k \in Msgs :
        /\ forgot[x][k] \in Nat /\ forgot'[x][k] \in Nat
        /\ dispatched[x][k] \in Nat /\ dispatched'[x][k] \in Nat
        /\ forgot'[x][k] >= forgot[x][k]
        /\ k \in Range(cache[x]) \ Range(cache'[x]) => forgot'[x][k] > forgot[x][k]
  <2>1. ASSUME NEW x \in Nodes, NEW k \in Msgs
        PROVE  /\ forgot[x][k] \in Nat /\ forgot'[x][k] \in Nat
               /\ dispatched[x][k] \in Nat /\ dispatched'[x][k] \in Nat
    BY <1>1 DEF TypeOK
  <2>2. QED BY <1>2, <2>1 DEF KeysCounted
<1>4. via' = via /\ drops' = drops /\ net[n][m] > 0
  BY DEF Accept, Arrives
<1>5. m \notin Range(cache[n])
  <2>1. 5 \in DOMAIN Stages /\ Stages[5] = "duplicate"
    BY DEF Stages
  <2>2. ~ Fails(n, m)["duplicate"]
    BY <2>1 DEF Accept
  <2>3. QED BY <2>2 DEF Fails
<1>6. \A x \in Nodes, k \in Msgs :
        dispatched'[x][k] = IF x = n /\ k = m THEN dispatched[x][k] + 1 ELSE dispatched[x][k]
  <2>1. dispatched \in [Nodes -> [Msgs -> Nat]]
    BY <1>1 DEF TypeOK
  <2>2. dispatched' = [dispatched EXCEPT ![n][m] = @ + 1]
    BY DEF Accept, Dispatch
  <2>3. QED BY <2>1, <2>2
<1>7. via[m] # NoNode
  BY <1>1, <1>4 DEF Untransmitted
<1>8. \A x \in Nodes, k \in Msgs \ {m} : net'[x][k] = net[x][k]
  BY <1>1 DEF Accept, Arrives, TypeOK
<1>9. Untransmitted'
  BY <1>1, <1>2, <1>4, <1>6, <1>7, <1>8 DEF Untransmitted
<1>10. OwnKeyKept'
  BY <1>1, <1>2, <1>3, <1>4 DEF OwnKeyKept
<1>11. AtMostOncePerMemory'
  <2>1. ASSUME NEW x \in Nodes, NEW k \in Msgs
        PROVE  dispatched'[x][k] <= forgot'[x][k] + (IF k \in Range(cache'[x]) THEN 1 ELSE 0)
    <3>1. dispatched[x][k] <= forgot[x][k] + (IF k \in Range(cache[x]) THEN 1 ELSE 0)
      BY <1>1 DEF AtMostOncePerMemory, Known
    <3>2. CASE x = n /\ k = m
      BY <1>2, <1>3, <1>5, <1>6, <3>1, <3>2
    <3>3. CASE ~ (x = n /\ k = m)
      BY <1>3, <1>6, <3>1, <3>3
    <3>4. QED BY <3>2, <3>3
  <2>2. QED BY <2>1 DEF AtMostOncePerMemory, Known
<1>12. NoFalseDuplicate'
  BY <1>1, <1>2, <1>3, <1>4, <1>6 DEF NoFalseDuplicate
<1>13. LoopbackIgnored'
  <2>1. ASSUME NEW x \in Nodes, NEW k \in Msgs, via'[k] = x, forgot'[x][k] = 0
        PROVE  dispatched'[x][k] = IF Origin[k] = x THEN 0 ELSE 1
    <3>1. via[k] = x /\ forgot[x][k] = 0
      BY <1>3, <1>4, <2>1
    <3>2. ~ (x = n /\ k = m)
      BY <1>1, <1>5, <3>1 DEF OwnKeyKept
    <3>3. QED BY <1>1, <1>6, <3>1, <3>2 DEF LoopbackIgnored
  <2>2. QED BY <2>1 DEF LoopbackIgnored
<1>14. QED BY <1>9, <1>10, <1>11, <1>12, <1>13 DEF DedupInv

LEMMA NextDedupInv == DedupInv /\ TypeOK' /\ [Next]_vars => DedupInv'
<1> SUFFICES ASSUME DedupInv, TypeOK', [Next]_vars PROVE DedupInv'
  OBVIOUS
<1> USE DEF wireVars, policyVars, historyVars
<1>0. TypeOK
  BY DEF DedupInv
<1>1. ASSUME NEW n \in Nodes, NEW m \in Msgs, Publish(n, m) PROVE DedupInv'
  BY <1>1, TransmitDedupInv DEF Publish
<1>2. ASSUME NEW n \in Nodes, NEW m \in Msgs, IngestFromBridge(n, m) PROVE DedupInv'
  BY <1>2, TransmitDedupInv DEF IngestFromBridge, Dispatch
<1>3. ASSUME NEW n \in Nodes, NEW m \in Msgs, Reject(n, m) PROVE DedupInv'
  <2>1. PICK i \in DOMAIN Stages : /\ FailsAt(n, m, i)
                                   /\ drops' = [drops EXCEPT ![n] = @ \cup {<<Stages[i], m>>}]
    BY <1>3 DEF Reject
  <2>2. Stages[i] = "duplicate" => m \in Range(cache[n])
    <3>1. Fails(n, m)["duplicate"] = (m \in Range(cache[n]))
      BY DEF Fails
    <3>2. Fails(n, m)[Stages[i]]
      BY <2>1 DEF FailsAt
    <3>3. QED BY <3>1, <3>2, Zenon
  <2>3. \A x \in Nodes, k \in Msgs :
          <<"duplicate", k>> \in drops'[x] =>
              <<"duplicate", k>> \in drops[x] \/ k \in Range(cache[x])
    BY <1>0, <2>1, <2>2 DEF TypeOK
  <2>4. \A x \in Nodes, k \in Msgs : net[x][k] = 0 => net'[x][k] = 0
    BY <1>0, <1>3 DEF Reject, Arrives, TypeOK
  <2>5. KeysCounted /\ \A x \in Nodes, k \in Msgs : k \in Range(cache'[x]) => k \in Range(cache[x])
    BY <1>0, <1>3, CacheUnchangedCounts DEF Reject
  <2>6. QED BY <1>3, <2>3, <2>4, <2>5, DedupInvKept DEF Reject
<1>4. ASSUME NEW n \in Nodes, NEW m \in Msgs, Accept(n, m) PROVE DedupInv'
  BY <1>4, AcceptDedupInv
<1>5. ASSUME NEW n \in Nodes, NEW m \in Msgs, Lose(n, m) PROVE DedupInv'
  <2>1. \A x \in Nodes, k \in Msgs : net[x][k] = 0 => net'[x][k] = 0
    BY <1>0, <1>5 DEF Lose, Arrives, TypeOK
  <2>2. KeysCounted /\ \A x \in Nodes, k \in Msgs : k \in Range(cache'[x]) => k \in Range(cache[x])
    BY <1>0, <1>5, CacheUnchangedCounts DEF Lose
  <2>3. QED BY <1>5, <2>1, <2>2, DedupInvKept DEF Lose
<1>6. ASSUME cache' = cache, forgot' = forgot, via' = via, dispatched' = dispatched,
             net' = net, drops' = drops
      PROVE  DedupInv'
  <2>1. KeysCounted /\ \A x \in Nodes, k \in Msgs : k \in Range(cache'[x]) => k \in Range(cache[x])
    BY <1>0, <1>6, CacheUnchangedCounts
  <2>2. QED BY <1>6, <2>1, DedupInvKept
<1>7. ASSUME NEW n \in Nodes, NEW t \in tasks[n], HandlerReturns(n, t) PROVE DedupInv'
  BY <1>6, <1>7 DEF HandlerReturns
<1>8. ASSUME NEW n \in Nodes, NEW t \in tasks[n], HandlerRaises(n, t) PROVE DedupInv'
  BY <1>6, <1>8 DEF HandlerRaises
<1>9. ASSUME NEW n \in Nodes, NEW h \in Handlers, AddHandler(n, h) PROVE DedupInv'
  BY <1>6, <1>9 DEF AddHandler
<1>10. ASSUME NEW n \in Nodes, NEW o \in Origins, SetPeer(n, o) PROVE DedupInv'
  BY <1>6, <1>10 DEF SetPeer
<1>11. ASSUME NEW n \in Nodes, NEW ty \in Types, SetCapability(n, ty) PROVE DedupInv'
  BY <1>6, <1>11 DEF SetCapability
<1>12. ASSUME NEW n \in Nodes, PurgeMessages(n) PROVE DedupInv'
  <2>1. KeysCounted /\ \A x \in Nodes, k \in Msgs : k \in Range(cache'[x]) => k \in Range(cache[x])
    BY <1>0, <1>12, ForgetAllCounts DEF PurgeMessages
  <2>2. QED BY <1>12, <2>1, DedupInvKept DEF PurgeMessages
<1>13. ASSUME NEW n \in Nodes, Restart(n) PROVE DedupInv'
  <2>1. KeysCounted /\ \A x \in Nodes, k \in Msgs : k \in Range(cache'[x]) => k \in Range(cache[x])
    BY <1>0, <1>13, ForgetAllCounts DEF Restart
  <2>2. QED BY <1>13, <2>1, DedupInvKept DEF Restart
<1>14. CASE UNCHANGED vars
  BY <1>6, <1>14 DEF vars
<1>15. QED
  BY <1>1, <1>2, <1>3, <1>4, <1>5, <1>7, <1>8, <1>9, <1>10, <1>11, <1>12, <1>13, <1>14
  DEF Next

LEMMA DedupInvariant == Spec => []DedupInv
<1>1. Init => DedupInv
  BY InitDedupInv
<1>2. QED BY <1>1, TypeCorrect, NextDedupInv, PTL DEF Spec

\* Repeats are idempotent for any number of nodes, messages, copies and any
\* window: a message is dispatched again only after its key has been forgotten.
THEOREM AtMostOnce == Spec => []AtMostOncePerMemory
<1>1. DedupInv => AtMostOncePerMemory
  BY DEF DedupInv
<1>2. QED BY <1>1, DedupInvariant, PTL

\* Deduplication never hides a message its node has neither sent nor dispatched.
THEOREM NeverFalselyDuplicate == Spec => []NoFalseDuplicate
<1>1. DedupInv => NoFalseDuplicate
  BY DEF DedupInv
<1>2. QED BY <1>1, DedupInvariant, PTL

\* A node that still holds the key of what it sent ignores its own loopback.
THEOREM OwnLoopbackIgnored == Spec => []LoopbackIgnored
<1>1. DedupInv => LoopbackIgnored
  BY DEF DedupInv
<1>2. QED BY <1>1, DedupInvariant, PTL

-----------------------------------------------------------------------------
(* Repetition.  As long as a node has neither dispatched a message nor     *)
(* refused it by policy or capability, every copy sent to it is under way  *)
(* or lost: no other outcome is possible for a copy it can read, since     *)
(* NoFalseDuplicate rules out a duplicate.                                 *)

Refused(n, m) == {<<"policy", m>>, <<"capability", m>>} \cap drops[n] # {}

CopiesCounted ==
    /\ \A n \in Nodes, m \in Msgs : via[m] = NoNode => lost[n][m] = 0
    /\ \A n \in Nodes, m \in Msgs :
         Readable(n, m) /\ via[m] # n /\ dispatched[n][m] = 0 /\ ~ Refused(n, m) =>
             net[n][m] + lost[n][m] = Repeat

LEMMA InitCopiesCounted == Init => CopiesCounted
  BY EngineAssumptions DEF Init, CopiesCounted, Readable, PerMsg

\* A step that moves no copy, transmits, dispatches and drops nothing.
LEMMA CopiesCountedKept ==
    ASSUME CopiesCounted, net' = net, lost' = lost, via' = via,
           dispatched' = dispatched, drops' = drops
    PROVE  CopiesCounted'
  BY DEF CopiesCounted, Readable, Refused

\* Transmission puts Repeat copies on the way to every node, and none is lost yet.
LEMMA TransmitCopiesCounted ==
    ASSUME DedupInv, TypeOK', CopiesCounted, NEW n \in Nodes, NEW m \in Msgs,
           Transmit(n, m), lost' = lost, drops' = drops,
           \A x \in Nodes, k \in Msgs : x # n \/ k # m => dispatched'[x][k] = dispatched[x][k]
    PROVE  CopiesCounted'
<1>1. TypeOK /\ Untransmitted
  BY DEF DedupInv
<1>2. Repeat \in Nat /\ NoNode \notin Nodes
  BY EngineAssumptions
<1>3. /\ via[m] = NoNode /\ via'[m] = n
      /\ \A k \in Msgs \ {m} : via'[k] = via[k]
  BY <1>1 DEF Transmit, TypeOK
<1>4. \A x \in Nodes, k \in Msgs :
        net'[x][k] = IF k = m THEN net[x][k] + Repeat ELSE net[x][k]
  <2>1. net \in [Nodes -> [Msgs -> Nat]]
    BY <1>1 DEF TypeOK
  <2>2. net' = [d \in Nodes |-> [net[d] EXCEPT ![m] = @ + Repeat]]
    BY DEF Transmit
  <2>3. QED BY <2>1, <2>2
<1>5. \A x \in Nodes : net[x][m] = 0 /\ lost[x][m] = 0
  BY <1>1, <1>3 DEF Untransmitted, CopiesCounted
<1>6. ASSUME NEW x \in Nodes, NEW k \in Msgs
      PROVE  /\ via'[k] = NoNode => lost'[x][k] = 0
             /\ Readable(x, k)' /\ via'[k] # x /\ dispatched'[x][k] = 0 /\ ~ Refused(x, k)' =>
                   net'[x][k] + lost'[x][k] = Repeat
  <2>1. CASE k = m
    BY <1>2, <1>3, <1>4, <1>5, <2>1
  <2>2. CASE k # m
    <3>1. via'[k] = via[k] /\ net'[x][k] = net[x][k] /\ dispatched'[x][k] = dispatched[x][k]
      BY <1>3, <1>4, <2>2
    <3>2. QED BY <3>1 DEF CopiesCounted, Readable, Refused
  <2>3. QED BY <2>1, <2>2
<1>7. QED BY <1>6 DEF CopiesCounted

\* A copy arrives: it is accepted, refused for a reason, or lost.
LEMMA ArrivalCopiesCounted ==
    ASSUME DedupInv, TypeOK', CopiesCounted, NEW n \in Nodes, NEW m \in Msgs,
           Reject(n, m) \/ Accept(n, m) \/ Lose(n, m)
    PROVE  CopiesCounted'
<1>1. TypeOK /\ Untransmitted /\ NoFalseDuplicate
  BY DEF DedupInv
<1>2. via' = via /\ Arrives(n, m)
  BY DEF Reject, Accept, Lose, historyVars
<1>3. \A x \in Nodes, k \in Msgs :
        /\ net[x][k] \in Nat /\ lost[x][k] \in Nat /\ dispatched[x][k] \in Nat
        /\ net'[x][k] = IF x = n /\ k = m THEN net[x][k] - 1 ELSE net[x][k]
  <2>1. /\ net \in [Nodes -> [Msgs -> Nat]]
        /\ lost \in [Nodes -> [Msgs -> Nat]]
        /\ dispatched \in [Nodes -> [Msgs -> Nat]]
    BY <1>1 DEF TypeOK
  <2>2. net' = [net EXCEPT ![n][m] = @ - 1]
    BY <1>2 DEF Arrives
  <2>3. QED BY <2>1, <2>2
<1>4. net[n][m] > 0 /\ via[m] # NoNode
  BY <1>1, <1>2 DEF Arrives, Untransmitted
<1>5. \A x \in Nodes, k \in Msgs : x # n \/ k # m =>
        /\ lost'[x][k] = lost[x][k]
        /\ dispatched'[x][k] = dispatched[x][k]
        /\ Refused(x, k) => Refused(x, k)'
  <2>1. CASE Reject(n, m)
    <3>1. lost' = lost /\ dispatched' = dispatched
      BY <2>1 DEF Reject
    <3>2. PICK i \in DOMAIN Stages : drops' = [drops EXCEPT ![n] = @ \cup {<<Stages[i], m>>}]
      BY <2>1 DEF Reject
    <3>3. DOMAIN drops = Nodes
      BY <1>1 DEF TypeOK
    <3>4. \A x \in Nodes : drops[x] \subseteq drops'[x]
      BY <3>2, <3>3
    <3>5. ASSUME NEW x \in Nodes, NEW k \in Msgs, Refused(x, k) PROVE Refused(x, k)'
      <4> DEFINE S == {<<"policy", k>>, <<"capability", k>>}
      <4>1. S \cap drops[x] # {} /\ drops[x] \subseteq drops'[x]
        BY <3>4, <3>5 DEF Refused
      <4> HIDE DEF S
      <4>2. S \cap drops'[x] # {}
        BY <4>1
      <4>3. QED BY <4>2 DEF Refused, S
    <3>6. QED BY <3>1, <3>5
  <2>2. CASE Accept(n, m)
    <3>1. dispatched \in [Nodes -> [Msgs -> Nat]] /\ dispatched' = [dispatched EXCEPT ![n][m] = @ + 1]
      BY <1>1, <2>2 DEF Accept, Dispatch, TypeOK
    <3>2. \A x \in Nodes, k \in Msgs : x # n \/ k # m => dispatched'[x][k] = dispatched[x][k]
      BY <3>1
    <3>3. lost' = lost /\ drops' = drops
      BY <2>2 DEF Accept
    <3>4. QED BY <3>2, <3>3 DEF Refused
  <2>3. CASE Lose(n, m)
    <3>1. lost \in [Nodes -> [Msgs -> Nat]] /\ lost' = [lost EXCEPT ![n][m] = @ + 1]
      BY <1>1, <2>3 DEF Lose, TypeOK
    <3>2. dispatched' = dispatched /\ drops' = drops
      BY <2>3 DEF Lose, historyVars
    <3>3. QED BY <3>1, <3>2 DEF Refused
  <2>4. QED BY <2>1, <2>2, <2>3
<1>6. ASSUME Readable(n, m), via[m] # n, dispatched'[n][m] = 0, ~ Refused(n, m)'
      PROVE  net'[n][m] + lost'[n][m] = Repeat
  <2>1. CASE Reject(n, m)
    <3>1. PICK i \in DOMAIN Stages : /\ FailsAt(n, m, i)
                                     /\ drops' = [drops EXCEPT ![n] = @ \cup {<<Stages[i], m>>}]
      BY <2>1 DEF Reject
    <3>2. Stages[i] \in {"policy", "capability"}
      <4>1. Stages[i] \in {"security", "codec", "policy", "capability", "duplicate"}
        BY DEF Stages
      <4>2. Fails(n, m)[Stages[i]]
        BY <3>1 DEF FailsAt
      <4>3. /\ Fails(n, m)["security"] = (Key[via[m]] # Key[n])
            /\ Fails(n, m)["codec"] = (CodecOf[via[m]] # CodecOf[n])
            /\ Fails(n, m)["duplicate"] = (m \in Range(cache[n]))
        BY DEF Fails
      <4>4. Key[via[m]] = Key[n] /\ CodecOf[via[m]] = CodecOf[n]
        BY <1>6 DEF Readable
      <4>5. m \notin Range(cache[n])
        <5>1. dispatched[n][m] = 0
          BY <1>6, <2>1 DEF Reject
        <5>2. ~ (dispatched[n][m] > 0)
          BY <5>1
        <5>3. QED BY <1>1, <1>6, <5>2, Zenon DEF NoFalseDuplicate
      <4>6. QED BY <4>1, <4>2, <4>3, <4>4, <4>5, Zenon
    <3>3. <<Stages[i], m>> \in drops'[n]
      BY <1>1, <3>1 DEF TypeOK
    <3>4. Refused(n, m)'
      BY <3>2, <3>3 DEF Refused
    <3>5. QED BY <1>6, <3>4
  <2>2. CASE Accept(n, m)
    <3>1. dispatched \in [Nodes -> [Msgs -> Nat]] /\ dispatched' = [dispatched EXCEPT ![n][m] = @ + 1]
      BY <1>1, <2>2 DEF Accept, Dispatch, TypeOK
    <3>2. dispatched'[n][m] = dispatched[n][m] + 1
      BY <3>1
    <3>3. QED BY <1>3, <1>6, <3>2
  <2>3. CASE Lose(n, m)
    <3>1. dispatched' = dispatched /\ drops' = drops
      BY <2>3 DEF Lose, historyVars
    <3>2. net[n][m] + lost[n][m] = Repeat
      BY <1>6, <3>1 DEF CopiesCounted, Refused
    <3>3. lost'[n][m] = lost[n][m] + 1
      BY <1>1, <2>3 DEF Lose, TypeOK
    <3>4. QED BY <1>3, <3>2, <3>3
  <2>4. QED BY <2>1, <2>2, <2>3
<1>7. ASSUME NEW x \in Nodes, NEW k \in Msgs
      PROVE  /\ via'[k] = NoNode => lost'[x][k] = 0
             /\ Readable(x, k)' /\ via'[k] # x /\ dispatched'[x][k] = 0 /\ ~ Refused(x, k)' =>
                   net'[x][k] + lost'[x][k] = Repeat
  <2>1. Readable(x, k)' = Readable(x, k)
    BY <1>2 DEF Readable
  <2>2. CASE x = n /\ k = m
    BY <1>2, <1>4, <1>6, <2>1, <2>2
  <2>3. CASE ~ (x = n /\ k = m)
    <3>1. net'[x][k] = net[x][k]
      BY <1>3, <2>3
    <3>2. QED BY <1>2, <1>5, <2>1, <2>3, <3>1 DEF CopiesCounted
  <2>4. QED BY <2>2, <2>3
<1>8. QED BY <1>7 DEF CopiesCounted

LEMMA NextCopiesCounted == DedupInv /\ TypeOK' /\ CopiesCounted /\ [Next]_vars => CopiesCounted'
<1> SUFFICES ASSUME DedupInv, TypeOK', CopiesCounted, [Next]_vars PROVE CopiesCounted'
  OBVIOUS
<1> USE DEF wireVars, policyVars, historyVars
<1>1. ASSUME NEW n \in Nodes, NEW m \in Msgs, Publish(n, m) PROVE CopiesCounted'
  BY <1>1, TransmitCopiesCounted DEF Publish
<1>2. ASSUME NEW n \in Nodes, NEW m \in Msgs, IngestFromBridge(n, m) PROVE CopiesCounted'
  <2>1. dispatched \in [Nodes -> [Msgs -> Nat]] /\ dispatched' = [dispatched EXCEPT ![n][m] = @ + 1]
    BY <1>2 DEF IngestFromBridge, Dispatch, DedupInv, TypeOK
  <2>2. \A x \in Nodes, k \in Msgs : x # n \/ k # m => dispatched'[x][k] = dispatched[x][k]
    BY <2>1
  <2>3. Transmit(n, m) /\ lost' = lost /\ drops' = drops
    BY <1>2 DEF IngestFromBridge
  <2>4. QED BY <2>2, <2>3, TransmitCopiesCounted
<1>3. ASSUME NEW n \in Nodes, NEW m \in Msgs, Reject(n, m) \/ Accept(n, m) \/ Lose(n, m)
      PROVE  CopiesCounted'
  BY <1>3, ArrivalCopiesCounted
<1>4. ASSUME NEW n \in Nodes, NEW t \in tasks[n], HandlerReturns(n, t) \/ HandlerRaises(n, t)
      PROVE  CopiesCounted'
  BY <1>4, CopiesCountedKept DEF HandlerReturns, HandlerRaises
<1>5. ASSUME NEW n \in Nodes,
             \/ \E h \in Handlers : AddHandler(n, h)
             \/ \E o \in Origins : SetPeer(n, o)
             \/ \E ty \in Types : SetCapability(n, ty)
      PROVE  CopiesCounted'
  BY <1>5, CopiesCountedKept DEF AddHandler, SetPeer, SetCapability
<1>6. ASSUME NEW n \in Nodes, PurgeMessages(n) \/ Restart(n) PROVE CopiesCounted'
  BY <1>6, CopiesCountedKept DEF PurgeMessages, Restart
<1>7. CASE UNCHANGED vars
  BY <1>7, CopiesCountedKept DEF vars
<1>8. QED BY <1>1, <1>2, <1>3, <1>4, <1>5, <1>6, <1>7 DEF Next

\* Message repetition for any number of nodes, copies and losses: a node that
\* can read a message and loses fewer than Repeat copies has dispatched or
\* refused it by the time the last copy is gone, whatever is purged, edited or
\* restarted meanwhile.
THEOREM RepetitionSuffices == Spec => []RepetitionDelivers
<1>1. TypeOK /\ CopiesCounted => RepetitionDelivers
  <2> SUFFICES ASSUME TypeOK, CopiesCounted, NEW n \in Nodes, NEW m \in Msgs,
                      Readable(n, m), via[m] # n, net[n][m] = 0, lost[n][m] < Repeat
               PROVE  dispatched[n][m] > 0 \/ Refused(n, m)
    BY DEF RepetitionDelivers, Refused
  <2>1. Repeat \in Nat /\ lost[n][m] \in Nat /\ dispatched[n][m] \in Nat
    BY EngineAssumptions DEF TypeOK
  <2>2. ~ (dispatched[n][m] = 0 /\ ~ Refused(n, m))
    BY <2>1 DEF CopiesCounted
  <2>3. QED BY <2>1, <2>2
<1>2. Spec => []CopiesCounted
  BY InitCopiesCounted, NextCopiesCounted, DedupInvariant, TypeCorrect, PTL DEF Spec
<1>3. QED BY <1>1, <1>2, TypeCorrect, PTL

-----------------------------------------------------------------------------
(* The dispatch loop.  A handler counts as uncalled by a task until the    *)
(* loop has passed it, also while it is not registered: a handler that is  *)
(* added late meets only the dispatches that have not called it before.    *)
(* The initial handlers stay the head of the list, so what the tasks ahead *)
(* of one of them will do is settled by its index.                         *)

Uncalled(n, m, h) ==
    {t \in tasks[n] : t.msg = m /\ \A i \in 1 .. (t.next - 1) : handlers[n][i] # h}

Before(n, m, p) == {t \in tasks[n] : t.msg = m /\ t.next <= p}

\* An initial handler with no faulty one up to it, subscribed to the message.
Reliable(m, p) ==
    /\ Type[m] \in Subs[InitHandlers[p]]
    /\ \A j \in 1 .. p : InitHandlers[j] \notin Faulty

\* No two tasks are the same dispatch.
RunsAt(n) ==
    /\ IsFiniteSet(tasks[n])
    /\ \A t \in tasks[n] : t.run <= dispatched[n][t.msg]
    /\ \A t, u \in tasks[n] : t.msg = u.msg /\ t.run = u.run => t = u

CalledAt(n) ==
    \A m \in Msgs, h \in Handlers :
        handled[n][h][m] + Cardinality(Uncalled(n, m, h)) <= dispatched[n][m]

HeadKeptAt(n) ==
    /\ Len(InitHandlers) <= Len(handlers[n])
    /\ \A i \in 1 .. Len(InitHandlers) : handlers[n][i] = InitHandlers[i]

ServedAt(n) ==
    \A m \in Msgs, p \in 1 .. Len(InitHandlers) :
        Reliable(m, p) =>
            handled[n][InitHandlers[p]][m] + Cardinality(Before(n, m, p)) >= dispatched[n][m]

LoopAt(n) ==
    /\ Distinct(handlers[n])
    /\ RunsAt(n)
    /\ CalledAt(n)
    /\ n \notin restarted => HeadKeptAt(n) /\ ServedAt(n)

LoopInv == \A n \in Nodes : LoopAt(n)

\* The parts of a finite set are finite and no larger.
LEMMA PartSize ==
    ASSUME NEW T, IsFiniteSet(T), NEW S, S \subseteq T
    PROVE  /\ IsFiniteSet(S)
           /\ Cardinality(S) <= Cardinality(T)
           /\ Cardinality(S) \in Nat
           /\ Cardinality(T) \in Nat
  BY FS_Subset, FS_CardinalityType

\* The initial handlers are distinct, and what is subscribed is a handler.
LEMMA InitHandlersFacts ==
    /\ Len(InitHandlers) \in Nat
    /\ Distinct(InitHandlers)
    /\ \A p \in 1 .. Len(InitHandlers) : InitHandlers[p] \in Handlers
<1>1. InitHandlers \in Seq(Handlers) /\ IsInjective(InitHandlers)
  BY EngineAssumptions
<1>2. DOMAIN InitHandlers = 1 .. Len(InitHandlers) /\ Len(InitHandlers) \in Nat
  BY <1>1, LenProperties
<1>3. \A p \in 1 .. Len(InitHandlers) : InitHandlers[p] \in Handlers
  BY <1>1, <1>2, ElementOfSeq
<1>4. QED BY <1>1, <1>2, <1>3 DEF IsInjective, Distinct

\* A running task is at an index of the list and has one of its handlers ahead.
LEMMA TaskFacts ==
    ASSUME TypeInv, NEW n \in Nodes, NEW t \in tasks[n]
    PROVE  /\ t \in Task
           /\ t.msg \in Msgs /\ t.run \in Nat \ {0} /\ t.next \in Nat \ {0}
           /\ handlers[n] \in Seq(Handlers) /\ Len(handlers[n]) \in Nat
           /\ FirstPending(n, t) \in t.next .. Len(handlers[n])
           /\ Type[t.msg] \in Subs[handlers[n][FirstPending(n, t)]]
           /\ \A j \in Pending(n, t) : FirstPending(n, t) <= j
<1>1. t \in Task /\ Pending(n, t) # {} /\ TypeOK
  BY DEF TypeInv, TypeOK, TasksPending
<1>2. t.msg \in Msgs /\ t.run \in Nat \ {0} /\ t.next \in Nat \ {0}
  BY <1>1 DEF Task
<1>3. handlers[n] \in Seq(Handlers) /\ Len(handlers[n]) \in Nat
  BY <1>1, LenProperties DEF TypeOK
<1>4. FirstPending(n, t) \in Pending(n, t)
  BY <1>1, FirstPendingInList
<1>5. \A j \in Pending(n, t) : FirstPending(n, t) <= j
  BY <1>1, FirstPendingInList
<1>6. QED BY <1>1, <1>2, <1>3, <1>4, <1>5 DEF Pending

LEMMA LoopAtKept ==
    ASSUME NEW n \in Nodes, LoopAt(n),
           tasks'[n] = tasks[n], handlers'[n] = handlers[n], handled'[n] = handled[n],
           dispatched'[n] = dispatched[n], n \in restarted => n \in restarted'
    PROVE  LoopAt(n)'
<1>1. \A m, h : Uncalled(n, m, h)' = Uncalled(n, m, h)
  BY DEF Uncalled
<1>2. \A m, p : Before(n, m, p)' = Before(n, m, p)
  BY DEF Before
<1>3. Distinct(handlers[n])' /\ RunsAt(n)'
  BY DEF LoopAt, RunsAt, Distinct
<1>4. CalledAt(n)'
  BY <1>1 DEF LoopAt, CalledAt
<1>5. n \notin restarted' => HeadKeptAt(n)' /\ ServedAt(n)'
  BY <1>2 DEF LoopAt, HeadKeptAt, ServedAt, Reliable
<1>6. QED BY <1>3, <1>4, <1>5 DEF LoopAt

\* A dispatch starts: one task more, of a run that no other task has.
LEMMA DispatchLoopAt ==
    ASSUME TypeInv, NEW n \in Nodes, NEW m \in Msgs, LoopAt(n), Dispatch(n, m),
           handlers' = handlers, handled' = handled, restarted' = restarted
    PROVE  LoopAt(n)'
<1> DEFINE t == [msg |-> m, run |-> dispatched[n][m] + 1, next |-> 1]
<1>1. /\ tasks'[n] = tasks[n] \cup Remaining(n, t)
      /\ dispatched'[n][m] = dispatched[n][m] + 1
      /\ \A k \in Msgs \ {m} : dispatched'[n][k] = dispatched[n][k]
      /\ \A k \in Msgs : dispatched[n][k] \in Nat
      /\ \A h \in Handlers, k \in Msgs : handled[n][h][k] \in Nat
  BY DEF Dispatch, TypeInv, TypeOK
<1>2. /\ \A v \in tasks[n] : /\ v.msg \in Msgs /\ v.run \in Nat
                             /\ v.next \in Nat \ {0}
                             /\ v.run <= dispatched[n][v.msg]
      /\ IsFiniteSet(tasks[n])
  BY TaskFacts DEF LoopAt, RunsAt
<1>3. t.msg = m /\ t.run = dispatched[n][m] + 1 /\ t.next = 1
  OBVIOUS
<1>4. t \notin tasks[n]
  BY <1>1, <1>2, <1>3
<1>5. Remaining(n, t) = {} \/ Remaining(n, t) = {t}
  BY DEF Remaining
<1>10. Len(handlers[n]) \in Nat
  BY LenProperties DEF TypeInv, TypeOK
<1> HIDE DEF t
<1>6. RunsAt(n)'
  <2>1. IsFiniteSet(tasks'[n])
    <3>1. IsFiniteSet(tasks[n] \cup {t})
      BY <1>2, FS_AddElement
    <3>2. tasks'[n] = tasks[n] \/ tasks'[n] = tasks[n] \cup {t}
      BY <1>1, <1>5
    <3>3. QED BY <1>2, <3>1, <3>2
  <2>2. \A v \in tasks'[n] : v \in tasks[n] \/ v = t
    BY <1>1, <1>5
  <2>3. ASSUME NEW v \in tasks'[n] PROVE v.run <= dispatched'[n][v.msg]
    BY <1>1, <1>2, <1>3, <2>2
  <2>4. ASSUME NEW v \in tasks'[n], NEW w \in tasks'[n], v.msg = w.msg, v.run = w.run
        PROVE  v = w
    <3>1. CASE v \in tasks[n] /\ w \in tasks[n]
      BY <2>4, <3>1 DEF LoopAt, RunsAt
    <3>2. \A z \in tasks[n] : ~ (z.msg = m /\ z.run = dispatched[n][m] + 1)
      BY <1>1, <1>2
    <3>3. QED BY <1>3, <2>2, <2>4, <3>1, <3>2
  <2>5. QED BY <2>1, <2>3, <2>4 DEF RunsAt
<1>7. CalledAt(n)'
  <2> SUFFICES ASSUME NEW k \in Msgs, NEW h \in Handlers
               PROVE  handled[n][h][k] + Cardinality(Uncalled(n, k, h)') <= dispatched'[n][k]
    BY DEF CalledAt
  <2> DEFINE old == Uncalled(n, k, h)
             new == Uncalled(n, k, h)'
  <2>1. IsFiniteSet(old) /\ Cardinality(old) \in Nat
    BY <1>2, PartSize DEF Uncalled
  <2>2. handled[n][h][k] + Cardinality(old) <= dispatched[n][k]
    BY DEF LoopAt, CalledAt
  <2>3. new \subseteq old \cup {t}
    BY <1>1, <1>5 DEF Uncalled
  <2>4. k # m => new \subseteq old
    BY <1>1, <1>3, <1>5 DEF Uncalled
  <2> HIDE DEF old, new
  <2>5. /\ Cardinality(new) \in Nat
        /\ Cardinality(new) <= Cardinality(old) + 1
        /\ k # m => Cardinality(new) <= Cardinality(old)
    <3>1. /\ IsFiniteSet(old \cup {t})
          /\ Cardinality(old \cup {t}) <= Cardinality(old) + 1
          /\ Cardinality(old \cup {t}) \in Nat
      BY <2>1, AddAtMostOne
    <3>2. Cardinality(new) \in Nat /\ Cardinality(new) <= Cardinality(old \cup {t})
      BY <2>3, <3>1, PartSize
    <3>3. k # m => Cardinality(new) <= Cardinality(old)
      BY <2>1, <2>4, PartSize
    <3>4. QED BY <2>1, <3>1, <3>2, <3>3
  <2>6. handled[n][h][k] + Cardinality(new) <= dispatched'[n][k]
    BY <1>1, <2>1, <2>2, <2>5
  <2>7. QED BY <2>6 DEF new
<1>8. ASSUME n \notin restarted PROVE HeadKeptAt(n)' /\ ServedAt(n)'
  <2>1. HeadKeptAt(n) /\ HeadKeptAt(n)' /\ ServedAt(n)
    BY <1>8 DEF LoopAt, HeadKeptAt
  <2>2. ASSUME NEW k \in Msgs, NEW p \in 1 .. Len(InitHandlers), Reliable(k, p)
        PROVE  handled[n][InitHandlers[p]][k] + Cardinality(Before(n, k, p)') >= dispatched'[n][k]
    <3> DEFINE old == Before(n, k, p)
               new == Before(n, k, p)'
               calls == handled[n][InitHandlers[p]][k]
    <3>1. IsFiniteSet(old) /\ Cardinality(old) \in Nat
      BY <1>2, PartSize DEF Before
    <3>2. calls + Cardinality(old) >= dispatched[n][k]
      BY <2>1, <2>2 DEF ServedAt
    <3>3. calls \in Nat
      BY <1>1, InitHandlersFacts
    <3>4. CASE k = m
      <4>1. p \in Pending(n, t)
        BY <1>3, <2>1, <2>2, <3>4, InitHandlersFacts, <1>10
        DEF Pending, HeadKeptAt, Reliable
      <4>2. tasks'[n] = tasks[n] \cup {t}
        BY <1>1, <4>1 DEF Remaining
      <4>3. new = old \cup {t} /\ t \notin old
        BY <1>3, <1>4, <3>4, <4>2, InitHandlersFacts DEF Before
      <4> HIDE DEF old, new, calls
      <4>4. Cardinality(new) = Cardinality(old) + 1
        BY <3>1, <4>3, FS_AddElement
      <4>5. calls + Cardinality(new) >= dispatched'[n][k]
        BY <1>1, <3>1, <3>2, <3>3, <3>4, <4>4
      <4>6. QED BY <4>5 DEF new, calls
    <3>5. CASE k # m
      <4>1. new = old
        BY <1>1, <1>3, <1>5, <3>5 DEF Before
      <4>2. dispatched'[n][k] = dispatched[n][k]
        BY <1>1, <3>5
      <4>3. QED BY <3>2, <4>1, <4>2
    <3>6. QED BY <3>4, <3>5
  <2>3. ServedAt(n)'
    BY <2>2 DEF ServedAt, Reliable
  <2>4. QED BY <2>1, <2>3
<1>9. QED BY <1>6, <1>7, <1>8 DEF LoopAt
\* Tasks that go leave the rest of the loop as it is; what they had ahead of
\* them is lost for the reliable handlers only if it was nothing.
LEMMA FewerTasksLoopAt ==
    ASSUME TypeInv, NEW n \in Nodes, LoopAt(n), tasks'[n] \subseteq tasks[n],
           handlers'[n] = handlers[n], handled' = handled, dispatched' = dispatched,
           n \notin restarted' =>
               /\ n \notin restarted
               /\ \A m \in Msgs, p \in 1 .. Len(InitHandlers) :
                    Reliable(m, p) => Before(n, m, p)' = Before(n, m, p)
    PROVE  LoopAt(n)'
<1>1. /\ IsFiniteSet(tasks[n])
      /\ \A m \in Msgs : dispatched[n][m] \in Nat
      /\ \A m \in Msgs, h \in Handlers : handled[n][h][m] \in Nat
  BY DEF LoopAt, RunsAt, TypeInv, TypeOK
<1>2. Distinct(handlers[n])'
  BY DEF LoopAt, Distinct
<1>3. RunsAt(n)'
  <2>1. IsFiniteSet(tasks'[n])
    BY <1>1, PartSize
  <2>2. QED BY <2>1 DEF LoopAt, RunsAt
<1>4. CalledAt(n)'
  <2> SUFFICES ASSUME NEW m \in Msgs, NEW h \in Handlers
               PROVE  handled[n][h][m] + Cardinality(Uncalled(n, m, h)') <= dispatched[n][m]
    BY DEF CalledAt
  <2>1. Uncalled(n, m, h)' \subseteq Uncalled(n, m, h) /\ Uncalled(n, m, h) \subseteq tasks[n]
    BY DEF Uncalled
  <2>2. IsFiniteSet(Uncalled(n, m, h))
    BY <1>1, <2>1, PartSize
  <2>3. /\ Cardinality(Uncalled(n, m, h)') <= Cardinality(Uncalled(n, m, h))
        /\ Cardinality(Uncalled(n, m, h)') \in Nat
        /\ Cardinality(Uncalled(n, m, h)) \in Nat
    BY <2>1, <2>2, PartSize
  <2>4. handled[n][h][m] + Cardinality(Uncalled(n, m, h)) <= dispatched[n][m]
    BY DEF LoopAt, CalledAt
  <2>5. QED BY <1>1, <2>3, <2>4
<1>5. n \notin restarted' => HeadKeptAt(n)' /\ ServedAt(n)'
  BY DEF LoopAt, HeadKeptAt, ServedAt, Reliable
<1>6. QED BY <1>2, <1>3, <1>4, <1>5 DEF LoopAt

\* The reliable handlers are called in their turn: a task that has not passed
\* one stops at its index or at an earlier one.
LEMMA ReliableAhead ==
    ASSUME TypeInv, NEW n \in Nodes, NEW t \in tasks[n], HeadKeptAt(n),
           NEW p \in 1 .. Len(InitHandlers), Reliable(t.msg, p), t.next <= p
    PROVE  /\ p \in Pending(n, t)
           /\ FirstPending(n, t) <= p
           /\ handlers[n][FirstPending(n, t)] \notin Faulty
           /\ handlers[n][p] = InitHandlers[p]
<1>1. /\ Len(InitHandlers) \in Nat /\ Len(handlers[n]) \in Nat /\ t.next \in Nat \ {0}
      /\ FirstPending(n, t) \in t.next .. Len(handlers[n])
      /\ \A j \in Pending(n, t) : FirstPending(n, t) <= j
  BY TaskFacts, InitHandlersFacts
<1>2. p \in t.next .. Len(handlers[n]) /\ handlers[n][p] = InitHandlers[p]
  BY <1>1 DEF HeadKeptAt
<1>3. p \in Pending(n, t)
  BY <1>2 DEF Pending, Reliable
<1>4. FirstPending(n, t) \in 1 .. p
  BY <1>1, <1>3
<1>5. FirstPending(n, t) \in 1 .. Len(InitHandlers)
  BY <1>1, <1>4
<1>6. handlers[n][FirstPending(n, t)] = InitHandlers[FirstPending(n, t)]
  BY <1>5 DEF HeadKeptAt
<1>7. InitHandlers[FirstPending(n, t)] \notin Faulty
  BY <1>4 DEF Reliable
<1>8. QED BY <1>2, <1>3, <1>4, <1>6, <1>7

\* A task dies of an exception: it had no reliable handler ahead of it.
LEMMA RaiseLoopAt ==
    ASSUME TypeInv, NEW n \in Nodes, NEW t \in tasks[n], LoopAt(n), HandlerRaises(n, t)
    PROVE  LoopAt(n)'
<1>1. /\ tasks'[n] = tasks[n] \ {t}
      /\ handlers' = handlers /\ handled' = handled
      /\ dispatched' = dispatched /\ restarted' = restarted
      /\ handlers[n][FirstPending(n, t)] \in Faulty
  BY DEF HandlerRaises, historyVars, TypeInv, TypeOK
<1>2. ASSUME n \notin restarted, NEW m \in Msgs, NEW p \in 1 .. Len(InitHandlers), Reliable(m, p)
      PROVE  Before(n, m, p)' = Before(n, m, p)
  <2>1. HeadKeptAt(n)
    BY <1>2 DEF LoopAt
  <2>2. ~ (t.msg = m /\ t.next <= p)
    BY <1>1, <1>2, <2>1, ReliableAhead
  <2>3. QED BY <1>1, <2>2 DEF Before
<1>3. QED BY <1>1, <1>2, FewerTasksLoopAt

\* A handler returns: the task has called it and moves on behind it.
LEMMA ReturnLoopAt ==
    ASSUME TypeInv, NEW n \in Nodes, NEW t \in tasks[n], LoopAt(n), HandlerReturns(n, t)
    PROVE  LoopAt(n)'
<1> DEFINE i == FirstPending(n, t)
           u == [t EXCEPT !.next = i + 1]
           g == handlers[n][i]
<1>1. /\ t \in Task /\ t.msg \in Msgs /\ t.run \in Nat \ {0} /\ t.next \in Nat \ {0}
      /\ handlers[n] \in Seq(Handlers) /\ Len(handlers[n]) \in Nat
      /\ i \in t.next .. Len(handlers[n])
      /\ i \in 1 .. Len(handlers[n])
      /\ \A v \in tasks[n] : v.next \in Nat \ {0}
      /\ \A v \in tasks[n] : v.next <= Len(handlers[n])
  BY TaskFacts
<1>2. g \in Handlers
  BY <1>1, ElementOfSeq
<1>3. u.msg = t.msg /\ u.run = t.run /\ u.next = i + 1 /\ u # t
  BY <1>1 DEF Task
<1>4. /\ handled \in [Nodes -> [Handlers -> [Msgs -> Nat]]]
      /\ dispatched \in [Nodes -> [Msgs -> Nat]]
      /\ tasks \in [Nodes -> SUBSET Task]
  BY DEF TypeInv, TypeOK
<1>5. /\ tasks'[n] = (tasks[n] \ {t}) \cup Remaining(n, u)
      /\ handled' = [handled EXCEPT ![n][g][t.msg] = @ + 1]
      /\ handlers' = handlers /\ dispatched' = dispatched /\ restarted' = restarted
  BY <1>4 DEF HandlerReturns
<1>6. \A h \in Handlers, m \in Msgs :
        /\ handled[n][h][m] \in Nat
        /\ handled'[n][h][m] = IF h = g /\ m = t.msg THEN handled[n][h][m] + 1
                                                    ELSE handled[n][h][m]
  <2>1. ASSUME NEW h \in Handlers, NEW m \in Msgs PROVE handled[n][h][m] \in Nat
    BY <1>4
  <2> DEFINE counts == [handled[n][g] EXCEPT ![t.msg] = @ + 1]
             row == [handled[n] EXCEPT ![g] = counts]
  <2>2. handled' = [handled EXCEPT ![n] = row]
    BY <1>5
  <2> HIDE DEF row
  <2>3. handled'[n] = row
    BY <1>4, <2>2
  <2> USE DEF row
  <2> HIDE DEF counts
  <2>4. \A h \in Handlers : handled'[n][h] = IF h = g THEN counts ELSE handled[n][h]
    BY <1>4, <2>3
  <2> USE DEF counts
  <2>5. \A m \in Msgs : counts[m] = IF m = t.msg THEN handled[n][g][m] + 1 ELSE handled[n][g][m]
    BY <1>2, <1>4
  <2> HIDE DEF counts
  <2>6. QED BY <2>1, <2>4, <2>5
<1>7. Remaining(n, u) = {} \/ Remaining(n, u) = {u}
  BY DEF Remaining
<1>8. /\ IsFiniteSet(tasks[n])
      /\ Distinct(handlers[n])
      /\ \A v \in tasks[n] : v.run <= dispatched[n][v.msg]
      /\ \A v, w \in tasks[n] : v.msg = w.msg /\ v.run = w.run => v = w
  BY DEF LoopAt, RunsAt
<1>9. u \notin tasks[n]
  BY <1>3, <1>8
<1>10. \A m \in Msgs : dispatched[n][m] \in Nat
  BY <1>4
<1>11. n \notin restarted => /\ HeadKeptAt(n)
                            /\ \A p \in 1 .. Len(InitHandlers) :
                                 Reliable(t.msg, p) /\ t.next <= p =>
                                    i <= p /\ p \in Pending(n, t) /\ handlers[n][p] = InitHandlers[p]
  BY ReliableAhead DEF LoopAt
<1>12. Pending(n, u) = {j \in (i + 1) .. Len(handlers[n]) : Type[t.msg] \in Subs[handlers[n][j]]}
  BY <1>3 DEF Pending
<1> HIDE DEF i, u, g
<1>13. Distinct(handlers[n])'
  BY <1>5, <1>8
<1>14. RunsAt(n)'
  <2>1. IsFiniteSet(tasks'[n])
    <3>1. IsFiniteSet(tasks[n] \cup {u})
      BY <1>8, FS_AddElement
    <3>2. tasks'[n] \subseteq tasks[n] \cup {u}
      BY <1>5, <1>7
    <3>3. QED BY <3>1, <3>2, PartSize
  <2>2. \A v \in tasks'[n] : v \in tasks[n] \ {t} \/ v = u
    BY <1>5, <1>7
  <2>3. ASSUME NEW v \in tasks'[n] PROVE v.run <= dispatched'[n][v.msg]
    BY <1>3, <1>5, <1>8, <2>2
  <2>4. ASSUME NEW v \in tasks'[n], NEW w \in tasks'[n], v.msg = w.msg, v.run = w.run
        PROVE  v = w
    BY <1>3, <1>8, <2>2, <2>4
  <2>5. QED BY <2>1, <2>3, <2>4 DEF RunsAt
<1>15. CalledAt(n)'
  <2> SUFFICES ASSUME NEW m \in Msgs, NEW h \in Handlers
               PROVE  handled'[n][h][m] + Cardinality(Uncalled(n, m, h)') <= dispatched[n][m]
    BY <1>5 DEF CalledAt
  <2> DEFINE old == Uncalled(n, m, h)
             new == Uncalled(n, m, h)'
  <2>1. IsFiniteSet(old) /\ Cardinality(old) \in Nat
    BY <1>8, PartSize DEF Uncalled
  <2>2. handled[n][h][m] + Cardinality(old) <= dispatched[n][m]
    BY DEF LoopAt, CalledAt
  <2>3. CASE m = t.msg /\ h = g
    <3>1. \A j \in 1 .. (t.next - 1) : handlers[n][j] # h
      BY <1>1, <1>8, <2>3 DEF Distinct, g
    <3>2. t \in old
      BY <2>3, <3>1 DEF Uncalled
    <3>3. u \notin new
      <4>1. i \in 1 .. (u.next - 1) /\ handlers'[n][i] = h
        BY <1>1, <1>3, <1>5, <2>3 DEF g
      <4>2. QED BY <4>1 DEF Uncalled
    <3>4. new \subseteq old \ {t}
      BY <1>5, <1>7, <3>3 DEF Uncalled
    <3> HIDE DEF old, new
    <3>5. Cardinality(old \ {t}) = Cardinality(old) - 1 /\ IsFiniteSet(old \ {t})
      BY <2>1, <3>2, FS_RemoveElement
    <3>6. Cardinality(new) <= Cardinality(old) - 1 /\ Cardinality(new) \in Nat
      BY <3>4, <3>5, PartSize
    <3>7. handled'[n][h][m] + Cardinality(new) <= dispatched[n][m]
      BY <1>6, <1>10, <2>1, <2>2, <2>3, <3>6
    <3>8. QED BY <3>7 DEF new
  <2>4. CASE ~ (m = t.msg /\ h = g)
    <3>1. handled'[n][h][m] = handled[n][h][m]
      BY <1>6, <2>4
    <3>2. u \in new => t \in old
      <4>1. \A j \in 1 .. (t.next - 1) : j \in 1 .. (u.next - 1)
        BY <1>1, <1>3
      <4>2. QED BY <1>3, <1>5, <4>1 DEF Uncalled
    <3>3. new \subseteq (old \ {t}) \cup {u} /\ (u \notin new => new \subseteq old)
      BY <1>5, <1>7 DEF Uncalled
    <3> HIDE DEF old, new
    <3>4. Cardinality(new) \in Nat /\ Cardinality(new) <= Cardinality(old)
      <4>1. CASE u \notin new
        BY <2>1, <3>3, <4>1, PartSize
      <4>2. CASE u \in new
        <5>1. Cardinality(old \ {t}) = Cardinality(old) - 1 /\ IsFiniteSet(old \ {t})
          BY <2>1, <3>2, <4>2, FS_RemoveElement
        <5>2. /\ IsFiniteSet((old \ {t}) \cup {u})
              /\ Cardinality((old \ {t}) \cup {u}) <= Cardinality(old \ {t}) + 1
              /\ Cardinality((old \ {t}) \cup {u}) \in Nat
          BY <5>1, AddAtMostOne
        <5>3. Cardinality(new) \in Nat /\ Cardinality(new) <= Cardinality((old \ {t}) \cup {u})
          BY <3>3, <5>2, PartSize
        <5>4. QED BY <2>1, <5>1, <5>2, <5>3
      <4>3. QED BY <4>1, <4>2
    <3>5. handled'[n][h][m] + Cardinality(new) <= dispatched[n][m]
      BY <1>6, <1>10, <2>1, <2>2, <3>1, <3>4
    <3>6. QED BY <3>5 DEF new
  <2>5. QED BY <2>3, <2>4
<1>16. ASSUME n \notin restarted PROVE HeadKeptAt(n)' /\ ServedAt(n)'
  <2>1. HeadKeptAt(n) /\ HeadKeptAt(n)' /\ ServedAt(n)
    BY <1>5, <1>16 DEF LoopAt, HeadKeptAt
  <2>2. ASSUME NEW m \in Msgs, NEW p \in 1 .. Len(InitHandlers), Reliable(m, p)
        PROVE  handled'[n][InitHandlers[p]][m] + Cardinality(Before(n, m, p)') >= dispatched[n][m]
    <3> DEFINE old == Before(n, m, p)
               new == Before(n, m, p)'
               h == InitHandlers[p]
    <3>1. IsFiniteSet(old) /\ Cardinality(old) \in Nat
      BY <1>8, PartSize DEF Before
    <3>2. handled[n][h][m] + Cardinality(old) >= dispatched[n][m]
      BY <2>1, <2>2 DEF ServedAt
    <3>3. h \in Handlers /\ p \in Nat /\ Len(InitHandlers) \in Nat
      BY InitHandlersFacts
    <3>4. handled[n][h][m] \in Nat /\ handled'[n][h][m] \in Nat
          /\ handled'[n][h][m] >= handled[n][h][m]
      BY <1>6, <3>3
    <3>5. CASE m = t.msg /\ t.next <= p /\ i = p
      <4>1. h = g
        BY <1>11, <1>16, <2>2, <3>5 DEF g
      <4>2. handled'[n][h][m] = handled[n][h][m] + 1
        BY <1>6, <3>3, <3>5, <4>1
      <4>3. new = old \ {t} /\ t \in old
        BY <1>1, <1>3, <1>5, <1>7, <3>3, <3>5 DEF Before
      <4> HIDE DEF old, new, h
      <4>4. Cardinality(new) = Cardinality(old) - 1
        BY <3>1, <4>3, FS_RemoveElement
      <4>5. handled'[n][h][m] + Cardinality(new) >= dispatched[n][m]
        <5> DEFINE calls == handled[n][h][m]
                   ahead == Cardinality(old)
                   due == dispatched[n][m]
        <5>1. calls \in Nat /\ ahead \in Nat /\ due \in Nat /\ calls + ahead >= due
          BY <1>10, <3>1, <3>2, <3>4
        <5>2. handled'[n][h][m] = calls + 1 /\ Cardinality(new) = ahead - 1
          BY <4>2, <4>4
        <5> HIDE DEF calls, ahead, due
        <5>3. (calls + 1) + (ahead - 1) >= due
          BY <5>1
        <5>4. QED BY <5>2, <5>3 DEF due
      <4>6. QED BY <4>5 DEF new, h
    <3>6. CASE m = t.msg /\ t.next <= p /\ i # p
      <4>1. p \in (i + 1) .. Len(handlers[n]) /\ Type[t.msg] \in Subs[handlers[n][p]]
        BY <1>1, <1>11, <1>16, <2>2, <3>3, <3>6 DEF Pending
      <4>2. Remaining(n, u) = {u}
        BY <1>12, <4>1 DEF Remaining
      <4>3. new = (old \ {t}) \cup {u} /\ t \in old /\ u \notin old \ {t}
        BY <1>1, <1>3, <1>5, <1>9, <3>3, <3>6, <4>1, <4>2 DEF Before
      <4> HIDE DEF old, new, h
      <4>4. Cardinality(old \ {t}) = Cardinality(old) - 1 /\ IsFiniteSet(old \ {t})
        BY <3>1, <4>3, FS_RemoveElement
      <4>5. Cardinality(new) = Cardinality(old)
        <5>1. Cardinality((old \ {t}) \cup {u}) = Cardinality(old \ {t}) + 1
          BY <4>3, <4>4, FS_AddElement
        <5>2. QED BY <3>1, <4>3, <4>4, <5>1
      <4>6. handled'[n][h][m] + Cardinality(new) >= dispatched[n][m]
        BY <1>10, <3>1, <3>2, <3>4, <4>5, SMTT(30)
      <4>7. QED BY <4>6 DEF new, h
    <3>7. CASE ~ (m = t.msg /\ t.next <= p)
      <4>1. t \notin old
        BY <3>7 DEF Before
      <4>2. u \notin new
        BY <1>1, <1>3, <3>3, <3>7 DEF Before
      <4>3. new = old
        BY <1>5, <1>7, <4>1, <4>2 DEF Before
      <4>4. QED BY <1>10, <3>1, <3>2, <3>4, <4>3, SMTT(30)
    <3>8. QED BY <3>5, <3>6, <3>7
  <2>3. ServedAt(n)'
    BY <1>5, <2>2 DEF ServedAt, Reliable
  <2>4. QED BY <2>1, <2>3
<1>17. QED BY <1>5, <1>13, <1>14, <1>15, <1>16 DEF LoopAt

\* A handler is registered late: no running task has passed it.
LEMMA AddHandlerLoopAt ==
    ASSUME TypeInv, NEW n \in Nodes, NEW h \in Handlers, LoopAt(n), AddHandler(n, h)
    PROVE  LoopAt(n)'
<1>1. /\ handlers[n] \in Seq(Handlers) /\ Len(handlers[n]) \in Nat
      /\ handlers'[n] = Append(handlers[n], h)
      /\ h \notin Range(handlers[n])
      /\ tasks' = tasks /\ handled' = handled
      /\ dispatched' = dispatched /\ restarted' = restarted
  BY LenProperties DEF AddHandler, historyVars, TypeInv, TypeOK
<1>2. /\ Len(handlers'[n]) = Len(handlers[n]) + 1
      /\ \A i \in 1 .. Len(handlers[n]) : handlers'[n][i] = handlers[n][i]
  BY <1>1, AppendRange
<1>3. Distinct(handlers[n])'
  BY <1>1, AppendDistinct DEF LoopAt
<1>4. RunsAt(n)'
  BY <1>1 DEF LoopAt, RunsAt
<1>5. \A t \in tasks[n] : \A i \in 1 .. (t.next - 1) : i \in 1 .. Len(handlers[n])
  BY <1>1, TaskFacts
<1>6. \A m, k : Uncalled(n, m, k)' = Uncalled(n, m, k)
  BY <1>1, <1>2, <1>5 DEF Uncalled
<1>7. CalledAt(n)'
  BY <1>1, <1>6 DEF LoopAt, CalledAt
<1>8. ASSUME n \notin restarted PROVE HeadKeptAt(n)' /\ ServedAt(n)'
  <2>1. HeadKeptAt(n) /\ ServedAt(n)
    BY <1>8 DEF LoopAt
  <2>2. HeadKeptAt(n)'
    BY <1>1, <1>2, <2>1, InitHandlersFacts DEF HeadKeptAt
  <2>3. ServedAt(n)'
    BY <1>1, <2>1 DEF ServedAt, Before, Reliable
  <2>4. QED BY <2>2, <2>3
<1>9. QED BY <1>1, <1>3, <1>4, <1>7, <1>8 DEF LoopAt

\* A restart begins with the initial handlers and no task.
LEMMA RestartLoopAt ==
    ASSUME TypeInv, NEW n \in Nodes, LoopAt(n), Restart(n)
    PROVE  LoopAt(n)'
<1>1. /\ tasks'[n] = {} /\ handlers'[n] = InitHandlers
      /\ handled' = handled /\ dispatched' = dispatched
      /\ n \in restarted'
  BY DEF Restart, TypeInv, TypeOK
<1>2. Distinct(handlers[n])'
  BY <1>1, InitHandlersFacts
<1>3. RunsAt(n)'
  BY <1>1, FS_EmptySet DEF RunsAt
<1>4. CalledAt(n)'
  <2> SUFFICES ASSUME NEW m \in Msgs, NEW h \in Handlers
               PROVE  handled[n][h][m] + Cardinality(Uncalled(n, m, h)') <= dispatched[n][m]
    BY <1>1 DEF CalledAt
  <2>1. Uncalled(n, m, h)' = {}
    BY <1>1 DEF Uncalled
  <2>2. Cardinality(Uncalled(n, m, h)') = 0
    BY <2>1, FS_EmptySet
  <2>3. Cardinality(Uncalled(n, m, h)) \in Nat
    BY PartSize DEF LoopAt, RunsAt, Uncalled
  <2>4. handled[n][h][m] + Cardinality(Uncalled(n, m, h)) <= dispatched[n][m]
    BY DEF LoopAt, CalledAt
  <2>5. handled[n][h][m] \in Nat /\ dispatched[n][m] \in Nat
    BY DEF TypeInv, TypeOK
  <2>6. QED BY <2>2, <2>3, <2>4, <2>5
<1>5. QED BY <1>1, <1>2, <1>3, <1>4 DEF LoopAt

LEMMA InitLoopInv == Init => LoopInv
<1> SUFFICES ASSUME Init, NEW n \in Nodes PROVE LoopAt(n)
  BY DEF LoopInv
<1>1. /\ tasks[n] = {} /\ handlers[n] = InitHandlers
      /\ \A m \in Msgs : dispatched[n][m] = 0
      /\ \A h \in Handlers, m \in Msgs : handled[n][h][m] = 0
  BY DEF Init, PerMsg
<1>2. \A m, h : Uncalled(n, m, h) = {} /\ Before(n, m, h) = {}
  BY <1>1 DEF Uncalled, Before
<1>3. IsFiniteSet({}) /\ Cardinality({}) = 0
  BY FS_EmptySet
<1>4. RunsAt(n)
  BY <1>1, <1>3 DEF RunsAt
<1>5. CalledAt(n)
  BY <1>1, <1>2, <1>3 DEF CalledAt
<1>6. HeadKeptAt(n) /\ ServedAt(n)
  <2>1. HeadKeptAt(n)
    BY <1>1, InitHandlersFacts DEF HeadKeptAt
  <2>2. ASSUME NEW m \in Msgs, NEW p \in 1 .. Len(InitHandlers)
        PROVE  handled[n][InitHandlers[p]][m] + Cardinality(Before(n, m, p)) >= dispatched[n][m]
    <3>1. handled[n][InitHandlers[p]][m] = 0 /\ dispatched[n][m] = 0
      BY <1>1, InitHandlersFacts
    <3>2. Cardinality(Before(n, m, p)) = 0
      BY <1>2, <1>3
    <3>3. QED BY <3>1, <3>2
  <2>3. QED BY <2>1, <2>2 DEF ServedAt
<1>7. QED BY <1>1, <1>4, <1>5, <1>6, InitHandlersFacts DEF LoopAt

\* Every step keeps the loop's invariant: at the node that takes it by the
\* lemma about its action, at every other node because nothing changes there.
LEMMA NextLoopInv == TypeInv /\ LoopInv /\ [Next]_vars => LoopInv'
<1> SUFFICES ASSUME TypeInv, LoopInv, [Next]_vars, NEW x \in Nodes PROVE LoopAt(x)'
  BY DEF LoopInv
<1> USE DEF wireVars, policyVars, historyVars
<1>0. LoopAt(x) /\ TypeOK
  BY DEF LoopInv, TypeInv
<1>1. ASSUME tasks' = tasks, handlers' = handlers, handled' = handled,
             dispatched' = dispatched, restarted' = restarted
      PROVE  LoopAt(x)'
  BY <1>0, <1>1, LoopAtKept
<1>2. ASSUME NEW n \in Nodes, NEW m \in Msgs, IngestFromBridge(n, m) \/ Accept(n, m)
      PROVE  LoopAt(x)'
  <2>1. /\ Dispatch(n, m)
        /\ handlers' = handlers /\ handled' = handled /\ restarted' = restarted
    BY <1>2 DEF IngestFromBridge, Accept
  <2>2. x # n => tasks'[x] = tasks[x] /\ dispatched'[x] = dispatched[x]
    BY <1>0, <2>1 DEF Dispatch, TypeOK
  <2>3. QED BY <1>0, <2>1, <2>2, DispatchLoopAt, LoopAtKept
<1>3. ASSUME NEW n \in Nodes, NEW m \in Msgs, Publish(n, m) \/ Reject(n, m) \/ Lose(n, m)
      PROVE  LoopAt(x)'
  BY <1>1, <1>3 DEF Publish, Reject, Lose
<1>4. ASSUME NEW n \in Nodes, NEW t \in tasks[n], HandlerReturns(n, t) PROVE LoopAt(x)'
  <2>1. /\ handlers' = handlers /\ dispatched' = dispatched /\ restarted' = restarted
        /\ x # n => tasks'[x] = tasks[x] /\ handled'[x] = handled[x]
    BY <1>0, <1>4 DEF HandlerReturns, TypeOK
  <2>2. QED BY <1>0, <1>4, <2>1, ReturnLoopAt, LoopAtKept
<1>5. ASSUME NEW n \in Nodes, NEW t \in tasks[n], HandlerRaises(n, t) PROVE LoopAt(x)'
  <2>1. /\ handlers' = handlers /\ handled' = handled
        /\ dispatched' = dispatched /\ restarted' = restarted
        /\ x # n => tasks'[x] = tasks[x]
    BY <1>0, <1>5 DEF HandlerRaises, TypeOK
  <2>2. QED BY <1>0, <1>5, <2>1, RaiseLoopAt, LoopAtKept
<1>6. ASSUME NEW n \in Nodes, NEW h \in Handlers, AddHandler(n, h) PROVE LoopAt(x)'
  <2>1. /\ tasks' = tasks /\ handled' = handled
        /\ dispatched' = dispatched /\ restarted' = restarted
        /\ x # n => handlers'[x] = handlers[x]
    BY <1>0, <1>6 DEF AddHandler, TypeOK
  <2>2. QED BY <1>0, <1>6, <2>1, AddHandlerLoopAt, LoopAtKept
<1>7. ASSUME NEW n \in Nodes,
             \/ \E o \in Origins : SetPeer(n, o)
             \/ \E ty \in Types : SetCapability(n, ty)
             \/ PurgeMessages(n)
      PROVE  LoopAt(x)'
  BY <1>1, <1>7 DEF SetPeer, SetCapability, PurgeMessages
<1>8. ASSUME NEW n \in Nodes, Restart(n) PROVE LoopAt(x)'
  <2>1. /\ handled' = handled /\ dispatched' = dispatched
        /\ x \in restarted => x \in restarted'
        /\ x # n => tasks'[x] = tasks[x] /\ handlers'[x] = handlers[x]
    BY <1>0, <1>8 DEF Restart, TypeOK
  <2>2. QED BY <1>0, <1>8, <2>1, RestartLoopAt, LoopAtKept
<1>9. CASE UNCHANGED vars
  BY <1>1, <1>9 DEF vars
<1>10. QED
  BY <1>2, <1>3, <1>4, <1>5, <1>6, <1>7, <1>8, <1>9 DEF Next

LEMMA LoopInvariant == Spec => []LoopInv
  BY InitLoopInv, NextLoopInv, TypeInvariant, PTL DEF Spec

\* A call that is ahead has not been made: the handler stands at one index only.
LEMMA AheadUncalled ==
    ASSUME TypeInv, NEW n \in Nodes, NEW m \in Msgs, NEW h \in Handlers, LoopAt(n)
    PROVE  /\ IsFiniteSet(Ahead(n, m, h))
           /\ handled[n][h][m] + Cardinality(Ahead(n, m, h)) <= dispatched[n][m]
<1>1. ASSUME NEW t \in Ahead(n, m, h) PROVE t \in Uncalled(n, m, h)
  <2>1. /\ t \in tasks[n] /\ t.msg = m /\ t.next \in Nat \ {0}
        /\ Len(handlers[n]) \in Nat
    BY TaskFacts DEF Ahead
  <2>2. PICK i \in t.next .. Len(handlers[n]) : handlers[n][i] = h
    BY DEF Ahead, Pending
  <2>3. \A j \in 1 .. (t.next - 1) : handlers[n][j] # h
    BY <2>1, <2>2 DEF LoopAt, Distinct
  <2>4. QED BY <2>1, <2>3 DEF Uncalled
<1>2. IsFiniteSet(Uncalled(n, m, h)) /\ IsFiniteSet(Ahead(n, m, h))
  BY PartSize DEF LoopAt, RunsAt, Uncalled, Ahead
<1>3. /\ Cardinality(Ahead(n, m, h)) <= Cardinality(Uncalled(n, m, h))
      /\ Cardinality(Ahead(n, m, h)) \in Nat
      /\ Cardinality(Uncalled(n, m, h)) \in Nat
  <2>1. Ahead(n, m, h) \subseteq Uncalled(n, m, h)
    BY <1>1
  <2>2. QED BY <1>2, <2>1, PartSize
<1>4. handled[n][h][m] + Cardinality(Uncalled(n, m, h)) <= dispatched[n][m]
  BY DEF LoopAt, CalledAt
<1>5. handled[n][h][m] \in Nat /\ dispatched[n][m] \in Nat
  BY DEF TypeInv, TypeOK
<1>6. QED BY <1>2, <1>3, <1>4, <1>5

\* For any handlers, messages and interleaving of tasks, a handler is called at
\* most once per dispatch, also when it is registered while tasks are running
\* and after a restart.
THEOREM HandledOnce == Spec => []HandledOncePerDispatch
<1>1. TypeInv /\ LoopInv => HandledOncePerDispatch
  BY AheadUncalled DEF LoopInv, HandledOncePerDispatch
<1>2. QED BY <1>1, TypeInvariant, LoopInvariant, PTL

\* For any handlers, faulty ones included, an initial handler in front of the
\* faulty ones is called by every dispatch that reaches the end of the loop.
THEOREM ShieldedServed == Spec => []ShieldedHandlerServed
<1>1. ASSUME TypeInv, LoopInv, NEW n \in Nodes \ restarted, NEW m \in Msgs,
             NEW h \in Range(InitHandlers), Type[m] \in Subs[h], Shielded(n, h)
      PROVE  handled[n][h][m] + Cardinality(Ahead(n, m, h)) = dispatched[n][m]
  <2>1. LoopAt(n) /\ HeadKeptAt(n) /\ ServedAt(n) /\ Distinct(handlers[n])
    BY <1>1 DEF LoopInv, LoopAt
  <2>2. /\ handlers[n] \in Seq(Handlers) /\ DOMAIN handlers[n] = 1 .. Len(handlers[n])
        /\ Len(handlers[n]) \in Nat
    BY <1>1, LenProperties DEF TypeInv, TypeOK
  <2>3. PICK p \in 1 .. Len(InitHandlers) : h = InitHandlers[p]
    BY EngineAssumptions, RangeIndex
  <2>4. h \in Handlers /\ Len(InitHandlers) \in Nat /\ p \in 1 .. Len(handlers[n])
    BY <2>1, <2>2, <2>3, InitHandlersFacts DEF HeadKeptAt
  <2>5. PICK q \in 1 .. Len(handlers[n]) :
          handlers[n][q] = h /\ \A j \in 1 .. q : handlers[n][j] \notin Faulty
    BY <1>1, <2>2 DEF Shielded
  <2>6. handlers[n][p] = h
    BY <2>1, <2>3 DEF HeadKeptAt
  <2>7. q = p
    BY <2>1, <2>4, <2>5, <2>6 DEF Distinct
  <2>8. \A j \in 1 .. p : j \in 1 .. Len(InitHandlers) /\ handlers[n][j] = InitHandlers[j]
    BY <2>1, <2>4 DEF HeadKeptAt
  <2>9. Reliable(m, p)
    BY <1>1, <2>3, <2>5, <2>7, <2>8 DEF Reliable
  <2>10. handled[n][h][m] + Cardinality(Before(n, m, p)) >= dispatched[n][m]
    BY <2>1, <2>3, <2>9 DEF ServedAt
  <2>11. Before(n, m, p) \subseteq Ahead(n, m, h)
    BY <1>1, <2>4, <2>6, TaskFacts DEF Before, Ahead, Pending
  <2>12. /\ IsFiniteSet(Ahead(n, m, h))
         /\ handled[n][h][m] + Cardinality(Ahead(n, m, h)) <= dispatched[n][m]
    BY <1>1, <2>1, <2>4, AheadUncalled
  <2>13. /\ Cardinality(Before(n, m, p)) <= Cardinality(Ahead(n, m, h))
         /\ Cardinality(Before(n, m, p)) \in Nat
         /\ Cardinality(Ahead(n, m, h)) \in Nat
    BY <2>11, <2>12, PartSize
  <2>14. handled[n][h][m] \in Nat /\ dispatched[n][m] \in Nat
    BY <1>1, <2>4 DEF TypeInv, TypeOK
  <2> DEFINE calls == handled[n][h][m]
             ahead == Cardinality(Ahead(n, m, h))
             before == Cardinality(Before(n, m, p))
             all == dispatched[n][m]
  <2>15. /\ calls \in Nat /\ ahead \in Nat /\ before \in Nat /\ all \in Nat
         /\ calls + before >= all /\ calls + ahead <= all /\ before <= ahead
    BY <2>10, <2>12, <2>13, <2>14
  <2> HIDE DEF calls, ahead, before, all
  <2>16. calls + ahead = all
    BY <2>15
  <2>17. QED BY <2>16 DEF calls, ahead, all
<1>2. TypeInv /\ LoopInv => ShieldedHandlerServed
  BY <1>1 DEF ShieldedHandlerServed
<1>3. QED BY <1>2, TypeInvariant, LoopInvariant, PTL
=============================================================================
