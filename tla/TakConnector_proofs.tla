------------------------- MODULE TakConnector_proofs -------------------------
(***************************************************************************)
(* Proofs about TakConnector, for any frames, queue and number of          *)
(* connections and restarts: type correctness, that every frame lost is    *)
(* counted, and that the flush writes frames in the order they were        *)
(* queued.                                                                 *)
(***************************************************************************)
EXTENDS TakConnector, SequenceFacts

(* Links.  Connections are numbered as they are made; whoever writes names *)
(* one that was made.                                                      *)

LinkInv ==
    /\ writer <= connects
    /\ \A f \in Frames : captured[f] <= connects
    /\ \A c \in Conns : c > connects => link[c] = "none"
    /\ sup \in {"flush", "flushLock", "flushDrain", "reading"} => writer # 0
    /\ \A f \in Frames : send[f] \in {"lock", "drain"} => captured[f] # 0

(* The lock.  Its holder and waiters are the tasks that are between asking *)
(* for it and giving it back, each once, and only the holder writes.       *)

LockInv ==
    /\ Distinct(lock)
    /\ \A f \in Frames : f \in Range(lock) <=> send[f] \in {"lock", "drain"}
    /\ Flush \in Range(lock) <=> sup \in {"flushLock", "flushDrain"}
    /\ \A f \in Frames : send[f] = "drain" => Holds(f)
    /\ sup = "flushDrain" => Holds(Flush)

(* The queue.  It holds each frame once, after its send() has returned;    *)
(* the frame the flush has in hand is at its head unless it was evicted,   *)
(* and the queue does not become empty under the flush.                    *)

QueueInv ==
    /\ Distinct(queue)
    /\ \A f \in Range(queue) : send[f] = "done"
    /\ sup \in {"flushLock", "flushDrain"} =>
         /\ queue # <<>>
         /\ send[frame] = "done"
         /\ frame \in Range(queue) => Head(queue) = frame

(* Written frames.  A write is lost only on a connection that is lost, and *)
(* a lost connection stays lost.                                           *)

WrittenInv ==
    /\ \A f \in Frames : send[f] = "drain" /\ link[captured[f]] # "lost" => f \in written
    /\ sup = "flushDrain" /\ link[writer] # "lost" => frame \in written

(* Lost frames, to which belongs the frame in hand once it is evicted: if  *)
(* its write succeeds, the flush will remove another in its place.         *)

Gone == Discarded \cup
        (IF sup \in {"flushLock", "flushDrain"} THEN {frame} \ Range(queue) ELSE {})

GoneInv == IsFiniteSet(Gone) /\ Cardinality(Gone) <= dropped

(* Order.  The queue is a part of what was ever queued, in that order;     *)
(* what was flushed is no younger than what is left, and the frame in hand *)
(* is between the two.                                                     *)

\* When a frame was queued, of those that were.
At(f) == Position(enqueued, f)

InHand == IF sup \in {"flushLock", "flushDrain"} THEN {frame} ELSE {}

OrderInv ==
    /\ Distinct(enqueued)
    /\ \A f \in Range(enqueued) : send[f] = "done"
    /\ Range(queue) \cup Range(flushed) \cup InHand \subseteq Range(enqueued)
    /\ \A i, j \in 1 .. Len(queue) :
         i < j => At(queue[i]) < At(queue[j])
    /\ \A f \in Range(flushed), g \in Range(queue) \cup InHand :
         At(f) <= At(g)
    /\ \A f \in InHand, g \in Range(queue) :
         At(f) <= At(g)
    /\ \A i, j \in 1 .. Len(flushed) :
         i < j => At(flushed[i]) <= At(flushed[j])

-----------------------------------------------------------------------------
(* What the operations do to the queue and the lock.                       *)

\* The queue without its oldest frame, when it is full.
Kept == IF Len(queue) = QueueMax THEN Tail(queue) ELSE queue

LEMMA KeptFacts ==
    ASSUME TypeOK
    PROVE  /\ Kept \in Seq(Frames) /\ Len(Kept) < QueueMax
           /\ Len(Kept) \in Nat /\ QueueMax \in Nat
           /\ Range(Kept) \subseteq Range(queue)
           /\ Distinct(queue) => Distinct(Kept)
           /\ Len(queue) = QueueMax =>
                /\ queue # <<>>
                /\ Range(queue) = Range(Kept) \cup {Head(queue)}
                /\ Distinct(queue) => Head(queue) \notin Range(Kept)
<1>1. queue \in Seq(Frames) /\ Len(queue) <= QueueMax /\ QueueMax \in Nat \ {0} /\ Len(queue) \in Nat
  BY TakAssumptions, LenProperties DEF TypeOK
<1>2. CASE Len(queue) = QueueMax
  <2>1. queue # <<>> /\ Kept = Tail(queue)
    BY <1>1, <1>2, EmptySeq DEF Kept
  <2>2. /\ Tail(queue) \in Seq(Frames) /\ Len(Tail(queue)) = Len(queue) - 1
        /\ Range(queue) = Range(Tail(queue)) \cup {Head(queue)}
        /\ Distinct(queue) => Distinct(Tail(queue)) /\ Head(queue) \notin Range(Tail(queue))
    BY <1>1, <2>1, TailRange, TailDistinct
  <2>3. QED BY <1>1, <1>2, <2>1, <2>2
<1>3. CASE Len(queue) # QueueMax
  BY <1>1, <1>3 DEF Kept
<1>4. QED BY <1>2, <1>3

LEMMA EnqueueFacts ==
    ASSUME TypeOK, NEW f \in Frames, Enqueue(f)
    PROVE  /\ queue' = Append(Kept, f)
           /\ queue' \in Seq(Frames) /\ Len(queue') <= QueueMax /\ queue' # <<>>
           /\ Len(queue') = Len(Kept) + 1 /\ queue'[Len(Kept) + 1] = f
           /\ \A i \in 1 .. Len(Kept) : queue'[i] = Kept[i]
           /\ Range(queue') = Range(Kept) \cup {f}
           /\ Distinct(Kept) /\ f \notin Range(Kept) => Distinct(queue')
           /\ dropped' = dropped + (IF Len(queue) = QueueMax THEN 1 ELSE 0)
           /\ dropped' \in Nat
           /\ enqueued' = Append(enqueued, f) /\ enqueued' \in Seq(Frames)
<1>1. /\ queue' = Append(Kept, f)
      /\ dropped' = dropped + (IF Len(queue) = QueueMax THEN 1 ELSE 0)
      /\ enqueued' = Append(enqueued, f)
      /\ dropped \in Nat /\ enqueued \in Seq(Frames)
  BY DEF Enqueue, Kept, TypeOK
<1>2. Kept \in Seq(Frames) /\ Len(Kept) < QueueMax /\ Len(Kept) \in Nat /\ QueueMax \in Nat
  BY KeptFacts
<1>3. /\ queue' \in Seq(Frames) /\ queue' # <<>>
      /\ Len(queue') = Len(Kept) + 1 /\ queue'[Len(Kept) + 1] = f
      /\ \A i \in 1 .. Len(Kept) : queue'[i] = Kept[i]
      /\ Range(queue') = Range(Kept) \cup {f}
      /\ Distinct(Kept) /\ f \notin Range(Kept) => Distinct(queue')
  <2> HIDE DEF Kept
  <2>1. QED BY <1>1, <1>2, AppendRange, AppendDistinct
<1>4. enqueued' \in Seq(Frames)
  BY <1>1, AppendRange
<1>5. QED BY <1>1, <1>2, <1>3, <1>4

\* The holder leaves the lock to the waiter behind it.
LEMMA ReleaseFacts ==
    ASSUME TypeOK, LockInv, NEW x, Holds(x), lock' = Tail(lock)
    PROVE  /\ lock' \in Seq(Frames \cup {Flush})
           /\ Distinct(lock')
           /\ Range(lock') = Range(lock) \ {x}
           /\ x \in Range(lock)
<1>1. lock \in Seq(Frames \cup {Flush}) /\ lock # <<>> /\ Head(lock) = x /\ Distinct(lock)
  BY DEF TypeOK, LockInv, Holds
<1>2. QED BY <1>1, TailRange, TailDistinct

\* A task that was not waiting yet queues up behind the others.
LEMMA WaitFacts ==
    ASSUME TypeOK, LockInv, NEW x \in Frames \cup {Flush}, x \notin Range(lock),
           lock' = Append(lock, x)
    PROVE  /\ lock' \in Seq(Frames \cup {Flush})
           /\ Distinct(lock')
           /\ Range(lock') = Range(lock) \cup {x}
           /\ \A y : Holds(y) => Holds(y)'
<1>1. lock \in Seq(Frames \cup {Flush}) /\ Distinct(lock)
  BY DEF TypeOK, LockInv
<1>2. /\ lock' \in Seq(Frames \cup {Flush}) /\ Distinct(lock')
      /\ Range(lock') = Range(lock) \cup {x}
      /\ \A i \in 1 .. Len(lock) : lock'[i] = lock[i]
      /\ lock' # <<>> /\ Len(lock') = Len(lock) + 1
  BY <1>1, AppendRange, AppendDistinct
<1>3. ASSUME NEW y, Holds(y) PROVE Holds(y)'
  <2>1. lock # <<>> /\ Head(lock) = y /\ Len(lock) \in Nat \ {0}
    BY <1>1, <1>3, EmptySeq, LenProperties DEF Holds
  <2>2. Head(lock) = lock[1] /\ Head(lock') = lock'[1] /\ 1 \in 1 .. Len(lock)
    BY <1>1, <1>2, <2>1, TailRange
  <2>3. QED BY <1>2, <2>1, <2>2 DEF Holds
<1>4. QED BY <1>2, <1>3

\* A waiter that gives up: the others keep their order.
LEMMA WithoutFacts ==
    ASSUME NEW S, NEW q \in Seq(S), Distinct(q), NEW x
    PROVE  /\ Without(q, x) \in Seq(S)
           /\ Distinct(Without(q, x))
           /\ Range(Without(q, x)) = Range(q) \ {x}
           /\ q # <<>> /\ Head(q) # x =>
                Without(q, x) # <<>> /\ Head(Without(q, x)) = Head(q)
<1>1. CASE x \notin Range(q)
  BY <1>1 DEF Without
<1>2. CASE x \in Range(q)
  <2> DEFINE p == Position(q, x)
             r == [i \in 1 .. (Len(q) - 1) |-> IF i < p THEN q[i] ELSE q[i + 1]]
  <2>1. /\ p \in 1 .. Len(q) /\ q[p] = x
        /\ \A i \in 1 .. Len(q) : q[i] = x => i = p
    BY <1>2, PositionFacts
  <2>2. Without(q, x) = r
    BY <1>2 DEF Without, Position
  <2>3. Len(q) \in Nat \ {0} /\ DOMAIN q = 1 .. Len(q) /\ \A i \in 1 .. Len(q) : q[i] \in S
    BY <2>1, LenProperties
  <2> HIDE DEF p
  <2>4. \A i \in 1 .. (Len(q) - 1) : r[i] \in S /\ r[i] = IF i < p THEN q[i] ELSE q[i + 1]
    BY <2>1, <2>3
  <2>5. r \in Seq(S) /\ Len(r) = Len(q) - 1 /\ DOMAIN r = 1 .. (Len(q) - 1)
    <3>1. r \in [1 .. (Len(q) - 1) -> S]
      BY <2>4
    <3>2. Len(q) - 1 \in Nat
      BY <2>3
    <3>3. QED BY <3>1, <3>2, IsASeq, LenProperties
  <2> HIDE DEF r
  <2>6. Distinct(r)
    <3> SUFFICES ASSUME NEW i \in 1 .. (Len(q) - 1), NEW j \in 1 .. (Len(q) - 1), r[i] = r[j]
                 PROVE  i = j
      BY <2>5 DEF Distinct
    <3> DEFINE a == IF i < p THEN i ELSE i + 1
               b == IF j < p THEN j ELSE j + 1
    <3>1. a \in 1 .. Len(q) /\ b \in 1 .. Len(q) /\ q[a] = q[b]
      BY <2>1, <2>3, <2>4
    <3>2. a = b
      BY <3>1 DEF Distinct
    <3>3. QED BY <2>1, <2>3, <3>2
  <2>7. ASSUME NEW y \in Range(r) PROVE y \in Range(q) \ {x}
    <3>1. PICK i \in 1 .. (Len(q) - 1) : y = r[i]
      BY <2>5 DEF Range
    <3> DEFINE a == IF i < p THEN i ELSE i + 1
    <3>2. a \in 1 .. Len(q) /\ a # p /\ y = q[a]
      BY <2>1, <2>3, <2>4, <3>1
    <3>3. QED BY <2>1, <2>3, <3>2 DEF Range
  <2>8. ASSUME NEW y \in Range(q), y # x PROVE y \in Range(r)
    <3>1. PICK i \in 1 .. Len(q) : y = q[i]
      BY <2>3 DEF Range
    <3> DEFINE a == IF i < p THEN i ELSE i - 1
    <3>2. i # p /\ a \in 1 .. (Len(q) - 1) /\ r[a] = y
      BY <2>1, <2>3, <2>4, <2>8, <3>1
    <3>3. QED BY <2>5, <3>2 DEF Range
  <2>9. ASSUME q # <<>>, Head(q) # x PROVE r # <<>> /\ Head(r) = Head(q)
    <3>1. Head(q) = q[1] /\ p # 1
      BY <2>1, <2>9, TailRange
    <3>2. 1 \in 1 .. (Len(q) - 1) /\ r[1] = q[1]
      BY <2>1, <2>3, <2>4, <3>1
    <3>3. r # <<>> /\ Head(r) = r[1]
      BY <2>5, <3>2, EmptySeq, TailRange
    <3>4. QED BY <3>1, <3>2, <3>3
  <2>10. QED BY <2>2, <2>5, <2>6, <2>7, <2>8, <2>9
<1>3. QED BY <1>1, <1>2

-----------------------------------------------------------------------------
(* Types, links, lock and queue.                                           *)

TypeInv == TypeOK /\ LinkInv /\ LockInv /\ QueueInv

LEMMA InitTypeInv == Init => TypeInv
<1> SUFFICES ASSUME Init PROVE TypeInv
  OBVIOUS
<1>1. /\ <<>> \in Seq(Frames) /\ <<>> \in Seq(Frames \cup {Flush}) /\ Len(<<>>) = 0
      /\ Range(<<>>) = {}
  <2>1. <<>> \in Seq(Frames) /\ <<>> \in Seq(Frames \cup {Flush}) /\ Len(<<>>) = 0
    BY EmptySeq
  <2>2. QED BY <2>1, RangeIndex
<1>2. QueueMax \in Nat /\ 0 <= QueueMax /\ MaxBackoff \in Nat \ {0} /\ MaxConnects \in Nat
  BY TakAssumptions
<1>3. frame \in Frames
  BY TakAssumptions DEF Init
<1>4. TypeOK
  <2>1. queue \in Seq(Frames) /\ Len(queue) <= QueueMax /\ lock \in Seq(Frames \cup {Flush})
        /\ enqueued \in Seq(Frames) /\ flushed \in Seq(Frames)
    BY <1>1, <1>2 DEF Init
  <2>2. QED BY <1>2, <1>3, <2>1 DEF Init, TypeOK
<1>5. LinkInv /\ LockInv /\ QueueInv
  BY <1>1, <1>2 DEF Init, LinkInv, LockInv, QueueInv, Distinct, Conns
<1>6. QED BY <1>4, <1>5 DEF TypeInv

LEMMA NextTypeOK == TypeInv /\ [Next]_vars => TypeOK'
<1> SUFFICES ASSUME TypeInv, [Next]_vars PROVE TypeOK'
  OBVIOUS
<1> USE DEF queueVars, supVars, taskVars, budgets
<1>0. TypeOK /\ LinkInv /\ LockInv /\ QueueInv
  BY DEF TypeInv
<1>1. ASSUME NEW f \in Frames, SendDisconnected(f) PROVE TypeOK'
  <2>1. /\ queue' \in Seq(Frames) /\ Len(queue') <= QueueMax /\ dropped' \in Nat
        /\ enqueued' \in Seq(Frames)
    BY <1>0, <1>1, EnqueueFacts DEF SendDisconnected
  <2>2. QED BY <1>0, <1>1, <2>1 DEF SendDisconnected, TypeOK
<1>2. ASSUME NEW f \in Frames, SendConnected(f) PROVE TypeOK'
  <2>1. lock' \in Seq(Frames \cup {Flush})
    BY <1>0, <1>2, WaitFacts DEF SendConnected, LockInv
  <2>2. QED BY <1>0, <1>2, <2>1 DEF SendConnected, TypeOK
<1>3. ASSUME NEW f \in Frames, SendWrites(f) PROVE TypeOK'
  BY <1>0, <1>3 DEF SendWrites, WriteTo, TypeOK
<1>4. ASSUME NEW f \in Frames, SendDrained(f) PROVE TypeOK'
  <2>1. lock' \in Seq(Frames \cup {Flush})
    BY <1>0, <1>4, ReleaseFacts DEF SendDrained, LockInv
  <2>2. QED BY <1>0, <1>4, <2>1 DEF SendDrained, TypeOK
<1>5. ASSUME NEW f \in Frames, SendFails(f) PROVE TypeOK'
  <2>1. lock' \in Seq(Frames \cup {Flush})
    BY <1>0, <1>5, ReleaseFacts DEF SendFails, LockInv
  <2>2. /\ queue' \in Seq(Frames) /\ Len(queue') <= QueueMax /\ dropped' \in Nat
        /\ enqueued' \in Seq(Frames)
    BY <1>0, <1>5, EnqueueFacts DEF SendFails
  <2>3. QED BY <1>0, <1>5, <2>1, <2>2 DEF SendFails, TypeOK
<1>6. CASE Connected
  <2>1. connects + 1 \in Conns /\ 1 \in 1 .. MaxBackoff
    BY <1>0, <1>6, TakAssumptions DEF Connected, TypeOK, Conns
  <2>2. QED BY <1>0, <1>6, <2>1 DEF Connected, TypeOK
<1>7. CASE ConnectFails \/ FlushEmpty \/ FlushFails \/ Closed
  <2>1. lock' \in Seq(Frames \cup {Flush})
    BY <1>0, <1>7, ReleaseFacts DEF ConnectFails, FlushEmpty, FlushFails, Closed, LockInv, TypeOK
  <2>2. CASE ConnectFails
    BY <1>0, <2>1, <2>2 DEF ConnectFails, TypeOK
  <2>3. CASE FlushEmpty \/ Closed
    BY <1>0, <2>1, <2>3 DEF FlushEmpty, Closed, TypeOK
  <2>4. CASE FlushFails
    BY <1>0, <2>1, <2>4 DEF FlushFails, TypeOK
  <2>5. QED BY <1>7, <2>2, <2>3, <2>4
<1>8. CASE Wake
  <2>1. backoff' \in 1 .. MaxBackoff
    BY <1>0, <1>8, TakAssumptions DEF Wake, TypeOK
  <2>2. QED BY <1>0, <1>8, <2>1 DEF Wake, TypeOK
<1>9. CASE FlushNext
  <2>1. Head(queue) \in Frames
    BY <1>0, <1>9, HeadTailProperties DEF FlushNext, TypeOK
  <2>2. lock' \in Seq(Frames \cup {Flush})
    BY <1>0, <1>9, WaitFacts DEF FlushNext, LockInv
  <2>3. QED BY <1>0, <1>9, <2>1, <2>2 DEF FlushNext, TypeOK
<1>10. CASE FlushWrites
  <2>1. flushed' \in Seq(Frames)
    BY <1>0, <1>10, AppendRange DEF FlushWrites, TypeOK
  <2>2. QED BY <1>0, <1>10, <2>1 DEF FlushWrites, WriteTo, TypeOK
<1>11. CASE FlushDrained
  <2>1. lock' \in Seq(Frames \cup {Flush})
    BY <1>0, <1>11, ReleaseFacts DEF FlushDrained, LockInv
  <2>2. queue' \in Seq(Frames) /\ Len(queue') <= QueueMax
    <3>1. queue \in Seq(Frames) /\ queue # <<>> /\ queue' = Tail(queue) /\ Len(queue) <= QueueMax
      BY <1>0, <1>11 DEF FlushDrained, QueueInv, TypeOK
    <3>2. QED BY <3>1, TailRange, TakAssumptions
  <2>3. QED BY <1>0, <1>11, <2>1, <2>2 DEF FlushDrained, TypeOK
<1>12. CASE ReadEnds \/ ReadHandlerRaises
  BY <1>0, <1>12 DEF ReadEnds, ReadHandlerRaises, CloseWriter, TypeOK
<1>13. CASE StopAndStart
  <2>1. lock' \in Seq(Frames \cup {Flush})
    BY <1>0, <1>13, WithoutFacts DEF StopAndStart, LockInv, TypeOK
  <2>2. 1 \in 1 .. MaxBackoff
    BY TakAssumptions
  <2>3. link' \in [Conns -> {"none", "up", "dead", "lost"}] /\ writer' = 0
    BY <1>0, <1>13 DEF StopAndStart, CloseWriter, TypeOK
  <2>4. stops' \in Nat /\ failures' \in Nat
    BY <1>0, <1>13 DEF StopAndStart, TypeOK
  <2>5. /\ backoff' = 1 /\ sup' = "connecting"
        /\ UNCHANGED <<queueVars, taskVars, connects, frame, flushed, written>>
    BY <1>13 DEF StopAndStart
  <2>6. QED BY <1>0, <2>1, <2>2, <2>3, <2>4, <2>5, SMTT(30) DEF TypeOK
<1>14. ASSUME NEW c \in Conns, LinkBreaks(c) \/ LossNoticed(c) PROVE TypeOK'
  BY <1>0, <1>14, SMTT(30) DEF LinkBreaks, LossNoticed, TypeOK
<1>15. CASE UNCHANGED vars
  BY <1>0, <1>15 DEF vars, TypeOK
<1>16. QED
  BY <1>1, <1>2, <1>3, <1>4, <1>5, <1>6, <1>7, <1>8, <1>9, <1>10, <1>11, <1>12, <1>13, <1>14,
     <1>15 DEF Next, SendStep, Supervisor

LEMMA NextLinkInv == TypeInv /\ [Next]_vars => LinkInv'
<1> SUFFICES ASSUME TypeInv, [Next]_vars PROVE LinkInv'
  OBVIOUS
<1> USE DEF queueVars, supVars, taskVars, budgets, Conns
<1>0. TypeOK /\ LinkInv
  BY DEF TypeInv
<1>1. ASSUME NEW f \in Frames, SendDisconnected(f) \/ SendWrites(f) \/ SendDrained(f) \/ SendFails(f)
      PROVE  LinkInv'
  <2>1. /\ UNCHANGED <<writer, connects, captured, link, sup>>
        /\ send' = [send EXCEPT ![f] = "done"] \/ (send[f] = "lock" /\ send' = [send EXCEPT ![f] = "drain"])
    BY <1>1 DEF SendDisconnected, SendWrites, SendDrained, SendFails
  <2>2. QED BY <1>0, <2>1 DEF LinkInv, TypeOK
<1>2. ASSUME NEW f \in Frames, SendConnected(f) PROVE LinkInv'
  BY <1>0, <1>2 DEF SendConnected, LinkInv, TypeOK
<1>3. CASE Connected
  <2>1. MaxConnects \in Nat /\ connects \in Nat
    BY <1>0, TakAssumptions DEF TypeOK
  <2>2. /\ writer' = connects + 1 /\ connects' = connects + 1 /\ UNCHANGED <<captured, send>>
        /\ link' = [link EXCEPT ![connects + 1] = "up"]
    BY <1>3 DEF Connected
  <2>3. \A f \in Frames : captured[f] \in Nat /\ captured'[f] <= connects'
    BY <1>0, <2>1, <2>2 DEF LinkInv, TypeOK
  <2>4. ASSUME NEW c \in Conns, c > connects' PROVE link'[c] = "none"
    <3>1. c > connects /\ c # connects + 1
      BY <2>1, <2>2, <2>4
    <3>2. QED BY <1>0, <2>2, <3>1 DEF LinkInv, TypeOK
  <2>5. writer' <= connects' /\ writer' # 0
    BY <2>1, <2>2
  <2>6. \A f \in Frames : send'[f] \in {"lock", "drain"} => captured'[f] # 0
    BY <1>0, <2>2 DEF LinkInv
  <2>7. QED BY <2>3, <2>4, <2>5, <2>6 DEF LinkInv
<1>4. CASE ConnectFails \/ Closed \/ Wake
  BY <1>0, <1>4 DEF ConnectFails, Closed, Wake, LinkInv
<1>5. CASE FlushNext \/ FlushEmpty \/ FlushWrites \/ FlushDrained \/ FlushFails
  BY <1>0, <1>5 DEF FlushNext, FlushEmpty, FlushWrites, FlushDrained, FlushFails, LinkInv
<1>6. CASE ReadEnds \/ ReadHandlerRaises \/ StopAndStart
  <2>1. /\ writer' = 0 /\ UNCHANGED <<connects, captured, send>>
        /\ \/ link' = link
           \/ writer # 0 /\ \E state \in {"dead", "lost"} : link' = [link EXCEPT ![writer] = state]
        /\ sup' \notin {"flush", "flushLock", "flushDrain", "reading"} \/ StopAndStart
    BY <1>6 DEF ReadEnds, ReadHandlerRaises, StopAndStart, CloseWriter
  <2>2. sup' \notin {"flush", "flushLock", "flushDrain", "reading"}
    BY <1>6 DEF ReadEnds, ReadHandlerRaises, StopAndStart
  <2>3. ASSUME NEW c \in Conns, c > connects' PROVE link'[c] = "none"
    <3>1. link[c] = "none" /\ c # writer
      BY <1>0, <2>1, <2>3 DEF LinkInv, TypeOK
    <3>2. QED BY <1>0, <2>1, <3>1 DEF TypeOK
  <2>4. QED BY <1>0, <2>1, <2>2, <2>3 DEF LinkInv, TypeOK
<1>7. ASSUME NEW c \in Conns, LinkBreaks(c) \/ LossNoticed(c) PROVE LinkInv'
  BY <1>0, <1>7 DEF LinkBreaks, LossNoticed, LinkInv, TypeOK
<1>8. CASE UNCHANGED vars
  BY <1>0, <1>8 DEF vars, LinkInv
<1>9. QED
  BY <1>1, <1>2, <1>3, <1>4, <1>5, <1>6, <1>7, <1>8 DEF Next, SendStep, Supervisor

LEMMA NextLockInv == TypeInv /\ [Next]_vars => LockInv'
<1> SUFFICES ASSUME TypeInv, [Next]_vars PROVE LockInv'
  OBVIOUS
<1> USE DEF queueVars, supVars, taskVars, budgets
<1>0. TypeOK /\ LockInv /\ Flush \notin Frames /\ send \in [Frames -> {"idle", "lock", "drain", "done"}]
  BY TakAssumptions DEF TypeInv, TypeOK
<1>1. ASSUME NEW f \in Frames, SendDisconnected(f) PROVE LockInv'
  BY <1>0, <1>1 DEF SendDisconnected, LockInv, Holds
<1>2. ASSUME NEW f \in Frames, SendConnected(f) PROVE LockInv'
  <2>1. /\ Distinct(lock') /\ Range(lock') = Range(lock) \cup {f}
        /\ \A y : Holds(y) => Holds(y)'
    BY <1>0, <1>2, WaitFacts DEF SendConnected, LockInv
  <2>2. sup' = sup /\ send' = [send EXCEPT ![f] = "lock"]
    BY <1>2 DEF SendConnected
  <2>3. QED BY <1>0, <2>1, <2>2 DEF LockInv
<1>3. ASSUME NEW f \in Frames, SendWrites(f) PROVE LockInv'
  <2>1. /\ send[f] = "lock" /\ Holds(f) /\ send' = [send EXCEPT ![f] = "drain"]
        /\ lock' = lock /\ sup' = sup
    BY <1>3 DEF SendWrites
  <2>2. \A y : Holds(y)' <=> Holds(y)
    BY <2>1 DEF Holds
  <2>3. QED BY <1>0, <2>1, <2>2 DEF LockInv
<1>4. ASSUME NEW f \in Frames, SendDrained(f) \/ SendFails(f) PROVE LockInv'
  <2>1. /\ send[f] = "drain" /\ Holds(f) /\ send' = [send EXCEPT ![f] = "done"]
        /\ lock' = Tail(lock) /\ sup' = sup
    BY <1>0, <1>4 DEF SendDrained, SendFails, LockInv
  <2>2. Distinct(lock') /\ Range(lock') = Range(lock) \ {f}
    BY <1>0, <2>1, ReleaseFacts
  <2>3. \A g \in Frames : send'[g] # "drain"
    BY <1>0, <2>1 DEF LockInv, Holds
  <2>4. sup # "flushDrain"
    BY <1>0, <2>1 DEF LockInv, Holds
  <2>5. QED BY <1>0, <2>1, <2>2, <2>3, <2>4 DEF LockInv
<1>5. CASE Connected \/ ConnectFails \/ FlushEmpty \/ ReadEnds \/ Closed \/ Wake \/ ReadHandlerRaises
  <2>1. UNCHANGED <<lock, send>>
    BY <1>5 DEF Connected, ConnectFails, FlushEmpty, ReadEnds, Closed, Wake, ReadHandlerRaises
  <2>2. {sup, sup'} \cap {"flushLock", "flushDrain"} = {}
    BY <1>5 DEF Connected, ConnectFails, FlushEmpty, ReadEnds, Closed, Wake, ReadHandlerRaises
  <2>3. QED BY <1>0, <2>1, <2>2 DEF LockInv, Holds
<1>6. CASE FlushNext
  <2>1. /\ Distinct(lock') /\ Range(lock') = Range(lock) \cup {Flush}
        /\ \A y : Holds(y) => Holds(y)'
    BY <1>0, <1>6, WaitFacts DEF FlushNext, LockInv
  <2>2. sup = "flush" /\ sup' = "flushLock" /\ send' = send
    BY <1>6 DEF FlushNext
  <2>3. QED BY <1>0, <2>1, <2>2 DEF LockInv
<1>7. CASE FlushWrites
  BY <1>0, <1>7 DEF FlushWrites, LockInv, Holds
<1>8. CASE FlushDrained \/ FlushFails
  <2>1. /\ sup = "flushDrain" /\ sup' \in {"flush", "reading"} /\ Holds(Flush)
        /\ lock' = Tail(lock) /\ send' = send
    BY <1>0, <1>8 DEF FlushDrained, FlushFails, LockInv
  <2>2. Distinct(lock') /\ Range(lock') = Range(lock) \ {Flush}
    BY <1>0, <2>1, ReleaseFacts
  <2>3. \A g \in Frames : send[g] # "drain"
    BY <1>0, <2>1 DEF LockInv, Holds
  <2>4. QED BY <1>0, <2>1, <2>2, <2>3 DEF LockInv
<1>9. CASE StopAndStart
  <2>1. lock' = Without(lock, Flush) /\ send' = send /\ sup' = "connecting"
    BY <1>9 DEF StopAndStart
  <2>2. lock \in Seq(Frames \cup {Flush}) /\ Distinct(lock)
    BY <1>0 DEF TypeOK, LockInv
  <2>3. /\ Distinct(lock') /\ Range(lock') = Range(lock) \ {Flush}
        /\ lock # <<>> /\ Head(lock) # Flush => lock' # <<>> /\ Head(lock') = Head(lock)
    BY <2>1, <2>2, WithoutFacts
  <2>4. \A g \in Frames : Holds(g) => Holds(g)'
    BY <1>0, <2>3 DEF Holds
  <2>5. QED BY <1>0, <2>1, <2>3, <2>4 DEF LockInv
<1>10. ASSUME NEW c \in Conns, LinkBreaks(c) \/ LossNoticed(c) PROVE LockInv'
  BY <1>0, <1>10 DEF LinkBreaks, LossNoticed, LockInv, Holds
<1>11. CASE UNCHANGED vars
  BY <1>0, <1>11 DEF vars, LockInv, Holds
<1>12. QED
  BY <1>1, <1>2, <1>3, <1>4, <1>5, <1>6, <1>7, <1>8, <1>9, <1>10, <1>11
  DEF Next, SendStep, Supervisor

LEMMA NextQueueInv == TypeInv /\ [Next]_vars => QueueInv'
<1> SUFFICES ASSUME TypeInv, [Next]_vars PROVE QueueInv'
  OBVIOUS
<1> USE DEF queueVars, supVars, taskVars, budgets
<1>0. TypeOK /\ LockInv /\ QueueInv /\ frame \in Frames /\ queue \in Seq(Frames)
      /\ send \in [Frames -> {"idle", "lock", "drain", "done"}]
  BY DEF TypeInv, TypeOK
<1>1. ASSUME NEW f \in Frames, SendDisconnected(f) \/ SendFails(f) PROVE QueueInv'
  <2>1. /\ Enqueue(f) /\ send[f] # "done" /\ send' = [send EXCEPT ![f] = "done"]
        /\ UNCHANGED <<sup, frame>>
    BY <1>1 DEF SendDisconnected, SendFails
  <2>2. f \notin Range(queue) /\ Distinct(queue) /\ \A g \in Range(queue) : send[g] = "done"
    BY <1>0, <2>1 DEF QueueInv
  <2>3. /\ Range(Kept) \subseteq Range(queue) /\ Distinct(Kept) /\ Range(queue) \subseteq Frames
        /\ Kept \in Seq(Frames)
        /\ Len(queue) = QueueMax => Head(queue) \notin Range(Kept)
    BY <1>0, <2>2, KeptFacts, RangeIndex
  <2>4. /\ queue' = Append(Kept, f) /\ queue' \in Seq(Frames) /\ queue' # <<>>
        /\ Range(queue') = Range(Kept) \cup {f} /\ Distinct(queue')
        /\ \A i \in 1 .. Len(Kept) : queue'[i] = Kept[i]
    BY <1>0, <2>1, <2>2, <2>3, EnqueueFacts
  <2>5. ASSUME sup \in {"flushLock", "flushDrain"}, frame \in Range(queue')
        PROVE  Head(queue') = frame
    <3>1. frame # f /\ frame \in Range(Kept) /\ Head(queue) = frame
      BY <1>0, <2>1, <2>3, <2>4, <2>5 DEF QueueInv
    <3>2. Kept = queue
      BY <2>3, <3>1 DEF Kept
    <3>3. Head(queue) = queue[1] /\ Head(queue') = queue'[1] /\ 1 \in 1 .. Len(queue)
      <4>1. queue # <<>> /\ Len(queue) \in Nat \ {0}
        BY <1>0, <2>5, EmptySeq, LenProperties DEF QueueInv
      <4>2. QED BY <1>0, <2>4, <4>1, TailRange
    <3>4. QED BY <2>4, <3>1, <3>2, <3>3
  <2>6. sup \in {"flushLock", "flushDrain"} => send'[frame] = "done"
    BY <1>0, <2>1 DEF QueueInv
  <2>7. \A g \in Range(queue') : send'[g] = "done"
    BY <1>0, <2>1, <2>2, <2>3, <2>4
  <2>8. QED BY <2>1, <2>4, <2>5, <2>6, <2>7 DEF QueueInv
<1>2. ASSUME NEW f \in Frames, SendConnected(f) \/ SendWrites(f) \/ SendDrained(f)
      PROVE  QueueInv'
  <2>1. /\ UNCHANGED <<queue, sup, frame>>
        /\ \E x \in {"lock", "drain", "done"} : send' = [send EXCEPT ![f] = x]
        /\ send[f] # "done"
    BY <1>2 DEF SendConnected, SendWrites, SendDrained
  <2>2. Range(queue) \subseteq Frames
    BY <1>0, RangeIndex
  <2>3. QED BY <1>0, <2>1, <2>2 DEF QueueInv
<1>3. CASE Connected \/ ConnectFails \/ FlushEmpty \/ FlushFails \/ ReadEnds \/ Closed \/ Wake
           \/ ReadHandlerRaises \/ StopAndStart
  <2>1. UNCHANGED <<queue, send>> /\ sup' \notin {"flushLock", "flushDrain"}
    BY <1>3 DEF Connected, ConnectFails, FlushEmpty, FlushFails, ReadEnds, Closed, Wake,
                ReadHandlerRaises, StopAndStart
  <2>2. QED BY <1>0, <2>1 DEF QueueInv
<1>4. CASE FlushNext
  <2>1. /\ queue # <<>> /\ frame' = Head(queue) /\ UNCHANGED <<queue, send>>
    BY <1>4 DEF FlushNext
  <2>2. Head(queue) \in Range(queue)
    BY <1>0, <2>1, TailRange
  <2>3. QED BY <1>0, <2>1, <2>2 DEF QueueInv
<1>5. CASE FlushWrites
  BY <1>0, <1>5 DEF FlushWrites, QueueInv
<1>6. CASE FlushDrained
  <2>1. queue # <<>> /\ queue' = Tail(queue) /\ send' = send /\ sup' = "flush" /\ Distinct(queue)
    BY <1>0, <1>6 DEF FlushDrained, QueueInv
  <2>2. Distinct(queue') /\ Range(queue') \subseteq Range(queue)
    BY <1>0, <2>1, TailDistinct
  <2>3. QED BY <1>0, <2>1, <2>2 DEF QueueInv
<1>7. ASSUME NEW c \in Conns, LinkBreaks(c) \/ LossNoticed(c) PROVE QueueInv'
  BY <1>0, <1>7 DEF LinkBreaks, LossNoticed, QueueInv
<1>8. CASE UNCHANGED vars
  BY <1>0, <1>8 DEF vars, QueueInv
<1>9. QED
  BY <1>1, <1>2, <1>3, <1>4, <1>5, <1>6, <1>7, <1>8 DEF Next, SendStep, Supervisor

LEMMA NextTypeInv == TypeInv /\ [Next]_vars => TypeInv'
  BY NextTypeOK, NextLinkInv, NextLockInv, NextQueueInv DEF TypeInv

\* Every variable in its set and the queue within queue_max, whatever breaks and however
\* sends, flushes and restarts interleave.
THEOREM TypeCorrect == Spec => []TypeOK
<1>1. Spec => []TypeInv
  BY NextTypeInv, InitTypeInv, PTL DEF Spec
<1>2. TypeInv => TypeOK
  BY DEF TypeInv
<1>3. QED BY <1>1, <1>2, PTL

-----------------------------------------------------------------------------
(* No frame is lost uncounted.                                             *)

\* A lost connection stays lost, and what was written stays written.
LEMMA LostStaysLost ==
    ASSUME TypeInv, [Next]_vars
    PROVE  /\ \A c \in Conns : link[c] = "lost" => link'[c] = "lost"
           /\ written \subseteq written'
<1> USE DEF queueVars, supVars, taskVars, budgets, Conns
<1>0. TypeOK /\ LinkInv /\ MaxConnects \in Nat
  BY TakAssumptions DEF TypeInv
<1>1. ASSUME NEW f \in Frames, SendStep(f) PROVE UNCHANGED link /\ written \subseteq written'
  BY <1>1 DEF SendStep, SendDisconnected, SendConnected, SendWrites, SendDrained, SendFails,
              WriteTo
<1>2. CASE Connected
  BY <1>0, <1>2 DEF Connected, LinkInv, TypeOK
<1>3. CASE ConnectFails \/ FlushNext \/ FlushEmpty \/ FlushWrites \/ FlushDrained \/ FlushFails
           \/ Closed \/ Wake
  BY <1>3 DEF ConnectFails, FlushNext, FlushEmpty, FlushWrites, FlushDrained, FlushFails,
              Closed, Wake, WriteTo
<1>4. CASE ReadEnds \/ ReadHandlerRaises \/ StopAndStart
  BY <1>0, <1>4 DEF ReadEnds, ReadHandlerRaises, StopAndStart, CloseWriter, TypeOK
<1>5. ASSUME NEW c \in Conns, LinkBreaks(c) \/ LossNoticed(c)
      PROVE  /\ \A d \in Conns : link[d] = "lost" => link'[d] = "lost"
             /\ written' = written
  BY <1>0, <1>5 DEF LinkBreaks, LossNoticed, TypeOK
<1>6. CASE UNCHANGED vars
  BY <1>6 DEF vars
<1>7. QED
  BY <1>1, <1>2, <1>3, <1>4, <1>5, <1>6 DEF Next, Supervisor

LEMMA NextWrittenInv == TypeInv /\ WrittenInv /\ [Next]_vars => WrittenInv'
<1> SUFFICES ASSUME TypeInv, WrittenInv, [Next]_vars PROVE WrittenInv'
  OBVIOUS
<1> USE DEF queueVars, supVars, taskVars, budgets
<1>0. /\ TypeOK /\ LinkInv
      /\ \A c \in Conns : link'[c] # "lost" => link[c] # "lost"
      /\ written \subseteq written'
  BY LostStaysLost DEF TypeInv
<1>a. /\ \A f \in Frames : send[f] = "drain" => captured[f] \in Conns
      /\ sup = "flushDrain" => writer \in Conns
  BY <1>0 DEF TypeOK, LinkInv
<1>1. ASSUME \A f \in Frames : send'[f] = "drain" => send[f] = "drain" /\ captured'[f] = captured[f],
             sup' = "flushDrain" => sup = "flushDrain" /\ UNCHANGED <<writer, frame>>
      PROVE  WrittenInv'
  BY <1>0, <1>a, <1>1 DEF WrittenInv
<1>2. ASSUME NEW f \in Frames, SendDisconnected(f) \/ SendConnected(f) \/ SendDrained(f) \/ SendFails(f)
      PROVE  WrittenInv'
  BY <1>0, <1>1, <1>2 DEF SendDisconnected, SendConnected, SendDrained, SendFails, TypeOK
<1>3. ASSUME NEW f \in Frames, SendWrites(f) PROVE WrittenInv'
  <2>1. link[captured[f]] # "lost" => f \in written'
    BY <1>3 DEF SendWrites, WriteTo
  <2>2. UNCHANGED <<link, captured, sup, writer, frame>> /\ send' = [send EXCEPT ![f] = "drain"]
    BY <1>3 DEF SendWrites
  <2>3. QED BY <1>0, <2>1, <2>2 DEF WrittenInv, TypeOK
<1>4. CASE FlushWrites
  <2>1. link[writer] # "lost" => frame \in written'
    BY <1>4 DEF FlushWrites, WriteTo
  <2>2. UNCHANGED <<link, captured, send, writer, frame>>
    BY <1>4 DEF FlushWrites
  <2>3. QED BY <1>0, <2>1, <2>2 DEF WrittenInv
<1>5. CASE \/ Connected \/ ConnectFails \/ FlushNext \/ FlushEmpty \/ FlushDrained \/ FlushFails
           \/ ReadEnds \/ Closed \/ Wake \/ ReadHandlerRaises \/ StopAndStart
  <2>1. UNCHANGED <<send, captured>> /\ sup' # "flushDrain"
    BY <1>5 DEF Connected, ConnectFails, FlushNext, FlushEmpty, FlushDrained, FlushFails,
                ReadEnds, Closed, Wake, ReadHandlerRaises, StopAndStart
  <2>2. QED BY <1>1, <2>1
<1>6. ASSUME NEW c \in Conns, LinkBreaks(c) \/ LossNoticed(c) PROVE WrittenInv'
  BY <1>1, <1>6 DEF LinkBreaks, LossNoticed
<1>7. CASE UNCHANGED vars
  BY <1>1, <1>7 DEF vars
<1>8. QED
  BY <1>2, <1>3, <1>4, <1>5, <1>6, <1>7 DEF Next, SendStep, Supervisor

LEMMA InitWrittenInv == Init => WrittenInv
  BY DEF Init, WrittenInv

\* A step that adds nothing to the lost frames.
LEMMA FewerGone ==
    ASSUME GoneInv, TypeInv, Gone' \subseteq Gone, dropped' = dropped
    PROVE  GoneInv'
<1>1. IsFiniteSet(Gone) /\ IsFiniteSet(Gone') /\ Cardinality(Gone') <= Cardinality(Gone)
  BY FS_Subset DEF GoneInv
<1>2. Cardinality(Gone') \in Nat /\ Cardinality(Gone) \in Nat /\ dropped \in Nat
  BY <1>1, FS_CardinalityType DEF TypeInv, TypeOK
<1>3. QED BY <1>1, <1>2 DEF GoneInv

\* A frame that leaves the head of a full queue is counted.
LEMMA EnqueueGone ==
    ASSUME TypeInv, GoneInv, NEW f \in Frames, Enqueue(f), send[f] # "done",
           send' = [send EXCEPT ![f] = "done"], UNCHANGED <<sup, frame, written>>
    PROVE  GoneInv'
<1>1. /\ TypeOK /\ queue \in Seq(Frames) /\ send \in [Frames -> {"idle", "lock", "drain", "done"}]
      /\ dropped \in Nat
  BY DEF TypeInv, TypeOK
<1>2. /\ Range(queue') = Range(Kept) \cup {f}
      /\ dropped' = dropped + (IF Len(queue) = QueueMax THEN 1 ELSE 0)
  BY <1>1, EnqueueFacts
<1>3. CASE Len(queue) = QueueMax
  <2>1. Range(queue) = Range(Kept) \cup {Head(queue)}
    BY <1>1, <1>3, KeptFacts
  <2>2. Gone' \subseteq Gone \cup {Head(queue)}
    BY <1>1, <1>2, <2>1 DEF Gone, Discarded
  <2>3. /\ IsFiniteSet(Gone) /\ Cardinality(Gone) <= dropped /\ Cardinality(Gone) \in Nat
    BY FS_CardinalityType DEF GoneInv
  <2>4. /\ IsFiniteSet(Gone \cup {Head(queue)})
        /\ Cardinality(Gone \cup {Head(queue)}) <= Cardinality(Gone) + 1
        /\ Cardinality(Gone \cup {Head(queue)}) \in Nat
    BY <2>3, AddAtMostOne
  <2>5. /\ IsFiniteSet(Gone') /\ Cardinality(Gone') <= Cardinality(Gone \cup {Head(queue)})
        /\ Cardinality(Gone') \in Nat
    BY <2>2, <2>4, FS_Subset, FS_CardinalityType
  <2>6. dropped' = dropped + 1
    BY <1>2, <1>3
  <2>7. QED BY <1>1, <2>3, <2>4, <2>5, <2>6 DEF GoneInv
<1>4. CASE Len(queue) # QueueMax
  <2>1. Kept = queue /\ dropped' = dropped
    BY <1>1, <1>2, <1>4 DEF Kept
  <2>2. Gone' \subseteq Gone
    BY <1>1, <1>2, <2>1 DEF Gone, Discarded
  <2>3. QED BY <2>1, <2>2, FewerGone
<1>5. QED BY <1>3, <1>4

\* popleft takes out the frame that was written, or, that frame having been evicted,
\* another one in its place.
LEMMA FlushDrainedGone ==
    ASSUME TypeInv, WrittenInv, GoneInv, FlushDrained
    PROVE  GoneInv'
<1>1. /\ TypeOK /\ QueueInv /\ queue \in Seq(Frames) /\ queue # <<>> /\ queue' = Tail(queue)
      /\ sup = "flushDrain" /\ sup' = "flush" /\ frame \in written
      /\ UNCHANGED <<send, written, frame, dropped>>
  BY DEF TypeInv, TypeOK, QueueInv, WrittenInv, FlushDrained, taskVars
<1>2. Range(queue) = Range(queue') \cup {Head(queue)}
  BY <1>1, TailRange
<1>3. CASE frame \in Range(queue)
  <2>1. Gone' \subseteq Gone
    BY <1>1, <1>2, <1>3 DEF Gone, Discarded, QueueInv
  <2>2. QED BY <1>1, <2>1, FewerGone
<1>4. CASE frame \notin Range(queue)
  <2>1. frame \in Gone /\ Gone' \subseteq (Gone \ {frame}) \cup {Head(queue)}
    BY <1>1, <1>2, <1>4 DEF Gone, Discarded
  <2>2. IsFiniteSet(Gone) /\ Cardinality(Gone) \in Nat /\ Cardinality(Gone) <= dropped
    BY FS_CardinalityType DEF GoneInv
  <2>3. /\ IsFiniteSet(Gone \ {frame}) /\ Cardinality(Gone \ {frame}) = Cardinality(Gone) - 1
        /\ Cardinality(Gone \ {frame}) \in Nat
    BY <2>1, <2>2, FS_RemoveElement, FS_CardinalityType
  <2> DEFINE R == Gone \ {frame}
  <2>4. /\ IsFiniteSet(R \cup {Head(queue)})
        /\ Cardinality(R \cup {Head(queue)}) <= Cardinality(R) + 1
        /\ Cardinality(R \cup {Head(queue)}) \in Nat
    <3> HIDE DEF R
    <3>1. IsFiniteSet(R) /\ Cardinality(R) \in Nat
      BY <2>3 DEF R
    <3>2. QED BY <3>1, AddAtMostOne
  <2>5. /\ IsFiniteSet(Gone') /\ Cardinality(Gone') <= Cardinality(R \cup {Head(queue)})
        /\ Cardinality(Gone') \in Nat
    BY <2>1, <2>4, FS_Subset, FS_CardinalityType
  <2>6. dropped \in Nat /\ dropped' = dropped
    BY <1>1 DEF TypeOK
  <2>7. QED BY <2>2, <2>3, <2>4, <2>5, <2>6 DEF GoneInv
<1>5. QED BY <1>3, <1>4

LEMMA InitGoneInv == Init => GoneInv
<1> SUFFICES ASSUME Init PROVE GoneInv
  OBVIOUS
<1>1. Gone = {} /\ dropped = 0
  BY DEF Init, Gone, Discarded
<1>2. QED BY <1>1, FS_EmptySet DEF GoneInv

LEMMA NextGoneInv == TypeInv /\ WrittenInv /\ GoneInv /\ [Next]_vars => GoneInv'
<1> SUFFICES ASSUME TypeInv, WrittenInv, GoneInv, [Next]_vars PROVE GoneInv'
  OBVIOUS
<1> USE DEF queueVars, supVars, taskVars, budgets
<1>0. /\ TypeOK /\ queue \in Seq(Frames)
      /\ send \in [Frames -> {"idle", "lock", "drain", "done"}]
      /\ written \subseteq written'
  BY LostStaysLost DEF TypeInv, TypeOK
<1>1. ASSUME UNCHANGED <<queue, dropped>>,
             sup' \in {"flushLock", "flushDrain"} =>
                 sup \in {"flushLock", "flushDrain"} /\ UNCHANGED frame,
             \A f \in Frames : send'[f] = "done" => send[f] = "done" \/ f \in written
      PROVE  GoneInv'
  <2>1. Gone' \subseteq Gone
    BY <1>0, <1>1 DEF Gone, Discarded
  <2>2. QED BY <1>1, <2>1, FewerGone
<1>2. ASSUME NEW f \in Frames, SendDisconnected(f) \/ SendFails(f) PROVE GoneInv'
  BY <1>2, EnqueueGone DEF SendDisconnected, SendFails
<1>3. ASSUME NEW f \in Frames, SendConnected(f) \/ SendWrites(f) \/ SendDrained(f) PROVE GoneInv'
  <2>1. /\ UNCHANGED <<queue, dropped, sup, frame>>
        /\ \/ \E x \in {"lock", "drain"} : send' = [send EXCEPT ![f] = x]
           \/ send' = [send EXCEPT ![f] = "done"] /\ f \in written
    BY <1>0, <1>3 DEF SendConnected, SendWrites, SendDrained, WrittenInv
  <2>2. QED BY <1>0, <1>1, <2>1
<1>4. CASE FlushNext
  <2>1. queue # <<>> /\ frame' = Head(queue) /\ UNCHANGED <<queue, send, written, dropped>>
    BY <1>4 DEF FlushNext
  <2>2. Head(queue) \in Range(queue)
    BY <1>0, <2>1, TailRange
  <2>3. Gone' \subseteq Gone
    BY <2>1, <2>2 DEF Gone, Discarded
  <2>4. QED BY <2>1, <2>3, FewerGone
<1>5. CASE FlushWrites
  BY <1>1, <1>5 DEF FlushWrites
<1>6. CASE FlushDrained
  BY <1>6, FlushDrainedGone
<1>7. CASE Connected \/ ConnectFails \/ FlushEmpty \/ FlushFails \/ ReadEnds \/ Closed \/ Wake
           \/ ReadHandlerRaises \/ StopAndStart
  <2>1. UNCHANGED <<queue, dropped, send>> /\ sup' \notin {"flushLock", "flushDrain"}
    BY <1>7 DEF Connected, ConnectFails, FlushEmpty, FlushFails, ReadEnds, Closed, Wake,
                ReadHandlerRaises, StopAndStart
  <2>2. QED BY <1>1, <2>1
<1>8. ASSUME NEW c \in Conns, LinkBreaks(c) \/ LossNoticed(c) PROVE GoneInv'
  BY <1>1, <1>8 DEF LinkBreaks, LossNoticed
<1>9. CASE UNCHANGED vars
  BY <1>1, <1>9 DEF vars
<1>10. QED
  BY <1>2, <1>3, <1>4, <1>5, <1>6, <1>7, <1>8, <1>9 DEF Next, SendStep, Supervisor

\* No frame disappears unwritten unless dropped counts it: evictions between the two
\* ends of a flush, failing drains, lost links and restarts included.
THEOREM LossesCounted == Spec => []DropsAccounted
<1>1. Spec => [](TypeInv /\ WrittenInv /\ GoneInv)
  BY NextTypeInv, InitTypeInv, InitWrittenInv, InitGoneInv, NextWrittenInv, NextGoneInv, PTL DEF Spec
<1>2. TypeInv /\ GoneInv => DropsAccounted
  <2> SUFFICES ASSUME TypeInv, GoneInv PROVE DropsAccounted
    OBVIOUS
  <2>1. IsFiniteSet(Gone) /\ Discarded \subseteq Gone
    BY DEF GoneInv, Gone
  <2>2. /\ Cardinality(Discarded) <= Cardinality(Gone)
        /\ Cardinality(Discarded) \in Nat /\ Cardinality(Gone) \in Nat
    BY <2>1, FS_Subset, FS_CardinalityType
  <2>3. QED BY <2>2 DEF GoneInv, DropsAccounted, TypeInv, TypeOK
<1>3. QED BY <1>1, <1>2, PTL

-----------------------------------------------------------------------------
(* The flush writes in the order of the queue.                             *)

LEMMA AtFacts ==
    ASSUME TypeOK, NEW f \in Range(enqueued)
    PROVE  At(f) \in Nat
<1>1. enqueued \in Seq(Frames) /\ Len(enqueued) \in Nat
  BY LenProperties DEF TypeOK
<1>2. QED BY <1>1, PositionFacts DEF At

\* Tail of the queue: a part of it in the same order, behind its head.
LEMMA QueueTail ==
    ASSUME TypeOK, OrderInv, queue # <<>>
    PROVE  /\ \A i, j \in 1 .. Len(Tail(queue)) : i < j => At(Tail(queue)[i]) < At(Tail(queue)[j])
           /\ \A f \in Range(queue) : At(Head(queue)) <= At(f)
<1>1. /\ queue \in Seq(Frames) /\ Len(queue) \in Nat \ {0} /\ Len(Tail(queue)) = Len(queue) - 1
      /\ \A i \in 1 .. (Len(queue) - 1) : Tail(queue)[i] = queue[i + 1]
      /\ Head(queue) = queue[1]
  BY TailRange DEF TypeOK
<1>2. /\ \A i, j \in 1 .. Len(queue) : i < j => At(queue[i]) < At(queue[j])
      /\ \A f \in Range(queue) : f \in Range(enqueued)
  BY DEF OrderInv, At
<1>3. ASSUME NEW i \in 1 .. Len(Tail(queue)), NEW j \in 1 .. Len(Tail(queue)), i < j
      PROVE  At(Tail(queue)[i]) < At(Tail(queue)[j])
  <2>1. i + 1 \in 1 .. Len(queue) /\ j + 1 \in 1 .. Len(queue) /\ i + 1 < j + 1
    BY <1>1, <1>3
  <2>2. QED BY <1>1, <1>2, <1>3, <2>1
<1>4. ASSUME NEW f \in Range(queue) PROVE At(Head(queue)) <= At(f)
  <2>1. PICK i \in 1 .. Len(queue) : f = queue[i]
    BY <1>1, RangeIndex
  <2>2. At(f) \in Nat
    BY <1>2, AtFacts
  <2>3. CASE i = 1
    BY <1>1, <2>1, <2>2, <2>3
  <2>4. CASE i # 1
    <3>1. 1 \in 1 .. Len(queue) /\ 1 < i
      BY <1>1, <2>4
    <3>2. At(queue[1]) < At(queue[i]) /\ queue[1] \in Range(queue)
      BY <1>1, <1>2, <2>1, <3>1, RangeIndex
    <3>3. At(queue[1]) \in Nat
      BY <1>2, <3>2, AtFacts
    <3>4. QED BY <1>1, <2>1, <2>2, <3>2, <3>3
  <2>5. QED BY <2>3, <2>4
<1>5. QED BY <1>3, <1>4

\* A frame that is queued for the first time comes after all that were queued before.
LEMMA EnqueueOrder ==
    ASSUME TypeInv, OrderInv, NEW f \in Frames, Enqueue(f), send[f] # "done",
           send' = [send EXCEPT ![f] = "done"], UNCHANGED <<sup, frame, flushed>>
    PROVE  OrderInv'
<1> DEFINE New(g) == Position(enqueued', g)
<1>1. /\ TypeOK /\ enqueued \in Seq(Frames) /\ queue \in Seq(Frames) /\ flushed \in Seq(Frames)
      /\ send \in [Frames -> {"idle", "lock", "drain", "done"}]
      /\ Range(enqueued) \subseteq Frames
  BY RangeIndex DEF TypeInv, TypeOK
<1>2. /\ Distinct(enqueued) /\ f \notin Range(enqueued)
      /\ Range(queue) \subseteq Range(enqueued) /\ Range(flushed) \subseteq Range(enqueued)
      /\ InHand \subseteq Range(enqueued) /\ InHand' = InHand
  BY DEF OrderInv, InHand
<1>3. enqueued' = Append(enqueued, f)
  BY <1>1, EnqueueFacts
<1>4. /\ Distinct(enqueued') /\ Range(enqueued') = Range(enqueued) \cup {f}
      /\ \A g \in Range(enqueued) : New(g) = At(g) /\ At(g) < New(f)
  BY <1>1, <1>2, <1>3, AppendRange, AppendDistinct, AppendPosition DEF At
<1>5. /\ Kept \in Seq(Frames) /\ Range(Kept) \subseteq Range(queue) /\ Len(Kept) \in Nat
      /\ Range(queue') = Range(Kept) \cup {f}
      /\ Len(queue') = Len(Kept) + 1 /\ queue'[Len(Kept) + 1] = f
      /\ \A i \in 1 .. Len(Kept) : queue'[i] = Kept[i]
  BY <1>1, KeptFacts, EnqueueFacts
<1>6. \A g \in Range(queue') : send'[g] = "done" /\ g \in Range(enqueued')
  BY <1>1, <1>2, <1>4, <1>5 DEF OrderInv
<1>7. \A i, j \in 1 .. Len(Kept) : i < j => At(Kept[i]) < At(Kept[j])
  <2>1. CASE Len(queue) = QueueMax
    <3>1. queue # <<>> /\ Kept = Tail(queue)
      BY <1>1, <2>1, KeptFacts DEF Kept
    <3>2. QED BY <1>1, <3>1, QueueTail
  <2>2. CASE Len(queue) # QueueMax
    BY <2>2 DEF Kept, OrderInv, At
  <2>3. QED BY <2>1, <2>2
<1>8. ASSUME NEW i \in 1 .. Len(queue'), NEW j \in 1 .. Len(queue'), i < j
      PROVE  New(queue'[i]) < New(queue'[j])
  <2>1. i \in 1 .. Len(Kept) /\ (j \in 1 .. Len(Kept) \/ j = Len(Kept) + 1)
    BY <1>5, <1>8
  <2>2. Kept[i] \in Range(enqueued) /\ queue'[i] = Kept[i]
    <3> HIDE DEF Kept
    <3>1. Kept[i] \in Range(Kept)
      BY <1>5, <2>1, RangeIndex
    <3>2. QED BY <1>2, <1>5, <2>1, <3>1
  <2>3. CASE j \in 1 .. Len(Kept)
    <3> HIDE DEF Kept
    <3>1. Kept[j] \in Range(Kept)
      BY <1>5, <2>3, RangeIndex
    <3>2. Kept[j] \in Range(enqueued) /\ queue'[j] = Kept[j]
      BY <1>2, <1>5, <2>3, <3>1
    <3>3. At(Kept[i]) < At(Kept[j])
      BY <1>7, <1>8, <2>1, <2>3
    <3>4. /\ New(Kept[i]) = At(Kept[i])
          /\ New(Kept[j]) = At(Kept[j])
      BY <1>4, <2>2, <3>2
    <3>5. QED BY <2>2, <3>2, <3>3, <3>4
  <2>4. CASE j = Len(Kept) + 1
    BY <1>4, <1>5, <2>2, <2>4 DEF At
  <2>5. QED BY <2>1, <2>3, <2>4
<1>9. \A g \in Range(flushed), h \in Range(queue') \cup InHand : New(g) <= New(h)
  <2> SUFFICES ASSUME NEW g \in Range(flushed), NEW h \in Range(queue') \cup InHand
               PROVE  New(g) <= New(h)
    OBVIOUS
  <2>1. g \in Range(enqueued) /\ At(g) \in Nat /\ New(g) = At(g)
    BY <1>1, <1>2, <1>4, AtFacts
  <2>2. CASE h = f
    <3>1. f \in Range(enqueued') /\ enqueued' \in Seq(Frames)
      BY <1>1, <1>3, <1>4, AppendRange
    <3>2. New(f) \in Nat
      BY <3>1, PositionFacts
    <3>3. QED BY <1>4, <2>1, <2>2, <3>2 DEF At
  <2>3. CASE h \in Range(queue) \cup InHand
    <3>1. At(g) <= At(h)
      BY <2>3 DEF OrderInv, At
    <3>2. h \in Range(enqueued)
      BY <1>2, <2>3
    <3>3. QED BY <1>4, <2>1, <3>1, <3>2
  <2>4. QED BY <1>5, <2>2, <2>3
<1>10. \A g \in InHand, h \in Range(queue') : New(g) <= New(h)
  <2> SUFFICES ASSUME NEW g \in InHand, NEW h \in Range(queue') PROVE New(g) <= New(h)
    OBVIOUS
  <2>1. g \in Range(enqueued) /\ At(g) \in Nat /\ New(g) = At(g)
    BY <1>1, <1>2, <1>4, AtFacts
  <2>2. CASE h = f
    <3>1. f \in Range(enqueued') /\ enqueued' \in Seq(Frames)
      BY <1>1, <1>3, <1>4, AppendRange
    <3>2. New(f) \in Nat
      BY <3>1, PositionFacts
    <3>3. QED BY <1>4, <2>1, <2>2, <3>2 DEF At
  <2>3. CASE h \in Range(queue)
    <3>1. At(g) <= At(h)
      BY <2>3 DEF OrderInv, At
    <3>2. h \in Range(enqueued)
      BY <1>2, <2>3
    <3>3. QED BY <1>4, <2>1, <3>1, <3>2
  <2>4. QED BY <1>5, <2>2, <2>3
<1>11. \A i, j \in 1 .. Len(flushed) : i < j => New(flushed[i]) <= New(flushed[j])
  <2> SUFFICES ASSUME NEW i \in 1 .. Len(flushed), NEW j \in 1 .. Len(flushed), i < j
               PROVE  New(flushed[i]) <= New(flushed[j])
    OBVIOUS
  <2>1. At(flushed[i]) <= At(flushed[j])
    BY DEF OrderInv, At
  <2>2. flushed[i] \in Range(enqueued) /\ flushed[j] \in Range(enqueued)
    BY <1>1, <1>2, RangeIndex
  <2>3. /\ New(flushed[i]) = At(flushed[i])
        /\ New(flushed[j]) = At(flushed[j])
    BY <1>4, <2>2 DEF At
  <2>4. QED BY <2>1, <2>3 DEF At
<1>12. \A g \in Range(enqueued') : send'[g] = "done"
  BY <1>1, <1>4 DEF OrderInv
<1>13. Range(queue') \cup Range(flushed') \cup InHand' \subseteq Range(enqueued')
  BY <1>2, <1>4, <1>6
<1>14. QED BY <1>2, <1>4, <1>8, <1>9, <1>10, <1>11, <1>12, <1>13 DEF OrderInv, At

LEMMA InitOrderInv == Init => OrderInv
<1> SUFFICES ASSUME Init PROVE OrderInv
  OBVIOUS
<1>1. <<>> \in Seq(Frames) /\ Len(<<>>) = 0
  BY EmptySeq
<1>2. Range(<<>>) = {} /\ InHand = {} /\ Distinct(<<>>)
  BY <1>1, RangeIndex DEF Init, InHand, Distinct
<1>3. QED BY <1>1, <1>2 DEF Init, OrderInv

\* A step that neither queues nor writes.
LEMMA SameOrder ==
    ASSUME TypeOK, OrderInv, UNCHANGED <<queue, enqueued, flushed>>, InHand' \subseteq InHand,
           \A f \in Frames : send[f] = "done" => send'[f] = "done"
    PROVE  OrderInv'
<1>1. Range(enqueued) \subseteq Frames
  BY RangeIndex DEF TypeOK
<1>2. QED BY <1>1 DEF OrderInv, At

LEMMA FlushNextOrder == TypeOK /\ OrderInv /\ FlushNext => OrderInv'
<1> SUFFICES ASSUME TypeOK, OrderInv, FlushNext PROVE OrderInv'
  OBVIOUS
<1>1. /\ queue \in Seq(Frames) /\ queue # <<>> /\ UNCHANGED <<queue, enqueued, flushed, send>>
      /\ InHand' = {Head(queue)}
  BY DEF FlushNext, TypeOK, queueVars, taskVars, InHand
<1>2. Head(queue) \in Range(queue) /\ \A f \in Range(queue) : At(Head(queue)) <= At(f)
  BY <1>1, TailRange, QueueTail
<1>3. QED BY <1>1, <1>2 DEF OrderInv, At

LEMMA FlushWritesOrder == TypeOK /\ OrderInv /\ FlushWrites => OrderInv'
<1> SUFFICES ASSUME TypeOK, OrderInv, FlushWrites PROVE OrderInv'
  OBVIOUS
<1>1. /\ flushed \in Seq(Frames) /\ frame \in Frames /\ flushed' = Append(flushed, frame)
      /\ UNCHANGED <<queue, enqueued, send>>
      /\ InHand = {frame} /\ InHand' = {frame}
  BY DEF FlushWrites, TypeOK, queueVars, taskVars, InHand
<1>2. /\ Range(flushed') = Range(flushed) \cup {frame} /\ Len(flushed') = Len(flushed) + 1
      /\ \A i \in 1 .. Len(flushed) : flushed'[i] = flushed[i] /\ flushed[i] \in Range(flushed)
      /\ flushed'[Len(flushed) + 1] = frame
      /\ Len(flushed) \in Nat
  BY <1>1, AppendRange, RangeIndex, LenProperties
<1>3. At(frame) \in Nat /\ \A f \in Range(flushed) : At(f) <= At(frame)
  <2>1. frame \in Range(enqueued)
    BY <1>1 DEF OrderInv
  <2>2. QED BY <1>1, <2>1, AtFacts DEF OrderInv, At
<1>4. \A f \in Range(flushed'), g \in Range(queue) \cup InHand : At(f) <= At(g)
  BY <1>1, <1>2, <1>3 DEF OrderInv, At
<1>5. ASSUME NEW i \in 1 .. Len(flushed'), NEW j \in 1 .. Len(flushed'), i < j
      PROVE  At(flushed'[i]) <= At(flushed'[j])
  <2>1. i \in 1 .. Len(flushed) /\ (j \in 1 .. Len(flushed) \/ j = Len(flushed) + 1)
    BY <1>2, <1>5
  <2>2. CASE j \in 1 .. Len(flushed)
    BY <1>2, <1>5, <2>1, <2>2 DEF OrderInv, At
  <2>3. CASE j = Len(flushed) + 1
    BY <1>2, <1>3, <2>1, <2>3
  <2>4. QED BY <2>1, <2>2, <2>3
<1>6. QED BY <1>1, <1>2, <1>4, <1>5 DEF OrderInv, At

LEMMA FlushDrainedOrder == TypeInv /\ OrderInv /\ FlushDrained => OrderInv'
<1> SUFFICES ASSUME TypeInv, OrderInv, FlushDrained PROVE OrderInv'
  OBVIOUS
<1>1. /\ TypeOK /\ queue \in Seq(Frames) /\ queue # <<>> /\ queue' = Tail(queue)
      /\ UNCHANGED <<enqueued, flushed, send>> /\ InHand' = {}
  BY DEF FlushDrained, TypeInv, TypeOK, QueueInv, taskVars, InHand
<1>2. /\ Range(queue') \subseteq Range(queue)
      /\ \A i, j \in 1 .. Len(queue') : i < j => At(queue'[i]) < At(queue'[j])
  BY <1>1, TailRange, QueueTail
<1>3. QED BY <1>1, <1>2 DEF OrderInv, At

LEMMA NextOrderInv == TypeInv /\ OrderInv /\ [Next]_vars => OrderInv'
<1> SUFFICES ASSUME TypeInv, OrderInv, [Next]_vars PROVE OrderInv'
  OBVIOUS
<1> USE DEF queueVars, supVars, taskVars, budgets
<1>0. TypeOK /\ send \in [Frames -> {"idle", "lock", "drain", "done"}]
  BY DEF TypeInv, TypeOK
<1>1. ASSUME NEW f \in Frames, SendDisconnected(f) \/ SendFails(f) PROVE OrderInv'
  BY <1>1, EnqueueOrder DEF SendDisconnected, SendFails
<1>2. ASSUME NEW f \in Frames, SendConnected(f) \/ SendWrites(f) \/ SendDrained(f)
      PROVE  OrderInv'
  <2>1. /\ UNCHANGED <<queue, enqueued, flushed, sup, frame>> /\ send[f] # "done"
        /\ \E x \in {"lock", "drain", "done"} : send' = [send EXCEPT ![f] = x]
    BY <1>2 DEF SendConnected, SendWrites, SendDrained
  <2>2. InHand' = InHand
    BY <2>1 DEF InHand
  <2>3. QED BY <1>0, <2>1, <2>2, SameOrder
<1>3. CASE Connected \/ ConnectFails \/ FlushEmpty \/ FlushFails \/ ReadEnds \/ Closed \/ Wake
           \/ ReadHandlerRaises \/ StopAndStart
  <2>1. UNCHANGED <<queue, enqueued, flushed, send>> /\ InHand' = {}
    BY <1>3 DEF Connected, ConnectFails, FlushEmpty, FlushFails, ReadEnds, Closed, Wake,
                ReadHandlerRaises, StopAndStart, InHand
  <2>2. QED BY <1>0, <2>1, SameOrder
<1>4. CASE FlushNext
  BY <1>0, <1>4, FlushNextOrder
<1>5. CASE FlushWrites
  BY <1>0, <1>5, FlushWritesOrder
<1>6. CASE FlushDrained
  BY <1>6, FlushDrainedOrder
<1>7. ASSUME NEW c \in Conns, LinkBreaks(c) \/ LossNoticed(c) PROVE OrderInv'
  <2>1. UNCHANGED <<queue, enqueued, flushed, send>> /\ InHand' = InHand
    BY <1>7 DEF LinkBreaks, LossNoticed, InHand
  <2>2. QED BY <1>0, <2>1, SameOrder
<1>8. CASE UNCHANGED vars
  <2>1. UNCHANGED <<queue, enqueued, flushed, send>> /\ InHand' = InHand
    BY <1>8 DEF vars, InHand
  <2>2. QED BY <1>0, <2>1, SameOrder
<1>9. QED
  BY <1>1, <1>2, <1>3, <1>4, <1>5, <1>6, <1>7, <1>8 DEF Next, SendStep, Supervisor

\* Over any number of reconnections the flush writes frames in the order they were
\* queued; one written again is not behind a younger one.
THEOREM FlushKeepsOrder == Spec => []FlushInOrder
<1>1. Spec => [](TypeInv /\ OrderInv)
  BY NextTypeInv, InitTypeInv, InitOrderInv, NextOrderInv, PTL DEF Spec
<1>2. TypeInv /\ OrderInv => FlushInOrder
  <2>1. TypeInv => DOMAIN flushed = 1 .. Len(flushed)
    BY LenProperties DEF TypeInv, TypeOK
  <2>2. \A f : EnqueuedAt(f) = At(f)
    BY DEF EnqueuedAt, At, Position
  <2>3. QED BY <2>1, <2>2 DEF OrderInv, FlushInOrder
<1>3. QED BY <1>1, <1>2, PTL
=============================================================================
