---------------------------- MODULE TakConnector ----------------------------
(***************************************************************************)
(* The TAK server connector (bridges/takserver.py): a supervisor task that *)
(* keeps one TCP connection up and flushes a bounded outbound queue on     *)
(* (re)connection, and the concurrent tasks that call send().              *)
(*                                                                         *)
(* A connection is known by its number.  A broken link is "dead" until the *)
(* event loop notices, and swallows what is written to it; then it is      *)
(* "lost": writing does nothing and drain() raises.  What the server reads *)
(* is not kept: once written, a frame is out of the connector's hands.     *)
(*                                                                         *)
(* An action is the code between two awaits.  An await that may return at  *)
(* once is a step like the others.  The write lock is an asyncio.Lock: it  *)
(* serves its waiters in order.                                            *)
(***************************************************************************)
EXTENDS Naturals, Sequences, FiniteSets, Functions

CONSTANTS
    Frames,         \* outbound CoT frames, one task calling send() for each
    Flush,          \* the flush, as a waiter for the write lock
    QueueMax,       \* queue_max
    MaxBackoff,     \* max_backoff, in units of base_backoff
    MaxConnects,    \* bound: connections made
    MaxFailures,    \* bound: failed connection attempts
    MaxStops        \* bound: calls of stop(), each followed by a start()

ASSUME TakAssumptions ==
    /\ QueueMax \in Nat \ {0}
    /\ MaxBackoff \in Nat \ {0}
    /\ {MaxConnects, MaxFailures, MaxStops} \subseteq Nat
    /\ Frames # {} /\ Flush \notin Frames

Conns == 1 .. MaxConnects

VARIABLES
    sup,        \* where the supervisor task is
    writer,     \* _writer: 0 for None, or the number of the connection
    connects,   \* connects
    backoff,    \* backoff
    queue,      \* _queue
    dropped,    \* dropped
    frame,      \* frame the flush has read from the head of the queue
    lock,       \* holder and waiters of _write_lock, the holder first
    send,       \* frame -> where its send() task is
    captured,   \* frame -> the writer its send() has read
    link,       \* connection -> none, up, dead (broken unnoticed or closing), lost
    failures, stops,    \* budgets spent
    (* history *)
    written,    \* frames handed to some connection
    enqueued,   \* frames in the order they entered the queue
    flushed     \* frames in the order the flush wrote them

queueVars == <<queue, dropped, enqueued>>
supVars == <<sup, writer, connects, backoff, frame, flushed>>
taskVars == <<send, captured>>
budgets == <<failures, stops>>
vars == <<link, queueVars, supVars, taskVars, budgets, lock, written>>

Init ==
    /\ sup = "connecting"
    /\ writer = 0
    /\ connects = 0
    /\ backoff = 1
    /\ queue = <<>>
    /\ dropped = 0
    /\ frame = CHOOSE f \in Frames : TRUE
    /\ lock = <<>>
    /\ send = [f \in Frames |-> "idle"]
    /\ captured = [f \in Frames |-> 0]
    /\ link = [c \in Conns |-> "none"]
    /\ failures = 0
    /\ stops = 0
    /\ written = {}
    /\ enqueued = <<>>
    /\ flushed = <<>>

-----------------------------------------------------------------------------
(* The bounded queue: the oldest frame goes when it is full.               *)

\* Mutant of Enqueue: a frame that finds the queue full is refused, uncounted.
Enqueue_Refuse(f) ==
    /\ queue' = IF Len(queue) = QueueMax THEN queue ELSE Append(queue, f)
    /\ dropped' = dropped
    /\ enqueued' = Append(enqueued, f)

\* Mutant of Enqueue: the deque has no maxlen.
Enqueue_Unbounded(f) ==
    /\ queue' = Append(queue, f)
    /\ dropped' = dropped
    /\ enqueued' = Append(enqueued, f)

Enqueue(f) ==
    /\ queue' = Append(IF Len(queue) = QueueMax THEN Tail(queue) ELSE queue, f)
    /\ dropped' = dropped + (IF Len(queue) = QueueMax THEN 1 ELSE 0)
    /\ enqueued' = Append(enqueued, f)

\* writer.write: a no-op on a connection that is lost.
WriteTo(c, f) ==
    written' = IF link[c] = "lost" THEN written ELSE written \cup {f}

-----------------------------------------------------------------------------
(* send().                                                                 *)

SendDisconnected(f) ==
    /\ send[f] = "idle"
    /\ writer = 0
    /\ Enqueue(f)
    /\ send' = [send EXCEPT ![f] = "done"]
    /\ UNCHANGED <<link, supVars, budgets, captured, lock, written>>

SendConnected(f) ==
    /\ send[f] = "idle"
    /\ writer # 0
    /\ captured' = [captured EXCEPT ![f] = writer]
    /\ send' = [send EXCEPT ![f] = "lock"]
    /\ lock' = Append(lock, f)
    /\ UNCHANGED <<link, queueVars, supVars, budgets, written>>

Holds(x) == lock # <<>> /\ Head(lock) = x

\* Those ahead of a waiter that gives up keep their places, those behind move up.
Without(q, x) ==
    IF x \notin Range(q) THEN q
    ELSE LET place == CHOOSE i \in DOMAIN q : q[i] = x
         IN  [i \in 1 .. (Len(q) - 1) |-> IF i < place THEN q[i] ELSE q[i + 1]]

SendWrites(f) ==
    /\ send[f] = "lock"
    /\ Holds(f)
    /\ WriteTo(captured[f], f)
    /\ send' = [send EXCEPT ![f] = "drain"]
    /\ UNCHANGED <<queueVars, supVars, budgets, captured, lock, link>>

SendDrained(f) ==
    /\ send[f] = "drain"
    /\ link[captured[f]] # "lost"
    /\ lock' = Tail(lock)
    /\ send' = [send EXCEPT ![f] = "done"]
    /\ UNCHANGED <<link, queueVars, supVars, budgets, captured, written>>

\* Mutant of SendFails: the lock is not released on the error path.
SendFails_LockKept(f) ==
    /\ send[f] = "drain"
    /\ link[captured[f]] = "lost"
    /\ Enqueue(f)
    /\ send' = [send EXCEPT ![f] = "done"]
    /\ UNCHANGED <<link, supVars, budgets, captured, lock, written>>

SendFails(f) ==
    /\ send[f] = "drain"
    /\ link[captured[f]] = "lost"
    /\ lock' = Tail(lock)
    /\ Enqueue(f)
    /\ send' = [send EXCEPT ![f] = "done"]
    /\ UNCHANGED <<link, supVars, budgets, captured, written>>

-----------------------------------------------------------------------------
(* The supervisor: connect, flush, read until the link ends, close, sleep. *)

\* Mutant of Connected: the queue is not flushed on reconnection.
Connected_NoFlush ==
    /\ sup = "connecting"
    /\ connects < MaxConnects
    /\ connects' = connects + 1
    /\ writer' = connects + 1
    /\ link' = [link EXCEPT ![connects + 1] = "up"]
    /\ backoff' = 1
    /\ sup' = "reading"
    /\ UNCHANGED <<queueVars, taskVars, budgets, lock, frame, flushed,
                   written>>

Connected ==
    /\ sup = "connecting"
    /\ connects < MaxConnects
    /\ connects' = connects + 1
    /\ writer' = connects + 1
    /\ link' = [link EXCEPT ![connects + 1] = "up"]
    /\ backoff' = 1
    /\ sup' = "flush"
    /\ UNCHANGED <<queueVars, taskVars, budgets, lock, frame, flushed,
                   written>>

\* Refused, unreachable or timed out: there is no writer to close.
ConnectFails ==
    /\ sup = "connecting"
    /\ failures < MaxFailures
    /\ failures' = failures + 1
    /\ sup' = "sleeping"
    /\ UNCHANGED <<link, queueVars, taskVars, stops, lock, writer, connects, backoff,
                   frame, flushed, written>>

\* The head of the queue is read, then the lock is awaited.
FlushNext ==
    /\ sup = "flush"
    /\ queue # <<>>
    /\ frame' = Head(queue)
    /\ lock' = Append(lock, Flush)
    /\ sup' = "flushLock"
    /\ UNCHANGED <<link, queueVars, taskVars, budgets, writer, connects, backoff,
                   flushed, written>>

FlushEmpty ==
    /\ sup = "flush"
    /\ queue = <<>>
    /\ sup' = "reading"
    /\ UNCHANGED <<link, queueVars, taskVars, budgets, lock, writer, connects, backoff,
                   frame, flushed, written>>

FlushWrites ==
    /\ sup = "flushLock"
    /\ Holds(Flush)
    /\ WriteTo(writer, frame)
    /\ flushed' = Append(flushed, frame)
    /\ sup' = "flushDrain"
    /\ UNCHANGED <<queueVars, taskVars, budgets, lock, writer, connects, backoff, frame,
                   link>>

\* popleft removes whatever the head is by now.
FlushDrained ==
    /\ sup = "flushDrain"
    /\ link[writer] # "lost"
    /\ lock' = Tail(lock)
    /\ queue' = Tail(queue)
    /\ sup' = "flush"
    /\ UNCHANGED <<link, taskVars, budgets, dropped, enqueued, writer, connects, backoff,
                   frame, flushed, written>>

\* Mutant of FlushFails: the frame is put back at the other end.
FlushFails_Requeued ==
    /\ sup = "flushDrain"
    /\ link[writer] = "lost"
    /\ lock' = Tail(lock)
    /\ queue' = Append(Tail(queue), frame)
    /\ sup' = "reading"
    /\ UNCHANGED <<link, taskVars, budgets, dropped, enqueued, writer, connects, backoff,
                   frame, flushed, written>>

\* The rest of the queue is kept; the read loop will notice the end of the link.
FlushFails ==
    /\ sup = "flushDrain"
    /\ link[writer] = "lost"
    /\ lock' = Tail(lock)
    /\ sup' = "reading"
    /\ UNCHANGED <<link, queueVars, taskVars, budgets, writer, connects, backoff, frame,
                   flushed, written>>

\* The finally clause: forget the writer, close it.  While its buffer is not
\* empty the connection goes on taking what is written and then closes by itself.
CloseWriter ==
    /\ writer' = 0
    /\ \/ writer = 0 /\ UNCHANGED link
       \/ writer # 0 /\ link' = [link EXCEPT ![writer] = "lost"]
       \/ writer # 0 /\ link[writer] # "lost" /\ link' = [link EXCEPT ![writer] = "dead"]

\* The read ends where the server has closed its side, or with the connection.
ReadEnds ==
    /\ sup = "reading"
    /\ link[writer] \in {"dead", "lost"}
    /\ CloseWriter
    /\ sup' = "closing"
    /\ UNCHANGED <<queueVars, taskVars, budgets, lock, connects, backoff, frame, flushed,
                   written>>

ReadHandlerRaises ==
    /\ sup = "reading"
    /\ link[writer] = "up"
    /\ connects < MaxConnects
    /\ CloseWriter
    /\ sup' = "closing"
    /\ UNCHANGED <<queueVars, taskVars, budgets, lock, connects, backoff, frame, flushed,
                   written>>

\* wait_closed returns.
Closed ==
    /\ sup = "closing"
    /\ link[connects] = "lost"
    /\ sup' = "sleeping"
    /\ UNCHANGED <<link, queueVars, taskVars, budgets, lock, writer, connects, backoff,
                   frame, flushed, written>>

\* A send() that sits on a lost connection has nothing left to wait for but the
\* lock, which passes along such tasks without delay: the backoff sleep, a
\* second or more, outlasts them.
SendsSettled == \A f \in Frames : send[f] \in {"lock", "drain"} => link[captured[f]] # "lost"

Wake ==
    /\ sup = "sleeping"
    /\ SendsSettled
    /\ backoff' = IF 2 * backoff > MaxBackoff THEN MaxBackoff ELSE 2 * backoff
    /\ sup' = "connecting"
    /\ UNCHANGED <<link, queueVars, taskVars, budgets, lock, writer, connects, frame,
                   flushed, written>>

\* stop() cancels the supervisor at any await: the lock is released or given
\* up and the finally clause runs; start() begins a new one.
StopAndStart ==
    /\ stops < MaxStops
    /\ stops' = stops + 1
    /\ CloseWriter
    /\ lock' = Without(lock, Flush)
    /\ backoff' = 1
    /\ sup' = "connecting"
    /\ UNCHANGED <<queueVars, taskVars, failures, connects, frame, flushed,
                   written>>

-----------------------------------------------------------------------------
(* The network (external).                                                 *)

\* The last connection of the bound stays up.
LinkBreaks(c) ==
    /\ link[c] = "up"
    /\ c < MaxConnects
    /\ link' = [link EXCEPT ![c] = "dead"]
    /\ UNCHANGED <<queueVars, supVars, taskVars, budgets, lock, written>>

LossNoticed(c) ==
    /\ link[c] = "dead"
    /\ link' = [link EXCEPT ![c] = "lost"]
    /\ UNCHANGED <<queueVars, supVars, taskVars, budgets, lock, written>>

-----------------------------------------------------------------------------
SendStep(f) ==
    SendDisconnected(f) \/ SendConnected(f) \/ SendWrites(f) \/ SendDrained(f) \/ SendFails(f)

Supervisor ==
    \/ Connected \/ ConnectFails
    \/ FlushNext \/ FlushEmpty \/ FlushWrites \/ FlushDrained \/ FlushFails
    \/ ReadEnds \/ Closed \/ Wake

Next ==
    \/ \E f \in Frames : SendStep(f)
    \/ Supervisor
    \/ ReadHandlerRaises
    \/ StopAndStart
    \/ \E c \in Conns : LinkBreaks(c) \/ LossNoticed(c)

Spec == Init /\ [][Next]_vars

(* The event loop runs every ready task, notices broken links and attempts  *)
(* a connection again and again; attempts do not fail for ever.             *)
Fairness ==
    /\ WF_vars(Supervisor)
    /\ \A f \in Frames : WF_vars(SendWrites(f) \/ SendDrained(f) \/ SendFails(f))
    /\ \A c \in Conns : WF_vars(LossNoticed(c))

FairSpec == Spec /\ Fairness

-----------------------------------------------------------------------------
(* Properties.                                                             *)

\* Every variable in its set; the queue within queue_max.
TypeOK ==
    /\ sup \in {"connecting", "flush", "flushLock", "flushDrain", "reading", "closing", "sleeping"}
    /\ writer \in {0} \cup Conns /\ connects \in {0} \cup Conns
    /\ backoff \in 1 .. MaxBackoff
    /\ queue \in Seq(Frames) /\ Len(queue) <= QueueMax
    /\ dropped \in Nat
    /\ frame \in Frames
    /\ lock \in Seq(Frames \cup {Flush})
    /\ send \in [Frames -> {"idle", "lock", "drain", "done"}]
    /\ captured \in [Frames -> {0} \cup Conns]
    /\ link \in [Conns -> {"none", "up", "dead", "lost"}]
    /\ failures \in Nat /\ stops \in Nat
    /\ written \subseteq Frames
    /\ enqueued \in Seq(Frames) /\ flushed \in Seq(Frames)

\* Frames send() has returned for that reached no connection and wait nowhere.
Discarded == {f \in Frames : send[f] = "done" /\ f \notin written \cup Range(queue)}

\* "dropped" counts the frames lost to the full queue: a frame never disappears
\* without having been written unless dropped accounts for it, even when an
\* eviction falls between the flush reading the head and removing it.
DropsAccounted == Cardinality(Discarded) <= dropped

EnqueuedAt(f) == CHOOSE i \in DOMAIN enqueued : enqueued[i] = f

\* README "flushed in order on reconnect": the flush writes buffered frames in
\* the order they entered the queue, over any number of reconnects; a frame
\* whose drain failed may be written again, but never behind a younger one.
FlushInOrder ==
    \A i, j \in DOMAIN flushed : i < j => EnqueuedAt(flushed[i]) <= EnqueuedAt(flushed[j])

\* Buffered frames do not stay behind: with the last connection up for good the
\* queue drains and every send() returns, in spite of sends that were under way
\* when an earlier link broke, as long as the server reads what it is sent and
\* nobody cancels a send().  (stop() and start() in quick succession may
\* leave a frame in the queue until the connection after.)
QueueDrains == <>[](stops = 0 => queue = <<>>)
SendsReturn == \A f \in Frames : (send[f] # "idle") ~> (send[f] = "done")
=============================================================================
