----------------------------- MODULE DedupCache -----------------------------
(***************************************************************************)
(* The dedup cache of iem/exchange.py statement by statement: _seen, a     *)
(* set, for membership and _seen_order, a deque with maxlen, for eviction. *)
(*                                                                         *)
(* Frames are received and sent on the event loop, one at a time from the  *)
(* duplicate test to the end of _remember.  The purge comes from POST      *)
(* /api/purge (web/routers/logs.py), a plain def endpoint that the web     *)
(* framework runs in a worker thread: with overlap its statements fall     *)
(* between those of the event loop.  One call on a set or a deque is       *)
(* atomic under the interpreter lock, and one purge runs at a time.        *)
(***************************************************************************)
EXTENDS Naturals, Sequences, FiniteSets, Functions

CONSTANTS
    Keys,       \* originator:message-id keys
    NoKey,
    Window      \* dedup_window

ASSUME CacheAssumptions ==
    /\ Window \in Nat \ {0}
    /\ NoKey \notin Keys

VARIABLES
    seen,       \* _seen
    order,      \* _seen_order
    key,        \* key of the frame in hand
    receiving,  \* whether that frame came in, or is the node's own going out
    pc,         \* statement the event loop is at
    purge,      \* statement the purge thread is at
    overlap,    \* whether the purge thread runs beside the event loop
    answer,     \* history: the last decision, <<key, verdict>>
    failed      \* history: an IndexError has ended a receive

vars == <<seen, order, key, receiving, pc, purge, overlap, answer, failed>>

Init ==
    /\ seen = {}
    /\ order = <<>>
    /\ key = NoKey /\ receiving = FALSE
    /\ pc = "idle"
    /\ purge = "idle"
    /\ overlap \in BOOLEAN
    /\ answer = <<>>
    /\ failed = FALSE

-----------------------------------------------------------------------------
(* The event loop.                                                         *)

Receive(k) ==
    /\ pc = "idle"
    /\ overlap \/ purge = "idle"
    /\ pc' = "duplicate?"
    /\ key' = k /\ receiving' = TRUE
    /\ UNCHANGED <<seen, order, purge, overlap, answer, failed>>

\* _transmit has put the node's own frame on the wire and remembers its key.
Transmitted(k) ==
    /\ pc = "idle"
    /\ overlap \/ purge = "idle"
    /\ pc' = "present?"
    /\ key' = k /\ receiving' = FALSE
    /\ UNCHANGED <<seen, order, purge, overlap, answer, failed>>

\* _is_duplicate; a duplicate is dropped.
IsDuplicate ==
    /\ pc = "duplicate?"
    /\ IF key \in seen
       THEN pc' = "idle" /\ key' = NoKey /\ answer' = <<key, "duplicate">>
       ELSE pc' = "present?" /\ UNCHANGED <<key, answer>>
    /\ UNCHANGED <<seen, order, receiving, purge, overlap, failed>>

\* _remember returns at once for a key it holds.
IsPresent ==
    /\ pc = "present?"
    /\ IF key \in seen
       THEN pc' = "idle" /\ key' = NoKey
       ELSE pc' = "full?" /\ UNCHANGED key
    /\ UNCHANGED <<seen, order, receiving, purge, overlap, answer, failed>>

IsFull ==
    /\ pc = "full?"
    /\ pc' = IF Len(order) = Window THEN "discard" ELSE "append"
    /\ UNCHANGED <<seen, order, key, receiving, purge, overlap, answer, failed>>

\* Mutant of DiscardOldest: the evicted key stays in the set.
DiscardOldest_Kept ==
    /\ pc = "discard"
    /\ pc' = "append"
    /\ UNCHANGED <<seen, order, key, receiving, purge, overlap, answer, failed>>

\* _seen.discard(_seen_order[0]); the subscript fails on a deque purged meanwhile,
\* and the exception ends the receive, or is raised to the publisher of a frame
\* that is on the wire.
DiscardOldest ==
    /\ pc = "discard"
    /\ IF order = <<>>
       THEN pc' = "idle" /\ key' = NoKey /\ failed' = (failed \/ receiving) /\ UNCHANGED seen
       ELSE pc' = "append" /\ seen' = seen \ {Head(order)} /\ UNCHANGED <<key, failed>>
    /\ UNCHANGED <<order, receiving, purge, overlap, answer>>

\* Mutant of AppendKey: a full deque drops the new key's neighbour, not the oldest.
AppendKey_NewestEvicted ==
    /\ pc = "append"
    /\ order' = Append(IF Len(order) = Window THEN SubSeq(order, 1, Window - 1) ELSE order, key)
    /\ pc' = "add"
    /\ answer' = <<key, "fresh">>
    /\ UNCHANGED <<seen, key, receiving, purge, overlap, failed>>

\* Mutant of AppendKey: the deque is created without maxlen.
AppendKey_Unbounded ==
    /\ pc = "append"
    /\ order' = Append(order, key)
    /\ pc' = "add"
    /\ answer' = <<key, "fresh">>
    /\ UNCHANGED <<seen, key, receiving, purge, overlap, failed>>

\* The deque drops its head by itself when it is at maxlen.
AppendKey ==
    /\ pc = "append"
    /\ order' = Append(IF Len(order) = Window THEN Tail(order) ELSE order, key)
    /\ pc' = "add"
    /\ answer' = <<key, "fresh">>
    /\ UNCHANGED <<seen, key, receiving, purge, overlap, failed>>

AddKey ==
    /\ pc = "add"
    /\ seen' = seen \cup {key}
    /\ pc' = "idle"
    /\ key' = NoKey
    /\ UNCHANGED <<order, receiving, purge, overlap, answer, failed>>

-----------------------------------------------------------------------------
(* clear_dedup, in the purge thread.                                       *)

ClearSeen ==
    /\ purge = "idle"
    /\ overlap \/ pc = "idle"
    /\ seen' = {}
    /\ purge' = "order"
    /\ UNCHANGED <<order, key, receiving, pc, overlap, answer, failed>>

ClearOrder ==
    /\ purge = "order"
    /\ order' = <<>>
    /\ purge' = "idle"
    /\ UNCHANGED <<seen, key, receiving, pc, overlap, answer, failed>>

Next ==
    \/ \E k \in Keys : Receive(k) \/ Transmitted(k)
    \/ IsDuplicate \/ IsPresent \/ IsFull \/ DiscardOldest \/ AppendKey \/ AddKey
    \/ ClearSeen \/ ClearOrder

Spec == Init /\ [][Next]_vars

-----------------------------------------------------------------------------
(* Properties.                                                             *)

\* Every variable in its set, and the deque never longer than its maxlen.
TypeOK ==
    /\ seen \subseteq Keys
    /\ order \in Seq(Keys) /\ Len(order) <= Window
    /\ key \in Keys \cup {NoKey} /\ receiving \in BOOLEAN
    /\ pc \in {"idle", "duplicate?", "present?", "full?", "discard", "append", "add"}
    /\ purge \in {"idle", "order"}
    /\ overlap \in BOOLEAN
    /\ failed \in BOOLEAN

\* Keys of the deque the set does not hold only while a statement of the
\* purge or of _remember is still to come: once both are at rest a key of the
\* window is always recognised as a duplicate, whatever raced with whatever.
WindowRecognised ==
    (pc = "idle" /\ purge = "idle") => Range(order) \subseteq seen

\* "Bounded dedup" (exchange.py __init__): a purge that races with receives may
\* leave keys in the set that no eviction will ever remove, but never more
\* than a second window of them and the key being added.
SeenBounded == Cardinality(seen) <= 2 * Window + 1

\* The dedup cache of the engine (iem/exchange.py _remember, clear_dedup): whatever
\* a purge races with, the keys of the window are recognised once both rest, and
\* what the race leaves behind in the set is bounded.
CacheTruth == WindowRecognised /\ SeenBounded

\* Without overlap the two structures decide every frame as the window of the
\* last Window distinct keys would.
Abstract == INSTANCE DedupWindow WITH recent <- order
ImplementsWindow ==
    Abstract!Init /\ [][overlap \/ Abstract!Next]_<<order, answer>>

\* exchange.py _on_frame: "each stage records a *specific* reason so the audit
\* log can say exactly why a frame was rejected": no received frame is left
\* undecided, neither dispatched nor dropped for a reason.
EveryFrameDecided == ~ failed
=============================================================================
