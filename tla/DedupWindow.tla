----------------------------- MODULE DedupWindow -----------------------------
(***************************************************************************)
(* What the receive dedup cache of the exchange engine promises: a frame   *)
(* is a duplicate exactly when its key is among the last Window distinct   *)
(* keys accepted since the last purge.                                     *)
(***************************************************************************)
EXTENDS Naturals, Sequences, Functions

CONSTANTS Keys, Window

VARIABLES recent,   \* the keys in the window, oldest first
          answer    \* the last decision, <<key, verdict>>

Init == recent = <<>> /\ answer = <<>>

Duplicate(k) ==
    /\ k \in Range(recent)
    /\ answer' = <<k, "duplicate">>
    /\ UNCHANGED recent

Fresh(k) ==
    /\ k \notin Range(recent)
    /\ answer' = <<k, "fresh">>
    /\ recent' = Append(IF Len(recent) = Window THEN Tail(recent) ELSE recent, k)

Purge == recent' = <<>> /\ UNCHANGED answer

Next == Purge \/ \E k \in Keys : Duplicate(k) \/ Fresh(k)

Spec == Init /\ [][Next]_<<recent, answer>>
=============================================================================
