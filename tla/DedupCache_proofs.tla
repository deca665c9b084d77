-------------------------- MODULE DedupCache_proofs --------------------------
(***************************************************************************)
(* Proofs about DedupCache: type correctness, what is true of the two      *)
(* structures while the purge races with the event loop (CacheTruth), and  *)
(* that without the race they implement DedupWindow.                       *)
(***************************************************************************)
EXTENDS DedupCache, SequenceFacts

(* Type correctness: the statements between the tests and the end of       *)
(* _remember have a key to work on.                                        *)

TypeInv == TypeOK /\ (pc # "idle" => key \in Keys)

\* The window without its oldest key, when it is full.
Kept == IF Len(order) = Window THEN Tail(order) ELSE order

\* What appending does to the window, with the eviction of the deque.
LEMMA AppendKeyFacts ==
    ASSUME TypeInv, AppendKey
    PROVE  /\ key \in Keys /\ key' = key
           /\ order' = Append(Kept, key)
           /\ Kept \in Seq(Keys) /\ Len(Kept) < Window
           /\ order' \in Seq(Keys) /\ Len(order') <= Window
           /\ Range(order') = Range(Kept) \cup {key}
           /\ Range(Kept) \subseteq Range(order)
           /\ Len(order) = Window =>
                  /\ order # <<>>
                  /\ Range(order) = Range(Kept) \cup {Head(order)}
<1>1. /\ key \in Keys /\ key' = key /\ order \in Seq(Keys) /\ Len(order) <= Window
      /\ order' = Append(Kept, key)
  BY DEF TypeInv, TypeOK, AppendKey, Kept
<1>2. Window \in Nat \ {0} /\ Len(order) \in Nat
  BY <1>1, CacheAssumptions, LenProperties
<1>3. CASE Len(order) = Window
  <2>1. order # <<>>
    BY <1>2, <1>3, EmptySeq
  <2>2. /\ Kept = Tail(order) /\ Kept \in Seq(Keys) /\ Len(Kept) = Window - 1
        /\ Range(order) = Range(Kept) \cup {Head(order)}
    BY <1>1, <1>3, <2>1, TailRange DEF Kept
  <2>3. Range(order') = Range(Kept) \cup {key} /\ order' \in Seq(Keys)
        /\ Len(order') = Len(Kept) + 1
    <3> HIDE DEF Kept
    <3>1. Kept \in Seq(Keys) /\ key \in Keys
      BY <1>1, <2>2
    <3>2. QED BY <1>1, <3>1, AppendRange
  <2>4. QED BY <1>1, <1>2, <2>1, <2>2, <2>3
<1>4. CASE Len(order) # Window
  <2>1. Kept = order
    BY <1>4 DEF Kept
  <2>2. /\ Append(Kept, key) \in Seq(Keys) /\ Len(Append(Kept, key)) = Len(Kept) + 1
        /\ Range(Append(Kept, key)) = Range(Kept) \cup {key}
    BY <1>1, <2>1, AppendRange
  <2>3. QED BY <1>1, <1>2, <1>4, <2>1, <2>2
<1>5. QED BY <1>3, <1>4

LEMMA InitTypeInv == Init => TypeInv
<1>1. <<>> \in Seq(Keys) /\ Len(<<>>) = 0
  BY EmptySeq
<1>2. Window \in Nat /\ 0 <= Window
  BY CacheAssumptions
<1> SUFFICES ASSUME Init PROVE TypeInv
  OBVIOUS
<1>3. order \in Seq(Keys) /\ Len(order) <= Window
  BY <1>1, <1>2 DEF Init
<1>4. QED BY <1>3 DEF Init, TypeInv, TypeOK

LEMMA NextTypeInv == TypeInv /\ [Next]_vars => TypeInv'
<1> SUFFICES ASSUME TypeInv, [Next]_vars PROVE TypeInv'
  OBVIOUS
<1>1. ASSUME NEW k \in Keys, Receive(k) \/ Transmitted(k) PROVE TypeInv'
  BY <1>1 DEF Receive, Transmitted, TypeInv, TypeOK
<1>2. CASE IsDuplicate \/ IsPresent \/ IsFull
  BY <1>2 DEF IsDuplicate, IsPresent, IsFull, TypeInv, TypeOK
<1>3. CASE DiscardOldest
  BY <1>3 DEF DiscardOldest, TypeInv, TypeOK
<1>4. CASE AppendKey
  BY <1>4, AppendKeyFacts DEF AppendKey, TypeInv, TypeOK
<1>5. CASE AddKey
  BY <1>5 DEF AddKey, TypeInv, TypeOK
<1>6. CASE ClearSeen
  BY <1>6 DEF ClearSeen, TypeInv, TypeOK
<1>7. CASE ClearOrder
  <2>1. <<>> \in Seq(Keys) /\ Len(<<>>) = 0
    BY EmptySeq
  <2>2. QED BY <1>7, <2>1, CacheAssumptions DEF ClearOrder, TypeInv, TypeOK
<1>8. CASE UNCHANGED vars
  BY <1>8 DEF vars, TypeInv, TypeOK
<1>9. QED BY <1>1, <1>2, <1>3, <1>4, <1>5, <1>6, <1>7, <1>8 DEF Next

\* Every variable in its set, and the deque never longer than its maxlen, whatever
\* the purge thread does between the statements of _remember.
THEOREM TypeCorrect == Spec => []TypeOK
<1>1. Spec => []TypeInv
  BY InitTypeInv, NextTypeInv, PTL DEF Spec
<1>2. TypeInv => TypeOK
  BY DEF TypeInv
<1>3. QED BY <1>1, <1>2, PTL

-----------------------------------------------------------------------------
(* The keys of the window.  While the purge is between its statements the  *)
(* deque holds keys the set has lost, and may come to hold a key twice;    *)
(* clearing it puts an end to both.  At rest the deque has no repetitions  *)
(* and the set has all its keys but the one the statement in progress has  *)
(* discarded, or is about to add.                                          *)

Lacking ==
    IF pc = "append" /\ Len(order) = Window THEN {Head(order)}
    ELSE IF pc = "add" THEN {key} ELSE {}

WindowInv ==
    /\ pc = "discard" => order = <<>> \/ Len(order) = Window
    /\ pc = "append" /\ Len(order) = Window => Head(order) \notin seen
    /\ purge = "idle" =>
         /\ Distinct(order)
         /\ pc \in {"full?", "discard", "append"} => key \notin Range(order)
         /\ Range(order) \subseteq seen \cup Lacking

\* Appending in a window without repetitions.
LEMMA AppendKeyDistinct ==
    ASSUME TypeInv, WindowInv, AppendKey, purge = "idle"
    PROVE  Distinct(order') /\ Range(order') \subseteq seen \cup {key}
<1>1. /\ key \in Keys /\ order' = Append(Kept, key) /\ Kept \in Seq(Keys)
      /\ Range(order') = Range(Kept) \cup {key}
      /\ Range(Kept) \subseteq Range(order)
      /\ order \in Seq(Keys)
      /\ Len(order) = Window => order # <<>>
  BY AppendKeyFacts DEF TypeInv, TypeOK
<1>2. /\ Distinct(order) /\ key \notin Range(order)
      /\ Range(order) \subseteq seen \cup Lacking /\ pc = "append"
  BY DEF WindowInv, AppendKey
<1>3. CASE Len(order) = Window
  <2>1. Kept = Tail(order) /\ Lacking = {Head(order)}
    BY <1>2, <1>3 DEF Kept, Lacking
  <2>2. Distinct(Kept) /\ Range(Kept) = Range(order) \ {Head(order)}
    BY <1>1, <1>2, <1>3, <2>1, TailDistinct
  <2>3. QED BY <1>1, <1>2, <2>1, <2>2, AppendDistinct
<1>4. CASE Len(order) # Window
  <2>1. Kept = order /\ Lacking = {}
    BY <1>2, <1>4 DEF Kept, Lacking
  <2>2. QED BY <1>1, <1>2, <2>1, AppendDistinct
<1>5. QED BY <1>3, <1>4

LEMMA InitWindowInv == Init => WindowInv
<1>1. Len(<<>>) = 0 /\ Range(<<>>) = {} /\ <<>> \in Seq(Keys)
  BY EmptySeq, RangeIndex
<1>2. QED BY <1>1 DEF Init, WindowInv, Distinct

LEMMA NextWindowInv == TypeInv /\ WindowInv /\ [Next]_vars => WindowInv'
<1> SUFFICES ASSUME TypeInv, WindowInv, [Next]_vars PROVE WindowInv'
  OBVIOUS
<1>1. ASSUME NEW k \in Keys, Receive(k) \/ Transmitted(k) PROVE WindowInv'
  BY <1>1 DEF Receive, Transmitted, WindowInv, Lacking
<1>2. CASE IsDuplicate
  BY <1>2 DEF IsDuplicate, WindowInv, Lacking
<1>3. CASE IsPresent
  BY <1>3 DEF IsPresent, WindowInv, Lacking
<1>4. CASE IsFull
  BY <1>4 DEF IsFull, WindowInv, Lacking
<1>5. CASE DiscardOldest
  <2>1. CASE order = <<>>
    BY <1>5, <2>1 DEF DiscardOldest, WindowInv, Lacking
  <2>2. CASE order # <<>>
    <3>1. /\ pc = "discard" /\ pc' = "append" /\ seen' = seen \ {Head(order)}
          /\ Len(order) = Window /\ UNCHANGED <<order, key, purge>>
      BY <1>5, <2>2 DEF DiscardOldest, WindowInv
    <3>2. Lacking = {} /\ Lacking' = {Head(order)}
      BY <3>1 DEF Lacking
    <3>3. QED BY <3>1, <3>2 DEF WindowInv
  <2>3. QED BY <2>1, <2>2
<1>6. CASE AppendKey
  <2>1. pc' = "add" /\ Lacking' = {key} /\ UNCHANGED <<seen, purge>>
    BY <1>6 DEF AppendKey, Lacking
  <2>2. purge = "idle" => Distinct(order') /\ Range(order') \subseteq seen \cup {key}
    BY <1>6, AppendKeyDistinct
  <2>3. QED BY <2>1, <2>2 DEF WindowInv
<1>7. CASE AddKey
  BY <1>7 DEF AddKey, WindowInv, Lacking
<1>8. CASE ClearSeen
  BY <1>8 DEF ClearSeen, WindowInv
<1>9. CASE ClearOrder
  <2>1. Len(<<>>) = 0 /\ Range(<<>>) = {} /\ <<>> \in Seq(Keys) /\ Window # 0
    BY EmptySeq, RangeIndex, CacheAssumptions
  <2>2. QED BY <1>9, <2>1 DEF ClearOrder, WindowInv, Distinct
<1>10. CASE UNCHANGED vars
  BY <1>10 DEF vars, WindowInv, Lacking
<1>11. QED
  BY <1>1, <1>2, <1>3, <1>4, <1>5, <1>6, <1>7, <1>8, <1>9, <1>10 DEF Next

-----------------------------------------------------------------------------
(* What a race leaves in the set for good: while the purge is between its  *)
(* statements at most one key the deque does not hold - the key of a       *)
(* receive whose statements two purges have separated -, and after it at   *)
(* most those and the window that was cleared last.                        *)

Marked == seen \cup (IF pc = "add" THEN {key} ELSE {})

Orphans == Marked \ Range(order)

OrphansInv ==
    /\ IsFiniteSet(Orphans)
    /\ Cardinality(Orphans) <= IF purge = "order" THEN 1 ELSE Window + 1

\* No step but those of the purge makes an orphan.
LEMMA FewerOrphans ==
    ASSUME TypeInv, OrphansInv, Orphans' \subseteq Orphans, purge' = purge
    PROVE  OrphansInv'
<1>1. IsFiniteSet(Orphans') /\ Cardinality(Orphans') <= Cardinality(Orphans)
  BY FS_Subset DEF OrphansInv
<1>2. Cardinality(Orphans') \in Nat /\ Cardinality(Orphans) \in Nat /\ Window \in Nat
  BY <1>1, FS_CardinalityType, CacheAssumptions DEF OrphansInv
<1>3. QED BY <1>1, <1>2 DEF OrphansInv

\* What the set holds or is about to hold: the window and the orphans.
LEMMA HeldBounded ==
    ASSUME NEW n \in Nat, IsFiniteSet(Orphans), Cardinality(Orphans) <= n, TypeInv
    PROVE  IsFiniteSet(Marked) /\ Cardinality(Marked) <= Window + n
<1>1. /\ IsFiniteSet(Range(order)) /\ Cardinality(Range(order)) <= Len(order)
      /\ Len(order) <= Window /\ Len(order) \in Nat /\ Window \in Nat
  BY RangeFinite, LenProperties, CacheAssumptions DEF TypeInv, TypeOK
<1>2. Marked \subseteq Range(order) \cup Orphans
  BY DEF Orphans
<1>3. /\ IsFiniteSet(Range(order) \cup Orphans)
      /\ Cardinality(Range(order) \cup Orphans)
           = Cardinality(Range(order)) + Cardinality(Orphans)
             - Cardinality(Range(order) \cap Orphans)
  BY <1>1, FS_Union
<1>4. /\ IsFiniteSet(Range(order) \cap Orphans)
      /\ Cardinality(Range(order) \cap Orphans) \in Nat
      /\ Cardinality(Range(order)) \in Nat /\ Cardinality(Orphans) \in Nat
  BY <1>1, FS_Intersection, FS_CardinalityType
<1>5. IsFiniteSet(Marked) /\ Cardinality(Marked) <= Cardinality(Range(order) \cup Orphans)
  BY <1>2, <1>3, FS_Subset
<1>6. QED BY <1>1, <1>3, <1>4, <1>5, FS_CardinalityType

LEMMA InitOrphansInv == Init => OrphansInv
<1> SUFFICES ASSUME Init PROVE OrphansInv
  OBVIOUS
<1>1. Orphans = {} /\ purge = "idle"
  BY DEF Init, Orphans, Marked
<1>2. QED BY <1>1, FS_EmptySet, CacheAssumptions DEF OrphansInv

LEMMA NextOrphansInv == TypeInv /\ WindowInv /\ OrphansInv /\ [Next]_vars => OrphansInv'
<1> SUFFICES ASSUME TypeInv, WindowInv, OrphansInv, [Next]_vars PROVE OrphansInv'
  OBVIOUS
<1>1. ASSUME NEW k \in Keys, Receive(k) \/ Transmitted(k) PROVE OrphansInv'
  <2>1. Orphans' \subseteq Orphans /\ purge' = purge
    BY <1>1 DEF Receive, Transmitted, Orphans, Marked
  <2>2. QED BY <2>1, FewerOrphans
<1>2. CASE IsDuplicate \/ IsPresent \/ IsFull \/ DiscardOldest
  <2>1. Orphans' \subseteq Orphans /\ purge' = purge
    BY <1>2 DEF IsDuplicate, IsPresent, IsFull, DiscardOldest, Orphans, Marked
  <2>2. QED BY <2>1, FewerOrphans
<1>3. CASE AppendKey
  <2>1. /\ pc = "append" /\ pc' = "add" /\ UNCHANGED <<seen, key, purge>>
    BY <1>3 DEF AppendKey
  <2>2. /\ Range(order') = Range(Kept) \cup {key}
        /\ Len(order) = Window => Range(order) = Range(Kept) \cup {Head(order)}
        /\ Len(order) # Window => Range(order) = Range(Kept)
        /\ Len(order) = Window => Head(order) \notin seen
    BY <1>3, <2>1, AppendKeyFacts DEF Kept, WindowInv
  <2>3. Orphans' \subseteq Orphans
    BY <2>1, <2>2 DEF Orphans, Marked
  <2>4. QED BY <2>1, <2>3, FewerOrphans
<1>4. CASE AddKey
  <2>1. Orphans' \subseteq Orphans /\ purge' = purge
    BY <1>4 DEF AddKey, Orphans, Marked
  <2>2. QED BY <2>1, FewerOrphans
<1>5. CASE ClearSeen
  <2>1. Orphans' \subseteq {key} /\ purge' = "order"
    BY <1>5 DEF ClearSeen, Orphans, Marked
  <2>2. /\ IsFiniteSet({key}) /\ Cardinality({key}) = 1
    BY FS_Singleton
  <2>3. QED BY <2>1, <2>2, FS_Subset DEF OrphansInv
<1>6. CASE ClearOrder
  <2>1. purge = "order" /\ purge' = "idle" /\ order' = <<>> /\ Marked' = Marked
    BY <1>6 DEF ClearOrder, Marked
  <2>2. Range(order') = {}
    BY <2>1, RangeIndex, EmptySeq
  <2>3. Orphans' = Marked
    BY <2>1, <2>2 DEF Orphans
  <2>4. IsFiniteSet(Orphans) /\ Cardinality(Orphans) <= 1
    BY <2>1 DEF OrphansInv
  <2>5. IsFiniteSet(Marked) /\ Cardinality(Marked) <= Window + 1
    BY <2>4, HeldBounded
  <2>6. QED BY <2>1, <2>3, <2>5 DEF OrphansInv
<1>7. CASE UNCHANGED vars
  <2>1. Orphans' \subseteq Orphans /\ purge' = purge
    BY <1>7 DEF vars, Orphans, Marked
  <2>2. QED BY <2>1, FewerOrphans
<1>8. QED BY <1>1, <1>2, <1>3, <1>4, <1>5, <1>6, <1>7 DEF Next

\* Whatever a purge races with, the keys of the window are recognised once both are
\* at rest, and the set holds at most one more window of keys and one.
THEOREM CacheStaysTrue == Spec => []CacheTruth
<1>1. Spec => [](TypeInv /\ WindowInv /\ OrphansInv)
  BY InitTypeInv, NextTypeInv, InitWindowInv, NextWindowInv, InitOrphansInv, NextOrphansInv,
     PTL DEF Spec
<1>2. TypeInv /\ WindowInv /\ OrphansInv => CacheTruth
  <2> SUFFICES ASSUME TypeInv, WindowInv, OrphansInv PROVE CacheTruth
    OBVIOUS
  <2>1. WindowRecognised
    BY DEF WindowInv, Lacking, WindowRecognised
  <2>2. IsFiniteSet(Marked) /\ Cardinality(Marked) <= Window + (Window + 1)
    <3>1. Window + 1 \in Nat /\ Cardinality(Orphans) <= Window + 1 /\ IsFiniteSet(Orphans)
      <4>1. Window \in Nat \ {0} /\ IsFiniteSet(Orphans) /\ purge \in {"idle", "order"}
        BY CacheAssumptions DEF OrphansInv, TypeInv, TypeOK
      <4>2. Cardinality(Orphans) \in Nat
        BY <4>1, FS_CardinalityType
      <4>3. CASE purge = "order"
        BY <4>1, <4>2, <4>3 DEF OrphansInv
      <4>4. CASE purge # "order"
        BY <4>1, <4>2, <4>4 DEF OrphansInv
      <4>5. QED BY <4>3, <4>4
    <3>2. QED BY <3>1, HeldBounded
  <2>3. seen \subseteq Marked
    BY DEF Marked
  <2>4. /\ Cardinality(seen) <= Cardinality(Marked)
        /\ Cardinality(seen) \in Nat /\ Cardinality(Marked) \in Nat
    BY <2>2, <2>3, FS_Subset, FS_CardinalityType
  <2>5. QED BY <2>1, <2>2, <2>4, CacheAssumptions DEF CacheTruth, SeenBounded
<1>3. QED BY <1>1, <1>2, PTL

-----------------------------------------------------------------------------
(* Without overlap.  A purge finds the event loop between two frames, so   *)
(* that the set holds the window exactly, but for the statements that      *)
(* change the one after the other.                                         *)

SequentialInv ==
    ~ overlap =>
      /\ purge = "order" => pc = "idle" /\ seen = {}
      /\ purge = "idle" => seen = Range(order) \ Lacking
      /\ pc \in {"full?", "discard", "append"} => key \notin seen
      /\ pc = "add" => key \in Range(order)

LEMMA InitSequentialInv == Init => SequentialInv
<1>1. Range(<<>>) = {} /\ <<>> \in Seq(Keys)
  BY EmptySeq, RangeIndex
<1>2. QED BY <1>1 DEF Init, SequentialInv, Lacking

\* Whether the purge has a thread of its own is settled at the start.
LEMMA OverlapStays == [Next]_vars => overlap' = overlap
<1>1. ASSUME NEW k \in Keys, Receive(k) \/ Transmitted(k) PROVE overlap' = overlap
  BY <1>1 DEF Receive, Transmitted
<1>2. IsDuplicate \/ IsPresent \/ IsFull \/ DiscardOldest => overlap' = overlap
  BY DEF IsDuplicate, IsPresent, IsFull, DiscardOldest
<1>3. AppendKey \/ AddKey \/ ClearSeen \/ ClearOrder => overlap' = overlap
  BY DEF AppendKey, AddKey, ClearSeen, ClearOrder
<1>4. UNCHANGED vars => overlap' = overlap
  BY DEF vars
<1>5. QED BY <1>1, <1>2, <1>3, <1>4 DEF Next

LEMMA NextSequentialInv ==
    TypeInv /\ WindowInv /\ SequentialInv /\ [Next]_vars => SequentialInv'
<1> SUFFICES ASSUME TypeInv, WindowInv, SequentialInv, [Next]_vars, ~ overlap
             PROVE  SequentialInv'
  BY OverlapStays DEF SequentialInv
<1>0. purge \in {"idle", "order"} /\ overlap' = overlap
  BY OverlapStays DEF TypeInv, TypeOK
<1>1. ASSUME NEW k \in Keys, Receive(k) \/ Transmitted(k) PROVE SequentialInv'
  BY <1>0, <1>1 DEF Receive, Transmitted, SequentialInv, Lacking
<1>2. CASE IsDuplicate \/ IsPresent \/ IsFull
  BY <1>0, <1>2 DEF IsDuplicate, IsPresent, IsFull, SequentialInv, Lacking
<1>3. CASE DiscardOldest
  <2>1. CASE order = <<>>
    BY <1>0, <1>3, <2>1 DEF DiscardOldest, SequentialInv, Lacking
  <2>2. CASE order # <<>>
    <3>1. /\ pc = "discard" /\ pc' = "append" /\ seen' = seen \ {Head(order)}
          /\ Len(order) = Window /\ UNCHANGED <<order, key, purge>>
      BY <1>3, <2>2 DEF DiscardOldest, WindowInv
    <3>2. Lacking = {} /\ Lacking' = {Head(order)}
      BY <3>1 DEF Lacking
    <3>3. QED BY <1>0, <3>1, <3>2 DEF SequentialInv
  <2>3. QED BY <2>1, <2>2
<1>4. CASE AppendKey
  <2>1. /\ pc = "append" /\ pc' = "add" /\ UNCHANGED <<seen, key, purge>> /\ Lacking' = {key}
        /\ purge = "idle"
    BY <1>0, <1>4 DEF AppendKey, Lacking, SequentialInv
  <2>2. /\ Range(order') = Range(Kept) \cup {key}
        /\ Len(order) = Window => order # <<>>
        /\ order \in Seq(Keys)
    BY <1>4, AppendKeyFacts DEF TypeInv, TypeOK
  <2>3. Range(order) \ Lacking = Range(Kept)
    BY <2>1, <2>2, TailDistinct DEF Lacking, Kept, WindowInv
  <2>4. key \notin seen /\ seen = Range(order) \ Lacking
    BY <2>1 DEF SequentialInv
  <2>5. QED BY <2>1, <2>2, <2>3, <2>4 DEF SequentialInv
<1>5. CASE AddKey
  <2>1. purge = "idle" /\ pc = "add" /\ Lacking = {key} /\ Lacking' = {}
    BY <1>0, <1>5 DEF AddKey, SequentialInv, Lacking
  <2>2. key \in Range(order)
    BY <2>1 DEF SequentialInv
  <2>3. QED BY <1>5, <2>1, <2>2 DEF AddKey, SequentialInv
<1>6. CASE ClearSeen
  BY <1>0, <1>6 DEF ClearSeen, SequentialInv
<1>7. CASE ClearOrder
  <2>1. Range(<<>>) = {}
    BY EmptySeq, RangeIndex
  <2>2. QED BY <1>0, <1>7, <2>1 DEF ClearOrder, SequentialInv, Lacking
<1>8. CASE UNCHANGED vars
  BY <1>8 DEF vars, SequentialInv, Lacking
<1>9. QED BY <1>1, <1>2, <1>3, <1>4, <1>5, <1>6, <1>7, <1>8 DEF Next

LEMMA InitRefines == Init => Abstract!Init
  BY DEF Init, Abstract!Init

\* Every step decides or purges as the window does, or leaves window and answer alone.
LEMMA NextRefines ==
    TypeInv /\ WindowInv /\ SequentialInv /\ [Next]_vars
      => [overlap \/ Abstract!Next]_<<order, answer>>
<1> SUFFICES ASSUME TypeInv, WindowInv, SequentialInv, [Next]_vars, ~ overlap
             PROVE  Abstract!Next \/ UNCHANGED <<order, answer>>
  OBVIOUS
<1>0. purge \in {"idle", "order"} /\ key \in Keys \cup {NoKey} /\ (pc # "idle" => key \in Keys)
  BY DEF TypeInv, TypeOK
<1>1. ASSUME NEW k \in Keys, Receive(k) \/ Transmitted(k) PROVE UNCHANGED <<order, answer>>
  BY <1>1 DEF Receive, Transmitted
<1>2. CASE IsDuplicate
  <2>1. CASE key \in seen
    <3>1. key \in Keys /\ key \in Range(order)
      BY <1>0, <1>2, <2>1 DEF IsDuplicate, SequentialInv
    <3>2. Abstract!Duplicate(key)
      BY <1>2, <2>1, <3>1 DEF IsDuplicate, Abstract!Duplicate, Range, Abstract!Range
    <3>3. QED BY <3>1, <3>2 DEF Abstract!Next
  <2>2. CASE key \notin seen
    BY <1>2, <2>2 DEF IsDuplicate
  <2>3. QED BY <2>1, <2>2
<1>3. CASE IsPresent \/ IsFull \/ DiscardOldest \/ AddKey \/ ClearSeen
  BY <1>3 DEF IsPresent, IsFull, DiscardOldest, AddKey, ClearSeen
<1>4. CASE AppendKey
  <2>1. key \in Keys /\ key \notin Range(order)
    BY <1>0, <1>4 DEF AppendKey, SequentialInv, WindowInv
  <2>2. Abstract!Fresh(key)
    BY <1>4, <2>1 DEF AppendKey, Abstract!Fresh, Range, Abstract!Range
  <2>3. QED BY <2>1, <2>2 DEF Abstract!Next
<1>5. CASE ClearOrder
  BY <1>5 DEF ClearOrder, Abstract!Next, Abstract!Purge
<1>6. CASE UNCHANGED vars
  BY <1>6 DEF vars
<1>7. QED BY <1>1, <1>2, <1>3, <1>4, <1>5, <1>6 DEF Next

\* Unless the purge runs beside the event loop, _seen and _seen_order decide every
\* frame as the window of the last Window distinct keys does.
THEOREM WindowImplemented == Spec => ImplementsWindow
<1>1. Spec => [](TypeInv /\ WindowInv /\ SequentialInv)
  BY InitTypeInv, NextTypeInv, InitWindowInv, NextWindowInv, InitSequentialInv,
     NextSequentialInv, PTL DEF Spec
<1>2. Spec => [][overlap \/ Abstract!Next]_<<order, answer>>
  BY <1>1, NextRefines, PTL DEF Spec
<1>3. Spec => Abstract!Init
  BY InitRefines DEF Spec
<1>4. QED BY <1>2, <1>3 DEF ImplementsWindow
=============================================================================
