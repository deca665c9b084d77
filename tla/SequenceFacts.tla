---------------------------- MODULE SequenceFacts ----------------------------
(***************************************************************************)
(* Facts about the range of a sequence and about sequences without         *)
(* repetitions, for the proofs about queues, windows and lists of tasks.   *)
(***************************************************************************)
EXTENDS Integers, Sequences, FiniteSets, Functions, TLAPS, SequenceTheorems,
        FiniteSetTheorems

\* No element occurs twice.
Distinct(q) == \A i, j \in 1 .. Len(q) : q[i] = q[j] => i = j

\* Elements of the range are those at the positions of the sequence.
LEMMA RangeIndex ==
    ASSUME NEW S, NEW q \in Seq(S)
    PROVE  /\ Range(q) \subseteq S
           /\ \A i \in 1 .. Len(q) : q[i] \in Range(q)
           /\ \A x \in Range(q) : \E i \in 1 .. Len(q) : x = q[i]
           /\ Range(q) = {} <=> q = <<>>
<1>1. DOMAIN q = 1 .. Len(q) /\ Len(q) \in Nat /\ \A i \in 1 .. Len(q) : q[i] \in S
  BY LenProperties
<1>2. q # <<>> => q[1] \in Range(q)
  BY <1>1, EmptySeq DEF Range
<1>3. q = <<>> => Range(q) = {}
  BY <1>1, EmptySeq DEF Range
<1>4. QED BY <1>1, <1>2, <1>3 DEF Range

\* An appended element joins the range; nothing else changes.
LEMMA AppendRange ==
    ASSUME NEW S, NEW q \in Seq(S), NEW k \in S
    PROVE  /\ Append(q, k) \in Seq(S)
           /\ Append(q, k) # <<>>
           /\ Len(Append(q, k)) = Len(q) + 1
           /\ \A i \in 1 .. Len(q) : Append(q, k)[i] = q[i]
           /\ Append(q, k)[Len(q) + 1] = k
           /\ Range(Append(q, k)) = Range(q) \cup {k}
<1>1. /\ Append(q, k) \in Seq(S)
      /\ Append(q, k) # <<>>
      /\ Len(Append(q, k)) = Len(q) + 1
      /\ \A i \in 1 .. Len(q) : Append(q, k)[i] = q[i]
      /\ Append(q, k)[Len(q) + 1] = k
      /\ Len(q) \in Nat
  BY AppendProperties, LenProperties
<1>2. DOMAIN q = 1 .. Len(q) /\ DOMAIN Append(q, k) = 1 .. (Len(q) + 1)
  BY <1>1, LenProperties
<1>3. ASSUME NEW x \in Range(q) \cup {k} PROVE x \in Range(Append(q, k))
  BY <1>1, <1>2, <1>3 DEF Range
<1>4. ASSUME NEW x \in Range(Append(q, k)) PROVE x \in Range(q) \cup {k}
  <2>1. PICK i \in 1 .. (Len(q) + 1) : x = Append(q, k)[i]
    BY <1>2 DEF Range
  <2>2. CASE i = Len(q) + 1
    BY <1>1, <2>1, <2>2
  <2>3. CASE i \in 1 .. Len(q)
    BY <1>1, <1>2, <2>1, <2>3 DEF Range
  <2>4. QED BY <1>1, <2>2, <2>3
<1>5. QED BY <1>1, <1>3, <1>4

\* The length counts, whatever is appended.
LEMMA AppendLength ==
    ASSUME NEW S, NEW q \in Seq(S), NEW x
    PROVE  Len(Append(q, x)) = Len(q) + 1 /\ Len(q) \in Nat
<1>1. q \in Seq(S \cup {x}) /\ x \in S \cup {x}
  BY SeqDef
<1>2. QED BY <1>1, AppendRange, LenProperties

\* Dropping the head takes at most that element out of the range.
LEMMA TailRange ==
    ASSUME NEW S, NEW q \in Seq(S), q # <<>>
    PROVE  /\ Tail(q) \in Seq(S)
           /\ Len(q) \in Nat \ {0}
           /\ Len(Tail(q)) = Len(q) - 1
           /\ \A i \in 1 .. (Len(q) - 1) : Tail(q)[i] = q[i + 1]
           /\ Head(q) = q[1]
           /\ Head(q) \in Range(q)
           /\ Range(q) = Range(Tail(q)) \cup {Head(q)}
<1>1. /\ Tail(q) \in Seq(S)
      /\ Len(Tail(q)) = Len(q) - 1
      /\ \A i \in 1 .. (Len(q) - 1) : Tail(q)[i] = q[i + 1]
      /\ Head(q) = q[1]
      /\ Len(q) \in Nat \ {0}
  BY HeadTailProperties, EmptySeq, LenProperties
<1>2. DOMAIN q = 1 .. Len(q) /\ DOMAIN Tail(q) = 1 .. (Len(q) - 1)
  BY <1>1, LenProperties
<1>3. Head(q) \in Range(q)
  BY <1>1, <1>2 DEF Range
<1>4. ASSUME NEW x \in Range(Tail(q)) PROVE x \in Range(q)
  <2>1. PICK i \in 1 .. (Len(q) - 1) : x = q[i + 1]
    BY <1>1, <1>2 DEF Range
  <2>2. i + 1 \in 1 .. Len(q)
    BY <1>1
  <2>3. QED BY <1>2, <2>1, <2>2 DEF Range
<1>5. ASSUME NEW x \in Range(q) PROVE x \in Range(Tail(q)) \cup {Head(q)}
  <2>1. PICK i \in 1 .. Len(q) : x = q[i]
    BY <1>2 DEF Range
  <2>2. CASE i = 1
    BY <1>1, <2>1, <2>2
  <2>3. CASE i # 1
    <3>1. i - 1 \in 1 .. (Len(q) - 1) /\ (i - 1) + 1 = i
      BY <1>1, <2>3
    <3>2. x = Tail(q)[i - 1]
      BY <1>1, <2>1, <3>1
    <3>3. QED BY <1>2, <3>1, <3>2 DEF Range
  <2>4. QED BY <2>2, <2>3
<1>6. QED BY <1>1, <1>3, <1>4, <1>5

\* A new element keeps a sequence without repetitions so.
LEMMA AppendDistinct ==
    ASSUME NEW S, NEW q \in Seq(S), Distinct(q), NEW k \in S, k \notin Range(q)
    PROVE  Distinct(Append(q, k))
<1>1. \A i \in 1 .. Len(q) : q[i] # k
  BY RangeIndex
<1>2. QED BY <1>1, AppendRange, LenProperties DEF Distinct

\* So does dropping the head, which occurs nowhere else.
LEMMA TailDistinct ==
    ASSUME NEW S, NEW q \in Seq(S), q # <<>>, Distinct(q)
    PROVE  /\ Distinct(Tail(q))
           /\ Head(q) \notin Range(Tail(q))
           /\ Range(Tail(q)) = Range(q) \ {Head(q)}
<1>1. /\ Len(q) \in Nat \ {0} /\ Len(Tail(q)) = Len(q) - 1
      /\ \A i \in 1 .. (Len(q) - 1) : Tail(q)[i] = q[i + 1]
      /\ Tail(q) \in Seq(S)
      /\ Head(q) = q[1]
      /\ Range(q) = Range(Tail(q)) \cup {Head(q)}
  BY TailRange
<1>2. \A i \in 1 .. (Len(q) - 1) : i + 1 \in 1 .. Len(q) /\ i + 1 # 1
  BY <1>1
<1>3. ASSUME NEW i \in 1 .. (Len(q) - 1), NEW j \in 1 .. (Len(q) - 1),
             Tail(q)[i] = Tail(q)[j]
      PROVE  i = j
  <2>1. q[i + 1] = q[j + 1] /\ i + 1 \in 1 .. Len(q) /\ j + 1 \in 1 .. Len(q)
    BY <1>1, <1>2, <1>3
  <2>2. i + 1 = j + 1
    BY <2>1 DEF Distinct
  <2>3. QED BY <1>1, <2>2
<1>4. Head(q) \notin Range(Tail(q))
  <2>1. SUFFICES ASSUME Head(q) \in Range(Tail(q)) PROVE FALSE
    OBVIOUS
  <2>2. PICK i \in 1 .. (Len(q) - 1) : Head(q) = Tail(q)[i]
    BY <1>1, <2>1, LenProperties DEF Range
  <2>3. q[1] = q[i + 1] /\ 1 \in 1 .. Len(q)
    BY <1>1, <2>2
  <2>4. QED BY <1>2, <2>3 DEF Distinct
<1>5. QED BY <1>1, <1>3, <1>4 DEF Distinct

\* A sequence has at most as many different elements as positions.
LEMMA RangeFinite ==
    ASSUME NEW S, NEW q \in Seq(S)
    PROVE  IsFiniteSet(Range(q)) /\ Cardinality(Range(q)) <= Len(q)
<1>1. Len(q) \in Nat /\ DOMAIN q = 1 .. Len(q) /\ q \in [1 .. Len(q) -> S]
  BY LenProperties
<1>2. q \in Surjection(1 .. Len(q), Range(q))
  <2>1. Range(q) = {q[i] : i \in 1 .. Len(q)}
    BY <1>1 DEF Range
  <2>2. q \in [1 .. Len(q) -> Range(q)]
    BY <1>1, <2>1
  <2>3. \A y \in Range(q) : \E i \in 1 .. Len(q) : q[i] = y
    BY <2>1
  <2>4. QED BY <2>2, <2>3 DEF Surjection
<1>3. IsFiniteSet(1 .. Len(q)) /\ Cardinality(1 .. Len(q)) = Len(q)
  BY <1>1, FS_Interval
<1>4. QED BY <1>2, <1>3, FS_Surjection, SMTT(30)

LEMMA SameInterval ==
    ASSUME NEW a \in Nat, NEW b \in Nat, 1 .. a = 1 .. b
    PROVE  a = b
<1>1. a > 0 => a \in 1 .. b
  OBVIOUS
<1>2. b > 0 => b \in 1 .. a
  OBVIOUS
<1>3. QED BY <1>1, <1>2

LEMMA SameLength ==
    ASSUME NEW S, NEW q \in Seq(S), NEW R, NEW r \in Seq(R), DOMAIN q = DOMAIN r
    PROVE  Len(q) = Len(r)
<1>1. Len(q) \in Nat /\ Len(r) \in Nat /\ 1 .. Len(q) = 1 .. Len(r)
  BY LenProperties
<1>2. QED BY <1>1, SameInterval, Zenon

\* Where an element is, in a sequence without repetitions.
Position(q, x) == CHOOSE i \in DOMAIN q : q[i] = x

LEMMA PositionFacts ==
    ASSUME NEW S, NEW q \in Seq(S), NEW x \in Range(q)
    PROVE  /\ Position(q, x) \in 1 .. Len(q)
           /\ q[Position(q, x)] = x
           /\ Distinct(q) => \A i \in 1 .. Len(q) : q[i] = x => i = Position(q, x)
<1>1. DOMAIN q = 1 .. Len(q)
  BY LenProperties
<1>2. \E i \in DOMAIN q : q[i] = x
  BY DEF Range
<1>3. Position(q, x) \in DOMAIN q /\ q[Position(q, x)] = x
  BY <1>2 DEF Position
<1>4. QED BY <1>1, <1>3 DEF Distinct

\* Appending a new element leaves the others where they are, ahead of it.
LEMMA AppendPosition ==
    ASSUME NEW S, NEW q \in Seq(S), Distinct(q), NEW k \in S, k \notin Range(q)
    PROVE  /\ \A x \in Range(q) : Position(Append(q, k), x) = Position(q, x)
           /\ \A x \in Range(q) : Position(q, x) < Position(Append(q, k), k)
<1> DEFINE r == Append(q, k)
<1>1. /\ r \in Seq(S) /\ Len(r) = Len(q) + 1 /\ Range(r) = Range(q) \cup {k}
      /\ \A i \in 1 .. Len(q) : r[i] = q[i]
      /\ r[Len(q) + 1] = k
      /\ Distinct(r)
      /\ Len(q) \in Nat
  BY AppendRange, AppendDistinct, LenProperties
<1> HIDE DEF r
<1>2. k \in Range(r) /\ Position(r, k) = Len(q) + 1
  <2>1. k \in Range(r) /\ Len(q) + 1 \in 1 .. Len(r)
    BY <1>1
  <2>2. QED BY <1>1, <2>1, PositionFacts
<1>3. ASSUME NEW x \in Range(q)
      PROVE  Position(r, x) = Position(q, x) /\ Position(q, x) < Position(r, k)
  <2>1. Position(q, x) \in 1 .. Len(q) /\ q[Position(q, x)] = x
    BY PositionFacts
  <2>2. x \in Range(r) /\ Position(q, x) \in 1 .. Len(r) /\ r[Position(q, x)] = x
    BY <1>1, <2>1
  <2>3. Position(r, x) = Position(q, x)
    BY <1>1, <2>2, PositionFacts
  <2>4. QED BY <1>1, <1>2, <2>1, <2>3
<1>4. QED BY <1>3 DEF r

\* One more element makes a set larger by at most one.
LEMMA AddAtMostOne ==
    ASSUME NEW S, NEW x, IsFiniteSet(S)
    PROVE  /\ IsFiniteSet(S \cup {x})
           /\ Cardinality(S \cup {x}) <= Cardinality(S) + 1
           /\ Cardinality(S \cup {x}) \in Nat
           /\ Cardinality(S) \in Nat
<1>1. IsFiniteSet(S \cup {x})
  BY FS_AddElement
<1>2. Cardinality(S \cup {x}) \in Nat /\ Cardinality(S) \in Nat
  BY <1>1, FS_CardinalityType
<1>3. CASE x \in S
  <2>1. S \cup {x} = S
    BY <1>3
  <2>2. QED BY <1>1, <1>2, <2>1
<1>4. CASE x \notin S
  <2>1. Cardinality(S \cup {x}) = Cardinality(S) + 1
    BY <1>4, FS_AddElement
  <2>2. QED BY <1>1, <1>2, <2>1
<1>5. QED BY <1>3, <1>4

\* Appending to any sequence, whatever its elements are.
LEMMA AppendAny ==
    ASSUME NEW q, q \in Seq(Range(q)), NEW x
    PROVE  /\ Append(q, x) \in Seq(Range(Append(q, x)))
           /\ Len(q) \in Nat /\ DOMAIN q = 1 .. Len(q)
           /\ Len(Append(q, x)) = Len(q) + 1
           /\ DOMAIN Append(q, x) = DOMAIN q \cup {Len(q) + 1}
           /\ Len(q) + 1 \notin DOMAIN q
           /\ \A i \in DOMAIN q : Append(q, x)[i] = q[i]
           /\ Append(q, x)[Len(q) + 1] = x
<1> DEFINE S == Range(q) \cup {x}
<1>1. Len(q) \in Nat /\ DOMAIN q = 1 .. Len(q) /\ \A i \in 1 .. Len(q) : q[i] \in Range(q)
  BY LenProperties, ElementOfSeq
<1>2. q \in Seq(S)
  <2>1. q \in [1 .. Len(q) -> S]
    BY <1>1, LenProperties
  <2>2. QED BY <1>1, <2>1, SeqDef
<1>3. x \in S
  OBVIOUS
<1> HIDE DEF S
<1>4. /\ Append(q, x) \in Seq(S) /\ Len(Append(q, x)) = Len(q) + 1
      /\ \A i \in 1 .. Len(q) : Append(q, x)[i] = q[i]
      /\ Append(q, x)[Len(q) + 1] = x
      /\ Range(Append(q, x)) = S
  <2>1. Range(Append(q, x)) = Range(q) \cup {x}
    BY <1>2, <1>3, AppendRange
  <2>2. QED BY <1>2, <1>3, <2>1, AppendRange DEF S
<1>5. DOMAIN Append(q, x) = 1 .. (Len(q) + 1)
  BY <1>4, LenProperties
<1>6. QED BY <1>1, <1>4, <1>5

\* A function on 1 .. n is a sequence.
LEMMA SequenceAny ==
    ASSUME NEW n \in Nat, NEW f, f = [i \in 1 .. n |-> f[i]]
    PROVE  f \in Seq(Range(f)) /\ Len(f) = n
<1>1. f \in [1 .. n -> Range(f)]
  BY DEF Range
<1>2. f \in Seq(Range(f))
  BY <1>1, SeqDef
<1>3. QED BY <1>1, <1>2, LenProperties

\* Replacing one element of a sequence.
LEMMA OneChanged ==
    ASSUME NEW q, q \in Seq(Range(q)), NEW i \in DOMAIN q, NEW x
    PROVE  LET p == [q EXCEPT ![i] = x]
           IN  /\ p \in Seq(Range(p)) /\ DOMAIN p = DOMAIN q /\ p[i] = x
               /\ \A j \in DOMAIN q : j # i => p[j] = q[j]
<1> DEFINE p == [q EXCEPT ![i] = x]
<1>1. Len(q) \in Nat /\ DOMAIN q = 1 .. Len(q)
  BY LenProperties
<1>2. /\ DOMAIN p = DOMAIN q /\ p[i] = x
      /\ \A j \in DOMAIN q : j # i => p[j] = q[j]
      /\ p = [j \in 1 .. Len(q) |-> p[j]]
  BY <1>1
<1> HIDE DEF p
<1>3. p \in Seq(Range(p))
  BY <1>1, <1>2, SequenceAny
<1>4. QED BY <1>2, <1>3 DEF p
=============================================================================
