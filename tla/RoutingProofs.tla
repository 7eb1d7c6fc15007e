---------------------------- MODULE RoutingProofs ----------------------------
(***************************************************************************)
(* Proofs about the Fast Gate, its command line and the Discogs stage behind   *)
(* it, for any tracks, windows, probabilities, thresholds, batch sizes, numbers  *)
(* of threads, kills and edits: verdicts and decodes of the cascade, the files   *)
(* a run of the gate leaves, and the routes a run of the Discogs stage leaves.   *)
(***************************************************************************)
EXTENDS RoutingRun, FiniteSetTheorems, SequenceTheorems, TLAPS

-----------------------------------------------------------------------------
(* Numbers in order, and what is left of a sequence. *)

\* Every set of naturals that is not empty has a least member.
LEMMA LeastNumber ==
    ASSUME NEW S, S \subseteq Nat, S # {}
    PROVE  \E n \in S : \A m \in S : n <= m
<1> DEFINE R == OpToRel(<, Nat)
<1>1. IsWellFoundedOn(R, Nat)
    BY NatLessThanWellFounded
<1>2. \A m, n \in Nat : m < n => <<m, n>> \in R
    BY DEF OpToRel
<1> HIDE DEF R
<1>3. PICK n \in S : \A m \in S : ~(<<m, n>> \in R)
    BY <1>1, WFMin
<1>4. \A m \in S : n <= m
    <2> TAKE m \in S
    <2>1. m \in Nat /\ n \in Nat /\ ~(m < n)
        BY <1>2, <1>3
    <2> QED BY <2>1
<1> QED BY <1>4

Rising(q) == \A i, j \in DOMAIN q : i < j => q[i] < q[j]

\* Every finite set of numbers can be put in order.
LEMMA OrderIs ==
    ASSUME NEW S, S \subseteq Nat, IsFiniteSet(S)
    PROVE  \E q \in [1..Cardinality(S) -> S] : Rising(q) /\ Range(q) = S
<1> DEFINE Sortable(T) == \E q \in [1..Cardinality(T) -> T] : Rising(q) /\ Range(q) = T
           Stuck == {n \in Nat : \E T \in SUBSET Nat :
                        IsFiniteSet(T) /\ Cardinality(T) = n /\ ~Sortable(T)}
<1>1. ASSUME NEW n \in Stuck, \A m \in Stuck : n <= m PROVE FALSE
    <2>1. PICK T \in SUBSET Nat : IsFiniteSet(T) /\ Cardinality(T) = n /\ ~Sortable(T)
        BY <1>1
    <2>2. T # {}
        <3> SUFFICES ASSUME T = {} PROVE Sortable(T)
            BY <2>1
        <3>1. Cardinality(T) = 0
            BY FS_EmptySet
        <3>2. [x \in 1..0 |-> 0] \in [1..Cardinality(T) -> T]
            BY <3>1
        <3> WITNESS [x \in 1..0 |-> 0] \in [1..Cardinality(T) -> T]
        <3> QED BY DEF Rising, Range
    <2>3. PICK a \in T : \A b \in T : a <= b
        BY <2>2, LeastNumber
    <2>4. IsFiniteSet(T \ {a}) /\ Cardinality(T \ {a}) = n - 1 /\ n \in Nat /\ n # 0
        BY <2>1, <2>3, FS_RemoveElement, FS_EmptySet, FS_CardinalityType
    <2>5. Sortable(T \ {a})
        <3>1. n - 1 \in Nat /\ n - 1 \notin Stuck
            BY <1>1, <2>4
        <3> QED BY <2>4, <3>1
    <2>6. PICK q \in [1..(n - 1) -> T \ {a}] : Rising(q) /\ Range(q) = T \ {a}
        BY <2>4, <2>5
    <2> DEFINE p == [j \in 1..n |-> IF j = 1 THEN a ELSE q[j - 1]]
    <2>7. p \in [1..n -> T]
        BY <2>3, <2>4, <2>6
    <2>8. Rising(p)
        <3> SUFFICES ASSUME NEW i \in 1..n, NEW j \in 1..n, i < j PROVE p[i] < p[j]
            BY DEF Rising
        <3>1. j - 1 \in 1..(n - 1) /\ p[j] = q[j - 1] /\ q[j - 1] \in T \ {a}
            BY <2>4, <2>6
        <3>2. CASE i = 1
            <4>1. p[i] = a /\ p[j] \in T \ {a}
                BY <3>1, <3>2
            <4>2. a \in Nat /\ p[j] \in Nat /\ a <= p[j]
                BY <2>3, <4>1
            <4> QED BY <4>1, <4>2
        <3>3. CASE i # 1
            <4>1. i - 1 \in 1..(n - 1) /\ i - 1 < j - 1 /\ p[i] = q[i - 1]
                BY <2>4, <3>3
            <4> QED BY <2>6, <3>1, <4>1 DEF Rising
        <3> QED BY <3>2, <3>3
    <2>9. Range(p) = T
        <3>1. ASSUME NEW x \in T PROVE x \in Range(p)
            <4>1. CASE x = a
                <5>1. 1 \in 1..n /\ p[1] = a
                    BY <2>4
                <5> QED BY <4>1, <5>1 DEF Range
            <4>2. CASE x # a
                <5>1. PICK j \in 1..(n - 1) : q[j] = x
                    BY <2>6, <4>2 DEF Range
                <5>2. j + 1 \in 1..n /\ p[j + 1] = x
                    BY <2>4, <5>1
                <5> QED BY <5>2 DEF Range
            <4> QED BY <4>1, <4>2
        <3> QED BY <2>7, <3>1 DEF Range
    <2> HIDE DEF p
    <2>10. Sortable(T)
        BY <2>1, <2>7, <2>8, <2>9
    <2> QED BY <2>1, <2>10
<1>2. Stuck = {}
    <2> SUFFICES ASSUME Stuck # {} PROVE FALSE
        OBVIOUS
    <2>1. \E n \in Stuck : \A m \in Stuck : n <= m
        <3>1. Stuck \subseteq Nat
            OBVIOUS
        <3> HIDE DEF Stuck
        <3> QED BY <3>1, LeastNumber
    <2> QED BY <1>1, <2>1
<1>3. Cardinality(S) \in Nat
    BY FS_CardinalityType
<1> QED BY <1>2, <1>3

\* The numbers of a finite set, in order, are each of them once.
LEMMA InOrderFacts ==
    ASSUME NEW S, S \subseteq Nat, IsFiniteSet(S)
    PROVE  /\ InOrder(S) \in [1..Cardinality(S) -> S] /\ Cardinality(S) \in Nat
           /\ InOrder(S) \in Seq(S)
           /\ Rising(InOrder(S)) /\ IsInjective(InOrder(S))
           /\ Range(InOrder(S)) = S
<1> DEFINE n == Cardinality(S)
           q == InOrder(S)
<1>1. n \in Nat
    BY FS_CardinalityType
<1>2. q \in [1..n -> S] /\ Rising(q)
    BY OrderIs DEF InOrder, Rising
<1>3. IsInjective(q)
    <2> SUFFICES ASSUME NEW i \in 1..n, NEW j \in 1..n, q[i] = q[j], i # j PROVE FALSE
        BY <1>2 DEF IsInjective
    <2>1. q[i] < q[j] \/ q[j] < q[i]
        BY <1>1, <1>2 DEF Rising
    <2>2. q[i] \in Nat /\ q[j] \in Nat
        BY <1>2
    <2> HIDE DEF q
    <2> QED BY <2>1, <2>2
<1>4. q \in Seq(S)
    BY <1>1, <1>2, IsASeq
<1>5. Range(q) = S
    <2>1. Range(q) \subseteq S /\ IsFiniteSet(1..n) /\ Cardinality(1..n) = n
        BY <1>1, <1>2, FS_Interval DEF Range
    <2>2. q \in Injection(1..n, Range(q)) /\ q \in Surjection(1..n, Range(q))
        BY <1>2, <1>3 DEF Range, Injection, Surjection, IsInjective
    <2>3. q \in Bijection(1..n, Range(q))
        BY <2>2 DEF Bijection
    <2>4. IsFiniteSet(Range(q)) /\ Cardinality(Range(q)) = n
        BY <2>1, <2>3, FS_Bijection DEF ExistsBijection
    <2> QED BY <2>1, <2>4, FS_Subset
<1> QED BY <1>1, <1>2, <1>3, <1>4, <1>5

\* What Only keeps of a sequence comes from it, place by place.
LEMMA OnlyFacts ==
    ASSUME NEW S, NEW s \in Seq(S), NEW keep
    PROVE  /\ Only(s, keep) \in Seq(S)
           /\ Range(Only(s, keep)) = Range(s) \cap keep
           /\ \E at \in [DOMAIN Only(s, keep) -> DOMAIN s] :
                 /\ IsInjective(at)
                 /\ \A n \in DOMAIN Only(s, keep) : Only(s, keep)[n] = s[at[n]]
<1> DEFINE kept == {i \in DOMAIN s : s[i] \in keep}
           at == InOrder(kept)
           q == Only(s, keep)
<1>1. Len(s) \in Nat /\ DOMAIN s = 1..Len(s)
    BY LenProperties
<1>2. kept \subseteq Nat /\ IsFiniteSet(kept)
    <2>1. kept \subseteq 1..Len(s)
        BY <1>1
    <2>2. IsFiniteSet(1..Len(s))
        BY <1>1, FS_Interval
    <2> QED BY <2>1, <2>2, FS_Subset
<1>3. /\ at \in [1..Cardinality(kept) -> kept] /\ Cardinality(kept) \in Nat
      /\ IsInjective(at) /\ Range(at) = kept
    BY <1>2, InOrderFacts
<1>4. q = [n \in DOMAIN at |-> s[at[n]]]
    BY DEF Only
<1> HIDE DEF at, q
<1>5. /\ DOMAIN q = 1..Cardinality(kept) /\ DOMAIN at = DOMAIN q
      /\ \A n \in DOMAIN q : q[n] = s[at[n]] /\ at[n] \in kept
    BY <1>3, <1>4
<1>6. \A i \in kept : i \in DOMAIN s /\ s[i] \in S /\ s[i] \in keep
    BY <1>1, ElementOfSeq
<1>7. q \in [1..Cardinality(kept) -> S]
    <2>1. \A n \in DOMAIN q : q[n] \in S
        BY <1>5, <1>6
    <2> QED BY <1>3, <1>4, <1>5, <2>1
<1>8. q \in Seq(S)
    <2>1. \A n \in Nat : \A f \in [1..n -> S] : f \in Seq(S)
        BY IsASeq
    <2> QED BY <1>3, <1>7, <2>1
<1>9. Range(q) = Range(s) \cap keep
    <2>1. ASSUME NEW x \in Range(q) PROVE x \in Range(s) \cap keep
        BY <1>5, <1>6 DEF Range
    <2>2. ASSUME NEW x \in Range(s) \cap keep PROVE x \in Range(q)
        <3>1. PICK i \in DOMAIN s : s[i] = x
            BY DEF Range
        <3>2. i \in kept
            BY <3>1
        <3>3. PICK n \in DOMAIN at : at[n] = i
            BY <1>3, <3>2 DEF Range
        <3> QED BY <1>5, <3>1, <3>3 DEF Range
    <2> QED BY <2>1, <2>2
<1>10. at \in [DOMAIN q -> DOMAIN s]
    BY <1>3, <1>5
<1>11. \E map \in [DOMAIN q -> DOMAIN s] : IsInjective(map) /\ \A n \in DOMAIN q : q[n] = s[map[n]]
    BY <1>3, <1>5, <1>10
<1> QED BY <1>8, <1>9, <1>11 DEF q

LEMMA WithoutFacts ==
    ASSUME NEW S, NEW s \in Seq(S), NEW drop
    PROVE  Without(s, drop) \in Seq(S) /\ Range(Without(s, drop)) = Range(s) \ drop
<1>1. Range(s) \cap (Range(s) \ drop) = Range(s) \ drop
    OBVIOUS
<1> QED BY <1>1, OnlyFacts DEF Without

LEMMA RangeIs ==
    ASSUME NEW S, NEW s \in Seq(S)
    PROVE  /\ Len(s) \in Nat /\ DOMAIN s = 1..Len(s) /\ Range(s) \subseteq S
           /\ s = <<>> <=> Range(s) = {}
<1>1. Len(s) \in Nat /\ DOMAIN s = 1..Len(s)
    BY LenProperties
<1>2. Range(s) \subseteq S
    BY <1>1, ElementOfSeq DEF Range
<1>3. s = <<>> <=> Len(s) = 0
    BY EmptySeq
<1>4. Range(s) = {} <=> DOMAIN s = {}
    BY DEF Range
<1>5. Len(s) = 0 <=> 1..Len(s) = {}
    <2>1. Len(s) # 0 => 1 \in 1..Len(s)
        BY <1>1
    <2> QED BY <1>1, <2>1
<1>6. s = <<>> <=> Range(s) = {}
    BY <1>1, <1>3, <1>4, <1>5
<1> QED BY <1>1, <1>2, <1>6

LEMMA WiderSeq ==
    ASSUME NEW S, NEW T, S \subseteq T, NEW s \in Seq(S)
    PROVE  s \in Seq(T)
<1>1. Len(s) \in Nat /\ s \in [1..Len(s) -> S]
    BY LenProperties
<1>2. s \in [1..Len(s) -> T]
    BY <1>1
<1>3. \A n \in Nat : \A f \in [1..n -> T] : f \in Seq(T)
    BY IsASeq
<1> QED BY <1>1, <1>2, <1>3

LEMMA ConcatRange ==
    ASSUME NEW S, NEW s \in Seq(S), NEW u \in Seq(S)
    PROVE  s \o u \in Seq(S) /\ Range(s \o u) = Range(s) \cup Range(u)
<1>1. /\ s \o u \in Seq(S) /\ Len(s \o u) = Len(s) + Len(u)
      /\ \A i \in 1..(Len(s) + Len(u)) : (s \o u)[i] = IF i <= Len(s) THEN s[i] ELSE u[i - Len(s)]
    BY ConcatProperties
<1>2. /\ Len(s) \in Nat /\ DOMAIN s = 1..Len(s) /\ Len(u) \in Nat /\ DOMAIN u = 1..Len(u)
      /\ DOMAIN (s \o u) = 1..(Len(s) + Len(u))
    BY <1>1, LenProperties
<1> DEFINE both == s \o u
<1>3. ASSUME NEW x \in Range(both) PROVE x \in Range(s) \cup Range(u)
    <2>1. PICK i \in 1..(Len(s) + Len(u)) : both[i] = x
        BY <1>2 DEF Range
    <2>2. CASE i <= Len(s)
        <3>1. i \in DOMAIN s /\ s[i] = x
            BY <1>1, <1>2, <2>1, <2>2
        <3> QED BY <3>1 DEF Range
    <2>3. CASE ~(i <= Len(s))
        <3>1. i - Len(s) \in DOMAIN u /\ u[i - Len(s)] = x
            BY <1>1, <1>2, <2>1, <2>3
        <3> QED BY <3>1 DEF Range
    <2> QED BY <2>2, <2>3
<1>4. ASSUME NEW x \in Range(s) PROVE x \in Range(both)
    <2>1. PICK i \in 1..Len(s) : s[i] = x
        BY <1>2 DEF Range
    <2>2. i \in 1..(Len(s) + Len(u)) /\ both[i] = x
        BY <1>1, <1>2, <2>1
    <2> QED BY <1>2, <2>2 DEF Range
<1>5. ASSUME NEW x \in Range(u) PROVE x \in Range(both)
    <2>1. PICK i \in 1..Len(u) : u[i] = x
        BY <1>2 DEF Range
    <2>2. Len(s) + i \in 1..(Len(s) + Len(u)) /\ both[Len(s) + i] = x
        BY <1>1, <1>2, <2>1
    <2> QED BY <1>2, <2>2 DEF Range
<1> QED BY <1>1, <1>3, <1>4, <1>5

\* A sequence cut in two.
LEMMA CutRange ==
    ASSUME NEW S, NEW s \in Seq(S), NEW n \in 0..Len(s)
    PROVE  /\ SubSeq(s, 1, n) \in Seq(S) /\ SubSeq(s, n + 1, Len(s)) \in Seq(S)
           /\ Range(SubSeq(s, 1, n)) \cup Range(SubSeq(s, n + 1, Len(s))) = Range(s)
<1>1. Len(s) \in Nat /\ n \in Nat
    BY LenProperties
<1>2. /\ SubSeq(s, 1, n) \in Seq(S) /\ SubSeq(s, n + 1, Len(s)) \in Seq(S)
      /\ SubSeq(s, 1, n) \o SubSeq(s, n + 1, Len(s)) = s
    <2>1. SubSeq(s, 1, n) \in Seq(S)
        <3>1. \A i \in 1..n : s[i] \in S
            BY <1>1, ElementOfSeq
        <3> QED BY <1>1, <3>1, SubSeqProperties
    <2> DEFINE m == n + 1
               k == Len(s)
    <2>2. SubSeq(s, n + 1, Len(s)) \in Seq(S)
        <3>1. \A i \in m..k : s[i] \in S
            BY <1>1, ElementOfSeq
        <3>2. m \in Int /\ k \in Int
            BY <1>1
        <3> HIDE DEF m, k
        <3>3. SubSeq(s, m, k) \in Seq(S)
            BY <3>1, <3>2, SubSeqProperties
        <3> QED BY <3>3 DEF m, k
    <2>3. SubSeq(s, 1, n) \o SubSeq(s, n + 1, Len(s)) = SubSeq(s, 1, Len(s))
        <3>1. 1 \in 1..(Len(s) + 1) /\ n \in (1 - 1)..Len(s) /\ Len(s) \in n..Len(s)
            BY <1>1
        <3> QED BY <3>1, ConcatAdjacentSubSeq
    <2> QED BY <2>1, <2>2, <2>3, SubSeqFull
<1> DEFINE head == SubSeq(s, 1, n)
           rest == SubSeq(s, n + 1, Len(s))
<1> HIDE DEF head, rest
<1>3. head \in Seq(S) /\ rest \in Seq(S) /\ head \o rest = s
    BY <1>2 DEF head, rest
<1>4. Range(s) = Range(head) \cup Range(rest)
    <2>1. head \in Seq(S) /\ rest \in Seq(S)
        BY <1>3
    <2>2. Range(head \o rest) = Range(head) \cup Range(rest)
        BY ONLY <2>1, ConcatRange
    <2> QED BY <1>3, <2>2
<1> QED BY <1>2, <1>4 DEF head, rest

-----------------------------------------------------------------------------
(* The windows of a track. *)

AllFractions == StageAFractions \cup StageBFractions

LEMMA OffsetsAreNumbers ==
    ASSUME NEW t \in Tracks
    PROVE  \A f \in AllFractions : Offset(t, f) \in Nat
<1> DEFINE room == IF Duration[t] > Window THEN Duration[t] - Window ELSE 0
<1>1. room \in Nat
    BY GateAssumption DEF GateAssumption
<1>2. \A f \in AllFractions : f \in Nat
    BY DEF AllFractions, StageAFractions, StageBFractions
<1>3. \A a, b \in Nat : a * b \in Nat
    OBVIOUS
<1>4. \A f \in AllFractions : Offset(t, f) = room * f
    BY DEF Offset
<1> HIDE DEF room
<1> QED BY <1>1, <1>2, <1>3, <1>4

LEMMA MissingFacts ==
    ASSUME NEW t \in Tracks, NEW fractions \in {StageAFractions, StageBFractions}, NEW known
    PROVE  /\ Missing(t, fractions, known) \subseteq Nat
           /\ IsFiniteSet(Missing(t, fractions, known))
           /\ \A f \in fractions : \/ Offset(t, f) \in Missing(t, fractions, known)
                                   \/ Offset(t, f) \in DOMAIN known[t]
           /\ \A o \in Missing(t, fractions, known) : o \notin DOMAIN known[t]
<1>1. fractions \subseteq AllFractions
    BY DEF AllFractions
<1>2. DeterministicOffsets(t, fractions) \subseteq Nat
    BY <1>1, OffsetsAreNumbers DEF DeterministicOffsets
<1>3. IsFiniteSet(DeterministicOffsets(t, fractions))
    <2>1. IsFiniteSet(fractions)
        <3>1. IsFiniteSet(0..95)
            <4>1. 0 \in Int /\ 95 \in Int
                OBVIOUS
            <4> QED BY <4>1, FS_Interval
        <3>2. StageAFractions \subseteq 0..95 /\ StageBFractions \subseteq 0..95
            BY DEF StageAFractions, StageBFractions
        <3>3. fractions \subseteq 0..95
            BY <3>2
        <3> QED BY <3>1, <3>3, FS_Subset
    <2> DEFINE at == [f \in fractions |-> Offset(t, f)]
    <2>2. at \in Surjection(fractions, DeterministicOffsets(t, fractions))
        BY DEF Surjection, DeterministicOffsets
    <2> QED BY <2>1, <2>2, FS_Surjection
<1>4. Missing(t, fractions, known) \subseteq DeterministicOffsets(t, fractions)
    BY DEF Missing
<1>5. IsFiniteSet(Missing(t, fractions, known))
    BY <1>3, <1>4, FS_Subset
<1> QED BY <1>2, <1>4, <1>5 DEF Missing, DeterministicOffsets

FractionsAre == Fractions \in {StageAFractions, StageBFractions}

LEMMA FractionSets == FractionsAre
BY DEF Fractions, FractionsAre

\* The median of the same windows is the same.
LEMMA SameScore ==
    ASSUME NEW t, NEW fractions, NEW p, NEW q, \A f \in fractions : p[Offset(t, f)] = q[Offset(t, f)]
    PROVE  Aggregate(p, t, fractions) = Aggregate(q, t, fractions)
<1>1. [f \in fractions |-> p[Offset(t, f)]] = [f \in fractions |-> q[Offset(t, f)]]
    OBVIOUS
<1> QED BY <1>1 DEF Aggregate

LEMMA DecisionIsVerdict == \A thresholds, score : Decide(thresholds, score) \in Verdicts
BY DEF Decide, Verdicts

-----------------------------------------------------------------------------
(* The invariant of the gate. *)

GateTypes ==
    /\ stage \in {"idle", "A", "B"} /\ isolated \in BOOLEAN
    /\ members \in Seq(Tracks) /\ todo \in Seq(Tracks)
    /\ waiting \in Seq(Tracks) /\ submitted \in Seq(Tracks) /\ completed \subseteq Range(submitted)
    /\ pendingBatch \in Seq(Tracks \X Nat)
    /\ DOMAIN cache = Tracks /\ DOMAIN windows = Tracks /\ DOMAIN decodes = Tracks
    /\ answer \in [Tracks -> Answers \cup {NoAnswer}]

Queued == Range(submitted) \cup Range(waiting)

\* A call is about tracks the inventory could decode.
CallInv == /\ stage # "idle" => Queued \subseteq Range(members)
           /\ isolated => Len(members) = 1
           /\ (Range(members) \cup Range(todo)) \cap Unlisted = {}

\* The tracks of the stage; once the decoder is done with one, each of its windows is inferred
\* or waits for it.
Attending == IF stage = "A" THEN Range(members) ELSE Range(Uncertain(scoreA))
Covered ==
    stage # "idle" =>
        \A t \in Attending \ Queued :
            /\ t \notin Undecodable
            /\ \A f \in Fractions : \/ Offset(t, f) \in DOMAIN cache[t]
                                    \/ <<t, Offset(t, f)>> \in Range(pendingBatch)

\* Every posterior is the one of its own window.
Cached == \A t \in Tracks : \A o \in DOMAIN cache[t] : cache[t][o] = Probability[t][o]

Scored == stage = "B" =>
              /\ Range(members) \cap Undecodable = {}
              /\ \A t \in Range(members) :
                    scoreA[t] = Aggregate(Probability[t], t, StageAFractions)

Bad == Unlisted \cup Undecodable
AnswersOwn == \A t \in Tracks : /\ answer[t] \in Verdicts => answer[t] = Reference(t) /\ t \notin Bad
                                /\ answer[t] = "invalid_asset" => t \in Bad

DecodesKnown == \A t \in Tracks : Range(decodes[t]) \subseteq windows[t] /\ IsInjective(decodes[t])

\* decodes[t] is a sequence, so that one may be put behind it.
DecodesTyped == \A t \in Tracks : decodes[t] \in Seq(Int)

GateInv == /\ GateTypes /\ CallInv /\ Covered /\ Cached /\ Scored /\ AnswersOwn
           /\ DecodesKnown /\ DecodesTyped

LEMMA InitGate == GateInit => GateInv
<1> SUFFICES ASSUME GateInit PROVE GateInv
    OBVIOUS
<1>1. <<>> \in Seq(Tracks) /\ <<>> \in Seq(Tracks \X Nat) /\ <<>> \in Seq(Int) /\ Range(<<>>) = {}
    BY DEF Range
<1>2. GateTypes /\ CallInv
    BY <1>1 DEF GateInit, GateTypes, CallInv, NoPosterior
<1>3. Cached /\ Scored /\ Covered
    BY DEF GateInit, Cached, Scored, Covered, NoPosterior
<1>4. AnswersOwn
    BY DEF GateInit, AnswersOwn, NoAnswer, Verdicts
<1>5. DecodesKnown /\ DecodesTyped
    BY <1>1 DEF GateInit, DecodesKnown, DecodesTyped, IsInjective
<1> QED BY <1>2, <1>3, <1>4, <1>5 DEF GateInv

LEMMA SameGate == GateInv /\ UNCHANGED gateVars => GateInv'
<1> SUFFICES ASSUME GateInv, UNCHANGED gateVars PROVE GateInv'
    OBVIOUS
<1> USE DEF gateVars
<1>1. GateTypes' /\ CallInv'
    BY DEF GateInv, GateTypes, CallInv, Queued
<1>2. Covered'
    BY DEF GateInv, Covered, Attending, Queued, Uncertain, Fractions
<1>3. Cached' /\ Scored' /\ AnswersOwn'
    BY DEF GateInv, Cached, Scored, AnswersOwn
<1>4. DecodesKnown' /\ DecodesTyped'
    BY DEF GateInv, DecodesKnown, DecodesTyped
<1> QED BY <1>1, <1>2, <1>3, <1>4 DEF GateInv

\* What Plan gives the decoder: every track with a window to infer.
LEMMA PlanFacts ==
    ASSUME NEW tracks \in Seq(Tracks), NEW fractions, NEW known, Plan(fractions, tracks, known)
    PROVE  /\ submitted' \in Seq(Tracks) /\ waiting' \in Seq(Tracks)
           /\ completed' = {} /\ pendingBatch' = <<>>
           /\ Queued' = {t \in Range(tracks) : Missing(t, fractions, known) # {}}
<1> DEFINE all == ToDecode(fractions, tracks, known)
           first == IF Len(all) < Prefetch THEN Len(all) ELSE Prefetch
<1>1. all \in Seq(Tracks) /\ Range(all) = {t \in Range(tracks) : Missing(t, fractions, known) # {}}
    <2>1. Range(tracks) \subseteq Tracks
        BY RangeIs
    <2>2. all \in Seq(Tracks)
          /\ Range(all) = Range(tracks) \cap {t \in Tracks : Missing(t, fractions, known) # {}}
        BY OnlyFacts DEF ToDecode
    <2> QED BY <2>1, <2>2
<1>2. first \in 0..Len(all)
    <2>1. Len(all) \in Nat
        BY <1>1, RangeIs
    <2>2. Prefetch \in Nat
        BY GateAssumption DEF Prefetch, GateAssumption
    <2> QED BY <2>1, <2>2
<1>3. /\ submitted' = SubSeq(all, 1, first) /\ waiting' = SubSeq(all, first + 1, Len(all))
      /\ completed' = {} /\ pendingBatch' = <<>>
    BY DEF Plan
<1> HIDE DEF all, first
<1>4. /\ SubSeq(all, 1, first) \in Seq(Tracks) /\ SubSeq(all, first + 1, Len(all)) \in Seq(Tracks)
      /\ Range(SubSeq(all, 1, first)) \cup Range(SubSeq(all, first + 1, Len(all))) = Range(all)
    BY <1>1, <1>2, CutRange
<1> QED BY <1>1, <1>3, <1>4 DEF Queued

-----------------------------------------------------------------------------
(* The steps of the gate. *)

\* A call of classify_records begins with everything to be decoded.
LEMMA ClassifyKeeps ==
    ASSUME NEW tracks \in Seq(Tracks), Classify(tracks), Range(tracks) \cap Unlisted = {},
           todo' \in Seq(Tracks), Range(todo') \cap Unlisted = {},
           isolated' \in BOOLEAN, isolated' => Len(tracks) = 1,
           answer' \in [Tracks -> Answers \cup {NoAnswer}], AnswersOwn'
    PROVE  GateInv'
<1>1. /\ stage' = "A" /\ members' = tracks /\ cache' = NoPosterior
      /\ windows' = [t \in Tracks |-> {}] /\ decodes' = [t \in Tracks |-> <<>>]
      /\ Plan(StageAFractions, tracks, NoPosterior)
    BY DEF Classify
<1>2. /\ submitted' \in Seq(Tracks) /\ waiting' \in Seq(Tracks)
      /\ completed' = {} /\ pendingBatch' = <<>>
      /\ Queued' = {t \in Range(tracks) : Missing(t, StageAFractions, NoPosterior) # {}}
    BY <1>1, PlanFacts
<1>3. Range(tracks) \subseteq Tracks
    BY RangeIs
<1>4. Queued' = Range(tracks)
    <2>1. ASSUME NEW t \in Tracks PROVE Missing(t, StageAFractions, NoPosterior) # {}
        <3>1. Offset(t, 10) \in DeterministicOffsets(t, StageAFractions)
            BY DEF DeterministicOffsets, StageAFractions
        <3>2. DOMAIN NoPosterior[t] = {}
            BY DEF NoPosterior
        <3> QED BY <3>1, <3>2 DEF Missing
    <2> QED BY <1>2, <1>3, <2>1
<1>5. GateTypes'
    <2>1. <<>> \in Seq(Tracks \X Nat) /\ DOMAIN NoPosterior = Tracks
        BY DEF NoPosterior
    <2> QED BY <1>1, <1>2, <2>1 DEF GateTypes
<1>6. CallInv'
    BY <1>1, <1>4 DEF CallInv
<1>7. Covered'
    BY <1>1, <1>4 DEF Covered, Attending
<1>8. Cached' /\ Scored'
    BY <1>1 DEF Cached, Scored, NoPosterior
<1>9. DecodesKnown' /\ DecodesTyped'
    BY <1>1 DEF DecodesKnown, DecodesTyped, Range, IsInjective
<1> QED BY <1>5, <1>6, <1>7, <1>8, <1>9 DEF GateInv

LEMMA ProcessBatchKeeps ==
    ASSUME GateInv, NEW tracks \in Seq(Tracks), ProcessBatch(tracks)
    PROVE  GateInv'
<1> DEFINE eligible == Without(tracks, Unlisted)
<1>1. eligible \in Seq(Tracks) /\ Range(eligible) = Range(tracks) \ Unlisted
    BY WithoutFacts
<1>2. /\ stage = "idle" /\ todo = <<>> /\ todo' = todo /\ isolated' = FALSE
      /\ answer' = [t \in Tracks |-> IF t \in Range(tracks) \cap Unlisted THEN "invalid_asset"
                                     ELSE answer[t]]
    BY DEF ProcessBatch
<1>3. answer' \in [Tracks -> Answers \cup {NoAnswer}] /\ AnswersOwn'
    <2>1. answer' \in [Tracks -> Answers \cup {NoAnswer}]
        BY <1>2 DEF GateInv, GateTypes, Answers
    <2>2. AnswersOwn'
        BY <1>2 DEF GateInv, AnswersOwn, Bad, Verdicts
    <2> QED BY <2>1, <2>2
<1>4. CASE eligible = <<>>
    <2>1. UNCHANGED <<stage, members, waiting, submitted, completed, pendingBatch, windows,
                      decodes, cache, scoreA>>
        BY <1>4 DEF ProcessBatch
    <2>2. GateTypes' /\ CallInv'
        BY <1>2, <1>3, <2>1 DEF GateInv, GateTypes, CallInv, Queued
    <2>3. Covered' /\ Cached' /\ Scored'
        BY <1>2, <2>1 DEF GateInv, Covered, Cached, Scored
    <2>4. DecodesKnown' /\ DecodesTyped'
        BY <2>1 DEF GateInv, DecodesKnown, DecodesTyped
    <2> QED BY <1>3, <2>2, <2>3, <2>4 DEF GateInv
<1>5. CASE eligible # <<>>
    <2>1. Classify(eligible)
        BY <1>5 DEF ProcessBatch
    <2>2. todo' \in Seq(Tracks) /\ Range(todo') \cap Unlisted = {}
        BY <1>2 DEF GateInv, GateTypes, CallInv
    <2>3. Range(eligible) \cap Unlisted = {}
        BY <1>1
    <2> HIDE DEF eligible
    <2> QED BY <1>1, <1>2, <1>3, <2>1, <2>2, <2>3, ClassifyKeeps
<1> QED BY <1>4, <1>5

LEMMA ProcessAloneKeeps == GateInv /\ ProcessAlone => GateInv'
<1> SUFFICES ASSUME GateInv, ProcessAlone PROVE GateInv'
    OBVIOUS
<1>1. /\ todo \in Seq(Tracks) /\ todo # <<>> /\ Range(todo) \cap Unlisted = {}
      /\ Classify(<<Head(todo)>>) /\ todo' = Tail(todo) /\ isolated' = TRUE
      /\ answer' = answer
    BY DEF ProcessAlone, GateInv, GateTypes, CallInv
<1>2. Head(todo) \in Tracks /\ Tail(todo) \in Seq(Tracks)
    BY <1>1, HeadTailProperties
<1>3. Head(todo) \in Range(todo) /\ Range(Tail(todo)) \subseteq Range(todo)
    <2>1. /\ Len(todo) \in Nat /\ DOMAIN todo = 1..Len(todo) /\ Len(todo) # 0
          /\ Len(Tail(todo)) = Len(todo) - 1 /\ DOMAIN Tail(todo) = 1..(Len(todo) - 1)
          /\ \A i \in 1..(Len(todo) - 1) : Tail(todo)[i] = todo[i + 1]
        BY <1>1, <1>2, HeadTailProperties, LenProperties, EmptySeq
    <2>2. Head(todo) = todo[1] /\ 1 \in DOMAIN todo
        BY <2>1
    <2>3. ASSUME NEW x \in Range(Tail(todo)) PROVE x \in Range(todo)
        <3>1. PICK i \in 1..(Len(todo) - 1) : Tail(todo)[i] = x
            BY <2>1 DEF Range
        <3>2. i + 1 \in DOMAIN todo /\ todo[i + 1] = x
            BY <2>1, <3>1
        <3> QED BY <3>2 DEF Range
    <2> QED BY <2>2, <2>3 DEF Range
<1> DEFINE one == <<Head(todo)>>
<1>4. one \in Seq(Tracks) /\ Len(one) = 1 /\ Range(one) = {Head(todo)}
    BY <1>2 DEF Range
<1>5. Range(one) \cap Unlisted = {} /\ Range(todo') \cap Unlisted = {} /\ todo' \in Seq(Tracks)
    BY <1>1, <1>2, <1>3, <1>4
<1>6. answer' \in [Tracks -> Answers \cup {NoAnswer}] /\ AnswersOwn'
    BY <1>1 DEF GateInv, GateTypes, AnswersOwn
<1>7. Classify(one)
    BY <1>1
<1> HIDE DEF one
<1> QED BY <1>1, <1>4, <1>5, <1>6, <1>7, ClassifyKeeps

LEMMA ConcatInjective ==
    ASSUME NEW S, NEW s \in Seq(S), NEW u \in Seq(S), IsInjective(s), IsInjective(u),
           Range(s) \cap Range(u) = {}
    PROVE  IsInjective(s \o u)
<1>1. /\ s \o u \in Seq(S) /\ Len(s \o u) = Len(s) + Len(u)
      /\ \A i \in 1..(Len(s) + Len(u)) : (s \o u)[i] = IF i <= Len(s) THEN s[i] ELSE u[i - Len(s)]
    BY ConcatProperties
<1>2. /\ Len(s) \in Nat /\ DOMAIN s = 1..Len(s) /\ Len(u) \in Nat /\ DOMAIN u = 1..Len(u)
      /\ DOMAIN (s \o u) = 1..(Len(s) + Len(u))
    BY <1>1, LenProperties
<1> DEFINE both == s \o u
<1> SUFFICES ASSUME NEW i \in 1..(Len(s) + Len(u)), NEW j \in 1..(Len(s) + Len(u)),
                    both[i] = both[j], i <= j
             PROVE  i = j
    BY <1>2 DEF IsInjective
<1>3. CASE j <= Len(s)
    <2>1. i \in DOMAIN s /\ j \in DOMAIN s /\ s[i] = s[j]
        BY <1>1, <1>2, <1>3
    <2> QED BY <2>1 DEF IsInjective
<1>4. CASE ~(i <= Len(s))
    <2>1. i - Len(s) \in DOMAIN u /\ j - Len(s) \in DOMAIN u /\ u[i - Len(s)] = u[j - Len(s)]
        BY <1>1, <1>2, <1>4
    <2>2. i - Len(s) = j - Len(s)
        BY <2>1 DEF IsInjective
    <2> QED BY <1>2, <2>2
<1>5. CASE i <= Len(s) /\ ~(j <= Len(s))
    <2>1. i \in DOMAIN s /\ j - Len(s) \in DOMAIN u /\ s[i] = u[j - Len(s)]
        BY <1>1, <1>2, <1>5
    <2> QED BY <2>1 DEF Range
<1> QED BY <1>3, <1>4, <1>5

\* ffmpeg is started for windows the session does not have, each once.
LEMMA StartsAreNew ==
    ASSUME NEW t \in Tracks
    PROVE  /\ DecodeStarts(t) \in Seq(Int) /\ IsInjective(DecodeStarts(t))
           /\ Range(DecodeStarts(t)) \cap windows[t] = {}
<1> DEFINE S == (IF Duration[t] <= FullDecodeMax THEN {Full} ELSE Missing(t, Fractions, cache))
                    \ windows[t]
<1>1. DecodeStarts(t) = InOrder(S) /\ S \cap windows[t] = {}
    BY DEF DecodeStarts
<1>2. CASE S \subseteq Nat /\ IsFiniteSet(S)
    <2> HIDE DEF S
    <2>1. InOrder(S) \in Seq(S) /\ IsInjective(InOrder(S)) /\ Range(InOrder(S)) = S
        BY <1>2, InOrderFacts
    <2>2. InOrder(S) \in Seq(Int)
        <3>1. S \subseteq Int
            BY <1>2
        <3> QED BY <2>1, <3>1, WiderSeq
    <2> QED BY <1>1, <2>1, <2>2
<1>3. CASE S = {Full}
    <2>1. Cardinality({Full}) = 1
        BY FS_Singleton
    <2> DEFINE q == InOrder({Full})
    <2>2. [i \in 1..1 |-> Full] \in [1..1 -> {Full}]
        OBVIOUS
    <2>3. \A p \in [1..1 -> {Full}] : \A i, j \in DOMAIN p : i < j => p[i] < p[j]
        OBVIOUS
    <2>4. q \in [1..1 -> {Full}]
        BY <2>1, <2>2, <2>3 DEF InOrder
    <2>5. q \in Seq(Int) /\ IsInjective(q) /\ Range(q) = {Full}
        <3> HIDE DEF q
        <3>1. DOMAIN q = {1} /\ q[1] = Full
            BY <2>4
        <3>2. q = [i \in 1..1 |-> Full]
            BY <2>4
        <3>3. [i \in 1..1 |-> Full] \in Seq(Int)
            BY DEF Full
        <3> QED BY <3>1, <3>2, <3>3 DEF IsInjective, Range
    <2> QED BY <1>1, <1>3, <2>5
<1>4. \/ S \subseteq Nat /\ IsFiniteSet(S)
      \/ S = {Full}
    <2>1. CASE Duration[t] <= FullDecodeMax
        BY <2>1, FS_EmptySet
    <2>2. CASE ~(Duration[t] <= FullDecodeMax)
        <3>1. /\ Missing(t, Fractions, cache) \subseteq Nat
              /\ IsFiniteSet(Missing(t, Fractions, cache))
            BY FractionSets, MissingFacts DEF FractionsAre
        <3> QED BY <2>2, <3>1, FS_Subset
    <2> QED BY <2>1, <2>2
<1> HIDE DEF S
<1> QED BY <1>2, <1>3, <1>4

LEMMA DecodeTrackKeeps ==
    ASSUME GateInv, NEW t \in Tracks, DecodeTrack(t)
    PROVE  GateInv'
<1>1. /\ t \in Running /\ completed' = completed \cup {t}
      /\ UNCHANGED <<stage, members, isolated, todo, waiting, submitted, pendingBatch, cache,
                     scoreA, answer>>
    BY DEF DecodeTrack
<1>2. t \in Range(submitted)
    <2> DEFINE unfinished == Without(submitted, completed)
               n == IF Len(unfinished) < DecodeWorkers THEN Len(unfinished) ELSE DecodeWorkers
    <2>1. unfinished \in Seq(Tracks) /\ Range(unfinished) \subseteq Range(submitted)
        BY WithoutFacts DEF GateInv, GateTypes
    <2>2. n \in 0..Len(unfinished)
        BY <2>1, RangeIs, GateAssumption DEF GateAssumption
    <2>3. t \in Range(SubSeq(unfinished, 1, n))
        BY <1>1 DEF Running
    <2> HIDE DEF unfinished, n
    <2>4. Range(SubSeq(unfinished, 1, n)) \subseteq Range(unfinished)
        BY <2>1, <2>2, CutRange
    <2> QED BY <2>1, <2>3, <2>4
<1>3. /\ DOMAIN windows' = Tracks /\ DOMAIN decodes' = Tracks
      /\ \A u \in Tracks : \/ windows'[u] = windows[u] /\ decodes'[u] = decodes[u]
                           \/ /\ Range(DecodeStarts(u)) \cup windows[u] \subseteq windows'[u]
                              /\ decodes'[u] = decodes[u] \o DecodeStarts(u)
    <2>1. DOMAIN windows = Tracks /\ DOMAIN decodes = Tracks
        BY DEF GateInv, GateTypes
    <2>2. CASE UNCHANGED <<windows, decodes>>
        BY <2>1, <2>2
    <2>3. CASE /\ windows' = [windows EXCEPT ![t] = @ \cup Range(DecodeStarts(t))
                                                     \cup Missing(t, Fractions, cache)]
               /\ decodes' = [decodes EXCEPT ![t] = @ \o DecodeStarts(t)]
        <3>1. DOMAIN windows' = Tracks /\ DOMAIN decodes' = Tracks
            BY <2>1, <2>3
        <3>2. /\ Range(DecodeStarts(t)) \cup windows[t] \subseteq windows'[t]
              /\ decodes'[t] = decodes[t] \o DecodeStarts(t)
            BY <2>1, <2>3
        <3>3. \A u \in Tracks \ {t} : windows'[u] = windows[u] /\ decodes'[u] = decodes[u]
            BY <2>1, <2>3
        <3> QED BY <3>1, <3>2, <3>3
    <2> QED BY <2>2, <2>3 DEF DecodeTrack
<1>4. GateTypes' /\ CallInv'
    BY <1>1, <1>2, <1>3 DEF GateInv, GateTypes, CallInv, Queued
<1>5. Covered' /\ Cached' /\ Scored' /\ AnswersOwn'
    <2>1. Fractions' = Fractions /\ Attending' = Attending /\ Queued' = Queued
        BY <1>1 DEF Fractions, Attending, Queued, Uncertain
    <2>2. Covered'
        BY <1>1, <2>1 DEF GateInv, Covered
    <2>3. Cached' /\ Scored' /\ AnswersOwn'
        BY <1>1 DEF GateInv, Cached, Scored, AnswersOwn
    <2> QED BY <2>2, <2>3
<1>6. ASSUME NEW u \in Tracks
      PROVE  /\ Range(decodes[u])' \subseteq windows'[u] /\ IsInjective(decodes[u])'
             /\ decodes'[u] \in Seq(Int)
    <2>1. decodes[u] \in Seq(Int) /\ Range(decodes[u]) \subseteq windows[u] /\ IsInjective(decodes[u])
        BY DEF GateInv, DecodesKnown, DecodesTyped
    <2>2. CASE windows'[u] = windows[u] /\ decodes'[u] = decodes[u]
        BY <2>1, <2>2
    <2>3. CASE /\ Range(DecodeStarts(u)) \cup windows[u] \subseteq windows'[u]
               /\ decodes'[u] = decodes[u] \o DecodeStarts(u)
        <3>1. /\ DecodeStarts(u) \in Seq(Int) /\ IsInjective(DecodeStarts(u))
              /\ Range(decodes[u]) \cap Range(DecodeStarts(u)) = {}
            BY <2>1, StartsAreNew
        <3>2. IsInjective(decodes[u] \o DecodeStarts(u))
            BY <2>1, <3>1, ConcatInjective
        <3>3. /\ decodes[u] \o DecodeStarts(u) \in Seq(Int)
              /\ Range(decodes[u] \o DecodeStarts(u)) = Range(decodes[u]) \cup Range(DecodeStarts(u))
            BY <2>1, <3>1, ConcatRange
        <3> QED BY <2>1, <2>3, <3>2, <3>3
    <2> QED BY <1>3, <2>2, <2>3
<1>7. DecodesKnown' /\ DecodesTyped'
    BY <1>6 DEF DecodesKnown, DecodesTyped
<1> QED BY <1>4, <1>5, <1>7 DEF GateInv

\* A call that raises answers its only track or leaves its tracks to be classified alone.
LEMMA RaiseKeeps ==
    ASSUME GateInv, NEW kind \in {"invalid_asset", "error"}, Raise(kind),
           kind = "invalid_asset" /\ isolated => members[1] \in Bad
    PROVE  GateInv'
<1>1. /\ stage' = "idle" /\ waiting' = <<>> /\ submitted' = <<>> /\ completed' = {}
      /\ pendingBatch' = <<>>
      /\ UNCHANGED <<members, isolated, windows, decodes, cache, scoreA>>
    BY DEF Raise, Stop
<1>2. /\ todo' \in {todo, members}
      /\ answer' = answer \/ (isolated /\ answer' = [answer EXCEPT ![members[1]] = kind])
    BY DEF Raise
<1>3. isolated => members[1] \in Tracks
    <2> SUFFICES ASSUME isolated PROVE members[1] \in Tracks
        OBVIOUS
    <2>1. members \in Seq(Tracks) /\ Len(members) = 1
        BY DEF GateInv, GateTypes, CallInv
    <2>2. 1 \in 1..Len(members)
        BY <2>1
    <2> QED BY <2>1, <2>2, ElementOfSeq
<1>4. answer' \in [Tracks -> Answers \cup {NoAnswer}] /\ AnswersOwn'
    <2>1. answer \in [Tracks -> Answers \cup {NoAnswer}] /\ AnswersOwn
        BY DEF GateInv, GateTypes
    <2>2. CASE answer' = answer
        BY <2>1, <2>2 DEF AnswersOwn
    <2>3. CASE isolated /\ answer' = [answer EXCEPT ![members[1]] = kind]
        <3>1. answer' \in [Tracks -> Answers \cup {NoAnswer}]
            BY <1>3, <2>1, <2>3 DEF Answers
        <3>2. \A t \in Tracks : answer'[t] = IF t = members[1] THEN kind ELSE answer[t]
            BY <2>1, <2>3
        <3>3. AnswersOwn'
            BY <2>1, <2>3, <3>2 DEF AnswersOwn, Verdicts
        <3> QED BY <3>1, <3>3
    <2> QED BY <1>2, <2>2, <2>3
<1>5. GateTypes' /\ CallInv'
    <2>1. <<>> \in Seq(Tracks) /\ <<>> \in Seq(Tracks \X Nat)
        OBVIOUS
    <2> QED BY <1>1, <1>2, <1>4, <2>1 DEF GateInv, GateTypes, CallInv
<1>6. Covered' /\ Cached' /\ Scored'
    BY <1>1 DEF GateInv, Covered, Cached, Scored
<1>7. DecodesKnown' /\ DecodesTyped'
    BY <1>1 DEF GateInv, DecodesKnown, DecodesTyped
<1> QED BY <1>4, <1>5, <1>6, <1>7 DEF GateInv

\* The next of the waiting is given to the decoder.
LEMMA RefillFacts ==
    ASSUME NEW S, NEW s \in Seq(S)
    PROVE  /\ SubSeq(s, 1, IF s = <<>> THEN 0 ELSE 1) \in Seq(S) /\ SubSeq(s, 2, Len(s)) \in Seq(S)
           /\ Range(SubSeq(s, 1, IF s = <<>> THEN 0 ELSE 1)) \cup Range(SubSeq(s, 2, Len(s)))
                = Range(s)
<1>1. CASE s # <<>>
    <2>1. 1 \in 0..Len(s) /\ 1 + 1 = 2
        BY <1>1, LenProperties, EmptySeq
    <2>2. /\ SubSeq(s, 1, 1) \in Seq(S) /\ SubSeq(s, 1 + 1, Len(s)) \in Seq(S)
          /\ Range(SubSeq(s, 1, 1)) \cup Range(SubSeq(s, 1 + 1, Len(s))) = Range(s)
        BY <2>1, CutRange
    <2> QED BY <1>1, <2>1, <2>2
<1>2. CASE s = <<>>
    <2>1. Len(s) = 0
        BY <1>2
    <2>2. SubSeq(s, 1, 0) = <<>> /\ SubSeq(s, 2, 0) = <<>>
        <3>1. \A i \in 1..0 : s[i] \in S
            OBVIOUS
        <3>2. \A i \in 2..0 : s[i] \in S
            OBVIOUS
        <3>3. SubSeq(s, 1, 0) \in Seq(S) /\ Len(SubSeq(s, 1, 0)) = 0
            BY <3>1, SubSeqProperties
        <3>4. SubSeq(s, 2, 0) \in Seq(S) /\ Len(SubSeq(s, 2, 0)) = 0
            BY <3>2, SubSeqProperties
        <3> QED BY <3>3, <3>4, EmptySeq
    <2>3. <<>> \in Seq(S) /\ Range(<<>>) = {}
        BY DEF Range
    <2> QED BY <1>2, <2>1, <2>2, <2>3
<1> QED BY <1>1, <1>2

LEMMA CollectKeeps ==
    ASSUME GateInv, NEW t \in Tracks, Collect(t)
    PROVE  GateInv'
<1>1. /\ stage # "idle" /\ t \in completed
      /\ members \in Seq(Tracks) /\ submitted \in Seq(Tracks) /\ waiting \in Seq(Tracks)
      /\ pendingBatch \in Seq(Tracks \X Nat)
      /\ completed \subseteq Range(submitted) /\ Queued \subseteq Range(members)
    BY DEF Collect, GateInv, GateTypes, CallInv
<1>2. CASE t \in Undecodable
    <2>1. Raise("invalid_asset")
        BY <1>2 DEF Collect
    <2>2. isolated => members[1] \in Bad
        <3> SUFFICES ASSUME isolated PROVE members[1] = t
            BY <1>2 DEF Bad
        <3>1. t \in Range(members)
            BY <1>1 DEF Queued
        <3>2. DOMAIN members = 1..1
            BY <1>1, RangeIs DEF GateInv, CallInv
        <3> QED BY <3>1, <3>2 DEF Range
    <2> QED BY <2>1, <2>2, RaiseKeeps
<1>3. CASE t \notin Undecodable
    <2> DEFINE left == Without(submitted, {t})
               next == SubSeq(waiting, 1, IF waiting = <<>> THEN 0 ELSE 1)
               S == Missing(t, Fractions, cache)
               wanted == InOrder(S)
               more == [i \in DOMAIN wanted |-> <<t, wanted[i]>>]
    <2>1. /\ submitted' = left \o next /\ waiting' = SubSeq(waiting, 2, Len(waiting))
          /\ completed' = completed \ {t} /\ pendingBatch' = pendingBatch \o more
          /\ UNCHANGED <<stage, members, isolated, todo, windows, decodes, cache, scoreA, answer>>
        BY <1>3 DEF Collect
    <2>2. left \in Seq(Tracks) /\ Range(left) = Range(submitted) \ {t}
        BY <1>1, WithoutFacts
    <2>3. /\ next \in Seq(Tracks) /\ waiting' \in Seq(Tracks)
          /\ Range(next) \cup Range(waiting') = Range(waiting)
        BY <1>1, <2>1, RefillFacts
    <2>4. /\ S \subseteq Nat /\ IsFiniteSet(S)
          /\ \A f \in Fractions : Offset(t, f) \in S \/ Offset(t, f) \in DOMAIN cache[t]
        BY FractionSets, MissingFacts DEF FractionsAre
    <2> HIDE DEF left, next, S
    <2>5. /\ wanted \in [1..Cardinality(S) -> S] /\ Cardinality(S) \in Nat /\ Range(wanted) = S
        BY <2>4, InOrderFacts
    <2>6. more \in Seq(Tracks \X Nat) /\ \A o \in S : <<t, o>> \in Range(more)
        <3> HIDE DEF wanted
        <3>1. more \in [1..Cardinality(S) -> Tracks \X Nat]
            BY <2>4, <2>5
        <3>2. \A n \in Nat : \A f \in [1..n -> Tracks \X Nat] : f \in Seq(Tracks \X Nat)
            BY IsASeq
        <3>3. \A o \in S : \E i \in DOMAIN wanted : wanted[i] = o
            BY <2>5 DEF Range
        <3>4. \A o \in S : <<t, o>> \in Range(more)
            BY <3>3 DEF Range
        <3> QED BY <2>5, <3>1, <3>2, <3>4
    <2> HIDE DEF more
    <2>7. /\ submitted' \in Seq(Tracks) /\ Range(submitted') = Range(left) \cup Range(next)
          /\ pendingBatch' \in Seq(Tracks \X Nat)
          /\ Range(pendingBatch') = Range(pendingBatch) \cup Range(more)
        <3>1. left \o next \in Seq(Tracks) /\ Range(left \o next) = Range(left) \cup Range(next)
            BY <2>2, <2>3, ConcatRange
        <3>2. /\ pendingBatch \o more \in Seq(Tracks \X Nat)
              /\ Range(pendingBatch \o more) = Range(pendingBatch) \cup Range(more)
            BY <1>1, <2>6, ConcatRange
        <3> QED BY <2>1, <3>1, <3>2
    <2>8. Queued' \subseteq Queued /\ Queued \ {t} \subseteq Queued'
        BY <2>2, <2>3, <2>7 DEF Queued
    <2>9. GateTypes' /\ CallInv'
        <3>1. completed' \subseteq Range(submitted')
            BY <1>1, <2>1, <2>2, <2>7
        <3> QED BY <1>1, <2>1, <2>3, <2>7, <2>8, <3>1 DEF GateInv, GateTypes, CallInv
    <2>10. Covered'
        <3>1. Fractions' = Fractions /\ Attending' = Attending
            BY <2>1 DEF Fractions, Attending, Uncertain
        <3> SUFFICES ASSUME NEW u \in Attending \ Queued'
                     PROVE  /\ u \notin Undecodable
                            /\ \A f \in Fractions : \/ Offset(u, f) \in DOMAIN cache[u]
                                                    \/ <<u, Offset(u, f)>> \in Range(pendingBatch')
            BY <2>1, <3>1 DEF Covered
        <3>2. CASE u = t
            BY <1>3, <2>4, <2>6, <2>7, <3>2
        <3>3. CASE u # t
            <4>1. u \in Attending \ Queued
                BY <2>8, <3>3
            <4> QED BY <1>1, <2>7, <4>1 DEF GateInv, Covered
        <3> QED BY <3>2, <3>3
    <2>11. Cached' /\ Scored' /\ AnswersOwn'
        BY <2>1 DEF GateInv, Cached, Scored, AnswersOwn
    <2>12. DecodesKnown' /\ DecodesTyped'
        BY <2>1 DEF GateInv, DecodesKnown, DecodesTyped
    <2> QED BY <2>9, <2>10, <2>11, <2>12 DEF GateInv
<1> QED BY <1>2, <1>3

LEMMA InferPendingKeeps ==
    ASSUME GateInv, InferPending
    PROVE  GateInv'
<1> DEFINE take == IF Len(pendingBatch) < Batch THEN Len(pendingBatch) ELSE Batch
           chunk == SubSeq(pendingBatch, 1, take)
           rest == SubSeq(pendingBatch, take + 1, Len(pendingBatch))
           rows == Posteriors(chunk)
           At(u) == {j \in 1..take : chunk[j][1] = u}
<1>1. /\ stage # "idle" /\ pendingBatch' = rest
      /\ cache' = [u \in Tracks |->
             [o \in DOMAIN cache[u] \cup {chunk[i][2] : i \in At(u)} |->
                 IF o \in DOMAIN cache[u] THEN cache[u][o]
                 ELSE LET i == CHOOSE j \in 1..take : chunk[j] = <<u, o>> IN rows[i][2]]]
      /\ UNCHANGED <<stage, members, isolated, todo, waiting, submitted, completed, windows,
                     decodes, scoreA, answer>>
    BY DEF InferPending
<1>2. pendingBatch \in Seq(Tracks \X Nat)
    BY DEF GateInv, GateTypes
<1>3. take \in 0..Len(pendingBatch)
    <2>1. Len(pendingBatch) \in Nat /\ Batch \in Nat
        BY <1>2, RangeIs, GateAssumption DEF Batch, GateAssumption
    <2> QED BY <2>1
<1>4. /\ chunk \in Seq(Tracks \X Nat) /\ rest \in Seq(Tracks \X Nat)
      /\ Range(chunk) \cup Range(rest) = Range(pendingBatch)
    <2> HIDE DEF take
    <2> QED BY <1>2, <1>3, CutRange
<1>5. DOMAIN chunk = 1..take
    <2> HIDE DEF take
    <2>1. take \in Nat /\ 1 \in Nat
        BY <1>2, <1>3, RangeIs
    <2>2. \A i \in 1..take : pendingBatch[i] \in Tracks \X Nat
        BY <1>2, <1>3, RangeIs, ElementOfSeq
    <2>3. DOMAIN SubSeq(pendingBatch, 1, take) = 1..(IF 1 <= take THEN take - 1 + 1 ELSE 0)
        BY <2>1, <2>2, SubSeqProperties
    <2> QED BY <2>1, <2>3
<1>6. rows = [i \in 1..take |-> <<chunk[i], Probability[chunk[i][1]][chunk[i][2]]>>]
    <2> HIDE DEF take
    <2>1. Len(chunk) = take
        BY <1>2, <1>3, <1>4, <1>5, RangeIs
    <2> HIDE DEF chunk
    <2> QED BY <2>1 DEF Posteriors
<1>7. \A i \in 1..take : chunk[i] \in Tracks \X Nat
    BY <1>4, <1>5, ElementOfSeq, RangeIs
<1> HIDE DEF take, chunk, rest, rows
<1>8. ASSUME NEW u \in Tracks, NEW o \in DOMAIN cache'[u]
      PROVE  cache'[u][o] = Probability[u][o]
    <2>1. CASE o \in DOMAIN cache[u]
        BY <1>1, <2>1 DEF GateInv, Cached
    <2>2. CASE o \notin DOMAIN cache[u]
        <3>1. PICK j \in 1..take : chunk[j][1] = u /\ chunk[j][2] = o
            BY <1>1, <2>2
        <3>2. chunk[j] = <<u, o>>
            BY <1>7, <3>1
        <3> DEFINE i == CHOOSE k \in 1..take : chunk[k] = <<u, o>>
        <3>3. i \in 1..take /\ chunk[i] = <<u, o>>
            BY <3>2
        <3>4. cache'[u][o] = rows[i][2]
            BY <1>1, <2>2
        <3> HIDE DEF i
        <3> QED BY <1>6, <3>3, <3>4
    <2> QED BY <2>1, <2>2
<1>9. ASSUME NEW u \in Tracks, NEW o \in Nat,
             o \in DOMAIN cache[u] \/ <<u, o>> \in Range(pendingBatch)
      PROVE  o \in DOMAIN cache'[u] \/ <<u, o>> \in Range(pendingBatch')
    <2>1. DOMAIN cache'[u] = DOMAIN cache[u] \cup {chunk[i][2] : i \in At(u)}
        BY <1>1
    <2>2. CASE <<u, o>> \in Range(chunk)
        <3>1. PICK i \in 1..take : chunk[i] = <<u, o>>
            BY <1>5, <2>2 DEF Range
        <3>2. i \in At(u) /\ chunk[i][2] = o
            BY <3>1
        <3> QED BY <2>1, <3>2
    <2> QED BY <1>1, <1>4, <1>9, <2>1, <2>2
<1>10. GateTypes' /\ CallInv'
    BY <1>1, <1>4 DEF GateInv, GateTypes, CallInv, Queued
<1>11. Covered'
    <2>1. Fractions' = Fractions /\ Attending' = Attending /\ Queued' = Queued
        BY <1>1 DEF Fractions, Attending, Queued, Uncertain
    <2> SUFFICES ASSUME NEW u \in Attending \ Queued
                 PROVE  /\ u \notin Undecodable
                        /\ \A f \in Fractions : \/ Offset(u, f) \in DOMAIN cache'[u]
                                                \/ <<u, Offset(u, f)>> \in Range(pendingBatch')
        BY <1>1, <2>1 DEF Covered
    <2>2. u \in Tracks
        <3>1. members \in Seq(Tracks)
            BY DEF GateInv, GateTypes
        <3> QED BY <3>1, RangeIs, OnlyFacts DEF Attending, Uncertain
    <2>3. \A f \in Fractions : Offset(u, f) \in Nat
        <3>1. Fractions \subseteq AllFractions
            BY FractionSets DEF FractionsAre, AllFractions
        <3> QED BY <2>2, <3>1, OffsetsAreNumbers
    <2> QED BY <1>1, <1>9, <2>2, <2>3 DEF GateInv, Covered
<1>12. Cached' /\ Scored' /\ AnswersOwn'
    BY <1>1, <1>8 DEF GateInv, Cached, Scored, AnswersOwn
<1>13. DecodesKnown' /\ DecodesTyped'
    BY <1>1 DEF GateInv, DecodesKnown, DecodesTyped
<1> QED BY <1>10, <1>11, <1>12, <1>13 DEF GateInv

\* The tracks stage A leaves for review.
LEMMA ReviewFacts ==
    ASSUME NEW scores, members \in Seq(Tracks)
    PROVE  /\ Uncertain(scores) \in Seq(Tracks)
           /\ Range(Uncertain(scores))
                = {t \in Range(members) : Decide(StageA, scores[t]) = "review"}
<1>1. Range(members) \subseteq Tracks
    BY RangeIs
<1>2. /\ Uncertain(scores) \in Seq(Tracks)
      /\ Range(Uncertain(scores))
           = Range(members) \cap {t \in Tracks : Decide(StageA, scores[t]) = "review"}
    BY OnlyFacts DEF Uncertain
<1> QED BY <1>1, <1>2

\* When a stage is over, the posteriors of its tracks give their scores.
LEMMA ScoresAreOwn ==
    ASSUME GateInv, stage # "idle", Inferred, NEW t \in Attending
    PROVE  /\ t \notin Undecodable
           /\ Aggregate(cache[t], t, Fractions) = Aggregate(Probability[t], t, Fractions)
<1>1. Queued = {} /\ Range(pendingBatch) = {}
    BY DEF Inferred, Exhausted, Queued, Range
<1>2. t \notin Undecodable /\ \A f \in Fractions : Offset(t, f) \in DOMAIN cache[t]
    BY <1>1 DEF GateInv, Covered
<1>3. t \in Tracks
    <2>1. members \in Seq(Tracks)
        BY DEF GateInv, GateTypes
    <2> QED BY <2>1, RangeIs, ReviewFacts DEF Attending
<1>4. \A f \in Fractions : cache[t][Offset(t, f)] = Probability[t][Offset(t, f)]
    BY <1>2, <1>3 DEF GateInv, Cached
<1> QED BY <1>2, <1>4, SameScore

LEMMA EndStageAKeeps ==
    ASSUME GateInv, EndStageA
    PROVE  GateInv'
<1> DEFINE scores == [t \in Tracks |-> IF t \in Range(members)
                                       THEN Aggregate(cache[t], t, StageAFractions) ELSE 0]
<1>1. /\ stage = "A" /\ Inferred /\ scoreA' = scores
      /\ UNCHANGED <<members, isolated, todo, windows, decodes>>
    BY DEF EndStageA
<1>2. /\ members \in Seq(Tracks) /\ Range(members) \subseteq Tracks
      /\ todo \in Seq(Tracks) /\ isolated \in BOOLEAN
      /\ answer \in [Tracks -> Answers \cup {NoAnswer}] /\ DOMAIN cache = Tracks
      /\ DOMAIN windows = Tracks /\ DOMAIN decodes = Tracks
    BY RangeIs DEF GateInv, GateTypes
<1>3. \A t \in Range(members) :
         /\ t \notin Bad
         /\ scores[t] = Aggregate(Probability[t], t, StageAFractions)
    <2> TAKE t \in Range(members)
    <2>1. t \in Attending /\ Fractions = StageAFractions /\ stage # "idle"
        BY <1>1 DEF Attending, Fractions
    <2>2. /\ t \notin Undecodable
          /\ Aggregate(cache[t], t, StageAFractions) = Aggregate(Probability[t], t, StageAFractions)
        BY <1>1, <2>1, ScoresAreOwn
    <2>3. t \notin Unlisted
        BY DEF GateInv, CallInv
    <2> QED BY <1>2, <2>2, <2>3 DEF Bad
<1>4. DecodesKnown' /\ DecodesTyped'
    BY <1>1 DEF GateInv, DecodesKnown, DecodesTyped
<1> HIDE DEF scores
<1>6. /\ Uncertain(scores) \in Seq(Tracks)
      /\ Range(Uncertain(scores)) = {t \in Range(members) : Decide(StageA, scores[t]) = "review"}
    BY <1>2, ReviewFacts
<1>7. CASE Uncertain(scores) = <<>>
    <2>1. /\ stage' = "idle" /\ waiting' = <<>> /\ submitted' = <<>> /\ completed' = {}
          /\ pendingBatch' = <<>> /\ cache' = cache
          /\ answer' = [t \in Tracks |-> IF t \in Range(members)
                                         THEN Decide(StageA, scores[t]) ELSE answer[t]]
        BY <1>7 DEF EndStageA, Stop, scores
    <2>2. <<>> \in Seq(Tracks) /\ <<>> \in Seq(Tracks \X Nat) /\ Range(<<>>) = {}
        BY DEF Range
    <2>3. \A t \in Range(members) : /\ Decide(StageA, scores[t]) \in Verdicts
                                    /\ Decide(StageA, scores[t]) = Reference(t)
        <3> TAKE t \in Range(members)
        <3>1. Decide(StageA, scores[t]) # "review"
            BY <1>6, <1>7, <2>2
        <3> QED BY <1>3, <3>1, DecisionIsVerdict DEF Reference
    <2>4. answer' \in [Tracks -> Answers \cup {NoAnswer}]
        BY <1>2, <2>1, <2>3 DEF Answers
    <2>5. AnswersOwn'
        BY <1>3, <2>1, <2>3 DEF GateInv, AnswersOwn, Verdicts
    <2>6. GateTypes' /\ CallInv'
        BY <1>1, <1>2, <2>1, <2>2, <2>4 DEF GateInv, GateTypes, CallInv
    <2>7. Covered' /\ Cached' /\ Scored'
        BY <2>1 DEF GateInv, Covered, Cached, Scored
    <2> QED BY <1>4, <2>5, <2>6, <2>7 DEF GateInv
<1>8. CASE Uncertain(scores) # <<>>
    <2>1. /\ stage' = "B" /\ cache' = KnownToB /\ answer' = answer
          /\ Plan(StageBFractions, Uncertain(scores), KnownToB)
        BY <1>8 DEF EndStageA, scores
    <2>2. /\ submitted' \in Seq(Tracks) /\ waiting' \in Seq(Tracks)
          /\ completed' = {} /\ pendingBatch' = <<>>
          /\ Queued' = {t \in Range(Uncertain(scores)) : Missing(t, StageBFractions, KnownToB) # {}}
        BY <1>6, <2>1, PlanFacts
    <2>3. Cached' /\ DOMAIN cache' = Tracks
        BY <1>2, <2>1 DEF GateInv, Cached, KnownToB, NoPosterior
    <2>4. GateTypes'
        <3>1. <<>> \in Seq(Tracks \X Nat)
            OBVIOUS
        <3> QED BY <1>1, <1>2, <2>1, <2>2, <2>3, <3>1 DEF GateTypes
    <2>5. CallInv'
        <3>1. Queued' \subseteq Range(members)
            BY <1>6, <2>2
        <3> QED BY <1>1, <2>1, <3>1 DEF GateInv, CallInv
    <2>6. Covered'
        <3>1. Fractions' = StageBFractions /\ Attending' = Range(Uncertain(scores))
            BY <1>1, <2>1 DEF Fractions, Attending, Uncertain
        <3> SUFFICES ASSUME NEW t \in Range(Uncertain(scores)) \ Queued'
                     PROVE  /\ t \notin Undecodable
                            /\ \A f \in StageBFractions : Offset(t, f) \in DOMAIN KnownToB[t]
            BY <2>1, <3>1 DEF Covered
        <3>2. t \in Range(members) /\ t \in Tracks
            BY <1>2, <1>6
        <3>3. Missing(t, StageBFractions, KnownToB) = {}
            BY <2>2
        <3>4. \A f \in StageBFractions : \/ Offset(t, f) \in Missing(t, StageBFractions, KnownToB)
                                         \/ Offset(t, f) \in DOMAIN KnownToB[t]
            BY <3>2, MissingFacts
        <3> QED BY <1>3, <3>2, <3>3, <3>4 DEF Bad
    <2>7. Scored' /\ AnswersOwn'
        BY <1>1, <1>3, <2>1 DEF GateInv, Scored, AnswersOwn, Bad
    <2> QED BY <1>4, <2>3, <2>4, <2>5, <2>6, <2>7 DEF GateInv
<1> QED BY <1>7, <1>8

LEMMA EndStageBKeeps ==
    ASSUME GateInv, EndStageB
    PROVE  GateInv'
<1> DEFINE review == Range(Uncertain(scoreA))
<1>1. /\ stage = "B" /\ Inferred
      /\ stage' = "idle" /\ waiting' = <<>> /\ submitted' = <<>> /\ completed' = {}
      /\ pendingBatch' = <<>>
      /\ answer' = [t \in Tracks |->
            IF t \notin Range(members) THEN answer[t]
            ELSE IF t \in review THEN Decide(StageB, Aggregate(cache[t], t, StageBFractions))
            ELSE Decide(StageA, scoreA[t])]
      /\ UNCHANGED <<members, isolated, todo, windows, decodes, cache, scoreA>>
    BY DEF EndStageB, Stop
<1>2. members \in Seq(Tracks) /\ answer \in [Tracks -> Answers \cup {NoAnswer}]
    BY DEF GateInv, GateTypes
<1>3. review = {t \in Range(members) : Decide(StageA, scoreA[t]) = "review"}
    BY <1>2, ReviewFacts
<1>4. \A t \in Range(members) :
         /\ t \notin Bad
         /\ scoreA[t] = Aggregate(Probability[t], t, StageAFractions)
    BY <1>1 DEF GateInv, Scored, CallInv, Bad
<1>5. \A t \in review :
         Aggregate(cache[t], t, StageBFractions) = Aggregate(Probability[t], t, StageBFractions)
    <2> TAKE t \in review
    <2>1. t \in Attending /\ Fractions = StageBFractions /\ stage # "idle"
        BY <1>1 DEF Attending, Fractions
    <2>2. Aggregate(cache[t], t, Fractions) = Aggregate(Probability[t], t, Fractions)
        BY <1>1, <2>1, ScoresAreOwn
    <2> QED BY <2>1, <2>2
<1>6. \A t \in Tracks \cap Range(members) : answer'[t] \in Verdicts /\ answer'[t] = Reference(t)
    <2> TAKE t \in Tracks \cap Range(members)
    <2>1. CASE t \in review
        <3>1. Decide(StageA, scoreA[t]) = "review"
            BY <1>3, <2>1
        <3>2. answer'[t] = Decide(StageB, Aggregate(Probability[t], t, StageBFractions))
            BY <1>1, <1>5, <2>1
        <3> QED BY <1>4, <3>1, <3>2, DecisionIsVerdict DEF Reference
    <2>2. CASE t \notin review
        <3>1. Decide(StageA, scoreA[t]) # "review"
            BY <1>3, <2>2
        <3>2. answer'[t] = Decide(StageA, scoreA[t])
            BY <1>1, <2>2
        <3> QED BY <1>4, <3>1, <3>2, DecisionIsVerdict DEF Reference
    <2> QED BY <2>1, <2>2
<1>7. \A t \in Tracks \ Range(members) : answer'[t] = answer[t]
    BY <1>1
<1>8. answer' \in [Tracks -> Answers \cup {NoAnswer}]
    <2>1. DOMAIN answer' = Tracks /\ answer' = [t \in Tracks |-> answer'[t]]
        BY <1>1
    <2>2. \A t \in Tracks : answer'[t] \in Answers \cup {NoAnswer}
        BY <1>2, <1>6, <1>7 DEF Answers
    <2> QED BY <2>1, <2>2
<1>9. AnswersOwn'
    BY <1>4, <1>6, <1>7 DEF GateInv, AnswersOwn, Verdicts
<1>10. GateTypes' /\ CallInv'
    <2>1. <<>> \in Seq(Tracks) /\ <<>> \in Seq(Tracks \X Nat)
        OBVIOUS
    <2> QED BY <1>1, <1>8, <2>1 DEF GateInv, GateTypes, CallInv
<1>11. Covered' /\ Cached' /\ Scored'
    BY <1>1 DEF GateInv, Covered, Cached, Scored
<1>12. DecodesKnown' /\ DecodesTyped'
    BY <1>1 DEF GateInv, DecodesKnown, DecodesTyped
<1> QED BY <1>9, <1>10, <1>11, <1>12 DEF GateInv

LEMMA GateKeeps == GateInv /\ GateStep => GateInv'
<1> SUFFICES ASSUME GateInv, GateStep PROVE GateInv'
    OBVIOUS
<1>1. CASE ProcessAlone
    BY <1>1, ProcessAloneKeeps
<1>2. CASE InferPending
    BY <1>2, InferPendingKeeps
<1>3. CASE InferFails
    <2>1. Raise("error")
        BY <1>3 DEF InferFails
    <2> QED BY <2>1, RaiseKeeps
<1>4. CASE EndStageA
    BY <1>4, EndStageAKeeps
<1>5. CASE EndStageB
    BY <1>5, EndStageBKeeps
<1>6. ASSUME NEW t \in Tracks, DecodeTrack(t) \/ Collect(t) PROVE GateInv'
    BY <1>6, DecodeTrackKeeps, CollectKeeps
<1> QED BY <1>1, <1>2, <1>3, <1>4, <1>5, <1>6 DEF GateStep

-----------------------------------------------------------------------------
(* The steps of the runs. *)

LEMMA UnreadFacts ==
    /\ Unread \subseteq Nat /\ IsFiniteSet(Unread)
    /\ \A at \in NextRows :
          /\ at \in [1..Cardinality(Unread) -> Unread] /\ Rising(at) /\ Range(at) = Unread
          /\ Cardinality(Unread) \in Nat \ {0} /\ Len(at) = Cardinality(Unread)
<1>1. Len(Inventory) \in Nat /\ DOMAIN Inventory = 1..Len(Inventory)
    BY GateRunAssumption, RangeIs
<1>2. Unread \subseteq Nat /\ IsFiniteSet(Unread)
    <2>1. Unread \subseteq 1..Len(Inventory)
        BY <1>1 DEF Unread
    <2>2. IsFiniteSet(1..Len(Inventory))
        BY <1>1, FS_Interval
    <2>3. IsFiniteSet(Unread)
        BY <2>1, <2>2, FS_Subset
    <2> QED BY <1>1, <2>1, <2>3
<1>3. ASSUME NEW at \in NextRows
      PROVE  /\ at \in [1..Cardinality(Unread) -> Unread] /\ Rising(at) /\ Range(at) = Unread
             /\ Cardinality(Unread) \in Nat \ {0} /\ Len(at) = Cardinality(Unread)
    <2>1. at = InOrder(Unread) /\ at # <<>>
        BY DEF NextRows
    <2>2. /\ at \in [1..Cardinality(Unread) -> Unread] /\ Rising(at) /\ Range(at) = Unread
          /\ Cardinality(Unread) \in Nat /\ at \in Seq(Unread)
        BY <1>2, <2>1, InOrderFacts
    <2>3. Len(at) = Cardinality(Unread) /\ Len(at) # 0
        BY <2>1, <2>2, LenProperties, EmptySeq
    <2> QED BY <2>2, <2>3
<1> QED BY <1>2, <1>3

\* The buffer is filled with tracks of the inventory.
LEMMA BufferIs ==
    ASSUME NEW at \in NextRows, NEW size,
           size = IF Len(at) < BufferSize THEN Len(at) ELSE BufferSize
    PROVE  /\ size \in 1..Len(at) /\ size \in Nat
           /\ [i \in 1..size |-> Inventory[at[i]]] \in Seq(Tracks)
           /\ \A i \in 1..size : at[i] \in Unread /\ Inventory[at[i]] \in Tracks
<1> DEFINE n == Len(at)
<1>1. at \in [1..n -> Unread]
    BY UnreadFacts
<1>2. n \in Nat \ {0} /\ size \in 1..n /\ size \in Nat
    <2>1. n \in Nat \ {0} /\ BufferSize \in Nat \ {0}
        BY UnreadFacts, GateRunAssumption DEF GateRunAssumption
    <2> HIDE DEF n
    <2>2. size = IF n < BufferSize THEN n ELSE BufferSize
        BY DEF n
    <2> QED BY <2>1, <2>2
<1>3. \A i \in 1..size : at[i] \in Unread
    <2>1. \A j, k \in Nat : j <= k => 1..j \subseteq 1..k
        OBVIOUS
    <2> HIDE DEF n
    <2>2. n \in Nat /\ size <= n
        BY <1>2
    <2>3. 1..size \subseteq 1..n
        BY <1>2, <2>1, <2>2
    <2> QED BY <1>1, <2>3
<1>4. \A j \in Unread : j \in DOMAIN Inventory /\ Inventory[j] \in Tracks
    <2>1. \A j \in 1..Len(Inventory) : Inventory[j] \in Tracks
        BY GateRunAssumption, ElementOfSeq DEF GateRunAssumption
    <2> QED BY <2>1, GateRunAssumption, RangeIs DEF Unread, GateRunAssumption
<1>5. \A i \in 1..size : Inventory[at[i]] \in Tracks
    BY <1>3, <1>4
<1> DEFINE taken == [i \in 1..size |-> Inventory[at[i]]]
<1>6. taken \in [1..size -> Tracks]
    BY <1>5
<1>7. taken \in Seq(Tracks)
    <2>1. \A k \in Nat : \A f \in [1..k -> Tracks] : f \in Seq(Tracks)
        BY IsASeq
    <2> QED BY <1>2, <1>6, <2>1
<1> QED BY <1>2, <1>3, <1>5, <1>7

LEMMA RoutingKeepsGate == GateInv /\ [RoutingNext]_routingVars => GateInv'
<1> SUFFICES ASSUME GateInv, [RoutingNext]_routingVars PROVE GateInv'
    OBVIOUS
<1>1. CASE UNCHANGED gateVars
    BY <1>1, SameGate
<1>2. ASSUME NEW resume \in BOOLEAN, StartRun(resume) PROVE GateInv'
    <2>1. /\ answer' = [t \in Tracks |-> NoAnswer]
          /\ UNCHANGED <<stage, members, isolated, todo, waiting, submitted, completed,
                         pendingBatch, windows, decodes, cache, scoreA>>
        BY <1>2 DEF StartRun
    <2>2. answer' \in [Tracks -> Answers \cup {NoAnswer}] /\ AnswersOwn'
        BY <2>1 DEF AnswersOwn, NoAnswer, Verdicts
    <2>3. GateTypes' /\ CallInv'
        BY <2>1, <2>2 DEF GateInv, GateTypes, CallInv, Queued
    <2>4. Covered'
        BY <2>1 DEF GateInv, Covered, Attending, Queued, Uncertain, Fractions
    <2>5. Cached' /\ Scored'
        BY <2>1 DEF GateInv, Cached, Scored
    <2>6. DecodesKnown' /\ DecodesTyped'
        BY <2>1 DEF GateInv, DecodesKnown, DecodesTyped
    <2> QED BY <2>2, <2>3, <2>4, <2>5, <2>6 DEF GateInv
<1>3. CASE FillBuffer
    <2>1. PICK at \in NextRows :
             ProcessBatch([i \in 1..(IF Len(at) < BufferSize THEN Len(at) ELSE BufferSize)
                              |-> Inventory[at[i]]])
        BY <1>3 DEF FillBuffer
    <2> DEFINE size == IF Len(at) < BufferSize THEN Len(at) ELSE BufferSize
    <2>2. [i \in 1..size |-> Inventory[at[i]]] \in Seq(Tracks)
        BY BufferIs
    <2> QED BY <2>1, <2>2, ProcessBatchKeeps
<1>4. CASE GateStep
    BY <1>4, GateKeeps
<1>5. CASE Kill
    <2>1. /\ stage' = "idle" /\ members' = <<>> /\ isolated' = FALSE /\ todo' = <<>>
          /\ waiting' = <<>> /\ submitted' = <<>> /\ completed' = {} /\ pendingBatch' = <<>>
          /\ windows' = [t \in Tracks |-> {}] /\ decodes' = [t \in Tracks |-> <<>>]
          /\ cache' = NoPosterior /\ answer' = [t \in Tracks |-> NoAnswer]
        BY <1>5 DEF Kill, Stop
    <2>2. /\ <<>> \in Seq(Tracks) /\ <<>> \in Seq(Tracks \X Nat) /\ <<>> \in Seq(Int)
          /\ Range(<<>>) = {}
        BY DEF Range
    <2>3. GateTypes' /\ CallInv'
        BY <2>1, <2>2 DEF GateTypes, CallInv, NoPosterior
    <2>4. Covered' /\ Cached' /\ Scored' /\ AnswersOwn'
        BY <2>1 DEF Covered, Cached, Scored, AnswersOwn, NoPosterior, NoAnswer, Verdicts
    <2>5. DecodesKnown' /\ DecodesTyped'
        BY <2>1, <2>2 DEF DecodesKnown, DecodesTyped, IsInjective
    <2> QED BY <2>3, <2>4, <2>5 DEF GateInv
<1>6. CASE UNCHANGED routingVars
    BY <1>1, <1>6 DEF routingVars, gateRunVars
<1>7. CASE RoutingNext
    <2>1. CASE StartGate
        BY <1>2, <2>1 DEF StartGate
    <2>2. CASE GateWorks
        <3>1. CASE Save
            BY <1>1, <3>1 DEF Save
        <3>2. CASE Gate
            BY <1>4, <3>2 DEF Gate
        <3>3. CASE EndRun
            BY <1>1, <3>3 DEF EndRun
        <3> QED BY <1>3, <1>5, <2>2, <3>1, <3>2, <3>3 DEF GateWorks, RunStep
    <2>3. CASE EditInput
        BY <1>1, <2>3 DEF EditInput, Edit
    <2>4. CASE StartDiscogs \/ DiscogsWorks
        BY <1>1, <2>4 DEF StartDiscogs, DiscogsWorks, gateRunVars
    <2> QED BY <1>7, <2>1, <2>2, <2>3, <2>4 DEF RoutingNext
<1> QED BY <1>6, <1>7

LEMMA GateHolds == RoutingSpec => []GateInv
<1>1. RoutingInit => GateInv
    BY InitGate DEF RoutingInit, RunInit
<1> QED BY <1>1, RoutingKeepsGate, PTL DEF RoutingSpec

\* Every verdict of the gate is the one the track's own windows give, whatever the batches mixed,
\* reused, repeated or lost to a kill (fast_gate_core.py:1077-1090).
THEOREM RoutingVerdictsAreOwn == RoutingSpec => []VerdictIsOwn
<1>1. GateInv => VerdictIsOwn
    BY DEF GateInv, AnswersOwn, VerdictIsOwn
<1> QED BY <1>1, GateHolds, PTL

\* The two stages of a call together decode a window, or a short track, once
\* (fast_gate_core.py:261-266).
THEOREM RoutingDecodesOnce == RoutingSpec => []DecodedOnce
<1>1. GateInv => DecodedOnce
    BY DEF GateInv, DecodesKnown, DecodedOnce
<1> QED BY <1>1, GateHolds, PTL

-----------------------------------------------------------------------------
(* The invariant of the runs. *)

FileRows == [track : Tracks, revision : Int, whole : BOOLEAN]

RunTypes == /\ files \in [Outputs -> Seq(FileRows)]
            /\ buffer \in Seq(Tracks) /\ Range(buffer) \subseteq Range(Inventory)
            /\ revision \in [Tracks -> Int] /\ position \in Nat

\* No track has two rows, in one file or in two.
OnePlace == \A f, g \in Outputs : \A i \in DOMAIN files[f], j \in DOMAIN files[g] :
               files[f][i].track = files[g][j].track => f = g /\ i = j

\* Every row, a torn one too, is of a track of the inventory and in the file of its verdict.
RightFile == \A f \in Outputs : \A i \in DOMAIN files[f] :
                /\ files[f][i].track \in Range(Inventory)
                /\ f \in {Expected(files[f][i].track), "failures"}

\* The rows a run keeps or writes are those of the inventory it reads.
RowsAreCurrent == \A f \in Outputs : \A i \in DOMAIN files[f] : files[f][i] = Row(files[f][i].track)

\* What the run has read it has saved, or is working on.
ReadSoFar == \A i \in DOMAIN Inventory :
                i <= position => Inventory[i] \in SavedTracks \cup Range(buffer)

RunInv == /\ RunTypes /\ OnePlace /\ RightFile
          /\ running = "running" => RowsAreCurrent /\ ReadSoFar

LEMMA InitRun == RunInit => RunInv
<1> SUFFICES ASSUME RunInit PROVE RunInv
    OBVIOUS
<1>1. /\ <<>> \in Seq(Tracks) /\ <<>> \in Seq(FileRows) /\ Range(<<>>) = {} /\ DOMAIN <<>> = {}
    BY DEF Range
<1>2. RunTypes /\ OnePlace /\ RightFile
    BY <1>1 DEF RunInit, RunTypes, OnePlace, RightFile
<1> QED BY <1>2 DEF RunInit, RunInv

LEMMA SameRun ==
    ASSUME RunInv, UNCHANGED <<buffer, revision, files>>,
           position' = position /\ (running' = "running" => running = "running")
    PROVE  RunInv'
<1>1. RunTypes' /\ OnePlace' /\ RightFile'
    BY DEF RunInv, RunTypes, OnePlace, RightFile, Expected
<1>2. running' = "running" => RowsAreCurrent' /\ ReadSoFar'
    BY DEF RunInv, RowsAreCurrent, ReadSoFar, SavedTracks, Row
<1> QED BY <1>1, <1>2 DEF RunInv

LEMMA SavedAre ==
    \A t : t \in SavedTracks <=> \E f \in Outputs : \E i \in DOMAIN files[f] : files[f][i].track = t
BY DEF SavedTracks, Range

\* What one more row does to the files.
LEMMA AppendFacts ==
    ASSUME RunTypes, NEW g \in Outputs, NEW row \in FileRows,
           files' = [files EXCEPT ![g] = Append(@, row)]
    PROVE  /\ files' \in [Outputs -> Seq(FileRows)]
           /\ \A f \in Outputs : \A i \in DOMAIN files'[f] :
                 \/ i \in DOMAIN files[f] /\ files'[f][i] = files[f][i]
                 \/ f = g /\ i = Len(files[g]) + 1 /\ files'[f][i] = row
           /\ \A f \in Outputs : \A i \in DOMAIN files[f] :
                 i \in DOMAIN files'[f] /\ files'[f][i] = files[f][i]
           /\ Len(files[g]) + 1 \in DOMAIN files'[g] /\ files'[g][Len(files[g]) + 1] = row
<1>1. \A f \in Outputs : files[f] \in Seq(FileRows)
    BY DEF RunTypes
<1>2. DOMAIN files = Outputs
    BY DEF RunTypes
<1>3. \A f \in Outputs : files'[f] = IF f = g THEN Append(files[f], row) ELSE files[f]
    BY <1>2
<1>4. \A f \in Outputs : DOMAIN files[f] = 1..Len(files[f]) /\ Len(files[f]) \in Nat
    BY <1>1, RangeIs
<1>5. /\ Append(files[g], row) \in Seq(FileRows) /\ Len(Append(files[g], row)) = Len(files[g]) + 1
      /\ \A i \in 1..Len(files[g]) : Append(files[g], row)[i] = files[g][i]
      /\ Append(files[g], row)[Len(files[g]) + 1] = row
    BY <1>1, AppendProperties
<1> DEFINE longer == Append(files[g], row)
           n == Len(files[g])
<1>6. DOMAIN longer = 1..(n + 1) /\ n \in Nat
    BY <1>4, <1>5, RangeIs
<1>7. /\ \A i \in DOMAIN longer : \/ i \in DOMAIN files[g] /\ longer[i] = files[g][i]
                                  \/ i = n + 1 /\ longer[i] = row
      /\ \A i \in DOMAIN files[g] : i \in DOMAIN longer /\ longer[i] = files[g][i]
      /\ n + 1 \in DOMAIN longer /\ longer[n + 1] = row
    <2>1. DOMAIN files[g] = 1..n
        BY <1>4
    <2>2. \A i \in 1..n : longer[i] = files[g][i]
        BY <1>5
    <2>3. longer[n + 1] = row
        BY <1>5
    <2> HIDE DEF longer, n
    <2>4. \A i \in 1..(n + 1) : i \in 1..n \/ i = n + 1
        BY <1>6
    <2>5. 1..n \subseteq 1..(n + 1) /\ n + 1 \in 1..(n + 1)
        BY <1>6
    <2> QED BY <1>6, <2>1, <2>2, <2>3, <2>4, <2>5
<1>8. files'[g] = longer /\ \A f \in Outputs \ {g} : files'[f] = files[f]
    BY <1>3
<1>9. longer \in Seq(FileRows)
    BY <1>5
<1>10. files' \in [Outputs -> Seq(FileRows)]
    <2>1. files' = [f \in Outputs |-> files'[f]]
        BY <1>2
    <2>2. \A f \in Outputs : files'[f] \in Seq(FileRows)
        BY <1>1, <1>8, <1>9
    <2> QED BY <2>1, <2>2
<1> HIDE DEF longer
<1> QED BY <1>7, <1>8, <1>10 DEF n

\* A row of a track that has none yet.
LEMMA NewRow ==
    ASSUME RunTypes, OnePlace, RightFile, NEW g \in Outputs, NEW row \in FileRows,
           files' = [files EXCEPT ![g] = Append(@, row)],
           row.track \notin SavedTracks, row.track \in Range(Inventory),
           g \in {Expected(row.track), "failures"}
    PROVE  OnePlace' /\ RightFile' /\ SavedTracks' = SavedTracks \cup {row.track}
<1>1. /\ \A f \in Outputs : \A i \in DOMAIN files'[f] :
            \/ i \in DOMAIN files[f] /\ files'[f][i] = files[f][i]
            \/ f = g /\ i = Len(files[g]) + 1 /\ files'[f][i] = row
      /\ \A f \in Outputs : \A i \in DOMAIN files[f] :
            i \in DOMAIN files'[f] /\ files'[f][i] = files[f][i]
      /\ Len(files[g]) + 1 \in DOMAIN files'[g] /\ files'[g][Len(files[g]) + 1] = row
    BY AppendFacts
<1>2. \A f \in Outputs : \A i \in DOMAIN files[f] : files[f][i].track # row.track
    BY SavedAre
<1>3. OnePlace'
    <2> SUFFICES ASSUME NEW f \in Outputs, NEW h \in Outputs,
                        NEW i \in DOMAIN files'[f], NEW j \in DOMAIN files'[h],
                        files'[f][i].track = files'[h][j].track
                 PROVE  f = h /\ i = j
        BY DEF OnePlace
    <2>1. CASE i \in DOMAIN files[f] /\ files'[f][i] = files[f][i]
        <3>1. j \in DOMAIN files[h] /\ files'[h][j] = files[h][j]
            BY <1>1, <1>2, <2>1
        <3> QED BY <2>1, <3>1 DEF OnePlace
    <2>2. CASE f = g /\ i = Len(files[g]) + 1 /\ files'[f][i] = row
        <3>1. h = g /\ j = Len(files[g]) + 1
            BY <1>1, <1>2, <2>2
        <3> QED BY <2>2, <3>1
    <2> QED BY <1>1, <2>1, <2>2
<1>4. RightFile'
    <2> SUFFICES ASSUME NEW f \in Outputs, NEW i \in DOMAIN files'[f]
                 PROVE  /\ files'[f][i].track \in Range(Inventory)
                        /\ f \in {Expected(files'[f][i].track), "failures"}
        BY DEF RightFile, Expected
    <2> QED BY <1>1 DEF RightFile
<1>5. ASSUME NEW t PROVE t \in SavedTracks' <=> t \in SavedTracks \/ t = row.track
    <2>1. t \in SavedTracks' <=> \E f \in Outputs : \E i \in DOMAIN files'[f] : files'[f][i].track = t
        BY DEF SavedTracks, Range
    <2>2. t \in SavedTracks => t \in SavedTracks'
        BY <1>1, <2>1, SavedAre
    <2>3. t = row.track => t \in SavedTracks'
        BY <1>1, <2>1
    <2>4. t \in SavedTracks' => t \in SavedTracks \/ t = row.track
        BY <1>1, <2>1, SavedAre
    <2> QED BY <2>2, <2>3, <2>4
<1> QED BY <1>3, <1>4, <1>5

\* The next row is of a track with an answer and without a row.
LEMMA NextToSaveIs ==
    ASSUME RunTypes, Answered # {}
    PROVE  NextToSave \in Answered /\ Answered \subseteq Range(buffer) \ SavedTracks
           /\ NextToSave \in Tracks
<1> DEFINE first == Only(buffer, Answered \cap Unlisted)
           all == Only(buffer, Answered)
<1>1. buffer \in Seq(Tracks)
    BY DEF RunTypes
<1>2. /\ first \in Seq(Tracks) /\ Range(first) = Range(buffer) \cap (Answered \cap Unlisted)
      /\ all \in Seq(Tracks) /\ Range(all) = Range(buffer) \cap Answered
    BY <1>1, OnlyFacts
<1>3. Answered \subseteq Range(buffer) \ SavedTracks
    BY DEF Answered, Unsaved
<1> HIDE DEF first, all
<1>4. first \o all \in Seq(Tracks) /\ Range(first \o all) = Range(first) \cup Range(all)
    BY <1>2, ConcatRange
<1> DEFINE both == first \o all
<1>5. both \in Seq(Tracks) /\ Range(both) = Answered /\ both # <<>>
    <2>1. Range(both) = Answered
        BY <1>2, <1>3, <1>4
    <2> QED BY <1>4, <2>1, RangeIs
<1>6. Head(both) \in Range(both)
    <2> HIDE DEF both
    <2>1. Head(both) = both[1] /\ 1 \in DOMAIN both
        BY <1>5, HeadTailProperties, RangeIs, EmptySeq
    <2> QED BY <2>1 DEF Range
<1>7. NextToSave = Head(both)
    BY DEF NextToSave, both, first, all
<1>8. Range(both) \subseteq Tracks
    BY <1>5, RangeIs
<1> QED BY <1>3, <1>5, <1>6, <1>7, <1>8

\* The file an answer belongs in.
LEMMA FileOfAnswer ==
    ASSUME GateInv, NEW t \in Tracks, answer[t] # NoAnswer
    PROVE  FileOf(answer[t]) \in Outputs /\ FileOf(answer[t]) \in {Expected(t), "failures"}
<1>1. answer[t] \in Answers
    BY DEF GateInv, GateTypes
<1>2. CASE answer[t] \in Verdicts
    <2>1. answer[t] = Reference(t) /\ t \notin Unlisted \cup Undecodable
        BY <1>2 DEF GateInv, AnswersOwn, Bad
    <2>2. FileOf(answer[t]) = answer[t]
        BY <1>2 DEF FileOf, Verdicts
    <2> QED BY <1>2, <2>1, <2>2 DEF Expected, Outputs, Verdicts
<1>3. CASE answer[t] = "invalid_asset"
    <2>1. t \in Unlisted \cup Undecodable
        BY <1>3 DEF GateInv, AnswersOwn, Bad
    <2> QED BY <1>3, <2>1 DEF FileOf, Expected, Outputs
<1>4. CASE answer[t] = "error"
    BY <1>4 DEF FileOf, Outputs
<1> QED BY <1>1, <1>2, <1>3, <1>4 DEF Answers

\* What a run finds of the files: whole rows, each where it was.
LEMMA LoadFacts ==
    ASSUME RunTypes, OnePlace, RightFile, NEW resume \in BOOLEAN, StartRun(resume)
    PROVE  /\ files' \in [Outputs -> Seq(FileRows)] /\ files'["failures"] = <<>>
           /\ OnePlace' /\ RightFile'
           /\ \A f \in Outputs : \A i \in DOMAIN files'[f] : files'[f][i].whole
<1>1. files' = IF resume THEN LoadResume ELSE [f \in Outputs |-> <<>>]
    BY DEF StartRun
<1>2. \A f \in Outputs : files'[f] = <<>> \/ (f # "failures" /\ files'[f] = Only(files[f], WholeRows))
    BY <1>1 DEF LoadResume
<1>3. DOMAIN files' = Outputs /\ files' = [f \in Outputs |-> files'[f]] /\ files'["failures"] = <<>>
    BY <1>1 DEF LoadResume, Outputs
<1>4. \A f \in Outputs : files[f] \in Seq(FileRows)
    BY DEF RunTypes
<1>5. <<>> \in Seq(FileRows) /\ DOMAIN <<>> = {}
    OBVIOUS
<1>6. ASSUME NEW f \in Outputs
      PROVE  /\ files'[f] \in Seq(FileRows)
             /\ \A i \in DOMAIN files'[f] : files'[f][i] \in WholeRows
             /\ \E at \in [DOMAIN files'[f] -> DOMAIN files[f]] :
                   IsInjective(at) /\ \A n \in DOMAIN files'[f] : files'[f][n] = files[f][at[n]]
    <2>1. CASE files'[f] = <<>>
        <3>1. [n \in {} |-> 0] \in [DOMAIN files'[f] -> DOMAIN files[f]]
            BY <1>5, <2>1
        <3>2. IsInjective([n \in {} |-> 0])
            BY DEF IsInjective
        <3> QED BY <1>5, <2>1, <3>1, <3>2
    <2>2. CASE files'[f] = Only(files[f], WholeRows)
        <3>1. /\ files'[f] \in Seq(FileRows) /\ Range(files'[f]) = Range(files[f]) \cap WholeRows
              /\ \E at \in [DOMAIN files'[f] -> DOMAIN files[f]] :
                    IsInjective(at) /\ \A n \in DOMAIN files'[f] : files'[f][n] = files[f][at[n]]
            <4> DEFINE q == Only(files[f], WholeRows)
            <4>1. files[f] \in Seq(FileRows)
                BY <1>4
            <4>2. /\ q \in Seq(FileRows) /\ Range(q) = Range(files[f]) \cap WholeRows
                  /\ \E at \in [DOMAIN q -> DOMAIN files[f]] :
                        IsInjective(at) /\ \A n \in DOMAIN q : q[n] = files[f][at[n]]
                BY <4>1, OnlyFacts
            <4>3. q = files'[f]
                BY <2>2
            <4> HIDE DEF q
            <4> QED BY <4>2, <4>3
        <3>2. \A i \in DOMAIN files'[f] : files'[f][i] \in Range(files'[f])
            BY DEF Range
        <3> QED BY <3>1, <3>2
    <2> QED BY <1>2, <2>1, <2>2
<1>7. files' \in [Outputs -> Seq(FileRows)]
    BY <1>3, <1>6
<1>8. OnePlace'
    <2> SUFFICES ASSUME NEW f \in Outputs, NEW g \in Outputs,
                        NEW i \in DOMAIN files'[f], NEW j \in DOMAIN files'[g],
                        files'[f][i].track = files'[g][j].track
                 PROVE  f = g /\ i = j
        BY DEF OnePlace
    <2>1. PICK at \in [DOMAIN files'[f] -> DOMAIN files[f]] :
             IsInjective(at) /\ \A n \in DOMAIN files'[f] : files'[f][n] = files[f][at[n]]
        BY <1>6
    <2>2. PICK to \in [DOMAIN files'[g] -> DOMAIN files[g]] :
             IsInjective(to) /\ \A n \in DOMAIN files'[g] : files'[g][n] = files[g][to[n]]
        BY <1>6
    <2>3. at[i] \in DOMAIN files[f] /\ to[j] \in DOMAIN files[g]
          /\ files[f][at[i]].track = files[g][to[j]].track
        BY <2>1, <2>2
    <2>4. f = g
        BY <2>3 DEF OnePlace
    <2>5. to[i] \in DOMAIN files[f] /\ files[f][to[i]] = files'[f][i]
        BY <2>2, <2>4
    <2>6. to[i] = to[j]
        BY <2>2, <2>3, <2>4, <2>5 DEF OnePlace
    <2> QED BY <2>2, <2>4, <2>6 DEF IsInjective
<1>9. RightFile'
    <2> SUFFICES ASSUME NEW f \in Outputs, NEW i \in DOMAIN files'[f]
                 PROVE  /\ files'[f][i].track \in Range(Inventory)
                        /\ f \in {Expected(files'[f][i].track), "failures"}
        BY DEF RightFile, Expected
    <2>1. PICK at \in [DOMAIN files'[f] -> DOMAIN files[f]] :
             \A n \in DOMAIN files'[f] : files'[f][n] = files[f][at[n]]
        BY <1>6
    <2> QED BY <2>1 DEF RightFile
<1>10. \A r \in WholeRows : r.whole
    BY DEF WholeRows
<1> QED BY <1>3, <1>6, <1>7, <1>8, <1>9, <1>10

\* A run that goes on, or has nothing to do, found only rows of the inventory as it is.
LEMMA StartIsCurrent ==
    ASSUME RunTypes, OnePlace, RightFile, NEW resume \in BOOLEAN, StartRun(resume),
           running' \in {"running", "ended"}
    PROVE  RowsAreCurrent'
<1>1. /\ files' \in [Outputs -> Seq(FileRows)] /\ files'["failures"] = <<>>
      /\ \A f \in Outputs : \A i \in DOMAIN files'[f] : files'[f][i].whole
    BY LoadFacts
<1>2. revision' = revision /\ revision \in [Tracks -> Int] /\ ~ Changed(files')
    BY DEF StartRun, RunTypes
<1> SUFFICES ASSUME NEW f \in Outputs, NEW i \in DOMAIN files'[f]
             PROVE  files'[f][i] = Row(files'[f][i].track)
    BY <1>2 DEF RowsAreCurrent, Row
<1> DEFINE r == files'[f][i]
<1>3. r \in FileRows
    <2>1. files'[f] \in Seq(FileRows)
        BY <1>1
    <2> QED BY <2>1, RangeIs, ElementOfSeq
<1>4. f \in Terminal
    <2>1. DOMAIN <<>> = {}
        OBVIOUS
    <2> QED BY <1>1, <2>1 DEF Terminal
<1>5. r.revision = revision[r.track]
    <2>1. r \in Rows(files')
        BY <1>4 DEF Rows, Range
    <2> QED BY <1>2, <2>1 DEF Changed
<1>6. r.whole
    BY <1>1
<1> HIDE DEF r
<1>7. r.whole = TRUE
    BY <1>3, <1>6 DEF FileRows
<1>8. r = [track |-> r.track, revision |-> r.revision, whole |-> r.whole]
    BY <1>3 DEF FileRows
<1>9. r = Row(r.track)
    BY <1>5, <1>7, <1>8 DEF Row
<1> QED BY <1>9 DEF r

LEMMA StartKeepsRun ==
    ASSUME RunInv, NEW resume \in BOOLEAN, StartRun(resume)
    PROVE  RunInv'
<1>1. RunTypes /\ OnePlace /\ RightFile
    BY DEF RunInv
<1>2. position' = 0 /\ buffer' = <<>> /\ revision' = revision
    BY DEF StartRun
<1>3. RunTypes' /\ OnePlace' /\ RightFile'
    <2>1. <<>> \in Seq(Tracks) /\ Range(<<>>) = {}
        BY DEF Range
    <2> QED BY <1>1, <1>2, <2>1, LoadFacts DEF RunTypes
<1>4. running' = "running" => RowsAreCurrent'
    BY <1>1, StartIsCurrent
<1>5. ReadSoFar'
    <2>1. \A i \in DOMAIN Inventory : ~(i <= 0)
        BY GateRunAssumption, RangeIs DEF GateRunAssumption
    <2> QED BY <1>2, <2>1 DEF ReadSoFar
<1> QED BY <1>3, <1>4, <1>5 DEF RunInv

\* The rows up to the last one taken are saved or taken.
LEMMA FillKeepsRun ==
    ASSUME RunInv, FillBuffer
    PROVE  RunInv'
<1>1. PICK at \in NextRows :
         LET size == IF Len(at) < BufferSize THEN Len(at) ELSE BufferSize IN
         /\ buffer' = [i \in 1..size |-> Inventory[at[i]]]
         /\ position' = at[size]
    BY DEF FillBuffer
<1>2. /\ running = "running" /\ Range(buffer) \subseteq SavedTracks
      /\ UNCHANGED <<running, revision, files>>
    BY DEF FillBuffer, Unsaved
<1> DEFINE size == IF Len(at) < BufferSize THEN Len(at) ELSE BufferSize
<1>3. /\ size \in 1..Len(at) /\ size \in Nat
      /\ [i \in 1..size |-> Inventory[at[i]]] \in Seq(Tracks)
      /\ \A i \in 1..size : at[i] \in Unread /\ Inventory[at[i]] \in Tracks
    BY BufferIs
<1>4. /\ DOMAIN at = 1..Len(at) /\ Len(at) \in Nat /\ Rising(at) /\ Range(at) = Unread
      /\ Unread \subseteq Nat
    <2>1. /\ at \in [1..Cardinality(Unread) -> Unread] /\ Rising(at) /\ Range(at) = Unread
          /\ Cardinality(Unread) \in Nat \ {0} /\ Len(at) = Cardinality(Unread)
        BY UnreadFacts
    <2> QED BY <2>1, UnreadFacts
<1>5. buffer' = [i \in 1..size |-> Inventory[at[i]]] /\ position' = at[size]
    BY <1>1
<1> HIDE DEF size
<1>6. size \in DOMAIN at /\ at[size] \in Unread
    BY <1>3, <1>4
<1>7. RunTypes'
    <2>1. Range(buffer') \subseteq Range(Inventory)
        BY <1>3, <1>5 DEF Unread, Range
    <2> QED BY <1>2, <1>3, <1>4, <1>5, <1>6, <2>1 DEF RunInv, RunTypes
<1>8. OnePlace' /\ RightFile' /\ RowsAreCurrent'
    BY <1>2 DEF RunInv, OnePlace, RightFile, RowsAreCurrent, Row, Expected
<1>9. ReadSoFar'
    <2> SUFFICES ASSUME NEW i \in DOMAIN Inventory, i <= position', Inventory[i] \notin SavedTracks
                 PROVE  Inventory[i] \in Range(buffer')
        BY <1>2 DEF ReadSoFar, SavedTracks
    <2>1. ~(i <= position)
        BY <1>2 DEF RunInv, ReadSoFar
    <2>2. i \in Unread
        <3>1. i \in Nat /\ position \in Nat
            BY GateRunAssumption, RangeIs DEF GateRunAssumption, RunInv, RunTypes
        <3> QED BY <2>1, <3>1 DEF Unread
    <2>3. PICK k \in DOMAIN at : at[k] = i
        BY <1>4, <2>2 DEF Range
    <2>4. ~(size < k)
        <3>1. size < k => at[size] < i
            BY <1>6, <1>4, <2>3 DEF Rising
        <3>2. i <= at[size] /\ i \in Nat /\ at[size] \in Nat
            BY <1>4, <1>5, <1>6, <2>2
        <3> QED BY <3>1, <3>2
    <2>5. k \in 1..size
        <3>1. k \in 1..Len(at)
            BY <1>4
        <3> QED BY <1>3, <1>4, <2>4, <3>1
    <2>6. buffer'[k] = Inventory[i] /\ DOMAIN buffer' = 1..size
        BY <1>5, <2>3, <2>5
    <2> QED BY <2>5, <2>6 DEF Range
<1> QED BY <1>7, <1>8, <1>9 DEF RunInv

LEMMA SaveKeepsRun ==
    ASSUME RunInv, GateInv, Save
    PROVE  RunInv'
<1> DEFINE t == NextToSave
           row == Row(t)
           g == FileOf(answer[t])
<1>1. RunTypes /\ OnePlace /\ RightFile /\ RowsAreCurrent /\ ReadSoFar
    BY DEF RunInv, Save
<1>2. /\ Answered # {} /\ files' = [files EXCEPT ![g] = Append(@, row)]
      /\ UNCHANGED <<running, position, buffer, revision>>
    BY DEF Save, Appended, Row
<1>3. t \in Tracks /\ t \in Range(buffer) /\ t \notin SavedTracks /\ answer[t] # NoAnswer
    BY <1>1, <1>2, NextToSaveIs DEF Answered
<1> HIDE DEF t
<1>4. g \in Outputs /\ g \in {Expected(t), "failures"}
    BY <1>3, FileOfAnswer
<1>5. row \in FileRows /\ row.track = t /\ t \in Range(Inventory)
    BY <1>1, <1>3 DEF Row, FileRows, RunTypes
<1> HIDE DEF g, row
<1>6. OnePlace' /\ RightFile' /\ SavedTracks' = SavedTracks \cup {t}
    BY <1>1, <1>2, <1>3, <1>4, <1>5, NewRow
<1>7. /\ files' \in [Outputs -> Seq(FileRows)]
      /\ \A f \in Outputs : \A i \in DOMAIN files'[f] :
            \/ i \in DOMAIN files[f] /\ files'[f][i] = files[f][i]
            \/ f = g /\ i = Len(files[g]) + 1 /\ files'[f][i] = row
    BY <1>1, <1>2, <1>4, <1>5, AppendFacts
<1>8. RunTypes'
    BY <1>1, <1>2, <1>7 DEF RunTypes
<1>9. RowsAreCurrent'
    <2>1. row = Row(row.track)
        BY <1>5 DEF row
    <2> SUFFICES ASSUME NEW f \in Outputs, NEW i \in DOMAIN files'[f]
                 PROVE  files'[f][i] = Row(files'[f][i].track)
        BY <1>2 DEF RowsAreCurrent, Row
    <2> QED BY <1>1, <1>7, <2>1 DEF RowsAreCurrent
<1>10. ReadSoFar'
    BY <1>1, <1>2, <1>6 DEF ReadSoFar
<1> QED BY <1>6, <1>8, <1>9, <1>10 DEF RunInv

\* A kill may leave the row it tore: the next to be saved.
LEMMA KillKeepsRun ==
    ASSUME RunInv, GateInv, Kill
    PROVE  RunInv'
<1> DEFINE t == NextToSave
           row == [Row(t) EXCEPT !.whole = FALSE]
           g == FileOf(answer[t])
<1>1. RunTypes /\ OnePlace /\ RightFile
    BY DEF RunInv
<1>2. /\ running' = "stopped" /\ position' = 0 /\ buffer' = <<>> /\ revision' = revision
      /\ \/ files' = files
         \/ Answered # {} /\ files' = [files EXCEPT ![FileOf(answer[row.track])] = Append(@, row)]
    BY DEF Kill, Appended
<1>3. <<>> \in Seq(Tracks) /\ Range(<<>>) = {}
    BY DEF Range
<1>4. CASE files' = files
    BY <1>1, <1>2, <1>3, <1>4 DEF RunInv, RunTypes, OnePlace, RightFile, Expected
<1>5. CASE Answered # {} /\ files' = [files EXCEPT ![FileOf(answer[row.track])] = Append(@, row)]
    <2>1. t \in Tracks /\ t \in Range(buffer) /\ t \notin SavedTracks /\ answer[t] # NoAnswer
        BY <1>1, <1>5, NextToSaveIs DEF Answered
    <2> HIDE DEF t
    <2>2. g \in Outputs /\ g \in {Expected(t), "failures"}
        BY <2>1, FileOfAnswer
    <2>3. row \in FileRows /\ row.track = t /\ t \in Range(Inventory)
        BY <1>1, <2>1 DEF Row, FileRows, RunTypes
    <2>4. files' = [files EXCEPT ![g] = Append(@, row)]
        BY <1>5, <2>3
    <2> HIDE DEF g, row
    <2>5. OnePlace' /\ RightFile'
        BY <1>1, <2>1, <2>2, <2>3, <2>4, NewRow
    <2>6. files' \in [Outputs -> Seq(FileRows)]
        BY <1>1, <2>2, <2>3, <2>4, AppendFacts
    <2>7. RunTypes'
        BY <1>1, <1>2, <1>3, <2>6 DEF RunTypes
    <2> QED BY <1>2, <2>5, <2>7 DEF RunInv
<1> QED BY <1>2, <1>4, <1>5

LEMMA EditKeepsRun ==
    ASSUME RunInv, NEW t \in Tracks, Edit(t)
    PROVE  RunInv'
<1>1. running # "running" /\ running' = running /\ revision' = [revision EXCEPT ![t] = 3 - @]
      /\ UNCHANGED <<files, buffer, position>>
    BY DEF Edit
<1>2. RunTypes'
    BY <1>1 DEF RunInv, RunTypes
<1>3. OnePlace' /\ RightFile'
    BY <1>1 DEF RunInv, OnePlace, RightFile, Expected
<1> QED BY <1>1, <1>2, <1>3 DEF RunInv

LEMMA RoutingKeepsRun == RunInv /\ GateInv /\ [RoutingNext]_routingVars => RunInv'
<1> SUFFICES ASSUME RunInv, GateInv, [RoutingNext]_routingVars PROVE RunInv'
    OBVIOUS
<1>1. CASE UNCHANGED runVars
    BY <1>1, SameRun DEF runVars
<1>2. CASE StartGate
    BY <1>2, StartKeepsRun DEF StartGate
<1>3. CASE GateWorks
    <2>1. CASE Gate
        BY <1>1, <2>1 DEF Gate
    <2>2. CASE EndRun
        <3>1. UNCHANGED <<position, buffer, revision, files>> /\ running' = "ended"
            BY <2>2 DEF EndRun
        <3> QED BY <3>1, SameRun
    <2> QED BY <1>3, <2>1, <2>2, FillKeepsRun, SaveKeepsRun, KillKeepsRun DEF GateWorks, RunStep
<1>4. CASE EditInput
    BY <1>4, EditKeepsRun DEF EditInput
<1>5. CASE StartDiscogs \/ DiscogsWorks \/ UNCHANGED routingVars
    BY <1>1, <1>5 DEF StartDiscogs, DiscogsWorks, routingVars, gateRunVars
<1> QED BY <1>2, <1>3, <1>4, <1>5 DEF RoutingNext

\* A run that ends has a row of every track of the inventory.
LEMMA EndIsComplete ==
    ASSUME RunInv, GateInv, [RoutingNext]_routingVars, running' = "ended", running # "ended"
    PROVE  Complete'
<1>1. RunTypes' /\ OnePlace' /\ RightFile'
    BY RoutingKeepsRun DEF RunInv
<1>2. RowsAreCurrent' /\ Range(Inventory) \subseteq SavedTracks'
    <2>1. CASE EndRun
        <3>1. RowsAreCurrent /\ ReadSoFar /\ RunTypes
            BY <2>1 DEF EndRun, RunInv
        <3>2. /\ UNCHANGED <<files, revision>>
              /\ Range(buffer) \subseteq SavedTracks
              /\ \A i \in DOMAIN Inventory : i > position => Inventory[i] \in SavedTracks
            BY <2>1 DEF EndRun, Unsaved
        <3>3. \A i \in DOMAIN Inventory : i > position \/ i <= position
            BY <3>1, GateRunAssumption, RangeIs DEF GateRunAssumption, RunTypes
        <3>4. Range(Inventory) \subseteq SavedTracks
            BY <3>1, <3>2, <3>3 DEF ReadSoFar, Range
        <3> QED BY <3>1, <3>2, <3>4 DEF RowsAreCurrent, Row, SavedTracks
    <2>2. ASSUME NEW resume \in BOOLEAN, StartRun(resume)
          PROVE  RowsAreCurrent' /\ Range(Inventory) \subseteq SavedTracks'
        <3>1. RowsAreCurrent'
            BY <2>2, StartIsCurrent DEF RunInv
        <3>2. Range(Inventory) \subseteq Done(files')
            BY <2>2 DEF StartRun
        <3>3. Done(files') \subseteq SavedTracks'
            BY DEF Done, Rows, SavedTracks, Terminal
        <3> QED BY <3>1, <3>2, <3>3
    <2>3. CASE UNCHANGED running
        BY <2>3
    <2>4. CASE FillBuffer \/ Save \/ Gate \/ Kill
        BY <2>4 DEF FillBuffer, Save, Gate, Kill, runVars
    <2> QED BY <2>1, <2>2, <2>3, <2>4 DEF RoutingNext, StartGate, GateWorks, RunStep, EditInput,
                Edit, StartDiscogs, DiscogsWorks, routingVars, gateRunVars, runVars
<1> SUFFICES ASSUME NEW t \in Range(Inventory)
             PROVE  \E where \in RowsOf(t)' :
                       /\ RowsOf(t)' = {where}
                       /\ files'[where[1]][where[2]] = Row(t)'
                       /\ where[1] \in {Expected(t), "failures"}
    BY DEF Complete, Expected
<1>3. PICK f \in Outputs : \E i \in DOMAIN files'[f] : files'[f][i].track = t
    BY <1>2 DEF SavedTracks, Range
<1>4. PICK i \in DOMAIN files'[f] : files'[f][i].track = t
    BY <1>3
<1>5. RowsOf(t)' = UNION {{h} \X {j \in DOMAIN files'[h] : files'[h][j].track = t} : h \in Outputs}
    BY DEF RowsOf
<1>6. <<f, i>> \in RowsOf(t)'
    BY <1>4, <1>5
<1>7. ASSUME NEW p \in RowsOf(t)' PROVE p = <<f, i>>
    <2>1. PICK h \in Outputs : p \in {h} \X {j \in DOMAIN files'[h] : files'[h][j].track = t}
        BY <1>5
    <2>2. PICK j \in DOMAIN files'[h] : p = <<h, j>> /\ files'[h][j].track = t
        BY <2>1
    <2>3. h = f /\ j = i
        BY <1>1, <1>4, <2>2 DEF OnePlace
    <2> QED BY <2>2, <2>3
<1>8. RowsOf(t)' = {<<f, i>>}
    BY <1>6, <1>7
<1>9. files'[f][i] = Row(t)' /\ f \in {Expected(t), "failures"}
    BY <1>1, <1>2, <1>4 DEF RowsAreCurrent, RightFile, Row, Expected
<1> QED BY <1>6, <1>8, <1>9

\* When a run ends, whatever earlier runs left, tore or were refused, each track of the inventory
\* has one whole row, of its current revision, in the file of its own verdict or among the failures
\* (fast_music_gate.py:325-398, 735-777).
THEOREM RoutingEndsComplete == RoutingSpec => EndsComplete
<1>1. RoutingInit => RunInv
    BY InitRun DEF RoutingInit
<1>2. RunInv /\ GateInv /\ [RoutingNext]_routingVars => RunInv'
    BY RoutingKeepsRun
<1>3. RunInv /\ GateInv /\ [RoutingNext]_routingVars
      => [running' = "ended" /\ running # "ended" => Complete']_gateRunVars
    BY EndIsComplete
<1> QED BY <1>1, <1>2, <1>3, GateHolds, PTL DEF RoutingSpec, EndsComplete
-----------------------------------------------------------------------------
(* The Discogs stage: what it instantiates again is what this module has. *)

LEMMA SameRange == \A f : Discogs!Range(f) = Range(f)
BY DEF Range, Discogs!Range

LEMMA SameCardinality == \A s : Discogs!Cardinality(s) = Cardinality(s)
BY DEF Discogs!Cardinality, Cardinality

LEMMA SameOrder ==
    ASSUME NEW S
    PROVE  Discogs!InOrder(S) = InOrder(S)
<1> DEFINE order(n) == CHOOSE q \in [1..n -> S] : \A i, j \in DOMAIN q : i < j => q[i] < q[j]
<1>1. Discogs!InOrder(S) = order(Discogs!Cardinality(S))
    BY DEF Discogs!InOrder
<1>2. InOrder(S) = order(Cardinality(S))
    BY DEF InOrder
<1> HIDE DEF order
<1> QED BY <1>1, <1>2, SameCardinality

LEMMA SameOnly ==
    ASSUME NEW s, NEW keep
    PROVE  Discogs!Only(s, keep) = Only(s, keep)
<1> DEFINE kept == {i \in DOMAIN s : s[i] \in keep}
           picked(at) == [n \in DOMAIN at |-> s[at[n]]]
<1>1. Discogs!Only(s, keep) = picked(Discogs!InOrder(kept))
    BY DEF Discogs!Only
<1>2. Only(s, keep) = picked(InOrder(kept))
    BY DEF Only
<1> HIDE DEF picked
<1> QED BY <1>1, <1>2, SameOrder

LEMMA SameWithout == \A s, drop : Discogs!Without(s, drop) = Without(s, drop)
BY SameOnly, SameRange DEF Discogs!Without, Without

\* Only keeps a sequence without repetition so.
LEMMA OnlyInjective ==
    ASSUME NEW S, NEW s \in Seq(S), NEW keep,
           \A i, j \in DOMAIN s : s[i] \in keep /\ s[i] = s[j] => i = j
    PROVE  IsInjective(Only(s, keep))
<1> DEFINE q == Only(s, keep)
<1>1. Range(q) = Range(s) \cap keep
    BY OnlyFacts
<1>2. PICK at \in [DOMAIN q -> DOMAIN s] :
          IsInjective(at) /\ \A n \in DOMAIN q : q[n] = s[at[n]]
    BY OnlyFacts
<1> HIDE DEF q
<1> SUFFICES ASSUME NEW m \in DOMAIN q, NEW n \in DOMAIN q, q[m] = q[n] PROVE m = n
    BY DEF IsInjective, q
<1>3. s[at[m]] = s[at[n]] /\ s[at[m]] \in keep
    BY <1>1, <1>2 DEF Range
<1>4. at[m] = at[n]
    BY <1>2, <1>3
<1> QED BY <1>2, <1>4 DEF IsInjective

-----------------------------------------------------------------------------
(* The batches of frames: every frame of the rows is in one of them. *)

LEMMA DivisionFacts ==
    ASSUME NEW n \in Nat, NEW parts \in Nat \ {0}
    PROVE  /\ n \div parts \in Nat /\ n % parts \in Nat /\ n % parts < parts
           /\ n = (parts * (n \div parts)) + (n % parts)
    OBVIOUS

\* The r-th of c things, from zero, is in one of the batches the c things need.
LEMMA BatchNumber ==
    ASSUME NEW c \in Nat, NEW r \in Nat, r < c, NEW size \in Nat \ {0}
    PROVE  (r \div size) + 1 \in 1..((c + size - 1) \div size)
<1> DEFINE q == r \div size
           x == c + size - 1
           d == x \div size
<1>1. x \in Nat
    OBVIOUS
<1>2. q \in Nat /\ r % size \in Nat /\ r = (size * q) + (r % size)
    BY DivisionFacts
<1>3. d \in Nat /\ x % size \in Nat /\ x % size < size /\ x = (size * d) + (x % size)
    <2> HIDE DEF x
    <2> QED BY <1>1, DivisionFacts
<1>4. x >= (size * q) + size
    <2>1. x = c + size - 1
        OBVIOUS
    <2> HIDE DEF q, x
    <2>2. size * q \in Nat
        BY <1>2
    <2> QED BY <1>2, <2>1, <2>2
<1> HIDE DEF q, x, d
<1>5. q + 1 <= d
    <2>1. SUFFICES ASSUME ~(q + 1 <= d) PROVE FALSE
        OBVIOUS
    <2>2. PICK k \in Nat : q = d + k
        <3>1. q - d \in Nat /\ q = d + (q - d)
            BY <1>2, <1>3, <2>1
        <3> QED BY <3>1
    <2>3. size * q = (size * d) + (size * k) /\ size * k \in Nat /\ size * d \in Nat /\ size * q \in Nat
        BY <1>3, <2>2
    <2>4. x < (size * d) + size
        BY <1>1, <1>3, <2>3
    <2> DEFINE u == size * q
               v == size * d
               w == size * k
    <2>5. u = v + w /\ w \in Nat /\ v \in Nat /\ u \in Nat /\ x < v + size /\ x >= u + size
        BY <1>4, <2>3, <2>4
    <2> HIDE DEF u, v, w
    <2> QED BY <1>1, <2>5
<1> QED BY <1>2, <1>3, <1>5 DEF q, d, x

LEMMA FramesAreFinite ==
    ASSUME NEW rows \in Seq(FileRows)
    PROVE  IsFiniteSet(Discogs!AllFrames(rows))
<1> DEFINE of(i) == {i} \X (1..Frames[rows[i].track])
<1>1. DOMAIN rows = 1..Len(rows) /\ Len(rows) \in Nat
    BY LenProperties
<1>2. ASSUME NEW i \in DOMAIN rows PROVE IsFiniteSet(of(i))
    <2>1. rows[i] \in FileRows
        BY <1>1, ElementOfSeq
    <2>2. Frames[rows[i].track] \in Nat
        BY <2>1, RoutingAssumption DEF Discogs!DiscogsAssumption, FileRows
    <2> DEFINE n == Frames[rows[i].track]
    <2>3. n \in Nat
        BY <2>2
    <2> HIDE DEF n
    <2>4. IsFiniteSet({i})
        BY FS_Singleton
    <2>5. IsFiniteSet(1..n)
        BY <2>3, FS_Interval
    <2>6. IsFiniteSet({i} \X (1..n))
        BY <2>4, <2>5, FS_Product
    <2> QED BY <2>6 DEF n
<1>3. IsFiniteSet(DOMAIN rows)
    BY <1>1, FS_Interval
<1> HIDE DEF of
<1>4. IsFiniteSet({of(i) : i \in DOMAIN rows})
    <2> DEFINE f == [i \in DOMAIN rows |-> of(i)]
    <2>1. f \in Surjection(DOMAIN rows, {of(i) : i \in DOMAIN rows})
        BY DEF Surjection
    <2> QED BY <1>3, <2>1, FS_Surjection
<1>5. \A T \in {of(i) : i \in DOMAIN rows} : IsFiniteSet(T)
    BY <1>2
<1>6. IsFiniteSet(UNION {of(i) : i \in DOMAIN rows})
    BY <1>4, <1>5, FS_UNION
<1> QED BY <1>6 DEF Discogs!AllFrames, of

LEMMA PlanCovers ==
    ASSUME NEW rows \in Seq(FileRows)
    PROVE  Discogs!Covered(rows)
<1> DEFINE all == Discogs!AllFrames(rows)
           size == Cardinality(all)
           last == (size + FrameBatch - 1) \div FrameBatch
           plan == Discogs!PlanFrameBatches(rows)
<1>1. IsFiniteSet(all) /\ size \in Nat
    BY FramesAreFinite, FS_CardinalityType
<1>2. FrameBatch \in Nat \ {0}
    BY RoutingAssumption DEF Discogs!DiscogsAssumption
<1>3. plan = [b \in 1..last |-> Discogs!FrameBatchOf(rows, b)]
    BY SameCardinality DEF Discogs!PlanFrameBatches, Discogs!Size
<1>4. ASSUME NEW f \in all PROVE f \in UNION Range(plan)
    <2> DEFINE before == {g \in all : Discogs!Earlier(g, f)}
               r == Cardinality(before)
    <2>1. /\ before \subseteq all /\ f \notin before /\ f \in all
        <3>1. ~Discogs!Earlier(f, f)
            <4>1. PICK i \in DOMAIN rows : f \in {i} \X (1..Frames[rows[i].track])
                BY DEF Discogs!AllFrames
            <4>2. f[1] = i /\ f[2] \in Int
                BY <4>1
            <4>3. i \in Int
                BY LenProperties
            <4> QED BY <4>2, <4>3 DEF Discogs!Earlier
        <3> QED BY <3>1
    <2>2. r \in Nat /\ r < size
        <3> HIDE DEF all, before
        <3>1. IsFiniteSet(before) /\ r \in Nat /\ r <= size /\ (r = size => before = all)
            BY <1>1, <2>1, FS_Subset, FS_CardinalityType
        <3> QED BY <1>1, <2>1, <3>1
    <2>3. Discogs!Rank(rows, f) = r
        BY SameCardinality DEF Discogs!Rank
    <2> DEFINE b == (r \div FrameBatch) + 1
    <2>4. b \in 1..last
        <3> HIDE DEF r, all
        <3> QED BY <1>1, <1>2, <2>2, BatchNumber
    <2>5. r \div FrameBatch = b - 1
        <3> HIDE DEF r
        <3> QED BY <1>2, <2>2, DivisionFacts
    <2> HIDE DEF b, r, last
    <2>6. f \in Discogs!FrameBatchOf(rows, b)
        BY <2>3, <2>5 DEF Discogs!FrameBatchOf
    <2>7. plan[b] = Discogs!FrameBatchOf(rows, b) /\ b \in DOMAIN plan
        BY <1>3, <2>4
    <2> HIDE DEF plan
    <2> QED BY <2>6, <2>7 DEF Range
<1>5. ASSUME NEW f \in UNION Range(plan) PROVE f \in all
    <2>1. \A b \in DOMAIN plan : plan[b] \subseteq all
        BY <1>3 DEF Discogs!FrameBatchOf
    <2> HIDE DEF plan, all
    <2> QED BY <2>1 DEF Range
<1>6. ASSUME NEW i \in DOMAIN rows
      PROVE  Cardinality(Discogs!Gathered(rows, i)) = Frames[rows[i].track]
    <2> DEFINE own == {i} \X (1..Frames[rows[i].track])
    <2>1. Discogs!Gathered(rows, i) = {f \in all : f[1] = i}
        <3>1. Discogs!Gathered(rows, i) = {f \in UNION Range(plan) : f[1] = i}
            BY SameRange DEF Discogs!Gathered
        <3> HIDE DEF plan, all
        <3> QED BY <1>4, <1>5, <3>1
    <2>2. {f \in all : f[1] = i} = own
        <3>1. own \subseteq all
            BY DEF Discogs!AllFrames
        <3>2. ASSUME NEW f \in all, f[1] = i PROVE f \in own
            <4>1. PICK j \in DOMAIN rows : f \in {j} \X (1..Frames[rows[j].track])
                BY DEF Discogs!AllFrames
            <4>2. j = i
                BY <3>2, <4>1
            <4> QED BY <4>1, <4>2
        <3>3. \A f \in own : f[1] = i
            OBVIOUS
        <3> HIDE DEF own, all
        <3> QED BY <3>1, <3>2, <3>3
    <2>3. Frames[rows[i].track] \in Nat
        <3>1. rows[i] \in FileRows
            BY LenProperties, ElementOfSeq
        <3> QED BY <3>1, RoutingAssumption DEF Discogs!DiscogsAssumption, FileRows
    <2>4. Cardinality(own) = Frames[rows[i].track]
        <3> DEFINE n == Frames[rows[i].track]
        <3>1. IsFiniteSet({i}) /\ Cardinality({i}) = 1
            BY FS_Singleton
        <3>2. n \in Nat
            BY <2>3
        <3> HIDE DEF n
        <3>3. IsFiniteSet(1..n) /\ Cardinality(1..n) = n
            BY <3>2, FS_Interval
        <3> DEFINE one == {i}
                   places == 1..n
        <3>4. IsFiniteSet(one) /\ Cardinality(one) = 1 /\ IsFiniteSet(places) /\ Cardinality(places) = n
            BY <3>1, <3>3
        <3>5. own = one \X places
            BY DEF n
        <3> HIDE DEF one, places
        <3>6. Cardinality(one \X places) = Cardinality(one) * Cardinality(places)
            BY <3>4, FS_Product
        <3>7. 1 * n = n
            BY <3>2
        <3> HIDE DEF own
        <3> QED BY <3>4, <3>5, <3>6, <3>7 DEF n
    <2> QED BY <2>1, <2>2, <2>4
<1> QED BY <1>6, SameCardinality DEF Discogs!Covered

-----------------------------------------------------------------------------
(* The rows of the Discogs stage: each is in one place until it is stored. *)

Input == files["accepted"]
Entries == [row : FileRows, file : Discogs!Files]
Written(w) == [i \in DOMAIN w |-> w[i].row]
Out == Written(writing)
Coming == Range(unread) \cup Range(pending)
Going == Range(buffered) \cup Range(Out)
Stored == UNION {Range(records[f]) : f \in Discogs!Files}

\* A row may go to a file: that of its route, or the failures if something failed.
Justified(r, f, failures) ==
    \/ f = Discogs!RouteOf(r.track)
    \/ f = "failed" /\ (Discogs!Unusable(r.track) \/ failures > 0)

JobTypes == /\ unread \in Seq(FileRows) /\ pending \in Seq(FileRows)
            /\ buffered \in Seq(FileRows) /\ writing \in Seq(Entries)

\* What a run, complete or killed, leaves: a whole row is in the file of its route, once.
RecordsInv ==
    /\ records \in [Discogs!Files -> Seq(FileRows)] /\ ortFailures \in Nat
    /\ \A f \in Discogs!Routes : \A i \in DOMAIN records[f] : records[f][i].whole =>
          /\ f = Discogs!RouteOf(records[f][i].track)
          /\ \A j \in DOMAIN records[f] : records[f][j] = records[f][i] => i = j

\* What is read, decoded or inferred is not stored yet, and nothing of the input is missing.
FlowInv ==
    /\ JobTypes /\ decoded \subseteq Range(pending) /\ (pending = <<>> => unread = <<>>)
    /\ IsInjective(unread) /\ IsInjective(pending) /\ IsInjective(buffered) /\ IsInjective(Out)
    /\ Range(unread) \cap Range(pending) = {} /\ Range(buffered) \cap Range(Out) = {}
    /\ Coming \cap Going = {} /\ (Coming \cup Going) \cap Stored = {}
    /\ Coming \cup Going \cup Stored = Range(Input)
    /\ \A f \in Discogs!Files : IsInjective(records[f])
    /\ \A f, g \in Discogs!Files : f # g => Range(records[f]) \cap Range(records[g]) = {}
    /\ \A i \in DOMAIN writing : Justified(writing[i].row, writing[i].file, ortFailures)
    /\ \A f \in Discogs!Files : \A r \in Range(records[f]) : Justified(r, f, ortFailures)

\* The input is read only after the gate has ended, and is whole then.
JobInv == /\ RecordsInv
          /\ running = "ended" => \A r \in Range(Input) : r.whole
          /\ job = "running" => running = "ended" /\ FlowInv

\* Stored, each row once and where it may be: a run that ends like this has routed its input.
LEMMA StoredIsRouted ==
    ASSUME records' \in [Discogs!Files -> Seq(FileRows)],
           \A f \in Discogs!Files : IsInjective(records'[f]),
           \A f, g \in Discogs!Files : f # g => Range(records'[f]) \cap Range(records'[g]) = {},
           \A f \in Discogs!Files : \A r \in Range(records'[f]) : Justified(r, f, ortFailures'),
           Stored' = Range(Input')
    PROVE  Discogs!Routing'
<1>1. ASSUME NEW r \in Range(Input')
      PROVE  \E where \in Discogs!Places(r)' :
                /\ Discogs!Places(r)' = {where}
                /\ where[1] \in {Discogs!RouteOf(r.track), "failed"}
                /\ where[1] = "failed" => Discogs!Unusable(r.track) \/ ortFailures' > 0
    <2>1. PICK f \in Discogs!Files : r \in Range(records'[f])
        BY DEF Stored, Discogs!Files, Discogs!Routes
    <2>2. PICK i \in DOMAIN records'[f] : records'[f][i] = r
        BY <2>1 DEF Range
    <2>3. Discogs!Places(r)' = UNION {{g} \X {j \in DOMAIN records'[g] : records'[g][j] = r} :
                                         g \in Discogs!Files}
        BY DEF Discogs!Places, Discogs!Files, Discogs!Routes
    <2>4. <<f, i>> \in Discogs!Places(r)'
        BY <2>2, <2>3
    <2>5. ASSUME NEW p \in Discogs!Places(r)' PROVE p = <<f, i>>
        <3>1. PICK g \in Discogs!Files : p \in {g} \X {j \in DOMAIN records'[g] : records'[g][j] = r}
            BY <2>3
        <3>2. PICK j \in DOMAIN records'[g] : p = <<g, j>> /\ records'[g][j] = r
            BY <3>1
        <3>3. r \in Range(records'[g])
            BY <3>2 DEF Range
        <3>4. g = f
            BY <2>1, <3>3
        <3>5. j = i
            BY <2>2, <3>2, <3>4 DEF IsInjective
        <3> QED BY <3>2, <3>4, <3>5
    <2>6. Discogs!Places(r)' = {<<f, i>>}
        BY <2>4, <2>5
    <2>7. Justified(r, f, ortFailures')
        BY <2>1
    <2>8. f \in {Discogs!RouteOf(r.track), "failed"}
        BY <2>7 DEF Justified
    <2>9. f = "failed" => Discogs!Unusable(r.track) \/ ortFailures' > 0
        BY <2>7 DEF Justified, Discogs!RouteOf
    <2>10. <<f, i>>[1] = f
        OBVIOUS
    <2> QED BY <2>4, <2>6, <2>8, <2>9, <2>10
<1>2. Stored' = (UNION {Range(records'[f]) : f \in Discogs!Routes}) \cup Range(records'["failed"])
    BY DEF Stored, Discogs!Files, Discogs!Routes
<1>3. Discogs!RowsIn(records') = UNION {Range(records'[f]) : f \in Discogs!Routes}
    BY SameRange DEF Discogs!RowsIn
<1>4. Discogs!RowsIn(records') \cup Range(records'["failed"]) = Range(Input')
    BY <1>2, <1>3
<1> QED BY <1>1, <1>4, SameRange DEF Discogs!Routing, Input, Discogs!RouteOf, Discogs!Unusable

LEMMA InitJob == RunInit /\ Discogs!JobInit => JobInv
<1> SUFFICES ASSUME RunInit, Discogs!JobInit PROVE JobInv
    OBVIOUS
<1>1. <<>> \in Seq(FileRows) /\ DOMAIN <<>> = {}
    OBVIOUS
<1>2. RecordsInv
    BY <1>1 DEF Discogs!JobInit, RecordsInv, Discogs!Files
<1>3. running = "stopped" /\ job = "idle"
    BY DEF RunInit, Discogs!JobInit
<1> QED BY <1>2, <1>3 DEF JobInv

\* A step that moves rows from one queue to a later one keeps every row in one place.
LEMMA MoveKeepsFlow ==
    ASSUME FlowInv, ortFailures \in Nat, JobTypes',
           UNCHANGED <<files, records>>, ortFailures' \in Nat, ortFailures' >= ortFailures,
           decoded' \subseteq Range(pending'), pending' = <<>> => unread' = <<>>,
           IsInjective(unread'), IsInjective(pending'), IsInjective(buffered'), IsInjective(Out'),
           Range(unread') \cap Range(pending') = {}, Range(buffered') \cap Range(Out') = {},
           NEW moved, moved \subseteq Coming,
           Coming' = Coming \ moved, Going' = Going \cup moved,
           \A i \in DOMAIN writing' : Justified(writing'[i].row, writing'[i].file, ortFailures')
    PROVE  FlowInv'
<1>1. Stored' = Stored /\ Input' = Input
    BY DEF Stored, Input
<1>2. Coming \cap Going = {} /\ (Coming \cup Going) \cap Stored = {}
      /\ Coming \cup Going \cup Stored = Range(Input)
    BY DEF FlowInv
<1> HIDE DEF Coming, Going, Stored, Input
<1>3. Coming' \cap Going' = {}
    BY <1>2
<1>4. (Coming' \cup Going') \cap Stored = {} /\ Coming' \cup Going' \cup Stored = Range(Input)
    BY <1>2
<1>5. \A r, f : Justified(r, f, ortFailures) => Justified(r, f, ortFailures')
    <2>1. ortFailures > 0 => ortFailures' > 0
        OBVIOUS
    <2> QED BY <2>1 DEF Justified
<1>6. \A f \in Discogs!Files : \A r \in Range(records'[f]) : Justified(r, f, ortFailures')
    BY <1>5 DEF FlowInv
<1>7. /\ \A f \in Discogs!Files : IsInjective(records'[f])
      /\ \A f, g \in Discogs!Files : f # g => Range(records'[f]) \cap Range(records'[g]) = {}
    BY DEF FlowInv
<1> QED BY <1>1, <1>3, <1>4, <1>6, <1>7 DEF FlowInv

\* The parts of a sequence without repetition have none, alone or together.
LEMMA CutInjective ==
    ASSUME NEW S, NEW s \in Seq(S), IsInjective(s), NEW n \in 0..Len(s)
    PROVE  /\ IsInjective(SubSeq(s, 1, n)) /\ IsInjective(SubSeq(s, n + 1, Len(s)))
           /\ Range(SubSeq(s, 1, n)) \cap Range(SubSeq(s, n + 1, Len(s))) = {}
<1> DEFINE k == Len(s)
           m == n + 1
           head == SubSeq(s, 1, n)
           rest == SubSeq(s, m, k)
<1>1. k \in Nat /\ DOMAIN s = 1..k /\ n \in Nat /\ n <= k /\ m \in Int /\ m = n + 1
    BY LenProperties
<1>2. \A i \in 1..k : s[i] \in S
    BY <1>1, ElementOfSeq
<1> HIDE DEF k, m
<1>3. /\ head \in Seq(S) /\ Len(head) = n
      /\ \A i \in 1..n : head[i] = s[i]
    <2>1. \A i \in 1..n : s[i] \in S
        BY <1>1, <1>2
    <2>2. /\ head \in Seq(S) /\ Len(head) = IF 1 <= n THEN n - 1 + 1 ELSE 0
          /\ \A i \in 1..(n - 1 + 1) : head[i] = s[1 + i - 1]
        BY <1>1, <2>1, SubSeqProperties
    <2> HIDE DEF head
    <2>3. \A i \in 1..n : 1 + i - 1 = i
        OBVIOUS
    <2>4. n - 1 + 1 = n
        BY <1>1
    <2> QED BY <1>1, <2>2, <2>3, <2>4
<1>4. /\ rest \in Seq(S) /\ Len(rest) = k - n
      /\ \A i \in 1..(k - n) : rest[i] = s[n + i] /\ n + i \in 1..k
    <2>1. \A i \in m..k : s[i] \in S
        BY <1>1, <1>2
    <2>2. /\ rest \in Seq(S) /\ Len(rest) = IF m <= k THEN k - m + 1 ELSE 0
          /\ \A i \in 1..(k - m + 1) : rest[i] = s[m + i - 1]
        BY <1>1, <2>1, SubSeqProperties
    <2> HIDE DEF rest
    <2>3. \A i \in 1..(k - n) : m + i - 1 = n + i /\ n + i \in 1..k
        BY <1>1
    <2>4. k - m + 1 = k - n /\ (~(m <= k) => k - n = 0)
        BY <1>1
    <2> QED BY <2>2, <2>3, <2>4
<1> HIDE DEF head, rest
<1>5. DOMAIN head = 1..n /\ DOMAIN rest = 1..(k - n)
    BY <1>3, <1>4, RangeIs
<1>6. \A i, j \in 1..k : s[i] = s[j] => i = j
    BY <1>1 DEF IsInjective
<1>7. IsInjective(head)
    <2> SUFFICES ASSUME NEW i \in 1..n, NEW j \in 1..n, head[i] = head[j] PROVE i = j
        BY <1>5 DEF IsInjective
    <2>1. i \in 1..k /\ j \in 1..k /\ s[i] = s[j]
        BY <1>1, <1>3
    <2> QED BY <1>6, <2>1
<1>8. IsInjective(rest)
    <2> SUFFICES ASSUME NEW i \in 1..(k - n), NEW j \in 1..(k - n), rest[i] = rest[j] PROVE i = j
        BY <1>5 DEF IsInjective
    <2>1. n + i = n + j
        BY <1>4, <1>6
    <2> QED BY <1>1, <2>1
<1>9. ASSUME NEW i \in 1..n, NEW j \in 1..(k - n), head[i] = rest[j] PROVE FALSE
    <2>1. i \in 1..k /\ i = n + j
        BY <1>1, <1>3, <1>4, <1>6, <1>9
    <2> QED BY <1>1, <2>1
<1>10. Range(head) \cap Range(rest) = {}
    BY <1>5, <1>9 DEF Range
<1> QED BY <1>7, <1>8, <1>10 DEF head, rest, k, m

LEMMA RefillInjective ==
    ASSUME NEW S, NEW s \in Seq(S), IsInjective(s)
    PROVE  /\ IsInjective(SubSeq(s, 1, IF s = <<>> THEN 0 ELSE 1))
           /\ IsInjective(SubSeq(s, 2, Len(s)))
           /\ Range(SubSeq(s, 1, IF s = <<>> THEN 0 ELSE 1)) \cap Range(SubSeq(s, 2, Len(s))) = {}
           /\ s # <<>> => Range(SubSeq(s, 1, IF s = <<>> THEN 0 ELSE 1)) # {}
<1>1. CASE s # <<>>
    <2>1. 1 \in 0..Len(s) /\ 1 + 1 = 2
        BY <1>1, LenProperties, EmptySeq
    <2>2. /\ IsInjective(SubSeq(s, 1, 1)) /\ IsInjective(SubSeq(s, 1 + 1, Len(s)))
          /\ Range(SubSeq(s, 1, 1)) \cap Range(SubSeq(s, 1 + 1, Len(s))) = {}
        BY <2>1, CutInjective
    <2>3. Range(SubSeq(s, 1, 1)) # {}
        <3>1. \A i \in 1..1 : s[i] \in S
            BY <2>1, RangeIs, ElementOfSeq
        <3> DEFINE q == SubSeq(s, 1, 1)
        <3>2. q \in Seq(S) /\ Len(q) = 1
            BY <3>1, SubSeqProperties
        <3> HIDE DEF q
        <3>3. 1 \in DOMAIN q
            BY <3>2, RangeIs
        <3>4. q[1] \in Range(q)
            BY <3>3 DEF Range
        <3> QED BY <3>4 DEF q
    <2> QED BY <1>1, <2>1, <2>2, <2>3
<1>2. CASE s = <<>>
    <2> DEFINE head == SubSeq(s, 1, IF s = <<>> THEN 0 ELSE 1)
               rest == SubSeq(s, 2, Len(s))
    <2>1. Range(head) \cup Range(rest) = Range(s) /\ Range(s) = {}
        BY <1>2, RefillFacts, RangeIs
    <2> HIDE DEF head, rest
    <2>2. \A q : Range(q) = {} => IsInjective(q)
        BY DEF Range, IsInjective
    <2>3. Range(head) = {} /\ Range(rest) = {} /\ IsInjective(head) /\ IsInjective(rest)
        BY <2>1, <2>2
    <2> QED BY <1>2, <2>3 DEF head, rest
<1> QED BY <1>1, <1>2

\* A decoded row goes on, and the next unread one is submitted.
LEMMA RefillKeeps ==
    ASSUME FlowInv, NEW r \in decoded, Discogs!Refill(r)
    PROVE  /\ unread' \in Seq(FileRows) /\ pending' \in Seq(FileRows)
           /\ IsInjective(unread') /\ IsInjective(pending')
           /\ Range(unread') \cap Range(pending') = {}
           /\ decoded' \subseteq Range(pending') /\ (pending' = <<>> => unread' = <<>>)
           /\ r \in Coming /\ r \in FileRows /\ Coming' = Coming \ {r}
<1> DEFINE rest == Without(pending, {r})
           next == SubSeq(unread, 1, IF unread = <<>> THEN 0 ELSE 1)
<1>1. pending' = rest \o next /\ unread' = SubSeq(unread, 2, Len(unread)) /\ decoded' = decoded \ {r}
    BY SameWithout DEF Discogs!Refill
<1>2. /\ unread \in Seq(FileRows) /\ pending \in Seq(FileRows) /\ decoded \subseteq Range(pending)
      /\ IsInjective(unread) /\ IsInjective(pending) /\ Range(unread) \cap Range(pending) = {}
    BY DEF FlowInv, JobTypes
<1>3. /\ next \in Seq(FileRows) /\ unread' \in Seq(FileRows)
      /\ Range(next) \cup Range(unread') = Range(unread)
      /\ IsInjective(next) /\ IsInjective(unread') /\ Range(next) \cap Range(unread') = {}
      /\ unread # <<>> => Range(next) # {}
    BY <1>1, <1>2, RefillFacts, RefillInjective
<1>4. rest \in Seq(FileRows) /\ Range(rest) = Range(pending) \ {r} /\ IsInjective(rest)
    <2>1. \A i, j \in DOMAIN pending : pending[i] = pending[j] => i = j
        BY <1>2 DEF IsInjective
    <2> QED BY <1>2, <2>1, WithoutFacts, OnlyInjective DEF Without
<1> HIDE DEF rest, next
<1>5. /\ pending' \in Seq(FileRows) /\ Range(pending') = Range(rest) \cup Range(next)
      /\ IsInjective(pending')
    BY <1>1, <1>2, <1>3, <1>4, ConcatRange, ConcatInjective
<1>6. r \in Range(pending) /\ r \in FileRows /\ r \notin Range(unread)
    BY <1>2, RangeIs
<1>7. Coming' = Coming \ {r} /\ r \in Coming
    BY <1>3, <1>4, <1>5, <1>6 DEF Coming
<1>8. Range(unread') \cap Range(pending') = {} /\ decoded' \subseteq Range(pending')
    BY <1>1, <1>2, <1>3, <1>4, <1>5
<1>9. pending' = <<>> => unread' = <<>>
    <2>1. SUFFICES ASSUME pending' = <<>> PROVE unread' = <<>>
        OBVIOUS
    <2>2. Range(next) = {}
        BY <1>5, <2>1, RangeIs
    <2>3. unread = <<>>
        BY <1>3, <2>2
    <2>4. Range(unread) = {}
        BY <2>3 DEF Range
    <2>5. Range(unread') = {}
        BY <1>3, <2>4
    <2> QED BY <1>3, <2>5, RangeIs
<1> QED BY <1>3, <1>5, <1>6, <1>7, <1>8, <1>9

\* What a flush hands to the writer: every row of the buffer once, to a file it may go to.
LEMMA OutcomeIs ==
    ASSUME NEW rows \in Seq(FileRows), ortFailures \in Nat,
           NEW outcome \in Discogs!FlushOutcomes(rows), Discogs!CountFailures(rows, outcome)
    PROVE  /\ outcome \in Seq(Entries) /\ DOMAIN outcome = DOMAIN rows
           /\ \A i \in DOMAIN rows : outcome[i].row = rows[i]
           /\ ortFailures' \in Nat /\ ortFailures' >= ortFailures
           /\ \A i \in DOMAIN rows : Justified(outcome[i].row, outcome[i].file, ortFailures')
<1>1. /\ Len(rows) \in Nat /\ DOMAIN rows = 1..Len(rows) /\ \A i \in DOMAIN rows : rows[i] \in FileRows
    BY RangeIs, ElementOfSeq
<1>2. ortFailures' \in Nat /\ ortFailures' >= ortFailures
    BY DEF Discogs!CountFailures
<1>3. CASE outcome = Discogs!Routed(rows)
    <2>1. /\ DOMAIN outcome = 1..Len(rows)
          /\ \A i \in 1..Len(rows) :
                outcome[i] = [row |-> rows[i], file |-> Discogs!RouteOf(rows[i].track)]
        BY <1>3 DEF Discogs!Routed
    <2>2. \A i \in 1..Len(rows) : outcome[i] \in Entries
        BY <1>1, <2>1 DEF Entries, Discogs!Files, Discogs!Routes, Discogs!RouteOf
    <2>3. outcome \in [1..Len(rows) -> Entries]
        BY <1>3, <2>1, <2>2 DEF Discogs!Routed
    <2>4. outcome \in Seq(Entries)
        BY <1>1, <2>3, IsASeq
    <2>5. \A i \in DOMAIN rows : Justified(outcome[i].row, outcome[i].file, ortFailures')
        BY <1>1, <2>1 DEF Justified
    <2> QED BY <1>1, <1>2, <2>1, <2>4, <2>5
<1>4. CASE outcome # Discogs!Routed(rows)
    <2>1. outcome = Discogs!Failed(rows) /\ rows # <<>>
        BY <1>4, PlanCovers DEF Discogs!FlushOutcomes
    <2>2. ortFailures' = ortFailures + 1
        BY <2>1, PlanCovers DEF Discogs!CountFailures
    <2>3. /\ DOMAIN outcome = 1..Len(rows)
          /\ \A i \in 1..Len(rows) : outcome[i] = [row |-> rows[i], file |-> "failed"]
        BY <2>1 DEF Discogs!Failed
    <2>4. \A i \in 1..Len(rows) : outcome[i] \in Entries
        BY <1>1, <2>3 DEF Entries, Discogs!Files, Discogs!Routes
    <2>5. outcome \in [1..Len(rows) -> Entries]
        BY <2>1, <2>3, <2>4 DEF Discogs!Failed
    <2>6. outcome \in Seq(Entries)
        BY <1>1, <2>5, IsASeq
    <2>7. ortFailures' > 0
        BY <2>2
    <2>8. \A i \in DOMAIN rows : Justified(outcome[i].row, outcome[i].file, ortFailures')
        BY <1>1, <2>3, <2>7 DEF Justified
    <2> QED BY <1>1, <1>2, <2>3, <2>6, <2>8
<1> QED BY <1>3, <1>4

-----------------------------------------------------------------------------
(* The steps of the Discogs stage. *)

LEMMA AppendOnce ==
    ASSUME NEW S, NEW s \in Seq(S), NEW x \in S, IsInjective(s), x \notin Range(s)
    PROVE  /\ Append(s, x) \in Seq(S) /\ IsInjective(Append(s, x))
           /\ Range(Append(s, x)) = Range(s) \cup {x}
<1> DEFINE one == <<x>>
<1>1. one \in Seq(S) /\ DOMAIN one = 1..1 /\ one[1] = x
    OBVIOUS
<1>2. Append(s, x) = s \o one
    BY AppendIsConcat
<1> HIDE DEF one
<1>3. \A i \in 1..1 : i = 1
    OBVIOUS
<1>4. IsInjective(one) /\ Range(one) = {x}
    BY <1>1, <1>3 DEF IsInjective, Range
<1>5. Range(s) \cap Range(one) = {}
    BY <1>4
<1> QED BY <1>1, <1>2, <1>4, <1>5, ConcatRange, ConcatInjective

\* One more row to write.
LEMMA WrittenMore ==
    ASSUME NEW w \in Seq(Entries), NEW e \in Entries, IsInjective(Written(w)),
           e.row \notin Range(Written(w))
    PROVE  /\ Append(w, e) \in Seq(Entries) /\ IsInjective(Written(Append(w, e)))
           /\ Range(Written(Append(w, e))) = Range(Written(w)) \cup {e.row}
           /\ \A i \in DOMAIN Append(w, e) :
                 Append(w, e)[i] = e \/ (i \in DOMAIN w /\ Append(w, e)[i] = w[i])
<1> DEFINE more == Append(w, e)
           n == Len(w)
<1>1. /\ more \in Seq(Entries) /\ Len(more) = n + 1 /\ \A i \in 1..n : more[i] = w[i]
      /\ more[n + 1] = e /\ n \in Nat /\ DOMAIN w = 1..n
    BY AppendProperties, RangeIs
<1>2. DOMAIN more = 1..(n + 1)
    BY <1>1, RangeIs
<1> HIDE DEF more, n
<1>3. /\ DOMAIN Written(w) = 1..n /\ \A i \in 1..n : Written(w)[i] = w[i].row
      /\ DOMAIN Written(more) = 1..(n + 1) /\ \A i \in 1..(n + 1) : Written(more)[i] = more[i].row
    BY <1>1, <1>2 DEF Written
<1>4. \A i \in 1..(n + 1) : i \in 1..n \/ i = n + 1
    BY <1>1
<1>5. 1..n \subseteq 1..(n + 1) /\ n + 1 \in 1..(n + 1)
    BY <1>1
<1>6. /\ \A i \in 1..n : Written(more)[i] = Written(w)[i] /\ Written(w)[i] \in Range(Written(w))
      /\ Written(more)[n + 1] = e.row
    BY <1>1, <1>3, <1>5 DEF Range
<1>7. IsInjective(Written(more))
    BY <1>3, <1>4, <1>6 DEF IsInjective
<1>8. Range(Written(more)) = Range(Written(w)) \cup {e.row}
    <2>1. Range(Written(more)) \subseteq Range(Written(w)) \cup {e.row}
        BY <1>3, <1>4, <1>6 DEF Range
    <2>2. Range(Written(w)) \subseteq Range(Written(more))
        BY <1>3, <1>5, <1>6 DEF Range
    <2>3. e.row \in Range(Written(more))
        BY <1>3, <1>5, <1>6 DEF Range
    <2> QED BY <2>1, <2>2, <2>3
<1>9. \A i \in DOMAIN more : more[i] = e \/ (i \in DOMAIN w /\ more[i] = w[i])
    BY <1>1, <1>2, <1>4
<1> QED BY <1>1, <1>7, <1>8, <1>9 DEF more

\* The first row is written.
LEMMA WrittenLess ==
    ASSUME NEW w \in Seq(Entries), w # <<>>, IsInjective(Written(w))
    PROVE  /\ Head(w) \in Entries /\ 1 \in DOMAIN w /\ Head(w) = w[1]
           /\ Head(w).row \in Range(Written(w))
           /\ Tail(w) \in Seq(Entries) /\ IsInjective(Written(Tail(w)))
           /\ Range(Written(Tail(w))) = Range(Written(w)) \ {Head(w).row}
           /\ \A i \in DOMAIN Tail(w) : i + 1 \in DOMAIN w /\ Tail(w)[i] = w[i + 1]
<1> DEFINE rest == Tail(w)
           n == Len(w)
<1>1. /\ Head(w) \in Entries /\ Head(w) = w[1] /\ rest \in Seq(Entries) /\ Len(rest) = n - 1
      /\ \A i \in 1..(n - 1) : rest[i] = w[i + 1]
    BY HeadTailProperties
<1>2. n \in Nat /\ n # 0 /\ DOMAIN w = 1..n /\ DOMAIN rest = 1..(n - 1)
    BY <1>1, RangeIs, EmptySeq
<1> HIDE DEF rest, n
<1>3. /\ DOMAIN Written(w) = 1..n /\ \A i \in 1..n : Written(w)[i] = w[i].row
      /\ DOMAIN Written(rest) = 1..(n - 1) /\ \A i \in 1..(n - 1) : Written(rest)[i] = rest[i].row
    BY <1>1, <1>2 DEF Written
<1>4. /\ \A i \in 1..(n - 1) : i + 1 \in 1..n /\ i + 1 # 1
      /\ 1 \in 1..n /\ \A i \in 1..n : i # 1 => i - 1 \in 1..(n - 1) /\ i - 1 + 1 = i
      /\ \A i, j \in 1..(n - 1) : i + 1 = j + 1 => i = j
    BY <1>2
<1>5. \A i \in 1..(n - 1) : Written(rest)[i] = Written(w)[i + 1]
    BY <1>1, <1>3, <1>4
<1>6. Head(w).row = Written(w)[1]
    BY <1>1, <1>3, <1>4
<1>7. \A i, j \in 1..n : Written(w)[i] = Written(w)[j] => i = j
    BY <1>3 DEF IsInjective
<1>8. IsInjective(Written(rest))
    BY <1>3, <1>4, <1>5, <1>7 DEF IsInjective
<1>9. Range(Written(rest)) = Range(Written(w)) \ {Head(w).row}
    <2>1. ASSUME NEW x \in Range(Written(rest)) PROVE x \in Range(Written(w)) /\ x # Head(w).row
        <3>1. PICK i \in 1..(n - 1) : Written(rest)[i] = x
            BY <1>3 DEF Range
        <3>2. x = Written(w)[i + 1] /\ i + 1 \in 1..n /\ i + 1 # 1
            BY <1>4, <1>5, <3>1
        <3> QED BY <1>3, <1>4, <1>6, <1>7, <3>2 DEF Range
    <2>2. ASSUME NEW x \in Range(Written(w)), x # Head(w).row PROVE x \in Range(Written(rest))
        <3>1. PICK i \in 1..n : Written(w)[i] = x
            BY <1>3 DEF Range
        <3>2. i # 1
            BY <1>6, <2>2, <3>1
        <3>3. i - 1 \in 1..(n - 1) /\ Written(rest)[i - 1] = x
            BY <1>4, <1>5, <3>1, <3>2
        <3> QED BY <1>3, <3>3 DEF Range
    <2> QED BY <2>1, <2>2
<1>10. Head(w).row \in Range(Written(w))
    BY <1>3, <1>4, <1>6 DEF Range
<1> QED BY <1>1, <1>2, <1>4, <1>8, <1>9, <1>10 DEF rest

\* The rows of a flushed buffer, to be written.
LEMMA WrittenIs ==
    ASSUME NEW rows \in Seq(FileRows), NEW w, w \in Seq(Entries), DOMAIN w = DOMAIN rows,
           \A i \in DOMAIN rows : w[i].row = rows[i]
    PROVE  Written(w) = rows
<1>1. rows = [i \in DOMAIN rows |-> rows[i]]
    BY LenProperties
<1> QED BY <1>1 DEF Written

\* Nothing moves: the decode of a row ends, or it is a stutter.
LEMMA NothingMoves ==
    ASSUME FlowInv, RecordsInv, decoded' \subseteq Range(pending),
           UNCHANGED <<unread, pending, buffered, writing, records, ortFailures, files>>
    PROVE  FlowInv'
<1>1. UNCHANGED <<Coming, Going, Out>>
    BY DEF Coming, Going, Out
<1>2. JobTypes' /\ ortFailures \in Nat /\ ortFailures' \in Nat /\ ortFailures' >= ortFailures
    BY DEF FlowInv, JobTypes, RecordsInv
<1>3. /\ UNCHANGED <<files, records>> /\ decoded' \subseteq Range(pending')
      /\ pending' = <<>> => unread' = <<>>
      /\ IsInjective(unread') /\ IsInjective(pending') /\ IsInjective(buffered') /\ IsInjective(Out')
      /\ Range(unread') \cap Range(pending') = {} /\ Range(buffered') \cap Range(Out') = {}
      /\ \A i \in DOMAIN writing' : Justified(writing'[i].row, writing'[i].file, ortFailures')
    BY <1>1 DEF FlowInv
<1>4. {} \subseteq Coming /\ Coming' = Coming \ {} /\ Going' = Going \cup {}
    BY <1>1
<1> QED BY <1>2, <1>3, <1>4, MoveKeepsFlow

LEMMA NothingTwice ==
    /\ <<>> \in Seq(FileRows) /\ Range(<<>>) = {} /\ IsInjective(<<>>)
    /\ Range(Written(<<>>)) = {}
<1>1. DOMAIN <<>> = {}
    OBVIOUS
<1> QED BY <1>1 DEF Range, IsInjective, Written

LEMMA TakeUnusableKeeps ==
    ASSUME FlowInv, RecordsInv, NEW r, Discogs!TakeUnusable(r), UNCHANGED files
    PROVE  FlowInv' /\ ortFailures' \in Nat
<1>1. /\ writing = <<>> /\ r \in decoded /\ Discogs!Unusable(r.track) /\ Discogs!Refill(r)
      /\ buffered' = <<>> /\ records' = records
    BY DEF Discogs!TakeUnusable
<1>2. PICK outcome \in Discogs!FlushOutcomes(buffered) :
         writing' = outcome \o Discogs!Failed(<<r>>) /\ Discogs!CountFailures(buffered, outcome)
    BY DEF Discogs!TakeUnusable
<1>3. /\ unread' \in Seq(FileRows) /\ pending' \in Seq(FileRows)
      /\ IsInjective(unread') /\ IsInjective(pending')
      /\ Range(unread') \cap Range(pending') = {}
      /\ decoded' \subseteq Range(pending') /\ (pending' = <<>> => unread' = <<>>)
      /\ r \in Coming /\ r \in FileRows /\ Coming' = Coming \ {r}
    BY <1>1, RefillKeeps
<1>4. /\ buffered \in Seq(FileRows) /\ IsInjective(buffered) /\ ortFailures \in Nat
    BY DEF FlowInv, JobTypes, RecordsInv
<1>5. /\ outcome \in Seq(Entries) /\ DOMAIN outcome = DOMAIN buffered
      /\ \A i \in DOMAIN buffered : outcome[i].row = buffered[i]
      /\ ortFailures' \in Nat /\ ortFailures' >= ortFailures
      /\ \A i \in DOMAIN buffered : Justified(outcome[i].row, outcome[i].file, ortFailures')
    BY <1>2, <1>4, OutcomeIs
<1>6. Written(outcome) = buffered
    BY <1>4, <1>5, WrittenIs
<1> DEFINE e == [row |-> r, file |-> "failed"]
<1>7. e \in Entries /\ e.row = r
    BY <1>3 DEF Entries, Discogs!Files
<1>8. Discogs!Failed(<<r>>) = <<e>>
    BY DEF Discogs!Failed
<1>9. Justified(e.row, e.file, ortFailures')
    BY <1>1 DEF Justified
<1> HIDE DEF e
<1>10. writing' = Append(outcome, e)
    BY <1>2, <1>5, <1>7, <1>8, AppendIsConcat
<1>11. Going = Range(buffered) /\ r \notin Range(buffered)
    <2>1. Going = Range(buffered)
        BY <1>1, NothingTwice DEF Going, Out
    <2> QED BY <1>3, <2>1 DEF FlowInv
<1>12. /\ writing' \in Seq(Entries) /\ IsInjective(Written(writing'))
       /\ Range(Written(writing')) = Range(buffered) \cup {r}
       /\ \A i \in DOMAIN writing' :
             writing'[i] = e \/ (i \in DOMAIN outcome /\ writing'[i] = outcome[i])
    BY <1>4, <1>5, <1>6, <1>7, <1>10, <1>11, WrittenMore
<1>13. Out' = Written(writing')
    BY DEF Out
<1>14. Going' = Going \cup {r} /\ Range(buffered') \cap Range(Out') = {} /\ IsInjective(buffered')
    BY <1>1, <1>11, <1>12, <1>13, NothingTwice DEF Going
<1>15. \A i \in DOMAIN writing' : Justified(writing'[i].row, writing'[i].file, ortFailures')
    BY <1>5, <1>9, <1>12
<1>16. JobTypes'
    BY <1>1, <1>3, <1>12, NothingTwice DEF JobTypes
<1>17. {r} \subseteq Coming /\ IsInjective(Out') /\ UNCHANGED <<files, records>>
    BY <1>1, <1>3, <1>12, <1>13
<1> QED BY <1>3, <1>4, <1>5, <1>14, <1>15, <1>16, <1>17, MoveKeepsFlow

LEMMA TakeKeeps ==
    ASSUME FlowInv, RecordsInv, NEW r, Discogs!Take(r), UNCHANGED files
    PROVE  FlowInv' /\ ortFailures' \in Nat
<1> DEFINE kept == IF Discogs!Overflows(r) THEN <<>> ELSE buffered
           flushed == IF Discogs!Overflows(r) THEN buffered ELSE <<>>
<1>1. /\ writing = <<>> /\ r \in decoded /\ Discogs!Refill(r)
      /\ buffered' = Append(kept, r) /\ records' = records
    BY DEF Discogs!Take
<1>2. PICK outcome \in Discogs!FlushOutcomes(flushed) :
         writing' = outcome /\ Discogs!CountFailures(flushed, outcome)
    BY DEF Discogs!Take
<1>3. /\ unread' \in Seq(FileRows) /\ pending' \in Seq(FileRows)
      /\ IsInjective(unread') /\ IsInjective(pending')
      /\ Range(unread') \cap Range(pending') = {}
      /\ decoded' \subseteq Range(pending') /\ (pending' = <<>> => unread' = <<>>)
      /\ r \in Coming /\ r \in FileRows /\ Coming' = Coming \ {r}
    BY <1>1, RefillKeeps
<1>4. /\ kept \in Seq(FileRows) /\ flushed \in Seq(FileRows)
      /\ IsInjective(kept) /\ IsInjective(flushed)
      /\ Range(kept) \cup Range(flushed) = Range(buffered) /\ Range(kept) \cap Range(flushed) = {}
      /\ ortFailures \in Nat
    <2>1. buffered \in Seq(FileRows) /\ IsInjective(buffered) /\ ortFailures \in Nat
        BY DEF FlowInv, JobTypes, RecordsInv
    <2> QED BY <2>1, NothingTwice
<1> HIDE DEF kept, flushed
<1>5. /\ outcome \in Seq(Entries) /\ DOMAIN outcome = DOMAIN flushed
      /\ \A i \in DOMAIN flushed : outcome[i].row = flushed[i]
      /\ ortFailures' \in Nat /\ ortFailures' >= ortFailures
      /\ \A i \in DOMAIN flushed : Justified(outcome[i].row, outcome[i].file, ortFailures')
    BY <1>2, <1>4, OutcomeIs
<1>6. Out' = flushed
    BY <1>2, <1>4, <1>5, WrittenIs DEF Out
<1>7. Going = Range(buffered) /\ r \notin Range(buffered)
    <2>1. Going = Range(buffered)
        BY <1>1, NothingTwice DEF Going, Out
    <2> QED BY <1>3, <2>1 DEF FlowInv
<1>8. /\ buffered' \in Seq(FileRows) /\ IsInjective(buffered')
      /\ Range(buffered') = Range(kept) \cup {r}
    <2>1. r \notin Range(kept)
        BY <1>4, <1>7
    <2> QED BY <1>1, <1>3, <1>4, <2>1, AppendOnce
<1>9. Going' = Going \cup {r} /\ Range(buffered') \cap Range(Out') = {} /\ IsInjective(Out')
    BY <1>4, <1>6, <1>7, <1>8 DEF Going
<1>10. \A i \in DOMAIN writing' : Justified(writing'[i].row, writing'[i].file, ortFailures')
    BY <1>2, <1>5
<1>11. JobTypes'
    BY <1>2, <1>3, <1>5, <1>8 DEF JobTypes
<1>12. {r} \subseteq Coming /\ UNCHANGED <<files, records>>
    BY <1>1, <1>3
<1> QED BY <1>3, <1>4, <1>5, <1>8, <1>9, <1>10, <1>11, <1>12, MoveKeepsFlow

LEMMA FlushKeeps ==
    ASSUME FlowInv, RecordsInv, Discogs!Flush, UNCHANGED files
    PROVE  FlowInv' /\ ortFailures' \in Nat
<1>1. /\ writing = <<>> /\ buffered' = <<>> /\ UNCHANGED <<unread, pending, decoded, records>>
    BY DEF Discogs!Flush
<1>2. PICK outcome \in Discogs!FlushOutcomes(buffered) :
         writing' = outcome /\ Discogs!CountFailures(buffered, outcome)
    BY DEF Discogs!Flush
<1>3. buffered \in Seq(FileRows) /\ IsInjective(buffered) /\ ortFailures \in Nat
    BY DEF FlowInv, JobTypes, RecordsInv
<1>4. /\ outcome \in Seq(Entries) /\ DOMAIN outcome = DOMAIN buffered
      /\ \A i \in DOMAIN buffered : outcome[i].row = buffered[i]
      /\ ortFailures' \in Nat /\ ortFailures' >= ortFailures
      /\ \A i \in DOMAIN buffered : Justified(outcome[i].row, outcome[i].file, ortFailures')
    BY <1>2, <1>3, OutcomeIs
<1>5. Out' = buffered
    BY <1>2, <1>3, <1>4, WrittenIs DEF Out
<1>6. Going = Range(buffered)
    BY <1>1, NothingTwice DEF Going, Out
<1>7. Going' = Going /\ Range(buffered') \cap Range(Out') = {} /\ IsInjective(buffered')
    BY <1>1, <1>5, <1>6, NothingTwice DEF Going
<1>8. Coming' = Coming
    BY <1>1 DEF Coming
<1>9. \A i \in DOMAIN writing' : Justified(writing'[i].row, writing'[i].file, ortFailures')
    BY <1>2, <1>4
<1>10. JobTypes'
    BY <1>1, <1>2, <1>4, NothingTwice DEF FlowInv, JobTypes
<1>11. /\ IsInjective(unread') /\ IsInjective(pending') /\ IsInjective(Out')
       /\ Range(unread') \cap Range(pending') = {}
       /\ decoded' \subseteq Range(pending') /\ (pending' = <<>> => unread' = <<>>)
       /\ UNCHANGED <<files, records>>
    BY <1>1, <1>3, <1>5 DEF FlowInv
<1>12. {} \subseteq Coming /\ Coming' = Coming \ {} /\ Going' = Going \cup {}
    BY <1>7, <1>8
<1> QED BY <1>3, <1>4, <1>7, <1>9, <1>10, <1>11, <1>12, MoveKeepsFlow

\* A row is stored.
LEMMA WriteKeeps ==
    ASSUME FlowInv, RecordsInv, Discogs!Write, UNCHANGED files
    PROVE  FlowInv' /\ records' \in [Discogs!Files -> Seq(FileRows)] /\ ortFailures' \in Nat
<1> DEFINE r == Head(writing).row
           g == Head(writing).file
<1>1. /\ writing # <<>> /\ records' = [records EXCEPT ![g] = Append(@, r)] /\ writing' = Tail(writing)
      /\ UNCHANGED <<unread, pending, decoded, buffered, ortFailures>>
    BY DEF Discogs!Write
<1>2. /\ writing \in Seq(Entries) /\ IsInjective(Out) /\ ortFailures \in Nat
      /\ records \in [Discogs!Files -> Seq(FileRows)]
    BY DEF FlowInv, JobTypes, RecordsInv
<1>3. /\ Head(writing) \in Entries /\ 1 \in DOMAIN writing /\ Head(writing) = writing[1]
      /\ r \in Range(Out)
      /\ writing' \in Seq(Entries) /\ IsInjective(Out')
      /\ Range(Out') = Range(Out) \ {r}
      /\ \A i \in DOMAIN writing' : i + 1 \in DOMAIN writing /\ writing'[i] = writing[i + 1]
    BY <1>1, <1>2, WrittenLess DEF Out
<1>4. Justified(r, g, ortFailures) /\ r \in FileRows /\ g \in Discogs!Files
    BY <1>3 DEF FlowInv, Entries
<1> HIDE DEF r, g
<1>5. Coming' = Coming /\ Going' = Going \ {r} /\ r \in Going
    <2>1. Range(buffered) \cap Range(Out) = {}
        BY DEF FlowInv
    <2> QED BY <1>1, <1>3, <2>1 DEF Coming, Going
<1>6. r \notin Stored
    BY <1>5 DEF FlowInv
<1>7. \A f \in Discogs!Files : Range(records[f]) \subseteq Stored
    BY DEF Stored, Discogs!Files, Discogs!Routes
<1>8. /\ Append(records[g], r) \in Seq(FileRows) /\ IsInjective(Append(records[g], r))
      /\ Range(Append(records[g], r)) = Range(records[g]) \cup {r}
    <2>1. records[g] \in Seq(FileRows) /\ IsInjective(records[g]) /\ r \notin Range(records[g])
        BY <1>2, <1>4, <1>6, <1>7 DEF FlowInv
    <2> QED BY <1>4, <2>1, AppendOnce
<1>9. \A f \in Discogs!Files : records'[f] = IF f = g THEN Append(records[g], r) ELSE records[f]
    BY <1>1, <1>2
<1>10. records' \in [Discogs!Files -> Seq(FileRows)]
    BY <1>1, <1>2, <1>8
<1>11. \A f \in Discogs!Files : IsInjective(records'[f])
    BY <1>8, <1>9 DEF FlowInv
<1>12. \A f \in Discogs!Files :
          Range(records'[f]) = IF f = g THEN Range(records[f]) \cup {r} ELSE Range(records[f])
    BY <1>8, <1>9
<1>13. \A f, h \in Discogs!Files : f # h => Range(records'[f]) \cap Range(records'[h]) = {}
    <2> SUFFICES ASSUME NEW f \in Discogs!Files, NEW h \in Discogs!Files, f # h
                 PROVE  Range(records'[f]) \cap Range(records'[h]) = {}
        OBVIOUS
    <2>1. Range(records[f]) \cap Range(records[h]) = {}
        BY DEF FlowInv
    <2>2. r \notin Range(records[f]) /\ r \notin Range(records[h])
        BY <1>6, <1>7
    <2> QED BY <1>12, <2>1, <2>2
<1>14. \A f \in Discogs!Files : \A q \in Range(records'[f]) : Justified(q, f, ortFailures')
    <2> SUFFICES ASSUME NEW f \in Discogs!Files, NEW q \in Range(records'[f])
                 PROVE  Justified(q, f, ortFailures)
        BY <1>1
    <2>1. q \in Range(records[f]) \/ (f = g /\ q = r)
        BY <1>12
    <2>2. q \in Range(records[f]) => Justified(q, f, ortFailures)
        BY DEF FlowInv
    <2> QED BY <1>4, <2>1, <2>2
<1>15. Stored' = Stored \cup {r}
    <2>1. Stored = UNION {Range(records[f]) : f \in Discogs!Files}
        BY DEF Stored
    <2>2. Stored' = UNION {Range(records'[f]) : f \in Discogs!Files}
        BY DEF Stored, Discogs!Files, Discogs!Routes
    <2>3. ASSUME NEW q \in Stored' PROVE q \in Stored \cup {r}
        <3>1. PICK f \in Discogs!Files : q \in Range(records'[f])
            BY <2>2
        <3>2. q \in Range(records[f]) \/ q = r
            BY <1>12, <3>1
        <3> QED BY <2>1, <3>2
    <2>4. Stored \subseteq Stored'
        <3> SUFFICES ASSUME NEW q \in Stored PROVE q \in Stored'
            OBVIOUS
        <3>1. PICK f \in Discogs!Files : q \in Range(records[f])
            BY <2>1
        <3>2. q \in Range(records'[f])
            BY <1>12, <3>1
        <3> QED BY <2>2, <3>2
    <2>5. r \in Stored'
        <3>1. r \in Range(records'[g])
            BY <1>4, <1>12
        <3> QED BY <1>4, <2>2, <3>1
    <2> HIDE DEF Stored
    <2> QED BY <2>3, <2>4, <2>5
<1>16. Input' = Input
    BY DEF Input
<1>17. /\ Coming' \cap Going' = {} /\ (Coming' \cup Going') \cap Stored' = {}
       /\ Coming' \cup Going' \cup Stored' = Range(Input')
    <2>1. /\ Coming \cap Going = {} /\ (Coming \cup Going) \cap Stored = {}
          /\ Coming \cup Going \cup Stored = Range(Input)
        BY DEF FlowInv
    <2> HIDE DEF Coming, Going, Stored, Input
    <2> QED BY <1>5, <1>15, <1>16, <2>1
<1>18. \A i \in DOMAIN writing' : Justified(writing'[i].row, writing'[i].file, ortFailures')
    BY <1>1, <1>3 DEF FlowInv
<1>19. /\ decoded' \subseteq Range(pending') /\ (pending' = <<>> => unread' = <<>>)
       /\ IsInjective(unread') /\ IsInjective(pending') /\ IsInjective(buffered')
       /\ Range(unread') \cap Range(pending') = {} /\ Range(buffered') \cap Range(Out') = {}
    BY <1>1, <1>3 DEF FlowInv
<1>20. JobTypes'
    BY <1>1, <1>3 DEF FlowInv, JobTypes
<1> QED BY <1>1, <1>2, <1>3, <1>10, <1>11, <1>13, <1>14, <1>17, <1>18, <1>19, <1>20 DEF FlowInv

\* What a step of a run leaves satisfies what a run expects to find.
LEMMA FlowRecords ==
    ASSUME FlowInv', records' \in [Discogs!Files -> Seq(FileRows)], ortFailures' \in Nat
    PROVE  RecordsInv'
<1> SUFFICES ASSUME NEW f \in Discogs!Routes, NEW i \in DOMAIN records'[f]
             PROVE  /\ f = Discogs!RouteOf(records'[f][i].track)
                    /\ \A j \in DOMAIN records'[f] : records'[f][j] = records'[f][i] => i = j
    BY DEF RecordsInv, Discogs!Files, Discogs!Routes, Discogs!RouteOf
<1>1. f \in Discogs!Files /\ f # "failed"
    BY DEF Discogs!Files, Discogs!Routes
<1>2. IsInjective(records'[f])
    BY <1>1 DEF FlowInv, Discogs!Files, Discogs!Routes
<1>3. records'[f][i] \in Range(records'[f])
    BY DEF Range
<1>4. Justified(records'[f][i], f, ortFailures')
    <2>1. \A h \in Discogs!Files : \A r \in Range(records'[h]) : Justified(r, h, ortFailures')
        BY DEF FlowInv, Discogs!Files, Discogs!Routes, Justified, Discogs!RouteOf, Discogs!Unusable
    <2> QED BY <1>1, <1>3, <2>1
<1> QED BY <1>1, <1>2, <1>4 DEF Justified, IsInjective

\* What a run finds: the whole rows, each once and in the file of its route; no failures.
LEMMA LoadedAre ==
    ASSUME RecordsInv, NEW resume \in BOOLEAN, Discogs!StartJob(resume)
    PROVE  /\ records' \in [Discogs!Files -> Seq(FileRows)]
           /\ \A f \in Discogs!Files : IsInjective(records'[f])
           /\ Range(records'["failed"]) = {}
           /\ \A f \in Discogs!Files : \A r \in Range(records'[f]) :
                 f \in Discogs!Routes /\ f = Discogs!RouteOf(r.track)
<1> DEFINE whole(f) == {r \in Range(records[f]) : r.whole}
<1>1. /\ DOMAIN records' = Discogs!Files
      /\ \A f \in Discogs!Files : \/ records'[f] = <<>>
                                  \/ f # "failed" /\ records'[f] = Only(records[f], whole(f))
      /\ records'["failed"] = <<>>
    BY SameOnly, SameRange DEF Discogs!StartJob, Discogs!Resumed, Discogs!Files
<1>2. ASSUME NEW f \in Discogs!Files
      PROVE  /\ records'[f] \in Seq(FileRows) /\ IsInjective(records'[f])
             /\ \A r \in Range(records'[f]) : f \in Discogs!Routes /\ f = Discogs!RouteOf(r.track)
    <2>1. CASE records'[f] = <<>>
        BY <2>1, NothingTwice
    <2>2. CASE f # "failed" /\ records'[f] = Only(records[f], whole(f))
        <3>1. f \in Discogs!Routes /\ records[f] \in Seq(FileRows)
            BY <2>2 DEF Discogs!Files, RecordsInv
        <3>2. /\ records'[f] \in Seq(FileRows) /\ Range(records'[f]) = Range(records[f]) \cap whole(f)
            BY <2>2, <3>1, OnlyFacts
        <3>3. \A i, j \in DOMAIN records[f] :
                 records[f][i] \in whole(f) /\ records[f][i] = records[f][j] => i = j
            BY <3>1 DEF RecordsInv
        <3>4. IsInjective(records'[f])
            <4> HIDE DEF whole
            <4> QED BY <2>2, <3>1, <3>3, OnlyInjective
        <3>5. \A r \in whole(f) : f = Discogs!RouteOf(r.track)
            BY <3>1 DEF RecordsInv, Range
        <3> QED BY <3>1, <3>2, <3>4, <3>5
    <2> QED BY <1>1, <2>1, <2>2
<1>3. records' \in [Discogs!Files -> Seq(FileRows)]
    <2>1. records' = [f \in Discogs!Files |-> records'[f]]
        <3>1. \/ records' = Discogs!Resumed
              \/ records' = [f \in Discogs!Files |-> <<>>]
            BY DEF Discogs!StartJob
        <3> QED BY <3>1 DEF Discogs!Resumed
    <2> QED BY <1>2, <2>1
<1>4. Range(records'["failed"]) = {}
    BY <1>1, NothingTwice
<1> QED BY <1>2, <1>3, <1>4

\* A run that starts reads what of the input is not stored; one with nothing to read has its routes.
LEMMA StartKeepsJob ==
    ASSUME RunInv, RecordsInv, NEW resume \in BOOLEAN, Discogs!StartJob(resume), UNCHANGED files
    PROVE  /\ RecordsInv'
           /\ job' = "running" => FlowInv'
           /\ job' = "done" => Discogs!Routing'
<1>1. /\ records' \in [Discogs!Files -> Seq(FileRows)]
      /\ \A f \in Discogs!Files : IsInjective(records'[f])
      /\ Range(records'["failed"]) = {}
      /\ \A f \in Discogs!Files : \A r \in Range(records'[f]) :
            f \in Discogs!Routes /\ f = Discogs!RouteOf(r.track)
    BY LoadedAre
<1>2. ortFailures' = ortFailures /\ ortFailures \in Nat
    BY DEF Discogs!StartJob, RecordsInv
<1>3. \A f, g \in Discogs!Files : f # g => Range(records'[f]) \cap Range(records'[g]) = {}
    BY <1>1
<1>4. \A f \in Discogs!Files : \A r \in Range(records'[f]) : Justified(r, f, ortFailures')
    BY <1>1 DEF Justified
<1>5. RecordsInv'
    <2> SUFFICES ASSUME NEW f \in Discogs!Routes, NEW i \in DOMAIN records'[f]
                 PROVE  /\ f = Discogs!RouteOf(records'[f][i].track)
                        /\ \A j \in DOMAIN records'[f] : records'[f][j] = records'[f][i] => i = j
        BY <1>1, <1>2 DEF RecordsInv, Discogs!Files, Discogs!Routes, Discogs!RouteOf
    <2>1. f \in Discogs!Files /\ records'[f][i] \in Range(records'[f])
        BY DEF Discogs!Files, Range
    <2> QED BY <1>1, <2>1 DEF IsInjective
<1>6. Input' = Input /\ Input \in Seq(FileRows) /\ IsInjective(Input)
    <2>1. files["accepted"] \in Seq(FileRows)
        BY DEF RunInv, RunTypes, Outputs
    <2>2. \A i, j \in DOMAIN files["accepted"] :
             files["accepted"][i] = files["accepted"][j] => i = j
        <3>1. "accepted" \in Outputs
            BY DEF Outputs
        <3> QED BY <3>1 DEF RunInv, OnePlace
    <2> QED BY <2>1, <2>2 DEF Input, IsInjective
<1>7. Stored' = Discogs!RowsIn(records')
    <2>1. Stored' = UNION {Range(records'[f]) : f \in Discogs!Files}
        BY DEF Stored, Discogs!Files, Discogs!Routes
    <2>2. Discogs!RowsIn(records') = UNION {Range(records'[f]) : f \in Discogs!Routes}
        BY SameRange DEF Discogs!RowsIn
    <2> QED BY <1>1, <2>1, <2>2 DEF Discogs!Files
<1> DEFINE rest == Without(Input, Stored')
           first == IF Len(rest) < Prefetched THEN Len(rest) ELSE Prefetched
<1>8. /\ rest = Discogs!Without(files["accepted"], Discogs!RowsIn(records'))
      /\ ~ Discogs!Refused(records') <=> Stored' \subseteq Range(Input)
    BY <1>7, SameWithout, SameRange DEF Input, Discogs!Refused
<1>9. rest \in Seq(FileRows) /\ Range(rest) = Range(Input) \ Stored' /\ IsInjective(rest)
    <2>1. \A i, j \in DOMAIN Input : Input[i] = Input[j] => i = j
        BY <1>6 DEF IsInjective
    <2> HIDE DEF Stored
    <2> QED BY <1>6, <2>1, WithoutFacts, OnlyInjective DEF Without
<1>10. /\ job' = IF Discogs!Refused(records') \/ rest = <<>>
                 THEN (IF Discogs!Refused(records') THEN "refused" ELSE "done") ELSE "running"
       /\ job' = "running" => /\ pending' = SubSeq(rest, 1, first)
                              /\ unread' = SubSeq(rest, first + 1, Len(rest))
       /\ decoded' = {} /\ buffered' = <<>> /\ writing' = <<>>
    <2>1. \/ records' = Discogs!Resumed /\ resume
          \/ records' = [f \in Discogs!Files |-> <<>>] /\ ~resume
        BY DEF Discogs!StartJob
    <2> HIDE DEF rest, first
    <2> QED BY <1>8, <2>1 DEF Discogs!StartJob, first
<1> HIDE DEF rest, first
<1>11. ASSUME job' = "done" PROVE Discogs!Routing'
    <2>1. rest = <<>> /\ ~ Discogs!Refused(records')
        BY <1>10, <1>11
    <2>2. Range(rest) = {}
        BY <2>1, NothingTwice
    <2>3. Stored' = Range(Input')
        <3> HIDE DEF Stored, Input
        <3> QED BY <1>6, <1>8, <1>9, <2>1, <2>2
    <2> QED BY <1>1, <1>3, <1>4, <2>3, StoredIsRouted
<1>12. ASSUME job' = "running" PROVE FlowInv'
    <2>1. /\ rest # <<>> /\ Stored' \subseteq Range(Input)
          /\ pending' = SubSeq(rest, 1, first) /\ unread' = SubSeq(rest, first + 1, Len(rest))
        BY <1>8, <1>10, <1>12
    <2>2. first \in 0..Len(rest) /\ first # 0 /\ Len(rest) \in Nat
        <3>1. Prefetched \in Nat \ {0}
            BY RoutingAssumption DEF Discogs!DiscogsAssumption
        <3>2. Len(rest) \in Nat /\ Len(rest) # 0
            BY <1>9, <2>1, RangeIs, EmptySeq
        <3> QED BY <3>1, <3>2 DEF first
    <2>3. /\ pending' \in Seq(FileRows) /\ unread' \in Seq(FileRows)
          /\ Range(pending') \cup Range(unread') = Range(rest)
        BY <1>9, <2>1, <2>2, CutRange
    <2>4. /\ IsInjective(pending') /\ IsInjective(unread')
          /\ Range(pending') \cap Range(unread') = {}
        BY <1>9, <2>1, <2>2, CutInjective
    <2>5. pending' # <<>>
        <3>1. \A i \in 1..first : rest[i] \in FileRows
            BY <1>9, <2>2, RangeIs, ElementOfSeq
        <3>2. Len(pending') = first
            BY <2>1, <2>2, <3>1, SubSeqProperties
        <3> QED BY <2>2, <3>2
    <2>6. Out' = Written(<<>>)
        BY <1>10 DEF Out
    <2>7. Going' = {} /\ Coming' = Range(Input) \ Stored'
        <3> HIDE DEF Stored, Input
        <3> QED BY <1>9, <1>10, <2>3, <2>6, NothingTwice DEF Going, Coming
    <2>8. /\ Coming' \cap Going' = {} /\ (Coming' \cup Going') \cap Stored' = {}
          /\ Coming' \cup Going' \cup Stored' = Range(Input')
        <3> HIDE DEF Stored, Input, Coming, Going
        <3> QED BY <1>6, <2>1, <2>7
    <2>9. JobTypes'
        BY <1>10, <2>3, NothingTwice DEF JobTypes
    <2>10. /\ decoded' \subseteq Range(pending') /\ (pending' = <<>> => unread' = <<>>)
           /\ IsInjective(unread') /\ IsInjective(pending')
           /\ IsInjective(buffered') /\ IsInjective(Out')
           /\ Range(unread') \cap Range(pending') = {} /\ Range(buffered') \cap Range(Out') = {}
        <3>1. IsInjective(Written(<<>>))
            BY NothingTwice DEF IsInjective, Written
        <3> QED BY <1>10, <2>4, <2>5, <2>6, <3>1, NothingTwice
    <2>11. \A i \in DOMAIN writing' : Justified(writing'[i].row, writing'[i].file, ortFailures')
        BY <1>10
    <2> QED BY <1>1, <1>3, <1>4, <2>8, <2>9, <2>10, <2>11 DEF FlowInv
<1> QED BY <1>5, <1>11, <1>12

\* With every queue empty, all of the input is stored.
LEMMA EndIsRouted ==
    ASSUME FlowInv, RecordsInv, Discogs!EndJob, UNCHANGED files
    PROVE  RecordsInv' /\ Discogs!Routing'
<1>1. /\ pending = <<>> /\ buffered = <<>> /\ writing = <<>>
      /\ UNCHANGED <<records, ortFailures>>
    BY DEF Discogs!EndJob
<1>2. Coming = {} /\ Going = {}
    BY <1>1, NothingTwice DEF FlowInv, Coming, Going, Out
<1>3. Stored' = Range(Input')
    <2>1. Stored' = Stored /\ Input' = Input
        BY <1>1 DEF Stored, Input
    <2> QED BY <1>2, <2>1 DEF FlowInv
<1>4. /\ records' \in [Discogs!Files -> Seq(FileRows)]
      /\ \A f \in Discogs!Files : IsInjective(records'[f])
      /\ \A f, g \in Discogs!Files : f # g => Range(records'[f]) \cap Range(records'[g]) = {}
      /\ \A f \in Discogs!Files : \A r \in Range(records'[f]) : Justified(r, f, ortFailures')
    BY <1>1 DEF RecordsInv, FlowInv
<1>5. RecordsInv'
    BY <1>1 DEF RecordsInv, Discogs!Files, Discogs!Routes, Discogs!RouteOf
<1> QED BY <1>3, <1>4, <1>5, StoredIsRouted

\* A kill leaves the whole rows, and at most one torn row more.
LEMMA CrashKeeps ==
    ASSUME FlowInv, RecordsInv, Discogs!Crash
    PROVE  RecordsInv'
<1>1. ortFailures' = ortFailures
    BY DEF Discogs!Crash
<1>2. CASE records' = records
    BY <1>1, <1>2 DEF RecordsInv, Discogs!Files, Discogs!Routes, Discogs!RouteOf
<1>3. CASE records' # records
    <2> DEFINE torn == [Head(writing).row EXCEPT !.whole = FALSE]
               g == Head(writing).file
    <2>1. writing # <<>> /\ records' = [records EXCEPT ![g] = Append(@, torn)]
        BY <1>3 DEF Discogs!Crash
    <2>2. Head(writing) \in Entries
        BY <2>1, HeadTailProperties DEF FlowInv, JobTypes
    <2>3. torn \in FileRows /\ ~ torn.whole /\ g \in Discogs!Files
        BY <2>2 DEF Entries, FileRows
    <2> HIDE DEF torn, g
    <2>4. records \in [Discogs!Files -> Seq(FileRows)]
        BY DEF RecordsInv
    <2> DEFINE longer == Append(records[g], torn)
               n == Len(records[g])
    <2>5. /\ longer \in Seq(FileRows) /\ DOMAIN longer = 1..(n + 1) /\ n \in Nat
          /\ DOMAIN records[g] = 1..n
          /\ \A i \in 1..n : longer[i] = records[g][i]
          /\ longer[n + 1] = torn
        <3>1. records[g] \in Seq(FileRows)
            BY <2>3, <2>4
        <3>2. /\ longer \in Seq(FileRows) /\ Len(longer) = n + 1 /\ longer[n + 1] = torn
              /\ \A i \in 1..n : longer[i] = records[g][i]
            BY <2>3, <3>1, AppendProperties
        <3> HIDE DEF longer
        <3> QED BY <3>1, <3>2, RangeIs
    <2>6. \A f \in Discogs!Files : records'[f] = IF f = g THEN longer ELSE records[f]
        BY <2>1, <2>4
    <2> HIDE DEF longer, n
    <2>7. records' \in [Discogs!Files -> Seq(FileRows)]
        <3>1. records' = [f \in Discogs!Files |-> records'[f]]
            BY <2>1, <2>4
        <3> QED BY <2>4, <2>5, <2>6, <3>1
    <2>8. ASSUME NEW f \in Discogs!Files, NEW i \in DOMAIN records'[f], records'[f][i].whole
          PROVE  i \in DOMAIN records[f] /\ records'[f][i] = records[f][i]
        <3>1. CASE f = g
            <4>1. i \in 1..n \/ i = n + 1
                BY <2>5, <2>6, <3>1
            <4> QED BY <2>3, <2>5, <2>6, <2>8, <3>1, <4>1
        <3> QED BY <2>6, <3>1
    <2> SUFFICES ASSUME NEW f \in Discogs!Routes, NEW i \in DOMAIN records'[f], records'[f][i].whole
                 PROVE  /\ f = Discogs!RouteOf(records'[f][i].track)
                        /\ \A j \in DOMAIN records'[f] : records'[f][j] = records'[f][i] => i = j
        BY <1>1, <2>7 DEF RecordsInv, Discogs!Files, Discogs!Routes, Discogs!RouteOf
    <2>9. f \in Discogs!Files /\ i \in DOMAIN records[f] /\ records'[f][i] = records[f][i]
        BY <2>8 DEF Discogs!Files
    <2>10. f = Discogs!RouteOf(records'[f][i].track)
        BY <2>9 DEF RecordsInv
    <2>11. ASSUME NEW j \in DOMAIN records'[f], records'[f][j] = records'[f][i] PROVE i = j
        <3>1. j \in DOMAIN records[f] /\ records'[f][j] = records[f][j]
            BY <2>8, <2>9, <2>11
        <3> QED BY <2>9, <2>11, <3>1 DEF RecordsInv
    <2> QED BY <2>10, <2>11
<1> QED BY <1>2, <1>3

\* What the gate leaves when it ends is whole.
LEMMA EndedIsWhole ==
    ASSUME RunInv, GateInv, [RoutingNext]_routingVars, running' = "ended",
           running = "ended" => \A r \in Range(Input) : r.whole
    PROVE  \A r \in Range(Input') : r.whole
<1>1. ASSUME RowsAreCurrent' PROVE \A r \in Range(Input') : r.whole
    <2>1. "accepted" \in Outputs /\ Input' = files'["accepted"]
        BY DEF Outputs, Input
    <2>2. ASSUME NEW i \in DOMAIN files'["accepted"] PROVE files'["accepted"][i].whole
        <3> DEFINE t == files'["accepted"][i].track
        <3>1. files'["accepted"][i] = [track |-> t, revision |-> revision'[t], whole |-> TRUE]
            BY <1>1, <2>1 DEF RowsAreCurrent, Row
        <3> HIDE DEF t
        <3> QED BY <3>1
    <2> QED BY <2>1, <2>2 DEF Range
<1>2. CASE StartGate
    <2>1. PICK resume \in BOOLEAN : StartRun(resume)
        BY <1>2 DEF StartGate
    <2> QED BY <1>1, <2>1, StartIsCurrent DEF RunInv
<1>3. CASE EndRun
    <2>1. RowsAreCurrent /\ UNCHANGED <<files, revision>>
        BY <1>3 DEF EndRun, RunInv
    <2> QED BY <1>1, <2>1 DEF RowsAreCurrent, Row
<1>4. CASE FillBuffer \/ Save \/ Gate \/ Kill
    BY <1>4 DEF FillBuffer, Save, Gate, Kill, runVars
<1>5. CASE UNCHANGED <<running, files>>
    BY <1>5 DEF Input
<1>6. CASE EditInput \/ StartDiscogs \/ DiscogsWorks \/ UNCHANGED routingVars
    BY <1>5, <1>6 DEF EditInput, Edit, StartDiscogs, DiscogsWorks, routingVars, gateRunVars, runVars
<1> QED BY <1>2, <1>3, <1>4, <1>6 DEF RoutingNext, GateWorks, RunStep

\* Every step keeps the invariant, and one that ends a run of the Discogs stage has its routes.
LEMMA RoutingKeepsJob ==
    JobInv /\ RunInv /\ GateInv /\ [RoutingNext]_routingVars
    => JobInv' /\ (job' = "done" /\ job # "done" => Discogs!Routing')
<1> SUFFICES ASSUME JobInv, RunInv, GateInv, [RoutingNext]_routingVars
             PROVE  JobInv' /\ (job' = "done" /\ job # "done" => Discogs!Routing')
    OBVIOUS
<1>1. running' = "ended" => \A r \in Range(Input') : r.whole
    BY EndedIsWhole DEF JobInv
<1>2. RecordsInv /\ (job = "running" => running = "ended" /\ FlowInv)
    BY DEF JobInv
<1>3. ASSUME UNCHANGED discogsVars
      PROVE  RecordsInv' /\ (job' = "done" /\ job # "done" => Discogs!Routing')
    BY <1>2, <1>3 DEF discogsVars, RecordsInv, Discogs!Files, Discogs!Routes, Discogs!RouteOf
<1>4. CASE StartGate \/ GateWorks \/ EditInput
    <2>1. UNCHANGED discogsVars /\ job # "running"
        <3>1. GateWorks => running = "running"
            BY DEF GateWorks, RunStep, FillBuffer, Save, Gate, EndRun, Kill
        <3> QED BY <1>2, <1>4, <3>1 DEF StartGate, GateWorks, EditInput
    <2>2. job' # "running"
        BY <2>1 DEF discogsVars
    <2> QED BY <1>1, <1>3, <2>1, <2>2 DEF JobInv
<1>5. CASE StartDiscogs
    <2>1. PICK resume \in BOOLEAN : Discogs!StartJob(resume)
        BY <1>5 DEF StartDiscogs
    <2>2. running = "ended" /\ UNCHANGED <<files, running>>
        BY <1>5 DEF StartDiscogs, gateRunVars, runVars
    <2>3. /\ RecordsInv' /\ (job' = "running" => FlowInv')
          /\ (job' = "done" => Discogs!Routing')
        BY <1>2, <2>1, <2>2, StartKeepsJob
    <2> QED BY <1>1, <2>2, <2>3 DEF JobInv
<1>6. CASE DiscogsWorks
    <2>1. UNCHANGED <<files, running>> /\ (Discogs!JobStep \/ Discogs!Crash)
        BY <1>6 DEF DiscogsWorks, gateRunVars, runVars
    <2>2. job = "running"
        BY <2>1 DEF Discogs!JobStep, Discogs!Crash, Discogs!Decode, Discogs!TakeUnusable, Discogs!Take,
                    Discogs!Flush, Discogs!Write, Discogs!EndJob
    <2>3. FlowInv /\ running' = "ended" /\ running = "ended"
        BY <1>2, <2>1, <2>2
    <2>4. ASSUME FlowInv', job' = "running", records' \in [Discogs!Files -> Seq(FileRows)],
                 ortFailures' \in Nat
          PROVE  JobInv' /\ (job' = "done" /\ job # "done" => Discogs!Routing')
        BY <1>1, <2>3, <2>4, FlowRecords DEF JobInv
    <2>5. ASSUME records' = records PROVE records' \in [Discogs!Files -> Seq(FileRows)]
        BY <1>2, <2>5 DEF RecordsInv
    <2>6. CASE \E r \in Range(pending) : Discogs!Decode(r)
        <3>1. PICK r \in Range(pending) : Discogs!Decode(r)
            BY <2>6
        <3>2. /\ decoded' = decoded \cup {r}
              /\ UNCHANGED <<job, unread, pending, buffered, writing, records, ortFailures>>
            BY <3>1 DEF Discogs!Decode
        <3>3. FlowInv'
            <4>1. decoded' \subseteq Range(pending)
                BY <2>3, <3>2 DEF FlowInv
            <4> QED BY <1>2, <2>1, <2>3, <3>2, <4>1, NothingMoves
        <3> QED BY <1>2, <2>2, <2>4, <2>5, <3>2, <3>3 DEF RecordsInv
    <2>7. CASE \E r \in Range(pending) : Discogs!TakeUnusable(r)
        <3>1. PICK r \in Range(pending) : Discogs!TakeUnusable(r)
            BY <2>7
        <3>2. UNCHANGED <<job, records>>
            BY <3>1 DEF Discogs!TakeUnusable
        <3>3. FlowInv' /\ ortFailures' \in Nat
            BY <1>2, <2>1, <2>3, <3>1, TakeUnusableKeeps
        <3> QED BY <2>2, <2>4, <2>5, <3>2, <3>3
    <2>8. CASE \E r \in Range(pending) : Discogs!Take(r)
        <3>1. PICK r \in Range(pending) : Discogs!Take(r)
            BY <2>8
        <3>2. UNCHANGED <<job, records>>
            BY <3>1 DEF Discogs!Take
        <3>3. FlowInv' /\ ortFailures' \in Nat
            BY <1>2, <2>1, <2>3, <3>1, TakeKeeps
        <3> QED BY <2>2, <2>4, <2>5, <3>2, <3>3
    <2>9. CASE Discogs!Flush
        <3>1. UNCHANGED <<job, records>>
            BY <2>9 DEF Discogs!Flush
        <3>2. FlowInv' /\ ortFailures' \in Nat
            BY <1>2, <2>1, <2>3, <2>9, FlushKeeps
        <3> QED BY <2>2, <2>4, <2>5, <3>1, <3>2
    <2>10. CASE Discogs!Write
        <3>1. UNCHANGED job
            BY <2>10 DEF Discogs!Write
        <3>2. FlowInv' /\ records' \in [Discogs!Files -> Seq(FileRows)] /\ ortFailures' \in Nat
            BY <1>2, <2>1, <2>3, <2>10, WriteKeeps
        <3> QED BY <2>2, <2>4, <3>1, <3>2
    <2>11. CASE Discogs!EndJob
        <3>1. job' = "done"
            BY <2>11 DEF Discogs!EndJob
        <3>2. RecordsInv' /\ Discogs!Routing'
            BY <1>2, <2>1, <2>3, <2>11, EndIsRouted
        <3> QED BY <1>1, <3>1, <3>2 DEF JobInv
    <2>12. CASE Discogs!Crash
        <3>1. job' = "idle"
            BY <2>12 DEF Discogs!Crash
        <3>2. RecordsInv'
            BY <1>2, <2>3, <2>12, CrashKeeps
        <3> QED BY <1>1, <3>1, <3>2 DEF JobInv
    <2>13. Range(pending) = Discogs!Range(pending)
        BY SameRange
    <2> QED BY <2>1, <2>6, <2>7, <2>8, <2>9, <2>10, <2>11, <2>12, <2>13 DEF Discogs!JobStep
<1>7. CASE UNCHANGED routingVars
    <2>1. UNCHANGED discogsVars /\ UNCHANGED <<running, files>>
        BY <1>7 DEF routingVars, gateRunVars, runVars
    <2>2. ASSUME FlowInv PROVE FlowInv'
        <3>1. /\ decoded' \subseteq Range(pending)
              /\ UNCHANGED <<unread, pending, buffered, writing, records, ortFailures, files>>
            BY <2>1, <2>2 DEF discogsVars, FlowInv
        <3> QED BY <1>2, <2>2, <3>1, NothingMoves
    <2> QED BY <1>1, <1>2, <1>3, <2>1, <2>2 DEF JobInv, discogsVars
<1> QED BY <1>4, <1>5, <1>6, <1>7 DEF RoutingNext

\* A run of the Discogs stage that ends leaves each track the gate accepts now in one place, the
\* file of its route, or the failures when something failed, and no other row, though either stage
\* may have been run, killed, edited under and resumed before (discogs_mir_infer.py:520-547).
THEOREM RoutingRoutesAreCurrent == RoutingSpec => RoutesAreCurrent
<1>1. RoutingInit => JobInv /\ RunInv
    BY InitJob, InitRun DEF RoutingInit
<1>2. RunInv /\ GateInv /\ [RoutingNext]_routingVars => RunInv'
    BY RoutingKeepsRun
<1>3. JobInv /\ RunInv /\ GateInv /\ [RoutingNext]_routingVars => JobInv'
    BY RoutingKeepsJob
<1>4. JobInv /\ RunInv /\ GateInv /\ [RoutingNext]_routingVars
      => [job' = "done" /\ job # "done" => Discogs!Routing']_routingVars
    BY RoutingKeepsJob
<1> QED BY <1>1, <1>2, <1>3, <1>4, GateHolds, PTL DEF RoutingSpec, RoutesAreCurrent
=============================================================================
