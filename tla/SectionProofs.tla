---------------------------- MODULE SectionProofs ----------------------------
(***************************************************************************)
(* Proofs about SectionPlan and SectionAsr, for any raw sections, downbeats,  *)
(* thresholds, words, batch size and padding.                               *)
(***************************************************************************)
EXTENDS SectionAsr, FiniteSetTheorems, SequenceTheorems, WellFoundedInduction, TLAPS

-----------------------------------------------------------------------------
(* Numbers, and functions defined by recursion over them. *)

LEMMA LeastNumber ==
    ASSUME NEW S, S \subseteq Nat, S # {}
    PROVE  \E n \in S : \A m \in S : n <= m
<1> DEFINE R == OpToRel(<, Nat)
<1>1. IsWellFoundedOn(R, Nat)
    BY NatLessThanWellFounded
<1>2. \A m, n \in Nat : m < n => <<m, n>> \in R
    BY DEF OpToRel
<1> HIDE DEF R
<1>3. PICK n \in S : \A m \in S : ~(<<m, n>> \in R)
    BY <1>1, WFMin
<1>4. \A m \in S : n <= m
    <2> TAKE m \in S
    <2>1. m \in Nat /\ n \in Nat /\ ~(m < n)
        BY <1>2, <1>3
    <2> QED BY <2>1
<1> QED BY <1>4

\* A set with 0 and with every number after one of its own.
LEMMA NumbersUpTo ==
    ASSUME NEW N \in Nat, NEW P, 0 \in P, \A n \in 1..N : n - 1 \in P => n \in P
    PROVE  \A n \in 0..N : n \in P
<1> DEFINE out == {n \in 0..N : n \notin P}
<1>1. SUFFICES ASSUME out # {} PROVE FALSE
    OBVIOUS
<1>2. out \subseteq Nat
    OBVIOUS
<1>3. PICK n \in out : \A m \in out : n <= m
    BY <1>1, <1>2, LeastNumber
<1>4. n \in 1..N /\ n - 1 \in 0..N /\ ~(n <= n - 1)
    BY <1>3
<1>5. n - 1 \notin out
    BY <1>3, <1>4
<1>6. n - 1 \in P
    BY <1>4, <1>5
<1> QED BY <1>3, <1>4, <1>6

\* The values from first on, each one made from the one before.
Iterates(f, N, V, first, step) ==
    f \in [0..N -> V] /\ f[0] = first /\ \A n \in 1..N : f[n] = step[n][f[n - 1]]

LEMMA RecursionExists ==
    ASSUME NEW N \in Nat, NEW V, NEW first \in V, NEW step \in [1..N -> [V -> V]]
    PROVE  \E f : Iterates(f, N, V, first, step)
<1> DEFINE Upto(m, f) == Iterates(f, m, V, first, step)
           P == {m \in 0..N : \E f \in [0..m -> V] : Upto(m, f)}
<1>1. 0 \in P
    <2> DEFINE g == [n \in 0..0 |-> first]
    <2>1. Upto(0, g)
        BY DEF Iterates
    <2>2. g \in [0..0 -> V]
        OBVIOUS
    <2> HIDE DEF g
    <2> QED BY <2>1, <2>2
<1>2. ASSUME NEW m \in 1..N, m - 1 \in P PROVE m \in P
    <2>1. PICK f \in [0..(m - 1) -> V] :
              f[0] = first /\ \A n \in 1..(m - 1) : f[n] = step[n][f[n - 1]]
        BY <1>2 DEF Iterates
    <2> DEFINE g == [n \in 0..m |-> IF n = m THEN step[m][f[m - 1]] ELSE f[n]]
    <2>2. m - 1 \in 0..(m - 1) /\ \A n \in 0..m : n # m => n \in 0..(m - 1)
        OBVIOUS
    <2>3. step[m][f[m - 1]] \in V
        BY <2>1, <2>2
    <2>4. g \in [0..m -> V]
        BY <2>1, <2>2, <2>3
    <2>5. 0 \in 0..m /\ 0 # m /\ g[0] = first
        BY <2>1
    <2>6. ASSUME NEW n \in 1..m PROVE g[n] = step[n][g[n - 1]]
        <3>1. n \in 0..m /\ n - 1 \in 0..m /\ n - 1 # m /\ g[n - 1] = f[n - 1]
            OBVIOUS
        <3>2. CASE n = m
            BY <3>1, <3>2
        <3>3. CASE n # m
            <4>1. n \in 1..(m - 1)
                BY <3>3
            <4>2. f[n] = step[n][f[n - 1]]
                BY <2>1, <4>1
            <4> QED BY <3>1, <3>3, <4>2
        <3> QED BY <3>2, <3>3
    <2> HIDE DEF g
    <2>7. Upto(m, g)
        BY <2>4, <2>5, <2>6 DEF Iterates
    <2> QED BY <2>4, <2>7
<1> HIDE DEF P
<1>3. N \in P
    <2>1. \A n \in 0..N : n \in P
        BY <1>1, <1>2, NumbersUpTo
    <2> QED BY <2>1
<1> QED BY <1>3 DEF P

-----------------------------------------------------------------------------
(* Boundaries. *)

BoundaryRow == [time : Int, confidence : Int]

\* The boundaries of a track cover it from 0 to its end.
BoundsInv ==
    \/ bounds = <<>>
    \/ /\ bounds \in Seq(BoundaryRow) /\ Len(bounds) >= 2
       /\ bounds[1].time = 0 /\ bounds[Len(bounds)].time = Total /\ Total > 0

LEMMA InputIs ==
    ASSUME input \in Inputs
    PROVE  /\ Total \in Nat /\ input.downbeats \subseteq Int /\ input.words \subseteq Int
           /\ Raw # <<>> => Len(Raw) \in Nat \ {0}
           /\ \A i \in 1..Len(Raw) : {Raw[i].start, Raw[i].end, Raw[i].before, Raw[i].after} \subseteq Int
<1>1. Raw \in Seq(Range(Raw)) /\ \A s \in Range(Raw) : {s.start, s.end, s.before, s.after} \subseteq Int
    BY SectionPlanAssumption DEF SectionPlanAssumption, Raw
<1>2. Raw # <<>> => Len(Raw) \in Nat \ {0}
    BY <1>1, EmptySeq
<1>3. \A i \in 1..Len(Raw) : Raw[i] \in Range(Raw)
    BY <1>1, ElementOfSeq
<1> QED BY <1>1, <1>2, <1>3, SectionPlanAssumption DEF SectionPlanAssumption, Total

LEMMA DistanceIs == \A a, b \in Int : Distance(a, b) \in Nat
    BY DEF Distance

LEMMA SnappedIs ==
    ASSUME input \in Inputs, NEW time \in Int
    PROVE  Snapped(time) \in Int
<1>1. CASE input.downbeats = {}
    BY <1>1 DEF Snapped
<1>2. CASE input.downbeats # {}
    <2> DEFINE far == {Distance(d, time) : d \in input.downbeats}
    <2>1. input.downbeats \subseteq Int
        BY InputIs
    <2>2. far \subseteq Nat /\ far # {}
        BY <1>2, <2>1, DistanceIs
    <2> HIDE DEF far
    <2>3. PICK n \in far : \A m \in far : n <= m
        BY <2>2, LeastNumber
    <2> DEFINE near == {d \in input.downbeats : Distance(d, time) = n}
    <2>4. near # {} /\ near \subseteq {time - n, time + n}
        BY <2>1, <2>2, <2>3 DEF far, Distance
    <2>5. \E d \in near : \A e \in near : d <= e
        BY <2>1, <2>4
    <2>6. NearestDownbeat(time) \in input.downbeats
        <3>1. PICK d \in near : \A e \in near : d <= e
            BY <2>5
        <3>2. \A e \in input.downbeats :
            \/ Distance(d, time) < Distance(e, time)
            \/ Distance(d, time) = Distance(e, time) /\ d <= e
            <4> TAKE e \in input.downbeats
            <4>1. Distance(e, time) \in far /\ Distance(d, time) = n
                BY <3>1 DEF far
            <4>2. n <= Distance(e, time) /\ n \in Nat /\ Distance(e, time) \in Nat
                BY <2>2, <2>3, <4>1
            <4>3. Distance(e, time) = n => d <= e
                BY <3>1
            <4> QED BY <4>1, <4>2, <4>3
        <3> QED BY <3>1, <3>2 DEF NearestDownbeat
    <2> QED BY <2>1, <2>6 DEF Snapped
<1> QED BY <1>1, <1>2

Outer == Boundary(0, Certain)
Opened == {s \in Seq(BoundaryRow) : s # <<>> /\ s[1] = Outer}

LEMMA InternalIs ==
    ASSUME input \in Inputs, Raw # <<>>
    PROVE  /\ Len(Raw) \in Nat \ {0} /\ Len(Internal) = Len(Raw) - 1
           /\ \A n \in 1..Len(Internal) : Internal[n] \in BoundaryRow
<1>1. Len(Raw) \in Nat \ {0}
    BY InputIs
<1> DEFINE N == Len(Raw) - 1
<1>2. N \in Nat
    BY <1>1
<1>3. ASSUME NEW i \in 1..N PROVE Between(Raw[i], Raw[i + 1]) \in BoundaryRow
    <2>1. i \in 1..Len(Raw) /\ i + 1 \in 1..Len(Raw)
        BY <1>1, <1>3
    <2>2. /\ {Raw[i].end, Raw[i].after} \subseteq Int
          /\ {Raw[i + 1].start, Raw[i + 1].before} \subseteq Int
        BY <2>1, InputIs
    <2>3. Snapped(Raw[i].end) \in Int /\ Snapped(Raw[i + 1].start) \in Int
        BY <2>2, SnappedIs
    <2> QED BY <2>2, <2>3 DEF Between, Boundary, BoundaryRow
<1>4. Internal = [i \in 1..N |-> Between(Raw[i], Raw[i + 1])]
    BY DEF Internal
<1> HIDE DEF N
<1>5. Len(Internal) = N /\ \A n \in 1..N : Internal[n] = Between(Raw[n], Raw[n + 1])
    BY <1>2, <1>4
<1> QED BY <1>1, <1>3, <1>5 DEF N

LEMMA AppendIs ==
    ASSUME NEW S, NEW s \in Seq(S), NEW e \in S
    PROVE  /\ Append(s, e) \in Seq(S) /\ Len(Append(s, e)) = Len(s) + 1
           /\ \A i \in 1..Len(s) : Append(s, e)[i] = s[i]
           /\ Append(s, e)[Len(s) + 1] = e
    OBVIOUS

LEMMA FrontIs ==
    ASSUME NEW S, NEW s \in Seq(S), s # <<>>
    PROVE  /\ Front(s) \in Seq(S) /\ Len(Front(s)) = Len(s) - 1
           /\ \A i \in 1..(Len(s) - 1) : Front(s)[i] = s[i]
           /\ Len(s) \in Nat \ {0} /\ Last(s) = s[Len(s)] /\ Last(s) \in S
<1>1. Len(s) \in Nat \ {0}
    BY EmptySeq
<1> DEFINE k == Len(s) - 1
<1>2. \A i \in 1..k : s[i] \in S
    BY ElementOfSeq
<1>3. k \in Nat /\ 1 \in Int /\ k \in Int
    BY <1>1
<1>4. Front(s) = SubSeq(s, 1, k)
    BY DEF Front
<1>5. Last(s) = s[Len(s)] /\ Len(s) \in 1..Len(s)
    BY <1>1 DEF Last
<1>6. Last(s) \in S
    BY <1>5, ElementOfSeq
<1> HIDE DEF k
<1>7. /\ SubSeq(s, 1, k) \in Seq(S) /\ Len(SubSeq(s, 1, k)) = IF 1 <= k THEN k - 1 + 1 ELSE 0
      /\ \A i \in 1..(k - 1 + 1) : SubSeq(s, 1, k)[i] = s[1 + i - 1]
    BY <1>2, <1>3, SubSeqProperties
<1>8. Len(Front(s)) = k /\ \A i \in 1..k : Front(s)[i] = s[i]
    BY <1>3, <1>4, <1>7
<1> QED BY <1>1, <1>4, <1>5, <1>6, <1>7, <1>8 DEF k

LEMMA DenserIs ==
    ASSUME NEW kept \in Opened, NEW next \in BoundaryRow
    PROVE  Denser(kept, next) \in Opened
<1>1. kept \in Seq(BoundaryRow) /\ kept # <<>> /\ kept[1] = Outer /\ Len(kept) \in Nat \ {0}
    BY EmptySeq DEF Opened
<1>2. Append(kept, next) \in Opened
    <2>1. /\ Append(kept, next) \in Seq(BoundaryRow) /\ Len(Append(kept, next)) = Len(kept) + 1
          /\ \A i \in 1..Len(kept) : Append(kept, next)[i] = kept[i]
        BY <1>1, AppendIs
    <2>2. Append(kept, next) # <<>> /\ Append(kept, next)[1] = Outer
        BY <1>1, <2>1, EmptySeq
    <2> QED BY <2>1, <2>2 DEF Opened
<1>3. CASE Len(kept) > 1
    <2> DEFINE front == Front(kept)
    <2>1. /\ front \in Seq(BoundaryRow) /\ Len(front) = Len(kept) - 1
          /\ \A i \in 1..(Len(kept) - 1) : front[i] = kept[i]
        BY <1>1, FrontIs
    <2>2. front[1] = Outer /\ 1 \in 1..Len(front) /\ Len(front) \in Nat
        BY <1>1, <1>3, <2>1
    <2> HIDE DEF front
    <2>3. /\ Append(front, next) \in Seq(BoundaryRow) /\ Len(Append(front, next)) = Len(front) + 1
          /\ \A i \in 1..Len(front) : Append(front, next)[i] = front[i]
        BY <2>1, AppendIs
    <2>4. Append(front, next) # <<>> /\ Append(front, next)[1] = Outer
        BY <2>2, <2>3, EmptySeq
    <2>5. Append(front, next) \in Opened
        BY <2>3, <2>4 DEF Opened
    <2> QED BY <1>2, <2>5 DEF Denser, front
<1>4. CASE ~(Len(kept) > 1)
    BY <1>2, <1>4 DEF Denser
<1> QED BY <1>3, <1>4

LEMMA ThinnedIs ==
    ASSUME input \in Inputs, Raw # <<>>
    PROVE  Thinned[Len(Internal)] \in Opened
<1> DEFINE N == Len(Internal)
           next(g) == [n \in 0..N |-> IF n = 0 THEN <<Outer>> ELSE Denser(g[n - 1], Internal[n])]
           step == [n \in 1..N |-> [kept \in Opened |-> Denser(kept, Internal[n])]]
<1>1. N \in Nat /\ \A n \in 1..N : Internal[n] \in BoundaryRow
    BY InternalIs
<1>2. <<Outer>> \in Opened
    <2>1. Outer \in BoundaryRow
        BY SectionPlanAssumption DEF SectionPlanAssumption, Outer, Boundary, BoundaryRow
    <2> QED BY <2>1 DEF Opened
<1>3. \A n \in 1..N : \A kept \in Opened : Denser(kept, Internal[n]) \in Opened
    BY <1>1, DenserIs
<1>4. Thinned = CHOOSE g : g = next(g)
    BY DEF Thinned, Outer
<1>5. \E g : g = next(g)
    <2>1. step \in [1..N -> [Opened -> Opened]]
        BY <1>3
    <2>2. \A n \in 1..N : \A kept \in Opened : step[n][kept] = Denser(kept, Internal[n])
        OBVIOUS
    <2> HIDE DEF step, N
    <2> DEFINE first == <<Outer>>
    <2>3. first \in Opened /\ N \in Nat
        BY <1>1, <1>2
    <2> HIDE DEF first
    <2>4. PICK f : Iterates(f, N, Opened, first, step)
        BY <2>1, <2>3, RecursionExists
    <2>5. f \in [0..N -> Opened] /\ f[0] = <<Outer>> /\ \A n \in 1..N : f[n] = step[n][f[n - 1]]
        BY <2>4 DEF Iterates, first
    <2>6. \A n \in 1..N : n - 1 \in 0..N /\ f[n] = Denser(f[n - 1], Internal[n])
        BY <1>1, <2>2, <2>5
    <2>7. f = next(f)
        <3>1. f = [n \in 0..N |-> f[n]]
            BY <2>5
        <3>2. ASSUME NEW n \in 0..N
              PROVE  f[n] = IF n = 0 THEN <<Outer>> ELSE Denser(f[n - 1], Internal[n])
            <4>1. n # 0 => n \in 1..N
                BY <1>1
            <4> QED BY <2>5, <2>6, <4>1
        <3> QED BY <3>1, <3>2
    <2> QED BY <2>7
<1>6. Thinned = next(Thinned)
    BY <1>4, <1>5
<1> HIDE DEF N
<1>7. \A n \in 0..N : n \in {m \in 0..N : Thinned[m] \in Opened}
    <2>1. Thinned[0] = <<Outer>> /\ \A n \in 1..N : Thinned[n] = Denser(Thinned[n - 1], Internal[n])
        BY <1>1, <1>6
    <2> DEFINE P == {m \in 0..N : Thinned[m] \in Opened}
    <2>2. 0 \in P /\ \A n \in 1..N : n - 1 \in P => n \in P
        BY <1>1, <1>2, <1>3, <2>1
    <2> HIDE DEF P
    <2>3. \A n \in 0..N : n \in P
        BY <1>1, <2>2, NumbersUpTo
    <2> QED BY <2>3 DEF P
<1>8. N \in 0..N
    BY <1>1
<1> QED BY <1>7, <1>8 DEF N

LEMMA DedupedIs ==
    ASSUME input \in Inputs, Raw # <<>>
    PROVE  /\ Deduped \in Seq(BoundaryRow) /\ Len(Deduped) >= 2
           /\ Deduped[1].time = 0 /\ Deduped[Len(Deduped)].time = Total
<1> DEFINE kept == Thinned[Len(Internal)]
           closing == Boundary(Total, Certain)
<1>1. kept \in Opened
    BY ThinnedIs
<1>2. closing \in BoundaryRow
    BY InputIs, SectionPlanAssumption DEF SectionPlanAssumption, Boundary, BoundaryRow
<1>3. Deduped = Append(kept, closing)
    BY DEF Deduped
<1>4. closing.time = Total /\ Outer.time = 0
    BY DEF Boundary, Outer
<1> HIDE DEF kept, closing
<1>5. kept \in Seq(BoundaryRow) /\ kept[1] = Outer /\ Len(kept) \in Nat \ {0}
    BY <1>1, EmptySeq DEF Opened
<1>6. /\ Append(kept, closing) \in Seq(BoundaryRow) /\ Len(Append(kept, closing)) = Len(kept) + 1
      /\ \A i \in 1..Len(kept) : Append(kept, closing)[i] = kept[i]
      /\ Append(kept, closing)[Len(kept) + 1] = closing
    BY <1>2, <1>5, AppendIs
<1> QED BY <1>3, <1>4, <1>5, <1>6

(* One boundary is removed: an edge inside the track. *)

LEMMA FirstShortIs ==
    ASSUME Short # {}
    PROVE  FirstShort \in Short
<1>1. Short \subseteq Nat
    BY DEF Short
<1>2. PICK i \in Short : \A j \in Short : i <= j
    BY <1>1, LeastNumber
<1> QED BY <1>2 DEF FirstShort

LEMMA WeakestEdgeIs ==
    ASSUME bounds \in Seq(BoundaryRow), NEW i \in Nat, InternalEdges(i) # {}
    PROVE  WeakestEdge(i) \in InternalEdges(i)
<1> DEFINE edges == InternalEdges(i)
           Weaker(e, f) == \/ bounds[e].confidence < bounds[f].confidence
                           \/ bounds[e].confidence = bounds[f].confidence /\ e <= f
<1>1. edges \subseteq {i, i + 1} /\ edges # {}
    BY DEF InternalEdges
<1>2. \A e \in edges : e \in Int /\ bounds[e].confidence \in Int
    <2>1. Len(bounds) \in Nat
        BY LenProperties
    <2>2. \A e \in edges : e \in 1..Len(bounds)
        BY <2>1 DEF InternalEdges
    <2>3. \A e \in edges : bounds[e] \in BoundaryRow
        BY <2>2, ElementOfSeq
    <2> QED BY <2>2, <2>3 DEF BoundaryRow
<1> HIDE DEF edges
<1>3. \E e \in edges : \A f \in edges : Weaker(e, f)
    <2>1. ASSUME NEW x \in edges, edges = {x} PROVE \E e \in edges : \A f \in edges : Weaker(e, f)
        BY <1>2, <2>1
    <2>2. ASSUME edges = {i, i + 1} PROVE \E e \in edges : \A f \in edges : Weaker(e, f)
        <3>1. CASE bounds[i].confidence <= bounds[i + 1].confidence
            BY <1>2, <2>2, <3>1
        <3>2. CASE bounds[i].confidence > bounds[i + 1].confidence
            BY <1>2, <2>2, <3>2
        <3> QED BY <1>2, <2>2, <3>1, <3>2
    <2>3. edges = {i} \/ edges = {i + 1} \/ edges = {i, i + 1}
        BY <1>1
    <2> QED BY <2>1, <2>2, <2>3
<1> QED BY <1>3 DEF edges, WeakestEdge

LEMMA RemoveKeeps ==
    ASSUME BoundsInv, RemoveBoundary
    PROVE  BoundsInv'
<1>1. bounds \in Seq(BoundaryRow) /\ Len(bounds) \in Nat
    BY LenProperties, EmptySeq DEF BoundsInv
<1>2. /\ Len(bounds) > 2 /\ Short # {} /\ Total' = Total
      /\ bounds[1].time = 0 /\ bounds[Len(bounds)].time = Total /\ Total > 0
    BY EmptySeq DEF RemoveBoundary, BoundsInv, Total
<1> DEFINE i == FirstShort
           e == WeakestEdge(i)
           n == Len(bounds)
           head == SubSeq(bounds, 1, e - 1)
           tail == SubSeq(bounds, e + 1, n)
<1>3. e \in 2..(n - 1)
    <2>1. i \in Nat /\ InternalEdges(i) # {}
        BY <1>2, FirstShortIs DEF Short, TooShort
    <2>2. WeakestEdge(i) \in InternalEdges(i)
        BY <1>1, <2>1, WeakestEdgeIs
    <2> QED BY <2>2 DEF InternalEdges
<1>4. bounds' = head \o tail
    BY DEF RemoveBoundary, RemoveAt
<1> HIDE DEF e, n
<1>5. n \in Nat /\ n > 2
    BY <1>1, <1>2 DEF n
<1>6. \A k \in 1..n : bounds[k] \in BoundaryRow
    BY <1>1, ElementOfSeq DEF n
<1>7. /\ head \in Seq(BoundaryRow) /\ Len(head) = e - 1
      /\ \A k \in 1..(e - 1) : head[k] = bounds[k]
    <2>1. 1 \in Int /\ e - 1 \in Int /\ \A k \in 1..(e - 1) : bounds[k] \in BoundaryRow
        BY <1>3, <1>5, <1>6
    <2>2. /\ head \in Seq(BoundaryRow) /\ Len(head) = IF 1 <= e - 1 THEN e - 1 - 1 + 1 ELSE 0
          /\ \A k \in 1..(e - 1 - 1 + 1) : head[k] = bounds[1 + k - 1]
        BY <2>1, SubSeqProperties
    <2> HIDE DEF head
    <2> QED BY <1>3, <2>2
<1>8. /\ tail \in Seq(BoundaryRow) /\ Len(tail) = n - e
      /\ \A k \in 1..(n - e) : tail[k] = bounds[e + k]
    <2>1. e + 1 \in Int /\ n \in Int /\ \A k \in (e + 1)..n : bounds[k] \in BoundaryRow
        BY <1>3, <1>5, <1>6
    <2>2. /\ tail \in Seq(BoundaryRow) /\ Len(tail) = IF e + 1 <= n THEN n - (e + 1) + 1 ELSE 0
          /\ \A k \in 1..(n - (e + 1) + 1) : tail[k] = bounds[e + 1 + k - 1]
        BY <2>1, SubSeqProperties
    <2> HIDE DEF tail
    <2>3. n - (e + 1) + 1 = n - e /\ \A k \in 1..(n - e) : e + 1 + k - 1 = e + k
        BY <1>3, <1>5
    <2> QED BY <1>3, <1>5, <2>2, <2>3
<1> HIDE DEF head, tail
<1>9. /\ head \o tail \in Seq(BoundaryRow) /\ Len(head \o tail) = n - 1
      /\ (head \o tail)[1] = bounds[1] /\ (head \o tail)[n - 1] = bounds[n]
    <2>1. /\ head \o tail \in Seq(BoundaryRow) /\ Len(head \o tail) = Len(head) + Len(tail)
          /\ \A k \in 1..(Len(head) + Len(tail)) :
                (head \o tail)[k] = IF k <= Len(head) THEN head[k] ELSE tail[k - Len(head)]
        BY <1>7, <1>8, ConcatProperties
    <2>2. 1 \in 1..(e - 1) /\ 1 <= e - 1 /\ 1 \in 1..(n - 1)
        BY <1>3, <1>5
    <2>3. /\ n - 1 \in 1..(n - 1) /\ ~(n - 1 <= e - 1) /\ n - 1 - (e - 1) = n - e
          /\ n - e \in 1..(n - e) /\ e + (n - e) = n /\ e - 1 + (n - e) = n - 1
        BY <1>3, <1>5
    <2> QED BY <1>7, <1>8, <2>1, <2>2, <2>3
<1> QED BY <1>2, <1>4, <1>5, <1>9 DEF BoundsInv, n

-----------------------------------------------------------------------------
(* The final sections.  Each one spans neighbouring intervals with one label. *)

Pieces == 1..(Len(bounds) - 1)
PieceLabel(i) == LabelOf(Begin(i), Finish(i))
Piece == [start : Int, end : Int, label : {PieceLabel(i) : i \in Pieces}]

Spans(s, a, b) ==
    /\ a <= b /\ s.start = Begin(a) /\ s.end = Finish(b)
    /\ \A k \in a..b : PieceLabel(k) = s.label

Tiles(m, n) ==
    /\ m \in Seq(Piece) /\ m # <<>> /\ Len(m) <= n
    /\ m[1].start = Begin(1)
    /\ \A i \in 1..Len(m) : \E a \in 1..n : \E b \in 1..n : Spans(m[i], a, b)
    /\ \E a \in 1..n : Spans(m[Len(m)], a, n)
    /\ \A i \in 2..Len(m) : m[i - 1].end = m[i].start /\ m[i - 1].label # m[i].label

Covered == bounds # <<>> /\ BoundsInv

LEMMA CoveredIs ==
    ASSUME Covered
    PROVE  /\ bounds \in Seq(BoundaryRow) /\ Len(bounds) \in Nat /\ Len(bounds) >= 2
           /\ Len(bounds) - 1 \in Nat \ {0}
           /\ \A i \in 1..Len(bounds) : bounds[i].time \in Int /\ bounds[i].confidence \in Int
           /\ \A i \in Pieces : Begin(i) \in Int /\ Finish(i) \in Int /\ Begin(i + 1) = Finish(i)
<1>1. bounds \in Seq(BoundaryRow) /\ Len(bounds) >= 2 /\ Len(bounds) \in Nat
    BY LenProperties DEF Covered, BoundsInv
<1>2. \A i \in 1..Len(bounds) : bounds[i].time \in Int /\ bounds[i].confidence \in Int
    <2>1. \A i \in 1..Len(bounds) : bounds[i] \in BoundaryRow
        BY <1>1, ElementOfSeq
    <2> QED BY <2>1 DEF BoundaryRow
<1>3. \A i \in Pieces : i \in 1..Len(bounds) /\ i + 1 \in 1..Len(bounds)
    BY <1>1 DEF Pieces
<1>4. \A i \in Pieces : Begin(i) \in Int /\ Finish(i) \in Int /\ Begin(i + 1) = Finish(i)
    BY <1>2, <1>3 DEF Begin, Finish
<1> QED BY <1>1, <1>2, <1>4

LEMMA IntervalsAre ==
    ASSUME Covered
    PROVE  /\ Len(Intervals) = Len(bounds) - 1
           /\ \A n \in Pieces : /\ Intervals[n] \in Piece
                                /\ Intervals[n] = [start |-> Begin(n), end |-> Finish(n),
                                                   label |-> PieceLabel(n)]
<1> DEFINE N == Len(bounds) - 1
<1>1. Intervals = [i \in 1..N |-> [start |-> Begin(i), end |-> Finish(i), label |-> PieceLabel(i)]]
    BY DEF Intervals, PieceLabel
<1>2. N \in Nat /\ \A i \in Pieces : Begin(i) \in Int /\ Finish(i) \in Int
    BY CoveredIs
<1>3. \A i \in Pieces : [start |-> Begin(i), end |-> Finish(i), label |-> PieceLabel(i)] \in Piece
    BY <1>2 DEF Piece
<1>4. Pieces = 1..N
    BY DEF Pieces
<1> HIDE DEF N
<1>5. Len(Intervals) = N
    BY <1>1, <1>2
<1> QED BY <1>1, <1>3, <1>4, <1>5 DEF N

LEMMA PieceIs ==
    ASSUME Covered, NEW n \in Pieces
    PROVE  /\ Intervals[n] \in Piece /\ Spans(Intervals[n], n, n)
           /\ Intervals[n].start = Begin(n) /\ Intervals[n].end = Finish(n)
           /\ Intervals[n].label = PieceLabel(n)
<1>1. /\ Intervals[n] = [start |-> Begin(n), end |-> Finish(n), label |-> PieceLabel(n)]
      /\ Intervals[n] \in Piece
    BY IntervalsAre
<1> DEFINE piece == Intervals[n]
<1>2. piece.start = Begin(n) /\ piece.end = Finish(n) /\ piece.label = PieceLabel(n)
    BY <1>1
<1>3. n \in Nat
    BY CoveredIs DEF Pieces
<1> HIDE DEF piece
<1>4. \A k \in n..n : k = n
    BY <1>3
<1>5. Spans(piece, n, n)
    BY <1>2, <1>3, <1>4 DEF Spans
<1> QED BY <1>1, <1>2, <1>5 DEF piece

LEMMA FirstTile ==
    ASSUME Covered
    PROVE  Tiles(JoinEqual(<<>>, Intervals[1]), 1)
<1>1. 1 \in Pieces
    BY CoveredIs DEF Pieces
<1>2. Intervals[1] \in Piece /\ Spans(Intervals[1], 1, 1) /\ Intervals[1].start = Begin(1)
    BY <1>1, PieceIs
<1>3. JoinEqual(<<>>, Intervals[1]) = <<Intervals[1]>>
    BY DEF JoinEqual
<1> DEFINE piece == Intervals[1]
<1> HIDE DEF piece
<1>4. piece \in Piece => /\ <<piece>> \in Seq(Piece) /\ <<piece>> # <<>> /\ Len(<<piece>>) = 1
                         /\ <<piece>>[1] = piece
    OBVIOUS
<1>5. 1..1 = {1} /\ 2..1 = {}
    OBVIOUS
<1>6. /\ <<piece>> \in Seq(Piece) /\ <<piece>> # <<>> /\ Len(<<piece>>) = 1 /\ <<piece>>[1] = piece
      /\ Spans(piece, 1, 1) /\ piece.start = Begin(1)
    BY <1>2, <1>4 DEF piece
<1> DEFINE q == <<piece>>
<1>7. q \in Seq(Piece) /\ q # <<>> /\ Len(q) = 1 /\ q[1] = piece
    BY <1>6
<1> HIDE DEF q
<1>8. Tiles(q, 1)
    BY <1>5, <1>6, <1>7 DEF Tiles
<1> QED BY <1>3, <1>8 DEF q, piece

LEMMA NextTile ==
    ASSUME Covered, NEW n \in Pieces, n > 1, NEW m, Tiles(m, n - 1)
    PROVE  Tiles(JoinEqual(m, Intervals[n]), n)
<1> DEFINE piece == Intervals[n]
           k == Len(m)
           last == m[k]
           longer == [start |-> last.start, end |-> piece.end, label |-> piece.label]
           front == Front(m)
<1>1. /\ n \in Nat /\ n - 1 \in Pieces /\ n - 1 \in Nat /\ n - 1 + 1 = n
      /\ Begin(n) = Finish(n - 1)
    <2>1. n \in Nat /\ n - 1 \in Pieces /\ n - 1 + 1 = n /\ n - 1 \in Nat
        BY CoveredIs DEF Pieces
    <2> QED BY <2>1, CoveredIs
<1>2. /\ m \in Seq(Piece) /\ m # <<>> /\ k \in Nat /\ 1 <= k /\ k <= n - 1 /\ m[1].start = Begin(1)
      /\ Last(m) = last /\ last \in Piece
      /\ \A i \in 1..k : m[i] \in Piece
    <2>1. m \in Seq(Piece) /\ m # <<>> /\ k <= n - 1 /\ m[1].start = Begin(1)
        BY DEF Tiles
    <2>2. k \in Nat \ {0} /\ Last(m) = last /\ Last(m) \in Piece
        BY <2>1, FrontIs
    <2>3. \A i \in 1..k : m[i] \in Piece
        BY <2>1, ElementOfSeq
    <2> QED BY <2>1, <2>2, <2>3
<1>3. piece \in Piece /\ Spans(piece, n, n) /\ piece.start = Begin(n) /\ piece.end = Finish(n)
      /\ piece.label = PieceLabel(n)
    BY PieceIs
<1>4. \A i \in 1..k : \E a \in 1..n : \E b \in 1..n : Spans(m[i], a, b)
    <2>1. 1..(n - 1) \subseteq 1..n
        BY <1>1
    <2> QED BY <2>1 DEF Tiles
<1>5. PICK a \in 1..(n - 1) : Spans(last, a, n - 1)
    BY DEF Tiles
<1>6. \A i \in 2..k : m[i - 1].end = m[i].start /\ m[i - 1].label # m[i].label
    BY DEF Tiles
<1>7. last.end = piece.start
    BY <1>1, <1>3, <1>5 DEF Spans
<1> HIDE DEF piece, k, last
<1>8. n \in 1..n
    BY <1>1
<1>9. CASE last.label = piece.label
    <2>1. JoinEqual(m, piece) = Append(front, longer)
        BY <1>2, <1>9 DEF JoinEqual
    <2>2. front \in Seq(Piece) /\ Len(front) = k - 1 /\ \A i \in 1..(k - 1) : front[i] = m[i]
        BY <1>2, FrontIs DEF k
    <2>3. longer \in Piece
        BY <1>2, <1>3 DEF Piece
    <2>4. Spans(longer, a, n) /\ a \in 1..n
        <3>1. a \in 1..n /\ a <= n
            BY <1>1, <1>5
        <3>2. longer.start = Begin(a) /\ longer.end = Finish(n) /\ longer.label = last.label
            BY <1>3, <1>5, <1>9 DEF Spans
        <3>3. ASSUME NEW x \in a..n PROVE PieceLabel(x) = last.label
            <4>1. x = n \/ x \in a..(n - 1)
                BY <1>1, <1>5
            <4> QED BY <1>3, <1>5, <1>9, <4>1 DEF Spans
        <3> QED BY <3>1, <3>2, <3>3 DEF Spans
    <2>5. longer.start = last.start /\ longer.label = last.label
        BY <1>9
    <2> HIDE DEF longer, front
    <2> DEFINE q == Append(front, longer)
    <2>6. /\ q \in Seq(Piece) /\ Len(q) = Len(front) + 1 /\ \A i \in 1..Len(front) : q[i] = front[i]
          /\ q[Len(front) + 1] = longer
        BY <2>2, <2>3, AppendIs
    <2> HIDE DEF q
    <2>7. Len(q) = k /\ q[k] = longer /\ \A i \in 1..(k - 1) : q[i] = m[i]
        <3>1. Len(front) = k - 1 /\ k - 1 + 1 = k
            BY <1>2, <2>2
        <3>2. Len(q) = k /\ q[k] = longer
            BY <2>6, <3>1
        <3>3. \A i \in 1..(k - 1) : q[i] = front[i]
            BY <2>6, <3>1
        <3> QED BY <2>2, <3>2, <3>3
    <2>8. q # <<>>
        BY <1>2, <2>6, <2>7, EmptySeq
    <2>9. q[1].start = Begin(1)
        <3>1. CASE k = 1
            BY <1>2, <2>5, <2>7, <3>1 DEF last
        <3>2. CASE k # 1
            BY <1>2, <2>7, <3>2
        <3> QED BY <3>1, <3>2
    <2>10. \A i \in 1..k : \E x \in 1..n : \E b \in 1..n : Spans(q[i], x, b)
        <3> TAKE i \in 1..k
        <3>1. CASE i = k
            BY <1>8, <2>4, <2>7, <3>1
        <3>2. CASE i # k
            <4>1. i \in 1..(k - 1)
                BY <1>2, <3>2
            <4> QED BY <1>4, <2>7, <4>1
        <3> QED BY <3>1, <3>2
    <2>11. \A i \in 2..k : q[i - 1].end = q[i].start /\ q[i - 1].label # q[i].label
        <3> TAKE i \in 2..k
        <3>1. i - 1 \in 1..(k - 1) /\ q[i - 1] = m[i - 1]
            BY <1>2, <2>7
        <3>2. q[i].start = m[i].start /\ q[i].label = m[i].label
            <4>1. CASE i = k
                BY <2>5, <2>7, <4>1 DEF last
            <4>2. CASE i # k
                <5>1. i \in 1..(k - 1)
                    BY <1>2, <4>2
                <5> QED BY <2>7, <5>1
            <4> QED BY <4>1, <4>2
        <3> QED BY <1>6, <3>1, <3>2
    <2>12. k <= n
        BY <1>1, <1>2
    <2> QED BY <2>1, <2>4, <2>6, <2>7, <2>8, <2>9, <2>10, <2>11, <2>12 DEF Tiles, q, piece
<1>10. CASE last.label # piece.label
    <2> DEFINE q == Append(m, piece)
    <2>1. JoinEqual(m, piece) = q
        BY <1>2, <1>10 DEF JoinEqual
    <2>2. /\ q \in Seq(Piece) /\ Len(q) = k + 1 /\ \A i \in 1..k : q[i] = m[i]
          /\ q[k + 1] = piece
        BY <1>2, <1>3, AppendIs DEF k
    <2> HIDE DEF q
    <2>3. q # <<>>
        BY <1>2, <2>2, EmptySeq
    <2>4. q[1].start = Begin(1)
        BY <1>2, <2>2
    <2>5. \A i \in 1..(k + 1) : \E x \in 1..n : \E b \in 1..n : Spans(q[i], x, b)
        <3> TAKE i \in 1..(k + 1)
        <3>1. CASE i = k + 1
            BY <1>3, <1>8, <2>2, <3>1
        <3>2. CASE i # k + 1
            <4>1. i \in 1..k
                BY <1>2, <3>2
            <4> QED BY <1>4, <2>2, <4>1
        <3> QED BY <3>1, <3>2
    <2>6. \A i \in 2..(k + 1) : q[i - 1].end = q[i].start /\ q[i - 1].label # q[i].label
        <3> TAKE i \in 2..(k + 1)
        <3>1. i - 1 \in 1..k /\ q[i - 1] = m[i - 1]
            BY <1>2, <2>2
        <3>2. CASE i = k + 1
            <4>1. i - 1 = k /\ q[i - 1] = last
                BY <1>2, <3>1, <3>2 DEF last
            <4> QED BY <1>7, <1>10, <2>2, <3>2, <4>1
        <3>3. CASE i # k + 1
            <4>1. i \in 1..k /\ i \in 2..k
                BY <1>2, <3>3
            <4> QED BY <1>6, <2>2, <3>1, <4>1
        <3> QED BY <3>2, <3>3
    <2>7. k + 1 <= n /\ k + 1 \in Nat
        BY <1>1, <1>2
    <2>8. Spans(q[k + 1], n, n)
        BY <1>3, <2>2
    <2> QED BY <1>8, <2>1, <2>2, <2>3, <2>4, <2>5, <2>6, <2>7, <2>8 DEF Tiles, piece
<1> QED BY <1>9, <1>10

LEMMA JoinEqualIs ==
    ASSUME NEW m \in Seq(Piece), NEW next \in Piece
    PROVE  JoinEqual(m, next) \in Seq(Piece)
<1>1. Append(m, next) \in Seq(Piece)
    BY AppendIs
<1>2. CASE m # <<>>
    <2> DEFINE last == Last(m)
               longer == [start |-> last.start, end |-> next.end, label |-> next.label]
               front == Front(m)
    <2>1. front \in Seq(Piece) /\ last \in Piece
        BY <1>2, FrontIs
    <2> HIDE DEF last
    <2>2. longer \in Piece
        BY <2>1 DEF Piece
    <2> HIDE DEF longer, front
    <2>3. Append(front, longer) \in Seq(Piece)
        BY <2>1, <2>2, AppendIs
    <2> QED BY <1>1, <2>3 DEF JoinEqual, last, longer, front
<1>3. CASE m = <<>>
    BY <1>1, <1>3 DEF JoinEqual
<1> QED BY <1>2, <1>3

LEMMA JoinedTile ==
    ASSUME Covered
    PROVE  Tiles(Joined[Len(Intervals)], Len(bounds) - 1)
<1> DEFINE N == Len(Intervals)
           next(g) == [n \in 0..N |-> IF n = 0 THEN <<>> ELSE JoinEqual(g[n - 1], Intervals[n])]
           step == [n \in 1..N |-> [m \in Seq(Piece) |-> JoinEqual(m, Intervals[n])]]
<1>1. N = Len(bounds) - 1 /\ N \in Nat \ {0} /\ Pieces = 1..N
    BY CoveredIs, IntervalsAre DEF Pieces
<1>2. \A n \in 1..N : Intervals[n] \in Piece
    BY <1>1, IntervalsAre
<1>3. \A n \in 1..N : \A m \in Seq(Piece) : JoinEqual(m, Intervals[n]) \in Seq(Piece)
    BY <1>2, JoinEqualIs
<1>4. Joined = CHOOSE g : g = next(g)
    BY DEF Joined
<1>5. \E g : g = next(g)
    <2>1. step \in [1..N -> [Seq(Piece) -> Seq(Piece)]]
        BY <1>3
    <2>2. \A n \in 1..N : \A m \in Seq(Piece) : step[n][m] = JoinEqual(m, Intervals[n])
        OBVIOUS
    <2> HIDE DEF step, N
    <2> DEFINE first == <<>>
               V == Seq(Piece)
    <2>3. first \in V /\ N \in Nat /\ step \in [1..N -> [V -> V]]
        BY <1>1, <2>1
    <2> HIDE DEF first, V
    <2>4. PICK f : Iterates(f, N, V, first, step)
        BY <2>3, RecursionExists
    <2>5. f \in [0..N -> V] /\ f[0] = <<>> /\ \A n \in 1..N : f[n] = step[n][f[n - 1]]
        BY <2>4 DEF Iterates, first
    <2>6. \A n \in 1..N : n - 1 \in 0..N /\ f[n] = JoinEqual(f[n - 1], Intervals[n])
        BY <1>1, <2>2, <2>5 DEF V
    <2>7. f = next(f)
        <3>1. f = [n \in 0..N |-> f[n]]
            BY <2>5
        <3>2. ASSUME NEW n \in 0..N
              PROVE  f[n] = IF n = 0 THEN <<>> ELSE JoinEqual(f[n - 1], Intervals[n])
            <4>1. n # 0 => n \in 1..N
                BY <1>1
            <4> QED BY <2>5, <2>6, <4>1
        <3> QED BY <3>1, <3>2
    <2> QED BY <2>7
<1>6. Joined = next(Joined)
    BY <1>4, <1>5
<1> HIDE DEF N
<1>7. Joined[0] = <<>> /\ \A n \in 1..N : Joined[n] = JoinEqual(Joined[n - 1], Intervals[n])
    BY <1>1, <1>6
<1> DEFINE P == {n \in 0..N : n = 0 \/ Tiles(Joined[n], n)}
<1>8. 0 \in P
    BY <1>1
<1>9. ASSUME NEW n \in 1..N, n - 1 \in P PROVE n \in P
    <2>1. n \in Pieces /\ n \in 0..N
        BY <1>1
    <2>2. CASE n = 1
        <3>1. Joined[1] = JoinEqual(<<>>, Intervals[1])
            BY <1>1, <1>7, <2>2
        <3>2. Tiles(Joined[1], 1)
            BY <3>1, FirstTile
        <3> QED BY <2>1, <2>2, <3>2
    <2>3. CASE n # 1
        <3>1. n > 1 /\ n - 1 # 0
            BY <2>3
        <3>2. Tiles(Joined[n - 1], n - 1)
            BY <1>9, <3>1
        <3>3. Tiles(JoinEqual(Joined[n - 1], Intervals[n]), n)
            BY <2>1, <3>1, <3>2, NextTile
        <3> QED BY <1>7, <2>1, <3>3
    <2> QED BY <2>2, <2>3
<1> HIDE DEF P
<1>10. N \in P
    <2>1. \A n \in 0..N : n \in P
        BY <1>1, <1>8, <1>9, NumbersUpTo
    <2> QED BY <1>1, <2>1
<1> QED BY <1>1, <1>10 DEF P, N

-----------------------------------------------------------------------------
(* When no section is too short any more, the boundaries are in order. *)

Settled == Len(bounds) <= 2 \/ Short = {}

LEMMA LongEnough ==
    ASSUME Covered, Settled
    PROVE  /\ \A i \in Pieces : Begin(i) < Finish(i)
           /\ Len(bounds) # 2 => \A i \in Pieces :
                 /\ Duration(i) >= ExtremelyShort /\ InternalEdges(i) # {}
                 /\ Duration(i) < MinimumDuration => Meaningful(i)
<1> DEFINE N == Len(bounds) - 1
<1>1. /\ Len(bounds) \in Nat /\ Len(bounds) >= 2 /\ Pieces = 1..N
      /\ \A i \in Pieces : Begin(i) \in Int /\ Finish(i) \in Int
    BY CoveredIs DEF Pieces
<1>2. /\ ExtremelyShort \in Nat /\ ExtremelyShort > 0
      /\ MinimumDuration \in Nat /\ ExtremelyShort <= MinimumDuration
    BY SectionPlanAssumption DEF SectionPlanAssumption
<1>3. CASE Len(bounds) = 2
    <2>1. \A i \in Pieces : i = 1
        BY <1>1, <1>3
    <2>2. Begin(1) = 0 /\ Finish(1) = Total /\ 0 < Total
        BY <1>3 DEF Covered, BoundsInv, Begin, Finish
    <2> QED BY <1>3, <2>1, <2>2
<1>4. CASE Len(bounds) # 2
    <2> DEFINE n == Len(bounds)
    <2>a. n \in Nat /\ n >= 2 /\ n # 2 /\ (n <= 2 \/ Short = {})
        BY <1>1, <1>4 DEF Settled
    <2>b. N = n - 1 /\ Pieces = 1..N
        BY <1>1
    <2> HIDE DEF n, N
    <2>1. Short = {}
        BY <2>a
    <2>2. ASSUME NEW i \in Pieces
          PROVE  /\ Duration(i) >= ExtremelyShort /\ InternalEdges(i) # {}
                 /\ Duration(i) < MinimumDuration => Meaningful(i)
                 /\ Begin(i) < Finish(i)
        <3>1. i \in Nat /\ (i \in 2..N \/ i + 1 \in 2..N)
            BY <2>a, <2>b
        <3>2. InternalEdges(i) # {}
            BY <3>1 DEF InternalEdges, N
        <3>3. ~TooShort(i)
            BY <2>1, <2>b DEF Short, N
        <3>4. Duration(i) = Finish(i) - Begin(i) /\ Begin(i) \in Int /\ Finish(i) \in Int
            BY <1>1 DEF Duration
        <3>5. Duration(i) \in Int
            BY <3>4
        <3>6. Duration(i) >= ExtremelyShort
            BY <1>2, <3>2, <3>3, <3>5 DEF TooShort
        <3>7. Duration(i) < MinimumDuration => Meaningful(i)
            BY <3>2, <3>3 DEF TooShort
        <3>8. Begin(i) < Finish(i)
            BY <1>2, <3>4, <3>6
        <3> QED BY <3>2, <3>6, <3>7, <3>8
    <2> QED BY <1>4, <2>2
<1> QED BY <1>3, <1>4

LEMMA TimesRise ==
    ASSUME Covered, Settled
    PROVE  \A i, j \in 1..Len(bounds) : i < j => bounds[i].time < bounds[j].time
<1>1. /\ Len(bounds) \in Nat /\ Len(bounds) >= 2
      /\ \A i \in 1..Len(bounds) : bounds[i].time \in Int
    BY CoveredIs
<1>2. \A i \in 1..(Len(bounds) - 1) : bounds[i].time < bounds[i + 1].time
    BY LongEnough DEF Pieces, Begin, Finish
<1> DEFINE n == Len(bounds)
<1> HIDE DEF n
<1>3. ASSUME NEW i \in 1..n PROVE \A j \in 1..n : i < j => bounds[i].time < bounds[j].time
    <2> DEFINE P == {j \in 0..n : i < j => bounds[i].time < bounds[j].time}
    <2>1. 0 \in P
        BY <1>1 DEF n
    <2>2. ASSUME NEW j \in 1..n, j - 1 \in P PROVE j \in P
        <3>1. CASE i < j - 1
            <4>1. j - 1 \in 1..(n - 1) /\ j - 1 + 1 = j /\ j \in 1..n /\ j - 1 \in 1..n /\ j \in 0..n
                BY <1>1, <3>1 DEF n
            <4>2. bounds[i].time < bounds[j - 1].time
                BY <2>2, <3>1
            <4>3. bounds[j - 1].time < bounds[j].time
                BY <1>2, <4>1 DEF n
            <4> QED BY <1>1, <4>1, <4>2, <4>3 DEF n
        <3>2. CASE i = j - 1
            <4>1. i \in 1..(n - 1) /\ i + 1 = j /\ j \in 0..n
                BY <1>1, <3>2 DEF n
            <4>2. bounds[i].time < bounds[j].time
                BY <1>2, <4>1 DEF n
            <4> QED BY <4>1, <4>2
        <3>3. CASE ~(i < j)
            BY <1>1, <3>3 DEF n
        <3> QED BY <1>1, <3>1, <3>2, <3>3 DEF n
    <2> HIDE DEF P
    <2>3. \A j \in 0..n : j \in P
        BY <1>1, <2>1, <2>2, NumbersUpTo DEF n
    <2> QED BY <1>1, <2>3 DEF P, n
<1> QED BY <1>3 DEF n

\* What SectionsTile asks of the sections, one clause each.
Sure(s) == \/ s.label \in Protected
           \/ \A b \in Range(bounds) : b.time \in {s.start, s.end} \ {0, Total}
                                       => b.confidence >= ShortConfidence
GoodSection(m, i) ==
    /\ m[i].start < m[i].end
    /\ i > 1 => m[i - 1].end = m[i].start /\ m[i - 1].label # m[i].label
    /\ m[i].end - m[i].start < ExtremelyShort => Len(m) = 1
    /\ m[i].end - m[i].start < MinimumDuration /\ Len(m) > 1 => Sure(m[i])

LEMMA SectionSpan ==
    ASSUME Covered, Settled, NEW a \in Pieces, NEW b \in Pieces, NEW s, Spans(s, a, b)
    PROVE  /\ s.start < s.end /\ s.start \in Int /\ s.end \in Int
           /\ Len(bounds) # 2 => /\ s.end - s.start >= ExtremelyShort
                                 /\ s.end - s.start < MinimumDuration => Sure(s)
<1>1. /\ Len(bounds) \in Nat /\ Len(bounds) >= 2
      /\ \A i \in 1..Len(bounds) : bounds[i].time \in Int /\ bounds[i].confidence \in Int
      /\ \A i \in Pieces : Begin(i) \in Int /\ Finish(i) \in Int
    BY CoveredIs
<1>2. \A i, j \in 1..Len(bounds) : i < j => bounds[i].time < bounds[j].time
    BY TimesRise
<1>3. /\ a \in Nat /\ b \in Nat /\ a <= b /\ s.start = Begin(a) /\ s.end = Finish(b)
      /\ \A k \in a..b : PieceLabel(k) = s.label
    BY <1>1 DEF Spans, Pieces
<1>4. \A i \in Pieces : /\ i \in 1..Len(bounds) /\ i + 1 \in 1..Len(bounds)
                        /\ Begin(i) = bounds[i].time /\ Finish(i) = bounds[i + 1].time
    BY <1>1 DEF Pieces, Begin, Finish
<1>5. \A i, j \in 1..Len(bounds) : i <= j => bounds[i].time <= bounds[j].time
    <2> TAKE i, j \in 1..Len(bounds)
    <2>1. i < j => bounds[i].time < bounds[j].time
        BY <1>2
    <2>2. bounds[i].time \in Int /\ bounds[j].time \in Int /\ i \in Int /\ j \in Int
        BY <1>1
    <2> HAVE i <= j
    <2> QED BY <2>1, <2>2
<1>6. ASSUME NEW k \in a..b
      PROVE  k \in Pieces /\ Begin(a) <= Begin(k) /\ Finish(k) <= Finish(b)
    <2>1. k \in Pieces /\ k \in Nat /\ a <= k /\ k + 1 <= b + 1
        BY <1>1, <1>3 DEF Pieces
    <2>2. bounds[a].time <= bounds[k].time /\ bounds[k + 1].time <= bounds[b + 1].time
        BY <1>4, <1>5, <2>1
    <2> QED BY <1>4, <2>1, <2>2
<1>7. a \in a..b /\ b \in a..b
    BY <1>3
<1>8. s.start < s.end
    <2>1. Begin(a) < Finish(a) /\ Finish(a) <= Finish(b)
        BY <1>6, <1>7, LongEnough
    <2> QED BY <1>1, <1>3, <2>1
<1>9. ASSUME Len(bounds) # 2
      PROVE  /\ s.end - s.start >= ExtremelyShort
             /\ s.end - s.start < MinimumDuration => Sure(s)
    <2>1. \A i \in Pieces : /\ Duration(i) >= ExtremelyShort /\ InternalEdges(i) # {}
                            /\ Duration(i) < MinimumDuration => Meaningful(i)
        BY <1>9, LongEnough
    <2>2. ExtremelyShort \in Nat /\ MinimumDuration \in Nat
        BY SectionPlanAssumption DEF SectionPlanAssumption
    <2>3. ASSUME NEW k \in a..b PROVE Duration(k) <= s.end - s.start
        <3>1. k \in Pieces /\ Begin(a) <= Begin(k) /\ Finish(k) <= Finish(b)
            BY <1>6
        <3> QED BY <1>1, <1>3, <3>1 DEF Duration
    <2>4. Duration(a) \in Int
        BY <1>1 DEF Duration
    <2>5. s.end - s.start >= ExtremelyShort
        BY <1>1, <1>3, <1>7, <2>1, <2>2, <2>3, <2>4
    <2>6. ASSUME s.end - s.start < MinimumDuration, s.label \notin Protected,
                 NEW c \in Range(bounds), c.time \in {s.start, s.end} \ {0, Total}
          PROVE  c.confidence >= ShortConfidence
        <3>1. ASSUME NEW k \in a..b
              PROVE  \A e \in InternalEdges(k) : bounds[e].confidence >= ShortConfidence
            <4>1. k \in Pieces /\ Duration(k) <= s.end - s.start
                BY <1>6, <2>3
            <4>2. Duration(k) \in Int /\ s.end - s.start \in Int
                BY <1>1, <1>3, <4>1 DEF Duration
            <4>3. Duration(k) < MinimumDuration
                BY <2>2, <2>6, <4>1, <4>2
            <4>4. Meaningful(k) /\ LabelOf(Begin(k), Finish(k)) \notin Protected
                BY <1>3, <2>1, <2>6, <4>1, <4>3 DEF PieceLabel
            <4> QED BY <4>4 DEF Meaningful
        <3>2. PICK x \in 1..Len(bounds) : bounds[x] = c
            <4>1. DOMAIN bounds = 1..Len(bounds)
                BY CoveredIs, LenProperties
            <4> QED BY <4>1 DEF Range
        <3>3. \A y \in 1..Len(bounds) : bounds[y].time = c.time => y = x
            <4> TAKE y \in 1..Len(bounds)
            <4>1. x < y => bounds[x].time < bounds[y].time
                BY <1>2
            <4>2. y < x => bounds[y].time < bounds[x].time
                BY <1>2
            <4>3. x \in Int /\ y \in Int /\ bounds[x].time \in Int /\ bounds[y].time \in Int
                BY <1>1
            <4> QED BY <3>2, <4>1, <4>2, <4>3
        <3>4. bounds[1].time = 0 /\ bounds[Len(bounds)].time = Total
            BY DEF Covered, BoundsInv
        <3>5. x # 1 /\ x # Len(bounds)
            BY <2>6, <3>2, <3>4
        <3>6. x \in 2..(Len(bounds) - 1)
            BY <1>1, <3>2, <3>5
        <3>7. x = a \/ x = b + 1
            <4>1. c.time = bounds[a].time \/ c.time = bounds[b + 1].time
                BY <1>3, <1>4, <2>6
            <4> QED BY <1>4, <3>3, <4>1
        <3>8. x \in InternalEdges(a) \/ x \in InternalEdges(b)
            BY <3>6, <3>7 DEF InternalEdges
        <3> QED BY <1>7, <3>1, <3>2, <3>8
    <2> QED BY <2>5, <2>6 DEF Sure
<1> QED BY <1>1, <1>3, <1>8, <1>9

LEMMA TilesAreGood ==
    ASSUME Covered, Settled, NEW m, Tiles(m, Len(bounds) - 1)
    PROVE  /\ m \in Seq(Piece) /\ m[1].start = 0 /\ Last(m).end = Total
           /\ \A i \in DOMAIN m : GoodSection(m, i)
<1> DEFINE N == Len(bounds) - 1
<1>1. /\ N \in Nat \ {0} /\ Pieces = 1..N
      /\ Len(bounds) = 2 => N = 1
    BY CoveredIs DEF Pieces
<1>2. bounds[1].time = 0 /\ bounds[Len(bounds)].time = Total
    BY DEF Covered, BoundsInv
<1>3. Begin(1) = 0 /\ Finish(N) = Total
    <2>1. N + 1 = Len(bounds)
        BY CoveredIs
    <2> QED BY <1>2, <2>1 DEF Begin, Finish
<1> HIDE DEF N
<1>4. /\ m \in Seq(Piece) /\ m # <<>> /\ Len(m) <= N /\ m[1].start = Begin(1)
      /\ \A i \in 1..Len(m) : \E a \in 1..N : \E b \in 1..N : Spans(m[i], a, b)
      /\ \E a \in 1..N : Spans(m[Len(m)], a, N)
      /\ \A i \in 2..Len(m) : m[i - 1].end = m[i].start /\ m[i - 1].label # m[i].label
    BY DEF Tiles, N
<1>5. Last(m).end = Total
    BY <1>3, <1>4 DEF Last, Spans
<1>6. DOMAIN m = 1..Len(m) /\ Len(m) \in Nat \ {0}
    BY <1>4, LenProperties, EmptySeq
<1>7. ExtremelyShort \in Nat
    BY SectionPlanAssumption DEF SectionPlanAssumption
<1>8. ASSUME NEW i \in DOMAIN m PROVE GoodSection(m, i)
    <2>1. PICK a \in 1..N : \E b \in 1..N : Spans(m[i], a, b)
        BY <1>4, <1>6
    <2>2. PICK b \in 1..N : Spans(m[i], a, b)
        BY <2>1
    <2> DEFINE s == m[i]
    <2>3. /\ s.start < s.end /\ s.start \in Int /\ s.end \in Int
          /\ Len(bounds) # 2 => /\ s.end - s.start >= ExtremelyShort
                                /\ s.end - s.start < MinimumDuration => Sure(s)
        BY <1>1, <2>2, SectionSpan
    <2>4. i > 1 => m[i - 1].end = m[i].start /\ m[i - 1].label # m[i].label
        BY <1>4, <1>6
    <2>5. Len(bounds) = 2 => Len(m) = 1
        BY <1>1, <1>4, <1>6
    <2> HIDE DEF s
    <2>6. s.end - s.start \in Int
        BY <2>3
    <2>7. s.end - s.start < ExtremelyShort => Len(bounds) = 2
        BY <1>7, <2>3, <2>6
    <2>8. Len(m) > 1 => Len(bounds) # 2
        BY <1>6, <2>5
    <2> QED BY <2>3, <2>4, <2>5, <2>7, <2>8 DEF GoodSection, s
<1> QED BY <1>3, <1>4, <1>5, <1>8

-----------------------------------------------------------------------------
(* The sections of every behaviour. *)

GoodSections ==
    \/ sections = <<>>
    \/ /\ sections \in Seq(Piece) /\ sections[1].start = 0 /\ Last(sections).end = Total
       /\ \A i \in DOMAIN sections : GoodSection(sections, i)

PlanInv ==
    /\ input \in Inputs
    /\ phase = "merge" => BoundsInv /\ sections = <<>>
    /\ GoodSections

LEMMA InitPlan == PlanInit => PlanInv
<1> SUFFICES ASSUME PlanInit PROVE PlanInv
    OBVIOUS
<1>1. input \in Inputs /\ sections = <<>> /\ Total \in Nat
    BY InputIs DEF PlanInit
<1>2. CASE Total > 0 /\ Raw # <<>>
    <2>1. bounds = Deduped
        BY <1>2 DEF PlanInit
    <2>2. /\ Deduped \in Seq(BoundaryRow) /\ Len(Deduped) >= 2
          /\ Deduped[1].time = 0 /\ Deduped[Len(Deduped)].time = Total
        BY <1>1, <1>2, DedupedIs
    <2>3. BoundsInv
        BY <1>2, <2>1, <2>2 DEF BoundsInv
    <2> QED BY <1>1, <2>3 DEF PlanInv, GoodSections
<1>3. CASE ~(Total > 0 /\ Raw # <<>>)
    <2>1. BoundsInv
        BY <1>3 DEF PlanInit, BoundsInv
    <2> QED BY <1>1, <2>1 DEF PlanInv, GoodSections
<1> QED BY <1>2, <1>3

LEMMA RemovePlan == PlanInv /\ RemoveBoundary => PlanInv'
<1> SUFFICES ASSUME PlanInv, RemoveBoundary PROVE PlanInv'
    OBVIOUS
<1>1. BoundsInv'
    BY RemoveKeeps DEF PlanInv, RemoveBoundary
<1>2. sections' = <<>> /\ input' \in Inputs
    BY DEF PlanInv, RemoveBoundary
<1> QED BY <1>1, <1>2 DEF PlanInv, GoodSections

LEMMA EmitPlan == PlanInv /\ EmitSections => PlanInv'
<1> SUFFICES ASSUME PlanInv, EmitSections PROVE PlanInv'
    OBVIOUS
<1>1. BoundsInv /\ Settled /\ input' = input /\ bounds' = bounds /\ phase' # "merge"
    BY DEF PlanInv, EmitSections, Settled
<1>2. CASE bounds = <<>>
    <2>1. sections' = <<>>
        BY <1>2 DEF EmitSections
    <2> QED BY <1>1, <2>1 DEF PlanInv, GoodSections
<1>3. CASE bounds # <<>>
    <2> DEFINE m == Joined[Len(Intervals)]
    <2>1. sections' = m
        BY <1>3 DEF EmitSections
    <2>2. Covered
        BY <1>1, <1>3 DEF Covered
    <2>3. Tiles(m, Len(bounds) - 1)
        BY <2>2, JoinedTile
    <2> HIDE DEF m
    <2>4. /\ m \in Seq(Piece) /\ m[1].start = 0 /\ Last(m).end = Total
          /\ \A i \in DOMAIN m : GoodSection(m, i)
        BY <1>1, <2>2, <2>3, TilesAreGood
    <2>5. Piece' = Piece /\ Total' = Total /\ Range(bounds)' = Range(bounds)
        BY <1>1 DEF Piece, Pieces, PieceLabel, LabelOf, Selected, Overlap, Raw, Begin, Finish, Total
    <2>6. \A i \in DOMAIN m : GoodSection(sections, i)'
        BY <1>1, <2>1, <2>4, <2>5 DEF GoodSection, Sure
    <2>7. GoodSections'
        BY <2>1, <2>4, <2>5, <2>6 DEF GoodSections
    <2> QED BY <1>1, <2>7 DEF PlanInv
<1> QED BY <1>2, <1>3

LEMMA SamePlan ==
    ASSUME PlanInv, UNCHANGED planVars, phase' = "merge" => phase = "merge"
    PROVE  PlanInv'
<1>1. input' = input /\ bounds' = bounds /\ sections' = sections
    BY DEF planVars
<1>2. Piece' = Piece /\ Total' = Total /\ Range(bounds)' = Range(bounds)
    BY <1>1 DEF Piece, Pieces, PieceLabel, LabelOf, Selected, Overlap, Raw, Begin, Finish, Total
<1>3. BoundsInv => BoundsInv'
    BY <1>1, <1>2 DEF BoundsInv
<1>4. GoodSections'
    <2>1. CASE sections = <<>>
        BY <1>1, <2>1 DEF GoodSections
    <2>2. CASE sections # <<>>
        <3>1. /\ sections \in Seq(Piece) /\ sections[1].start = 0 /\ Last(sections).end = Total
              /\ \A i \in DOMAIN sections : GoodSection(sections, i)
            BY <2>2 DEF PlanInv, GoodSections
        <3>2. \A i \in DOMAIN sections : GoodSection(sections, i)'
            BY <1>1, <1>2, <3>1 DEF GoodSection, Sure
        <3> QED BY <1>1, <1>2, <3>1, <3>2 DEF GoodSections
    <2> QED BY <2>1, <2>2
<1> QED BY <1>1, <1>3, <1>4 DEF PlanInv

\* The transcription leaves the sections alone.
LEMMA StepKinds ==
    ASSUME AsrNext
    PROVE  \/ RemoveBoundary \/ EmitSections
           \/ UNCHANGED planVars /\ (phase' = "merge" => phase = "merge")
<1>1. Planning => RemoveBoundary \/ EmitSections
    BY DEF Planning, PlanNext
<1>2. Start \/ RunAgain \/ WriteRecord => UNCHANGED planVars /\ (phase' = "merge" => phase = "merge")
    BY DEF Start, RunAgain, Admit, WriteRecord, asrVars
<1>3. Submit \/ Gather \/ TranscribeBatch \/ WrongCardinality \/ BatchRaises =>
          UNCHANGED planVars /\ phase' = phase
    BY DEF Submit, Gather, TranscribeBatch, WrongCardinality, BatchRaises
<1>4. ASSUME NEW i \in Items, Decode(i) \/ TranscribeOne(i) \/ OneRaises(i)
      PROVE  UNCHANGED planVars /\ phase' = phase
    BY <1>4 DEF Decode, TranscribeOne, OneRaises
<1> QED BY <1>1, <1>2, <1>3, <1>4 DEF AsrNext

LEMMA PlanStep == PlanInv /\ [AsrNext]_asrVars => PlanInv'
<1> SUFFICES ASSUME PlanInv, [AsrNext]_asrVars PROVE PlanInv'
    OBVIOUS
<1>1. CASE AsrNext
    BY <1>1, StepKinds, RemovePlan, EmitPlan, SamePlan
<1>2. CASE UNCHANGED asrVars
    <2>1. UNCHANGED planVars /\ phase' = phase
        BY <1>2 DEF asrVars
    <2> QED BY <2>1, SamePlan
<1> QED BY <1>1, <1>2

LEMMA PlanIsTiled == PlanInv => SectionsTile
<1> SUFFICES ASSUME PlanInv, phase # "merge", sections # <<>> PROVE SectionsTile
    BY DEF SectionsTile
<1>1. /\ sections[1].start = 0 /\ Last(sections).end = Total
      /\ \A i \in DOMAIN sections : GoodSection(sections, i)
    BY DEF PlanInv, GoodSections
<1> QED BY <1>1 DEF SectionsTile, GoodSection, Sure

\* Whatever the raw sections and the downbeats were, and whichever thresholds are set,
\* the sections cover the track without a gap or an overlap, none is a glitch unless it
\* is the whole track, a short one is protected by its label or by sure edges, and
\* neighbours differ in label.
THEOREM SectionsAreTiles == AsrSpec => []SectionsTile
<1>1. AsrInit => PlanInv
    BY InitPlan DEF AsrInit
<1>2. PlanInv /\ [AsrNext]_asrVars => PlanInv'
    BY PlanStep
<1>3. PlanInv => SectionsTile
    BY PlanIsTiled
<1> QED BY <1>1, <1>2, <1>3, PTL DEF AsrSpec

-----------------------------------------------------------------------------
(* The batches: every eligible section is in one of them. *)

InSome(i, q) == \E n \in 1..Len(q) : i \in q[n]

LEMMA DivisionFacts ==
    ASSUME NEW n \in Nat, NEW parts \in Nat \ {0}
    PROVE  /\ n \div parts \in Nat /\ n % parts \in Nat /\ n % parts < parts
           /\ n = (parts * (n \div parts)) + (n % parts)
    OBVIOUS

\* The r-th of c things, from zero, is in one of the batches the c things need.
LEMMA BatchNumber ==
    ASSUME NEW c \in Nat, NEW r \in Nat, r < c, NEW size \in Nat \ {0}
    PROVE  (r \div size) + 1 \in 1..((c + size - 1) \div size)
<1> DEFINE q == r \div size
           x == c + size - 1
           d == x \div size
<1>1. x \in Nat
    OBVIOUS
<1>2. q \in Nat /\ r % size \in Nat /\ r = (size * q) + (r % size)
    BY DivisionFacts
<1>3. d \in Nat /\ x % size \in Nat /\ x % size < size /\ x = (size * d) + (x % size)
    <2> HIDE DEF x
    <2> QED BY <1>1, DivisionFacts
<1>4. x >= (size * q) + size
    <2>1. x = c + size - 1
        OBVIOUS
    <2> HIDE DEF q, x
    <2>2. size * q \in Nat
        BY <1>2
    <2> QED BY <1>2, <2>1, <2>2
<1> HIDE DEF q, x, d
<1>5. q + 1 <= d
    <2>1. SUFFICES ASSUME ~(q + 1 <= d) PROVE FALSE
        OBVIOUS
    <2>2. PICK k \in Nat : q = d + k
        <3>1. q - d \in Nat /\ q = d + (q - d)
            BY <1>2, <1>3, <2>1
        <3> QED BY <3>1
    <2>3. size * q = (size * d) + (size * k) /\ size * k \in Nat /\ size * d \in Nat /\ size * q \in Nat
        BY <1>3, <2>2
    <2>4. x < (size * d) + size
        BY <1>1, <1>3, <2>3
    <2> DEFINE u == size * q
               v == size * d
               w == size * k
    <2>5. u = v + w /\ w \in Nat /\ v \in Nat /\ u \in Nat /\ x < v + size /\ x >= u + size
        BY <1>4, <2>3, <2>4
    <2> HIDE DEF u, v, w
    <2> QED BY <1>1, <2>5
<1> QED BY <1>2, <1>3, <1>5 DEF q, d, x

LEMMA CutIs ==
    ASSUME NEW items, items \subseteq Nat, IsFiniteSet(items)
    PROVE  /\ Cut(items) \in Seq(SUBSET items)
           /\ \A i \in items : InSome(i, Cut(items))
<1> DEFINE N == (Cardinality(items) + BatchSize - 1) \div BatchSize
           c == Cardinality(items)
<1>1. BatchSize \in Nat \ {0}
    BY SectionAsrAssumption DEF SectionAsrAssumption
<1>2. c \in Nat
    BY FS_CardinalityType
<1>3. N \in Nat
    <2> DEFINE x == c + BatchSize - 1
    <2>1. x \in Nat
        BY <1>1, <1>2
    <2> HIDE DEF x
    <2>2. x \div BatchSize \in Nat
        BY <1>1, <2>1, DivisionFacts
    <2> QED BY <2>2 DEF x
<1>4. Cut(items) = [n \in 1..N |-> {i \in items : Rank(i, items) \div BatchSize = n - 1}]
    BY DEF Cut
<1>5. ASSUME NEW i \in items PROVE (Rank(i, items) \div BatchSize) + 1 \in 1..N /\ Rank(i, items) \in Nat
    <2> DEFINE before == {j \in items : j < i}
    <2>1. IsFiniteSet(before) /\ before \subseteq items /\ i \notin before
        BY FS_Subset
    <2>2. Cardinality(before) \in Nat /\ Cardinality(before) <= c /\ Cardinality(before) # c
        <3>1. Cardinality(before) <= c
            BY <2>1, FS_Subset
        <3>2. Cardinality(before) = c => before = items
            BY <2>1, FS_Subset
        <3>3. Cardinality(before) \in Nat
            BY <2>1, FS_CardinalityType
        <3> QED BY <2>1, <3>1, <3>2, <3>3
    <2>3. Rank(i, items) = Cardinality(before)
        BY DEF Rank
    <2> DEFINE r == Rank(i, items)
    <2> HIDE DEF before, r, c
    <2>4. r \in Nat /\ r < c
        BY <1>2, <2>2, <2>3 DEF r
    <2>5. (r \div BatchSize) + 1 \in 1..((c + BatchSize - 1) \div BatchSize)
        BY <1>1, <1>2, <2>4, BatchNumber
    <2> QED BY <2>4, <2>5 DEF c, r
<1> HIDE DEF N
<1>6. Cut(items) \in Seq(SUBSET items) /\ Len(Cut(items)) = N
    <2>1. Cut(items) \in [1..N -> SUBSET items]
        BY <1>4
    <2>2. \A n \in Nat : \A f \in [1..n -> SUBSET items] : f \in Seq(SUBSET items) /\ Len(f) = n
        BY IsASeq
    <2> QED BY <1>3, <2>1, <2>2
<1>7. ASSUME NEW i \in items PROVE InSome(i, Cut(items))
    <2> DEFINE q == Rank(i, items) \div BatchSize
    <2>1. q + 1 \in 1..N /\ q \in Nat
        BY <1>1, <1>5, DivisionFacts
    <2>2. q + 1 - 1 = q
        BY <2>1
    <2>3. i \in Cut(items)[q + 1]
        <3> HIDE DEF q
        <3>1. Cut(items)[q + 1] = {j \in items : Rank(j, items) \div BatchSize = q}
            BY <1>4, <2>1, <2>2
        <3> QED BY <3>1 DEF q
    <2> QED BY <1>6, <2>1, <2>3 DEF InSome
<1> QED BY <1>6, <1>7

LEMMA ConcatSome ==
    ASSUME NEW S, NEW p \in Seq(S), NEW q \in Seq(S)
    PROVE  /\ p \o q \in Seq(S)
           /\ \A i : InSome(i, p) \/ InSome(i, q) => InSome(i, p \o q)
<1> DEFINE both == p \o q
<1>1. /\ both \in Seq(S) /\ Len(both) = Len(p) + Len(q)
      /\ \A n \in 1..(Len(p) + Len(q)) : both[n] = IF n <= Len(p) THEN p[n] ELSE q[n - Len(p)]
    BY ConcatProperties
<1>2. Len(p) \in Nat /\ Len(q) \in Nat
    BY LenProperties
<1> HIDE DEF both
<1>3. ASSUME NEW i, InSome(i, p) PROVE InSome(i, both)
    <2>1. PICK n \in 1..Len(p) : i \in p[n]
        BY <1>3 DEF InSome
    <2>2. n \in 1..(Len(p) + Len(q)) /\ both[n] = p[n]
        BY <1>1, <1>2
    <2> QED BY <1>1, <2>1, <2>2 DEF InSome
<1>4. ASSUME NEW i, InSome(i, q) PROVE InSome(i, both)
    <2>1. PICK n \in 1..Len(q) : i \in q[n]
        BY <1>4 DEF InSome
    <2>2. /\ Len(p) + n \in 1..(Len(p) + Len(q)) /\ ~(Len(p) + n <= Len(p))
          /\ Len(p) + n - Len(p) = n
        BY <1>2
    <2>3. both[Len(p) + n] = q[n]
        BY <1>1, <2>2
    <2> QED BY <1>1, <2>1, <2>2, <2>3 DEF InSome
<1> QED BY <1>1, <1>3, <1>4 DEF both

LEMMA BatchesCover ==
    ASSUME sections \in Seq(Piece)
    PROVE  /\ Batches \in Seq(SUBSET Items)
           /\ \A i \in Items : Eligible(i) => InSome(i, Batches)
<1> DEFINE N == Len(BucketLimits) + 1
           V == Seq(SUBSET Items)
           next(g) == [b \in 0..N |-> IF b = 0 THEN <<>> ELSE g[b - 1] \o Cut(ItemsOf(b - 1))]
           step == [b \in 1..N |-> [q \in V |-> q \o Cut(ItemsOf(b - 1))]]
<1>1. N \in Nat \ {0} /\ DOMAIN BucketLimits = 1..(N - 1) /\ N - 1 \in Nat
    BY LenProperties, SectionAsrAssumption DEF SectionAsrAssumption
<1>2. Items \subseteq Nat /\ IsFiniteSet(Items)
    <2>1. Items = 1..Len(sections) /\ Len(sections) \in Nat
        BY LenProperties DEF Items
    <2>2. Len(sections) \in Int /\ 1 \in Int
        BY <2>1
    <2> QED BY <2>1, <2>2, FS_Interval
<1>3. ASSUME NEW i \in Items PROVE Bucket(i) \in 0..(N - 1)
    <2> DEFINE above == {n \in DOMAIN BucketLimits : sections[i].end - sections[i].start > BucketLimits[n]}
    <2>1. above \subseteq 1..(N - 1)
        BY <1>1
    <2>2. IsFiniteSet(1..(N - 1)) /\ Cardinality(1..(N - 1)) = N - 1
        <3> DEFINE k == N - 1
        <3>1. k \in Nat /\ k \in Int /\ 1 \in Int
            BY <1>1
        <3> HIDE DEF k
        <3>2. IsFiniteSet(1..k) /\ Cardinality(1..k) = k
            BY <3>1, FS_Interval
        <3> QED BY <3>2 DEF k
    <2>3. Cardinality(above) <= N - 1
        BY <2>1, <2>2, FS_Subset
    <2>4. Cardinality(above) \in Nat
        BY <2>1, <2>2, FS_Subset, FS_CardinalityType
    <2>5. Bucket(i) = Cardinality(above)
        BY DEF Bucket
    <2> HIDE DEF above, N
    <2> QED BY <1>1, <2>3, <2>4, <2>5
<1>4. ASSUME NEW b PROVE Cut(ItemsOf(b)) \in V /\ \A i \in ItemsOf(b) : InSome(i, Cut(ItemsOf(b)))
    <2> DEFINE items == ItemsOf(b)
    <2>1. items \subseteq Items /\ items \subseteq Nat /\ IsFiniteSet(items)
        BY <1>2, FS_Subset DEF ItemsOf
    <2> HIDE DEF items
    <2>2. Cut(items) \in Seq(SUBSET items) /\ \A i \in items : InSome(i, Cut(items))
        BY <2>1, CutIs
    <2>3. SUBSET items \subseteq SUBSET Items
        BY <2>1
    <2>4. Cut(items) \in Seq(SUBSET Items)
        BY <2>2, <2>3, SeqMonotonic
    <2> QED BY <2>2, <2>4 DEF items
<1> HIDE DEF N
<1>5. \A b \in 1..N : \A q \in V : q \o Cut(ItemsOf(b - 1)) \in V
    BY <1>4, ConcatSome
<1>6. BatchesOf = CHOOSE g : g = next(g)
    BY DEF BatchesOf, N
<1>7. \E g : g = next(g)
    <2>1. step \in [1..N -> [V -> V]]
        BY <1>5
    <2>2. \A b \in 1..N : \A q \in V : step[b][q] = q \o Cut(ItemsOf(b - 1))
        OBVIOUS
    <2>3. <<>> \in V
        BY EmptySeq
    <2> DEFINE first == <<>>
    <2> HIDE DEF step, V, first
    <2>4. PICK f : Iterates(f, N, V, first, step)
        BY <1>1, <2>1, <2>3, RecursionExists DEF first
    <2>5. f \in [0..N -> V] /\ f[0] = <<>> /\ \A n \in 1..N : f[n] = step[n][f[n - 1]]
        BY <2>4 DEF Iterates, first
    <2>6. \A n \in 1..N : n - 1 \in 0..N /\ f[n] = f[n - 1] \o Cut(ItemsOf(n - 1))
        <3> TAKE n \in 1..N
        <3>1. n - 1 \in 0..N
            BY <1>1
        <3>2. f[n - 1] \in V
            BY <2>5, <3>1
        <3>3. step[n][f[n - 1]] = f[n - 1] \o Cut(ItemsOf(n - 1))
            BY <2>2, <3>2
        <3> QED BY <2>5, <3>1, <3>3
    <2>7. f = next(f)
        <3>1. f = [n \in 0..N |-> f[n]]
            BY <2>5
        <3>2. ASSUME NEW n \in 0..N
              PROVE  f[n] = IF n = 0 THEN <<>> ELSE f[n - 1] \o Cut(ItemsOf(n - 1))
            <4>1. n # 0 => n \in 1..N
                BY <1>1
            <4> QED BY <2>5, <2>6, <4>1
        <3> QED BY <3>1, <3>2
    <2> QED BY <2>7
<1>8. BatchesOf = next(BatchesOf)
    BY <1>6, <1>7
<1>9. BatchesOf[0] = <<>> /\ \A b \in 1..N : BatchesOf[b] = BatchesOf[b - 1] \o Cut(ItemsOf(b - 1))
    BY <1>1, <1>8
<1> DEFINE Cover(b) == /\ BatchesOf[b] \in V
                       /\ \A i \in Items : Eligible(i) /\ Bucket(i) < b => InSome(i, BatchesOf[b])
           P == {b \in 0..N : Cover(b)}
<1>10. 0 \in P
    <2>1. BatchesOf[0] \in V
        BY <1>9, EmptySeq
    <2>2. \A i \in Items : ~(Bucket(i) < 0)
        BY <1>1, <1>3
    <2> QED BY <1>1, <2>1, <2>2
<1>11. ASSUME NEW b \in 1..N, b - 1 \in P PROVE b \in P
    <2> DEFINE old == BatchesOf[b - 1]
               new == Cut(ItemsOf(b - 1))
    <2>1. old \in V /\ \A i \in Items : Eligible(i) /\ Bucket(i) < b - 1 => InSome(i, old)
        BY <1>11
    <2>2. new \in V /\ \A i \in ItemsOf(b - 1) : InSome(i, new)
        BY <1>4
    <2>3. BatchesOf[b] = old \o new
        BY <1>9
    <2> HIDE DEF old, new
    <2>4. old \o new \in V /\ \A i : InSome(i, old) \/ InSome(i, new) => InSome(i, old \o new)
        BY <2>1, <2>2, ConcatSome
    <2>5. ASSUME NEW i \in Items, Eligible(i), Bucket(i) < b PROVE InSome(i, old \o new)
        <3>1. Bucket(i) < b - 1 \/ Bucket(i) = b - 1
            BY <1>1, <1>3, <2>5
        <3>2. Bucket(i) = b - 1 => i \in ItemsOf(b - 1)
            BY <2>5 DEF ItemsOf
        <3> QED BY <2>1, <2>2, <2>4, <2>5, <3>1, <3>2
    <2>6. b \in 0..N
        BY <1>1
    <2> QED BY <2>3, <2>4, <2>5, <2>6
<1> HIDE DEF P
<1>12. N \in P
    <2>1. \A n \in 0..N : n \in P
        BY <1>1, <1>10, <1>11, NumbersUpTo
    <2> QED BY <1>1, <2>1
<1>13. \A i \in Items : Bucket(i) < N
    BY <1>1, <1>3
<1>14. Batches = BatchesOf[N]
    BY DEF Batches, N
<1> QED BY <1>12, <1>13, <1>14 DEF P

-----------------------------------------------------------------------------
(* The transcription.  Every eligible section waits for its answer or has one. *)

Before == phase \in {"merge", "planned"}
Waits(i) == InSome(i, pending) \/ i \in submitted \/ i \in batch
Answered(i) == status[i] \in Bad \/ tokens[i] = Kept(i)

AsrInv ==
    /\ phase \in {"merge", "planned", "asr", "done"}
    /\ Before \/ phase = "done" => AllAnswered
    /\ Before => tokens = <<>>
    /\ ~Before =>
          /\ DOMAIN tokens = Items /\ DOMAIN status = Items
          /\ pending \in Seq(SUBSET Items) /\ submitted \subseteq Items /\ batch \subseteq Items
          /\ \A i \in Items : tokens[i] \in {{}, Kept(i)}
          /\ \A i \in Items : Eligible(i) => Waits(i) \/ Answered(i)

SInv == PlanInv /\ AsrInv

LEMMA InitAsr == AsrInit => AsrInv
    BY DEF AsrInit, PlanInit, AsrInv, Before, AllAnswered

\* The sections and what is heard in them do not change under the transcription.
SameTrack == UNCHANGED planVars /\ contentType' = contentType

LEMMA SameHearing ==
    ASSUME SameTrack
    PROVE  /\ Items' = Items
           /\ \A i \in Items : Kept(i)' = Kept(i) /\ (Eligible(i)' <=> Eligible(i))
           /\ sections' = sections
<1>1. input' = input /\ sections' = sections /\ contentType' = contentType
    BY DEF SameTrack, planVars
<1>2. \A i \in Items : Kept(i)' = Kept(i)
    BY <1>1 DEF Kept, TrackTime, Heard, Core, DecodedStart, DecodedEnd, Total
<1>3. \A i \in Items : Eligible(i)' <=> Eligible(i)
    BY <1>1 DEF Eligible, Voice
<1> QED BY <1>1, <1>2, <1>3 DEF Items

\* A step of the transcription keeps every eligible section in one of the two places.
LEMMA TranscriptionKeeps ==
    ASSUME AsrInv, ~Before, ~Before', SameTrack, phase' \in {"asr", "done"},
           phase' = "done" => AllAnswered',
           DOMAIN tokens' = Items, DOMAIN status' = Items,
           pending' \in Seq(SUBSET Items), submitted' \subseteq Items, batch' \subseteq Items,
           \A i \in Items : tokens'[i] \in {tokens[i], Kept(i)},
           \A i \in Items : \/ status'[i] = status[i] /\ tokens'[i] = tokens[i]
                            \/ status'[i] \in Bad
                            \/ tokens'[i] = Kept(i),
           \A i \in Items : Waits(i) => \/ Waits(i)'
                                        \/ status'[i] \in Bad
                                        \/ tokens'[i] = Kept(i)
    PROVE  AsrInv'
<1>1. Items' = Items /\ \A i \in Items : Kept(i)' = Kept(i) /\ (Eligible(i)' <=> Eligible(i))
    BY SameHearing
<1>2. \A i \in Items : tokens'[i] \in {{}, Kept(i)}
    BY DEF AsrInv
<1>3. \A i \in Items : Eligible(i) => Waits(i)' \/ Answered(i)'
    <2> TAKE i \in Items
    <2> HAVE Eligible(i)
    <2>1. Waits(i) \/ status[i] \in Bad \/ tokens[i] = Kept(i)
        BY DEF AsrInv, Answered
    <2>2. status'[i] \in Bad \/ tokens'[i] = Kept(i) => Answered(i)'
        BY <1>1 DEF Answered, Bad
    <2> QED BY <2>1, <2>2
<1> QED BY <1>1, <1>2, <1>3 DEF AsrInv, Before

LEMMA AdmitKeeps ==
    ASSUME SInv, ~Before => phase = "done", Admit, phase # "merge"
    PROVE  AsrInv'
<1>1. SameTrack
    BY DEF Admit, SameTrack
<1>2. Items' = Items /\ \A i \in Items : Kept(i)' = Kept(i) /\ (Eligible(i)' <=> Eligible(i))
    BY <1>1, SameHearing
<1>3. sections \in Seq(Piece)
    BY EmptySeq DEF SInv, PlanInv, GoodSections
<1>4. Batches \in Seq(SUBSET Items) /\ \A i \in Items : Eligible(i) => InSome(i, Batches)
    BY <1>3, BatchesCover
<1>5. submitted = {} /\ batch = {}
    BY DEF SInv, AsrInv, AllAnswered
<1>6. /\ phase' = "asr" /\ pending' = Batches /\ submitted' = {} /\ batch' = {}
      /\ tokens' = [i \in Items |-> {}] /\ status' = [i \in Items |-> FirstStatus(i)]
    BY <1>5 DEF Admit
<1>7. \A i \in Items : Eligible(i) => Waits(i)'
    BY <1>4, <1>6 DEF Waits
<1> QED BY <1>2, <1>4, <1>6, <1>7 DEF AsrInv, Before

LEMMA PlanningKeeps == SInv /\ Planning => AsrInv'
<1> SUFFICES ASSUME SInv, Planning PROVE AsrInv'
    OBVIOUS
<1>1. phase = "merge" /\ phase' \in {"merge", "planned"} /\ tokens' = tokens
      /\ pending' = pending /\ submitted' = submitted /\ batch' = batch
    BY DEF Planning, PlanNext, RemoveBoundary, EmitSections
<1> QED BY <1>1 DEF SInv, AsrInv, Before, AllAnswered

\* Tracks are unchanged but for one section, or for those of a batch.
LEMMA StepKeeps == SInv /\ AsrNext => AsrInv'
<1> SUFFICES ASSUME SInv, AsrNext PROVE AsrInv'
    OBVIOUS
<1> USE DEF SInv
<1>1. CASE Planning
    BY <1>1, PlanningKeeps
<1>2. CASE Start
    BY <1>2, AdmitKeeps DEF Start, Before
<1>3. CASE RunAgain
    <2>1. CASE Admit
        BY <1>3, <2>1, AdmitKeeps DEF RunAgain
    <2>2. CASE UNCHANGED asrVars
        <3>1. SameTrack
            BY <2>2 DEF asrVars, SameTrack
        <3> QED BY <2>2, <3>1, SameHearing DEF asrVars, AsrInv, Before, AllAnswered, Waits, Answered
    <2> QED BY <1>3, <2>1, <2>2 DEF RunAgain
<1>a. ASSUME ~Before
      PROVE  /\ DOMAIN tokens = Items /\ DOMAIN status = Items
             /\ pending \in Seq(SUBSET Items) /\ submitted \subseteq Items /\ batch \subseteq Items
    BY <1>a DEF AsrInv
<1>b. Before \/ phase = "done" => pending = <<>> /\ submitted = {} /\ batch = {}
    BY DEF AsrInv, AllAnswered
<1>c. phase \notin {"merge", "planned", "done"} => phase = "asr" /\ ~Before
    BY DEF AsrInv, Before
<1>4. CASE Submit
    <2>1. /\ phase = "asr" /\ phase' = "asr" /\ ~Before /\ ~Before' /\ SameTrack
          /\ pending # <<>> /\ submitted = {} /\ submitted' = Head(pending) /\ pending' = Tail(pending)
          /\ batch' = batch /\ status' = status /\ tokens' = tokens
        BY <1>4 DEF Submit, MaySubmit, SameTrack, Before
    <2>2. Head(pending) \in SUBSET Items /\ Tail(pending) \in Seq(SUBSET Items)
        BY <1>a, <2>1, HeadTailProperties
    <2>3. \A i \in Items : InSome(i, pending) => i \in Head(pending) \/ InSome(i, Tail(pending))
        <3> TAKE i \in Items
        <3> HAVE InSome(i, pending)
        <3>1. PICK n \in 1..Len(pending) : i \in pending[n]
            BY DEF InSome
        <3>2. /\ Len(Tail(pending)) = Len(pending) - 1 /\ Head(pending) = pending[1]
              /\ \A k \in 1..Len(Tail(pending)) : Tail(pending)[k] = pending[k + 1]
              /\ Len(pending) \in Nat
            BY <1>a, <2>1, HeadTailProperties, LenProperties
        <3>3. CASE n = 1
            BY <3>1, <3>2, <3>3
        <3>4. CASE n # 1
            <4>1. n - 1 \in 1..Len(Tail(pending)) /\ n - 1 + 1 = n
                BY <3>2, <3>4
            <4>2. Tail(pending)[n - 1] = pending[n]
                BY <3>2, <4>1
            <4> QED BY <3>1, <4>1, <4>2 DEF InSome
        <3> QED BY <3>3, <3>4
    <2>4. \A i \in Items : Waits(i) => Waits(i)'
        BY <2>1, <2>3 DEF Waits
    <2> QED BY <1>a, <2>1, <2>2, <2>4, TranscriptionKeeps
<1>5. CASE Gather
    <2>1. /\ phase = "asr" /\ phase' = "asr" /\ ~Before /\ ~Before' /\ SameTrack
        BY <1>5, <1>b, <1>c DEF Gather, SameTrack, Before
    <2>2. /\ batch = {} /\ batch' \subseteq submitted /\ submitted' = {} /\ pending' = pending
          /\ tokens' = tokens
          /\ status' = [i \in Items |-> IF i \in submitted \ batch' THEN "decode_error" ELSE status[i]]
        BY <1>5 DEF Gather
    <2>3. \A i \in Items : Waits(i) => Waits(i)' \/ status'[i] \in Bad
        BY <2>2 DEF Waits, Bad
    <2>4. \A i \in Items : status'[i] = status[i] \/ status'[i] \in Bad
        BY <2>2 DEF Bad
    <2> QED BY <1>a, <2>1, <2>2, <2>3, <2>4, TranscriptionKeeps
<1>6. ASSUME NEW items, items \subseteq batch, items # {}, batch' = batch \ items,
             NEW unaligned, Fill(items, unaligned),
             UNCHANGED <<planVars, phase, contentType, pending, submitted>>
      PROVE  AsrInv'
    <2>1. /\ phase = "asr" /\ phase' = "asr" /\ ~Before /\ ~Before' /\ SameTrack
        BY <1>6, <1>b, <1>c DEF SameTrack, Before
    <2>2. \A i \in Items : i \notin items => status'[i] = status[i] /\ tokens'[i] = tokens[i]
        BY <1>6 DEF Fill
    <2>3. \A i \in Items : i \in items =>
              \/ status'[i] \in Bad /\ tokens'[i] = tokens[i]
              \/ tokens'[i] = Kept(i)
        BY <1>6 DEF Fill, Bad
    <2>4. DOMAIN status' = Items /\ DOMAIN tokens' = Items
        BY <1>6 DEF Fill
    <2>5. \A i \in Items : Waits(i) => Waits(i)' \/ status'[i] \in Bad \/ tokens'[i] = Kept(i)
        BY <1>6, <2>3 DEF Waits
    <2> QED BY <1>6, <1>a, <2>1, <2>2, <2>3, <2>4, <2>5, TranscriptionKeeps
<1>7. ASSUME NEW items, items \subseteq batch, items # {}, batch' = batch \ items,
             DOMAIN status' = Items,
             \A i \in Items : status'[i] = IF i \in items THEN "asr_error" ELSE status[i],
             UNCHANGED <<planVars, phase, contentType, pending, submitted, tokens>>
      PROVE  AsrInv'
    <2>1. /\ phase = "asr" /\ phase' = "asr" /\ ~Before /\ ~Before' /\ SameTrack
        BY <1>7, <1>b, <1>c DEF SameTrack, Before
    <2>2. \A i \in Items : status'[i] = status[i] \/ status'[i] \in Bad
        BY <1>7 DEF Bad
    <2>3. \A i \in Items : Waits(i) => Waits(i)' \/ status'[i] \in Bad
        BY <1>7 DEF Waits, Bad
    <2> QED BY <1>7, <1>a, <2>1, <2>2, <2>3, TranscriptionKeeps
<1>8. CASE TranscribeBatch
    <2>1. PICK unaligned \in Unaligned(batch) : Fill(batch, unaligned)
        BY <1>8 DEF TranscribeBatch
    <2>2. batch # {} /\ batch' = batch \ batch
        BY <1>8 DEF TranscribeBatch
    <2>3. UNCHANGED <<planVars, phase, contentType, pending, submitted>>
        BY <1>8 DEF TranscribeBatch
    <2> QED BY <1>6, <2>1, <2>2, <2>3
<1>9. CASE WrongCardinality
    <2>1. batch # {} /\ batch' = batch \ batch
          /\ status' = [i \in Items |-> IF i \in batch THEN "asr_error" ELSE status[i]]
        BY <1>9 DEF WrongCardinality
    <2>2. UNCHANGED <<planVars, phase, contentType, pending, submitted, tokens>>
        BY <1>9 DEF WrongCardinality
    <2> QED BY <1>7, <2>1, <2>2
<1>10. ASSUME UNCHANGED <<planVars, phase, contentType, pending, submitted, batch, status, tokens>>,
              submitted # {} \/ batch # {}
       PROVE  AsrInv'
    <2>1. /\ phase = "asr" /\ phase' = "asr" /\ ~Before /\ ~Before' /\ SameTrack
        BY <1>10, <1>b, <1>c DEF SameTrack, Before
    <2>2. \A i \in Items : Waits(i) => Waits(i)'
        BY <1>10 DEF Waits
    <2> QED BY <1>10, <1>a, <2>1, <2>2, TranscriptionKeeps
<1>11. CASE BatchRaises
    BY <1>10, <1>11 DEF BatchRaises
<1>12. ASSUME NEW i \in Items, Decode(i) PROVE AsrInv'
    BY <1>10, <1>12 DEF Decode
<1>13. ASSUME NEW i \in Items, TranscribeOne(i) PROVE AsrInv'
    <2>1. PICK unaligned \in Unaligned({i}) : Fill({i}, unaligned)
        BY <1>13 DEF TranscribeOne
    <2>2. {i} \subseteq batch /\ batch' = batch \ {i}
        BY <1>13 DEF TranscribeOne, AfterOne
    <2>3. UNCHANGED <<planVars, phase, contentType, pending, submitted>>
        BY <1>13 DEF TranscribeOne
    <2> QED BY <1>6, <2>1, <2>2, <2>3
<1>14. ASSUME NEW i \in Items, OneRaises(i) PROVE AsrInv'
    <2>1. {i} \subseteq batch /\ batch' = batch \ {i}
        BY <1>14 DEF OneRaises, AfterOne
    <2>2. UNCHANGED <<planVars, phase, contentType, pending, submitted, tokens>>
        BY <1>14 DEF OneRaises
    <2>3. DOMAIN status = Items
        BY <1>a, <1>b, <1>c, <2>1
    <2>4. /\ DOMAIN status' = Items
          /\ \A j \in Items : status'[j] = IF j \in {i} THEN "asr_error" ELSE status[j]
        BY <1>14, <2>3 DEF OneRaises
    <2> QED BY <1>7, <2>1, <2>2, <2>4
<1>15. CASE WriteRecord
    <2>1. /\ phase = "asr" /\ phase' = "done" /\ ~Before /\ ~Before' /\ SameTrack /\ AllAnswered
          /\ UNCHANGED <<pending, submitted, batch, status, tokens>>
        BY <1>15 DEF WriteRecord, SameTrack, Before
    <2>2. \A i \in Items : Waits(i) => Waits(i)'
        BY <2>1 DEF Waits
    <2>3. AllAnswered'
        BY <2>1 DEF AllAnswered
    <2> QED BY <1>a, <2>1, <2>2, <2>3, TranscriptionKeeps
<1> QED BY <1>1, <1>2, <1>3, <1>4, <1>5, <1>8, <1>9, <1>11, <1>12, <1>13, <1>14, <1>15 DEF AsrNext

(* The sections lie apart in the track, so their cores do too. *)

LEMMA SectionsApart ==
    ASSUME PlanInv
    PROVE  /\ \A i \in Items : /\ sections[i].start \in Int /\ sections[i].end \in Int
                               /\ 0 <= sections[i].start /\ sections[i].start < sections[i].end
                               /\ sections[i].end <= Total
           /\ \A i, j \in Items : i < j => sections[i].end <= sections[j].start
           /\ Items \subseteq Nat
<1>1. CASE sections = <<>>
    <2>1. Items = {}
        BY <1>1 DEF Items
    <2> QED BY <2>1
<1>2. CASE sections # <<>>
    <2> DEFINE n == Len(sections)
               from(i) == sections[i].start
               to(i) == sections[i].end
    <2>1. /\ sections \in Seq(Piece) /\ sections[1].start = 0 /\ Last(sections).end = Total
          /\ \A i \in DOMAIN sections : GoodSection(sections, i)
        BY <1>2 DEF PlanInv, GoodSections
    <2>2. n \in Nat \ {0} /\ Items = 1..n /\ DOMAIN sections = 1..n
        BY <1>2, <2>1, LenProperties, EmptySeq DEF Items
    <2>3. \A i \in 1..n : from(i) \in Int /\ to(i) \in Int
        <3>1. \A i \in 1..n : sections[i] \in Piece
            BY <2>1, ElementOfSeq
        <3> QED BY <3>1 DEF Piece
    <2>4. from(1) = 0 /\ to(n) = Total
        BY <2>1 DEF Last
    <2>5. \A i \in 1..n : /\ from(i) < to(i)
                          /\ i > 1 => to(i - 1) = from(i)
        BY <2>1, <2>2 DEF GoodSection
    <2> HIDE DEF n, from, to
    <2>6. ASSUME NEW i \in 1..n PROVE \A j \in 1..n : i < j => to(i) <= from(j)
        <3> DEFINE P == {j \in 0..n : i < j => to(i) <= from(j)}
        <3>1. 0 \in P
            BY <2>2
        <3>2. ASSUME NEW j \in 1..n, j - 1 \in P PROVE j \in P
            <4>1. CASE i < j
                <5>1. j > 1 /\ j - 1 \in 1..n /\ j \in 0..n /\ (i = j - 1 \/ i < j - 1)
                    BY <2>2, <4>1
                <5>2. to(j - 1) = from(j) /\ from(j - 1) < to(j - 1)
                    BY <2>5, <5>1
                <5>3. i < j - 1 => to(i) <= from(j - 1)
                    BY <3>2
                <5> QED BY <2>3, <5>1, <5>2, <5>3
            <4>2. CASE ~(i < j)
                BY <2>2, <4>2
            <4> QED BY <4>1, <4>2
        <3> HIDE DEF P
        <3>3. \A j \in 0..n : j \in P
            BY <2>2, <3>1, <3>2, NumbersUpTo
        <3> QED BY <2>2, <3>3 DEF P
    <2>7. ASSUME NEW i \in 1..n PROVE 0 <= from(i) /\ to(i) <= Total
        <3>1. 1 \in 1..n /\ n \in 1..n
            BY <2>2
        <3>2. 0 <= from(i)
            <4>1. i = 1 \/ 1 < i
                BY <2>2
            <4>2. 1 < i => to(1) <= from(i)
                BY <2>6, <3>1
            <4> QED BY <2>3, <2>4, <2>5, <3>1, <4>1, <4>2
        <3>3. to(i) <= Total
            <4>1. i = n \/ i < n
                BY <2>2
            <4>2. i < n => to(i) <= from(n)
                BY <2>6, <3>1
            <4> QED BY <2>3, <2>4, <2>5, <3>1, <4>1, <4>2
        <3> QED BY <3>2, <3>3
    <2> QED BY <2>2, <2>3, <2>5, <2>6, <2>7 DEF from, to
<1> QED BY <1>1, <1>2

\* What is left of a section's words is exactly its own: the padding is taken off as it
\* was put on, also where the track had none to give.
LEMMA KeptIs ==
    ASSUME PlanInv, NEW i \in Items
    PROVE  Kept(i) = {w \in input.words : Core(i, w)}
<1> DEFINE from == DecodedStart(i)
           to == DecodedEnd(i)
<1>1. /\ sections[i].start \in Int /\ sections[i].end \in Int
      /\ 0 <= sections[i].start /\ sections[i].end <= Total
    BY SectionsApart
<1>2. Total \in Nat /\ input.words \subseteq Int /\ Padding \in Nat
    BY InputIs, SectionAsrAssumption DEF PlanInv, SectionAsrAssumption
<1>3. from \in Int /\ from <= sections[i].start /\ to \in Int /\ sections[i].end <= to
    BY <1>1, <1>2 DEF DecodedStart, DecodedEnd
<1> HIDE DEF from, to
<1>4. Heard(i) = {w - from : w \in {v \in input.words : from <= v /\ v < to}}
    BY DEF Heard, from, to
<1>5. \A h : TrackTime(i, h) = from + h
    BY DEF TrackTime, from
<1>6. ASSUME NEW t \in Kept(i) PROVE t \in input.words /\ Core(i, t)
    <2>1. PICK h \in Heard(i) : t = from + h /\ Core(i, t)
        BY <1>5 DEF Kept
    <2>2. PICK w \in input.words : h = w - from
        BY <1>4
    <2>3. t = w
        BY <1>2, <1>3, <2>1, <2>2
    <2> QED BY <2>1, <2>3
<1>7. ASSUME NEW w \in input.words, Core(i, w) PROVE w \in Kept(i)
    <2>1. w \in Int /\ sections[i].start <= w /\ w < sections[i].end
        BY <1>2, <1>7 DEF Core
    <2>2. from <= w /\ w < to
        BY <1>1, <1>3, <2>1
    <2>3. w - from \in Heard(i)
        BY <1>4, <2>2
    <2>4. from + (w - from) = w
        BY <1>3, <2>1
    <2> QED BY <1>5, <1>7, <2>3, <2>4 DEF Kept
<1> QED BY <1>6, <1>7

LEMMA WordsAreOwn == SInv => WordsOnce
<1> SUFFICES ASSUME SInv PROVE WordsOnce
    OBVIOUS
<1> USE DEF SInv
<1>1. \A i \in Items : Kept(i) = {w \in input.words : Core(i, w)}
    BY KeptIs
<1>2. CASE Before
    <2>1. tokens = <<>> /\ phase # "done"
        BY <1>2 DEF AsrInv, Before
    <2>2. DOMAIN tokens = {}
        BY <2>1
    <2> QED BY <2>1, <2>2 DEF WordsOnce
<1>3. CASE ~Before
    <2>1. DOMAIN tokens = Items /\ \A i \in Items : tokens[i] = {} \/ tokens[i] = Kept(i)
        BY <1>3 DEF AsrInv
    <2>2. \A i \in Items : tokens[i] \subseteq input.words /\ \A t \in tokens[i] : Core(i, t)
        BY <1>1, <2>1
    <2>3. ASSUME NEW i \in Items, NEW j \in Items, NEW t \in tokens[i], t \in tokens[j]
          PROVE  i = j
        <3>1. /\ sections[i].start <= t /\ t < sections[i].end
              /\ sections[j].start <= t /\ t < sections[j].end
            BY <2>2, <2>3 DEF Core
        <3>2. t \in Int
            BY <2>2, InputIs DEF PlanInv
        <3>3. /\ i < j => sections[i].end <= sections[j].start
              /\ j < i => sections[j].end <= sections[i].start
              /\ i \in Nat /\ j \in Nat
              /\ {sections[i].start, sections[i].end, sections[j].start, sections[j].end} \subseteq Int
            BY SectionsApart
        <3> QED BY <3>1, <3>2, <3>3
    <2>4. ASSUME phase = "done", RecordOk, NEW i \in Items, Eligible(i)
          PROVE  tokens[i] = {w \in input.words : Core(i, w)}
        <3>1. pending = <<>> /\ submitted = {} /\ batch = {}
            BY <2>4 DEF AsrInv, AllAnswered
        <3>2. ~InSome(i, pending)
            BY <3>1 DEF InSome
        <3>3. Answered(i)
            BY <1>3, <2>4, <3>1, <3>2 DEF AsrInv, Waits
        <3>4. tokens[i] = Kept(i)
            BY <2>4, <3>3 DEF Answered, RecordOk
        <3> QED BY <1>1, <3>4
    <2> QED BY <2>1, <2>2, <2>3, <2>4 DEF WordsOnce
<1> QED BY <1>2, <1>3

\* However the batches fail, are decoded or answered, and however often the file is run
\* again: a word is in the lyrics of at most one section, at its own time, and a record
\* without an error misses no word of a section that was to be transcribed.
THEOREM LyricsAreOwn == AsrSpec => []WordsOnce
<1>1. AsrInit => SInv
    BY InitPlan, InitAsr DEF AsrInit, SInv
<1>2. SInv /\ [AsrNext]_asrVars => SInv'
    <2>1. SInv /\ AsrNext => AsrInv'
        BY StepKeeps
    <2>2. SInv /\ UNCHANGED asrVars => AsrInv'
        <3> SUFFICES ASSUME SInv, UNCHANGED asrVars PROVE AsrInv'
            OBVIOUS
        <3>1. SameTrack
            BY DEF asrVars, SameTrack
        <3> QED BY <3>1, SameHearing DEF SInv, asrVars, AsrInv, Before, AllAnswered, Waits, Answered
    <2> QED BY <2>1, <2>2, PlanStep DEF SInv
<1>3. SInv => WordsOnce
    BY WordsAreOwn
<1> QED BY <1>1, <1>2, <1>3, PTL DEF AsrSpec
=============================================================================
