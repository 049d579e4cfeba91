-------------------------- MODULE HistogramProofs ---------------------------
(***************************************************************************)
(* For any number of observers, scrapers and buckets: a scrape's buckets   *)
(* are cumulative and never go back from one scrape to the next; nothing   *)
(* an observer recorded is lost; and a scrape's sum covers its counts.     *)
(*                                                                         *)
(* A scrape is assembled bucket by bucket, so the first invariant relates  *)
(* the part that has been read to the counters, which only grow, and to    *)
(* the scrape before.  The others are about sums over all observers and    *)
(* all buckets.  What a sum over a finite set adds up to is proved first,  *)
(* by induction over its subsets: ByRemoving.                              *)
(***************************************************************************)
EXTENDS Histogram, FiniteSetTheorems, WellFoundedInduction, TLAPS

(* A set of natural numbers that is not empty has a least element. *)
LEMMA LeastExists ==
  ASSUME NEW S \in SUBSET Nat, S # {}
  PROVE  \E x \in S : \A y \in S : x =< y
<1>1. IsWellFoundedOn(OpToRel(<, Nat), Nat)
  BY NatLessThanWellFounded
<1>2. PICK x \in S : \A y \in S : ~(<<y, x>> \in OpToRel(<, Nat))
  BY <1>1, WFMin
<1>3. \A y \in S : ~(y < x)
  BY <1>2 DEF OpToRel
<1> QED BY <1>3

(* Induction over the subsets of a finite set: what holds of the empty set *)
(* and of a set whenever it holds of all that have one element less.       *)
LEMMA ByRemoving ==
  ASSUME NEW S, IsFiniteSet(S), NEW Q, {} \in Q,
         \A T \in SUBSET S : T # {} /\ (\A x \in T : T \ {x} \in Q) => T \in Q
  PROVE  \A T \in SUBSET S : T \in Q
<1> DEFINE Wrong == {T \in SUBSET S : T \notin Q}
           Sizes == {Cardinality(T) : T \in Wrong}
<1>0. \A T \in SUBSET S : IsFiniteSet(T) /\ Cardinality(T) \in Nat
  BY FS_Subset, FS_CardinalityType
<1> SUFFICES ASSUME Wrong # {} PROVE FALSE
  OBVIOUS
<1>1. Sizes \in SUBSET Nat /\ Sizes # {}
  BY <1>0
<1>2. PICK n \in Sizes : \A m \in Sizes : n =< m
  BY <1>1, LeastExists
<1>3. PICK T \in Wrong : Cardinality(T) = n
  BY <1>2
<1>4. ASSUME NEW x \in T PROVE T \ {x} \in Q
  <2>1. /\ Cardinality(T \ {x}) < Cardinality(T) /\ T \ {x} \in SUBSET S
        /\ Cardinality(T \ {x}) \in Nat /\ Cardinality(T) \in Nat
    BY <1>0, <1>3, <1>4, FS_RemoveElement
  <2>2. T \ {x} \in Wrong => Cardinality(T \ {x}) \in Sizes
    OBVIOUS
  <2>3. ~(T \ {x} \in Wrong)
    BY <1>2, <1>3, <2>1, <2>2
  <2> QED BY <2>1, <2>3
<1> QED BY <1>3, <1>4

(* The element a fold takes out of a set next. *)
Pick(s) == CHOOSE x \in s : TRUE

(* What a fold that adds up computes for each of the subsets it comes by. *)
AddsUp(f, g, s) == g[s] = IF s = {} THEN 0 ELSE f[Pick(s)] + g[s \ {Pick(s)}]

(* The subsets of at most n elements. *)
Smaller(S, n) == {s \in SUBSET S : Cardinality(s) <= n}

(* There is such a function on the small subsets, whatever small is. *)
LEMMA PartialSums ==
  ASSUME NEW S, IsFiniteSet(S), NEW f \in [S -> Int], NEW n \in Nat
  PROVE  \E g \in [Smaller(S, n) -> Int] : \A s \in Smaller(S, n) : AddsUp(f, g, s)
<1> DEFINE Has(k) == \E g \in [Smaller(S, k) -> Int] : \A s \in Smaller(S, k) : AddsUp(f, g, s)
           Wrong == {k \in Nat : ~Has(k)}
<1>0. \A s \in SUBSET S : IsFiniteSet(s) /\ Cardinality(s) \in Nat /\ (Cardinality(s) = 0 <=> s = {})
  BY FS_Subset, FS_CardinalityType, FS_EmptySet
<1>1. \A s \in SUBSET S : s # {} =>
        /\ Pick(s) \in s /\ s \ {Pick(s)} \in SUBSET S
        /\ Cardinality(s \ {Pick(s)}) = Cardinality(s) - 1
  BY <1>0, FS_RemoveElement DEF Pick
<1> SUFFICES ASSUME ~Has(n) PROVE FALSE
  OBVIOUS
<1>2. PICK k \in Wrong : \A m \in Wrong : k <= m
  <2> HIDE DEF Has
  <2> QED BY LeastExists
<1>3. CASE k = 0
  <2> DEFINE g == [s \in Smaller(S, 0) |-> 0]
  <2>1. \A s \in Smaller(S, 0) : s = {}
    BY <1>0 DEF Smaller
  <2>2. g \in [Smaller(S, 0) -> Int] /\ \A s \in Smaller(S, 0) : AddsUp(f, g, s)
    BY <2>1 DEF AddsUp
  <2> QED BY <1>2, <1>3, <2>2
<1>4. CASE k # 0
  <2>1. k - 1 \in Nat /\ Has(k - 1)
    <3> HIDE DEF Has
    <3> QED BY <1>2, <1>4
  <2>2. PICK g \in [Smaller(S, k - 1) -> Int] : \A s \in Smaller(S, k - 1) : AddsUp(f, g, s)
    BY <2>1
  <2> DEFINE h == [s \in Smaller(S, k) |-> IF s = {} THEN 0 ELSE f[Pick(s)] + g[s \ {Pick(s)}]]
  <2>3. \A s \in Smaller(S, k) : s # {} =>
          s \ {Pick(s)} \in Smaller(S, k - 1) /\ Pick(s) \in S /\ s \ {Pick(s)} \in Smaller(S, k)
    BY <1>0, <1>1, <1>2, <2>1 DEF Smaller
  <2>4. h \in [Smaller(S, k) -> Int]
    BY <2>3
  <2>5. \A s \in Smaller(S, k - 1) : s \in Smaller(S, k) /\ h[s] = g[s]
    BY <1>0, <1>2, <2>1, <2>2 DEF Smaller, AddsUp
  <2>6. \A s \in Smaller(S, k) : AddsUp(f, h, s)
    BY <2>3, <2>5 DEF AddsUp
  <2> QED BY <1>2, <2>4, <2>6
<1> QED BY <1>3, <1>4

(* The sum is that of one function on all subsets, from which any element  *)
(* can be taken out.                                                       *)
Sums(S, f, g) == /\ g \in [SUBSET S -> Int]
                 /\ g[S] = SumFunction(f)
                 /\ g[{}] = 0
                 /\ \A s \in SUBSET S : \A x \in s : g[s] = f[x] + g[s \ {x}]

(* There is one, and the fold of SumFunction computes it. *)
LEMMA SumOfAny ==
  ASSUME NEW S, IsFiniteSet(S), NEW f \in [S -> Int]
  PROVE  \E g : Sums(S, f, g)
<1> DEFINE Rec(h) == h = [s \in SUBSET S |-> IF s = {} THEN 0 ELSE f[Pick(s)] + h[s \ {Pick(s)}]]
<1>0. DOMAIN f = S
  OBVIOUS
<1>1. SumFunction(f) = (CHOOSE h : Rec(h))[S]
  <2>1. SumFunctionOnSet(f, S) = (CHOOSE h : Rec(h))[S]
    BY Zenon DEF SumFunctionOnSet, FoldFunctionOnSet, MapThenFoldSet, Pick
  <2> QED BY <1>0, <2>1, Zenon DEF SumFunction
<1>2. \A s \in SUBSET S : IsFiniteSet(s) /\ Cardinality(s) \in Nat /\ Cardinality(s) <= Cardinality(S)
  BY FS_Subset, FS_CardinalityType
<1>3. Smaller(S, Cardinality(S)) = SUBSET S
  BY <1>2 DEF Smaller
<1>4. PICK g \in [SUBSET S -> Int] : \A s \in SUBSET S : AddsUp(f, g, s)
  BY <1>2, <1>3, PartialSums
<1>5. Rec(g)
  BY <1>4 DEF AddsUp
<1>6. Rec(CHOOSE h : Rec(h))
  BY <1>5
<1> DEFINE h == CHOOSE h : Rec(h)
<1>7. \A s \in SUBSET S : AddsUp(f, h, s)
  BY <1>6 DEF AddsUp
<1> HIDE DEF h
<1> DEFINE Same == {s \in SUBSET S : h[s] = g[s]}
<1>8. \A s \in SUBSET S : s \in Same
  <2>1. {} \in Same
    BY <1>4, <1>7 DEF AddsUp
  <2>2. ASSUME NEW s \in SUBSET S, s # {}, \A x \in s : s \ {x} \in Same PROVE s \in Same
    <3>1. Pick(s) \in s
      BY <2>2 DEF Pick
    <3>2. h[s \ {Pick(s)}] = g[s \ {Pick(s)}]
      BY <2>2, <3>1
    <3> QED BY <1>4, <1>7, <2>2, <3>2 DEF AddsUp
  <2> HIDE DEF Same
  <2> QED BY <2>1, <2>2, ByRemoving
<1>9. h[S] = g[S]
  BY <1>8
<1>10. g[{}] = 0
  BY <1>4 DEF AddsUp
<1> DEFINE Any == {s \in SUBSET S : \A x \in s : g[s] = f[x] + g[s \ {x}]}
<1>11. \A s \in SUBSET S : s \in Any
  <2>1. {} \in Any
    OBVIOUS
  <2>2. ASSUME NEW s \in SUBSET S, s # {}, \A x \in s : s \ {x} \in Any PROVE s \in Any
    <3> SUFFICES ASSUME NEW x \in s PROVE g[s] = f[x] + g[s \ {x}]
      OBVIOUS
    <3> DEFINE y == Pick(s)
    <3>1. y \in s /\ g[s] = f[y] + g[s \ {y}]
      BY <1>4, <2>2 DEF AddsUp, Pick
    <3> HIDE DEF y
    <3>2. CASE x = y
      BY <3>1, <3>2
    <3>3. CASE x # y
      <4>1. g[s \ {y}] = f[x] + g[(s \ {y}) \ {x}]
        BY <2>2, <3>1, <3>3
      <4>2. g[s \ {x}] = f[y] + g[(s \ {x}) \ {y}]
        BY <2>2, <3>1, <3>3
      <4>3. (s \ {x}) \ {y} = (s \ {y}) \ {x} /\ (s \ {x}) \ {y} \in SUBSET S
        OBVIOUS
      <4>5. g[(s \ {x}) \ {y}] = g[(s \ {y}) \ {x}]
        BY <4>3
      <4>4. f[x] \in Int /\ f[y] \in Int /\ g[(s \ {x}) \ {y}] \in Int
        BY <3>1, <4>3
      <4> HIDE DEF Any
      <4> QED BY <3>1, <4>1, <4>2, <4>4, <4>5
    <3> QED BY <3>2, <3>3
  <2> HIDE DEF Any
  <2> QED BY <2>1, <2>2, ByRemoving
<1>12. Sums(S, f, g)
  BY <1>1, <1>9, <1>10, <1>11 DEF h, Sums
<1> QED BY <1>12

(* The sum over a finite set is a number ...                               *)
LEMMA SumType ==
  ASSUME NEW S, IsFiniteSet(S), NEW f \in [S -> Int]
  PROVE  SumFunction(f) \in Int
<1>1. PICK F : Sums(S, f, F)
  BY SumOfAny, Zenon
<1> QED BY <1>1 DEF Sums

(* ... it grows with its addends ...                                       *)
LEMMA SumGrows ==
  ASSUME NEW S, IsFiniteSet(S), NEW f \in [S -> Int], NEW g \in [S -> Int],
         \A x \in S : f[x] <= g[x]
  PROVE  SumFunction(f) <= SumFunction(g)
<1>1. PICK F : Sums(S, f, F)
  BY SumOfAny, Zenon
<1>2. PICK G : Sums(S, g, G)
  BY SumOfAny, Zenon
<1> DEFINE Q == {s \in SUBSET S : F[s] <= G[s]}
<1>3. {} \in Q
  BY <1>1, <1>2 DEF Sums
<1>4. ASSUME NEW s \in SUBSET S, s # {}, \A x \in s : s \ {x} \in Q PROVE s \in Q
  <2>1. PICK x \in s : TRUE
    BY <1>4
  <2>2. F[s] = f[x] + F[s \ {x}] /\ G[s] = g[x] + G[s \ {x}] /\ F[s \ {x}] <= G[s \ {x}] /\ f[x] <= g[x]
    BY <1>1, <1>2, <1>4, <2>1 DEF Sums
  <2>3. /\ F[s] \in Int /\ G[s] \in Int /\ f[x] \in Int /\ g[x] \in Int
        /\ F[s \ {x}] \in Int /\ G[s \ {x}] \in Int
    BY <1>1, <1>2, <1>4, <2>1 DEF Sums
  <2> QED BY <2>2, <2>3
<1>5. S \in Q
  <2> HIDE DEF Q
  <2> QED BY <1>3, <1>4, ByRemoving
<1> QED BY <1>1, <1>2, <1>5 DEF Sums

(* ... adding two functions adds their sums ...                            *)
LEMMA SumPlus ==
  ASSUME NEW S, IsFiniteSet(S), NEW f \in [S -> Int], NEW g \in [S -> Int], NEW h \in [S -> Int],
         \A x \in S : h[x] = f[x] + g[x]
  PROVE  SumFunction(h) = SumFunction(f) + SumFunction(g)
<1>1. PICK F : Sums(S, f, F)
  BY SumOfAny, Zenon
<1>2. PICK G : Sums(S, g, G)
  BY SumOfAny, Zenon
<1>3. PICK H : Sums(S, h, H)
  BY SumOfAny, Zenon
<1> DEFINE Q == {s \in SUBSET S : H[s] = F[s] + G[s]}
<1>4. {} \in Q
  BY <1>1, <1>2, <1>3 DEF Sums
<1>5. ASSUME NEW s \in SUBSET S, s # {}, \A x \in s : s \ {x} \in Q PROVE s \in Q
  <2>1. PICK x \in s : TRUE
    BY <1>5
  <2>2. /\ F[s] = f[x] + F[s \ {x}] /\ G[s] = g[x] + G[s \ {x}] /\ H[s] = h[x] + H[s \ {x}]
        /\ H[s \ {x}] = F[s \ {x}] + G[s \ {x}] /\ h[x] = f[x] + g[x]
    BY <1>1, <1>2, <1>3, <1>5, <2>1 DEF Sums
  <2>3. /\ f[x] \in Int /\ g[x] \in Int /\ F[s \ {x}] \in Int /\ G[s \ {x}] \in Int
    BY <1>1, <1>2, <1>5, <2>1 DEF Sums
  <2> QED BY <2>2, <2>3
<1>6. S \in Q
  <2> HIDE DEF Q
  <2> QED BY <1>4, <1>5, ByRemoving
<1> QED BY <1>1, <1>2, <1>3, <1>6 DEF Sums

(* ... it is 0 if there is nothing to add up ...                           *)
LEMMA SumOfNothing ==
  ASSUME NEW S, IsFiniteSet(S), NEW f \in [S -> Int], \A x \in S : f[x] = 0
  PROVE  SumFunction(f) = 0
<1>1. SumFunction(f) \in Int
  BY SumType
<1>2. \A x \in S : f[x] = f[x] + f[x]
  OBVIOUS
<1>3. SumFunction(f) = SumFunction(f) + SumFunction(f)
  BY <1>2, SumPlus, Zenon
<1>4. PICK n \in Int : n = SumFunction(f)
  BY <1>1
<1>5. n = n + n
  BY <1>3, <1>4
<1>6. n = 0
  BY <1>5
<1> QED BY <1>4, <1>6

(* ... and it changes by as much as the one addend that changes.           *)
LEMMA SumChanges ==
  ASSUME NEW S, IsFiniteSet(S), NEW f \in [S -> Int], NEW g \in [S -> Int], NEW x \in S,
         \A y \in S : y # x => g[y] = f[y]
  PROVE  SumFunction(g) = SumFunction(f) + g[x] - f[x]
<1> DEFINE d == [y \in S |-> IF y = x THEN g[x] - f[x] ELSE 0]
<1>1. d \in [S -> Int] /\ \A y \in S : g[y] = f[y] + d[y]
  OBVIOUS
<1>2. SumFunction(d) = g[x] - f[x]
  <2>1. PICK D : Sums(S, d, D)
    BY <1>1, SumOfAny, Zenon
  <2> DEFINE Q == {s \in SUBSET S : x \in s \/ D[s] = 0}
  <2>2. {} \in Q
    BY <2>1 DEF Sums
  <2>3. ASSUME NEW s \in SUBSET S, s # {}, \A y \in s : s \ {y} \in Q PROVE s \in Q
    <3> SUFFICES ASSUME x \notin s PROVE D[s] = 0
      OBVIOUS
    <3>1. PICK y \in s : TRUE
      BY <2>3
    <3>2. D[s] = d[y] + D[s \ {y}] /\ d[y] = 0 /\ D[s \ {y}] = 0
      BY <2>1, <2>3, <3>1 DEF Sums
    <3> QED BY <3>2
  <2>4. S \ {x} \in Q
    <3> HIDE DEF Q
    <3>1. \A s \in SUBSET S : s \in Q
      BY <2>2, <2>3, ByRemoving
    <3> QED BY <3>1
  <2>5. D[S] = d[x] + D[S \ {x}] /\ D[S \ {x}] = 0 /\ d[x] = g[x] - f[x]
    BY <2>1, <2>4 DEF Sums
  <2>6. g[x] - f[x] \in Int
    OBVIOUS
  <2> HIDE DEF d
  <2> QED BY <2>1, <2>5, <2>6 DEF Sums
<1>3. SumFunction(g) = SumFunction(f) + SumFunction(d)
  <2> HIDE DEF d
  <2> QED BY <1>1, SumPlus
<1> HIDE DEF d
<1> QED BY <1>2, <1>3, SumType

------------------------------------------------------------------------------

(* What the last scrape says of a bucket is no more than is in it now ...  *)
ScrapedBefore ==
  \A s \in Scrapers : \A i \in Buckets : Own(scraped[s].bucket, i) \in 0..counts[i]

(* ... and the scrape in progress has read no less than the one before.    *)
ReadSoFar ==
  \A s \in Scrapers : \A i \in Buckets : i < reading[s] =>
    /\ Own(cumulative[s], i) \in 0..counts[i]
    /\ cumulative[s][i] >= scraped[s].bucket[i]

IInv == TypeOK /\ ScrapedBefore /\ ReadSoFar

(* The search of Observe ends at a bucket: beyond the last boundary there  *)
(* is the one up to infinity.                                              *)
LEMMA BucketFound == ASSUME NEW v \in Int PROVE BucketIndex(v) \in Buckets
<1> USE HistogramAssumption DEF Buckets, NBuckets
<1> DEFINE S == {i \in 1..Len(Boundaries) : Boundaries[i] >= v} \cup {NBuckets}
<1>1. S \subseteq Buckets /\ S # {} /\ Buckets \subseteq Nat
  OBVIOUS
<1>2. \E x \in S : \A y \in S : x =< y
  BY <1>1, LeastExists
<1>3. Min(S) \in S
  BY <1>2 DEF Min
<1> QED BY <1>1, <1>3 DEF BucketIndex

(* There is a bucket, and buckets are numbered from 1. *)
LEMMA BucketNumbers ==
  /\ NBuckets \in Nat /\ NBuckets >= 1
  /\ Buckets = 1..NBuckets
  BY HistogramAssumption DEF Buckets, NBuckets

(* A batch of the right size has an integer for each bucket. *)
LEMMA BatchFits ==
  ASSUME NEW b \in Batches, ~WrongSize(b)
  PROVE  b.sum \in Int /\ \A i \in Buckets : b.increments[i] \in Int
<1>1. b.sum \in Int /\ b.increments \in Seq(Int)
  BY HistogramAssumption
<1>2. Len(b.increments) = NBuckets
  BY DEF WrongSize
<1> QED BY <1>1, <1>2, BucketNumbers

(* Every step keeps the types. *)
LEMMA TypeStep == ASSUME TypeOK, [Next]_vars PROVE TypeOK'
<1> USE BucketNumbers DEF TypeOK
<1>1. ASSUME NEW t \in Observers, NEW v \in Values, Observe(t, v) PROVE TypeOK'
  <2> USE <1>1 DEF Observe, StartCall, shared, svars
  <2>1. v \in Int /\ BucketIndex(v) \in Buckets /\ MaxCalls \in Nat
    BY BucketFound, HistogramAssumption
  <2>2. asked' \in [bucket : [Buckets -> Nat], sum : Int]
    <3>1. asked.bucket \in [Buckets -> Nat] /\ asked.sum \in Int
      OBVIOUS
    <3>2. [i \in Buckets |-> asked.bucket[i] + IF InBucket(i, v) THEN 1 ELSE 0] \in [Buckets -> Nat]
      <4> HIDE <1>1 DEF TypeOK
      <4>1. \A i \in Buckets : asked.bucket[i] \in Nat
        BY <3>1
      <4> QED BY <4>1
    <3>3. asked.sum + v \in Int
      BY <2>1, <3>1
    <3> QED BY <3>2, <3>3
  <2>3. calls' \in 0..MaxCalls
    BY <2>1
  <2>4. amount' \in [Observers -> Int] /\ increments' \in [Observers -> [Buckets -> Int]]
    <3>1. amount \in [Observers -> Int] /\ amount' = [amount EXCEPT ![t] = v]
      OBVIOUS
    <3>2. /\ increments \in [Observers -> [Buckets -> Int]]
          /\ increments' = [increments EXCEPT ![t] = [i \in Buckets |-> 1]]
      OBVIOUS
    <3> HIDE <1>1 DEF TypeOK
    <3> QED BY <2>1, <3>1, <3>2
  <2>5. next' \in [Observers -> 1..(NBuckets + 1)] /\ last' \in [Observers -> 0..NBuckets]
    <3>1. /\ next \in [Observers -> 1..(NBuckets + 1)] /\ next' = [next EXCEPT ![t] = BucketIndex(v)]
          /\ last \in [Observers -> 0..NBuckets] /\ last' = [last EXCEPT ![t] = BucketIndex(v)]
      OBVIOUS
    <3> HIDE <1>1 DEF TypeOK
    <3> QED BY <2>1, <3>1
  <2>6. toSum' \in [Observers -> BOOLEAN]
    BY Zenon
  <2> QED BY <2>2, <2>3, <2>4, <2>5, <2>6
<1>2. ASSUME NEW t \in Observers, NEW b \in Batches, ObserveMultipleThrows(t, b) PROVE TypeOK'
  <2>1. calls' \in 0..MaxCalls
    BY <1>2, HistogramAssumption DEF ObserveMultipleThrows, StartCall
  <2> QED BY <1>2, <2>1 DEF ObserveMultipleThrows, StartCall, shared, svars
<1>3. ASSUME NEW t \in Observers, NEW b \in Batches, ObserveMultiple(t, b) PROVE TypeOK'
  <2> USE <1>3 DEF ObserveMultiple, StartCall, WrongSize, shared, svars
  <2>1. b.sum \in Int /\ MaxCalls \in Nat /\ \A i \in Buckets : b.increments[i] \in Int
    BY BatchFits, HistogramAssumption
  <2>2. asked' \in [bucket : [Buckets -> Nat], sum : Int]
    <3>1. asked.bucket \in [Buckets -> Nat] /\ asked.sum \in Int
      OBVIOUS
    <3>2. [i \in Buckets |-> asked.bucket[i] + Counted(b.increments[i])] \in [Buckets -> Nat]
      <4> HIDE <1>3 DEF TypeOK
      <4>1. \A i \in Buckets : asked.bucket[i] \in Nat /\ Counted(b.increments[i]) \in Nat
        BY <2>1, <3>1 DEF Counted
      <4> QED BY <4>1
    <3>3. asked.sum + b.sum \in Int
      BY <2>1, <3>1
    <3> QED BY <3>2, <3>3
  <2>3. amount' \in [Observers -> Int] /\ increments' \in [Observers -> [Buckets -> Int]]
    <3>1. amount \in [Observers -> Int] /\ amount' = [amount EXCEPT ![t] = b.sum]
      OBVIOUS
    <3>2. /\ increments \in [Observers -> [Buckets -> Int]]
          /\ increments' = [increments EXCEPT ![t] = [i \in Buckets |-> b.increments[i]]]
      OBVIOUS
    <3> HIDE <1>3 DEF TypeOK
    <3> QED BY <2>1, <3>1, <3>2
  <2>4. calls' \in 0..MaxCalls
    BY <2>1
  <2>5. next' \in [Observers -> 1..(NBuckets + 1)] /\ last' \in [Observers -> 0..NBuckets]
    <3>1. /\ next \in [Observers -> 1..(NBuckets + 1)] /\ next' = [next EXCEPT ![t] = 1]
          /\ last \in [Observers -> 0..NBuckets] /\ last' = [last EXCEPT ![t] = NBuckets]
      OBVIOUS
    <3> HIDE <1>3 DEF TypeOK
    <3> QED BY <3>1
  <2>6. toSum' \in [Observers -> BOOLEAN]
    BY Zenon
  <2> QED BY <2>2, <2>3, <2>4, <2>5, <2>6
<1>4. ASSUME NEW t \in Observers, AddToSum(t) PROVE TypeOK'
  <2>1. toSum' \in [Observers -> BOOLEAN]
    BY <1>4, Zenon DEF AddToSum
  <2>2. sum' \in Int
    BY <1>4 DEF AddToSum
  <2>3. UNCHANGED <<counts, amount, increments, next, last, calls, asked, reading, cumulative, scraped>>
    BY <1>4 DEF AddToSum, svars
  <2> QED BY <2>1, <2>2, <2>3
<1>5. ASSUME NEW t \in Observers, AddToBucket(t) PROVE TypeOK'
  <2>1. next[t] \in Buckets /\ increments[t][next[t]] \in Int
    <3>1. next[t] \in 1..(NBuckets + 1) /\ last[t] \in 0..NBuckets /\ ~(next[t] > last[t])
      BY <1>5 DEF AddToBucket, Idle
    <3>2. increments[t] \in [Buckets -> Int]
      OBVIOUS
    <3> HIDE DEF TypeOK
    <3> QED BY <3>1, <3>2
  <2>2. Accepted(increments[t][next[t]]) \in Nat
    BY <2>1 DEF Accepted
  <2>3. counts' \in [Buckets -> Nat]
    <3>1. counts \in [Buckets -> Nat]
      OBVIOUS
    <3>2. counts' = [counts EXCEPT ![next[t]] = counts[next[t]] + Accepted(increments[t][next[t]])]
      BY <1>5 DEF AddToBucket
    <3> HIDE DEF TypeOK
    <3> QED BY <2>1, <2>2, <3>1, <3>2
  <2>4. next' \in [Observers -> 1..(NBuckets + 1)]
    <3>1. next \in [Observers -> 1..(NBuckets + 1)]
      OBVIOUS
    <3>2. next' = [next EXCEPT ![t] = next[t] + 1]
      BY <1>5 DEF AddToBucket
    <3> HIDE DEF TypeOK
    <3> QED BY <2>1, <3>1, <3>2
  <2>5. UNCHANGED <<sum, amount, toSum, increments, last, calls, asked, reading, cumulative, scraped>>
    BY <1>5 DEF AddToBucket, svars
  <2> QED BY <2>3, <2>4, <2>5
<1>6. ASSUME NEW s \in Scrapers, BeginCollect(s) PROVE TypeOK'
  BY <1>6 DEF BeginCollect, shared, ovars
<1>7. ASSUME NEW s \in Scrapers, ReadBucket(s) PROVE TypeOK'
  <2>1. /\ reading[s] \in Buckets /\ counts[reading[s]] \in Nat
        /\ cumulative \in [Scrapers -> [Buckets -> Nat]]
    BY <1>7 DEF ReadBucket
  <2>2. cumulative' \in [Scrapers -> [Buckets -> Nat]]
    <3>1. cumulative' = [cumulative EXCEPT ![s][reading[s]] =
                           CumulativeBefore(s, reading[s]) + counts[reading[s]]]
      BY <1>7 DEF ReadBucket
    <3> HIDE DEF TypeOK
    <3>2. CumulativeBefore(s, reading[s]) \in Nat
      BY <2>1 DEF CumulativeBefore
    <3> QED BY <2>1, <3>1, <3>2
  <2>3. reading' \in [Scrapers -> 0..(NBuckets + 1)]
    BY <1>7 DEF ReadBucket
  <2>4. UNCHANGED <<counts, sum, amount, toSum, increments, next, last, calls, asked, scraped>>
    BY <1>7 DEF ReadBucket, shared, ovars
  <2> QED BY <2>2, <2>3, <2>4
<1>8. ASSUME NEW s \in Scrapers, ReadSum(s) PROVE TypeOK'
  <2>1. [bucket |-> cumulative[s], sample_sum |-> sum] \in Metrics
    BY DEF Metrics
  <2>2. scraped' \in [Scrapers -> Metrics] /\ reading' \in [Scrapers -> 0..(NBuckets + 1)]
    BY <1>8, <2>1 DEF ReadSum
  <2>3. UNCHANGED <<counts, sum, amount, toSum, increments, next, last, calls, asked, cumulative>>
    BY <1>8 DEF ReadSum, shared, ovars
  <2> QED BY <2>2, <2>3
<1>9. CASE UNCHANGED vars
  BY <1>9 DEF vars, shared, ovars, svars
<1> QED BY <1>1, <1>2, <1>3, <1>4, <1>5, <1>6, <1>7, <1>8, <1>9 DEF Next

(* No bucket ever loses what it counted. *)
LEMMA CountsGrow ==
  ASSUME TypeOK, [Next]_vars
  PROVE  \A i \in Buckets : counts'[i] >= counts[i]
<1> USE DEF TypeOK
<1>1. ASSUME NEW t \in Observers, AddToBucket(t)
      PROVE  \A i \in Buckets : counts'[i] >= counts[i]
  <2>1. next[t] \in Buckets
    BY <1>1, BucketNumbers DEF AddToBucket, Idle
  <2>2. increments[t][next[t]] \in Int /\ Accepted(increments[t][next[t]]) \in Nat
    BY <2>1 DEF Accepted
  <2> QED BY <1>1, <2>1, <2>2 DEF AddToBucket
<1>2. CASE UNCHANGED counts
  BY <1>2
<1> QED BY <1>1, <1>2 DEF Next, Observe, ObserveMultipleThrows, ObserveMultiple, StartCall, AddToSum,
                         BeginCollect, ReadBucket, ReadSum, shared, svars, vars

(* The part of a scrape that has been read stays below the counters. *)
LEMMA ScrapeStep == ASSUME IInv, [Next]_vars PROVE ScrapedBefore' /\ ReadSoFar'
<1> USE BucketNumbers DEF IInv
<1>0. TypeOK' /\ \A i \in Buckets : counts'[i] >= counts[i] /\ counts'[i] \in Nat
  BY TypeStep, CountsGrow DEF TypeOK
<1>1. CASE UNCHANGED svars
  <2>1. UNCHANGED <<reading, cumulative, scraped>>
    BY <1>1 DEF svars
  <2>2. \A i \in Buckets : counts[i] \in Nat
    BY DEF TypeOK
  <2>3. \A s \in Scrapers : \A i \in Buckets : Own(scraped'[s].bucket, i) = Own(scraped[s].bucket, i)
    BY <2>1
  <2>4. \A i \in Buckets : 0..counts[i] \subseteq 0..counts'[i]
    BY <1>0, <2>2
  <2>5. ScrapedBefore'
    BY <2>1, <2>4 DEF ScrapedBefore
  <2>6. ReadSoFar'
    BY <2>1, <2>4 DEF ReadSoFar
  <2> QED BY <2>5, <2>6
<1>2. ASSUME NEW s \in Scrapers, BeginCollect(s) PROVE ScrapedBefore' /\ ReadSoFar'
  <2>1. UNCHANGED <<counts, cumulative, scraped>> /\ reading' = [reading EXCEPT ![s] = 1]
    BY <1>2 DEF BeginCollect, shared
  <2>2. ScrapedBefore'
    BY <2>1 DEF ScrapedBefore, Own
  <2>3. \A u \in Scrapers : \A i \in Buckets : i < reading'[u] => i < reading[u]
    BY <2>1 DEF TypeOK
  <2>4. ReadSoFar'
    BY <2>1, <2>3 DEF ReadSoFar, Own
  <2> QED BY <2>2, <2>4
<1>3. ASSUME NEW s \in Scrapers, ReadBucket(s) PROVE ScrapedBefore' /\ ReadSoFar'
  <2> USE <1>3 DEF ReadBucket, shared
  <2> DEFINE r == reading[s]
  <2>1. /\ r \in Buckets /\ UNCHANGED <<counts, scraped>>
        /\ reading' = [reading EXCEPT ![s] = r + 1]
        /\ cumulative' = [cumulative EXCEPT ![s][r] = CumulativeBefore(s, r) + counts[r]]
    OBVIOUS
  <2>2. ScrapedBefore'
    BY <2>1 DEF ScrapedBefore, Own
  <2>3. ASSUME NEW u \in Scrapers, NEW i \in Buckets, i < reading'[u]
        PROVE  /\ Own(cumulative'[u], i) \in 0..counts'[i]
               /\ cumulative'[u][i] >= scraped'[u].bucket[i]
    <3>1. CASE u # s
      BY <2>1, <2>3, <3>1 DEF ReadSoFar, Own, TypeOK
    <3>2. CASE u = s /\ i < r
      <4>1. /\ cumulative'[s][i] = cumulative[s][i]
            /\ i > 1 => i - 1 \in Buckets /\ cumulative'[s][i - 1] = cumulative[s][i - 1]
        <5>1. cumulative[s] \in [Buckets -> Nat]
          BY DEF TypeOK
        <5>2. cumulative'[s] = [cumulative[s] EXCEPT ![r] = CumulativeBefore(s, r) + counts[r]]
          BY <2>1 DEF TypeOK
        <5>3. i # r /\ i - 1 # r /\ (i > 1 => i - 1 \in Buckets)
          BY <2>1, <3>2
        <5> QED BY <2>1, <5>1, <5>2, <5>3
      <4> QED BY <2>1, <3>2, <4>1 DEF ReadSoFar, Own
    <3>3. CASE u = s /\ i = r
      <4>1. cumulative'[s][r] = CumulativeBefore(s, r) + counts[r]
        BY <2>1 DEF TypeOK
      <4>2. CASE r = 1
        <5>1. cumulative'[s][r] = counts[r] /\ counts[r] \in Nat
          BY <2>1, <4>1, <4>2 DEF CumulativeBefore, TypeOK
        <5>2. scraped[s].bucket[r] \in 0..counts[r]
          <6>1. Own(scraped[s].bucket, r) \in 0..counts[r] /\ scraped[s].bucket[r] \in Nat
            <7>1. scraped[s] \in Metrics
              BY DEF TypeOK
            <7> QED BY <2>1, <7>1 DEF ScrapedBefore, Metrics
          <6>2. Own(scraped[s].bucket, r) = scraped[s].bucket[r] - 0
            BY <4>2 DEF Own
          <6> QED BY <6>1, <6>2
        <5> QED BY <2>1, <3>3, <4>2, <5>1, <5>2 DEF Own
      <4>3. CASE r > 1
        <5>1. r - 1 \in Buckets /\ r - 1 < r /\ r # 1
          BY <2>1, <4>3
        <5>2. cumulative'[s][r - 1] = cumulative[s][r - 1] /\ cumulative[s][r - 1] \in Nat
          <6>1. cumulative[s] \in [Buckets -> Nat]
            BY DEF TypeOK
          <6>2. cumulative'[s] = [cumulative[s] EXCEPT ![r] = CumulativeBefore(s, r) + counts[r]]
            BY <2>1 DEF TypeOK
          <6> QED BY <2>1, <5>1, <6>1, <6>2
        <5>3. cumulative[s][r - 1] >= scraped[s].bucket[r - 1]
          BY <5>1 DEF ReadSoFar
        <5>4. scraped[s].bucket[r] - scraped[s].bucket[r - 1] <= counts[r]
          <6>1. Own(scraped[s].bucket, r) <= counts[r]
            BY <2>1 DEF ScrapedBefore, TypeOK
          <6> QED BY <5>1, <6>1 DEF Own
        <5>5. /\ scraped[s].bucket[r] \in Nat /\ scraped[s].bucket[r - 1] \in Nat
              /\ counts[r] \in Nat
          <6>1. scraped[s] \in Metrics /\ counts[r] \in Nat
            BY <2>1 DEF TypeOK
          <6>2. scraped[s].bucket \in [Buckets -> Nat]
            BY <6>1 DEF Metrics
          <6> QED BY <2>1, <5>1, <6>1, <6>2
        <5>6. cumulative'[s][r] = cumulative[s][r - 1] + counts[r]
          BY <4>1, <5>1 DEF CumulativeBefore
        <5>7. Own(cumulative'[s], r) = cumulative'[s][r] - cumulative'[s][r - 1]
          BY <5>1 DEF Own
        <5>8. Own(cumulative'[s], r) = counts[r]
          BY <5>2, <5>5, <5>6, <5>7
        <5>9. cumulative'[s][r] >= scraped[s].bucket[r]
          <6> HIDE <1>3 DEF ReadBucket, IInv
          <6> QED BY <5>2, <5>3, <5>4, <5>5, <5>6
        <5> QED BY <2>1, <3>3, <5>5, <5>8, <5>9
      <4> QED BY <2>1, <4>2, <4>3
    <3> QED BY <2>1, <2>3, <3>1, <3>2, <3>3 DEF TypeOK
  <2> QED BY <2>2, <2>3 DEF ReadSoFar
<1>4. ASSUME NEW s \in Scrapers, ReadSum(s) PROVE ScrapedBefore' /\ ReadSoFar'
  <2> USE <1>4 DEF ReadSum, shared
  <2>1. /\ UNCHANGED <<counts, cumulative>> /\ reading' = [reading EXCEPT ![s] = 0]
        /\ scraped' = [scraped EXCEPT ![s] = [bucket |-> cumulative[s], sample_sum |-> sum]]
        /\ reading[s] = NBuckets + 1
    OBVIOUS
  <2>2. \A i \in Buckets : Own(cumulative[s], i) \in 0..counts[i]
    BY <2>1 DEF ReadSoFar
  <2>3. scraped'[s].bucket = cumulative[s] /\ \A u \in Scrapers \ {s} : scraped'[u] = scraped[u]
    BY <2>1 DEF TypeOK
  <2>4. ScrapedBefore'
    BY <2>1, <2>2, <2>3 DEF ScrapedBefore
  <2>5. ReadSoFar'
    BY <2>1, <2>3 DEF ReadSoFar, TypeOK
  <2> QED BY <2>4, <2>5
<1> QED BY <1>1, <1>2, <1>3, <1>4 DEF Next, Observe, ObserveMultipleThrows, ObserveMultiple,
                                     StartCall, AddToSum, AddToBucket, vars

(* The types, and how the scrapes stand to the counters. *)
THEOREM HistogramInvariant == Spec => []IInv
<1>1. Init => IInv
  BY BucketNumbers, HistogramAssumption
     DEF Init, IInv, TypeOK, ScrapedBefore, ReadSoFar, Own, Metrics, Zeros
<1>2. IInv /\ [Next]_vars => IInv'
  BY TypeStep, ScrapeStep DEF IInv
<1> QED BY <1>1, <1>2, PTL DEF Spec

(* However many observers move the buckets while a scrape reads them one   *)
(* by one, its counts do not decrease from a bucket to the next.           *)
THEOREM HistogramScrapesIncrease ==
  Spec => [](\A s \in Scrapers : \A i \in Buckets :
               i > 1 => scraped[s].bucket[i - 1] <= scraped[s].bucket[i])
<1>1. IInv => \A s \in Scrapers : \A i \in Buckets :
                i > 1 => scraped[s].bucket[i - 1] <= scraped[s].bucket[i]
  <2> SUFFICES ASSUME IInv, NEW s \in Scrapers, NEW i \in Buckets, i > 1
               PROVE  scraped[s].bucket[i - 1] <= scraped[s].bucket[i]
    OBVIOUS
  <2>1. i # 1 /\ i - 1 \in Buckets
    BY BucketNumbers
  <2>2. scraped[s].bucket[i] \in Nat /\ scraped[s].bucket[i - 1] \in Nat
    BY <2>1 DEF IInv, TypeOK, Metrics
  <2>3. scraped[s].bucket[i] - scraped[s].bucket[i - 1] >= 0
    BY <2>1 DEF IInv, ScrapedBefore, Own, TypeOK
  <2> QED BY <2>2, <2>3
<1> QED BY <1>1, HistogramInvariant, PTL

(* From one scrape to the next no cumulative count goes back. *)
THEOREM HistogramScrapesNeverGoBack == Spec => ScrapesNeverGoBack
<1>1. IInv /\ [Next]_vars => [\A s \in Scrapers : \A i \in Buckets :
                               scraped'[s].bucket[i] >= scraped[s].bucket[i]]_vars
  <2> SUFFICES ASSUME IInv, Next, NEW s \in Scrapers, NEW i \in Buckets
               PROVE  scraped'[s].bucket[i] >= scraped[s].bucket[i]
    OBVIOUS
  <2>1. scraped[s].bucket[i] \in Nat
    BY DEF IInv, TypeOK, Metrics
  <2>2. CASE UNCHANGED scraped
    BY <2>1, <2>2
  <2>3. ASSUME NEW u \in Scrapers, ReadSum(u)
        PROVE  scraped'[s].bucket[i] >= scraped[s].bucket[i]
    <3>1. CASE u = s
      <4>1. scraped'[s].bucket = cumulative[s] /\ i < reading[s]
        BY <2>3, <3>1, BucketNumbers DEF ReadSum, IInv, TypeOK
      <4> QED BY <4>1 DEF IInv, ReadSoFar
    <3>2. CASE u # s
      BY <2>1, <2>3, <3>2 DEF ReadSum, IInv, TypeOK
    <3> QED BY <3>1, <3>2
  <2> QED BY <2>2, <2>3 DEF Next, Observe, ObserveMultipleThrows, ObserveMultiple, StartCall,
                           AddToSum, AddToBucket, BeginCollect, ReadBucket, svars
<1> QED BY <1>1, HistogramInvariant, PTL DEF Spec, ScrapesNeverGoBack

------------------------------------------------------------------------------

(* What all observers together have still to add: NothingLost relates it   *)
(* to the counters.                                                        *)
StillToAdd(i) == SumFunction([t \in Observers |-> ToAdd(t, i)])
StillToAddToSum == SumFunction([t \in Observers |-> ToAddToSum(t)])

(* The sum is added to before the buckets, so a call that has still to add *)
(* to the sum is in progress: no call that starts forgets an addition.     *)
SumFirst == \A t \in Observers : toSum[t] => ~Idle(t)

NInv == TypeOK /\ SumFirst /\ NothingLost

(* The search of Observe and the meaning of the buckets agree. *)
LEMMA BucketIsRight ==
  ASSUME NEW v \in Int, NEW i \in Buckets
  PROVE  InBucket(i, v) <=> i = BucketIndex(v)
<1> USE HistogramAssumption, BucketNumbers DEF NBuckets
<1> DEFINE S == {j \in 1..Len(Boundaries) : Boundaries[j] >= v} \cup {NBuckets}
<1>1. S \subseteq Buckets /\ S # {} /\ Buckets \subseteq Nat
  OBVIOUS
<1>2. \E x \in S : \A y \in S : x =< y
  BY <1>1, LeastExists
<1>3. Min(S) \in S /\ \A y \in S : Min(S) =< y
  BY <1>2 DEF Min
<1> DEFINE m == BucketIndex(v)
<1>4. m \in S /\ \A y \in S : m =< y
  BY <1>3 DEF BucketIndex
<1> HIDE DEF m
<1>5. m \in Buckets /\ m \in Nat /\ Len(Boundaries) \in Nat
  BY <1>1, <1>4
<1>6. \A j \in 1..Len(Boundaries) : Boundaries[j] \in Int
  OBVIOUS
<1>7. ASSUME i = m PROVE InBucket(i, v)
  <2>1. ASSUME i > 1 PROVE Boundaries[i - 1] < v
    <3>1. i - 1 \in 1..Len(Boundaries) /\ i - 1 \notin S
      BY <1>4, <1>5, <1>7, <2>1
    <3> QED BY <1>6, <3>1
  <2>2. ASSUME i < NBuckets PROVE v <= Boundaries[i]
    <3>1. i \in 1..Len(Boundaries) /\ Boundaries[i] >= v
      BY <1>4, <1>5, <1>7, <2>2
    <3> QED BY <1>6, <3>1
  <2> QED BY <2>1, <2>2 DEF InBucket
<1>8. ASSUME InBucket(i, v) PROVE i = m
  <2>1. i \in S
    <3>1. CASE i = NBuckets
      BY <3>1
    <3>2. CASE i < NBuckets
      <4>1. i \in 1..Len(Boundaries) /\ v <= Boundaries[i]
        BY <1>8, <3>2 DEF InBucket
      <4> QED BY <1>6, <4>1
    <3> QED BY <1>5, <3>1, <3>2
  <2>2. m =< i
    BY <1>4, <2>1
  <2>3. ASSUME m < i PROVE FALSE
    <3>1. i - 1 \in 1..Len(Boundaries) /\ m \in 1..Len(Boundaries) /\ m <= i - 1 /\ i > 1
      BY <1>5, <2>3
    <3>2. Boundaries[i - 1] < v /\ Boundaries[m] >= v
      BY <1>4, <1>8, <3>1 DEF InBucket
    <3>3. Boundaries[m] <= Boundaries[i - 1]
      <4>1. CASE m = i - 1
        BY <1>6, <3>1, <4>1
      <4>2. CASE m < i - 1
        BY <3>1, <4>2
      <4> QED BY <3>1, <4>1, <4>2
    <3> QED BY <1>6, <3>1, <3>2, <3>3
  <2> QED BY <1>5, <2>2, <2>3
<1>9. InBucket(i, v) <=> i = m
  BY <1>7, <1>8
<1> QED BY <1>9 DEF m

(* What is still to be added is a number, before a step and after it. *)
LEMMA ToAddTypes ==
  /\ TypeOK => \A t \in Observers :
                 ToAddToSum(t) \in Int /\ \A i \in Buckets : ToAdd(t, i) \in Nat
  /\ TypeOK' => \A t \in Observers :
                  ToAddToSum(t)' \in Int /\ \A i \in Buckets : ToAdd(t, i)' \in Nat
<1>1. ASSUME TypeOK, NEW t \in Observers
      PROVE  ToAddToSum(t) \in Int /\ \A i \in Buckets : ToAdd(t, i) \in Nat
  <2>1. amount[t] \in Int /\ \A i \in Buckets : increments[t][i] \in Int
    BY <1>1 DEF TypeOK
  <2> QED BY <2>1 DEF ToAdd, ToAddToSum, Counted
<1>2. ASSUME TypeOK', NEW t \in Observers
      PROVE  ToAddToSum(t)' \in Int /\ \A i \in Buckets : ToAdd(t, i)' \in Nat
  <2>1. amount'[t] \in Int /\ \A i \in Buckets : increments'[t][i] \in Int
    BY <1>2 DEF TypeOK
  <2> QED BY <2>1 DEF ToAdd, ToAddToSum, Counted
<1> QED BY <1>1, <1>2

(* When one observer moves, the totals change by what that one has left.   *)
LEMMA OneObserverMoves ==
  ASSUME TypeOK, TypeOK', NEW t \in Observers,
         \A u \in Observers \ {t} :
           UNCHANGED <<next[u], last[u], increments[u], amount[u], toSum[u]>>
  PROVE  /\ \A i \in Buckets : /\ StillToAdd(i) \in Int
                               /\ StillToAdd(i)' = StillToAdd(i) + ToAdd(t, i)' - ToAdd(t, i)
         /\ StillToAddToSum \in Int
         /\ StillToAddToSum' = StillToAddToSum + ToAddToSum(t)' - ToAddToSum(t)
<1>0. IsFiniteSet(Observers)
  BY HistogramAssumption
<1>1. ASSUME NEW i \in Buckets
      PROVE  /\ StillToAdd(i) \in Int
             /\ StillToAdd(i)' = StillToAdd(i) + ToAdd(t, i)' - ToAdd(t, i)
  <2> DEFINE f == [u \in Observers |-> ToAdd(u, i)]
             g == [u \in Observers |-> ToAdd(u, i)']
  <2>1. f \in [Observers -> Int] /\ g \in [Observers -> Int]
    BY ToAddTypes
  <2>2. \A u \in Observers : u # t => g[u] = f[u]
    <3>1. \A u \in Observers \ {t} : ToAdd(u, i)' = ToAdd(u, i)
      BY Zenon DEF ToAdd
    <3> QED BY <3>1
  <2>3. f[t] = ToAdd(t, i) /\ g[t] = ToAdd(t, i)'
    OBVIOUS
  <2>4. StillToAdd(i) = SumFunction(f) /\ StillToAdd(i)' = SumFunction(g)
    BY DEF StillToAdd
  <2> HIDE DEF f, g
  <2>5. SumFunction(g) = SumFunction(f) + g[t] - f[t] /\ SumFunction(f) \in Int
    BY <1>0, <2>1, <2>2, SumChanges, SumType
  <2> QED BY <2>3, <2>4, <2>5
<1>2. /\ StillToAddToSum \in Int
      /\ StillToAddToSum' = StillToAddToSum + ToAddToSum(t)' - ToAddToSum(t)
  <2> DEFINE f == [u \in Observers |-> ToAddToSum(u)]
             g == [u \in Observers |-> ToAddToSum(u)']
  <2>1. f \in [Observers -> Int] /\ g \in [Observers -> Int]
    BY ToAddTypes
  <2>2. \A u \in Observers : u # t => g[u] = f[u]
    <3>1. \A u \in Observers \ {t} : ToAddToSum(u)' = ToAddToSum(u)
      BY Zenon DEF ToAddToSum
    <3> QED BY <3>1
  <2>3. f[t] = ToAddToSum(t) /\ g[t] = ToAddToSum(t)'
    OBVIOUS
  <2>4. StillToAddToSum = SumFunction(f) /\ StillToAddToSum' = SumFunction(g)
    BY DEF StillToAddToSum
  <2> HIDE DEF f, g
  <2>5. SumFunction(g) = SumFunction(f) + g[t] - f[t] /\ SumFunction(f) \in Int
    BY <1>0, <2>1, <2>2, SumChanges, SumType
  <2> QED BY <2>3, <2>4, <2>5
<1> QED BY <1>1, <1>2

(* An idle observer has nothing left to add. *)
LEMMA IdleOwesNothing ==
  ASSUME TypeOK, NEW t \in Observers, Idle(t)
  PROVE  \A i \in Buckets : ToAdd(t, i) = 0
<1>1. next[t] \in Int /\ last[t] \in Int /\ next[t] > last[t]
  BY BucketNumbers DEF TypeOK, Idle
<1>2. next[t]..last[t] = {}
  BY <1>1
<1> QED BY <1>2 DEF ToAdd

(* What the call that t starts has to add: n[i] to each bucket i, v to the *)
(* sum.  If that is also what it is asked to record, nothing is lost.      *)
LEMMA CallStarts ==
  ASSUME NInv, TypeOK', NEW t \in Observers, NEW n \in [Buckets -> Nat], NEW v \in Int,
         StartCall(t),
         \A u \in Observers \ {t} :
           UNCHANGED <<next[u], last[u], increments[u], amount[u], toSum[u]>>,
         \A i \in Buckets : ToAdd(t, i)' = n[i] /\ asked'.bucket[i] = asked.bucket[i] + n[i],
         ToAddToSum(t)' = v, asked'.sum = asked.sum + v
  PROVE  NothingLost'
<1> USE DEF NInv
<1>1. UNCHANGED <<counts, sum>> /\ Idle(t)
  BY DEF StartCall, shared
<1>2. ToAddToSum(t) = 0 /\ \A i \in Buckets : ToAdd(t, i) = 0
  BY <1>1, IdleOwesNothing DEF SumFirst, ToAddToSum
<1>3. /\ \A i \in Buckets : /\ StillToAdd(i) \in Int
                            /\ StillToAdd(i)' = StillToAdd(i) + ToAdd(t, i)' - ToAdd(t, i)
      /\ StillToAddToSum \in Int
      /\ StillToAddToSum' = StillToAddToSum + ToAddToSum(t)' - ToAddToSum(t)
  <2> HIDE DEF NInv
  <2>1. TypeOK
    BY DEF NInv
  <2> QED BY <2>1, OneObserverMoves
<1>4. asked.sum \in Int /\ sum \in Int /\ \A i \in Buckets : asked.bucket[i] \in Int /\ counts[i] \in Int
  BY DEF TypeOK
<1>5. asked.sum = sum + StillToAddToSum /\ \A i \in Buckets : asked.bucket[i] = counts[i] + StillToAdd(i)
  BY DEF NothingLost, StillToAdd, StillToAddToSum
<1> HIDE DEF NInv
<1>6. asked'.sum = sum' + StillToAddToSum'
  BY <1>1, <1>2, <1>3, <1>4, <1>5
<1>7. \A i \in Buckets : asked'.bucket[i] = counts'[i] + StillToAdd(i)'
  BY <1>1, <1>2, <1>3, <1>4, <1>5
<1> QED BY <1>6, <1>7 DEF NothingLost, StillToAdd, StillToAddToSum

(* Every step moves an amount from what is still to be added to where it   *)
(* belongs, or asks for as much as it leaves to be added.                  *)
LEMMA NothingLostStep == ASSUME NInv, [Next]_vars PROVE SumFirst' /\ NothingLost'
<1>0. TypeOK /\ TypeOK' /\ SumFirst /\ NothingLost
  BY TypeStep DEF NInv
<1> USE BucketNumbers
<1>a. /\ sum \in Int /\ asked.sum \in Int
      /\ \A i \in Buckets : counts[i] \in Int /\ asked.bucket[i] \in Int
  BY <1>0 DEF TypeOK
<1>b. asked.sum = sum + StillToAddToSum /\ \A i \in Buckets : asked.bucket[i] = counts[i] + StillToAdd(i)
  BY <1>0 DEF NothingLost, StillToAdd, StillToAddToSum
<1>1. ASSUME NEW t \in Observers, NEW v \in Values, Observe(t, v) PROVE SumFirst' /\ NothingLost'
  <2> DEFINE k == BucketIndex(v)
             n == [i \in Buckets |-> IF i = k THEN 1 ELSE 0]
  <2>1. v \in Int /\ k \in Buckets
    BY BucketFound, HistogramAssumption
  <2>2. \A u \in Observers \ {t} : UNCHANGED <<next[u], last[u], increments[u], amount[u], toSum[u]>>
    BY <1>0, <1>1 DEF Observe, TypeOK
  <2>3. /\ next'[t] = k /\ last'[t] = k /\ amount'[t] = v /\ toSum'[t] = TRUE
        /\ increments'[t] = [i \in Buckets |-> 1]
    BY <1>0, <1>1 DEF Observe, TypeOK
  <2>4. StartCall(t)
    BY <1>1 DEF Observe
  <2>5. asked'.sum = asked.sum + v /\ \A i \in Buckets : asked'.bucket[i] = asked.bucket[i] + n[i]
    BY <1>1, <2>1, BucketIsRight DEF Observe
  <2> HIDE DEF k
  <2>6. \A i \in Buckets : ToAdd(t, i)' = n[i]
    BY <2>1, <2>3 DEF ToAdd, Counted
  <2>7. ToAddToSum(t)' = v
    BY <2>3 DEF ToAddToSum
  <2>8. n \in [Buckets -> Nat]
    OBVIOUS
  <2> HIDE DEF n
  <2>9. NothingLost'
    BY <1>0, <2>1, <2>2, <2>4, <2>5, <2>6, <2>7, <2>8, CallStarts
  <2>10. SumFirst'
    BY <1>0, <2>1, <2>2, <2>3 DEF SumFirst, Idle
  <2> QED BY <2>9, <2>10
<1>2. ASSUME NEW t \in Observers, NEW b \in Batches, ObserveMultiple(t, b)
      PROVE  SumFirst' /\ NothingLost'
  <2> DEFINE n == [i \in Buckets |-> Counted(b.increments[i])]
  <2>1. b.sum \in Int /\ \A i \in Buckets : b.increments[i] \in Int
    BY <1>2, BatchFits DEF ObserveMultiple
  <2>2. \A u \in Observers \ {t} : UNCHANGED <<next[u], last[u], increments[u], amount[u], toSum[u]>>
    BY <1>0, <1>2 DEF ObserveMultiple, TypeOK
  <2>3. /\ next'[t] = 1 /\ last'[t] = NBuckets /\ amount'[t] = b.sum /\ toSum'[t] = TRUE
        /\ increments'[t] = [i \in Buckets |-> b.increments[i]]
    BY <1>0, <1>2 DEF ObserveMultiple, TypeOK
  <2>4. StartCall(t)
    BY <1>2 DEF ObserveMultiple
  <2>5. asked'.sum = asked.sum + b.sum /\ \A i \in Buckets : asked'.bucket[i] = asked.bucket[i] + n[i]
    BY <1>2 DEF ObserveMultiple
  <2>6. \A i \in Buckets : ToAdd(t, i)' = n[i]
    BY <2>3 DEF ToAdd
  <2>7. ToAddToSum(t)' = b.sum
    BY <2>3 DEF ToAddToSum
  <2>8. n \in [Buckets -> Nat]
    BY <2>1 DEF Counted
  <2> HIDE DEF n
  <2>9. NothingLost'
    BY <1>0, <2>1, <2>2, <2>4, <2>5, <2>6, <2>7, <2>8, CallStarts
  <2>10. SumFirst'
    BY <1>0, <2>2, <2>3 DEF SumFirst, Idle
  <2> QED BY <2>9, <2>10
<1>3. ASSUME NEW t \in Observers, AddToSum(t) PROVE SumFirst' /\ NothingLost'
  <2>1. /\ toSum[t] /\ sum' = sum + amount[t] /\ toSum' = [toSum EXCEPT ![t] = FALSE]
        /\ UNCHANGED <<counts, amount, increments, next, last, asked>>
    BY <1>3 DEF AddToSum
  <2>2. ~toSum'[t] /\ \A u \in Observers \ {t} : toSum'[u] = toSum[u]
    BY <1>0, <2>1 DEF TypeOK
  <2>3. /\ ToAddToSum(t) = amount[t] /\ ToAddToSum(t)' = 0 /\ amount[t] \in Int
        /\ \A i \in Buckets : ToAdd(t, i)' = ToAdd(t, i)
    BY <1>0, <2>1, <2>2 DEF ToAdd, ToAddToSum, TypeOK
  <2>4. \A i \in Buckets : ToAdd(t, i) \in Nat
    BY <1>0, ToAddTypes
  <2>5. /\ \A i \in Buckets : /\ StillToAdd(i) \in Int
                              /\ StillToAdd(i)' = StillToAdd(i) + ToAdd(t, i)' - ToAdd(t, i)
        /\ StillToAddToSum \in Int
        /\ StillToAddToSum' = StillToAddToSum + ToAddToSum(t)' - ToAddToSum(t)
    BY <1>0, <2>1, <2>2, OneObserverMoves
  <2>6. asked'.sum = sum' + StillToAddToSum'
    BY <1>a, <1>b, <2>1, <2>3, <2>5
  <2>7. \A i \in Buckets : asked'.bucket[i] = counts'[i] + StillToAdd(i)'
    <3> SUFFICES ASSUME NEW i \in Buckets PROVE asked'.bucket[i] = counts'[i] + StillToAdd(i)'
      OBVIOUS
    <3>1. StillToAdd(i)' = StillToAdd(i) /\ StillToAdd(i) \in Int
      <4>1. ToAdd(t, i)' = ToAdd(t, i) /\ ToAdd(t, i) \in Nat
        BY <2>3, <2>4
      <4>2. StillToAdd(i)' = StillToAdd(i) + ToAdd(t, i)' - ToAdd(t, i) /\ StillToAdd(i) \in Int
        BY <2>5
      <4> QED BY <4>1, <4>2
    <3>2. asked.bucket[i] = counts[i] + StillToAdd(i) /\ counts' = counts /\ asked' = asked
      BY <1>b, <2>1
    <3> QED BY <3>1, <3>2
  <2>8. NothingLost'
    BY <2>6, <2>7 DEF NothingLost, StillToAdd, StillToAddToSum
  <2>9. SumFirst'
    BY <1>0, <2>1, <2>2 DEF SumFirst, Idle
  <2> QED BY <2>8, <2>9
<1>4. ASSUME NEW t \in Observers, AddToBucket(t) PROVE SumFirst' /\ NothingLost'
  <2>0. next[t] \in Buckets /\ last[t] \in Int /\ next[t] <= last[t] /\ last[t] <= NBuckets
    <3>1. next[t] \in 1..(NBuckets + 1) /\ last[t] \in 0..NBuckets /\ ~(next[t] > last[t])
      BY <1>0, <1>4 DEF AddToBucket, Idle, TypeOK
    <3> QED BY <3>1
  <2> PICK k \in Buckets : k = next[t]
    BY <2>0
  <2> DEFINE a == Accepted(increments[t][k])
  <2>1. /\ ~Idle(t) /\ ~toSum[t] /\ next' = [next EXCEPT ![t] = k + 1]
        /\ counts' = [counts EXCEPT ![k] = counts[k] + a]
        /\ UNCHANGED <<sum, amount, toSum, increments, last, asked>>
    BY <1>4 DEF AddToBucket, AfterSum
  <2>2. k <= last[t] /\ increments[t][k] \in Int
    <3>1. increments[t] \in [Buckets -> Int]
      BY <1>0 DEF TypeOK
    <3> QED BY <2>0, <3>1
  <2>3. a \in Nat /\ a = Counted(increments[t][k])
    BY <2>2 DEF Accepted, Counted
  <2>4. next'[t] = k + 1 /\ \A u \in Observers \ {t} : next'[u] = next[u]
    BY <1>0, <2>1 DEF TypeOK
  <2>5. counts'[k] = counts[k] + a /\ \A i \in Buckets \ {k} : counts'[i] = counts[i]
    BY <1>0, <2>1, <2>2 DEF TypeOK
  <2>6. ToAdd(t, k) = a /\ ToAdd(t, k)' = 0
    BY <2>0, <2>1, <2>2, <2>3, <2>4 DEF ToAdd
  <2>7. \A i \in Buckets \ {k} : ToAdd(t, i)' = ToAdd(t, i)
    <3>1. \A i \in Buckets \ {k} : i \in (k + 1)..last[t] <=> i \in k..last[t]
      BY <2>0, <2>2
    <3> QED BY <2>1, <2>4, <3>1 DEF ToAdd
  <2>8. ToAddToSum(t)' = ToAddToSum(t) /\ ToAddToSum(t) \in Int
    BY <1>0, <2>1, ToAddTypes DEF ToAddToSum
  <2>9. \A i \in Buckets : ToAdd(t, i) \in Nat
    BY <1>0, ToAddTypes
  <2> HIDE DEF a
  <2>10. /\ \A i \in Buckets : /\ StillToAdd(i) \in Int
                               /\ StillToAdd(i)' = StillToAdd(i) + ToAdd(t, i)' - ToAdd(t, i)
         /\ StillToAddToSum \in Int
         /\ StillToAddToSum' = StillToAddToSum + ToAddToSum(t)' - ToAddToSum(t)
    BY <1>0, <2>1, <2>4, OneObserverMoves
  <2>11. asked'.sum = sum' + StillToAddToSum'
    BY <1>a, <1>b, <2>1, <2>8, <2>10
  <2>12. \A i \in Buckets : asked'.bucket[i] = counts'[i] + StillToAdd(i)'
    <3> SUFFICES ASSUME NEW i \in Buckets PROVE asked'.bucket[i] = counts'[i] + StillToAdd(i)'
      OBVIOUS
    <3>1. CASE i = k
      <4>1. StillToAdd(k)' = StillToAdd(k) + 0 - a /\ StillToAdd(k) \in Int
        BY <2>6, <2>10
      <4>2. asked.bucket[k] = counts[k] + StillToAdd(k) /\ counts[k] \in Int
        BY <1>a, <1>b
      <4>3. counts'[k] = counts[k] + a /\ a \in Nat /\ asked' = asked
        BY <2>1, <2>3, <2>5
      <4>4. asked'.bucket[k] = counts'[k] + StillToAdd(k)'
        BY <4>1, <4>2, <4>3
      <4> QED BY <3>1, <4>4
    <3>2. CASE i # k
      <4>1. StillToAdd(i)' = StillToAdd(i) /\ StillToAdd(i) \in Int
        <5>1. ToAdd(t, i)' = ToAdd(t, i) /\ ToAdd(t, i) \in Nat
          BY <2>7, <2>9, <3>2
        <5>2. StillToAdd(i)' = StillToAdd(i) + ToAdd(t, i)' - ToAdd(t, i) /\ StillToAdd(i) \in Int
          BY <2>10
        <5> QED BY <5>1, <5>2
      <4>2. asked.bucket[i] = counts[i] + StillToAdd(i) /\ counts'[i] = counts[i] /\ asked' = asked
        BY <1>b, <2>1, <2>5, <3>2
      <4> QED BY <4>1, <4>2
    <3> QED BY <3>1, <3>2
  <2>13. NothingLost'
    BY <2>11, <2>12 DEF NothingLost, StillToAdd, StillToAddToSum
  <2>14. SumFirst'
    BY <1>0, <2>1, <2>4 DEF SumFirst, Idle
  <2> QED BY <2>13, <2>14
<1>5. CASE UNCHANGED <<counts, sum, asked, amount, toSum, increments, next, last>>
  BY <1>0, <1>5 DEF SumFirst, Idle, NothingLost, ToAdd, ToAddToSum
<1> QED BY <1>1, <1>2, <1>3, <1>4, <1>5 DEF Next, ObserveMultipleThrows, StartCall, BeginCollect,
                                           ReadBucket, ReadSum, shared, ovars, svars, vars

(* At first nothing was asked for and nothing is there. *)
LEMMA HistogramStarts == Init => NInv
<1> SUFFICES ASSUME Init PROVE NInv
  OBVIOUS
<1>1. TypeOK
  BY BucketNumbers, HistogramAssumption DEF Init, TypeOK, Metrics, Zeros
<1>2. \A t \in Observers : ~toSum[t] /\ ToAddToSum(t) = 0 /\ \A i \in Buckets : ToAdd(t, i) = 0
  <2>1. \A t \in Observers : ~toSum[t] /\ Idle(t)
    BY DEF Init, Idle
  <2> QED BY <1>1, <2>1, IdleOwesNothing DEF ToAddToSum
<1>3. SumFirst
  BY <1>2 DEF SumFirst
<1>4. StillToAddToSum = 0 /\ \A i \in Buckets : StillToAdd(i) = 0
  <2> DEFINE z == [t \in Observers |-> 0]
  <2>1. SumFunction(z) = 0
    <3>1. z \in [Observers -> Int] /\ \A t \in Observers : z[t] = 0
      OBVIOUS
    <3> HIDE DEF z
    <3> QED BY <3>1, SumOfNothing, HistogramAssumption
  <2>2. [t \in Observers |-> ToAddToSum(t)] = z
    BY <1>2
  <2>3. \A i \in Buckets : [t \in Observers |-> ToAdd(t, i)] = z
    BY <1>2
  <2> HIDE DEF z
  <2> QED BY <2>1, <2>2, <2>3 DEF StillToAdd, StillToAddToSum
<1>5. asked.sum = 0 /\ sum = 0 /\ \A i \in Buckets : asked.bucket[i] = 0 /\ counts[i] = 0
  BY DEF Init, Zeros
<1>6. NothingLost
  BY <1>4, <1>5 DEF NothingLost, StillToAdd, StillToAddToSum
<1> QED BY <1>1, <1>3, <1>6 DEF NInv

(* Nothing that was observed is lost, counted twice or put into another    *)
(* bucket, however many observers interleave their additions.              *)
THEOREM HistogramNothingLost == Spec => []NothingLost
<1>1. Init => NInv
  BY HistogramStarts
<1>2. NInv /\ [Next]_vars => NInv'
  BY TypeStep, NothingLostStep DEF NInv
<1>3. NInv => NothingLost
  BY DEF NInv
<1> QED BY <1>1, <1>2, <1>3, PTL DEF Spec

(* A scrape's counts increase from bucket to bucket, and no bucket of it   *)
(* exceeds what the observers were asked to record: it is no more than the *)
(* counter was, and what is still to be added is not negative.             *)
THEOREM HistogramScrapeCumulative == Spec => []ScrapeCumulative
<1>1. IInv /\ NothingLost => \A s \in Scrapers : \A i \in Buckets :
                               Own(scraped[s].bucket, i) <= asked.bucket[i]
  <2> SUFFICES ASSUME IInv, NothingLost, NEW s \in Scrapers, NEW i \in Buckets
               PROVE  Own(scraped[s].bucket, i) <= asked.bucket[i]
    OBVIOUS
  <2>0. TypeOK /\ ScrapedBefore
    BY DEF IInv
  <2>1. StillToAdd(i) \in Int /\ 0 <= StillToAdd(i)
    <3> DEFINE f == [t \in Observers |-> ToAdd(t, i)]
               z == [t \in Observers |-> 0]
    <3>1. /\ f \in [Observers -> Int] /\ z \in [Observers -> Int]
          /\ \A t \in Observers : z[t] = 0 /\ z[t] <= f[t]
      BY <2>0, ToAddTypes
    <3>2. StillToAdd(i) = SumFunction(f)
      BY DEF StillToAdd
    <3> HIDE DEF f, z
    <3>3. SumFunction(z) = 0 /\ SumFunction(z) <= SumFunction(f) /\ SumFunction(f) \in Int
      <4>1. IsFiniteSet(Observers)
        BY HistogramAssumption
      <4>2. SumFunction(z) = 0
        BY <3>1, <4>1, SumOfNothing
      <4>3. SumFunction(z) <= SumFunction(f)
        BY <3>1, <4>1, SumGrows
      <4>4. SumFunction(f) \in Int
        BY <3>1, <4>1, SumType
      <4> QED BY <4>2, <4>3, <4>4
    <3> QED BY <3>2, <3>3
  <2>2. asked.bucket[i] = counts[i] + StillToAdd(i) /\ counts[i] \in Nat
    BY <2>0 DEF NothingLost, StillToAdd, TypeOK
  <2>3. Own(scraped[s].bucket, i) \in 0..counts[i]
    BY <2>0 DEF ScrapedBefore
  <2> QED BY <2>1, <2>2, <2>3
<1>2. (\A s \in Scrapers : \A i \in Buckets :
         i > 1 => scraped[s].bucket[i - 1] <= scraped[s].bucket[i])
      /\ (\A s \in Scrapers : \A i \in Buckets : Own(scraped[s].bucket, i) <= asked.bucket[i])
      => ScrapeCumulative
  BY DEF ScrapeCumulative
<1> QED BY <1>1, <1>2, HistogramInvariant, HistogramNothingLost, HistogramScrapesIncrease, PTL

------------------------------------------------------------------------------

(* What an observer has still to put into the buckets.  Once its sum has   *)
(* been added, that is worth so much of it.                                *)
Left(t) == [i \in Buckets |-> ToAdd(t, i)]
Worth(t) == IF toSum[t] THEN 0 ELSE ValueOf(Left(t))
TotalWorth == SumFunction([t \in Observers |-> Worth(t)])

(* A call adds to the sum no less than its buckets will stand for ...      *)
Owed == \A t \in Observers : toSum[t] => amount[t] >= ValueOf(Left(t))

(* ... so the sum is ahead of the counters, by what is still to reach them.*)
Covered == sum >= ValueOf(counts) + TotalWorth

CInv == IInv /\ NInv /\ Owed /\ Covered /\ ScrapeSumCoversCounts

(* A product grows with both of its factors. *)
LEMMA ProductGrows ==
  ASSUME NEW a \in Nat, NEW c \in Nat, a <= c, NEW l \in Int, NEW m \in Nat, l <= m
  PROVE  a * l <= c * m
<1>1. a * (m - l) \in Nat
  <2>1. m - l \in Nat
    OBVIOUS
  <2> QED BY <2>1
<1>2. (c - a) * m \in Nat
  <2>1. c - a \in Nat
    OBVIOUS
  <2> QED BY <2>1
<1>3. c * m - a * l = (c - a) * m + a * (m - l)
  OBVIOUS
<1>4. a * l \in Int /\ c * m \in Int
  OBVIOUS
<1> QED BY <1>1, <1>2, <1>3, <1>4

(* No observation is below the least one of its bucket. *)
LEMMA LeastIsLeast ==
  ASSUME NEW i \in Buckets
  PROVE  /\ LowerEnd(i) \in Int /\ Least(i) \in Nat /\ LowerEnd(i) <= Least(i)
         /\ \A v \in Nat : InBucket(i, v) => Least(i) <= v
<1>1. i > 1 => Boundaries[i - 1] \in Int
  BY HistogramAssumption, BucketNumbers DEF NBuckets
<1>2. LowerEnd(i) \in Int
  BY <1>1, BucketNumbers DEF LowerEnd
<1>3. \A v \in Nat : InBucket(i, v) => LowerEnd(i) <= v
  BY <1>1, BucketNumbers DEF LowerEnd, InBucket
<1> QED BY <1>2, <1>3 DEF Least

(* There are finitely many buckets. *)
LEMMA BucketsFinite == IsFiniteSet(Buckets)
  BY BucketNumbers, FS_Interval

(* What ValueOf adds up to. *)
LEMMA ValueFacts ==
  ASSUME NEW n \in [Buckets -> Nat]
  PROVE  /\ ValueOf(n) \in Int
         /\ 0 <= ValueOf(n)
         /\ (\A i \in Buckets : n[i] = 0) => ValueOf(n) = 0
<1> DEFINE f == [i \in Buckets |-> n[i] * Least(i)]
           z == [i \in Buckets |-> 0]
<1>1. f \in [Buckets -> Int] /\ \A i \in Buckets : 0 <= f[i] /\ (n[i] = 0 => f[i] = 0)
  <2> SUFFICES ASSUME NEW i \in Buckets
               PROVE  n[i] * Least(i) \in Nat /\ (n[i] = 0 => n[i] * Least(i) = 0)
    OBVIOUS
  <2>1. n[i] \in Nat /\ Least(i) \in Nat
    BY LeastIsLeast
  <2> QED BY <2>1
<1>2. z \in [Buckets -> Int] /\ \A i \in Buckets : z[i] = 0 /\ z[i] <= f[i]
  BY <1>1
<1>3. ValueOf(n) = SumFunction(f)
  BY DEF ValueOf
<1> HIDE DEF f, z
<1>4. SumFunction(f) \in Int
  BY <1>1, BucketsFinite, SumType
<1>5. SumFunction(z) = 0
  BY <1>2, BucketsFinite, SumOfNothing
<1>6. SumFunction(z) <= SumFunction(f)
  BY <1>1, <1>2, BucketsFinite, SumGrows
<1>7. ASSUME \A i \in Buckets : n[i] = 0 PROVE SumFunction(f) = 0
  BY <1>1, <1>7, BucketsFinite, SumOfNothing
<1> QED BY <1>3, <1>4, <1>5, <1>6, <1>7

(* One bucket more or less changes it by that bucket's least. *)
LEMMA ValueChanges ==
  ASSUME NEW n \in [Buckets -> Nat], NEW m \in [Buckets -> Nat], NEW k \in Buckets,
         \A i \in Buckets \ {k} : m[i] = n[i]
  PROVE  ValueOf(m) = ValueOf(n) + m[k] * Least(k) - n[k] * Least(k)
<1> DEFINE f == [i \in Buckets |-> n[i] * Least(i)]
           g == [i \in Buckets |-> m[i] * Least(i)]
<1>1. \A i \in Buckets : n[i] \in Nat /\ m[i] \in Nat /\ Least(i) \in Nat
  BY LeastIsLeast
<1>2. f \in [Buckets -> Int] /\ g \in [Buckets -> Int]
  BY <1>1
<1>3. \A i \in Buckets : i # k => g[i] = f[i]
  OBVIOUS
<1>4. /\ ValueOf(n) = SumFunction(f) /\ ValueOf(m) = SumFunction(g)
      /\ f[k] = n[k] * Least(k) /\ g[k] = m[k] * Least(k)
  BY DEF ValueOf
<1> HIDE DEF f, g
<1>5. SumFunction(g) = SumFunction(f) + g[k] - f[k]
  BY <1>2, <1>3, BucketsFinite, SumChanges
<1> QED BY <1>4, <1>5

(* What is left, before a step and after it. *)
LEMMA LeftTypes ==
  /\ TypeOK => \A t \in Observers : Left(t) \in [Buckets -> Nat] /\ Worth(t) \in Int
  /\ TypeOK' => \A t \in Observers : Left(t)' \in [Buckets -> Nat] /\ Worth(t)' \in Int
<1>1. ASSUME TypeOK, NEW t \in Observers PROVE Left(t) \in [Buckets -> Nat] /\ Worth(t) \in Int
  <2>1. Left(t) \in [Buckets -> Nat]
    BY <1>1, ToAddTypes DEF Left
  <2>2. ValueOf(Left(t)) \in Int
    BY <2>1, ValueFacts
  <2> QED BY <2>1, <2>2 DEF Worth
<1>2. ASSUME TypeOK', NEW t \in Observers PROVE Left(t)' \in [Buckets -> Nat] /\ Worth(t)' \in Int
  <2>1. Left(t)' \in [Buckets -> Nat]
    BY <1>2, ToAddTypes DEF Left
  <2>2. ValueOf(Left(t)') \in Int
    BY <2>1, ValueFacts
  <2>3. ValueOf(Left(t))' = ValueOf(Left(t)')
    BY DEF ValueOf
  <2> QED BY <2>1, <2>2, <2>3 DEF Worth
<1> QED BY <1>1, <1>2

(* When one observer moves, only its own share of the total changes. *)
LEMMA WorthChanges ==
  ASSUME TypeOK, TypeOK', NEW t \in Observers,
         \A u \in Observers \ {t} :
           UNCHANGED <<next[u], last[u], increments[u], amount[u], toSum[u]>>
  PROVE  /\ TotalWorth \in Int
         /\ TotalWorth' = TotalWorth + Worth(t)' - Worth(t)
         /\ \A u \in Observers \ {t} : Left(u)' = Left(u)
<1> DEFINE f == [u \in Observers |-> Worth(u)]
           g == [u \in Observers |-> Worth(u)']
<1>1. f \in [Observers -> Int] /\ g \in [Observers -> Int]
  BY LeftTypes
<1>2. \A u \in Observers \ {t} : Left(u)' = Left(u)
  <2>1. \A u \in Observers \ {t} : \A i \in Buckets : ToAdd(u, i)' = ToAdd(u, i)
    BY Zenon DEF ToAdd
  <2> QED BY <2>1 DEF Left
<1>3. \A u \in Observers : u # t => g[u] = f[u]
  <2> SUFFICES ASSUME NEW u \in Observers \ {t} PROVE Worth(u)' = Worth(u)
    OBVIOUS
  <2>1. ValueOf(Left(u))' = ValueOf(Left(u)')
    BY DEF ValueOf
  <2>2. Left(u)' = Left(u) /\ toSum'[u] = toSum[u]
    BY <1>2
  <2> QED BY <2>1, <2>2, Zenon DEF Worth
<1>4. f[t] = Worth(t) /\ g[t] = Worth(t)'
  OBVIOUS
<1>5. TotalWorth = SumFunction(f) /\ TotalWorth' = SumFunction(g)
  BY DEF TotalWorth
<1> HIDE DEF f, g
<1>6. SumFunction(g) = SumFunction(f) + g[t] - f[t] /\ SumFunction(f) \in Int
  <2>1. IsFiniteSet(Observers)
    BY HistogramAssumption
  <2> QED BY <1>1, <1>3, <2>1, SumChanges, SumType
<1> QED BY <1>2, <1>4, <1>5, <1>6

(* A call that starts leaves the sum and the counters alone, and the       *)
(* observer had nothing left: the sum stays as far ahead.                  *)
LEMMA CallStartsCovered ==
  ASSUME NInv, TypeOK', Owed, Covered, NEW t \in Observers, NEW n \in [Buckets -> Nat],
         StartCall(t), toSum'[t] = TRUE, Left(t)' = n, amount'[t] >= ValueOf(n),
         \A u \in Observers \ {t} :
           UNCHANGED <<next[u], last[u], increments[u], amount[u], toSum[u]>>
  PROVE  Owed' /\ Covered'
<1>0. TypeOK /\ SumFirst
  BY DEF NInv
<1>1. UNCHANGED <<counts, sum>> /\ Idle(t)
  BY DEF StartCall, shared
<1>2. Worth(t) = 0
  <2>1. \A i \in Buckets : Left(t)[i] = 0
    BY <1>0, <1>1, IdleOwesNothing DEF Left
  <2>2. ValueOf(Left(t)) = 0
    <3>1. Left(t) \in [Buckets -> Nat]
      BY <1>0, LeftTypes
    <3> QED BY <2>1, <3>1, ValueFacts
  <2> QED BY <2>2 DEF Worth
<1>3. Worth(t)' = 0
  BY DEF Worth
<1>4. TotalWorth \in Int /\ TotalWorth' = TotalWorth + 0 - 0
  BY <1>0, <1>2, <1>3, WorthChanges
<1>5. Covered'
  <2>1. ValueOf(counts)' = ValueOf(counts)
    BY <1>1 DEF ValueOf
  <2> QED BY <1>1, <1>4, <2>1 DEF Covered
<1>6. Owed'
  <2> SUFFICES ASSUME NEW u \in Observers, toSum'[u]
               PROVE  amount'[u] >= ValueOf(Left(u))'
    BY DEF Owed
  <2>1. ValueOf(Left(u))' = ValueOf(Left(u)')
    BY DEF ValueOf
  <2>2. CASE u = t
    BY <2>1, <2>2
  <2>3. CASE u # t
    <3>1. Left(u)' = Left(u) /\ amount'[u] = amount[u] /\ toSum[u]
      BY <1>0, <2>3, WorthChanges
    <3> QED BY <2>1, <3>1 DEF Owed
  <2> QED BY <2>2, <2>3
<1> QED BY <1>5, <1>6

(* The sum stays ahead of what the counters stand for. *)
LEMMA CoveredStep ==
  ASSUME FromObservations, CInv, [Next]_vars
  PROVE  Owed' /\ Covered'
<1>0. TypeOK /\ TypeOK' /\ SumFirst /\ Owed /\ Covered /\ NInv
  BY TypeStep DEF CInv, NInv
<1> USE BucketNumbers
<1>1. ASSUME NEW t \in Observers, NEW v \in Values, Observe(t, v) PROVE Owed' /\ Covered'
  <2>1. PICK k \in Buckets : k = BucketIndex(v)
    BY BucketFound, HistogramAssumption
  <2> DEFINE n == [i \in Buckets |-> IF i = k THEN 1 ELSE 0]
             z == [i \in Buckets |-> 0]
  <2>2. \A u \in Observers \ {t} : UNCHANGED <<next[u], last[u], increments[u], amount[u], toSum[u]>>
    BY <1>0, <1>1 DEF Observe, TypeOK
  <2>3. /\ next'[t] = k /\ last'[t] = k /\ amount'[t] = v /\ toSum'[t] = TRUE
        /\ increments'[t] = [i \in Buckets |-> 1]
    BY <1>0, <1>1, <2>1 DEF Observe, TypeOK
  <2>4. StartCall(t)
    BY <1>1 DEF Observe
  <2>5. Left(t)' = n
    <3>1. \A i \in Buckets : ToAdd(t, i)' = n[i]
      BY <2>3 DEF ToAdd, Counted
    <3> QED BY <3>1 DEF Left
  <2>6. /\ n \in [Buckets -> Nat] /\ z \in [Buckets -> Nat] /\ n[k] = 1
        /\ \A i \in Buckets : z[i] = 0
        /\ \A i \in Buckets \ {k} : n[i] = z[i]
    OBVIOUS
  <2> HIDE DEF n, z
  <2>7. v \in Nat /\ Least(k) \in Nat /\ Least(k) <= v
    <3>1. v \in Nat
      BY DEF FromObservations
    <3>2. InBucket(k, v)
      BY <2>1, <3>1, BucketIsRight
    <3> QED BY <3>1, <3>2, LeastIsLeast
  <2>8. ValueOf(n) = Least(k)
    <3>1. ValueOf(n) = ValueOf(z) + n[k] * Least(k) - z[k] * Least(k)
      BY <2>6, ValueChanges
    <3>2. ValueOf(z) = 0
      BY <2>6, ValueFacts
    <3> QED BY <2>6, <2>7, <3>1, <3>2
  <2>9. amount'[t] >= ValueOf(n)
    BY <2>3, <2>7, <2>8
  <2> QED BY <1>0, <2>2, <2>3, <2>4, <2>5, <2>6, <2>9, CallStartsCovered
<1>2. ASSUME NEW t \in Observers, NEW b \in Batches, ObserveMultiple(t, b)
      PROVE  Owed' /\ Covered'
  <2> DEFINE n == [i \in Buckets |-> Counted(b.increments[i])]
  <2>1. ~WrongSize(b) /\ \A i \in Buckets : b.increments[i] \in Int
    BY <1>2, BatchFits DEF ObserveMultiple
  <2>2. \A u \in Observers \ {t} : UNCHANGED <<next[u], last[u], increments[u], amount[u], toSum[u]>>
    BY <1>0, <1>2 DEF ObserveMultiple, TypeOK
  <2>3. /\ next'[t] = 1 /\ last'[t] = NBuckets /\ amount'[t] = b.sum /\ toSum'[t] = TRUE
        /\ increments'[t] = [i \in Buckets |-> b.increments[i]]
    BY <1>0, <1>2 DEF ObserveMultiple, TypeOK
  <2>4. StartCall(t)
    BY <1>2 DEF ObserveMultiple
  <2>5. Left(t)' = n
    <3>1. \A i \in Buckets : ToAdd(t, i)' = n[i]
      BY <2>3 DEF ToAdd
    <3> QED BY <3>1 DEF Left
  <2>6. n \in [Buckets -> Nat]
    BY <2>1 DEF Counted
  <2>7. b.sum >= ValueOf(n)
    BY <2>1 DEF FromObservations
  <2> HIDE DEF n
  <2> QED BY <1>0, <2>2, <2>3, <2>4, <2>5, <2>6, <2>7, CallStartsCovered
<1>3. ASSUME NEW t \in Observers, AddToSum(t) PROVE Owed' /\ Covered'
  <2>1. /\ toSum[t] /\ sum' = sum + amount[t] /\ toSum' = [toSum EXCEPT ![t] = FALSE]
        /\ UNCHANGED <<counts, amount, increments, next, last>>
    BY <1>3 DEF AddToSum
  <2>2. ~toSum'[t] /\ \A u \in Observers \ {t} : toSum'[u] = toSum[u]
    BY <1>0, <2>1 DEF TypeOK
  <2>3. \A u \in Observers : Left(u)' = Left(u)
    BY <2>1 DEF Left, ToAdd
  <2>4. \A u \in Observers : ValueOf(Left(u))' = ValueOf(Left(u))
    <3> SUFFICES ASSUME NEW u \in Observers PROVE ValueOf(Left(u))' = ValueOf(Left(u))
      OBVIOUS
    <3>1. ValueOf(Left(u))' = ValueOf(Left(u)')
      BY DEF ValueOf
    <3> QED BY <2>3, <3>1
  <2>5. Worth(t) = 0 /\ Worth(t)' = ValueOf(Left(t)) /\ amount[t] >= ValueOf(Left(t))
    BY <1>0, <2>1, <2>2, <2>4 DEF Worth, Owed
  <2>6. /\ amount[t] \in Int /\ sum \in Int /\ ValueOf(Left(t)) \in Int /\ ValueOf(counts) \in Int
    <3>1. Left(t) \in [Buckets -> Nat] /\ counts \in [Buckets -> Nat]
      BY <1>0, LeftTypes DEF TypeOK
    <3>2. ValueOf(Left(t)) \in Int /\ ValueOf(counts) \in Int
      BY <3>1, ValueFacts
    <3> QED BY <1>0, <3>2 DEF TypeOK
  <2>7. TotalWorth \in Int /\ TotalWorth' = TotalWorth + Worth(t)' - Worth(t)
    BY <1>0, <2>1, <2>2, WorthChanges
  <2>8. ValueOf(counts)' = ValueOf(counts)
    BY <2>1 DEF ValueOf
  <2>9. sum >= ValueOf(counts) + TotalWorth
    BY <1>0 DEF Covered
  <2>10. sum' >= ValueOf(counts)' + TotalWorth'
    BY <2>1, <2>5, <2>6, <2>7, <2>8, <2>9
  <2>11. Covered'
    BY <2>10 DEF Covered
  <2>12. Owed'
    BY <1>0, <2>1, <2>2, <2>4 DEF Owed
  <2> QED BY <2>11, <2>12
<1>4. ASSUME NEW t \in Observers, AddToBucket(t) PROVE Owed' /\ Covered'
  <2>0. next[t] \in Buckets /\ last[t] \in Int /\ next[t] <= last[t] /\ last[t] <= NBuckets
    <3>1. next[t] \in 1..(NBuckets + 1) /\ last[t] \in 0..NBuckets /\ ~(next[t] > last[t])
      BY <1>0, <1>4 DEF AddToBucket, Idle, TypeOK
    <3> QED BY <3>1
  <2> PICK k \in Buckets : k = next[t]
    BY <2>0
  <2> DEFINE a == Accepted(increments[t][k])
  <2>1. /\ ~toSum[t] /\ next' = [next EXCEPT ![t] = k + 1]
        /\ counts' = [counts EXCEPT ![k] = counts[k] + a]
        /\ UNCHANGED <<sum, amount, toSum, increments, last>>
    BY <1>4 DEF AddToBucket, AfterSum
  <2>2. k <= last[t] /\ increments[t][k] \in Int
    <3>1. increments[t] \in [Buckets -> Int]
      BY <1>0 DEF TypeOK
    <3> QED BY <2>0, <3>1
  <2>3. a \in Nat /\ a = Counted(increments[t][k])
    BY <2>2 DEF Accepted, Counted
  <2>4. next'[t] = k + 1 /\ \A u \in Observers \ {t} : next'[u] = next[u]
    BY <1>0, <2>1 DEF TypeOK
  <2>5. /\ counts'[k] = counts[k] + a /\ counts[k] \in Nat
        /\ \A i \in Buckets \ {k} : counts'[i] = counts[i]
    BY <1>0, <2>1, <2>2 DEF TypeOK
  <2>6. Left(t)[k] = a /\ Left(t)'[k] = 0
    <3>1. ToAdd(t, k) = a /\ ToAdd(t, k)' = 0
      BY <2>0, <2>1, <2>2, <2>3, <2>4 DEF ToAdd
    <3> QED BY <3>1 DEF Left
  <2>7. \A i \in Buckets \ {k} : Left(t)'[i] = Left(t)[i]
    <3>1. \A i \in Buckets \ {k} : i \in (k + 1)..last[t] <=> i \in k..last[t]
      BY <2>0, <2>2
    <3>2. \A i \in Buckets \ {k} : ToAdd(t, i)' = ToAdd(t, i)
      BY <2>1, <2>4, <3>1 DEF ToAdd
    <3> QED BY <3>2 DEF Left
  <2> HIDE DEF a
  <2>8. PICK w \in Int : w = a * Least(k)
    BY <2>3, LeastIsLeast
  <2>9. /\ Left(t) \in [Buckets -> Nat] /\ Left(t)' \in [Buckets -> Nat]
        /\ counts \in [Buckets -> Nat] /\ counts' \in [Buckets -> Nat]
    BY <1>0, LeftTypes DEF TypeOK
  <2>10. /\ ValueOf(Left(t)) \in Int /\ ValueOf(counts) \in Int
    BY <2>9, ValueFacts
  <2>11. ValueOf(Left(t)') = ValueOf(Left(t)) - w
    <3>1. ValueOf(Left(t)') = ValueOf(Left(t)) + Left(t)'[k] * Least(k) - Left(t)[k] * Least(k)
      BY <2>7, <2>9, ValueChanges
    <3>2. Left(t)'[k] * Least(k) = 0 /\ Left(t)[k] * Least(k) = w
      BY <2>6, <2>8, LeastIsLeast
    <3> QED BY <2>8, <2>10, <3>1, <3>2
  <2>12. ValueOf(counts') = ValueOf(counts) + w
    <3>1. ValueOf(counts') = ValueOf(counts) + counts'[k] * Least(k) - counts[k] * Least(k)
      BY <2>5, <2>9, ValueChanges
    <3>2. (counts[k] + a) * Least(k) = counts[k] * Least(k) + a * Least(k) /\ counts[k] * Least(k) \in Int
      <4>1. counts[k] \in Nat /\ a \in Nat /\ Least(k) \in Nat
        BY <2>3, <2>5, LeastIsLeast
      <4> QED BY <4>1
    <3>3. counts'[k] * Least(k) = counts[k] * Least(k) + w
      BY <2>5, <2>8, <3>2
    <3> QED BY <2>8, <2>10, <3>1, <3>2, <3>3
  <2>13. ValueOf(Left(t))' = ValueOf(Left(t)') /\ ValueOf(counts)' = ValueOf(counts')
    BY DEF ValueOf
  <2>14. Worth(t) = ValueOf(Left(t)) /\ Worth(t)' = ValueOf(Left(t)')
    BY <2>1, <2>13 DEF Worth
  <2>15. /\ TotalWorth \in Int /\ TotalWorth' = TotalWorth + Worth(t)' - Worth(t)
         /\ \A u \in Observers \ {t} : Left(u)' = Left(u)
    BY <1>0, <2>1, <2>4, WorthChanges
  <2>16. sum >= ValueOf(counts) + TotalWorth /\ sum \in Int
    BY <1>0 DEF Covered, TypeOK
  <2>17. TotalWorth' = TotalWorth - w
    BY <2>10, <2>11, <2>14, <2>15
  <2>18. sum' >= ValueOf(counts)' + TotalWorth'
    BY <2>1, <2>10, <2>12, <2>13, <2>15, <2>16, <2>17
  <2>19. Covered'
    BY <2>18 DEF Covered
  <2>20. Owed'
    <3> SUFFICES ASSUME NEW u \in Observers, toSum'[u]
                 PROVE  amount'[u] >= ValueOf(Left(u))'
      BY DEF Owed
    <3>1. u # t /\ toSum[u] /\ amount'[u] = amount[u]
      BY <2>1
    <3>2. ValueOf(Left(u))' = ValueOf(Left(u)')
      BY DEF ValueOf
    <3>3. Left(u)' = Left(u)
      BY <2>15, <3>1
    <3> QED BY <1>0, <3>1, <3>2, <3>3 DEF Owed
  <2> QED BY <2>19, <2>20
<1>5. CASE UNCHANGED <<counts, sum, amount, toSum, increments, next, last>>
  BY <1>0, <1>5 DEF Owed, Covered, TotalWorth, Worth, ValueOf, Left, ToAdd
<1> QED BY <1>1, <1>2, <1>3, <1>4, <1>5 DEF Next, ObserveMultipleThrows, StartCall, BeginCollect,
                                           ReadBucket, ReadSum, shared, ovars, svars, vars

(* No observer's share is negative, so neither is their total. *)
LEMMA TotalNotNegative == ASSUME TypeOK PROVE TotalWorth \in Int /\ 0 <= TotalWorth
<1> DEFINE f == [t \in Observers |-> Worth(t)]
           z == [t \in Observers |-> 0]
<1>1. ASSUME NEW t \in Observers PROVE Worth(t) \in Int /\ 0 <= Worth(t)
  <2>1. Left(t) \in [Buckets -> Nat]
    BY LeftTypes
  <2>2. ValueOf(Left(t)) \in Int /\ 0 <= ValueOf(Left(t))
    BY <2>1, ValueFacts
  <2> QED BY <2>2 DEF Worth
<1>2. /\ f \in [Observers -> Int] /\ z \in [Observers -> Int]
      /\ \A t \in Observers : z[t] = 0 /\ z[t] <= f[t]
  BY <1>1
<1>3. TotalWorth = SumFunction(f)
  BY DEF TotalWorth
<1> HIDE DEF f, z
<1>4. IsFiniteSet(Observers)
  BY HistogramAssumption
<1>5. SumFunction(z) = 0
  BY <1>2, <1>4, SumOfNothing
<1>6. SumFunction(z) <= SumFunction(f)
  BY <1>2, <1>4, SumGrows
<1>7. SumFunction(f) \in Int
  BY <1>2, <1>4, SumType
<1> QED BY <1>3, <1>5, <1>6, <1>7

(* The buckets a scrape has read stand for no more than the counters do.   *)
LEMMA ReadWorth ==
  ASSUME TypeOK, NEW c \in [Buckets -> Int], \A i \in Buckets : Own(c, i) \in 0..counts[i]
  PROVE  SumFunction([i \in Buckets |-> Own(c, i) * LowerEnd(i)]) <= ValueOf(counts)
<1> DEFINE f == [i \in Buckets |-> Own(c, i) * LowerEnd(i)]
           g == [i \in Buckets |-> counts[i] * Least(i)]
<1>1. ASSUME NEW i \in Buckets
      PROVE  /\ Own(c, i) * LowerEnd(i) \in Int /\ counts[i] * Least(i) \in Int
             /\ Own(c, i) * LowerEnd(i) <= counts[i] * Least(i)
  <2>1. counts[i] \in Nat /\ Own(c, i) \in Nat /\ Own(c, i) <= counts[i]
    BY DEF TypeOK
  <2>2. LowerEnd(i) \in Int /\ Least(i) \in Nat /\ LowerEnd(i) <= Least(i)
    BY LeastIsLeast
  <2>3. Own(c, i) * LowerEnd(i) \in Int /\ counts[i] * Least(i) \in Int
    BY <2>1, <2>2
  <2>4. Own(c, i) * LowerEnd(i) <= counts[i] * Least(i)
    BY <2>1, <2>2, ProductGrows
  <2> QED BY <2>3, <2>4
<1>2. f \in [Buckets -> Int] /\ g \in [Buckets -> Int] /\ \A i \in Buckets : f[i] <= g[i]
  BY <1>1
<1>3. ValueOf(counts) = SumFunction(g)
  BY DEF ValueOf
<1> HIDE DEF f, g
<1>4. SumFunction(f) <= SumFunction(g)
  BY <1>2, BucketsFinite, SumGrows
<1> QED BY <1>3, <1>4 DEF f

(* ... so the sum that a scrape reads after them covers them.              *)
LEMMA ScrapeCoversStep ==
  ASSUME CInv, [Next]_vars
  PROVE  ScrapeSumCoversCounts'
<1>0. TypeOK /\ ReadSoFar /\ Covered /\ ScrapeSumCoversCounts
  BY DEF CInv, IInv
<1>1. ASSUME NEW s \in Scrapers, ReadSum(s) PROVE ScrapeSumCoversCounts'
  <2>1. /\ scraped'[s] = [bucket |-> cumulative[s], sample_sum |-> sum]
        /\ \A u \in Scrapers \ {s} : scraped'[u] = scraped[u]
        /\ reading[s] = NBuckets + 1
    BY <1>0, <1>1 DEF ReadSum, TypeOK
  <2>2. cumulative[s] \in [Buckets -> Nat] /\ sum \in Int /\ counts \in [Buckets -> Nat]
    BY <1>0 DEF TypeOK
  <2>3. \A i \in Buckets : Own(cumulative[s], i) \in 0..counts[i]
    BY <1>0, <2>1, BucketNumbers DEF ReadSoFar
  <2> DEFINE w == SumFunction([i \in Buckets |-> Own(cumulative[s], i) * LowerEnd(i)])
  <2>4. w <= ValueOf(counts)
    <3>1. cumulative[s] \in [Buckets -> Int]
      BY <2>2
    <3> QED BY <1>0, <2>3, <3>1, ReadWorth
  <2>5. w \in Int
    <3> DEFINE f == [i \in Buckets |-> Own(cumulative[s], i) * LowerEnd(i)]
    <3>1. f \in [Buckets -> Int]
      <4>1. \A i \in Buckets : Own(cumulative[s], i) \in Int /\ LowerEnd(i) \in Int
        BY <2>2, <2>3, LeastIsLeast
      <4> HIDE DEF TypeOK
      <4> QED BY <4>1
    <3> HIDE DEF f
    <3>2. SumFunction(f) \in Int
      BY <3>1, BucketsFinite, SumType
    <3> QED BY <3>2 DEF f
  <2>6. sum >= w
    <3> HIDE DEF w
    <3>1. ValueOf(counts) \in Int
      BY <2>2, ValueFacts
    <3>2. TotalWorth \in Int /\ 0 <= TotalWorth
      BY <1>0, TotalNotNegative
    <3>3. sum >= ValueOf(counts) + TotalWorth
      BY <1>0 DEF Covered
    <3> QED BY <2>2, <2>4, <2>5, <3>1, <3>2, <3>3
  <2>7. \A u \in Scrapers :
          scraped'[u].sample_sum >= SumFunction([i \in Buckets |-> Own(scraped'[u].bucket, i) * LowerEnd(i)])
    <3> SUFFICES ASSUME NEW u \in Scrapers
                 PROVE  scraped'[u].sample_sum >=
                          SumFunction([i \in Buckets |-> Own(scraped'[u].bucket, i) * LowerEnd(i)])
      OBVIOUS
    <3>1. CASE u = s
      <4>1. scraped'[u].sample_sum = sum /\ scraped'[u].bucket = cumulative[s]
        BY <2>1, <3>1
      <4> QED BY <2>6, <4>1
    <3>2. CASE u # s
      <4>1. scraped'[u] = scraped[u]
        BY <2>1, <3>2
      <4> QED BY <1>0, <4>1 DEF ScrapeSumCoversCounts
    <3> QED BY <3>1, <3>2
  <2> QED BY <2>7 DEF ScrapeSumCoversCounts, Own
<1>2. CASE UNCHANGED scraped
  BY <1>0, <1>2 DEF ScrapeSumCoversCounts, Own
<1> QED BY <1>1, <1>2 DEF Next, Observe, ObserveMultipleThrows, ObserveMultiple, StartCall, AddToSum,
                         AddToBucket, BeginCollect, ReadBucket, svars, vars

(* Whoever scrapes, in the middle of whatever observations >= 0, gets a    *)
(* sum that is no less than what its counts stand for.                     *)
THEOREM HistogramScrapeSumCoversCounts ==
  ASSUME FromObservations PROVE Spec => []ScrapeSumCoversCounts
<1>1. Init => Owed /\ Covered /\ ScrapeSumCoversCounts
  <2> SUFFICES ASSUME Init PROVE Owed /\ Covered /\ ScrapeSumCoversCounts
    OBVIOUS
  <2>1. TypeOK
    BY BucketNumbers, HistogramAssumption DEF Init, TypeOK, Metrics, Zeros
  <2>2. counts = Zeros /\ sum = 0 /\ \A t \in Observers : ~toSum[t] /\ Idle(t)
    BY DEF Init, Idle
  <2>3. Owed
    BY <2>2 DEF Owed
  <2>4. \A t \in Observers : Worth(t) = 0
    <3> SUFFICES ASSUME NEW t \in Observers PROVE Worth(t) = 0
      OBVIOUS
    <3>1. Left(t) \in [Buckets -> Nat] /\ \A i \in Buckets : Left(t)[i] = 0
      BY <2>1, <2>2, LeftTypes, IdleOwesNothing DEF Left
    <3>2. ValueOf(Left(t)) = 0
      BY <3>1, ValueFacts
    <3> QED BY <3>2 DEF Worth
  <2>5. TotalWorth = 0
    <3> DEFINE z == [t \in Observers |-> Worth(t)]
    <3>1. z \in [Observers -> Int] /\ \A t \in Observers : z[t] = 0
      BY <2>4
    <3>2. TotalWorth = SumFunction(z)
      BY DEF TotalWorth
    <3> HIDE DEF z
    <3> QED BY <3>1, <3>2, SumOfNothing, HistogramAssumption
  <2>6. ValueOf(counts) = 0
    <3>1. Zeros \in [Buckets -> Nat] /\ \A i \in Buckets : Zeros[i] = 0
      BY DEF Zeros
    <3> QED BY <2>2, <3>1, ValueFacts
  <2>7. Covered
    BY <2>2, <2>5, <2>6 DEF Covered
  <2>8. ScrapeSumCoversCounts
    <3> SUFFICES ASSUME NEW s \in Scrapers
                 PROVE  scraped[s].sample_sum >=
                          SumFunction([i \in Buckets |-> Own(scraped[s].bucket, i) * LowerEnd(i)])
      BY DEF ScrapeSumCoversCounts
    <3> DEFINE z == [i \in Buckets |-> Own(scraped[s].bucket, i) * LowerEnd(i)]
    <3>1. scraped[s].sample_sum = 0 /\ scraped[s].bucket = Zeros
      BY DEF Init
    <3>2. \A i \in Buckets : Own(Zeros, i) = 0
      BY BucketNumbers DEF Own, Zeros
    <3>3. z \in [Buckets -> Int] /\ \A i \in Buckets : z[i] = 0
      BY <3>1, <3>2, LeastIsLeast
    <3> HIDE DEF z
    <3>4. SumFunction(z) = 0
      BY <3>3, BucketsFinite, SumOfNothing
    <3> QED BY <3>1, <3>4 DEF z
  <2> QED BY <2>3, <2>7, <2>8
<1>2. IInv /\ NInv /\ Owed /\ Covered /\ ScrapeSumCoversCounts /\ [Next]_vars
      => Owed' /\ Covered' /\ ScrapeSumCoversCounts'
  BY CoveredStep, ScrapeCoversStep DEF CInv
<1>3. Init => NInv
  BY HistogramStarts
<1>4. NInv /\ [Next]_vars => NInv'
  BY TypeStep, NothingLostStep DEF NInv
<1> QED BY <1>1, <1>2, <1>3, <1>4, HistogramInvariant, PTL DEF Spec
=============================================================================
