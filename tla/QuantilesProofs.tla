---------------------------- MODULE QuantilesProofs ----------------------------
(***************************************************************************)
(* What is proved of the quantile estimator, for any values, targets and   *)
(* size of its buffer: the sample stays sorted and stands for all values   *)
(* taken in, it overstates no rank, and it keeps the greatest value.       *)
(***************************************************************************)
EXTENDS Quantiles, FiniteSetTheorems, SequenceTheorems, WellFoundedInduction, TLAPS

------------------------------------------------------------------------------
(* Numbers and sequences                                                   *)

(* A set of integers with a lower bound has a least element, if it has any.*)
LEMMA MinIs ==
  ASSUME NEW S \in SUBSET Int, NEW b \in Int, \A x \in S : b <= x, S # {}
  PROVE  Min(S) \in S /\ \A x \in S : Min(S) <= x
<1> DEFINE N == {x - b : x \in S}
<1>1. N \in SUBSET Nat /\ N # {}
  <2>1. \A x \in S : x - b \in Nat
    OBVIOUS
  <2> QED BY <2>1
<1>2. IsWellFoundedOn(OpToRel(<, Nat), Nat)
  BY NatLessThanWellFounded
<1>3. PICK n \in N : \A m \in N : ~(<<m, n>> \in OpToRel(<, Nat))
  BY <1>1, <1>2, WFMin
<1>4. PICK x \in S : n = x - b
  OBVIOUS
<1>5. \A y \in S : x <= y
  <2> SUFFICES ASSUME NEW y \in S PROVE x <= y
    OBVIOUS
  <2>1. y - b \in N /\ y - b \in Nat /\ n \in Nat
    BY <1>1
  <2>2. ~(y - b < n)
    BY <1>3, <2>1 DEF OpToRel
  <2>3. x \in Int /\ y \in Int
    OBVIOUS
  <2> HIDE DEF N
  <2> QED BY <1>4, <2>2, <2>3
<1> QED BY <1>5 DEF Min

(* Induction up to a number.                                               *)
LEMMA UpTo ==
  ASSUME NEW k \in Nat, NEW Q, 0 \in Q, \A n \in 1..k : n - 1 \in Q => n \in Q
  PROVE  \A n \in 0..k : n \in Q
<1> DEFINE Wrong == {n \in 0..k : n \notin Q}
<1> SUFFICES ASSUME Wrong # {} PROVE FALSE
  OBVIOUS
<1>1. PICK n \in Wrong : \A m \in Wrong : n <= m
  <2>1. Wrong \in SUBSET Int /\ 0 \in Int /\ \A x \in Wrong : 0 <= x
    OBVIOUS
  <2> QED BY <2>1, MinIs
<1>2. n \in 1..k /\ n - 1 \in 0..k
  OBVIOUS
<1>3. n - 1 \in Q
  <2>1. ~(n <= n - 1)
    BY <1>2
  <2> QED BY <1>1, <1>2, <2>1
<1> QED BY <1>1, <1>2, <1>3

(* A function that is defined round by round exists: f begins with x0, and *)
(* in round k it goes from x to D[k][x].                                   *)
Rounds(f, n, X, x0, D) ==
  f \in [0..n -> X] /\ f[0] = x0 /\ \A k \in 1..n : f[k] = D[k][f[k - 1]]

(* There is one, whatever the rounds do.                                   *)
LEMMA RoundsExist ==
  ASSUME NEW n \in Nat, NEW X, NEW x0 \in X, NEW D \in [1..n -> [X -> X]]
  PROVE  \E f : Rounds(f, n, X, x0, D)
<1> DEFINE Fits(f, k) == f[k] = IF k = 0 THEN x0 ELSE D[k][f[k - 1]]
           Has(m) == \E f \in [0..m -> X] : \A k \in 0..m : Fits(f, k)
           Q == {m \in Nat : Has(m)}
<1>1. Has(0)
  <2> DEFINE f == [k \in 0..0 |-> x0]
  <2>1. f \in [0..0 -> X] /\ \A k \in 0..0 : Fits(f, k)
    OBVIOUS
  <2> QED BY <2>1
<1>2. ASSUME NEW m \in 1..n, Has(m - 1) PROVE Has(m)
  <2>1. PICK f \in [0..(m - 1) -> X] : \A k \in 0..(m - 1) : Fits(f, k)
    BY <1>2
  <2> DEFINE e == D[m][f[m - 1]]
             g == [k \in 0..m |-> IF k = m THEN e ELSE f[k]]
  <2>2. m \in Nat /\ m # 0 /\ m - 1 \in 0..(m - 1) /\ \A k \in 0..m : k # m => k \in 0..(m - 1)
    OBVIOUS
  <2>3. e \in X
    BY <2>2
  <2> HIDE DEF e
  <2>4. g \in [0..m -> X]
    BY <2>2, <2>3
  <2>5. \A k \in 0..(m - 1) : g[k] = f[k] /\ (k # 0 => k - 1 \in 0..(m - 1) /\ g[k - 1] = f[k - 1])
    BY <2>2
  <2>6. g[m] = e /\ g[m - 1] = f[m - 1]
    BY <2>2
  <2> HIDE DEF g
  <2>7. Fits(g, m)
    BY <2>2, <2>6 DEF e
  <2>8. ASSUME NEW k \in 0..(m - 1) PROVE Fits(g, k)
    BY <2>1, <2>5, <2>8
  <2>9. \A k \in 0..m : Fits(g, k)
    <3> HIDE DEF Fits
    <3> QED BY <2>2, <2>7, <2>8
  <2> HIDE DEF Fits
  <2> QED BY <2>4, <2>9
<1>3. 0 \in Q /\ \A m \in 1..n : m - 1 \in Q => m \in Q
  <2> HIDE DEF Has
  <2> QED BY <1>1, <1>2
<1>4. n \in Q
  <2>1. \A m \in 0..n : m \in Q
    <3> HIDE DEF Q
    <3> QED BY <1>3, UpTo
  <2> QED BY <2>1
<1>5. PICK f \in [0..n -> X] : \A k \in 0..n : Fits(f, k)
  BY <1>4
<1>6. f[0] = x0 /\ \A k \in 1..n : f[k] = D[k][f[k - 1]]
  BY <1>5
<1> QED BY <1>6 DEF Rounds

(* What RemoveAt leaves of a sequence.                                     *)
LEMMA RemoveAtIs ==
  ASSUME NEW S, NEW s \in Seq(S), NEW i \in 1..Len(s)
  PROVE  /\ RemoveAt(s, i) \in Seq(S) /\ Len(RemoveAt(s, i)) = Len(s) - 1
         /\ \A j \in 1..(Len(s) - 1) : RemoveAt(s, i)[j] = IF j < i THEN s[j] ELSE s[j + 1]
<1> DEFINE u == SubSeq(s, 1, i - 1)
           v == SubSeq(s, i + 1, Len(s))
<1>0. Len(s) \in Nat /\ i \in Nat /\ i >= 1 /\ i <= Len(s) /\ \A j \in 1..Len(s) : s[j] \in S
  BY ElementOfSeq, LenProperties
<1>1. u \in Seq(S) /\ Len(u) = i - 1 /\ \A j \in 1..(i - 1) : u[j] = s[j]
  <2>1. 1 \in Int /\ i - 1 \in Int /\ \A j \in 1..(i - 1) : s[j] \in S
    BY <1>0
  <2>2. /\ u \in Seq(S) /\ Len(u) = IF 1 <= i - 1 THEN (i - 1) - 1 + 1 ELSE 0
        /\ \A j \in 1..((i - 1) - 1 + 1) : u[j] = s[1 + j - 1]
    BY <2>1, SubSeqProperties
  <2> HIDE DEF u
  <2> QED BY <1>0, <2>2
<1>2. v \in Seq(S) /\ Len(v) = Len(s) - i /\ \A j \in 1..(Len(s) - i) : v[j] = s[i + j]
  <2>1. i + 1 \in Int /\ Len(s) \in Int /\ \A j \in (i + 1)..Len(s) : s[j] \in S
    BY <1>0
  <2>2. /\ v \in Seq(S) /\ Len(v) = IF i + 1 <= Len(s) THEN Len(s) - (i + 1) + 1 ELSE 0
        /\ \A j \in 1..(Len(s) - (i + 1) + 1) : v[j] = s[i + 1 + j - 1]
    BY <2>1, SubSeqProperties
  <2> HIDE DEF v
  <2> QED BY <1>0, <2>2
<1> HIDE DEF u, v
<1>3. /\ u \o v \in Seq(S) /\ Len(u \o v) = Len(u) + Len(v)
      /\ \A j \in 1..(Len(u) + Len(v)) : (u \o v)[j] = IF j <= Len(u) THEN u[j] ELSE v[j - Len(u)]
  BY <1>1, <1>2, ConcatProperties
<1>4. RemoveAt(s, i) = u \o v
  BY DEF RemoveAt, u, v
<1>5. Len(u) + Len(v) = Len(s) - 1
  BY <1>0, <1>1, <1>2
<1>6. ASSUME NEW j \in 1..(Len(s) - 1) PROVE (u \o v)[j] = IF j < i THEN s[j] ELSE s[j + 1]
  <2>1. CASE j < i
    <3>1. j <= Len(u) /\ j \in 1..(i - 1)
      BY <1>0, <1>1, <2>1
    <3> QED BY <1>1, <1>3, <1>5, <2>1, <3>1
  <2>2. CASE ~(j < i)
    <3>1. ~(j <= Len(u)) /\ j - Len(u) \in 1..(Len(s) - i) /\ i + (j - Len(u)) = j + 1
      BY <1>0, <1>1, <2>2
    <3>2. (u \o v)[j] = v[j - Len(u)]
      BY <1>3, <1>5, <3>1
    <3>3. v[j - Len(u)] = s[i + (j - Len(u))]
      BY <1>2, <3>1
    <3> QED BY <2>2, <3>1, <3>2, <3>3
  <2> QED BY <2>1, <2>2
<1> QED BY <1>3, <1>4, <1>5, <1>6

------------------------------------------------------------------------------
(* Weights                                                                 *)

(* What an item is made of.                                                *)
LEMMA ItemsAre ==
  ASSUME NEW s \in Seq(Item)
  PROVE  /\ Len(s) \in Nat
         /\ \A i \in 1..Len(s) : /\ s[i] \in Item
                                 /\ s[i].value \in Values /\ s[i].value \in Int
                                 /\ s[i].g \in Nat /\ s[i].g >= 1 /\ s[i].delta \in Nat
<1>1. Len(s) \in Nat
  BY LenProperties
<1>2. \A i \in 1..Len(s) : s[i] \in Item
  BY ElementOfSeq
<1>3. Values \subseteq Int
  BY QuantilesAssumption
<1>4. ASSUME NEW i \in 1..Len(s)
      PROVE  /\ s[i].value \in Values /\ s[i].value \in Int
             /\ s[i].g \in Nat /\ s[i].g >= 1 /\ s[i].delta \in Nat
  <2>1. s[i] \in Item
    BY <1>2
  <2>2. s[i].value \in Values /\ s[i].g \in Nat \ {0} /\ s[i].delta \in Nat
    BY <2>1 DEF Item
  <2>3. s[i].value \in Int
    BY <1>3, <2>2
  <2> DEFINE n == s[i].g
  <2>4. n \in Nat \ {0}
    BY <2>2
  <2> HIDE DEF n
  <2>5. n \in Nat /\ n >= 1
    BY <2>4
  <2> QED BY <2>2, <2>3, <2>5 DEF n
<1> QED BY <1>1, <1>2, <1>4

(* The weight of the first items is added up one by one.                   *)
LEMMA WeightIs ==
  ASSUME NEW s \in Seq(Item)
  PROVE  /\ Weight(s, 0) = 0
         /\ \A n \in 1..Len(s) : Weight(s, n) = Weight(s, n - 1) + s[n].g
         /\ \A n \in 0..Len(s) : Weight(s, n) \in Nat
<1>0. Len(s) \in Nat /\ \A n \in 1..Len(s) : s[n].g \in Nat
  BY ItemsAre
<1> DEFINE W == CHOOSE f : f = [i \in 0..Len(s) |-> IF i = 0 THEN 0 ELSE f[i - 1] + s[i].g]
           D == [k \in 1..Len(s) |-> [x \in Nat |-> x + s[k].g]]
<1>1. \A n : Weight(s, n) = W[n]
  BY DEF Weight
<1>2. D \in [1..Len(s) -> [Nat -> Nat]]
  BY <1>0
<1>3. PICK f : Rounds(f, Len(s), Nat, 0, D)
  <2> HIDE DEF D
  <2>1. 0 \in Nat
    OBVIOUS
  <2> QED BY <1>0, <1>2, <2>1, RoundsExist
<1>4. f = [i \in 0..Len(s) |-> IF i = 0 THEN 0 ELSE f[i - 1] + s[i].g]
  <2>1. \A k \in 1..Len(s) : k - 1 \in 0..Len(s) /\ f[k - 1] \in Nat
    BY <1>0, <1>3 DEF Rounds
  <2>2. \A k \in 1..Len(s) : f[k] = f[k - 1] + s[k].g
    BY <1>0, <1>3, <2>1 DEF Rounds
  <2>4. f[0] = 0 /\ f = [i \in 0..Len(s) |-> f[i]]
    BY <1>3 DEF Rounds
  <2> QED BY <1>0, <2>2, <2>4
<1>5. W = [i \in 0..Len(s) |-> IF i = 0 THEN 0 ELSE W[i - 1] + s[i].g]
  BY <1>4
<1> HIDE DEF W, D
<1>6. W[0] = 0 /\ \A n \in 1..Len(s) : W[n] = W[n - 1] + s[n].g
  BY <1>0, <1>5
<1> DEFINE Q == {n \in 0..Len(s) : W[n] \in Nat}
<1>7. 0 \in Q
  BY <1>0, <1>6
<1>9. ASSUME NEW n \in 1..Len(s), n - 1 \in Q PROVE n \in Q
  <2>1. W[n] = W[n - 1] + s[n].g /\ s[n].g \in Nat /\ W[n - 1] \in Nat
    BY <1>0, <1>6, <1>9
  <2> QED BY <1>0, <2>1
<1>8. \A n \in 0..Len(s) : n \in Q
  <2> HIDE DEF Q
  <2> QED BY <1>0, <1>7, <1>9, UpTo
<1> QED BY <1>1, <1>6, <1>8

(* It grows with the number of items.                                      *)
LEMMA WeightGrows ==
  ASSUME NEW s \in Seq(Item), NEW m \in 0..Len(s), NEW n \in m..Len(s)
  PROVE  Weight(s, m) <= Weight(s, n)
<1>0. Len(s) \in Nat /\ \A k \in 1..Len(s) : s[k].g \in Nat
  BY ItemsAre
<1> DEFINE Q == {k \in 0..Len(s) : m <= k => Weight(s, m) <= Weight(s, k)}
<1>1. 0 \in Q
  BY <1>0, WeightIs
<1>2. ASSUME NEW k \in 1..Len(s), k - 1 \in Q PROVE k \in Q
  <2>1. Weight(s, k) = Weight(s, k - 1) + s[k].g /\ Weight(s, k - 1) \in Nat /\ Weight(s, k) \in Nat /\ Weight(s, m) \in Nat
    BY <1>0, WeightIs
  <2>2. s[k].g \in Nat
    BY <1>0
  <2> QED BY <1>2, <2>1, <2>2
<1>3. \A k \in 0..Len(s) : k \in Q
  <2> HIDE DEF Q
  <2> QED BY <1>0, <1>1, <1>2, UpTo
<1> QED BY <1>0, <1>3

------------------------------------------------------------------------------
(* How many are not above a value, and the sorted buffer                   *)

(* How many of the first k are not above v.                                *)
BelowOf(vs, k, v) == Cardinality({i \in 1..k : vs[i] <= v})

(* One more element counts where it is not above.                          *)
LEMMA BelowOneMore ==
  ASSUME NEW vs, NEW v, NEW k \in Nat
  PROVE  /\ BelowOf(vs, 0, v) = 0
         /\ BelowOf(vs, k, v) \in 0..k
         /\ BelowOf(vs, k + 1, v) = BelowOf(vs, k, v) + (IF vs[k + 1] <= v THEN 1 ELSE 0)
<1> DEFINE B(n) == {i \in 1..n : vs[i] <= v}
<1>1. IsFiniteSet(1..k) /\ Cardinality(1..k) = k
  BY FS_Interval
<1>2. IsFiniteSet(B(k)) /\ Cardinality(B(k)) \in Nat /\ Cardinality(B(k)) <= k
  BY <1>1, FS_Subset, FS_CardinalityType
<1>3. B(0) = {}
  OBVIOUS
<1>4. CASE vs[k + 1] <= v
  <2>1. B(k + 1) = B(k) \cup {k + 1} /\ k + 1 \notin B(k)
    BY <1>4
  <2>2. Cardinality(B(k + 1)) = Cardinality(B(k)) + 1
    <3> HIDE DEF B
    <3> QED BY <1>2, <2>1, FS_AddElement
  <2> QED BY <1>2, <1>3, <1>4, <2>2, FS_EmptySet DEF BelowOf
<1>5. CASE ~(vs[k + 1] <= v)
  <2>1. B(k + 1) = B(k)
    BY <1>5
  <2> QED BY <1>2, <1>3, <1>5, <2>1, FS_EmptySet DEF BelowOf
<1> QED BY <1>4, <1>5

(* A greater value has no fewer below it.                                  *)
LEMMA BelowGrows ==
  ASSUME NEW vs \in Seq(Int), NEW k \in 0..Len(vs), NEW v \in Int, NEW w \in Int, v <= w
  PROVE  BelowOf(vs, k, v) <= BelowOf(vs, k, w)
<1>0. Len(vs) \in Nat /\ \A i \in 1..Len(vs) : vs[i] \in Int
  BY ElementOfSeq, LenProperties
<1> DEFINE B(x) == {i \in 1..k : vs[i] <= x}
<1>1. B(v) \in SUBSET B(w)
  BY <1>0
<1>2. IsFiniteSet(B(w))
  <2>1. IsFiniteSet(1..k)
    BY <1>0, FS_Interval
  <2> QED BY <2>1, FS_Subset
<1>3. Cardinality(B(v)) <= Cardinality(B(w))
  <2> HIDE DEF B
  <2> QED BY <1>1, <1>2, FS_Subset
<1> QED BY <1>3 DEF BelowOf

(* In a sequence that begins with the first k of vs, just as many.         *)
LEMMA BelowOfPart ==
  ASSUME NEW vs, NEW us, NEW k \in Nat, \A i \in 1..k : us[i] = vs[i], NEW v
  PROVE  BelowOf(us, k, v) = BelowOf(vs, k, v)
<1>1. {i \in 1..k : us[i] <= v} = {i \in 1..k : vs[i] <= v}
  OBVIOUS
<1> QED BY <1>1 DEF BelowOf

(* Below is BelowOf the whole sequence.                                    *)
LEMMA BelowIs ==
  ASSUME NEW vs \in Seq(Int)
  PROVE  /\ Len(vs) \in Nat
         /\ \A v : Below(vs, v) = BelowOf(vs, Len(vs), v) /\ Below(vs, v) \in 0..Len(vs)
         /\ \A v, w \in Int : v <= w => Below(vs, v) <= Below(vs, w)
<1>1. Len(vs) \in Nat
  BY LenProperties
<1>2. \A v : Below(vs, v) = BelowOf(vs, Len(vs), v)
  BY DEF Below, BelowOf
<1>3. \A v : BelowOf(vs, Len(vs), v) \in 0..Len(vs)
  BY <1>1, BelowOneMore
<1>4. \A v, w \in Int : v <= w => BelowOf(vs, Len(vs), v) <= BelowOf(vs, Len(vs), w)
  <2>1. Len(vs) \in 0..Len(vs)
    BY <1>1
  <2> QED BY <2>1, BelowGrows
<1> QED BY <1>1, <1>2, <1>3, <1>4

(* The elements of a sequence of integers have a lower bound.              *)
LEMMA LowerBound ==
  ASSUME NEW vs \in Seq(Int)
  PROVE  \E b \in Int : \A i \in 1..Len(vs) : b <= vs[i]
<1>0. Len(vs) \in Nat /\ \A i \in 1..Len(vs) : vs[i] \in Int
  BY ElementOfSeq, LenProperties
<1> DEFINE Bounded(k) == \E b \in Int : \A i \in 1..k : b <= vs[i]
           Q == {k \in 0..Len(vs) : Bounded(k)}
<1>1. 0 \in Q
  <2>1. 0 \in 0..Len(vs) /\ 1..0 = {} /\ 0 \in Int
    BY <1>0
  <2>2. Bounded(0)
    BY <2>1
  <2> HIDE DEF Bounded
  <2> QED BY <2>1, <2>2
<1>2. ASSUME NEW k \in 1..Len(vs), k - 1 \in Q PROVE k \in Q
  <2>1. PICK b \in Int : \A i \in 1..(k - 1) : b <= vs[i]
    BY <1>2
  <2> DEFINE c == IF b <= vs[k] THEN b ELSE vs[k]
  <2>2. c \in Int /\ c <= b /\ c <= vs[k]
    BY <1>0
  <2>3. \A i \in 1..k : c <= vs[i]
    <3> SUFFICES ASSUME NEW i \in 1..k PROVE c <= vs[i]
      OBVIOUS
    <3>1. CASE i = k
      BY <2>2, <3>1
    <3>2. CASE i # k
      <4>1. i \in 1..(k - 1) /\ i \in 1..Len(vs)
        BY <1>0, <3>2
      <4>2. b <= vs[i] /\ vs[i] \in Int
        BY <1>0, <2>1, <4>1
      <4> HIDE DEF c
      <4> QED BY <2>2, <4>2
    <3> QED BY <3>1, <3>2
  <2>4. Bounded(k)
    <3> HIDE DEF c
    <3> QED BY <2>2, <2>3
  <2> HIDE DEF Bounded
  <2> QED BY <1>0, <2>4
<1>3. \A k \in 0..Len(vs) : k \in Q
  <2> HIDE DEF Q
  <2> QED BY <1>0, <1>1, <1>2, UpTo
<1>4. Bounded(Len(vs))
  <2>1. Len(vs) \in 0..Len(vs)
    BY <1>0
  <2> HIDE DEF Bounded
  <2> QED BY <1>3, <2>1
<1> QED BY <1>4

(* InOrder is the sorted sequence: it ascends, and it has as many elements *)
(* below any value as the sequence it was made of.                         *)
LEMMA InOrderIs ==
  ASSUME NEW vs \in Seq(Values)
  PROVE  /\ InOrder(vs) \in Seq(Values) /\ Len(InOrder(vs)) = Len(vs)
         /\ \A j, k \in 1..Len(vs) : j <= k => InOrder(vs)[j] <= InOrder(vs)[k]
         /\ \A v \in Int : Below(InOrder(vs), v) = Below(vs, v)
<1>0. /\ Values \subseteq Int /\ Len(vs) \in Nat /\ vs \in Seq(Int) /\ DOMAIN vs = 1..Len(vs)
      /\ \A i \in 1..Len(vs) : vs[i] \in Values
  <2>1. Values \subseteq Int
    BY QuantilesAssumption
  <2> QED BY <2>1, ElementOfSeq, LenProperties, SeqMonotonic
<1> DEFINE Enough(k) == {v \in Range(vs) : Below(vs, v) >= k}
           r == InOrder(vs)
<1>1. Range(vs) = {vs[i] : i \in 1..Len(vs)} /\ Range(vs) \subseteq Values
  BY <1>0 DEF Range
<1>2. \A v \in Int : Below(vs, v) \in 0..Len(vs)
  BY <1>0, BelowIs
<1>3. ASSUME NEW k \in 1..Len(vs), NEW v \in Int, Below(vs, v) >= k
      PROVE  \E w \in Enough(k) : w <= v
  <2> DEFINE S == {0 - w : w \in {u \in Range(vs) : u <= v}}
  <2>1. {i \in 1..Len(vs) : vs[i] <= v} # {}
    <3> SUFFICES ASSUME {i \in 1..Len(vs) : vs[i] <= v} = {} PROVE FALSE
      OBVIOUS
    <3>1. Below(vs, v) = 0
      BY FS_EmptySet DEF Below
    <3> QED BY <1>3, <3>1
  <2>2. PICK i \in 1..Len(vs) : vs[i] <= v
    BY <2>1
  <2>3. S \in SUBSET Int /\ S # {} /\ \A x \in S : 0 - v <= x
    <3>1. vs[i] \in {u \in Range(vs) : u <= v}
      BY <1>1, <2>2
    <3>2. \A w \in {u \in Range(vs) : u <= v} : w \in Int /\ w <= v /\ 0 - w \in Int /\ 0 - v <= 0 - w
      BY <1>0, <1>1
    <3> QED BY <3>1, <3>2
  <2>4. PICK x \in S : \A y \in S : x <= y
    <3>1. 0 - v \in Int
      OBVIOUS
    <3> HIDE DEF S
    <3> QED BY <2>3, <3>1, MinIs
  <2>5. PICK w \in Range(vs) : w <= v /\ x = 0 - w
    BY <2>4
  <2>6. w \in Int
    BY <1>0, <1>1
  <2>7. \A j \in 1..Len(vs) : vs[j] <= v <=> vs[j] <= w
    <3> SUFFICES ASSUME NEW j \in 1..Len(vs) PROVE vs[j] <= v <=> vs[j] <= w
      OBVIOUS
    <3>1. vs[j] \in Int /\ vs[j] \in Range(vs)
      BY <1>0, <1>1
    <3>2. ASSUME vs[j] <= v PROVE vs[j] <= w
      <4>1. 0 - vs[j] \in S
        BY <3>1, <3>2
      <4>2. x <= 0 - vs[j]
        BY <2>4, <4>1
      <4> QED BY <2>5, <2>6, <3>1, <4>2
    <3>3. ASSUME vs[j] <= w PROVE vs[j] <= v
      BY <2>5, <2>6, <3>1, <3>3
    <3> QED BY <3>2, <3>3
  <2>8. Below(vs, w) = Below(vs, v)
    <3>1. {j \in 1..Len(vs) : vs[j] <= v} = {j \in 1..Len(vs) : vs[j] <= w}
      BY <2>7
    <3> QED BY <3>1 DEF Below
  <2>9. w \in Enough(k)
    BY <1>3, <2>8
  <2> QED BY <2>5, <2>9
<1>5. ASSUME NEW k \in 1..Len(vs)
      PROVE  /\ r[k] \in Enough(k) /\ \A v \in Enough(k) : r[k] <= v
  <2>1. PICK b \in Int : \A i \in 1..Len(vs) : b <= vs[i]
    BY <1>0, LowerBound
  <2>2. Enough(k) \in SUBSET Int /\ \A x \in Enough(k) : b <= x
    BY <1>0, <1>1, <2>1
  <2>3. Enough(k) # {}
    <3>1. PICK v \in Int : \A i \in 1..Len(vs) : vs[i] <= v
      <4> DEFINE us == [i \in 1..Len(vs) |-> 0 - vs[i]]
      <4>1. us \in Seq(Int) /\ Len(us) = Len(vs)
        BY <1>0
      <4>2. PICK c \in Int : \A i \in 1..Len(vs) : c <= us[i]
        <5> HIDE DEF us
        <5> QED BY <4>1, LowerBound
      <4>3. \A i \in 1..Len(vs) : vs[i] <= 0 - c
        BY <1>0, <4>2
      <4>4. 0 - c \in Int
        OBVIOUS
      <4> QED BY <4>3, <4>4
    <3>2. Below(vs, v) = Len(vs)
      <4>1. {i \in 1..Len(vs) : vs[i] <= v} = 1..Len(vs)
        BY <3>1
      <4> DEFINE m == Len(vs)
      <4>2. m \in Nat
        BY <1>0
      <4> HIDE DEF m
      <4>3. Cardinality(1..m) = m
        BY <4>2, FS_Interval
      <4> QED BY <4>1, <4>3 DEF Below, m
    <3>3. Below(vs, v) >= k
      BY <1>0, <3>2
    <3> QED BY <1>3, <3>3
  <2>4. r[k] = Min(Enough(k))
    BY DEF InOrder
  <2> HIDE DEF Enough, r
  <2> QED BY <2>2, <2>3, <2>4, MinIs
<1>6. \A k \in 1..Len(vs) : r[k] \in Values /\ r[k] \in Int
  BY <1>0, <1>1, <1>5
<1>7. r \in Seq(Values) /\ Len(r) = Len(vs) /\ r \in Seq(Int)
  <2>1. r = [k \in 1..Len(vs) |-> r[k]]
    BY DEF InOrder
  <2> HIDE DEF r
  <2>2. r \in Seq(Values) /\ Len(r) = Len(vs)
    BY <1>0, <1>6, <2>1
  <2> QED BY <1>0, <2>2, SeqMonotonic
<1>8. ASSUME NEW j \in 1..Len(vs), NEW k \in 1..Len(vs), j <= k PROVE r[j] <= r[k]
  <2>1. r[k] \in Enough(j)
    <3>1. r[k] \in Range(vs) /\ Below(vs, r[k]) >= k
      BY <1>5
    <3>2. Below(vs, r[k]) \in Int
      <4>1. Below(vs, r[k]) \in 0..Len(vs)
        <5> HIDE DEF r
        <5> QED BY <1>2, <1>6
      <4> HIDE DEF r
      <4> QED BY <4>1
    <3> HIDE DEF r
    <3> QED BY <1>8, <3>1, <3>2
  <2> QED BY <1>5, <2>1
<1>9. ASSUME NEW v \in Int PROVE Below(r, v) = Below(vs, v)
  <2>1. Below(vs, v) \in 0..Len(vs)
    BY <1>2
  <2>2. ASSUME NEW k \in 1..Len(vs) PROVE r[k] <= v <=> k <= Below(vs, v)
    <3>1. ASSUME k <= Below(vs, v) PROVE r[k] <= v
      <4>1. PICK w \in Enough(k) : w <= v
        BY <1>0, <1>3, <2>1, <3>1
      <4>2. r[k] <= w /\ w \in Int
        BY <1>0, <1>1, <1>5
      <4> HIDE DEF r
      <4> QED BY <1>6, <4>1, <4>2
    <3>2. ASSUME r[k] <= v PROVE k <= Below(vs, v)
      <4>1. Below(vs, r[k]) >= k
        BY <1>5
      <4>2. Below(vs, r[k]) <= Below(vs, v)
        BY <1>0, <1>6, <3>2, BelowIs
      <4>3. Below(vs, r[k]) \in Int
        <5>1. Below(vs, r[k]) \in 0..Len(vs)
          <6> HIDE DEF r
          <6> QED BY <1>2, <1>6
        <5> HIDE DEF r
        <5> QED BY <5>1
      <4> HIDE DEF r
      <4> QED BY <2>1, <4>1, <4>2, <4>3
    <3> QED BY <3>1, <3>2
  <2>3. {k \in 1..Len(r) : r[k] <= v} = 1..Below(vs, v)
    <3>1. \A k : k \in 1..Len(vs) /\ k <= Below(vs, v) <=> k \in 1..Below(vs, v)
      BY <1>0, <2>1
    <3> HIDE DEF r
    <3> QED BY <1>7, <2>2, <3>1
  <2>4. Cardinality(1..Below(vs, v)) = Below(vs, v)
    <3> DEFINE m == Below(vs, v)
    <3>1. m \in Nat
      BY <2>1
    <3> HIDE DEF m
    <3>2. Cardinality(1..m) = m
      BY <3>1, FS_Interval
    <3> QED BY <3>2 DEF m
  <2>5. Below(r, v) = Cardinality({k \in 1..Len(r) : r[k] <= v})
    BY DEF Below
  <2> QED BY <2>3, <2>4, <2>5
<1> HIDE DEF r
<1>10. r = InOrder(vs)
  BY DEF r
<1> QED BY <1>7, <1>8, <1>9, <1>10

------------------------------------------------------------------------------
(* Insertion                                                               *)

(* What InsertAt makes of a sequence.                                      *)
LEMMA InsertAtIs ==
  ASSUME NEW S, NEW s \in Seq(S), NEW i \in 1..(Len(s) + 1), NEW e \in S
  PROVE  /\ InsertAt(s, i, e) \in Seq(S) /\ Len(InsertAt(s, i, e)) = Len(s) + 1
         /\ \A j \in 1..(Len(s) + 1) :
              InsertAt(s, i, e)[j] = IF j < i THEN s[j] ELSE IF j = i THEN e ELSE s[j - 1]
<1> DEFINE u == SubSeq(s, 1, i - 1)
           v == SubSeq(s, i, Len(s))
           w == u \o <<e>>
<1>0. Len(s) \in Nat /\ i \in Nat /\ i >= 1 /\ i <= Len(s) + 1 /\ \A j \in 1..Len(s) : s[j] \in S
  BY ElementOfSeq, LenProperties
<1>1. u \in Seq(S) /\ Len(u) = i - 1 /\ \A j \in 1..(i - 1) : u[j] = s[j]
  <2>1. 1 \in Int /\ i - 1 \in Int /\ \A j \in 1..(i - 1) : s[j] \in S
    BY <1>0
  <2>2. /\ u \in Seq(S) /\ Len(u) = IF 1 <= i - 1 THEN (i - 1) - 1 + 1 ELSE 0
        /\ \A j \in 1..((i - 1) - 1 + 1) : u[j] = s[1 + j - 1]
    BY <2>1, SubSeqProperties
  <2> HIDE DEF u
  <2> QED BY <1>0, <2>2
<1>2. v \in Seq(S) /\ Len(v) = Len(s) - i + 1 /\ \A j \in 1..(Len(s) - i + 1) : v[j] = s[i + j - 1]
  <2>1. i \in Int /\ Len(s) \in Int /\ \A j \in i..Len(s) : s[j] \in S
    BY <1>0
  <2>2. /\ v \in Seq(S) /\ Len(v) = IF i <= Len(s) THEN Len(s) - i + 1 ELSE 0
        /\ \A j \in 1..(Len(s) - i + 1) : v[j] = s[i + j - 1]
    BY <2>1, SubSeqProperties
  <2> HIDE DEF v
  <2> QED BY <1>0, <2>2
<1> HIDE DEF u, v
<1>3. <<e>> \in Seq(S) /\ Len(<<e>>) = 1 /\ <<e>>[1] = e
  OBVIOUS
<1>4. /\ w \in Seq(S) /\ Len(w) = Len(u) + Len(<<e>>)
      /\ \A j \in 1..(Len(u) + Len(<<e>>)) : w[j] = IF j <= Len(u) THEN u[j] ELSE <<e>>[j - Len(u)]
  BY <1>1, <1>3, ConcatProperties
<1> HIDE DEF w
<1>5. Len(w) = i /\ w[i] = e /\ \A j \in 1..(i - 1) : w[j] = s[j]
  <2>1. Len(u) + Len(<<e>>) = i
    BY <1>0, <1>1, <1>3
  <2>2. i \in 1..i /\ ~(i <= Len(u)) /\ i - Len(u) = 1
    BY <1>0, <1>1
  <2>3. w[i] = e
    BY <1>3, <1>4, <2>1, <2>2
  <2>4. \A j \in 1..(i - 1) : j \in 1..i /\ j <= Len(u)
    BY <1>0, <1>1
  <2> QED BY <1>1, <1>4, <2>1, <2>3, <2>4
<1>6. /\ w \o v \in Seq(S) /\ Len(w \o v) = Len(w) + Len(v)
      /\ \A j \in 1..(Len(w) + Len(v)) : (w \o v)[j] = IF j <= Len(w) THEN w[j] ELSE v[j - Len(w)]
  <2>1. w \in Seq(S) /\ v \in Seq(S)
    BY <1>2, <1>4
  <2> QED BY <2>1, ConcatProperties
<1>7. InsertAt(s, i, e) = w \o v
  BY DEF InsertAt, w, u, v
<1>8. Len(w) + Len(v) = Len(s) + 1
  BY <1>0, <1>2, <1>5
<1>9. ASSUME NEW j \in 1..(Len(s) + 1)
      PROVE  (w \o v)[j] = IF j < i THEN s[j] ELSE IF j = i THEN e ELSE s[j - 1]
  <2>1. CASE j <= i
    <3>1. (w \o v)[j] = w[j]
      BY <1>5, <1>6, <1>8, <2>1
    <3> QED BY <1>0, <1>5, <2>1, <3>1
  <2>2. CASE ~(j <= i)
    <3>1. ~(j <= Len(w)) /\ j - Len(w) \in 1..(Len(s) - i + 1) /\ i + (j - Len(w)) - 1 = j - 1
      BY <1>0, <1>5, <2>2
    <3>2. (w \o v)[j] = v[j - Len(w)]
      BY <1>6, <1>8, <3>1
    <3>3. v[j - Len(w)] = s[i + (j - Len(w)) - 1]
      BY <1>2, <3>1
    <3> QED BY <1>0, <2>2, <3>1, <3>2, <3>3
  <2> QED BY <2>1, <2>2
<1> QED BY <1>6, <1>7, <1>8, <1>9

(* A product of natural numbers is one. *)
LEMMA ProductType == \A m, n \in Nat : m * n \in Nat
  OBVIOUS

(* An allowable error is not negative.                                     *)
LEMMA AllowableErrorType ==
  ASSUME NEW rank \in Nat, NEW size \in Nat
  PROVE  AllowableError(rank, size) \in Nat
<1> DEFINE E(t) == IF rank * 100 <= t.quantile * size THEN U(t) * (size - rank) ELSE V(t) * rank
           S == {(size + 1) * Unit} \cup {E(t) : t \in Targets}
<1>0. Unit \in Nat /\ Unit >= 1 /\ \A t \in Targets : t.quantile \in 1..99 /\ t.error \in 1..99
  BY QuantilesAssumption
<1>1. (size + 1) * Unit \in Nat
  BY <1>0, ProductType
<1>2. ASSUME NEW t \in Targets PROVE E(t) \in Nat
  <2> DEFINE q == t.quantile
             x == 2 * t.error * Unit
  <2>1. q \in Nat /\ q >= 1 /\ q <= 99 /\ 2 * t.error \in Nat
    BY <1>0
  <2>2. x \in Nat
    BY <1>0, <2>1, ProductType
  <2> HIDE DEF x, q
  <2>3. x \div (100 - q) \in Nat /\ x \div q \in Nat
    BY <2>1, <2>2
  <2>4. U(t) \in Nat /\ V(t) \in Nat
    BY <2>3 DEF U, V, q, x
  <2>5. CASE rank * 100 <= q * size
    <3>1. q * size <= 99 * size
      BY <2>1
    <3>2. size - rank \in Nat
      <4>1. q * size \in Nat
        BY <2>1, ProductType
      <4> DEFINE y == q * size
      <4> HIDE DEF y
      <4>2. y \in Nat /\ rank * 100 <= y /\ y <= 99 * size
        BY <2>5, <3>1, <4>1 DEF y
      <4> QED BY <4>2
    <3>3. U(t) * (size - rank) \in Nat
      BY <2>4, <3>2, ProductType
    <3> QED BY <2>5, <3>3 DEF q
  <2>6. CASE ~(rank * 100 <= q * size)
    <3>1. V(t) * rank \in Nat
      BY <2>4, ProductType
    <3> QED BY <2>6, <3>1 DEF q
  <2> QED BY <2>5, <2>6
<1>3. S \in SUBSET Int /\ S # {} /\ 0 \in Int /\ \A x \in S : 0 <= x
  <2> HIDE DEF E
  <2> QED BY <1>1, <1>2
<1>4. Min(S) \in S
  <2> HIDE DEF S
  <2> QED BY <1>3, MinIs
<1>5. Min(S) \in Nat
  <2> HIDE DEF E
  <2> QED BY <1>1, <1>2, <1>4
<1> QED BY <1>5 DEF AllowableError

(* So neither is the delta of a new item.                                  *)
LEMMA DeltaType ==
  ASSUME NEW s \in Seq(Item), NEW idx \in 0..Len(s)
  PROVE  Delta(s, idx) \in Nat
<1> DEFINE a == AllowableError(idx + 1, Len(s))
<1>1. a \in Nat
  <2>1. idx + 1 \in Nat /\ Len(s) \in Nat
    BY ItemsAre
  <2> QED BY <2>1, AllowableErrorType
<1>2. Unit \in Nat /\ Unit >= 1
  BY QuantilesAssumption
<1> HIDE DEF a
<1>3. a \div Unit + 1 \in Nat
  BY <1>1, <1>2
<1> QED BY <1>3 DEF Delta, a

(* What a sample is to the values it took in: T[v] says how many of them   *)
(* are not above v, and n how many they are.                               *)
Good(s, T, n) ==
  /\ s \in Seq(Item) /\ T \in [Values -> Nat] /\ n \in Nat
  /\ \A i, j \in 1..Len(s) : i <= j => s[i].value <= s[j].value
  /\ Weight(s, Len(s)) = n
  /\ \A i \in 1..Len(s) : Weight(s, i) <= T[s[i].value]
  /\ \A v, w \in Values : v <= w => T[v] <= T[w]
  /\ \A v \in Values : T[v] <= n
  /\ s # <<>> => T[s[Len(s)].value] = n

(* One more value v taken in.                                              *)
OneMore(T, v) == [w \in Values |-> IF v <= w THEN T[w] + 1 ELSE T[w]]

(* The item of a new value counts once, from its place on.                 *)
LEMMA WeightInserted ==
  ASSUME NEW s \in Seq(Item), NEW p \in 1..(Len(s) + 1), NEW e \in Item, e.g = 1
  PROVE  \A j \in 0..(Len(s) + 1) :
           Weight(InsertAt(s, p, e), j) = IF j < p THEN Weight(s, j) ELSE Weight(s, j - 1) + 1
<1> DEFINE r == InsertAt(s, p, e)
           Q == {j \in 0..(Len(s) + 1) : Weight(r, j) = IF j < p THEN Weight(s, j) ELSE Weight(s, j - 1) + 1}
<1>0. Len(s) \in Nat /\ p \in Nat /\ p >= 1 /\ p <= Len(s) + 1
  BY LenProperties
<1>1. /\ r \in Seq(Item) /\ Len(r) = Len(s) + 1
      /\ \A j \in 1..(Len(s) + 1) : r[j] = IF j < p THEN s[j] ELSE IF j = p THEN e ELSE s[j - 1]
  BY InsertAtIs
<1> HIDE DEF r
<1>2. 0 \in Q
  BY <1>0, <1>1, WeightIs
<1>3. ASSUME NEW j \in 1..(Len(s) + 1), j - 1 \in Q PROVE j \in Q
  <2>1. Weight(r, j) = Weight(r, j - 1) + r[j].g
    BY <1>1, <1>3, WeightIs
  <2>2. CASE j < p
    <3>1. j \in 1..Len(s) /\ j - 1 < p /\ r[j] = s[j]
      BY <1>0, <1>1, <2>2
    <3>2. Weight(s, j) = Weight(s, j - 1) + s[j].g
      BY <3>1, WeightIs
    <3>3. Weight(r, j - 1) = Weight(s, j - 1)
      BY <1>3, <3>1
    <3>4. Weight(r, j) = Weight(s, j)
      BY <2>1, <3>1, <3>2, <3>3
    <3> QED BY <1>3, <2>2, <3>4
  <2>3. CASE j = p
    <3>1. j - 1 < p /\ r[j] = e
      BY <1>0, <1>1, <2>3
    <3>2. Weight(r, j - 1) = Weight(s, j - 1)
      BY <1>3, <3>1
    <3>3. Weight(r, j) = Weight(s, j - 1) + 1
      BY <2>1, <3>1, <3>2
    <3>4. ~(j < p)
      BY <1>0, <2>3
    <3> QED BY <1>3, <3>3, <3>4
  <2>4. CASE j > p
    <3>1. j - 1 \in 1..Len(s) /\ ~(j - 1 < p) /\ ~(j < p) /\ r[j] = s[j - 1] /\ (j - 1) - 1 \in 0..Len(s)
      BY <1>0, <1>1, <2>4
    <3>2. Weight(s, j - 1) = Weight(s, (j - 1) - 1) + s[j - 1].g
      BY <3>1, WeightIs
    <3>3. Weight(r, j - 1) = Weight(s, (j - 1) - 1) + 1
      BY <1>3, <3>1
    <3>4. s[j - 1].g \in Nat /\ Weight(s, (j - 1) - 1) \in Nat
      BY <3>1, ItemsAre, WeightIs
    <3>5. Weight(r, j) = Weight(s, j - 1) + 1
      BY <2>1, <3>1, <3>2, <3>3, <3>4
    <3> QED BY <1>3, <3>1, <3>5
  <2> QED BY <1>0, <2>2, <2>3, <2>4
<1>4. \A j \in 0..(Len(s) + 1) : j \in Q
  <2>1. Len(s) + 1 \in Nat
    BY <1>0
  <2> HIDE DEF Q
  <2> QED BY <1>2, <1>3, <2>1, UpTo
<1> QED BY <1>4 DEF r

(* Where the item of a new value goes: those before it are not above the   *)
(* value, those after it not below, provided that the search begins behind *)
(* items that are not above it.                                            *)
LEMMA PlaceIsRight ==
  ASSUME NEW s \in Seq(Item), s # <<>>, NEW item \in 0..(Len(s) - 1), NEW v \in Values,
         \A i, j \in 1..Len(s) : i <= j => s[i].value <= s[j].value,
         \A i \in 1..item : s[i].value <= v,
         NEW idx, idx = InsertionIndex(s, Advance(s, item, v), v)
  PROVE  /\ idx \in 0..Len(s)
         /\ \A i \in 1..idx : s[i].value <= v
         /\ \A i \in (idx + 1)..Len(s) : v <= s[i].value
<1> DEFINE S == {k \in item..(Len(s) - 1) : At(s, k).value >= v} \cup {Len(s) - 1}
           stop == Advance(s, item, v)
<1>0. /\ Len(s) \in Nat /\ Len(s) >= 1 /\ item \in Nat /\ item <= Len(s) - 1 /\ v \in Int
      /\ \A i \in 1..Len(s) : s[i].value \in Int
  <2>1. Len(s) \in Nat /\ Len(s) >= 1
    BY EmptySeq, LenProperties
  <2>2. v \in Int
    BY QuantilesAssumption
  <2> QED BY <2>1, <2>2, ItemsAre
<1>1. stop \in S /\ \A k \in S : stop <= k
  <2>1. S \in SUBSET Int /\ S # {} /\ item \in Int /\ \A k \in S : item <= k
    BY <1>0
  <2>2. stop = Min(S)
    BY DEF Advance
  <2> HIDE DEF S, stop
  <2> QED BY <2>1, <2>2, MinIs
<1> HIDE DEF stop
<1>2. stop \in item..(Len(s) - 1) /\ stop + 1 \in 1..Len(s)
  BY <1>0, <1>1
<1>3. idx = IF s[stop + 1].value > v THEN stop ELSE stop + 1
  BY DEF InsertionIndex, At, stop
<1>4. \A i \in 1..stop : s[i].value <= v
  <2> SUFFICES ASSUME NEW i \in 1..stop PROVE s[i].value <= v
    OBVIOUS
  <2>1. CASE i <= item
    BY <1>0, <1>2, <2>1
  <2>2. CASE ~(i <= item)
    <3>1. i - 1 \in item..(Len(s) - 1) /\ ~(stop <= i - 1) /\ (i - 1) + 1 = i /\ i \in 1..Len(s)
      BY <1>0, <1>2, <2>2
    <3>2. i - 1 \notin S
      BY <1>1, <3>1
    <3>3. ~(s[i].value >= v)
      BY <3>1, <3>2 DEF At
    <3> QED BY <1>0, <3>1, <3>3
  <2> QED BY <2>1, <2>2
<1>5. CASE s[stop + 1].value > v
  <2>1. idx = stop
    BY <1>3, <1>5
  <2>2. ASSUME NEW i \in (stop + 1)..Len(s) PROVE v <= s[i].value
    <3>1. i \in 1..Len(s) /\ stop + 1 <= i
      BY <1>0, <1>2
    <3>2. s[stop + 1].value <= s[i].value
      BY <1>2, <3>1
    <3> QED BY <1>0, <1>2, <1>5, <3>1, <3>2
  <2>3. stop \in 0..Len(s)
    BY <1>0, <1>2
  <2> QED BY <1>4, <2>1, <2>2, <2>3
<1>6. CASE ~(s[stop + 1].value > v)
  <2>1. idx = stop + 1
    BY <1>3, <1>6
  <2>2. s[stop + 1].value <= v
    BY <1>0, <1>2, <1>6
  <2>3. ASSUME NEW i \in 1..(stop + 1) PROVE s[i].value <= v
    <3>1. i = stop + 1 \/ i \in 1..stop
      BY <1>0, <1>2
    <3> QED BY <1>4, <2>2, <3>1
  <2>4. ASSUME NEW i \in (stop + 2)..Len(s) PROVE v <= s[i].value
    <3>1. i \in 1..Len(s) /\ stop + 1 <= i /\ stop # Len(s) - 1
      BY <1>0, <1>2
    <3>2. s[stop + 1].value >= v
      BY <1>1, <3>1 DEF At
    <3>3. s[stop + 1].value <= s[i].value
      BY <1>2, <3>1
    <3> QED BY <1>0, <1>2, <3>1, <3>2, <3>3
  <2>5. stop + 1 \in 0..Len(s) /\ (stop + 1) + 1 = stop + 2
    BY <1>0, <1>2
  <2> QED BY <2>1, <2>3, <2>4, <2>5
<1> QED BY <1>5, <1>6

(* What OneMore makes of such counts.                                      *)
LEMMA OneMoreIs ==
  ASSUME NEW T \in [Values -> Nat], NEW n \in Nat, NEW v \in Values,
         \A x, w \in Values : x <= w => T[x] <= T[w],
         \A w \in Values : T[w] <= n
  PROVE  /\ OneMore(T, v) \in [Values -> Nat]
         /\ \A w \in Values : OneMore(T, v)[w] = T[w] + (IF v <= w THEN 1 ELSE 0)
         /\ \A x, w \in Values : x <= w => OneMore(T, v)[x] <= OneMore(T, v)[w]
         /\ \A w \in Values : OneMore(T, v)[w] <= n + 1
<1>0. Values \subseteq Int
  BY QuantilesAssumption
<1> DEFINE R == OneMore(T, v)
<1>1. R \in [Values -> Nat] /\ \A w \in Values : R[w] = T[w] + (IF v <= w THEN 1 ELSE 0)
  BY DEF OneMore
<1> HIDE DEF R
<1>2. ASSUME NEW x \in Values, NEW w \in Values, x <= w PROVE R[x] <= R[w]
  <2>1. x \in Int /\ w \in Int /\ v \in Int /\ T[x] \in Nat /\ T[w] \in Nat /\ T[x] <= T[w]
    BY <1>0, <1>2
  <2>2. v <= x => v <= w
    BY <1>2, <2>1
  <2> QED BY <1>1, <2>1, <2>2
<1>3. ASSUME NEW w \in Values PROVE R[w] <= n + 1
  <2>1. T[w] \in Nat /\ T[w] <= n
    OBVIOUS
  <2> QED BY <1>1, <2>1
<1> QED BY <1>1, <1>2, <1>3 DEF R

(* One round of the loop over the buffer keeps a sample good.              *)
LEMMA InsertNextKeeps ==
  ASSUME NEW s, NEW T, NEW n, Good(s, T, n), s # <<>>, NEW item \in 0..(Len(s) - 1), NEW v \in Values,
         \A i \in 1..item : s[i].value <= v
  PROVE  LET x == InsertNext(<<s, item>>, v)
         IN  /\ x \in Seq(Item) \X Nat
             /\ Good(x[1], OneMore(T, v), n + 1)
             /\ x[1] # <<>> /\ x[2] \in 0..(Len(x[1]) - 1)
             /\ \A i \in 1..x[2] : x[1][i].value <= v
<1> DEFINE idx == InsertionIndex(s, Advance(s, item, v), v)
           e == [value |-> v, g |-> 1, delta |-> Delta(s, idx)]
           r == InsertAt(s, idx + 1, e)
           R == OneMore(T, v)
<1>0. /\ s \in Seq(Item) /\ T \in [Values -> Nat] /\ n \in Nat /\ Len(s) \in Nat /\ Len(s) >= 1 /\ v \in Int
      /\ \A i \in 1..Len(s) : s[i].value \in Values /\ s[i].value \in Int /\ T[s[i].value] \in Nat
  <2>1. s \in Seq(Item) /\ T \in [Values -> Nat] /\ n \in Nat
    BY DEF Good
  <2>2. Len(s) \in Nat /\ Len(s) >= 1
    BY <2>1, EmptySeq, LenProperties
  <2>3. v \in Int
    BY QuantilesAssumption
  <2> QED BY <2>1, <2>2, <2>3, ItemsAre
<1>1. /\ idx \in 0..Len(s)
      /\ \A i \in 1..idx : s[i].value <= v
      /\ \A i \in (idx + 1)..Len(s) : v <= s[i].value
  <2>1. \A i, j \in 1..Len(s) : i <= j => s[i].value <= s[j].value
    BY DEF Good
  <2> HIDE DEF idx
  <2>2. idx = InsertionIndex(s, Advance(s, item, v), v)
    BY DEF idx
  <2> QED BY <1>0, <2>1, <2>2, PlaceIsRight
<1>2. InsertNext(<<s, item>>, v) = <<r, idx>>
  BY DEF InsertNext
<1> HIDE DEF idx
<1>3. e \in Item /\ e.g = 1 /\ e.value = v
  <2>1. Delta(s, idx) \in Nat
    BY <1>0, <1>1, DeltaType
  <2> QED BY <2>1 DEF Item
<1> HIDE DEF e
<1>4. idx + 1 \in 1..(Len(s) + 1) /\ idx \in Nat
  BY <1>0, <1>1
<1>5. /\ r \in Seq(Item) /\ Len(r) = Len(s) + 1
      /\ \A j \in 1..(Len(s) + 1) : r[j] = IF j < idx + 1 THEN s[j] ELSE IF j = idx + 1 THEN e ELSE s[j - 1]
  <2> DEFINE p == idx + 1
  <2>1. p \in 1..(Len(s) + 1) /\ e \in Item /\ s \in Seq(Item)
    BY <1>0, <1>3, <1>4
  <2>2. /\ InsertAt(s, p, e) \in Seq(Item) /\ Len(InsertAt(s, p, e)) = Len(s) + 1
        /\ \A j \in 1..(Len(s) + 1) : InsertAt(s, p, e)[j] = IF j < p THEN s[j] ELSE IF j = p THEN e ELSE s[j - 1]
    <3> HIDE DEF p
    <3> QED BY <2>1, InsertAtIs
  <2> QED BY <2>2
<1>6. \A j \in 0..(Len(s) + 1) :
        Weight(r, j) = IF j < idx + 1 THEN Weight(s, j) ELSE Weight(s, j - 1) + 1
  BY <1>0, <1>3, <1>4, WeightInserted
<1>7. /\ R \in [Values -> Nat]
      /\ \A w \in Values : R[w] = T[w] + (IF v <= w THEN 1 ELSE 0)
      /\ \A x, w \in Values : x <= w => R[x] <= R[w]
      /\ \A w \in Values : R[w] <= n + 1
  <2>1. /\ \A x, w \in Values : x <= w => T[x] <= T[w]
        /\ \A w \in Values : T[w] <= n
    BY DEF Good
  <2> QED BY <1>0, <2>1, OneMoreIs
<1> HIDE DEF r, R
<1>8. ASSUME NEW j \in 1..(Len(s) + 1)
      PROVE  \/ j < idx + 1 /\ j \in 1..idx /\ j \in 1..Len(s) /\ r[j] = s[j] /\ Weight(r, j) = Weight(s, j)
             \/ j = idx + 1 /\ r[j] = e /\ Weight(r, j) = Weight(s, idx) + 1
             \/ /\ j > idx + 1 /\ j - 1 \in (idx + 1)..Len(s) /\ j - 1 \in 1..Len(s) /\ r[j] = s[j - 1]
                /\ Weight(r, j) = Weight(s, j - 1) + 1
  <2>1. Weight(r, j) = IF j < idx + 1 THEN Weight(s, j) ELSE Weight(s, j - 1) + 1
    BY <1>0, <1>6
  <2>2. r[j] = IF j < idx + 1 THEN s[j] ELSE IF j = idx + 1 THEN e ELSE s[j - 1]
    BY <1>5
  <2>3. CASE j < idx + 1
    BY <1>0, <1>4, <2>1, <2>2, <2>3
  <2>4. CASE j = idx + 1
    <3>1. ~(j < idx + 1) /\ j - 1 = idx
      BY <1>4, <2>4
    <3> QED BY <2>1, <2>2, <2>4, <3>1
  <2>5. CASE j > idx + 1
    <3>1. ~(j < idx + 1) /\ j # idx + 1 /\ j - 1 \in (idx + 1)..Len(s) /\ j - 1 \in 1..Len(s)
      BY <1>0, <1>4, <2>5
    <3> QED BY <2>1, <2>2, <2>5, <3>1
  <2> QED BY <1>0, <1>4, <2>3, <2>4, <2>5
<1>9. ASSUME NEW i \in 1..Len(r), NEW j \in 1..Len(r), i <= j
      PROVE  r[i].value <= r[j].value
  <2>0. i \in 1..(Len(s) + 1) /\ j \in 1..(Len(s) + 1) /\ i \in Int /\ j \in Int
    BY <1>5
  <2>1. CASE j \in 1..idx /\ r[j] = s[j] /\ j \in 1..Len(s)
    <3>1. i \in 1..idx /\ i < idx + 1
      BY <1>4, <1>9, <2>0, <2>1
    <3>2. r[i] = s[i] /\ i \in 1..Len(s)
      BY <1>4, <1>8, <2>0, <3>1
    <3> QED BY <1>9, <2>1, <3>2 DEF Good
  <2>2. CASE j = idx + 1 /\ r[j] = e
    <3>1. i = j \/ i < idx + 1
      BY <1>4, <1>9, <2>0, <2>2
    <3>2. CASE i = j
      BY <1>0, <1>3, <2>2, <3>2
    <3>3. CASE i < idx + 1
      <4>1. r[i] = s[i] /\ i \in 1..idx
        BY <1>4, <1>8, <2>0, <3>3
      <4> QED BY <1>1, <1>3, <2>2, <4>1
    <3> QED BY <3>1, <3>2, <3>3
  <2>3. CASE j > idx + 1 /\ j - 1 \in (idx + 1)..Len(s) /\ j - 1 \in 1..Len(s) /\ r[j] = s[j - 1]
    <3>1. CASE i < idx + 1
      <4>1. r[i] = s[i] /\ i \in 1..Len(s) /\ i <= j - 1
        BY <1>4, <1>8, <2>0, <2>3, <3>1
      <4> QED BY <2>3, <4>1 DEF Good
    <3>2. CASE i = idx + 1
      <4>1. r[i] = e
        BY <1>4, <1>8, <2>0, <3>2
      <4> QED BY <1>1, <1>3, <2>3, <4>1
    <3>3. CASE i > idx + 1
      <4>1. r[i] = s[i - 1] /\ i - 1 \in 1..Len(s) /\ i - 1 <= j - 1
        BY <1>4, <1>8, <1>9, <2>0, <3>3
      <4> QED BY <2>3, <4>1 DEF Good
    <3> QED BY <1>4, <2>0, <3>1, <3>2, <3>3
  <2> QED BY <1>8, <2>0, <2>1, <2>2, <2>3
<1>10. Weight(r, Len(r)) = n + 1
  <2>1. Len(s) + 1 \in 1..(Len(s) + 1) /\ ~(Len(s) + 1 < idx + 1) /\ (Len(s) + 1) - 1 = Len(s) /\ Len(s) + 1 \in 0..(Len(s) + 1)
    BY <1>0, <1>4
  <2>2. Weight(r, Len(s) + 1) = Weight(s, Len(s)) + 1
    BY <1>6, <2>1
  <2> QED BY <1>5, <2>2 DEF Good
<1>11. ASSUME NEW i \in 1..Len(r) PROVE Weight(r, i) <= R[r[i].value]
  <2>0. i \in 1..(Len(s) + 1)
    BY <1>5
  <2>1. CASE i \in 1..Len(s) /\ r[i] = s[i] /\ Weight(r, i) = Weight(s, i)
    <3>1. Weight(s, i) <= T[s[i].value] /\ Weight(s, i) \in Nat
      BY <1>0, <2>1, WeightIs DEF Good
    <3>2. T[s[i].value] \in Nat /\ R[s[i].value] = T[s[i].value] + (IF v <= s[i].value THEN 1 ELSE 0)
      BY <1>0, <1>7, <2>1
    <3> QED BY <2>1, <3>1, <3>2
  <2>2. CASE r[i] = e /\ Weight(r, i) = Weight(s, idx) + 1
    <3>1. R[v] = T[v] + 1 /\ T[v] \in Nat
      BY <1>0, <1>7
    <3>2. Weight(s, idx) <= T[v]
      <4>1. CASE idx = 0
        BY <1>0, <3>1, <4>1, WeightIs
      <4>2. CASE idx # 0
        <5>1. idx \in 1..idx /\ idx \in 1..Len(s)
          BY <1>0, <1>1, <1>4, <4>2
        <5>2. Weight(s, idx) <= T[s[idx].value] /\ T[s[idx].value] <= T[v]
          BY <1>0, <1>1, <5>1 DEF Good
        <5>3. Weight(s, idx) \in Nat /\ T[s[idx].value] \in Nat
          BY <1>0, <1>1, <5>1, WeightIs
        <5> QED BY <3>1, <5>2, <5>3
      <4> QED BY <4>1, <4>2
    <3>3. Weight(s, idx) \in Nat
      BY <1>0, <1>1, WeightIs
    <3> QED BY <1>3, <2>2, <3>1, <3>2, <3>3
  <2>3. CASE /\ i - 1 \in (idx + 1)..Len(s) /\ i - 1 \in 1..Len(s) /\ r[i] = s[i - 1]
             /\ Weight(r, i) = Weight(s, i - 1) + 1
    <3> DEFINE x == s[i - 1].value
    <3>1. Weight(s, i - 1) <= T[x] /\ Weight(s, i - 1) \in Nat
      BY <1>0, <2>3, WeightIs DEF Good
    <3>2. T[x] \in Nat /\ x \in Values /\ v <= x
      BY <1>0, <1>1, <2>3
    <3>3. R[x] = T[x] + 1
      BY <1>7, <3>2
    <3>4. r[i].value = x
      BY <2>3
    <3> HIDE DEF x
    <3> QED BY <2>3, <3>1, <3>2, <3>3, <3>4
  <2> QED BY <1>8, <2>0, <2>1, <2>2, <2>3
<1>12. R[r[Len(r)].value] = n + 1
  <2>0. Len(s) + 1 \in 1..(Len(s) + 1) /\ Len(s) \in 1..Len(s)
    BY <1>0
  <2>1. CASE idx = Len(s)
    <3>1. r[Len(r)] = e
      BY <1>4, <1>5, <2>0, <2>1
    <3>2. s[Len(s)].value <= v /\ s[Len(s)].value \in Values
      BY <1>0, <1>1, <2>0, <2>1
    <3>3. T[s[Len(s)].value] = n /\ T[s[Len(s)].value] <= T[v] /\ T[v] <= n
      BY <3>2 DEF Good
    <3>4. R[v] = T[v] + 1 /\ T[v] \in Nat
      BY <1>0, <1>7
    <3> QED BY <1>0, <1>3, <3>1, <3>3, <3>4
  <2>2. CASE idx # Len(s)
    <3>1. Len(s) \in (idx + 1)..Len(s) /\ ~(Len(s) + 1 < idx + 1) /\ Len(s) + 1 # idx + 1 /\ (Len(s) + 1) - 1 = Len(s)
      BY <1>0, <1>1, <1>4, <2>2
    <3>2. r[Len(r)] = s[Len(s)]
      BY <1>5, <2>0, <3>1
    <3>3. v <= s[Len(s)].value /\ s[Len(s)].value \in Values
      BY <1>0, <1>1, <2>0, <3>1
    <3>4. R[s[Len(s)].value] = T[s[Len(s)].value] + 1
      BY <1>7, <3>3
    <3>5. T[s[Len(s)].value] = n
      BY DEF Good
    <3> QED BY <3>2, <3>4, <3>5
  <2> QED BY <2>1, <2>2
<1>13. Good(r, R, n + 1)
  <2>1. n + 1 \in Nat
    BY <1>0
  <2> QED BY <1>5, <1>7, <1>9, <1>10, <1>11, <1>12, <2>1 DEF Good
<1>14. r # <<>> /\ idx \in 0..(Len(r) - 1)
  BY <1>0, <1>1, <1>5, EmptySeq
<1>15. ASSUME NEW i \in 1..idx PROVE r[i].value <= v
  <2>1. i \in 1..(Len(s) + 1) /\ i < idx + 1
    BY <1>0, <1>1, <1>4
  <2>2. r[i] = s[i]
    BY <1>5, <2>1
  <2> QED BY <1>1, <2>2
<1> DEFINE x == InsertNext(<<s, item>>, v)
<1>16. x = <<r, idx>> /\ x[1] = r /\ x[2] = idx
  BY <1>2
<1> HIDE DEF x
<1>17. /\ x \in Seq(Item) \X Nat /\ Good(x[1], OneMore(T, v), n + 1)
       /\ x[1] # <<>> /\ x[2] \in 0..(Len(x[1]) - 1) /\ \A i \in 1..x[2] : x[1][i].value <= v
  BY <1>4, <1>5, <1>13, <1>14, <1>15, <1>16 DEF R
<1> QED BY <1>17 DEF x

(* What has been taken in when the first k of vs are in as well.           *)
With(T, vs, k) == [w \in Values |-> T[w] + BelowOf(vs, k, w)]

(* It grows by one value at a time.                                        *)
LEMMA WithOneMore ==
  ASSUME NEW T \in [Values -> Nat], NEW vs, NEW k \in Nat
  PROVE  /\ With(T, vs, 0) = T
         /\ With(T, vs, k) \in [Values -> Nat]
         /\ vs[k + 1] \in Values => With(T, vs, k + 1) = OneMore(With(T, vs, k), vs[k + 1])
<1>1. \A w : /\ BelowOf(vs, 0, w) = 0 /\ BelowOf(vs, k, w) \in 0..k
             /\ BelowOf(vs, k + 1, w) = BelowOf(vs, k, w) + (IF vs[k + 1] <= w THEN 1 ELSE 0)
  BY BelowOneMore
<1>2. \A w \in Values : T[w] \in Nat
  OBVIOUS
<1>3. With(T, vs, 0) = T
  <2>1. \A w \in Values : T[w] + BelowOf(vs, 0, w) = T[w]
    BY <1>1, <1>2
  <2> QED BY <2>1 DEF With
<1>4. With(T, vs, k) \in [Values -> Nat]
  <2>1. \A w \in Values : T[w] + BelowOf(vs, k, w) \in Nat
    BY <1>1, <1>2
  <2> QED BY <2>1 DEF With
<1>5. With(T, vs, k + 1) = OneMore(With(T, vs, k), vs[k + 1])
  <2>1. ASSUME NEW w \in Values
        PROVE  T[w] + BelowOf(vs, k + 1, w)
                 = IF vs[k + 1] <= w THEN (T[w] + BelowOf(vs, k, w)) + 1 ELSE T[w] + BelowOf(vs, k, w)
    <3>1. T[w] \in Nat /\ BelowOf(vs, k, w) \in Nat
      BY <1>1, <1>2
    <3>2. BelowOf(vs, k + 1, w) = BelowOf(vs, k, w) + (IF vs[k + 1] <= w THEN 1 ELSE 0)
      BY <1>1
    <3> QED BY <3>1, <3>2
  <2> QED BY <2>1 DEF With, OneMore
<1> QED BY <1>3, <1>4, <1>5

(* How far the loop over vs has come after k rounds: the first k are in,   *)
(* and the next search begins behind items that are not above what comes.  *)
RoundDone(x, k, T, n, vs) ==
  /\ x \in Seq(Item) \X Nat
  /\ Good(x[1], With(T, vs, k), n + k)
  /\ x[1] # <<>> /\ x[2] \in 0..(Len(x[1]) - 1)
  /\ \A m \in (k + 1)..Len(vs) : \A i \in 1..x[2] : x[1][i].value <= vs[m]

(* vs is sorted.                                                           *)
Ascends(vs) == \A j, k \in 1..Len(vs) : j <= k => vs[j] <= vs[k]

(* A round leads on.                                                       *)
LEMMA RoundLeadsOn ==
  ASSUME NEW T \in [Values -> Nat], NEW n \in Nat, NEW vs \in Seq(Values), Ascends(vs),
         NEW k \in 1..Len(vs), NEW x, RoundDone(x, k - 1, T, n, vs)
  PROVE  RoundDone(InsertNext(x, vs[k]), k, T, n, vs)
<1>0. /\ Len(vs) \in Nat /\ k \in Nat /\ k - 1 \in Nat /\ (k - 1) + 1 = k
      /\ \A i \in 1..Len(vs) : vs[i] \in Values /\ vs[i] \in Int
  <2>1. Values \subseteq Int
    BY QuantilesAssumption
  <2>2. Len(vs) \in Nat
    BY LenProperties
  <2>3. \A i \in 1..Len(vs) : vs[i] \in Values
    BY ElementOfSeq
  <2>4. \A i \in 1..Len(vs) : vs[i] \in Int
    BY <2>1, <2>3
  <2>5. k \in Nat /\ k - 1 \in Nat /\ (k - 1) + 1 = k
    BY <2>2
  <2> QED BY <2>2, <2>3, <2>4, <2>5
<1> DEFINE s == x[1]
           item == x[2]
           v == vs[k]
           W == With(T, vs, k - 1)
           y == InsertNext(x, v)
<1>1. /\ x = <<s, item>> /\ Good(s, W, n + (k - 1)) /\ s # <<>> /\ item \in 0..(Len(s) - 1)
      /\ \A i \in 1..item : s[i].value <= v
  <2>1. x \in Seq(Item) \X Nat
    BY DEF RoundDone
  <2>2. k \in ((k - 1) + 1)..Len(vs)
    BY <1>0
  <2> QED BY <2>1, <2>2 DEF RoundDone
<1>2. v \in Values
  BY <1>0
<1>3. /\ y \in Seq(Item) \X Nat
      /\ Good(y[1], OneMore(W, v), (n + (k - 1)) + 1)
      /\ y[1] # <<>> /\ y[2] \in 0..(Len(y[1]) - 1)
      /\ \A i \in 1..y[2] : y[1][i].value <= v
  <2> DEFINE N == n + (k - 1)
             z == InsertNext(<<s, item>>, v)
  <2>1. Good(s, W, N)
    BY <1>1
  <2> HIDE DEF s, item, v, W, N
  <2>2. /\ z \in Seq(Item) \X Nat
        /\ Good(z[1], OneMore(W, v), N + 1)
        /\ z[1] # <<>> /\ z[2] \in 0..(Len(z[1]) - 1)
        /\ \A i \in 1..z[2] : z[1][i].value <= v
    BY <1>1, <1>2, <2>1, InsertNextKeeps
  <2>3. y = z
    BY <1>1
  <2> HIDE DEF y, z
  <2> QED BY <2>2, <2>3 DEF N
<1> HIDE DEF y
<1>4. With(T, vs, k) = OneMore(W, v) /\ (n + (k - 1)) + 1 = n + k
  <2> DEFINE m == k - 1
  <2>1. m \in Nat /\ vs[m + 1] \in Values /\ m + 1 = k
    BY <1>0, <1>2
  <2>2. With(T, vs, m + 1) = OneMore(With(T, vs, m), vs[m + 1])
    <3> HIDE DEF m
    <3> QED BY <2>1, WithOneMore
  <2>3. With(T, vs, k) = OneMore(W, v)
    BY <2>1, <2>2
  <2> QED BY <1>0, <2>3
<1>5. ASSUME NEW m \in (k + 1)..Len(vs), NEW i \in 1..y[2] PROVE y[1][i].value <= vs[m]
  <2>1. m \in 1..Len(vs) /\ k <= m
    BY <1>0
  <2>2. v <= vs[m] /\ vs[m] \in Int /\ v \in Int
    BY <1>0, <2>1 DEF Ascends
  <2>3. y[1][i].value <= v /\ y[1][i].value \in Int
    <3>1. y[1] \in Seq(Item) /\ i \in 1..Len(y[1])
      BY <1>3
    <3> QED BY <1>3, <3>1, ItemsAre
  <2> HIDE DEF v
  <2> QED BY <2>2, <2>3
<1>6. Good(y[1], With(T, vs, k), n + k)
  BY <1>3, <1>4
<1> HIDE DEF W, v
<1> QED BY <1>3, <1>5, <1>6 DEF RoundDone, y, v

(* The loop over sorted values takes them all in.                          *)
LEMMA InsertAllKeeps ==
  ASSUME NEW s, NEW T, NEW n, Good(s, T, n), s # <<>>, NEW vs \in Seq(Values), Ascends(vs)
  PROVE  Good(InsertAll(s, vs), With(T, vs, Len(vs)), n + Len(vs))
<1>0. Len(vs) \in Nat /\ s \in Seq(Item) /\ T \in [Values -> Nat] /\ n \in Nat
  BY LenProperties DEF Good
<1> DEFINE x0 == <<s, 0>>
           X == Seq(Item) \X Nat
           D == [k \in 1..Len(vs) |-> [x \in X |-> IF InsertNext(x, vs[k]) \in X THEN InsertNext(x, vs[k]) ELSE x]]
           W == CHOOSE f : f = [k \in 0..Len(vs) |-> IF k = 0 THEN x0 ELSE InsertNext(f[k - 1], vs[k])]
           Done(x, k) == RoundDone(x, k, T, n, vs)
<1>1. InsertAll(s, vs) = W[Len(vs)][1]
  BY DEF InsertAll
<1>2. Done(x0, 0)
  <2>1. With(T, vs, 0) = T /\ n + 0 = n
    BY <1>0, WithOneMore
  <2>2. 0 \in 0..(Len(s) - 1)
    <3>1. Len(s) \in Nat \ {0}
      BY <1>0, EmptySeq
    <3> QED BY <3>1
  <2>3. x0 \in Seq(Item) \X Nat
    BY <1>0
  <2> QED BY <2>1, <2>2, <2>3 DEF RoundDone
<1>14. x0[1] = s /\ W = CHOOSE f : f = [k \in 0..Len(vs) |-> IF k = 0 THEN x0 ELSE InsertNext(f[k - 1], vs[k])]
  OBVIOUS
<1> HIDE DEF x0, W
<1>3. ASSUME NEW k \in 1..Len(vs), NEW x, Done(x, k - 1) PROVE Done(InsertNext(x, vs[k]), k)
  BY <1>0, <1>3, RoundLeadsOn
<1>4. ASSUME NEW x, NEW k, Done(x, k) PROVE x \in X
  BY <1>4 DEF RoundDone
<1> HIDE DEF Done
<1>5. PICK f : Rounds(f, Len(vs), X, x0, D)
  <2>1. x0 \in X
    BY <1>2, <1>4
  <2>2. D \in [1..Len(vs) -> [X -> X]]
    OBVIOUS
  <2> HIDE DEF X, D
  <2> QED BY <1>0, <2>1, <2>2, RoundsExist
<1>6. f = [k \in 0..Len(vs) |-> IF k = 0 THEN x0 ELSE InsertNext(f[k - 1], vs[k])]
  <2> DEFINE Q == {k \in 0..Len(vs) : Done(f[k], k)}
  <2>1. 0 \in Q
    BY <1>0, <1>2, <1>5 DEF Rounds
  <2>2. ASSUME NEW k \in 1..Len(vs), k - 1 \in Q PROVE f[k] = InsertNext(f[k - 1], vs[k]) /\ k \in Q
    <3>1. Done(InsertNext(f[k - 1], vs[k]), k) /\ f[k - 1] \in X
      BY <1>3, <1>4, <2>2
    <3>2. InsertNext(f[k - 1], vs[k]) \in X
      BY <1>4, <3>1
    <3>3. f[k] = D[k][f[k - 1]]
      BY <1>5 DEF Rounds
    <3> HIDE DEF X
    <3>4. f[k] = InsertNext(f[k - 1], vs[k])
      BY <3>1, <3>2, <3>3
    <3> QED BY <1>0, <3>1, <3>4
  <2>3. \A k \in 0..Len(vs) : k \in Q
    <3> HIDE DEF Q
    <3> QED BY <1>0, <2>1, <2>2, UpTo
  <2>4. \A k \in 1..Len(vs) : f[k] = InsertNext(f[k - 1], vs[k])
    <3>1. \A k \in 1..Len(vs) : k - 1 \in 0..Len(vs)
      BY <1>0
    <3> HIDE DEF Q
    <3> QED BY <2>2, <2>3, <3>1
  <2>5. f[0] = x0 /\ f = [k \in 0..Len(vs) |-> f[k]]
    BY <1>5 DEF Rounds
  <2>6. \A k \in 0..Len(vs) : f[k] = IF k = 0 THEN x0 ELSE InsertNext(f[k - 1], vs[k])
    <3>1. \A k \in 0..Len(vs) : k # 0 => k \in 1..Len(vs)
      BY <1>0
    <3> QED BY <2>4, <2>5, <3>1
  <2> QED BY <2>5, <2>6
<1>7. W = [k \in 0..Len(vs) |-> IF k = 0 THEN x0 ELSE InsertNext(W[k - 1], vs[k])]
  BY <1>6, <1>14
<1> HIDE DEF D, X
<1>8. W[0] = x0 /\ \A k \in 1..Len(vs) : W[k] = InsertNext(W[k - 1], vs[k])
  <2>1. 0 \in 0..Len(vs) /\ \A k \in 1..Len(vs) : k \in 0..Len(vs) /\ k # 0
    BY <1>0
  <2> QED BY <1>7, <2>1
<1> DEFINE Q == {k \in 0..Len(vs) : Done(W[k], k)}
<1>9. 0 \in Q
  BY <1>0, <1>2, <1>8
<1>10. ASSUME NEW k \in 1..Len(vs), k - 1 \in Q PROVE k \in Q
  BY <1>0, <1>3, <1>8, <1>10
<1>11. Len(vs) \in Q
  <2>1. \A k \in 0..Len(vs) : k \in Q
    <3> HIDE DEF Q
    <3> QED BY <1>0, <1>9, <1>10, UpTo
  <2> HIDE DEF Q
  <2> QED BY <1>0, <2>1
<1>12. RoundDone(W[Len(vs)], Len(vs), T, n, vs)
  BY <1>11 DEF Done
<1> QED BY <1>1, <1>12 DEF RoundDone

(* The first element counts by itself.                                     *)
LEMMA BelowTail ==
  ASSUME NEW vs, NEW us, NEW n \in Nat, \A i \in 1..n : us[i] = vs[i + 1]
  PROVE  \A v : BelowOf(vs, n + 1, v) = (IF vs[1] <= v THEN 1 ELSE 0) + BelowOf(us, n, v)
<1> SUFFICES ASSUME NEW v
             PROVE  BelowOf(vs, n + 1, v) = (IF vs[1] <= v THEN 1 ELSE 0) + BelowOf(us, n, v)
  OBVIOUS
<1> DEFINE Q == {k \in 0..n : BelowOf(vs, k + 1, v) = (IF vs[1] <= v THEN 1 ELSE 0) + BelowOf(us, k, v)}
<1>1. 0 \in Q
  <2>1. 0 \in Nat /\ 0 + 1 = 1
    OBVIOUS
  <2>2. BelowOf(us, 0, v) = 0 /\ BelowOf(vs, 0, v) = 0
    BY <2>1, BelowOneMore
  <2>3. BelowOf(vs, 0 + 1, v) = BelowOf(vs, 0, v) + (IF vs[0 + 1] <= v THEN 1 ELSE 0)
    BY <2>1, BelowOneMore
  <2> QED BY <2>1, <2>2, <2>3
<1>2. ASSUME NEW k \in 1..n, k - 1 \in Q PROVE k \in Q
  <2> DEFINE m == k - 1
  <2>1. m \in Nat /\ m + 1 = k /\ k \in Nat /\ us[k] = vs[k + 1]
    OBVIOUS
  <2>2. BelowOf(us, m + 1, v) = BelowOf(us, m, v) + (IF us[m + 1] <= v THEN 1 ELSE 0) /\ BelowOf(us, m, v) \in 0..m
    <3> HIDE DEF m
    <3> QED BY <2>1, BelowOneMore
  <2>3. BelowOf(vs, k + 1, v) = BelowOf(vs, k, v) + (IF vs[k + 1] <= v THEN 1 ELSE 0)
    BY <2>1, BelowOneMore
  <2>4. BelowOf(vs, k, v) = (IF vs[1] <= v THEN 1 ELSE 0) + BelowOf(us, m, v)
    BY <1>2, <2>1
  <2> HIDE DEF m
  <2>5. BelowOf(vs, k + 1, v) = (IF vs[1] <= v THEN 1 ELSE 0) + BelowOf(us, k, v)
    BY <2>1, <2>2, <2>3, <2>4
  <2> QED BY <1>2, <2>5
<1>3. \A k \in 0..n : k \in Q
  <2> HIDE DEF Q
  <2> QED BY <1>1, <1>2, UpTo
<1> QED BY <1>3

(* An empty sample has taken nothing in, and the first value makes a good  *)
(* one.                                                                    *)
LEMMA FirstItem ==
  ASSUME NEW T, NEW n, Good(<<>>, T, n), NEW v \in Values,
         NEW s, s = <<[value |-> v, g |-> 1, delta |-> 0]>>
  PROVE  n = 0 /\ Good(s, OneMore(T, v), 1) /\ s # <<>>
<1> DEFINE R == OneMore(T, v)
<1>0. v \in Int /\ Values \subseteq Int
  BY QuantilesAssumption
<1>1. T \in [Values -> Nat] /\ n \in Nat /\ Weight(<<>>, 0) = n /\ <<>> \in Seq(Item)
  BY DEF Good
<1>2. n = 0
  BY <1>1, WeightIs
<1>3. /\ R \in [Values -> Nat]
      /\ \A w \in Values : R[w] = T[w] + (IF v <= w THEN 1 ELSE 0)
      /\ \A x, w \in Values : x <= w => R[x] <= R[w]
      /\ \A w \in Values : R[w] <= n + 1
  <2>1. /\ \A x, w \in Values : x <= w => T[x] <= T[w]
        /\ \A w \in Values : T[w] <= n
    BY DEF Good
  <2> QED BY <1>1, <2>1, OneMoreIs
<1>4. T[v] = 0
  <2>1. T[v] \in Nat /\ T[v] <= n
    BY <1>1 DEF Good
  <2> QED BY <1>2, <2>1
<1> HIDE DEF R
<1>5. R[v] = 1
  BY <1>0, <1>3, <1>4
<1>6. [value |-> v, g |-> 1, delta |-> 0] \in Item
  BY DEF Item
<1>7. s \in Seq(Item) /\ Len(s) = 1 /\ s[1].value = v /\ s[1].g = 1 /\ s # <<>>
  BY <1>6
<1>8. Weight(s, 1) = 1
  <2>1. 1 \in 1..Len(s) /\ 1 - 1 = 0
    BY <1>7
  <2>2. Weight(s, 1) = Weight(s, 1 - 1) + s[1].g /\ Weight(s, 0) = 0
    BY <1>7, <2>1, WeightIs
  <2> QED BY <1>7, <2>1, <2>2
<1>9. \A i \in 1..Len(s) : i = 1
  BY <1>7
<1>10. /\ \A i, j \in 1..Len(s) : i <= j => s[i].value <= s[j].value
       /\ \A i \in 1..Len(s) : Weight(s, i) <= R[s[i].value]
       /\ Weight(s, Len(s)) = 1 /\ R[s[Len(s)].value] = 1
  BY <1>0, <1>5, <1>7, <1>8, <1>9
<1>11. \A w \in Values : R[w] <= 1
  BY <1>2, <1>3
<1>12. Good(s, R, 1)
  BY <1>3, <1>7, <1>10, <1>11 DEF Good
<1> QED BY <1>2, <1>7, <1>12 DEF R

(* A whole buffer is taken in.                                             *)
LEMMA InsertBatchKeeps ==
  ASSUME NEW s, NEW T, NEW n, Good(s, T, n), NEW vs \in Seq(Values)
  PROVE  Good(InsertBatch(s, vs), With(T, vs, Len(vs)), n + Len(vs))
<1> DEFINE r == InOrder(vs)
           R == With(T, vs, Len(vs))
<1>0. Len(vs) \in Nat /\ s \in Seq(Item) /\ T \in [Values -> Nat] /\ n \in Nat /\ Values \subseteq Int /\ vs \in Seq(Int)
  <2>1. Values \subseteq Int
    BY QuantilesAssumption
  <2> QED BY <2>1, LenProperties, SeqMonotonic DEF Good
<1>1. r \in Seq(Values) /\ Len(r) = Len(vs) /\ Ascends(r) /\ \A v \in Int : Below(r, v) = Below(vs, v)
  BY InOrderIs DEF Ascends
<1> HIDE DEF r
<1>2. \A v \in Values : BelowOf(r, Len(r), v) = BelowOf(vs, Len(vs), v)
  <2>1. r \in Seq(Int)
    BY <1>0, <1>1, SeqMonotonic
  <2> QED BY <1>0, <1>1, <2>1, BelowIs
<1>3. With(T, r, Len(r)) = R
  BY <1>2 DEF With
<1> HIDE DEF R
<1>4. CASE vs = <<>>
  <2>1. Len(vs) = 0
    BY <1>4
  <2>2. R = T
    BY <1>0, <2>1, WithOneMore DEF R
  <2>3. InsertBatch(s, vs) = s /\ n + Len(vs) = n
    BY <1>0, <1>4, <2>1 DEF InsertBatch
  <2> QED BY <2>2, <2>3 DEF R
<1>5. CASE vs # <<>> /\ s # <<>>
  <2>1. InsertBatch(s, vs) = InsertAll(s, r)
    BY <1>5 DEF InsertBatch, r
  <2>2. Good(InsertAll(s, r), With(T, r, Len(r)), n + Len(r))
    BY <1>1, <1>5, InsertAllKeeps
  <2> QED BY <1>1, <1>3, <2>1, <2>2 DEF R
<1>6. CASE vs # <<>> /\ s = <<>>
  <2> DEFINE h == Head(r)
             u == Tail(r)
             first == <<[value |-> h, g |-> 1, delta |-> 0]>>
  <2>1. r # <<>> /\ Len(r) \in Nat /\ Len(r) >= 1
    <3>1. Len(vs) \in Nat \ {0}
      BY <1>6, EmptySeq
    <3> QED BY <1>1, <3>1
  <2>2. h \in Values /\ u \in Seq(Values) /\ Len(u) = Len(r) - 1 /\ h = r[1] /\ \A i \in 1..Len(u) : u[i] = r[i + 1]
    BY <1>1, <2>1, HeadTailProperties
  <2>3. InsertBatch(s, vs) = InsertAll(first, u)
    BY <1>6 DEF InsertBatch, r
  <2> HIDE DEF h, u
  <2>4. n = 0 /\ Good(first, OneMore(T, h), 1) /\ first # <<>>
    BY <1>6, <2>2, FirstItem
  <2> HIDE DEF first
  <2>5. Ascends(u)
    <3> SUFFICES ASSUME NEW j \in 1..Len(u), NEW k \in 1..Len(u), j <= k PROVE u[j] <= u[k]
      BY DEF Ascends
    <3>1. j + 1 \in 1..Len(r) /\ k + 1 \in 1..Len(r) /\ j + 1 <= k + 1
      BY <2>1, <2>2
    <3> QED BY <1>1, <2>2, <3>1 DEF Ascends
  <2>6. Good(InsertAll(first, u), With(OneMore(T, h), u, Len(u)), 1 + Len(u))
    BY <2>2, <2>4, <2>5, InsertAllKeeps
  <2>7. With(OneMore(T, h), u, Len(u)) = With(T, r, Len(r))
    <3>1. ASSUME NEW w \in Values
          PROVE  OneMore(T, h)[w] + BelowOf(u, Len(u), w) = T[w] + BelowOf(r, Len(r), w)
      <4> DEFINE m == Len(u)
      <4>1. m \in Nat /\ m + 1 = Len(r)
        BY <2>1, <2>2
      <4>2. BelowOf(r, m + 1, w) = (IF r[1] <= w THEN 1 ELSE 0) + BelowOf(u, m, w)
        <5>1. \A i \in 1..m : u[i] = r[i + 1]
          BY <2>2
        <5>2. \A v : BelowOf(r, m + 1, v) = (IF r[1] <= v THEN 1 ELSE 0) + BelowOf(u, m, v)
          <6> HIDE DEF m
          <6> QED BY <4>1, <5>1, BelowTail
        <5> QED BY <5>2
      <4>3. OneMore(T, h)[w] = IF h <= w THEN T[w] + 1 ELSE T[w]
        BY DEF OneMore
      <4>4. T[w] \in Nat /\ BelowOf(u, m, w) \in Nat
        <5>1. BelowOf(u, m, w) \in 0..m
          <6> HIDE DEF m
          <6> QED BY <4>1, BelowOneMore
        <5> QED BY <1>0, <4>1, <5>1
      <4> HIDE DEF m
      <4>5. BelowOf(r, Len(r), w) = (IF h <= w THEN 1 ELSE 0) + BelowOf(u, m, w)
        BY <2>2, <4>1, <4>2
      <4>6. OneMore(T, h)[w] + BelowOf(u, m, w) = T[w] + BelowOf(r, Len(r), w)
        BY <4>3, <4>4, <4>5
      <4> QED BY <4>6 DEF m
    <3> QED BY <3>1 DEF With
  <2>8. 1 + Len(u) = n + Len(vs)
    BY <1>1, <2>1, <2>2, <2>4
  <2> QED BY <1>3, <2>3, <2>6, <2>7, <2>8 DEF R
<1> QED BY <1>4, <1>5, <1>6

------------------------------------------------------------------------------
(* Compression                                                             *)

(* What Merge makes of a sample: item k is gone, and the one after it      *)
(* stands for both.                                                        *)
LEMMA MergeIs ==
  ASSUME NEW s \in Seq(Item), NEW k \in 1..(Len(s) - 1)
  PROVE  /\ Merge(s, k - 1) \in Seq(Item) /\ Len(Merge(s, k - 1)) = Len(s) - 1
         /\ \A j \in 1..(Len(s) - 1) :
              /\ Merge(s, k - 1)[j].value = IF j < k THEN s[j].value ELSE s[j + 1].value
              /\ Merge(s, k - 1)[j].g = IF j < k THEN s[j].g
                                        ELSE IF j = k THEN s[k + 1].g + s[k].g ELSE s[j + 1].g
<1> DEFINE e == [s[k + 1] EXCEPT !.g = @ + s[k].g]
           t == [s EXCEPT ![k + 1] = e]
           r == Merge(s, k - 1)
<1>0. Len(s) \in Nat /\ k \in Nat /\ k \in 1..Len(s) /\ k + 1 \in 1..Len(s) /\ (k - 1) + 1 = k /\ (k - 1) + 2 = k + 1
  <2>1. Len(s) \in Nat
    BY LenProperties
  <2> QED BY <2>1
<1>1. s[k] \in Item /\ s[k + 1] \in Item
  BY <1>0, ElementOfSeq
<1>2. e \in Item /\ e.value = s[k + 1].value /\ e.g = s[k + 1].g + s[k].g
  <2>1. s[k + 1].g \in Nat \ {0} /\ s[k].g \in Nat \ {0}
    BY <1>1 DEF Item
  <2>2. s[k + 1].g + s[k].g \in Nat \ {0}
    BY <2>1
  <2> QED BY <1>1, <2>2 DEF Item
<1>3. r = RemoveAt(t, k)
  <2>1. r = RemoveAt([s EXCEPT ![(k - 1) + 2].g = @ + s[(k - 1) + 1].g], (k - 1) + 1)
    BY DEF Merge, At
  <2>2. r = RemoveAt([s EXCEPT ![k + 1].g = @ + s[k].g], k)
    BY <1>0, <2>1
  <2>3. [s EXCEPT ![k + 1].g = @ + s[k].g] = t
    OBVIOUS
  <2> QED BY <2>2, <2>3
<1> HIDE DEF e, r
<1>4. /\ t \in Seq(Item) /\ Len(t) = Len(s)
      /\ \A j \in 1..Len(s) : t[j] = IF j = k + 1 THEN e ELSE s[j]
  <2> DEFINE i == k + 1
  <2>1. i \in 1..Len(s)
    BY <1>0
  <2>2. /\ [s EXCEPT ![i] = e] \in Seq(Item)
        /\ Len([s EXCEPT ![i] = e]) = Len(s)
        /\ \A j \in 1..Len(s) : [s EXCEPT ![i] = e][j] = IF j = i THEN e ELSE s[j]
    <3> HIDE DEF i
    <3> QED BY <1>2, <2>1, ExceptSeq
  <2> QED BY <2>2
<1> HIDE DEF t
<1>5. /\ r \in Seq(Item) /\ Len(r) = Len(s) - 1
      /\ \A j \in 1..(Len(s) - 1) : r[j] = IF j < k THEN t[j] ELSE t[j + 1]
  <2>1. k \in 1..Len(t)
    BY <1>0, <1>4
  <2> QED BY <1>3, <1>4, <2>1, RemoveAtIs
<1>6. ASSUME NEW j \in 1..(Len(s) - 1)
      PROVE  /\ r[j].value = IF j < k THEN s[j].value ELSE s[j + 1].value
             /\ r[j].g = IF j < k THEN s[j].g ELSE IF j = k THEN s[k + 1].g + s[k].g ELSE s[j + 1].g
  <2>1. CASE j < k
    <3>1. r[j] = t[j] /\ j \in 1..Len(s) /\ j # k + 1
      BY <1>0, <1>5, <2>1
    <3> QED BY <1>4, <2>1, <3>1
  <2>2. CASE j = k
    <3>1. r[j] = t[k + 1] /\ ~(j < k)
      BY <1>0, <1>5, <2>2
    <3>2. r[j] = e
      BY <1>0, <1>4, <3>1
    <3> QED BY <1>2, <2>2, <3>1, <3>2
  <2>3. CASE j > k
    <3>1. ~(j < k) /\ j # k /\ j + 1 \in 1..Len(s) /\ j + 1 # k + 1
      BY <1>0, <2>3
    <3>2. r[j] = s[j + 1]
      BY <1>4, <1>5, <3>1
    <3> QED BY <3>1, <3>2
  <2> QED BY <1>0, <2>1, <2>2, <2>3
<1> QED BY <1>5, <1>6 DEF r

(* What the first items stand for is not changed, but for the merged one.  *)
LEMMA WeightMerged ==
  ASSUME NEW s \in Seq(Item), NEW k \in 1..(Len(s) - 1)
  PROVE  \A j \in 0..(Len(s) - 1) :
           Weight(Merge(s, k - 1), j) = IF j < k THEN Weight(s, j) ELSE Weight(s, j + 1)
<1> DEFINE r == Merge(s, k - 1)
           Q == {j \in 0..(Len(s) - 1) : Weight(r, j) = IF j < k THEN Weight(s, j) ELSE Weight(s, j + 1)}
<1>0. Len(s) \in Nat /\ k \in Nat /\ k >= 1 /\ k <= Len(s) - 1 /\ Len(s) - 1 \in Nat
  <2>1. Len(s) \in Nat
    BY LenProperties
  <2> QED BY <2>1
<1>1. /\ r \in Seq(Item) /\ Len(r) = Len(s) - 1
      /\ \A j \in 1..(Len(s) - 1) :
           r[j].g = IF j < k THEN s[j].g ELSE IF j = k THEN s[k + 1].g + s[k].g ELSE s[j + 1].g
  BY MergeIs
<1> HIDE DEF r
<1>2. 0 \in Q
  BY <1>0, <1>1, WeightIs
<1>3. ASSUME NEW j \in 1..(Len(s) - 1), j - 1 \in Q PROVE j \in Q
  <2>1. Weight(r, j) = Weight(r, j - 1) + r[j].g
    BY <1>1, <1>3, WeightIs
  <2>2. CASE j < k
    <3>1. j \in 1..Len(s) /\ j - 1 < k /\ r[j].g = s[j].g
      BY <1>0, <1>1, <2>2
    <3>2. Weight(s, j) = Weight(s, j - 1) + s[j].g
      BY <3>1, WeightIs
    <3>3. Weight(r, j - 1) = Weight(s, j - 1)
      BY <1>3, <3>1
    <3>4. Weight(r, j) = Weight(s, j)
      BY <2>1, <3>1, <3>2, <3>3
    <3> QED BY <1>3, <2>2, <3>4
  <2>3. CASE j = k
    <3>1. j - 1 < k /\ ~(j < k) /\ r[j].g = s[j + 1].g + s[j].g /\ j \in 1..Len(s) /\ j + 1 \in 1..Len(s) /\ (j + 1) - 1 = j
      BY <1>0, <1>1, <2>3
    <3>2. Weight(s, j) = Weight(s, j - 1) + s[j].g /\ Weight(s, j + 1) = Weight(s, j) + s[j + 1].g
      <4>1. Weight(s, j + 1) = Weight(s, (j + 1) - 1) + s[j + 1].g
        BY <3>1, WeightIs
      <4> QED BY <3>1, <4>1, WeightIs
    <3>3. Weight(r, j - 1) = Weight(s, j - 1)
      BY <1>3, <3>1
    <3>4. s[j].g \in Nat /\ s[j + 1].g \in Nat /\ Weight(s, j - 1) \in Nat
      <4>1. j - 1 \in 0..Len(s)
        BY <3>1
      <4> QED BY <3>1, <4>1, ItemsAre, WeightIs
    <3>5. Weight(r, j) = Weight(s, j + 1)
      BY <2>1, <3>1, <3>2, <3>3, <3>4
    <3> QED BY <1>3, <3>1, <3>5
  <2>4. CASE j > k
    <3>1. ~(j - 1 < k) /\ ~(j < k) /\ j # k /\ r[j].g = s[j + 1].g /\ j + 1 \in 1..Len(s) /\ (j + 1) - 1 = j /\ (j - 1) + 1 = j
      BY <1>0, <1>1, <2>4
    <3>2. Weight(s, j + 1) = Weight(s, j) + s[j + 1].g
      <4>1. Weight(s, j + 1) = Weight(s, (j + 1) - 1) + s[j + 1].g
        BY <3>1, WeightIs
      <4> QED BY <3>1, <4>1
    <3>3. Weight(r, j - 1) = Weight(s, j)
      BY <1>3, <3>1
    <3>4. Weight(r, j) = Weight(s, j + 1)
      BY <2>1, <3>1, <3>2, <3>3
    <3> QED BY <1>3, <3>1, <3>4
  <2> QED BY <1>0, <2>2, <2>3, <2>4
<1>4. \A j \in 0..(Len(s) - 1) : j \in Q
  <2> HIDE DEF Q
  <2> QED BY <1>0, <1>2, <1>3, UpTo
<1> QED BY <1>4 DEF r

(* Merging two items keeps a sample good.                                  *)
LEMMA MergeKeeps ==
  ASSUME NEW s, NEW T, NEW n, Good(s, T, n), NEW k \in 1..(Len(s) - 1)
  PROVE  Good(Merge(s, k - 1), T, n)
<1> DEFINE r == Merge(s, k - 1)
<1>0. /\ s \in Seq(Item) /\ T \in [Values -> Nat] /\ n \in Nat
      /\ Len(s) \in Nat /\ k \in Nat /\ k >= 1 /\ k <= Len(s) - 1
  <2>1. s \in Seq(Item) /\ T \in [Values -> Nat] /\ n \in Nat
    BY DEF Good
  <2>2. Len(s) \in Nat
    BY <2>1, LenProperties
  <2> QED BY <2>1, <2>2
<1>1. /\ r \in Seq(Item) /\ Len(r) = Len(s) - 1
      /\ \A j \in 1..(Len(s) - 1) : r[j].value = IF j < k THEN s[j].value ELSE s[j + 1].value
  BY <1>0, MergeIs
<1>2. \A j \in 0..(Len(s) - 1) : Weight(r, j) = IF j < k THEN Weight(s, j) ELSE Weight(s, j + 1)
  BY <1>0, WeightMerged
<1> HIDE DEF r
<1> DEFINE from(j) == IF j < k THEN j ELSE j + 1
<1>3. \A j \in 1..Len(r) : /\ from(j) \in 1..Len(s) /\ r[j].value = s[from(j)].value
                           /\ Weight(r, j) = Weight(s, from(j))
  BY <1>0, <1>1, <1>2
<1>4. \A i, j \in 1..Len(r) : i <= j => from(i) <= from(j)
  BY <1>0, <1>1
<1>5. Len(r) \in 1..Len(r) /\ from(Len(r)) = Len(s)
  BY <1>0, <1>1
<1> HIDE DEF from
<1>6. \A i, j \in 1..Len(r) : i <= j => r[i].value <= r[j].value
  BY <1>3, <1>4 DEF Good
<1>7. \A i \in 1..Len(r) : Weight(r, i) <= T[r[i].value]
  BY <1>3 DEF Good
<1>8. Weight(r, Len(r)) = n
  BY <1>3, <1>5 DEF Good
<1>9. T[r[Len(r)].value] = n
  <2>1. s # <<>>
    BY <1>0, EmptySeq
  <2> QED BY <1>3, <1>5, <2>1 DEF Good
<1>10. (\A v, w \in Values : v <= w => T[v] <= T[w]) /\ (\A v \in Values : T[v] <= n)
  BY DEF Good
<1>11. Good(r, T, n)
  BY <1>0, <1>1, <1>6, <1>7, <1>8, <1>9, <1>10 DEF Good
<1> QED BY <1>11 DEF r

(* So does the whole of compress.                                          *)
LEMMA CompressKeeps ==
  ASSUME NEW s, NEW T, NEW n, Good(s, T, n)
  PROVE  Good(Compress(s), T, n)
<1> DEFINE X == {x \in Seq(Item) : Good(x, T, n)}
           D == [k \in 1..Len(s) |-> [x \in X |-> CompressRound(x, k)]]
           W == CHOOSE f : f = [k \in 0..Len(s) |-> IF k = 0 THEN s ELSE CompressRound(f[k - 1], k)]
<1>0. s \in X /\ Len(s) \in Nat
  BY LenProperties DEF Good
<1>1. ASSUME NEW x \in X, NEW k \in 1..Len(s) PROVE CompressRound(x, k) \in X
  <2>1. CASE k < Len(x) /\ Mergeable(x, k - 1)
    <3>1. Len(x) \in Nat
      BY LenProperties
    <3>2. k \in 1..(Len(x) - 1)
      BY <1>0, <2>1, <3>1
    <3>3. Good(Merge(x, k - 1), T, n)
      BY <3>2, MergeKeeps
    <3> QED BY <2>1, <3>3 DEF CompressRound, Good
  <2>2. CASE ~(k < Len(x) /\ Mergeable(x, k - 1))
    BY <2>2 DEF CompressRound
  <2> QED BY <2>1, <2>2
<1>2. Compress(s) = W[Len(s)]
  BY DEF Compress
<1>3. W = CHOOSE f : f = [k \in 0..Len(s) |-> IF k = 0 THEN s ELSE CompressRound(f[k - 1], k)]
  OBVIOUS
<1> HIDE DEF X, W
<1>4. PICK f : Rounds(f, Len(s), X, s, D)
  <2>1. D \in [1..Len(s) -> [X -> X]]
    BY <1>1
  <2> HIDE DEF D
  <2> QED BY <1>0, <2>1, RoundsExist
<1>5. f = [k \in 0..Len(s) |-> IF k = 0 THEN s ELSE CompressRound(f[k - 1], k)]
  <2>1. f \in [0..Len(s) -> X] /\ f[0] = s /\ \A k \in 1..Len(s) : f[k] = D[k][f[k - 1]]
    BY <1>4 DEF Rounds
  <2>2. \A k \in 1..Len(s) : k - 1 \in 0..Len(s) /\ f[k - 1] \in X
    BY <1>0, <2>1
  <2>3. \A k \in 1..Len(s) : f[k] = CompressRound(f[k - 1], k)
    BY <2>1, <2>2
  <2>4. \A k \in 0..Len(s) : k # 0 => k \in 1..Len(s)
    BY <1>0
  <2>5. \A k \in 0..Len(s) : f[k] = IF k = 0 THEN s ELSE CompressRound(f[k - 1], k)
    BY <2>1, <2>3, <2>4
  <2>6. f = [k \in 0..Len(s) |-> f[k]]
    BY <2>1
  <2> QED BY <2>5, <2>6
<1>6. W = [k \in 0..Len(s) |-> IF k = 0 THEN s ELSE CompressRound(W[k - 1], k)]
  BY <1>3, <1>5
<1>7. W[0] = s /\ \A k \in 1..Len(s) : W[k] = CompressRound(W[k - 1], k)
  <2>1. 0 \in 0..Len(s) /\ \A k \in 1..Len(s) : k \in 0..Len(s) /\ k # 0
    BY <1>0
  <2> QED BY <1>6, <2>1
<1> DEFINE Q == {k \in 0..Len(s) : W[k] \in X}
<1>8. 0 \in Q
  BY <1>0, <1>7
<1>9. ASSUME NEW k \in 1..Len(s), k - 1 \in Q PROVE k \in Q
  <2>1. k \in 0..Len(s)
    BY <1>0
  <2> QED BY <1>1, <1>7, <1>9, <2>1
<1>10. Len(s) \in Q
  <2>1. \A k \in 0..Len(s) : k \in Q
    <3> HIDE DEF Q
    <3> QED BY <1>0, <1>8, <1>9, UpTo
  <2> HIDE DEF Q
  <2> QED BY <1>0, <2>1
<1> QED BY <1>2, <1>10 DEF X

(* What get returns is a value of the sample, if there is any.             *)
LEMMA EstimateType ==
  ASSUME NEW s \in Seq(Item), NEW n, NEW t
  PROVE  Estimate(s, n, t) \in Values \cup {None}
<1>1. CASE s = <<>>
  BY <1>1 DEF Estimate
<1>2. CASE s # <<>>
  <2> DEFINE bound == 2 * Unit * Desired(t, n) + AllowableError(Desired(t, n), Len(s))
             beyond == {i \in 0..(Len(s) - 2) :
                          2 * Unit * (Weight(s, i + 1) + At(s, i + 1).g + At(s, i + 1).delta) > bound}
             S == beyond \cup {Len(s) - 1}
  <2>1. Len(s) \in Nat /\ Len(s) >= 1
    BY <1>2, EmptySeq
  <2>2. S \in SUBSET (0..(Len(s) - 1)) /\ S # {}
    <3>1. beyond \subseteq 0..(Len(s) - 2)
      OBVIOUS
    <3> DEFINE last == Len(s) - 1
    <3>2. last \in 0..(Len(s) - 1) /\ 0..(Len(s) - 2) \subseteq 0..(Len(s) - 1)
      BY <2>1
    <3> HIDE DEF beyond, last
    <3>3. beyond \cup {last} \in SUBSET (0..(Len(s) - 1)) /\ beyond \cup {last} # {}
      BY <3>1, <3>2
    <3> QED BY <3>3 DEF last
  <2>3. Estimate(s, n, t) = At(s, Min(S)).value
    BY <1>2 DEF Estimate, ValueAt
  <2> HIDE DEF S
  <2>4. Min(S) \in 0..(Len(s) - 1)
    <3>1. S \in SUBSET Int /\ 0 \in Int /\ \A x \in S : 0 <= x
      BY <2>1, <2>2
    <3>2. Min(S) \in S
      BY <2>2, <3>1, MinIs
    <3> QED BY <2>2, <3>2
  <2>5. Min(S) + 1 \in 1..Len(s)
    BY <2>1, <2>4
  <2> QED BY <2>3, <2>5, ItemsAre DEF At
<1> QED BY <1>1, <1>2

------------------------------------------------------------------------------
(* The invariant                                                           *)

(* What the sample has taken in, as a function of the value.               *)
Taken == [v \in Values |-> TakenUpTo(v)]

(* Every value inserted is in the buffer or has been taken in, and the     *)
(* sample is good for what it took in.                                     *)
IInv == /\ inserted \in [Values -> Nat] /\ IsFiniteSet(Insertions)
        /\ buffer \in Seq(Values) /\ Len(buffer) < BufferSize
        /\ count + Len(buffer) = NInserted
        /\ got \in {None} \cup [target : Targets, value : Values \cup {None}]
        /\ Good(sample, Taken, count)

(* How many insertions were of values not above v.                         *)
InsertedUpTo(v) == Cardinality({x \in Insertions : x[1] <= v})

(* An insertion adds one to that from its value on.                        *)
LEMMA InsertionsGrow ==
  ASSUME inserted \in [Values -> Nat], IsFiniteSet(Insertions), NEW v \in Values,
         inserted' = [inserted EXCEPT ![v] = @ + 1]
  PROVE  /\ inserted' \in [Values -> Nat] /\ IsFiniteSet(Insertions')
         /\ NInserted \in Nat /\ NInserted' = NInserted + 1
         /\ \A w \in Values : /\ InsertedUpTo(w) \in Nat
                              /\ InsertedUpTo(w)' = InsertedUpTo(w) + (IF v <= w THEN 1 ELSE 0)
<1> DEFINE e == <<v, inserted[v] + 1>>
           I == Insertions
           J == Insertions'
<1>0. inserted[v] \in Nat /\ inserted' \in [Values -> Nat] /\ inserted'[v] = inserted[v] + 1
      /\ \A w \in Values : w # v => inserted'[w] = inserted[w]
  OBVIOUS
<1>1. \A x : x \in I <=> \E w \in Values : \E i \in 1..inserted[w] : x = <<w, i>>
  BY DEF Insertions
<1>2. \A x : x \in J <=> \E w \in Values : \E i \in 1..inserted'[w] : x = <<w, i>>
  BY DEF Insertions
<1>3. e \notin I
  BY <1>0, <1>1
<1>4. J = I \cup {e}
  <2>1. ASSUME NEW x, x \in J PROVE x \in I \cup {e}
    <3>1. PICK w \in Values : \E i \in 1..inserted'[w] : x = <<w, i>>
      BY <1>2, <2>1
    <3>2. PICK i \in 1..inserted'[w] : x = <<w, i>>
      BY <3>1
    <3>3. CASE w = v
      <4>1. i \in 1..inserted[v] \/ i = inserted[v] + 1
        BY <1>0, <3>2, <3>3
      <4> QED BY <1>1, <3>2, <3>3, <4>1
    <3>4. CASE w # v
      <4>1. i \in 1..inserted[w]
        BY <1>0, <3>4
      <4> QED BY <1>1, <3>2, <4>1
    <3> QED BY <3>3, <3>4
  <2>2. ASSUME NEW x, x \in I PROVE x \in J
    <3>1. PICK w \in Values : \E i \in 1..inserted[w] : x = <<w, i>>
      BY <1>1, <2>2
    <3>2. PICK i \in 1..inserted[w] : x = <<w, i>>
      BY <3>1
    <3>3. i \in 1..inserted'[w]
      <4>1. CASE w = v
        BY <1>0, <4>1
      <4>2. CASE w # v
        BY <1>0, <4>2
      <4> QED BY <4>1, <4>2
    <3> QED BY <1>2, <3>2, <3>3
  <2>3. e \in J
    <3>1. inserted[v] + 1 \in 1..inserted'[v]
      BY <1>0
    <3> QED BY <1>2, <3>1
  <2> HIDE DEF I, J, e
  <2> QED BY <2>1, <2>2, <2>3
<1>5. e[1] = v
  OBVIOUS
<1>6. IsFiniteSet(I)
  OBVIOUS
<1> DEFINE K == Cardinality(I)
           L == Cardinality(J)
<1>7. K = NInserted /\ L = NInserted'
  BY DEF NInserted
<1>8. \A w : InsertedUpTo(w) = Cardinality({x \in I : x[1] <= w}) /\ InsertedUpTo(w)' = Cardinality({x \in J : x[1] <= w})
  BY DEF InsertedUpTo
<1> HIDE DEF e, I, J
<1>9. IsFiniteSet(J) /\ K \in Nat /\ L = K + 1
  BY <1>3, <1>4, <1>6, FS_AddElement, FS_CardinalityType
<1>10. ASSUME NEW w \in Values
       PROVE  /\ InsertedUpTo(w) \in Nat
              /\ InsertedUpTo(w)' = InsertedUpTo(w) + (IF v <= w THEN 1 ELSE 0)
  <2> DEFINE A == {x \in I : x[1] <= w}
             B == {x \in J : x[1] <= w}
  <2>1. IsFiniteSet(A) /\ Cardinality(A) \in Nat /\ e \notin A
    BY <1>3, <1>6, FS_Subset, FS_CardinalityType
  <2>2. v <= w => B = A \cup {e}
    BY <1>4, <1>5
  <2>3. ~(v <= w) => B = A
    BY <1>4, <1>5
  <2>4. InsertedUpTo(w) = Cardinality(A) /\ InsertedUpTo(w)' = Cardinality(B)
    BY <1>8
  <2> HIDE DEF A, B
  <2>5. CASE v <= w
    <3>1. Cardinality(B) = Cardinality(A) + 1
      BY <2>1, <2>2, <2>5, FS_AddElement
    <3> QED BY <2>1, <2>4, <2>5, <3>1
  <2>6. CASE ~(v <= w)
    BY <2>1, <2>3, <2>4, <2>6
  <2> QED BY <2>5, <2>6
<1> QED BY <1>0, <1>7, <1>9, <1>10 DEF J

(* What has been taken in is what was inserted without the buffer.         *)
LEMMA TakenIs ==
  ASSUME inserted \in [Values -> Nat], buffer \in Seq(Values)
  PROVE  /\ \A v : TakenUpTo(v) = InsertedUpTo(v) - BelowOf(buffer, Len(buffer), v)
         /\ \A v : BelowOf(buffer, Len(buffer), v) \in Nat
<1>1. Len(buffer) \in Nat
  BY LenProperties
<1>2. \A v : Below(buffer, v) = BelowOf(buffer, Len(buffer), v)
  BY DEF Below, BelowOf
<1>3. \A v : BelowOf(buffer, Len(buffer), v) \in Nat
  <2>1. \A v : BelowOf(buffer, Len(buffer), v) \in 0..Len(buffer)
    BY <1>1, BelowOneMore
  <2> QED BY <1>1, <2>1
<1> QED BY <1>2, <1>3 DEF TakenUpTo, InsertedUpTo

(* Emptying the buffer b into the sample: it has then taken in all of it.  *)
LEMMA FlushKeeps ==
  ASSUME NEW T, Good(sample, T, count), NEW b \in Seq(Values), Flush(b)
  PROVE  /\ Good(sample', With(T, b, Len(b)), count') /\ count' = count + Len(b)
         /\ buffer' = <<>> /\ Len(buffer') = 0 /\ buffer' \in Seq(Values)
<1>1. Good(InsertBatch(sample, b), With(T, b, Len(b)), count + Len(b))
  BY InsertBatchKeeps
<1>2. Good(Compress(InsertBatch(sample, b)), With(T, b, Len(b)), count + Len(b))
  BY <1>1, CompressKeeps
<1> QED BY <1>2, EmptySeq DEF Flush

(* The value just put into the buffer counts as the others in it.          *)
LEMMA AppendedCounts ==
  ASSUME NEW b \in Seq(Values), NEW v \in Values
  PROVE  /\ Append(b, v) \in Seq(Values) /\ Len(Append(b, v)) = Len(b) + 1 /\ Len(b) \in Nat
         /\ \A w : BelowOf(Append(b, v), Len(b) + 1, w) = BelowOf(b, Len(b), w) + (IF v <= w THEN 1 ELSE 0)
<1> DEFINE c == Append(b, v)
           n == Len(b)
<1>1. c \in Seq(Values) /\ Len(c) = n + 1 /\ n \in Nat /\ c[n + 1] = v /\ \A i \in 1..n : c[i] = b[i]
  BY AppendProperties, LenProperties
<1> HIDE DEF c, n
<1>2. \A w : BelowOf(c, n, w) = BelowOf(b, n, w)
  BY <1>1, BelowOfPart
<1>3. \A w : BelowOf(c, n + 1, w) = BelowOf(c, n, w) + (IF c[n + 1] <= w THEN 1 ELSE 0)
  BY <1>1, BelowOneMore
<1>4. \A w : BelowOf(c, n + 1, w) = BelowOf(b, n, w) + (IF v <= w THEN 1 ELSE 0)
  BY <1>1, <1>2, <1>3
<1> QED BY <1>1, <1>4 DEF c, n

(* Arithmetic of one more insertion, c being 1 or 0 as it counts or not.   *)
LEMMA SameDifference ==
  ASSUME NEW n \in Nat, NEW m \in Nat, NEW c \in {0, 1}
  PROVE  /\ (n + c) - (m + c) = n - m
         /\ (n + c) - 0 = (n - m) + (m + c)
OBVIOUS

(* An insertion keeps the invariant, whether it fills the buffer or not.   *)
LEMMA InsertStep == ASSUME IInv, NEW v \in Values, Insert(v) PROVE IInv'
<1> DEFINE b == Append(buffer, v)
<1>0. /\ inserted \in [Values -> Nat] /\ IsFiniteSet(Insertions) /\ buffer \in Seq(Values)
      /\ count + Len(buffer) = NInserted /\ Good(sample, Taken, count) /\ count \in Nat
      /\ Len(buffer) \in Nat /\ Len(buffer) < BufferSize /\ BufferSize \in Nat /\ BufferSize >= 1
  BY LenProperties, QuantilesAssumption DEF IInv, Good
<1>1. /\ inserted' \in [Values -> Nat] /\ IsFiniteSet(Insertions')
      /\ NInserted \in Nat /\ NInserted' = NInserted + 1
      /\ \A w \in Values : /\ InsertedUpTo(w) \in Nat
                           /\ InsertedUpTo(w)' = InsertedUpTo(w) + (IF v <= w THEN 1 ELSE 0)
  <2>1. inserted' = [inserted EXCEPT ![v] = @ + 1]
    BY DEF Insert
  <2> QED BY <1>0, <2>1, InsertionsGrow
<1>2. got' = None
  BY DEF Insert
<1>3. /\ b \in Seq(Values) /\ Len(b) = Len(buffer) + 1
      /\ \A w : BelowOf(b, Len(b), w) = BelowOf(buffer, Len(buffer), w) + (IF v <= w THEN 1 ELSE 0)
  BY <1>0, AppendedCounts
<1>4. /\ \A w : TakenUpTo(w) = InsertedUpTo(w) - BelowOf(buffer, Len(buffer), w)
      /\ \A w : BelowOf(buffer, Len(buffer), w) \in Nat
  BY <1>0, TakenIs
<1>5. CASE ~Full(b)
  <2>1. buffer' = b /\ sample' = sample /\ count' = count
    BY <1>5 DEF Insert
  <2>2. Len(b) < BufferSize
    BY <1>0, <1>3, <1>5 DEF Full
  <2> HIDE DEF b
  <2>3. Taken' = Taken
    <3>1. \A w : TakenUpTo(w)' = InsertedUpTo(w)' - BelowOf(b, Len(b), w)
      <4>1. buffer' \in Seq(Values)
        BY <1>3, <2>1
      <4>2. \A w : Below(b, w) = BelowOf(b, Len(b), w)
        BY DEF Below, BelowOf
      <4> QED BY <2>1, <4>2 DEF TakenUpTo, InsertedUpTo
    <3>2. ASSUME NEW w \in Values PROVE TakenUpTo(w)' = TakenUpTo(w)
      <4>1. /\ TakenUpTo(w)' = InsertedUpTo(w)' - BelowOf(b, Len(b), w)
            /\ TakenUpTo(w) = InsertedUpTo(w) - BelowOf(buffer, Len(buffer), w)
        BY <1>4, <3>1
      <4>2. /\ InsertedUpTo(w)' = InsertedUpTo(w) + (IF v <= w THEN 1 ELSE 0)
            /\ BelowOf(b, Len(b), w) = BelowOf(buffer, Len(buffer), w) + (IF v <= w THEN 1 ELSE 0)
            /\ InsertedUpTo(w) \in Nat /\ BelowOf(buffer, Len(buffer), w) \in Nat
        BY <1>1, <1>3, <1>4
      <4> QED BY <4>1, <4>2, SameDifference
    <3> QED BY <3>2 DEF Taken
  <2>4. count' + Len(buffer') = NInserted'
    <3>1. count' = count /\ Len(buffer') = Len(buffer) + 1
      BY <1>3, <2>1
    <3> QED BY <1>0, <1>1, <3>1
  <2> QED BY <1>0, <1>1, <1>2, <1>3, <2>1, <2>2, <2>3, <2>4 DEF IInv
<1>6. CASE Full(b)
  <2>1. Flush(b)
    BY <1>6 DEF Insert
  <2> HIDE DEF b
  <2>2. /\ Good(sample', With(Taken, b, Len(b)), count') /\ count' = count + Len(b)
        /\ buffer' = <<>> /\ Len(buffer') = 0 /\ buffer' \in Seq(Values)
    BY <1>0, <1>3, <2>1, FlushKeeps
  <2>3. Taken' = With(Taken, b, Len(b))
    <3>1. \A w : TakenUpTo(w)' = InsertedUpTo(w)' - 0
      <4>1. \A w : Below(<<>>, w) = 0
        <5>1. \A w : Below(<<>>, w) = BelowOf(<<>>, 0, w)
          BY EmptySeq DEF Below, BelowOf
        <5>2. 0 \in Nat
          OBVIOUS
        <5> QED BY <5>1, <5>2, BelowOneMore
      <4> QED BY <2>2, <4>1 DEF TakenUpTo, InsertedUpTo
    <3>2. ASSUME NEW w \in Values PROVE TakenUpTo(w)' = TakenUpTo(w) + BelowOf(b, Len(b), w)
      <4>1. /\ TakenUpTo(w)' = InsertedUpTo(w)' - 0
            /\ TakenUpTo(w) = InsertedUpTo(w) - BelowOf(buffer, Len(buffer), w)
        BY <1>4, <3>1
      <4>2. /\ InsertedUpTo(w)' = InsertedUpTo(w) + (IF v <= w THEN 1 ELSE 0)
            /\ BelowOf(b, Len(b), w) = BelowOf(buffer, Len(buffer), w) + (IF v <= w THEN 1 ELSE 0)
            /\ InsertedUpTo(w) \in Nat /\ BelowOf(buffer, Len(buffer), w) \in Nat
        BY <1>1, <1>3, <1>4
      <4> QED BY <4>1, <4>2, SameDifference
    <3> QED BY <3>2 DEF Taken, With
  <2>4. count' + Len(buffer') = NInserted'
    BY <1>0, <1>1, <1>3, <2>2
  <2> QED BY <1>0, <1>1, <1>2, <2>2, <2>3, <2>4 DEF IInv
<1> QED BY <1>5, <1>6

(* So does a get.                                                          *)
LEMMA GetStep == ASSUME IInv, NEW t \in Targets, Get(t) PROVE IInv'
<1>0. /\ inserted \in [Values -> Nat] /\ IsFiniteSet(Insertions) /\ buffer \in Seq(Values)
      /\ count + Len(buffer) = NInserted /\ Good(sample, Taken, count) /\ count \in Nat
      /\ Len(buffer) \in Nat /\ BufferSize \in Nat /\ BufferSize >= 1
  BY LenProperties, QuantilesAssumption DEF IInv, Good
<1>1. Flush(buffer) /\ inserted' = inserted
  BY DEF Get
<1>2. /\ Good(sample', With(Taken, buffer, Len(buffer)), count') /\ count' = count + Len(buffer)
      /\ buffer' = <<>> /\ Len(buffer') = 0 /\ buffer' \in Seq(Values)
  BY <1>0, <1>1, FlushKeeps
<1>3. Insertions' = Insertions /\ NInserted' = NInserted
  BY <1>1 DEF Insertions, NInserted
<1>4. /\ \A w : TakenUpTo(w) = InsertedUpTo(w) - BelowOf(buffer, Len(buffer), w)
      /\ \A w : BelowOf(buffer, Len(buffer), w) \in Nat
  BY <1>0, TakenIs
<1>5. \A w : InsertedUpTo(w) \in Nat /\ InsertedUpTo(w)' = InsertedUpTo(w)
  <2>1. ASSUME NEW w PROVE InsertedUpTo(w) \in Nat
    <3>1. IsFiniteSet({x \in Insertions : x[1] <= w})
      BY <1>0, FS_Subset
    <3> QED BY <3>1, FS_CardinalityType DEF InsertedUpTo
  <2> QED BY <1>3, <2>1 DEF InsertedUpTo
<1>6. Taken' = With(Taken, buffer, Len(buffer))
  <2>1. \A w : TakenUpTo(w)' = InsertedUpTo(w)' - 0
    <3>1. \A w : Below(<<>>, w) = 0
      <4>1. \A w : Below(<<>>, w) = BelowOf(<<>>, 0, w)
        BY EmptySeq DEF Below, BelowOf
      <4>2. 0 \in Nat
        OBVIOUS
      <4> QED BY <4>1, <4>2, BelowOneMore
    <3> QED BY <1>2, <3>1 DEF TakenUpTo, InsertedUpTo
  <2>2. \A w \in Values : TakenUpTo(w)' = TakenUpTo(w) + BelowOf(buffer, Len(buffer), w)
    BY <1>4, <1>5, <2>1
  <2> QED BY <2>2 DEF Taken, With
<1>7. got' \in [target : Targets, value : Values \cup {None}]
  <2>1. sample' \in Seq(Item)
    BY <1>2 DEF Good
  <2>2. Estimate(sample', count', t) \in Values \cup {None}
    BY <2>1, EstimateType
  <2> QED BY <2>2 DEF Get
<1> QED BY <1>0, <1>1, <1>2, <1>3, <1>6, <1>7 DEF IInv

(* An estimator that is new, or was reset, has taken nothing in.           *)
LEMMA NewIsGood ==
  ASSUME Init
  PROVE  IInv
<1>1. \A v \in Values : inserted[v] = 0
  BY DEF Init
<1>2. Insertions = {}
  BY <1>1 DEF Insertions
<1>3. NInserted = 0 /\ IsFiniteSet(Insertions) /\ \A v : Cardinality({x \in Insertions : x[1] <= v}) = 0
  BY <1>2, FS_EmptySet DEF NInserted
<1>4. \A v : Below(<<>>, v) = 0
  <2>1. \A v : Below(<<>>, v) = BelowOf(<<>>, 0, v)
    BY EmptySeq DEF Below, BelowOf
  <2>2. 0 \in Nat
    OBVIOUS
  <2> QED BY <2>1, <2>2, BelowOneMore
<1>5. Taken = [v \in Values |-> 0]
  <2>1. \A v \in Values : TakenUpTo(v) = 0
    BY <1>3, <1>4 DEF TakenUpTo, Init
  <2> QED BY <2>1 DEF Taken
<1>6. Good(<<>>, [v \in Values |-> 0], 0)
  <2>1. <<>> \in Seq(Item) /\ Len(<<>>) = 0
    BY EmptySeq
  <2>2. Weight(<<>>, 0) = 0
    BY <2>1, WeightIs
  <2> QED BY <2>1, <2>2 DEF Good
<1>7. BufferSize > 0 /\ <<>> \in Seq(Values) /\ Len(<<>>) = 0
  BY QuantilesAssumption, EmptySeq
<1> QED BY <1>3, <1>5, <1>6, <1>7 DEF Init, IInv

(* The invariant holds throughout.                                         *)
THEOREM QuantilesInvariant == Spec => []IInv
<1>1. Init => IInv
  BY NewIsGood
<1>2. IInv /\ [Next]_vars => IInv'
  <2> SUFFICES ASSUME IInv, [Next]_vars PROVE IInv'
    OBVIOUS
  <2>1. ASSUME NEW v \in Values, Insert(v) PROVE IInv'
    BY <2>1, InsertStep
  <2>2. ASSUME NEW t \in Targets, Get(t) PROVE IInv'
    BY <2>2, GetStep
  <2>3. CASE Reset
    <3>1. Init'
      BY <2>3 DEF Reset, Init
    <3>2. Init => IInv
      BY NewIsGood
    <3> QED BY <3>1, NewIsGood, PTL
  <2>4. CASE UNCHANGED vars
    BY <2>4 DEF vars, IInv, Taken, TakenUpTo, Insertions, NInserted
  <2> QED BY <2>1, <2>2, <2>3, <2>4 DEF Next
<1> QED BY <1>1, <1>2, PTL DEF Spec

(* The variables keep their types, the sample stays sorted and the buffer  *)
(* has room for the next value.                                            *)
THEOREM QuantilesTypeCorrect == Spec => []TypeOK
<1>1. IInv => TypeOK
  <2> SUFFICES ASSUME IInv PROVE TypeOK
    OBVIOUS
  <2>1. sample \in Seq(Item) /\ count \in Nat /\ Len(sample) \in Nat
    BY LenProperties DEF IInv, Good
  <2>2. \A i, j \in 1..Len(sample) : i <= j => sample[i].value <= sample[j].value
    BY DEF IInv, Good
  <2>3. \A i \in 2..Len(sample) : i \in 1..Len(sample) /\ i - 1 \in 1..Len(sample) /\ i - 1 <= i
    BY <2>1
  <2>4. SampleSorted
    BY <2>2, <2>3 DEF SampleSorted
  <2> QED BY <2>1, <2>4 DEF TypeOK, IInv
<1> QED BY <1>1, QuantilesInvariant, PTL

(* Whatever is inserted, merging loses no value.                           *)
THEOREM QuantilesWeightsAddUp == Spec => []WeightsAddUp
<1>1. IInv => WeightsAddUp
  BY DEF IInv, Good, WeightsAddUp
<1> QED BY <1>1, QuantilesInvariant, PTL

(* The ranks that get adds up are never above the true ones.               *)
THEOREM QuantilesRankNotOverstated == Spec => []RankNotOverstated
<1>1. IInv => RankNotOverstated
  <2> SUFFICES ASSUME IInv, NEW i \in 1..Len(sample)
               PROVE  Weight(sample, i) <= TakenUpTo(sample[i].value)
    BY DEF RankNotOverstated
  <2>1. sample[i].value \in Values
    BY ItemsAre DEF IInv, Good
  <2>2. Weight(sample, i) <= Taken[sample[i].value]
    BY DEF IInv, Good
  <2> QED BY <2>1, <2>2 DEF Taken
<1> QED BY <1>1, QuantilesInvariant, PTL

(* The greatest value inserted is never compressed away.                   *)
THEOREM QuantilesGreatestKept == Spec => []GreatestKept
<1>1. IInv => GreatestKept
  <2> SUFFICES ASSUME IInv, sample # <<>> PROVE TakenUpTo(Last(sample).value) = count
    BY DEF GreatestKept
  <2>1. sample \in Seq(Item) /\ Len(sample) \in Nat \ {0}
    BY EmptySeq DEF IInv, Good
  <2>2. Len(sample) \in 1..Len(sample)
    BY <2>1
  <2>3. sample[Len(sample)].value \in Values
    BY <2>1, <2>2, ItemsAre
  <2>4. Taken[sample[Len(sample)].value] = count
    BY DEF IInv, Good
  <2> QED BY <2>3, <2>4 DEF Taken, Last
<1> QED BY <1>1, QuantilesInvariant, PTL
==============================================================================
