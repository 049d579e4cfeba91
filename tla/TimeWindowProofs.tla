-------------------------- MODULE TimeWindowProofs ---------------------------
(***************************************************************************)
(* For any maximal age, any number of buckets and any pattern of calls: a  *)
(* get sees no observation older than max_age.  The property speaks of the *)
(* current bucket only; it is inductive once each bucket has a bound of    *)
(* its own: one that is k rotations from being current may hold what is k  *)
(* intervals younger.  In the same way it sees every observation that is   *)
(* young enough.                                                           *)
(***************************************************************************)
EXTENDS TimeWindow, TLAPS

(* How many rotations from now a bucket becomes current. *)
Ahead(b) == IF b >= current THEN b - current ELSE b - current + AgeBuckets

(* How old, against the last rotation, the observations of a bucket that   *)
(* is k rotations from being current may be.                               *)
Slack(k) == (AgeBuckets - 1 - k) * RotationInterval

BoundedByPosition ==
  \A b \in Buckets : \A s \in buckets[b] : lastRotation - s <= Slack(Ahead(b))

(* The clock reading of a call is the latest of all times.                 *)
ReadingIsLatest == /\ lastRotation <= now
                   /\ op # "none" => lastRotation <= read

IInv == TypeOK /\ ReadingIsLatest /\ BoundedByPosition

(* Truncating division: the buckets' intervals together are within the age.*)
LEMMA IntervalsFit == /\ RotationInterval \in Nat
                      /\ RotationInterval > 0
                      /\ AgeBuckets * RotationInterval <= MaxAge
  BY TimeWindowAssumption DEF RotationInterval

(* Being one rotation nearer is worth one interval. *)
LEMMA SlackStep ==
  ASSUME NEW k \in Int
  PROVE  /\ Slack(k) \in Int
         /\ Slack(k - 1) = Slack(k) + RotationInterval
<1> DEFINE m == AgeBuckets - 1 - k
<1>1. m \in Int /\ RotationInterval \in Int
  BY IntervalsFit, TimeWindowAssumption
<1>2. AgeBuckets - 1 - (k - 1) = m + 1
  BY TimeWindowAssumption
<1>3. \A i, j \in Int : (i + 1) * j = i * j + j /\ i * j \in Int
  OBVIOUS
<1> QED BY <1>1, <1>2, <1>3 DEF Slack

(* A bucket within reach has a slack that is not negative. *)
LEMMA SlackNonNegative ==
  ASSUME NEW k \in 0..(AgeBuckets - 1)
  PROVE  Slack(k) >= 0
<1>1. AgeBuckets - 1 - k \in Nat /\ RotationInterval \in Nat
  BY IntervalsFit, TimeWindowAssumption
<1>2. \A i, j \in Nat : i * j >= 0
  OBVIOUS
<1> QED BY <1>1, <1>2 DEF Slack

(* After a rotation every other bucket is one rotation nearer. *)
LEMMA AheadStep ==
  ASSUME TypeOK, NEW b \in Buckets, current' = NextBucket(current)
  PROVE  /\ Ahead(b) \in Buckets
         /\ b # current => Ahead(b)' = Ahead(b) - 1
  BY TimeWindowAssumption DEF TypeOK, Buckets, Ahead, NextBucket

(* The types, the clock readings and the bound of each bucket. *)
THEOREM WindowInvariant == Spec => []IInv
<1> USE TimeWindowAssumption
<1>1. Init => IInv
  BY DEF Init, IInv, TypeOK, ReadingIsLatest, BoundedByPosition, Buckets
<1>2. IInv /\ [Next]_vars => IInv'
  <2> SUFFICES ASSUME IInv, [Next]_vars PROVE IInv'
    OBVIOUS
  <2> USE IntervalsFit DEF IInv, ReadingIsLatest
  <2>0. TypeOK
    OBVIOUS
  <2>1. CASE Tick
    BY <2>1 DEF Tick, TypeOK, BoundedByPosition, Ahead, Buckets
  <2>2. CASE StartInsert \/ StartGet
    <3>1. PICK call \in {"insert", "get"} : Start(call)
      BY <2>2 DEF StartInsert, StartGet
    <3> USE <3>1 DEF Start
    <3>2. now \in Nat /\ op' # "none" /\ read' = now /\ now' = now
      BY DEF TypeOK
    <3>3. read' \in 0..now' /\ delta' = read' - lastRotation'
      BY <3>2
    <3>4. TypeOK'
      BY <3>3 DEF TypeOK
    <3>5. ReadingIsLatest'
      BY <3>2
    <3>6. BoundedByPosition'
      BY DEF BoundedByPosition, Ahead
    <3> QED BY <3>4, <3>5, <3>6
  <2>3. CASE Rotate
    <3> USE <2>3 DEF Rotate, Rotated, RotationStep, Emptied, CaughtUp
    <3>1. TypeOK' /\ ReadingIsLatest'
      BY DEF TypeOK, NextBucket, Buckets
    <3>2. BoundedByPosition'
      <4> SUFFICES ASSUME NEW b \in Buckets, NEW s \in buckets'[b]
                   PROVE  lastRotation' - s <= Slack(Ahead(b)')
        BY DEF BoundedByPosition, Slack
      <4>1. b # current /\ s \in buckets[b] /\ s \in Nat /\ lastRotation \in Nat
        BY DEF TypeOK
      <4>2. lastRotation - s <= Slack(Ahead(b))
        BY <4>1 DEF BoundedByPosition
      <4>3. Ahead(b) \in Int /\ Ahead(b)' = Ahead(b) - 1
        BY <4>1, AheadStep DEF Buckets
      <4>4. Slack(Ahead(b)) \in Int /\ Slack(Ahead(b) - 1) = Slack(Ahead(b)) + RotationInterval
        BY <4>3, SlackStep
      <4> QED BY <4>1, <4>2, <4>3, <4>4
    <3> QED BY <3>1, <3>2
  <2>4. CASE FinishInsert
    <3> USE <2>4 DEF FinishInsert
    <3>1. TypeOK' /\ ReadingIsLatest'
      BY DEF TypeOK
    <3>2. BoundedByPosition'
      <4> SUFFICES ASSUME NEW b \in Buckets, NEW s \in buckets'[b]
                   PROVE  lastRotation - s <= Slack(Ahead(b))
        BY DEF BoundedByPosition, Slack, Ahead
      <4>1. CASE s \in buckets[b]
        BY <4>1 DEF BoundedByPosition
      <4>2. CASE s = read
        <5>1. Ahead(b) \in 0..(AgeBuckets - 1)
          BY DEF Ahead, Buckets, TypeOK
        <5>2. Slack(Ahead(b)) >= 0 /\ Slack(Ahead(b)) \in Int
          BY <5>1, SlackNonNegative, SlackStep
        <5> QED BY <4>2, <5>2 DEF TypeOK
      <4> QED BY <4>1, <4>2 DEF TypeOK
    <3> QED BY <3>1, <3>2
  <2>5. CASE FinishGet
    BY <2>5 DEF FinishGet, TypeOK, BoundedByPosition, Ahead, Buckets
  <2>6. CASE UNCHANGED vars
    BY <2>6 DEF vars, TypeOK, BoundedByPosition, Ahead
  <2> QED BY <2>1, <2>2, <2>3, <2>4, <2>5, <2>6 DEF Next
<1> QED BY <1>1, <1>2, PTL DEF Spec

(* A get sees no observation older than max_age. *)
THEOREM WindowNothingTooOld == Spec => []NothingTooOld
<1>1. IInv => NothingTooOld
  <2> SUFFICES ASSUME IInv, AtWindow, NEW s \in buckets[current]
               PROVE  read - s <= MaxAge
    BY DEF NothingTooOld
  <2> USE TimeWindowAssumption, IntervalsFit DEF IInv
  <2>1. current \in Buckets /\ Ahead(current) = 0
    BY DEF TypeOK, Ahead, Buckets
  <2>2. lastRotation - s <= Slack(0)
    BY <2>1 DEF BoundedByPosition
  <2>3. Slack(0) = Slack(-1) - RotationInterval /\ Slack(0) \in Int
    BY SlackStep
  <2>4. Slack(-1) = AgeBuckets * RotationInterval
    BY DEF Slack
  <2>5. read - lastRotation <= RotationInterval
    BY DEF AtWindow, CaughtUp, TypeOK
  <2>6. read \in Int /\ lastRotation \in Int /\ s \in Int /\ MaxAge \in Int
    BY <2>1 DEF TypeOK
  <2> QED BY <2>2, <2>3, <2>4, <2>5, <2>6
<1> QED BY <1>1, WindowInvariant, PTL

------------------------------------------------------------------------------

(* The other way round: a bucket that is k rotations from being current    *)
(* was emptied AgeBuckets - k rotations ago, and holds what was observed   *)
(* since.  What was observed at the very instant of a rotation is the      *)
(* exception, so the bound is strict; it matters at the window only if     *)
(* nothing was ever rotated, and then every bucket holds everything.       *)
KeptByPosition ==
  \A b \in Buckets : \A s \in observed :
    lastRotation - s < Slack(Ahead(b)) => s \in buckets[b]

ObservedWhenCaughtUp == \A s \in observed : s <= lastRotation + RotationInterval

HoldsEverything == \A b \in Buckets : observed \subseteq buckets[b]

LaterThanRotation == HoldsEverything \/ (lastRotation < now /\ (op # "none" => lastRotation < read))

KInv == KeptByPosition /\ ObservedWhenCaughtUp /\ LaterThanRotation

(* One rotation empties the current bucket, which is then the furthest from*)
(* being current again, and brings each other bucket one rotation nearer.  *)
LEMMA RotateKeeps == ASSUME IInv, KInv, Rotate PROVE KInv'
<1> USE TimeWindowAssumption, IntervalsFit DEF Rotate, Rotated, RotationStep, Emptied, CaughtUp, KInv
<1>0. TypeOK /\ lastRotation' = lastRotation + RotationInterval
  BY DEF IInv
<1>1. read > lastRotation' /\ now' >= read
  BY <1>0 DEF TypeOK
<1>2. ObservedWhenCaughtUp'
  BY <1>0 DEF ObservedWhenCaughtUp, TypeOK
<1>3. KeptByPosition'
  <2> SUFFICES ASSUME NEW b \in Buckets, NEW s \in observed, lastRotation' - s < Slack(Ahead(b)')
               PROVE  s \in buckets'[b]
    BY DEF KeptByPosition, Slack
  <2>1. s \in Nat /\ s <= lastRotation'
    BY <1>0 DEF ObservedWhenCaughtUp, TypeOK
  <2>2. CASE b = current
    <3>1. Ahead(b)' = AgeBuckets - 1
      BY <1>0, <2>2 DEF Ahead, NextBucket, Buckets, TypeOK
    <3>2. AgeBuckets - 1 - (AgeBuckets - 1) = 0
      OBVIOUS
    <3>3. Slack(AgeBuckets - 1) = 0 * RotationInterval
      BY <3>2 DEF Slack
    <3> QED BY <1>0, <2>1, <3>1, <3>3 DEF TypeOK
  <2>3. CASE b # current
    <3>1. Ahead(b) \in Int /\ Ahead(b)' = Ahead(b) - 1
      BY <1>0, <2>3, AheadStep DEF Buckets
    <3>2. Slack(Ahead(b)) \in Int /\ Slack(Ahead(b) - 1) = Slack(Ahead(b)) + RotationInterval
      BY <3>1, SlackStep
    <3>3. lastRotation - s < Slack(Ahead(b))
      BY <1>0, <2>1, <3>1, <3>2 DEF TypeOK
    <3>4. s \in buckets[b] /\ buckets'[b] = buckets[b]
      BY <1>0, <2>3, <3>3 DEF KeptByPosition, TypeOK
    <3> QED BY <3>4
  <2> QED BY <2>2, <2>3
<1>4. LaterThanRotation'
  BY <1>0, <1>1 DEF LaterThanRotation, TypeOK
<1> QED BY <1>2, <1>3, <1>4

(* Buckets keep what is young enough for their place. *)
THEOREM WindowKeeps == Spec => []KInv
<1> USE TimeWindowAssumption
<1>1. Init => KInv
  BY DEF Init, KInv, KeptByPosition, ObservedWhenCaughtUp, LaterThanRotation, HoldsEverything
<1>2. IInv /\ KInv /\ [Next]_vars => KInv'
  <2> SUFFICES ASSUME IInv, KInv, [Next]_vars PROVE KInv'
    OBVIOUS
  <2> USE IntervalsFit DEF KInv
  <2>0. TypeOK
    BY DEF IInv
  <2>1. CASE Tick
    BY <2>0, <2>1 DEF Tick, TypeOK, KeptByPosition, Ahead, ObservedWhenCaughtUp, LaterThanRotation, HoldsEverything
  <2>2. CASE StartInsert \/ StartGet
    BY <2>0, <2>2 DEF StartInsert, StartGet, Start, TypeOK, KeptByPosition, Ahead, ObservedWhenCaughtUp,
                      LaterThanRotation, HoldsEverything
  <2>3. CASE Rotate
    BY <2>3, RotateKeeps
  <2>4. CASE FinishInsert
    <3> USE <2>4 DEF FinishInsert
    <3>1. KeptByPosition'
      BY <2>0 DEF KeptByPosition, Ahead, TypeOK
    <3>2. ObservedWhenCaughtUp'
      BY <2>0 DEF ObservedWhenCaughtUp, CaughtUp, TypeOK
    <3>3. LaterThanRotation'
      BY <2>0 DEF LaterThanRotation, HoldsEverything, TypeOK
    <3> QED BY <3>1, <3>2, <3>3
  <2>5. CASE FinishGet
    BY <2>0, <2>5 DEF FinishGet, TypeOK, KeptByPosition, Ahead, ObservedWhenCaughtUp, LaterThanRotation, HoldsEverything
  <2>6. CASE UNCHANGED vars
    BY <2>6 DEF vars, KeptByPosition, Ahead, ObservedWhenCaughtUp, LaterThanRotation, HoldsEverything
  <2> QED BY <2>1, <2>2, <2>3, <2>4, <2>5, <2>6 DEF Next
<1> QED BY <1>1, <1>2, WindowInvariant, PTL DEF Spec

(* A get sees every observation that is young enough, whatever the pattern *)
(* of calls and pauses.                                                    *)
THEOREM WindowNothingDroppedTooSoon == Spec => []NothingDroppedTooSoon
<1>1. IInv /\ KInv => NothingDroppedTooSoon
  <2> SUFFICES ASSUME IInv, KInv, AtWindow, NEW s \in observed,
                      read - s <= (AgeBuckets - 1) * RotationInterval
               PROVE  s \in buckets[current]
    BY DEF NothingDroppedTooSoon
  <2> USE TimeWindowAssumption, IntervalsFit DEF IInv, KInv
  <2>1. current \in Buckets /\ Ahead(current) = 0
    BY DEF TypeOK, Ahead, Buckets
  <2>2. CASE HoldsEverything
    BY <2>1, <2>2 DEF HoldsEverything
  <2>3. CASE lastRotation < read
    <3>1. AgeBuckets - 1 - 0 = AgeBuckets - 1
      OBVIOUS
    <3>2. Slack(0) = (AgeBuckets - 1) * RotationInterval /\ Slack(0) \in Int
      BY <3>1, SlackStep DEF Slack
    <3>3. lastRotation - s < Slack(0)
      BY <2>3, <3>2 DEF TypeOK
    <3> QED BY <2>1, <3>3 DEF KeptByPosition
  <2> QED BY <2>2, <2>3 DEF LaterThanRotation, AtWindow
<1> QED BY <1>1, WindowInvariant, WindowKeeps, PTL
==============================================================================
