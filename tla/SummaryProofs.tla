--------------------------- MODULE SummaryProofs ----------------------------
(***************************************************************************)
(* For any threads, quantiles, window and pattern of calls: a scrape is of *)
(* whole observations, its quantiles' windows only shrink, and none of     *)
(* them holds an observation that was too old when the scrape began.  The  *)
(* mutex makes the steps of a call see what no other call changes; the     *)
(* window below runs on by its own specification, whose theorems are used. *)
(***************************************************************************)
EXTENDS Summary, FiniteSetTheorems, TLAPS

Window == INSTANCE TimeWindowProofs

(* The bucket that becomes current next holds no more than the current one.*)
Nested == \A b \in TW!Buckets :
  TW!NextBucket(b) # current => buckets[TW!NextBucket(b)] \subseteq buckets[b]

(* An insert or get is in progress only inside Observe or Collect. *)
OpInside == /\ op = "insert" => \E t \in Threads : pc[t] = "insert"
            /\ op = "get" => \E t \in Threads : pc[t] = "collect"
            /\ \A t \in Threads : pc[t] = "insert" => op = "insert"

(* Outside of Observe the three parts are of the same observations. *)
Whole == /\ count <= calls
         /\ \A t \in Threads : pc[t] = "sum" => sum + 1 = count
         /\ (\A t \in Threads : pc[t] # "sum") => sum = count
         /\ IsFiniteSet(observed)
         /\ \A b \in TW!Buckets : buckets[b] \subseteq observed
         /\ Cardinality(observed) <= count
         /\ \A t \in Threads : pc[t] \in {"sum", "insert"} => Cardinality(observed) < count

(* What a scrape in progress has got so far. *)
GotSoFar == \A t \in Threads : pc[t] = "collect" =>
  /\ began[t] <= now
  /\ op = "get" => began[t] <= read
  /\ \A k \in 1..Len(got[t]) : /\ got[t][k] \subseteq observed
                               /\ buckets[current] \subseteq got[t][k]
                               /\ \A s \in got[t][k] : began[t] - s <= MaxAge
  /\ \A j, k \in 1..Len(got[t]) : j < k => got[t][k] \subseteq got[t][j]

Scraped == ScrapeOfWholeObservations /\ ScrapeWindowsShrink /\ ScrapeFresh

(* What the window's own theorems say of its variables. *)
WindowOK == TW!TypeOK /\ Window!NothingTooOld

IInv == TypeOK /\ Nested /\ OpInside /\ Whole /\ GotSoFar /\ Scraped

(* The window of a summary is a window. *)
LEMMA WindowRuns == Spec => Window!Spec
<1>1. Init => Window!Init
  BY DEF Init, TW!Init, Window!Init, TW!Buckets, Window!Buckets
<1>2. [Next]_vars => [Window!Next]_(Window!vars)
  <2> SUFFICES ASSUME [Next]_vars PROVE [Window!Next]_(Window!vars)
    OBVIOUS
  <2>1. CASE UNCHANGED wvars
    BY <2>1 DEF wvars, Window!vars
  <2>2. ASSUME NEW t \in Threads, ObserveSum(t) \/ CollectQuantile(t) PROVE Window!Next
    BY <2>2 DEF ObserveSum, CollectQuantile, TW!StartInsert, TW!StartGet, TW!Start,
                Window!Next, Window!StartInsert, Window!StartGet, Window!Start
  <2>3. ASSUME NEW t \in Threads, ObserveReturns(t) PROVE Window!Next
    BY <2>3 DEF ObserveReturns, TW!FinishInsert, TW!CaughtUp, TW!RotationInterval, TW!Buckets,
                Window!Next, Window!FinishInsert, Window!CaughtUp, Window!RotationInterval, Window!Buckets
  <2>4. ASSUME NEW t \in Threads, QuantileCollected(t) PROVE Window!Next
    BY <2>4 DEF QuantileCollected, TW!FinishGet, TW!CaughtUp, TW!RotationInterval,
                Window!Next, Window!FinishGet, Window!CaughtUp, Window!RotationInterval
  <2>5. CASE Rotate
    BY <2>5 DEF Rotate, TW!Rotate, TW!CaughtUp, TW!RotationInterval, TW!Emptied, TW!NextBucket,
                TW!RotationStep, TW!Rotated, Window!Next, Window!Rotate, Window!CaughtUp,
                Window!RotationInterval, Window!Emptied, Window!NextBucket, Window!RotationStep,
                Window!Rotated
  <2>6. CASE Tick
    BY <2>6 DEF Tick, TW!Tick, Window!Next, Window!Tick
  <2> QED BY <2>1, <2>2, <2>3, <2>4, <2>5, <2>6
          DEF Next, Step, Observe, Collect, CollectReturns, vars
<1> QED BY <1>1, <1>2, PTL DEF Spec, Window!Spec

(* So the window's theorems hold of it. *)
LEMMA WindowSafe == Spec => []WindowOK
<1>0. Window!TimeWindowAssumption
  BY WindowAssumption DEF Window!TimeWindowAssumption, TW!TimeWindowAssumption,
                          Window!RotationInterval, TW!RotationInterval
<1>1. Window!Spec => []Window!IInv
  BY <1>0, Window!WindowInvariant, PTL
<1>3. Window!Spec => []Window!NothingTooOld
  BY <1>0, Window!WindowNothingTooOld, PTL
<1>2. Window!IInv => TW!TypeOK
  BY DEF Window!IInv, Window!TypeOK, TW!TypeOK, Window!Buckets, TW!Buckets
<1>4. Window!IInv /\ Window!NothingTooOld => WindowOK
  BY <1>2 DEF WindowOK
<1> QED BY <1>1, <1>3, <1>4, WindowRuns, PTL

(* Whoever is inside the summary is alone there. *)
LEMMA OneInside ==
  ASSUME TypeOK, NEW t \in Threads, pc[t] # "idle"
  PROVE  mutex = t /\ ~MutexFree /\ \A u \in Threads : pc[u] # "idle" => u = t
  BY SummaryAssumption DEF TypeOK, MutexFree

(* Every step keeps the types. *)
LEMMA TypeStep == ASSUME IInv, WindowOK, WindowOK', [Next]_vars PROVE TypeOK'
<1> USE SummaryAssumption DEF TypeOK, IInv, WindowOK, GoTo
<1>1. ASSUME NEW t \in Threads, Observe(t) PROVE TypeOK'
  <2>1. /\ calls' = calls + 1 /\ calls < MaxCalls /\ count' = count + 1 /\ mutex = None
        /\ mutex' = t /\ pc' = [pc EXCEPT ![t] = "sum"]
        /\ UNCHANGED <<sum, got, began, scraped>>
    <3> HIDE DEF TypeOK, IInv
    <3> QED BY <1>1 DEF Observe, StartCall, MutexFree
  <2>2. pc' \in [Threads -> {"idle", "sum", "insert", "collect"}]
    BY <2>1
  <2>3. \A u \in Threads : pc'[u] # "idle" <=> mutex' = u
    BY <2>1
  <2>4. count' \in 0..MaxCalls /\ calls' \in 0..MaxCalls
    <3>1. count \in 0..MaxCalls /\ calls \in 0..MaxCalls /\ count <= calls
      BY DEF Whole
    <3> HIDE DEF TypeOK
    <3> QED BY <2>1, <3>1
  <2>5. /\ TW!TypeOK' /\ mutex' \in Threads \cup {None} /\ sum \in 0..MaxCalls
        /\ got \in [Threads -> Seq(SUBSET Nat)] /\ began \in [Threads -> Nat]
        /\ scraped \in [Threads -> Metrics]
    BY <2>1
  <2> HIDE DEF IInv, WindowOK
  <2> QED BY <2>1, <2>2, <2>3, <2>4, <2>5
<1>2. ASSUME NEW t \in Threads, ObserveSum(t) PROVE TypeOK'
  BY <1>2 DEF ObserveSum, Whole
<1>3. ASSUME NEW t \in Threads, ObserveReturns(t) PROVE TypeOK'
  BY <1>3 DEF ObserveReturns
<1>4. ASSUME NEW t \in Threads, Collect(t) PROVE TypeOK'
  BY <1>4 DEF Collect, StartCall, MutexFree, TW!TypeOK
<1>5. ASSUME NEW t \in Threads, CollectQuantile(t) PROVE TypeOK'
  BY <1>5 DEF CollectQuantile, svars, locals
<1>6. ASSUME NEW t \in Threads, QuantileCollected(t) PROVE TypeOK'
  BY <1>6 DEF QuantileCollected, TW!TypeOK
<1>7. ASSUME NEW t \in Threads, CollectReturns(t) PROVE TypeOK'
  <2>1. /\ pc' = [pc EXCEPT ![t] = "idle"] /\ pc[t] = "collect" /\ mutex' = None
        /\ scraped' = [scraped EXCEPT ![t] =
             [windows |-> got[t], count |-> count, sum |-> sum, began |-> began[t]]]
        /\ UNCHANGED <<count, sum, got, began, calls>>
    BY <1>7 DEF CollectReturns
  <2>2. [windows |-> got[t], count |-> count, sum |-> sum, began |-> began[t]] \in Metrics
    BY DEF Metrics
  <2>3. scraped' \in [Threads -> Metrics]
    BY <2>1, <2>2
  <2>4. /\ pc' \in [Threads -> {"idle", "sum", "insert", "collect"}]
        /\ \A u \in Threads : pc'[u] # "idle" <=> mutex' = u
    BY <2>1
  <2> QED BY <2>1, <2>3, <2>4
<1>8. CASE Rotate \/ Tick
  BY <1>8 DEF Rotate, Tick, svars, locals
<1>9. CASE UNCHANGED vars
  BY <1>9 DEF vars, svars, locals, wvars
<1> QED BY <1>1, <1>2, <1>3, <1>4, <1>5, <1>6, <1>7, <1>8, <1>9 DEF Next, Step

(* A rotation empties the bucket that is then last in line. *)
LEMMA NestedStep == ASSUME IInv, WindowOK, [Next]_vars PROVE Nested'
<1> USE WindowAssumption DEF IInv, WindowOK, Nested, TW!TypeOK, TW!Buckets, TW!TimeWindowAssumption
<1>1. CASE UNCHANGED <<current, buckets>>
  BY <1>1 DEF TW!NextBucket
<1>2. ASSUME NEW t \in Threads, ObserveReturns(t) PROVE Nested'
  BY <1>2 DEF ObserveReturns, TW!FinishInsert, TW!NextBucket
<1>3. CASE Rotate
  <2>1. /\ current' = TW!NextBucket(current)
        /\ buckets' = [buckets EXCEPT ![current] = {}]
    BY <1>3 DEF Rotate, TW!Rotate, TW!Emptied
  <2> SUFFICES ASSUME NEW b \in TW!Buckets, TW!NextBucket(b) # current'
               PROVE  buckets'[TW!NextBucket(b)] \subseteq buckets'[b]
    BY DEF TW!NextBucket
  <2>2. b # current /\ TW!NextBucket(b) \in TW!Buckets
    BY <2>1 DEF TW!NextBucket
  <2>3. CASE TW!NextBucket(b) = current
    BY <2>1, <2>2, <2>3
  <2>4. CASE TW!NextBucket(b) # current
    BY <2>1, <2>2, <2>4
  <2> QED BY <2>3, <2>4
<1> QED BY <1>1, <1>2, <1>3
    DEF Next, Step, Observe, ObserveSum, Collect, CollectQuantile, QuantileCollected, CollectReturns,
        Tick, wvars, vars, TW!Tick, TW!StartInsert, TW!StartGet, TW!Start, TW!FinishGet

(* The calls of the window begin and end inside those of the summary. *)
LEMMA InsideStep == ASSUME IInv, WindowOK, [Next]_vars PROVE OpInside'
<1> USE SummaryAssumption DEF IInv, TypeOK, OpInside, GoTo
<1>1. ASSUME NEW t \in Threads, Observe(t) \/ Collect(t) PROVE OpInside'
  BY <1>1 DEF Observe, Collect, StartCall, MutexFree, wvars
<1>2. ASSUME NEW t \in Threads, ObserveSum(t) PROVE OpInside'
  BY <1>2 DEF ObserveSum, TW!StartInsert, TW!Start
<1>3. ASSUME NEW t \in Threads, ObserveReturns(t) PROVE OpInside'
  BY <1>3, OneInside DEF ObserveReturns, TW!FinishInsert
<1>4. ASSUME NEW t \in Threads, CollectQuantile(t) PROVE OpInside'
  BY <1>4, OneInside DEF CollectQuantile, TW!StartGet, TW!Start, svars, locals
<1>5. ASSUME NEW t \in Threads, QuantileCollected(t) PROVE OpInside'
  BY <1>5, OneInside DEF QuantileCollected, TW!FinishGet
<1>6. ASSUME NEW t \in Threads, CollectReturns(t) PROVE OpInside'
  BY <1>6, OneInside DEF CollectReturns, wvars
<1>7. CASE UNCHANGED <<op, pc>>
  BY <1>7
<1> QED BY <1>1, <1>2, <1>3, <1>4, <1>5, <1>6, <1>7
    DEF Next, Step, Rotate, Tick, TW!Rotate, TW!Tick, svars, locals, wvars, vars

(* Nobody looks between the three updates of an observation. *)
LEMMA WholeStep == ASSUME IInv, WindowOK, [Next]_vars PROVE Whole'
<1> USE SummaryAssumption DEF IInv, Whole, GoTo
<1>0. Cardinality(observed) \in Nat /\ count \in Nat /\ sum \in Nat /\ calls \in Nat
  BY FS_CardinalityType DEF TypeOK
<1>1. ASSUME NEW t \in Threads, Observe(t) PROVE Whole'
  <2>1. /\ \A u \in Threads : pc[u] = "idle"
        /\ count' = count + 1 /\ calls' = calls + 1 /\ pc' = [pc EXCEPT ![t] = "sum"]
        /\ UNCHANGED <<sum, buckets, observed>>
    BY <1>1 DEF Observe, StartCall, MutexFree, TypeOK, wvars
  <2>2. pc'[t] = "sum" /\ \A u \in Threads : u # t => pc'[u] = "idle"
    BY <2>1 DEF TypeOK
  <2> QED BY <1>0, <2>1, <2>2
<1>2. ASSUME NEW t \in Threads, ObserveSum(t) PROVE Whole'
  <2>1. /\ pc[t] = "sum" /\ sum' = sum + 1 /\ pc' = [pc EXCEPT ![t] = "insert"]
        /\ UNCHANGED <<count, calls, buckets, observed>>
    BY <1>2 DEF ObserveSum, TW!StartInsert, TW!Start
  <2>2. pc'[t] = "insert" /\ \A u \in Threads : u # t => pc'[u] = "idle"
    BY <2>1, OneInside DEF TypeOK
  <2> QED BY <1>0, <2>1, <2>2
<1>3. ASSUME NEW t \in Threads, ObserveReturns(t) PROVE Whole'
  <2>1. /\ pc[t] = "insert" /\ pc' = [pc EXCEPT ![t] = "idle"]
        /\ buckets' = [b \in TW!Buckets |-> buckets[b] \cup {read}]
        /\ observed' = observed \cup {read}
        /\ UNCHANGED <<count, calls, sum>>
    BY <1>3 DEF ObserveReturns, TW!FinishInsert
  <2>2. \A u \in Threads : pc'[u] = "idle" /\ pc[u] # "sum"
    BY <2>1, OneInside DEF TypeOK
  <2>3. /\ IsFiniteSet(observed')
        /\ Cardinality(observed') = Cardinality(observed) \/ Cardinality(observed') = Cardinality(observed) + 1
    BY <2>1, FS_AddElement
  <2>4. Cardinality(observed') <= count
    BY <1>0, <2>1, <2>3
  <2> QED BY <2>1, <2>2, <2>3, <2>4
<1>4. ASSUME NEW t \in Threads, Collect(t) PROVE Whole'
  <2>1. /\ \A u \in Threads : pc[u] = "idle"
        /\ calls' = calls + 1 /\ pc' = [pc EXCEPT ![t] = "collect"]
        /\ UNCHANGED <<count, sum, buckets, observed>>
    BY <1>4 DEF Collect, StartCall, MutexFree, TypeOK, wvars
  <2>2. \A u \in Threads : pc'[u] \in {"idle", "collect"}
    BY <2>1 DEF TypeOK
  <2> QED BY <1>0, <2>1, <2>2
<1>5. ASSUME NEW t \in Threads, CollectReturns(t) PROVE Whole'
  <2>1. /\ pc[t] = "collect" /\ pc' = [pc EXCEPT ![t] = "idle"]
        /\ UNCHANGED <<count, sum, calls, buckets, observed>>
    BY <1>5 DEF CollectReturns, wvars
  <2>2. \A u \in Threads : pc'[u] = "idle" /\ pc[u] # "sum"
    BY <2>1, OneInside DEF TypeOK
  <2> QED BY <2>1, <2>2
<1>6. CASE Rotate
  <2>1. /\ UNCHANGED <<observed, count, sum, pc, calls>>
        /\ buckets' = [buckets EXCEPT ![current] = {}]
    BY <1>6 DEF Rotate, TW!Rotate, TW!Emptied, svars, locals
  <2>2. \A b \in TW!Buckets : buckets'[b] \subseteq buckets[b]
    BY <2>1 DEF WindowOK, TW!TypeOK
  <2> QED BY <2>1, <2>2
<1>7. CASE UNCHANGED <<observed, buckets, count, sum, pc, calls>>
  BY <1>7
<1> QED BY <1>1, <1>2, <1>3, <1>4, <1>5, <1>6, <1>7
    DEF Next, Step, CollectQuantile, QuantileCollected, Tick, svars, locals, wvars, vars,
        TW!StartGet, TW!Start, TW!FinishGet, TW!Tick

(* What a scrape has got stays true of the steps of the window, and no     *)
(* other call takes one.                                                   *)
LEMMA GotStep == ASSUME IInv, WindowOK, WindowOK', [Next]_vars PROVE GotSoFar'
<1> USE SummaryAssumption DEF IInv
<1>0. /\ current \in TW!Buckets /\ buckets \in [TW!Buckets -> SUBSET Nat]
      /\ now \in Nat /\ read \in Nat /\ read <= now /\ MaxAge \in Nat
      /\ began \in [Threads -> Nat]
  BY WindowAssumption DEF WindowOK, TW!TypeOK, TypeOK, TW!TimeWindowAssumption
<1>1. ASSUME NEW t \in Threads, Observe(t) PROVE GotSoFar'
  BY <1>1 DEF Observe, StartCall, GoTo, MutexFree, TypeOK, GotSoFar
<1>2. ASSUME NEW t \in Threads, ObserveSum(t) PROVE GotSoFar'
  <2>1. pc[t] = "sum" /\ pc' = [pc EXCEPT ![t] = "insert"]
    BY <1>2 DEF ObserveSum, GoTo
  <2>2. \A u \in Threads : pc'[u] # "collect"
    BY <2>1, OneInside DEF TypeOK
  <2> QED BY <2>2 DEF GotSoFar
<1>3. ASSUME NEW t \in Threads, ObserveReturns(t) PROVE GotSoFar'
  <2>1. pc[t] = "insert" /\ pc' = [pc EXCEPT ![t] = "idle"]
    BY <1>3 DEF ObserveReturns, GoTo
  <2>2. \A u \in Threads : pc'[u] # "collect"
    BY <2>1, OneInside DEF TypeOK
  <2> QED BY <2>2 DEF GotSoFar
<1>4. ASSUME NEW t \in Threads, Collect(t) PROVE GotSoFar'
  <2>1. /\ \A u \in Threads : pc[u] = "idle"
        /\ pc' = [pc EXCEPT ![t] = "collect"]
        /\ got' = [got EXCEPT ![t] = <<>>] /\ began' = [began EXCEPT ![t] = now]
        /\ UNCHANGED <<now, op, read>>
    BY <1>4 DEF Collect, StartCall, GoTo, MutexFree, TypeOK, wvars
  <2>2. \A u \in Threads : pc'[u] = "collect" => u = t
    BY <2>1 DEF TypeOK
  <2>3. got'[t] = <<>> /\ began'[t] = now /\ op # "get"
    BY <2>1 DEF TypeOK, OpInside
  <2> QED BY <1>0, <2>1, <2>2, <2>3 DEF GotSoFar
<1>5. ASSUME NEW t \in Threads, CollectQuantile(t) PROVE GotSoFar'
  <2>1. /\ op = "none" /\ read' = now
        /\ UNCHANGED <<pc, got, began, now, current, buckets, observed>>
    BY <1>5 DEF CollectQuantile, TW!StartGet, TW!Start, svars, locals
  <2> QED BY <2>1 DEF GotSoFar
<1>6. ASSUME NEW t \in Threads, QuantileCollected(t) PROVE GotSoFar'
  <2>1. /\ pc[t] = "collect" /\ op = "get" /\ TW!CaughtUp
        /\ window' = buckets[current] /\ op' = "none"
        /\ got' = [got EXCEPT ![t] = Append(got[t], window')]
        /\ UNCHANGED <<pc, began, now, current, buckets, observed>>
    BY <1>6 DEF QuantileCollected, TW!FinishGet
  <2>2. \A u \in Threads : pc[u] = "collect" => u = t
    BY <2>1, OneInside
  <2>3. \A s \in window' : began[t] - s <= MaxAge
    <3>1. \A s \in buckets[current] : read - s <= MaxAge
      BY <2>1 DEF WindowOK, Window!NothingTooOld, Window!AtWindow, Window!CaughtUp, TW!CaughtUp,
                  Window!RotationInterval, TW!RotationInterval
    <3>2. began[t] <= read
      BY <2>1 DEF GotSoFar
    <3> QED BY <1>0, <2>1, <3>1, <3>2
  <2>4. got[t] \in Seq(SUBSET Nat) /\ got'[t] = Append(got[t], window')
    BY <2>1 DEF TypeOK
  <2>5. /\ Len(got'[t]) = Len(got[t]) + 1
        /\ got'[t][Len(got[t]) + 1] = window'
        /\ \A k \in 1..Len(got[t]) : got'[t][k] = got[t][k]
    BY <2>4
  <2>6. \A k \in 1..Len(got'[t]) : k \in 1..Len(got[t]) \/ k = Len(got[t]) + 1
    BY <2>4, <2>5
  <2>7. window' \subseteq observed
    BY <1>0, <2>1 DEF Whole
  <2>8. \A k \in 1..Len(got'[t]) : /\ got'[t][k] \subseteq observed
                                   /\ buckets[current] \subseteq got'[t][k]
                                   /\ \A s \in got'[t][k] : began[t] - s <= MaxAge
    BY <2>1, <2>3, <2>5, <2>6, <2>7 DEF GotSoFar
  <2>9. ASSUME NEW j \in 1..Len(got'[t]), NEW k \in 1..Len(got'[t]), j < k
        PROVE  got'[t][k] \subseteq got'[t][j]
    <3>1. j \in 1..Len(got[t])
      BY <2>4, <2>5, <2>9
    <3>2. CASE k \in 1..Len(got[t])
      BY <2>1, <2>5, <2>9, <3>1, <3>2 DEF GotSoFar
    <3>3. CASE k = Len(got[t]) + 1
      BY <2>1, <2>5, <3>1, <3>3 DEF GotSoFar
    <3> QED BY <2>6, <3>2, <3>3
  <2> QED BY <2>1, <2>2, <2>8, <2>9 DEF GotSoFar
<1>7. ASSUME NEW t \in Threads, CollectReturns(t) PROVE GotSoFar'
  <2>1. pc[t] = "collect" /\ pc' = [pc EXCEPT ![t] = "idle"]
    BY <1>7 DEF CollectReturns, GoTo
  <2>2. \A u \in Threads : pc'[u] # "collect"
    BY <2>1, OneInside DEF TypeOK
  <2> QED BY <2>2 DEF GotSoFar
<1>8. CASE Rotate
  <2>1. /\ current' = TW!NextBucket(current) /\ buckets' = [buckets EXCEPT ![current] = {}]
        /\ UNCHANGED <<pc, got, began, now, op, read, observed>>
    BY <1>8 DEF Rotate, TW!Rotate, TW!Emptied, svars, locals
  <2>2. buckets'[current'] \subseteq buckets[current]
    <3>1. current' \in TW!Buckets
      BY DEF WindowOK, TW!TypeOK, TW!Buckets
    <3>2. CASE current' = current
      BY <1>0, <2>1, <3>2
    <3>3. CASE current' # current
      BY <1>0, <2>1, <3>1, <3>3 DEF Nested
    <3> QED BY <3>2, <3>3
  <2> QED BY <2>1, <2>2 DEF GotSoFar
<1>9. CASE Tick
  <2>1. now' = now + 1 /\ UNCHANGED <<pc, got, began, current, buckets, op, read, observed>>
    BY <1>9 DEF Tick, TW!Tick, svars, locals
  <2> QED BY <1>0, <2>1 DEF GotSoFar
<1>10. CASE UNCHANGED vars
  BY <1>10 DEF vars, svars, locals, wvars, GotSoFar
<1> QED BY <1>1, <1>2, <1>3, <1>4, <1>5, <1>6, <1>7, <1>8, <1>9, <1>10 DEF Next, Step

(* A scrape that is complete is left alone until the thread's next one. *)
LEMMA ScrapedStep == ASSUME IInv, WindowOK, [Next]_vars PROVE Scraped'
<1> USE DEF IInv, Scraped, ScrapeOfWholeObservations, ScrapeWindowsShrink, ScrapeFresh
<1>1. ASSUME NEW t \in Threads, CollectReturns(t) PROVE Scraped'
  <2>1. /\ pc[t] = "collect"
        /\ scraped' = [scraped EXCEPT ![t] =
                         [windows |-> got[t], count |-> count, sum |-> sum, began |-> began[t]]]
    BY <1>1 DEF CollectReturns
  <2> DEFINE m == [windows |-> got[t], count |-> count, sum |-> sum, began |-> began[t]]
  <2>2. scraped'[t] = m /\ \A u \in Threads : u # t => scraped'[u] = scraped[u]
    BY <2>1 DEF TypeOK
  <2>3. m.windows = got[t] /\ m.count = count /\ m.sum = sum /\ m.began = began[t]
    OBVIOUS
  <2>4. sum = count
    BY <2>1, OneInside DEF Whole
  <2>5. ASSUME NEW k \in 1..Len(got[t]) PROVE Cardinality(got[t][k]) <= count
    <3>1. got[t][k] \subseteq observed /\ IsFiniteSet(observed)
      BY <2>1 DEF GotSoFar, Whole
    <3>2. /\ Cardinality(got[t][k]) <= Cardinality(observed)
          /\ Cardinality(got[t][k]) \in Nat /\ Cardinality(observed) \in Nat
      BY <3>1, FS_Subset, FS_CardinalityType
    <3> QED BY <3>2 DEF Whole, TypeOK
  <2> HIDE DEF m
  <2>6. ScrapeOfWholeObservations'
    BY <2>2, <2>3, <2>4, <2>5
  <2>7. ScrapeWindowsShrink'
    BY <2>1, <2>2, <2>3 DEF GotSoFar
  <2>8. ScrapeFresh'
    BY <2>1, <2>2, <2>3 DEF GotSoFar
  <2> QED BY <2>6, <2>7, <2>8
<1>2. CASE UNCHANGED scraped
  BY <1>2
<1> QED BY <1>1, <1>2 DEF Next, Step, Observe, ObserveSum, ObserveReturns, Collect, CollectQuantile,
                         QuantileCollected, Rotate, Tick, svars, locals, vars

(* The types, what is in the window, and where the calls are. *)
THEOREM SummaryInvariant == Spec => []IInv
<1>1. Init => IInv
  <2> SUFFICES ASSUME Init PROVE IInv
    OBVIOUS
  <2> USE SummaryAssumption, WindowAssumption DEF Init, TW!Init
  <2>1. TypeOK
    BY DEF TypeOK, TW!TypeOK, TW!Buckets, TW!TimeWindowAssumption, Metrics
  <2>2. Nested /\ OpInside /\ GotSoFar
    BY DEF Nested, OpInside, GotSoFar, TW!Buckets, TW!NextBucket, TW!TimeWindowAssumption
  <2>3. Whole
    BY FS_EmptySet DEF Whole
  <2>4. Scraped
    BY DEF Scraped, ScrapeOfWholeObservations, ScrapeWindowsShrink, ScrapeFresh
  <2> QED BY <2>1, <2>2, <2>3, <2>4 DEF IInv
<1>2. IInv /\ WindowOK /\ WindowOK' /\ [Next]_vars => IInv'
  BY TypeStep, NestedStep, InsideStep, WholeStep, GotStep, ScrapedStep DEF IInv
<1> QED BY <1>1, <1>2, WindowSafe, PTL DEF Spec

(* A scrape never sees half an observation. *)
THEOREM SummaryScrapeOfWholeObservations == Spec => []ScrapeOfWholeObservations
<1>1. IInv => ScrapeOfWholeObservations
  BY DEF IInv, Scraped
<1> QED BY <1>1, SummaryInvariant, PTL

(* A later quantile of a scrape is of the same observations or of fewer. *)
THEOREM SummaryScrapeWindowsShrink == Spec => []ScrapeWindowsShrink
<1>1. IInv => ScrapeWindowsShrink
  BY DEF IInv, Scraped
<1> QED BY <1>1, SummaryInvariant, PTL

(* No quantile is of an observation too old when the scrape began. *)
THEOREM SummaryScrapeFresh == Spec => []ScrapeFresh
<1>1. IInv => ScrapeFresh
  BY DEF IInv, Scraped
<1> QED BY <1>1, SummaryInvariant, PTL
=============================================================================
