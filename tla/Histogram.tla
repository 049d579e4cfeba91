------------------------------ MODULE Histogram ------------------------------
(***************************************************************************)
(* prometheus/histogram.cc: one Counter per bucket and a Gauge for the     *)
(* sum, with no lock around them.  An observation adds to the sum first    *)
(* and to its bucket afterwards; a scrape (Collect) reads the buckets one  *)
(* by one, adding them up, and the sum last.  Any number of both overlap.  *)
(* One addition to a Counter or Gauge is one step here: module Gauge shows *)
(* that it is atomic.  Observations and increments are integers.           *)
(***************************************************************************)
EXTENDS Integers, Sequences, FiniteSetsExt, Functions

CONSTANTS Observers,    \* threads that call Observe and ObserveMultiple
          Scrapers,     \* threads that call Collect
          Boundaries,   \* bucket_boundaries_
          Values,       \* what Observe is called with
          Batches,      \* what ObserveMultiple is called with: [increments, sum]
          MaxCalls      \* bound: observer calls over the whole run

(* The constructor asserts that the boundaries are sorted. *)
ASSUME HistogramAssumption ==
  /\ IsFiniteSet(Observers)
  /\ Boundaries \in Seq(Int)
  /\ \A i, j \in 1..Len(Boundaries) : i < j => Boundaries[i] <= Boundaries[j]
  /\ Values \subseteq Int
  /\ \A b \in Batches : b.increments \in Seq(Int) /\ b.sum \in Int
  /\ MaxCalls \in Nat

NBuckets == Len(Boundaries) + 1
Buckets == 1..NBuckets

VARIABLES counts,     \* bucket_counts_
          sum,        \* sum_
          amount,     \* per observer: what it adds to the sum
          toSum,      \* per observer: has that addition still to be made?
          increments, \* per observer: what it adds to each bucket
          next,       \* per observer: the bucket it adds to next ...
          last,       \* ... and the last one; it is idle when next > last
          calls,      \* observer calls made so far
          asked,      \* history: what the observers were called to record
          reading,    \* per scraper: 0, or the bucket it reads next; NBuckets + 1 is the sum
          cumulative, \* per scraper: the cumulative counts of the scrape in progress
          scraped     \* per scraper: the metric that its last scrape returned

shared == <<counts, sum>>
ovars == <<amount, toSum, increments, next, last, calls, asked>>
svars == <<reading, cumulative, scraped>>
vars == <<shared, ovars, svars>>

Zeros == [i \in Buckets |-> 0]

Init == /\ counts = Zeros
        /\ sum = 0
        /\ amount = [t \in Observers |-> 0]
        /\ toSum = [t \in Observers |-> FALSE]
        /\ increments = [t \in Observers |-> Zeros]
        /\ next = [t \in Observers |-> 1]
        /\ last = [t \in Observers |-> 0]
        /\ calls = 0
        /\ asked = [bucket |-> Zeros, sum |-> 0]
        /\ reading = [s \in Scrapers |-> 0]
        /\ cumulative = [s \in Scrapers |-> Zeros]
        /\ scraped = [s \in Scrapers |-> [bucket |-> Zeros, sample_sum |-> 0]]

------------------------------------------------------------------------------

(* Mutant of BucketIndex: a boundary belongs to the bucket above it. *)
BucketAbove(v) == Min({i \in 1..Len(Boundaries) : Boundaries[i] > v} \cup {NBuckets})

(* The find_if of Observe: the first bucket whose boundary is >= v, or the *)
(* one that ends at infinity.                                              *)
BucketIndex(v) == Min({i \in 1..Len(Boundaries) : Boundaries[i] >= v} \cup {NBuckets})

(* What the buckets mean: the i-th holds the values in (b_i-1, b_i]. *)
InBucket(i, v) == /\ i > 1 => Boundaries[i - 1] < v
                  /\ i < NBuckets => v <= Boundaries[i]

Idle(t) == next[t] > last[t]

StartCall(t) == /\ Idle(t)
                /\ calls < MaxCalls
                /\ calls' = calls + 1
                /\ UNCHANGED <<shared, svars>>

Observe(t, v) ==
  /\ StartCall(t)
  /\ amount' = [amount EXCEPT ![t] = v]
  /\ toSum' = [toSum EXCEPT ![t] = TRUE]
  /\ increments' = [increments EXCEPT ![t] = [i \in Buckets |-> 1]]
  /\ next' = [next EXCEPT ![t] = BucketIndex(v)]
  /\ last' = [last EXCEPT ![t] = BucketIndex(v)]
  /\ asked' = [bucket |-> [i \in Buckets |-> asked.bucket[i] + IF InBucket(i, v) THEN 1 ELSE 0],
               sum    |-> asked.sum + v]

WrongSize(batch) == Len(batch.increments) # NBuckets

(* ObserveMultiple throws std::length_error before it touches anything. *)
ObserveMultipleThrows(t, batch) ==
  /\ WrongSize(batch)
  /\ StartCall(t)
  /\ UNCHANGED <<amount, toSum, increments, next, last, asked>>

(* What a counter makes of an increment: a negative one does not count. *)
Counted(n) == IF n > 0 THEN n ELSE 0

ObserveMultiple(t, batch) ==
  /\ ~WrongSize(batch)
  /\ StartCall(t)
  /\ amount' = [amount EXCEPT ![t] = batch.sum]
  /\ toSum' = [toSum EXCEPT ![t] = TRUE]
  /\ increments' = [increments EXCEPT ![t] = [i \in Buckets |-> batch.increments[i]]]
  /\ next' = [next EXCEPT ![t] = 1]
  /\ last' = [last EXCEPT ![t] = NBuckets]
  /\ asked' = [bucket |-> [i \in Buckets |-> asked.bucket[i] + Counted(batch.increments[i])],
               sum    |-> asked.sum + batch.sum]

(* sum_.Increment: the sum is a Gauge, which takes negative amounts too. *)
AddToSum(t) == /\ toSum[t]
               /\ sum' = sum + amount[t]
               /\ toSum' = [toSum EXCEPT ![t] = FALSE]
               /\ UNCHANGED <<counts, amount, increments, next, last, calls, asked, svars>>

InAnyOrder(t) == TRUE    \* mutant of AfterSum: the two additions are not ordered
AfterSum(t) == ~toSum[t]

(* Counter::Increment returns early on a negative amount. *)
AcceptedAnyway(n) == n   \* mutant of Accepted: the early return is missing
Accepted(n) == IF n < 0 THEN 0 ELSE n

AddToBucket(t) ==
  /\ ~Idle(t)
  /\ AfterSum(t)
  /\ counts' = [counts EXCEPT ![next[t]] = @ + Accepted(increments[t][next[t]])]
  /\ next' = [next EXCEPT ![t] = @ + 1]
  /\ UNCHANGED <<sum, amount, toSum, increments, last, calls, asked, svars>>

------------------------------------------------------------------------------

BeginCollect(s) == /\ reading[s] = 0
                   /\ reading' = [reading EXCEPT ![s] = 1]
                   /\ UNCHANGED <<shared, ovars, cumulative, scraped>>

CumulativeBefore(s, i) == IF i = 1 THEN 0 ELSE cumulative[s][i - 1]

ReadBucket(s) ==
  /\ reading[s] \in Buckets
  /\ cumulative' = [cumulative EXCEPT ![s][reading[s]] =
                      CumulativeBefore(s, reading[s]) + counts[reading[s]]]
  /\ reading' = [reading EXCEPT ![s] = @ + 1]
  /\ UNCHANGED <<shared, ovars, scraped>>

(* sample_count is the last cumulative count, so scraped does not repeat it. *)
ReadSum(s) ==
  /\ reading[s] = NBuckets + 1
  /\ scraped' = [scraped EXCEPT ![s] = [bucket |-> cumulative[s], sample_sum |-> sum]]
  /\ reading' = [reading EXCEPT ![s] = 0]
  /\ UNCHANGED <<shared, ovars, cumulative>>

Next == \/ \E t \in Observers :
             \/ \E v \in Values : Observe(t, v)
             \/ \E b \in Batches : ObserveMultipleThrows(t, b) \/ ObserveMultiple(t, b)
             \/ AddToSum(t)
             \/ AddToBucket(t)
        \/ \E s \in Scrapers : BeginCollect(s) \/ ReadBucket(s) \/ ReadSum(s)

Spec == Init /\ [][Next]_vars

------------------------------------------------------------------------------

(* Every variable has its type: in particular no bucket is ever negative   *)
(* and an observer in progress is at a bucket that exists.                 *)
Metrics == [bucket : [Buckets -> Nat], sample_sum : Int]

TypeOK == /\ counts \in [Buckets -> Nat]
          /\ sum \in Int
          /\ amount \in [Observers -> Int]
          /\ toSum \in [Observers -> BOOLEAN]
          /\ increments \in [Observers -> [Buckets -> Int]]
          /\ next \in [Observers -> 1..(NBuckets + 1)]
          /\ last \in [Observers -> 0..NBuckets]
          /\ calls \in 0..MaxCalls
          /\ asked \in [bucket : [Buckets -> Nat], sum : Int]
          /\ reading \in [Scrapers -> 0..(NBuckets + 1)]
          /\ cumulative \in [Scrapers -> [Buckets -> Nat]]
          /\ scraped \in [Scrapers -> Metrics]

(* Nothing is lost, counted twice or put into another bucket, however the  *)
(* observers interleave: what was asked for is in the buckets and the sum, *)
(* or is still to be added by a call in progress.                          *)
ToAdd(t, i) == IF i \in next[t]..last[t] THEN Counted(increments[t][i]) ELSE 0
ToAddToSum(t) == IF toSum[t] THEN amount[t] ELSE 0

NothingLost ==
  /\ \A i \in Buckets :
       asked.bucket[i] = counts[i] + SumFunction([t \in Observers |-> ToAdd(t, i)])
  /\ asked.sum = sum + SumFunction([t \in Observers |-> ToAddToSum(t)])

(* How much of a cumulative metric is its i-th bucket's own. *)
Own(bucket, i) == bucket[i] - (IF i = 1 THEN 0 ELSE bucket[i - 1])

(* A scrape adds up buckets it reads at different instants, while counters *)
(* move.  Still its cumulative counts do not decrease from one bucket to   *)
(* the next, and no bucket exceeds what was asked for.                     *)
ScrapeCumulative ==
  \A s \in Scrapers : \A i \in Buckets :
    /\ i > 1 => scraped[s].bucket[i - 1] <= scraped[s].bucket[i]
    /\ Own(scraped[s].bucket, i) <= asked.bucket[i]

(* From one scrape to the next no cumulative count, and so no sample_count,*)
(* goes back: what a rate over the exposed histogram relies on.            *)
ScrapesNeverGoBack ==
  [][\A s \in Scrapers : \A i \in Buckets :
       scraped'[s].bucket[i] >= scraped[s].bucket[i]]_vars

(* Observe adds to the sum before the bucket and Collect reads the sum     *)
(* after the buckets, so every observation a scrape counts is also in its  *)
(* sum.  Seen from outside, where all observations are >= 0: the sum is no *)
(* less than what the counts stand for, each at its bucket's lower end.    *)
LowerEnd(i) == IF i = 1 THEN 0 ELSE Boundaries[i - 1] + 1

ScrapeSumCoversCounts ==
  \A s \in Scrapers :
    scraped[s].sample_sum >= SumFunction([i \in Buckets |-> Own(scraped[s].bucket, i) * LowerEnd(i)])

(* The least observation >= 0 that a bucket can hold, and the least that   *)
(* n[i] observations in each bucket i can add up to.                       *)
Least(i) == IF LowerEnd(i) > 0 THEN LowerEnd(i) ELSE 0
ValueOf(n) == SumFunction([i \in Buckets |-> n[i] * Least(i)])

(* ScrapeSumCoversCounts holds because observations are not negative, and  *)
(* a batch's sum is that of as many observations as it has increments.     *)
FromObservations ==
  /\ Values \subseteq Nat
  /\ \A b \in Batches : ~WrongSize(b) =>
       b.sum >= ValueOf([i \in Buckets |-> Counted(b.increments[i])])
==============================================================================
