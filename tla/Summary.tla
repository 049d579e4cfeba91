------------------------------ MODULE Summary --------------------------------
(***************************************************************************)
(* prometheus/summary.cc: a count, a sum and a TimeWindow behind a mutex.  *)
(* Observe updates the three one after the other, Collect asks the window  *)
(* for each configured quantile in turn and then reads count and sum; the  *)
(* clock goes on meanwhile.  Each observation is of 1, so the sum tells    *)
(* which observations it holds, and what the window returns for a quantile *)
(* is the set of observations the quantile is computed from.               *)
(***************************************************************************)
EXTENDS Integers, Sequences, FiniteSets

CONSTANTS Threads,
          NQuantiles,  \* how many quantiles the summary is configured with
          MaxAge, AgeBuckets, MaxTime,   \* see TimeWindow
          MaxCalls,    \* bound: calls made over the whole run
          None

ASSUME SummaryAssumption == /\ NQuantiles \in Nat
                            /\ MaxCalls \in Nat
                            /\ None \notin Threads

VARIABLES now, lastRotation, current, buckets, op, read, delta, window, observed

TW == INSTANCE TimeWindow

ASSUME WindowAssumption == TW!TimeWindowAssumption

VARIABLES mutex,    \* mutex_: the thread that holds it, or None
          count,    \* count_
          sum,      \* sum_
          pc,       \* per thread: "idle", in Observe "sum" or "insert", or "collect"
          got,      \* per thread: what its scrape got for each quantile so far
          began,    \* per thread: the time at which its scrape had the mutex
          scraped,  \* per thread: what its last scrape returned
          calls     \* calls made so far

locals == <<pc, got, began, scraped, calls>>
svars == <<mutex, count, sum, locals>>
wvars == <<now, lastRotation, current, buckets, op, read, delta, window, observed>>
vars == <<wvars, svars>>

Init == /\ TW!Init
        /\ mutex = None
        /\ count = 0
        /\ sum = 0
        /\ pc = [t \in Threads |-> "idle"]
        /\ got = [t \in Threads |-> <<>>]
        /\ began = [t \in Threads |-> 0]
        /\ scraped = [t \in Threads |-> [windows |-> <<>>, count |-> 0, sum |-> 0, began |-> 0]]
        /\ calls = 0

MutexIgnored == TRUE   \* mutant of MutexFree: the lock_guard is missing
MutexFree == mutex = None

StartCall(t) == /\ pc[t] = "idle"
                /\ calls < MaxCalls
                /\ MutexFree
                /\ calls' = calls + 1
                /\ mutex' = t

GoTo(t, place) == pc' = [pc EXCEPT ![t] = place]

Observe(t) == /\ StartCall(t)
              /\ count' = count + 1
              /\ GoTo(t, "sum")
              /\ UNCHANGED <<sum, got, began, scraped, wvars>>

ObserveSum(t) == /\ pc[t] = "sum"
                 /\ TW!StartInsert
                 /\ sum' = sum + 1
                 /\ GoTo(t, "insert")
                 /\ UNCHANGED <<mutex, count, got, began, scraped, calls>>

ObserveReturns(t) == /\ pc[t] = "insert"
                     /\ TW!FinishInsert
                     /\ mutex' = None
                     /\ GoTo(t, "idle")
                     /\ UNCHANGED <<count, sum, got, began, scraped, calls>>

Collect(t) == /\ StartCall(t)
              /\ got' = [got EXCEPT ![t] = <<>>]
              /\ began' = [began EXCEPT ![t] = now]
              /\ GoTo(t, "collect")
              /\ UNCHANGED <<count, sum, scraped, wvars>>

CollectQuantile(t) == /\ pc[t] = "collect"
                      /\ Len(got[t]) < NQuantiles
                      /\ TW!StartGet
                      /\ UNCHANGED svars

QuantileCollected(t) == /\ pc[t] = "collect"
                        /\ TW!FinishGet
                        /\ got' = [got EXCEPT ![t] = Append(@, window')]
                        /\ UNCHANGED <<mutex, count, sum, pc, began, scraped, calls>>

CollectReturns(t) ==
  /\ pc[t] = "collect"
  /\ op = "none"
  /\ Len(got[t]) = NQuantiles
  /\ scraped' = [scraped EXCEPT ![t] =
                   [windows |-> got[t], count |-> count, sum |-> sum, began |-> began[t]]]
  /\ mutex' = None
  /\ GoTo(t, "idle")
  /\ UNCHANGED <<count, sum, got, began, calls, wvars>>

(* rotate() runs in the thread whose insert or get is in progress. *)
Rotate == TW!Rotate /\ UNCHANGED svars

Tick == TW!Tick /\ UNCHANGED svars

Step(t) == \/ ObserveSum(t) \/ ObserveReturns(t)
           \/ CollectQuantile(t) \/ QuantileCollected(t) \/ CollectReturns(t)

Next == \/ \E t \in Threads : Observe(t) \/ Collect(t) \/ Step(t)
        \/ Rotate
        \/ Tick

Spec == Init /\ [][Next]_vars

(* The thread inside the summary goes on; the clock owes it nothing. *)
FairSpec == Spec /\ WF_vars(Rotate) /\ \A t \in Threads : WF_vars(Step(t))

------------------------------------------------------------------------------

Metrics == [windows : Seq(SUBSET Nat), count : Nat, sum : Nat, began : Nat]

(* The window's types, the counters', and that a thread is inside the      *)
(* summary only with the mutex.                                            *)
TypeOK == /\ TW!TypeOK
          /\ mutex \in Threads \cup {None}
          /\ count \in 0..MaxCalls
          /\ sum \in 0..MaxCalls
          /\ pc \in [Threads -> {"idle", "sum", "insert", "collect"}]
          /\ got \in [Threads -> Seq(SUBSET Nat)]
          /\ began \in [Threads -> Nat]
          /\ scraped \in [Threads -> Metrics]
          /\ calls \in 0..MaxCalls
          /\ \A t \in Threads : pc[t] # "idle" <=> mutex = t

(* A scrape never sees half an observation: count and sum are of the same  *)
(* observations, and there are as many as any of its quantiles is of.      *)
ScrapeOfWholeObservations ==
  \A t \in Threads : LET m == scraped[t] IN
    /\ m.sum = m.count
    /\ \A k \in 1..Len(m.windows) : Cardinality(m.windows[k]) <= m.count

(* The clock may run on between two quantiles of one scrape, so they need  *)
(* not be of the same window.  But nothing is inserted meanwhile: a later  *)
(* quantile is of the same observations or of fewer.                       *)
ScrapeWindowsShrink ==
  \A t \in Threads : \A j, k \in 1..Len(scraped[t].windows) :
    j < k => scraped[t].windows[k] \subseteq scraped[t].windows[j]

(* No quantile of a scrape is computed from an observation that was older  *)
(* than max_age when the scrape began.                                     *)
ScrapeFresh ==
  \A t \in Threads : \A k \in 1..Len(scraped[t].windows) :
    \A s \in scraped[t].windows[k] : scraped[t].began - s <= MaxAge

(* Every call returns and gives the mutex back, also from a rotation that  *)
(* has much to catch up with.                                              *)
CallsReturn == \A t \in Threads : pc[t] # "idle" ~> pc[t] = "idle"
==============================================================================
