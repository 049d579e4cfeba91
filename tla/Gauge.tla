-------------------------------- MODULE Gauge --------------------------------
(***************************************************************************)
(* prometheus/gauge.cc: a std::atomic<double> that several threads change  *)
(* without a lock.  Increment and Decrement run the load / compare-and-    *)
(* swap loop of Gauge::Change; Set is one atomic store.  Doubles are       *)
(* integers here: sums are exact, and no property is about rounding.       *)
(***************************************************************************)
EXTENDS Integers, FiniteSets

CONSTANTS Threads,    \* the threads that share the gauge
          Amounts,    \* the numbers they pass to it
          MaxCalls,   \* bound: calls made over the whole run
          NoCall      \* not an amount: AtomicGauge's mark for an idle thread

ASSUME GaugeAssumption == /\ IsFiniteSet(Threads)
                          /\ Amounts \subseteq Int
                          /\ MaxCalls \in Nat
                          /\ NoCall \notin Int

VARIABLES value,      \* Gauge::value_
          pc,         \* per thread: "idle", or in Change: before its "load" or its "cas"
          delta,      \* per thread: Change's argument
          current,    \* per thread: Change's local
          calls,      \* calls started so far
          returned    \* calls returned so far

vars == <<value, pc, delta, current, calls, returned>>

Init == /\ value = 0
        /\ pc = [t \in Threads |-> "idle"]
        /\ delta = [t \in Threads |-> 0]
        /\ current = [t \in Threads |-> 0]
        /\ calls = 0
        /\ returned = 0

StartCall(t) == /\ pc[t] = "idle"
                /\ calls < MaxCalls
                /\ calls' = calls + 1

Change(t, v) == /\ StartCall(t)
                /\ pc' = [pc EXCEPT ![t] = "load"]
                /\ delta' = [delta EXCEPT ![t] = v]
                /\ UNCHANGED <<value, current, returned>>

Increment(t, v) == Change(t, v)

Decrement(t, v) == Change(t, -v)

(* Set, and SetToCurrentTime, whose argument is the clock's. *)
Set(t, v) == /\ StartCall(t)
             /\ value' = v
             /\ returned' = returned + 1
             /\ UNCHANGED <<pc, delta, current>>

Load(t) == /\ pc[t] = "load"
           /\ pc' = [pc EXCEPT ![t] = "cas"]
           /\ current' = [current EXCEPT ![t] = value]
           /\ UNCHANGED <<value, delta, calls, returned>>

LoopLeft == "idle"

Exchange(t) == /\ pc[t] = "cas"
               /\ value' = current[t] + delta[t]
               /\ pc' = [pc EXCEPT ![t] = LoopLeft]
               /\ returned' = returned + 1
               /\ UNCHANGED <<delta, current, calls>>

CasSucceed(t) == current[t] = value /\ Exchange(t)

(* A failed compare_exchange_weak reloads current.  It may fail for no     *)
(* reason, with current = value: that step changes nothing.                *)
StaleCurrent(t) == current[t]
Reloaded(t) == value

CasFail(t) == /\ pc[t] = "cas"
              /\ current' = [current EXCEPT ![t] = Reloaded(t)]
              /\ UNCHANGED <<value, pc, delta, calls, returned>>

Next == \E t \in Threads :
          \/ \E v \in Amounts : Increment(t, v) \/ Decrement(t, v) \/ Set(t, v)
          \/ Load(t)
          \/ CasSucceed(t)
          \/ CasFail(t)

Spec == Init /\ [][Next]_vars

(* A thread inside Change keeps running, and a compare-and-swap that finds *)
(* the value it expects does not fail for no reason for ever.              *)
Fairness == \A t \in Threads : /\ WF_vars(Load(t))
                               /\ WF_vars(CasSucceed(t))
                               /\ WF_vars(CasFail(t))

FairSpec == Spec /\ Fairness

------------------------------------------------------------------------------

Types == /\ value \in Int
         /\ pc \in [Threads -> {"idle", "load", "cas"}]
         /\ delta \in [Threads -> Int]
         /\ current \in [Threads -> Int]
         /\ calls \in 0..MaxCalls
         /\ returned \in Nat

InProgress == {t \in Threads : pc[t] # "idle"}

(* Every variable has its type, and every call returns once: the calls     *)
(* that have not returned are those of the threads inside Change.          *)
TypeOK == Types /\ calls = returned + Cardinality(InProgress)

(* The load / compare-and-swap loop of Gauge::Change is an atomic addition:*)
(* every run of it is a run of AtomicGauge, so no update is lost, doubled  *)
(* or computed from a stale value, and Set is never undone by a change     *)
(* that read the gauge before it.                                          *)
Abstract == INSTANCE AtomicGauge WITH
              pending <- [t \in Threads |-> IF pc[t] = "idle" THEN NoCall ELSE delta[t]]

ImplementsAtomicGauge == Abstract!Spec

(* Gauge::Change is lock-free: while some thread is in its loop, some call *)
(* eventually returns, however the threads disturb each other.             *)
LockFree == \A n \in 0..MaxCalls :
              (returned = n /\ \E t \in Threads : pc[t] # "idle") ~> (returned > n)
==============================================================================
