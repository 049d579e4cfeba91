----------------------------- MODULE AtomicGauge -----------------------------
(***************************************************************************)
(* What prometheus/gauge.h promises of a Gauge: one number that threads    *)
(* change concurrently, every change taking effect exactly once, at a      *)
(* single instant between its call and its return ("thread-safe": two      *)
(* increments that race both count).  Nothing here knows of loops, loads   *)
(* or compare-and-swap; module Gauge is shown to implement this module.    *)
(***************************************************************************)
EXTENDS Integers

CONSTANTS Threads,   \* the threads that call the gauge
          Amounts,   \* the numbers they pass to it
          NoCall     \* marks a thread with no change in progress

VARIABLES value,     \* the gauge
          pending    \* per thread, the amount it is about to add, or NoCall

vars == <<value, pending>>

Init == /\ value = 0
        /\ pending = [t \in Threads |-> NoCall]

(* A thread asks for d to be added: Increment(d), or Decrement(-d). *)
Ask(t, d) == /\ pending[t] = NoCall
             /\ pending' = [pending EXCEPT ![t] = d]
             /\ UNCHANGED value

(* The change takes effect, once, and the call returns. *)
TakeEffect(t) == /\ pending[t] # NoCall
                 /\ value' = value + pending[t]
                 /\ pending' = [pending EXCEPT ![t] = NoCall]

(* Set replaces the number, whatever changes are in progress. *)
Overwrite(t, v) == /\ pending[t] = NoCall
                   /\ value' = v
                   /\ UNCHANGED pending

Next == \E t \in Threads :
          \/ \E d \in Amounts : Ask(t, d) \/ Ask(t, -d) \/ Overwrite(t, d)
          \/ TakeEffect(t)

Spec == Init /\ [][Next]_vars
==============================================================================
