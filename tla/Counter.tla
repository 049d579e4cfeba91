------------------------------- MODULE Counter -------------------------------
(***************************************************************************)
(* prometheus/counter.cc: a Counter owns a Gauge, whose state is all it    *)
(* has, and hides everything but Increment, which turns a negative amount  *)
(* away.  The check looks at the argument once, long before the gauge's    *)
(* compare-and-swap stores the sum.  Amounts has negative numbers too.     *)
(***************************************************************************)
EXTENDS Gauge

NeverTurnedAway(v) == FALSE   \* mutant of TurnedAway: the check is missing
TurnedAway(v) == v < 0

IncrementIgnored(t, v) == /\ TurnedAway(v)
                          /\ StartCall(t)
                          /\ returned' = returned + 1
                          /\ UNCHANGED <<value, pc, delta, current>>

CounterIncrement(t, v) == ~TurnedAway(v) /\ Increment(t, v)

CounterNext == \E t \in Threads :
                 \/ \E v \in Amounts : IncrementIgnored(t, v) \/ CounterIncrement(t, v)
                 \/ Load(t)
                 \/ CasSucceed(t)
                 \/ CasFail(t)

CounterSpec == Init /\ [][CounterNext]_vars

------------------------------------------------------------------------------

(* The gauge's variables have their types, and what is in flight inside    *)
(* Gauge::Change is never negative: nothing undoes the check of Increment  *)
(* between the check and the compare-and-swap.                             *)
CounterTypeOK == Types /\ delta \in [Threads -> Nat]

(* counter.h: "the value of the counter can only increase".  No step of    *)
(* any thread lowers it, so a scrape never sees it go back.                *)
NeverDecreases == [][value' >= value]_vars
==============================================================================
