------------------------------- MODULE MCGauge -------------------------------
(* Three threads that add, subtract and set the numbers 1 and 2. *)
EXTENDS Gauge

MCAmounts == {1, 2}
==============================================================================
