---------------------------- MODULE MCTimeWindow -----------------------------
(***************************************************************************)
(* Three buckets and a maximal age of 7 ticks, so an interval of 2 that    *)
(* does not divide the age; time for two full turns of the buckets.        *)
(***************************************************************************)
EXTENDS TimeWindow
==============================================================================
