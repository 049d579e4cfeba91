------------------------------ MODULE MCSummary ------------------------------
(***************************************************************************)
(* Two threads, two quantiles, two buckets that rotate every 2 ticks.      *)
(***************************************************************************)
EXTENDS Summary
==============================================================================
