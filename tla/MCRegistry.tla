----------------------------- MODULE MCRegistry ------------------------------
(***************************************************************************)
(* Two threads, one good name and one that is refused, two sets of         *)
(* constant labels: enough for two registrations to race for the name with *)
(* equal and different types and labels, and for a scrape to overlap.      *)
(***************************************************************************)
EXTENDS Registry

MCTypeOrder == <<"counter", "gauge", "histogram">>

AllBehaviors == {"Merge", "Throw", "NonStandardAppend"}
==============================================================================
