----------------------------- MODULE MCHistogram -----------------------------
(***************************************************************************)
(* Two observers and a scraper; boundaries 1 and 3, so three buckets, with *)
(* values on a boundary, inside and beyond.                                *)
(***************************************************************************)
EXTENDS Histogram, TLC

MCBoundaries == <<1, 3>>
MCValues == {1, 2, 5}

(***************************************************************************)
(* Values 1, 2 and 5, sorted by the caller; a batch that asks a bucket to  *)
(* go down; and one of the wrong size.                                     *)
(***************************************************************************)
MCBatches == {[increments |-> <<1, 1, 1>>,  sum |-> 8],
              [increments |-> <<1, -1, 1>>, sum |-> 6],
              [increments |-> <<1, 1>>,     sum |-> 3]}

(* What ScrapeSumCoversCounts is proved from holds of these. *)
ASSUME MCAssumption == FromObservations

MCSymmetry == Permutations(Observers)
==============================================================================
