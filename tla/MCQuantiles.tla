----------------------------- MODULE MCQuantiles -----------------------------
(***************************************************************************)
(* The two targets that the comment of summary.h gives as its examples,    *)
(* {0.5, 0.1} and {0.2, 0.05}.  Ten insertions of three values through a   *)
(* buffer of two fill the sample, merge items and insert between merged    *)
(* ones; the violated promise is checked with the code's buffer of 500.    *)
(***************************************************************************)
EXTENDS Quantiles

Median == [quantile |-> 50, error |-> 10]

MedianOnly == {Median}

MedianAndFifth == {Median, [quantile |-> 20, error |-> 5]}
==============================================================================
