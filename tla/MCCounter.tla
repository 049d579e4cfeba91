------------------------------ MODULE MCCounter ------------------------------
(* Three threads that increment by a negative number, by none and by some. *)
EXTENDS Counter, TLC

MCAmounts == {-1, 0, 2}

Symmetry == Permutations(Threads)
==============================================================================
