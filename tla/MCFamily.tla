------------------------------- MODULE MCFamily ------------------------------
(***************************************************************************)
(* Two threads, two good sets of labels and a bad one, three addresses:    *)
(* enough for both threads to hold an object while one is in the map, and  *)
(* for an address to come back as another metric's.                        *)
(***************************************************************************)
EXTENDS Family, TLC

CONSTANTS l1, l2, bad, h1, h2, h3

OneHashEach == (l1 :> h1) @@ (l2 :> h2) @@ (bad :> h3)
OneHashForTwo == (l1 :> h1) @@ (l2 :> h1) @@ (bad :> h3)
==============================================================================
