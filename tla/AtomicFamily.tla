---------------------------- MODULE AtomicFamily -----------------------------
(***************************************************************************)
(* What prometheus/family.h promises of a Family: at most one metric per   *)
(* set of labels.  Add returns the metric of its own labels, the existing  *)
(* one where there is one; Remove removes one metric or none; Collect      *)
(* returns exactly the metrics that are there.  Each takes effect at once. *)
(***************************************************************************)
CONSTANTS Threads, LabelSets, Addresses,
          None       \* no metric

VARIABLES present,   \* the metric of each set of labels, by its address, or None
          returned,  \* per thread: the labels and the metric of its last successful Add
          scraped    \* per thread: the sets of labels its last Collect returned

vars == <<present, returned, scraped>>

Init == /\ present = [l \in LabelSets |-> None]
        /\ returned = [t \in Threads |-> <<None, None>>]
        /\ scraped = [t \in Threads |-> {}]

AddNew(t, l, a) == /\ present[l] = None
                   /\ \A m \in LabelSets : present[m] # a
                   /\ present' = [present EXCEPT ![l] = a]
                   /\ returned' = [returned EXCEPT ![t] = <<l, a>>]
                   /\ UNCHANGED scraped

AddExisting(t, l) == /\ present[l] # None
                     /\ returned' = [returned EXCEPT ![t] = <<l, present[l]>>]
                     /\ UNCHANGED <<present, scraped>>

Remove(l) == /\ present' = [present EXCEPT ![l] = None]
             /\ UNCHANGED <<returned, scraped>>

Collect(t) == /\ scraped' = [scraped EXCEPT ![t] = {l \in LabelSets : present[l] # None}]
              /\ UNCHANGED <<present, returned>>

Next == \/ \E t \in Threads, l \in LabelSets :
             \/ \E a \in Addresses : AddNew(t, l, a)
             \/ AddExisting(t, l)
        \/ \E l \in LabelSets : Remove(l)
        \/ \E t \in Threads : Collect(t)

Spec == Init /\ [][Next]_vars
==============================================================================
