---------------------------- MODULE RecencyOrder -----------------------------
(***************************************************************************)
(* What a least-recently-used cache promises: the entries in the order of  *)
(* their last use, cut off at max_size.                                    *)
(***************************************************************************)
EXTENDS Integers, SequencesExt, FiniteSetsExt

CONSTANTS Keys, Values, max_size, RangeError

VARIABLES order,   \* the entries, the one used last at the front
          answer   \* what the last call returned

vars == <<order, answer>>

Init == order = <<>> /\ answer = RangeError

(* A key has one entry or none. *)
Places(key) == {i \in 1..Len(order) : order[i].key = key}

Others(key) == IF Places(key) = {} THEN order
               ELSE RemoveAt(order, CHOOSE i \in Places(key) : TRUE)

Use(key, value) == <<[key |-> key, value |-> value]>> \o Others(key)

Put(key, value) ==
  LET used == Use(key, value) IN
  /\ order' = SubSeq(used, 1, Min({max_size, Len(used)}))
  /\ UNCHANGED answer

Get(key) == \E i \in 1..Len(order) :
  /\ order[i].key = key
  /\ order' = Use(key, order[i].value)
  /\ answer' = <<"value", order[i].value>>

GetThrows(key) == /\ \A i \in 1..Len(order) : order[i].key # key
                  /\ answer' = RangeError
                  /\ UNCHANGED order

Exists(key) == /\ answer' = <<"exists", \E i \in 1..Len(order) : order[i].key = key>>
               /\ UNCHANGED order

Size == answer' = <<"size", Len(order)>> /\ UNCHANGED order

Next == \/ \E key \in Keys : \/ \E value \in Values : Put(key, value)
                             \/ Get(key) \/ GetThrows(key) \/ Exists(key)
        \/ Size

Spec == Init /\ [][Next]_vars
==============================================================================
