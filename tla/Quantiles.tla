------------------------------ MODULE Quantiles ------------------------------
(***************************************************************************)
(* prometheus/detail/ckms_quantiles.cc: the estimator of quantiles in one  *)
(* bucket of the time window.  It keeps a sorted sample of the values      *)
(* inserted; an item stands for g values, its own and merged smaller ones, *)
(* and delta says by how much its rank may be off.  Insertions are         *)
(* buffered; a full buffer, and every get, puts the buffer into the sample *)
(* and compresses it.  All callers hold the summary's mutex, so one call   *)
(* is one step.                                                            *)
(*                                                                         *)
(* Indices are the code's, from 0: At(s, 0) is the first item.  Quantiles  *)
(* and errors are in percent, and an allowable error, a real number in the *)
(* code, is in parts of 1/Unit, which makes every term of it an integer.   *)
(* What rounding does to the code's doubles is not modelled.               *)
(***************************************************************************)
EXTENDS Integers, Sequences, SequencesExt, FiniteSetsExt

CONSTANTS Values,      \* what insert is called with
          Targets,     \* the targeted quantiles: records [quantile, error]
          BufferSize,  \* the size of buffer_
          Unit,        \* the scale of allowable errors
          MaxInserts,  \* bound: insertions since the last reset
          None

ASSUME QuantilesAssumption ==
  /\ Values \subseteq Int
  /\ None \notin Values
  /\ BufferSize \in Nat \ {0}
  /\ Unit \in Nat \ {0}
  /\ \A t \in Targets : /\ t.quantile \in 1..99
                        /\ t.error \in 1..99
                        /\ (2 * t.error * Unit) % t.quantile = 0
                        /\ (2 * t.error * Unit) % (100 - t.quantile) = 0

VARIABLES sample,    \* sample_
          count,     \* count_
          buffer,    \* buffer_[0 .. buffer_count_)
          inserted,  \* history: how often each value was inserted since the last reset
          got        \* history: what the get just made returned, as [target, value]

vars == <<sample, count, buffer, inserted, got>>

Init == /\ sample = <<>>
        /\ count = 0
        /\ buffer = <<>>
        /\ inserted = [v \in Values |-> 0]
        /\ got = None

------------------------------------------------------------------------------

At(s, i) == s[i + 1]

U(t) == (2 * t.error * Unit) \div (100 - t.quantile)
V(t) == (2 * t.error * Unit) \div t.quantile

(* size is that of the sample, not the number of values it stands for.     *)
AllowableError(rank, size) ==
  Min({(size + 1) * Unit} \cup
      {IF rank * 100 <= t.quantile * size THEN U(t) * (size - rank) ELSE V(t) * rank : t \in Targets})

(* The first item, from the given one on, that is not below v, or the last *)
Advance(s, item, v) == Min({k \in item..(Len(s) - 1) : At(s, k).value >= v} \cup {Len(s) - 1})

InsertionIndex(s, stop, v) == IF At(s, stop).value > v THEN stop ELSE stop + 1

(* The values at both ends should be exact; the test means index 1, and    *)
(* the last index before the insertion.                                    *)
Delta(s, idx) ==
  IF idx = 1 \/ idx + 1 = Len(s) THEN 0 ELSE AllowableError(idx + 1, Len(s)) \div Unit + 1

(* One round of the loop over the buffer: the sample and the index of the  *)
(* item the last round inserted, at which this one begins its search.      *)
InsertNext(state, v) ==
  LET s == state[1]
      idx == InsertionIndex(s, Advance(s, state[2], v), v)
  IN  <<InsertAt(s, idx + 1, [value |-> v, g |-> 1, delta |-> Delta(s, idx)]), idx>>

InsertAll(s, vs) ==
  LET round[k \in 0..Len(vs)] == IF k = 0 THEN <<s, 0>> ELSE InsertNext(round[k - 1], vs[k])
  IN  round[Len(vs)][1]

(* How many of the elements of vs are not above v.                         *)
Below(vs, v) == Cardinality({i \in 1..Len(vs) : vs[i] <= v})

(* std::sort: in the k-th place is the least element that, with the        *)
(* elements not above it, makes k of them.                                 *)
InOrder(vs) == [k \in 1..Len(vs) |-> Min({v \in Range(vs) : Below(vs, v) >= k})]

InsertBatch(s, vs) ==
  LET sorted == InOrder(vs)
      first == <<[value |-> Head(sorted), g |-> 1, delta |-> 0]>>
  IN  IF vs = <<>> THEN s
      ELSE IF s = <<>> THEN InsertAll(first, Tail(sorted)) ELSE InsertAll(s, sorted)

(* mutant of Merge: the item goes, its weight with it *)
Dropped(s, prev) == RemoveAt(s, prev + 1)

(* mutant of Merge: the upper item goes into the lower one *)
MergedDown(s, prev) == RemoveAt([s EXCEPT ![prev + 1].g = @ + At(s, prev + 1).g], prev + 2)

(* Item prev goes into the next one. *)
Merge(s, prev) == RemoveAt([s EXCEPT ![prev + 2].g = @ + At(s, prev).g], prev + 1)

Mergeable(s, prev) ==
  (At(s, prev).g + At(s, prev + 1).g + At(s, prev + 1).delta) * Unit <= AllowableError(prev + 1, Len(s))

(* Erasing an item moves the later ones down: after a merge the loop goes  *)
(* on behind the item that grew.  Round k looks at the items k - 1 and k.  *)
CompressRound(s, k) == IF k < Len(s) /\ Mergeable(s, k - 1) THEN Merge(s, k - 1) ELSE s

Compress(s) ==
  LET round[k \in 0..Len(s)] == IF k = 0 THEN s ELSE CompressRound(round[k - 1], k)
  IN  round[Len(s)]

(* What the first n items stand for.                                       *)
Weight(s, n) ==
  LET sum[i \in 0..Len(s)] == IF i = 0 THEN 0 ELSE sum[i - 1] + s[i].g
  IN  sum[n]

(* The first item whose successor may be ranked beyond the bound, or the   *)
(* last one; bound is twice the code's, in parts of 1/Unit.                *)
ValueAt(s, bound) ==
  LET beyond == {i \in 0..(Len(s) - 2) :
                   2 * Unit * (Weight(s, i + 1) + At(s, i + 1).g + At(s, i + 1).delta) > bound}
  IN  At(s, Min(beyond \cup {Len(s) - 1})).value

Desired(t, n) == (t.quantile * n) \div 100

Estimate(s, n, t) ==
  IF s = <<>> THEN None
  ELSE ValueAt(s, 2 * Unit * Desired(t, n) + AllowableError(Desired(t, n), Len(s)))

------------------------------------------------------------------------------

Flush(b) == /\ sample' = Compress(InsertBatch(sample, b))
            /\ count' = count + Len(b)
            /\ buffer' = <<>>

(* history: every insertion since the last reset, as <<value, how manieth>> *)
Insertions == UNION {{v} \X (1..inserted[v]) : v \in Values}

NInserted == Cardinality(Insertions)

(* mutant of Full: one value too late *)
FullTooLate(b) == Len(b) > BufferSize

Full(b) == Len(b) = BufferSize

Insert(v) ==
  /\ NInserted < MaxInserts
  /\ LET filled == Append(buffer, v) IN
       IF Full(filled) THEN Flush(filled)
       ELSE buffer' = filled /\ UNCHANGED <<sample, count>>
  /\ inserted' = [inserted EXCEPT ![v] = @ + 1]
  /\ got' = None

Get(t) ==
  /\ Flush(buffer)
  /\ got' = [target |-> t, value |-> Estimate(sample', count', t)]
  /\ UNCHANGED inserted

Reset == /\ sample' = <<>>
         /\ count' = 0
         /\ buffer' = <<>>
         /\ inserted' = [v \in Values |-> 0]
         /\ got' = None

Next == \/ \E v \in Values : Insert(v)
        \/ \E t \in Targets : Get(t)
        \/ Reset

Spec == Init /\ [][Next]_vars

------------------------------------------------------------------------------

Item == [value : Values, g : Nat \ {0}, delta : Nat]

(* insertBatch resumes its search at the last insertion, and compress      *)
(* erases while it walks; the sample stays sorted all the same.            *)
SampleSorted == \A i \in 2..Len(sample) : sample[i - 1].value <= sample[i].value

(* The variables keep their types, the sample stays sorted, and the buffer *)
(* array has room for the next value at every call of insert               *)
(* (buffer_[buffer_count_] = value).                                       *)
TypeOK ==
  /\ sample \in Seq(Item) /\ SampleSorted
  /\ count \in Nat
  /\ buffer \in Seq(Values) /\ Len(buffer) < BufferSize
  /\ inserted \in [Values -> Nat]
  /\ got \in {None} \cup [target : Targets, value : Values \cup {None}]

(* How many values not above v the sample has taken in.                    *)
TakenUpTo(v) == Cardinality({x \in Insertions : x[1] <= v}) - Below(buffer, v)

(* Merging loses no value: the items together stand for count_ values, and *)
(* with the buffered ones for all that were inserted since the last reset. *)
WeightsAddUp == /\ Weight(sample, Len(sample)) = count
                /\ count + Len(buffer) = NInserted

(* The rank that get adds up for an item, the weights up to it, is never   *)
(* above the item's true rank among all inserted values, however many      *)
(* rounds of insertBatch and compress it went through.                     *)
RankNotOverstated == \A i \in 1..Len(sample) : Weight(sample, i) <= TakenUpTo(sample[i].value)

(* The greatest value inserted survives every compression as the last      *)
(* item: get falls back on it for the highest quantiles.                   *)
GreatestKept == sample # <<>> => TakenUpTo(Last(sample).value) = count

(* summary.h promises of a target {quantile, error} that the quantile is   *)
(* returned with that error: the ranks of the value returned, one more or  *)
(* less for rounding, meet the interval quantile +- error of all inserted  *)
(* values.                                                                 *)
GotWithinError ==
  got # None /\ NInserted > 0 =>
    LET t == got.target
        highest == TakenUpTo(got.value)
        lowest == highest - inserted[got.value] + 1
    IN  /\ (highest + 1) * 100 >= (t.quantile - t.error) * NInserted
        /\ (lowest - 1) * 100 <= (t.quantile + t.error) * NInserted
==============================================================================
