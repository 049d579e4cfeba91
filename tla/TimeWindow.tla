----------------------------- MODULE TimeWindow ------------------------------
(***************************************************************************)
(* prometheus/detail/time_window_quantiles.cc: the sliding window behind a *)
(* Summary's quantiles.  Every observation goes into each of AgeBuckets    *)
(* buckets; each RotationInterval the current bucket, which has been       *)
(* filling the longest, is emptied and the next becomes current.  Nobody   *)
(* rotates the buckets but the calls themselves, which first catch up with *)
(* the time that went by, in a loop that works off one reading of a clock  *)
(* that goes on.  The caller serialises the calls (Summary's mutex).       *)
(* What tells observations apart is their age, so an observation is the    *)
(* clock reading it was inserted with, and a bucket is a set of those.     *)
(***************************************************************************)
EXTENDS Integers

CONSTANTS MaxAge,      \* max_age, in ticks of the clock
          AgeBuckets,  \* age_buckets
          MaxTime      \* bound: the clock stops there

RotationInterval == MaxAge \div AgeBuckets

(* An interval of 0 would keep the loop of rotate() from ending. *)
ASSUME TimeWindowAssumption == /\ MaxAge \in Nat
                               /\ AgeBuckets \in Nat \ {0}
                               /\ RotationInterval > 0
                               /\ MaxTime \in Nat

Buckets == 0..(AgeBuckets - 1)

VARIABLES now,           \* Clock::now()
          lastRotation,  \* last_rotation_
          current,       \* current_bucket_
          buckets,       \* ckms_quantiles_
          op,            \* the call in progress: "none", "insert" or "get"
          read,          \* what that call read from the clock
          delta,         \* rotate's local
          window,        \* what the last get looked at: the current bucket
          observed       \* history: everything that was ever inserted

vars == <<now, lastRotation, current, buckets, op, read, delta, window, observed>>

Init == /\ now = 0
        /\ lastRotation = 0
        /\ current = 0
        /\ buckets = [b \in Buckets |-> {}]
        /\ op = "none"
        /\ read = 0
        /\ delta = 0
        /\ window = {}
        /\ observed = {}

Tick == /\ now < MaxTime
        /\ now' = now + 1
        /\ UNCHANGED <<lastRotation, current, buckets, op, read, delta, window, observed>>

(* Both calls begin with rotate(), which reads the clock once. *)
Start(call) == /\ op = "none"
               /\ op' = call
               /\ read' = now
               /\ delta' = now - lastRotation
               /\ UNCHANGED <<now, lastRotation, current, buckets, window, observed>>

StartInsert == Start("insert")
StartGet == Start("get")

NextBucket(b) == IF b + 1 >= AgeBuckets THEN 0 ELSE b + 1

EmptiedTooLate == NextBucket(current)   \* mutant of Emptied: advance, then reset
Emptied == current

NoStep == 0                             \* mutant of RotationStep: the interval is 0
RotationStep == RotationInterval

RotatedNow == read                      \* mutant of Rotated: the clock, not the schedule
Rotated == lastRotation + RotationStep

CaughtUp == ~(delta > RotationInterval)

(* One round of the loop: last_rotation_ moves by whole intervals, so the  *)
(* schedule does not drift with the calls.                                 *)
Rotate == /\ op # "none"
          /\ ~CaughtUp
          /\ buckets' = [buckets EXCEPT ![Emptied] = {}]
          /\ current' = NextBucket(current)
          /\ delta' = delta - RotationStep
          /\ lastRotation' = Rotated
          /\ UNCHANGED <<now, op, read, window, observed>>

FinishInsert == /\ op = "insert"
                /\ CaughtUp
                /\ buckets' = [b \in Buckets |-> buckets[b] \cup {read}]
                /\ observed' = observed \cup {read}
                /\ op' = "none"
                /\ UNCHANGED <<now, lastRotation, current, read, delta, window>>

FinishGet == /\ op = "get"
             /\ CaughtUp
             /\ window' = buckets[current]
             /\ op' = "none"
             /\ UNCHANGED <<now, lastRotation, current, buckets, read, delta, observed>>

Next == Tick \/ StartInsert \/ StartGet \/ Rotate \/ FinishInsert \/ FinishGet

Spec == Init /\ [][Next]_vars

------------------------------------------------------------------------------

(* Every variable has its type, and delta is what is left of the time from *)
(* the last rotation to the clock reading.                                 *)
TypeOK == /\ now \in 0..MaxTime
          /\ lastRotation \in Nat
          /\ current \in Buckets
          /\ buckets \in [Buckets -> SUBSET Nat]
          /\ op \in {"none", "insert", "get"}
          /\ read \in 0..now
          /\ window \subseteq Nat
          /\ observed \subseteq Nat
          /\ op # "none" => delta = read - lastRotation

AtWindow == op # "none" /\ CaughtUp

(* summary.h: the buckets are there "to exclude observations that are      *)
(* older than max_age".  Whatever the pattern of calls, and however long   *)
(* nobody called, a get sees no older one.                                 *)
NothingTooOld == AtWindow => \A s \in buckets[current] : read - s <= MaxAge

(* An observation leaves at most one interval early: one that is no older  *)
(* than AgeBuckets - 1 intervals is seen.                                  *)
NothingDroppedTooSoon ==
  AtWindow => \A s \in observed :
                read - s <= (AgeBuckets - 1) * RotationInterval => s \in buckets[current]
==============================================================================
