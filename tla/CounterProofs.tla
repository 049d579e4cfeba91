---------------------------- MODULE CounterProofs ----------------------------
(***************************************************************************)
(* What is proved of gauges and counters, for any finite set of threads,   *)
(* any amounts and any bound on calls.  A gauge's variables keep their     *)
(* types, and the lock-free loop of Gauge::Change implements the atomic    *)
(* gauge.  A counter never decreases: the step that stores the sum is      *)
(* taken long after the argument was checked, so that proof needs the      *)
(* invariant that only what passed the check is in flight.                 *)
(***************************************************************************)
EXTENDS Counter, FiniteSetTheorems, TLAPS

------------------------------------------------------------------------------
(* The gauge                                                               *)

(* Who is inside Change: the counting part of TypeOK for a step that lets  *)
(* a thread in, and for one that lets it out.                              *)
LEMMA OneMore ==
  ASSUME NEW S \in SUBSET Threads, NEW t \in Threads \ S, IsFiniteSet(Threads)
  PROVE  Cardinality(S) \in Nat /\ Cardinality(S \cup {t}) = Cardinality(S) + 1
  BY FS_Subset, FS_AddElement, FS_CardinalityType

LEMMA OneLess ==
  ASSUME NEW S \in SUBSET Threads, NEW t \in S, IsFiniteSet(Threads)
  PROVE  Cardinality(S) \in Nat /\ Cardinality(S \ {t}) = Cardinality(S) - 1
  BY FS_Subset, FS_RemoveElement, FS_CardinalityType

(* Every variable of Gauge keeps its type, and calls return once.          *)
THEOREM GaugeTypeCorrect == Spec => []TypeOK
<1> USE GaugeAssumption
<1>1. Init => TypeOK
  <2> SUFFICES ASSUME Init PROVE TypeOK
    OBVIOUS
  <2>1. InProgress = {}
    BY DEF Init, InProgress
  <2> QED BY <2>1, FS_EmptySet DEF Init, TypeOK, Types
<1>2. TypeOK /\ [Next]_vars => TypeOK'
  <2> SUFFICES ASSUME TypeOK, [Next]_vars PROVE TypeOK'
    OBVIOUS
  <2> USE DEF Types
  <2>0. Types /\ InProgress \in SUBSET Threads /\ Cardinality(InProgress) \in Nat
    BY FS_Subset, FS_CardinalityType DEF TypeOK, InProgress
  <2>1. ASSUME NEW t \in Threads, NEW v \in Int, Change(t, v) PROVE TypeOK'
    <3>1. Types'
      BY <2>0, <2>1 DEF Change, StartCall
    <3>2. t \notin InProgress /\ InProgress' = InProgress \cup {t}
      BY <2>0, <2>1 DEF Change, StartCall, InProgress
    <3>3. Cardinality(InProgress') = Cardinality(InProgress) + 1
      BY <2>0, <3>2, OneMore
    <3> QED BY <2>0, <2>1, <3>1, <3>3 DEF Change, StartCall, TypeOK
  <2>2. ASSUME NEW t \in Threads, NEW v \in Amounts, Increment(t, v) PROVE TypeOK'
    BY <2>1, <2>2 DEF Increment
  <2>3. ASSUME NEW t \in Threads, NEW v \in Amounts, Decrement(t, v) PROVE TypeOK'
    <3>1. v \in Int /\ -v \in Int
      OBVIOUS
    <3> QED BY <2>1, <2>3, <3>1 DEF Decrement
  <2>4. ASSUME NEW t \in Threads, NEW v \in Amounts, Set(t, v) PROVE TypeOK'
    <3>1. Types'
      BY <2>0, <2>4 DEF Set, StartCall
    <3>2. InProgress' = InProgress
      BY <2>4 DEF Set, InProgress
    <3> QED BY <2>0, <2>4, <3>1, <3>2 DEF Set, StartCall, TypeOK
  <2>5. ASSUME NEW t \in Threads, Load(t) PROVE TypeOK'
    <3>1. Types'
      BY <2>0, <2>5 DEF Load
    <3>2. InProgress' = InProgress
      BY <2>0, <2>5 DEF Load, InProgress
    <3> QED BY <2>0, <2>5, <3>1, <3>2 DEF Load, TypeOK
  <2>6. ASSUME NEW t \in Threads, CasSucceed(t) PROVE TypeOK'
    <3> USE <2>6 DEF CasSucceed, Exchange, LoopLeft
    <3>1. Types'
      BY <2>0
    <3>2. t \in InProgress /\ InProgress' = InProgress \ {t}
      BY <2>0 DEF InProgress
    <3>3. Cardinality(InProgress') = Cardinality(InProgress) - 1
      BY <2>0, <3>2, OneLess
    <3> QED BY <2>0, <3>1, <3>3 DEF TypeOK
  <2>7. ASSUME NEW t \in Threads, CasFail(t) PROVE TypeOK'
    <3>1. Types'
      BY <2>0, <2>7 DEF CasFail, Reloaded
    <3>2. InProgress' = InProgress
      BY <2>7 DEF CasFail, InProgress
    <3> QED BY <2>0, <2>7, <3>1, <3>2 DEF CasFail, TypeOK
  <2>8. CASE UNCHANGED vars
    <3>1. InProgress' = InProgress /\ Types'
      BY <2>0, <2>8 DEF vars, InProgress
    <3> QED BY <2>0, <2>8, <3>1 DEF vars, TypeOK
  <2> QED BY <2>2, <2>3, <2>4, <2>5, <2>6, <2>7, <2>8 DEF Next
<1> QED BY <1>1, <1>2, PTL DEF Spec

(***************************************************************************)
(* The refinement.  A thread's pending amount in AtomicGauge is delta      *)
(* while it is inside Change.  Load and CasFail touch only current, which  *)
(* the abstract gauge does not have, so they are stutters; CasSucceed is   *)
(* the instant the change takes effect, because its guard makes current    *)
(* the gauge's present value.                                              *)
(***************************************************************************)
THEOREM GaugeImplementsAtomicGauge == Spec => ImplementsAtomicGauge
<1> USE GaugeAssumption
<1>1. Init => Abstract!Init
  BY DEF Init, Abstract!Init
<1>2. TypeOK /\ [Next]_vars => [Abstract!Next]_(Abstract!vars)
  <2> SUFFICES ASSUME TypeOK, [Next]_vars PROVE [Abstract!Next]_(Abstract!vars)
    OBVIOUS
  <2> DEFINE P == [t \in Threads |-> IF pc[t] = "idle" THEN NoCall ELSE delta[t]]
  <2> USE DEF TypeOK, Types
  <2>1. ASSUME NEW t \in Threads, NEW d \in Int, Change(t, d)
        PROVE  P[t] = NoCall /\ P' = [P EXCEPT ![t] = d] /\ value' = value
    BY <2>1 DEF Change, StartCall
  <2>2. ASSUME NEW t \in Threads, NEW v \in Amounts, Increment(t, v)
        PROVE  Abstract!Ask(t, v)
    BY <2>1, <2>2 DEF Increment, Abstract!Ask
  <2>3. ASSUME NEW t \in Threads, NEW v \in Amounts, Decrement(t, v)
        PROVE  Abstract!Ask(t, -v)
    <3>1. -v \in Int
      OBVIOUS
    <3> QED BY <2>1, <2>3, <3>1 DEF Decrement, Abstract!Ask
  <2>4. ASSUME NEW t \in Threads, NEW v \in Amounts, Set(t, v)
        PROVE  Abstract!Overwrite(t, v)
    BY <2>4 DEF Set, StartCall, Abstract!Overwrite
  <2>5. ASSUME NEW t \in Threads, Load(t) \/ CasFail(t)
        PROVE  UNCHANGED Abstract!vars
    BY <2>5 DEF Load, CasFail, Abstract!vars
  <2>6. ASSUME NEW t \in Threads, CasSucceed(t)
        PROVE  Abstract!TakeEffect(t)
    <3>1. P[t] = delta[t] /\ P[t] # NoCall
      BY <2>6 DEF CasSucceed, Exchange, LoopLeft
    <3>2. value' = value + P[t]
      BY <2>6, <3>1 DEF CasSucceed, Exchange, LoopLeft
    <3>3. P' = [P EXCEPT ![t] = NoCall]
      BY <2>6 DEF CasSucceed, Exchange, LoopLeft
    <3> QED BY <3>1, <3>2, <3>3 DEF Abstract!TakeEffect
  <2>7. CASE UNCHANGED vars
    BY <2>7 DEF vars, Abstract!vars
  <2> QED BY <2>2, <2>3, <2>4, <2>5, <2>6, <2>7 DEF Next, Abstract!Next
<1> QED BY <1>1, <1>2, GaugeTypeCorrect, PTL DEF Spec, ImplementsAtomicGauge, Abstract!Spec

------------------------------------------------------------------------------
(* The counter                                                             *)

(* Types, and that whatever is inside Change passed the check.             *)
THEOREM CounterTypeCorrect == CounterSpec => []CounterTypeOK
<1> USE GaugeAssumption
<1>1. Init => CounterTypeOK
  BY DEF Init, CounterTypeOK, Types
<1>2. CounterTypeOK /\ [CounterNext]_vars => CounterTypeOK'
  <2> SUFFICES ASSUME CounterTypeOK, [CounterNext]_vars PROVE CounterTypeOK'
    OBVIOUS
  <2> USE DEF CounterTypeOK, Types
  <2>1. ASSUME NEW t \in Threads, NEW v \in Amounts, IncrementIgnored(t, v) PROVE CounterTypeOK'
    BY <2>1 DEF IncrementIgnored, StartCall
  <2>2. ASSUME NEW t \in Threads, NEW v \in Amounts, CounterIncrement(t, v) PROVE CounterTypeOK'
    <3>1. v \in Int /\ v >= 0
      BY <2>2 DEF CounterIncrement, TurnedAway
    <3> QED BY <2>2, <3>1 DEF CounterIncrement, Increment, Change, StartCall
  <2>3. ASSUME NEW t \in Threads, Load(t) PROVE CounterTypeOK'
    BY <2>3 DEF Load
  <2>4. ASSUME NEW t \in Threads, CasSucceed(t) PROVE CounterTypeOK'
    BY <2>4 DEF CasSucceed, Exchange, LoopLeft
  <2>5. ASSUME NEW t \in Threads, CasFail(t) PROVE CounterTypeOK'
    BY <2>5 DEF CasFail, Reloaded
  <2>6. CASE UNCHANGED vars
    BY <2>6 DEF vars
  <2> QED BY <2>1, <2>2, <2>3, <2>4, <2>5, <2>6 DEF CounterNext
<1> QED BY <1>1, <1>2, PTL DEF CounterSpec

(* No step of any thread lowers the counter.                               *)
THEOREM CounterNeverDecreases == CounterSpec => NeverDecreases
<1>1. CounterTypeOK /\ [CounterNext]_vars => [value' >= value]_vars
  <2> SUFFICES ASSUME CounterTypeOK, CounterNext PROVE value' >= value
    OBVIOUS
  <2> USE DEF CounterTypeOK, Types
  <2>1. ASSUME NEW t \in Threads, CasSucceed(t) PROVE value' >= value
    <3>1. delta[t] \in Int /\ delta[t] >= 0 /\ value' = value + delta[t]
      BY <2>1 DEF CasSucceed, Exchange
    <3> QED BY <3>1
  <2>2. CASE \E t \in Threads : \/ \E v \in Amounts : IncrementIgnored(t, v) \/ CounterIncrement(t, v)
                                \/ Load(t)
                                \/ CasFail(t)
    BY <2>2 DEF IncrementIgnored, CounterIncrement, Increment, Change, Load, CasFail
  <2> QED BY <2>1, <2>2 DEF CounterNext
<1> QED BY <1>1, CounterTypeCorrect, PTL DEF CounterSpec, NeverDecreases
==============================================================================
