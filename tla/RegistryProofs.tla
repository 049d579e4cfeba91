--------------------------- MODULE RegistryProofs ----------------------------
(***************************************************************************)
(* For any threads, metric types, names and labels, and under every insert *)
(* behaviour: a name belongs to one metric type, and unless families are   *)
(* appended to one family.  Registry::Add checks the name first and        *)
(* appends later; what carries the proof is that the check still holds     *)
(* when the family is appended, because the thread between the two holds   *)
(* the mutex and is the only one there.  Then: what a thread is handed is  *)
(* what it asked for, and a scrape returns every metric that was there     *)
(* throughout, none that never was, and no family twice, although metrics  *)
(* come and go while it walks the families.                                *)
(***************************************************************************)
EXTENDS Registry, SequenceTheorems, TLAPS

(* TypeOK, and the types that its inductive step needs.                    *)
Shapes == /\ TypeOK
          /\ present \in [Types -> Seq(SUBSET Metrics)]
          /\ \A t \in Threads : pc[t] \in {"add", "append"} => request[t] \in Requests

(* What a thread found out under the mutex is true until it appends.       *)
StillChecked ==
  \A t \in Threads : pc[t] = "append" => ~Throws(request[t]) /\ Merged(request[t]) = {}

(* The two halves of OneFamilyPerName: a name is of one type, and without  *)
(* NonStandardAppend one family's.                                         *)
NamesType ==
  \A T, U \in Types : \A i \in 1..Len(families[T]), j \in 1..Len(families[U]) :
    families[T][i].name = families[U][j].name => T = U

NamesFamily ==
  behavior # "NonStandardAppend" =>
    \A T, U \in Types : \A i \in 1..Len(families[T]), j \in 1..Len(families[U]) :
      families[T][i].name = families[U][j].name => T = U /\ i = j

IInv == Shapes /\ StillChecked /\ NamesType /\ NamesFamily

(* Replacing one item keeps a sequence's length, also out of its range.    *)
LEMMA ReplaceOne ==
  ASSUME NEW S, NEW s \in Seq(S), NEW i, NEW x, i \in 1..Len(s) => x \in S
  PROVE  [s EXCEPT ![i] = x] \in Seq(S) /\ Len([s EXCEPT ![i] = x]) = Len(s)
<1>1. CASE i \in 1..Len(s)
  BY <1>1, ExceptSeq
<1>2. CASE i \notin 1..Len(s)
  <2>1. [s EXCEPT ![i] = x] = s
    BY <1>2
  <2> QED BY <2>1
<1> QED BY <1>1, <1>2

(* The steps that leave the families alone and bring no thread between its *)
(* check and its appending.                                                *)
LEMMA QuietStep ==
  ASSUME IInv, Shapes', UNCHANGED <<behavior, families>>,
         \A t \in Threads : pc'[t] = "append" => pc[t] = "append" /\ request'[t] = request[t]
  PROVE  IInv'
<1>1. StillChecked'
  BY DEF IInv, StillChecked, Throws, Merged, NameTaken, NameExistsInOtherType,
         OfNameAndLabels, OfName, OtherTypes
<1> QED BY <1>1 DEF IInv, NamesType, NamesFamily

(* Every step keeps the types.                                             *)
LEMMA ShapesStep == ASSUME Shapes, [Next]_vars PROVE Shapes'
<1> USE DEF Shapes, TypeOK, registering, scraping, history, StartCall, GoTo
<1>1. ASSUME NEW t \in Threads, NEW T \in Types, NEW n \in Names, NEW l \in LabelSets,
             Register(t, T, n, l)
      PROVE  Shapes'
  <2> USE <1>1 DEF Register
  <2>1. [type |-> T, name |-> n, labels |-> l] \in Requests
    BY DEF Requests
  <2>2. request' \in [Threads -> Requests \cup {None}] /\ request'[t] \in Requests
    BY <2>1
  <2>3. pc' \in [Threads -> {"idle", "add", "append", "collect"}]
    OBVIOUS
  <2>4. \A u \in Threads : pc'[u] \in {"append", "collect"} => mutex' = u
    OBVIOUS
  <2>5. \A u \in Threads : pc'[u] \in {"add", "append"} => request'[u] \in Requests
    BY <2>2
  <2>6. calls' \in 0..MaxCalls
    BY RegistryAssumption
  <2> QED BY <2>2, <2>3, <2>4, <2>5, <2>6
<1>2. ASSUME NEW t \in Threads, NEW f, NEW m \in Metrics,
             AddMetric(t, f, m) \/ RemoveMetric(t, f, m)
      PROVE  Shapes'
  <2> USE <1>2 DEF AddMetric, RemoveMetric
  <2>1. /\ present' \in [Types -> Seq(SUBSET Metrics)]
        /\ \A U \in Types : Len(present'[U]) = Len(present[U])
    <3>1. PICK T, i, X : /\ T = f[1] /\ i = f[2]
                         /\ X \in {present[T][i] \cup {m}, present[T][i] \ {m}}
                         /\ present' = [present EXCEPT ![T] = [present[T] EXCEPT ![i] = X]]
      <4>1. CASE AddMetric(t, f, m)
        <5>1. present' = [present EXCEPT ![f[1]] = [present[f[1]] EXCEPT ![f[2]] = present[f[1]][f[2]] \cup {m}]]
          BY <4>1
        <5> QED BY <5>1
      <4>2. CASE RemoveMetric(t, f, m)
        <5>1. present' = [present EXCEPT ![f[1]] = [present[f[1]] EXCEPT ![f[2]] = present[f[1]][f[2]] \ {m}]]
          BY <4>2
        <5> QED BY <5>1
      <4> QED BY <4>1, <4>2
    <3>2. ASSUME T \in Types
          PROVE  /\ [present[T] EXCEPT ![i] = X] \in Seq(SUBSET Metrics)
                 /\ Len([present[T] EXCEPT ![i] = X]) = Len(present[T])
      <4>1. present[T] \in Seq(SUBSET Metrics)
        BY <3>2
      <4>2. i \in 1..Len(present[T]) => X \in SUBSET Metrics
        BY <3>1, <4>1, ElementOfSeq
      <4> HIDE <1>2 DEF Shapes, TypeOK, registering, scraping, history, StartCall, GoTo, AddMetric, RemoveMetric
      <4> QED BY <4>1, <4>2, ReplaceOne
    <3>3. /\ present \in [Types -> Seq(SUBSET Metrics)]
          /\ present' = [present EXCEPT ![T] = [present[T] EXCEPT ![i] = X]]
      BY <3>1
    <3> HIDE <1>2 DEF Shapes, TypeOK, registering, scraping, history, StartCall, GoTo, AddMetric, RemoveMetric
    <3> QED BY <3>2, <3>3
  <2>2. calls' \in 0..MaxCalls
    BY RegistryAssumption
  <2>3. UNCHANGED <<behavior, mutex, families, pc, request>>
    OBVIOUS
  <2> QED BY <2>1, <2>2, <2>3
<1>3. ASSUME NEW t \in Threads, Collect(t) PROVE Shapes'
  <2>1. calls' \in 0..MaxCalls
    BY <1>3, RegistryAssumption DEF Collect
  <2> QED BY <1>3, <2>1, RegistryAssumption DEF Collect, MutexFree
<1>4. ASSUME NEW t \in Threads, AddThrows(t) \/ AddMerges(t) PROVE Shapes'
  BY <1>4 DEF AddThrows, AddMerges, Hand
<1>5. ASSUME NEW t \in Threads, AddPasses(t) PROVE Shapes'
  BY <1>5, RegistryAssumption DEF AddPasses, MutexFree
<1>6. ASSUME NEW t \in Threads, FamilyThrows(t) PROVE Shapes'
  BY <1>6 DEF FamilyThrows, UnlockedByThrow
<1>7. ASSUME NEW t \in Threads, AppendFamily(t) PROVE Shapes'
  <2> USE <1>7 DEF AppendFamily, Hand
  <2>1. request[t] \in Requests /\ request[t].type \in Types
    BY DEF Requests
  <2>2. [name |-> request[t].name, labels |-> request[t].labels] \in [name : Names, labels : LabelSets]
    BY <2>1 DEF Requests
  <2>3. families' \in [Types -> Seq([name : Names, labels : LabelSets])]
    BY <2>1, <2>2, AppendProperties
  <2>4. present' \in [Types -> Seq(SUBSET Metrics)]
    BY <2>1, AppendProperties
  <2>5. \A T \in Types : Len(present'[T]) = Len(families'[T])
    BY <2>1, <2>2, AppendProperties
  <2>6. \A u \in Threads : pc'[u] \in {"append", "collect"} => mutex' = u
    OBVIOUS
  <2> QED BY <2>3, <2>4, <2>5, <2>6
<1>8. ASSUME NEW t \in Threads, CollectFamily(t) \/ CollectNextType(t) PROVE Shapes'
  BY <1>8 DEF CollectFamily, CollectNextType
<1>9. ASSUME NEW t \in Threads, CollectReturns(t) PROVE Shapes'
  BY <1>9 DEF CollectReturns, InScrape
<1>10. CASE UNCHANGED vars
  BY <1>10 DEF vars
<1> QED BY <1>1, <1>2, <1>3, <1>4, <1>5, <1>6, <1>7, <1>8, <1>9, <1>10 DEF Next, Step

(* The appended family's name was nobody's, by the check made before.      *)
LEMMA AppendedNameIsNew ==
  ASSUME IInv, NEW t \in Threads, AppendFamily(t), NEW T \in Types, NEW i \in 1..Len(families[T]),
         families[T][i].name = request[t].name
  PROVE  T = request[t].type /\ behavior = "NonStandardAppend"
<1> USE DEF AppendFamily
<1>1. request[t] \in Requests /\ ~Throws(request[t]) /\ Merged(request[t]) = {}
  BY DEF IInv, Shapes, StillChecked
<1>2. i \in OfName(T, request[t].name)
  BY DEF OfName
<1>3. T = request[t].type
  BY <1>1, <1>2 DEF Throws, NameExistsInOtherType, OtherTypes
<1>4. ~NameTaken(request[t])
  BY <1>1 DEF Throws
<1> QED BY <1>2, <1>3, <1>4 DEF NameTaken

(* What a family was before the append, and what the new one is.           *)
LEMMA AppendedFamilies ==
  ASSUME IInv, NEW t \in Threads, AppendFamily(t)
  PROVE  LET r == request[t] IN
           /\ r.type \in Types
           /\ \A T \in Types : families[T] \in Seq([name : Names, labels : LabelSets])
           /\ \A T \in Types : T # r.type => families'[T] = families[T]
           /\ Len(families'[r.type]) = Len(families[r.type]) + 1
           /\ \A i \in 1..Len(families[r.type]) : families'[r.type][i] = families[r.type][i]
           /\ families'[r.type][Len(families[r.type]) + 1] = [name |-> r.name, labels |-> r.labels]
           /\ families'[r.type][Len(families[r.type]) + 1].name = r.name
<1> DEFINE r == request[t]
           x == [name |-> r.name, labels |-> r.labels]
<1>1. r.type \in Types /\ x \in [name : Names, labels : LabelSets]
  BY DEF AppendFamily, IInv, Shapes, Requests
<1>2. families \in [Types -> Seq([name : Names, labels : LabelSets])]
  BY DEF IInv, Shapes, TypeOK
<1>3. families' = [families EXCEPT ![r.type] = Append(families[r.type], x)]
  BY DEF AppendFamily
<1>4. x.name = r.name
  OBVIOUS
<1>5. /\ families'[r.type] = Append(families[r.type], x)
      /\ \A T \in Types : T # r.type => families'[T] = families[T]
  BY <1>1, <1>2, <1>3
<1>6. /\ Len(families'[r.type]) = Len(families[r.type]) + 1
      /\ \A i \in 1..Len(families[r.type]) : families'[r.type][i] = families[r.type][i]
      /\ families'[r.type][Len(families[r.type]) + 1] = x
  <2> HIDE DEF x
  <2>1. families[r.type] \in Seq([name : Names, labels : LabelSets])
    BY <1>1, <1>2
  <2> QED BY <1>1, <1>5, <2>1, AppendProperties
<1> QED BY <1>1, <1>2, <1>4, <1>5, <1>6

(* Appending keeps names apart.                                            *)
LEMMA AppendStep == ASSUME IInv, NEW t \in Threads, AppendFamily(t), Shapes' PROVE IInv'
<1> DEFINE r == request[t]
<1>1. StillChecked'
  <2> SUFFICES ASSUME NEW u \in Threads, pc'[u] = "append" PROVE FALSE
    BY DEF StillChecked
  <2>1. mutex = t /\ pc' = [pc EXCEPT ![t] = "idle"] /\ pc \in [Threads -> {"idle", "add", "append", "collect"}]
    BY DEF AppendFamily, GoTo, IInv, Shapes, TypeOK
  <2>2. u # t /\ pc[u] = "append"
    BY <2>1
  <2> QED BY <2>1, <2>2 DEF IInv, Shapes, TypeOK
<1>2. ASSUME NEW T \in Types, NEW i \in 1..Len(families'[T])
      PROVE  \/ i \in 1..Len(families[T]) /\ families'[T][i] = families[T][i]
             \/ T = r.type /\ i = Len(families[T]) + 1 /\ families'[T][i].name = r.name
  <2>1. CASE T = r.type
    <3>1. families[T] \in Seq([name : Names, labels : LabelSets]) /\ Len(families'[T]) = Len(families[T]) + 1
      BY <2>1, AppendedFamilies
    <3>2. i \in 1..Len(families[T]) \/ i = Len(families[T]) + 1
      BY <3>1
    <3> QED BY <2>1, <3>2, AppendedFamilies
  <2>2. CASE T # r.type
    <3>1. families'[T] = families[T]
      BY <2>2, AppendedFamilies
    <3> QED BY <3>1
  <2> QED BY <2>1, <2>2
<1>3. NamesType'
  <2> SUFFICES ASSUME NEW T \in Types, NEW U \in Types, NEW i \in 1..Len(families'[T]), NEW j \in 1..Len(families'[U]),
                      families'[T][i].name = families'[U][j].name
               PROVE  T = U
    BY DEF NamesType
  <2>1. CASE i \in 1..Len(families[T]) /\ families'[T][i] = families[T][i]
    BY <1>2, <2>1, AppendedNameIsNew DEF IInv, NamesType
  <2>2. CASE j \in 1..Len(families[U]) /\ families'[U][j] = families[U][j]
    BY <1>2, <2>2, AppendedNameIsNew DEF IInv, NamesType
  <2> QED BY <1>2, <2>1, <2>2
<1>4. NamesFamily'
  <2> SUFFICES ASSUME behavior # "NonStandardAppend",
                      NEW T \in Types, NEW U \in Types, NEW i \in 1..Len(families'[T]), NEW j \in 1..Len(families'[U]),
                      families'[T][i].name = families'[U][j].name
               PROVE  T = U /\ i = j
    BY DEF NamesFamily, AppendFamily
  <2>1. CASE i \in 1..Len(families[T]) /\ families'[T][i] = families[T][i]
    <3>1. CASE j \in 1..Len(families[U]) /\ families'[U][j] = families[U][j]
      BY <2>1, <3>1 DEF IInv, NamesFamily
    <3>2. CASE families'[U][j].name = r.name
      BY <2>1, <3>2, AppendedNameIsNew
    <3> QED BY <1>2, <3>1, <3>2
  <2>2. CASE j \in 1..Len(families[U]) /\ families'[U][j] = families[U][j]
    <3>1. CASE i \in 1..Len(families[T]) /\ families'[T][i] = families[T][i]
      BY <2>2, <3>1 DEF IInv, NamesFamily
    <3>2. CASE families'[T][i].name = r.name
      BY <2>2, <3>2, AppendedNameIsNew
    <3> QED BY <1>2, <3>1, <3>2
  <2> QED BY <1>2, <2>1, <2>2
<1> QED BY <1>1, <1>3, <1>4 DEF IInv

(* The inductive invariant: types, standing checks and names.              *)
THEOREM RegistryInvariant == Spec => []IInv
<1>1. Init => IInv
  <2> SUFFICES ASSUME Init PROVE IInv
    OBVIOUS
  <2> USE RegistryAssumption DEF Init
  <2>1. Shapes
    BY DEF Shapes, TypeOK
  <2>2. StillChecked /\ NamesType /\ NamesFamily
    BY DEF StillChecked, NamesType, NamesFamily
  <2> QED BY <2>1, <2>2 DEF IInv
<1>2. IInv /\ [Next]_vars => IInv'
  <2> SUFFICES ASSUME IInv, [Next]_vars PROVE IInv'
    OBVIOUS
  <2>0. Shapes /\ Shapes'
    BY ShapesStep DEF IInv
  <2> USE <2>0
  <2>1. ASSUME NEW t \in Threads, AddPasses(t) PROVE IInv'
    <3>1. StillChecked'
      <4>1. UNCHANGED <<behavior, families, request>>
        BY <2>1 DEF AddPasses, registering
      <4> SUFFICES ASSUME NEW u \in Threads, pc'[u] = "append"
                   PROVE  ~Throws(request[u]) /\ Merged(request[u]) = {}
        <5>1. \A u \in Threads : (Throws(request[u]))' = Throws(request[u])
                                 /\ (Merged(request[u]))' = Merged(request[u])
          BY <4>1 DEF Throws, Merged, NameTaken, NameExistsInOtherType, OfNameAndLabels,
                      OfName, OtherTypes
        <5> QED BY <5>1 DEF StillChecked
      <4> QED BY <2>1 DEF AddPasses, GoTo, IInv, StillChecked, Shapes, TypeOK
    <3> QED BY <2>1, <3>1 DEF AddPasses, registering, IInv, NamesType, NamesFamily
  <2>2. ASSUME NEW t \in Threads, AppendFamily(t) PROVE IInv'
    BY <2>2, AppendStep
  <2>3. ASSUME NEW t \in Threads,
               \/ \E T \in Types, n \in Names, l \in LabelSets : Register(t, T, n, l)
               \/ \E f, m : AddMetric(t, f, m) \/ RemoveMetric(t, f, m)
               \/ Collect(t)
        PROVE  IInv'
    <3>1. UNCHANGED <<behavior, families>>
      BY <2>3 DEF Register, AddMetric, RemoveMetric, Collect, registering
    <3>2. \A u \in Threads : pc'[u] = "append" => pc[u] = "append" /\ request'[u] = request[u]
      BY <2>3 DEF Register, AddMetric, RemoveMetric, Collect, StartCall, GoTo, registering, Shapes, TypeOK
    <3> QED BY <3>1, <3>2, QuietStep
  <2>4. ASSUME NEW t \in Threads,
               \/ AddThrows(t) \/ AddMerges(t) \/ FamilyThrows(t)
               \/ CollectFamily(t) \/ CollectNextType(t) \/ CollectReturns(t)
        PROVE  IInv'
    <3> USE <2>4 DEF AddThrows, AddMerges, FamilyThrows, CollectFamily, CollectNextType, CollectReturns, registering
    <3>1. UNCHANGED <<behavior, families, request>>
      OBVIOUS
    <3>2. \A u \in Threads : pc'[u] = "append" => pc[u] = "append"
      BY DEF GoTo, Shapes, TypeOK
    <3> QED BY <3>1, <3>2, QuietStep
  <2>5. CASE UNCHANGED vars
    BY <2>5, QuietStep DEF vars, registering
  <2> QED BY <2>1, <2>2, <2>3, <2>4, <2>5 DEF Next, Step
<1> QED BY <1>1, <1>2, PTL DEF Spec

(* TypeOK, for any number of threads and calls.                            *)
THEOREM RegistryTypeCorrect == Spec => []TypeOK
<1>1. IInv => TypeOK
  BY DEF IInv, Shapes
<1> QED BY <1>1, RegistryInvariant, PTL

(* No name ever belongs to two metric types, and Merge and Throw keep one  *)
(* family per name.                                                        *)
THEOREM RegistryOneFamilyPerName == Spec => []OneFamilyPerName
<1>1. IInv => OneFamilyPerName
  BY DEF IInv, NamesType, NamesFamily, OneFamilyPerName
<1> QED BY <1>1, RegistryInvariant, PTL

(* While a scrape walks the vectors of families nobody appends to them:    *)
(* to append a thread must hold the mutex that the scrape holds.           *)
THEOREM RegistryScrapeWalksStillVectors == Spec => ScrapeWalksStillVectors
<1>1. IInv /\ [Next]_vars => [\A t \in Threads : InScrape(t) => UNCHANGED families]_vars
  <2> SUFFICES ASSUME IInv, Next, NEW u \in Threads, InScrape(u) PROVE UNCHANGED families
    OBVIOUS
  <2>1. \A t \in Threads : pc[t] = "append" => FALSE
    BY DEF IInv, Shapes, TypeOK, InScrape
  <2> QED BY <2>1 DEF Next, Step, Register, AddMetric, RemoveMetric, Collect, AddThrows, AddMerges, AddPasses,
                      FamilyThrows, AppendFamily, CollectFamily, CollectNextType, CollectReturns, registering
<1> QED BY <1>1, RegistryInvariant, PTL DEF Spec, ScrapeWalksStillVectors

------------------------------------------------------------------------------

(* A family's name for good: its type and its index in the type's vector.  *)
FamilyIds == Types \X (Nat \ {0})

HandedTypes == handed \in [Threads -> SUBSET [request : Requests, family : FamilyIds]]

HInv == IInv /\ HandedTypes /\ HandedAsRequested

(* Families keep their places, and what they are.                          *)
LEMMA FamiliesStay ==
  ASSUME IInv, [Next]_vars
  PROVE  /\ behavior' = behavior
         /\ \A T \in Types : \A i \in 1..Len(families[T]) :
              i \in 1..Len(families'[T]) /\ families'[T][i] = families[T][i]
<1>1. CASE UNCHANGED <<behavior, families>>
  BY <1>1
<1>2. ASSUME NEW t \in Threads, AppendFamily(t)
      PROVE  /\ behavior' = behavior
             /\ \A T \in Types : \A i \in 1..Len(families[T]) :
                  i \in 1..Len(families'[T]) /\ families'[T][i] = families[T][i]
  <2>1. behavior' = behavior
    BY <1>2 DEF AppendFamily
  <2>2. ASSUME NEW T \in Types, NEW i \in 1..Len(families[T])
        PROVE  i \in 1..Len(families'[T]) /\ families'[T][i] = families[T][i]
    <3>1. CASE T = request[t].type
      <4>1. Len(families[T]) \in Nat
        BY DEF IInv, Shapes, TypeOK
      <4>2. Len(families'[T]) = Len(families[T]) + 1 /\ families'[T][i] = families[T][i]
        BY <1>2, <3>1, AppendedFamilies
      <4> QED BY <4>1, <4>2
    <3>2. CASE T # request[t].type
      <4>1. families'[T] = families[T]
        BY <1>2, <3>2, AppendedFamilies
      <4> QED BY <4>1
    <3> QED BY <3>1, <3>2
  <2> QED BY <2>1, <2>2
<1> QED BY <1>1, <1>2 DEF Next, Step, Register, AddMetric, RemoveMetric, Collect, AddThrows, AddMerges,
                          AddPasses, FamilyThrows, CollectFamily, CollectNextType, CollectReturns,
                          registering, vars

(* What is handed out stays what it was: that a family is of the type,     *)
(* name and labels that were asked for, and is of the vectors.             *)
AsAsked(h) ==
  /\ h.request.type = h.family[1]
  /\ h.family[2] \in 1..Len(families[h.family[1]])
  /\ FamilyNamed(h.family) = [name |-> h.request.name, labels |-> h.request.labels]

LEMMA StaysAsAsked ==
  ASSUME IInv, [Next]_vars, NEW h \in [request : Requests, family : FamilyIds], AsAsked(h)
  PROVE  AsAsked(h)'
<1>1. h.family[1] \in Types
  BY DEF FamilyIds
<1> QED BY <1>1, FamiliesStay DEF AsAsked, FamilyNamed

(* Handing out keeps it: Merge hands out what it found, and what is        *)
(* appended is new.                                                        *)
LEMMA HandedStep ==
  ASSUME HInv, [Next]_vars
  PROVE  HandedTypes' /\ HandedAsRequested'
<1>0. IInv /\ HandedTypes /\ HandedAsRequested
  BY DEF HInv
<1>1. \A t \in Threads : \A h \in handed[t] :
        h \in [request : Requests, family : FamilyIds] /\ AsAsked(h) /\ AsAsked(h)'
  BY <1>0, StaysAsAsked DEF HandedTypes, HandedAsRequested, AsAsked
<1>2. CASE UNCHANGED <<behavior, handed>>
  <2>1. HandedTypes'
    BY <1>0, <1>2 DEF HandedTypes
  <2>2. HandedAsRequested'
    <3>1. \A t \in Threads : \A h \in handed'[t] : AsAsked(h)'
      BY <1>1, <1>2
    <3>2. behavior' # "Merge" => \A t, u \in Threads : \A h \in handed'[t], g \in handed'[u] :
                                   g.family = h.family => g = h /\ t = u
      BY <1>0, <1>2 DEF HandedAsRequested
    <3> QED BY <3>1, <3>2 DEF HandedAsRequested, AsAsked
  <2> QED BY <2>1, <2>2
<1>3. ASSUME NEW t \in Threads, AddMerges(t) PROVE HandedTypes' /\ HandedAsRequested'
  <2> DEFINE r == request[t]
  <2>1. r \in Requests /\ r.type \in Types
    BY <1>0, <1>3 DEF AddMerges, IInv, Shapes, Requests
  <2>2. PICK i \in Merged(r) : Hand(t, r.type, i)
    BY <1>3 DEF AddMerges
  <2> DEFINE new == [request |-> r, family |-> <<r.type, i>>]
  <2>3. handed' = [handed EXCEPT ![t] = handed[t] \cup {new}]
    BY <2>2 DEF Hand
  <2>4. /\ behavior = "Merge" /\ UNCHANGED <<behavior, families>>
        /\ i \in 1..Len(families[r.type])
        /\ families[r.type][i].name = r.name /\ families[r.type][i].labels = r.labels
    BY <1>3, <2>2 DEF AddMerges, Merged, OfNameAndLabels, OfName
  <2>5. families[r.type][i] \in [name : Names, labels : LabelSets] /\ Len(families[r.type]) \in Nat
    <3>1. families[r.type] \in Seq([name : Names, labels : LabelSets])
      BY <1>0, <2>1 DEF IInv, Shapes, TypeOK
    <3> HIDE DEF r
    <3>2. families[r.type][i] \in [name : Names, labels : LabelSets]
      BY <2>4, <3>1, ElementOfSeq
    <3> QED BY <3>1, <3>2
  <2>6. families[r.type][i] = [name |-> r.name, labels |-> r.labels]
    BY <2>4, <2>5
  <2>7. new \in [request : Requests, family : FamilyIds]
    BY <2>1, <2>4, <2>5 DEF FamilyIds
  <2> PICK x : x = new
    OBVIOUS
  <2>8. AsAsked(x)'
    BY <2>4, <2>6 DEF AsAsked, FamilyNamed
  <2>9. \A u \in Threads : \A h \in handed'[u] : h = x \/ h \in handed[u]
    BY <1>0, <2>3 DEF HandedTypes
  <2>10. HandedTypes'
    BY <1>0, <2>3, <2>7 DEF HandedTypes
  <2>11. HandedAsRequested'
    <3>1. \A u \in Threads : \A h \in handed'[u] : AsAsked(h)'
      BY <1>1, <2>8, <2>9
    <3> QED BY <2>4, <3>1 DEF HandedAsRequested, AsAsked
  <2> QED BY <2>10, <2>11
<1>4. ASSUME NEW t \in Threads, AppendFamily(t) PROVE HandedTypes' /\ HandedAsRequested'
  <2> DEFINE r == request[t]
             n == Len(families[r.type]) + 1
             new == [request |-> r, family |-> <<r.type, n>>]
  <2>1. r \in Requests /\ r.type \in Types
    BY <1>0, <1>4 DEF AppendFamily, IInv, Shapes, Requests
  <2>2. handed' = [handed EXCEPT ![t] = handed[t] \cup {new}] /\ behavior' = behavior
    BY <1>4 DEF AppendFamily, Hand
  <2>3. /\ Len(families'[r.type]) = n /\ n \in Nat \ {0}
        /\ families'[r.type][n] = [name |-> r.name, labels |-> r.labels]
    <3>1. Len(families[r.type]) \in Nat
      BY <1>0, <2>1 DEF IInv, Shapes, TypeOK
    <3> QED BY <1>0, <1>4, <3>1, AppendedFamilies
  <2>4. new \in [request : Requests, family : FamilyIds]
    BY <2>1, <2>3 DEF FamilyIds
  <2>5. PICK x : x = new
    OBVIOUS
  <2>6. AsAsked(x)'
    BY <2>3, <2>5 DEF AsAsked, FamilyNamed
  <2>7. \A u \in Threads : \A h \in handed'[u] : (h = x /\ u = t) \/ h \in handed[u]
    BY <1>0, <2>2, <2>5 DEF HandedTypes
  <2>8. \A u \in Threads : \A h \in handed[u] : h.family # x.family
    <3> SUFFICES ASSUME NEW u \in Threads, NEW h \in handed[u], h.family = x.family PROVE FALSE
      OBVIOUS
    <3>1. h.family[1] = r.type /\ h.family[2] = n
      BY <2>5
    <3>2. h.family[2] \in 1..Len(families[h.family[1]])
      BY <1>1 DEF AsAsked
    <3> QED BY <2>3, <3>1, <3>2
  <2>9. HandedTypes'
    BY <1>0, <2>2, <2>4 DEF HandedTypes
  <2>10. HandedAsRequested'
    <3>1. \A u \in Threads : \A h \in handed'[u] : AsAsked(h)'
      BY <1>1, <2>6, <2>7
    <3>2. ASSUME behavior' # "Merge", NEW u \in Threads, NEW w \in Threads,
                 NEW h \in handed'[u], NEW g \in handed'[w], g.family = h.family
          PROVE  g = h /\ u = w
      <4>1. CASE h \in handed[u] /\ g \in handed[w]
        BY <1>0, <2>2, <3>2, <4>1 DEF HandedAsRequested
      <4>2. CASE ~(h \in handed[u] /\ g \in handed[w])
        BY <2>7, <2>8, <3>2, <4>2
      <4> QED BY <4>1, <4>2
    <3> QED BY <3>1, <3>2 DEF HandedAsRequested, AsAsked
  <2> QED BY <2>9, <2>10
<1> QED BY <1>2, <1>3, <1>4 DEF Next, Step, Register, AddMetric, RemoveMetric, Collect, AddThrows,
                                AddPasses, FamilyThrows, CollectFamily, CollectNextType,
                                CollectReturns, registering, vars

(* The invariant of what is handed out: its types, the families' too.      *)
THEOREM RegistryHandedInvariant == Spec => []HInv
<1>1. Init => HandedTypes /\ HandedAsRequested
  BY DEF Init, HandedTypes, HandedAsRequested
<1>2. IInv /\ HandedTypes /\ HandedAsRequested /\ [Next]_vars => HandedTypes' /\ HandedAsRequested'
  BY HandedStep DEF HInv
<1>3. IInv /\ HandedTypes /\ HandedAsRequested => HInv
  BY DEF HInv
<1> QED BY <1>1, <1>2, <1>3, RegistryInvariant, PTL DEF Spec

(* What Registry::Add hands a thread is a family of the type, name and     *)
(* constant labels it asked for, for any number of threads that register,  *)
(* and unless families merge it is that thread's alone.                    *)
THEOREM RegistryHandedAsRequested == Spec => []HandedAsRequested
<1>1. HInv => HandedAsRequested
  BY DEF HInv
<1> QED BY <1>1, RegistryHandedInvariant, PTL

------------------------------------------------------------------------------

(* The metrics that a scrape's results name, one by one.                   *)
Pairs(r) == UNION {{<<r[k].family, m>> : m \in r[k].metrics} : k \in 1..Len(r)}

Collections == [family : FamilyIds, metrics : SUBSET Metrics]

(* A scrape whose cursor is at c has still to come by family f.            *)
ToVisit(c, f) ==
  \E k \in 1..Len(TypeOrder) :
    /\ TypeOrder[k] = f[1]
    /\ k > c[1] \/ (k = c[1] /\ f[2] >= c[2])

ScrapeTypes ==
  /\ cursor \in [Threads -> (Nat \ {0}) \X (Nat \ {0})]
  /\ results \in [Threads -> Seq(Collections)]
  /\ scraped \in [Threads -> Seq(Collections)]
  /\ throughout \in [Threads -> SUBSET (FamilyIds \X Metrics)]
  /\ sometime \in [Threads -> SUBSET (FamilyIds \X Metrics)]

(* In the middle of a scrape: what was there ever since it began is still  *)
(* there, and either collected or still to be visited; what is there or    *)
(* collected was there at some time; and a family that was collected is    *)
(* not visited again.                                                      *)
SoFar(t) ==
  /\ throughout[t] \subseteq AllMetrics
  /\ AllMetrics \subseteq sometime[t]
  /\ \A p \in throughout[t] : p \in Pairs(results[t]) \/ ToVisit(cursor[t], p[1])
  /\ Pairs(results[t]) \subseteq sometime[t]
  /\ \A j, k \in 1..Len(results[t]) : results[t][j].family = results[t][k].family => j = k
  /\ \A k \in 1..Len(results[t]) : ~ToVisit(cursor[t], results[t][k].family)

(* What ScrapeBracketed says of a scrape that is over.                     *)
Over(t) ==
  /\ throughout[t] \subseteq Pairs(scraped[t])
  /\ Pairs(scraped[t]) \subseteq sometime[t]
  /\ \A j, k \in 1..Len(scraped[t]) : scraped[t][j].family = scraped[t][k].family => j = k

Bracketed(t) == IF InScrape(t) THEN SoFar(t) ELSE Over(t)

BInv == HInv /\ ScrapeTypes /\ \A t \in Threads : Bracketed(t)

(* The metrics of some families: AllMetrics is what is there now.          *)
There(fam, pres) == UNION {{<<<<T, i>>, m>> : i \in {j \in 1..Len(fam[T]) : m \in pres[T][j]}} :
                              T \in Types, m \in Metrics}

LEMMA WhatIsThere ==
  ASSUME NEW fam, NEW pres, \A T \in Types : Len(fam[T]) \in Nat
  PROVE  /\ There(fam, pres) \subseteq FamilyIds \X Metrics
         /\ \A f \in FamilyIds, m \in Metrics :
              <<f, m>> \in There(fam, pres) <=> f[2] <= Len(fam[f[1]]) /\ m \in pres[f[1]][f[2]]
<1>1. ASSUME NEW p \in There(fam, pres)
      PROVE  \E T \in Types, m \in Metrics : \E i \in 1..Len(fam[T]) :
               m \in pres[T][i] /\ p = <<<<T, i>>, m>>
  BY <1>1 DEF There
<1>2. ASSUME NEW T \in Types, NEW m \in Metrics, NEW i \in 1..Len(fam[T]), m \in pres[T][i]
      PROVE  <<<<T, i>>, m>> \in There(fam, pres)
  <2> DEFINE S == {<<<<T, k>>, m>> : k \in {j \in 1..Len(fam[T]) : m \in pres[T][j]}}
  <2>1. <<<<T, i>>, m>> \in S
    BY <1>2
  <2>2. There(fam, pres) = UNION {{<<<<U, k>>, n>> : k \in {j \in 1..Len(fam[U]) : n \in pres[U][j]}} :
                                    U \in Types, n \in Metrics}
    BY DEF There
  <2>3. S \in {{<<<<U, k>>, n>> : k \in {j \in 1..Len(fam[U]) : n \in pres[U][j]}} :
                 U \in Types, n \in Metrics}
    OBVIOUS
  <2> HIDE DEF S
  <2> QED BY <2>1, <2>2, <2>3
<1>3. There(fam, pres) \subseteq FamilyIds \X Metrics
  <2> SUFFICES ASSUME NEW p \in There(fam, pres) PROVE p \in FamilyIds \X Metrics
    OBVIOUS
  <2>1. PICK T \in Types, m \in Metrics : \E i \in 1..Len(fam[T]) :
               m \in pres[T][i] /\ p = <<<<T, i>>, m>>
    BY <1>1
  <2> QED BY <2>1 DEF FamilyIds
<1>4. ASSUME NEW f \in FamilyIds, NEW m \in Metrics
      PROVE  <<f, m>> \in There(fam, pres) <=> f[2] <= Len(fam[f[1]]) /\ m \in pres[f[1]][f[2]]
  <2>1. /\ f[1] \in Types /\ f[2] \in Nat \ {0} /\ f = <<f[1], f[2]>> /\ Len(fam[f[1]]) \in Nat
    BY DEF FamilyIds
  <2>2. ASSUME <<f, m>> \in There(fam, pres)
        PROVE  f[2] <= Len(fam[f[1]]) /\ m \in pres[f[1]][f[2]]
    <3>1. PICK T \in Types, n \in Metrics : \E i \in 1..Len(fam[T]) :
                 n \in pres[T][i] /\ <<f, m>> = <<<<T, i>>, n>>
      BY <1>1, <2>2
    <3>2. PICK i \in 1..Len(fam[T]) : n \in pres[T][i] /\ <<f, m>> = <<<<T, i>>, n>>
      BY <3>1
    <3>3. f = <<T, i>> /\ m = n
      BY <3>2
    <3> QED BY <3>2, <3>3
  <2>3. ASSUME f[2] <= Len(fam[f[1]]), m \in pres[f[1]][f[2]]
        PROVE  <<f, m>> \in There(fam, pres)
    <3>1. f[2] \in 1..Len(fam[f[1]])
      BY <2>1, <2>3
    <3>2. <<<<f[1], f[2]>>, m>> \in There(fam, pres)
      BY <1>2, <2>1, <2>3, <3>1
    <3> QED BY <2>1, <3>2
  <2> QED BY <2>2, <2>3
<1> QED BY <1>3, <1>4

(* AllMetrics, before a step and after it.                                 *)
LEMMA AllThatIsThere ==
  /\ AllMetrics = There(families, present) /\ AllMetrics' = There(families', present')
  /\ Shapes => \A T \in Types : Len(families[T]) \in Nat /\ Len(present[T]) = Len(families[T])
  /\ Shapes' => \A T \in Types : Len(families'[T]) \in Nat
<1>1. AllMetrics = There(families, present) /\ AllMetrics' = There(families', present')
  BY DEF AllMetrics, There
<1>2. Shapes => \A T \in Types : Len(families[T]) \in Nat /\ Len(present[T]) = Len(families[T])
  BY DEF Shapes, TypeOK
<1>3. Shapes' => \A T \in Types : Len(families'[T]) \in Nat
  BY DEF Shapes, TypeOK
<1> QED BY <1>1, <1>2, <1>3

(* A scrape's results name what its collections do, and no family is       *)
(* collected twice unless it was collected before.                         *)
LEMMA OneMoreCollection ==
  ASSUME NEW r \in Seq(Collections), NEW x \in Collections
  PROVE  /\ r \o <<x>> \in Seq(Collections) /\ Len(r \o <<x>>) = Len(r) + 1 /\ Len(r) \in Nat
         /\ \A k \in 1..Len(r) : (r \o <<x>>)[k] = r[k]
         /\ (r \o <<x>>)[Len(r) + 1] = x
         /\ Pairs(r \o <<x>>) = Pairs(r) \cup {<<x.family, m>> : m \in x.metrics}
<1> DEFINE s == r \o <<x>>
<1>1. /\ s \in Seq(Collections) /\ Len(s) = Len(r) + 1 /\ Len(r) \in Nat
      /\ \A k \in 1..Len(r) : s[k] = r[k]
      /\ s[Len(r) + 1] = x
  OBVIOUS
<1> HIDE DEF s
<1>2. 1..Len(s) = 1..Len(r) \cup {Len(r) + 1}
  BY <1>1
<1>3. \A p : p \in Pairs(s) <=> \E k \in 1..Len(s) : p \in {<<s[k].family, m>> : m \in s[k].metrics}
  BY DEF Pairs
<1>4. \A p : p \in Pairs(r) <=> \E k \in 1..Len(r) : p \in {<<r[k].family, m>> : m \in r[k].metrics}
  BY DEF Pairs
<1>5. \A p : p \in Pairs(s) <=> p \in Pairs(r) \/ p \in {<<x.family, m>> : m \in x.metrics}
  <2> TAKE p
  <2>1. ASSUME p \in Pairs(s) PROVE p \in Pairs(r) \/ p \in {<<x.family, m>> : m \in x.metrics}
    <3>1. PICK k \in 1..Len(s) : p \in {<<s[k].family, m>> : m \in s[k].metrics}
      BY <1>3, <2>1
    <3>2. CASE k \in 1..Len(r)
      BY <1>1, <1>4, <3>1, <3>2
    <3>3. CASE k = Len(r) + 1
      BY <1>1, <3>1, <3>3
    <3> QED BY <1>2, <3>2, <3>3
  <2>2. ASSUME p \in Pairs(r) PROVE p \in Pairs(s)
    <3>1. PICK k \in 1..Len(r) : p \in {<<r[k].family, m>> : m \in r[k].metrics}
      BY <1>4, <2>2
    <3> QED BY <1>1, <1>2, <1>3, <3>1
  <2>3. ASSUME p \in {<<x.family, m>> : m \in x.metrics} PROVE p \in Pairs(s)
    <3>1. Len(r) + 1 \in 1..Len(s)
      BY <1>1
    <3> QED BY <1>1, <1>3, <2>3, <3>1
  <2> QED BY <2>1, <2>2, <2>3
<1>6. Pairs(s) = Pairs(r) \cup {<<x.family, m>> : m \in x.metrics}
  BY <1>5
<1> QED BY <1>1, <1>6 DEF s
(* What SoFar and Over say of a thread after a step.                       *)
LEMMA AfterStep ==
  ASSUME NEW u \in Threads
  PROVE  /\ InScrape(u)' <=> pc'[u] = "collect"
         /\ SoFar(u)' <=> /\ throughout'[u] \subseteq AllMetrics'
                          /\ AllMetrics' \subseteq sometime'[u]
                          /\ \A p \in throughout'[u] : p \in Pairs(results'[u]) \/ ToVisit(cursor'[u], p[1])
                          /\ Pairs(results'[u]) \subseteq sometime'[u]
                          /\ \A j, k \in 1..Len(results'[u]) :
                               results'[u][j].family = results'[u][k].family => j = k
                          /\ \A k \in 1..Len(results'[u]) : ~ToVisit(cursor'[u], results'[u][k].family)
         /\ Over(u)' <=> /\ throughout'[u] \subseteq Pairs(scraped'[u])
                         /\ Pairs(scraped'[u]) \subseteq sometime'[u]
                         /\ \A j, k \in 1..Len(scraped'[u]) :
                              scraped'[u][j].family = scraped'[u][k].family => j = k
<1>1. Pairs(results[u])' = Pairs(results'[u]) /\ Pairs(scraped[u])' = Pairs(scraped'[u])
  BY DEF Pairs
<1>2. InScrape(u)' <=> pc'[u] = "collect"
  BY DEF InScrape
<1>3. \A p : ToVisit(cursor[u], p[1])' <=> ToVisit(cursor'[u], p[1])
  BY DEF ToVisit
<1>4. \A k : ToVisit(cursor[u], results[u][k].family)' <=> ToVisit(cursor'[u], results'[u][k].family)
  BY DEF ToVisit
<1>5. SoFar(u)' <=> /\ throughout'[u] \subseteq AllMetrics'
                    /\ AllMetrics' \subseteq sometime'[u]
                    /\ \A p \in throughout'[u] : p \in Pairs(results'[u]) \/ ToVisit(cursor'[u], p[1])
                    /\ Pairs(results'[u]) \subseteq sometime'[u]
                    /\ \A j, k \in 1..Len(results'[u]) :
                         results'[u][j].family = results'[u][k].family => j = k
                    /\ \A k \in 1..Len(results'[u]) : ~ToVisit(cursor'[u], results'[u][k].family)
  BY <1>1, <1>3, <1>4, Zenon DEF SoFar
<1>6. Over(u)' <=> /\ throughout'[u] \subseteq Pairs(scraped'[u])
                   /\ Pairs(scraped'[u]) \subseteq sometime'[u]
                   /\ \A j, k \in 1..Len(scraped'[u]) :
                        scraped'[u][j].family = scraped'[u][k].family => j = k
  BY <1>1, Zenon DEF Over
<1> QED BY <1>2, <1>5, <1>6
(* A step that leaves a thread's scrape and the metrics alone.             *)
LEMMA ScrapeLeftAlone ==
  ASSUME NEW u \in Threads, Bracketed(u), AllMetrics' = AllMetrics,
         UNCHANGED <<cursor[u], results[u], scraped[u], throughout[u], sometime[u]>>,
         pc'[u] = "collect" <=> pc[u] = "collect"
  PROVE  Bracketed(u)'
<1>1. CASE pc[u] = "collect"
  <2>1. SoFar(u) /\ InScrape(u)'
    BY <1>1 DEF Bracketed, InScrape
  <2>2. SoFar(u)'
    BY <2>1, AfterStep DEF SoFar
  <2> QED BY <2>1, <2>2 DEF Bracketed
<1>2. CASE pc[u] # "collect"
  <2>1. Over(u) /\ ~InScrape(u)'
    BY <1>2 DEF Bracketed, InScrape
  <2>2. Over(u)'
    BY <2>1, AfterStep DEF Over
  <2> QED BY <2>1, <2>2 DEF Bracketed
<1> QED BY <1>1, <1>2

(* The metrics after one of them came or went.                             *)
LEMMA OneMetricMoves ==
  ASSUME Shapes, Shapes', UNCHANGED families, NEW f \in FamilyIds, f[2] \in 1..Len(families[f[1]]),
         NEW m \in Metrics
  PROVE  /\ present' = [present EXCEPT ![f[1]][f[2]] = @ \cup {m}] => AllMetrics' = AllMetrics \cup {<<f, m>>}
         /\ present' = [present EXCEPT ![f[1]][f[2]] = @ \ {m}] => AllMetrics' = AllMetrics \ {<<f, m>>}
<1>0. /\ f[1] \in Types /\ f[2] \in Nat \ {0} /\ f = <<f[1], f[2]>>
      /\ \A T \in Types : Len(families[T]) \in Nat
      /\ f[2] \in 1..Len(present[f[1]])
  BY AllThatIsThere DEF FamilyIds
<1>1. /\ AllMetrics \subseteq FamilyIds \X Metrics
      /\ AllMetrics' \subseteq FamilyIds \X Metrics
      /\ \A g \in FamilyIds, n \in Metrics :
           /\ <<g, n>> \in AllMetrics <=> g[2] <= Len(families[g[1]]) /\ n \in present[g[1]][g[2]]
           /\ <<g, n>> \in AllMetrics' <=> g[2] <= Len(families[g[1]]) /\ n \in present'[g[1]][g[2]]
  BY <1>0, AllThatIsThere, WhatIsThere
<1>2. ASSUME NEW X, present' = [present EXCEPT ![f[1]][f[2]] = X]
      PROVE  /\ present'[f[1]][f[2]] = X
             /\ \A g \in FamilyIds : g # f => present'[g[1]][g[2]] = present[g[1]][g[2]]
  <2>1. present \in [Types -> Seq(SUBSET Metrics)]
    BY DEF Shapes
  <2>2. present'[f[1]] = [present[f[1]] EXCEPT ![f[2]] = X]
    BY <1>0, <1>2, <2>1
  <2>3. present[f[1]] \in Seq(SUBSET Metrics)
    BY <1>0, <2>1
  <2>4. present'[f[1]][f[2]] = X /\ \A k : k # f[2] => present'[f[1]][k] = present[f[1]][k]
    BY <1>0, <2>2, <2>3
  <2>5. ASSUME NEW g \in FamilyIds, g # f PROVE present'[g[1]][g[2]] = present[g[1]][g[2]]
    <3>1. g[1] \in Types /\ g = <<g[1], g[2]>>
      BY DEF FamilyIds
    <3>2. CASE g[1] = f[1]
      <4>1. g[2] # f[2]
        BY <1>0, <2>5, <3>1, <3>2
      <4> QED BY <2>4, <3>2, <4>1
    <3>3. CASE g[1] # f[1]
      BY <1>0, <1>2, <2>1, <3>1, <3>3
    <3> QED BY <3>2, <3>3
  <2> QED BY <2>4, <2>5
<1>3. ASSUME present' = [present EXCEPT ![f[1]][f[2]] = @ \cup {m}]
      PROVE  AllMetrics' = AllMetrics \cup {<<f, m>>}
  <2>1. PICK X : X = present[f[1]][f[2]] \cup {m}
    OBVIOUS
  <2>2. present' = [present EXCEPT ![f[1]][f[2]] = X]
    BY <1>3, <2>1
  <2>3. \A g \in FamilyIds, n \in Metrics :
          <<g, n>> \in AllMetrics' <=> <<g, n>> \in AllMetrics \/ (g = f /\ n = m)
    <3> SUFFICES ASSUME NEW g \in FamilyIds, NEW n \in Metrics
                 PROVE  <<g, n>> \in AllMetrics' <=> <<g, n>> \in AllMetrics \/ (g = f /\ n = m)
      OBVIOUS
    <3>1. CASE g = f
      <4>1. f[2] <= Len(families[f[1]])
        BY <1>0
      <4>2. present'[f[1]][f[2]] = X
        BY <1>2, <2>2
      <4>3. /\ <<f, n>> \in AllMetrics <=> n \in present[f[1]][f[2]]
            /\ <<f, n>> \in AllMetrics' <=> n \in X
        BY <1>1, <4>1, <4>2
      <4> QED BY <2>1, <3>1, <4>3
    <3>2. CASE g # f
      BY <1>1, <1>2, <2>2, <3>2
    <3> QED BY <3>1, <3>2
  <2> QED BY <1>1, <2>3
<1>4. ASSUME present' = [present EXCEPT ![f[1]][f[2]] = @ \ {m}]
      PROVE  AllMetrics' = AllMetrics \ {<<f, m>>}
  <2>1. PICK X : X = present[f[1]][f[2]] \ {m}
    OBVIOUS
  <2>2. present' = [present EXCEPT ![f[1]][f[2]] = X]
    BY <1>4, <2>1
  <2>3. \A g \in FamilyIds, n \in Metrics :
          <<g, n>> \in AllMetrics' <=> <<g, n>> \in AllMetrics /\ ~(g = f /\ n = m)
    <3> SUFFICES ASSUME NEW g \in FamilyIds, NEW n \in Metrics
                 PROVE  <<g, n>> \in AllMetrics' <=> <<g, n>> \in AllMetrics /\ ~(g = f /\ n = m)
      OBVIOUS
    <3>1. CASE g = f
      <4>1. f[2] <= Len(families[f[1]])
        BY <1>0
      <4>2. present'[f[1]][f[2]] = X
        BY <1>2, <2>2
      <4>3. /\ <<f, n>> \in AllMetrics <=> n \in present[f[1]][f[2]]
            /\ <<f, n>> \in AllMetrics' <=> n \in X
        BY <1>1, <4>1, <4>2
      <4> QED BY <2>1, <3>1, <4>3
    <3>2. CASE g # f
      BY <1>1, <1>2, <2>2, <3>2
    <3> QED BY <3>1, <3>2
  <2> QED BY <1>1, <2>3
<1> QED BY <1>3, <1>4

(* A metric that comes or goes around a scrape.                            *)
LEMMA MetricStep ==
  ASSUME BInv, Shapes', NEW t \in Threads, NEW h \in handed[t], NEW m \in Metrics,
         AddMetric(t, h.family, m) \/ RemoveMetric(t, h.family, m)
  PROVE  ScrapeTypes' /\ \A u \in Threads : Bracketed(u)'
<1>0. Shapes /\ ScrapeTypes /\ HandedTypes /\ HandedAsRequested /\ \A u \in Threads : Bracketed(u)
  BY DEF BInv, HInv, IInv
<1>1. PICK f : f = h.family
  OBVIOUS
<1>2. f \in FamilyIds /\ f[2] \in 1..Len(families[f[1]])
  <2>1. h \in [request : Requests, family : FamilyIds]
    BY <1>0 DEF HandedTypes
  <2>2. h.family[2] \in 1..Len(families[h.family[1]])
    BY <1>0 DEF HandedAsRequested
  <2> QED BY <1>1, <2>1, <2>2
<1>3. UNCHANGED <<families, pc, cursor, results, scraped>>
  BY DEF AddMetric, RemoveMetric, registering, scraping
<1>4. CASE AddMetric(t, h.family, m)
  <2>1. /\ present' = [present EXCEPT ![f[1]][f[2]] = @ \cup {m}] /\ UNCHANGED throughout
        /\ sometime' = [u \in Threads |-> sometime[u] \cup IF InScrape(u) THEN {<<f, m>>} ELSE {}]
    BY <1>1, <1>4 DEF AddMetric
  <2>2. AllMetrics' = AllMetrics \cup {<<f, m>>}
    BY <1>0, <1>2, <1>3, <2>1, OneMetricMoves
  <2>3. ScrapeTypes'
    <3>1. \A u \in Threads : sometime'[u] \in SUBSET (FamilyIds \X Metrics)
      BY <1>0, <1>2, <2>1 DEF ScrapeTypes
    <3>2. sometime' \in [Threads -> SUBSET (FamilyIds \X Metrics)]
      BY <2>1, <3>1
    <3> QED BY <1>0, <1>3, <2>1, <3>2 DEF ScrapeTypes
  <2>4. ASSUME NEW u \in Threads PROVE Bracketed(u)'
    <3>1. CASE InScrape(u)
      <4>1. sometime'[u] = sometime[u] \cup {<<f, m>>} /\ SoFar(u)
        BY <1>0, <2>1, <3>1 DEF Bracketed
      <4>2. SoFar(u)'
        BY <1>3, <2>1, <2>2, <4>1, AfterStep DEF SoFar
      <4>3. InScrape(u)'
        BY <1>3, <3>1 DEF InScrape
      <4> QED BY <4>2, <4>3 DEF Bracketed
    <3>2. CASE ~InScrape(u)
      <4>1. sometime'[u] = sometime[u] /\ Over(u)
        BY <1>0, <2>1, <3>2 DEF Bracketed
      <4>2. Over(u)'
        BY <1>3, <2>1, <4>1, AfterStep DEF Over
      <4>3. ~InScrape(u)'
        BY <1>3, <3>2 DEF InScrape
      <4> QED BY <4>2, <4>3 DEF Bracketed
    <3> QED BY <3>1, <3>2
  <2> QED BY <2>3, <2>4
<1>5. CASE RemoveMetric(t, h.family, m)
  <2>1. /\ present' = [present EXCEPT ![f[1]][f[2]] = @ \ {m}] /\ UNCHANGED sometime
        /\ throughout' = [u \in Threads |-> throughout[u] \ IF InScrape(u) THEN {<<f, m>>} ELSE {}]
    BY <1>1, <1>5 DEF RemoveMetric
  <2>2. AllMetrics' = AllMetrics \ {<<f, m>>}
    BY <1>0, <1>2, <1>3, <2>1, OneMetricMoves
  <2>3. ScrapeTypes'
    <3>1. \A u \in Threads : throughout'[u] \in SUBSET (FamilyIds \X Metrics)
      BY <1>0, <1>2, <2>1 DEF ScrapeTypes
    <3>2. throughout' \in [Threads -> SUBSET (FamilyIds \X Metrics)]
      BY <2>1, <3>1
    <3> QED BY <1>0, <1>3, <2>1, <3>2 DEF ScrapeTypes
  <2>4. ASSUME NEW u \in Threads PROVE Bracketed(u)'
    <3>1. CASE InScrape(u)
      <4>1. throughout'[u] = throughout[u] \ {<<f, m>>} /\ SoFar(u)
        BY <1>0, <2>1, <3>1 DEF Bracketed
      <4>2. SoFar(u)'
        BY <1>3, <2>1, <2>2, <4>1, AfterStep DEF SoFar
      <4>3. InScrape(u)'
        BY <1>3, <3>1 DEF InScrape
      <4> QED BY <4>2, <4>3 DEF Bracketed
    <3>2. CASE ~InScrape(u)
      <4>1. throughout'[u] = throughout[u] /\ Over(u)
        BY <1>0, <2>1, <3>2 DEF Bracketed
      <4>2. Over(u)'
        BY <1>3, <2>1, <4>1, AfterStep DEF Over
      <4>3. ~InScrape(u)'
        BY <1>3, <3>2 DEF InScrape
      <4> QED BY <4>2, <4>3 DEF Bracketed
    <3> QED BY <3>1, <3>2
  <2> QED BY <2>3, <2>4
<1> QED BY <1>4, <1>5
(* A scrape begins: all that is there has still to be visited.             *)
LEMMA CollectStep ==
  ASSUME BInv, Shapes', NEW t \in Threads, Collect(t)
  PROVE  ScrapeTypes' /\ \A u \in Threads : Bracketed(u)'
<1>0. Shapes /\ ScrapeTypes /\ \A u \in Threads : Bracketed(u)
  BY DEF BInv, HInv, IInv
<1>1. /\ pc' = [pc EXCEPT ![t] = "collect"] /\ cursor' = [cursor EXCEPT ![t] = <<1, 1>>]
      /\ results' = [results EXCEPT ![t] = <<>>]
      /\ throughout' = [throughout EXCEPT ![t] = AllMetrics]
      /\ sometime' = [sometime EXCEPT ![t] = AllMetrics]
      /\ UNCHANGED <<families, present, scraped>>
  BY DEF Collect, GoTo, registering
<1>2. AllMetrics' = AllMetrics /\ AllMetrics \in SUBSET (FamilyIds \X Metrics)
  BY <1>0, <1>1, AllThatIsThere, WhatIsThere
<1>3. ScrapeTypes'
  <2>1. <<1, 1>> \in (Nat \ {0}) \X (Nat \ {0}) /\ <<>> \in Seq(Collections)
    OBVIOUS
  <2> QED BY <1>0, <1>1, <1>2, <2>1 DEF ScrapeTypes
<1>4. ASSUME NEW u \in Threads PROVE Bracketed(u)'
  <2>1. CASE u = t
    <3>1. /\ pc'[u] = "collect" /\ cursor'[u] = <<1, 1>> /\ results'[u] = <<>>
          /\ throughout'[u] = AllMetrics /\ sometime'[u] = AllMetrics
      BY <1>0, <1>1, <2>1 DEF ScrapeTypes, Shapes, TypeOK
    <3>2. Pairs(results'[u]) = {} /\ Len(results'[u]) = 0
      BY <3>1 DEF Pairs
    <3>3. ASSUME NEW p \in AllMetrics PROVE ToVisit(cursor'[u], p[1])
      <4>1. p[1] \in FamilyIds
        BY <1>2
      <4>2. PICK k \in 1..Len(TypeOrder) : TypeOrder[k] = p[1][1]
        BY <4>1 DEF FamilyIds, Types
      <4>3. p[1][2] >= 1 /\ Len(TypeOrder) \in Nat
        BY <4>1, RegistryAssumption DEF FamilyIds
      <4>4. k > 1 \/ k = 1
        BY <4>3
      <4> QED BY <3>1, <4>2, <4>3, <4>4 DEF ToVisit
    <3>4. SoFar(u)'
      BY <1>2, <3>1, <3>2, <3>3, AfterStep
    <3>5. InScrape(u)'
      BY <3>1 DEF InScrape
    <3> QED BY <3>4, <3>5 DEF Bracketed
  <2>2. CASE u # t
    <3>1. /\ UNCHANGED <<cursor[u], results[u], scraped[u], throughout[u], sometime[u]>>
          /\ pc'[u] = pc[u]
      BY <1>0, <1>1, <2>2 DEF ScrapeTypes, Shapes, TypeOK
    <3> QED BY <1>0, <1>2, <3>1, ScrapeLeftAlone
  <2> QED BY <2>1, <2>2
<1> QED BY <1>3, <1>4

(* A family is visited: what it holds now is collected, and the cursor     *)
(* goes past it for good.                                                  *)
LEMMA VisitStep ==
  ASSUME BInv, Shapes', NEW t \in Threads, CollectFamily(t)
  PROVE  ScrapeTypes' /\ \A u \in Threads : Bracketed(u)'
<1>0. Shapes /\ ScrapeTypes /\ \A u \in Threads : Bracketed(u)
  BY DEF BInv, HInv, IInv
<1>1. PICK c : c = cursor[t]
  OBVIOUS
<1>2. c[1] \in Nat \ {0} /\ c[2] \in Nat \ {0} /\ c = <<c[1], c[2]>> /\ c[1] \in 1..Len(TypeOrder)
  <2>1. c \in (Nat \ {0}) \X (Nat \ {0})
    BY <1>0, <1>1 DEF ScrapeTypes
  <2>2. c[1] <= Len(TypeOrder) /\ Len(TypeOrder) \in Nat
    BY <1>1, RegistryAssumption DEF CollectFamily
  <2> QED BY <2>1, <2>2
<1>3. PICK f : f = <<TypeOrder[c[1]], c[2]>>
  OBVIOUS
<1>4. /\ f \in FamilyIds /\ f[1] = TypeOrder[c[1]] /\ f[2] = c[2]
      /\ f[2] <= Len(families[f[1]]) /\ f[2] \in 1..Len(present[f[1]])
  <2>1. f \in FamilyIds /\ f[1] = TypeOrder[c[1]] /\ f[2] = c[2] /\ f[1] \in Types
    BY <1>2, <1>3 DEF FamilyIds, Types
  <2>2. ~(f[2] > Len(families[f[1]]))
    BY <1>1, <2>1 DEF CollectFamily, AtEnd, AtType
  <2>3. Len(families[f[1]]) \in Nat /\ Len(present[f[1]]) = Len(families[f[1]])
    BY <1>0, <2>1, AllThatIsThere
  <2> QED BY <1>2, <2>1, <2>2, <2>3
<1>5. PICK x : x = [family |-> f, metrics |-> present[f[1]][f[2]]]
  OBVIOUS
<1>6. x \in Collections /\ x.family = f /\ x.metrics = present[f[1]][f[2]]
  <2>1. present[f[1]] \in Seq(SUBSET Metrics)
    BY <1>0, <1>4 DEF FamilyIds, Shapes
  <2>2. present[f[1]][f[2]] \in SUBSET Metrics
    BY <1>4, <2>1, ElementOfSeq
  <2> QED BY <1>4, <1>5, <2>2 DEF Collections
<1>7. PICK s : s = IF x.metrics = {} THEN results[t] ELSE results[t] \o <<x>>
  OBVIOUS
<1>8. /\ results' = [results EXCEPT ![t] = s]
      /\ cursor' = [cursor EXCEPT ![t] = <<c[1], c[2] + 1>>]
      /\ UNCHANGED <<families, present, pc, scraped, throughout, sometime>>
  <2>1. results[t] \in Seq(Collections)
    BY <1>0 DEF ScrapeTypes
  <2>2. results[t] \o Collected(f) = s
    <3>1. Collected(f) = IF x.metrics = {} THEN <<>> ELSE <<x>>
      BY <1>5, <1>6 DEF Collected
    <3>2. results[t] \o <<>> = results[t]
      BY <2>1
    <3> QED BY <1>7, <3>1, <3>2
  <2>3. results' = [results EXCEPT ![t] = results[t] \o Collected(f)]
    BY <1>1, <1>3 DEF CollectFamily, AtType
  <2>4. cursor' = [cursor EXCEPT ![t] = [c EXCEPT ![2] = c[2] + 1]]
    BY <1>1 DEF CollectFamily
  <2>5. [c EXCEPT ![2] = c[2] + 1] = <<c[1], c[2] + 1>>
    BY <1>2
  <2> QED BY <2>2, <2>3, <2>4, <2>5 DEF CollectFamily, registering, history
<1>9. AllMetrics' = AllMetrics /\ AllMetrics \in SUBSET (FamilyIds \X Metrics)
  BY <1>0, <1>8, AllThatIsThere, WhatIsThere
<1>10. \A m \in Metrics : <<f, m>> \in AllMetrics <=> m \in x.metrics
  <2>1. \A m \in Metrics : <<f, m>> \in There(families, present) <=>
                             f[2] <= Len(families[f[1]]) /\ m \in present[f[1]][f[2]]
    BY <1>0, <1>4, AllThatIsThere, WhatIsThere
  <2> QED BY <1>4, <1>6, <2>1, AllThatIsThere
<1>11. /\ s \in Seq(Collections)
       /\ Pairs(s) = Pairs(results[t]) \cup {<<f, m>> : m \in x.metrics}
       /\ \A k \in 1..Len(s) : \/ k \in 1..Len(results[t]) /\ s[k] = results[t][k]
                               \/ k = Len(results[t]) + 1 /\ s[k].family = f
  <2>1. results[t] \in Seq(Collections)
    BY <1>0 DEF ScrapeTypes
  <2>2. CASE x.metrics = {}
    <3>1. s = results[t] /\ {<<f, m>> : m \in x.metrics} = {}
      BY <1>7, <2>2
    <3> QED BY <2>1, <3>1
  <2>3. CASE x.metrics # {}
    <3>1. s = results[t] \o <<x>>
      BY <1>7, <2>3
    <3>2. \A k \in 1..(Len(results[t]) + 1) : k \in 1..Len(results[t]) \/ k = Len(results[t]) + 1
      BY <2>1
    <3> QED BY <1>6, <2>1, <3>1, <3>2, OneMoreCollection
  <2> QED BY <2>2, <2>3
<1>12. ScrapeTypes'
  <2>1. <<c[1], c[2] + 1>> \in (Nat \ {0}) \X (Nat \ {0})
    BY <1>2
  <2> QED BY <1>0, <1>8, <1>11, <2>1 DEF ScrapeTypes
<1>13. ASSUME NEW u \in Threads PROVE Bracketed(u)'
  <2>1. CASE u = t
    <3>1. /\ pc'[u] = "collect" /\ pc[u] = "collect" /\ cursor'[u] = <<c[1], c[2] + 1>> /\ results'[u] = s
          /\ UNCHANGED <<throughout[u], sometime[u]>> /\ cursor[u] = c
      BY <1>0, <1>1, <1>8, <2>1 DEF ScrapeTypes, CollectFamily, InScrape
    <3>2. SoFar(u)
      BY <1>0, <3>1 DEF Bracketed, InScrape
    <3>3. \A g : ToVisit(<<c[1], c[2] + 1>>, g) /\ g \in FamilyIds => ToVisit(c, g)
      BY <1>2 DEF ToVisit, FamilyIds
    <3>4. ASSUME NEW g \in FamilyIds, ToVisit(c, g), g # f PROVE ToVisit(<<c[1], c[2] + 1>>, g)
      <4>1. PICK k \in 1..Len(TypeOrder) : TypeOrder[k] = g[1] /\ (k > c[1] \/ (k = c[1] /\ g[2] >= c[2]))
        BY <3>4 DEF ToVisit
      <4>2. ASSUME k = c[1] PROVE g[2] >= c[2] + 1
        <5>1. g = <<g[1], g[2]>> /\ g[2] \in Nat /\ g[1] = f[1]
          BY <1>4, <4>1, <4>2 DEF FamilyIds
        <5>2. g[2] # c[2]
          BY <1>3, <1>4, <3>4, <5>1
        <5>3. g[2] >= c[2]
          BY <1>2, <4>1, <4>2
        <5> QED BY <1>2, <5>1, <5>2, <5>3
      <4> QED BY <4>1, <4>2 DEF ToVisit
    <3>5. ToVisit(c, f) /\ ~ToVisit(<<c[1], c[2] + 1>>, f)
      <4>1. ToVisit(c, f)
        BY <1>2, <1>4 DEF ToVisit
      <4>2. ASSUME NEW k \in 1..Len(TypeOrder), TypeOrder[k] = f[1] PROVE k = c[1]
        BY <1>2, <1>4, <4>2, RegistryAssumption
      <4>3. ~ToVisit(<<c[1], c[2] + 1>>, f)
        BY <1>2, <1>4, <4>2 DEF ToVisit
      <4> QED BY <4>1, <4>3
    <3>6. throughout'[u] \subseteq AllMetrics'
      BY <1>9, <3>1, <3>2 DEF SoFar
    <3>7. AllMetrics' \subseteq sometime'[u]
      BY <1>9, <3>1, <3>2 DEF SoFar
    <3>8. ASSUME NEW p \in throughout'[u] PROVE p \in Pairs(results'[u]) \/ ToVisit(cursor'[u], p[1])
      <4>1. p \in throughout[u] /\ p \in AllMetrics
        BY <3>1, <3>2 DEF SoFar
      <4>2. PICK g \in FamilyIds, m \in Metrics : p = <<g, m>>
        BY <1>9, <4>1
      <4>3. p \in Pairs(results[t]) \/ ToVisit(c, g)
        BY <2>1, <3>1, <3>2, <4>1, <4>2 DEF SoFar
      <4>4. CASE g = f
        <5>1. m \in x.metrics
          BY <1>10, <4>1, <4>2, <4>4
        <5> QED BY <1>11, <3>1, <4>2, <4>4, <5>1
      <4>5. CASE g # f /\ ToVisit(c, g)
        BY <3>1, <3>4, <4>2, <4>5
      <4>6. CASE p \in Pairs(results[t])
        BY <1>11, <3>1, <4>6
      <4> QED BY <4>3, <4>4, <4>5, <4>6
    <3>9. Pairs(results'[u]) \subseteq sometime'[u]
      <4>1. Pairs(results[t]) \subseteq sometime[u] /\ AllMetrics \subseteq sometime[u]
        BY <2>1, <3>2 DEF SoFar
      <4>2. {<<f, m>> : m \in x.metrics} \subseteq AllMetrics
        <5>1. x.metrics \subseteq Metrics
          BY <1>6 DEF Collections
        <5> QED BY <1>10, <5>1
      <4> QED BY <1>11, <3>1, <4>1, <4>2
    <3>10. \A k \in 1..Len(results[t]) : ~ToVisit(c, results[t][k].family) /\ results[t][k].family \in FamilyIds
      <4>1. results[t] \in Seq(Collections)
        BY <1>0 DEF ScrapeTypes
      <4>2. \A k \in 1..Len(results[t]) : results[t][k] \in Collections
        BY <4>1, ElementOfSeq
      <4> QED BY <2>1, <3>1, <3>2, <4>2 DEF SoFar, Collections
    <3>11. \A k \in 1..Len(s) : ~ToVisit(<<c[1], c[2] + 1>>, s[k].family)
      BY <1>11, <3>3, <3>5, <3>10
    <3>12. \A j, k \in 1..Len(s) : s[j].family = s[k].family => j = k
      <4> SUFFICES ASSUME NEW j \in 1..Len(s), NEW k \in 1..Len(s), s[j].family = s[k].family
                   PROVE  j = k
        OBVIOUS
      <4>1. CASE j \in 1..Len(results[t]) /\ s[j] = results[t][j]
        <5>1. s[k].family # f
          BY <3>5, <3>10, <4>1
        <5>2. k \in 1..Len(results[t]) /\ s[k] = results[t][k]
          BY <1>11, <5>1
        <5> QED BY <2>1, <3>2, <4>1, <5>2 DEF SoFar
      <4>2. CASE j = Len(results[t]) + 1 /\ s[j].family = f
        <5>1. ~(k \in 1..Len(results[t]) /\ s[k] = results[t][k])
          BY <3>5, <3>10, <4>2
        <5> QED BY <1>11, <4>2, <5>1
      <4> QED BY <1>11, <4>1, <4>2
    <3>13. SoFar(u)'
      BY <3>1, <3>6, <3>7, <3>8, <3>9, <3>11, <3>12, AfterStep
    <3>14. InScrape(u)'
      BY <3>1 DEF InScrape
    <3> QED BY <3>13, <3>14 DEF Bracketed
  <2>2. CASE u # t
    <3>1. /\ UNCHANGED <<cursor[u], results[u], scraped[u], throughout[u], sometime[u]>>
          /\ pc'[u] = pc[u]
      BY <1>0, <1>8, <2>2 DEF ScrapeTypes
    <3> QED BY <1>0, <1>9, <3>1, ScrapeLeftAlone
  <2> QED BY <2>1, <2>2
<1> QED BY <1>12, <1>13
(* The families of a type are done: the next type's are all ahead.         *)
LEMMA NextTypeStep ==
  ASSUME BInv, Shapes', NEW t \in Threads, CollectNextType(t)
  PROVE  ScrapeTypes' /\ \A u \in Threads : Bracketed(u)'
<1>0. Shapes /\ ScrapeTypes /\ \A u \in Threads : Bracketed(u)
  BY DEF BInv, HInv, IInv
<1>1. PICK c : c = cursor[t]
  OBVIOUS
<1>2. c[1] \in Nat \ {0} /\ c[2] \in Nat \ {0} /\ c[1] \in 1..Len(TypeOrder)
  <2>1. c \in (Nat \ {0}) \X (Nat \ {0})
    BY <1>0, <1>1 DEF ScrapeTypes
  <2>2. c[1] <= Len(TypeOrder) /\ Len(TypeOrder) \in Nat
    BY <1>1, RegistryAssumption DEF CollectNextType
  <2> QED BY <2>1, <2>2
<1>3. c[2] > Len(families[TypeOrder[c[1]]])
  BY <1>1 DEF CollectNextType, AtEnd, AtType
<1>4. /\ cursor' = [cursor EXCEPT ![t] = <<c[1] + 1, 1>>] /\ InScrape(t)
      /\ UNCHANGED <<families, present, pc, results, scraped, throughout, sometime>>
  BY <1>1 DEF CollectNextType, registering, history
<1>5. AllMetrics' = AllMetrics /\ AllMetrics \in SUBSET (FamilyIds \X Metrics)
  BY <1>0, <1>4, AllThatIsThere, WhatIsThere
<1>6. ScrapeTypes'
  <2>1. <<c[1] + 1, 1>> \in (Nat \ {0}) \X (Nat \ {0})
    BY <1>2
  <2> QED BY <1>0, <1>4, <2>1 DEF ScrapeTypes
<1>7. ASSUME NEW u \in Threads PROVE Bracketed(u)'
  <2>1. CASE u = t
    <3>1. /\ cursor'[u] = <<c[1] + 1, 1>> /\ cursor[u] = c
          /\ UNCHANGED <<results[u], throughout[u], sometime[u]>>
      BY <1>0, <1>1, <1>4, <2>1 DEF ScrapeTypes
    <3>2. SoFar(u)
      BY <1>0, <1>4, <2>1 DEF Bracketed
    <3>3. ASSUME NEW g \in FamilyIds, ToVisit(<<c[1] + 1, 1>>, g) PROVE ToVisit(c, g)
      <4>1. PICK k \in 1..Len(TypeOrder) :
               TypeOrder[k] = g[1] /\ (k > c[1] + 1 \/ (k = c[1] + 1 /\ g[2] >= 1))
        BY <3>3 DEF ToVisit
      <4>2. k > c[1]
        BY <1>2, <4>1
      <4> QED BY <4>1, <4>2 DEF ToVisit
    <3>4. ASSUME NEW g \in FamilyIds, ToVisit(c, g), g[2] <= Len(families[g[1]])
          PROVE  ToVisit(<<c[1] + 1, 1>>, g)
      <4>1. PICK k \in 1..Len(TypeOrder) : TypeOrder[k] = g[1] /\ (k > c[1] \/ (k = c[1] /\ g[2] >= c[2]))
        BY <3>4 DEF ToVisit
      <4>2. g[2] \in Nat \ {0} /\ Len(families[g[1]]) \in Nat
        BY <1>0, AllThatIsThere DEF FamilyIds
      <4>3. k # c[1]
        BY <1>2, <1>3, <3>4, <4>1, <4>2
      <4>4. k > c[1] + 1 \/ (k = c[1] + 1 /\ g[2] >= 1)
        <5>1. k \in Nat /\ k > c[1]
          BY <4>1, <4>3, RegistryAssumption
        <5> QED BY <1>2, <4>2, <5>1
      <4> QED BY <4>1, <4>4 DEF ToVisit
    <3>5. ASSUME NEW p \in throughout[u] PROVE p \in Pairs(results[u]) \/ ToVisit(<<c[1] + 1, 1>>, p[1])
      <4>1. p \in AllMetrics /\ (p \in Pairs(results[u]) \/ ToVisit(c, p[1]))
        BY <3>1, <3>2, <3>5 DEF SoFar
      <4>2. PICK g \in FamilyIds, m \in Metrics : p = <<g, m>>
        BY <1>5, <4>1
      <4>3. g[2] <= Len(families[g[1]])
        BY <1>0, <4>1, <4>2, AllThatIsThere, WhatIsThere
      <4> QED BY <3>4, <4>1, <4>2, <4>3
    <3>6. \A k \in 1..Len(results[u]) : ~ToVisit(<<c[1] + 1, 1>>, results[u][k].family)
      <4>1. results[u] \in Seq(Collections)
        BY <1>0 DEF ScrapeTypes
      <4>2. ASSUME NEW k \in 1..Len(results[u]) PROVE results[u][k].family \in FamilyIds
        <5>1. results[u][k] \in Collections
          BY <4>1, <4>2, ElementOfSeq
        <5> QED BY <5>1 DEF Collections
      <4> QED BY <3>1, <3>2, <3>3, <4>2 DEF SoFar
    <3>7. SoFar(u)'
      <4>1. /\ throughout[u] \subseteq AllMetrics /\ AllMetrics \subseteq sometime[u]
            /\ Pairs(results[u]) \subseteq sometime[u]
            /\ \A j, k \in 1..Len(results[u]) : results[u][j].family = results[u][k].family => j = k
        BY <3>2 DEF SoFar
      <4> QED BY <1>5, <3>1, <3>5, <3>6, <4>1, AfterStep
    <3>8. InScrape(u)'
      BY <1>4, <2>1 DEF InScrape
    <3> QED BY <3>7, <3>8 DEF Bracketed
  <2>2. CASE u # t
    <3>1. /\ UNCHANGED <<cursor[u], results[u], scraped[u], throughout[u], sometime[u]>>
          /\ pc'[u] = pc[u]
      BY <1>0, <1>4, <2>2 DEF ScrapeTypes
    <3> QED BY <1>0, <1>5, <3>1, ScrapeLeftAlone
  <2> QED BY <2>1, <2>2
<1> QED BY <1>6, <1>7

(* The scrape is over when there is nothing left to visit.                 *)
LEMMA ReturnStep ==
  ASSUME BInv, Shapes', NEW t \in Threads, CollectReturns(t)
  PROVE  ScrapeTypes' /\ \A u \in Threads : Bracketed(u)'
<1>0. Shapes /\ ScrapeTypes /\ \A u \in Threads : Bracketed(u)
  BY DEF BInv, HInv, IInv
<1>1. /\ InScrape(t) /\ cursor[t][1] > Len(TypeOrder)
      /\ scraped' = [scraped EXCEPT ![t] = results[t]]
      /\ pc' = [pc EXCEPT ![t] = "idle"]
      /\ UNCHANGED <<families, present, cursor, results, throughout, sometime>>
  BY DEF CollectReturns, GoTo, registering, history
<1>2. AllMetrics' = AllMetrics
  BY <1>1 DEF AllMetrics
<1>3. ScrapeTypes'
  BY <1>0, <1>1 DEF ScrapeTypes
<1>4. ASSUME NEW u \in Threads PROVE Bracketed(u)'
  <2>1. CASE u = t
    <3>1. SoFar(t) /\ scraped'[t] = results[t] /\ pc'[t] = "idle"
      BY <1>0, <1>1 DEF Bracketed, ScrapeTypes, Shapes, TypeOK
    <3>2. \A f : ~ToVisit(cursor[t], f)
      <4>1. cursor[t][1] \in Nat /\ Len(TypeOrder) \in Nat
        BY <1>0, RegistryAssumption DEF ScrapeTypes
      <4> QED BY <1>1, <4>1 DEF ToVisit
    <3>3. throughout[t] \subseteq Pairs(results[t])
      BY <3>1, <3>2 DEF SoFar
    <3>4. Over(t)'
      BY <1>1, <3>1, <3>3, AfterStep DEF SoFar
    <3>5. ~InScrape(t)'
      BY <3>1 DEF InScrape
    <3> QED BY <2>1, <3>4, <3>5 DEF Bracketed
  <2>2. CASE u # t
    <3>1. /\ UNCHANGED <<cursor[u], results[u], scraped[u], throughout[u], sometime[u]>>
          /\ pc'[u] = pc[u]
      BY <1>0, <1>1, <2>2 DEF ScrapeTypes, Shapes, TypeOK
    <3> QED BY <1>0, <1>2, <3>1, ScrapeLeftAlone
  <2> QED BY <2>1, <2>2
<1> QED BY <1>3, <1>4

(* Registering a family disturbs no scrape: it needs the mutex.            *)
LEMMA RegisterStep ==
  ASSUME BInv, Shapes', NEW t \in Threads,
         \/ \E T \in Types, n \in Names, l \in LabelSets : Register(t, T, n, l)
         \/ AddThrows(t) \/ AddMerges(t) \/ AddPasses(t) \/ FamilyThrows(t) \/ AppendFamily(t)
  PROVE  ScrapeTypes' /\ \A u \in Threads : Bracketed(u)'
<1>0. Shapes /\ ScrapeTypes /\ \A u \in Threads : Bracketed(u)
  BY DEF BInv, HInv, IInv
<1>1. UNCHANGED <<cursor, results, scraped, throughout, sometime>>
  BY DEF Register, AddThrows, AddMerges, AddPasses, FamilyThrows, AppendFamily, scraping, history
<1>2. ScrapeTypes'
  BY <1>0, <1>1 DEF ScrapeTypes
<1>3. \A u \in Threads : pc'[u] = "collect" <=> pc[u] = "collect"
  <2>1. PICK place : place \in {"idle", "add", "append"} /\ GoTo(t, place)
    BY DEF Register, AddThrows, AddMerges, AddPasses, FamilyThrows, AppendFamily
  <2>2. pc[t] # "collect"
    BY DEF Register, AddThrows, AddMerges, AddPasses, FamilyThrows, AppendFamily, StartCall
  <2> QED BY <1>0, <2>1, <2>2 DEF GoTo, Shapes, TypeOK
<1>4. CASE AppendFamily(t)
  <2> SUFFICES ASSUME NEW u \in Threads PROVE Bracketed(u)'
    BY <1>2
  <2>1. pc[u] # "collect"
    <3>1. mutex = t /\ pc[t] = "append"
      BY <1>0, <1>4 DEF AppendFamily, Shapes, TypeOK
    <3> QED BY <1>0, <3>1 DEF Shapes, TypeOK
  <2>2. Over(u) /\ ~InScrape(u)'
    BY <1>0, <1>3, <2>1 DEF Bracketed, InScrape
  <2>3. Over(u)'
    BY <1>1, <2>2, AfterStep DEF Over
  <2> QED BY <2>2, <2>3 DEF Bracketed
<1>5. CASE ~AppendFamily(t)
  <2>1. UNCHANGED <<families, present>>
    BY <1>5 DEF Register, AddThrows, AddMerges, AddPasses, FamilyThrows, registering
  <2>2. AllMetrics' = AllMetrics
    BY <2>1 DEF AllMetrics
  <2> QED BY <1>0, <1>1, <1>2, <1>3, <2>2, ScrapeLeftAlone
<1> QED BY <1>4, <1>5

(* The invariant that brackets a scrape.                                   *)
THEOREM RegistryScrapeInvariant == Spec => []BInv
<1>1. Init => ScrapeTypes /\ \A u \in Threads : Bracketed(u)
  <2> SUFFICES ASSUME Init PROVE ScrapeTypes /\ \A u \in Threads : Bracketed(u)
    OBVIOUS
  <2>1. ScrapeTypes
    <3>1. <<1, 1>> \in (Nat \ {0}) \X (Nat \ {0}) /\ <<>> \in Seq(Collections)
      OBVIOUS
    <3> QED BY <3>1 DEF Init, ScrapeTypes
  <2>2. ASSUME NEW u \in Threads PROVE Bracketed(u)
    <3>1. throughout[u] = {} /\ scraped[u] = <<>> /\ pc[u] = "idle"
      BY DEF Init
    <3>2. Pairs(scraped[u]) = {} /\ Len(scraped[u]) = 0
      BY <3>1 DEF Pairs
    <3> QED BY <3>1, <3>2 DEF Bracketed, Over, InScrape
  <2> QED BY <2>1, <2>2
<1>2. HInv /\ ScrapeTypes /\ (\A u \in Threads : Bracketed(u)) /\ [Next]_vars
      => ScrapeTypes' /\ (\A u \in Threads : Bracketed(u))'
  <2> SUFFICES ASSUME HInv, ScrapeTypes, \A u \in Threads : Bracketed(u), [Next]_vars
               PROVE  ScrapeTypes' /\ \A u \in Threads : Bracketed(u)'
    OBVIOUS
  <2>0. BInv /\ Shapes'
    BY ShapesStep DEF BInv, HInv, IInv
  <2>1. CASE UNCHANGED vars
    <3>1. /\ UNCHANGED <<families, present, pc, cursor, results, scraped, throughout, sometime>>
      BY <2>1 DEF vars, registering, scraping, history
    <3>2. AllMetrics' = AllMetrics
      BY <3>1 DEF AllMetrics
    <3>3. ScrapeTypes'
      BY <3>1 DEF ScrapeTypes
    <3>4. \A u \in Threads : Bracketed(u)'
      BY <3>1, <3>2, ScrapeLeftAlone
    <3> QED BY <3>3, <3>4
  <2> QED BY <2>0, <2>1, MetricStep, CollectStep, VisitStep, NextTypeStep, ReturnStep, RegisterStep
          DEF Next, Step
<1>3. HInv /\ ScrapeTypes /\ (\A u \in Threads : Bracketed(u)) => BInv
  BY DEF BInv
<1> QED BY <1>1, <1>2, <1>3, RegistryHandedInvariant, PTL DEF Spec

(* A metric that is in the registry from a scrape's beginning to its end   *)
(* is in what it returns, what it returns was there at some time, and no   *)
(* family is in it twice, whatever comes and goes around the scrape.       *)
THEOREM RegistryScrapeBracketed == Spec => []ScrapeBracketed
<1>1. BInv => ScrapeBracketed
  <2> SUFFICES ASSUME BInv, NEW t \in Threads, ~InScrape(t)
               PROVE  /\ throughout[t] \subseteq InResult(t)
                      /\ InResult(t) \subseteq sometime[t]
                      /\ \A j, k \in 1..Len(scraped[t]) :
                           scraped[t][j].family = scraped[t][k].family => j = k
    BY DEF ScrapeBracketed
  <2>1. InResult(t) = Pairs(scraped[t])
    BY DEF InResult, Pairs
  <2> QED BY <2>1 DEF BInv, Bracketed, Over
<1> QED BY <1>1, RegistryScrapeInvariant, PTL
=============================================================================
