---------------------------- MODULE FamilyProofs -----------------------------
(***************************************************************************)
(* For any threads, labels, hashes and addresses, collisions of hashes and *)
(* failing insertions included: the three maps of a family agree, a metric *)
(* object exists exactly as long as somebody owns it, and a scrape in      *)
(* progress visits only metrics that exist.  What carries the proof is the *)
(* entry that is being inserted: it alone may be in one map and not in the *)
(* others, its owner holds the mutex, and its address is not in use.       *)
(***************************************************************************)
EXTENDS Family, TLAPS

Inserting(t) == pc[t] \in {"labels", "reverse"}

(* What an Add has in its hands: an object of its own before it has the    *)
(* mutex, and then a half-inserted entry.                                  *)
Adding ==
  \A t \in Threads :
    /\ pc[t] \in {"add", "labels", "reverse"} => arg[t] \in LabelSets /\ object[t] \in Addresses
    /\ pc[t] = "add" => \A h \in Hashes : metrics[h] # object[t]
    /\ Inserting(t) => metrics[HashOf(t)] = object[t] /\ reverse[object[t]] = None
    /\ pc[t] = "labels" => labels[HashOf(t)] = None
    /\ pc[t] = "reverse" => labels[HashOf(t)] = arg[t]

(* No two owners have one object. *)
OwnedOnce ==
  /\ \A t, u \in Threads : pc[t] = "add" /\ pc[u] = "add" /\ object[t] = object[u] => t = u
  /\ \A g, h \in Hashes : metrics[g] = metrics[h] /\ metrics[g] # None => g = h

(* Unless an insertion failed, only an entry being inserted is incomplete. *)
WholeEntry(h) == metrics[h] # None => labels[h] # None /\ reverse[metrics[h]] = h

EntriesWhole ==
  ~torn => \A h \in Hashes : WholeEntry(h) \/ \E t \in Threads : Inserting(t) /\ HashOf(t) = h

(* HeapIsOwned without sets of images, which suits the provers better.     *)
HeapOwned ==
  \A a \in Addresses :
    a \in heap <=> \/ \E h \in Hashes : metrics[h] = a
                   \/ \E t \in Threads : pc[t] = "add" /\ object[t] = a

ToVisit ==
  \A t \in Threads : pc[t] = "collect" =>
    \A h \in toCollect[t] : metrics[h] # None /\ (~torn => labels[h] # None)

Maps == MapsNest /\ Adding /\ OwnedOnce /\ EntriesWhole

IInv == TypeOK /\ Maps /\ HeapOwned /\ ToVisit

(* Every step keeps the types. *)
LEMMA TypeStep == ASSUME TypeOK, Adding, [Next]_vars PROVE TypeOK'
<1> USE FamilyAssumption DEF TypeOK, Adding, maps, adding, collecting, results, StartCall, GoTo
<1>1. ASSUME NEW t \in Threads, NEW l \in LabelSets, Add(t, l) PROVE TypeOK'
  BY <1>1 DEF Add
<1>2. ASSUME NEW t \in Threads, NEW a \in known[t] \cup {None}, Remove(t, a) PROVE TypeOK'
  BY <1>2 DEF Remove, LabelsAfterRemove, LookedUp
<1>3. ASSUME NEW t \in Threads, NEW a \in known[t] \cup {None}, RemoveUnknown(t, a) PROVE TypeOK'
  BY <1>3 DEF RemoveUnknown
<1>4. ASSUME NEW t \in Threads, Collect(t) PROVE TypeOK'
  BY <1>4 DEF Collect, Present, MutexFree
<1>5. ASSUME NEW t \in Threads, CollectNothing(t) PROVE TypeOK'
  BY <1>5 DEF CollectNothing
<1>6. ASSUME NEW t \in Threads, AddFound(t) PROVE TypeOK'
  BY <1>6 DEF AddFound, Return, ObjectDestroyed, ExistingMetric, HashOf
<1>7. ASSUME NEW t \in Threads, AddThrows(t) PROVE TypeOK'
  BY <1>7 DEF AddThrows, ObjectDestroyed
<1>8. ASSUME NEW t \in Threads, InsertMetric(t) PROVE TypeOK'
  BY <1>8 DEF InsertMetric, HashOf, MutexFree
<1>9. ASSUME NEW t \in Threads, InsertLabels(t) PROVE TypeOK'
  BY <1>9 DEF InsertLabels, HashOf, InsertedInto
<1>10. ASSUME NEW t \in Threads, InsertReverse(t) PROVE TypeOK'
  BY <1>10 DEF InsertReverse, HashOf, InsertedInto, Return, ExistingMetric
<1>11. ASSUME NEW t \in Threads, InsertFails(t) PROVE TypeOK'
  BY <1>11 DEF InsertFails, UnlockedByThrow
<1>12. ASSUME NEW t \in Threads, CollectMetric(t) PROVE TypeOK'
  BY <1>12 DEF CollectMetric
<1>13. ASSUME NEW t \in Threads, CollectThrows(t) PROVE TypeOK'
  BY <1>13 DEF CollectThrows, UnlockedByThrow
<1>14. ASSUME NEW t \in Threads, CollectReturns(t) PROVE TypeOK'
  BY <1>14 DEF CollectReturns
<1>15. CASE UNCHANGED vars
  BY <1>15 DEF vars
<1> QED BY <1>1, <1>2, <1>3, <1>4, <1>5, <1>6, <1>7, <1>8, <1>9, <1>10, <1>11, <1>12, <1>13, <1>14, <1>15
        DEF Next, Step

(* Only the holder of the mutex is inserting or collecting. *)
LEMMA OneInside ==
  ASSUME TypeOK, NEW t \in Threads, Inserting(t) \/ pc[t] = "collect"
  PROVE  /\ mutex = t
         /\ ~MutexFree
         /\ \A u \in Threads : u # t => ~Inserting(u) /\ pc[u] # "collect"
  BY FamilyAssumption DEF TypeOK, Inserting, MutexFree

(* With the mutex free every entry is whole. *)
LEMMA WholeWhenFree ==
  ASSUME TypeOK, EntriesWhole, MutexFree, ~torn, NEW h \in Hashes
  PROVE  WholeEntry(h)
<1>1. \A t \in Threads : ~Inserting(t)
  BY OneInside
<1> QED BY <1>1 DEF EntriesWhole

(* Steps that leave the maps alone and begin no insertion. *)
LEMMA MapsUntouched ==
  ASSUME TypeOK, Maps, UNCHANGED maps, torn => torn',
         \A t \in Threads :
           /\ pc'[t] \in {"add", "labels", "reverse"} =>
                arg'[t] = arg[t] /\ object'[t] = object[t] /\ pc'[t] = pc[t]
           /\ Inserting(t) => torn' \/ (pc'[t] = pc[t] /\ arg'[t] = arg[t])
  PROVE  Maps'
<1> USE DEF Maps, maps
<1>1. MapsNest'
  BY DEF MapsNest
<1>2. Adding'
  BY DEF Adding, Inserting, HashOf
<1>3. OwnedOnce'
  BY DEF OwnedOnce
<1>4. EntriesWhole'
  BY DEF EntriesWhole, WholeEntry, Inserting, HashOf
<1> QED BY <1>1, <1>2, <1>3, <1>4

(* The new object is at an address nobody uses. *)
LEMMA AddMaps ==
  ASSUME TypeOK, Maps, HeapOwned, NEW t \in Threads, NEW l \in LabelSets, Add(t, l)
  PROVE  Maps'
<1> USE FamilyAssumption DEF Add, StartCall, GoTo, maps, Maps
<1> PICK a \in Addresses \ heap : object' = [object EXCEPT ![t] = a]
  OBVIOUS
<1>1. pc[t] = "idle" /\ pc' = [pc EXCEPT ![t] = "add"] /\ arg' = [arg EXCEPT ![t] = l] /\ UNCHANGED maps
  OBVIOUS
<1>2. \A h \in Hashes : metrics[h] # a
  BY DEF HeapOwned
<1>3. \A u \in Threads : pc[u] = "add" => object[u] # a
  BY DEF HeapOwned
<1>4. MapsNest'
  BY <1>1 DEF MapsNest
<1>5. Adding'
  BY <1>1, <1>2 DEF Adding, Inserting, HashOf, TypeOK
<1>6. OwnedOnce'
  BY <1>1, <1>3 DEF OwnedOnce, TypeOK
<1>7. EntriesWhole'
  BY <1>1 DEF EntriesWhole, WholeEntry, Inserting, HashOf, TypeOK
<1> QED BY <1>4, <1>5, <1>6, <1>7

(* A stale address, one that is another metric's by now included, removes  *)
(* one whole entry or nothing.                                             *)
LEMMA RemoveMaps ==
  ASSUME TypeOK, Maps, NEW t \in Threads, NEW a \in known[t] \cup {None}, Remove(t, a)
  PROVE  Maps'
<1> USE FamilyAssumption DEF Maps
<1> DEFINE h == LookedUp(a)
<1>1. a \in Addresses /\ h \in Hashes /\ reverse[a] = h /\ metrics[h] = a
  BY DEF Remove, LookedUp, MapsNest, TypeOK
<1>2. /\ metrics' = [metrics EXCEPT ![h] = None]
      /\ labels' = [labels EXCEPT ![h] = None]
      /\ reverse' = [reverse EXCEPT ![a] = None]
      /\ UNCHANGED <<pc, arg, object, torn>>
  BY DEF Remove, LabelsAfterRemove, StartCall, adding
<1> HIDE DEF h
<1>3. \A u \in Threads : ~Inserting(u)
  BY OneInside DEF Remove
<1>4. \A g \in Hashes : g # h => metrics[g] # a \/ metrics[g] = None
  BY <1>1 DEF OwnedOnce
<1>5. MapsNest'
  BY <1>1, <1>2 DEF MapsNest, TypeOK
<1>6. Adding'
  BY <1>1, <1>2, <1>3 DEF Adding, Inserting, TypeOK
<1>7. OwnedOnce'
  BY <1>1, <1>2 DEF OwnedOnce, TypeOK
<1>8. EntriesWhole'
  BY <1>1, <1>2, <1>3, <1>4 DEF EntriesWhole, WholeEntry, Inserting, TypeOK
<1> QED BY <1>5, <1>6, <1>7, <1>8

(* The first insertion makes an entry that its inserter answers for. *)
LEMMA InsertMetricMaps ==
  ASSUME TypeOK, Maps, NEW t \in Threads, InsertMetric(t)
  PROVE  Maps'
<1> USE FamilyAssumption DEF Maps
<1> DEFINE h == HashOf(t)
           a == object[t]
<1>1. /\ pc[t] = "add" /\ metrics[h] = None /\ MutexFree
      /\ metrics' = [metrics EXCEPT ![h] = a]
      /\ pc' = [pc EXCEPT ![t] = "labels"]
      /\ UNCHANGED <<labels, reverse, arg, object, torn>>
  BY DEF InsertMetric, Has, HashOf, GoTo, adding
<1>2. a \in Addresses /\ h \in Hashes /\ arg[t] \in LabelSets /\ \A g \in Hashes : metrics[g] # a
  BY <1>1 DEF Adding, HashOf
<1>3. labels[h] = None /\ reverse[a] = None
  BY <1>1, <1>2 DEF MapsNest, TypeOK
<1>4. \A u \in Threads : ~Inserting(u)
  BY <1>1, OneInside
<1>5. HashOf(t)' = h
  BY <1>1 DEF HashOf
<1>6. MapsNest'
  <2> HIDE DEF h, a
  <2> QED BY <1>1, <1>2, <1>3 DEF MapsNest, TypeOK
<1>7. Adding'
  <2>1. \A u \in Threads : u # t => (pc'[u] = "add" => object[u] # a)
    BY <1>1 DEF OwnedOnce, TypeOK
  <2> HIDE DEF h, a
  <2>2. \A u \in Threads : u # t => ~Inserting(u)'
    BY <1>1, <1>4 DEF Inserting, TypeOK
  <2> QED BY <1>1, <1>2, <1>3, <1>5, <2>1, <2>2 DEF Adding, Inserting, TypeOK, a
<1>8. OwnedOnce'
  <2> HIDE DEF h, a
  <2> QED BY <1>1, <1>2 DEF OwnedOnce, TypeOK
<1>9. EntriesWhole'
  <2> SUFFICES ASSUME ~torn, NEW g \in Hashes, ~WholeEntry(g)'
               PROVE  Inserting(t)' /\ HashOf(t)' = g
    BY <1>1 DEF EntriesWhole
  <2>1. g = h
    BY <1>1, <1>2, <1>4 DEF EntriesWhole, WholeEntry, TypeOK
  <2> QED BY <1>1, <1>5, <2>1 DEF Inserting, TypeOK
<1> QED BY <1>6, <1>7, <1>8, <1>9

(* The second one fills in the labels under the same hash. *)
LEMMA InsertLabelsMaps ==
  ASSUME TypeOK, Maps, NEW t \in Threads, InsertLabels(t)
  PROVE  Maps'
<1> USE FamilyAssumption DEF Maps
<1> DEFINE h == HashOf(t)
<1>1. /\ pc[t] = "labels" /\ Inserting(t) /\ h \in Hashes /\ arg[t] \in LabelSets /\ h = Hash[arg[t]]
      /\ labels[h] = None /\ metrics[h] # None
  BY DEF InsertLabels, Adding, HashOf, Inserting
<1>2. /\ labels' = [labels EXCEPT ![h] = arg[t]]
      /\ pc' = [pc EXCEPT ![t] = "reverse"]
      /\ UNCHANGED <<metrics, reverse, arg, object, torn>>
  BY <1>1 DEF InsertLabels, InsertedInto, GoTo, adding
<1>3. \A u \in Threads : u # t => ~Inserting(u)
  BY <1>1, OneInside
<1>4. HashOf(t)' = h /\ Inserting(t)'
  BY <1>2 DEF HashOf, Inserting, TypeOK
<1> HIDE DEF h
<1>5. MapsNest'
  BY <1>1, <1>2 DEF MapsNest, TypeOK
<1>6. Adding'
  BY <1>1, <1>2, <1>3, <1>4 DEF Adding, Inserting, TypeOK, h
<1>7. OwnedOnce'
  BY <1>2 DEF OwnedOnce, TypeOK
<1>8. EntriesWhole'
  BY <1>1, <1>2, <1>3, <1>4 DEF EntriesWhole, WholeEntry, TypeOK, h
<1> QED BY <1>5, <1>6, <1>7, <1>8

(* The third one makes the entry whole. *)
LEMMA InsertReverseMaps ==
  ASSUME TypeOK, Maps, NEW t \in Threads, InsertReverse(t)
  PROVE  Maps'
<1> USE FamilyAssumption DEF Maps
<1> DEFINE h == HashOf(t)
           a == object[t]
<1>1. /\ pc[t] = "reverse" /\ Inserting(t) /\ h \in Hashes /\ a \in Addresses
      /\ labels[h] = arg[t] /\ labels[h] # None /\ metrics[h] = a /\ reverse[a] = None
  BY DEF InsertReverse, Adding, HashOf, Inserting
<1>2. /\ reverse' = [reverse EXCEPT ![a] = h]
      /\ pc' = [pc EXCEPT ![t] = "idle"]
      /\ UNCHANGED <<metrics, labels, arg, object, torn>>
  BY <1>1 DEF InsertReverse, InsertedInto, GoTo, adding
<1>3. \A u \in Threads : u # t => ~Inserting(u)
  BY <1>1, OneInside
<1>4. HashOf(t)' = h
  BY <1>2 DEF HashOf
<1>5. \A u \in Threads : ~Inserting(u)'
  BY <1>2, <1>3 DEF Inserting, TypeOK
<1> HIDE DEF h, a
<1>6. MapsNest'
  BY <1>1, <1>2 DEF MapsNest, TypeOK
<1>7. Adding'
  BY <1>1, <1>2, <1>5 DEF Adding, Inserting, TypeOK
<1>8. OwnedOnce'
  BY <1>2 DEF OwnedOnce, TypeOK
<1>9. EntriesWhole'
  <2> SUFFICES ASSUME ~torn, NEW g \in Hashes, metrics[g] # None
               PROVE  labels[g] # None /\ reverse'[metrics[g]] = g
    BY <1>2 DEF EntriesWhole, WholeEntry
  <2>1. CASE g = h
    BY <1>1, <1>2, <2>1 DEF TypeOK
  <2>2. CASE g # h
    <3>1. WholeEntry(g)
      BY <1>3, <1>4, <2>2 DEF EntriesWhole, h
    <3>2. metrics[g] # a
      BY <1>1, <2>2 DEF OwnedOnce
    <3> QED BY <1>2, <3>1, <3>2 DEF WholeEntry, TypeOK
  <2> QED BY <2>1, <2>2
<1> QED BY <1>6, <1>7, <1>8, <1>9

(* Every step keeps what is known of the maps. *)
LEMMA MapsStep == ASSUME IInv, [Next]_vars PROVE Maps'
<1> USE DEF IInv
<1>1. ASSUME NEW t \in Threads, NEW l \in LabelSets, Add(t, l) PROVE Maps'
  BY <1>1, AddMaps
<1>2. ASSUME NEW t \in Threads, NEW a \in known[t] \cup {None}, Remove(t, a) PROVE Maps'
  BY <1>2, RemoveMaps
<1>3. ASSUME NEW t \in Threads, NEW a \in known[t] \cup {None}, RemoveUnknown(t, a) PROVE Maps'
  BY <1>3, MapsUntouched DEF RemoveUnknown, StartCall, adding
<1>4. ASSUME NEW t \in Threads,
             \/ Collect(t) \/ CollectNothing(t) \/ AddFound(t) \/ AddThrows(t)
             \/ CollectMetric(t) \/ CollectThrows(t) \/ CollectReturns(t)
      PROVE  Maps'
  <2>1. UNCHANGED <<metrics, labels, reverse, arg, object, torn>>
    BY <1>4 DEF Collect, CollectNothing, AddFound, AddThrows, CollectMetric, CollectThrows, CollectReturns,
                StartCall, maps, adding
  <2>2. \A u \in Threads : pc'[u] = pc[u] \/ (u = t /\ ~Inserting(t) /\ pc'[t] \in {"idle", "collect"})
    BY <1>4 DEF Collect, CollectNothing, AddFound, AddThrows, CollectMetric, CollectThrows, CollectReturns,
                StartCall, GoTo, Inserting, TypeOK
  <2> QED BY <2>1, <2>2, MapsUntouched DEF maps, Inserting
<1>5. ASSUME NEW t \in Threads, InsertMetric(t) PROVE Maps'
  BY <1>5, InsertMetricMaps
<1>6. ASSUME NEW t \in Threads, InsertLabels(t) PROVE Maps'
  BY <1>6, InsertLabelsMaps
<1>7. ASSUME NEW t \in Threads, InsertReverse(t) PROVE Maps'
  BY <1>7, InsertReverseMaps
<1>8. ASSUME NEW t \in Threads, InsertFails(t) PROVE Maps'
  <2>1. UNCHANGED <<metrics, labels, reverse, arg, object>> /\ torn'
    BY <1>8 DEF InsertFails, maps, adding
  <2>2. \A u \in Threads : pc'[u] = pc[u] \/ pc'[u] = "idle"
    BY <1>8 DEF InsertFails, GoTo, TypeOK
  <2> QED BY <2>1, <2>2, MapsUntouched DEF maps
<1>9. CASE UNCHANGED vars
  BY <1>9, MapsUntouched DEF vars, maps, adding
<1> QED BY <1>1, <1>2, <1>3, <1>4, <1>5, <1>6, <1>7, <1>8, <1>9 DEF Next, Step

------------------------------------------------------------------------------

(* An object is made by an Add, changes hands when it is entered into      *)
(* metrics_, and is destroyed with its last owner.                         *)
LEMMA HeapStep == ASSUME IInv, [Next]_vars PROVE HeapOwned'
<1> USE FamilyAssumption DEF IInv, HeapOwned
<1>1. ASSUME NEW t \in Threads, NEW l \in LabelSets, Add(t, l) PROVE HeapOwned'
  <2>1. PICK a \in Addresses \ heap : heap' = heap \cup {a} /\ object' = [object EXCEPT ![t] = a]
    BY <1>1 DEF Add
  <2>2. pc[t] = "idle" /\ pc' = [pc EXCEPT ![t] = "add"] /\ UNCHANGED metrics
    BY <1>1 DEF Add, StartCall, GoTo, maps
  <2> QED BY <2>1, <2>2 DEF TypeOK
<1>2. ASSUME NEW t \in Threads, NEW a \in known[t] \cup {None}, Remove(t, a) PROVE HeapOwned'
  <2> DEFINE h == LookedUp(a)
  <2>1. h \in Hashes /\ metrics[h] = a /\ a \in Addresses
    BY <1>2 DEF Remove, LookedUp, TypeOK, Maps, MapsNest
  <2>2. metrics' = [metrics EXCEPT ![h] = None] /\ heap' = heap \ {metrics[h]} /\ UNCHANGED <<pc, object>>
    BY <1>2 DEF Remove, adding
  <2> HIDE DEF h
  <2>3. \A u \in Threads : pc[u] = "add" => object[u] # a
    BY <2>1 DEF Maps, Adding
  <2>4. \A g \in Hashes : metrics[g] = a => g = h
    BY <2>1 DEF Maps, OwnedOnce
  <2> QED BY <2>1, <2>2, <2>3, <2>4 DEF TypeOK
<1>3. ASSUME NEW t \in Threads, AddFound(t) \/ AddThrows(t) PROVE HeapOwned'
  <2>1. /\ pc[t] = "add" /\ pc' = [pc EXCEPT ![t] = "idle"]
        /\ heap' = heap \ {object[t]} /\ UNCHANGED <<metrics, object>>
    BY <1>3 DEF AddFound, AddThrows, ObjectDestroyed, GoTo, maps, adding
  <2>2. \A h \in Hashes : metrics[h] # object[t]
    BY <2>1 DEF Maps, Adding
  <2>3. \A u \in Threads : pc[u] = "add" /\ object[u] = object[t] => u = t
    BY <2>1 DEF Maps, OwnedOnce
  <2> QED BY <2>1, <2>2, <2>3 DEF TypeOK
<1>4. ASSUME NEW t \in Threads, InsertMetric(t) PROVE HeapOwned'
  <2> DEFINE h == HashOf(t)
  <2>1. /\ pc[t] = "add" /\ pc' = [pc EXCEPT ![t] = "labels"] /\ metrics[h] = None
        /\ metrics' = [metrics EXCEPT ![h] = object[t]] /\ UNCHANGED <<heap, object>>
    BY <1>4 DEF InsertMetric, Has, HashOf, GoTo, adding
  <2>2. h \in Hashes
    BY <2>1 DEF Maps, Adding, HashOf
  <2> HIDE DEF h
  <2> QED BY <2>1, <2>2 DEF TypeOK
<1>5. ASSUME NEW t \in Threads,
             \/ \E a \in known[t] \cup {None} : RemoveUnknown(t, a)
             \/ Collect(t) \/ CollectNothing(t)
             \/ InsertLabels(t) \/ InsertReverse(t) \/ InsertFails(t)
             \/ CollectMetric(t) \/ CollectThrows(t) \/ CollectReturns(t)
      PROVE  HeapOwned'
  <2>1. UNCHANGED <<metrics, heap, object>>
    BY <1>5 DEF RemoveUnknown, Collect, CollectNothing, InsertLabels, InsertReverse, InsertFails,
                CollectMetric, CollectThrows, CollectReturns, maps, adding
  <2>2. \A u \in Threads : pc'[u] = "add" <=> pc[u] = "add"
    BY <1>5 DEF RemoveUnknown, Collect, CollectNothing, InsertLabels, InsertReverse, InsertFails,
                CollectMetric, CollectThrows, CollectReturns, StartCall, GoTo, TypeOK
  <2> QED BY <2>1, <2>2
<1>6. CASE UNCHANGED vars
  BY <1>6 DEF vars, maps, adding
<1> QED BY <1>1, <1>2, <1>3, <1>4, <1>5, <1>6 DEF Next, Step

(* Nothing is removed under the hands of a scrape: it holds the mutex.     *)
LEMMA ToVisitStep == ASSUME IInv, [Next]_vars PROVE ToVisit'
<1> USE FamilyAssumption DEF IInv, ToVisit
<1>1. ASSUME NEW t \in Threads, Collect(t) PROVE ToVisit'
  <2>1. /\ MutexFree /\ UNCHANGED <<metrics, labels, torn>>
        /\ toCollect' = [toCollect EXCEPT ![t] = Present]
        /\ pc' = [pc EXCEPT ![t] = "collect"]
    BY <1>1 DEF Collect, StartCall, GoTo, maps
  <2>2. \A h \in Present : h \in Hashes /\ metrics[h] # None /\ (~torn => labels[h] # None)
    BY <2>1, WholeWhenFree DEF Present, WholeEntry, Maps
  <2>3. \A u \in Threads : pc'[u] = "collect" => u = t
    BY <2>1, OneInside DEF TypeOK
  <2> QED BY <2>1, <2>2, <2>3 DEF TypeOK
<1>2. ASSUME NEW t \in Threads, NEW u \in Threads, pc'[u] = "collect", u # t \/ ~Collect(t),
             \/ \E l \in LabelSets : Add(t, l)
             \/ \E a \in known[t] \cup {None} : Remove(t, a) \/ RemoveUnknown(t, a)
             \/ CollectNothing(t) \/ Step(t)
      PROVE  /\ pc[u] = "collect" /\ toCollect'[u] \subseteq toCollect[u]
             /\ UNCHANGED <<metrics, labels>> /\ (torn => torn')
  <2>1. pc[u] = "collect"
    BY <1>2 DEF Add, Remove, RemoveUnknown, CollectNothing, Step, AddFound, AddThrows, InsertMetric,
                InsertLabels, InsertReverse, InsertFails, CollectMetric, CollectThrows, CollectReturns,
                StartCall, GoTo, TypeOK
  <2>2. ~MutexFree /\ \A v \in Threads : ~Inserting(v)
    BY <2>1, OneInside DEF Inserting
  <2> QED BY <1>2, <2>1, <2>2
          DEF Add, Remove, RemoveUnknown, CollectNothing, Step, AddFound, AddThrows, InsertMetric,
              InsertLabels, InsertReverse, InsertFails, CollectMetric, CollectThrows, CollectReturns,
              StartCall, collecting, maps, Inserting, TypeOK
<1>3. ASSUME NEW t \in Threads,
             \/ \E l \in LabelSets : Add(t, l)
             \/ \E a \in known[t] \cup {None} : Remove(t, a) \/ RemoveUnknown(t, a)
             \/ CollectNothing(t) \/ Step(t)
      PROVE  ToVisit'
  <2> SUFFICES ASSUME NEW u \in Threads, pc'[u] = "collect", NEW h \in toCollect'[u]
               PROVE  metrics'[h] # None /\ (~torn' => labels'[h] # None)
    OBVIOUS
  <2>1. ~Collect(t) \/ u # t
    BY <1>3 DEF Collect, Add, Remove, RemoveUnknown, CollectNothing, Step, AddFound, AddThrows, InsertMetric,
                InsertLabels, InsertReverse, InsertFails, CollectMetric, CollectThrows, CollectReturns,
                StartCall, GoTo, TypeOK
  <2> QED BY <1>2, <1>3, <2>1
<1>4. CASE UNCHANGED vars
  BY <1>4 DEF vars, maps, collecting
<1> QED BY <1>1, <1>3, <1>4 DEF Next

(* The inductive invariant. *)
THEOREM FamilyInvariant == Spec => []IInv
<1> USE FamilyAssumption
<1>1. Init => IInv
  <2> SUFFICES ASSUME Init PROVE IInv
    OBVIOUS
  <2> USE DEF Init
  <2>1. TypeOK
    <3>1. mutex \in Threads \cup {None} /\ metrics \in [Hashes -> Addresses \cup {None}]
      OBVIOUS
    <3>2. labels \in [Hashes -> LabelSets \cup {None}] /\ reverse \in [Addresses -> Hashes \cup {None}]
      OBVIOUS
    <3>3. heap \subseteq Addresses
      OBVIOUS
    <3>4. pc \in [Threads -> {"idle", "add", "labels", "reverse", "collect"}]
      OBVIOUS
    <3>5. arg \in [Threads -> LabelSets \cup {None}] /\ object \in [Threads -> Addresses \cup {None}]
      OBVIOUS
    <3>6. /\ toCollect \in [Threads -> SUBSET Hashes]
          /\ collected \in [Threads -> SUBSET (LabelSets \cup {None})]
          /\ known \in [Threads -> SUBSET (Addresses \cup {None})]
      OBVIOUS
    <3>7. calls \in 0..MaxCalls
      OBVIOUS
    <3>8. torn \in BOOLEAN
      BY Zenon
    <3>9. \A t \in Threads : pc[t] \in {"labels", "reverse", "collect"} => mutex = t
      OBVIOUS
    <3> QED BY <3>1, <3>2, <3>3, <3>4, <3>5, <3>6, <3>7, <3>8, <3>9 DEF TypeOK
  <2>2. Maps
    BY DEF Maps, MapsNest, Adding, Inserting, OwnedOnce, EntriesWhole, WholeEntry
  <2>3. HeapOwned /\ ToVisit
    BY DEF HeapOwned, ToVisit
  <2> QED BY <2>1, <2>2, <2>3 DEF IInv
<1>2. IInv /\ [Next]_vars => IInv'
  <2>1. IInv /\ [Next]_vars => TypeOK'
    BY TypeStep DEF IInv, Maps
  <2> QED BY <2>1, MapsStep, HeapStep, ToVisitStep DEF IInv
<1> QED BY <1>1, <1>2, PTL DEF Spec

(* The three maps agree, whatever insertion failed and whatever address    *)
(* Remove is given.                                                        *)
THEOREM FamilyMapsAgree == Spec => []MapsAgree
<1>1. IInv => MapsAgree
  <2> SUFFICES ASSUME IInv, mutex = None, ~torn, NEW h \in Hashes PROVE WholeEntry(h)
    BY DEF IInv, Maps, MapsAgree, WholeEntry
  <2> QED BY WholeWhenFree DEF IInv, Maps, MutexFree
<1> QED BY <1>1, FamilyInvariant, PTL

(* No metric object leaks, and none in the map is destroyed.               *)
THEOREM FamilyHeapIsOwned == Spec => []HeapIsOwned
<1>1. IInv => HeapIsOwned
  <2> SUFFICES ASSUME IInv PROVE heap = OwnedObjects
    BY DEF HeapIsOwned
  <2>1. heap \subseteq Addresses /\ OwnedObjects \subseteq Addresses
    BY DEF IInv, TypeOK, OwnedObjects, Present, Maps, Adding
  <2>2. \A a \in Addresses : a \in heap <=> a \in OwnedObjects
    BY FamilyAssumption DEF IInv, HeapOwned, OwnedObjects, Present
  <2> QED BY <2>1, <2>2
<1> QED BY <1>1, FamilyInvariant, PTL

(* A scrape in progress visits only metrics that exist.                    *)
THEOREM FamilyScrapeVisitsTheLiving == Spec => []ScrapeVisitsTheLiving
<1>1. IInv => ScrapeVisitsTheLiving
  <2> SUFFICES ASSUME IInv, NEW t \in Threads, pc[t] = "collect", NEW h \in toCollect[t]
               PROVE  metrics[h] \in heap /\ (~torn => labels[h] # None)
    BY DEF ScrapeVisitsTheLiving
  <2>1. h \in Hashes /\ metrics[h] # None /\ (~torn => labels[h] # None)
    BY DEF IInv, TypeOK, ToVisit
  <2>2. metrics[h] \in Addresses
    BY <2>1 DEF IInv, TypeOK
  <2> QED BY <2>1, <2>2 DEF IInv, HeapOwned
<1> QED BY <1>1, FamilyInvariant, PTL

(***************************************************************************)
(* The refinement, for as long as no insertion fails half-way and labels   *)
(* do not collide.  An Add takes effect with its last insertion or when it *)
(* finds the metric; a scrape, when it returns: nothing moved meanwhile,   *)
(* so what it gathered is what is present.                                 *)
(***************************************************************************)

(* A scrape has gathered the labels of the metrics it has visited. *)
Gathered ==
  \A t \in Threads : pc[t] = "collect" =>
    /\ collected[t] \subseteq LabelSets
    /\ \A l \in LabelSets :
         l \in collected[t] <=> \E h \in Hashes \ toCollect[t] : metrics[h] # None /\ labels[h] = l

(* A scrape has gathered what it has visited. *)
LEMMA GatheredStep == ASSUME IInv, Gathered, [Next]_vars PROVE Gathered'
<1> USE FamilyAssumption DEF IInv, Gathered
<1>1. ASSUME NEW t \in Threads, Collect(t) PROVE Gathered'
  <2>1. /\ MutexFree /\ UNCHANGED <<metrics, labels>>
        /\ toCollect' = [toCollect EXCEPT ![t] = Present]
        /\ collected' = [collected EXCEPT ![t] = {}]
        /\ pc' = [pc EXCEPT ![t] = "collect"]
    BY <1>1 DEF Collect, GoTo, maps
  <2>2. \A u \in Threads : pc'[u] = "collect" => u = t
    BY <2>1, OneInside DEF TypeOK
  <2> QED BY <2>1, <2>2 DEF TypeOK, Present
<1>2. ASSUME NEW t \in Threads, CollectMetric(t) PROVE Gathered'
  <2>1. PICK h \in toCollect[t] : /\ labels[h] # None
                                  /\ collected' = [collected EXCEPT ![t] = @ \cup {labels[h]}]
                                  /\ toCollect' = [toCollect EXCEPT ![t] = @ \ {h}]
    BY <1>2 DEF CollectMetric
  <2>2. pc[t] = "collect" /\ UNCHANGED <<pc, metrics, labels>>
    BY <1>2 DEF CollectMetric, maps
  <2>3. h \in Hashes /\ metrics[h] # None /\ labels[h] \in LabelSets
    BY <2>1, <2>2 DEF ToVisit, TypeOK
  <2>4. \A u \in Threads : pc[u] = "collect" => u = t
    BY <2>2, OneInside
  <2> QED BY <2>1, <2>2, <2>3, <2>4 DEF TypeOK
<1>3. ASSUME NEW t \in Threads,
             \/ \E l \in LabelSets : Add(t, l)
             \/ \E a \in known[t] \cup {None} : Remove(t, a) \/ RemoveUnknown(t, a)
             \/ CollectNothing(t)
             \/ AddFound(t) \/ AddThrows(t) \/ InsertMetric(t) \/ InsertLabels(t) \/ InsertReverse(t)
             \/ InsertFails(t) \/ CollectThrows(t) \/ CollectReturns(t)
      PROVE  Gathered'
  <2> SUFFICES ASSUME NEW u \in Threads, pc'[u] = "collect"
               PROVE  /\ pc[u] = "collect"
                      /\ UNCHANGED <<collected, toCollect, metrics, labels>>
    OBVIOUS
  <2>1. UNCHANGED <<collected, toCollect>> /\ pc[u] = "collect"
    BY <1>3 DEF Add, Remove, RemoveUnknown, CollectNothing, AddFound, AddThrows, InsertMetric, InsertLabels,
                InsertReverse, InsertFails, CollectThrows, CollectReturns, StartCall, GoTo, collecting, TypeOK
  <2>2. ~MutexFree /\ \A v \in Threads : ~Inserting(v)
    BY <2>1, OneInside DEF Inserting
  <2>3. UNCHANGED <<metrics, labels>>
    BY <1>3, <2>2 DEF Add, Remove, RemoveUnknown, CollectNothing, AddFound, AddThrows, InsertMetric, InsertLabels,
                      InsertReverse, InsertFails, CollectThrows, CollectReturns, Inserting, maps
  <2> QED BY <2>1, <2>3
<1>4. CASE UNCHANGED vars
  BY <1>4 DEF vars, maps, collecting
<1> QED BY <1>1, <1>2, <1>3, <1>4 DEF Next, Step

PM == [l \in LabelSets |-> PresentMetric(l)]

(* With the mutex in the hands of somebody who does not insert, or free,   *)
(* what metrics_ has under a label's hash is present.                      *)
LEMMA PresentWhenWhole ==
  ASSUME IInv, NEW l \in LabelSets, ~torn => WholeEntry(Hash[l])
  PROVE  /\ ~torn /\ metrics[Hash[l]] # None /\ labels[Hash[l]] = l => PresentMetric(l) = metrics[Hash[l]]
         /\ PresentMetric(l) # None => metrics[Hash[l]] # None /\ labels[Hash[l]] = l
  BY FamilyAssumption DEF WholeEntry, PresentMetric

(* The entry is present from its third insertion on: the abstract Add. *)
LEMMA InsertReverseAdds ==
  ASSUME IInv, NEW t \in Threads, InsertReverse(t)
  PROVE  Abstract!AddNew(t, arg[t], object[t])
<1> USE FamilyAssumption
<1>1. /\ arg[t] \in LabelSets /\ HashOf(t) = Hash[arg[t]] /\ object[t] \in Addresses
      /\ labels[HashOf(t)] = arg[t] /\ metrics[HashOf(t)] = object[t] /\ reverse[object[t]] = None
  BY DEF InsertReverse, IInv, Maps, Adding, HashOf, Inserting
<1> PICK l \in LabelSets, a \in Addresses, h \in Hashes : l = arg[t] /\ a = object[t] /\ h = Hash[l]
  BY <1>1
<1>2. /\ reverse' = [reverse EXCEPT ![a] = h]
      /\ returned' = [returned EXCEPT ![t] = <<l, a>>]
      /\ UNCHANGED <<metrics, labels, scraped>>
  BY <1>1 DEF InsertReverse, InsertedInto, Return, ExistingMetric, HashOf
<1>3. labels[h] = l /\ metrics[h] = a /\ reverse[a] = None
  BY <1>1
<1>4. PresentMetric(l) = None /\ PresentMetric(l)' = a
  BY <1>2, <1>3 DEF PresentMetric, IInv, TypeOK
<1>5. \A m \in LabelSets : PresentMetric(m) # a
  BY <1>3 DEF PresentMetric
<1>6. ASSUME NEW m \in LabelSets, m # l PROVE PresentMetric(m)' = PresentMetric(m)
  <2>1. CASE Hash[m] = h
    BY <1>2, <1>3, <1>6, <2>1 DEF PresentMetric
  <2>2. CASE Hash[m] # h
    <3>1. metrics[Hash[m]] # a \/ metrics[Hash[m]] = None
      BY <1>3, <2>2 DEF IInv, Maps, OwnedOnce
    <3> QED BY <1>2, <1>3, <3>1 DEF PresentMetric, IInv, TypeOK
  <2> QED BY <2>1, <2>2
<1>7. PM' = [PM EXCEPT ![l] = a]
  BY <1>4, <1>6 DEF PM
<1> QED BY <1>2, <1>4, <1>5, <1>7 DEF Abstract!AddNew, PM

(* A Remove of a metric that is present is the abstract one. *)
LEMMA RemoveRemoves ==
  ASSUME IInv, ~torn, NEW t \in Threads, NEW a \in known[t] \cup {None}, Remove(t, a)
  PROVE  \E l \in LabelSets : Abstract!Remove(l)
<1> USE FamilyAssumption
<1>1. PICK h \in Hashes : h = reverse[a] /\ h = LookedUp(a)
  BY DEF Remove, LookedUp, IInv, TypeOK
<1>2. metrics[h] = a /\ a \in Addresses /\ labels[h] # None
  BY <1>1 DEF Remove, LookedUp, IInv, TypeOK, Maps, MapsNest
<1>3. PICK l \in LabelSets : l = labels[h] /\ Hash[l] = h
  BY <1>2 DEF IInv, TypeOK, Maps, MapsNest
<1>4. /\ metrics' = [metrics EXCEPT ![h] = None]
      /\ labels' = [labels EXCEPT ![h] = None]
      /\ reverse' = [reverse EXCEPT ![a] = None]
      /\ UNCHANGED <<returned, scraped>>
  BY <1>1 DEF Remove, LabelsAfterRemove, results
<1>5. PresentMetric(l)' = None
  BY <1>3, <1>4 DEF PresentMetric, IInv, TypeOK
<1>6. ASSUME NEW m \in LabelSets, m # l PROVE PresentMetric(m)' = PresentMetric(m)
  <2>1. CASE Hash[m] = h
    BY <1>3, <1>4, <1>6, <2>1 DEF PresentMetric, IInv, TypeOK
  <2>2. CASE Hash[m] # h
    <3>1. metrics[Hash[m]] # a \/ metrics[Hash[m]] = None
      BY <1>2, <2>2 DEF IInv, Maps, OwnedOnce
    <3> QED BY <1>4, <2>2, <3>1 DEF PresentMetric, IInv, TypeOK
  <2> QED BY <2>1, <2>2
<1>7. PM' = [PM EXCEPT ![l] = None]
  BY <1>5, <1>6 DEF PM
<1> QED BY <1>4, <1>7 DEF Abstract!Remove, PM

(* Entries on their way into the maps are not present yet. *)
LEMMA InsertingStutters ==
  ASSUME IInv, NEW t \in Threads, InsertMetric(t) \/ InsertLabels(t)
  PROVE  UNCHANGED Abstract!vars
<1> USE FamilyAssumption
<1> DEFINE h == HashOf(t)
<1>1. h \in Hashes /\ arg[t] \in LabelSets /\ object[t] \in Addresses
  BY DEF InsertMetric, InsertLabels, IInv, Maps, Adding, HashOf
<1>2. UNCHANGED <<reverse, returned, scraped>>
  BY DEF InsertMetric, InsertLabels, results
<1>3. ASSUME NEW l \in LabelSets PROVE PresentMetric(l)' = PresentMetric(l)
  <2>1. CASE InsertMetric(t)
    <3>1. metrics' = [metrics EXCEPT ![h] = object[t]] /\ labels' = labels /\ metrics[h] = None
      BY <2>1 DEF InsertMetric, Has, HashOf
    <3>2. labels[h] = None
      BY <1>1, <3>1 DEF IInv, Maps, MapsNest
    <3> HIDE DEF h
    <3> QED BY <1>1, <1>2, <3>1, <3>2 DEF PresentMetric, IInv, TypeOK
  <2>2. CASE InsertLabels(t)
    <3>1. labels[h] = None /\ metrics[h] = object[t] /\ reverse[object[t]] = None
      BY <2>2 DEF InsertLabels, IInv, Maps, Adding, Inserting
    <3>2. labels' = [labels EXCEPT ![h] = arg[t]] /\ metrics' = metrics
      BY <2>2, <3>1 DEF InsertLabels, InsertedInto
    <3> HIDE DEF h
    <3> QED BY <1>1, <1>2, <3>1, <3>2 DEF PresentMetric, IInv, TypeOK
  <2> QED BY <2>1, <2>2
<1> QED BY <1>2, <1>3 DEF Abstract!vars

(* What a scrape returns is what is present when it returns. *)
LEMMA CollectReturnsPresent ==
  ASSUME IInv, Gathered, ~torn, NEW t \in Threads, CollectReturns(t)
  PROVE  Abstract!Collect(t)
<1> USE FamilyAssumption
<1>1. /\ pc[t] = "collect" /\ toCollect[t] = {}
      /\ scraped' = [scraped EXCEPT ![t] = collected[t]]
      /\ UNCHANGED <<metrics, labels, reverse, returned>>
  BY DEF CollectReturns, maps
<1>2. \A u \in Threads : ~Inserting(u)
  BY <1>1, OneInside DEF IInv, Inserting
<1>3. \A h \in Hashes : WholeEntry(h)
  BY <1>2 DEF IInv, Maps, EntriesWhole
<1>4. ASSUME NEW l \in LabelSets PROVE l \in collected[t] <=> PresentMetric(l) # None
  <2>1. l \in collected[t] <=> \E h \in Hashes : metrics[h] # None /\ labels[h] = l
    BY <1>1 DEF Gathered
  <2>2. \A h \in Hashes : labels[h] = l => h = Hash[l]
    BY DEF IInv, Maps, MapsNest
  <2>3. Hash[l] \in Hashes
    OBVIOUS
  <2>4. PresentMetric(l) # None <=> metrics[Hash[l]] # None /\ labels[Hash[l]] = l
    BY <1>3, <2>3, PresentWhenWhole
  <2> QED BY <2>1, <2>2, <2>3, <2>4
<1>5. collected[t] = {l \in LabelSets : PM[l] # None}
  BY <1>1, <1>4 DEF Gathered, PM
<1>6. PM' = PM
  BY <1>1 DEF PM, PresentMetric
<1> QED BY <1>1, <1>5, <1>6 DEF Abstract!Collect, PM

(* An Add that finds its hash finds its own labels' metric. *)
LEMMA AddFoundFinds ==
  ASSUME IInv, ~torn, NEW t \in Threads, AddFound(t), \A l, m \in LabelSets : Hash[l] = Hash[m] => l = m
  PROVE  Abstract!AddExisting(t, arg[t])
<1> USE FamilyAssumption
<1> DEFINE l == arg[t]
           h == Hash[l]
<1>1. /\ MutexFree /\ l \in LabelSets /\ h \in Hashes /\ metrics[h] # None
      /\ returned' = [returned EXCEPT ![t] = <<l, metrics[h]>>]
      /\ UNCHANGED <<metrics, labels, reverse, scraped>>
  BY DEF AddFound, Has, Return, ExistingMetric, HashOf, maps, IInv, Maps, Adding
<1>2. WholeEntry(h)
  BY <1>1, WholeWhenFree DEF IInv, Maps
<1>3. labels[h] \in LabelSets /\ Hash[labels[h]] = Hash[l]
  BY <1>1, <1>2 DEF WholeEntry, IInv, Maps, MapsNest, TypeOK
<1>4. labels[h] = l
  BY <1>1, <1>3
<1>5. PresentMetric(l) = metrics[h]
  BY <1>1, <1>2, <1>4, PresentWhenWhole
<1>6. PM' = PM /\ PM[l] = metrics[h] /\ l \in LabelSets
  BY <1>1, <1>5 DEF PM, PresentMetric
<1> QED BY <1>1, <1>6 DEF Abstract!AddExisting, PM

(* The family is the atomic one until an insertion fails half-way, if no   *)
(* two sets of labels share a hash.                                        *)
THEOREM FamilyImplementsAtomicFamily ==
  ASSUME \A l, m \in LabelSets : Hash[l] = Hash[m] => l = m
  PROVE  Spec => ImplementsAtomicFamily
<1> USE FamilyAssumption
<1>1. Init => Abstract!Init /\ Gathered
  BY DEF Init, Abstract!Init, PresentMetric, Gathered
<1>2. IInv /\ Gathered /\ [Next]_vars => Gathered'
  BY GatheredStep
<1>3. IInv /\ Gathered /\ [Next]_vars => [torn' \/ Abstract!Next]_(Abstract!vars)
  <2> SUFFICES ASSUME IInv, Gathered, [Next]_vars, ~torn'
               PROVE  Abstract!Next \/ UNCHANGED Abstract!vars
    OBVIOUS
  <2>0. ~torn
    BY DEF Next, Step, Add, Remove, RemoveUnknown, Collect, CollectNothing, AddFound, AddThrows, InsertMetric,
           InsertLabels, InsertReverse, InsertFails, CollectMetric, CollectThrows, CollectReturns, StartCall, vars
  <2>1. ASSUME NEW t \in Threads,
               \/ \E l \in LabelSets : Add(t, l)
               \/ \E a \in known[t] \cup {None} : RemoveUnknown(t, a)
               \/ Collect(t) \/ AddThrows(t) \/ CollectMetric(t) \/ CollectThrows(t)
        PROVE  UNCHANGED Abstract!vars
    <3>1. UNCHANGED <<metrics, labels, reverse, returned, scraped>>
      BY <2>1 DEF Add, RemoveUnknown, Collect, AddThrows, CollectMetric, CollectThrows, maps, results
    <3> QED BY <3>1 DEF Abstract!vars, PresentMetric
  <2>2. ASSUME NEW t \in Threads, CollectNothing(t) PROVE Abstract!Collect(t)
    <3>1. /\ UNCHANGED <<metrics, labels, reverse, returned>>
          /\ scraped' = [scraped EXCEPT ![t] = {}] /\ \A h \in Hashes : metrics[h] = None
      BY <2>2 DEF CollectNothing, Present, maps
    <3>2. \A l \in LabelSets : PresentMetric(l) = None
      BY <3>1 DEF PresentMetric
    <3>3. PM' = PM /\ {l \in LabelSets : PM[l] # None} = {}
      BY <3>1, <3>2 DEF PM, PresentMetric
    <3> QED BY <3>1, <3>3 DEF Abstract!Collect, PM
  <2>3. ASSUME NEW t \in Threads, AddFound(t) PROVE Abstract!AddExisting(t, arg[t]) /\ arg[t] \in LabelSets
    BY <2>0, <2>3, AddFoundFinds DEF AddFound, IInv, Maps, Adding
  <2>4. ASSUME NEW t \in Threads, InsertReverse(t)
        PROVE  Abstract!AddNew(t, arg[t], object[t]) /\ arg[t] \in LabelSets /\ object[t] \in Addresses
    BY <2>4, InsertReverseAdds DEF InsertReverse, IInv, Maps, Adding
  <2>5. ASSUME NEW t \in Threads, InsertFails(t) PROVE FALSE
    BY <2>5 DEF InsertFails
  <2>6. ASSUME NEW t \in Threads, NEW a \in known[t] \cup {None}, Remove(t, a) PROVE Abstract!Next
    BY <2>0, <2>6, RemoveRemoves DEF Abstract!Next
  <2>7. ASSUME NEW t \in Threads, InsertMetric(t) \/ InsertLabels(t) PROVE UNCHANGED Abstract!vars
    BY <2>7, InsertingStutters
  <2>8. ASSUME NEW t \in Threads, CollectReturns(t) PROVE Abstract!Collect(t)
    BY <2>0, <2>8, CollectReturnsPresent
  <2>9. CASE UNCHANGED vars
    BY <2>9 DEF vars, maps, results, Abstract!vars, PresentMetric
  <2>10. CASE Next
    <3> HIDE DEF Abstract!vars
    <3>1. PICK t \in Threads :
            \/ \E l \in LabelSets : Add(t, l)
            \/ \E a \in known[t] \cup {None} : Remove(t, a) \/ RemoveUnknown(t, a)
            \/ Collect(t) \/ CollectNothing(t) \/ Step(t)
      BY <2>10 DEF Next
    <3> QED BY <2>1, <2>2, <2>3, <2>4, <2>5, <2>6, <2>7, <2>8, <3>1 DEF Step, Abstract!Next
  <2> QED BY <2>9, <2>10
<1> QED BY <1>1, <1>2, <1>3, FamilyInvariant, PTL DEF Spec, ImplementsAtomicFamily
==============================================================================
