------------------------------- MODULE Family --------------------------------
(***************************************************************************)
(* prometheus/family.cc: the metrics of one family, one per set of labels, *)
(* in three hash maps behind a mutex.  metrics_ owns the metric objects    *)
(* and labels_ holds their labels, both under the hash of the labels;      *)
(* labels_reverse_lookup_ finds the hash by the object's address.  Threads *)
(* add, remove and collect; the object of an Add is allocated before the   *)
(* mutex is taken, an insertion may run out of memory half-way, and an     *)
(* address may be used again once its object is destroyed.                 *)
(* A map from K to V is a total function to V or None here.                *)
(***************************************************************************)
EXTENDS Integers

CONSTANTS Threads,
          LabelSets,   \* what Add is called with
          BadLabels,   \* those with an invalid name or the name of a constant label
          Hashes,
          Hash,        \* detail::hash_labels, a function from LabelSets to Hashes
          Addresses,   \* where metric objects can be
          OutOfMemory, \* may an insertion into a map throw std::bad_alloc?
          MaxCalls,    \* bound: calls made over the whole run
          None

ASSUME FamilyAssumption == /\ BadLabels \subseteq LabelSets
                           /\ Hash \in [LabelSets -> Hashes]
                           /\ None \notin Threads \cup LabelSets \cup Hashes \cup Addresses
                           /\ OutOfMemory \in BOOLEAN
                           /\ MaxCalls \in Nat

VARIABLES mutex,      \* mutex_: the thread that holds it, or None
          metrics,    \* metrics_: the address of the metric of a hash
          labels,     \* labels_: the labels of a hash
          reverse,    \* labels_reverse_lookup_: the hash of an address
          heap,       \* the addresses of the metric objects that exist
          pc,         \* per thread: where it is in its call
          arg,        \* per thread: the labels that Add was called with
          object,     \* per thread: the object that Add was called with
          toCollect,  \* per thread: the hashes that Collect's loop has not visited
          collected,  \* per thread: the labels of the metrics it has collected
          known,      \* per thread: the addresses Add has returned to it, stale ones too
          returned,   \* per thread: the labels and the metric of its last successful Add
          scraped,    \* per thread: what its last Collect returned
          calls,      \* calls made so far
          torn        \* history: has an insertion thrown after another succeeded?

maps == <<metrics, labels, reverse>>
adding == <<arg, object>>
collecting == <<toCollect, collected>>
results == <<known, returned, scraped>>
vars == <<mutex, maps, heap, pc, adding, collecting, results, calls, torn>>

Init == /\ mutex = None
        /\ metrics = [h \in Hashes |-> None]
        /\ labels = [h \in Hashes |-> None]
        /\ reverse = [a \in Addresses |-> None]
        /\ heap = {}
        /\ pc = [t \in Threads |-> "idle"]
        /\ arg = [t \in Threads |-> None]
        /\ object = [t \in Threads |-> None]
        /\ toCollect = [t \in Threads |-> {}]
        /\ collected = [t \in Threads |-> {}]
        /\ known = [t \in Threads |-> {}]
        /\ returned = [t \in Threads |-> <<None, None>>]
        /\ scraped = [t \in Threads |-> {}]
        /\ calls = 0
        /\ torn = FALSE

StartCall(t) == /\ pc[t] = "idle"
                /\ calls < MaxCalls
                /\ calls' = calls + 1
                /\ UNCHANGED torn

GoTo(t, place) == pc' = [pc EXCEPT ![t] = place]

MutexIgnored == TRUE   \* mutant of MutexFree: the lock_guard is missing
MutexFree == mutex = None

------------------------------------------------------------------------------

(* The public Add makes the metric object, whether or not it is needed. *)
Add(t, l) == /\ StartCall(t)
             /\ \E a \in Addresses \ heap : /\ heap' = heap \cup {a}
                                            /\ object' = [object EXCEPT ![t] = a]
             /\ arg' = [arg EXCEPT ![t] = l]
             /\ GoTo(t, "add")
             /\ UNCHANGED <<mutex, maps, collecting, results>>

Has(l) == metrics[Hash[l]] # None

HashOf(t) == Hash[arg[t]]

Return(t, a) == /\ known' = [known EXCEPT ![t] = @ \cup {a}]
                /\ returned' = [returned EXCEPT ![t] = <<arg[t], a>>]
                /\ UNCHANGED scraped

(* The unique_ptr destroys an object that found no place in metrics_. *)
ObjectLeaked(t) == heap            \* mutant of ObjectDestroyed: a plain pointer
ObjectDestroyed(t) == heap \ {object[t]}

NewObject(t) == object[t]          \* mutant of ExistingMetric: Add returns what it made
ExistingMetric(t) == metrics[HashOf(t)]

(* The hash is there: Add returns its metric and destroys the new object. *)
AddFound(t) == /\ pc[t] = "add"
               /\ MutexFree
               /\ Has(arg[t])
               /\ Return(t, ExistingMetric(t))
               /\ heap' = ObjectDestroyed(t)
               /\ GoTo(t, "idle")
               /\ UNCHANGED <<mutex, maps, adding, collecting, calls, torn>>

(* std::invalid_argument: the labels are refused, or metrics_.insert is out*)
(* of memory, before anything changed.  The new object is destroyed.       *)
AddThrows(t) == /\ pc[t] = "add"
                /\ MutexFree
                /\ ~Has(arg[t])
                /\ arg[t] \in BadLabels \/ OutOfMemory
                /\ heap' = ObjectDestroyed(t)
                /\ GoTo(t, "idle")
                /\ UNCHANGED <<mutex, maps, adding, collecting, results, calls, torn>>

InsertMetric(t) == /\ pc[t] = "add"
                   /\ MutexFree
                   /\ ~Has(arg[t])
                   /\ arg[t] \notin BadLabels
                   /\ mutex' = t
                   /\ metrics' = [metrics EXCEPT ![HashOf(t)] = object[t]]
                   /\ GoTo(t, "labels")
                   /\ UNCHANGED <<labels, reverse, heap, adding, collecting, results, calls, torn>>

(* insert leaves an entry that is there already as it is. *)
InsertedInto(map, key, value) ==
  IF map[key] = None THEN [map EXCEPT ![key] = value] ELSE map

InsertLabels(t) == /\ pc[t] = "labels"
                   /\ labels' = InsertedInto(labels, HashOf(t), arg[t])
                   /\ GoTo(t, "reverse")
                   /\ UNCHANGED <<mutex, metrics, reverse, heap, adding, collecting, results, calls, torn>>

InsertReverse(t) == /\ pc[t] = "reverse"
                    /\ reverse' = InsertedInto(reverse, object[t], HashOf(t))
                    /\ Return(t, ExistingMetric(t))
                    /\ mutex' = None
                    /\ GoTo(t, "idle")
                    /\ UNCHANGED <<metrics, labels, heap, adding, collecting, calls, torn>>

LockedAfterThrow == mutex    \* mutant of UnlockedByThrow: lock() and unlock() by hand
UnlockedByThrow == None

(* std::bad_alloc from the second or the third insertion: the lock_guard   *)
(* unlocks, and what the earlier insertions did stays.                     *)
InsertFails(t) == /\ OutOfMemory
                  /\ pc[t] \in {"labels", "reverse"}
                  /\ mutex' = UnlockedByThrow
                  /\ GoTo(t, "idle")
                  /\ torn' = TRUE
                  /\ UNCHANGED <<maps, heap, adding, collecting, results, calls>>

------------------------------------------------------------------------------

(* Remove looks the address up and never the object: one that is not there,*)
(* or a null pointer, is left alone.                                       *)
LookedUp(a) == IF a = None THEN None ELSE reverse[a]

RemoveUnknown(t, a) == /\ StartCall(t)
                       /\ MutexFree
                       /\ LookedUp(a) = None
                       /\ UNCHANGED <<mutex, maps, heap, pc, adding, collecting, results>>

LabelsKept(h) == labels   \* mutant of LabelsAfterRemove: the second erase is missing
LabelsAfterRemove(h) == [labels EXCEPT ![h] = None]

Remove(t, a) ==
  LET h == LookedUp(a) IN
  /\ StartCall(t)
  /\ MutexFree
  /\ h # None
  /\ metrics' = [metrics EXCEPT ![h] = None]
  /\ labels' = LabelsAfterRemove(h)
  /\ reverse' = [reverse EXCEPT ![a] = None]
  /\ heap' = heap \ {metrics[h]}
  /\ UNCHANGED <<mutex, pc, adding, collecting, results>>

------------------------------------------------------------------------------

Present == {h \in Hashes : metrics[h] # None}

CollectNothing(t) == /\ StartCall(t)
                     /\ MutexFree
                     /\ Present = {}
                     /\ scraped' = [scraped EXCEPT ![t] = {}]
                     /\ UNCHANGED <<mutex, maps, heap, pc, adding, collecting, known, returned>>

Collect(t) == /\ StartCall(t)
              /\ MutexFree
              /\ Present # {}
              /\ mutex' = t
              /\ toCollect' = [toCollect EXCEPT ![t] = Present]
              /\ collected' = [collected EXCEPT ![t] = {}]
              /\ GoTo(t, "collect")
              /\ UNCHANGED <<maps, heap, adding, results>>

(* The loop over metrics_, in the order of the hash map, which is any. *)
CollectMetric(t) == /\ pc[t] = "collect"
                    /\ \E h \in toCollect[t] :
                         /\ labels[h] # None
                         /\ collected' = [collected EXCEPT ![t] = @ \cup {labels[h]}]
                         /\ toCollect' = [toCollect EXCEPT ![t] = @ \ {h}]
                    /\ UNCHANGED <<mutex, maps, heap, pc, adding, results, calls, torn>>

(* labels_.at(hash) throws std::out_of_range: there is no scrape. *)
CollectThrows(t) == /\ pc[t] = "collect"
                    /\ \E h \in toCollect[t] : labels[h] = None
                    /\ mutex' = UnlockedByThrow
                    /\ GoTo(t, "idle")
                    /\ UNCHANGED <<maps, heap, adding, collecting, results, calls, torn>>

CollectReturns(t) == /\ pc[t] = "collect"
                     /\ toCollect[t] = {}
                     /\ scraped' = [scraped EXCEPT ![t] = collected[t]]
                     /\ mutex' = None
                     /\ GoTo(t, "idle")
                     /\ UNCHANGED <<maps, heap, adding, collecting, known, returned, calls, torn>>

------------------------------------------------------------------------------

Step(t) == \/ AddFound(t) \/ AddThrows(t)
           \/ InsertMetric(t) \/ InsertLabels(t) \/ InsertReverse(t) \/ InsertFails(t)
           \/ CollectMetric(t) \/ CollectThrows(t) \/ CollectReturns(t)

Next == \E t \in Threads :
          \/ \E l \in LabelSets : Add(t, l)
          \/ \E a \in known[t] \cup {None} : Remove(t, a) \/ RemoveUnknown(t, a)
          \/ Collect(t) \/ CollectNothing(t)
          \/ Step(t)

Spec == Init /\ [][Next]_vars

(* A thread inside a call goes on as soon as it can: it is scheduled, and  *)
(* gets the mutex once the other threads stop taking it.                   *)
FairSpec == Spec /\ \A t \in Threads : WF_vars(Step(t))

------------------------------------------------------------------------------

(* Every variable has its type; only the thread that holds the mutex is    *)
(* inside an insertion or a scrape.                                        *)
TypeOK == /\ mutex \in Threads \cup {None}
          /\ metrics \in [Hashes -> Addresses \cup {None}]
          /\ labels \in [Hashes -> LabelSets \cup {None}]
          /\ reverse \in [Addresses -> Hashes \cup {None}]
          /\ heap \subseteq Addresses
          /\ pc \in [Threads -> {"idle", "add", "labels", "reverse", "collect"}]
          /\ arg \in [Threads -> LabelSets \cup {None}]
          /\ object \in [Threads -> Addresses \cup {None}]
          /\ toCollect \in [Threads -> SUBSET Hashes]
          /\ collected \in [Threads -> SUBSET (LabelSets \cup {None})]
          /\ known \in [Threads -> SUBSET (Addresses \cup {None})]
          /\ calls \in 0..MaxCalls
          /\ torn \in BOOLEAN
          /\ \A t \in Threads : pc[t] \in {"labels", "reverse", "collect"} => mutex = t

(* The three maps nest, at every instant and whatever insertion failed: an *)
(* address that can be looked up is that of a metric, labels belong to a   *)
(* metric under their own hash.  So Remove, which goes by the address,     *)
(* never destroys another metric and never leaves labels or an address     *)
(* behind, even when it is given a stale one.                              *)
MapsNest ==
  /\ \A a \in Addresses : reverse[a] # None => /\ metrics[reverse[a]] = a
                                              /\ labels[reverse[a]] # None
  /\ \A h \in Hashes : labels[h] # None => /\ metrics[h] # None
                                          /\ Hash[labels[h]] = h

(* The maps nest, and whenever the mutex is free, unless an insertion      *)
(* failed half-way, they hold the same metrics: each can be found, named   *)
(* and removed.                                                            *)
MapsAgree ==
  /\ MapsNest
  /\ mutex = None /\ ~torn =>
       \A h \in Hashes : metrics[h] # None => /\ labels[h] # None
                                              /\ reverse[metrics[h]] = h

(* A metric object exists exactly as long as metrics_ or the Add that      *)
(* brought it owns it.  Nothing leaks when Add finds another or throws,    *)
(* and no metric in the map, which a scrape will visit, is destroyed.      *)
OwnedObjects == {metrics[h] : h \in Present} \cup {object[t] : t \in {u \in Threads : pc[u] = "add"}}

HeapIsOwned == heap = OwnedObjects

(* A scrape in progress still has to visit only metrics that exist, and    *)
(* whose labels exist unless an insertion failed half-way: nothing is      *)
(* removed under its hands.                                                *)
ScrapeVisitsTheLiving ==
  \A t \in Threads : pc[t] = "collect" =>
    \A h \in toCollect[t] : metrics[h] \in heap /\ (~torn => labels[h] # None)

(* A family is AtomicFamily, as long as no two sets of labels share a hash *)
(* and until an insertion fails half-way.  A metric is present once the    *)
(* last of the three maps has it.                                          *)
PresentMetric(l) ==
  LET a == metrics[Hash[l]]
  IN  IF a # None /\ labels[Hash[l]] = l /\ reverse[a] = Hash[l] THEN a ELSE None

Abstract == INSTANCE AtomicFamily WITH present <- [l \in LabelSets |-> PresentMetric(l)]

ImplementsAtomicFamily == Abstract!Init /\ [][torn' \/ Abstract!Next]_(Abstract!vars)

(* Every call returns or throws: no way out of a critical section, an      *)
(* exception included, keeps the mutex.                                    *)
CallsReturn == \A t \in Threads : pc[t] # "idle" ~> pc[t] = "idle"

(* family.cc:71, assert(labels_iter != labels_.end()), in Add.             *)
AssertLabelsFound ==
  \A t \in Threads : pc[t] = "add" /\ MutexFree /\ Has(arg[t])
                      => labels[HashOf(t)] # None

(* family.cc:73, assert(labels == old_labels), in Add: a hash that is      *)
(* there is there because of the same labels.                              *)
AssertSameLabels ==
  \A t \in Threads : pc[t] = "add" /\ MutexFree /\ Has(arg[t])
                      => labels[HashOf(t)] = arg[t]
==============================================================================
