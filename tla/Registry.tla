------------------------------ MODULE Registry -------------------------------
(***************************************************************************)
(* prometheus/registry.cc with detail/builder.cc: the registry owns the    *)
(* families, a vector of them per metric type, behind a mutex.  Threads    *)
(* register families through the builders, add metrics to and remove them  *)
(* from the families they were handed, and scrape.  A scrape holds the     *)
(* registry's mutex from its first to its last family, but a family's      *)
(* mutex only while it visits that family, so metrics come and go around   *)
(* it.  One operation on a Family is one step here: module Family shows    *)
(* that it is atomic.  Families are never removed: <<type, index>> names   *)
(* one for good.                                                           *)
(***************************************************************************)
EXTENDS Integers, Sequences

CONSTANTS Threads,
          TypeOrder,  \* the metric types, in the order in which Collect visits them
          Names,      \* what Builder::Name is called with
          BadNames,   \* those that CheckMetricName refuses
          LabelSets,  \* what Builder::Labels is called with: the constant labels
          BadLabels,  \* those with a name that CheckLabelName refuses
          Metrics,    \* the sets of labels that Family::Add is called with
          Behaviors,  \* the insert behaviours a registry is constructed with
          MaxCalls,   \* bound: calls made over the whole run
          None

Types == {TypeOrder[k] : k \in 1..Len(TypeOrder)}

ASSUME RegistryAssumption ==
  /\ TypeOrder \in Seq(Types)
  /\ \A j, k \in 1..Len(TypeOrder) : TypeOrder[j] = TypeOrder[k] => j = k
  /\ BadNames \subseteq Names
  /\ BadLabels \subseteq LabelSets
  /\ Behaviors \subseteq {"Merge", "Throw", "NonStandardAppend"}
  /\ MaxCalls \in Nat
  /\ None \notin Threads

VARIABLES behavior,  \* insert_behavior_, a constant of the registry
          mutex,     \* mutex_: the thread that holds it, or None
          families,  \* counters_, gauges_, ...: per type, the families in order of arrival
          present,   \* per type and family: the metrics that are in it
          pc,        \* per thread: "idle", in Add before ("add") and after ("append") its checks, or "collect"
          request,   \* per thread: what Registry::Add was called with
          handed,    \* per thread: what Registry::Add returned to it, and for what request
          cursor,    \* per thread: where its scrape is, a type and an index
          results,   \* per thread: the metrics its scrape has collected
          scraped,   \* per thread: what its last scrape returned
          calls,     \* calls made so far
          throughout, \* history: the metrics that were there ever since a scrape began
          sometime    \* history: the metrics that were there at some time since

registering == <<behavior, families, request, handed>>
scraping == <<cursor, results, scraped>>
history == <<throughout, sometime>>
vars == <<mutex, registering, present, pc, scraping, calls, history>>

Init == /\ behavior \in Behaviors
        /\ mutex = None
        /\ families = [T \in Types |-> <<>>]
        /\ present = [T \in Types |-> <<>>]
        /\ pc = [t \in Threads |-> "idle"]
        /\ request = [t \in Threads |-> None]
        /\ handed = [t \in Threads |-> {}]
        /\ cursor = [t \in Threads |-> <<1, 1>>]
        /\ results = [t \in Threads |-> <<>>]
        /\ scraped = [t \in Threads |-> <<>>]
        /\ calls = 0
        /\ throughout = [t \in Threads |-> {}]
        /\ sometime = [t \in Threads |-> {}]

StartCall(t) == /\ pc[t] = "idle"
                /\ calls < MaxCalls
                /\ calls' = calls + 1

GoTo(t, place) == pc' = [pc EXCEPT ![t] = place]

MutexIgnored == TRUE   \* mutant of MutexFree: the lock_guard is missing
MutexFree == mutex = None

------------------------------------------------------------------------------

(* BuildCounter().Name(..).Labels(..).Register(registry), and the others. *)
Register(t, T, n, l) ==
  /\ StartCall(t)
  /\ request' = [request EXCEPT ![t] = [type |-> T, name |-> n, labels |-> l]]
  /\ GoTo(t, "add")
  /\ UNCHANGED <<behavior, mutex, families, present, handed, scraping, history>>

OfName(T, n) == {i \in 1..Len(families[T]) : families[T][i].name = n}

(* Mutant of OfNameAndLabels: Merge looks at the name alone. *)
OfNameAnyLabels(T, n, l) == OfName(T, n)

OfNameAndLabels(T, n, l) == {i \in OfName(T, n) : families[T][i].labels = l}

(* Mutant of OtherTypes: each type looks only at those that come before it. *)
EarlierTypes(T) == {TypeOrder[k] : k \in {j \in 1..Len(TypeOrder) :
                                           \A m \in 1..j : TypeOrder[m] # T}}

OtherTypes(T) == Types \ {T}

NameExistsInOtherType(r) == \E T \in OtherTypes(r.type) : OfName(T, r.name) # {}

(* Mutant of Merged: families merge whatever the insert behaviour. *)
MergedAlways(r) == OfNameAndLabels(r.type, r.name, r.labels)

Merged(r) == IF behavior = "Merge" THEN OfNameAndLabels(r.type, r.name, r.labels) ELSE {}

(* Mutant of NameTaken: only Throw looks for the name. *)
NameTakenIfThrow(r) == behavior = "Throw" /\ OfName(r.type, r.name) # {}

NameTaken(r) == behavior # "NonStandardAppend" /\ OfName(r.type, r.name) # {}

Refused(r) == r.name \in BadNames \/ r.labels \in BadLabels

Throws(r) == NameExistsInOtherType(r) \/ (Merged(r) = {} /\ NameTaken(r))

Hand(t, T, i) ==
  handed' = [handed EXCEPT ![t] = @ \cup {[request |-> request[t], family |-> <<T, i>>]}]

(* std::invalid_argument: the name is another type's, or is taken. *)
AddThrows(t) == /\ pc[t] = "add"
                /\ MutexFree
                /\ Throws(request[t])
                /\ GoTo(t, "idle")
                /\ UNCHANGED <<mutex, registering, present, scraping, calls, history>>

(* Merge: the first family of that type, name and labels is handed out. *)
AddMerges(t) == /\ pc[t] = "add"
                /\ MutexFree
                /\ ~Throws(request[t])
                /\ \E i \in Merged(request[t]) :
                     /\ \A j \in Merged(request[t]) : i <= j
                     /\ Hand(t, request[t].type, i)
                /\ GoTo(t, "idle")
                /\ UNCHANGED <<behavior, mutex, families, present, request, scraping, calls, history>>

(* All checks passed, under the mutex; the family has still to be made. *)
AddPasses(t) == /\ pc[t] = "add"
                /\ MutexFree
                /\ ~Throws(request[t])
                /\ Merged(request[t]) = {}
                /\ mutex' = t
                /\ GoTo(t, "append")
                /\ UNCHANGED <<registering, present, scraping, calls, history>>

LockedAfterThrow == mutex   \* mutant of UnlockedByThrow: lock() and unlock() by hand
UnlockedByThrow == None

(* Family's constructor throws std::invalid_argument. *)
FamilyThrows(t) == /\ pc[t] = "append"
                   /\ Refused(request[t])
                   /\ mutex' = UnlockedByThrow
                   /\ GoTo(t, "idle")
                   /\ UNCHANGED <<registering, present, scraping, calls, history>>

AppendFamily(t) ==
  LET r == request[t] IN
  /\ pc[t] = "append"
  /\ ~Refused(r)
  /\ families' = [families EXCEPT ![r.type] = Append(@, [name |-> r.name, labels |-> r.labels])]
  /\ present' = [present EXCEPT ![r.type] = Append(@, {})]
  /\ Hand(t, r.type, Len(families[r.type]) + 1)
  /\ mutex' = None
  /\ GoTo(t, "idle")
  /\ UNCHANGED <<behavior, request, scraping, calls, history>>

------------------------------------------------------------------------------

InScrape(u) == pc[u] = "collect"

(* Family::Add and Family::Remove, on a family that the thread was handed. *)
AddMetric(t, f, m) ==
  /\ StartCall(t)
  /\ present' = [present EXCEPT ![f[1]][f[2]] = @ \cup {m}]
  /\ sometime' = [u \in Threads |-> sometime[u] \cup IF InScrape(u) THEN {<<f, m>>} ELSE {}]
  /\ UNCHANGED <<mutex, registering, pc, scraping, throughout>>

RemoveMetric(t, f, m) ==
  /\ StartCall(t)
  /\ m \in present[f[1]][f[2]]
  /\ present' = [present EXCEPT ![f[1]][f[2]] = @ \ {m}]
  /\ throughout' = [u \in Threads |-> throughout[u] \ IF InScrape(u) THEN {<<f, m>>} ELSE {}]
  /\ UNCHANGED <<mutex, registering, pc, scraping, sometime>>

------------------------------------------------------------------------------

AllMetrics == UNION {{<<<<T, i>>, m>> : i \in {j \in 1..Len(families[T]) : m \in present[T][j]}} :
                        T \in Types, m \in Metrics}

Collect(t) == /\ StartCall(t)
              /\ MutexFree
              /\ mutex' = t
              /\ GoTo(t, "collect")
              /\ cursor' = [cursor EXCEPT ![t] = <<1, 1>>]
              /\ results' = [results EXCEPT ![t] = <<>>]
              /\ throughout' = [throughout EXCEPT ![t] = AllMetrics]
              /\ sometime' = [sometime EXCEPT ![t] = AllMetrics]
              /\ UNCHANGED <<registering, present, scraped>>

AtType(t) == TypeOrder[cursor[t][1]]

AtLast(t) == cursor[t][2] >= Len(families[AtType(t)])   \* mutant of AtEnd: off by one
AtEnd(t) == cursor[t][2] > Len(families[AtType(t)])

(* Family::Collect returns nothing for a family without metrics. *)
Collected(f) ==
  IF present[f[1]][f[2]] = {} THEN <<>> ELSE <<[family |-> f, metrics |-> present[f[1]][f[2]]]>>

CollectFamily(t) ==
  /\ InScrape(t)
  /\ cursor[t][1] <= Len(TypeOrder)
  /\ ~AtEnd(t)
  /\ results' = [results EXCEPT ![t] = @ \o Collected(<<AtType(t), cursor[t][2]>>)]
  /\ cursor' = [cursor EXCEPT ![t][2] = @ + 1]
  /\ UNCHANGED <<mutex, registering, present, pc, scraped, calls, history>>

CollectNextType(t) ==
  /\ InScrape(t)
  /\ cursor[t][1] <= Len(TypeOrder)
  /\ AtEnd(t)
  /\ cursor' = [cursor EXCEPT ![t] = <<@[1] + 1, 1>>]
  /\ UNCHANGED <<mutex, registering, present, pc, results, scraped, calls, history>>

CollectReturns(t) ==
  /\ InScrape(t)
  /\ cursor[t][1] > Len(TypeOrder)
  /\ scraped' = [scraped EXCEPT ![t] = results[t]]
  /\ mutex' = None
  /\ GoTo(t, "idle")
  /\ UNCHANGED <<registering, present, cursor, results, calls, history>>

------------------------------------------------------------------------------

Step(t) == \/ AddThrows(t) \/ AddMerges(t) \/ AddPasses(t) \/ FamilyThrows(t) \/ AppendFamily(t)
           \/ CollectFamily(t) \/ CollectNextType(t) \/ CollectReturns(t)

Next == \E t \in Threads :
          \/ \E T \in Types, n \in Names, l \in LabelSets : Register(t, T, n, l)
          \/ \E h \in handed[t], m \in Metrics :
               AddMetric(t, h.family, m) \/ RemoveMetric(t, h.family, m)
          \/ Collect(t)
          \/ Step(t)

Spec == Init /\ [][Next]_vars

(* A thread inside a call goes on as soon as it can: it is scheduled, and  *)
(* gets the mutex once the other threads stop taking it.                   *)
FairSpec == Spec /\ \A t \in Threads : WF_vars(Step(t))

------------------------------------------------------------------------------

FamilyNamed(f) == families[f[1]][f[2]]

(* Every variable has its type, and only the thread that holds the mutex   *)
(* is past its checks or in a scrape.                                      *)
Requests == [type : Types, name : Names, labels : LabelSets]

TypeOK ==
  /\ behavior \in Behaviors
  /\ mutex \in Threads \cup {None}
  /\ families \in [Types -> Seq([name : Names, labels : LabelSets])]
  /\ pc \in [Threads -> {"idle", "add", "append", "collect"}]
  /\ request \in [Threads -> Requests \cup {None}]
  /\ calls \in 0..MaxCalls
  /\ \A T \in Types : Len(present[T]) = Len(families[T])
  /\ \A t \in Threads : pc[t] \in {"append", "collect"} => mutex = t

(* registry.h: "adding a family with the same name but different types is  *)
(* always an error", whatever the insert behaviour and however the threads *)
(* that register race.  Merge and Throw keep one family per name; only     *)
(* NonStandardAppend, which "violates the prometheus specification", makes *)
(* several.                                                                *)
OneFamilyPerName ==
  \A T, U \in Types : \A i \in 1..Len(families[T]), j \in 1..Len(families[U]) :
    families[T][i].name = families[U][j].name =>
      T = U /\ (behavior # "NonStandardAppend" => i = j)

(* What a thread is handed is a family of the type, name and constant      *)
(* labels it asked for, and under Throw and NonStandardAppend it is its    *)
(* alone.                                                                  *)
HandedAsRequested ==
  \A t \in Threads : \A h \in handed[t] :
    /\ h.request.type = h.family[1]
    /\ h.family[2] \in 1..Len(families[h.family[1]])
    /\ FamilyNamed(h.family) = [name |-> h.request.name, labels |-> h.request.labels]
    /\ behavior # "Merge" => \A u \in Threads : \A g \in handed[u] :
                               g.family = h.family => g = h /\ t = u

(* While a scrape walks the vectors nobody appends to them: a push_back    *)
(* would invalidate the iterators of CollectAll.                           *)
ScrapeWalksStillVectors ==
  [][\A t \in Threads : InScrape(t) => UNCHANGED families]_vars

(* A scrape is not a snapshot: it visits the families one after the other. *)
(* But a metric that was there all the time is in it, one that is in it    *)
(* was there at some time, and no family is in it twice.                   *)
InResult(t) == UNION {{<<scraped[t][k].family, m>> : m \in scraped[t][k].metrics} :
                         k \in 1..Len(scraped[t])}

ScrapeBracketed ==
  \A t \in Threads : ~InScrape(t) =>
    /\ throughout[t] \subseteq InResult(t)
    /\ InResult(t) \subseteq sometime[t]
    /\ \A j, k \in 1..Len(scraped[t]) : scraped[t][j].family = scraped[t][k].family => j = k

(* Every registration and every scrape returns or throws. *)
CallsReturn == \A t \in Threads : pc[t] # "idle" ~> pc[t] = "idle"
==============================================================================
