# Verification of the metrics library

The repository is a C++ practice project around an edited copy of the core of
prometheus-cpp: counters, gauges, histograms and summaries, grouped into families,
which a registry owns and scrapes. Around it are small utilities and demonstrations.
This directory holds TLA+ models of the library's concurrent core and of the utilities,
TLC runs that check them on small instances, and TLAPS proofs that hold for every
instance.

`PROJECT.json` is the index: components, runs, mutants (for every property, a plausible
bug that breaks it), the map from each definition to the source lines it models, the
findings, the hazards and the theorems. Source paths below are relative to `src/`.

## 1. Inventory

### The library (`prometheus/`)

| component | state | operations | shared with | what makes it correct |
|---|---|---|---|---|
| Gauge (`gauge.cc`) | `value_`, an atomic double | Increment, Decrement, Set, Value, Collect | all threads, no lock | a change takes effect exactly once although it is a load / compare-and-swap loop; some call always gets through |
| Counter (`counter.cc`) | a Gauge | Increment, Value, Collect | all threads | never goes down |
| Histogram (`histogram.cc`) | a Counter per bucket, a Gauge for the sum | Observe, ObserveMultiple, Collect | all threads, no lock | nothing lost; scraped counts are cumulative and never go back; a scrape's sum covers its counts |
| CKMSQuantiles (`detail/ckms_quantiles.cc`) | sorted `sample_`, `count_`, `buffer_` | insert, get, reset | the bucket's owner | weights add up, order is kept, the estimate is within the tolerated error |
| TimeWindowQuantiles (`detail/time_window_quantiles.cc`) | a ring of estimators, the current one, `last_rotation_` | insert, get (both rotate first) | the Summary, the clock | nothing older than max_age is seen, nothing young is dropped, rotating ends |
| Summary (`summary.cc`) | count, sum, window, a mutex | Observe, Collect | all threads | a scrape is of whole observations |
| Family (`family.h`, `family.cc`) | three hash maps that belong together, a mutex; owns the metric objects | Add, Remove, Has, Collect | all threads, the Registry | one metric per set of labels, maps that agree, no leak and no dangling entry |
| Registry (`registry.cc`) | a vector of families per metric type, the insert behaviour, a mutex | Add (through the builders), Collect | all threads | one type per name, one family per name, a scrape that misses nothing |
| Builder (`detail/builder.cc`) | the arguments of a registration | Name, Help, Labels, Register | the Registry | passes on what it was given |
| Name checks (`check_names.cc`) | none | CheckMetricName, CheckLabelName | Family's constructor and Add | accept exactly the names of the documented grammar that are not reserved |
| Label hash (`detail/utils.cc`) | none | hash_labels | Family | equal labels, equal hashes |
| Text serializer (`text_serializer.cc`) | none | Serialize | the scraper's caller | a reader of the lines gets back what was scraped |

Interactions: a caller registers a family (Builder → Registry → Family's constructor,
which checks names), adds metrics to it (Family::Add constructs the metric before the
lock is taken), and updates the metrics from any thread. A scrape is
Registry::Collect → Family::Collect of each family → Collect of each metric; it holds
the registry's mutex throughout, a family's while it visits that family, a summary's
while it reads that summary, and none for the other metrics. The lock order is registry,
family, summary; nothing takes them in another order. A Summary calls its window, which
reads the clock at each call and resets the estimators it rotates past. The text
serializer works on the copies that a scrape returned.

The hard parts: lock-free updates (Gauge) and multi-word updates without a lock
(Histogram), checks that are made long before the write they guard (Counter, Registry),
exceptions half-way through an update of several maps (Family), scrapes that are not
snapshots (Registry, Histogram, Summary), a loop that catches up with a clock that runs
on (TimeWindow), and an estimator whose indices move under it (CKMSQuantiles).
`PROJECT.json` lists each of these hazards at its line with the properties that would
catch it.

### Around it

| component | state | operations | shared with | what makes it correct |
|---|---|---|---|---|
| Config file edits (`main.cpp:75-258`) | `config.ini`, `config_bak.ini`, a mutex | input_skv_config, deal_skv_config, replace_skv_config, deal_config_ini | every thread that inputs; whatever process comes after a crash | a line is entered once, an edit changes what it is meant to and nothing else, the contents survive a crash, and any failure but that of writing their copy |
| testMutex (`main.cpp:455`, `mutex/`) | `mu_num`, a mutex, thread ids | create, increment, join, print | the threads it creates | prints how many threads there were |
| LRUCache (`util/lru_cache.h`) | a list of entries, a map of iterators into it | put, get, exists, size | nobody | list and map are one recency order, cut off at max_size |
| Buffer (`util/buffer.h`) | an array and two indices | append, the peeks and retrieves, unwrite, findCRLF, findEOL, swap | nobody | bytes come out as they went in |
| Observer (`pattern/observer.*`) | a list of observers, a state | Attach, Detach, SetState, Notify | the observers | who is attached is told the present state, once |
| Base64 (`tuple/base64.h`) | none | Encode, Decode, StripPadding, the lengths | | decoding undoes encoding; the room asked for is the room filled |
| Number formatting (`util/number.cc`) | none | FastUInt32ToBufferLeft, FastInt32ToBufferLeft | | decimal notation over all 32 bits |
| Substitute (`util/substitute.*`) | none | SubstituteAndAppend, Substitute | | the result is what the format says |
| RefCounted, WinnerTree, tuple and scope exit helpers, demonstrations | | | | fragments and printouts, see section 6 |

These do not know of each other, nor of the library. The hard parts: edits that look a
line up in one opening of the file and append it in another, or remove a file before its
successor has its name; two data structures that must describe one order (LRUCache);
threads that could not be created (testMutex); a size computed by one pass and filled by
another (Base64, Substitute); and branches at every power of ten (number formatting).

## 2. Modules

| module | models | remarks |
|---|---|---|
| `AtomicGauge` | what `gauge.h` promises | abstract: a change is pending, then takes effect at one instant |
| `Gauge` | `gauge.cc` | load and compare-and-swap are steps of their own; the latter may fail spuriously. Implements `AtomicGauge`: pending is the argument of a thread inside Change |
| `Counter` | `counter.cc` | EXTENDS `Gauge`, whose state is all it has; adds the sign check |
| `Histogram` | `histogram.cc` | one addition or read of a bucket or the sum is a step (justified by `AtomicGauge`); a reader walks the buckets while observers move them |
| `AtomicFamily` | what `family.h` promises | abstract: one metric per set of labels, each operation at once |
| `Family` | `family.cc` and Add of `family.h` | the three insertions are steps, each may throw; addresses come back after a Remove; a caller may remove by a stale pointer. Implements `AtomicFamily` until an insertion fails half-way |
| `Registry` | `registry.cc`, `detail/builder.cc` | the check and the append are steps of one critical section; a scrape is a step per family; one Family operation is one step (justified by `AtomicFamily`) |
| `TimeWindow` | `detail/time_window_quantiles.cc` | an observation is the clock reading it came with; each round of the catch-up loop is a step and the clock ticks in between |
| `Summary` | `summary.cc` | INSTANCEs `TimeWindow`; Observe and Collect step by step |
| `Quantiles` | `detail/ckms_quantiles.cc` | sequential; the algorithm in full, in integers. A loop is a recursive function of the round |
| `ConfigFile` | the config edits of `main.cpp` | a file operation is a step, which may fail, and between any two of which the process may die; a file is a sequence of letters that its readers tell apart |
| `RecencyOrder`, `LruCache` | what a cache promises; `util/lru_cache.h` | an iterator is the node it points to, and an erased node may be allocated again. `LruCache` implements `RecencyOrder`: the order is the list, read through the map |
| `ByteQueue`, `Buffer` | what a buffer promises; `util/buffer.h` | `Buffer` implements `ByteQueue`: the queue is what lies between the indices |
| `Observers` | `pattern/observer.*` | Notify is a step per observer |
| `WorkerThreads` | testMutex, `mutex/` | `mu_num++` is a read and a write; pthread_create may fail; the join of an id never got returns, waits for ever or crashes |
| `Base64`, `Numbers`, `Substitution`, `CheckNames`, `Exposition` | `tuple/base64.h`, `util/number.cc`, `util/substitute.*`, `check_names.cc`, `text_serializer.cc` | pure functions, each beside a reference definition: decimal notation, the meaning of a format, the grammar of a name, a reader of the exposition |
| `Conversions` | | one call of `Base64`, `Numbers`, `CheckNames` or `Substitution` with an input out of any sets, its constants, and what must hold of it |
| `MCConversions` | | EXTENDS `Conversions` with calls of `Exposition`, and names the inputs for TLC |
| `MCUtilities` | | composes the modules from `ConfigFile` on; a behaviour is that of one of them |
| `MC*` otherwise | | values of the constants for TLC, one per module above |
| `CounterProofs`, `HistogramProofs`, `FamilyProofs`, `RegistryProofs`, `TimeWindowProofs`, `SummaryProofs`, `QuantilesProofs`, `UtilitiesProofs` | | theorems and their proofs; the first is about `Gauge` and `Counter`, the last about `Buffer`, `LruCache`, `Observers`, `ConfigFile`, `WorkerThreads` and `Conversions` |

State corresponds name by name: the comment beside every variable gives the member it
is. Actions are named after the function, with a suffix for a part of it (`AddFound`,
`AddThrows`, `InsertMetric`, … are Family::Add). A local of a function that lives across
steps is a variable indexed by thread. Variables marked *history* are not in the code:
they record what a property has to compare with.

Data that no property looks at is abstracted: doubles are integers, labels, names and
addresses are model values, a hash is an arbitrary function; help texts and timestamps
appear only in `Exposition`.

## 3. Runs

Every property has a mutant in `PROJECT.json`: the same run with one definition changed
as a plausible bug would change it, in which TLC finds the property violated.

| run | question | bounds and why they suffice |
|---|---|---|
| `gauge` | is the compare-and-swap loop an atomic addition, and lock-free? | 3 threads, 4 calls, amounts ±1, ±2: a thread can be overtaken twice and see the old value return |
| `counter` | can a counter go down? | 3 threads, 4 calls, a negative, a zero and a positive amount |
| `histogram` | what can a scrape see while observers move the buckets? | 2 observers, 1 scraper, 3 buckets, 3 calls, values on, between and beyond boundaries; batches with a negative increment and of the wrong size |
| `family` | do the maps, the heap and the scrapes stay consistent, also when memory runs out? | 2 threads, 4 calls, 2 good and 1 bad set of labels, 3 addresses: both threads hold an object while one is in the map, and an address comes back |
| `registry` | do racing registrations keep names apart, and what do scrapes see? | 2 threads, 3 types, 4 calls, a good and a refused name, 2 sets of constant labels, all insert behaviours |
| `time_window` | is the window what `summary.h` says? | 3 buckets, max_age 7 (not a multiple of 3), 10 ticks: a full turn of the ring |
| `summary` | what can a scrape of a summary see? | 2 threads, 2 quantiles, 2 buckets, 4 calls, 7 ticks: rotation between the quantiles of one scrape |
| `quantiles` | does the sample stay sorted, complete and honest about ranks? | 3 values, 2 targets, a buffer of 2, 10 insertions: enough for items to merge, and for batches to land between merged items |
| `utilities` | does each utility do what it is for? | the part a behaviour is about is chosen at its start. Config: 2 threads that input and 1 that makes the other edits, 3 calls, 1 crash, any of the file operations failing, 9 files at first, with and without a final newline: a crash or a failed rename leaves a backup, and two edits meet it. Cache: 3 keys and 2 values for a max_size of 2, so every put of a new key evicts. Buffer: 2 of them, of 3 and 2 bytes, whose indices reach the end and come back. 3 observers; 3 threads to create. Conversions: inputs named in `MCConversions`, chosen at the ends of the ranges the code distinguishes (all remainders of a block and its padding, both sides of every power of ten, formats of up to 4 characters, names of up to 4, families of every type with values that need escaping) |
| `quantiles_error` | is the tolerated error kept? | the code's buffer of 500; violated, see below |
| `family_assert_found`, `family_assert_same` | do the assertions in Family::Add hold? | violated, see below |

The bounds are named constants of the modules (`MaxCalls`, `MaxTime`, `MaxInserts`,
`MaxEdits`, `MaxCrashes`) and appear only in the guards of the actions that begin
something; what was begun is never cut off. Runs where all calls can be used up disable
the deadlock check, since the program may simply stop calling.

The types of `Gauge`, `Counter`, `Histogram`, `Family`, `Registry`, `TimeWindow` and
`Summary` are part of their inductive invariants and proved, so the runs do not repeat
them; `quantiles` also checks those of `Quantiles`, which say that the sample is sorted and
the buffer has room.

`histogram` and `counter` use symmetry of their threads; their only temporal properties
are properties of single steps, for which symmetry is sound. The runs with liveness use none.

### Fairness

Only steps inside a call are fair, and only weakly: a thread that has entered a function
is scheduled (`Gauge`, `Family`, `Registry`, `Summary`), the loop of rotate goes on
(`Summary`, over `TimeWindow`'s steps), and main and the threads of testMutex run
(`utilities`, where nothing else is fair). Nobody has to call anything, and the clock owes nobody a tick. Mutexes
are not assumed fair: a waiting call returns because the bound on calls makes the others
stop taking the mutex. For `Gauge`, fairness of `CasSucceed` says that
compare_exchange_weak does not fail spuriously for ever, which is all the standard lets
a program hope for; `LockFree` promises no single thread anything.

## 4. Findings

- **Tolerated error** (`quantiles_error`). `prometheus/summary.h` says the median of a
  target {0.5, 0.1} is returned with 10 percent error. After 1, 1 and six times 2, get
  returns 1: rank 2 of 8 at best. `detail/ckms_quantiles.cc:166` wants to give new
  extremes a delta of 0, but its test means the second place and the last but one; with
  a positive delta at the end, get stops early. Compiling the class and making the same
  calls gives the same answer.
- **Insertion fails half-way** (`family_assert_found`). `family.cc:88-93` inserts into
  three maps and undoes nothing if a later insertion throws. The next Add of the same
  labels meets the assertion of line 71, and every scrape throws from line 155. The
  `family` run shows what survives: the maps still nest, nothing leaks, the mutex is free.
- **Hash collisions** (`family_assert_same`). The maps are keyed by a hash of the labels;
  the assertion of line 73 that equal hashes mean equal labels fails for a collision,
  and a build without assertions hands out the other metric.

Two comments differ from the code in ways no run is spent on. `histogram.h:69` says
that two neighbouring boundaries are "interpreted as a half-open interval [b_n, b_n+1)
which defines one bucket", and `:80` that Observe chooses the bucket by it, where
`histogram.cc:54` implements (b_n, b_n+1], which is also what the exposed label `le` means
and the repository's test expects: 1 goes into the bucket that ends at 1 (`BucketIndex`,
and `InBucket`, which `NothingLost` counts by). The regular expressions in the comments of
`check_names.cc` allow names that begin with two underscores; the code refuses them, as
the comment in nameStartsValid says.

No comment or test promises that replace_skv_config keeps the contents of config.ini, so
that it can lose them is no finding, but it is so: `main.cpp:169` does not check whether
config_bak.ini could be opened, nor is what is written to it checked, and line 187
removes config.ini all the same. If the open failed, the rename fails too and the contents
are in neither file (or a backup file left behind takes their place); if the disk was
full, config.ini becomes what could be written.
`ReplaceBeginFails` and `ReplaceCopyFails` are these steps. `KeptSomewhere` says that
config.ini is in no other way gone without a complete copy: not by a crash at any point,
nor with a backup file left behind, nor by a remove or rename that fails.

## 5. Proofs

All are checked by TLAPS from the assumptions in the modules (finite threads where calls
are counted, integers, a positive rotation interval, ...), for any number of threads,
calls and values.

- **`GaugeTypeCorrect`**: types, and `calls = returned + (threads inside Change)`. The
  equation is inductive once the set of those threads is known to be finite; two lemmas
  say what joining and leaving a finite set do to its cardinality.
- **`GaugeImplementsAtomicGauge`**: each step of `Gauge` maps to a step of `AtomicGauge`
  or to a stutter. A successful compare-and-swap knows `current = value`, so what it
  stores is the present value plus the argument.
- **`CounterTypeCorrect`, `CounterNeverDecreases`**: that a step never lowers the value is
  not inductive, because the sign was checked when the call began. The invariant adds
  that only amounts that passed the check are in flight.
- **`RegistryInvariant`**, and from it `RegistryTypeCorrect`, `RegistryOneFamilyPerName`
  and `RegistryScrapeWalksStillVectors`: uniqueness of names, over all types and within
  one, is not inductive, because the family is appended after the check. `StillChecked`
  says that what a thread found out is still true while it is in between; only an append
  could falsify it, and an appender holds the mutex, which `TypeOK` gives to one thread.
  `AppendedNameIsNew` and `AppendedFamilies` then carry it over the append.
- **`RegistryHandedAsRequested`**: what a thread asked for is carried through the check and
  the append, after which families keep their place, name and labels (`FamiliesStay`), so
  that a reference handed out long ago is still to the family it was asked for.
- **`RegistryScrapeBracketed`**: `SoFar` describes a scrape under way: what was present all
  along is either collected or in a family the cursor has still to come by (`ToVisit`),
  what is collected was present at some time, and no collected family is still to come.
  Each kind of step has a lemma: the metrics come and go meanwhile, since a family's
  operations do not take the registry's mutex, and what the cursor passes by it collects.
- **`WindowInvariant`, `WindowNothingTooOld`**: the property speaks of the current bucket
  only. `BoundedByPosition` bounds the age of every bucket's observations by how many
  rotations it is from being current (`Slack`); a rotation advances `last_rotation_` by
  one interval and every bucket by one position, so the bounds move with the buckets.
- **`WindowNothingDroppedTooSoon`**: the same from the other side. `KeptByPosition` says
  that a bucket still holds whatever is younger than its position allows it to have lost;
  two more conjuncts say that an observation was made after the catch-up, so that it is
  not older than the schedule.
- **`FamilyInvariant`**, and from it `FamilyMapsAgree`, `FamilyHeapIsOwned` and
  `FamilyScrapeVisitsTheLiving`: what the maps say is false in the middle of an insertion,
  so `Adding` describes the one entry that is being inserted, which its owner, holding the
  mutex, alone may touch, and `OwnedOnce` says that its address is nobody else's. Failed
  insertions and colliding hashes are included.
- **`FamilyImplementsAtomicFamily`**: assumes that no two sets of labels share a hash. The
  insertion takes effect when the third map has the entry; the two steps before are
  stutters. `Gathered` relates what a scrape has visited to what is present, which the
  mutex keeps unchanged until it returns.
- **`HistogramInvariant`**, and from it `HistogramScrapesIncrease` and
  `HistogramScrapesNeverGoBack`: cumulative counts are sums, but the difference of two
  neighbours (`Own`) is one bucket's count at the instant it was read, and counts only
  grow. So a scrape is compared bucket by bucket with the one before. That Observe finds a
  bucket at all (`BucketFound`) is the existence of a least element, by well-founded
  induction.
- **`HistogramNothingLost`, `HistogramScrapeCumulative`**: what was asked for is what the
  counters hold and what the calls in progress have still to add (`ToAdd`), a sum over any
  finite set of observers. A step moves one unit or one batch from one observer's share to
  a counter; that a sum changes as its one changed summand does (`SumChanges`) is proved by
  removing one element of its set at a time (`ByRemoving`). So no counter exceeds what was asked for, and no scrape does.
- **`HistogramScrapeSumCoversCounts`**: assumes `FromObservations`, that observations are
  not negative and that a batch's sum is that of as many observations as its increments
  say; TLC's run satisfies it. `Covered` says that the sum is ahead of the counters by what is
  still to reach them, because a call adds to the sum first. What a scrape has read so far
  is worth no more than the counters, and it reads the sum last.
- **`SummaryInvariant`**, and from it `SummaryScrapeOfWholeObservations`,
  `SummaryScrapeWindowsShrink` and `SummaryScrapeFresh`: `WindowRuns` shows that the
  variables of the window behave as `TimeWindow` specifies, so its theorems are used here
  instead of proved again. The invariant adds that outside of Observe the three parts are
  of the same observations (`Whole`), that the bucket to become current next holds no more
  than the current one (`Nested`), and what a scrape in progress has got so far.
- **`QuantilesTypeCorrect`, `QuantilesWeightsAddUp`, `QuantilesRankNotOverstated`,
  `QuantilesGreatestKept`**: `Good` relates the sample to the values it took in, given as
  how many of them are not above each value: it is sorted, its weights add up to their
  number, no partial weight is above the number of values up to the item, and the last
  item has all of them up to it. An insertion keeps it (`InsertNextKeeps`), because where a
  round begins its search everything before is not above the value (`PlaceIsRight`; that
  is what sorting the buffer is for, `InOrderIs`), and so does a merge (`MergeKeeps`), which
  moves weight up only. The loops carry it over their rounds by induction in the form of a
  set of numbers (`UpTo`); that the recursive function behind a loop exists is
  `RoundsExist`. What was inserted is a set of pairs (`Insertions`), so that counting it
  is counting a finite set. How far ranks are understated, which is what the tolerated
  error is about, is not kept within its bound (section 4), so there is nothing to prove.
- **`BufferIsByteQueue`**: the indices stay in order and within the buffer, and each
  operation of `Buffer` does to what lies between them what that of `ByteQueue` does to
  the queue.
- **`LruIsRecencyOrder`**: `Fits` says what list, nodes and map are to each other: the list
  names each node once, and the map leads from a key to the node of its entry and to no
  other. `ErasedFits`, `PushedFits` and `PoppedFits` say that `Fits` is kept and what
  becomes of the order. An erased node may be the one allocated
  next: it is free because no other entry of list or map names it.
- **`ObserversNotifyShowsAttachedOnce`**: the list holds exactly the attached observers,
  each once, and those before Notify's iterator have shown the present state. `Removed`
  is a recursive function; that it exists and keeps the others is shown by induction over
  its length, in the form of a set of numbers (`UpTo`).
- **`ConfigKeptSomewhere`**: before config.ini is removed it is still as it was opened and
  the backup file ends with its copy (`EditorHas`), whatever was left in the backup file
  before, unless the copy could not be opened or written (`failed`, a history variable no
  action reads); from the removal on the backup file is not touched until it is renamed,
  and if the rename fails it stays.
- **`ConfigInputOnce`**: a thread holds the mutex from its look at the file to its append
  and no other edit is in progress (`InputAlone`), so what it saw is what it appends to.
- **`ConfigEditsExact`**: `EditorExact` says what an edit works on, unless `failed`:
  deal_skv_config has cut what it opened where the scan found the last line (`CutExact`:
  if that is complete, the lines before it are left), and as long as no backup file was
  left behind, there is none but the copy. That a copy of a copy is the copy (`CopyAgain`) goes from the last
  line back to the first (`KeptOn`): what is written for a line is found again as one line
  (`LineThere`) and, with the host's line behind the clusters' header, written again
  (`LastWritten`, `LineWritten`, `HeaderWritten`). It takes hosts to be without newlines.
- **`WorkerPrintedAll`**: `mu_num` is the number of threads that have written
  (`Counted`), a thread about to write has seen the present value, and a thread that was
  joined is over.

- **`ConversionsRoundTrip`**: `Needed` says how many characters an encoding has before its
  padding, and `LengthsFit` that EncodedLength and DecodedLength, with their different
  roundings, make just the room for it. A character stands for the six bits it was made of
  (`LookedUp`, which looks at each range of the alphabet), and a block of four for its three
  bytes (`FirstByte`, `SecondByte`, `ThirdByte`). `DecodesTo` puts this together for a text
  with or without its padding; the absent characters of a last block decode to bytes that
  are not written. `RoomIsFilled` is the same for characters nobody encoded.
- **`ConversionsWrittenInDecimal`**: a number below 10^8 is what its eight digits stand for
  (`DigitsAdd`); from then on the digits are the unknowns, and what each label writes is a
  tuple of them (`DigitsWritten`). `BranchesWrite` does the same for the branches that begin
  with a single digit, and `DecimalIs` says which text the decimal notation is: the digits
  from the first one that is not zero on.
- **`ConversionsNamesChecked`**: `FirstAndRest`, for any sets of letters and other
  characters that have no digit among them. Of the reserved names `TwoUnderscores` says
  what the comparison of a substring means.
- **`ConversionsSubstituteMeansIt`**: what each pass does from a position on depends only on
  later positions (`SizesExist`, `RestsExist`), so both are followed from the end of the
  format back to its beginning: what the second writes is as long as the first counted, or
  the first has found an error (`BothFit`). In a format that is written by its rules each
  token stands behind those before it (`PieceStands`), both passes take its value and go on
  behind it (`TokenScanned`), and `ChainedAll` and `ChainedMissing` put the tokens together.
  `HexIs` is about the loop for pointers, `ArgumentIs` about every type of argument. It takes
  the ten digits to be ten characters other than the sign, and addresses to have up to eight
  digits (`Unit16`). That literal characters are strings is assumed in
  `SubstitutionAssumption`, since the prover has no rule for it.

Only model-checked:

- all liveness (`LockFree`, `CallsReturn`, `MainPrints`), which the prover cannot do under
  fairness;
- `ExpositionReadsBack`: that two series are written differently rests on numbers being
  printed differently, and of that ToString's definition says nothing.

## 6. Not modelled

Rounding and overflow of doubles: the models add integers. The bits of the label hash:
any function, with and without collisions, is enough for what Family does with it. The
composition of `TimeWindow` with `Quantiles`: a bucket is the set of its observations, so
the window's properties are about which observations an estimate is made of, and those of
`Quantiles` about how good the estimate is. Console output and the timing printouts.

- References kept by callers: to a metric that was removed, or to a value that a cache
  evicted (`get` returns a reference, and `put` erases the old entry before it reads its
  arguments). No code here could detect it and nothing in the repository does it.
- An age shorter than its number of buckets, which makes the rotation interval 0 and the
  loop of rotate endless: excluded by an assumption, as no caller configures it.
- Reads of config.ini that fail once it is open: the loops of `main.cpp` wait for the end
  of the file, which then never comes. Of a write that fails the model keeps whole lines,
  where a full disk can cut one off anywhere; no property is about such a line.
- `Buffer::makeSpace`, which has no body: append is modelled up to the room there is.
- The digits of numbers in the exposition, and the stream's locale and precision: numbers
  print differently if they differ. With one digit less than a double needs, the code can
  print two neighbouring doubles alike.
- A help text of several lines, which the code does not escape, and families or labels
  whose names collide with the suffixes and labels the exposition adds: excluded from
  what `ExpositionReadsBack` promises.
- Texts without any character but padding, which Base64's decoder reads before their start;
  the missing return of `count` in `main.cpp`: undefined, with no outcome to model.
- The edits that take no mutex (deal and replace) in several threads at once: nothing in
  the repository calls them so, and no property of an edit would hold.
- The lifetimes of subject and observers, which hold each other by shared_ptr.
- `RefCounted`, a fragment nothing uses; `WinnerTree`, whose operations have no body but
  one; the template and scope exit helpers, without a state of their own; and the
  demonstrations in `main.cpp`, which print what language features do.

## 7. Plan

The plan's modules are written. What would add most from here is a run that composes
`Registry` with `Family` for the lock order, in place of the step that now stands for a
family's operation.

## 8. Running

    tlc -config MCGauge.cfg MCGauge        # and so on, cfg and module as PROJECT.json pairs them
    tlapm CounterProofs.tla
