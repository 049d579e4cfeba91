--------------------------- MODULE MCConversions ----------------------------
(***************************************************************************)
(* The inputs of the conversions that are checked, and one call of the     *)
(* serializer, which keeps nothing between calls either.                   *)
(***************************************************************************)
EXTENDS Conversions, Exposition, FiniteSetsExt

Upto(n, S) == UNION {[1..k -> S] : k \in 0..n}

(* Blocks of every length over bytes at the ends of the bit fields, and    *)
(* texts of two blocks.                                                    *)
MCTexts == (Upto(3, {0, 3, 4, 63, 64, 77, 192, 255}) \cup Upto(6, {15, 240})) \ {<<>>}

(* Characters at the ends of the ranges of b64_lookup, and outside them.   *)
MCSymbols64 == (Upto(3, {0, 43, 47, 48, 57, 65, 90, 97, 122, 255}) \cup Upto(8, {66, 122})) \ {<<>>}

(* The powers of ten and their neighbours, numbers with zeros inside, and  *)
(* the ends of the 32-bit ranges.                                          *)
Around(n) == {n - 1, n, n + 1, 2 * n} \cap 0..99999999

Low == UNION {Around(10^k) : k \in 0..8} \cup {0, 90, 305, 7008, 99099, 10000001, 12345678}

MCNumbers32 == {[hi |-> hi, lo |-> lo] : hi \in {0, 1, 5, 9, 10, 11, 20, 41}, lo \in Low}
  \cup {[hi |-> 21, lo |-> lo] : lo \in {47483646, 47483647, 47483648, 47483649}}
  \cup {[hi |-> 42, lo |-> lo] : lo \in {94967294, 94967295}}

MCNameInputs == Upto(4, {"a", "Z", "5", "_", ":", "-"})

(* The first n arguments are given.  *)
Arguments(n) == [k \in 0..9 |-> IF k < n THEN [j \in 1..(k % 3) |-> "x"] ELSE NoArg]

MCArgumentLists == {Arguments(n) : n \in {0, 1, 2, 6}}

MCFormats == Upto(4, {Dollar, "0", "1", "5", "x"})

MCTokenLists == Upto(3, {<<"literal", c>> : c \in {Dollar, "1", "x"}} \cup {<<"argument", k>> : k \in {0, 1, 2, 3, 5, 9}})

ValueOf == [k \in 0..9 |->
  CASE k = 0 -> [type |-> "int", negative |-> TRUE, magnitude |-> INT32_MIN]
    [] k = 1 -> [type |-> "text", text |-> <<Dollar, "1">>]
    [] k = 2 -> [type |-> "pointer", address |-> 16 * 255]
    [] k = 3 -> [type |-> "null"]
    [] k = 4 -> [type |-> "pointer", address |-> 0]
    [] k = 5 -> [type |-> "char", char |-> Dollar]
    [] OTHER -> [type |-> "uint", negative |-> FALSE, magnitude |-> [hi |-> 42, lo |-> 94967295]]]

MCValueLists == {[k \in 0..(n - 1) |-> ValueOf[k]] : n \in {0, 1, 4, 6, 10}}

------------------------------------------------------------------------------

MCDigits == <<"0", "1", "2", "3", "4", "5", "6", "7", "8", "9">>

LabelValues == {<<>>, <<"n">>, <<LineFeed>>, <<Backslash>>, <<Backslash, "n">>, <<Quote, ",", "b", "=", Quote>>}

Metric(label, bucket, count) ==
  [label |-> label, value |-> 7, sample_count |-> count, sample_sum |-> Infinity,
   quantile |-> <<[quantile |-> 2, value |-> NotANumber], [quantile |-> 5, value |-> -Infinity]>>,
   bucket |-> bucket, timestamp_ms |-> count]

(* The labels of two metrics, each with up to two labels.                  *)
LabelLists == {<<>>} \cup {<<[name |-> n, value |-> v]>> : n \in {"a", "b"}, v \in LabelValues}
  \cup {<<[name |-> "a", value |-> v], [name |-> "b", value |-> w]>> : v, w \in LabelValues}

MCFamilies(first, second, help) ==
  [i \in 1..5 |->
     [name |-> <<"family", ToString(i)>>, help |-> help,
      type |-> <<"counter", "gauge", "summary", "untyped", "histogram">>[i],
      metric |-> <<Metric(first, <<[cumulative_count |-> 1, upper_bound |-> 4]>>, 2),
                   Metric(second, <<>>, 0)>>]]

ASSUME LET labels == [name |-> "a", value |-> <<Quote>>]
           families == MCFamilies(<<labels>>, <<>>, <<"help">>)
       IN  \A i \in 1..5 : families[i] \in MetricFamily

(* What Histogram::Collect makes of the counts of its buckets: cumulative  *)
(* counts up to each of the bounds, and the last up to infinity.           *)
Collected(bounds, counts) ==
  LET Cumulative(i) == FoldFunctionOnSet(LAMBDA m, n : m + n, 0, counts, 1..i)
  IN  Metric(<<>>, [i \in 1..Len(counts) |->
                      [cumulative_count |-> Cumulative(i),
                       upper_bound |-> IF i <= Len(bounds) THEN bounds[i] ELSE Infinity]],
             Cumulative(Len(counts)))

Histograms == {Collected(SubSeq(<<-1, 4>>, 1, Len(counts) - 1), counts) : counts \in Upto(3, 0..3) \ {<<>>}}

WithoutInfinity == {Metric(<<>>, <<>>, 2), Metric(<<>>, <<[cumulative_count |-> 1, upper_bound |-> 4]>>, 2)}

(* A scrape can be read line by line whatever the label values hold: no    *)
(* value breaks a line, two series that differ are written differently,    *)
(* and a histogram has exactly one bucket for infinity.                    *)
ExpositionReadsBack ==
  /\ Is("scrape") => LET families == MCFamilies(call[2], call[3], call[4])
                     IN  LinesStayWhole(families) /\ SeriesDiffer(families)
  /\ Is("histogram") => InfinityOnce([name |-> <<"family">>], call[2])

------------------------------------------------------------------------------

Scraping == \E first \in LabelLists, second \in LabelLists, help \in {<<>>, <<"h">>} :
              first # second /\ call' = <<"scrape", first, second, help>>
Exposing == \E metric \in Histograms \cup WithoutInfinity : call' = <<"histogram", metric>>

(* One call, and then nothing. *)
MCConvNext == \/ ConvNext
              \/ Is("nothing") /\ (Scraping \/ Exposing)
==============================================================================
