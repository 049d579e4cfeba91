----------------------------- MODULE Exposition ------------------------------
(***************************************************************************)
(* prometheus/text_serializer.cc with the records of client_metric.h and   *)
(* metric_family.h.  Text is a sequence of tokens: the characters that     *)
(* have a meaning to a reader, names, and numbers, whose digits are left   *)
(* out.  A line is kept in two parts, its head and the rest.               *)
(***************************************************************************)
EXTENDS Integers, Sequences, SequencesExt

CONSTANTS Infinity, NotANumber   \* integers that stand for these

LineFeed == "\n"
Quote == "\""
Backslash == "\\"

(* A metric of any type: value is that of its counter, gauge or untyped    *)
(* member, the rest those of its summary and histogram.                    *)
ClientMetric == [label : Seq([name : STRING, value : Seq(STRING)]),
                 value : Int, sample_count : Nat, sample_sum : Int,
                 quantile : Seq([quantile : Int, value : Int]),
                 bucket : Seq([cumulative_count : Nat, upper_bound : Int]),
                 timestamp_ms : Int]

MetricFamily == [name : Seq(STRING), help : Seq(STRING),
                 type : {"counter", "gauge", "summary", "untyped", "histogram"},
                 metric : Seq(ClientMetric)]

WriteValue(value) == CASE value = NotANumber -> <<"Nan">>
                       [] value = Infinity   -> <<"+Inf">>
                       [] value = -Infinity  -> <<"-Inf">>
                       [] OTHER              -> <<ToString(value)>>

BackslashKept(c) ==   \* mutant of Escaped: a backslash is copied
  CASE c = LineFeed -> <<Backslash, "n">> [] c = Quote -> <<Backslash, c>> [] OTHER -> <<c>>
LineFeedKept(c) ==   \* mutant of Escaped: a newline is copied
  CASE c \in {Quote, Backslash} -> <<Backslash, c>> [] OTHER -> <<c>>
Escaped(c) ==
  CASE c = LineFeed              -> <<Backslash, "n">>
    [] c \in {Quote, Backslash} -> <<Backslash, c>>
    [] OTHER                    -> <<c>>

Text(pieces) == FlattenSeq(pieces)

WriteString(value) == Text([i \in 1..Len(value) |-> Escaped(value[i])])

Label(name, text) == <<name, "=", Quote>> \o text \o <<Quote>>

NoExtra == <<>>

(* extra is the le or quantile label, if there is one. *)
WriteHead(family, metric, suffix, extra) ==
  LET Own(i) == Label(metric.label[i].name, WriteString(metric.label[i].value))
      labels == [i \in 1..Len(metric.label) |-> Own(i)] \o extra
      Separated(i) == (IF i = 1 THEN <<>> ELSE <<",">>) \o labels[i]
  IN  family.name \o suffix
      \o (IF labels = <<>> THEN <<>>
          ELSE <<"{">> \o Text([i \in 1..Len(labels) |-> Separated(i)]) \o <<"}">>)
      \o <<" ">>

WriteTail(metric) ==
  (IF metric.timestamp_ms # 0 THEN <<" ", ToString(metric.timestamp_ms)>> ELSE <<>>) \o <<LineFeed>>

Line(head, value, metric) == [head |-> head, rest |-> WriteValue(value) \o WriteTail(metric)]

SerializeValue(family, metric) ==
  <<Line(WriteHead(family, metric, <<>>, NoExtra), metric.value, metric)>>

CountAndSum(family, metric) ==
  <<Line(WriteHead(family, metric, <<"_count">>, NoExtra), metric.sample_count, metric),
    Line(WriteHead(family, metric, <<"_sum">>, NoExtra), metric.sample_sum, metric)>>

SerializeSummary(family, metric) ==
  CountAndSum(family, metric) \o
  [i \in 1..Len(metric.quantile) |->
     LET q == metric.quantile[i]
     IN  Line(WriteHead(family, metric, <<>>, <<Label("quantile", WriteValue(q.quantile))>>), q.value, metric)]

BucketLine(family, metric, upper_bound, count) ==
  Line(WriteHead(family, metric, <<"_bucket">>, <<Label("le", WriteValue(upper_bound))>>), count, metric)

AlwaysMissing(bucket) == TRUE   \* mutant of InfinityMissing: the bucket is written once more
InfinityMissing(bucket) == bucket = <<>> \/ Last(bucket).upper_bound # Infinity

SerializeHistogram(family, metric) ==
  CountAndSum(family, metric) \o
  [i \in 1..Len(metric.bucket) |->
     BucketLine(family, metric, metric.bucket[i].upper_bound, metric.bucket[i].cumulative_count)] \o
  (IF InfinityMissing(metric.bucket) THEN <<BucketLine(family, metric, Infinity, metric.sample_count)>>
   ELSE <<>>)

SerializeFamily(family) ==
  LET Comment(word, text) == [head |-> <<"# ", word, " ">> \o family.name \o <<" ">>,
                              rest |-> text \o <<LineFeed>>]
      Serialized(metric) == CASE family.type = "summary"   -> SerializeSummary(family, metric)
                              [] family.type = "histogram" -> SerializeHistogram(family, metric)
                              [] OTHER                     -> SerializeValue(family, metric)
  IN  (IF family.help = <<>> THEN <<>> ELSE <<Comment("HELP", family.help)>>)
      \o <<Comment("TYPE", <<family.type>>)>>
      \o Text([i \in 1..Len(family.metric) |-> Serialized(family.metric[i])])

Serialize(metrics) == Text([i \in 1..Len(metrics) |-> SerializeFamily(metrics[i])])

------------------------------------------------------------------------------

Newlines(text) == Len(SelectSeq(text, LAMBDA c : c = LineFeed))

(* No line of the text is cut in two by what a label's value holds, as     *)
(* long as the help text is a single line: that is written as it is.       *)
LinesStayWhole(metrics) ==
  LET lines == Serialize(metrics)
  IN  (\A i \in 1..Len(metrics) : Newlines(metrics[i].help) = 0) =>
        Newlines(Text([i \in 1..Len(lines) |-> lines[i].head \o lines[i].rest])) = Len(lines)

(* A reader tells all series apart: no head of a line is that of another,  *)
(* or begins like it, if names differ and metrics of one name have         *)
(* different labels, whatever characters their values are made of.         *)
SeriesDiffer(metrics) ==
  LET lines == Serialize(metrics)
  IN  \A i, j \in 1..Len(lines) : i # j => ~IsPrefix(lines[i].head, lines[j].head)

(* A histogram that has a bucket for everything, or none for it, is        *)
(* written with that bucket once, after all others, and its count is the   *)
(* one in the _count line.                                                 *)
InfinityOnce(family, metric) ==
  LET lines == SerializeHistogram(family, metric)
      inf   == BucketLine(family, metric, Infinity, metric.sample_count)
  IN  /\ {i \in 1..Len(lines) : lines[i].head = inf.head} = {Len(lines)}
      /\ lines[Len(lines)].rest = lines[1].rest
==============================================================================
