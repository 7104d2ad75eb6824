----------------------------- MODULE Histogram ------------------------------
(***************************************************************************)
(* utils/histogram.cc and its use by ycsbc.cc: every worker of a phase     *)
(* AddFast()s the latency of its operations to a histogram of its own,     *)
(* main merges them into histograms[0] and prints the percentiles.         *)
(*                                                                         *)
(* Latencies are doubles (microseconds, in nanosecond steps).  Here they   *)
(* are integers in units of 1/Scale microsecond, so that fractions exist,  *)
(* and the arithmetic is that of the rationals: rounding is not modelled,  *)
(* and with it StandardDeviation(), whose result depends on it.            *)
(* The clock may be set back, so latencies may be negative.                *)
(*                                                                         *)
(* Huge stands for 1e200, which is above every latency.                    *)
(***************************************************************************)
EXTENDS Integers, SequencesExt

CONSTANTS
  NumHistograms,  \* workers of a phase
  Decades,        \* powers of ten the buckets span (9 in the code)
  Scale,          \* units per microsecond
  Huge,           \* the limit of the last bucket, 1e200 in the code
  Values,         \* latencies that occur, in units
  MaxAdds         \* bound: operations of one worker

Power10[n \in Nat] == IF n = 0 THEN 1 ELSE 10 * Power10[n - 1]

ASSUME HistogramAssumption ==
  /\ NumHistograms \in Nat \ {0}
  /\ Decades \in Nat \ {0} /\ Scale \in Nat \ {0} /\ MaxAdds \in Nat
  /\ Values \subseteq Int
  /\ \A v \in Values : v < 1000 * Scale * Power10[Decades]
  /\ Huge \in Nat /\ Huge >= 1000 * Scale * Power10[Decades]

kNumBuckets == 10 + 16 * Decades
Buckets == 0 .. kNumBuckets - 1

(* The limits of one decade, and the table they are repeated in.           *)
DecadeLimit ==
  <<12, 14, 16, 18, 20, 25, 30, 35, 40, 45, 50, 60, 70, 80, 90, 100>>

kBucketLimit[b \in Buckets] ==
  CASE b = kNumBuckets - 1 -> Huge
    [] b < 10 /\ b < kNumBuckets - 1 -> (b + 1) * Scale
    [] OTHER -> DecadeLimit[((b - 10) % 16) + 1] * (Power10[(b - 10) \div 16] * Scale)

-----------------------------------------------------------------------------
(* Where a latency is counted *)

(***************************************************************************)
(* Add(): the linear search for the first limit above the value.  Only     *)
(* AddFast is called; Add is the reference for it.                         *)
(***************************************************************************)
AddPos(value) ==
  Min({ b \in Buckets : b = kNumBuckets - 1 \/ kBucketLimit[b] > value })

(* b /= 10 while b >= 100: how many times for this value.                  *)
Shifts(value) ==
  Min({ n \in 0 .. Decades + 1 : value < 100 * (Power10[n] * Scale) })

(***************************************************************************)
(* AddFast(): the position is computed, with b = value / u in [10, 100)    *)
(* for u = 10^n units and the quotients truncated by the conversion to     *)
(* int.                                                                    *)
(***************************************************************************)
ComputedPos(value, n, u) ==
  CASE value >= 0 /\ value < 10 * Scale -> value \div Scale
    [] value >= 10 * u /\ value < 20 * u ->
         16 * n + 10 + (value - 10 * u) \div (2 * u)
    [] value >= 20 * u /\ value < 50 * u ->
         16 * n + 15 + (value - 20 * u) \div (5 * u)
    [] value >= 50 * u /\ value < 100 * u ->
         16 * n + 21 + (value - 50 * u) \div (10 * u)
    [] OTHER -> 0

AddFastPos(value) ==
  LET n == Shifts(value)
  IN  Min({ComputedPos(value, n, Power10[n] * Scale), kNumBuckets - 1})

-----------------------------------------------------------------------------
(* A histogram object and its operations *)

Clear ==
  [min |-> Huge, max |-> 0, num |-> 0, sum |-> 0, sum_squares |-> 0,
   buckets |-> [b \in Buckets |-> 0]]

AddFast(h, value) ==
  [min |-> Min({h.min, value}),
   max |-> Max({h.max, value}),
   num |-> h.num + 1,
   sum |-> h.sum + value,
   sum_squares |-> h.sum_squares + value * value,
   buckets |-> [h.buckets EXCEPT ![AddFastPos(value)] = @ + 1]]

(* mutant: num_ is subtracted *)
Merge_Subtract(h, other) == [h EXCEPT !.num = @ - other.num]

Merge(h, other) ==
  [min |-> Min({h.min, other.min}),
   max |-> Max({h.max, other.max}),
   num |-> h.num + other.num,
   sum |-> h.sum + other.sum,
   sum_squares |-> h.sum_squares + other.sum_squares,
   buckets |-> [b \in Buckets |-> h.buckets[b] + other.buckets[b]]]

(* A double: a rational number of units, or not a number.                  *)
Num(n, d) == [nan |-> FALSE, n |-> n, d |-> d]
NaN == [nan |-> TRUE, n |-> 0, d |-> 1]

(* a <= b on doubles; any comparison with NaN is false.                    *)
Leq(a, b) == ~ a.nan /\ ~ b.nan /\ a.n * b.d <= b.n * a.d

(* sum of the loop of Percentile after bucket b.                           *)
CountUpTo(h) ==
  LET sum[b \in Buckets] ==
        h.buckets[b] + IF b = 0 THEN 0 ELSE sum[b - 1]
  IN  sum

(* mutant: the upper bound is forgotten *)
Clamp_NoMax(h, r) ==
  IF ~ r.nan /\ r.n < h.min * r.d THEN Num(h.min, 1) ELSE r

(* r clamped to [min_, max_] by two comparisons, which NaN passes.         *)
Clamp(h, r) ==
  CASE ~ r.nan /\ r.n < h.min * r.d -> Num(h.min, 1)
    [] ~ r.nan /\ r.n > h.max * r.d -> Num(h.max, 1)
    [] OTHER -> r

(***************************************************************************)
(* Percentile(p) for p = 100 * n / d: the first bucket at which the count  *)
(* reaches the threshold num_ * n / d, scaled linearly within it.  An      *)
(* empty bucket there makes the division 0/0.                              *)
(***************************************************************************)
Percentile(h, n, d) ==
  LET sum == CountUpTo(h)
      hits == { b \in Buckets : d * sum[b] >= h.num * n }
      b == Min(hits)
      left_point == IF b = 0 THEN 0 ELSE kBucketLimit[b - 1]
      right_point == kBucketLimit[b]
      left_sum == sum[b] - h.buckets[b]
  IN  CASE hits = {} -> Num(h.max, 1)
        [] hits # {} /\ h.buckets[b] = 0 -> Clamp(h, NaN)
        [] OTHER ->
             Clamp(h, Num(left_point * d * h.buckets[b]
                            + (right_point - left_point)
                                * (h.num * n - d * left_sum),
                          d * h.buckets[b]))

-----------------------------------------------------------------------------
VARIABLES
  histograms,  \* the histogram of each worker, histograms[0] the merged one
  merged,      \* next index of the merge loop, 0 while workers run
  added        \* history: the latencies each worker has measured

vars == <<histograms, merged, added>>

Indices == 0 .. NumHistograms - 1

Init ==
  /\ histograms = [i \in Indices |-> Clear]
  /\ merged = 0
  /\ added = [i \in Indices |-> << >>]

(* his->AddFast(duration) at the end of a worker's turn.                   *)
Record(i, value) ==
  /\ merged = 0
  /\ Len(added[i]) < MaxAdds
  /\ histograms' = [histograms EXCEPT ![i] = AddFast(@, value)]
  /\ added' = [added EXCEPT ![i] = Append(@, value)]
  /\ UNCHANGED merged

(* All futures are joined; the loop starts at i = 1.                       *)
JoinAll ==
  /\ merged = 0
  /\ merged' = 1
  /\ UNCHANGED <<histograms, added>>

MergeNext ==
  /\ merged \in 1 .. NumHistograms - 1
  /\ histograms' = [histograms EXCEPT ![0] = Merge(@, histograms[merged])]
  /\ merged' = merged + 1
  /\ UNCHANGED added

(* mutant: the histogram of worker 0 is used again *)
NextPhase_KeepFirst ==
  /\ merged = NumHistograms
  /\ histograms' = [i \in Indices |-> IF i = 0 THEN histograms[0] ELSE Clear]
  /\ added' = [i \in Indices |-> << >>]
  /\ merged' = 0

(* The report is printed; the next phase makes new histograms.             *)
NextPhase ==
  /\ merged = NumHistograms
  /\ histograms' = [i \in Indices |-> Clear]
  /\ added' = [i \in Indices |-> << >>]
  /\ merged' = 0

Next ==
  \/ \E i \in Indices, v \in Values : Record(i, v)
  \/ JoinAll \/ MergeNext \/ NextPhase

Spec == Init /\ [][Next]_vars

-----------------------------------------------------------------------------
(* Properties *)

HistogramObject ==
  [min : Int, max : Int, num : Nat, sum : Int, sum_squares : Int,
   buckets : [Buckets -> Nat]]

(* Histogram fields are what they stand for.                               *)
TypeOK ==
  /\ merged \in 0 .. NumHistograms
  /\ histograms \in [Indices -> HistogramObject]
  /\ added \in [Indices -> Seq(Values)]
  /\ \A i \in Indices : Len(added[i]) <= MaxAdds

(* The partial sums of a list, and its sum.                                *)
Sums(s) ==
  LET sum[k \in 0 .. Len(s)] == IF k = 0 THEN 0 ELSE sum[k - 1] + s[k]
  IN  sum

Total(s) == Sums(s)[Len(s)]

Squares(s) == [i \in DOMAIN s |-> s[i] * s[i]]

(* The limits of bucket b are around the value; the first bucket has no    *)
(* lower limit and the last no upper one.                                  *)
Within(b, value) ==
  /\ b = 0 \/ kBucketLimit[b - 1] <= value
  /\ b = kNumBuckets - 1 \/ value < kBucketLimit[b]

(* The histogram that a list of latencies should give.                     *)
HistogramOf(s) ==
  [min |-> Min(Range(s) \cup {Huge}), max |-> Max(Range(s) \cup {0}),
   num |-> Len(s), sum |-> Total(s), sum_squares |-> Total(Squares(s)),
   buckets |-> [b \in Buckets |->
                  Cardinality({ i \in DOMAIN s : Within(b, s[i]) })]]

(* The latencies of the workers 0 .. i, one worker after the other.        *)
Joined(lists) ==
  LET upto[i \in Indices] ==
        IF i = 0 THEN lists[0] ELSE upto[i - 1] \o lists[i]
  IN  upto

(* The latencies of the workers whose histograms are in histograms[0].     *)
MergedValues == Joined(added)[IF merged = 0 THEN 0 ELSE merged - 1]

(***************************************************************************)
(* What AddFast computes is what the table of limits says, for every       *)
(* latency and in every order, and merging loses and invents nothing:      *)
(* histograms[0] is the histogram of all the latencies merged so far.      *)
(***************************************************************************)
MergedIsHistogramOfAll ==
  /\ histograms[0] = HistogramOf(MergedValues)
  /\ \A i \in Indices \ {0} : histograms[i] = HistogramOf(added[i])

(***************************************************************************)
(* The line "Min Median Max P95 P99 P99.9" of a report of at least one     *)
(* operation holds numbers, in order.                                      *)
(***************************************************************************)
PercentilesAreOrdered ==
  LET h == histograms[0]
      median == Percentile(h, 1, 2)
      p95 == Percentile(h, 19, 20)
      p99 == Percentile(h, 99, 100)
      p999 == Percentile(h, 999, 1000)
  IN  h.num > 0 =>
        /\ Leq(Num(h.min, 1), median)
        /\ Leq(median, p95) /\ Leq(p95, p99) /\ Leq(p99, p999)
        /\ Leq(p999, Num(h.max, 1))
=============================================================================
