---------------------------- MODULE LatencyStats -----------------------------
(***************************************************************************)
(* LatencyStats of include/pipeline/tick_to_trade.hpp, the percentile of   *)
(* tools/itch_analysis.hpp and DiscreteEngine::cycles_to_ns_e4, which turn *)
(* the latencies of the completed messages into the report.  No result     *)
(* depends on the order of the samples, so they are a function from        *)
(* latencies to the number of messages that had them.                      *)
(***************************************************************************)
EXTENDS Integers, FiniteSets, FiniteSetsExt

CONSTANTS Latencies,     \* the latencies that may occur, in cycles
          MaxSamples,    \* bound on the samples
          StackRoom      \* SyntheticItchStream::message_count; 256 in the code

ASSUME StatsAssumption ==
  /\ Latencies \subseteq Nat /\ IsFiniteSet(Latencies)
  /\ MaxSamples \in Nat /\ StackRoom \in Nat

VARIABLE samples         \* latency_[0 .. completed_ - 1]

Number(s) == MapThenSumSet(LAMBDA v : s[v], DOMAIN s)
UpTo(s, v) == MapThenSumSet(LAMBDA w : s[w], {w \in DOMAIN s : w <= v})

\* scratch[k - 1] after std::sort
Sorted(s, k) == Min({v \in DOMAIN s : UpTo(s, v) >= k})

\* The place of a percentile among n sorted samples, counted from 1.
\* Mutant: rounded down.
RankDown(p, n) == (p * n) \div 100 + 1

Rank(p, n) == (p * n + 99) \div 100

HistogramBins == 32
BinWidth == 2

\* The bin of a sample; the last collects the overflow.
Bin(v) == IF v \div BinWidth >= HistogramBins THEN HistogramBins - 1 ELSE v \div BinWidth

Histogram(s) ==
  [b \in 0 .. HistogramBins - 1 |->
     MapThenSumSet(LAMBDA v : s[v], {v \in DOMAIN s : Bin(v) = b})]

NoStats == [count |-> 0, min |-> 0, median |-> 0, p99 |-> 0, max |-> 0,
            histogram |-> [b \in 0 .. HistogramBins - 1 |-> 0]]

\* compute_with
ComputeWith(s) ==
  LET n == Number(s) IN
  IF n = 0 THEN NoStats
    ELSE [count |-> n, min |-> Sorted(s, 1), max |-> Sorted(s, n),
          median |-> Sorted(s, Rank(50, n)), p99 |-> Sorted(s, Rank(99, n)),
          histogram |-> Histogram(s)]

\* compute, with an array on the stack for StackRoom samples.
Compute(s) == IF Number(s) > StackRoom THEN NoStats ELSE ComputeWith(s)

\* The tool's percentile, of any number of values.
Percentile(s, p) == IF Number(s) = 0 THEN 0 ELSE Sorted(s, Rank(p, Number(s)))

\* cycles_to_ns_e4: cycles of 512/165 ns in units of 1/10000 ns.
CyclesToNsE4(cycles) == (cycles * 512 * 10000 + 165 \div 2) \div 165

StatsInit == samples = [v \in Latencies |-> 0]

\* post_decision records the latency of one more message.
RecordLatency(v) ==
  /\ Number(samples) < MaxSamples
  /\ samples' = [samples EXCEPT ![v] = @ + 1]

StatsNext == \E v \in Latencies : RecordLatency(v)

StatsSpec == StatsInit /\ [][StatsNext]_samples

------------------------------------------------------------------------------
\* v is the p-th percentile by nearest rank: the least sample that at least
\* p of a hundred samples do not exceed.
IsNearestRank(v, p) ==
  /\ samples[v] > 0
  /\ 100 * UpTo(samples, v) >= p * Number(samples)
  /\ \A w \in Latencies : w < v => 100 * UpTo(samples, w) < p * Number(samples)

\* The percentiles of the report are the nearest-rank ones its comment
\* promises, for every number of samples up to past a hundred, where p99 first
\* differs from the maximum, and for every distribution; with no sample
\* nothing is read, and more samples than the array on the stack holds are not
\* sorted in it.  The replay tool's own percentile keeps the same convention.
PercentilesAreNearestRank ==
  LET n == Number(samples)
      stats == Compute(samples) IN
  IF n \in 1 .. StackRoom
    THEN /\ IsNearestRank(stats.median, 50) /\ IsNearestRank(stats.p99, 99)
         /\ samples[stats.min] > 0 /\ UpTo(samples, stats.min) = samples[stats.min]
         /\ UpTo(samples, stats.max) = n
    ELSE /\ stats = NoStats
         /\ n > 0 => \A p \in {50, 99} : IsNearestRank(Percentile(samples, p), p)

\* Every sample is counted in one bin, the one whose printed range it lies in
\* or, from the start of its range on, the last ("last bin includes overflow").
HistogramComplete ==
  LET h == ComputeWith(samples).histogram
      low(b) == b * BinWidth
      within(b) == {v \in Latencies : v >= low(b)
                                        /\ (b < HistogramBins - 1 => v < low(b + 1))} IN
  /\ \A b \in DOMAIN h : h[b] = MapThenSumSet(LAMBDA v : samples[v], within(b))
  /\ MapThenSumSet(LAMBDA b : h[b], DOMAIN h) = Number(samples)

\* The nanoseconds printed for a statistic are the exact value rounded to the
\* nearest unit of the last decimal.
NsRounded ==
  LET stats == ComputeWith(samples) IN
  \A c \in {stats.min, stats.median, stats.p99, stats.max} :
    LET error == CyclesToNsE4(c) * 165 - c * 5120000 IN
    -165 <= 2 * error /\ 2 * error <= 165

\* The latency report is exact: percentiles, histogram and nanoseconds.
ReportIsExact == PercentilesAreNearestRank /\ HistogramComplete /\ NsRounded
==============================================================================
