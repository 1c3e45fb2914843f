---------------------------- MODULE LatencyTracker ----------------------------
(***************************************************************************)
(* latency_tracker.h: a list of latencies, in nanoseconds, and statistics  *)
(* about them.  The statistics are floating-point numbers in the source;   *)
(* here they are exact: the mean as sum and count, the median doubled, the *)
(* variance times the third power of the count.                            *)
(*                                                                         *)
(* start_timing, end_timing and clear are left out: nothing calls them.    *)
(***************************************************************************)
EXTENDS Integers, Sequences, FiniteSets, Functions

CONSTANTS
    P99_NUM, P99_DEN   \* the percentile: 99 out of 100 in the source

ParametersOK == P99_DEN \in Nat \ {0} /\ P99_NUM \in 0 .. P99_DEN

VARIABLE latencies_ns

Init == latencies_ns = << >>

record_latency_ns(ns) == latencies_ns' = Append(latencies_ns, ns)

\* The place of a sample in ascending order; equal ones stay in their order.
Rank(samples, i) ==
    Cardinality({ j \in DOMAIN samples :
        samples[j] < samples[i] \/ (samples[j] = samples[i] /\ j <= i) })

\* What std::sort makes of the latencies, and what the statistics are about.
Sorted(samples) ==
    [k \in DOMAIN samples |-> samples[CHOOSE i \in DOMAIN samples : Rank(samples, i) = k]]

Sum(samples) == SumFunctionOnSet(samples, DOMAIN samples)

\* The middle element, or the mean of the two; counted from one.
DoubledMedian(sorted) ==
    LET half == Len(sorted) \div 2 IN
    IF Len(sorted) % 2 = 0
    THEN sorted[half] + sorted[half + 1]
    ELSE 2 * sorted[half + 1]

\* A fault: the index is one too low, as if it were counted from one.
P99IndexLow(n) == IF (n * P99_NUM) \div P99_DEN < 1 THEN 1 ELSE (n * P99_NUM) \div P99_DEN

\* min(size_t(n * 0.99), n - 1), counted from one.
P99Index(n) ==
    IF (n * P99_NUM) \div P99_DEN < n - 1 THEN (n * P99_NUM) \div P99_DEN + 1 ELSE n

\* For an empty list compute_stats returns zeros.
compute_stats ==
    LET sorted == Sorted(latencies_ns)
        n      == Len(latencies_ns)
        sum    == Sum(sorted) IN
    IF n = 0
    THEN [min |-> 0, max |-> 0, sum |-> 0, median2 |-> 0, p99 |-> 0,
          variance_nnn |-> 0, count |-> 0]
    ELSE [min |-> sorted[1], max |-> sorted[n], sum |-> sum,
          median2 |-> DoubledMedian(sorted),
          p99 |-> sorted[P99Index(n)],
          variance_nnn |-> Sum([k \in 1 .. n |-> (n * sorted[k] - sum) * (n * sorted[k] - sum)]),
          count |-> n]
=============================================================================
