--------------------------- MODULE LatencyTestbench ---------------------------
(***************************************************************************)
(* hft_latency_benchmark.cpp: walks through the frames of a file, and for  *)
(* each one measures a fixed number of cycles for the hardware and the     *)
(* time a fresh software engine takes.  Nothing is done with the answer of *)
(* that engine, so only the time it takes is modelled.                     *)
(*                                                                         *)
(* The type is read before the length is looked at: for an empty frame it  *)
(* is the next byte of the file and, at the end of the file, a byte beyond *)
(* the array.                                                              *)
(***************************************************************************)
EXTENDS ItchBytes, FiniteSets

CONSTANTS
    max_messages,
    PIPELINE,          \* 25: the cycles between arrival and order
    MESSAGE_SPACING,   \* 100
    Stray,             \* what may lie beyond the end of the array
    CpuTimes,          \* what the clock may say a call took
    P99_NUM, P99_DEN,  \* the percentile of the statistics
    WORD64

ParametersOK ==
    /\ max_messages \in Nat
    /\ PIPELINE \in Nat \ {0} /\ MESSAGE_SPACING \in Nat
    /\ max_messages * (PIPELINE + MESSAGE_SPACING) < WORD64
    /\ CpuTimes \subseteq Int
    /\ Stray \subseteq Byte

VARIABLES
    file,             \* the bytes of the file
    offset, cycle, message_count,
    measurements,     \* of fpga_measurer
    fpga_latencies, cpu_latencies,
    running,          \* the loop goes on
    walked            \* history: where each frame began and what type was read

vars == <<file, offset, cycle, message_count, measurements, fpga_latencies,
          cpu_latencies, running, walked>>

fpga_measurer == INSTANCE SimLatencyMeasurer
fpga == INSTANCE LatencyTracker WITH latencies_ns <- fpga_latencies
cpu  == INSTANCE LatencyTracker WITH latencies_ns <- cpu_latencies

Init ==
    /\ offset = 0 /\ cycle = 0 /\ message_count = 0
    /\ measurements = << >> /\ fpga!Init /\ cpu!Init
    /\ running = TRUE /\ walked = << >>

msg_len == extract_uint16(file, offset)

\* The conditions of the loop and of the two breaks.
WholeFrame ==
    /\ offset < Len(file) /\ message_count < max_messages
    /\ offset + 2 <= Len(file)
    /\ offset + 2 + msg_len <= Len(file)

TypesAt(at) == IF at < Len(file) THEN {file[at + 1]} ELSE Stray

NextOffset == offset + 2 + msg_len

MeasureMessage ==
    /\ running /\ WholeFrame
    /\ \E msg_type \in TypesAt(offset + 2) :
          walked' = Append(walked, [at |-> offset + 2, type |-> msg_type])
    /\ measurements' =
          fpga_measurer!end_measurement(
              fpga_measurer!start_measurement(measurements, cycle), cycle + PIPELINE)
    /\ fpga!record_latency_ns(PIPELINE)
    /\ \E ns \in CpuTimes : cpu!record_latency_ns(ns)
    /\ offset' = NextOffset
    /\ message_count' = message_count + 1
    /\ cycle' = cycle + PIPELINE + MESSAGE_SPACING
    /\ UNCHANGED <<file, running>>

StopMeasuring ==
    /\ running /\ ~WholeFrame
    /\ running' = FALSE
    /\ UNCHANGED <<file, offset, cycle, message_count, measurements,
                   fpga_latencies, cpu_latencies, walked>>

Next == MeasureMessage \/ StopMeasuring

-----------------------------------------------------------------------------
(***************************************************************************)
(* The two measurements of the hardware agree: every interval of the       *)
(* measurer is closed although cycle zero means open, lies after the one   *)
(* before it, and they add up to what the list of latencies says.          *)
(***************************************************************************)
MeasurementsAgree ==
    /\ Len(measurements) = message_count /\ Len(walked) = message_count
    /\ \A i \in DOMAIN measurements :
          /\ ~fpga_measurer!Open(measurements[i])
          /\ measurements[i].start_cycle + fpga_latencies[i] = measurements[i].end_cycle
          /\ i > 1 => measurements[i - 1].end_cycle <= measurements[i].start_cycle
    /\ fpga_measurer!TotalCycles(measurements) = fpga!compute_stats.sum

\* How many samples satisfy a condition.
Count(samples, Test(_)) == Cardinality({ i \in DOMAIN samples : Test(samples[i]) })

\* In ascending order the value would be the k-th of the samples.
Ordinal(samples, k, value) ==
    /\ Count(samples, LAMBDA ns : ns < value) < k
    /\ k <= Count(samples, LAMBDA ns : ns <= value)

SumOver(samples, Term(_)) ==
    cpu!Sum([i \in DOMAIN samples |-> Term(samples[i])])

(***************************************************************************)
(* The statistics are those of the samples as they were recorded, although *)
(* compute_stats works on a sorted copy (lines 44-71 of latency_tracker.h): *)
(* the extremes; the sum behind the mean; half the sum of the two samples  *)
(* in the middle, or the one in the middle twice; the mean square less the *)
(* square of the mean; and the sample before which at most P99_NUM out of  *)
(* P99_DEN of the samples come, while more than that have come with it,    *)
(* unless it is the last.                                                  *)
(***************************************************************************)
StatisticsMeanWhatTheySay ==
    LET s == cpu!compute_stats
        n == Len(cpu_latencies)
        sum == SumOver(cpu_latencies, LAMBDA ns : ns)
        squares == SumOver(cpu_latencies, LAMBDA ns : ns * ns) IN
    n > 0 =>
        /\ Ordinal(cpu_latencies, 1, s.min) /\ Ordinal(cpu_latencies, n, s.max)
        /\ \E k \in 1 .. n :
              /\ Ordinal(cpu_latencies, k, s.p99)
              /\ (k - 1) * P99_DEN <= n * P99_NUM
              /\ k = n \/ n * P99_NUM < k * P99_DEN
        /\ \E i, j \in DOMAIN cpu_latencies :
              /\ s.median2 = cpu_latencies[i] + cpu_latencies[j]
              /\ Ordinal(cpu_latencies, (n + 1) \div 2, cpu_latencies[i])
              /\ Ordinal(cpu_latencies, n \div 2 + 1, cpu_latencies[j])
        /\ s.sum = sum /\ s.count = n
        /\ s.variance_nnn = n * (n * squares - sum * sum)
=============================================================================
