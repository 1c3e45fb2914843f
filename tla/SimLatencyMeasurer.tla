-------------------------- MODULE SimLatencyMeasurer --------------------------
(***************************************************************************)
(* sim_latency_measurer.h: a list of measurements in clock cycles.  A      *)
(* measurement is open as long as its end cycle is zero; only the last one *)
(* can be ended.  The operations are functions of the list.                *)
(*                                                                         *)
(* Averages are left as totals.  record_cycle_latency and clear, which     *)
(* nothing calls, and the conversions of ClockConverter are left out.      *)
(***************************************************************************)
EXTENDS Integers, SequencesExt

CONSTANT WORD64   \* 2^64: the range of cycle numbers

start_measurement(measurements, cycle) ==
    Append(measurements, [start_cycle |-> cycle, end_cycle |-> 0, cycle_count |-> 0])

Open(m) == m.end_cycle = 0

\* A fault: the first measurement is ended and not the last.
end_measurement_first(measurements, cycle) ==
    IF measurements = << >> \/ ~Open(measurements[1])
    THEN measurements
    ELSE [measurements EXCEPT ![1].end_cycle = cycle, ![1].cycle_count = cycle - @]

end_measurement(measurements, cycle) ==
    LET last == Len(measurements) IN
    IF measurements = << >> \/ ~Open(measurements[last])
    THEN measurements
    ELSE [measurements EXCEPT
             ![last].end_cycle = cycle,
             ![last].cycle_count = (cycle - measurements[last].start_cycle) % WORD64]

TotalCycles(measurements) ==
    SumFunctionOnSet([i \in DOMAIN measurements |-> measurements[i].cycle_count],
                     DOMAIN measurements)
=============================================================================
