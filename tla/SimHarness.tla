------------------------------ MODULE SimHarness ------------------------------
(***************************************************************************)
(* sim_main.cpp: the program that runs the whole design and measures its   *)
(* tick-to-wire latency.  After a reset it puts one message on the bus for *)
(* one cycle, polls the stream port until a beat is offered or POLLS       *)
(* cycles have passed, records the time that took, and lets SPACING cycles *)
(* go by before the next message.  tready is high throughout.              *)
(*                                                                         *)
(* Every action is one call of tick, with what the program does before and *)
(* after it; main_time counts half cycles.  The script of the source is    *)
(* one of those that TestMessages allows.                                  *)
(***************************************************************************)
EXTENDS HftTop, Sequences

CONSTANTS
    TestMessages,     \* what may be injected
    MESSAGE_COUNT,    \* how many are
    RESET_TICKS,      \* 5 in the source
    POLLS,            \* 100
    SPACING,          \* 10
    WORD_TIME         \* 2^64: the range of the cycle numbers

ASSUME HarnessAssumption ==
    /\ RESET_TICKS \in Nat \ {0} /\ POLLS \in Nat \ {0} /\ SPACING \in Nat \ {0}
    /\ MESSAGE_COUNT \in Nat \ {0} /\ WORD_TIME \in Nat
    \* The clock of the simulation is nowhere near wrapping around.
    /\ 8 * (RESET_TICKS + 1 + MESSAGE_COUNT * (1 + POLLS + SPACING)) < WORD_TIME

VARIABLES
    pc,               \* the loop the program is in
    count,            \* the counter of that loop
    bus,              \* the lines of the message bus, as last driven
    main_time,
    cycle_counter,
    arrival,          \* msg_arrival_cycle and the message injected, with a
                      \* note of whether the design was at rest
    measurements,
    latencies,        \* the list of latency_tracker
    witness           \* history: what the design was doing at each measurement

latency_tracker == INSTANCE LatencyTracker WITH
    latencies_ns <- latencies, P99_NUM <- 99, P99_DEN <- 100

records == <<measurements, latencies, witness>>
harnessVars == <<vars, pc, count, bus, main_time, cycle_counter, arrival, records>>

\* Nothing is under way in the design, and nothing is about to be.
AtRest ==
    /\ state = "IDLE" /\ ~tvalid
    /\ ~send_order /\ ~strategy_core!Signal
    /\ ~t_read_valid

ZeroLines ==
    [valid |-> FALSE, type |-> "none", locate |-> 0, side |-> 0, price |-> 0,
     shares |-> 0, id |-> [b \in 0 .. ID_WIDTH - 1 |-> FALSE]]

\* The lines of the bus are wide enough for the script, and for the zeros
\* they start with.
ASSUME LinesAssumption == TestMessages \subseteq Message /\ ZeroLines \in Message

HarnessInit ==
    /\ Init
    /\ pc = "reset" /\ count = 0
    /\ bus = ZeroLines
    /\ main_time = 0 /\ cycle_counter = 0
    /\ arrival = [cycle |-> 0, msg |-> ZeroLines, at_rest |-> TRUE]
    /\ measurements = << >> /\ witness = << >>
    /\ latency_tracker!Init

-----------------------------------------------------------------------------
\* One clock cycle with the reset line high, and one with the lines given.
TickReset == Reset /\ main_time' = main_time + 2 /\ UNCHANGED cycle_counter

Tick(lines) ==
    /\ Posedge(lines, TRUE)
    /\ main_time' = main_time + 2

Counted == cycle_counter' = cycle_counter + 1

\* The loop goes round once more, or ends and the program goes on at next.
Loop(limit, next) ==
    IF count + 1 < limit THEN count' = count + 1 /\ UNCHANGED pc
                         ELSE count' = 0 /\ pc' = next

ResetSequence ==
    /\ pc = "reset"
    /\ TickReset
    /\ Loop(RESET_TICKS, "settle")
    /\ UNCHANGED <<bus, arrival, records>>

Settle ==
    /\ pc = "settle"
    /\ Tick(bus)
    /\ pc' = "inject"
    /\ UNCHANGED <<count, bus, cycle_counter, arrival, records>>

\* A fault: releasing the message clears the lines of the bus.
InjectAndClear(msg) ==
    /\ pc = "inject"
    /\ arrival' = [cycle |-> main_time, msg |-> msg, at_rest |-> AtRest]
    /\ Tick(msg) /\ Counted
    /\ bus' = ZeroLines
    /\ pc' = "poll"
    /\ UNCHANGED <<count, records>>

\* The message is on the bus for one edge; then only valid is lowered.
Inject(msg) ==
    /\ pc = "inject"
    /\ arrival' = [cycle |-> main_time, msg |-> msg, at_rest |-> AtRest]
    /\ Tick(msg) /\ Counted
    /\ bus' = [msg EXCEPT !.valid = FALSE]
    /\ pc' = "poll"
    /\ UNCHANGED <<count, records>>

\* A fault: without an answer the time of the last poll is taken.
LatencyOfLastPoll(send_cycle) ==
    ((IF send_cycle = 0 THEN main_time' ELSE send_cycle) - arrival.cycle) \div 2

\* An unsigned difference, in cycles of two time steps.
Latency(send_cycle) == ((send_cycle - arrival.cycle) % WORD_TIME) \div 2

\* What is recorded after the poll; send_cycle is zero without an answer.
Record(send_cycle) ==
    /\ measurements' = Append(measurements,
          [arrival |-> arrival.cycle, send |-> send_cycle, latency |-> Latency(send_cycle)])
    /\ latency_tracker!record_latency_ns(Latency(send_cycle))
    /\ witness' = Append(witness,
          [msg |-> arrival.msg, at_rest |-> arrival.at_rest, quiet |-> AtRest',
           token |-> token', trade |-> r'])

\* A fault: the program sends the next message at once.
StopPollingAtOnce ==
    /\ count' = 0
    /\ pc' = IF Len(measurements') < MESSAGE_COUNT THEN "inject" ELSE "done"

\* A fault: the program gives up at the first message without an order.
StopProgram ==
    /\ count' = 0
    /\ pc' = IF measurements'[Len(measurements')].send = 0 THEN "done" ELSE "space"

StopPolling == count' = 0 /\ pc' = "space"

PollAnswered ==
    /\ pc = "poll"
    /\ Tick(bus) /\ Counted
    /\ tvalid'
    /\ Record(main_time')
    /\ StopPolling
    /\ UNCHANGED <<bus, arrival>>

PollAgain ==
    /\ pc = "poll" /\ count + 1 < POLLS
    /\ Tick(bus) /\ Counted
    /\ ~tvalid'
    /\ count' = count + 1
    /\ UNCHANGED <<pc, bus, arrival, records>>

\* A fault: a poll may be given up after two cycles.
PollExpiresEarly ==
    /\ pc = "poll" /\ count + 1 >= 2
    /\ Tick(bus) /\ Counted
    /\ ~tvalid'
    /\ Record(0)
    /\ StopPolling
    /\ UNCHANGED <<bus, arrival>>

PollExpires ==
    /\ pc = "poll" /\ count + 1 = POLLS
    /\ Tick(bus) /\ Counted
    /\ ~tvalid'
    /\ Record(0)
    /\ StopPolling
    /\ UNCHANGED <<bus, arrival>>

Space ==
    /\ pc = "space"
    /\ Tick(bus) /\ Counted
    /\ Loop(SPACING, IF Len(measurements) < MESSAGE_COUNT THEN "inject" ELSE "done")
    /\ UNCHANGED <<bus, arrival, records>>

Run ==
    \/ ResetSequence \/ Settle
    \/ \E msg \in TestMessages : Inject(msg)
    \/ PollAnswered \/ PollAgain \/ PollExpires
    \/ Space

\* A program keeps running until it ends.
HarnessSpec == HarnessInit /\ [][Run]_harnessVars /\ WF_harnessVars(Run)

-----------------------------------------------------------------------------
Taken == DOMAIN measurements
Answered(i) == measurements[i].send # 0

\* Edges from a message to the first beat of the order it causes: the depth,
\* the strategy, the generator and its first beat; a lookup comes before.
PipelineDepth(type) == IF type \in {"A", "F"} THEN 4 ELSE 5

(***************************************************************************)
(* A message that finds the design at rest is measured truly: the latency  *)
(* recorded is the depth of the pipeline, and the order measured is its    *)
(* own, priced from it, because releasing a message leaves its price on    *)
(* the bus (alpha_core.sv, line 77).  A shorter latency is that of an      *)
(* order which was on its way before the message came.                     *)
(***************************************************************************)
RestLatencyIsPipeline ==
    \A i \in Taken : Answered(i) /\ witness[i].at_rest =>
        /\ measurements[i].latency = PipelineDepth(witness[i].msg.type)
        /\ witness[i].trade.price = (witness[i].msg.price + PRICE_OFFSET) % WORD32

(***************************************************************************)
(* The poll gives up on nothing: when it ends without an answer, no order  *)
(* is under way and none is going to be, so that the next message finds    *)
(* the design at rest.                                                     *)
(***************************************************************************)
GivesUpOnNothing == \A i \in Taken : ~Answered(i) => witness[i].quiet

\* No frame is taken for the answer to two messages: the spacing is longer
\* than what is left of a frame after its first beat.
OneFrameOneMeasurement ==
    \A i, j \in Taken : i < j /\ Answered(i) /\ Answered(j) =>
        witness[i].token < witness[j].token

(***************************************************************************)
(* A message without an order is recorded as a latency that underflowed,   *)
(* and goes into the statistics; but it can be told from every true one.   *)
(***************************************************************************)
UnderflowStandsOut ==
    /\ latencies = [i \in Taken |-> measurements[i].latency]
    /\ \A i \in Taken :
          IF Answered(i) THEN measurements[i].latency \in 2 .. POLLS + 1
          ELSE measurements[i].latency > 2 * cycle_counter

\* The program ends, whatever the design does, in the cycles its loops allow,
\* and every message has its measurement.
Ends ==
    <>( /\ pc = "done"
        /\ Len(measurements) = MESSAGE_COUNT
        /\ main_time = 2 * (RESET_TICKS + 1 + cycle_counter)
        /\ cycle_counter <= MESSAGE_COUNT * (1 + POLLS + SPACING) )
=============================================================================
