------------------------------ MODULE FileReaders ------------------------------
(***************************************************************************)
(* Three programs that take one ITCH file apart, each with framing code of *)
(* its own: hft_tb.cpp with the parser in hardware, hft_latency_benchmark, *)
(* and real_itch_benchmark with its reader, which also runs the software   *)
(* engine on what it has read.  They share nothing but the file, so here   *)
(* they run one after another.                                             *)
(***************************************************************************)
EXTENDS ParserTestbench, SequencesExt

CONSTANTS
    Files, Tickers,                               \* arguments of the programs
    MAX_LENGTH, DEFAULT_LOCATE, real_messages,    \* real_itch_benchmark
    OrderIds, TARGET_LOCATE, MAX_POSITION,        \* its engine
    IMBALANCE_ALPHA, ORDER_QTY, PRICE_OFFSET, WORD64,
    PIPELINE, MESSAGE_SPACING, Stray,             \* hft_latency_benchmark
    latency_messages, P99_NUM, P99_DEN,
    CpuTimes, RunTimes                            \* what the clock may say

VARIABLES
    turn,                                         \* the program that runs
    position, messages, reading,                  \* real_itch_benchmark: the reader
    next, real_latencies,                         \* ... the loop
    order_book, bid_depth, ask_depth,             \* ... the engine
    engine_position, decision,
    offset, lb_cycle, message_count,              \* hft_latency_benchmark
    measurements, fpga_latencies, cpu_latencies,
    running, walked

reader == INSTANCE ItchFileReader

real == INSTANCE RealItchBenchmark WITH
    Locates <- 0 .. 65535, Sides <- Byte, Types <- {"A", "D", "X", "E", "other"},
    Prices <- 0 .. WORD32 - 1, Shares <- 0 .. WORD32 - 1,
    position <- engine_position, latencies <- real_latencies,
    max_messages <- real_messages

latency == INSTANCE LatencyTestbench WITH
    cycle <- lb_cycle, max_messages <- latency_messages

ASSUME ReadersAssumption ==
    /\ latency!ParametersOK /\ latency!cpu!ParametersOK
    /\ MAX_LENGTH \in Nat \ {0} /\ real_messages \in Int /\ WORD64 \in Nat
    /\ MAX_POSITION + ORDER_QTY < WORD32 \div 2

\* Files are bytes, and the order references are those that are looked up: an
\* engine looks at nothing that does not begin with the locate code traded,
\* where the benchmark reads both, but for the reference of a short message.
ASSUME FilesAssumption ==
    /\ \A f \in Files : f \in Seq(Byte)
    /\ IsFiniteSet(OrderIds) /\ real!NoReference \in OrderIds
    /\ \A f \in Files : \A at \in 1 .. Len(f) - 7 :
          extract_uint16(f, at - 1) = TARGET_LOCATE => SubSeq(f, at, at + 7) \in OrderIds
    /\ Null \notin [side : Byte, shares : Nat]

parserVars == <<vars, target_ticker, loop, cycle, fed, counts>>
readerVars == <<position, messages, reading>>
engineVars == <<next, real_latencies, order_book, bid_depth, ask_depth,
                engine_position, decision>>
latencyVars == <<offset, lb_cycle, message_count, measurements, fpga_latencies,
                 cpu_latencies, running, walked>>
allVars == <<file, turn, parserVars, readerVars, engineVars, latencyVars>>

FilesInit ==
    /\ file \in Files /\ target_ticker \in Tickers \cup {Null}
    /\ turn = "hft_tb"
    /\ BenchInit /\ latency!Init /\ reader!Init /\ real!BenchInit

RunParserTestbench ==
    /\ turn = "hft_tb"
    /\ BenchNext
    /\ turn' = IF Done' THEN "hft_latency" ELSE turn
    /\ UNCHANGED <<readerVars, engineVars, latencyVars>>

RunLatencyTestbench ==
    /\ turn = "hft_latency"
    /\ latency!Next
    /\ turn' = IF running' THEN turn ELSE "read_file"
    /\ UNCHANGED <<parserVars, readerVars, engineVars>>

RunReader ==
    /\ turn = "read_file"
    /\ reader!Next
    /\ turn' = IF reading' THEN turn ELSE "real_itch"
    /\ UNCHANGED <<parserVars, engineVars, latencyVars>>

RunEngine ==
    /\ turn = "real_itch"
    /\ real!ProcessNext
    /\ UNCHANGED <<file, turn, parserVars, position, reading, latencyVars>>

\* The last program ends, here and for good.
Finished ==
    /\ turn = "real_itch" /\ next >= real!process_count
    /\ UNCHANGED allVars

FilesNext ==
    \/ RunParserTestbench \/ RunLatencyTestbench
    \/ RunReader \/ RunEngine \/ Finished

FilesSpec == FilesInit /\ [][FilesNext]_allVars

-----------------------------------------------------------------------------
\* Where message number k of the reader ends.
EndOf(k) ==
    SumFunctionOnSet([i \in 1 .. k |-> 3 + Len(messages[i].payload)], 1 .. k)

\* Where the parser began with the type of message number k.
TypeAt(k) == IF k = 1 THEN 2 ELSE reported[k - 1].end + 2

(***************************************************************************)
(* The framings agree.  The messages of the file reader are those of the   *)
(* parser, at the same places, up to where the reader stops; the parser    *)
(* goes on from there only if the reader stopped at an oversized frame,    *)
(* and reports nothing after an empty one (itch_stream_parser.sv, line     *)
(* 179).  The latency testbench finds every message the parser does, up to *)
(* its own limit, and it alone walks on past an empty frame.               *)
(***************************************************************************)
ReadersAgree ==
    /\ Done => \A k \in DOMAIN messages :
          /\ k <= accepted_messages
          /\ reported[k] = [end |-> EndOf(k), type |-> messages[k].type]
    /\ Done /\ ~reading /\ accepted_messages > Len(messages) =>
          reader!length > MAX_LENGTH
    /\ \A k \in DOMAIN walked \cap DOMAIN reported :
          walked[k] = [at |-> TypeAt(k), type |-> reported[k].type]
    /\ ~running /\ Len(walked) < accepted_messages => message_count = latency_messages
    /\ ~running /\ ~reading /\ Len(walked) > accepted_messages =>
          extract_uint16(file, walked[accepted_messages + 1].at - 2) = 0

\* The eight bytes of a message's symbol, by the offsets of the feed.
SymbolOf(msg) ==
    LET start == symbol_offset(msg.type)
        whole == <<msg.type>> \o msg.payload IN
    [k \in 0 .. 7 |-> IF has_symbol_field(msg.type) /\ start + k < Len(whole)
                      THEN whole[start + k + 1] ELSE 0]

TickerOf(msg) == symbol_to_string(SymbolOf(msg))

NamedTickers == { TickerOf(messages[i]) : i \in DOMAIN messages }

Named(ticker) == { i \in DOMAIN messages : TickerOf(messages[i]) = ticker }

(***************************************************************************)
(* The counts of hft_tb.cpp are those of the file: what the parser put     *)
(* together byte by byte is what the messages of the reader say, wherever  *)
(* both have seen the whole file, and a message without a symbol is in no  *)
(* count; and the program's own count is that of the parser.               *)
(***************************************************************************)
TickersAreTheFiles ==
    /\ accepted_messages = total_messages /\ Len(reported) = accepted_messages
    /\ ~reading /\ accepted_messages = Len(messages) =>
          IF target_ticker = Null
          THEN ticker_hits = [ticker \in NamedTickers \ {<< >>} |-> Cardinality(Named(ticker))]
          ELSE matched_ticker_messages = Cardinality(Named(target_ticker))

MeasurementsAgree == latency!MeasurementsAgree
StatisticsMeanWhatTheySay == latency!StatisticsMeanWhatTheySay
BookIsOfWholeAdds == real!BookIsOfWholeAdds
DepthIsOfWholeAdds == real!DepthIsOfWholeAdds
=============================================================================
