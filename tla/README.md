# Lync, specified in TLA+

Lync is a small trading engine in SystemVerilog, with a C++ strategy that is
meant to be its software equivalent and a set of simulation harnesses around
both. This directory holds TLA+ models of it, the TLC configurations that
model-check them, and TLAPS proofs of the results that hold for every value of
the parameters.

All source paths below are relative to `src/Starter_strategy/` unless they name
another directory.

## 1. The system

### Parts, their state and how they interact

| Part | State | Operations | Talks to |
|---|---|---|---|
| `order_id_tracker.sv` | 2^16 slots (reference, side, price, shares, allocated), three output registers, `read_valid` | reset, write port, read port, each clock edge | written from the message bus, read by the strategy core |
| `alpha_core.sv` | depth of the bids, depth of the asks, position, vault bit, order ports | reset, book update, signal, boundary check | reads the bus and the tracker's answer, drives the generator |
| `ouch_parket_generator.sv` | FSM of seven states, latched trade, token, stream port | reset, accept, five beats, done | triggered by the strategy core; AXI-Stream towards the network |
| `hft_top.sv` | none of its own | wires the three on one clock | ITCH message bus in, OUCH stream out |
| `itch_stream_parser.sv` | framing FSM, captured type and symbol, reported message, two counters | reset, one byte a cycle | fed by `hft_tb.cpp`; not wired into `hft_top` |
| `itch_symbol_filter_pkg.sv` | none | symbol comparison | nobody: no module imports it |
| `cpu_trading_engine.h` | order book, two depths, position | add, delete, cancel, execute | called by the benchmarks |
| `sim_main.cpp` | message index, cycle counter, measurements | reset, inject, poll for an order, space | drives `hft_top` |
| `hft_tb.cpp` | file position, counts per ticker | reset, feed a byte | drives the parser |
| `latency_tracker.h` | a list of latencies | record, statistics | used by the harness and the benchmarks |
| `sim_latency_measurer.h` | a list of measurements in cycles | start, end, averages | used by `hft_latency_benchmark.cpp` |
| `hft_latency_benchmark.cpp` | file offset, cycle, measurements | take a frame, measure it | calls the C++ strategy for its time only |
| `real_itch_benchmark.cpp` | messages of a file, latencies | read all frames, extract fields, run the engine | calls the C++ strategy |
| `trading_benchmark.cpp` | an engine | five fixed messages | calls the C++ strategy |
| `src/tools/fetch_itch_sample.py` | the output file | download and hash, skip existing | network and disk |
| build scripts | none | compile and run | the tools above |

The three hardware modules share a clock and nothing else. At a rising edge
each reads the outputs the others had *before* the edge, so that a message
takes several edges to have all its effects: the depth changes one edge after
an Add, two after a Delete (the tracker answers first); the strategy signals an
edge after that; the generator starts its frame yet another edge later. What is
hard about this code is all in that overlap: several messages, answers and
orders are under way at once, and nothing stops an edge from combining them.

### What makes each part correct

* **Tracker**: an answer is the data last stored for the very reference asked
  for; a collision costs an order its place but never gives a wrong answer; an
  answer does not outlive its request.
* **Strategy core**: the depths are those of the live orders, up to what is
  under way, what was executed and what the tracker forgot; the position respects
  the limit;
  nothing is ordered that was not charged.
* **Generator**: orders go out whole, once, in order, under consecutive tokens.
* **Top level**: the above together: position, offered orders and tokens agree.
* **Parser**: every frame is reported once, with its own contents; framing is
  never lost.
* **Software strategy**: the depths are the sums over the book beside them; the
  position is bounded.
* **Harnesses**: a latency is that of the order caused by the message measured.
* **File readers**: all agree on where frames begin.
* **Download**: a file never mixes versions, a printed hash is that of the
  file, and only a broken connection leaves a part of a version.

### The hard behaviours

Listed with their lines under `hazards` in `PROJECT.json`. In short: an answer
of the tracker meeting an Add (`alpha_core.sv:66`), executions that the book never
hears of (`alpha_core.sv:39`), evictions (`order_id_tracker.sv:54`), orders dropped by a busy generator
(`alpha_core.sv:79`), a sink that stalls (`ouch_parket_generator.sv:44`),
counters at their limits, truncated and empty frames
(`itch_stream_parser.sv:179`), unsigned arithmetic (`cpu_trading_engine.h:105`),
references used twice, measurements attributed to the wrong message
(`sim_main.cpp:121`), and partial downloads.

## 2. Modules

### Conventions

* **Hardware.** Each component module declares its registers as VARIABLES and
  has `Init`, `Reset` and `Clock(inputs)`; the inputs of an edge are the
  arguments, so that a composition is the conjunction of the components'
  `Clock`s, with combinational wires as expressions. Right-hand sides are
  unprimed: that is the non-blocking assignment. Where the source assigns one
  register twice in an edge, the later assignment is the first branch of an IF.
* **Literals** such as 100, 5000, 2^32 and 2^64 are CONSTANTS, so that small
  instances reach their limits.
* **Faults.** A definition whose comment begins with "A fault" is a plausible
  bug in the definition after it. No specification uses one; each is there to
  show that a property notices it, and `PROJECT.json` (`mutants`) says which.
* **Null** is a model value for "none".

### The modules

| Module | Models |
|---|---|
| `OrderIdTracker` | `order_id_tracker.sv`. References are bit vectors so that `get_hash` is the XOR fold itself. |
| `LossyOrderMap` | Abstract: a map that may forget an order of the same bucket on a store, and answers a lookup one edge later. |
| `TrackerPort` | The tracker with any traffic on both ports, a history variable for the reference last read, and the refinement to `LossyOrderMap`. |
| `AlphaCore` | `alpha_core.sv`. |
| `OuchGenerator` | `ouch_parket_generator.sv`, one action per FSM state. |
| `OrderChannel` | Abstract: a channel with room for one order. |
| `OuchWire` | The generator with any triggers and an AXI-Stream sink; `SinkStalls` says whether the sink may lower `tready` during a beat. Refinement to `OrderChannel`. |
| `HftTop` | `hft_top.sv`: `id_table`, `strategy_core` and `ouch_gen` as instances of the three modules, any message on the bus at any edge. |
| `HftBook` | `HftTop` on a legal ITCH feed of Adds, Deletes, Cancels and executions, with and without a price, with `Gap` idle cycles after a message, beside the book that the feed describes (history variable). |
| `ItchStreamParser` | `itch_stream_parser.sv`, one action per state. |
| `MessageStream` | Abstract: each frame is reported once, when it ends. |
| `ParserFeed` | The parser fed frames byte by byte, as `hft_tb.cpp` does, with pauses. Refinement to `MessageStream`. |
| `CpuTradingEngine` | `cpu_trading_engine.h`, one operator per handler. |
| `CpuFeed` | The engine on any sequence of messages. |
| `SimHarness` | `sim_main.cpp` on top of `HftTop`: one action for each call of `tick`, with what the program does around it; main time, cycle counter, the message being measured, the lists of results. |
| `SimLatencyMeasurer` | `sim_latency_measurer.h`: starting and ending a measurement, as functions of the list. |
| `LatencyTracker` | `latency_tracker.h`: the list and the statistics, in exact arithmetic: the variance times the cube of the number of samples. |
| `ItchBytes` | Bytes and the extraction of fields in network order, shared by the readers and the parser. |
| `ParserTestbench` | `hft_tb.cpp`: reset, settling, the byte loop and the counts by ticker or of one ticker, around `ItchStreamParser`. |
| `LatencyTestbench` | `hft_latency_benchmark.cpp`: its framing loop and the two latencies of a message. |
| `ItchFileReader` | `read_file` of `real_itch_benchmark.cpp`. |
| `RealItchBenchmark` | The rest of it: field extraction and the loop over `CpuTradingEngine`. |
| `FileReaders` | The three programs on one file, one after another. |
| `SampleDownload` | `fetch_itch_sample.py` across runs, failures, crashes and new versions on the server. |
| `TrackerPortProofs`, `OuchWireProofs`, `ParserFeedProofs`, `CpuFeedProofs`, `SampleDownloadProofs`, `FileReadersProofs` | Proofs about the modules they are named after. |
| `DesignProofs` | Proofs about the design alone, on a feed and in its harness: `HftTop`, `HftBook`, `SimHarness`. |
| `SumProofs` | Lemmas about sums over finite sets, for the three that have sums in their properties. |
| `MC*` | Values of constants for TLC. |

Which composes which: `HftTop` has `OrderIdTracker`, `AlphaCore` and
`OuchGenerator` as instances; `HftBook` and `SimHarness` extend it with a feed and
with a program. `ParserFeed` and `ParserTestbench` extend the parser, and
`FileReaders` puts `ParserTestbench` beside instances of the two other readers,
one of which has the software engine inside.

## 3. Runs

### Passing

* **`tracker`** (`MCTrackerPort.cfg`). Two slots, references of three bits: two
  references share a slot through the fold, a third through the bit that the
  fold ignores, a fourth is alone. Any writes and reads in any edge. Checks
  `PortInv` and the refinement `ImplementsMap`. Two slots and three colliding
  references are enough for every pair of events on one slot, with a bystander.
* **`ouch`** (`MCOuchWire.cfg`). Tokens of two bits, so that they wrap; trades
  that differ in each field; resets anywhere. `FrameInProgress` says what has
  been sent and what is on the port in every state; `TokensConsecutive` relates
  successive frames; `ImplementsChannel` is the refinement, liveness included.
  The sink does not stall: with one that does, see `ouch_stall`.
* **`top_orders`** (`MCHftTop.cfg`). The whole design, any bus traffic, any
  `tready`, resets anywhere. A limit that is not a multiple of the order size,
  room for three orders, and a token register that the fourth would overflow:
  the bound is where `TokensIncrease` would fail. Depths wrap at four, which
  only adds behaviours. `RiskLimit`, `OrdersAreCharged` and `RunsDry` are
  explained below.
* **`book`** (`MCHftBook.cfg`). Two orders that compete for a slot, two stocks, sizes of
  up to three shares, all six messages of the feed that fit the bus, one idle cycle after
  each. The position limit is below the order size, which keeps the generator quiet and
  the state small: the run is about the book. `DepthIsLivePlusLeaked` is an equation
  and not a bound: every share of difference between the depths and the feed's book is
  accounted for, as under way in the tracker, or as leaked. An execution leaks what it
  takes from an order, until a later Delete or Cancel makes the tracker take the whole
  order out; a Delete or a Cancel leaks when the order was evicted. Only after a partial
  Cancel is it an inequality: the design takes the whole order out, and again with each
  later message about it, so that the depth may be less than live and leaked shares
  together, but is never more. `TrackerFindsLive` says which of the live orders the
  tracker still knows, and with what data. Three shares are enough to execute and to
  cancel a part, in either order and twice, before and after the eviction. What a third
  order in another slot could disturb is the business of `tracker`, and of the theorems.
  What the equation needs is the gap: without it, see `book_burst`.
* **`parser`** (`MCParserFeed.cfg`). Real message types and lengths, a type
  without a class, a one-byte message, a message longer than 255 bytes and an
  Add cut short in its symbol, in any order, with pauses and resets.
* **`cpu`** (`MCCpuFeed.cfg`). Two references, three side bytes (`real_itch_benchmark.cpp`
  passes the letter of the feed, which the engine takes for a sale), sizes that
  make partial and over-complete cancels possible, references added again at
  any time. `DEPTH_BOUND` ends the feed before depths grow for ever.

* **`sim`** (`MCSimHarness.cfg`). The measurement loop with its own lengths (5
  reset ticks, 100 polls, 10 cycles of spacing) on the whole design, with every
  script of four messages out of six: Adds of both sides, another stock, a Cancel,
  a Delete, an execution. The four are enough for the signal to begin, to stand, to
  stop and to begin again, and for a message to be sent into each of these. The
  limit of sixteen orders, where the source has fifty, is one that scripts of this
  length reach, some in the middle of a poll and others between two messages, so that
  later polls meet a strategy that orders no more. Every message has a price of its own, so that an order can be attributed.
  `RestLatencyIsPipeline` says when a latency is true: 4 cycles for an Add, 5 when a
  lookup comes before, priced from the message itself. `GivesUpOnNothing` says that
  100 polls are enough, `OneFrameOneMeasurement` that 10 cycles of spacing are,
  `UnderflowStandsOut` what the statistics get for a message without an order, and
  `Ends` that the program ends within the cycles of its loops.
* **`files`** (`MCFileReaders.cfg`). Every file of up to five bytes out of four
  (all short breakages), every file of three frames out of nine, whole, truncated,
  oversized and empty, and one of six messages, past the limits of two programs.
  `ReadersAgree` compares the three framings: they agree up to the first empty or
  oversized frame, and differ after it in the ways stated there.
  `TickersAreTheFiles` compares what the parser assembled byte by byte with the
  symbols of the messages. `MeasurementsAgree` and `StatisticsMeanWhatTheySay` are
  about the latency testbench: the two lists of latencies of a message go together,
  and the printed statistics are exactly those of the samples: extremes, sum, variance,
  and median and percentile by their ranks in ascending order (`Ordinal`), so that the
  share of samples before the percentile is at most the share asked for, and not
  always less.
  `BookIsOfWholeAdds` and `DepthIsOfWholeAdds` say that messages cut short, which
  keep default fields and pass the engine's filter, reach neither book nor depths.
* **`download`** (`MCSampleDownload.cfg`). Three chunks and three versions: enough for
  a file to be a beginning, to be whole, and to be of a version before the one that
  is there, and for two successive runs to see different versions. Any number of
  runs, with and without `--skip-existing`, each refused, broken, stalled, ended
  early or killed at any chunk.

### Violations: where documents and code disagree

* **`ouch_stall`**: the README of the repository (line 89) promises
  back-pressure; the generator tests `tready` in IDLE only, and a stall during
  a frame loses a beat.
* **`book_burst`**: Delete, then Add of the same side one cycle later: the Add
  is lost (`alpha_core.sv:66` overrides line 58). Needs back-to-back messages
  (`Gap = 0`) and no collision.
* **`cpu_buy`**: the comment at `cpu_trading_engine.h:104` against the unsigned
  negation at line 105; one Add of a buy order shows it.

Four more disagreements have no run of their own, because they are plain once
seen: the repository's README, line 36, says that "Execution messages reduce share
counts", while `alpha_core.sv`, lines 39 and 57, passes over them, so that an order
executed in full stays in the depth (`LeakedShares` counts it; `sim_main.cpp:87` sends
such a message); its line 51 has the position follow execution
confirmations, while `alpha_core.sv:79` charges it when an order is offered, even
one the generator then drops (`OrdersAreCharged` is an inequality for that
reason); line 36 again has Cancels subtract shares, while `alpha_core.sv:66` takes
out the whole order whatever the Cancel says; and `real_itch_benchmark.cpp:171` calls
offset 4 the order reference, while it reads the eight bytes from offset 0, which
are locate code, tracking number and part of the timestamp, so that its orders go
by arrival and its side byte is a byte of the reference.

### Bounds

| Constant | Value in runs | In the source | Why it is enough |
|---|---|---|---|
| `ADDR_WIDTH`, `ID_WIDTH` | 1, 2-3 bits | 16, 64 | slots are independent; one is contended, one is not |
| `WORD32`, `WORD64` of the design | 4 to 128 | 2^32, 2^64 | wrap-around is reached where the property allows it, and unreachable where the proof says so |
| `MAX_POSITION`, `ORDER_QTY` | 3 orders; 16 in `sim` | 50 orders | the limit is reached; in `book` it is below one order, so that none goes out |
| `Shares`, `Gap` in `book` | 1 to 3, 1 (0 in `book_burst`) | 32 bits, 1 or more | three shares can be reduced twice before they are gone; one idle cycle is when the tracker answers |
| `DEPTH_BOUND` (`cpu`) | 8 | none | bounds only the feed; depths are sums, checked at every step |
| `WORD16` of the parser | 512, 64 | 2^16 | above every length that is fed, so that wrap-around does not occur in either |
| `WORD32` in `files` | 2^31 - 1 | 2^32 | the largest of TLC's integers; no field that is fed comes near it |
| `MAX_LENGTH` | 38 | 10000 | longer than one frame of the instance and shorter than another |
| `real_messages`, `latency_messages` | 3, 5 | arguments | one is reached by the files, the other passed by the longest |
| `P99_NUM / P99_DEN` | 3/4 in `files` | 99/100 | with so few samples the 99th percentile is always the last one; the third quartile moves |
| `CpuTimes`, `RunTimes` | {0,1,3}, {1} | the clock | the CPU latency is any number; a few in any order |
| `Stray` | {0,65} | anything | the byte read beyond the end of the file |
| `WORD_TIME` | 2^16 | 2^64 | far above the cycles of the run; `SimHarness` assumes by how much |
| `MESSAGE_COUNT` | 4 | 5 | see `sim` |
| `CHUNKS`, `VERSIONS` | 3, 3 | file size / 1 MB, unbounded | see `download` |

### Fairness

* `HftTop`, `OuchWire`: weak fairness of the clock edge. A clock that runs is
  the one thing synchronous hardware is given; nothing is assumed of messages,
  of `tready` or of resets. `RunsDry` therefore allows for infinitely many
  resets explicitly. In the channel, an order is transmitted *unless* a reset
  comes, and `WF(Transmit)` says so because a reset disables it.
* `ParserFeed`: weak fairness of continuing a frame: the harness feeds a file
  to its end. Beginning a frame is not fair.
* `SimHarness`: weak fairness of `Run`: the program keeps executing. Nothing is
  assumed of the design, which is clocked by the program.
* `SampleDownload`: weak fairness of `Run`, the steps of a run that has begun: the
  15 seconds of `urlopen`'s timeout end every wait, as a failure if not otherwise.
  Neither beginning a run, nor publishing, nor being killed is fair.
* The other specifications have no liveness properties and no fairness. `files`
  runs to the end of the last program by the shape of its loops.

## 4. Proofs

* **`TrackerPortProofs`**: `PortInvariant` and `TrackerImplementsMap`, for every
  slot and reference width, set of references and data. From the assumption
  that `Null` is no entry, datum or reference. The inductive invariant is
  `PortInv`: entries sit in the slot their reference folds to. Without it a
  write could make the map forget an order of another bucket; with it the order
  lost by a write is the one whose reference is in the slot (`WriteIsPut`).
* **`DesignProofs`**, the design alone: `TypeCorrect`, `PositionStaysWithinLimit`,
  `EveryOrderIsCharged`, `TokensOnlyIncrease`. One inductive invariant, `TopInv`:
  types, limit and accounting need each other. The limit bounds the position,
  the accounting bounds the tokens by the position (`PortionsFit` divides), so
  that the 32-bit counter never wraps (`GeneratorStep`), which keeps the
  accounting exact; and the addition to the signed register never wraps
  (`ChargeIsExact`), which keeps the limit. Assumed, and true of the source's
  values by a wide margin: limit plus one order is below 2^31, and the reset
  token plus the number of orders in the limit is below 2^32.
* **`DesignProofs`**, on a feed: `LiveOrdersAreFound`, that is `TrackerFindsLive`,
  for every gap, slot width, set of references and quantities. Assumed: a feed has
  quantities of at least one share and at most some number. The inductive invariant
  `BookInv` adds the type of the tracker's memory and that what is left of an order
  and what leaked from it never exceed that number together. The Add is the interesting step
  (`AddStep`): it makes one order found and evicts those of its slot, whichever
  stock they are of.

  `DepthsFollowTheBook`, that is `DepthIsLivePlusLeaked`, for every gap but zero,
  where `book_burst` refutes it. `DepthInv` adds to `TopInv` and `BookInv` that a
  lookup is answered while the bus is idle, which is what the gap is for. An Add
  changes the sums at several references at once (it evicts), so that the step needs
  the sum of the changes and not only of one (`SumOfSums`). An execution moves shares
  from the live ones to the leaked ones and leaves their sum, and the depth, as they
  were (`ExecuteDepth`); the Delete after it makes the tracker find both. Assumed
  (`RoomAssumption`): a session has finitely many orders and all of them fit into a
  depth register, as 2^32 orders of 2^32 - 1 shares fit into 64 bits.
* **`DesignProofs`**, in its harness, for every script, loop length and design
  parameter. `UnderflowCanBeTold`: `ClockInv` relates the counters to the place in
  the program: in a poll the arrival lies `count + 1` cycles back, and the cycles so
  far fit the `Budget` of the messages so far. From that an answer is measured exactly
  (`LatencyOfAnswer`), and the wrapped difference of an unanswered poll is greater
  than twice all cycles the program can take (`LatencyOfSilence`). Assumed: 2^64 is
  more than eight times the cycles of a run.

  `LatencyAtRestIsPipeline`: `AnswerInv` says for each poll after a message that found
  the design at rest where its effect has got to: asked of the tracker, counted in a
  depth, ordered, framed. `PollsGiveUpOnNothing`: `DrainInv` empties the pipeline from
  its front, one stage with each poll that is not answered; hence four polls or more
  (`POLLS >= 4`), and TLC shows an order given up with three.
  `NoFrameIsMeasuredTwice`: three cycles of spacing or more, which TLC shows to be tight
  as well, by `FrameInv`: while the program spaces, the frame last measured advances one
  beat a cycle, and once it is over a beat on the port belongs to a later token, which
  rests on `TopInv`, because tokens do not wrap.
* **`OuchWireProofs`**: `FramesAreWhole`, `TokensAreInSequence`, `WireIsChannel`, for
  every width of the token and every set of trades, under the hypothesis
  `~SinkStalls`, without which `ouch_stall` refutes them. The inductive invariant
  `WireInv` has a part each for the registers, the port, the sink and the tokens:
  the beats that the sink holds are tied to the state of the machine, and the token
  to that of the frame read last. That a frame determines its order
  (`FrameInjective`) makes the refinement mapping well defined; the refinement is
  by cases over the states. `WireIsChannel` is the safety part of
  `ImplementsChannel`.
* **`ParserFeedProofs`**: `ParserStaysInStep`, `ParserIsStream`, for every set of
  payloads of one byte to `WORD16 - 1` bytes. `FeedInv` adds to `InStep`
  only what the feed itself is, and `Inside` says what it comes to within a payload:
  the index lags the feed by the two length bytes and the byte at hand, and the
  capture register holds what has passed of the symbol. The end of a frame is an
  equation between 16-bit numbers, which needs the range of both.
  `ParserIsStream` is the safety part of `ImplementsStream`.
* **`CpuFeedProofs`**: `PositionStaysBounded`, for every limit and order size with
  room in a 32-bit integer. The property is inductive with the position's type.
  `DepthsNeverDrift`, that is `DepthIsBookPlusOverwritten`, for every finite set of
  references, with the types of the book and of the history variable (`DepthInv`).
  The bound on the feed keeps the depths below 2^64; no subtraction goes below zero,
  because the order taken from is one of those the depth is the sum of.
* **`SampleDownloadProofs`**: `FileIsOfOneVersion`, `HashIsTheFiles`,
  `CleanRunLeavesAll`, `CompleteFilesAreKept`, for any number of chunks and versions.
  `DownloadInv` says that the file, whenever there is one, is a beginning of one
  version, and what file and hash have in common at each place of the program.
* **`FileReadersProofs`**, for every set of files, that is for every sequence of
  bytes. `ReaderInv` says what the file reader has done: its messages are cut from the
  file, each where those before it end.

  `BookHoldsWholeAdds` and `DepthsCoverTheBook` are about the engine at the end of
  that chain. `BookInv` names for each order the message it came from (`Backed`), and
  distinguishes the messages too short for a locate code, which pass the filter with
  nothing in them. `DepthInv` bounds the sum of both depths by what whole Adds have
  brought, and each from below by the book; the subtractions are exact for that
  reason. Hypothesis `DepthsFit`: the `int` of messages that the program takes, with
  four bytes of shares each, fits in 64 bits.

  `MeasurementsAlwaysAgree`: `LatencyInv`. An end at cycle zero would mean "open", and
  no interval ends there because the pipeline is not empty.

  `StatisticsAlwaysMean`: no invariant but that samples are integers; the work is about
  the operators. Sorting is defined by ranks: a sample goes where the number of those
  below it, and of its equals before it, says. Ranks are distinct, hence every place is
  taken, and the samples around a rank can be counted, which is what a percentile and a
  median are (`P99IndexHasItsShare`, `MedianIsMiddle`). Sorting is a reordering, under
  which sums stay what they are (`SumReordered`), so that the sum and the sum of the
  squares of the sorted copy are those of the list; the squared differences from the
  mean, which is what the code adds up, are expanded to these two
  (`SumOfSquaredDifferences`).

  `FramingsAlwaysAgree`, that is `ReadersAgree`. `FramesInv` has a part for each of the
  three framings, and measures all by the same yardstick: message k begins where
  report k - 1 ends. `ParserInv` says for each state of the parser how much of which
  frame has gone in, `WalkInv` and `CutInv` say the same of the two programs, and
  `TurnInv` what the parser has seen when it ends. Hypothesis: `WORD16 = 256 * 256`,
  the source's 16-bit index (`itch_stream_parser.sv`, line 32). A narrower one would
  come round before a long frame ends; the run, with a smaller value, has no frame of
  that length.

  `TickersAreAlwaysTheFiles`, that is `TickersAreTheFiles`, stands on `FramesInv`, which
  has the symbol captured so far. `HitsInv` says that the bag of tickers has, for each, as
  many copies as there are reports of a frame with that symbol (`HitsOf`); a report adds
  one copy (`OneHitMore`), and a message has the symbol of the frame it was cut from
  (`SymbolOfFrame`). Hypotheses: the 16-bit index, and `FilesFit`, a file of less than
  3 * 2^32 bytes: a frame has three at least, so that the parser's 32-bit counter does
  not come round.
* **`SumProofs`**: a sum over a set is defined in the community module by recursion
  over the set, and tlapm has no induction over data. What is there is that inclusion
  is well-founded on finite sets: among the subsets that violate a statement there is
  a smallest one, and it has no violating member to take out. In that way each lemma
  is proved once: that the recursion defines a function, that a sum is that of the
  rest and an element (any element, not the one CHOOSE takes), and how sums change,
  add and are reordered.

The modules with proofs reach no RECURSIVE operator. Two definitions are written for
the provers, with the same meaning: `Sorted` in `LatencyTracker` uses ranks, because
tlapm has no definition of `SortSeq`, and sums are over sets of indices rather than folds
over sequences.

Only model-checked: liveness, which tlapm does not reach, that is the fairness parts of
`ImplementsChannel` and `ImplementsStream`, and `RunsDry`, `Ends` and `RunsEnd`. Every
other property of a passing run is a theorem. Only the run shows that a state in which
it could fail is reached, and that a plausible bug breaks it.

## 5. Not modelled

* Wall-clock timing, formatted output, waveform tracing and command lines.
* Replace messages on the feed of `HftBook`: they end one order and begin another, and
  the bus of the design has lines for one reference. The design would pass over them
  as it does over executions.
* The features the repository's README describes and no source implements: price
  levels, best bid and offer, replace messages in the book, price collars, the
  inbound OUCH path, several clock domains.
* Prices and sizes of the tracker's answer are one datum in the tracker; the
  constant bits of the packet headers are named.
* `tracker_read_id`, which is tied to zero and not used by the top level;
  `msg_error`, which is never raised; `last_bid_price` and `last_ask_price`,
  which are never read.
* `trading_benchmark.cpp`: five fixed messages to a fresh engine, a special case of
  `CpuFeed`, with the statistics of `LatencyTracker`.
* `itch_symbol_filter_pkg.sv`, which no module imports.
* What nothing calls: `start_timing`, `end_timing` and `clear` of the latency
  tracker, `record_cycle_latency`, `print_cycle_stats` and the averages of the
  measurer that are never printed, `ClockConverter`.
* The build and benchmark scripts, which run steps one after another, and the names
  of message types, which are only printed.
* The side the latency testbench computes for its engine, beyond the end of a short
  frame: the engine's answer is thrown away, so only the time is modelled.

## 6. Plan

Done: the design (tracker, generator, strategy, top level, book), the parser and
the software strategy, the harnesses and readers around them, the download, and
the proofs above. What would come next:

1. Closer looks at what the theorems assume: for instance which order references a
   session must not use twice, and what the depths are worth if it does.
2. A composition of the parser with the bus of `hft_top`, once the repository
   has the adapter between them.
