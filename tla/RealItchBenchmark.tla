--------------------------- MODULE RealItchBenchmark ---------------------------
(***************************************************************************)
(* real_itch_benchmark.cpp: the messages of a file, as ITCHFileReader has  *)
(* cut them, run through the software engine and timed.                    *)
(*                                                                         *)
(* Fields are taken from where the source takes them: the order reference  *)
(* from the first eight bytes after the type, where the feed has the       *)
(* locate code, the tracking number and half of the timestamp.  Messages   *)
(* that are too short for their fields go to the engine with zeros, and    *)
(* one too short for a locate code as a message of the stock traded.       *)
(***************************************************************************)
EXTENDS CpuTradingEngine, ItchBytes

CONSTANTS
    max_messages,
    DEFAULT_LOCATE,   \* 1337, as is TARGET_LOCATE
    RunTimes          \* what the clock may say a message took

VARIABLES
    messages,   \* the messages of the file
    next,       \* the loop counter: how many have been processed
    latencies   \* of cpu_tracker, which msg_processing_time repeats

benchVars == <<vars, messages, next, latencies>>

cpu_tracker == INSTANCE LatencyTracker WITH
    latencies_ns <- latencies, P99_NUM <- 99, P99_DEN <- 100

BenchInit == Init /\ next = 0 /\ cpu_tracker!Init

process_count == AtMost(max_messages, Len(messages))

extract_uint64(payload) == SubSeq(payload, 1, 8)

NoReference == <<0, 0, 0, 0, 0, 0, 0, 0>>

\* How long a payload has to be for its fields to be read.
MinLength(type) ==
    CASE type \in {Char.A, Char.F} -> 35
      [] type \in {Char.E, Char.C, Char.X} -> 20
      [] type = Char.D -> 8
      [] OTHER -> 0

\* A fault: an Add need only reach as far as the fields that are read.
HasFieldsLoose(msg) ==
    /\ msg.type \in {Char.A, Char.F, Char.E, Char.C, Char.X, Char.D}
    /\ Len(msg.payload) >= IF msg.type \in {Char.A, Char.F} THEN 22 ELSE MinLength(msg.type)

HasFields(msg) ==
    /\ msg.type \in {Char.A, Char.F, Char.E, Char.C, Char.X, Char.D}
    /\ Len(msg.payload) >= MinLength(msg.type)

\* A fault: the locate code of the message is never read.
DefaultLocate(msg) == DEFAULT_LOCATE

locate_code(msg) ==
    IF Len(msg.payload) >= 4 THEN extract_uint16(msg.payload, 0) ELSE DEFAULT_LOCATE

order_id(msg) == IF HasFields(msg) THEN extract_uint64(msg.payload) ELSE NoReference

side(msg) ==
    IF HasFields(msg) /\ msg.type \in {Char.A, Char.F} THEN msg.payload[14] ELSE 0

shares(msg) ==
    CASE HasFields(msg) /\ msg.type \in {Char.A, Char.F} -> extract_uint32(msg.payload, 14)
      [] HasFields(msg) /\ msg.type \in {Char.E, Char.C, Char.X} ->
            extract_uint32(msg.payload, 8)
      [] OTHER -> 0

price(msg) ==
    CASE HasFields(msg) /\ msg.type \in {Char.A, Char.F} -> extract_uint32(msg.payload, 18)
      [] HasFields(msg) /\ msg.type \in {Char.E, Char.C} -> extract_uint32(msg.payload, 12)
      [] OTHER -> 0

\* The engine tells four types from each other and from the rest.
EngineType(type) ==
    CASE type = Char.A -> "A" [] type = Char.D -> "D"
      [] type = Char.X -> "X" [] type = Char.E -> "E"
      [] OTHER -> "other"

process_message(msg) ==
    process_itch_message(EngineType(msg.type), locate_code(msg), side(msg), price(msg),
                         shares(msg), order_id(msg))

ProcessNext ==
    /\ next < process_count
    /\ process_message(messages[next + 1])
    /\ next' = next + 1
    /\ \E ns \in RunTimes : cpu_tracker!record_latency_ns(ns)
    /\ UNCHANGED messages

-----------------------------------------------------------------------------
(***************************************************************************)
(* The book holds whole orders of the stock traded, each as some message   *)
(* gave it or less, under the header of that message; and at most one      *)
(* order without a reference, which is empty: the messages that slip       *)
(* through the filter because they are short do no harm, however they are  *)
(* mixed with others (lines 164 to 191).                                   *)
(***************************************************************************)
BookIsOfWholeAdds ==
    \A id \in OrderIds : order_book[id] # Null =>
        \/ id = NoReference /\ order_book[id].shares = 0
        \/ /\ extract_uint16(id, 0) = TARGET_LOCATE
           /\ \E i \in 1 .. next :
                 LET p == messages[i].payload IN
                 /\ messages[i].type = Char.A /\ Len(p) >= 35
                 /\ SubSeq(p, 1, 8) = id
                 /\ order_book[id].side = p[14]
                 /\ order_book[id].shares <= extract_uint32(p, 14)

\* The shares a message adds, if it is a whole Add of the stock traded.
SharesBy(msg) ==
    IF /\ msg.type = Char.A /\ Len(msg.payload) >= 35
       /\ extract_uint16(msg.payload, 0) = TARGET_LOCATE
    THEN extract_uint32(msg.payload, 14)
    ELSE 0

SharesAdded == SumFunctionOnSet([i \in 1 .. next |-> SharesBy(messages[i])], 1 .. next)

\* What the orders of some sides that are in the book add up to.
SharesOn(sides) ==
    [ id \in OrderIds |->
        IF order_book[id] # Null /\ order_book[id].side \in sides
        THEN order_book[id].shares
        ELSE 0 ]

BookShares(sides) == SumFunctionOnSet(SharesOn(sides), OrderIds)

\* Each depth covers the orders of its side that are in the book, and both
\* together are no more than the whole Adds of the stock have brought.
DepthIsOfWholeAdds ==
    /\ BookShares({1}) <= bid_depth
    /\ BookShares(Byte \ {1}) <= ask_depth
    /\ bid_depth + ask_depth <= SharesAdded
=============================================================================
