--------------------------- MODULE ParserTestbench ---------------------------
(***************************************************************************)
(* hft_tb.cpp: resets the stream parser, feeds it a file, one byte a       *)
(* cycle, and counts the messages it reports, either by ticker or of one   *)
(* ticker.  The parser never raises msg_error, so the loop ends with the   *)
(* file.                                                                   *)
(***************************************************************************)
EXTENDS ItchStreamParser, Bags, FiniteSetsExt

CONSTANTS
    RESET_TICKS, SETTLE_TICKS,   \* 4 and 2 in the source
    Null                         \* report all tickers

VARIABLES
    file,                      \* the bytes of the file
    target_ticker,             \* the ticker to look for, or Null
    loop, cycle,               \* where the program is: a cycle is an edge
    fed,                       \* bytes fed
    accepted_messages, matched_ticker_messages,
    ticker_hits,               \* a bag of tickers
    reported                   \* history: where each message ended and its type

counts == <<accepted_messages, matched_ticker_messages, ticker_hits, reported>>
benchVars == <<vars, file, target_ticker, loop, cycle, fed, counts>>

BenchInit ==
    /\ Init
    /\ loop = "reset" /\ cycle = 0 /\ fed = 0
    /\ accepted_messages = 0 /\ matched_ticker_messages = 0
    /\ ticker_hits = EmptyBag /\ reported = << >>

\* The symbol without the blanks and zeros it ends in.
symbol_to_string(symbol) ==
    LET kept == { k \in 0 .. 7 : symbol[k] \notin {0, 32} } IN
    IF kept = {} THEN << >> ELSE [k \in 1 .. Max(kept) + 1 |-> symbol[k - 1]]

\* The reset line is high for some edges, then low for some, with no data.
ResetTick ==
    /\ loop = "reset"
    /\ Reset
    /\ cycle' = cycle + 1
    /\ loop' = IF cycle + 1 = RESET_TICKS THEN "settle" ELSE "reset"
    /\ UNCHANGED <<file, target_ticker, fed, counts>>

SettleTick ==
    /\ loop = "settle"
    /\ Clock(FALSE, 0)
    /\ cycle' = cycle + 1
    /\ loop' = IF cycle + 1 = RESET_TICKS + SETTLE_TICKS THEN "feed" ELSE "settle"
    /\ UNCHANGED <<file, target_ticker, fed, counts>>

\* A fault: the symbol is read from before the edge.
CountMessageStale ==
    LET symbol == symbol_to_string(stock_symbol) IN
    IF ~msg_valid' THEN UNCHANGED counts
    ELSE /\ accepted_messages' = accepted_messages + 1
         /\ reported' = Append(reported, [end |-> fed + 1, type |-> msg_type'])
         /\ ticker_hits' = IF symbol = << >> THEN ticker_hits
                           ELSE ticker_hits (+) SetToBag({symbol})
         /\ UNCHANGED matched_ticker_messages

\* What the program does about the message reported by an edge, if any.
CountMessage ==
    LET symbol == symbol_to_string(stock_symbol') IN
    IF ~msg_valid' THEN UNCHANGED counts
    ELSE /\ accepted_messages' = accepted_messages + 1
         /\ reported' = Append(reported, [end |-> fed + 1, type |-> msg_type'])
         /\ IF target_ticker = Null
            THEN /\ ticker_hits' = IF symbol = << >> THEN ticker_hits
                                   ELSE ticker_hits (+) SetToBag({symbol})
                 /\ UNCHANGED matched_ticker_messages
            ELSE /\ matched_ticker_messages' =
                       matched_ticker_messages + IF symbol = target_ticker THEN 1 ELSE 0
                 /\ UNCHANGED ticker_hits

FeedTick ==
    /\ loop = "feed" /\ fed < Len(file)
    /\ Clock(TRUE, file[fed + 1])
    /\ CountMessage
    /\ fed' = fed + 1 /\ cycle' = cycle + 1
    /\ UNCHANGED <<file, target_ticker, loop>>

Summary ==
    /\ loop = "feed" /\ fed = Len(file)
    /\ loop' = "done"
    /\ UNCHANGED <<vars, file, target_ticker, cycle, fed, counts>>

BenchNext == ResetTick \/ SettleTick \/ FeedTick \/ Summary

Done == loop = "done"
=============================================================================
