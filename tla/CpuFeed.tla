------------------------------- MODULE CpuFeed -------------------------------
(***************************************************************************)
(* The software strategy on any sequence of messages, as the benchmarks    *)
(* feed it: real_itch_benchmark.cpp reads order references from the wrong  *)
(* place of a payload, so that a reference may well be added again while   *)
(* its order is in the book.  A history variable counts the shares of      *)
(* orders that were overwritten in that way.                               *)
(*                                                                         *)
(* DEPTH_BOUND keeps the state space finite: it ends the feed.             *)
(***************************************************************************)
EXTENDS CpuTradingEngine

CONSTANT DEPTH_BOUND   \* no Add beyond this depth

VARIABLE overwritten   \* overwritten[s]: shares lost on side s, 1 for bids

\* Finitely many orders, and the depth cannot reach the end of its word.
ASSUME FeedAssumption ==
    /\ IsFiniteSet(OrderIds)
    /\ Null \notin OrderRecord
    /\ DEPTH_BOUND \in Nat /\ DEPTH_BOUND < WORD64

feedVars == <<vars, overwritten>>

BookSide(side) == IF side = 1 THEN 1 ELSE 0

FeedInit == Init /\ overwritten = [s \in {0, 1} |-> 0]

Process(type, locate, side, price, shares, id) ==
    /\ type = "A" => bid_depth + shares <= DEPTH_BOUND /\ ask_depth + shares <= DEPTH_BOUND
    /\ process_itch_message(type, locate, side, price, shares, id)
    /\ overwritten' =
        IF type = "A" /\ locate = TARGET_LOCATE /\ order_book[id] # Null
        THEN [overwritten EXCEPT ![BookSide(order_book[id].side)] =
                  @ + order_book[id].shares]
        ELSE overwritten

FeedNext ==
    \E type \in Types, locate \in Locates, side \in Sides, price \in Prices,
       shares \in Shares, id \in OrderIds :
          Process(type, locate, side, price, shares, id)

FeedSpec == FeedInit /\ [][FeedNext]_feedVars

-----------------------------------------------------------------------------
\* The shares an order adds to a side of the book, and all of them.
SharesOn(side) ==
    [ id \in OrderIds |->
        IF order_book[id] # Null /\ BookSide(order_book[id].side) = side
        THEN order_book[id].shares
        ELSE 0 ]

BookShares(side) == SumFunctionOnSet(SharesOn(side), OrderIds)

(***************************************************************************)
(* The running depths are the sums over the book they are kept beside,     *)
(* plus the orders whose reference was used again: neither a partial       *)
(* cancel, nor an execution of more than is left, nor a second delete, nor *)
(* the clamping at zero makes them drift apart.                            *)
(***************************************************************************)
DepthIsBookPlusOverwritten ==
    /\ bid_depth = BookShares(1) + overwritten[1]
    /\ ask_depth = BookShares(0) + overwritten[0]

(***************************************************************************)
(* The limit is tested before an order and not with it, so the position    *)
(* can pass it by less than one order, on either side, and no more.        *)
(***************************************************************************)
PositionOvershoot ==
    /\ position < MAX_POSITION + ORDER_QTY
    /\ position > -(MAX_POSITION + ORDER_QTY)

(***************************************************************************)
(* cpu_trading_engine.h, line 104: "If ask side significantly larger than  *)
(* bid, buy".  So a decision to buy means that the asks outweigh the bids. *)
(***************************************************************************)
BuyMeansAsksOutweigh ==
    decision.should_send /\ decision.side = 1 => ask_depth > bid_depth
=============================================================================
