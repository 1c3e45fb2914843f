--------------------------- MODULE CpuTradingEngine ---------------------------
(***************************************************************************)
(* cpu_trading_engine.h: the strategy in software.  It keeps an exact book *)
(* of the orders of one stock, the depth of each side, and a position that *)
(* grows when it sells.  Every Add may be answered with an order.          *)
(*                                                                         *)
(* Shares, prices and quantities are uint32_t, depths are uint64_t and     *)
(* position is an int32_t.  last_bid_price and last_ask_price are left     *)
(* out: nothing reads them but the getter.  The engine takes a message of  *)
(* any content at any time.                                                *)
(***************************************************************************)
EXTENDS Integers, FiniteSetsExt

CONSTANTS
    OrderIds,          \* the order references that occur
    Locates, Sides,    \* ... and the values of the other fields
    Prices, Shares,
    Types,
    TARGET_LOCATE,     \* the stock that is traded
    MAX_POSITION,      \* 5000 in the source
    IMBALANCE_ALPHA,   \* 3
    ORDER_QTY,         \* 100: the size of an order, at most
    PRICE_OFFSET,      \* 100
    WORD32,            \* 2^32
    WORD64,            \* 2^64
    Null               \* no such order in the book

ASSUME EngineAssumption ==
    /\ WORD32 \in Nat /\ WORD64 \in Nat \ {0}
    /\ MAX_POSITION \in Nat /\ ORDER_QTY \in Nat \ {0}
    /\ MAX_POSITION + ORDER_QTY < WORD32 \div 2
    /\ Shares \subseteq 0 .. WORD32 - 1

VARIABLES
    order_book,            \* order_book[id]: the order's side and shares, or Null
    bid_depth, ask_depth,
    position,
    decision               \* what the last call returned

vars == <<order_book, bid_depth, ask_depth, position, decision>>

\* What is left of an order in the book may be any number of shares.
OrderRecord == [side : Sides, shares : 0 .. WORD32 - 1]

None == [should_send |-> FALSE, side |-> 0, price |-> 0, qty |-> 0]

Init ==
    /\ order_book = [id \in OrderIds |-> Null]
    /\ bid_depth = 0 /\ ask_depth = 0
    /\ position = 0
    /\ decision = None

U32(n) == n % WORD32
U64(n) == n % WORD64
Signed32(n) == ((n + WORD32 \div 2) % WORD32) - WORD32 \div 2

AtMost(a, b) == IF a < b THEN a ELSE b
Less(depth, shares) == IF depth >= shares THEN depth - shares ELSE 0

\* Any side but 1 counts as a sale.
AddDepth(side, shares) ==
    IF side = 1 THEN bid_depth' = U64(bid_depth + shares) /\ UNCHANGED ask_depth
                ELSE ask_depth' = U64(ask_depth + shares) /\ UNCHANGED bid_depth

SubtractDepth(side, shares) ==
    IF side = 1 THEN bid_depth' = Less(bid_depth, shares) /\ UNCHANGED ask_depth
                ELSE ask_depth' = Less(ask_depth, shares) /\ UNCHANGED bid_depth

Imbalance == bid_depth' - ask_depth'

\* The bids outweigh the asks, and the position allows a sale.
SellSignal(shares) ==
    /\ Imbalance > U32(shares * IMBALANCE_ALPHA)
    /\ position < MAX_POSITION

\* The negation is of an unsigned number: it wraps around to a large one.
BuySignal(shares) ==
    /\ Imbalance < U32(-U32(shares * IMBALANCE_ALPHA))
    /\ position > -MAX_POSITION

\* A fault: the position is counted against no limit.
DecideUnlimited(price, shares) ==
    LET qty == AtMost(ORDER_QTY, shares \div 2) IN
    /\ decision' = [should_send |-> TRUE, side |-> 0,
                    price |-> U32(price - PRICE_OFFSET), qty |-> qty]
    /\ position' = Signed32(position + qty)

Decide(price, shares) ==
    LET qty == AtMost(ORDER_QTY, shares \div 2) IN
    IF SellSignal(shares)
    THEN /\ decision' = [should_send |-> TRUE, side |-> 0,
                         price |-> U32(price - PRICE_OFFSET), qty |-> qty]
         /\ position' = Signed32(position + qty)
    ELSE IF BuySignal(shares)
    THEN /\ decision' = [should_send |-> TRUE, side |-> 1,
                         price |-> U32(price + PRICE_OFFSET), qty |-> qty]
         /\ position' = Signed32(position - qty)
    ELSE decision' = None /\ UNCHANGED position

process_add_order(side, price, shares, id) ==
    /\ order_book' = [order_book EXCEPT ![id] = [side |-> side, shares |-> shares]]
    /\ AddDepth(side, shares)
    /\ Decide(price, shares)

NoDecision == decision' = None /\ UNCHANGED position

\* A Delete or a Cancel of an order that is not in the book.
Unknown(id) ==
    order_book[id] = Null /\ NoDecision /\ UNCHANGED <<order_book, bid_depth, ask_depth>>

process_delete_order(id) ==
    \/ Unknown(id)
    \/ /\ order_book[id] # Null
       /\ SubtractDepth(order_book[id].side, order_book[id].shares)
       /\ order_book' = [order_book EXCEPT ![id] = Null]
       /\ NoDecision

\* A fault: what is taken out of the depth is what the message says.
CancelBlindly(id, cancelled) ==
    \/ Unknown(id)
    \/ /\ order_book[id] # Null
       /\ SubtractDepth(order_book[id].side, cancelled)
       /\ order_book' = IF order_book[id].shares <= cancelled
                        THEN [order_book EXCEPT ![id] = Null]
                        ELSE [order_book EXCEPT ![id].shares = @ - cancelled]
       /\ NoDecision

\* All of the order, or a part of it.
process_cancel_order(id, cancelled) ==
    \/ Unknown(id)
    \/ /\ order_book[id] # Null /\ order_book[id].shares <= cancelled
       /\ SubtractDepth(order_book[id].side, order_book[id].shares)
       /\ order_book' = [order_book EXCEPT ![id] = Null]
       /\ NoDecision
    \/ /\ order_book[id] # Null /\ order_book[id].shares > cancelled
       /\ order_book' = [order_book EXCEPT ![id].shares = @ - cancelled]
       /\ SubtractDepth(order_book[id].side, cancelled)
       /\ NoDecision

process_execute_order(id, executed) == process_cancel_order(id, executed)

\* Messages of other stocks and of other types, 'F', 'U' and 'C' among them.
Ignore(type, locate) ==
    /\ locate # TARGET_LOCATE \/ type \notin {"A", "D", "X", "E"}
    /\ decision' = None
    /\ UNCHANGED <<order_book, bid_depth, ask_depth, position>>

process_itch_message(type, locate, side, price, shares, id) ==
    \/ Ignore(type, locate)
    \/ /\ locate = TARGET_LOCATE
       /\ \/ type = "A" /\ process_add_order(side, price, shares, id)
          \/ type = "D" /\ process_delete_order(id)
          \/ type = "X" /\ process_cancel_order(id, shares)
          \/ type = "E" /\ process_execute_order(id, shares)
=============================================================================
