------------------------------ MODULE AlphaCore ------------------------------
(***************************************************************************)
(* alpha_core.sv: the strategy.  It keeps the total size of the bids and   *)
(* of the asks of one stock, and a position.  When the bids outweigh the   *)
(* asks it pulses send_order for one buy order, as long as the position    *)
(* limit allows; a position out of bounds locks the core for good.         *)
(*                                                                         *)
(* The message bus and the answer of the order tracker are inputs of the   *)
(* clock edge.  All assignments of the always_ff block are non-blocking:   *)
(* the right-hand sides are values before the edge, and of two assignments *)
(* to one register the later one in the text prevails.                     *)
(***************************************************************************)
EXTENDS Integers

CONSTANTS
    TARGET_LOCATE,     \* the stock that is traded
    MAX_POSITION,      \* the position limit (5000 in the source)
    IMBALANCE_ALPHA,   \* how far the bids must outweigh the asks (3)
    ORDER_QTY,         \* the size of an order (100)
    PRICE_OFFSET,      \* how far an order is priced above the bus (100)
    WORD32, WORD64     \* 2^32 and 2^64: the ranges of the registers

\* What the strategy asks of its parameters: the limit leaves room for one
\* more order in a signed 32-bit register.
ParametersOK ==
    /\ MAX_POSITION \in Nat
    /\ ORDER_QTY \in Nat \ {0}
    /\ WORD32 \in Nat /\ MAX_POSITION + ORDER_QTY < WORD32 \div 2
    /\ WORD64 \in Nat \ {0}
    /\ IMBALANCE_ALPHA \in Nat
    /\ PRICE_OFFSET \in Nat

VARIABLES
    send_order,          \* an order is on the order_* ports
    order,               \* order_side, order_price and order_qty
    total_bid_depth,     \* shares bid for
    total_ask_depth,     \* shares asked for
    current_position,    \* shares bought
    risk_vault_locked    \* no more orders

vars == <<send_order, order, total_bid_depth, total_ask_depth,
          current_position, risk_vault_locked>>

BUY == 1
SELL == 0

Word32 == 0 .. WORD32 - 1
Word64 == 0 .. WORD64 - 1

\* A 32-bit result read as a signed number.
Signed32(n) == ((n + WORD32 \div 2) % WORD32) - WORD32 \div 2

TypeOK ==
    /\ send_order \in BOOLEAN
    /\ order \in [side : {BUY, SELL}, price : Word32, qty : {0, ORDER_QTY}]
    /\ total_bid_depth \in Word64
    /\ total_ask_depth \in Word64
    /\ current_position \in -(WORD32 \div 2) .. (WORD32 \div 2) - 1
    /\ risk_vault_locked \in BOOLEAN

Init ==
    /\ send_order = FALSE
    /\ order = [side |-> BUY, price |-> 0, qty |-> 0]
    /\ total_bid_depth = 0
    /\ total_ask_depth = 0
    /\ current_position = 0
    /\ risk_vault_locked = FALSE

Reset ==
    /\ send_order' = FALSE
    /\ order' = [side |-> BUY, price |-> 0, qty |-> 0]
    /\ total_bid_depth' = 0
    /\ total_ask_depth' = 0
    /\ current_position' = 0
    /\ risk_vault_locked' = FALSE

-----------------------------------------------------------------------------
IsAdd(msg) == msg.valid /\ msg.type \in {"A", "F"}

\* A fault: executions ask the tracker as well.
TrackerReadAlsoExecutions(msg) ==
    msg.valid /\ msg.locate = TARGET_LOCATE /\ msg.type \in {"D", "X", "E"}

\* The lookup request to the tracker, combinational.
tracker_read_en(msg) ==
    msg.valid /\ msg.locate = TARGET_LOCATE /\ msg.type \in {"D", "X"}

\* A fault: the subtraction does not stop at zero.
LessUnclamped(depth, shares) == depth - shares

Less(depth, shares) == IF depth > shares THEN depth - shares ELSE 0

\* The next depth of one side.  An order the tracker found is taken out in
\* the cycle after its message; an Add of that same side on the bus in that
\* cycle is assigned first, so it has no effect.
NextDepth(depth, side, msg, found_valid, found) ==
    IF found_valid /\ found.side = side
    THEN Less(depth, found.shares)
    ELSE IF IsAdd(msg) /\ msg.locate = TARGET_LOCATE /\ msg.side = side
         THEN (depth + msg.shares) % WORD64
         ELSE depth

Book(msg, found_valid, found) ==
    /\ total_bid_depth' = NextDepth(total_bid_depth, BUY, msg, found_valid, found)
    /\ total_ask_depth' = NextDepth(total_ask_depth, SELL, msg, found_valid, found)

\* A fault: the limit is checked against the position before the order.
SignalLate ==
    /\ ~risk_vault_locked
    /\ total_bid_depth > (total_ask_depth * IMBALANCE_ALPHA) % WORD64
    /\ total_ask_depth > 0
    /\ current_position <= MAX_POSITION

\* The imbalance is that of the registers, as they were before the edge.
Signal ==
    /\ ~risk_vault_locked
    /\ total_bid_depth > (total_ask_depth * IMBALANCE_ALPHA) % WORD64
    /\ total_ask_depth > 0
    /\ Signed32(current_position + ORDER_QTY) <= MAX_POSITION

\* A fault: the order is not charged to the position.
TradeUncharged(msg) ==
    IF Signal
    THEN /\ send_order' = TRUE
         /\ order' = [side |-> BUY, qty |-> ORDER_QTY,
                      price |-> (msg.price + PRICE_OFFSET) % WORD32]
         /\ UNCHANGED current_position
    ELSE send_order' = FALSE /\ UNCHANGED <<order, current_position>>

\* The order takes its price from whatever is on the bus at this edge.
Trade(msg) ==
    IF Signal
    THEN /\ send_order' = TRUE
         /\ order' = [side |-> BUY, qty |-> ORDER_QTY,
                      price |-> (msg.price + PRICE_OFFSET) % WORD32]
         /\ current_position' = Signed32(current_position + ORDER_QTY)
    ELSE send_order' = FALSE /\ UNCHANGED <<order, current_position>>

BoundaryCheck ==
    risk_vault_locked' = (\/ risk_vault_locked
                          \/ current_position > MAX_POSITION
                          \/ current_position < -MAX_POSITION)

Clock(msg, found_valid, found) ==
    /\ Book(msg, found_valid, found)
    /\ Trade(msg)
    /\ BoundaryCheck
=============================================================================
