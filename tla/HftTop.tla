-------------------------------- MODULE HftTop --------------------------------
(***************************************************************************)
(* hft_top.sv: the order tracker, the strategy and the OUCH generator on    *)
(* one clock.  At every rising edge each of them reads the outputs the     *)
(* others had before the edge, and the message bus of that edge.           *)
(*                                                                         *)
(* The bus carries any message, or none (valid low, with whatever is on    *)
(* the other lines), at any edge; tready is up to the network.             *)
(***************************************************************************)
EXTENDS Integers

CONSTANTS
    ADDR_WIDTH, ID_WIDTH, OrderIds,                       \* the tracker
    TARGET_LOCATE, MAX_POSITION, IMBALANCE_ALPHA,         \* the strategy
    ORDER_QTY, PRICE_OFFSET, WORD32, WORD64,
    TOKEN_RESET,                                          \* the generator
    Locates, Prices, Shares,    \* what occurs on the lines of the bus
    Types,
    Null

VARIABLES
    mem, t_read_valid, t_out,                             \* id_table
    send_order, order, total_bid_depth, total_ask_depth,  \* strategy_core
    current_position, risk_vault_locked,
    state, r, token, tvalid, tdata, tkeep, tlast          \* ouch_gen

Sides == {0, 1}

\* What is on the bus at an edge.
Message ==
    [ valid : BOOLEAN, type : Types, locate : Locates, side : Sides,
      price : Prices, shares : Shares, id : OrderIds ]

ASSUME BusAssumption ==
    /\ Prices \subseteq 0 .. WORD32 - 1
    /\ Shares \subseteq 0 .. WORD32 - 1

\* What the tracker keeps of an order, and what the generator is given.
OrderData == [side : Sides, price : Prices, shares : Shares]
OrderPorts == [side : Sides, price : 0 .. WORD32 - 1, qty : {0, ORDER_QTY}]

id_table == INSTANCE OrderIdTracker WITH
    Data <- OrderData,
    ZeroData <- [side |-> 0, price |-> 0, shares |-> 0],
    read_valid <- t_read_valid,
    out <- t_out

strategy_core == INSTANCE AlphaCore

ouch_gen == INSTANCE OuchGenerator WITH Trades <- OrderPorts

ASSUME StrategyAssumption == strategy_core!ParametersOK

\* The tokens of all the orders the limit allows fit in their register:
\* 5000 and fifty orders are far from 2^32.
ASSUME TokenRoomAssumption ==
    /\ TOKEN_RESET \in Nat
    /\ TOKEN_RESET + (MAX_POSITION \div ORDER_QTY) < WORD32

vars == <<id_table!vars, strategy_core!vars, ouch_gen!vars>>

TypeOK == id_table!TypeOK /\ strategy_core!TypeOK /\ ouch_gen!TypeOK

\* The registers of the generator that no reset sets start at zero; they are
\* written before they are read.
Init ==
    /\ id_table!Init
    /\ strategy_core!Init
    /\ ouch_gen!Init
    /\ r = [side |-> 0, price |-> 0, qty |-> 0]

Posedge(msg, tready) ==
    /\ id_table!Clock(strategy_core!IsAdd(msg), msg.id,
                      [side |-> msg.side, price |-> msg.price, shares |-> msg.shares],
                      strategy_core!tracker_read_en(msg), msg.id)
    /\ strategy_core!Clock(msg, t_read_valid, t_out)
    /\ ouch_gen!Clock(send_order, order, tready)

Clocked == \E msg \in Message, tready \in BOOLEAN : Posedge(msg, tready)

Reset == id_table!Reset /\ strategy_core!Reset /\ ouch_gen!Reset

Next == Clocked \/ Reset

\* The clock keeps running; messages, tready and resets are not promised.
Spec == Init /\ [][Next]_vars /\ WF_vars(Clocked)

-----------------------------------------------------------------------------
\* The orders the generator has taken from the strategy since the reset.
OrdersSent == token - TOKEN_RESET

\* An order is on the ports between the strategy and the generator.
Offered == IF send_order THEN ORDER_QTY ELSE 0

(***************************************************************************)
(* The pre-trade limit: the position stays within 0 and the limit, so the  *)
(* boundary check that follows an order by an edge never finds anything    *)
(* and the vault never locks (alpha_core.sv, lines 72-87).                 *)
(***************************************************************************)
RiskLimit ==
    /\ current_position \in 0 .. MAX_POSITION
    /\ ~risk_vault_locked

(***************************************************************************)
(* Whatever the generator has put into orders, and the order it is being   *)
(* offered, has been charged to the position: no order reaches the wire    *)
(* twice, or uncharged.  With RiskLimit, the shares ordered between two    *)
(* resets never exceed the limit.                                          *)
(***************************************************************************)
OrdersAreCharged ==
    /\ OrdersSent >= 0
    /\ ORDER_QTY * OrdersSent + Offered <= current_position

\* Tokens strictly increase between resets: the 32-bit counter cannot wrap,
\* because the position limit stops the orders first.
TokensIncrease == [][token' \in {token, token + 1} \/ Reset]_vars

(***************************************************************************)
(* The strategy runs dry: whatever the market does, and whatever part of   *)
(* its orders the generator drops, only resets let it send orders forever. *)
(***************************************************************************)
RunsDry == []<><<Reset>>_vars \/ <>[](~send_order /\ state = "IDLE")
=============================================================================
