----------------------------- MODULE DesignProofs -----------------------------
(***************************************************************************)
(* Proofs about the composed design.  In any environment: its type         *)
(* invariant, the position limit, the accounting of orders against the     *)
(* position, and the tokens.  On a legal feed: the tracker finds a live    *)
(* order exactly when no later Add took its slot, and the depths are the   *)
(* sums over the book, with what executions and evictions leaked.  In the  *)
(* simulation harness, for every script and length of its loops: what a    *)
(* latency means, when a poll may be given up, and that no frame is        *)
(* measured twice.                                                         *)
(***************************************************************************)
EXTENDS HftBook, SimHarness, SumProofs, SequenceTheorems

\* The inductive invariant: the tokens are bounded by the position, and the
\* position by the limit.
TopInv == TypeOK /\ RiskLimit /\ OrdersAreCharged

-----------------------------------------------------------------------------
\* Arithmetic of the registers.

LEMMA ModRange == \A m \in Nat \ {0}, a \in Nat : a % m \in 0 .. m - 1
  OBVIOUS

LEMMA ModSmall == \A m \in Nat \ {0}, a \in Nat : a < m => a % m = a
  OBVIOUS

LEMMA HalfWord == \A w \in Nat : w \div 2 \in Nat /\ 2 * (w \div 2) <= w
  OBVIOUS

LEMMA TimesMonotone == \A q, a, b \in Nat : a <= b => q * a <= q * b
<1> SUFFICES ASSUME NEW q \in Nat, NEW a \in Nat, NEW b \in Nat, a <= b
             PROVE  q * a <= q * b
  OBVIOUS
<1>1. PICK c \in Nat : b = a + c
  <2>1. b - a \in Nat /\ b = a + (b - a)
    OBVIOUS
  <2> QED
    BY <2>1
<1>2. q * b = q * a + q * c /\ q * c \in Nat /\ q * a \in Nat
  BY <1>1
<1> QED
  BY <1>2

\* No more than m \div q portions of size q fit into m.
LEMMA PortionsFit ==
  ASSUME NEW q \in Nat \ {0}, NEW m \in Nat, NEW k \in Nat, q * k <= m
  PROVE  k <= m \div q
<1> DEFINE d == m \div q
<1>1. d \in Nat /\ m < q * (d + 1)
  OBVIOUS
<1> HIDE DEF d
<1>2. ASSUME ~(k <= d)
      PROVE  FALSE
  <2>1. d + 1 <= k
    BY <1>1, <1>2
  <2>2. q * (d + 1) <= q * k
    BY <1>1, <2>1, TimesMonotone
  <2>3. q * (d + 1) \in Nat /\ q * k \in Nat
    BY <1>1
  <2> QED
    BY <1>1, <2>2, <2>3
<1> QED
  BY <1>2 DEF d

LEMMA WordsAreNat == WORD32 \in Nat \ {0} /\ WORD64 \in Nat \ {0}
  BY StrategyAssumption, HalfWord DEF strategy_core!ParametersOK

LEMMA LinesAreNat == Shares \subseteq Nat /\ Prices \subseteq Nat
  BY BusAssumption, WordsAreNat

\* Within the limit, charging one more order does not wrap the register.
LEMMA ChargeIsExact ==
  ASSUME NEW p \in 0 .. MAX_POSITION
  PROVE  strategy_core!Signed32(p + ORDER_QTY) = p + ORDER_QTY
<1> DEFINE half == WORD32 \div 2
<1>1. half \in Nat /\ 2 * half <= WORD32
  BY HalfWord, WordsAreNat
<1>2. p + ORDER_QTY + half \in Nat /\ p + ORDER_QTY + half < WORD32
  BY <1>1, WordsAreNat, StrategyAssumption DEF strategy_core!ParametersOK
<1>3. (p + ORDER_QTY + half) % WORD32 = p + ORDER_QTY + half
  BY <1>2, ModSmall, WordsAreNat
<1> HIDE DEF half
<1>4. (p + ORDER_QTY + half) - half = p + ORDER_QTY
  BY <1>1, StrategyAssumption DEF strategy_core!ParametersOK
<1> QED
  BY <1>3, <1>4 DEF strategy_core!Signed32, half

-----------------------------------------------------------------------------
LEMMA InitTopInv == Init => TopInv
<1> SUFFICES ASSUME Init
             PROVE  TopInv
  OBVIOUS
<1> USE WordsAreNat, StrategyAssumption, TokenRoomAssumption DEF strategy_core!ParametersOK
<1>1. id_table!TypeOK
  BY DEF Init, id_table!Init, id_table!TypeOK
<1>2. strategy_core!TypeOK
  <2>1. 0 \in -(WORD32 \div 2) .. (WORD32 \div 2) - 1
    OBVIOUS
  <2>2. 0 \in 0 .. WORD32 - 1 /\ 0 \in 0 .. WORD64 - 1
    OBVIOUS
  <2> QED
    BY <2>1, <2>2 DEF Init, strategy_core!Init, strategy_core!TypeOK,
       strategy_core!Word32, strategy_core!Word64, strategy_core!BUY, strategy_core!SELL
<1>3. ouch_gen!TypeOK
  <2>1. r \in OrderPorts
    BY DEF Init, OrderPorts, Sides
  <2>2. TOKEN_RESET \in 0 .. WORD32 - 1
    OBVIOUS
  <2> QED
    BY <2>1, <2>2 DEF Init, ouch_gen!Init, ouch_gen!TypeOK, ouch_gen!Tokens, ouch_gen!FsmStates
<1>4. RiskLimit
  BY DEF Init, strategy_core!Init, RiskLimit
<1>5. OrdersAreCharged
  BY DEF Init, strategy_core!Init, ouch_gen!Init, OrdersAreCharged, OrdersSent, Offered
<1> QED
  BY <1>1, <1>2, <1>3, <1>4, <1>5 DEF TopInv, TypeOK

-----------------------------------------------------------------------------
\* One edge of each component preserves its types.

LEMMA TrackerStep ==
  ASSUME TopInv, NEW write_en \in BOOLEAN, NEW read_en \in BOOLEAN,
         NEW w \in OrderIds, NEW i \in OrderIds, NEW d \in OrderData,
         id_table!Clock(write_en, w, d, read_en, i)
  PROVE  id_table!TypeOK'
<1>1. id_table!get_hash(w) \in id_table!Slots /\ id_table!get_hash(i) \in id_table!Slots
  BY DEF id_table!get_hash, id_table!Slots
<1>2. [order_id |-> w, data |-> d] \in id_table!Entry
  BY DEF id_table!Entry
<1>3. id_table!TypeOK
  BY DEF TopInv, TypeOK
<1>4. mem' \in [id_table!Slots -> id_table!Entry \cup {Null}]
  BY <1>1, <1>2, <1>3 DEF id_table!TypeOK, id_table!Clock, id_table!WritePort
<1>5. t_read_valid' \in BOOLEAN
  BY DEF id_table!Clock, id_table!ReadPort, id_table!Hit
<1>6. t_out' \in OrderData \cup {[side |-> 0, price |-> 0, shares |-> 0]}
  <2>1. CASE read_en /\ id_table!Hit(i)
    <3>1. mem[id_table!get_hash(i)] \in id_table!Entry
      BY <2>1, <1>1, <1>3 DEF id_table!Hit, id_table!TypeOK
    <3> QED
      BY <2>1, <3>1 DEF id_table!Clock, id_table!ReadPort, id_table!Entry
  <2>2. CASE ~(read_en /\ id_table!Hit(i))
    BY <2>2, <1>3 DEF id_table!Clock, id_table!ReadPort, id_table!TypeOK
  <2> QED
    BY <2>1, <2>2
<1> QED
  BY <1>4, <1>5, <1>6 DEF id_table!TypeOK

\* A depth stays in its register, whatever is added or taken out.
LEMMA DepthStep ==
  ASSUME NEW depth \in 0 .. WORD64 - 1, NEW side, NEW msg \in Message,
         NEW found_valid, NEW found, found.shares \in Nat
  PROVE  strategy_core!NextDepth(depth, side, msg, found_valid, found) \in 0 .. WORD64 - 1
<1>1. msg.shares \in Nat
  <2>1. msg.shares \in Shares
    BY DEF Message
  <2> QED
    BY <2>1, LinesAreNat
<1>2. (depth + msg.shares) % WORD64 \in 0 .. WORD64 - 1
  <2>1. depth + msg.shares \in Nat
    BY <1>1, WordsAreNat
  <2> QED
    BY <2>1, ModRange, WordsAreNat
<1>3. strategy_core!Less(depth, found.shares) \in 0 .. WORD64 - 1
  BY WordsAreNat DEF strategy_core!Less
<1> QED
  BY <1>2, <1>3 DEF strategy_core!NextDepth

\* The order, the position and the vault after an edge.
LEMMA TradeStep ==
  ASSUME TopInv, NEW msg \in Message,
         strategy_core!Trade(msg), strategy_core!BoundaryCheck
  PROVE  /\ send_order' \in BOOLEAN
         /\ order' \in OrderPorts
         /\ RiskLimit'
         /\ send_order' => current_position' = current_position + ORDER_QTY
         /\ ~send_order' => current_position' = current_position
<1> USE StrategyAssumption, WordsAreNat DEF strategy_core!ParametersOK
<1>1. current_position \in 0 .. MAX_POSITION /\ ~risk_vault_locked
  BY DEF TopInv, RiskLimit
<1>2. ~risk_vault_locked'
  BY <1>1 DEF strategy_core!BoundaryCheck
<1>3. strategy_core!Signed32(current_position + ORDER_QTY) = current_position + ORDER_QTY
  BY <1>1, ChargeIsExact
<1>4. CASE strategy_core!Signal
  <2>1. current_position + ORDER_QTY <= MAX_POSITION
    BY <1>3, <1>4 DEF strategy_core!Signal
  <2>2. (msg.price + PRICE_OFFSET) % WORD32 \in 0 .. WORD32 - 1
    <3>1. msg.price \in Nat
      BY LinesAreNat DEF Message
    <3>2. msg.price + PRICE_OFFSET \in Nat
      BY <3>1
    <3> QED
      BY <3>2, ModRange
  <2> QED
    BY <1>1, <1>2, <1>3, <1>4, <2>1, <2>2
       DEF strategy_core!Trade, RiskLimit, OrderPorts, Sides, strategy_core!BUY
<1>5. CASE ~strategy_core!Signal
  <2>1. order \in OrderPorts
    BY DEF TopInv, TypeOK, strategy_core!TypeOK, OrderPorts, Sides,
       strategy_core!Word32, strategy_core!BUY, strategy_core!SELL
  <2> QED
    BY <1>1, <1>2, <1>5, <2>1 DEF strategy_core!Trade, RiskLimit
<1> QED
  BY <1>4, <1>5

LEMMA StrategyStep ==
  ASSUME TopInv, NEW msg \in Message,
         strategy_core!Clock(msg, t_read_valid, t_out)
  PROVE  strategy_core!TypeOK'
<1>1. t_out.shares \in Nat
  <2>1. \/ t_out \in OrderData
        \/ t_out = [side |-> 0, price |-> 0, shares |-> 0]
    BY DEF TopInv, TypeOK, id_table!TypeOK
  <2>2. t_out.shares \in Shares \cup {0}
    BY <2>1 DEF OrderData
  <2>3. 0 \in Nat
    OBVIOUS
  <2> QED
    BY <2>2, <2>3, LinesAreNat, Zenon
<1>2. /\ total_bid_depth \in 0 .. WORD64 - 1
      /\ total_ask_depth \in 0 .. WORD64 - 1
  BY DEF TopInv, TypeOK, strategy_core!TypeOK, strategy_core!Word64
<1>3. /\ total_bid_depth' \in 0 .. WORD64 - 1
      /\ total_ask_depth' \in 0 .. WORD64 - 1
  BY <1>1, <1>2, DepthStep DEF strategy_core!Clock, strategy_core!Book
<1>4. /\ send_order' \in BOOLEAN
      /\ order' \in OrderPorts
      /\ RiskLimit'
  BY TradeStep DEF strategy_core!Clock
<1>5. order' \in [side : {1, 0}, price : 0 .. WORD32 - 1, qty : {0, ORDER_QTY}]
  BY <1>4 DEF OrderPorts, Sides
<1>6. current_position' \in -(WORD32 \div 2) .. (WORD32 \div 2) - 1
  BY <1>4, StrategyAssumption, WordsAreNat DEF RiskLimit, strategy_core!ParametersOK
<1>7. risk_vault_locked' \in BOOLEAN
  BY DEF strategy_core!Clock, strategy_core!BoundaryCheck,
         TopInv, TypeOK, strategy_core!TypeOK
<1> QED
  BY <1>3, <1>4, <1>5, <1>6, <1>7
     DEF strategy_core!TypeOK, strategy_core!Word32, strategy_core!Word64,
         strategy_core!BUY, strategy_core!SELL

\* The generator takes a trade only from the ports, and then its token is
\* the next one: there is room for it, because the order was charged.
LEMMA GeneratorStep ==
  ASSUME TopInv, NEW tready \in BOOLEAN, ouch_gen!Clock(send_order, order, tready)
  PROVE  /\ ouch_gen!TypeOK'
         /\ \/ token' = token
            \/ send_order /\ token' = token + 1
<1> USE StrategyAssumption, TokenRoomAssumption, WordsAreNat DEF strategy_core!ParametersOK
<1>1. ouch_gen!TypeOK /\ token \in 0 .. WORD32 - 1
  BY DEF TopInv, TypeOK, ouch_gen!TypeOK, ouch_gen!Tokens
<1>2. order \in OrderPorts
  BY DEF TopInv, TypeOK, strategy_core!TypeOK, OrderPorts, Sides,
     strategy_core!Word32, strategy_core!BUY, strategy_core!SELL
<1>3. CASE ouch_gen!Accept(send_order, order, tready)
  <2>1. send_order /\ token' = (token + 1) % WORD32
    BY <1>3 DEF ouch_gen!Accept
  <2>2. token + 1 < WORD32
    <3> DEFINE k == token + 1 - TOKEN_RESET
    <3>1. k \in Nat /\ ORDER_QTY * (token - TOKEN_RESET) + ORDER_QTY <= MAX_POSITION
      BY <1>1, <2>1 DEF TopInv, RiskLimit, OrdersAreCharged, OrdersSent, Offered
    <3>2. ORDER_QTY * k = ORDER_QTY * (token - TOKEN_RESET) + ORDER_QTY
      BY <1>1
    <3>3. k <= MAX_POSITION \div ORDER_QTY
      BY <3>1, <3>2, PortionsFit
    <3>4. MAX_POSITION \div ORDER_QTY \in Nat
      OBVIOUS
    <3> QED
      BY <1>1, <3>3, <3>4
  <2>3. token' = token + 1
    BY <1>1, <2>1, <2>2, ModSmall
  <2>4. token' \in 0 .. WORD32 - 1
    BY <1>1, <2>2, <2>3
  <2>5. /\ r' = order /\ state' = "HDR1"
        /\ tvalid' = FALSE /\ tkeep' = FALSE /\ tlast' = FALSE
    BY <1>3 DEF ouch_gen!Accept
  <2>6. ouch_gen!TypeOK'
    BY <1>2, <2>4, <2>5 DEF ouch_gen!TypeOK, ouch_gen!Tokens, ouch_gen!FsmStates
  <2> QED
    BY <2>1, <2>3, <2>6
<1>4. CASE ouch_gen!Wait(send_order, tready)
  BY <1>1, <1>4 DEF ouch_gen!Wait, ouch_gen!TypeOK, ouch_gen!FsmStates
<1>5. CASE \/ ouch_gen!Hdr1 \/ ouch_gen!Hdr2
           \/ ouch_gen!Ouch1 \/ ouch_gen!Ouch2 \/ ouch_gen!Ouch3
  BY <1>1, <1>5 DEF ouch_gen!Hdr1, ouch_gen!Hdr2, ouch_gen!Ouch1, ouch_gen!Ouch2,
     ouch_gen!Ouch3, ouch_gen!Beat, ouch_gen!TypeOK, ouch_gen!FsmStates
<1>6. CASE ouch_gen!Done
  BY <1>1, <1>6 DEF ouch_gen!Done, ouch_gen!TypeOK, ouch_gen!FsmStates
<1> QED
  BY <1>3, <1>4, <1>5, <1>6 DEF ouch_gen!Clock

-----------------------------------------------------------------------------
\* What one edge does to the bounds: an order that is taken was offered, an
\* order that is offered is charged.
LEMMA EdgeStep ==
  ASSUME TopInv, NEW msg \in Message, NEW tready \in BOOLEAN, Posedge(msg, tready)
  PROVE  TopInv' /\ token' \in {token, token + 1}
<1>1. [side |-> msg.side, price |-> msg.price, shares |-> msg.shares] \in OrderData
  BY DEF Message, OrderData
<1>2. /\ msg.id \in OrderIds
      /\ strategy_core!IsAdd(msg) \in BOOLEAN
      /\ strategy_core!tracker_read_en(msg) \in BOOLEAN
  BY DEF Message, strategy_core!IsAdd, strategy_core!tracker_read_en
<1>3. id_table!TypeOK'
  BY <1>1, <1>2, TrackerStep DEF Posedge
<1>4. strategy_core!TypeOK'
  BY StrategyStep DEF Posedge
<1>5. /\ ouch_gen!TypeOK'
      /\ \/ token' = token
         \/ send_order /\ token' = token + 1
  BY GeneratorStep DEF Posedge
<1>6. /\ send_order' \in BOOLEAN
      /\ RiskLimit'
      /\ send_order' => current_position' = current_position + ORDER_QTY
      /\ ~send_order' => current_position' = current_position
  BY TradeStep DEF Posedge, strategy_core!Clock
<1>7. OrdersAreCharged'
  <2> DEFINE n == token - TOKEN_RESET
             m == token' - TOKEN_RESET
  <2>1. /\ ORDER_QTY \in Nat /\ n \in Nat /\ current_position \in Nat
        /\ ORDER_QTY * n + Offered <= current_position
    BY StrategyAssumption, TokenRoomAssumption, WordsAreNat
       DEF TopInv, OrdersAreCharged, OrdersSent, RiskLimit, strategy_core!ParametersOK,
           TypeOK, ouch_gen!TypeOK, ouch_gen!Tokens
  <2>2. token \in Nat /\ TOKEN_RESET \in Nat
    BY TokenRoomAssumption, WordsAreNat DEF TopInv, TypeOK, ouch_gen!TypeOK, ouch_gen!Tokens
  <2>3. m = n \/ (send_order /\ m = n + 1)
    BY <1>5, <2>2
  <2>4. current_position' = current_position + Offered'
    BY <1>6, <2>1 DEF Offered
  <2>5. Offered \in Nat /\ Offered' \in Nat
    BY <2>1 DEF Offered
  <2> HIDE DEF n, m
  <2>6. m \in Nat
    BY <2>1, <2>3
  <2>7. /\ ORDER_QTY * n \in Nat
        /\ ORDER_QTY * (n + 1) = ORDER_QTY * n + ORDER_QTY
    BY <2>1
  <2>8. ORDER_QTY * m \in Nat /\ ORDER_QTY * m <= ORDER_QTY * n + Offered
    BY <2>1, <2>3, <2>5, <2>7 DEF Offered
  <2>9. ORDER_QTY * m + Offered' <= current_position'
    BY <2>1, <2>4, <2>5, <2>7, <2>8
  <2> USE DEF n, m
  <2> QED
    BY <2>6, <2>9 DEF OrdersAreCharged, OrdersSent
<1> QED
  BY <1>3, <1>4, <1>5, <1>6, <1>7 DEF TopInv, TypeOK

LEMMA ResetStep ==
  ASSUME TopInv, Reset
  PROVE  TopInv'
<1> USE WordsAreNat, StrategyAssumption, TokenRoomAssumption DEF strategy_core!ParametersOK
<1>1. id_table!TypeOK'
  BY DEF Reset, id_table!Reset, id_table!TypeOK
<1>2. strategy_core!TypeOK'
  <2>1. 0 \in -(WORD32 \div 2) .. (WORD32 \div 2) - 1
    OBVIOUS
  <2>2. 0 \in 0 .. WORD32 - 1 /\ 0 \in 0 .. WORD64 - 1
    OBVIOUS
  <2> QED
    BY <2>1, <2>2 DEF Reset, strategy_core!Reset, strategy_core!TypeOK,
       strategy_core!Word32, strategy_core!Word64, strategy_core!BUY, strategy_core!SELL
<1>3. ouch_gen!TypeOK'
  <2>1. TOKEN_RESET \in 0 .. WORD32 - 1
    OBVIOUS
  <2> QED
    BY <2>1 DEF Reset, ouch_gen!Reset, ouch_gen!TypeOK, ouch_gen!Tokens,
       ouch_gen!FsmStates, TopInv, TypeOK
<1>4. RiskLimit'
  BY DEF Reset, strategy_core!Reset, RiskLimit
<1>5. OrdersAreCharged'
  BY DEF Reset, strategy_core!Reset, ouch_gen!Reset, OrdersAreCharged, OrdersSent, Offered
<1> QED
  BY <1>1, <1>2, <1>3, <1>4, <1>5 DEF TopInv, TypeOK

LEMMA StutterStep ==
  ASSUME TopInv, UNCHANGED vars
  PROVE  TopInv' /\ token' = token
  BY DEF TopInv, TypeOK, RiskLimit, OrdersAreCharged, OrdersSent, Offered, vars,
     id_table!vars, strategy_core!vars, ouch_gen!vars,
     id_table!TypeOK, strategy_core!TypeOK, ouch_gen!TypeOK

LEMMA NextTopInv == TopInv /\ [Next]_vars => TopInv'
  BY EdgeStep, ResetStep, StutterStep DEF Next, Clocked

LEMMA TopInvariant == Spec => []TopInv
  BY InitTopInv, NextTopInv, PTL DEF Spec

-----------------------------------------------------------------------------
\* Every register of the design keeps to its width.
THEOREM TypeCorrect == Spec => []TypeOK
<1>1. TopInv => TypeOK
  BY DEF TopInv
<1> QED
  BY <1>1, TopInvariant, PTL

(***************************************************************************)
(* The position never leaves 0 .. MAX_POSITION and the risk vault never    *)
(* locks, for any limit, order size and market (alpha_core.sv, 72-87).     *)
(***************************************************************************)
THEOREM PositionStaysWithinLimit == Spec => []RiskLimit
<1>1. TopInv => RiskLimit
  BY DEF TopInv
<1> QED
  BY <1>1, TopInvariant, PTL

(***************************************************************************)
(* Every order the generator has been given was charged to the position    *)
(* before, once (alpha_core.sv, line 79, ouch_parket_generator.sv, 36-41). *)
(***************************************************************************)
THEOREM EveryOrderIsCharged == Spec => []OrdersAreCharged
<1>1. TopInv => OrdersAreCharged
  BY DEF TopInv
<1> QED
  BY <1>1, TopInvariant, PTL

(***************************************************************************)
(* Between resets the tokens of the orders are consecutive: the position   *)
(* limit stops the orders before the counter can wrap.                     *)
(***************************************************************************)
THEOREM TokensOnlyIncrease == Spec => TokensIncrease
<1>1. TopInv /\ [Next]_vars => [token' \in {token, token + 1} \/ Reset]_vars
  BY EdgeStep DEF Next, Clocked
<1> QED
  BY <1>1, TopInvariant, PTL DEF Spec, TokensIncrease

-----------------------------------------------------------------------------
(***************************************************************************)
(* The design on a legal feed.                                             *)
(***************************************************************************)

\* What TrackerFindsLive says of one order.
Agrees(id) ==
    Live(id) =>
        /\ id_table!Hit(id) <=> ~book[id].evicted
        /\ id_table!Hit(id) =>
              /\ mem[id_table!get_hash(id)].data.side = book[id].side
              /\ IF book[id].reduced
                 THEN mem[id_table!get_hash(id)].data.shares > book[id].shares + book[id].lost
                 ELSE mem[id_table!get_hash(id)].data.shares = book[id].shares + book[id].lost

\* The inductive invariant: the shares left of an order and those that leaked
\* from it are together no more than an order can have.
BookInv ==
    /\ mem \in [id_table!Slots -> id_table!Entry \cup {Null}]
    /\ TrackerFindsLive
    /\ \A id \in OrderIds :
          book[id] # Null => book[id].shares + book[id].lost <= MaxShares

-----------------------------------------------------------------------------
LEMMA FindsIsAgrees ==
  TrackerFindsLive <=> /\ book \in [OrderIds -> BookOrder \cup {Null}]
                       /\ quiet \in 0 .. Gap
                       /\ \A id \in OrderIds : Agrees(id)
  BY DEF TrackerFindsLive, Agrees

LEMMA SharesAreBounded ==
  /\ MaxShares \in Nat
  /\ \A shares \in Shares : shares \in Nat /\ 0 < shares /\ shares <= MaxShares
<1>1. PICK most \in Shares : \A shares \in Shares : most >= shares
  BY FeedAssumption
<1>2. MaxShares \in Shares /\ \A shares \in Shares : MaxShares >= shares
  BY <1>1 DEF MaxShares, Max
<1> QED
  BY <1>2, FeedAssumption

LEMMA HashType == \A id \in OrderIds : id_table!get_hash(id) \in id_table!Slots
  BY DEF id_table!get_hash, id_table!Slots

\* The fold of a reference does not depend on the state.
LEMMA HashIsRigid == \A id : id_table!get_hash(id)' = id_table!get_hash(id)
  BY DEF id_table!get_hash

LEMMA HitNext ==
  ASSUME NEW id \in OrderIds
  PROVE  id_table!Hit(id)' <=> /\ mem'[id_table!get_hash(id)] # Null
                               /\ mem'[id_table!get_hash(id)].order_id = id
  BY DEF id_table!Hit, id_table!get_hash

\* What an order in the tracker and an order in the book consist of.
LEMMA EntryParts ==
  ASSUME BookInv, NEW id \in OrderIds, id_table!Hit(id)
  PROVE  mem[id_table!get_hash(id)].data.shares \in Nat
<1>1. mem[id_table!get_hash(id)] \in id_table!Entry
  BY HashType DEF BookInv, id_table!Hit
<1>2. mem[id_table!get_hash(id)].data \in OrderData
  BY <1>1 DEF id_table!Entry
<1> QED
  BY <1>2, SharesAreBounded DEF OrderData

LEMMA BookParts ==
  ASSUME BookInv, NEW id \in OrderIds, book[id] # Null
  PROVE  /\ book[id] \in BookOrder
         /\ book[id].shares \in Nat /\ book[id].lost \in Nat
         /\ book[id].shares + book[id].lost <= MaxShares
         /\ book[id].evicted \in BOOLEAN /\ book[id].reduced \in BOOLEAN
<1>1. book[id] \in BookOrder
  BY DEF BookInv, TrackerFindsLive
<1> QED
  BY <1>1, SharesAreBounded DEF BookOrder, BookInv

\* An execution moves shares within an order.
LEMMA ExecutedParts ==
  ASSUME NEW bookOrder \in BookOrder, NEW shares \in Nat, shares <= bookOrder.shares,
         bookOrder.shares + bookOrder.lost <= MaxShares
  PROVE  LET after == Executed(bookOrder, shares)
         IN  /\ after \in BookOrder
             /\ after.shares = bookOrder.shares - shares
             /\ after.lost = bookOrder.lost + shares
             /\ after.status = IF shares = bookOrder.shares THEN "gone" ELSE "live"
             /\ after.side = bookOrder.side /\ after.locate = bookOrder.locate
             /\ after.evicted = bookOrder.evicted /\ after.reduced = bookOrder.reduced
<1>1. /\ bookOrder.shares - shares \in 0 .. MaxShares
      /\ bookOrder.lost + shares \in 0 .. MaxShares
  BY SharesAreBounded DEF BookOrder
<1> QED
  BY <1>1 DEF BookOrder, Executed

LEMMA FindsNextParts ==
  ASSUME BookInv', NEW id \in OrderIds, book'[id] # Null
  PROVE  book'[id] \in BookOrder
<1>1. book' \in [OrderIds -> BookOrder \cup {Null}]
  BY DEF BookInv, TrackerFindsLive, BookOrder, MaxShares, Max
<1> QED
  BY <1>1

\* The tracker's data about an order is at least what is left of it and what
\* was executed.
LEMMA TrackerHasEnough ==
  ASSUME BookInv, NEW id \in OrderIds, Live(id), id_table!Hit(id)
  PROVE  mem[id_table!get_hash(id)].data.shares >= book[id].shares + book[id].lost
<1>1. Agrees(id)
  BY FindsIsAgrees DEF BookInv
<1> QED
  BY <1>1, EntryParts, BookParts DEF Agrees, Live

-----------------------------------------------------------------------------
\* An edge without an Add leaves the memory alone; one with an Add writes it.
LEMMA MemoryAtEdge ==
  ASSUME NEW msg \in Message, NEW tready \in BOOLEAN, Posedge(msg, tready)
  PROVE  mem' = IF msg.valid /\ msg.type \in {"A", "F"}
                THEN [mem EXCEPT ![id_table!get_hash(msg.id)] =
                         [order_id |-> msg.id,
                          data |-> [side |-> msg.side, price |-> msg.price,
                                    shares |-> msg.shares]]]
                ELSE mem
  BY DEF Posedge, id_table!Clock, id_table!WritePort, strategy_core!IsAdd

LEMMA QuietStep ==
  ASSUME BookInv, NEW msg \in Message, Feed(msg)
  PROVE  quiet' \in 0 .. Gap
  BY GapAssumption DEF BookInv, TrackerFindsLive, Feed, Message

LEMMA FindsNext ==
  ASSUME book' \in [OrderIds -> BookOrder \cup {Null}], quiet' \in 0 .. Gap,
         \A id \in OrderIds : Agrees(id)'
  PROVE  TrackerFindsLive'
  BY DEF TrackerFindsLive, Agrees, BookOrder, MaxShares, Max

\* An edge that touches neither the memory nor the book.
LEMMA KeptBook ==
  ASSUME BookInv, mem' = mem, book' = book, quiet' \in 0 .. Gap
  PROVE  BookInv'
<1>1. \A id \in OrderIds : Agrees(id)'
  <2>1. \A id \in OrderIds : Agrees(id)
    BY FindsIsAgrees DEF BookInv
  <2>2. \A id \in OrderIds : id_table!Hit(id)' <=> id_table!Hit(id)
    BY HitNext DEF id_table!Hit
  <2> QED
    BY <2>1, <2>2, HashIsRigid DEF Agrees, Live
<1>2. TrackerFindsLive'
  BY <1>1, FindsIsAgrees, FindsNext DEF BookInv
<1> QED
  BY <1>2 DEF BookInv

\* An Add: the new order is found, those of its slot are evicted.
LEMMA AddStep ==
  ASSUME BookInv, NEW msg \in Message, NEW tready \in BOOLEAN, Posedge(msg, tready),
         msg.valid, msg.type \in {"A", "F"}, book[msg.id] = Null,
         AddToBook(msg), quiet' \in 0 .. Gap
  PROVE  BookInv'
<1> DEFINE Slot(id) == id_table!get_hash(id)
           entry == [order_id |-> msg.id,
                     data |-> [side |-> msg.side, price |-> msg.price,
                               shares |-> msg.shares]]
           new == [status |-> "live", locate |-> msg.locate, side |-> msg.side,
                   shares |-> msg.shares, evicted |-> FALSE, lost |-> 0,
                   reduced |-> FALSE]
<1>1. /\ msg.id \in OrderIds /\ msg.side \in Sides /\ msg.price \in Prices
      /\ msg.shares \in Shares /\ msg.locate \in Locates
  BY DEF Message
<1>2. entry \in id_table!Entry /\ entry # Null
  BY <1>1, FeedAssumption DEF id_table!Entry, OrderData
<1>3. mem' = [mem EXCEPT ![Slot(msg.id)] = entry]
  BY MemoryAtEdge
<1>4. mem' \in [id_table!Slots -> id_table!Entry \cup {Null}]
  BY <1>1, <1>2, <1>3, HashType DEF BookInv
<1>5. \A id \in OrderIds : mem'[Slot(id)] = IF Slot(id) = Slot(msg.id) THEN entry
                                            ELSE mem[Slot(id)]
  BY <1>1, <1>3, HashType DEF BookInv
<1>6. new \in BookOrder /\ new # Null
  <2>1. msg.shares \in 0 .. MaxShares /\ 0 \in 0 .. MaxShares
    BY <1>1, SharesAreBounded
  <2>2. new \in BookOrder
    BY <1>1, <2>1 DEF BookOrder
  <2> QED
    BY <2>2, FeedAssumption
<1>7. ASSUME NEW id \in OrderIds, id # msg.id, book[id] # Null
      PROVE  /\ book'[id] \in BookOrder
             /\ book'[id].shares = book[id].shares /\ book'[id].lost = book[id].lost
             /\ book'[id].side = book[id].side /\ book'[id].status = book[id].status
             /\ book'[id].reduced = book[id].reduced
             /\ IF Slot(id) = Slot(msg.id)
                THEN book[id].status = "live" => book'[id].evicted
                ELSE book'[id] = book[id]
  <2>1. book[id] \in BookOrder
    BY <1>7, BookParts
  <2>2. book'[id] = IF Slot(id) = Slot(msg.id)
                    THEN [book[id] EXCEPT !.evicted = (@ \/ book[id].status = "live")]
                    ELSE book[id]
    BY <1>7 DEF AddToBook
  <2>3. (book[id].evicted \/ book[id].status = "live") \in BOOLEAN
    OBVIOUS
  <2> QED
    BY <2>1, <2>2, <2>3 DEF BookOrder
<1>8. book'[msg.id] = new
  BY <1>1 DEF AddToBook
<1>9. \A id \in OrderIds : id # msg.id /\ book[id] = Null => book'[id] = Null
  BY DEF AddToBook
<1>10. book' \in [OrderIds -> BookOrder \cup {Null}]
  <2>1. book' = [id \in OrderIds |-> book'[id]]
    BY DEF AddToBook
  <2>2. \A id \in OrderIds : book'[id] \in BookOrder \cup {Null}
    BY <1>6, <1>7, <1>8, <1>9
  <2> QED
    BY <2>1, <2>2
<1>11. ASSUME NEW id \in OrderIds
       PROVE  Agrees(id)'
  <2>1. CASE id = msg.id
    <3>1. mem'[Slot(id)] = entry /\ id_table!Hit(id)'
      BY <1>1, <1>2, <1>5, <2>1, HitNext
    <3>2. /\ book'[id].side = msg.side /\ ~book'[id].evicted /\ ~book'[id].reduced
          /\ book'[id].shares + book'[id].lost = msg.shares
      BY <1>1, <1>8, <2>1, SharesAreBounded
    <3> QED
      BY <3>1, <3>2, HashIsRigid DEF Agrees
  <2>2. CASE id # msg.id /\ book[id] = Null
    BY <1>9, <2>2 DEF Agrees, Live
  <2>3. CASE id # msg.id /\ book[id] # Null /\ Slot(id) = Slot(msg.id)
    <3>1. ~id_table!Hit(id)'
      BY <1>5, <2>3, HitNext
    <3>2. Live(id)' => book'[id].evicted
      BY <1>7, <2>3 DEF Live
    <3> QED
      BY <3>1, <3>2 DEF Agrees
  <2>4. CASE id # msg.id /\ book[id] # Null /\ Slot(id) # Slot(msg.id)
    <3>1. book'[id] = book[id] /\ mem'[Slot(id)] = mem[Slot(id)]
      BY <1>5, <1>7, <2>4
    <3>2. Agrees(id)
      BY FindsIsAgrees DEF BookInv
    <3> QED
      BY <3>1, <3>2, HitNext, HashIsRigid DEF Agrees, Live, id_table!Hit
  <2> QED
    BY <2>1, <2>2, <2>3, <2>4
<1>12. ASSUME NEW id \in OrderIds, book'[id] # Null
       PROVE  book'[id].shares + book'[id].lost <= MaxShares
  <2>1. CASE id = msg.id
    BY <1>1, <1>8, <2>1, SharesAreBounded
  <2>2. CASE id # msg.id
    BY <1>7, <1>9, <1>12, <2>2, BookParts
  <2> QED
    BY <2>1, <2>2
<1>13. TrackerFindsLive'
  BY <1>10, <1>11, FindsNext
<1> QED
  BY <1>4, <1>12, <1>13 DEF BookInv

\* A Delete or a Cancel: shares leave the book, the memory stays.
LEMMA TakeOutStep ==
  ASSUME BookInv, NEW id \in OrderIds, Live(id), mem' = mem, quiet' \in 0 .. Gap,
         NEW shares \in Nat, NEW status \in {"live", "gone"},
         status = "live" => 0 < shares, shares <= book[id].shares,
         TakeOut(id, shares, status)
  PROVE  BookInv'
<1> DEFINE b == book[id]
           after == Without(b, shares, status)
<1>1. b \in BookOrder /\ b # Null
  BY BookParts DEF Live
<1>2. book \in [OrderIds -> BookOrder \cup {Null}]
  BY DEF BookInv, TrackerFindsLive
<1>3. book' = [book EXCEPT ![id] = after]
  BY <1>2 DEF TakeOut
<1>4. b.shares - shares \in 0 .. MaxShares /\ (status = "live" => b.shares - shares < b.shares)
  BY <1>1, BookParts, SharesAreBounded
<1>5. (IF b.evicted THEN b.lost + shares ELSE 0) \in 0 .. MaxShares
  BY <1>1, BookParts, SharesAreBounded
<1>6. after \in BookOrder
  <2>1. (b.reduced \/ (status = "live" /\ ~b.evicted)) \in BOOLEAN
    OBVIOUS
  <2> QED
    BY <1>1, <1>4, <1>5, <2>1 DEF BookOrder, Without
<1>7. /\ after.status = status /\ after.shares = b.shares - shares
      /\ after.side = b.side /\ after.evicted = b.evicted
      /\ after.lost = IF b.evicted THEN b.lost + shares ELSE 0
  BY <1>1 DEF BookOrder, Without
<1>8. after.reduced = (b.reduced \/ (status = "live" /\ ~b.evicted))
  BY <1>1 DEF BookOrder, Without
<1> HIDE DEF after
<1>9. book'[id] = after /\ \A o \in OrderIds : o # id => book'[o] = book[o]
  BY <1>2, <1>3
<1>10. book' \in [OrderIds -> BookOrder \cup {Null}]
  BY <1>2, <1>3, <1>6
<1>11. \A o \in OrderIds : id_table!Hit(o)' <=> id_table!Hit(o)
  BY HitNext DEF id_table!Hit
<1>12. Agrees(id)'
  <2>1. Agrees(id)
    BY FindsIsAgrees DEF BookInv
  <2>2. CASE id_table!Hit(id) /\ status = "live"
    <3>1. ~b.evicted
      BY <2>1, <2>2 DEF Agrees
    <3>2. after.reduced /\ ~after.evicted
      BY <3>1, <1>7, <1>8, <2>2
    <3>3. mem[id_table!get_hash(id)].data.shares > after.shares + after.lost
      BY <1>1, <1>4, <1>7, <2>2, <3>1, TrackerHasEnough, EntryParts, BookParts
    <3>4. mem[id_table!get_hash(id)].data.side = after.side
      BY <1>7, <2>1, <2>2 DEF Agrees
    <3> QED
      BY <3>2, <3>3, <3>4, <1>9, <1>11, <2>2, HashIsRigid DEF Agrees
  <2>3. CASE ~id_table!Hit(id)
    <3>1. b.evicted
      BY <2>1, <2>3 DEF Agrees
    <3> QED
      BY <3>1, <1>7, <1>9, <1>11, <2>3 DEF Agrees
  <2>4. CASE status = "gone"
    BY <1>7, <1>9, <2>4 DEF Agrees, Live
  <2> QED
    BY <2>2, <2>3, <2>4
<1>13. ASSUME NEW o \in OrderIds, o # id
       PROVE  Agrees(o)'
  <2>1. Agrees(o)
    BY FindsIsAgrees DEF BookInv
  <2>2. book'[o] = book[o]
    BY <1>9, <1>13
  <2> QED
    BY <2>1, <2>2, <1>11, HashIsRigid DEF Agrees, Live
<1>14. ASSUME NEW o \in OrderIds, book'[o] # Null
       PROVE  book'[o].shares + book'[o].lost <= MaxShares
  <2>1. CASE o = id
    BY <1>1, <1>7, <1>9, <2>1, BookParts, SharesAreBounded
  <2>2. CASE o # id
    BY <1>9, <1>14, <2>2, BookParts
  <2> QED
    BY <2>1, <2>2
<1>15. \A o \in OrderIds : Agrees(o)'
  BY <1>12, <1>13
<1>16. TrackerFindsLive'
  BY <1>10, <1>15, FindsNext
<1> QED
  BY <1>14, <1>16 DEF BookInv

\* An execution: its shares leave the order and stay in the tracker's data.
LEMMA ExecuteStep ==
  ASSUME BookInv, NEW id \in OrderIds, Live(id), mem' = mem, quiet' \in 0 .. Gap,
         NEW shares \in Nat, shares <= book[id].shares, Execute(id, shares)
  PROVE  BookInv'
<1> DEFINE b == book[id]
           after == Executed(b, shares)
<1>1. /\ b \in BookOrder /\ b.shares \in Nat /\ b.lost \in Nat
      /\ b.shares + b.lost <= MaxShares /\ MaxShares \in Nat
  BY BookParts, SharesAreBounded DEF Live
<1>2. /\ after \in BookOrder
      /\ after.shares = b.shares - shares /\ after.lost = b.lost + shares
      /\ after.side = b.side /\ after.evicted = b.evicted /\ after.reduced = b.reduced
  BY ExecutedParts, <1>1
<1> HIDE DEF after
<1>3. after.shares + after.lost = b.shares + b.lost
  BY <1>1, <1>2
<1>4. book \in [OrderIds -> BookOrder \cup {Null}]
  BY DEF BookInv, TrackerFindsLive
<1>5. book' = [book EXCEPT ![id] = after]
  BY <1>4 DEF Execute, after
<1>6. book'[id] = after /\ \A o \in OrderIds : o # id => book'[o] = book[o]
  BY <1>4, <1>5
<1>7. book' \in [OrderIds -> BookOrder \cup {Null}]
  BY <1>2, <1>4, <1>5
<1>8. \A o \in OrderIds : id_table!Hit(o)' <=> id_table!Hit(o)
  BY HitNext DEF id_table!Hit
<1>9. ASSUME NEW o \in OrderIds
      PROVE  Agrees(o)'
  <2>1. Agrees(o)
    BY FindsIsAgrees DEF BookInv
  <2>2. CASE o = id
    BY <1>2, <1>3, <1>6, <1>8, <2>1, <2>2, HashIsRigid DEF Agrees
  <2>3. CASE o # id
    BY <1>6, <1>8, <2>1, <2>3, HashIsRigid DEF Agrees, Live
  <2> QED
    BY <2>2, <2>3
<1>10. ASSUME NEW o \in OrderIds, book'[o] # Null
       PROVE  book'[o].shares + book'[o].lost <= MaxShares
  <2>1. CASE o = id
    BY <1>1, <1>3, <1>6, <2>1
  <2>2. CASE o # id
    BY <1>6, <1>10, <2>2, BookParts
  <2> QED
    BY <2>1, <2>2
<1>11. TrackerFindsLive'
  BY <1>7, <1>9, FindsNext
<1> QED
  BY <1>10, <1>11 DEF BookInv

-----------------------------------------------------------------------------
LEMMA FeedStep ==
  ASSUME BookInv, NEW msg \in Message, NEW tready \in BOOLEAN,
         Feed(msg), Posedge(msg, tready)
  PROVE  BookInv'
<1>1. quiet' \in 0 .. Gap
  BY QuietStep
<1>2. Legal(msg) /\ Follow(msg) /\ msg.id \in OrderIds
  BY DEF Feed, Message
<1>3. CASE msg.valid /\ msg.type \in {"A", "F"}
  <2>1. book[msg.id] = Null
    BY <1>2, <1>3 DEF Legal, Idle
  <2>2. AddToBook(msg)
    BY <1>2, <1>3 DEF Follow
  <2> QED
    BY <1>1, <1>3, <2>1, <2>2, AddStep
<1>4. CASE msg.valid /\ msg.type \notin {"A", "F"}
  <2>1. Live(msg.id) /\ msg.type \in {"D", "X", "E", "C"}
    BY <1>2, <1>4 DEF Legal, Idle
  <2>2. /\ msg.type = "X" => msg.shares < book[msg.id].shares
        /\ msg.type \in {"E", "C"} => msg.shares <= book[msg.id].shares
    BY <1>2, <1>4 DEF Legal, Idle
  <2>3. mem' = mem
    BY <1>4, MemoryAtEdge
  <2>4. book[msg.id].shares \in Nat
    BY <1>2, <2>1, BookParts DEF Live
  <2>5. CASE msg.type = "D"
    <3>1. TakeOut(msg.id, book[msg.id].shares, "gone")
      BY <1>2, <1>4, <2>5 DEF Follow
    <3> QED
      BY <1>1, <1>2, <2>1, <2>3, <2>4, <3>1, TakeOutStep
  <2>6. CASE msg.type = "X"
    <3>1. TakeOut(msg.id, msg.shares, "live")
      BY <1>2, <1>4, <2>6 DEF Follow
    <3>2. msg.shares \in Nat /\ 0 < msg.shares /\ msg.shares <= book[msg.id].shares
      BY <2>2, <2>4, <2>6, SharesAreBounded DEF Message
    <3> QED
      BY <1>1, <1>2, <2>1, <2>3, <3>1, <3>2, TakeOutStep
  <2>7. CASE msg.type \in {"E", "C"}
    <3>1. Execute(msg.id, msg.shares)
      BY <1>2, <1>4, <2>7 DEF Follow
    <3>2. msg.shares \in Nat
      BY SharesAreBounded DEF Message
    <3> QED
      BY <1>1, <1>2, <2>1, <2>2, <2>3, <2>7, <3>1, <3>2, ExecuteStep
  <2> QED
    BY <2>1, <2>5, <2>6, <2>7
<1>5. CASE ~msg.valid
  <2>1. mem' = mem
    BY <1>5, MemoryAtEdge
  <2>2. book' = book
    BY <1>2, <1>5 DEF Follow
  <2> QED
    BY <1>1, <2>1, <2>2, KeptBook
<1> QED
  BY <1>3, <1>4, <1>5

LEMMA BookResetStep == BookReset => BookInv'
<1> SUFFICES ASSUME BookReset
             PROVE  BookInv'
  OBVIOUS
<1>1. mem' = [s \in id_table!Slots |-> Null]
  BY DEF BookReset, Reset, id_table!Reset
<1>2. book' = [id \in OrderIds |-> Null] /\ quiet' = 0
  BY DEF BookReset
<1>3. mem' \in [id_table!Slots -> id_table!Entry \cup {Null}]
  BY <1>1
<1>4. \A id \in OrderIds : Agrees(id)'
  BY <1>2 DEF Agrees, Live
<1>5. TrackerFindsLive'
  BY <1>2, <1>4, GapAssumption, FindsNext
<1> QED
  BY <1>2, <1>3, <1>5 DEF BookInv

LEMMA InitBookInv == BookInit => BookInv
<1> SUFFICES ASSUME BookInit
             PROVE  BookInv
  OBVIOUS
<1>1. mem \in [id_table!Slots -> id_table!Entry \cup {Null}]
  BY DEF BookInit, Init, id_table!Init
<1>2. book = [id \in OrderIds |-> Null] /\ quiet = 0
  BY DEF BookInit
<1>3. \A id \in OrderIds : Agrees(id)
  BY <1>2 DEF Agrees, Live
<1>4. TrackerFindsLive
  BY <1>2, <1>3, GapAssumption, FindsIsAgrees
<1> QED
  BY <1>1, <1>2, <1>4 DEF BookInv

LEMMA NextBookInv == BookInv /\ [BookNext]_bookVars => BookInv'
<1> SUFFICES ASSUME BookInv, [BookNext]_bookVars
             PROVE  BookInv'
  OBVIOUS
<1>1. CASE BookClocked
  BY <1>1, FeedStep DEF BookClocked
<1>2. CASE BookReset
  BY <1>2, BookResetStep
<1>3. CASE UNCHANGED bookVars
  <2>1. mem' = mem /\ book' = book /\ quiet' = quiet
    BY <1>3 DEF bookVars, vars, id_table!vars
  <2>2. quiet' \in 0 .. Gap
    BY <2>1, FindsIsAgrees DEF BookInv
  <2> QED
    BY <2>1, <2>2, KeptBook
<1> QED
  BY <1>1, <1>2, <1>3 DEF BookNext

(***************************************************************************)
(* On every legal feed, whatever the gaps between its messages, the number *)
(* of slots and the references, the tracker finds a live order exactly     *)
(* when no later Add took its slot, and with the data it was added with,   *)
(* whatever was executed or cancelled of it since (order_id_tracker.sv     *)
(* behind the bus of hft_top.sv).                                          *)
(***************************************************************************)
THEOREM LiveOrdersAreFound == BookSpec => []TrackerFindsLive
<1>1. BookInv => TrackerFindsLive
  BY DEF BookInv
<1> QED
  BY <1>1, InitBookInv, NextBookInv, PTL DEF BookSpec

-----------------------------------------------------------------------------
(***************************************************************************)
(* The depths on a feed that leaves a gap after each message.              *)
(***************************************************************************)

\* The inductive invariant: a lookup is answered while the bus is idle.
DepthInv ==
    /\ TopInv /\ BookInv
    /\ t_read_valid => quiet > 0
    /\ DepthIsLivePlusLeaked

\* What an order of the book, or Null, adds to the sums of a side.
Counts(entry, side) ==
    entry # Null /\ entry.side = side /\ entry.locate = TARGET_LOCATE

LiveIn(entry, side) ==
    IF Counts(entry, side) /\ entry.status = "live" THEN entry.shares ELSE 0

LostIn(entry, side) == IF Counts(entry, side) THEN entry.lost ELSE 0

\* No order of the side was cancelled in part.
Whole(side) == \A id \in Orders(side) : ~book[id].reduced

Owed(side) == LiveShares(side) + LeakedShares(side)

LEMMA DepthIsOwed ==
  DepthIsLivePlusLeaked <=>
      \A side \in Sides : /\ Depth(side) <= Owed(side) + FoundShares(side)
                          /\ Whole(side) => Depth(side) = Owed(side) + FoundShares(side)
  BY DEF DepthIsLivePlusLeaked, Owed, Whole

LEMMA DepthIsOwedNext ==
  ASSUME \A side \in Sides :
            /\ Depth(side)' <= Owed(side)' + FoundShares(side)'
            /\ Whole(side)' => Depth(side)' = Owed(side)' + FoundShares(side)'
  PROVE  DepthIsLivePlusLeaked'
  BY DEF DepthIsLivePlusLeaked, Owed, Whole

LEMMA TermsAreIn ==
  ASSUME NEW id \in OrderIds, NEW side
  PROVE  /\ LiveOn(side)[id] = LiveIn(book[id], side)
         /\ LeakedOn(side)[id] = LostIn(book[id], side)
         /\ id \in Orders(side) <=> Counts(book[id], side)
  BY DEF LiveOn, LeakedOn, LiveIn, LostIn, Orders, Counts, Live

LEMMA TermsAreInNext ==
  ASSUME NEW id \in OrderIds, NEW side \in Sides
  PROVE  /\ LiveOn(side)'[id] = LiveIn(book'[id], side)
         /\ LeakedOn(side)'[id] = LostIn(book'[id], side)
         /\ id \in Orders(side)' <=> Counts(book'[id], side)
  BY DEF LiveOn, LeakedOn, LiveIn, LostIn, Orders, Counts, Live

\* An order adds to both sums together at most what an order can have.
LEMMA TermsType ==
  ASSUME BookInv, NEW id \in OrderIds, NEW side
  PROVE  /\ LiveIn(book[id], side) \in Nat /\ LostIn(book[id], side) \in Nat
         /\ LiveIn(book[id], side) + LostIn(book[id], side) <= MaxShares
<1>1. MaxShares \in Nat
  BY SharesAreBounded
<1>2. CASE book[id] = Null
  BY <1>1, <1>2 DEF LiveIn, LostIn, Counts
<1>3. CASE book[id] # Null
  BY <1>1, <1>3, BookParts DEF LiveIn, LostIn
<1> QED
  BY <1>2, <1>3

LEMMA TermsTypeNext ==
  ASSUME BookInv', NEW id \in OrderIds, NEW side \in Sides
  PROVE  LiveIn(book'[id], side) \in Nat /\ LostIn(book'[id], side) \in Nat
<1>1. CASE book'[id] = Null
  BY <1>1 DEF LiveIn, LostIn, Counts
<1>2. CASE book'[id] # Null
  <2>1. book'[id] \in BookOrder
    BY <1>2, FindsNextParts
  <2>2. book'[id].shares \in Nat /\ book'[id].lost \in Nat
    BY <2>1, SharesAreBounded DEF BookOrder
  <2> QED
    BY <2>2 DEF LiveIn, LostIn
<1> QED
  BY <1>1, <1>2

LEMMA OwedType ==
  ASSUME BookInv, NEW side \in Sides
  PROVE  /\ LiveShares(side) \in Nat /\ LeakedShares(side) \in Nat
         /\ Owed(side) \in Nat /\ Owed(side) < WORD64
<1> DEFINE live == LiveOn(side)
           lost == LeakedOn(side)
           both == [id \in OrderIds |-> live[id] + lost[id]]
<1>1. /\ IsFiniteSet(OrderIds) /\ MaxShares \in Nat
      /\ MaxShares * Cardinality(OrderIds) < WORD64
  BY RoomAssumption, SharesAreBounded
<1>2. \A id \in OrderIds : /\ live[id] \in Nat /\ lost[id] \in Nat
                           /\ live[id] + lost[id] <= MaxShares
  BY TermsAreIn, TermsType
<1>3. \A id \in OrderIds : both[id] \in Nat /\ both[id] <= MaxShares
  BY <1>2
<1>4. LiveShares(side) = SumFunctionOnSet(live, OrderIds)
  BY DEF LiveShares
<1>5. LeakedShares(side) = SumFunctionOnSet(lost, OrderIds)
  BY DEF LeakedShares
<1> HIDE DEF live, lost
<1>6. SumFunctionOnSet(both, OrderIds)
         = SumFunctionOnSet(live, OrderIds) + SumFunctionOnSet(lost, OrderIds)
  BY <1>1, <1>2, SumOfSums
<1> HIDE DEF both
<1>7. SumFunctionOnSet(both, OrderIds) <= MaxShares * Cardinality(OrderIds)
  BY <1>1, <1>3, SumIsBounded
<1>8. /\ SumFunctionOnSet(live, OrderIds) \in Nat
      /\ SumFunctionOnSet(lost, OrderIds) \in Nat
  BY <1>1, <1>2, SumIsNat
<1>9. MaxShares * Cardinality(OrderIds) \in Nat /\ WORD64 \in Nat
  BY <1>1, FS_CardinalityType, WordsAreNat
<1> QED
  BY <1>1, <1>4, <1>5, <1>6, <1>7, <1>8, <1>9 DEF Owed

\* When one order changes, the sums change by what it adds to them.
LEMMA OwedStep ==
  ASSUME BookInv, BookInv', NEW id \in OrderIds, NEW side \in Sides,
         \A o \in OrderIds : o # id =>
             /\ LiveIn(book'[o], side) = LiveIn(book[o], side)
             /\ LostIn(book'[o], side) = LostIn(book[o], side)
  PROVE  /\ LiveShares(side)' \in Nat /\ LeakedShares(side)' \in Nat
         /\ LiveShares(side)' + LiveIn(book[id], side)
               = LiveShares(side) + LiveIn(book'[id], side)
         /\ LeakedShares(side)' + LostIn(book[id], side)
               = LeakedShares(side) + LostIn(book'[id], side)
<1> DEFINE live == LiveOn(side)
           lost == LeakedOn(side)
           nextLive == LiveOn(side)'
           nextLost == LeakedOn(side)'
<1>1. \A o \in OrderIds : /\ live[o] \in Nat /\ live[o] = LiveIn(book[o], side)
                          /\ lost[o] \in Nat /\ lost[o] = LostIn(book[o], side)
  BY TermsAreIn, TermsType
<1>2. \A o \in OrderIds : /\ nextLive[o] \in Nat /\ nextLive[o] = LiveIn(book'[o], side)
                          /\ nextLost[o] \in Nat /\ nextLost[o] = LostIn(book'[o], side)
  BY TermsAreInNext, TermsTypeNext
<1>3. \A o \in OrderIds : o # id => live[o] = nextLive[o] /\ lost[o] = nextLost[o]
  BY <1>1, <1>2
<1>4. /\ LiveShares(side) = SumFunctionOnSet(live, OrderIds)
      /\ LeakedShares(side) = SumFunctionOnSet(lost, OrderIds)
  BY DEF LiveShares, LeakedShares
<1>5. /\ LiveShares(side)' = SumFunctionOnSet(nextLive, OrderIds)
      /\ LeakedShares(side)' = SumFunctionOnSet(nextLost, OrderIds)
  BY DEF LiveShares, LeakedShares
<1> HIDE DEF live, lost, nextLive, nextLost
<1>6. IsFiniteSet(OrderIds)
  BY RoomAssumption
<1>7. /\ SumFunctionOnSet(nextLive, OrderIds) \in Nat
      /\ SumFunctionOnSet(nextLost, OrderIds) \in Nat
  BY <1>2, <1>6, SumIsNat
<1>8. SumFunctionOnSet(nextLive, OrderIds) + live[id]
         = SumFunctionOnSet(live, OrderIds) + nextLive[id]
  BY <1>1, <1>2, <1>3, <1>6, SumWithChange
<1>9. SumFunctionOnSet(nextLost, OrderIds) + lost[id]
         = SumFunctionOnSet(lost, OrderIds) + nextLost[id]
  BY <1>1, <1>2, <1>3, <1>6, SumWithChange
<1> QED
  BY <1>1, <1>2, <1>4, <1>5, <1>7, <1>8, <1>9

LEMMA OwedFitsNext == \A side \in Sides : BookInv' => Owed(side)' < WORD64
<1> TAKE side \in Sides
<1>1. BookInv => Owed(side) < WORD64
  BY OwedType
<1>2. BookInv' => (Owed(side) < WORD64)'
  BY <1>1, PTL
<1> QED
  BY <1>2

\* The lookup a message asks for, and the depths after it.
LEMMA LookupAtEdge ==
  ASSUME NEW msg \in Message, NEW tready \in BOOLEAN, Posedge(msg, tready)
  PROVE  /\ t_read_valid' = (strategy_core!tracker_read_en(msg) /\ id_table!Hit(msg.id))
         /\ t_read_valid' => t_out' = mem[id_table!get_hash(msg.id)].data
  BY DEF Posedge, id_table!Clock, id_table!ReadPort

LEMMA DepthAtEdge ==
  ASSUME NEW msg \in Message, NEW tready \in BOOLEAN, Posedge(msg, tready), NEW side \in Sides
  PROVE  Depth(side)' = strategy_core!NextDepth(Depth(side), side, msg, t_read_valid, t_out)
<1>1. side = 1 \/ side = 0
  BY DEF Sides
<1> QED
  BY <1>1 DEF Posedge, strategy_core!Clock, strategy_core!Book, Depth,
              strategy_core!BUY, strategy_core!SELL

LEMMA DepthType ==
  ASSUME TopInv, NEW side \in Sides
  PROVE  Depth(side) \in Nat /\ FoundShares(side) \in Nat /\ t_out.shares \in Nat
<1>1. t_out.shares \in Nat
  <2>1. t_out \in OrderData \/ t_out = [side |-> 0, price |-> 0, shares |-> 0]
    BY DEF TopInv, TypeOK, id_table!TypeOK
  <2>2. t_out.shares \in Shares \cup {0}
    BY <2>1 DEF OrderData
  <2>3. 0 \in Nat
    OBVIOUS
  <2> QED
    BY <2>2, <2>3, LinesAreNat, Zenon
<1>2. total_bid_depth \in Nat /\ total_ask_depth \in Nat
  BY WordsAreNat DEF TopInv, TypeOK, strategy_core!TypeOK, strategy_core!Word64
<1> QED
  BY <1>1, <1>2 DEF Depth, FoundShares

\* What an idle edge changes: the order that was looked up leaves its depth.
LEMMA IdleDepth ==
  ASSUME DepthInv, NEW msg \in Message, NEW tready \in BOOLEAN,
         Posedge(msg, tready), ~msg.valid, book' = book
  PROVE  ~t_read_valid' /\ DepthIsLivePlusLeaked'
<1>1. ~t_read_valid'
  BY LookupAtEdge DEF strategy_core!tracker_read_en
<1>2. ASSUME NEW side \in Sides
      PROVE  /\ Depth(side)' <= Owed(side)' + FoundShares(side)'
             /\ Whole(side)' => Depth(side)' = Owed(side)' + FoundShares(side)'
  <2>1. Owed(side)' = Owed(side) /\ Whole(side)' = Whole(side)
    BY DEF Owed, LiveShares, LeakedShares, LiveOn, LeakedOn, Live, Orders, Whole
  <2>2. FoundShares(side)' = 0
    BY <1>1 DEF FoundShares
  <2>3. Depth(side)' = strategy_core!Less(Depth(side), FoundShares(side))
    <3>1. Depth(side)' = IF t_read_valid /\ t_out.side = side
                         THEN strategy_core!Less(Depth(side), t_out.shares)
                         ELSE Depth(side)
      BY DepthAtEdge DEF strategy_core!NextDepth, strategy_core!IsAdd
    <3>2. Depth(side) \in Nat /\ strategy_core!Less(Depth(side), 0) = Depth(side)
      BY DepthType DEF DepthInv, strategy_core!Less
    <3> QED
      BY <3>1, <3>2 DEF FoundShares
  <2>4. /\ Depth(side) <= Owed(side) + FoundShares(side)
        /\ Whole(side) => Depth(side) = Owed(side) + FoundShares(side)
    BY DepthIsOwed DEF DepthInv
  <2>5. Depth(side) \in Nat /\ FoundShares(side) \in Nat /\ Owed(side) \in Nat
    BY DepthType, OwedType DEF DepthInv
  <2> QED
    BY <2>1, <2>2, <2>3, <2>4, <2>5 DEF strategy_core!Less
<1>3. DepthIsLivePlusLeaked'
  BY <1>2, DepthIsOwedNext
<1> QED
  BY <1>1, <1>3

\* An Add changes nothing an older order counts for.
LEMMA AddKeepsOthers ==
  ASSUME BookInv, NEW msg \in Message, AddToBook(msg),
         NEW id \in OrderIds, id # msg.id, NEW side
  PROVE  /\ LiveIn(book'[id], side) = LiveIn(book[id], side)
         /\ LostIn(book'[id], side) = LostIn(book[id], side)
         /\ Counts(book'[id], side) <=> Counts(book[id], side)
         /\ Counts(book[id], side) => book'[id].reduced = book[id].reduced
<1>1. CASE book[id] = Null
  BY <1>1 DEF AddToBook, LiveIn, LostIn, Counts
<1>2. CASE book[id] # Null
  <2> DEFINE clash == id_table!get_hash(id) = id_table!get_hash(msg.id)
             evicted == book[id].evicted \/ book[id].status = "live"
  <2>1. book[id] \in BookOrder
    BY <1>2, BookParts
  <2>2. book'[id] = IF clash THEN [book[id] EXCEPT !.evicted = evicted] ELSE book[id]
    BY <1>2 DEF AddToBook
  <2>3. evicted \in BOOLEAN
    OBVIOUS
  <2> HIDE DEF clash, evicted
  <2>4. book'[id] \in BookOrder
    BY <2>1, <2>2, <2>3 DEF BookOrder
  <2>5. /\ book'[id].status = book[id].status /\ book'[id].locate = book[id].locate
        /\ book'[id].side = book[id].side /\ book'[id].shares = book[id].shares
        /\ book'[id].lost = book[id].lost /\ book'[id].reduced = book[id].reduced
    BY <2>1, <2>2 DEF BookOrder
  <2>6. book'[id] # Null
    BY <2>4, FeedAssumption
  <2> QED
    BY <1>2, <2>5, <2>6 DEF LiveIn, LostIn, Counts
<1> QED
  BY <1>1, <1>2

\* An Add of the target stock adds its shares to its side and to the depth.
LEMMA AddDepth ==
  ASSUME DepthInv, BookInv', NEW msg \in Message, NEW tready \in BOOLEAN,
         Posedge(msg, tready), ~t_read_valid, msg.valid, msg.type \in {"A", "F"},
         book[msg.id] = Null, AddToBook(msg)
  PROVE  DepthIsLivePlusLeaked'
<1>1. ~t_read_valid'
  BY LookupAtEdge DEF strategy_core!tracker_read_en
<1>2. msg.id \in OrderIds /\ msg.shares \in Nat
  BY LinesAreNat DEF Message
<1>3. ASSUME NEW side \in Sides
      PROVE  /\ Depth(side)' <= Owed(side)' + FoundShares(side)'
             /\ Whole(side)' => Depth(side)' = Owed(side)' + FoundShares(side)'
  <2> DEFINE counts == msg.locate = TARGET_LOCATE /\ msg.side = side
             added == IF counts THEN msg.shares ELSE 0
  <2>1. /\ LiveIn(book[msg.id], side) = 0 /\ LostIn(book[msg.id], side) = 0
        /\ ~Counts(book[msg.id], side)
    BY DEF LiveIn, LostIn, Counts
  <2>2. LiveIn(book'[msg.id], side) = added /\ LostIn(book'[msg.id], side) = 0
    <3>1. book'[msg.id] = [status |-> "live", locate |-> msg.locate, side |-> msg.side,
                           shares |-> msg.shares, evicted |-> FALSE, lost |-> 0,
                           reduced |-> FALSE]
      BY <1>2 DEF AddToBook
    <3>2. Counts(book'[msg.id], side) <=> counts
      <4>1. book'[msg.id] # Null
        <5>1. msg.shares \in 0 .. MaxShares /\ 0 \in 0 .. MaxShares
          BY SharesAreBounded DEF Message
        <5>2. book'[msg.id] \in BookOrder
          BY <3>1, <5>1 DEF BookOrder, Message
        <5> QED
          BY <5>2, FeedAssumption
      <4> QED
        BY <3>1, <4>1 DEF Counts
    <3> QED
      BY <3>1, <3>2 DEF LiveIn, LostIn
  <2>3. Owed(side)' = Owed(side) + added /\ Owed(side) \in Nat /\ added \in Nat
    <3>1. /\ LiveShares(side)' \in Nat /\ LeakedShares(side)' \in Nat
          /\ LiveShares(side)' + LiveIn(book[msg.id], side)
                = LiveShares(side) + LiveIn(book'[msg.id], side)
          /\ LeakedShares(side)' + LostIn(book[msg.id], side)
                = LeakedShares(side) + LostIn(book'[msg.id], side)
      BY <1>2, AddKeepsOthers, OwedStep DEF DepthInv
    <3>2. LiveShares(side) \in Nat /\ LeakedShares(side) \in Nat
      BY OwedType DEF DepthInv
    <3> HIDE DEF added
    <3>3. added \in Nat
      BY <1>2 DEF added
    <3> QED
      BY <2>1, <2>2, <3>1, <3>2, <3>3 DEF Owed
  <2>4. FoundShares(side) = 0 /\ FoundShares(side)' = 0
    BY <1>1 DEF FoundShares
  <2>5. Depth(side)' = IF counts THEN (Depth(side) + msg.shares) % WORD64 ELSE Depth(side)
    BY DepthAtEdge DEF strategy_core!NextDepth, strategy_core!IsAdd
  <2>6. /\ Depth(side) <= Owed(side)
        /\ Whole(side) => Depth(side) = Owed(side)
        /\ Depth(side) \in Nat /\ Owed(side)' < WORD64 /\ WORD64 \in Nat \ {0}
    <3>1. /\ Depth(side) <= Owed(side) + FoundShares(side)
          /\ Whole(side) => Depth(side) = Owed(side) + FoundShares(side)
      BY DepthIsOwed DEF DepthInv
    <3>2. Depth(side) \in Nat
      BY DepthType DEF DepthInv
    <3> QED
      BY <2>3, <2>4, <3>1, <3>2, OwedFitsNext, WordsAreNat
  <2>7. Whole(side)' => Whole(side)
    <3> SUFFICES ASSUME Whole(side)', NEW id \in Orders(side)
                 PROVE  ~book[id].reduced
      BY DEF Whole
    <3>1. id \in OrderIds /\ Counts(book[id], side)
      BY DEF Orders, Counts
    <3>2. id # msg.id
      BY <2>1, <3>1
    <3>3. Counts(book'[id], side) /\ book'[id].reduced = book[id].reduced
      BY <3>1, <3>2, AddKeepsOthers DEF DepthInv
    <3>4. id \in Orders(side)'
      BY <3>1, <3>3, TermsAreInNext
    <3> QED
      BY <3>3, <3>4 DEF Whole
  <2>8. Depth(side)' = Depth(side) + added
    <3>1. CASE counts
      <4>1. Depth(side) + msg.shares \in Nat /\ Depth(side) + msg.shares < WORD64
        BY <1>2, <2>3, <2>6, <3>1
      <4> QED
        BY <2>5, <2>6, <3>1, <4>1, ModSmall
    <3>2. CASE ~counts
      BY <2>5, <2>6, <3>2
    <3> QED
      BY <3>1, <3>2
  <2> HIDE DEF added
  <2> QED
    BY <2>3, <2>4, <2>6, <2>7, <2>8
<1> QED
  BY <1>3, DepthIsOwedNext

\* A Delete or a Cancel: what leaves the live orders is found by the lookup,
\* or leaks if the order was evicted.
LEMMA TakeOutDepth ==
  ASSUME DepthInv, BookInv', NEW msg \in Message, NEW tready \in BOOLEAN,
         Posedge(msg, tready), ~t_read_valid, msg.valid, msg.type \in {"D", "X"},
         Live(msg.id), msg.locate = book[msg.id].locate,
         NEW shares \in Nat, NEW status \in {"live", "gone"},
         shares <= book[msg.id].shares,
         status = "gone" => shares = book[msg.id].shares,
         TakeOut(msg.id, shares, status)
  PROVE  DepthIsLivePlusLeaked'
<1> DEFINE id == msg.id
           b == book[id]
           after == Without(b, shares, status)
           data == mem[id_table!get_hash(id)].data
<1>1. /\ id \in OrderIds /\ b \in BookOrder /\ b # Null /\ b.status = "live"
      /\ b.shares \in Nat /\ b.lost \in Nat /\ b.evicted \in BOOLEAN /\ b.reduced \in BOOLEAN
  BY BookParts DEF DepthInv, Live, Message
<1>2. book'[id] = after /\ \A o \in OrderIds : o # id => book'[o] = book[o]
  BY <1>1 DEF TakeOut, DepthInv, BookInv, TrackerFindsLive
<1>3. book'[id] # Null
  <2>1. b.shares - shares \in 0 .. MaxShares
    BY <1>1, BookParts, SharesAreBounded DEF DepthInv
  <2>2. (IF b.evicted THEN b.lost + shares ELSE 0) \in 0 .. MaxShares
    BY <1>1, BookParts, SharesAreBounded DEF DepthInv
  <2>3. (b.reduced \/ (status = "live" /\ ~b.evicted)) \in BOOLEAN
    OBVIOUS
  <2>4. after \in BookOrder
    BY <1>1, <2>1, <2>2, <2>3 DEF BookOrder, Without
  <2> QED
    BY <1>2, <2>4, FeedAssumption
<1>4. /\ after.status = status /\ after.shares = b.shares - shares
      /\ after.side = b.side /\ after.locate = b.locate
      /\ after.lost = IF b.evicted THEN b.lost + shares ELSE 0
      /\ after.reduced = (b.reduced \/ (status = "live" /\ ~b.evicted))
  BY <1>1 DEF BookOrder, Without
<1> HIDE DEF after
<1>5. Agrees(id)
  BY <1>1, FindsIsAgrees DEF DepthInv, BookInv
<1>6. id_table!Hit(id) <=> ~b.evicted
  BY <1>5 DEF Agrees
<1>7. ~b.evicted => /\ data.side = b.side /\ data.shares \in Nat
                    /\ data.shares >= b.shares + b.lost
                    /\ ~b.reduced => data.shares = b.shares + b.lost
  BY <1>1, <1>5, <1>6, TrackerHasEnough, EntryParts DEF Agrees, DepthInv
<1>8. /\ t_read_valid' <=> b.locate = TARGET_LOCATE /\ ~b.evicted
      /\ t_read_valid' => t_out' = data
  BY <1>6, LookupAtEdge DEF strategy_core!tracker_read_en
<1> HIDE DEF data
<1>9. ASSUME NEW side \in Sides
      PROVE  /\ Depth(side)' <= Owed(side)' + FoundShares(side)'
             /\ Whole(side)' => Depth(side)' = Owed(side)' + FoundShares(side)'
  <2> DEFINE counts == Counts(b, side)
  <2>1. counts <=> b.side = side /\ b.locate = TARGET_LOCATE
    BY <1>1 DEF Counts
  <2>2. Counts(book'[id], side) <=> counts
    BY <1>1, <1>2, <1>3, <1>4 DEF Counts
  <2>3. /\ LiveIn(b, side) = IF counts THEN b.shares ELSE 0
        /\ LostIn(b, side) = IF counts THEN b.lost ELSE 0
    BY <1>1 DEF LiveIn, LostIn
  <2>4. /\ LiveIn(book'[id], side) = IF counts THEN b.shares - shares ELSE 0
        /\ LostIn(book'[id], side)
              = IF counts THEN (IF b.evicted THEN b.lost + shares ELSE 0) ELSE 0
    BY <1>1, <1>2, <1>4, <2>2 DEF LiveIn, LostIn
  <2>5. FoundShares(side)' = IF counts /\ ~b.evicted THEN data.shares ELSE 0
    BY <1>7, <1>8, <2>1 DEF FoundShares
  <2>6. FoundShares(side) = 0
    BY DEF FoundShares
  <2>7. Depth(side)' = Depth(side)
    BY DepthAtEdge DEF strategy_core!NextDepth, strategy_core!IsAdd
  <2>8. Whole(side)' => Whole(side) /\ (counts => ~b.reduced /\ (status = "live" => b.evicted))
    <3>1. ASSUME Whole(side)', counts
          PROVE  ~b.reduced /\ (status = "live" => b.evicted)
      <4>1. id \in Orders(side)'
        BY <1>1, <2>2, <3>1, TermsAreInNext
      <4> QED
        BY <1>2, <1>4, <3>1, <4>1 DEF Whole
    <3>2. ASSUME Whole(side)', NEW o \in Orders(side)
          PROVE  ~book[o].reduced
      <4>1. o \in OrderIds /\ Counts(book[o], side)
        BY DEF Orders, Counts
      <4>2. CASE o = id
        BY <3>1, <3>2, <4>1, <4>2
      <4>3. CASE o # id
        <5>1. book'[o] = book[o]
          BY <1>2, <4>1, <4>3
        <5>2. o \in Orders(side)'
          BY <4>1, <5>1, TermsAreInNext
        <5> QED
          BY <3>2, <5>1, <5>2 DEF Whole
      <4> QED
        BY <4>2, <4>3
    <3> QED
      BY <3>1, <3>2 DEF Whole
  <2>9. /\ LiveShares(side)' \in Nat /\ LeakedShares(side)' \in Nat
        /\ LiveShares(side)' + LiveIn(b, side) = LiveShares(side) + LiveIn(book'[id], side)
        /\ LeakedShares(side)' + LostIn(b, side)
              = LeakedShares(side) + LostIn(book'[id], side)
    BY <1>1, <1>2, OwedStep DEF DepthInv
  <2>10. /\ LiveShares(side) \in Nat /\ LeakedShares(side) \in Nat /\ Depth(side) \in Nat
         /\ Depth(side) <= Owed(side) /\ (Whole(side) => Depth(side) = Owed(side))
    <3>1. /\ Depth(side) <= Owed(side) + FoundShares(side)
          /\ Whole(side) => Depth(side) = Owed(side) + FoundShares(side)
      BY DepthIsOwed DEF DepthInv
    <3>2. /\ LiveShares(side) \in Nat /\ LeakedShares(side) \in Nat /\ Owed(side) \in Nat
          /\ Depth(side) \in Nat
      BY OwedType, DepthType DEF DepthInv
    <3> QED
      BY <2>6, <3>1, <3>2
  <2> HIDE DEF counts, b
  <2>11. CASE ~counts
    BY <2>3, <2>4, <2>5, <2>7, <2>8, <2>9, <2>10, <2>11 DEF Owed
  <2>12. CASE counts /\ b.evicted
    BY <1>1, <2>3, <2>4, <2>5, <2>7, <2>8, <2>9, <2>10, <2>12 DEF Owed
  <2>13. CASE counts /\ ~b.evicted
    BY <1>1, <1>7, <2>3, <2>4, <2>5, <2>7, <2>8, <2>9, <2>10, <2>13 DEF Owed, b
  <2> QED
    BY <2>11, <2>12, <2>13
<1> QED
  BY <1>9, DepthIsOwedNext

\* An execution: nothing is looked up, no depth changes, and what leaves the
\* live orders leaks.
LEMMA ExecuteDepth ==
  ASSUME DepthInv, BookInv', NEW msg \in Message, NEW tready \in BOOLEAN,
         Posedge(msg, tready), ~t_read_valid, msg.type \in {"E", "C"}, Live(msg.id),
         msg.shares \in Nat, msg.shares <= book[msg.id].shares,
         Execute(msg.id, msg.shares)
  PROVE  DepthIsLivePlusLeaked'
<1> DEFINE id == msg.id
           b == book[id]
           after == Executed(b, msg.shares)
<1>1. /\ id \in OrderIds /\ b \in BookOrder /\ b # Null /\ b.status = "live"
      /\ b.shares \in Nat /\ b.lost \in Nat /\ b.shares + b.lost <= MaxShares
  BY BookParts DEF DepthInv, Live, Message
<1>2. book'[id] = after /\ \A o \in OrderIds : o # id => book'[o] = book[o]
  BY <1>1 DEF Execute, DepthInv, BookInv, TrackerFindsLive
<1>3. /\ after \in BookOrder
      /\ after.shares = b.shares - msg.shares /\ after.lost = b.lost + msg.shares
      /\ after.status = IF msg.shares = b.shares THEN "gone" ELSE "live"
      /\ after.side = b.side /\ after.locate = b.locate /\ after.reduced = b.reduced
  BY <1>1, ExecutedParts
<1>4. after # Null
  BY <1>3, FeedAssumption
<1>5. ~t_read_valid'
  BY LookupAtEdge DEF strategy_core!tracker_read_en
<1> HIDE DEF after
<1>6. ASSUME NEW side \in Sides
      PROVE  /\ Depth(side)' <= Owed(side)' + FoundShares(side)'
             /\ Whole(side)' => Depth(side)' = Owed(side)' + FoundShares(side)'
  <2>1. Counts(after, side) <=> Counts(b, side)
    BY <1>1, <1>3, <1>4 DEF Counts
  <2>2. LiveIn(after, side) + LostIn(after, side) = LiveIn(b, side) + LostIn(b, side)
    <3>1. LiveIn(after, side) = IF Counts(b, side) THEN b.shares - msg.shares ELSE 0
      BY <1>1, <1>3, <2>1 DEF LiveIn
    <3>2. LostIn(after, side) = IF Counts(b, side) THEN b.lost + msg.shares ELSE 0
      BY <1>3, <2>1 DEF LostIn
    <3>3. /\ LiveIn(b, side) = IF Counts(b, side) THEN b.shares ELSE 0
          /\ LostIn(b, side) = IF Counts(b, side) THEN b.lost ELSE 0
      BY <1>1 DEF LiveIn, LostIn
    <3> QED
      BY <1>1, <3>1, <3>2, <3>3
  <2>3. /\ LiveShares(side)' \in Nat /\ LeakedShares(side)' \in Nat
        /\ LiveShares(side)' + LiveIn(b, side) = LiveShares(side) + LiveIn(after, side)
        /\ LeakedShares(side)' + LostIn(b, side)
              = LeakedShares(side) + LostIn(after, side)
    BY <1>1, <1>2, OwedStep DEF DepthInv
  <2>4. /\ LiveShares(side) \in Nat /\ LeakedShares(side) \in Nat
        /\ LiveIn(b, side) \in Nat /\ LostIn(b, side) \in Nat
        /\ LiveIn(after, side) \in Nat /\ LostIn(after, side) \in Nat
    <3>1. LiveShares(side) \in Nat /\ LeakedShares(side) \in Nat
      BY OwedType DEF DepthInv
    <3>2. LiveIn(b, side) \in Nat /\ LostIn(b, side) \in Nat
      BY <1>1, TermsType DEF DepthInv
    <3>3. LiveIn(after, side) \in Nat /\ LostIn(after, side) \in Nat
      BY <1>1, <1>2, TermsTypeNext
    <3> QED
      BY <3>1, <3>2, <3>3
  <2>5. Owed(side)' = Owed(side)
    <3> HIDE DEF b
    <3> QED
      BY <2>2, <2>3, <2>4 DEF Owed
  <2>6. Depth(side)' = Depth(side) /\ FoundShares(side) = 0 /\ FoundShares(side)' = 0
    BY <1>5, DepthAtEdge DEF FoundShares, strategy_core!NextDepth, strategy_core!IsAdd
  <2>7. Whole(side)' => Whole(side)
    <3> SUFFICES ASSUME Whole(side)', NEW o \in Orders(side)
                 PROVE  ~book[o].reduced
      BY DEF Whole
    <3>1. o \in OrderIds /\ Counts(book[o], side)
      BY DEF Orders, Counts
    <3>2. Counts(book'[o], side) /\ book'[o].reduced = book[o].reduced
      BY <1>2, <1>3, <2>1, <3>1
    <3>3. o \in Orders(side)'
      BY <3>1, <3>2, TermsAreInNext
    <3> QED
      BY <3>2, <3>3 DEF Whole
  <2>8. /\ Depth(side) <= Owed(side) + FoundShares(side)
        /\ Whole(side) => Depth(side) = Owed(side) + FoundShares(side)
    BY DepthIsOwed DEF DepthInv
  <2> QED
    BY <2>5, <2>6, <2>7, <2>8
<1> QED
  BY <1>6, DepthIsOwedNext

LEMMA FeedDepth ==
  ASSUME Gap # 0, DepthInv, NEW msg \in Message, NEW tready \in BOOLEAN,
         Feed(msg), Posedge(msg, tready)
  PROVE  DepthInv'
<1>1. TopInv' /\ BookInv'
  BY EdgeStep, FeedStep DEF DepthInv
<1>2. Legal(msg) /\ Follow(msg) /\ msg.id \in OrderIds /\ msg.valid \in BOOLEAN
  BY DEF Feed, Message
<1>3. CASE msg.valid
  <2>1. quiet = 0 /\ ~t_read_valid
    BY <1>2, <1>3 DEF Legal, Idle, DepthInv
  <2>2. quiet' > 0
    BY <1>3, GapAssumption DEF Feed
  <2>3. CASE msg.type \in {"A", "F"}
    <3>1. book[msg.id] = Null /\ AddToBook(msg)
      BY <1>2, <1>3, <2>3 DEF Legal, Idle, Follow
    <3>2. DepthIsLivePlusLeaked'
      BY <1>1, <1>3, <2>1, <2>3, <3>1, AddDepth
    <3> QED
      BY <1>1, <2>2, <3>2 DEF DepthInv
  <2>4. CASE msg.type \notin {"A", "F"}
    <3>1. /\ Live(msg.id) /\ msg.type \in {"D", "X", "E", "C"}
          /\ msg.locate = book[msg.id].locate
          /\ msg.type = "X" => msg.shares < book[msg.id].shares
          /\ msg.type \in {"E", "C"} => msg.shares <= book[msg.id].shares
      BY <1>2, <1>3, <2>4 DEF Legal, Idle
    <3>2. book[msg.id].shares \in Nat /\ msg.shares \in Nat
      BY <1>2, <3>1, BookParts, LinesAreNat DEF Live, DepthInv, Message
    <3>3. DepthIsLivePlusLeaked'
      <4>1. CASE msg.type = "D"
        <5>1. TakeOut(msg.id, book[msg.id].shares, "gone")
          BY <1>2, <1>3, <4>1 DEF Follow
        <5> QED
          BY <1>1, <1>3, <2>1, <3>1, <3>2, <4>1, <5>1, TakeOutDepth
      <4>2. CASE msg.type = "X"
        <5>1. TakeOut(msg.id, msg.shares, "live")
          BY <1>2, <1>3, <4>2 DEF Follow
        <5>2. msg.shares <= book[msg.id].shares
          BY <3>1, <3>2, <4>2
        <5> QED
          BY <1>1, <1>3, <2>1, <3>1, <3>2, <4>2, <5>1, <5>2, TakeOutDepth
      <4>3. CASE msg.type \in {"E", "C"}
        <5>1. Execute(msg.id, msg.shares)
          BY <1>2, <1>3, <4>3 DEF Follow
        <5> QED
          BY <1>1, <2>1, <3>1, <3>2, <4>3, <5>1, ExecuteDepth
      <4> QED
        BY <3>1, <4>1, <4>2, <4>3
    <3> QED
      BY <1>1, <2>2, <3>3 DEF DepthInv
  <2> QED
    BY <2>3, <2>4
<1>4. CASE ~msg.valid
  <2>1. book' = book
    BY <1>2, <1>4 DEF Follow
  <2>2. ~t_read_valid' /\ DepthIsLivePlusLeaked'
    BY <1>4, <2>1, IdleDepth
  <2> QED
    BY <1>1, <2>2 DEF DepthInv
<1> QED
  BY <1>2, <1>3, <1>4

\* At the start and after a reset.
Empty ==
    /\ book = [id \in OrderIds |-> Null] /\ ~t_read_valid
    /\ total_bid_depth = 0 /\ total_ask_depth = 0

LEMMA EmptyDepth == Empty => DepthIsLivePlusLeaked
<1> SUFFICES ASSUME Empty
             PROVE  DepthIsLivePlusLeaked
  OBVIOUS
<1> USE DEF Empty
<1>1. ASSUME NEW side \in Sides
      PROVE  Depth(side) = 0 /\ Owed(side) = 0 /\ FoundShares(side) = 0
  <2>1. \A id \in OrderIds : LiveOn(side)[id] = 0 /\ LeakedOn(side)[id] = 0
    BY DEF LiveOn, LeakedOn, Orders
  <2>2. LiveShares(side) = 0 /\ LeakedShares(side) = 0
    BY <2>1, RoomAssumption, SumOfZeros DEF LiveShares, LeakedShares
  <2> QED
    BY <2>2 DEF Depth, Owed, FoundShares
<1> QED
  BY <1>1, DepthIsOwed

LEMMA ResetDepth ==
  ASSUME DepthInv, BookReset
  PROVE  DepthInv'
<1>1. TopInv' /\ BookInv'
  BY ResetStep, BookResetStep DEF DepthInv, BookReset
<1>2. Empty'
  BY DEF BookReset, Reset, id_table!Reset, strategy_core!Reset, Empty
<1>3. DepthIsLivePlusLeaked'
  BY <1>2, EmptyDepth, PTL
<1> QED
  BY <1>1, <1>2, <1>3 DEF DepthInv, Empty

LEMMA KeptDepth ==
  ASSUME DepthInv, UNCHANGED bookVars
  PROVE  DepthInv'
<1>1. /\ vars' = vars /\ book' = book /\ quiet' = quiet
  BY DEF bookVars
<1>2. /\ t_read_valid' = t_read_valid /\ t_out' = t_out
      /\ total_bid_depth' = total_bid_depth /\ total_ask_depth' = total_ask_depth
  BY <1>1 DEF vars, id_table!vars, strategy_core!vars
<1>3. TopInv' /\ BookInv'
  BY <1>1, NextTopInv, NextBookInv DEF DepthInv
<1>4. DepthIsLivePlusLeaked'
  BY <1>1, <1>2 DEF DepthInv, DepthIsLivePlusLeaked, LiveShares, LeakedShares, LiveOn,
     LeakedOn, Orders, Live, Depth, FoundShares
<1> QED
  BY <1>1, <1>2, <1>3, <1>4 DEF DepthInv

(***************************************************************************)
(* On a legal feed of Adds, deletions, cancels and executions with a gap   *)
(* after each message, and for any tracker, the depth of a side is what    *)
(* the live orders of the stock, the lookup in progress and what           *)
(* executions and evictions left behind add up to, or less than that once  *)
(* an order was cancelled in part (alpha_core.sv, lines 39-69, with the    *)
(* tracker of order_id_tracker.sv).                                        *)
(***************************************************************************)
THEOREM DepthsFollowTheBook ==
  ASSUME Gap # 0
  PROVE  BookSpec => []DepthIsLivePlusLeaked
<1>1. BookInit => DepthInv
  <2> SUFFICES ASSUME BookInit
               PROVE  DepthInv
    OBVIOUS
  <2>1. TopInv /\ BookInv
    BY InitTopInv, InitBookInv DEF BookInit
  <2>2. Empty
    BY DEF BookInit, Init, id_table!Init, strategy_core!Init, Empty
  <2> QED
    BY <2>1, <2>2, EmptyDepth DEF DepthInv, Empty
<1>2. DepthInv /\ [BookNext]_bookVars => DepthInv'
  BY FeedDepth, ResetDepth, KeptDepth DEF BookNext, BookClocked
<1>3. DepthInv => DepthIsLivePlusLeaked
  BY DEF DepthInv
<1> QED
  BY <1>1, <1>2, <1>3, PTL DEF BookSpec
-----------------------------------------------------------------------------
(***************************************************************************)
(* The simulation harness.                                                 *)
(***************************************************************************)

\* The cycles that n messages may take.
Budget(n) == n * (1 + POLLS + SPACING)

Measurement == [arrival : Nat, send : Nat, latency : Nat]

Witness ==
    [ msg : Message, at_rest : BOOLEAN, quiet : BOOLEAN, token : Nat,
      trade : OrderPorts ]

Arrival == [cycle : Nat, msg : Message, at_rest : BOOLEAN]

\* The lists grow together.
Lists ==
    /\ measurements \in Seq(Measurement)
    /\ latencies \in Seq(Nat)
    /\ witness \in Seq(Witness)
    /\ Len(latencies) = Len(measurements)
    /\ Len(witness) = Len(measurements)
    /\ \A i \in 1 .. Len(measurements) : latencies[i] = measurements[i].latency

\* What the program's counters say in each of its loops.
Clocks ==
    /\ pc \in {"reset", "settle", "inject", "poll", "space", "done"}
    /\ count \in Nat /\ cycle_counter \in Nat /\ main_time \in Nat
    /\ arrival \in Arrival
    /\ bus \in Message
    /\ Len(measurements) <= MESSAGE_COUNT
    /\ pc \in {"reset", "settle"} => Len(measurements) = 0 /\ cycle_counter = 0
    /\ pc = "reset" => count < RESET_TICKS /\ main_time = 2 * count
    /\ pc = "settle" => count = 0 /\ main_time = 2 * RESET_TICKS
    /\ pc \notin {"reset", "settle"} => main_time = 2 * (RESET_TICKS + 1 + cycle_counter)
    /\ pc = "inject" =>
          /\ count = 0 /\ Len(measurements) < MESSAGE_COUNT
          /\ cycle_counter <= Budget(Len(measurements))
    /\ pc = "poll" =>
          /\ count < POLLS /\ Len(measurements) < MESSAGE_COUNT
          /\ count + 1 <= cycle_counter
          /\ cycle_counter <= Budget(Len(measurements)) + 1 + count
          /\ arrival.cycle = main_time - 2 * (count + 1)
    /\ pc = "space" =>
          /\ count < SPACING /\ 0 < Len(measurements)
          /\ cycle_counter + SPACING <= Budget(Len(measurements)) + count
    /\ pc = "done" => cycle_counter <= Budget(Len(measurements))

\* What has been recorded is a latency of the poll, or stands out.
TrueOrHuge(m) ==
    IF m.send # 0 THEN m.latency \in 2 .. POLLS + 1
                  ELSE m.latency > 2 * Budget(MESSAGE_COUNT)

ClockInv ==
    /\ TopInv /\ Lists /\ Clocks
    /\ \A i \in 1 .. Len(measurements) : TrueOrHuge(measurements[i])

-----------------------------------------------------------------------------
LEMMA LoopsAreNat ==
  /\ RESET_TICKS \in Nat \ {0} /\ POLLS \in Nat \ {0} /\ SPACING \in Nat \ {0}
  /\ MESSAGE_COUNT \in Nat \ {0} /\ WORD_TIME \in Nat
  BY HarnessAssumption

LEMMA BudgetStep ==
  \A n \in Nat : /\ Budget(n) \in Nat
                 /\ Budget(n + 1) = Budget(n) + 1 + POLLS + SPACING
<1> SUFFICES ASSUME NEW n \in Nat
             PROVE  /\ Budget(n) \in Nat
                    /\ Budget(n + 1) = Budget(n) + 1 + POLLS + SPACING
  OBVIOUS
<1> DEFINE g == 1 + POLLS + SPACING
<1>1. g \in Nat
  BY LoopsAreNat
<1> HIDE DEF g
<1>2. n * g \in Nat /\ (n + 1) * g = n * g + g
  BY <1>1
<1> QED
  BY <1>2, LoopsAreNat DEF Budget, g

LEMMA BudgetBound ==
  \A n \in 0 .. MESSAGE_COUNT : Budget(n) <= Budget(MESSAGE_COUNT)
<1> SUFFICES ASSUME NEW n \in 0 .. MESSAGE_COUNT
             PROVE  Budget(n) <= Budget(MESSAGE_COUNT)
  OBVIOUS
<1> DEFINE g == 1 + POLLS + SPACING
<1>1. g \in Nat /\ n \in Nat /\ MESSAGE_COUNT \in Nat /\ n <= MESSAGE_COUNT
  BY LoopsAreNat
<1> HIDE DEF g
<1>2. g * n <= g * MESSAGE_COUNT
  BY <1>1, TimesMonotone
<1>3. g * n = n * g /\ g * MESSAGE_COUNT = MESSAGE_COUNT * g
  BY <1>1
<1> QED
  BY <1>2, <1>3 DEF Budget, g

LEMMA TimeIsWide == 8 * (RESET_TICKS + 1 + Budget(MESSAGE_COUNT)) < WORD_TIME
  BY HarnessAssumption DEF Budget

LEMMA ModNegative == \A w \in Nat, a \in Nat : 0 < a /\ a < w => (0 - a) % w = w - a
  OBVIOUS

LEMMA HalfOfEven == \A a \in Nat : (2 * a) \div 2 = a
  OBVIOUS

\* Within the cycles the loops allow, an answer is measured truly and the
\* lack of one gives a number that no answer gives.
LEMMA LatencyOfAnswer ==
  ASSUME ClockInv, pc = "poll"
  PROVE  /\ Latency(main_time + 2) \in 2 .. POLLS + 1
         /\ Latency(main_time + 2) = count + 2
<1>1. /\ count \in Nat /\ count < POLLS /\ main_time \in Nat
      /\ arrival.cycle = main_time - 2 * (count + 1)
  BY DEF ClockInv, Clocks
<1>2. main_time + 2 - arrival.cycle = 2 * (count + 2)
  BY <1>1
<1>3. 2 * (count + 2) < WORD_TIME
  <2>1. /\ cycle_counter \in Nat /\ count + 1 <= cycle_counter
        /\ cycle_counter <= Budget(Len(measurements)) + 1 + count
        /\ Len(measurements) \in Nat /\ Len(measurements) < MESSAGE_COUNT
    BY LenProperties DEF ClockInv, Clocks, Lists
  <2>2. Budget(Len(measurements) + 1) <= Budget(MESSAGE_COUNT)
    BY <2>1, LoopsAreNat, BudgetBound
  <2>3. /\ Budget(Len(measurements)) \in Nat
        /\ Budget(MESSAGE_COUNT) \in Nat
        /\ Budget(Len(measurements) + 1) = Budget(Len(measurements)) + 1 + POLLS + SPACING
    BY <2>1, LoopsAreNat, BudgetStep
  <2> QED
    BY <1>1, <2>2, <2>3, LoopsAreNat, TimeIsWide
<1>4. (2 * (count + 2)) % WORD_TIME = 2 * (count + 2)
  BY <1>1, <1>3, ModSmall, LoopsAreNat
<1>5. (2 * (count + 2)) \div 2 = count + 2
  BY <1>1
<1>6. Latency(main_time + 2) = count + 2
  <2>1. Latency(main_time + 2) = ((main_time + 2 - arrival.cycle) % WORD_TIME) \div 2
    BY <1>1, LoopsAreNat DEF Latency
  <2> QED
    BY <1>2, <1>4, <1>5, <2>1
<1> QED
  BY <1>1, <1>6, LoopsAreNat

LEMMA LatencyOfSilence ==
  ASSUME ClockInv, pc = "poll"
  PROVE  Latency(0) \in Nat /\ Latency(0) > 2 * Budget(MESSAGE_COUNT)
<1> DEFINE a == arrival.cycle
<1>1. /\ count \in Nat /\ count < POLLS /\ main_time \in Nat /\ cycle_counter \in Nat
      /\ count + 1 <= cycle_counter
      /\ cycle_counter <= Budget(Len(measurements)) + 1 + count
      /\ main_time = 2 * (RESET_TICKS + 1 + cycle_counter)
      /\ a = main_time - 2 * (count + 1)
      /\ Len(measurements) \in Nat /\ Len(measurements) < MESSAGE_COUNT
  BY LenProperties DEF ClockInv, Clocks, Lists
<1>2. Budget(Len(measurements)) <= Budget(MESSAGE_COUNT)
  BY <1>1, LoopsAreNat, BudgetBound
<1>3. Budget(Len(measurements)) \in Nat /\ Budget(MESSAGE_COUNT) \in Nat
  BY <1>1, LoopsAreNat, BudgetStep
<1>4. /\ a \in Nat /\ 0 < a
      /\ a <= 2 * (RESET_TICKS + 1 + Budget(MESSAGE_COUNT))
  BY <1>1, <1>2, <1>3, LoopsAreNat
<1> HIDE DEF a
<1>5. a < WORD_TIME
  BY <1>3, <1>4, LoopsAreNat, TimeIsWide
<1>6. (0 - a) % WORD_TIME = WORD_TIME - a
  BY <1>4, <1>5, ModNegative, LoopsAreNat
<1>7. (WORD_TIME - a) \in Nat /\ WORD_TIME - a > 4 * Budget(MESSAGE_COUNT) + 2
  BY <1>3, <1>4, LoopsAreNat, TimeIsWide
<1>8. (WORD_TIME - a) \div 2 \in Nat /\ (WORD_TIME - a) \div 2 > 2 * Budget(MESSAGE_COUNT)
  BY <1>3, <1>7
<1> QED
  BY <1>6, <1>8 DEF Latency, a

-----------------------------------------------------------------------------
\* What recording a measurement does to the lists.
LEMMA RecordStep ==
  ASSUME TopInv', Lists, arrival \in Arrival, NEW send \in Nat,
         Latency(send) \in Nat, Record(send)
  PROVE  /\ Lists'
         /\ Len(measurements') = Len(measurements) + 1
         /\ \A i \in 1 .. Len(measurements) :
               measurements'[i] = measurements[i] /\ witness'[i] = witness[i]
         /\ measurements'[Len(measurements) + 1].send = send
         /\ measurements'[Len(measurements) + 1].latency = Latency(send)
         /\ witness'[Len(measurements) + 1].token = token'
         /\ witness'[Len(measurements) + 1].msg = arrival.msg
         /\ witness'[Len(measurements) + 1].at_rest = arrival.at_rest
         /\ witness'[Len(measurements) + 1].quiet = AtRest'
         /\ witness'[Len(measurements) + 1].trade = r'
<1> DEFINE m == [arrival |-> arrival.cycle, send |-> send, latency |-> Latency(send)]
           w == [msg |-> arrival.msg, at_rest |-> arrival.at_rest, quiet |-> AtRest',
                 token |-> token', trade |-> r']
           n == Len(measurements)
<1>1. /\ measurements' = Append(measurements, m)
      /\ latencies' = Append(latencies, Latency(send))
      /\ witness' = Append(witness, w)
  BY DEF Record, latency_tracker!record_latency_ns
<1>2. m \in Measurement
  BY DEF Measurement, Arrival
<1>3. w \in Witness
  <2>1. AtRest' \in BOOLEAN
    BY DEF AtRest
  <2>2. token' \in Nat /\ r' \in OrderPorts
    BY WordsAreNat DEF TopInv, TypeOK, ouch_gen!TypeOK, ouch_gen!Tokens
  <2> QED
    BY <2>1, <2>2 DEF Witness, Arrival
<1>4. /\ m.send = send /\ m.latency = Latency(send) /\ w.token = token'
      /\ w.msg = arrival.msg /\ w.at_rest = arrival.at_rest
      /\ w.quiet = AtRest' /\ w.trade = r'
  OBVIOUS
<1> HIDE DEF m, w
<1>5. n \in Nat /\ Len(latencies) = n /\ Len(witness) = n
  BY LenProperties DEF Lists
<1>6. /\ measurements' \in Seq(Measurement) /\ Len(measurements') = n + 1
      /\ \A i \in 1 .. n : measurements'[i] = measurements[i]
      /\ measurements'[n + 1] = m
  BY <1>1, <1>2, AppendProperties DEF Lists
<1>7. /\ latencies' \in Seq(Nat) /\ Len(latencies') = n + 1
      /\ \A i \in 1 .. n : latencies'[i] = latencies[i]
      /\ latencies'[n + 1] = Latency(send)
  BY <1>1, <1>5, AppendProperties DEF Lists
<1>8. /\ witness' \in Seq(Witness) /\ Len(witness') = n + 1
      /\ \A i \in 1 .. n : witness'[i] = witness[i]
      /\ witness'[n + 1] = w
  BY <1>1, <1>3, <1>5, AppendProperties DEF Lists
<1>9. \A i \in 1 .. n + 1 : latencies'[i] = measurements'[i].latency
  <2> SUFFICES ASSUME NEW i \in 1 .. n + 1
               PROVE  latencies'[i] = measurements'[i].latency
    OBVIOUS
  <2>1. CASE i \in 1 .. n
    BY <1>6, <1>7, <2>1 DEF Lists
  <2>2. CASE i = n + 1
    BY <1>4, <1>6, <1>7, <2>2
  <2> QED
    BY <1>5, <2>1, <2>2
<1>10. Lists'
  BY <1>6, <1>7, <1>8, <1>9 DEF Lists
<1> QED
  BY <1>4, <1>6, <1>8, <1>10

LEMMA ListsKept ==
  ASSUME Lists, UNCHANGED records
  PROVE  Lists'
  BY DEF records, Lists

LEMMA RecordsKept ==
  ASSUME UNCHANGED records
  PROVE  measurements' = measurements /\ latencies' = latencies /\ witness' = witness
  BY DEF records

\* A tick is an edge of the design.
LEMMA TickIsEdge ==
  ASSUME TopInv, NEW msg \in Message, Tick(msg)
  PROVE  /\ TopInv' /\ token' \in {token, token + 1}
         /\ Posedge(msg, TRUE) /\ main_time' = main_time + 2
  BY EdgeStep DEF Tick

LEMMA InitClockInv == HarnessInit => ClockInv
<1> SUFFICES ASSUME HarnessInit
             PROVE  ClockInv
  OBVIOUS
<1>1. TopInv
  BY InitTopInv DEF HarnessInit
<1>2. measurements = << >> /\ latencies = << >> /\ witness = << >>
  BY DEF HarnessInit, latency_tracker!Init
<1>3. Lists
  BY <1>2, EmptySeq DEF Lists
<1>4. bus \in Message /\ arrival \in Arrival
  BY LinesAssumption DEF HarnessInit, Arrival
<1>5. Clocks
  BY <1>2, <1>4, LoopsAreNat DEF Clocks, HarnessInit
<1> QED
  BY <1>1, <1>2, <1>3, <1>5 DEF ClockInv

\* The steps of the program that record nothing.
LEMMA ResetClocks ==
  ASSUME ClockInv, ResetSequence
  PROVE  ClockInv'
<1>1. TopInv'
  BY ResetStep DEF ClockInv, ResetSequence, TickReset
<1>2. Lists' /\ measurements' = measurements
  BY ListsKept, RecordsKept DEF ClockInv, ResetSequence
<1>3. Clocks'
  BY <1>2, LoopsAreNat DEF ClockInv, Clocks, ResetSequence, TickReset, Loop
<1> QED
  BY <1>1, <1>2, <1>3 DEF ClockInv, TrueOrHuge, Budget

LEMMA SettleClocks ==
  ASSUME ClockInv, Settle
  PROVE  ClockInv'
<1>1. TopInv' /\ main_time' = main_time + 2
  BY TickIsEdge DEF ClockInv, Clocks, Settle
<1>2. Lists' /\ measurements' = measurements
  BY ListsKept, RecordsKept DEF ClockInv, Settle
<1>3. Clocks'
  <2>1. Budget(Len(measurements)) \in Nat
    BY LenProperties, BudgetStep DEF ClockInv, Lists
  <2> QED
    BY <1>1, <1>2, <2>1, LoopsAreNat DEF ClockInv, Clocks, Settle
<1> QED
  BY <1>1, <1>2, <1>3 DEF ClockInv, TrueOrHuge, Budget

LEMMA InjectClocks ==
  ASSUME ClockInv, NEW msg \in TestMessages, Inject(msg)
  PROVE  ClockInv'
<1>1. msg \in Message /\ bus' \in Message
  BY LinesAssumption DEF Inject, Message
<1>2. TopInv' /\ main_time' = main_time + 2
  BY <1>1, TickIsEdge DEF ClockInv, Inject
<1>3. Lists' /\ measurements' = measurements
  BY ListsKept, RecordsKept DEF ClockInv, Inject
<1>4. arrival' \in Arrival /\ arrival'.cycle = main_time
  <2>1. AtRest \in BOOLEAN
    BY DEF AtRest
  <2> QED
    BY <1>1, <2>1 DEF Inject, Arrival, ClockInv, Clocks
<1>5. Clocks'
  <2>1. Budget(Len(measurements)) \in Nat
    BY LenProperties, BudgetStep DEF ClockInv, Lists
  <2>2. /\ pc' = "poll" /\ count' = 0 /\ cycle_counter' = cycle_counter + 1
        /\ main_time = 2 * (RESET_TICKS + 1 + cycle_counter)
        /\ cycle_counter \in Nat /\ main_time \in Nat
        /\ Len(measurements) < MESSAGE_COUNT
        /\ cycle_counter <= Budget(Len(measurements))
    BY DEF ClockInv, Clocks, Inject, Counted
  <2> QED
    BY <1>1, <1>2, <1>3, <1>4, <2>1, <2>2, LoopsAreNat DEF ClockInv, Clocks, Lists, Budget
<1> QED
  BY <1>2, <1>3, <1>5 DEF ClockInv, TrueOrHuge, Budget

\* One cycle of a poll, as far as the counters go.
LEMMA PollTick ==
  ASSUME ClockInv, pc = "poll", Tick(bus), Counted
  PROVE  /\ TopInv' /\ main_time' = main_time + 2 /\ cycle_counter' = cycle_counter + 1
         /\ main_time' = 2 * (RESET_TICKS + 1 + cycle_counter')
         /\ main_time \in Nat /\ main_time' \in Nat /\ cycle_counter' \in Nat
         /\ count \in Nat /\ count < POLLS /\ count + 1 <= cycle_counter
         /\ Len(measurements) \in Nat /\ Len(measurements) < MESSAGE_COUNT
         /\ cycle_counter' <= Budget(Len(measurements)) + 2 + count
         /\ Budget(Len(measurements)) \in Nat
         /\ arrival \in Arrival /\ bus \in Message
         /\ arrival.cycle = main_time - 2 * (count + 1)
<1>1. bus \in Message /\ arrival \in Arrival
  BY DEF ClockInv, Clocks
<1>2. TopInv' /\ main_time' = main_time + 2
  BY <1>1, TickIsEdge DEF ClockInv
<1>3. Len(measurements) \in Nat /\ Budget(Len(measurements)) \in Nat
  BY LenProperties, BudgetStep DEF ClockInv, Lists
<1> QED
  BY <1>1, <1>2, <1>3, LoopsAreNat DEF ClockInv, Clocks, Counted

LEMMA PollAgainClocks ==
  ASSUME ClockInv, PollAgain
  PROVE  ClockInv'
<1>1. /\ pc = "poll" /\ Tick(bus) /\ Counted /\ count + 1 < POLLS
      /\ count' = count + 1 /\ pc' = pc /\ bus' = bus /\ arrival' = arrival
  BY DEF PollAgain
<1>2. Lists' /\ measurements' = measurements
  BY ListsKept, RecordsKept DEF ClockInv, PollAgain
<1>3. Clocks'
  <2>1. arrival'.cycle = main_time' - 2 * (count' + 1)
    BY <1>1, PollTick
  <2>2. cycle_counter' <= Budget(Len(measurements))' + 1 + count'
    BY <1>1, <1>2, PollTick DEF Budget
  <2>3. count' \in Nat /\ count' < POLLS /\ count' + 1 <= cycle_counter'
    BY <1>1, PollTick, LoopsAreNat DEF ClockInv, Clocks
  <2>4. /\ cycle_counter' \in Nat /\ main_time' \in Nat
        /\ main_time' = 2 * (RESET_TICKS + 1 + cycle_counter')
        /\ arrival' \in Arrival /\ bus' \in Message
        /\ Len(measurements') \in Nat /\ Len(measurements') < MESSAGE_COUNT
    BY <1>1, <1>2, PollTick
  <2>5. pc' = "poll" /\ Len(measurements') <= MESSAGE_COUNT
    BY <1>1, <2>4, LoopsAreNat
  <2> QED
    BY <2>1, <2>2, <2>3, <2>4, <2>5 DEF Clocks
<1> QED
  BY <1>1, <1>2, <1>3, PollTick DEF ClockInv, TrueOrHuge, Budget

\* The end of a poll, answered or not.
LEMMA PollEndClocks ==
  ASSUME ClockInv, pc = "poll", Tick(bus), Counted, StopPolling,
         UNCHANGED <<bus, arrival>>,
         NEW send \in Nat, Record(send), Latency(send) \in Nat,
         IF send # 0 THEN Latency(send) \in 2 .. POLLS + 1
                     ELSE Latency(send) > 2 * Budget(MESSAGE_COUNT)
  PROVE  ClockInv'
<1> DEFINE n == Len(measurements)
<1>1. /\ Lists' /\ Len(measurements') = n + 1
      /\ \A i \in 1 .. n : measurements'[i] = measurements[i]
      /\ measurements'[n + 1].send = send
      /\ measurements'[n + 1].latency = Latency(send)
  BY PollTick, RecordStep DEF ClockInv
<1>2. n \in Nat /\ Budget(n + 1) = Budget(n) + 1 + POLLS + SPACING
  BY PollTick, BudgetStep
<1>3. Clocks'
  <2>1. /\ pc' = "space" /\ count' = 0 /\ arrival' \in Arrival /\ bus' \in Message
        /\ 0 < Len(measurements') /\ Len(measurements') <= MESSAGE_COUNT
    <3>1. n \in Nat /\ n < MESSAGE_COUNT /\ bus \in Message /\ arrival \in Arrival
      BY PollTick
    <3> HIDE DEF n
    <3> QED
      BY <1>1, <3>1, LoopsAreNat DEF StopPolling
  <2>2. cycle_counter' + SPACING <= Budget(Len(measurements')) + count'
    <3>1. /\ cycle_counter' \in Nat /\ count \in Nat /\ count < POLLS
          /\ Budget(n) \in Nat /\ cycle_counter' <= Budget(n) + 2 + count
      BY PollTick
    <3> HIDE DEF n
    <3>2. cycle_counter' + SPACING <= Budget(n + 1)
      BY <1>2, <3>1, LoopsAreNat
    <3>3. Budget(n + 1) \in Nat
      BY <1>2, BudgetStep
    <3> QED
      BY <1>1, <2>1, <3>2, <3>3
  <2>3. Budget(Len(measurements))' = Budget(Len(measurements'))
    BY DEF Budget
  <2> QED
    BY <2>1, <2>2, <2>3, PollTick, LoopsAreNat DEF Clocks
<1>4. ASSUME NEW i \in 1 .. n + 1
      PROVE  TrueOrHuge(measurements'[i])
  <2>1. CASE i \in 1 .. n
    BY <1>1, <2>1 DEF ClockInv
  <2>2. CASE i = n + 1
    BY <1>1, <2>2 DEF TrueOrHuge
  <2> QED
    BY <1>2, <2>1, <2>2
<1> QED
  BY <1>1, <1>3, <1>4, PollTick DEF ClockInv, TrueOrHuge, Budget

LEMMA PollAnsweredClocks ==
  ASSUME ClockInv, PollAnswered
  PROVE  ClockInv'
<1>1. /\ pc = "poll" /\ Tick(bus) /\ Counted /\ StopPolling
      /\ UNCHANGED <<bus, arrival>> /\ Record(main_time')
  BY DEF PollAnswered
<1>2. main_time + 2 \in Nat /\ main_time + 2 # 0 /\ main_time' = main_time + 2
  BY <1>1, PollTick DEF ClockInv, Clocks
<1>3. Latency(main_time + 2) \in 2 .. POLLS + 1
  BY <1>1, LatencyOfAnswer
<1>4. Record(main_time + 2)
  BY <1>1, <1>2
<1> QED
  BY <1>1, <1>2, <1>3, <1>4, PollEndClocks, LoopsAreNat

LEMMA PollExpiresClocks ==
  ASSUME ClockInv, PollExpires
  PROVE  ClockInv'
<1>1. /\ pc = "poll" /\ Tick(bus) /\ Counted /\ StopPolling
      /\ UNCHANGED <<bus, arrival>> /\ Record(0)
  BY DEF PollExpires
<1> QED
  BY <1>1, LatencyOfSilence, PollEndClocks

LEMMA SpaceClocks ==
  ASSUME ClockInv, Space
  PROVE  ClockInv'
<1> DEFINE n == Len(measurements)
<1>1. bus \in Message /\ Tick(bus)
  BY DEF ClockInv, Clocks, Space
<1>2. TopInv' /\ main_time' = main_time + 2
  BY <1>1, TickIsEdge DEF ClockInv
<1>3. Lists' /\ measurements' = measurements
  BY ListsKept, RecordsKept DEF ClockInv, Space
<1>4. n \in Nat /\ Budget(n) \in Nat
  BY LenProperties, BudgetStep DEF ClockInv, Lists
<1>5. /\ pc = "space" /\ count \in Nat /\ count < SPACING /\ 0 < n /\ n <= MESSAGE_COUNT
      /\ cycle_counter \in Nat /\ cycle_counter' = cycle_counter + 1
      /\ main_time \in Nat /\ main_time = 2 * (RESET_TICKS + 1 + cycle_counter)
      /\ cycle_counter + SPACING <= Budget(n) + count
      /\ arrival \in Arrival /\ arrival' = arrival /\ bus' = bus
  BY DEF ClockInv, Clocks, Space, Counted
<1>6. Clocks'
  <2>1. CASE count + 1 < SPACING
    <3>1. count' = count + 1 /\ pc' = "space"
      BY <1>5, <2>1 DEF Space, Loop
    <3> QED
      BY <1>1, <1>2, <1>3, <1>4, <1>5, <2>1, <3>1, LoopsAreNat DEF Clocks, Budget
  <2>2. CASE ~(count + 1 < SPACING)
    <3>1. count' = 0 /\ pc' = IF n < MESSAGE_COUNT THEN "inject" ELSE "done"
      BY <2>2 DEF Space, Loop
    <3> QED
      BY <1>1, <1>2, <1>3, <1>4, <1>5, <2>2, <3>1, LoopsAreNat DEF Clocks, Budget
  <2> QED
    BY <2>1, <2>2
<1> QED
  BY <1>2, <1>3, <1>6 DEF ClockInv, TrueOrHuge, Budget

LEMMA NextClockInv == ClockInv /\ [Run]_harnessVars => ClockInv'
<1> SUFFICES ASSUME ClockInv, [Run]_harnessVars
             PROVE  ClockInv'
  OBVIOUS
<1>1. CASE Run
  BY <1>1, ResetClocks, SettleClocks, InjectClocks, PollAnsweredClocks, PollAgainClocks,
     PollExpiresClocks, SpaceClocks DEF Run
<1>2. CASE UNCHANGED harnessVars
  <2>1. TopInv'
    BY <1>2, StutterStep DEF ClockInv, harnessVars
  <2>2. Lists' /\ measurements' = measurements
    BY <1>2, ListsKept, RecordsKept DEF ClockInv, harnessVars
  <2>3. Clocks'
    BY <1>2, <2>2 DEF ClockInv, Clocks, harnessVars, Budget
  <2> QED
    BY <2>1, <2>2, <2>3 DEF ClockInv, TrueOrHuge, Budget
<1> QED
  BY <1>1, <1>2

LEMMA ClockInvariant == HarnessSpec => []ClockInv
  BY InitClockInv, NextClockInv, PTL DEF HarnessSpec

(***************************************************************************)
(* For every script and every length of the loops, a message without an    *)
(* order is recorded as a number that no answer gives, and the statistics  *)
(* are about those numbers (sim_main.cpp, lines 129-140).                  *)
(***************************************************************************)
THEOREM UnderflowCanBeTold == HarnessSpec => []UnderflowStandsOut
<1>1. ClockInv => UnderflowStandsOut
  <2> SUFFICES ASSUME ClockInv
               PROVE  UnderflowStandsOut
    OBVIOUS
  <2>1. /\ Taken = 1 .. Len(measurements) /\ Len(measurements) \in Nat
        /\ latencies = [i \in Taken |-> measurements[i].latency]
    <3>1. Taken = 1 .. Len(measurements) /\ Len(measurements) \in Nat
      BY LenProperties DEF Taken, ClockInv, Lists
    <3>2. latencies = [i \in 1 .. Len(latencies) |-> latencies[i]]
      BY LenProperties DEF ClockInv, Lists
    <3> QED
      BY <3>1, <3>2 DEF ClockInv, Lists
  <2>2. cycle_counter \in Nat /\ cycle_counter <= Budget(MESSAGE_COUNT)
    <3>1. \A n \in 0 .. MESSAGE_COUNT : Budget(n) \in Nat /\ Budget(n) <= Budget(MESSAGE_COUNT)
      BY BudgetBound, BudgetStep
    <3>2. Len(measurements) + 1 \in Nat /\ Budget(Len(measurements) + 1)
             = Budget(Len(measurements)) + 1 + POLLS + SPACING
      BY <2>1, BudgetStep
    <3>3. Len(measurements) \in 0 .. MESSAGE_COUNT
      BY <2>1, LoopsAreNat DEF ClockInv, Clocks
    <3>4. pc = "poll" => Len(measurements) + 1 \in 0 .. MESSAGE_COUNT
      BY <2>1, LoopsAreNat DEF ClockInv, Clocks
    <3>5. Budget(MESSAGE_COUNT) \in Nat
      BY LoopsAreNat, BudgetStep
    <3> QED
      BY <3>1, <3>2, <3>3, <3>4, <3>5, LoopsAreNat DEF ClockInv, Clocks
  <2>3. ASSUME NEW i \in Taken
        PROVE  IF Answered(i) THEN measurements[i].latency \in 2 .. POLLS + 1
               ELSE measurements[i].latency > 2 * cycle_counter
    <3>1. TrueOrHuge(measurements[i])
      BY <2>1 DEF ClockInv
    <3>2. measurements[i].latency \in Nat
      <4>1. measurements[i] \in Measurement
        BY <2>1, ElementOfSeq DEF ClockInv, Lists
      <4> QED
        BY <4>1 DEF Measurement
    <3>3. Budget(MESSAGE_COUNT) \in Nat
      BY LoopsAreNat, BudgetStep
    <3> QED
      BY <2>2, <3>1, <3>2, <3>3 DEF TrueOrHuge, Answered
  <2> QED
    BY <2>1, <2>3 DEF UnderflowStandsOut
<1> QED
  BY <1>1, ClockInvariant, PTL

-----------------------------------------------------------------------------
\* The states in which a beat is on the port, and how many beats of the
\* frame have been there.
FrameStates == {"HDR2", "OUCH1", "OUCH2", "OUCH3", "DONE"}

BeatsOut(s) ==
    CASE s = "HDR2" -> 1 [] s = "OUCH1" -> 2 [] s = "OUCH2" -> 3
      [] s = "OUCH3" -> 4 [] s = "DONE" -> 5

Offering == tvalid <=> state \in FrameStates

\* The frame with token t is over, or more than k of its beats are out.
Spent(t) == t < token \/ (t = token /\ state = "IDLE" /\ ~tvalid)

Sending(t, k) == t = token /\ state \in FrameStates /\ BeatsOut(state) > k

\* The cycles since the last measurement.
Passed ==
    CASE pc = "space" -> count
      [] pc = "poll"  -> SPACING + 1 + count
      [] OTHER        -> SPACING

\* A frame that has been measured is over before the first answer that could
\* be taken from it again, because every cycle is a beat of it.
FrameInv ==
    /\ ClockInv
    /\ Offering
    /\ \A i \in 1 .. Len(measurements) :
          Answered(i) => Spent(witness[i].token) \/ Sending(witness[i].token, Passed)
    /\ OneFrameOneMeasurement

LEMMA TakenIsRange ==
  ASSUME Lists
  PROVE  /\ Taken = 1 .. Len(measurements) /\ Len(measurements) \in Nat
         /\ \A i \in 1 .. Len(measurements) : witness[i].token \in Nat
<1>1. Taken = 1 .. Len(measurements) /\ Len(measurements) \in Nat
  BY LenProperties DEF Taken, Lists
<1>2. ASSUME NEW i \in 1 .. Len(measurements)
      PROVE  witness[i].token \in Nat
  <2>1. witness[i] \in Witness
    BY <1>2, ElementOfSeq DEF Lists
  <2> QED
    BY <2>1 DEF Witness
<1> QED
  BY <1>1, <1>2

\* An edge of the generator: what is over stays over, and a frame that is
\* going out is one beat further or over.
LEMMA FrameStep ==
  ASSUME TopInv, TopInv', Offering, NEW msg \in Message, Posedge(msg, TRUE),
         token' \in {token, token + 1}
  PROVE  /\ Offering'
         /\ \A t \in Nat : Spent(t) =>
               t < token' \/ (t = token' /\ state' = "IDLE" /\ ~tvalid')
         /\ \A t \in Nat, k \in Nat : Sending(t, k) =>
               \/ t = token' /\ state' = "IDLE" /\ ~tvalid'
               \/ /\ t = token' /\ state' \in FrameStates /\ BeatsOut(state') > k + 1
                  /\ k < 4
<1>1. ouch_gen!Clock(send_order, order, TRUE)
  BY DEF Posedge
<1>2. token \in Nat /\ token' \in Nat
  BY WordsAreNat DEF TopInv, TypeOK, ouch_gen!TypeOK, ouch_gen!Tokens
<1>3. CASE ouch_gen!Accept(send_order, order, TRUE)
  <2>1. state = "IDLE" /\ state' = "HDR1" /\ ~tvalid'
    BY <1>3 DEF ouch_gen!Accept
  <2>2. token' = (token + 1) % WORD32
    BY <1>3 DEF ouch_gen!Accept
  <2>3. token' = token + 1
    <3>1. WORD32 \in Nat /\ 1 < WORD32 /\ token < WORD32
      <4>1. WORD32 \div 2 \in Nat /\ 2 * (WORD32 \div 2) <= WORD32
        BY HalfWord, WordsAreNat
      <4> QED
        BY <4>1, <1>2, WordsAreNat, StrategyAssumption
           DEF strategy_core!ParametersOK, TopInv, TypeOK, ouch_gen!TypeOK, ouch_gen!Tokens
    <3>2. CASE token + 1 < WORD32
      BY <1>2, <2>2, <3>1, <3>2, ModSmall
    <3>3. CASE token + 1 = WORD32
      <4>1. token' = 0
        BY <1>2, <2>2, <3>1, <3>3
      <4> QED
        BY <1>2, <3>1, <3>3, <4>1
    <3> QED
      BY <1>2, <3>1, <3>2, <3>3
  <2> QED
    BY <1>2, <2>1, <2>3 DEF Offering, Spent, Sending, FrameStates
<1>4. CASE ouch_gen!Wait(send_order, TRUE)
  <2>1. state = "IDLE" /\ state' = "IDLE" /\ ~tvalid' /\ token' = token
    BY <1>4 DEF ouch_gen!Wait
  <2> QED
    BY <1>2, <2>1 DEF Offering, Spent, Sending, FrameStates
<1>5. CASE ouch_gen!Hdr1
  <2>1. state = "HDR1" /\ state' = "HDR2" /\ tvalid' /\ token' = token
    BY <1>5 DEF ouch_gen!Hdr1, ouch_gen!Beat
  <2> QED
    BY <1>2, <2>1 DEF Offering, Spent, Sending, FrameStates
<1>6. CASE ouch_gen!Hdr2 \/ ouch_gen!Ouch1 \/ ouch_gen!Ouch2 \/ ouch_gen!Ouch3
  <2>1. /\ token' = token /\ tvalid' = tvalid
        /\ \/ state = "HDR2" /\ state' = "OUCH1"
           \/ state = "OUCH1" /\ state' = "OUCH2"
           \/ state = "OUCH2" /\ state' = "OUCH3"
           \/ state = "OUCH3" /\ state' = "DONE"
    BY <1>6 DEF ouch_gen!Hdr2, ouch_gen!Ouch1, ouch_gen!Ouch2, ouch_gen!Ouch3, ouch_gen!Beat
  <2>2. BeatsOut(state') = BeatsOut(state) + 1 /\ BeatsOut(state) \in 1 .. 4
    BY <2>1 DEF BeatsOut
  <2>3. state \in FrameStates \ {"DONE"} /\ state' \in FrameStates
    BY <2>1 DEF FrameStates
  <2>4. Offering'
    BY <2>1, <2>3 DEF Offering, FrameStates
  <2> QED
    BY <1>2, <2>1, <2>2, <2>3, <2>4 DEF Spent, Sending, FrameStates
<1>7. CASE ouch_gen!Done
  <2>1. state = "DONE" /\ state' = "IDLE" /\ ~tvalid' /\ token' = token
    BY <1>7 DEF ouch_gen!Done
  <2> QED
    BY <1>2, <2>1 DEF Offering, Spent, Sending, FrameStates
<1> QED
  BY <1>1, <1>3, <1>4, <1>5, <1>6, <1>7 DEF ouch_gen!Clock

LEMMA InitFrameInv == HarnessInit => FrameInv
<1> SUFFICES ASSUME HarnessInit
             PROVE  FrameInv
  OBVIOUS
<1>1. ClockInv
  BY InitClockInv
<1>2. measurements = << >> /\ Len(measurements) = 0
  BY DEF HarnessInit
<1>3. Offering
  BY DEF HarnessInit, Init, ouch_gen!Init, Offering, FrameStates
<1> QED
  BY <1>1, <1>2, <1>3, TakenIsRange DEF FrameInv, ClockInv, OneFrameOneMeasurement

LEMMA PassedIsNat == Clocks => Passed \in Nat
  BY LoopsAreNat DEF Clocks, Passed

\* A step that records nothing.
LEMMA NoRecordFrames ==
  ASSUME FrameInv, ClockInv', Offering', UNCHANGED records,
         \A i \in 1 .. Len(measurements) : Answered(i) =>
            \/ witness[i].token < token'
            \/ witness[i].token = token' /\ state' = "IDLE" /\ ~tvalid'
            \/ /\ witness[i].token = token'
               /\ state' \in FrameStates /\ BeatsOut(state') > Passed'
  PROVE  FrameInv'
<1>1. measurements' = measurements /\ witness' = witness
  BY RecordsKept
<1>2. OneFrameOneMeasurement'
  BY <1>1 DEF FrameInv, OneFrameOneMeasurement, Taken, Answered
<1>3. \A i \in 1 .. Len(measurements) : Answered(i)' <=> Answered(i)
  BY <1>1 DEF Answered
<1>4. \A i \in 1 .. Len(measurements') :
         Answered(i)' => Spent(witness[i].token)' \/ Sending(witness[i].token, Passed)'
  BY <1>1, <1>3 DEF Spent, Sending, BeatsOut
<1> QED
  BY <1>2, <1>4 DEF FrameInv

\* A tick that records nothing.
LEMMA TickFrames ==
  ASSUME FrameInv, ClockInv', UNCHANGED records,
         NEW msg \in Message, Tick(msg),
         Passed' = Passed + 1 \/ Len(measurements) = 0
  PROVE  FrameInv'
<1>1. Posedge(msg, TRUE) /\ token' \in {token, token + 1} /\ TopInv /\ TopInv'
  BY TickIsEdge DEF FrameInv, ClockInv
<1>2. Offering' /\ Passed \in Nat
  BY <1>1, FrameStep, PassedIsNat DEF FrameInv, ClockInv
<1>3. ASSUME NEW i \in 1 .. Len(measurements), Answered(i)
      PROVE  \/ witness[i].token < token'
             \/ witness[i].token = token' /\ state' = "IDLE" /\ ~tvalid'
             \/ /\ witness[i].token = token'
                /\ state' \in FrameStates /\ BeatsOut(state') > Passed'
  <2>1. witness[i].token \in Nat /\ Len(measurements) # 0
    BY <1>3, TakenIsRange DEF FrameInv, ClockInv
  <2>2. Spent(witness[i].token) \/ Sending(witness[i].token, Passed)
    BY <1>3 DEF FrameInv
  <2> QED
    BY <1>1, <1>2, <2>1, <2>2, FrameStep DEF FrameInv
<1> QED
  BY <1>2, <1>3, NoRecordFrames

\* The end of a poll: all earlier frames are over, and the one that is
\* measured, if any, has begun after them.
LEMMA PollEndFrames ==
  ASSUME SPACING >= 3, FrameInv, ClockInv', pc = "poll", Tick(bus), StopPolling,
         NEW send \in Nat, Record(send), Latency(send) \in Nat,
         send # 0 => tvalid'
  PROVE  FrameInv'
<1> DEFINE n == Len(measurements)
<1>1. bus \in Message /\ arrival \in Arrival /\ Lists /\ TopInv /\ TopInv'
  BY DEF FrameInv, ClockInv, Clocks
<1>2. Posedge(bus, TRUE) /\ token' \in {token, token + 1}
  BY <1>1, TickIsEdge
<1>3. /\ Lists' /\ Len(measurements') = n + 1
      /\ \A i \in 1 .. n :
            measurements'[i] = measurements[i] /\ witness'[i] = witness[i]
      /\ measurements'[n + 1].send = send
      /\ witness'[n + 1].token = token'
  BY <1>1, RecordStep
<1>4. /\ n \in Nat /\ Taken = 1 .. n /\ Taken' = 1 .. n + 1
      /\ \A i \in 1 .. n : witness[i].token \in Nat
  <2>1. Taken' = 1 .. Len(measurements')
    BY <1>3, LenProperties DEF Taken, Lists
  <2> QED
    BY <1>1, <1>3, <2>1, TakenIsRange
<1> HIDE DEF n
<1>5. Offering' /\ pc' = "space" /\ count' = 0
  BY <1>1, <1>2, FrameStep DEF FrameInv, StopPolling
<1>6. \A i \in 1 .. n : Answered(i)' <=> Answered(i)
  BY <1>3 DEF Answered
<1>7. measurements'[n + 1].send # 0 => tvalid'
  BY <1>3
<1>8. ASSUME NEW i \in 1 .. n, Answered(i)
      PROVE  \/ witness[i].token < token'
             \/ witness[i].token = token' /\ state' = "IDLE" /\ ~tvalid'
  <2>1. Spent(witness[i].token) \/ Sending(witness[i].token, Passed)
    BY <1>8 DEF FrameInv, n
  <2>2. Passed \in Nat /\ ~(Passed < 4)
    <3>1. Passed = SPACING + 1 + count
      BY DEF Passed
    <3>2. count \in Nat
      BY DEF FrameInv, ClockInv, Clocks
    <3> QED
      BY <3>1, <3>2, LoopsAreNat
  <2>3. witness[i].token \in Nat /\ Offering
    BY <1>4, <1>8 DEF FrameInv
  <2>4. CASE Spent(witness[i].token)
    BY <1>1, <1>2, <2>3, <2>4, FrameStep
  <2>5. CASE Sending(witness[i].token, Passed)
    BY <1>1, <1>2, <2>2, <2>3, <2>5, FrameStep
  <2> QED
    BY <2>1, <2>4, <2>5
<1>9. ASSUME NEW i \in 1 .. n + 1, Answered(i)'
      PROVE  Spent(witness[i].token)' \/ Sending(witness[i].token, Passed)'
  <2>1. CASE i \in 1 .. n
    BY <1>3, <1>6, <1>8, <1>9, <2>1 DEF Spent
  <2>2. CASE i = n + 1
    <3>1. tvalid' /\ state' \in FrameStates
      BY <1>5, <1>7, <1>9, <2>2 DEF Answered, Offering, FrameStates
    <3>2. BeatsOut(state') > 0
      BY <3>1 DEF FrameStates, BeatsOut
    <3> QED
      BY <1>3, <1>5, <2>2, <3>1, <3>2 DEF Sending, Passed, FrameStates, BeatsOut
  <2> QED
    BY <1>4, <2>1, <2>2
<1>10. OneFrameOneMeasurement'
  <2> SUFFICES ASSUME NEW i \in 1 .. n + 1, NEW j \in 1 .. n + 1, i < j,
                      Answered(i)', Answered(j)'
               PROVE  witness'[i].token < witness'[j].token
    BY <1>4 DEF OneFrameOneMeasurement
  <2>1. CASE j \in 1 .. n
    <3>1. i \in 1 .. n /\ Answered(i) /\ Answered(j)
      BY <1>4, <1>6, <2>1
    <3>2. witness[i].token < witness[j].token
      BY <1>4, <2>1, <3>1 DEF FrameInv, OneFrameOneMeasurement
    <3> QED
      BY <1>3, <2>1, <3>1, <3>2
  <2>2. CASE j = n + 1
    <3>1. i \in 1 .. n /\ Answered(i)
      BY <1>4, <1>6, <2>2
    <3>2. tvalid'
      BY <1>7, <2>2 DEF Answered
    <3> QED
      BY <1>3, <1>8, <2>2, <3>1, <3>2
  <2> QED
    BY <1>4, <2>1, <2>2
<1> QED
  BY <1>3, <1>5, <1>9, <1>10 DEF FrameInv, n

LEMMA NextFrameInv ==
  ASSUME SPACING >= 3, FrameInv, [Run]_harnessVars
  PROVE  FrameInv'
<1>0. ClockInv' /\ ClockInv
  BY NextClockInv DEF FrameInv
<1>1. CASE ResetSequence
  <2>1. Len(measurements) = 0 /\ UNCHANGED records
    BY <1>1 DEF FrameInv, ClockInv, Clocks, ResetSequence
  <2>2. Offering'
    BY <1>1 DEF ResetSequence, TickReset, Reset, ouch_gen!Reset, Offering, FrameStates
  <2> QED
    BY <1>0, <2>1, <2>2, NoRecordFrames
<1>2. CASE Settle
  BY <1>0, <1>2, TickFrames DEF Settle, ClockInv, Clocks
<1>3. CASE \E msg \in TestMessages : Inject(msg)
  <2>1. Passed' = Passed + 1
    BY <1>0, <1>3, LoopsAreNat DEF Inject, Passed, ClockInv, Clocks
  <2> QED
    BY <1>0, <1>3, <2>1, TickFrames, LinesAssumption DEF Inject
<1>4. CASE PollAnswered
  <2>1. /\ pc = "poll" /\ Tick(bus) /\ Counted /\ StopPolling /\ tvalid'
        /\ Record(main_time')
    BY <1>4 DEF PollAnswered
  <2>2. main_time + 2 \in Nat /\ main_time' = main_time + 2
    BY <1>0, <2>1, PollTick
  <2>3. Latency(main_time + 2) \in Nat
    BY <1>0, <2>1, LatencyOfAnswer, LoopsAreNat
  <2>4. Record(main_time + 2)
    BY <2>1, <2>2
  <2> QED
    BY <1>0, <2>1, <2>2, <2>3, <2>4, PollEndFrames
<1>5. CASE PollAgain
  <2>1. Passed' = Passed + 1
    BY <1>0, <1>5, LoopsAreNat DEF PollAgain, Passed, ClockInv, Clocks
  <2> QED
    BY <1>0, <1>5, <2>1, TickFrames DEF PollAgain, ClockInv, Clocks
<1>6. CASE PollExpires
  BY <1>0, <1>6, LatencyOfSilence, PollEndFrames DEF PollExpires
<1>7. CASE Space
  <2>1. Passed' = Passed + 1
    <3>1. pc = "space" /\ count \in Nat /\ count < SPACING /\ SPACING \in Nat
      BY <1>0, <1>7, LoopsAreNat DEF Space, ClockInv, Clocks
    <3>2. \/ count + 1 < SPACING /\ count' = count + 1 /\ pc' = "space"
          \/ count + 1 = SPACING /\ pc' \in {"inject", "done"}
      BY <1>7, <3>1 DEF Space, Loop
    <3>3. CASE count' = count + 1 /\ pc' = "space"
      BY <3>1, <3>3 DEF Passed
    <3>4. CASE count + 1 = SPACING /\ pc' \in {"inject", "done"}
      BY <3>1, <3>4 DEF Passed
    <3> QED
      BY <3>2, <3>3, <3>4
  <2> QED
    BY <1>0, <1>7, <2>1, TickFrames DEF Space, ClockInv, Clocks
<1>8. CASE UNCHANGED harnessVars
  <2>1. /\ UNCHANGED records /\ pc' = pc /\ count' = count
        /\ token' = token /\ state' = state /\ tvalid' = tvalid
    BY <1>8 DEF harnessVars, vars, ouch_gen!vars
  <2>2. Offering'
    BY <2>1 DEF FrameInv, Offering
  <2> QED
    BY <1>0, <2>1, <2>2, NoRecordFrames DEF FrameInv, Spent, Sending, Passed
<1> QED
  BY <1>1, <1>2, <1>3, <1>4, <1>5, <1>6, <1>7, <1>8 DEF Run

(***************************************************************************)
(* Whatever the script, no frame is taken for the answer to two messages:  *)
(* three cycles of spacing are enough, which with the cycle of the next    *)
(* message and that of its first poll are the five beats of a frame        *)
(* (sim_main.cpp, lines 121 and 148, ouch_parket_generator.sv).            *)
(***************************************************************************)
THEOREM NoFrameIsMeasuredTwice ==
  ASSUME SPACING >= 3
  PROVE  HarnessSpec => []OneFrameOneMeasurement
<1>1. FrameInv /\ [Run]_harnessVars => FrameInv'
  BY NextFrameInv
<1>2. FrameInv => OneFrameOneMeasurement
  BY DEF FrameInv
<1> QED
  BY <1>1, <1>2, InitFrameInv, PTL DEF HarnessSpec
-----------------------------------------------------------------------------
\* How an order comes out of the pipeline, one edge after the other.

\* Without an add on the bus, or an answer of the tracker, the imbalance
\* stays as it is and the position only grows: no signal appears.
LEMMA NoNewSignal ==
  ASSUME TopInv, TopInv', NEW msg \in Message, Posedge(msg, TRUE),
         ~t_read_valid, ~strategy_core!IsAdd(msg)
  PROVE  (strategy_core!Signal)' => strategy_core!Signal
<1>1. total_bid_depth' = total_bid_depth /\ total_ask_depth' = total_ask_depth
  BY DEF Posedge, strategy_core!Clock, strategy_core!Book, strategy_core!NextDepth
<1>2. current_position \in 0 .. MAX_POSITION /\ current_position' \in 0 .. MAX_POSITION
  BY DEF TopInv, RiskLimit
<1>3. ~risk_vault_locked
  BY DEF TopInv, RiskLimit
<1>4. current_position' \in {current_position, current_position + ORDER_QTY}
  BY TradeStep DEF Posedge, strategy_core!Clock, strategy_core!Trade
<1>5. /\ strategy_core!Signed32(current_position + ORDER_QTY) = current_position + ORDER_QTY
      /\ strategy_core!Signed32(current_position' + ORDER_QTY) = current_position' + ORDER_QTY
  BY <1>2, ChargeIsExact
<1>6. ORDER_QTY \in Nat /\ MAX_POSITION \in Nat
  BY StrategyAssumption DEF strategy_core!ParametersOK
<1>7. ASSUME strategy_core!Signed32(current_position' + ORDER_QTY) <= MAX_POSITION
      PROVE  strategy_core!Signed32(current_position + ORDER_QTY) <= MAX_POSITION
  BY <1>2, <1>4, <1>5, <1>6, <1>7
<1>8. ASSUME (strategy_core!Signal)'
      PROVE  strategy_core!Signal
  <2>1. /\ total_bid_depth' > (total_ask_depth' * IMBALANCE_ALPHA) % WORD64
        /\ total_ask_depth' > 0
        /\ strategy_core!Signed32(current_position' + ORDER_QTY) <= MAX_POSITION
    BY <1>8 DEF strategy_core!Signal, strategy_core!Signed32
  <2> QED
    BY <1>1, <1>3, <1>7, <2>1 DEF strategy_core!Signal
<1> QED
  BY <1>8

\* The strategy's port follows its signal, at the price on the bus.
LEMMA SignalIsSent ==
  ASSUME NEW msg, Posedge(msg, TRUE)
  PROVE  /\ send_order' <=> strategy_core!Signal
         /\ send_order' => order'.price = (msg.price + PRICE_OFFSET) % WORD32
  BY DEF Posedge, strategy_core!Clock, strategy_core!Trade

\* The tracker answers lookups only.
LEMMA OnlyLookupsAreFound ==
  ASSUME NEW msg, Posedge(msg, TRUE), t_read_valid'
  PROVE  msg.valid /\ msg.type \in {"D", "X"}
  BY DEF Posedge, id_table!Clock, id_table!ReadPort, strategy_core!tracker_read_en

\* The generator takes what it is offered, and offers a beat an edge later.
LEMMA OrderIsTaken ==
  ASSUME NEW msg, Posedge(msg, TRUE)
  PROVE  /\ state = "IDLE" /\ send_order => state' = "HDR1" /\ r' = order /\ ~tvalid'
         /\ state = "IDLE" /\ ~send_order => state' = "IDLE" /\ ~tvalid'
         /\ state = "HDR1" => tvalid' /\ r' = r
<1>1. ouch_gen!Clock(send_order, order, TRUE)
  BY DEF Posedge
<1>2. CASE state = "IDLE"
  BY <1>1, <1>2 DEF ouch_gen!Clock, ouch_gen!Accept, ouch_gen!Wait, ouch_gen!Hdr1,
     ouch_gen!Hdr2, ouch_gen!Ouch1, ouch_gen!Ouch2, ouch_gen!Ouch3, ouch_gen!Done,
     ouch_gen!Beat
<1>3. CASE state = "HDR1"
  BY <1>1, <1>3 DEF ouch_gen!Clock, ouch_gen!Accept, ouch_gen!Wait, ouch_gen!Hdr1,
     ouch_gen!Hdr2, ouch_gen!Ouch1, ouch_gen!Ouch2, ouch_gen!Ouch3, ouch_gen!Done,
     ouch_gen!Beat
<1> QED
  BY <1>2, <1>3

\* Without a message the design stays at rest.
LEMMA RestIsKept ==
  ASSUME TopInv, TopInv', AtRest, NEW msg \in Message, ~msg.valid, Posedge(msg, TRUE)
  PROVE  AtRest'
<1>1. ~(strategy_core!Signal)'
  BY NoNewSignal DEF AtRest, strategy_core!IsAdd
<1> QED
  BY <1>1, SignalIsSent, OnlyLookupsAreFound, OrderIsTaken DEF AtRest
-----------------------------------------------------------------------------
\* While the program polls, the bus holds the released message.
Released == pc = "poll" => bus = [arrival.msg EXCEPT !.valid = FALSE]

\* What may still be in the pipeline after each poll without an answer: the
\* tracker's, then the signal's, then the generator's part of it is over.
Draining ==
    pc = "poll" =>
        /\ count >= 1 => ~t_read_valid /\ ~tvalid
        /\ count >= 2 => (strategy_core!Signal => send_order)
        /\ count >= 3 => (state = "IDLE" => AtRest)

DrainInv ==
    /\ ClockInv /\ Offering /\ Released /\ Draining
    /\ GivesUpOnNothing

LEMMA ReleasedBus ==
  ASSUME ClockInv, Released, pc = "poll"
  PROVE  /\ bus \in Message /\ ~bus.valid /\ bus.price = arrival.msg.price
         /\ arrival.msg \in Message
<1>1. bus \in Message /\ arrival.msg \in Message
  BY DEF ClockInv, Clocks, Arrival
<1>2. bus = [arrival.msg EXCEPT !.valid = FALSE]
  BY DEF Released
<1> QED
  BY <1>1, <1>2 DEF Message

\* One edge of a poll that is not answered.
LEMMA DrainStep ==
  ASSUME ClockInv, ClockInv', Offering, Released, Draining,
         pc = "poll", Posedge(bus, TRUE), ~tvalid'
  PROVE  /\ ~t_read_valid'
         /\ count >= 1 => ((strategy_core!Signal)' => send_order')
         /\ count >= 2 => (state' = "IDLE" => AtRest')
         /\ count >= 3 => AtRest'
<1>1. bus \in Message /\ ~bus.valid
  BY ReleasedBus
<1>2. TopInv /\ TopInv'
  BY DEF ClockInv
<1>3. ~t_read_valid'
  BY <1>1, OnlyLookupsAreFound
<1>4. /\ send_order' <=> strategy_core!Signal
      /\ state = "IDLE" /\ send_order => state' = "HDR1"
      /\ state # "HDR1"
  BY SignalIsSent, OrderIsTaken
<1>5. ASSUME count >= 1
      PROVE  (strategy_core!Signal)' => send_order'
  BY <1>1, <1>2, <1>4, <1>5, NoNewSignal DEF Draining, strategy_core!IsAdd
<1>6. ASSUME count >= 2, state' = "IDLE"
      PROVE  AtRest'
  <2>1. count \in Nat
    BY DEF ClockInv, Clocks
  <2>2. ~tvalid /\ count >= 1
    BY <1>6, <2>1 DEF Draining
  <2>3. state = "IDLE"
    BY <1>4, <2>2 DEF Offering, FrameStates, ClockInv, TopInv, TypeOK, ouch_gen!TypeOK,
       ouch_gen!FsmStates
  <2>4. ~send_order
    BY <1>4, <1>6, <2>3
  <2>5. ~strategy_core!Signal
    BY <1>6, <2>4 DEF Draining
  <2>6. ~send_order' /\ ~(strategy_core!Signal)'
    BY <1>4, <1>5, <2>2, <2>5
  <2> QED
    BY <1>3, <1>6, <2>6 DEF AtRest
<1>7. ASSUME count >= 3
      PROVE  AtRest'
  <2>1. count \in Nat
    BY DEF ClockInv, Clocks
  <2>2. ~tvalid /\ count >= 1
    BY <1>7, <2>1 DEF Draining
  <2>3. state = "IDLE"
    BY <1>4, <2>2 DEF Offering, FrameStates, ClockInv, TopInv, TypeOK, ouch_gen!TypeOK,
       ouch_gen!FsmStates
  <2>4. AtRest
    BY <1>7, <2>3 DEF Draining
  <2> QED
    BY <1>1, <1>2, <2>4, RestIsKept
<1> QED
  BY <1>3, <1>5, <1>6, <1>7

\* A new measurement keeps what is said of every one, if it is true of it.
LEMMA QuietGrows ==
  ASSUME ClockInv, GivesUpOnNothing, NEW send \in Nat, Latency(send) \in Nat,
         TopInv', Record(send), send = 0 => AtRest'
  PROVE  GivesUpOnNothing'
<1> DEFINE n == Len(measurements)
<1>1. /\ Lists' /\ Len(measurements') = n + 1
      /\ \A i \in 1 .. n :
            measurements'[i] = measurements[i] /\ witness'[i] = witness[i]
      /\ measurements'[n + 1].send = send
      /\ witness'[n + 1].quiet = AtRest'
  BY RecordStep DEF ClockInv, Clocks
<1>2. n \in Nat /\ Taken = 1 .. n /\ Taken' = 1 .. n + 1
  <2>1. Taken' = 1 .. Len(measurements')
    BY <1>1, LenProperties DEF Taken, Lists
  <2> QED
    BY <1>1, <2>1, TakenIsRange DEF ClockInv
<1> HIDE DEF n
<1>3. ASSUME NEW i \in 1 .. n + 1, measurements'[i].send = 0
      PROVE  witness'[i].quiet
  <2>1. CASE i \in 1 .. n
    BY <1>1, <1>2, <1>3, <2>1 DEF GivesUpOnNothing, Answered
  <2>2. CASE i = n + 1
    BY <1>1, <1>3, <2>2
  <2> QED
    BY <1>2, <2>1, <2>2
<1> QED
  BY <1>2, <1>3 DEF GivesUpOnNothing, Answered

LEMMA RecordsOfOthers ==
  ASSUME UNCHANGED records
  PROVE  /\ GivesUpOnNothing => GivesUpOnNothing'
         /\ RestLatencyIsPipeline => RestLatencyIsPipeline'
  BY RecordsKept DEF GivesUpOnNothing, RestLatencyIsPipeline, Taken, Answered

LEMMA InitDrainInv == HarnessInit => DrainInv
<1> SUFFICES ASSUME HarnessInit
             PROVE  DrainInv
  OBVIOUS
<1>1. ClockInv /\ Offering
  BY InitFrameInv DEF FrameInv
<1>2. measurements = << >> /\ Len(measurements) = 0 /\ pc = "reset"
  BY DEF HarnessInit
<1>3. GivesUpOnNothing
  BY <1>1, <1>2, TakenIsRange DEF ClockInv, GivesUpOnNothing
<1> QED
  BY <1>1, <1>2, <1>3 DEF DrainInv, Released, Draining

\* What every step keeps of the port of the generator and of the bus.
LEMMA OfferingKept ==
  ASSUME ClockInv, ClockInv', Offering, [Run]_harnessVars
  PROVE  Offering'
<1>1. CASE ResetSequence
  BY <1>1 DEF ResetSequence, TickReset, Reset, ouch_gen!Reset, Offering, FrameStates
<1>2. CASE \E msg \in Message : Tick(msg)
  BY <1>2, FrameStep, TickIsEdge DEF ClockInv
<1>3. CASE UNCHANGED harnessVars
  BY <1>3 DEF harnessVars, vars, ouch_gen!vars, Offering
<1>4. Run => ResetSequence \/ \E msg \in Message : Tick(msg)
  BY LinesAssumption DEF Run, Settle, Inject, PollAnswered, PollAgain, PollExpires, Space,
     ClockInv, Clocks
<1> QED
  BY <1>1, <1>2, <1>3, <1>4

LEMMA ReleasedKept ==
  ASSUME Released, [Run]_harnessVars
  PROVE  Released'
<1>1. ASSUME NEW msg \in TestMessages, Inject(msg)
      PROVE  Released'
  BY <1>1 DEF Inject, Released
<1> QED
  BY <1>1 DEF Released, Run, harnessVars, ResetSequence, Loop, Settle, PollAnswered,
     PollAgain, PollExpires, StopPolling, Space

LEMMA NextDrainInv ==
  ASSUME POLLS >= 4, DrainInv, [Run]_harnessVars
  PROVE  DrainInv'
<1>0. ClockInv /\ ClockInv' /\ TopInv' /\ Offering' /\ Released'
  BY NextClockInv, OfferingKept, ReleasedKept DEF DrainInv, ClockInv
<1>1. CASE ResetSequence \/ Settle \/ Space
  <2>1. UNCHANGED records /\ pc' # "poll"
    BY <1>1 DEF ResetSequence, Settle, Space, Loop
  <2> QED
    BY <1>0, <2>1, RecordsOfOthers DEF DrainInv, Draining
<1>2. CASE \E msg \in TestMessages : Inject(msg)
  <2>1. UNCHANGED records /\ count' = 0
    BY <1>0, <1>2 DEF Inject, ClockInv, Clocks
  <2> QED
    BY <1>0, <2>1, RecordsOfOthers DEF DrainInv, Draining
<1>3. CASE PollAnswered
  <2>1. /\ pc = "poll" /\ Tick(bus) /\ Counted /\ StopPolling /\ Record(main_time')
    BY <1>3 DEF PollAnswered
  <2>2. main_time + 2 \in Nat /\ main_time + 2 # 0 /\ main_time' = main_time + 2
    <3>1. main_time \in Nat
      BY <1>0 DEF ClockInv, Clocks
    <3>2. main_time' = main_time + 2
      BY <1>0, <2>1, PollTick
    <3> QED
      BY <3>1, <3>2
  <2>3. Latency(main_time + 2) \in Nat
    BY <1>0, <2>1, LatencyOfAnswer, LoopsAreNat
  <2>4. Record(main_time + 2) /\ pc' # "poll"
    BY <2>1, <2>2 DEF StopPolling
  <2> QED
    BY <1>0, <2>2, <2>3, <2>4, QuietGrows DEF DrainInv, Draining
<1>4. CASE PollAgain
  <2>1. /\ UNCHANGED records /\ pc = "poll" /\ count' = count + 1 /\ count \in Nat
        /\ Posedge(bus, TRUE) /\ ~tvalid'
    BY <1>0, <1>4 DEF PollAgain, Tick, ClockInv, Clocks
  <2>2. /\ ~t_read_valid'
        /\ count >= 1 => ((strategy_core!Signal)' => send_order')
        /\ count >= 2 => (state' = "IDLE" => AtRest')
    BY <1>0, <2>1, DrainStep DEF DrainInv
  <2>3. Draining'
    BY <2>1, <2>2 DEF Draining
  <2> QED
    BY <1>0, <2>1, <2>3, RecordsOfOthers DEF DrainInv
<1>5. CASE PollExpires
  <2>1. /\ pc = "poll" /\ count + 1 = POLLS /\ count \in Nat
        /\ Posedge(bus, TRUE) /\ ~tvalid' /\ StopPolling /\ Record(0)
    BY <1>0, <1>5 DEF PollExpires, Tick, ClockInv, Clocks
  <2>2. count >= 3
    BY <2>1, LoopsAreNat
  <2>3. AtRest'
    BY <1>0, <2>1, <2>2, DrainStep DEF DrainInv
  <2>4. pc' # "poll" /\ Latency(0) \in Nat
    BY <1>0, <2>1, LatencyOfSilence DEF StopPolling
  <2> QED
    BY <1>0, <2>1, <2>3, <2>4, QuietGrows DEF DrainInv, Draining
<1>6. CASE UNCHANGED harnessVars
  <2>1. UNCHANGED records /\ pc' = pc /\ count' = count /\ UNCHANGED vars
    BY <1>6 DEF harnessVars
  <2>2. Draining'
    BY <2>1 DEF DrainInv, Draining, AtRest, vars, id_table!vars, strategy_core!vars,
       ouch_gen!vars, strategy_core!Signal, strategy_core!Signed32
  <2> QED
    BY <1>0, <2>1, <2>2, RecordsOfOthers DEF DrainInv
<1> QED
  BY <1>1, <1>2, <1>3, <1>4, <1>5, <1>6 DEF Run

(***************************************************************************)
(* Whatever the script, a poll of at least four cycles, as long as the way *)
(* from a depth to a beat, gives up on no order that is under way or about *)
(* to be (sim_main.cpp, lines 119-127).                                    *)
(***************************************************************************)
THEOREM PollsGiveUpOnNothing ==
  ASSUME POLLS >= 4
  PROVE  HarnessSpec => []GivesUpOnNothing
<1>1. DrainInv /\ [Run]_harnessVars => DrainInv'
  BY NextDrainInv
<1>2. DrainInv => GivesUpOnNothing
  BY DEF DrainInv
<1> QED
  BY <1>1, <1>2, InitDrainInv, PTL DEF HarnessSpec
-----------------------------------------------------------------------------
\* How far the answer to the message that is polled for has come, if it
\* found the design at rest: the tracker has been asked, the depths are as
\* they will be, an order is on the strategy's port, or the generator has it.
AnswerPrice == (arrival.msg.price + PRICE_OFFSET) % WORD32

Asked == state = "IDLE" /\ ~tvalid /\ ~send_order /\ ~strategy_core!Signal

Counting == state = "IDLE" /\ ~tvalid /\ ~send_order /\ ~t_read_valid

Ordered == /\ state = "IDLE" /\ ~tvalid /\ ~t_read_valid
           /\ send_order /\ order.price = AnswerPrice

Framing == state = "HDR1" /\ ~tvalid /\ r.price = AnswerPrice

\* The cycles a lookup takes before the depths follow.
Lookup(type) == IF type \in {"A", "F"} THEN 0 ELSE 1

\* Each stage has its poll, unless there is nothing to answer.
Answering ==
    pc = "poll" /\ arrival.at_rest =>
        \/ AtRest
        \/ Asked    /\ count + 1 = Lookup(arrival.msg.type)
        \/ Counting /\ count = Lookup(arrival.msg.type)
        \/ Ordered  /\ count = Lookup(arrival.msg.type) + 1
        \/ Framing  /\ count = Lookup(arrival.msg.type) + 2

AnswerInv ==
    /\ ClockInv /\ Released /\ Answering
    /\ RestLatencyIsPipeline

LEMMA LookupIsNat == \A type : Lookup(type) \in Nat /\ PipelineDepth(type) = Lookup(type) + 4
  BY DEF Lookup, PipelineDepth

\* A message that finds the design at rest enters at the first stage.
LEMMA InjectAnswering ==
  ASSUME ClockInv, ClockInv', NEW msg \in TestMessages, Inject(msg)
  PROVE  Answering'
<1>1. /\ msg \in Message /\ Posedge(msg, TRUE) /\ TopInv /\ TopInv'
      /\ arrival'.msg = msg /\ arrival'.at_rest = AtRest /\ count' = 0
  BY LinesAssumption DEF Inject, Tick, ClockInv, Clocks
<1> SUFFICES ASSUME AtRest
             PROVE  \/ Asked' /\ Lookup(msg.type) = 1
                    \/ Counting' /\ Lookup(msg.type) = 0
  BY <1>1, LookupIsNat DEF Answering
<1>2. state' = "IDLE" /\ ~tvalid' /\ ~send_order'
  BY <1>1, SignalIsSent, OrderIsTaken DEF AtRest
<1>3. CASE msg.type \in {"A", "F"}
  <2>1. ~t_read_valid'
    BY <1>1, <1>3, OnlyLookupsAreFound
  <2> QED
    BY <1>2, <1>3, <2>1 DEF Counting, Lookup
<1>4. CASE msg.type \notin {"A", "F"}
  <2>1. ~(strategy_core!Signal)'
    BY <1>1, <1>4, NoNewSignal DEF AtRest, strategy_core!IsAdd
  <2> QED
    BY <1>2, <1>4, <2>1 DEF Asked, Lookup
<1> QED
  BY <1>3, <1>4

\* One edge of a poll for such a message: the next stage, the first beat, or
\* nothing to answer.
LEMMA AnswerStep ==
  ASSUME ClockInv, ClockInv', Released, Answering, pc = "poll", arrival.at_rest,
         Posedge(bus, TRUE), arrival' = arrival
  PROVE  \/ ~tvalid' /\ \/ AtRest'
                        \/ Counting' /\ count + 1 = Lookup(arrival.msg.type)
                        \/ Ordered'  /\ count + 1 = Lookup(arrival.msg.type) + 1
                        \/ Framing'  /\ count + 1 = Lookup(arrival.msg.type) + 2
         \/ /\ tvalid' /\ r'.price = AnswerPrice
            /\ count + 1 = Lookup(arrival.msg.type) + 3
<1>1. bus \in Message /\ ~bus.valid /\ bus.price = arrival.msg.price
  BY ReleasedBus
<1>2. TopInv /\ TopInv' /\ count \in Nat /\ Lookup(arrival.msg.type) \in Nat
  BY LookupIsNat DEF ClockInv, Clocks
<1>3. ~t_read_valid' /\ AnswerPrice' = AnswerPrice
  BY <1>1, OnlyLookupsAreFound DEF AnswerPrice
<1>4. /\ send_order' <=> strategy_core!Signal
      /\ send_order' => order'.price = AnswerPrice
  BY <1>1, SignalIsSent DEF AnswerPrice
<1>5. CASE AtRest
  <2>1. AtRest'
    BY <1>1, <1>2, <1>5, RestIsKept
  <2> QED
    BY <2>1 DEF AtRest
<1>6. CASE Asked /\ count + 1 = Lookup(arrival.msg.type)
  <2>1. Counting'
    BY <1>3, <1>4, <1>6, OrderIsTaken DEF Asked, Counting
  <2> QED
    BY <1>6, <2>1 DEF Counting
<1>7. CASE Counting /\ count = Lookup(arrival.msg.type)
  <2>1. state' = "IDLE" /\ ~tvalid'
    BY <1>7, OrderIsTaken DEF Counting
  <2>2. CASE send_order'
    BY <1>3, <1>4, <1>7, <2>1, <2>2 DEF Ordered
  <2>3. CASE ~send_order'
    <3>1. ~(strategy_core!Signal)'
      BY <1>1, <1>2, <1>4, <1>7, <2>3, NoNewSignal DEF Counting, strategy_core!IsAdd
    <3> QED
      BY <1>3, <2>1, <2>3, <3>1 DEF AtRest
  <2> QED
    BY <2>2, <2>3
<1>8. CASE Ordered /\ count = Lookup(arrival.msg.type) + 1
  <2>1. state' = "HDR1" /\ ~tvalid' /\ r' = order /\ order.price = AnswerPrice
    BY <1>8, OrderIsTaken DEF Ordered
  <2>2. Framing'
    BY <1>3, <2>1 DEF Framing
  <2> QED
    BY <1>2, <1>8, <2>1, <2>2
<1>9. CASE Framing /\ count = Lookup(arrival.msg.type) + 2
  <2>1. tvalid' /\ r' = r /\ r.price = AnswerPrice
    BY <1>9, OrderIsTaken DEF Framing
  <2> QED
    BY <1>2, <1>9, <2>1
<1> QED
  BY <1>5, <1>6, <1>7, <1>8, <1>9 DEF Answering

LEMMA LatencyGrows ==
  ASSUME ClockInv, RestLatencyIsPipeline, NEW send \in Nat, Latency(send) \in Nat,
         TopInv', Record(send),
         send # 0 /\ arrival.at_rest =>
            /\ Latency(send) = PipelineDepth(arrival.msg.type)
            /\ r'.price = AnswerPrice
  PROVE  RestLatencyIsPipeline'
<1> DEFINE n == Len(measurements)
           True(m, w) == m.send # 0 /\ w.at_rest =>
                            /\ m.latency = PipelineDepth(w.msg.type)
                            /\ w.trade.price = (w.msg.price + PRICE_OFFSET) % WORD32
<1>1. /\ Lists' /\ Len(measurements') = n + 1
      /\ \A i \in 1 .. n :
            measurements'[i] = measurements[i] /\ witness'[i] = witness[i]
      /\ measurements'[n + 1].send = send
      /\ measurements'[n + 1].latency = Latency(send)
      /\ witness'[n + 1].msg = arrival.msg
      /\ witness'[n + 1].at_rest = arrival.at_rest
      /\ witness'[n + 1].trade = r'
  BY RecordStep DEF ClockInv, Clocks
<1>2. n \in Nat /\ Taken = 1 .. n /\ Taken' = 1 .. n + 1
  <2>1. Taken' = 1 .. Len(measurements')
    BY <1>1, LenProperties DEF Taken, Lists
  <2> QED
    BY <1>1, <2>1, TakenIsRange DEF ClockInv
<1> HIDE DEF n
<1>3. \A i \in 1 .. n : True(measurements[i], witness[i])
  BY <1>2 DEF RestLatencyIsPipeline, Answered
<1>4. True(measurements'[n + 1], witness'[n + 1])
  BY <1>1 DEF AnswerPrice
<1> HIDE DEF True
<1>5. \A i \in 1 .. n + 1 : True(measurements'[i], witness'[i])
  BY <1>1, <1>2, <1>3, <1>4
<1> QED
  BY <1>2, <1>5 DEF RestLatencyIsPipeline, Answered, PipelineDepth, True

LEMMA InitAnswerInv == HarnessInit => AnswerInv
<1> SUFFICES ASSUME HarnessInit
             PROVE  AnswerInv
  OBVIOUS
<1>1. ClockInv
  BY InitClockInv
<1>2. measurements = << >> /\ Len(measurements) = 0 /\ pc = "reset"
  BY DEF HarnessInit
<1>3. RestLatencyIsPipeline
  BY <1>1, <1>2, TakenIsRange DEF ClockInv, RestLatencyIsPipeline
<1> QED
  BY <1>1, <1>2, <1>3 DEF AnswerInv, Released, Answering

LEMMA NextAnswerInv ==
  ASSUME AnswerInv, [Run]_harnessVars
  PROVE  AnswerInv'
<1>0. ClockInv /\ ClockInv' /\ TopInv' /\ Released'
  BY NextClockInv, ReleasedKept DEF AnswerInv, ClockInv
<1>1. CASE ResetSequence \/ Settle \/ Space
  <2>1. UNCHANGED records /\ pc' # "poll"
    BY <1>1 DEF ResetSequence, Settle, Space, Loop
  <2> QED
    BY <1>0, <2>1, RecordsOfOthers DEF AnswerInv, Answering
<1>2. CASE \E msg \in TestMessages : Inject(msg)
  <2>1. UNCHANGED records
    BY <1>2 DEF Inject
  <2> QED
    BY <1>0, <1>2, <2>1, InjectAnswering, RecordsOfOthers DEF AnswerInv
<1>3. CASE PollAnswered
  <2>1. /\ pc = "poll" /\ Tick(bus) /\ Counted /\ StopPolling /\ Record(main_time')
        /\ Posedge(bus, TRUE) /\ tvalid' /\ arrival' = arrival
    BY <1>3 DEF PollAnswered, Tick
  <2>2. main_time + 2 \in Nat /\ main_time' = main_time + 2 /\ count \in Nat
    BY <1>0, <2>1, PollTick
  <2>3. Latency(main_time + 2) \in Nat /\ Latency(main_time + 2) = count + 2
    BY <1>0, <2>1, LatencyOfAnswer, LoopsAreNat
  <2>4. Record(main_time + 2) /\ pc' # "poll"
    BY <2>1, <2>2 DEF StopPolling
  <2>5. ASSUME arrival.at_rest
        PROVE  /\ Latency(main_time + 2) = PipelineDepth(arrival.msg.type)
               /\ r'.price = AnswerPrice
    <3>1. r'.price = AnswerPrice /\ count + 1 = Lookup(arrival.msg.type) + 3
      BY <1>0, <2>1, <2>5, AnswerStep DEF AnswerInv
    <3> QED
      BY <2>2, <2>3, <3>1, LookupIsNat
  <2>6. RestLatencyIsPipeline'
    BY <1>0, <2>2, <2>3, <2>4, <2>5, LatencyGrows DEF AnswerInv
  <2> QED
    BY <1>0, <2>4, <2>6 DEF AnswerInv, Answering
<1>4. CASE PollAgain
  <2>1. /\ UNCHANGED records /\ pc = "poll" /\ count' = count + 1 /\ count \in Nat
        /\ Posedge(bus, TRUE) /\ ~tvalid' /\ arrival' = arrival
    BY <1>0, <1>4 DEF PollAgain, Tick, ClockInv, Clocks
  <2>2. Answering'
    BY <1>0, <2>1, AnswerStep DEF AnswerInv, Answering
  <2> QED
    BY <1>0, <2>1, <2>2, RecordsOfOthers DEF AnswerInv
<1>5. CASE PollExpires
  <2>1. pc = "poll" /\ StopPolling /\ Record(0)
    BY <1>5 DEF PollExpires
  <2>2. pc' # "poll" /\ Latency(0) \in Nat
    BY <1>0, <2>1, LatencyOfSilence DEF StopPolling
  <2>3. RestLatencyIsPipeline'
    BY <1>0, <2>1, <2>2, LatencyGrows DEF AnswerInv
  <2> QED
    BY <1>0, <2>2, <2>3 DEF AnswerInv, Answering
<1>6. CASE UNCHANGED harnessVars
  <2>1. UNCHANGED records /\ UNCHANGED <<pc, count, arrival>> /\ UNCHANGED vars
    BY <1>6 DEF harnessVars
  <2>2. Answering'
    BY <2>1 DEF AnswerInv, Answering, AtRest, Asked, Counting, Ordered, Framing,
       AnswerPrice, Lookup, vars, id_table!vars, strategy_core!vars, ouch_gen!vars,
       strategy_core!Signal, strategy_core!Signed32
  <2> QED
    BY <1>0, <2>1, <2>2, RecordsOfOthers DEF AnswerInv
<1> QED
  BY <1>1, <1>2, <1>3, <1>4, <1>5, <1>6 DEF Run

(***************************************************************************)
(* For every script and length of the loops, a message that finds the      *)
(* design at rest, if it is answered, is measured at the depth of the      *)
(* pipeline, and by its own order: the one priced from it, though the      *)
(* price is read off the bus an edge or two after it was released          *)
(* (sim_main.cpp, lines 106-140, alpha_core.sv, line 77).                  *)
(***************************************************************************)
THEOREM LatencyAtRestIsPipeline == HarnessSpec => []RestLatencyIsPipeline
<1>1. AnswerInv /\ [Run]_harnessVars => AnswerInv'
  BY NextAnswerInv
<1>2. AnswerInv => RestLatencyIsPipeline
  BY DEF AnswerInv
<1> QED
  BY <1>1, <1>2, InitAnswerInv, PTL DEF HarnessSpec
=============================================================================
