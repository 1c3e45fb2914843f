----------------------------- MODULE CpuFeedProofs -----------------------------
(***************************************************************************)
(* Proofs about the software strategy: the bound on its position, for      *)
(* every limit and size of orders, since an order is cut to ORDER_QTY and  *)
(* decided only inside the limit, so that the words never wrap around; and *)
(* its depths, which are the sums over its book.                           *)
(***************************************************************************)
EXTENDS CpuFeed, SumProofs

PositionInv == position \in Int /\ PositionOvershoot

-----------------------------------------------------------------------------
LEMMA ModSmall == \A m \in Nat \ {0}, a \in Nat : a < m => a % m = a
  OBVIOUS

LEMMA HalfWord == \A w \in Nat : w \div 2 \in Nat /\ 2 * (w \div 2) <= w
  OBVIOUS

\* Within half a word, the conversion to int32_t changes nothing.
LEMMA SignedIsIdentity ==
  ASSUME NEW n \in Int, n < WORD32 \div 2, -(WORD32 \div 2) < n
  PROVE  Signed32(n) = n
<1> DEFINE half == WORD32 \div 2
<1>1. WORD32 \in Nat /\ half \in Nat /\ 2 * half <= WORD32
  BY EngineAssumption, HalfWord
<1> HIDE DEF half
<1>2. n + half \in Nat /\ n + half < WORD32 /\ WORD32 # 0
  BY <1>1 DEF half
<1>3. (n + half) % WORD32 = n + half
  BY <1>1, <1>2, ModSmall
<1>4. Signed32(n) = ((n + half) % WORD32) - half
  BY DEF Signed32, half
<1> QED
  BY <1>1, <1>3, <1>4

\* No order is larger than ORDER_QTY.
LEMMA QuantityFits ==
  ASSUME NEW shares \in Shares
  PROVE  AtMost(ORDER_QTY, shares \div 2) \in 0 .. ORDER_QTY
<1>1. shares \in Nat /\ shares \div 2 \in Nat /\ ORDER_QTY \in Nat
  BY EngineAssumption, HalfWord
<1> QED
  BY <1>1 DEF AtMost

\* A sale or a purchase starts inside the limit and moves by one order.
LEMMA DecideInv ==
  ASSUME PositionInv, NEW price, NEW shares \in Shares, Decide(price, shares)
  PROVE  PositionInv'
<1> DEFINE qty  == AtMost(ORDER_QTY, shares \div 2)
           half == WORD32 \div 2
<1>1. qty \in 0 .. ORDER_QTY
  BY QuantityFits
<1>2. /\ MAX_POSITION \in Nat /\ ORDER_QTY \in Nat \ {0}
      /\ half \in Nat /\ MAX_POSITION + ORDER_QTY < half
  BY EngineAssumption, HalfWord
<1>3. CASE SellSignal(shares)
  <2>1. position' = Signed32(position + qty)
    BY <1>3 DEF Decide
  <2>2. position \in Int /\ position < MAX_POSITION /\ -(MAX_POSITION + ORDER_QTY) < position
    BY <1>3 DEF SellSignal, PositionInv, PositionOvershoot
  <2> HIDE DEF qty, half
  <2>3. /\ position + qty \in Int
        /\ position + qty < MAX_POSITION + ORDER_QTY
        /\ position + qty > -(MAX_POSITION + ORDER_QTY)
        /\ position + qty < half /\ -half < position + qty
    BY <1>1, <1>2, <2>2
  <2>4. Signed32(position + qty) = position + qty
    BY <2>3, SignedIsIdentity DEF half
  <2> QED
    BY <2>1, <2>3, <2>4 DEF PositionInv, PositionOvershoot
<1>4. CASE ~SellSignal(shares) /\ BuySignal(shares)
  <2>1. position' = Signed32(position - qty)
    BY <1>4 DEF Decide
  <2>2. position \in Int /\ position > -MAX_POSITION /\ position < MAX_POSITION + ORDER_QTY
    BY <1>4 DEF BuySignal, PositionInv, PositionOvershoot
  <2> HIDE DEF qty, half
  <2>3. /\ position - qty \in Int
        /\ position - qty < MAX_POSITION + ORDER_QTY
        /\ position - qty > -(MAX_POSITION + ORDER_QTY)
        /\ position - qty < half /\ -half < position - qty
    BY <1>1, <1>2, <2>2
  <2>4. Signed32(position - qty) = position - qty
    BY <2>3, SignedIsIdentity DEF half
  <2> QED
    BY <2>1, <2>3, <2>4 DEF PositionInv, PositionOvershoot
<1>5. CASE ~SellSignal(shares) /\ ~BuySignal(shares)
  BY <1>5 DEF Decide, PositionInv, PositionOvershoot
<1> QED
  BY <1>3, <1>4, <1>5

LEMMA NextPositionInv == PositionInv /\ [FeedNext]_feedVars => PositionInv'
<1> SUFFICES ASSUME PositionInv, [FeedNext]_feedVars
             PROVE  PositionInv'
  OBVIOUS
<1>1. CASE FeedNext
  <2> PICK type \in Types, locate \in Locates, side \in Sides, price \in Prices,
           shares \in Shares, id \in OrderIds :
              process_itch_message(type, locate, side, price, shares, id)
    BY <1>1 DEF FeedNext, Process
  <2>1. CASE process_add_order(side, price, shares, id)
    BY <2>1, DecideInv DEF process_add_order
  <2>2. CASE UNCHANGED position
    BY <2>2 DEF PositionInv, PositionOvershoot
  <2> QED
    BY <2>1, <2>2 DEF process_itch_message, Ignore, process_delete_order,
          process_cancel_order, process_execute_order, Unknown, NoDecision
<1>2. CASE UNCHANGED feedVars
  BY <1>2 DEF feedVars, vars, PositionInv, PositionOvershoot
<1> QED
  BY <1>1, <1>2

(***************************************************************************)
(* Whatever messages come, the position passes the limit by less than one  *)
(* order, and so never comes near the ends of an int32_t                   *)
(* (process_add_order of cpu_trading_engine.h, which tests the limit       *)
(* before it adds).                                                        *)
(***************************************************************************)
THEOREM PositionStaysBounded == FeedSpec => []PositionOvershoot
<1>1. FeedInit => PositionInv
  BY EngineAssumption DEF FeedInit, Init, PositionInv, PositionOvershoot
<1>2. PositionInv => PositionOvershoot
  BY DEF PositionInv
<1> QED
  BY <1>1, <1>2, NextPositionInv, PTL DEF FeedSpec
-----------------------------------------------------------------------------
\* What a side's depth is compared with.
OnSide(side) == BookShares(side) + overwritten[side]

DepthOn(side) == IF side = 1 THEN bid_depth ELSE ask_depth

\* The inductive invariant: the book holds orders, and the depths cover them.
DepthInv ==
    /\ order_book \in [OrderIds -> OrderRecord \cup {Null}]
    /\ overwritten \in [{0, 1} -> Nat]
    /\ \A side \in {0, 1} : DepthOn(side) = OnSide(side)

LEMMA DepthInvIsDepths ==
  (\A side \in {0, 1} : DepthOn(side) = OnSide(side)) <=> DepthIsBookPlusOverwritten
  BY DEF DepthOn, OnSide, DepthIsBookPlusOverwritten

LEMMA SharesAreWords == Shares \subseteq 0 .. WORD32 - 1 /\ WORD32 \in Nat /\ Shares \subseteq Nat
  BY EngineAssumption

\* What an order in the book consists of.
LEMMA OrderParts ==
  ASSUME DepthInv, NEW id \in OrderIds, order_book[id] # Null
  PROVE  /\ order_book[id] \in OrderRecord
         /\ order_book[id].side \in Sides
         /\ order_book[id].shares \in 0 .. WORD32 - 1
         /\ order_book[id].shares \in Nat
  BY SharesAreWords DEF DepthInv, OrderRecord

LEMMA SharesOnType ==
  ASSUME DepthInv, NEW side \in {0, 1}
  PROVE  \A id \in OrderIds : SharesOn(side)[id] \in Nat
  BY OrderParts DEF SharesOn

LEMMA BookSharesType ==
  ASSUME DepthInv, NEW side \in {0, 1}
  PROVE  BookShares(side) \in Nat /\ overwritten[side] \in Nat /\ DepthOn(side) \in Nat
<1>1. BookShares(side) \in Nat
  BY SharesOnType, FeedAssumption, SumIsNat DEF BookShares
<1>2. overwritten[side] \in Nat
  BY DEF DepthInv
<1> QED
  BY <1>1, <1>2 DEF DepthInv, OnSide

\* Shares an order adds to a side, if it is one (Null adds none).
Adds(entry, side) ==
    IF entry # Null /\ BookSide(entry.side) = side THEN entry.shares ELSE 0

\* Changing one order of the book changes its side's sum by the difference.
LEMMA BookSharesStep ==
  ASSUME DepthInv, NEW id \in OrderIds, NEW entry \in OrderRecord \cup {Null},
         order_book' = [order_book EXCEPT ![id] = entry], NEW side \in {0, 1}
  PROVE  /\ order_book' \in [OrderIds -> OrderRecord \cup {Null}]
         /\ BookShares(side)' \in Nat
         /\ Adds(entry, side) \in Nat /\ Adds(order_book[id], side) \in Nat
         /\ BookShares(side)' + Adds(order_book[id], side)
               = BookShares(side) + Adds(entry, side)
<1> DEFINE before == SharesOn(side)
           after == SharesOn(side)'
<1>1. order_book' \in [OrderIds -> OrderRecord \cup {Null}]
  BY DEF DepthInv
<1>2. order_book'[id] = entry /\ \A o \in OrderIds : o # id => order_book'[o] = order_book[o]
  BY DEF DepthInv
<1>3. /\ \A o \in OrderIds : before[o] = Adds(order_book[o], side)
      /\ \A o \in OrderIds : after[o] = Adds(order_book'[o], side)
  BY DEF SharesOn, Adds
<1>4. Adds(entry, side) \in Nat
  BY SharesAreWords DEF Adds, OrderRecord
<1>5. \A o \in OrderIds : before[o] \in Nat
  BY SharesOnType
<1>6. \A o \in OrderIds : after[o] \in Nat /\ (o # id => before[o] = after[o])
  BY <1>2, <1>3, <1>4, <1>5
<1>7. BookShares(side) = SumFunctionOnSet(before, OrderIds)
  BY DEF BookShares
<1>8. BookShares(side)' = SumFunctionOnSet(after, OrderIds)
  BY DEF BookShares
<1> HIDE DEF before, after
<1>9. SumFunctionOnSet(after, OrderIds) \in Nat
  BY <1>6, FeedAssumption, SumIsNat
<1>10. SumFunctionOnSet(after, OrderIds) + before[id]
          = SumFunctionOnSet(before, OrderIds) + after[id]
  BY <1>5, <1>6, FeedAssumption, SumWithChange
<1> QED
  BY <1>1, <1>2, <1>3, <1>4, <1>5, <1>7, <1>8, <1>9, <1>10

\* An Add: the order it overwrites, if any, stays in the depth.
LEMMA AddDepthInv ==
  ASSUME DepthInv, NEW side \in Sides, NEW shares \in Shares, NEW id \in OrderIds,
         bid_depth + shares <= DEPTH_BOUND, ask_depth + shares <= DEPTH_BOUND,
         order_book' = [order_book EXCEPT ![id] = [side |-> side, shares |-> shares]],
         AddDepth(side, shares),
         overwritten' = IF order_book[id] # Null
                        THEN [overwritten EXCEPT ![BookSide(order_book[id].side)] =
                                  @ + order_book[id].shares]
                        ELSE overwritten
  PROVE  DepthInv'
<1> DEFINE entry == [side |-> side, shares |-> shares]
           old == order_book[id]
<1>1. entry \in OrderRecord /\ entry # Null
  BY SharesAreWords, FeedAssumption DEF OrderRecord
<1>2. shares \in Nat /\ WORD64 \in Nat \ {0} /\ DEPTH_BOUND \in Nat /\ DEPTH_BOUND < WORD64
  BY SharesAreWords, EngineAssumption, FeedAssumption
<1>3. overwritten' \in [{0, 1} -> Nat]
      /\ \A s \in {0, 1} : overwritten'[s] = overwritten[s] + Adds(old, s)
  <2>1. overwritten \in [{0, 1} -> Nat] /\ \A s \in {0, 1} : overwritten[s] + 0 = overwritten[s]
    BY DEF DepthInv
  <2>2. CASE old = Null
    BY <2>1, <2>2 DEF Adds
  <2>3. CASE old # Null
    <3>1. BookSide(old.side) \in {0, 1} /\ old.shares \in Nat
      BY <2>3, OrderParts DEF BookSide
    <3> QED
      BY <2>1, <2>3, <3>1 DEF Adds
  <2> QED
    BY <2>2, <2>3
<1>4. ASSUME NEW s \in {0, 1}
      PROVE  DepthOn(s)' = DepthOn(s) + Adds(entry, s)
  <2>1. DepthOn(0) = ask_depth /\ DepthOn(1) = bid_depth
    BY DEF DepthOn
  <2>2. ask_depth \in Nat /\ bid_depth \in Nat
    BY <2>1, BookSharesType
  <2>3. Adds(entry, s) = IF BookSide(side) = s THEN shares ELSE 0
    BY <1>1 DEF Adds
  <2>4. CASE side = 1
    <3>1. bid_depth' = bid_depth + shares /\ ask_depth' = ask_depth
      BY <1>2, <2>2, <2>4, ModSmall DEF AddDepth, U64
    <3> QED
      BY <2>2, <2>3, <2>4, <3>1 DEF DepthOn, BookSide
  <2>5. CASE side # 1
    <3>1. ask_depth' = ask_depth + shares /\ bid_depth' = bid_depth
      BY <1>2, <2>2, <2>5, ModSmall DEF AddDepth, U64
    <3> QED
      BY <2>2, <2>3, <2>5, <3>1 DEF DepthOn, BookSide
  <2> QED
    BY <2>4, <2>5
<1> HIDE DEF entry
<1>5. order_book' = [order_book EXCEPT ![id] = entry]
  BY DEF entry
<1>6. ASSUME NEW s \in {0, 1}
      PROVE  DepthOn(s)' = BookShares(s)' + overwritten'[s]
  <2>1. /\ BookShares(s)' \in Nat /\ Adds(entry, s) \in Nat /\ Adds(old, s) \in Nat
        /\ BookShares(s)' + Adds(old, s) = BookShares(s) + Adds(entry, s)
    BY <1>1, <1>5, BookSharesStep
  <2>2. /\ BookShares(s) \in Nat /\ overwritten[s] \in Nat
        /\ DepthOn(s) = BookShares(s) + overwritten[s]
    BY BookSharesType DEF DepthInv, OnSide
  <2>3. overwritten'[s] = overwritten[s] + Adds(old, s)
    BY <1>3
  <2> HIDE DEF old
  <2> QED
    BY <1>4, <2>1, <2>2, <2>3
<1>7. order_book' \in [OrderIds -> OrderRecord \cup {Null}]
  BY <1>1, <1>5, BookSharesStep
<1> QED
  BY <1>3, <1>6, <1>7 DEF DepthInv, OnSide

\* A Delete, a Cancel or an Execute: what leaves the book leaves the depth.
LEMMA SubtractDepthInv ==
  ASSUME DepthInv, NEW id \in OrderIds, order_book[id] # Null,
         NEW entry \in OrderRecord \cup {Null}, NEW shares \in Nat,
         \A s \in {0, 1} : Adds(order_book[id], s)
                             = Adds(entry, s) + (IF BookSide(order_book[id].side) = s
                                                 THEN shares ELSE 0),
         order_book' = [order_book EXCEPT ![id] = entry],
         SubtractDepth(order_book[id].side, shares), overwritten' = overwritten
  PROVE  DepthInv'
<1> DEFINE side == order_book[id].side
           Gone(s) == IF BookSide(side) = s THEN shares ELSE 0
<1>1. ASSUME NEW s \in {0, 1}
      PROVE  /\ BookShares(s)' \in Nat /\ overwritten[s] \in Nat /\ Gone(s) \in Nat
             /\ BookShares(s) = BookShares(s)' + Gone(s)
             /\ DepthOn(s) = BookShares(s) + overwritten[s]
  <2>1. /\ BookShares(s)' \in Nat /\ Adds(entry, s) \in Nat /\ Adds(order_book[id], s) \in Nat
        /\ BookShares(s)' + Adds(order_book[id], s) = BookShares(s) + Adds(entry, s)
    BY BookSharesStep
  <2>2. /\ BookShares(s) \in Nat /\ overwritten[s] \in Nat
        /\ DepthOn(s) = BookShares(s) + overwritten[s]
    BY BookSharesType DEF DepthInv, OnSide
  <2>3. Gone(s) \in Nat /\ Adds(order_book[id], s) = Adds(entry, s) + Gone(s)
    OBVIOUS
  <2> HIDE DEF Gone
  <2> QED
    BY <2>1, <2>2, <2>3
<1>2. ASSUME NEW s \in {0, 1}
      PROVE  DepthOn(s)' = IF BookSide(side) = s THEN Less(DepthOn(s), shares) ELSE DepthOn(s)
  <2>1. CASE side = 1
    BY <2>1 DEF SubtractDepth, DepthOn, BookSide
  <2>2. CASE side # 1
    BY <2>2 DEF SubtractDepth, DepthOn, BookSide
  <2> QED
    BY <2>1, <2>2
<1>3. ASSUME NEW s \in {0, 1}
      PROVE  DepthOn(s)' = BookShares(s)' + overwritten'[s]
  BY <1>1, <1>2 DEF Less
<1>4. order_book' \in [OrderIds -> OrderRecord \cup {Null}]
  BY BookSharesStep
<1> QED
  BY <1>3, <1>4 DEF DepthInv, OnSide

LEMMA CancelDepthInv ==
  ASSUME DepthInv, NEW id \in OrderIds, NEW shares \in Shares,
         process_cancel_order(id, shares), overwritten' = overwritten
  PROVE  DepthInv'
<1> DEFINE old == order_book[id]
<1>1. CASE Unknown(id)
  BY <1>1 DEF Unknown, DepthInv, DepthOn, OnSide, BookShares, SharesOn
<1>2. CASE /\ old # Null /\ old.shares <= shares
           /\ SubtractDepth(old.side, old.shares)
           /\ order_book' = [order_book EXCEPT ![id] = Null]
  <2>1. old.shares \in Nat
    BY <1>2, OrderParts
  <2>2. \A s \in {0, 1} : Adds(old, s) = Adds(Null, s) + (IF BookSide(old.side) = s
                                                          THEN old.shares ELSE 0)
    BY <1>2, <2>1 DEF Adds
  <2> QED
    BY <1>2, <2>1, <2>2, SubtractDepthInv
<1>3. CASE /\ old # Null /\ old.shares > shares
           /\ order_book' = [order_book EXCEPT ![id].shares = @ - shares]
           /\ SubtractDepth(old.side, shares)
  <2> DEFINE entry == [old EXCEPT !.shares = @ - shares]
  <2>1. old \in OrderRecord /\ old.shares \in Nat /\ old.shares \in 0 .. WORD32 - 1
    BY <1>3, OrderParts
  <2>2. shares \in Nat /\ WORD32 \in Nat
    BY SharesAreWords
  <2>3. /\ entry \in OrderRecord /\ entry # Null
        /\ entry.side = old.side /\ entry.shares = old.shares - shares
    BY <1>3, <2>1, <2>2, FeedAssumption DEF OrderRecord
  <2>4. order_book' = [order_book EXCEPT ![id] = entry]
    BY <1>3
  <2> HIDE DEF entry
  <2>5. \A s \in {0, 1} : Adds(old, s) = Adds(entry, s) + (IF BookSide(old.side) = s
                                                           THEN shares ELSE 0)
    BY <1>3, <2>1, <2>2, <2>3 DEF Adds
  <2> QED
    BY <1>3, <2>2, <2>3, <2>4, <2>5, SubtractDepthInv
<1> QED
  BY <1>1, <1>2, <1>3 DEF process_cancel_order

LEMMA DeleteDepthInv ==
  ASSUME DepthInv, NEW id \in OrderIds, process_delete_order(id), overwritten' = overwritten
  PROVE  DepthInv'
<1> DEFINE old == order_book[id]
<1>1. CASE Unknown(id)
  BY <1>1 DEF Unknown, DepthInv, DepthOn, OnSide, BookShares, SharesOn
<1>2. CASE /\ old # Null
           /\ SubtractDepth(old.side, old.shares)
           /\ order_book' = [order_book EXCEPT ![id] = Null]
  <2>1. old.shares \in Nat
    BY <1>2, OrderParts
  <2>2. \A s \in {0, 1} : Adds(old, s) = Adds(Null, s) + (IF BookSide(old.side) = s
                                                          THEN old.shares ELSE 0)
    BY <1>2, <2>1 DEF Adds
  <2> QED
    BY <1>2, <2>1, <2>2, SubtractDepthInv
<1> QED
  BY <1>1, <1>2 DEF process_delete_order

LEMMA InitDepthInv == FeedInit => DepthInv
<1> SUFFICES ASSUME FeedInit
             PROVE  DepthInv
  OBVIOUS
<1>1. /\ order_book = [id \in OrderIds |-> Null] /\ overwritten = [s \in {0, 1} |-> 0]
      /\ bid_depth = 0 /\ ask_depth = 0
  BY DEF FeedInit, Init
<1>2. ASSUME NEW side \in {0, 1}
      PROVE  BookShares(side) = 0
  <2>1. \A id \in OrderIds : SharesOn(side)[id] = 0
    BY <1>1 DEF SharesOn
  <2>2. SumFunctionOnSet(SharesOn(side), OrderIds) = 0
    BY <2>1, FeedAssumption, SumOfZeros
  <2> QED
    BY <2>2 DEF BookShares
<1> QED
  BY <1>1, <1>2 DEF DepthInv, DepthOn, OnSide

LEMMA NextDepthInv == DepthInv /\ [FeedNext]_feedVars => DepthInv'
<1> SUFFICES ASSUME DepthInv, [FeedNext]_feedVars
             PROVE  DepthInv'
  OBVIOUS
<1>1. CASE FeedNext
  <2> PICK type \in Types, locate \in Locates, side \in Sides, price \in Prices,
           shares \in Shares, id \in OrderIds :
              Process(type, locate, side, price, shares, id)
    BY <1>1 DEF FeedNext
  <2>1. CASE Ignore(type, locate)
    <3>1. overwritten' = overwritten
      BY <2>1 DEF Ignore, Process
    <3> QED
      BY <2>1, <3>1 DEF Ignore, DepthInv, DepthOn, OnSide, BookShares, SharesOn
  <2>2. CASE locate = TARGET_LOCATE /\ type = "A" /\ process_add_order(side, price, shares, id)
    BY <2>2, AddDepthInv DEF Process, process_add_order
  <2>3. CASE type = "D" /\ process_delete_order(id)
    BY <2>3, DeleteDepthInv DEF Process
  <2>4. CASE type \in {"X", "E"} /\ process_cancel_order(id, shares)
    BY <2>4, CancelDepthInv DEF Process
  <2> QED
    BY <2>1, <2>2, <2>3, <2>4 DEF Process, process_itch_message, process_execute_order
<1>2. CASE UNCHANGED feedVars
  BY <1>2 DEF feedVars, vars, DepthInv, DepthOn, OnSide, BookShares, SharesOn
<1> QED
  BY <1>1, <1>2

(***************************************************************************)
(* The running depths never drift from the book: whatever messages come,   *)
(* each depth is to the share the orders of its side in the book, plus     *)
(* those whose reference was used again (cpu_trading_engine.h,             *)
(* process_add_order to process_execute_order).                            *)
(***************************************************************************)
THEOREM DepthsNeverDrift == FeedSpec => []DepthIsBookPlusOverwritten
<1>1. DepthInv => DepthIsBookPlusOverwritten
  BY DepthInvIsDepths DEF DepthInv
<1> QED
  BY <1>1, InitDepthInv, NextDepthInv, PTL DEF FeedSpec
=============================================================================
