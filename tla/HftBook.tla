------------------------------- MODULE HftBook -------------------------------
(***************************************************************************)
(* The design on a legal ITCH feed, and the book that feed describes.  An  *)
(* order reference is used for one order only; a Delete, a Cancel or an     *)
(* execution names a live order and carries its locate code.  Replace, the *)
(* other message that ends an order, does not fit the bus: it has two      *)
(* references.  After a message the bus stays idle for Gap cycles:         *)
(* sim_main.cpp leaves a gap after every message, a feed at line rate does *)
(* not.                                                                    *)
(*                                                                         *)
(* The book is a history variable, kept by the rules of the feed and not   *)
(* by what the design does.  The one thing it knows of the design is which *)
(* references fold to the same slot: an order is evicted when a later Add  *)
(* takes its slot.                                                         *)
(***************************************************************************)
EXTENDS HftTop, FiniteSetsExt

CONSTANT Gap   \* cycles without a message after each message

ASSUME GapAssumption == Gap \in Nat

VARIABLES
    book,     \* book[id]: the order of that reference, or Null
    quiet     \* idle cycles left before the next message

bookVars == <<vars, book, quiet>>

MaxShares == Max(Shares)

BookOrder ==
    [ status : {"live", "gone"}, locate : Locates, side : Sides,
      shares : 0 .. MaxShares,   \* what is left of it
      evicted : BOOLEAN,     \* a later Add took its slot while it was live
      lost : 0 .. MaxShares, \* left it, and the design has not taken them out
      reduced : BOOLEAN ]    \* it was cancelled in part before

\* A feed reports orders of at least one share, and of a bounded size.
ASSUME FeedAssumption ==
    /\ Shares \subseteq Nat \ {0}
    /\ \E most \in Shares : \A shares \in Shares : most >= shares
    /\ Null \notin BookOrder
    /\ Null \notin id_table!Entry

\* A session has finitely many orders, and all of them together fit into a
\* register: 2^32 orders of 2^32 - 1 shares do.
ASSUME RoomAssumption ==
    /\ IsFiniteSet(OrderIds)
    /\ MaxShares * Cardinality(OrderIds) < WORD64

Live(id) == book[id] # Null /\ book[id].status = "live"

\* With valid low only the price lines are read, so the others may as well
\* be fixed.
IdleLines == CHOOSE m \in Message : ~m.valid

Idle(msg) == ~msg.valid /\ msg = [IdleLines EXCEPT !.price = msg.price]

\* The messages a legal feed may send next: a Cancel takes out a part, an
\* execution (with or without a price) a part or all that is left.
Legal(msg) ==
    \/ Idle(msg)
    \/ /\ quiet = 0
       /\ \/ msg.type \in {"A", "F"} /\ book[msg.id] = Null
          \/ /\ msg.type \in {"D", "X", "E", "C"}
             /\ Live(msg.id)
             /\ msg.locate = book[msg.id].locate
             /\ msg.type = "X" => msg.shares < book[msg.id].shares
             /\ msg.type \in {"E", "C"} => msg.shares <= book[msg.id].shares

\* What a message does to the book, and which orders lose their slot to it.
AddToBook(msg) ==
    book' = [ id \in OrderIds |->
        IF id = msg.id
        THEN [status |-> "live", locate |-> msg.locate, side |-> msg.side,
              shares |-> msg.shares, evicted |-> FALSE, lost |-> 0, reduced |-> FALSE]
        ELSE IF book[id] # Null /\ id_table!get_hash(id) = id_table!get_hash(msg.id)
        THEN [book[id] EXCEPT !.evicted = (@ \/ book[id].status = "live")]
        ELSE book[id] ]

\* Shares are cancelled or deleted.  The tracker takes the whole order out,
\* what was executed of it before included; it cannot if the order is evicted.
Without(bookOrder, shares, status) ==
    [bookOrder EXCEPT
        !.status = status,
        !.shares = @ - shares,
        !.lost = IF bookOrder.evicted THEN @ + shares ELSE 0,
        !.reduced = @ \/ (status = "live" /\ ~bookOrder.evicted)]

TakeOut(id, shares, status) ==
    book' = [book EXCEPT ![id] = Without(@, shares, status)]

\* Shares are executed: nothing in the design takes them out.
Executed(bookOrder, shares) ==
    [bookOrder EXCEPT
        !.status = IF shares = bookOrder.shares THEN "gone" ELSE "live",
        !.shares = @ - shares,
        !.lost = @ + shares]

Execute(id, shares) == book' = [book EXCEPT ![id] = Executed(@, shares)]

Follow(msg) ==
    CASE msg.valid /\ msg.type \in {"A", "F"} -> AddToBook(msg)
      [] msg.valid /\ msg.type = "D" -> TakeOut(msg.id, book[msg.id].shares, "gone")
      [] msg.valid /\ msg.type = "X" -> TakeOut(msg.id, msg.shares, "live")
      [] msg.valid /\ msg.type \in {"E", "C"} -> Execute(msg.id, msg.shares)
      [] OTHER -> UNCHANGED book

BookInit == Init /\ book = [id \in OrderIds |-> Null] /\ quiet = 0

Feed(msg) ==
    /\ Legal(msg)
    /\ Follow(msg)
    /\ quiet' = IF msg.valid THEN Gap ELSE IF quiet > 0 THEN quiet - 1 ELSE 0

BookClocked ==
    \E msg \in Message : Feed(msg) /\ \E tready \in BOOLEAN : Posedge(msg, tready)

\* A reset begins a session, with an empty book.
BookReset == Reset /\ book' = [id \in OrderIds |-> Null] /\ quiet' = 0

BookNext == BookClocked \/ BookReset

BookSpec == BookInit /\ [][BookNext]_bookVars

-----------------------------------------------------------------------------
Orders(side) ==
    { id \in OrderIds :
        /\ book[id] # Null
        /\ book[id].side = side
        /\ book[id].locate = TARGET_LOCATE }

\* The live shares of an order on a side, and all of them.
LiveOn(side) ==
    [id \in OrderIds |-> IF id \in Orders(side) /\ Live(id) THEN book[id].shares ELSE 0]

LiveShares(side) == SumFunctionOnSet(LiveOn(side), OrderIds)

\* Shares that left an order and are still in the depth: executed ones, until
\* a Delete or a Cancel takes the whole order out, and those cancelled or
\* deleted after a later Add had taken the order's slot.
LeakedOn(side) == [id \in OrderIds |-> IF id \in Orders(side) THEN book[id].lost ELSE 0]

LeakedShares(side) == SumFunctionOnSet(LeakedOn(side), OrderIds)

\* Shares the tracker has found, to be taken out at the next edge.
FoundShares(side) == IF t_read_valid /\ t_out.side = side THEN t_out.shares ELSE 0

Depth(side) == IF side = 1 THEN total_bid_depth ELSE total_ask_depth

(***************************************************************************)
(* The depth of a side is, to the share, the live orders of the target     *)
(* stock, what the lookup in progress is about to take out, and what       *)
(* leaked: executions (alpha_core.sv, lines 39 and 57, takes no notice of  *)
(* them) and what was taken out of evicted orders.  Other stocks reach it  *)
(* through evictions only, and the saturation of the subtraction never     *)
(* hides a difference.  A partial Cancel takes out the whole order, and    *)
(* again with every later message about it (line 64): from then on the     *)
(* depth may be below that sum, but never above it.  Requires a gap after  *)
(* each message.                                                           *)
(***************************************************************************)
DepthIsLivePlusLeaked ==
    \A side \in Sides :
        LET owed == LiveShares(side) + LeakedShares(side) + FoundShares(side) IN
        /\ Depth(side) <= owed
        /\ (\A id \in Orders(side) : ~book[id].reduced) => Depth(side) = owed

\* The tracker finds a live order exactly when no later Add took its slot,
\* whatever the stock of that Add, and with its data: the shares left of it
\* and those executed since, or more than that if it was cancelled in part.
TrackerFindsLive ==
    /\ book \in [OrderIds -> BookOrder \cup {Null}]
    /\ quiet \in 0 .. Gap
    /\ \A id \in OrderIds : Live(id) =>
          /\ id_table!Hit(id) <=> ~book[id].evicted
          /\ id_table!Hit(id) =>
                /\ mem[id_table!get_hash(id)].data.side = book[id].side
                /\ IF book[id].reduced
                   THEN mem[id_table!get_hash(id)].data.shares > book[id].shares + book[id].lost
                   ELSE mem[id_table!get_hash(id)].data.shares = book[id].shares + book[id].lost

\* README.md, section 2: an Add Order "inserts a new entry", "Order Cancel
\* and Delete messages subtract shares from existing levels", "Execution
\* messages reduce share counts and remove depleted levels"; so once no lookup
\* is in progress the depths are those of the live orders.
DepthIsLive ==
    ~t_read_valid => \A side \in Sides : Depth(side) = LiveShares(side)
=============================================================================
