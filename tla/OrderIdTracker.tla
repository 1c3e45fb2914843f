---------------------------- MODULE OrderIdTracker ----------------------------
(***************************************************************************)
(* order_id_tracker.sv: a direct-mapped memory of the orders seen in Add   *)
(* messages, indexed by an XOR fold of the order reference.  One write     *)
(* port and one read port are served at every rising clock edge; a read is *)
(* answered in the output registers, one edge later.                       *)
(*                                                                         *)
(* An order reference is a vector of bits, so that get_hash is the fold of *)
(* the source and not a stand-in for it.  The columns mem_side, mem_price  *)
(* and mem_shares of a slot are one datum, as are the three out_*          *)
(* registers: the tracker never looks inside.                              *)
(***************************************************************************)
EXTENDS Naturals

CONSTANTS
    ADDR_WIDTH,   \* bits of a slot index (16 in the source)
    ID_WIDTH,     \* bits of an order reference (64 in the source)
    OrderIds,     \* the order references that occur
    Data,         \* side, price and shares of an order
    ZeroData,     \* the reset value of out_side, out_price and out_shares
    Null          \* contents of a slot whose mem_allocated bit is clear

ASSUME WidthAssumption ==
    /\ ADDR_WIDTH \in Nat \ {0}
    /\ ID_WIDTH \in Nat
    /\ 2 * ADDR_WIDTH <= ID_WIDTH
    /\ OrderIds \subseteq [0 .. ID_WIDTH - 1 -> BOOLEAN]

Slots == [0 .. ADDR_WIDTH - 1 -> BOOLEAN]

Entry == [order_id : OrderIds, data : Data]

ASSUME NullAssumption == Null \notin Entry /\ Null \notin Data

VARIABLES
    mem,          \* mem[s]: the entry in slot s, or Null
    read_valid,   \* the last edge's read hit
    out           \* out_side, out_price, out_shares: the data of the last hit

vars == <<mem, read_valid, out>>

TypeOK ==
    /\ mem \in [Slots -> Entry \cup {Null}]
    /\ read_valid \in BOOLEAN
    /\ out \in Data \cup {ZeroData}

\* id[ADDR_WIDTH-1:0] ^ id[2*ADDR_WIDTH-1:ADDR_WIDTH]; the higher bits of
\* the reference do not reach the index.
get_hash(id) == [b \in 0 .. ADDR_WIDTH - 1 |-> id[b] # id[b + ADDR_WIDTH]]

\* A fault in the comparison: any allocated slot counts as a hit.
HitWithoutCompare(id) == mem[get_hash(id)] # Null

\* The slot of a reference is allocated and holds that very reference.
Hit(id) ==
    /\ mem[get_hash(id)] # Null
    /\ mem[get_hash(id)].order_id = id

\* The power-up state is the reset state: every program resets first.
Init ==
    /\ mem = [s \in Slots |-> Null]
    /\ read_valid = FALSE
    /\ out = ZeroData

Reset ==
    /\ mem' = [s \in Slots |-> Null]
    /\ read_valid' = FALSE
    /\ out' = ZeroData

\* A fault in the write port: the index is not folded.
WritePortUnfolded(write_en, id, data) ==
    mem' = IF write_en
           THEN [mem EXCEPT ![[b \in 0 .. ADDR_WIDTH - 1 |-> id[b]]] =
                     [order_id |-> id, data |-> data]]
           ELSE mem

\* A fault in the write port: an allocated slot is not overwritten.
WritePortIfFree(write_en, id, data) ==
    mem' = IF write_en /\ mem[get_hash(id)] = Null
           THEN [mem EXCEPT ![get_hash(id)] = [order_id |-> id, data |-> data]]
           ELSE mem

\* The write port overwrites whatever the slot holds.
WritePort(write_en, id, data) ==
    mem' = IF write_en
           THEN [mem EXCEPT ![get_hash(id)] = [order_id |-> id, data |-> data]]
           ELSE mem

\* The read port sees the memory as it was before the edge.  A miss clears
\* read_valid and leaves the data registers alone.
ReadPort(read_en, id) ==
    /\ read_valid' = (read_en /\ Hit(id))
    /\ out' = IF read_en /\ Hit(id) THEN mem[get_hash(id)].data ELSE out

Clock(write_en, write_id, data, read_en, read_id) ==
    /\ WritePort(write_en, write_id, data)
    /\ ReadPort(read_en, read_id)
=============================================================================
