----------------------------- MODULE TrackerPort -----------------------------
(***************************************************************************)
(* The order tracker on its own, with any traffic on its two ports, and    *)
(* the lossy map it implements.  A history variable remembers the          *)
(* reference on the read port, which the hardware does not give back with  *)
(* the answer.                                                             *)
(***************************************************************************)
EXTENDS OrderIdTracker

ASSUME RequestAssumption == Null \notin OrderIds

VARIABLE request   \* history: the reference read at the last edge, or Null

portVars == <<vars, request>>

PortInit == Init /\ request = Null

\* One clock edge: a write or none, a read or none, of any references.
PortClock ==
    \E write_en, read_en \in BOOLEAN, w, r \in OrderIds, d \in Data :
        /\ Clock(write_en, w, d, read_en, r)
        /\ request' = IF read_en THEN r ELSE Null

PortReset == Reset /\ request' = Null

PortNext == PortClock \/ PortReset

PortSpec == PortInit /\ [][PortNext]_portVars

-----------------------------------------------------------------------------
\* An entry sits in the slot its reference folds to, so that no order can
\* be found, or overwritten, in two places (order_id_tracker.sv, write_idx
\* and read_idx); and an answer is the answer to a request.
PortInv ==
    /\ TypeOK
    /\ request \in OrderIds \cup {Null}
    /\ \A s \in Slots : mem[s] # Null => get_hash(mem[s].order_id) = s
    /\ read_valid => request # Null

\* The data the memory answers with for a reference, or Null.
Held(id) == IF Hit(id) THEN mem[get_hash(id)].data ELSE Null

Map == INSTANCE LossyOrderMap WITH
    Bucket <- [i \in OrderIds |-> get_hash(i)],
    store <- [i \in OrderIds |-> Held(i)],
    answer <- IF read_valid THEN out ELSE Null

\* The tracker implements the lossy map: whatever the collisions, and
\* whatever is written in the cycle of a read, a hit returns the data last
\* written for the very reference that was asked for, and a write costs at
\* most one other order its place, one whose reference folds to the same
\* index (order_id_tracker.sv, both ports).
ImplementsMap == Map!Spec
=============================================================================
