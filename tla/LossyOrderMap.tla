---------------------------- MODULE LossyOrderMap ----------------------------
(***************************************************************************)
(* What the order tracker promises its clients: a map from order           *)
(* references to order data that may forget, but never invents.  Storing   *)
(* an order may make the map forget at most one other order, and only one  *)
(* of the same bucket.  A lookup is answered one clock edge later, with    *)
(* the data last stored for the very reference that was asked for, or with *)
(* Null when the map holds nothing for it.                                 *)
(***************************************************************************)
CONSTANTS
    OrderIds,   \* the order references that can be stored
    Data,       \* what is stored with an order
    Bucket,     \* Bucket[i]: the bucket of reference i
    Null        \* "nothing stored", "no request" and "no answer"

VARIABLES
    store,      \* store[i]: the data held for order i, or Null
    request,    \* the reference looked up at the last edge, or Null
    answer      \* the answer to that lookup, or Null

vars == <<store, request, answer>>

Init ==
    /\ store = [i \in OrderIds |-> Null]
    /\ request = Null
    /\ answer = Null

Put(i, d) ==
    \E lost \in {j \in OrderIds : Bucket[j] = Bucket[i]} :
        store' = [j \in OrderIds |-> IF j = i THEN d
                                     ELSE IF j = lost THEN Null ELSE store[j]]

\* A lookup sees the map as it was before the edge.
Lookup(i) == request' = i /\ answer' = store[i]

NoLookup == request' = Null /\ answer' = Null

\* At an edge a store and a lookup may happen together.
Edge ==
    /\ \/ \E i \in OrderIds, d \in Data : Put(i, d)
       \/ UNCHANGED store
    /\ \/ \E i \in OrderIds : Lookup(i)
       \/ NoLookup

Clear == store' = [i \in OrderIds |-> Null] /\ NoLookup

Next == Edge \/ Clear

Spec == Init /\ [][Next]_vars
=============================================================================
