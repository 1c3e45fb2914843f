-------------------------- MODULE TrackerPortProofs --------------------------
(***************************************************************************)
(* Proofs about the order tracker: the invariant of its memory, and that   *)
(* every step of the tracker is a step of the lossy map.                   *)
(***************************************************************************)
EXTENDS TrackerPort, TLAPS

\* A slot index is a vector of ADDR_WIDTH bits.
LEMMA HashType == \A id \in OrderIds : get_hash(id) \in Slots
  BY DEF get_hash, Slots

LEMMA InitPortInv == PortInit => PortInv
  BY NullAssumption DEF PortInit, PortInv, Init, TypeOK

\* Both ports preserve the invariant, whatever they are given.
LEMMA ClockPortInv ==
  ASSUME PortInv,
         NEW write_en \in BOOLEAN, NEW read_en \in BOOLEAN,
         NEW w \in OrderIds, NEW i \in OrderIds, NEW d \in Data,
         Clock(write_en, w, d, read_en, i),
         request' = IF read_en THEN i ELSE Null
  PROVE  PortInv'
<1>0. get_hash(w) \in Slots /\ get_hash(i) \in Slots
  BY HashType
<1>1. [order_id |-> w, data |-> d] \in Entry
  BY DEF Entry
<1>2. mem' \in [Slots -> Entry \cup {Null}]
  BY <1>0, <1>1 DEF PortInv, TypeOK, Clock, WritePort
<1>3. read_valid' \in BOOLEAN
  BY DEF Clock, ReadPort, Hit
<1>4. out' \in Data \cup {ZeroData}
  <2>1. CASE read_en /\ Hit(i)
    <3>1. mem[get_hash(i)] \in Entry
      BY <2>1, <1>0 DEF Hit, PortInv, TypeOK
    <3> QED
      BY <2>1, <3>1 DEF Clock, ReadPort, Entry
  <2>2. CASE ~(read_en /\ Hit(i))
    BY <2>2 DEF Clock, ReadPort, PortInv, TypeOK
  <2> QED
    BY <2>1, <2>2
<1>5. ASSUME NEW s \in Slots, mem'[s] # Null
      PROVE  get_hash(mem'[s].order_id) = s
  <2>1. CASE write_en /\ s = get_hash(w)
    BY <2>1, <1>0 DEF Clock, WritePort, PortInv, TypeOK
  <2>2. CASE ~(write_en /\ s = get_hash(w))
    <3>1. mem'[s] = mem[s]
      BY <2>2, <1>0 DEF Clock, WritePort, PortInv, TypeOK
    <3> QED
      BY <3>1, <1>5 DEF PortInv
  <2> QED
    BY <2>1, <2>2
<1>6. \A s \in Slots : mem'[s] # Null => get_hash(mem'[s].order_id) = s
  BY <1>5
<1>7. \A s \in Slots : (mem[s] # Null => get_hash(mem[s].order_id) = s)'
  BY <1>6 DEF get_hash
<1>8. (read_valid => request # Null)'
  BY RequestAssumption DEF Clock, ReadPort
<1> QED
  BY <1>2, <1>3, <1>4, <1>7, <1>8 DEF PortInv, TypeOK

LEMMA NextPortInv == PortInv /\ [PortNext]_portVars => PortInv'
<1> SUFFICES ASSUME PortInv, [PortNext]_portVars
             PROVE  PortInv'
  OBVIOUS
<1>1. CASE PortClock
  BY <1>1, ClockPortInv DEF PortClock
<1>2. CASE PortReset
  BY <1>2, NullAssumption DEF PortReset, Reset, PortInv, TypeOK
<1>3. CASE UNCHANGED portVars
  BY <1>3 DEF portVars, vars, PortInv, TypeOK, get_hash
<1> QED
  BY <1>1, <1>2, <1>3 DEF PortNext

(***************************************************************************)
(* Every entry of the tracker's memory is in the slot its reference folds  *)
(* to, and every answer is the answer to a request (order_id_tracker.sv).  *)
(***************************************************************************)
THEOREM PortInvariant == PortSpec => []PortInv
  BY InitPortInv, NextPortInv, PTL DEF PortSpec

-----------------------------------------------------------------------------
\* After an edge that writes, the slot of w holds it and every other
\* reference is found where it was, unless the slot is that of w.
LEMMA HeldAfterWrite ==
  ASSUME PortInv, NEW w \in OrderIds, NEW d \in Data, WritePort(TRUE, w, d),
         NEW j \in OrderIds
  PROVE  Held(j)' = IF j = w THEN d
                    ELSE IF get_hash(j) = get_hash(w) THEN Null ELSE Held(j)
<1>1. get_hash(j) \in Slots /\ get_hash(w) \in Slots
  BY HashType
<1>2. get_hash(j)' = get_hash(j)
  BY DEF get_hash
<1>3. mem'[get_hash(j)] = IF get_hash(j) = get_hash(w)
                          THEN [order_id |-> w, data |-> d]
                          ELSE mem[get_hash(j)]
  BY <1>1 DEF WritePort, PortInv, TypeOK
<1>4. [order_id |-> w, data |-> d] # Null
  BY NullAssumption DEF Entry
<1> QED
  BY <1>2, <1>3, <1>4 DEF Held, Hit

\* A write is a Put of the map: at most one order is lost, of the bucket of w.
LEMMA WriteIsPut ==
  ASSUME PortInv, NEW w \in OrderIds, NEW d \in Data, WritePort(TRUE, w, d)
  PROVE  Map!Put(w, d)
<1> DEFINE slot == get_hash(w)
           lost == IF mem[slot] # Null THEN mem[slot].order_id ELSE w
<1>1. slot \in Slots
  BY HashType
<1>2. lost \in OrderIds /\ get_hash(lost) = slot
  BY <1>1 DEF PortInv, TypeOK, Entry
<1>3. ASSUME NEW j \in OrderIds, j # w, j # lost, get_hash(j) = slot
      PROVE  Held(j) = Null
  BY <1>3 DEF Held, Hit
<1>4. ASSUME NEW j \in OrderIds
      PROVE  Held(j)' = IF j = w THEN d ELSE IF j = lost THEN Null ELSE Held(j)
  BY <1>2, <1>3, <1>4, HeldAfterWrite
<1> QED
  BY <1>2, <1>4 DEF Map!Put

LEMMA NoWriteKeepsMap ==
  ASSUME NEW w, NEW d, WritePort(FALSE, w, d), NEW j \in OrderIds
  PROVE  Held(j)' = Held(j)
  BY DEF WritePort, Held, Hit, get_hash

\* A read is a Lookup of the map as it was before the edge.
LEMMA ReadIsLookup ==
  ASSUME NEW i \in OrderIds, ReadPort(TRUE, i), request' = i
  PROVE  Map!Lookup(i)
  BY DEF ReadPort, Map!Lookup, Held

LEMMA NoReadIsNoLookup ==
  ASSUME NEW i, ReadPort(FALSE, i), request' = Null
  PROVE  Map!NoLookup
  BY DEF ReadPort, Map!NoLookup

LEMMA ClockIsEdge ==
  ASSUME PortInv, PortClock
  PROVE  Map!Edge
<1> PICK write_en \in BOOLEAN, read_en \in BOOLEAN, w \in OrderIds, i \in OrderIds, d \in Data :
          /\ Clock(write_en, w, d, read_en, i)
          /\ request' = IF read_en THEN i ELSE Null
  BY DEF PortClock
<1>1. WritePort(write_en, w, d) /\ ReadPort(read_en, i)
  BY DEF Clock
<1>2. \/ \E k \in OrderIds, e \in Data : Map!Put(k, e)
      \/ UNCHANGED [k \in OrderIds |-> Held(k)]
  <2>1. CASE write_en
    BY <1>1, <2>1, WriteIsPut
  <2>2. CASE ~write_en
    <3>1. \A j \in OrderIds : Held(j)' = Held(j)
      BY <1>1, <2>2, NoWriteKeepsMap
    <3> QED
      BY <3>1
  <2> QED
    BY <2>1, <2>2
<1>3. \/ \E k \in OrderIds : Map!Lookup(k)
      \/ Map!NoLookup
  <2>1. CASE read_en
    BY <1>1, <2>1, ReadIsLookup
  <2>2. CASE ~read_en
    BY <1>1, <2>2, NoReadIsNoLookup
  <2> QED
    BY <2>1, <2>2
<1> QED
  BY <1>2, <1>3 DEF Map!Edge

LEMMA ResetIsClear ==
  ASSUME PortReset
  PROVE  Map!Clear
<1>1. ASSUME NEW j \in OrderIds
      PROVE  Held(j)' = Null
  <2>1. get_hash(j) \in Slots /\ get_hash(j)' = get_hash(j)
    BY HashType DEF get_hash
  <2> QED
    BY <2>1 DEF PortReset, Reset, Held, Hit
<1> QED
  BY <1>1 DEF PortReset, Reset, Map!Clear, Map!NoLookup

LEMMA PortInitIsMapInit == PortInit => Map!Init
<1> SUFFICES ASSUME PortInit
             PROVE  Map!Init
  OBVIOUS
<1>1. ASSUME NEW j \in OrderIds
      PROVE  Held(j) = Null
  BY HashType DEF PortInit, Init, Held, Hit
<1> QED
  BY <1>1 DEF PortInit, Init, Map!Init

LEMMA PortStepIsMapStep ==
  PortInv /\ [PortNext]_portVars => [Map!Next]_(Map!vars)
<1> SUFFICES ASSUME PortInv, [PortNext]_portVars
             PROVE  [Map!Next]_(Map!vars)
  OBVIOUS
<1>1. CASE PortClock
  BY <1>1, ClockIsEdge DEF Map!Next
<1>2. CASE PortReset
  BY <1>2, ResetIsClear DEF Map!Next
<1>3. CASE UNCHANGED portVars
  BY <1>3 DEF portVars, vars, Map!vars, Held, Hit, get_hash
<1> QED
  BY <1>1, <1>2, <1>3 DEF PortNext

(***************************************************************************)
(* The tracker implements the lossy map: a hit is never a stranger's data, *)
(* and a collision costs one order its place and nothing else              *)
(* (order_id_tracker.sv, both ports and the reset).                        *)
(***************************************************************************)
THEOREM TrackerImplementsMap == PortSpec => ImplementsMap
<1>1. PortSpec => []PortInv
  BY PortInvariant
<1> QED
  BY <1>1, PortInitIsMapInit, PortStepIsMapStep, PTL
     DEF PortSpec, ImplementsMap, Map!Spec
=============================================================================
