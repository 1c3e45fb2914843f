---------------------------- MODULE MCTrackerPort ----------------------------
(***************************************************************************)
(* TLC instance of the tracker: two slots, references of three bits. Three  *)
(* of the references share a slot, two of them through the fold (both low  *)
(* bits set or both clear) and one through the bit the fold ignores; the   *)
(* fourth has the other slot to itself.                                    *)
(***************************************************************************)
EXTENDS TrackerPort

\* The reference whose set bits are those of a set.
Ref(bits) == [b \in 0 .. 2 |-> b \in bits]

MCOrderIds == { Ref({}), Ref({0, 1}), Ref({2}), Ref({0}) }
=============================================================================
