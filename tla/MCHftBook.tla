------------------------------ MODULE MCHftBook ------------------------------
(***************************************************************************)
(* TLC instances of the design on a feed: a tracker of two slots, and      *)
(* references of two bits.  A reference with equal bits folds to the first *)
(* slot, one with different bits to the second.                            *)
(***************************************************************************)
EXTENDS HftBook

Ref(bits) == [b \in 0 .. 1 |-> b \in bits]

\* Two orders that compete for a slot.
Contending == { Ref({}), Ref({0, 1}) }

\* Two orders with a slot each.
Apart == { Ref({}), Ref({0}) }
=============================================================================
