------------------------------- MODULE MCHftTop -------------------------------
(***************************************************************************)
(* TLC instance of the whole design: one order reference, one share an     *)
(* order, a limit of three orders, depths that wrap at four.               *)
(***************************************************************************)
EXTENDS HftTop

MCOrderIds == { [b \in 0 .. 1 |-> FALSE] }
=============================================================================
