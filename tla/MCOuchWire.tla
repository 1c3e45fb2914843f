------------------------------ MODULE MCOuchWire ------------------------------
(***************************************************************************)
(* TLC instance of the OUCH generator: tokens of two bits, so that they    *)
(* wrap around; trades that differ in every field.                         *)
(***************************************************************************)
EXTENDS OuchWire

MCTrades == [side : {0, 1}, price : {10, 20}, qty : {100}]
=============================================================================
