----------------------------- MODULE MCParserFeed -----------------------------
(***************************************************************************)
(* TLC instance of the parser: messages with and without a symbol, at      *)
(* their own lengths; one of a type without a class; one of a single byte, *)
(* and one too long for the low byte of the length; and an Add Order cut   *)
(* short in the middle of its symbol.  A payload byte tells its position.  *)
(***************************************************************************)
EXTENDS ParserFeed

Payload(type, length) == [k \in 1 .. length |-> IF k = 1 THEN type ELSE (99 + k) % 256]

MCPayloads ==
    { Payload(Char.A, 36), Payload(Char.A, 28), Payload(Char.D, 19),
      Payload(Char.R, 39), Payload(Char.L, 26), Payload(Char.S, 1), Payload(Char.U, 258) }
=============================================================================
