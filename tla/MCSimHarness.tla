----------------------------- MODULE MCSimHarness -----------------------------
(***************************************************************************)
(* TLC instance of the simulation harness: the loops at their own lengths, *)
(* and scripts of four messages out of six, each with a price of its own,  *)
(* which make bids outweigh asks, stop the signal and start it again.      *)
(* The limit of sixteen orders is reached by some scripts in the middle of *)
(* a poll and by others while the program spaces the messages, so that the *)
(* polls after it find a strategy that orders no more.  Order references   *)
(* have two bits, and a slot each.                                         *)
(***************************************************************************)
EXTENDS SimHarness

Bid == [b \in 0 .. 1 |-> FALSE]
Ask == [b \in 0 .. 1 |-> b = 0]

MCOrderIds == { Bid, Ask }

Msg(type, locate, side, price, shares, id) ==
    [valid |-> TRUE, type |-> type, locate |-> locate, side |-> side,
     price |-> price, shares |-> shares, id |-> id]

MCTestMessages ==
    { Msg("A", 1, 1, 10, 5, Bid), Msg("A", 1, 0, 20, 1, Ask), Msg("X", 1, 0, 30, 1, Ask),
      Msg("D", 1, 1, 40, 5, Bid), Msg("A", 2, 1, 50, 5, Bid), Msg("E", 1, 1, 60, 1, Bid) }
=============================================================================
