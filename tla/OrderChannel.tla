----------------------------- MODULE OrderChannel -----------------------------
(***************************************************************************)
(* What the OUCH packet generator promises: a channel with room for one    *)
(* order.  An order is accepted only when the channel is empty, under the  *)
(* next token; it then leaves, whole and once, before another is accepted. *)
(* A reset loses the order in the channel.                                 *)
(***************************************************************************)
EXTENDS Integers

CONSTANTS
    WORD32,        \* the range of tokens
    TOKEN_RESET,   \* the token before the first order
    Trades,        \* the trades that can be asked for
    Null           \* no order

VARIABLES
    token,     \* the token of the last order accepted
    pending,   \* the order in the channel, or Null
    sent       \* the last order that left it, or Null

vars == <<token, pending, sent>>

Init == token = TOKEN_RESET /\ pending = Null /\ sent = Null

Accept(trade) ==
    /\ pending = Null
    /\ token' = (token + 1) % WORD32
    /\ pending' = [token |-> token', trade |-> trade]
    /\ UNCHANGED sent

Transmit ==
    /\ pending # Null
    /\ sent' = pending
    /\ pending' = Null
    /\ UNCHANGED token

Reset == token' = TOKEN_RESET /\ pending' = Null /\ sent' = Null

Next == (\E trade \in Trades : Accept(trade)) \/ Transmit \/ Reset

\* An accepted order is eventually transmitted, unless a reset loses it.
Spec == Init /\ [][Next]_vars /\ WF_vars(Transmit)
=============================================================================
