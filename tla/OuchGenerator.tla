---------------------------- MODULE OuchGenerator ----------------------------
(***************************************************************************)
(* ouch_parket_generator.sv: the state machine that turns a trade trigger  *)
(* into a frame of five beats on an AXI-Stream port.  It listens to its    *)
(* trigger, and to tready, in IDLE only; from then on it puts out one beat *)
(* a cycle, whatever the other side does.                                  *)
(*                                                                         *)
(* A beat is the tuple of what it carries: the constant headers and the    *)
(* padding of the beats are named by the first component.                  *)
(***************************************************************************)
EXTENDS Integers

CONSTANTS
    WORD32,        \* 2^32: the range of token, prices and quantities
    TOKEN_RESET,   \* the value of token after reset (5000 in the source)
    Trades         \* the trades that can be asked for: [side, price, qty]

ASSUME TokenAssumption ==
    /\ WORD32 \in Nat \ {0}
    /\ TOKEN_RESET \in 0 .. WORD32 - 1

FsmStates == {"IDLE", "HDR1", "HDR2", "OUCH1", "OUCH2", "OUCH3", "DONE"}

VARIABLES
    state,    \* the state register
    r,        \* r_side, r_price, r_qty: the trade being sent
    token,    \* the order token of the last accepted trade
    tvalid,   \* the stream port: a beat is offered
    tdata,    \* ... its data
    tkeep,    \* ... its byte enables: all (TRUE) or none
    tlast     \* ... and the mark of the frame's last beat

vars == <<state, r, token, tvalid, tdata, tkeep, tlast>>

Tokens == 0 .. WORD32 - 1

\* The data of the five beats; "ZERO" is the reset value of tdata.
ZeroBeat == <<"ZERO">>
Hdr1Beat == <<"HDR1">>
Hdr2Beat == <<"HDR2">>
Ouch1Beat(t) == <<"OUCH1", t>>
Ouch2Beat(trade) == <<"OUCH2", trade.side, trade.qty>>
Ouch3Beat(trade) == <<"OUCH3", trade.price>>

TypeOK ==
    /\ state \in FsmStates
    /\ r \in Trades
    /\ token \in Tokens
    /\ tvalid \in BOOLEAN /\ tkeep \in BOOLEAN /\ tlast \in BOOLEAN

\* After reset the r_* registers still hold what they held: at power-up,
\* anything.
Init ==
    /\ state = "IDLE"
    /\ r \in Trades
    /\ token = TOKEN_RESET
    /\ tvalid = FALSE /\ tdata = ZeroBeat /\ tkeep = FALSE /\ tlast = FALSE

Reset ==
    /\ state' = "IDLE"
    /\ token' = TOKEN_RESET
    /\ tvalid' = FALSE /\ tdata' = ZeroBeat /\ tkeep' = FALSE /\ tlast' = FALSE
    /\ UNCHANGED r

\* A fault: the token is not advanced.
AcceptSameToken(trigger, trade, tready) ==
    /\ state = "IDLE"
    /\ trigger /\ tready
    /\ r' = trade
    /\ state' = "HDR1"
    /\ tvalid' = FALSE /\ tkeep' = FALSE /\ tlast' = FALSE
    /\ UNCHANGED <<token, tdata>>

\* A fault: a trigger during a frame is latched over the trade being sent.
AcceptAnytime(trigger, trade, tready) ==
    /\ state \in {"IDLE", "OUCH2"}
    /\ trigger /\ tready
    /\ r' = trade
    /\ token' = (token + 1) % WORD32
    /\ state' = IF state = "IDLE" THEN "HDR1" ELSE "OUCH3"
    /\ tvalid' = (state # "IDLE") /\ tkeep' = (state # "IDLE") /\ tlast' = FALSE
    /\ tdata' = IF state = "IDLE" THEN tdata ELSE Ouch2Beat(trade)

\* Take the trigger: latch the trade and give it the next token.
Accept(trigger, trade, tready) ==
    /\ state = "IDLE"
    /\ trigger /\ tready
    /\ r' = trade
    /\ token' = (token + 1) % WORD32
    /\ state' = "HDR1"
    /\ tvalid' = FALSE /\ tkeep' = FALSE /\ tlast' = FALSE
    /\ UNCHANGED tdata

\* Without a trigger, or with the other side not ready, nothing is latched.
Wait(trigger, tready) ==
    /\ state = "IDLE"
    /\ ~(trigger /\ tready)
    /\ tvalid' = FALSE /\ tkeep' = FALSE /\ tlast' = FALSE
    /\ UNCHANGED <<state, r, token, tdata>>

\* One beat: leave state s for the state next, offering the data.
Beat(s, next, data) ==
    /\ state = s
    /\ state' = next
    /\ tdata' = data
    /\ tkeep' = TRUE
    /\ UNCHANGED <<r, token>>

Hdr1 == Beat("HDR1", "HDR2", Hdr1Beat) /\ tvalid' = TRUE /\ UNCHANGED tlast

Hdr2 == Beat("HDR2", "OUCH1", Hdr2Beat) /\ UNCHANGED <<tvalid, tlast>>

Ouch1 == Beat("OUCH1", "OUCH2", Ouch1Beat(token)) /\ UNCHANGED <<tvalid, tlast>>

Ouch2 == Beat("OUCH2", "OUCH3", Ouch2Beat(r)) /\ UNCHANGED <<tvalid, tlast>>

\* A fault: the last beat is not marked.
Ouch3Unmarked == Beat("OUCH3", "DONE", Ouch3Beat(r)) /\ UNCHANGED <<tvalid, tlast>>

Ouch3 == Beat("OUCH3", "DONE", Ouch3Beat(r)) /\ tlast' = TRUE /\ UNCHANGED tvalid

Done ==
    /\ state = "DONE"
    /\ state' = "IDLE"
    /\ tvalid' = FALSE /\ tkeep' = FALSE /\ tlast' = FALSE
    /\ UNCHANGED <<r, token, tdata>>

Clock(trigger, trade, tready) ==
    \/ Accept(trigger, trade, tready)
    \/ Wait(trigger, tready)
    \/ Hdr1 \/ Hdr2 \/ Ouch1 \/ Ouch2 \/ Ouch3
    \/ Done
=============================================================================
