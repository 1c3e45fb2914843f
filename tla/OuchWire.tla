------------------------------- MODULE OuchWire -------------------------------
(***************************************************************************)
(* The OUCH packet generator with any triggers on its input and a sink at  *)
(* the far end of its stream port.  The sink follows the AXI-Stream rule:  *)
(* a beat is transferred at an edge with tvalid and tready both high, and  *)
(* tlast ends a frame.  It reads an order out of each frame.               *)
(***************************************************************************)
EXTENDS OuchGenerator, Sequences

CONSTANTS
    SinkStalls,   \* may the sink lower tready while a beat is offered?
    Null,         \* no order yet
    Garbled       \* what the sink makes of beats that are not a frame

ASSUME SinkAssumption == SinkStalls \in BOOLEAN

\* The three ports of a trade.
ASSUME TradesAssumption == Trades \subseteq [side : {0, 1}, price : Nat, qty : Nat]

VARIABLES
    received,     \* the beats transferred since the last tlast
    sent          \* the order read from the last frame, Garbled, or Null

wireVars == <<vars, received, sent>>

Order == [token : Tokens, trade : Trades]

ASSUME NoOrderAssumption == Null \notin Order

Frame(o) ==
    << Hdr1Beat, Hdr2Beat, Ouch1Beat(o.token),
       Ouch2Beat(o.trade), Ouch3Beat(o.trade) >>

\* The order a sequence of beats carries.
Parse(beats) ==
    IF \E o \in Order : beats = Frame(o)
    THEN CHOOSE o \in Order : beats = Frame(o)
    ELSE Garbled

Sink(tready) ==
    LET beats == Append(received, tdata) IN
    IF ~(tvalid /\ tready) THEN UNCHANGED <<received, sent>>
    ELSE IF tlast          THEN received' = << >> /\ sent' = Parse(beats)
    ELSE                        received' = beats /\ UNCHANGED sent

WireInit == Init /\ received = << >> /\ sent = Null

WireClock ==
    \E trigger, tready \in BOOLEAN, trade \in Trades :
        /\ tvalid /\ ~SinkStalls => tready
        /\ Clock(trigger, trade, tready)
        /\ Sink(tready)

\* The reset line resets both ends.
WireReset == Reset /\ received' = << >> /\ sent' = Null

WireNext == WireClock \/ WireReset

\* The clock never stops; nothing else is promised.
WireSpec == WireInit /\ [][WireNext]_wireVars /\ WF_wireVars(WireClock)

-----------------------------------------------------------------------------
\* The order being sent, or Null.
InFlight == IF state = "IDLE" THEN Null ELSE [token |-> token, trade |-> r]

\* How many beats of the frame the sink has, and whether one is offered.
Taken == [ IDLE |-> 0, HDR1 |-> 0, HDR2 |-> 0, OUCH1 |-> 1,
           OUCH2 |-> 2, OUCH3 |-> 3, DONE |-> 4 ]

(***************************************************************************)
(* At every point of a frame the sink holds a prefix of the frame of the   *)
(* order in flight, the beat on the port is the next one, and tlast marks  *)
(* the fifth beat and no other: neither a new trigger nor the token        *)
(* register can change an order once its frame has begun (states HDR1 to   *)
(* DONE).  Requires a sink that does not stall.                            *)
(***************************************************************************)
FrameInProgress ==
    /\ TypeOK
    /\ received = IF state = "IDLE" THEN << >>
                  ELSE SubSeq(Frame(InFlight), 1, Taken[state])
    /\ tvalid <=> state \in {"HDR2", "OUCH1", "OUCH2", "OUCH3", "DONE"}
    /\ tvalid => tdata = Frame(InFlight)[Taken[state] + 1]
    /\ tlast <=> state = "DONE"
    /\ tkeep = tvalid

\* The sink never sees beats that are not the frame of an order: README.md
\* says of the streams "Back-pressure propagates upstream so no data is
\* lost under burst conditions".
NoTornFrame == sent # Garbled

\* Two orders the sink reads in a row, with no reset between them, have
\* consecutive tokens: none is repeated and none is skipped.
TokensConsecutive ==
    [][ sent' # sent /\ sent # Null /\ sent' # Null
            => sent'.token = (sent.token + 1) % WORD32 ]_wireVars

Channel == INSTANCE OrderChannel WITH pending <- InFlight

\* The generator and its wire implement the one-place channel: the order
\* read by the sink is the one that was accepted, with its token, once, and
\* every order accepted is sent unless a reset comes first.
ImplementsChannel == Channel!Spec
=============================================================================
