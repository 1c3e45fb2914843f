---------------------------- MODULE OuchWireProofs ----------------------------
(***************************************************************************)
(* Proofs about the OUCH generator and a sink that does not stall, for     *)
(* tokens of any width and any trades: what the sink holds at every point  *)
(* of a frame, and the numbering of the orders it reads.                   *)
(***************************************************************************)
EXTENDS OuchWire, SequenceTheorems, TLAPS

Beats ==
    {Hdr1Beat, Hdr2Beat} \cup { Ouch1Beat(t) : t \in Tokens }
    \cup { Ouch2Beat(t) : t \in Trades } \cup { Ouch3Beat(t) : t \in Trades }

\* The registers of the stream port follow the state.
PortInv ==
    /\ tvalid <=> state \in {"HDR2", "OUCH1", "OUCH2", "OUCH3", "DONE"}
    /\ tvalid => tdata = Frame(InFlight)[Taken[state] + 1]
    /\ tlast <=> state = "DONE"
    /\ tkeep = tvalid

\* The sink holds what has been transferred of the frame.
SinkInv ==
    /\ received \in Seq(Beats)
    /\ Len(received) = Taken[state]
    /\ \A i \in 1 .. Taken[state] : received[i] = Frame(InFlight)[i]

\* The last order read has the token of the generator, or the one before it
\* while another order is on its way.
TokenInv ==
    sent # Null =>
        /\ sent \in Order
        /\ token = IF state = "IDLE" THEN sent.token ELSE (sent.token + 1) % WORD32

WireInv == TypeOK /\ PortInv /\ SinkInv /\ TokenInv

-----------------------------------------------------------------------------
\* The five beats determine the order.
LEMMA FrameInjective ==
  ASSUME NEW o \in Order, NEW p \in Order, Frame(o) = Frame(p)
  PROVE  o = p
<1>1. /\ Frame(o)[3] = Ouch1Beat(o.token) /\ Frame(p)[3] = Ouch1Beat(p.token)
      /\ Frame(o)[4] = Ouch2Beat(o.trade) /\ Frame(p)[4] = Ouch2Beat(p.trade)
      /\ Frame(o)[5] = Ouch3Beat(o.trade) /\ Frame(p)[5] = Ouch3Beat(p.trade)
  BY DEF Frame
<1>2. /\ Ouch1Beat(o.token) = Ouch1Beat(p.token)
      /\ Ouch2Beat(o.trade) = Ouch2Beat(p.trade)
      /\ Ouch3Beat(o.trade) = Ouch3Beat(p.trade)
  BY <1>1
<1>3. /\ o.token = p.token
      /\ o.trade.side = p.trade.side /\ o.trade.qty = p.trade.qty
      /\ o.trade.price = p.trade.price
  BY <1>2 DEF Ouch1Beat, Ouch2Beat, Ouch3Beat
<1>4. o.trade = p.trade
  BY <1>3, TradesAssumption DEF Order
<1> QED
  BY <1>3, <1>4 DEF Order

LEMMA ParseFrame ==
  ASSUME NEW o \in Order
  PROVE  Parse(Frame(o)) = o
<1> DEFINE p == CHOOSE p \in Order : Frame(o) = Frame(p)
<1>1. p \in Order /\ Frame(o) = Frame(p)
  OBVIOUS
<1>2. p = o
  BY <1>1, FrameInjective
<1> QED
  BY <1>2 DEF Parse

LEMMA PrefixIs ==
  ASSUME NEW S, NEW s \in Seq(S), NEW t \in Seq(S), Len(t) <= Len(s),
         \A i \in 1 .. Len(t) : t[i] = s[i]
  PROVE  SubSeq(s, 1, Len(t)) = t
<1> DEFINE n == Len(t)
<1>1. n \in Nat /\ Len(s) \in Nat
  BY LenProperties
<1>2. \A i \in 1 .. n : s[i] \in S
  BY <1>1, ElementOfSeq
<1>3. /\ SubSeq(s, 1, n) \in Seq(S)
      /\ Len(SubSeq(s, 1, n)) = IF 1 <= n THEN n - 1 + 1 ELSE 0
      /\ \A i \in 1 .. n - 1 + 1 : SubSeq(s, 1, n)[i] = s[1 + i - 1]
  <2> HIDE DEF n
  <2> QED
    BY <1>1, <1>2, 1 \in Int, n \in Int, SubSeqProperties
<1>4. Len(SubSeq(s, 1, n)) = n /\ \A i \in 1 .. n : SubSeq(s, 1, n)[i] = t[i]
  <2> HIDE DEF n
  <2>1. \A i \in 1 .. n : 1 + i - 1 = i /\ i \in 1 .. n - 1 + 1
    BY <1>1
  <2>2. \A i \in 1 .. n : SubSeq(s, 1, n)[i] = s[i]
    BY <1>3, <2>1
  <2>3. Len(SubSeq(s, 1, n)) = n
    BY <1>1, <1>3
  <2> QED
    BY <2>2, <2>3 DEF n
<1> QED
  BY <1>3, <1>4, SeqEqual

LEMMA FrameBeats ==
  ASSUME NEW o \in Order
  PROVE  /\ Frame(o) \in Seq(Beats) /\ Len(Frame(o)) = 5
         /\ Frame(o)[1] = Hdr1Beat /\ Frame(o)[2] = Hdr2Beat
         /\ Frame(o)[3] = Ouch1Beat(o.token)
         /\ Frame(o)[4] = Ouch2Beat(o.trade)
         /\ Frame(o)[5] = Ouch3Beat(o.trade)
<1>1. o.token \in Tokens /\ o.trade \in Trades
  BY DEF Order
<1>2. /\ Hdr1Beat \in Beats /\ Hdr2Beat \in Beats /\ Ouch1Beat(o.token) \in Beats
      /\ Ouch2Beat(o.trade) \in Beats /\ Ouch3Beat(o.trade) \in Beats
  BY <1>1, Zenon DEF Beats
<1> QED
  BY <1>2 DEF Frame

LEMMA TakenValues ==
  /\ Taken["IDLE"] = 0 /\ Taken["HDR1"] = 0 /\ Taken["HDR2"] = 0
  /\ Taken["OUCH1"] = 1 /\ Taken["OUCH2"] = 2 /\ Taken["OUCH3"] = 3
  /\ Taken["DONE"] = 4
  BY DEF Taken

LEMMA InFlightIsOrder ==
  TypeOK /\ state # "IDLE" =>
      /\ InFlight \in Order
      /\ InFlight.token = token /\ InFlight.trade = r
  BY DEF TypeOK, InFlight, Order

\* A beat that is transferred is the next one of the frame.
LEMMA TransferExtends ==
  ASSUME WireInv, tvalid
  PROVE  LET beats == Append(received, tdata)
             n     == Taken[state] + 1 IN
         /\ n \in 1 .. 5
         /\ beats \in Seq(Beats) /\ Len(beats) = n
         /\ \A i \in 1 .. n : beats[i] = Frame(InFlight)[i]
<1> DEFINE n == Taken[state] + 1
           f == Frame(InFlight)
<1>1. state # "IDLE" /\ n \in 1 .. 5
  BY TakenValues DEF WireInv, PortInv
<1>2. f \in Seq(Beats) /\ Len(f) = 5
  BY <1>1, InFlightIsOrder, FrameBeats DEF WireInv
<1>3. tdata = f[n] /\ Len(received) = n - 1 /\ received \in Seq(Beats)
      /\ \A i \in 1 .. n - 1 : received[i] = f[i]
  BY <1>1 DEF WireInv, PortInv, SinkInv
<1> HIDE DEF n, f
<1>4. tdata \in Beats
  BY <1>1, <1>2, <1>3, ElementOfSeq
<1>5. /\ Append(received, tdata) \in Seq(Beats)
      /\ Len(Append(received, tdata)) = Len(received) + 1
      /\ \A i \in 1 .. Len(received) : Append(received, tdata)[i] = received[i]
      /\ Append(received, tdata)[Len(received) + 1] = tdata
  BY <1>3, <1>4, AppendProperties
<1>6. Len(received) + 1 = n /\ Len(received) = n - 1
  BY <1>1, <1>3
<1>7. ASSUME NEW i \in 1 .. n
      PROVE  Append(received, tdata)[i] = f[i]
  <2>1. CASE i = n
    BY <2>1, <1>3, <1>5, <1>6
  <2>2. CASE i # n
    <3>1. i \in 1 .. n - 1
      BY <2>2, <1>1
    <3> QED
      BY <3>1, <1>3, <1>5, <1>6
  <2> QED
    BY <2>1, <2>2
<1> QED
  BY <1>1, <1>5, <1>6, <1>7 DEF n, f

-----------------------------------------------------------------------------
LEMMA InitWireInv == WireInit => WireInv
<1> SUFFICES ASSUME WireInit
             PROVE  WireInv
  OBVIOUS
<1>1. TypeOK
  BY TokenAssumption DEF WireInit, Init, TypeOK, Tokens, FsmStates
<1>2. << >> \in Seq(Beats) /\ Len(<< >>) = 0
  OBVIOUS
<1>3. state = "IDLE" /\ received = << >> /\ Taken[state] = 0
  BY TakenValues DEF WireInit, Init
<1>4. PortInv
  BY DEF WireInit, Init, PortInv
<1>5. SinkInv
  BY <1>2, <1>3 DEF SinkInv
<1>6. TokenInv
  BY DEF WireInit, TokenInv
<1> QED
  BY <1>1, <1>4, <1>5, <1>6 DEF WireInv

LEMMA ModRange == \A n \in Nat, m \in Nat \ {0} : n % m \in 0 .. m - 1
  OBVIOUS

LEMMA NextToken == \A t \in Tokens : (t + 1) % WORD32 \in Tokens
  BY TokenAssumption, ModRange DEF Tokens

LEMMA TypeStep ==
  ASSUME TypeOK, NEW trigger \in BOOLEAN, NEW tready \in BOOLEAN, NEW trade \in Trades,
         Clock(trigger, trade, tready)
  PROVE  TypeOK'
<1>1. token' \in Tokens
  BY NextToken DEF TypeOK, Clock, Accept, Wait, Hdr1, Hdr2, Ouch1, Ouch2, Ouch3, Beat, Done
<1> QED
  BY <1>1 DEF TypeOK, FsmStates, Clock, Accept, Wait, Hdr1, Hdr2, Ouch1, Ouch2, Ouch3,
              Beat, Done

\* Between two frames nothing is transferred.
LEMMA IdleStep ==
  ASSUME WireInv, NEW trigger \in BOOLEAN, NEW tready \in BOOLEAN, NEW trade \in Trades,
         Accept(trigger, trade, tready) \/ Wait(trigger, tready), Sink(tready)
  PROVE  WireInv'
<1>1. TypeOK'
  BY TypeStep DEF WireInv, Clock
<1>2. state = "IDLE" /\ state' \in {"IDLE", "HDR1"} /\ tvalid' = FALSE
      /\ tlast' = FALSE /\ tkeep' = FALSE
  BY DEF Accept, Wait
<1>3. received' = received /\ sent' = sent
  BY <1>2 DEF Sink, WireInv, PortInv
<1>4. Taken[state] = 0 /\ Taken[state'] = 0
  BY <1>2, TakenValues
<1>5. SinkInv'
  <2>1. Taken'[state'] = Taken[state']
    BY DEF Taken
  <2> QED
    BY <1>3, <1>4, <2>1 DEF WireInv, SinkInv, Beats, Hdr1Beat, Hdr2Beat, Ouch1Beat,
                            Ouch2Beat, Ouch3Beat, Tokens
<1>6. TokenInv'
  BY <1>2, <1>3 DEF WireInv, TokenInv, Accept, Wait, Order, Tokens
<1> QED
  BY <1>1, <1>2, <1>5, <1>6 DEF WireInv, PortInv

\* Inside a frame the order in flight stays what it is, and every edge
\* offers the next beat.
LEMMA BeatStep ==
  ASSUME WireInv, NEW tready \in BOOLEAN, tvalid => tready, Sink(tready),
         Hdr1 \/ Hdr2 \/ Ouch1 \/ Ouch2 \/ Ouch3
  PROVE  WireInv'
<1>1. TypeOK'
  BY DEF WireInv, TypeOK, FsmStates, Hdr1, Hdr2, Ouch1, Ouch2, Ouch3, Beat
<1>2. /\ state # "IDLE" /\ state' # "IDLE"
      /\ r' = r /\ token' = token /\ sent' = sent
      /\ tlast = FALSE /\ tvalid' = TRUE /\ tkeep' = TRUE
  BY DEF WireInv, TypeOK, PortInv, Hdr1, Hdr2, Ouch1, Ouch2, Ouch3, Beat, Sink
<1>3. InFlight' = InFlight /\ InFlight \in Order
  BY <1>2, InFlightIsOrder DEF InFlight, WireInv
<1>4. Frame(InFlight)' = Frame(InFlight)
  BY <1>3 DEF Frame, Hdr1Beat, Hdr2Beat, Ouch1Beat, Ouch2Beat, Ouch3Beat
<1>5. /\ Taken[state'] = Taken[state] + (IF tvalid THEN 1 ELSE 0)
      /\ tdata' = Frame(InFlight)[Taken[state'] + 1]
      /\ tlast' <=> state' = "DONE"
      /\ state' \in {"HDR2", "OUCH1", "OUCH2", "OUCH3", "DONE"}
  <2>1. /\ Frame(InFlight)[1] = Hdr1Beat /\ Frame(InFlight)[2] = Hdr2Beat
        /\ Frame(InFlight)[3] = Ouch1Beat(token)
        /\ Frame(InFlight)[4] = Ouch2Beat(r) /\ Frame(InFlight)[5] = Ouch3Beat(r)
    BY <1>2, <1>3, InFlightIsOrder, FrameBeats DEF WireInv
  <2>2. tvalid <=> state \in {"HDR2", "OUCH1", "OUCH2", "OUCH3", "DONE"}
    BY DEF WireInv, PortInv
  <2>3. CASE Hdr1
    BY <1>2, <2>1, <2>2, <2>3, TakenValues DEF Hdr1, Beat
  <2>4. CASE Hdr2
    BY <1>2, <2>1, <2>2, <2>4, TakenValues DEF Hdr2, Beat
  <2>5. CASE Ouch1
    BY <1>2, <2>1, <2>2, <2>5, TakenValues DEF Ouch1, Beat
  <2>6. CASE Ouch2
    BY <1>2, <2>1, <2>2, <2>6, TakenValues DEF Ouch2, Beat
  <2>7. CASE Ouch3
    BY <1>2, <2>1, <2>2, <2>7, TakenValues DEF Ouch3, Beat
  <2> QED
    BY <2>3, <2>4, <2>5, <2>6, <2>7
<1>6. /\ received' \in Seq(Beats)
      /\ Len(received') = Taken[state']
      /\ \A i \in 1 .. Taken[state'] : received'[i] = Frame(InFlight)[i]
  <2>1. CASE tvalid
    <3>1. received' = Append(received, tdata)
      BY <2>1, <1>2 DEF Sink
    <3> QED
      BY <3>1, <2>1, <1>5, TransferExtends
  <2>2. CASE ~tvalid
    <3>1. received' = received
      BY <2>2 DEF Sink
    <3>2. Taken[state'] = Taken[state]
      BY <2>2, <1>5, TakenValues DEF WireInv, TypeOK, FsmStates
    <3> QED
      BY <3>1, <3>2 DEF WireInv, SinkInv
  <2> QED
    BY <2>1, <2>2
<1>7. Taken' = Taken /\ Beats' = Beats
  BY DEF Taken, Beats, Hdr1Beat, Hdr2Beat, Ouch1Beat, Ouch2Beat, Ouch3Beat, Tokens
<1>8. PortInv' /\ SinkInv'
  BY <1>2, <1>4, <1>5, <1>6, <1>7 DEF PortInv, SinkInv
<1>9. TokenInv'
  BY <1>2 DEF WireInv, TokenInv, Order, Tokens
<1> QED
  BY <1>1, <1>8, <1>9 DEF WireInv

\* With the last beat the sink has the frame of the order in flight.
LEMMA DoneReads ==
  ASSUME WireInv, Done, Sink(TRUE)
  PROVE  received' = << >> /\ sent' = InFlight /\ InFlight \in Order
<1>1. tvalid /\ tlast /\ state = "DONE"
  BY DEF WireInv, PortInv, Done
<1>2. InFlight \in Order
  BY <1>1, InFlightIsOrder DEF WireInv
<1>3. Append(received, tdata) = Frame(InFlight)
  <2> DEFINE beats == Append(received, tdata)
             f     == Frame(InFlight)
  <2>1. f \in Seq(Beats) /\ Len(f) = 5
    BY <1>2, FrameBeats
  <2>2. Taken[state] + 1 = 5
    BY <1>1, TakenValues
  <2>3. /\ beats \in Seq(Beats) /\ Len(beats) = 5
        /\ \A i \in 1 .. 5 : beats[i] = f[i]
    BY <1>1, <2>2, TransferExtends
  <2> HIDE DEF beats, f
  <2>4. beats = f
    BY <2>1, <2>3, SeqEqual
  <2> QED
    BY <2>4 DEF beats, f
<1>4. received' = << >> /\ sent' = Parse(Append(received, tdata))
  BY <1>1 DEF Sink
<1> QED
  BY <1>2, <1>3, <1>4, ParseFrame

LEMMA DoneStep ==
  ASSUME WireInv, Done, Sink(TRUE)
  PROVE  WireInv'
<1>1. TypeOK'
  BY DEF WireInv, TypeOK, FsmStates, Done
<1>2. received' = << >> /\ sent' = InFlight /\ InFlight \in Order
  BY DoneReads
<1>3. state' = "IDLE" /\ Taken'[state'] = 0
  BY TakenValues DEF Done, Taken
<1>4. << >> \in Seq(Beats') /\ Len(<< >>) = 0
  OBVIOUS
<1>5. PortInv'
  BY <1>3 DEF PortInv, Done
<1>6. SinkInv'
  BY <1>2, <1>3, <1>4 DEF SinkInv
<1>7. InFlight.token = token /\ token' = token
  BY InFlightIsOrder DEF WireInv, Done
<1>8. TokenInv'
  BY <1>2, <1>3, <1>7 DEF TokenInv, Order, Tokens
<1> QED
  BY <1>1, <1>5, <1>6, <1>8 DEF WireInv

LEMMA NextWireInv ==
  ~SinkStalls => (WireInv /\ [WireNext]_wireVars => WireInv')
<1> SUFFICES ASSUME ~SinkStalls, WireInv, [WireNext]_wireVars
             PROVE  WireInv'
  OBVIOUS
<1>1. CASE WireClock
  <2> PICK trigger \in BOOLEAN, tready \in BOOLEAN, trade \in Trades :
            /\ tvalid => tready
            /\ Clock(trigger, trade, tready)
            /\ Sink(tready)
    BY <1>1 DEF WireClock
  <2>1. CASE Accept(trigger, trade, tready) \/ Wait(trigger, tready)
    BY <2>1, IdleStep
  <2>2. CASE Hdr1 \/ Hdr2 \/ Ouch1 \/ Ouch2 \/ Ouch3
    BY <2>2, BeatStep
  <2>3. CASE Done
    <3>1. tready = TRUE
      BY <2>3 DEF WireInv, PortInv, Done
    <3> QED
      BY <2>3, <3>1, DoneStep
  <2> QED
    BY <2>1, <2>2, <2>3 DEF Clock
<1>2. CASE WireReset
  <2>1. TypeOK'
    BY <1>2, TokenAssumption DEF WireReset, Reset, WireInv, TypeOK, FsmStates, Tokens
  <2>2. << >> \in Seq(Beats') /\ Len(<< >>) = 0 /\ Taken'["IDLE"] = 0
    BY TakenValues DEF Taken
  <2>3. PortInv'
    BY <1>2 DEF WireReset, Reset, PortInv
  <2>4. SinkInv'
    BY <1>2, <2>2 DEF WireReset, Reset, SinkInv
  <2>5. TokenInv'
    BY <1>2 DEF WireReset, TokenInv
  <2> QED
    BY <2>1, <2>3, <2>4, <2>5 DEF WireInv
<1>3. CASE UNCHANGED wireVars
  BY <1>3 DEF wireVars, vars, WireInv, TypeOK, PortInv, SinkInv, TokenInv, InFlight, Taken,
              Frame, Beats, Hdr1Beat, Hdr2Beat, Ouch1Beat, Ouch2Beat, Ouch3Beat, Order,
              Tokens, FsmStates
<1> QED
  BY <1>1, <1>2, <1>3 DEF WireNext

LEMMA WireInvariant == ASSUME ~SinkStalls PROVE WireSpec => []WireInv
<1>1. WireInv /\ [WireNext]_wireVars => WireInv'
  BY NextWireInv
<1> QED
  BY <1>1, InitWireInv, PTL DEF WireSpec

-----------------------------------------------------------------------------
(***************************************************************************)
(* A sink that does not stall holds, at every edge, what has been sent of  *)
(* the frame of one accepted order, and the port offers its next beat      *)
(* (states HDR1 to DONE of ouch_parket_generator.sv).                      *)
(***************************************************************************)
THEOREM FramesAreWhole == ASSUME ~SinkStalls PROVE WireSpec => []FrameInProgress
<1>1. WireInv => FrameInProgress
  <2> SUFFICES ASSUME WireInv
               PROVE  FrameInProgress
    OBVIOUS
  <2>1. CASE state = "IDLE"
    <3>1. received = << >>
      BY <2>1, TakenValues DEF WireInv, SinkInv
    <3> QED
      BY <2>1, <3>1 DEF FrameInProgress, WireInv, PortInv
  <2>2. CASE state # "IDLE"
    <3> DEFINE f == Frame(InFlight)
    <3>1. f \in Seq(Beats) /\ Len(f) = 5
      BY <2>2, InFlightIsOrder, FrameBeats DEF WireInv
    <3>2. /\ received \in Seq(Beats) /\ Len(received) = Taken[state]
          /\ \A i \in 1 .. Len(received) : received[i] = f[i]
      BY DEF WireInv, SinkInv
    <3>3. Taken[state] <= 5
      BY TakenValues DEF WireInv, TypeOK, FsmStates
    <3>4. SubSeq(f, 1, Len(received)) = received
      <4> HIDE DEF f
      <4> QED
        BY <3>1, <3>2, <3>3, PrefixIs
    <3>5. received = SubSeq(f, 1, Taken[state])
      BY <3>2, <3>4
    <3> QED
      BY <2>2, <3>5 DEF FrameInProgress, WireInv, PortInv, f
  <2> QED
    BY <2>1, <2>2
<1> QED
  BY <1>1, WireInvariant, PTL

(***************************************************************************)
(* Such a sink reads no token twice and misses none: the orders of two     *)
(* frames in a row are numbered in sequence, unless a reset comes between. *)
(***************************************************************************)
THEOREM TokensAreInSequence == ASSUME ~SinkStalls PROVE WireSpec => TokensConsecutive
<1>1. WireInv /\ [WireNext]_wireVars =>
          [ sent' # sent /\ sent # Null /\ sent' # Null
                => sent'.token = (sent.token + 1) % WORD32 ]_wireVars
  <2> SUFFICES ASSUME WireInv, WireNext, sent' # sent, sent # Null, sent' # Null
               PROVE  sent'.token = (sent.token + 1) % WORD32
    BY DEF wireVars
  <2>1. WireClock
    BY DEF WireNext, WireReset
  <2> PICK trigger \in BOOLEAN, tready \in BOOLEAN, trade \in Trades :
            /\ tvalid => tready
            /\ Clock(trigger, trade, tready)
            /\ Sink(tready)
    BY <2>1 DEF WireClock
  <2>2. state = "DONE" /\ tready = TRUE
    BY DEF Sink, WireInv, PortInv
  <2>3. Done
    BY <2>2 DEF Clock, Accept, Wait, Hdr1, Hdr2, Ouch1, Ouch2, Ouch3, Beat
  <2>4. sent' = InFlight /\ InFlight.token = token
    BY <2>2, <2>3, DoneReads, InFlightIsOrder DEF WireInv
  <2> QED
    BY <2>2, <2>4 DEF WireInv, TokenInv
<1> QED
  BY <1>1, WireInvariant, PTL DEF WireSpec, TokensConsecutive

-----------------------------------------------------------------------------
\* An edge at which the generator takes a trigger is the channel's Accept.
LEMMA AcceptIsAccept ==
  ASSUME WireInv, NEW tready \in BOOLEAN, NEW trade \in Trades,
         Accept(TRUE, trade, tready), Sink(tready)
  PROVE  Channel!Accept(trade)
<1>1. InFlight = Null /\ InFlight' = [token |-> token', trade |-> trade]
  BY DEF Accept, InFlight
<1>2. sent' = sent
  BY DEF Accept, Sink, WireInv, PortInv
<1> QED
  BY <1>1, <1>2 DEF Channel!Accept, Accept

LEMMA WireStepIsChannelStep ==
  ~SinkStalls => (WireInv /\ [WireNext]_wireVars => [Channel!Next]_(Channel!vars))
<1> SUFFICES ASSUME ~SinkStalls, WireInv, [WireNext]_wireVars
             PROVE  [Channel!Next]_(Channel!vars)
  OBVIOUS
<1>1. CASE WireClock
  <2> PICK trigger \in BOOLEAN, tready \in BOOLEAN, trade \in Trades :
            /\ tvalid => tready
            /\ Clock(trigger, trade, tready)
            /\ Sink(tready)
    BY <1>1 DEF WireClock
  <2>1. CASE Accept(trigger, trade, tready)
    <3>1. trigger = TRUE
      BY <2>1 DEF Accept
    <3> QED
      BY <2>1, <3>1, AcceptIsAccept DEF Channel!Next
  <2>2. CASE Wait(trigger, tready)
    BY <2>2 DEF Wait, Sink, WireInv, PortInv, InFlight, Channel!vars
  <2>3. CASE Hdr1 \/ Hdr2 \/ Ouch1 \/ Ouch2 \/ Ouch3
    <3>1. /\ state # "IDLE" /\ state' # "IDLE"
          /\ r' = r /\ token' = token /\ tlast = FALSE
      BY <2>3 DEF WireInv, PortInv, Hdr1, Hdr2, Ouch1, Ouch2, Ouch3, Beat
    <3>2. InFlight' = InFlight /\ sent' = sent
      BY <3>1 DEF InFlight, Sink
    <3> QED
      BY <3>1, <3>2 DEF Channel!vars
  <2>4. CASE Done
    <3>1. tready = TRUE
      BY <2>4 DEF WireInv, PortInv, Done
    <3>2. sent' = InFlight /\ InFlight \in Order
      BY <2>4, <3>1, DoneReads
    <3>3. InFlight' = Null /\ token' = token
      BY <2>4 DEF Done, InFlight
    <3> QED
      BY <3>2, <3>3, NoOrderAssumption DEF Channel!Next, Channel!Transmit
  <2> QED
    BY <2>1, <2>2, <2>3, <2>4 DEF Clock
<1>2. CASE WireReset
  BY <1>2 DEF WireReset, Reset, InFlight, Channel!Next, Channel!Reset
<1>3. CASE UNCHANGED wireVars
  BY <1>3 DEF wireVars, vars, InFlight, Channel!vars
<1> QED
  BY <1>1, <1>2, <1>3 DEF WireNext

(***************************************************************************)
(* The generator and its wire implement the one-place channel, but for its *)
(* promise that an accepted order leaves in the end, which rests on        *)
(* fairness: an order is accepted only when none is under way, and it is   *)
(* that order, once and with its token, which the sink reads next.         *)
(***************************************************************************)
THEOREM WireIsChannel ==
  ASSUME ~SinkStalls
  PROVE  WireSpec => Channel!Init /\ [][Channel!Next]_(Channel!vars)
<1>1. WireInit => Channel!Init
  BY DEF WireInit, Init, InFlight, Channel!Init
<1>2. WireInv /\ [WireNext]_wireVars => [Channel!Next]_(Channel!vars)
  BY WireStepIsChannelStep
<1> QED
  BY <1>1, <1>2, WireInvariant, PTL DEF WireSpec
=============================================================================
