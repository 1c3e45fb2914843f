------------------------------ MODULE ParserFeed ------------------------------
(***************************************************************************)
(* The stream parser and a source of frames, as hft_tb.cpp feeds it from a *)
(* file: the bytes of one frame after those of another, without a gap      *)
(* between them, with idle cycles anywhere.                                *)
(***************************************************************************)
EXTENDS ItchStreamParser

CONSTANTS
    Payloads,   \* the payloads that occur: sequences of bytes
    Null        \* no frame, no message

ASSUME PayloadAssumption ==
    \A p \in Payloads : p # Null /\ p \in Seq(Byte) /\ Len(p) \in 1 .. WORD16 - 1

VARIABLES
    frame,   \* the payload of the frame on its way, or Null
    taken    \* how many bytes of that frame the parser has taken

feedVars == <<vars, frame, taken>>

\* The bytes of a frame.
Framed(payload) == <<Len(payload) \div 256, Len(payload) % 256>> \o payload

FeedInit == Init /\ frame = Null /\ taken = 0

\* The next byte of a frame, which the parser takes at once.
FeedByte(payload) ==
    /\ Clock(TRUE, Framed(payload)[taken + 1])
    /\ IF taken + 1 = Len(Framed(payload))
       THEN frame' = Null /\ taken' = 0
       ELSE frame' = payload /\ taken' = taken + 1

BeginFrame == frame = Null /\ \E p \in Payloads : FeedByte(p)

ContinueFrame == frame # Null /\ FeedByte(frame)

Pause == Clock(FALSE, 0) /\ UNCHANGED <<frame, taken>>

FeedReset == Reset /\ frame' = Null /\ taken' = 0

FeedNext == BeginFrame \/ ContinueFrame \/ Pause \/ FeedReset

\* A file is fed to its end; when a frame begins is up to the source.
FeedSpec == FeedInit /\ [][FeedNext]_feedVars /\ WF_feedVars(ContinueFrame)

-----------------------------------------------------------------------------
\* Byte number k of a payload, counted from zero; zero beyond its end.
At(payload, k) == IF k < Len(payload) THEN payload[k + 1] ELSE 0

Symbol(payload) ==
    IF has_symbol_field(payload[1])
    THEN [k \in 0 .. 7 |-> At(payload, symbol_offset(payload[1]) + k)]
    ELSE ZeroSymbol

\* What is to be reported of a payload.
MessageOf(payload) ==
    [type |-> payload[1], class |-> Strobe(payload[1]), symbol |-> Symbol(payload)]

Report ==
    IF msg_valid THEN [type |-> msg_type, class |-> strobe, symbol |-> stock_symbol]
    ELSE Null

Stream == INSTANCE MessageStream WITH
    Frames <- Payloads,
    Message <- MessageOf,
    report <- Report,
    total <- total_messages

(***************************************************************************)
(* The parser never loses the framing: every frame is reported once, with  *)
(* its own type, class and symbol, whatever came before it and wherever    *)
(* the stream paused; a frame cut short of its symbol is reported with     *)
(* zeros and not with bytes of its predecessor; and every frame that       *)
(* comes in is reported in the end.  Frames of length zero are excluded.   *)
(***************************************************************************)
ImplementsStream == Stream!Spec

(***************************************************************************)
(* The parser is in step with its source: it waits for a length exactly    *)
(* when no payload is on its way, it knows the length and the type of the  *)
(* payload it is in, and it holds the part of the symbol that has passed   *)
(* and nothing of an earlier frame (states READ_LEN_HI to READ_PAYLOAD).   *)
(***************************************************************************)
InStep ==
    /\ TypeOK
    /\ frame = Null <=> state = "READ_LEN_HI"
    /\ frame # Null => taken \in 1 .. Len(frame) + 1
    /\ state = "READ_LEN_LO" <=> frame # Null /\ taken = 1
    /\ state = "READ_LEN_LO" => message_length \div 256 = Len(frame) \div 256
    /\ state = "READ_PAYLOAD" =>
          /\ message_length = Len(frame)
          /\ payload_index = taken - 2
          /\ payload_index > 0 => current_msg_type = frame[1]
          /\ symbol_capture = IF taken = 2 THEN ZeroSymbol
                              ELSE Symbol(SubSeq(frame, 1, taken - 2))
    /\ filtered_messages = total_messages
=============================================================================
