--------------------------- MODULE ItchStreamParser ---------------------------
(***************************************************************************)
(* itch_stream_parser.sv: the state machine that cuts a byte stream into   *)
(* ITCH messages.  A frame is two bytes of length, high byte first, and    *)
(* that many bytes of payload, the first of which is the message type.     *)
(* One byte is taken at every edge with stream_valid; stream_ready is tied *)
(* high.                                                                   *)
(*                                                                         *)
(* The nine class outputs (add_order_valid and so on) are one register,    *)
(* strobe: the one that is high, or "none".  msg_error is left out: every  *)
(* assignment in the source clears it.                                     *)
(***************************************************************************)
EXTENDS ItchBytes

CONSTANTS
    WORD16,   \* 2^16: the range of payload_index
    WORD32    \* 2^32: the range of the counters

ASSUME ParserAssumption ==
    WORD16 \in Nat \ {0} /\ WORD16 <= 256 * 256 /\ WORD32 \in Nat \ {0}

VARIABLES
    state, message_length, payload_index, current_msg_type, symbol_capture,
    msg_valid, msg_type, strobe, stock_symbol, symbol_match,
    total_messages, filtered_messages

frameRegs == <<state, message_length, payload_index, current_msg_type, symbol_capture>>
counters == <<total_messages, filtered_messages>>
message == <<msg_type, stock_symbol, symbol_match>>
vars == <<frameRegs, msg_valid, strobe, message, counters>>

Reference == { Char.H, Char.R, Char.K, Char.J, Char.N, Char.O, Char.h }

\* -1: a type without a symbol.
symbol_offset(type) ==
    CASE type \in {Char.A, Char.F, Char.P} -> 24
      [] type \in Reference -> 11
      [] type = Char.I -> 28
      [] type = Char.L -> 15
      [] type = Char.Q -> 19
      [] OTHER -> -1

has_symbol_field(type) ==
    type \in Reference \cup {Char.A, Char.F, Char.I, Char.L, Char.P, Char.Q}

Strobe(type) ==
    CASE type \in {Char.A, Char.F} -> "add_order"
      [] type \in Reference        -> "stock_directory"
      [] type \in {Char.E, Char.C} -> "order_executed"
      [] type = Char.X             -> "order_cancel"
      [] type = Char.D             -> "order_delete"
      [] type = Char.U             -> "order_replace"
      [] type = Char.P             -> "trade"
      [] type = Char.Q             -> "cross_trade"
      [] type \in {Char.S, Char.I} -> "system_event"
      [] OTHER                     -> "none"

\* A symbol is its eight bytes, in the order of the payload.
ZeroSymbol == [k \in 0 .. 7 |-> 0]

is_symbol_filtered(symbol) == TRUE

write_symbol_byte(symbol, start, index, data) ==
    [symbol EXCEPT ![index - start] = data]

TypeOK ==
    /\ state \in {"READ_LEN_HI", "READ_LEN_LO", "READ_PAYLOAD"}
    /\ message_length \in TwoBytes
    /\ payload_index \in 0 .. WORD16 - 1
    /\ current_msg_type \in Byte /\ msg_type \in Byte
    /\ symbol_capture \in [0 .. 7 -> Byte] /\ stock_symbol \in [0 .. 7 -> Byte]
    /\ msg_valid \in BOOLEAN /\ symbol_match \in BOOLEAN
    /\ total_messages \in 0 .. WORD32 - 1
    /\ filtered_messages \in 0 .. WORD32 - 1

Init ==
    /\ state = "READ_LEN_HI" /\ message_length = 0 /\ payload_index = 0
    /\ current_msg_type = 0 /\ symbol_capture = ZeroSymbol
    /\ msg_valid = FALSE /\ strobe = "none"
    /\ msg_type = 0 /\ stock_symbol = ZeroSymbol /\ symbol_match = FALSE
    /\ total_messages = 0 /\ filtered_messages = 0

Reset ==
    /\ state' = "READ_LEN_HI" /\ message_length' = 0 /\ payload_index' = 0
    /\ current_msg_type' = 0 /\ symbol_capture' = ZeroSymbol
    /\ msg_valid' = FALSE /\ strobe' = "none"
    /\ msg_type' = 0 /\ stock_symbol' = ZeroSymbol /\ symbol_match' = FALSE
    /\ total_messages' = 0 /\ filtered_messages' = 0

-----------------------------------------------------------------------------
\* No message is reported at this edge.
Silent == msg_valid' = FALSE /\ strobe' = "none" /\ UNCHANGED <<message, counters>>

Idle(stream_valid) == ~stream_valid /\ Silent /\ UNCHANGED frameRegs

ReadLenHi(data) ==
    /\ state = "READ_LEN_HI"
    /\ message_length' = data * 256 + (message_length % 256)
    /\ state' = "READ_LEN_LO"
    /\ Silent
    /\ UNCHANGED <<payload_index, current_msg_type, symbol_capture>>

ReadLenLo(data) ==
    /\ state = "READ_LEN_LO"
    /\ message_length' = (message_length \div 256) * 256 + data
    /\ payload_index' = 0
    /\ symbol_capture' = ZeroSymbol
    /\ current_msg_type' = 0
    /\ state' = "READ_PAYLOAD"
    /\ Silent

\* The type and the captured symbol as they are with this byte taken in.
TypeNext(data) == IF payload_index = 0 THEN data ELSE current_msg_type

SymbolNext(data) ==
    LET offset == symbol_offset(TypeNext(data)) IN
    IF /\ has_symbol_field(TypeNext(data))
       /\ payload_index \in offset .. offset + 7
    THEN write_symbol_byte(symbol_capture, offset, payload_index, data)
    ELSE symbol_capture

\* A fault: the length is taken to count one of its own bytes.
IsLastEarly == payload_index + 2 = message_length

\* The comparison is in 32 bits: no index makes it true for length zero.
IsLast == payload_index + 1 = message_length

\* A byte of the payload that is not the last.
ReadPayload(data) ==
    /\ state = "READ_PAYLOAD" /\ ~IsLast
    /\ current_msg_type' = TypeNext(data)
    /\ payload_index' = (payload_index + 1) % WORD16
    /\ symbol_capture' = SymbolNext(data)
    /\ Silent
    /\ UNCHANGED <<state, message_length>>

\* A fault: the symbol reported lacks the byte of this edge.
ReadLastStale(data) ==
    /\ state = "READ_PAYLOAD" /\ IsLast
    /\ current_msg_type' = TypeNext(data)
    /\ total_messages' = (total_messages + 1) % WORD32
    /\ msg_type' = current_msg_type
    /\ stock_symbol' = symbol_capture
    /\ symbol_match' = TRUE
    /\ filtered_messages' = (filtered_messages + 1) % WORD32
    /\ msg_valid' = TRUE
    /\ strobe' = Strobe(current_msg_type)
    /\ state' = "READ_LEN_HI" /\ payload_index' = 0 /\ symbol_capture' = ZeroSymbol
    /\ UNCHANGED message_length

\* The last byte: the message is reported, with its symbol if it has one.
ReadLast(data) ==
    LET passes == has_symbol_field(TypeNext(data)) => is_symbol_filtered(SymbolNext(data))
    IN
    /\ state = "READ_PAYLOAD" /\ IsLast
    /\ current_msg_type' = TypeNext(data)
    /\ total_messages' = (total_messages + 1) % WORD32
    /\ msg_type' = TypeNext(data)
    /\ stock_symbol' = SymbolNext(data)
    /\ symbol_match' = passes
    /\ filtered_messages' = IF passes THEN (filtered_messages + 1) % WORD32
                                      ELSE filtered_messages
    /\ msg_valid' = passes
    /\ strobe' = IF passes THEN Strobe(TypeNext(data)) ELSE "none"
    /\ state' = "READ_LEN_HI" /\ payload_index' = 0 /\ symbol_capture' = ZeroSymbol
    /\ UNCHANGED message_length

Clock(stream_valid, data) ==
    \/ Idle(stream_valid)
    \/ stream_valid /\ \/ ReadLenHi(data)
                       \/ ReadLenLo(data)
                       \/ ReadPayload(data)
                       \/ ReadLast(data)
=============================================================================
