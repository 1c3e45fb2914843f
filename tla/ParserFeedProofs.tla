--------------------------- MODULE ParserFeedProofs ---------------------------
(***************************************************************************)
(* Proofs about the stream parser, for any payloads that are not empty, of *)
(* any length a frame can announce: it never loses the framing, and its    *)
(* steps are those of the message stream.                                  *)
(***************************************************************************)
EXTENDS ParserFeed, SequenceTheorems, TLAPS

\* The symbol of a payload of which n bytes have passed.
Captured(p, n) ==
    IF has_symbol_field(p[1])
    THEN [k \in 0 .. 7 |-> IF symbol_offset(p[1]) + k < n
                           THEN p[symbol_offset(p[1]) + k + 1] ELSE 0]
    ELSE ZeroSymbol

-----------------------------------------------------------------------------
\* Arithmetic of the length and of the counters.

LEMMA ModRange == \A n \in Nat, m \in Nat \ {0} : n % m \in 0 .. m - 1
  OBVIOUS

LEMMA ModSmall == \A m \in Nat \ {0}, a \in Nat : a < m => a % m = a
  OBVIOUS

LEMMA ByteRange == \A b : b \in Byte <=> b \in Nat /\ b <= 255
  BY DEF Byte

LEMMA TwoBytesRange == \A n : n \in TwoBytes <=> n \in Nat /\ n < 256 * 256
<1> DEFINE last == 256 * 256 - 1
<1>1. last \in Nat /\ \A n \in Nat : n < 256 * 256 <=> n <= last
  OBVIOUS
<1> HIDE DEF last
<1>2. \A n : n \in 0 .. last <=> n \in Nat /\ n <= last
  BY <1>1
<1> QED
  BY <1>1, <1>2 DEF TwoBytes, last

LEMMA LengthInBytes ==
  ASSUME NEW n \in Nat, n < 256 * 256
  PROVE  /\ n \div 256 \in Byte /\ n % 256 \in Byte
         /\ (n \div 256) * 256 + (n % 256) = n
<1>1. /\ n \div 256 \in Nat /\ n \div 256 <= 255
      /\ n % 256 \in Nat /\ n % 256 <= 255
      /\ (n \div 256) * 256 + (n % 256) = n
  BY SMT
<1> QED
  BY <1>1, ByteRange

LEMMA HighByte ==
  ASSUME NEW b \in Byte, NEW x \in Byte
  PROVE  b * 256 + x \in TwoBytes /\ (b * 256 + x) \div 256 = b
<1>1. b \in Nat /\ b <= 255 /\ x \in Nat /\ x <= 255
  BY ByteRange
<1>2. b * 256 + x \in Nat /\ b * 256 + x < 256 * 256 /\ (b * 256 + x) \div 256 = b
  BY <1>1, SMT
<1> QED
  BY <1>2, TwoBytesRange

LEMMA NextCount == \A n \in 0 .. WORD32 - 1 : (n + 1) % WORD32 \in 0 .. WORD32 - 1
  BY ParserAssumption, ModRange

-----------------------------------------------------------------------------
\* The bytes of a payload and of its frame.

LEMMA PayloadBytes ==
  ASSUME NEW p \in Payloads
  PROVE  /\ p # Null /\ p \in Seq(Byte)
         /\ Len(p) \in Nat \ {0} /\ Len(p) < WORD16 /\ Len(p) < 256 * 256
         /\ \A k \in 1 .. Len(p) : p[k] \in Byte
<1>1. p # Null /\ p \in Seq(Byte) /\ Len(p) \in 1 .. WORD16 - 1
  BY PayloadAssumption
<1>2. \A k \in 1 .. Len(p) : p[k] \in Byte
  BY <1>1, ElementOfSeq
<1> QED
  BY <1>1, <1>2, ParserAssumption

LEMMA FramedBytes ==
  ASSUME NEW p \in Payloads
  PROVE  /\ Len(Framed(p)) = Len(p) + 2
         /\ Framed(p)[1] = Len(p) \div 256 /\ Framed(p)[2] = Len(p) % 256
         /\ \A k \in 1 .. Len(p) : Framed(p)[k + 2] = p[k]
<1> DEFINE head == <<Len(p) \div 256, Len(p) % 256>>
<1>1. p \in Seq(Byte) /\ Len(p) \in Nat \ {0} /\ Len(p) < 256 * 256
  BY PayloadBytes
<1>2. head \in Seq(Byte) /\ Len(head) = 2
      /\ head[1] = Len(p) \div 256 /\ head[2] = Len(p) % 256
  BY <1>1, LengthInBytes
<1> HIDE DEF head
<1>3. /\ Len(head \o p) = Len(head) + Len(p)
      /\ \A i \in 1 .. Len(head) + Len(p) :
            (head \o p)[i] = IF i <= Len(head) THEN head[i] ELSE p[i - Len(head)]
  <2>1. head \in Seq(Byte) /\ p \in Seq(Byte)
    BY <1>1, <1>2
  <2> QED
    BY <2>1, ConcatProperties, Zenon
<1>4. Framed(p) = head \o p
  BY DEF Framed, head
<1>5. ASSUME NEW k \in 1 .. Len(p)
      PROVE  Framed(p)[k + 2] = p[k]
  <2>1. k + 2 \in 1 .. Len(head) + Len(p) /\ ~(k + 2 <= Len(head)) /\ k + 2 - Len(head) = k
    BY <1>1, <1>2
  <2> QED
    BY <2>1, <1>3, <1>4
<1>6. Framed(p)[1] = Len(p) \div 256 /\ Framed(p)[2] = Len(p) % 256
  <2>1. 1 \in 1 .. Len(head) + Len(p) /\ 2 \in 1 .. Len(head) + Len(p)
    BY <1>1, <1>2
  <2> QED
    BY <2>1, <1>2, <1>3, <1>4
<1> QED
  BY <1>1, <1>2, <1>3, <1>4, <1>5, <1>6

-----------------------------------------------------------------------------
\* The symbol.

LEMMA OffsetRange ==
  ASSUME NEW type, has_symbol_field(type)
  PROVE  symbol_offset(type) \in 11 .. 28
  BY DEF has_symbol_field, symbol_offset, Reference, Char

\* What has passed of a payload determines what has been captured.
LEMMA SymbolOfPrefix ==
  ASSUME NEW p \in Payloads, NEW n \in 1 .. Len(p)
  PROVE  Symbol(SubSeq(p, 1, n)) = Captured(p, n)
<1> DEFINE q == SubSeq(p, 1, n)
<1>1. Len(p) \in Nat /\ n \in Nat /\ 1 <= n /\ n <= Len(p)
  BY PayloadBytes
<1>2. \A i \in 1 .. n : p[i] \in Byte
  BY <1>1, PayloadBytes
<1>3. /\ Len(q) = IF 1 <= n THEN n - 1 + 1 ELSE 0
      /\ \A i \in 1 .. n - 1 + 1 : q[i] = p[1 + i - 1]
  BY <1>1, <1>2, 1 \in Int, n \in Int, SubSeqProperties
<1> HIDE DEF q
<1>4. Len(q) = n /\ \A i \in 1 .. n : q[i] = p[i]
  <2>1. n - 1 + 1 = n /\ \A i \in 1 .. n : 1 + i - 1 = i
    BY <1>1
  <2> QED
    BY <1>1, <1>3, <2>1
<1>5. q[1] = p[1]
  BY <1>1, <1>4
<1>6. CASE has_symbol_field(p[1])
  <2> DEFINE off == symbol_offset(p[1])
  <2>1. off \in Nat
    BY <1>6, OffsetRange
  <2> HIDE DEF off
  <2>2. ASSUME NEW k \in 0 .. 7
        PROVE  At(q, off + k) = IF off + k < n THEN p[off + k + 1] ELSE 0
    BY <1>1, <1>4, <2>1 DEF At
  <2>3. Symbol(q) = [k \in 0 .. 7 |-> At(q, off + k)]
    BY <1>5, <1>6 DEF Symbol, off
  <2>4. Captured(p, n) = [k \in 0 .. 7 |-> IF off + k < n THEN p[off + k + 1] ELSE 0]
    BY <1>6 DEF Captured, off
  <2> QED
    BY <2>2, <2>3, <2>4 DEF q
<1>7. CASE ~has_symbol_field(p[1])
  BY <1>5, <1>7 DEF Symbol, Captured, q
<1> QED
  BY <1>6, <1>7

LEMMA SymbolOfPayload ==
  ASSUME NEW p \in Payloads
  PROVE  Symbol(p) = Captured(p, Len(p))
<1>1. p \in Seq(Byte) /\ Len(p) \in 1 .. Len(p)
  BY PayloadBytes
<1>2. SubSeq(p, 1, Len(p)) = p
  BY <1>1, SubSeqFull
<1> QED
  BY <1>1, <1>2, SymbolOfPrefix

\* Nothing is captured before the first byte, which is not of the symbol.
LEMMA NothingCaptured ==
  ASSUME NEW p \in Payloads
  PROVE  Captured(p, 0) = ZeroSymbol /\ Captured(p, 1) = ZeroSymbol
<1>1. CASE has_symbol_field(p[1])
  BY <1>1, OffsetRange DEF Captured, ZeroSymbol
<1>2. CASE ~has_symbol_field(p[1])
  BY <1>2 DEF Captured
<1> QED
  BY <1>1, <1>2

LEMMA CapturedType ==
  ASSUME NEW p \in Payloads, NEW n \in 0 .. Len(p)
  PROVE  Captured(p, n) \in [0 .. 7 -> Byte]
<1>1. 0 \in Byte
  BY ByteRange
<1>2. ZeroSymbol \in [0 .. 7 -> Byte]
  BY <1>1 DEF ZeroSymbol
<1>3. CASE has_symbol_field(p[1])
  <2> DEFINE off == symbol_offset(p[1])
  <2>1. off \in Nat /\ Len(p) \in Nat
    BY <1>3, OffsetRange, PayloadBytes
  <2> HIDE DEF off
  <2>2. ASSUME NEW k \in 0 .. 7
        PROVE  (IF off + k < n THEN p[off + k + 1] ELSE 0) \in Byte
    BY <1>1, <2>1, PayloadBytes
  <2>3. Captured(p, n) = [k \in 0 .. 7 |-> IF off + k < n THEN p[off + k + 1] ELSE 0]
    BY <1>3 DEF Captured, off
  <2> QED
    BY <2>2, <2>3
<1>4. CASE ~has_symbol_field(p[1])
  BY <1>2, <1>4 DEF Captured
<1> QED
  BY <1>3, <1>4

-----------------------------------------------------------------------------
FeedInv ==
    /\ InStep
    /\ frame \in Payloads \cup {Null}
    /\ taken \in Nat
    /\ frame = Null => taken = 0

\* The parser inside a payload.
Inside ==
    /\ frame \in Payloads /\ taken \in 2 .. Len(frame) + 1
    /\ payload_index = taken - 2 /\ message_length = Len(frame)
    /\ payload_index > 0 => current_msg_type = frame[1]
    /\ symbol_capture = Captured(frame, taken - 2)

LEMMA InPayload == FeedInv /\ state = "READ_PAYLOAD" => Inside
<1> SUFFICES ASSUME FeedInv, state = "READ_PAYLOAD"
             PROVE  Inside
  OBVIOUS
<1>1. frame \in Payloads
  BY DEF FeedInv, InStep
<1>2. Len(frame) \in Nat \ {0}
  BY <1>1, PayloadBytes
<1>3. taken \in 2 .. Len(frame) + 1
  BY <1>1, <1>2, PayloadBytes DEF FeedInv, InStep
<1>4. symbol_capture = Captured(frame, taken - 2)
  <2>1. CASE taken = 2
    BY <1>1, <2>1, NothingCaptured DEF FeedInv, InStep
  <2>2. CASE taken # 2
    <3>1. taken - 2 \in 1 .. Len(frame)
      BY <1>2, <1>3, <2>2
    <3> QED
      BY <1>1, <2>2, <3>1, SymbolOfPrefix DEF FeedInv, InStep
  <2> QED
    BY <2>1, <2>2
<1> QED
  BY <1>1, <1>3, <1>4 DEF Inside, FeedInv, InStep

\* With its next byte the parser knows the type, and one byte more.
LEMMA NextByte ==
  ASSUME Inside
  PROVE  LET data == Framed(frame)[taken + 1] IN
         /\ data \in Byte
         /\ TypeNext(data) = frame[1] /\ frame[1] \in Byte
         /\ SymbolNext(data) = Captured(frame, taken - 1)
<1> DEFINE k    == taken - 2
           data == Framed(frame)[taken + 1]
<1>1. /\ frame \in Payloads /\ Len(frame) \in Nat \ {0}
      /\ k \in Nat /\ k + 1 \in 1 .. Len(frame) /\ payload_index = k
      /\ taken + 1 = (k + 1) + 2 /\ taken - 1 = k + 1
  BY PayloadBytes DEF Inside
<1>2. data = frame[k + 1] /\ data \in Byte /\ frame[1] \in Byte
  BY <1>1, FramedBytes, PayloadBytes
<1>3. symbol_capture = Captured(frame, k)
  BY DEF Inside
<1>4. k > 0 => current_msg_type = frame[1]
  BY <1>1 DEF Inside
<1> HIDE DEF k, data
<1>5. TypeNext(data) = frame[1]
  BY <1>1, <1>2, <1>4 DEF TypeNext
<1>6. SymbolNext(data) = Captured(frame, k + 1)
  <2>1. CASE has_symbol_field(frame[1])
    <3> DEFINE off == symbol_offset(frame[1])
    <3>1. off \in Nat
      BY <2>1, OffsetRange
    <3>2. Captured(frame, k) =
             [j \in 0 .. 7 |-> IF off + j < k THEN frame[off + j + 1] ELSE 0]
      BY <2>1 DEF Captured
    <3>3. Captured(frame, k + 1) =
             [j \in 0 .. 7 |-> IF off + j < k + 1 THEN frame[off + j + 1] ELSE 0]
      BY <2>1 DEF Captured
    <3>4. SymbolNext(data) = IF k \in off .. off + 7
                             THEN [symbol_capture EXCEPT ![k - off] = data]
                             ELSE symbol_capture
      BY <1>1, <1>5, <2>1 DEF SymbolNext, write_symbol_byte
    <3> HIDE DEF off
    <3>5. CASE k \in off .. off + 7
      <4>1. SymbolNext(data) = [symbol_capture EXCEPT ![k - off] = data]
        BY <3>4, <3>5
      <4>2. k - off \in 0 .. 7 /\ off + (k - off) + 1 = k + 1
        BY <1>1, <3>1, <3>5
      <4>3. ASSUME NEW j \in 0 .. 7, j # k - off
            PROVE  off + j < k <=> off + j < k + 1
        BY <1>1, <3>1, <3>5, <4>3
      <4>4. SymbolNext(data) = [j \in 0 .. 7 |-> IF j = k - off THEN data
                                                 ELSE Captured(frame, k)[j]]
        BY <1>3, <3>2, <4>1
      <4>5. ASSUME NEW j \in 0 .. 7
            PROVE  (IF j = k - off THEN data ELSE Captured(frame, k)[j])
                       = IF off + j < k + 1 THEN frame[off + j + 1] ELSE 0
        <5>1. CASE j = k - off
          BY <1>1, <1>2, <3>1, <4>2, <5>1
        <5>2. CASE j # k - off
          BY <3>2, <4>3, <5>2
        <5> QED
          BY <5>1, <5>2
      <4> QED
        BY <3>3, <4>4, <4>5
    <3>6. CASE k \notin off .. off + 7
      <4>1. ASSUME NEW j \in 0 .. 7
            PROVE  off + j < k <=> off + j < k + 1
        BY <1>1, <3>1, <3>6
      <4> QED
        BY <1>3, <3>2, <3>3, <3>4, <3>6, <4>1
    <3> QED
      BY <3>5, <3>6
  <2>2. CASE ~has_symbol_field(frame[1])
    BY <1>3, <1>5, <2>2 DEF SymbolNext, Captured
  <2> QED
    BY <2>1, <2>2
<1> QED
  BY <1>1, <1>2, <1>5, <1>6 DEF k, data

-----------------------------------------------------------------------------
LEMMA InitFeedInv == FeedInit => FeedInv /\ Stream!Init
<1> SUFFICES ASSUME FeedInit
             PROVE  FeedInv /\ Stream!Init
  OBVIOUS
<1>1. 0 \in Byte /\ 0 \in TwoBytes /\ 0 \in 0 .. WORD16 - 1 /\ 0 \in 0 .. WORD32 - 1
  BY ByteRange, TwoBytesRange, ParserAssumption
<1>2. ZeroSymbol \in [0 .. 7 -> Byte]
  BY <1>1 DEF ZeroSymbol
<1>3. TypeOK
  BY <1>1, <1>2 DEF FeedInit, Init, TypeOK
<1>4. FeedInv
  BY <1>3 DEF FeedInit, Init, FeedInv, InStep
<1> QED
  BY <1>4 DEF FeedInit, Init, Stream!Init, Report

LEMMA ResetStep ==
  ASSUME FeedInv, FeedReset
  PROVE  FeedInv' /\ Stream!Reset
<1>1. 0 \in Byte /\ 0 \in TwoBytes /\ 0 \in 0 .. WORD16 - 1 /\ 0 \in 0 .. WORD32 - 1
  BY ByteRange, TwoBytesRange, ParserAssumption
<1>2. ZeroSymbol \in [0 .. 7 -> Byte]
  BY <1>1 DEF ZeroSymbol
<1>3. TypeOK'
  BY <1>1, <1>2 DEF FeedReset, Reset, TypeOK
<1>4. FeedInv'
  BY <1>3 DEF FeedReset, Reset, FeedInv, InStep
<1> QED
  BY <1>4 DEF FeedReset, Reset, Stream!Reset, Report

LEMMA PauseStep ==
  ASSUME FeedInv, Pause
  PROVE  FeedInv' /\ Stream!Continue
<1>1. Idle(FALSE) /\ frame' = frame /\ taken' = taken
  BY DEF Pause, Clock
<1>2. TypeOK'
  BY <1>1 DEF FeedInv, InStep, TypeOK, Idle, Silent, frameRegs, message, counters
<1>3. FeedInv'
  BY <1>1, <1>2 DEF FeedInv, InStep, Idle, Silent, frameRegs, message, counters
<1> QED
  BY <1>1, <1>3 DEF Stream!Continue, Report, Idle, Silent, counters

LEMMA BeginStep ==
  ASSUME FeedInv, frame = Null, NEW p \in Payloads, FeedByte(p)
  PROVE  FeedInv' /\ Stream!Begin(p)
<1> DEFINE high == Len(p) \div 256
<1>1. taken = 0 /\ state = "READ_LEN_HI"
  BY DEF FeedInv, InStep
<1>2. p # Null /\ Len(p) \in Nat \ {0} /\ Len(p) < 256 * 256 /\ high \in Byte
  BY PayloadBytes, LengthInBytes
<1>3. Framed(p)[taken + 1] = high /\ taken + 1 # Len(Framed(p))
  BY <1>1, <1>2, FramedBytes
<1>4. frame' = p /\ taken' = 1
  BY <1>1, <1>3 DEF FeedByte
<1>5. ReadLenHi(high)
  BY <1>1, <1>3 DEF FeedByte, Clock, Idle, ReadLenLo, ReadPayload, ReadLast
<1> HIDE DEF high
<1>6. message_length' \in TwoBytes /\ message_length' \div 256 = high
  <2>1. message_length \in Nat /\ message_length < 256 * 256
    BY TwoBytesRange DEF FeedInv, InStep, TypeOK
  <2>2. message_length % 256 \in Byte
    BY <2>1, LengthInBytes
  <2> QED
    BY <2>2, <1>2, <1>5, HighByte DEF ReadLenHi
<1>7. TypeOK'
  BY <1>5, <1>6 DEF FeedInv, InStep, TypeOK, ReadLenHi, Silent, message, counters
<1>8. InStep'
  BY <1>2, <1>4, <1>5, <1>6, <1>7
     DEF FeedInv, InStep, ReadLenHi, Silent, counters, high
<1>9. FeedInv'
  BY <1>2, <1>4, <1>8 DEF FeedInv
<1> QED
  BY <1>4, <1>5, <1>9 DEF Stream!Begin, Report, ReadLenHi, Silent, counters

LEMMA LengthStep ==
  ASSUME FeedInv, state = "READ_LEN_LO", FeedByte(frame)
  PROVE  FeedInv' /\ Stream!Continue
<1> DEFINE low == Len(frame) % 256
<1>1. frame # Null /\ frame \in Payloads /\ taken = 1
      /\ message_length \div 256 = Len(frame) \div 256
  BY DEF FeedInv, InStep
<1>2. Len(frame) \in Nat \ {0} /\ Len(frame) < 256 * 256 /\ low \in Byte
  BY <1>1, PayloadBytes, LengthInBytes
<1>3. Framed(frame)[taken + 1] = low /\ taken + 1 # Len(Framed(frame))
  BY <1>1, <1>2, FramedBytes
<1>4. frame' = frame /\ taken' = 2
  BY <1>1, <1>3 DEF FeedByte
<1>5. ReadLenLo(low)
  BY <1>3 DEF FeedByte, Clock, Idle, ReadLenHi, ReadPayload, ReadLast
<1>6. message_length' = Len(frame) /\ message_length' \in TwoBytes
  BY <1>1, <1>2, <1>5, LengthInBytes, TwoBytesRange DEF ReadLenLo
<1> HIDE DEF low
<1>7. TypeOK'
  <2>1. 0 \in Byte /\ 0 \in 0 .. WORD16 - 1
    BY ByteRange, ParserAssumption
  <2>2. ZeroSymbol \in [0 .. 7 -> Byte]
    BY <2>1 DEF ZeroSymbol
  <2> QED
    BY <2>1, <2>2, <1>5, <1>6
       DEF FeedInv, InStep, TypeOK, ReadLenLo, Silent, message, counters
<1>8. InStep'
  BY <1>1, <1>2, <1>4, <1>5, <1>6, <1>7 DEF FeedInv, InStep, ReadLenLo, Silent, counters
<1>9. FeedInv'
  BY <1>1, <1>4, <1>8 DEF FeedInv
<1> QED
  BY <1>4, <1>5, <1>9 DEF Stream!Continue, Report, ReadLenLo, Silent, counters

\* The last byte of a payload is the last of its frame.
LEMMA LastIsLast == Inside => (IsLast <=> taken + 1 = Len(Framed(frame)))
<1> SUFFICES ASSUME Inside
             PROVE  IsLast <=> taken + 1 = Len(Framed(frame))
  OBVIOUS
<1>1. Len(frame) \in Nat /\ taken \in Nat /\ Len(Framed(frame)) = Len(frame) + 2
  BY PayloadBytes, FramedBytes DEF Inside
<1> QED
  BY <1>1 DEF Inside, IsLast

LEMMA PayloadStep ==
  ASSUME FeedInv, state = "READ_PAYLOAD", ~IsLast, FeedByte(frame)
  PROVE  FeedInv' /\ Stream!Continue
<1> DEFINE data == Framed(frame)[taken + 1]
<1>1. Inside /\ frame \in Payloads /\ frame # Null
  BY InPayload, PayloadBytes DEF Inside
<1>2. /\ data \in Byte
      /\ TypeNext(data) = frame[1] /\ frame[1] \in Byte
      /\ SymbolNext(data) = Captured(frame, taken - 1)
  BY <1>1, NextByte
<1>3. frame' = frame /\ taken' = taken + 1
  BY <1>1, LastIsLast DEF FeedByte
<1>4. ReadPayload(data)
  BY DEF FeedByte, Clock, Idle, ReadLenHi, ReadLenLo, ReadLast
<1> HIDE DEF data
<1>5. /\ taken \in Nat /\ taken - 1 \in 1 .. Len(frame) /\ taken' \in 2 .. Len(frame) + 1
      /\ taken' - 2 = taken - 1 /\ taken' > 2
      /\ payload_index' = taken' - 2 /\ payload_index' \in 0 .. WORD16 - 1
  <2>1. Len(frame) \in Nat \ {0} /\ Len(frame) < WORD16 /\ WORD16 \in Nat \ {0}
    BY <1>1, PayloadBytes, ParserAssumption
  <2>2. taken \in 2 .. Len(frame) + 1 /\ payload_index = taken - 2
        /\ message_length = Len(frame) /\ payload_index + 1 # message_length
    BY <1>1 DEF Inside, IsLast
  <2>3. payload_index + 1 \in Nat /\ payload_index + 1 < WORD16
    BY <2>1, <2>2
  <2>4. payload_index' = payload_index + 1
    BY <2>1, <2>3, <1>4, ModSmall DEF ReadPayload
  <2> QED
    BY <2>1, <2>2, <2>3, <2>4, <1>3
<1>6. current_msg_type' = frame[1] /\ symbol_capture' = Captured(frame, taken - 1)
      /\ message_length' = message_length /\ state' = "READ_PAYLOAD"
  BY <1>2, <1>4 DEF ReadPayload
<1>7. symbol_capture' = Symbol(SubSeq(frame, 1, taken - 1))
  BY <1>1, <1>5, <1>6, SymbolOfPrefix
<1>8. TypeOK'
  <2>1. symbol_capture' \in [0 .. 7 -> Byte]
    BY <1>1, <1>5, <1>6, CapturedType
  <2> QED
    BY <2>1, <1>2, <1>4, <1>5, <1>6
       DEF FeedInv, InStep, TypeOK, ReadPayload, Silent, message, counters
<1>9. InStep'
  BY <1>1, <1>3, <1>4, <1>5, <1>6, <1>7, <1>8
     DEF FeedInv, InStep, Inside, ReadPayload, Silent, counters
<1>10. FeedInv'
  BY <1>1, <1>3, <1>5, <1>9 DEF FeedInv
<1> QED
  BY <1>3, <1>4, <1>10 DEF Stream!Continue, Report, ReadPayload, Silent, counters

\* The last byte completes the message, and only then is it reported.
LEMMA LastStep ==
  ASSUME FeedInv, state = "READ_PAYLOAD", IsLast, FeedByte(frame)
  PROVE  FeedInv' /\ Stream!Finish
<1> DEFINE data == Framed(frame)[taken + 1]
<1>1. Inside /\ frame \in Payloads /\ frame # Null
  BY InPayload, PayloadBytes DEF Inside
<1>2. /\ data \in Byte
      /\ TypeNext(data) = frame[1] /\ frame[1] \in Byte
      /\ SymbolNext(data) = Captured(frame, taken - 1)
  BY <1>1, NextByte
<1>3. frame' = Null /\ taken' = 0
  BY <1>1, LastIsLast DEF FeedByte
<1>4. ReadLast(data)
  BY DEF FeedByte, Clock, Idle, ReadLenHi, ReadLenLo, ReadPayload
<1> HIDE DEF data
<1>5. taken - 1 = Len(frame) /\ Len(frame) \in 0 .. Len(frame)
  BY <1>1, PayloadBytes DEF Inside, IsLast
<1>6. /\ msg_type' = frame[1] /\ strobe' = Strobe(frame[1])
      /\ stock_symbol' = Captured(frame, Len(frame))
      /\ symbol_match' = TRUE /\ msg_valid' = TRUE
      /\ current_msg_type' = frame[1]
      /\ total_messages' = (total_messages + 1) % WORD32
      /\ filtered_messages' = (filtered_messages + 1) % WORD32
      /\ state' = "READ_LEN_HI" /\ payload_index' = 0 /\ symbol_capture' = ZeroSymbol
      /\ message_length' = message_length
  BY <1>2, <1>4, <1>5 DEF ReadLast, is_symbol_filtered
<1>7. stock_symbol' = Symbol(frame) /\ stock_symbol' \in [0 .. 7 -> Byte]
  BY <1>1, <1>5, <1>6, SymbolOfPayload, CapturedType
<1>8. TypeOK'
  <2>1. 0 \in Byte /\ 0 \in 0 .. WORD16 - 1
    BY ByteRange, ParserAssumption
  <2>2. ZeroSymbol \in [0 .. 7 -> Byte]
    BY <2>1 DEF ZeroSymbol
  <2>3. total_messages' \in 0 .. WORD32 - 1 /\ filtered_messages' \in 0 .. WORD32 - 1
    BY <1>6, NextCount DEF FeedInv, InStep, TypeOK
  <2> QED
    BY <2>1, <2>2, <2>3, <1>2, <1>6, <1>7 DEF FeedInv, InStep, TypeOK
<1>9. InStep'
  BY <1>3, <1>6, <1>8 DEF FeedInv, InStep
<1>10. FeedInv'
  BY <1>3, <1>9 DEF FeedInv
<1>11. Report' = MessageOf(frame)
  BY <1>6, <1>7 DEF Report, MessageOf
<1> QED
  BY <1>1, <1>3, <1>6, <1>10, <1>11 DEF Stream!Finish

LEMMA StutterStep ==
  ASSUME FeedInv, UNCHANGED feedVars
  PROVE  FeedInv' /\ UNCHANGED Stream!vars
<1>1. TypeOK'
  BY DEF feedVars, vars, frameRegs, message, counters, FeedInv, InStep, TypeOK
<1>2. FeedInv'
  BY <1>1 DEF feedVars, vars, frameRegs, message, counters, FeedInv, InStep
<1> QED
  BY <1>2 DEF feedVars, vars, frameRegs, message, counters, Stream!vars, Report

LEMMA FeedStep ==
  FeedInv /\ [FeedNext]_feedVars => FeedInv' /\ [Stream!Next]_(Stream!vars)
<1> SUFFICES ASSUME FeedInv, [FeedNext]_feedVars
             PROVE  FeedInv' /\ [Stream!Next]_(Stream!vars)
  OBVIOUS
<1>1. CASE BeginFrame
  <2> PICK p \in Payloads : FeedByte(p)
    BY <1>1 DEF BeginFrame
  <2>1. FeedInv' /\ Stream!Begin(p)
    BY <1>1, BeginStep DEF BeginFrame
  <2> QED
    BY <2>1 DEF Stream!Next
<1>2. CASE ContinueFrame
  <2>1. frame # Null /\ FeedByte(frame)
    BY <1>2 DEF ContinueFrame
  <2>2. state \in {"READ_LEN_LO", "READ_PAYLOAD"}
    BY <2>1 DEF FeedInv, InStep, TypeOK
  <2>3. FeedInv' /\ (Stream!Continue \/ Stream!Finish)
    BY <2>1, <2>2, LengthStep, PayloadStep, LastStep
  <2> QED
    BY <2>3 DEF Stream!Next
<1>3. CASE Pause
  BY <1>3, PauseStep DEF Stream!Next
<1>4. CASE FeedReset
  BY <1>4, ResetStep DEF Stream!Next
<1>5. CASE UNCHANGED feedVars
  BY <1>5, StutterStep
<1> QED
  BY <1>1, <1>2, <1>3, <1>4, <1>5 DEF FeedNext

LEMMA FeedInvariant == FeedSpec => []FeedInv
<1>1. FeedInit => FeedInv
  BY InitFeedInv
<1>2. FeedInv /\ [FeedNext]_feedVars => FeedInv'
  BY FeedStep
<1> QED
  BY <1>1, <1>2, PTL DEF FeedSpec

-----------------------------------------------------------------------------
(***************************************************************************)
(* Whatever frames come, and however the stream pauses or is reset, the    *)
(* parser knows where in a frame it is and holds what has passed of it     *)
(* (states READ_LEN_HI to READ_PAYLOAD of itch_stream_parser.sv).          *)
(***************************************************************************)
THEOREM ParserStaysInStep == FeedSpec => []InStep
<1>1. FeedInv => InStep
  BY DEF FeedInv
<1> QED
  BY <1>1, FeedInvariant, PTL

(***************************************************************************)
(* The parser implements the message stream, but for its promise that a    *)
(* frame ends, which rests on fairness: every frame is reported once, at   *)
(* its last byte, with its own type, class and symbol, and nothing else    *)
(* is reported.                                                            *)
(***************************************************************************)
THEOREM ParserIsStream == FeedSpec => Stream!Init /\ [][Stream!Next]_(Stream!vars)
<1>1. FeedInit => Stream!Init
  BY InitFeedInv
<1>2. FeedInv /\ [FeedNext]_feedVars => [Stream!Next]_(Stream!vars)
  BY FeedStep
<1> QED
  BY <1>1, <1>2, FeedInvariant, PTL DEF FeedSpec
=============================================================================
