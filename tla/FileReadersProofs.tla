-------------------------- MODULE FileReadersProofs --------------------------
(***************************************************************************)
(* Proofs about the programs that read a file, for every file of bytes:    *)
(* what is in the book and in the depths of the software engine, whatever  *)
(* the messages it is fed with are cut from; what the latency testbench    *)
(* says of the times it has taken; that the three framings of the file are *)
(* one; and that the counts by ticker are those of the file.               *)
(***************************************************************************)
EXTENDS FileReaders, SumProofs, SequenceTheorems

\* One more than a field of four bytes can say.
FourBytes == 256 * 256 * (256 * 256)

-----------------------------------------------------------------------------
\* Bytes and fields.

LEMMA ModSmall == \A m \in Nat \ {0}, a \in Nat : a < m => a % m = a
  OBVIOUS

LEMMA TimesMonotone == \A q, a, b \in Nat : a <= b => q * a <= q * b
<1> SUFFICES ASSUME NEW q \in Nat, NEW a \in Nat, NEW b \in Nat, a <= b
             PROVE  q * a <= q * b
  OBVIOUS
<1>1. PICK c \in Nat : b = a + c
  <2>1. b - a \in Nat /\ b = a + (b - a)
    OBVIOUS
  <2> QED
    BY <2>1
<1>2. q * b = q * a + q * c /\ q * c \in Nat /\ q * a \in Nat
  BY <1>1
<1> QED
  BY <1>2

LEMMA WordType == WORD64 \in Nat \ {0}
<1> DEFINE cycles == latency_messages * (PIPELINE + MESSAGE_SPACING)
<1>1. /\ latency_messages \in Nat /\ PIPELINE \in Nat /\ MESSAGE_SPACING \in Nat
      /\ cycles < WORD64 /\ WORD64 \in Nat
  BY ReadersAssumption DEF latency!ParametersOK
<1>2. cycles \in Nat
  BY <1>1
<1> HIDE DEF cycles
<1> QED
  BY <1>1, <1>2

LEMMA Uint16Range ==
  ASSUME NEW bytes, NEW at \in Nat, bytes[at + 1] \in Byte, bytes[at + 2] \in Byte
  PROVE  extract_uint16(bytes, at) \in Nat /\ extract_uint16(bytes, at) < 256 * 256
<1> DEFINE hi == bytes[at + 1]
           lo == bytes[at + 2]
<1>1. hi \in Nat /\ hi <= 255 /\ lo \in Nat /\ lo <= 255
  BY DEF Byte
<1>2. extract_uint16(bytes, at) = 256 * hi + lo
  BY DEF extract_uint16
<1> HIDE DEF hi, lo
<1>3. 256 * hi + lo \in Nat /\ 256 * hi + lo < 256 * 256
  BY <1>1, SMT
<1> QED
  BY <1>2, <1>3

LEMMA Uint32Range ==
  ASSUME NEW bytes, NEW at \in Nat, \A k \in 1 .. 4 : bytes[at + k] \in Byte
  PROVE  extract_uint32(bytes, at) \in Nat /\ extract_uint32(bytes, at) < FourBytes
<1> DEFINE hi == extract_uint16(bytes, at)
           lo == extract_uint16(bytes, at + 2)
<1>1. /\ hi \in Nat /\ hi < 256 * 256
  <2>1. bytes[at + 1] \in Byte /\ bytes[at + 2] \in Byte
    OBVIOUS
  <2> QED
    BY <2>1, Uint16Range
<1>2. /\ lo \in Nat /\ lo < 256 * 256
  <2>1. at + 2 \in Nat /\ (at + 2) + 1 = at + 3 /\ (at + 2) + 2 = at + 4
    OBVIOUS
  <2>2. bytes[at + 3] \in Byte /\ bytes[at + 4] \in Byte
    OBVIOUS
  <2> HIDE DEF lo
  <2>3. bytes[(at + 2) + 1] \in Byte /\ bytes[(at + 2) + 2] \in Byte
    BY <2>1, <2>2
  <2> QED
    BY <2>1, <2>3, Uint16Range DEF lo
<1>3. extract_uint32(bytes, at) = 256 * 256 * hi + lo
  BY DEF extract_uint32
<1> HIDE DEF hi, lo
<1> QED
  BY <1>1, <1>2, <1>3 DEF FourBytes

\* The modules of the readers read bytes alike.
LEMMA SameBytes ==
  /\ real!Char = Char /\ real!Byte = Byte
  /\ reader!Char = Char /\ latency!Char = Char
  /\ \A bytes, at : /\ real!extract_uint16(bytes, at) = extract_uint16(bytes, at)
                    /\ real!extract_uint32(bytes, at) = extract_uint32(bytes, at)
                    /\ reader!extract_uint16(bytes, at) = extract_uint16(bytes, at)
                    /\ latency!extract_uint16(bytes, at) = extract_uint16(bytes, at)
  BY DEF real!Char, Char, real!Byte, Byte, reader!Char, latency!Char,
     real!extract_uint16, real!extract_uint32, extract_uint16, extract_uint32,
     reader!extract_uint16, latency!extract_uint16

\* ... and add up alike.
LEMMA SameSums ==
  ASSUME NEW fun, NEW S
  PROVE  real!SumFunctionOnSet(fun, S) = SumFunctionOnSet(fun, S)
<1>1. real!SumFunctionOnSet(fun, S) = (CHOOSE g : IsSum(fun, S, g))[S]
  BY DEF real!SumFunctionOnSet, real!FoldFunctionOnSet, real!MapThenFoldSet, IsSum, First
<1> QED
  BY <1>1, SumIsChosen

-----------------------------------------------------------------------------
\* The messages the reader has cut.

FileMessage == [type : Byte, payload : Seq(Byte)]

LengthAt(at) == extract_uint16(file, at)

\* A frame that is all there, and not empty.
WholeAt(at) ==
    /\ at + 2 <= Len(file)
    /\ LengthAt(at) > 0
    /\ at + 2 + LengthAt(at) <= Len(file)

\* The message of the frame that begins after a number of bytes.
CutAt(msg, at) ==
    /\ WholeAt(at) /\ LengthAt(at) <= MAX_LENGTH
    /\ msg.type = file[at + 3]
    /\ msg.payload = SubSeq(file, at + 4, at + 2 + LengthAt(at))

Ends(ms, k) == SumFunctionOnSet([i \in 1 .. k |-> 3 + Len(ms[i].payload)], 1 .. k)

ReaderInv ==
    /\ file \in Files
    /\ messages \in Seq(FileMessage)
    /\ position \in Nat /\ position <= Len(file)
    /\ position = Ends(messages, Len(messages))
    /\ \A k \in 1 .. Len(messages) : CutAt(messages[k], Ends(messages, k - 1))

LEMMA FilesAreBytes ==
  ASSUME file \in Files
  PROVE  /\ file \in Seq(Byte) /\ Len(file) \in Nat
         /\ \A i \in 1 .. Len(file) : file[i] \in Byte
         /\ \A at \in Nat : at + 2 <= Len(file) =>
               LengthAt(at) \in Nat /\ LengthAt(at) < 256 * 256
<1>1. file \in Seq(Byte) /\ Len(file) \in Nat
  BY FilesAssumption, LenProperties
<1>2. \A i \in 1 .. Len(file) : file[i] \in Byte
  BY <1>1, ElementOfSeq
<1>3. ASSUME NEW at \in Nat, at + 2 <= Len(file)
      PROVE  LengthAt(at) \in Nat /\ LengthAt(at) < 256 * 256
  <2>1. file[at + 1] \in Byte /\ file[at + 2] \in Byte
    BY <1>1, <1>2, <1>3
  <2> QED
    BY <2>1, Uint16Range DEF LengthAt
<1> QED
  BY <1>1, <1>2, <1>3

LEMMA EndsAdd ==
  ASSUME NEW ms \in Seq(FileMessage)
  PROVE  /\ Ends(ms, 0) = 0
         /\ \A k \in 0 .. Len(ms) : Ends(ms, k) \in Nat
         /\ \A k \in 1 .. Len(ms) :
               /\ Len(ms[k].payload) \in Nat
               /\ Ends(ms, k) = Ends(ms, k - 1) + 3 + Len(ms[k].payload)
<1> DEFINE f(k) == [i \in 1 .. k |-> 3 + Len(ms[i].payload)]
<1>1. \A i \in 1 .. Len(ms) : ms[i].payload \in Seq(Byte)
  <2>1. \A i \in 1 .. Len(ms) : ms[i] \in FileMessage
    BY ElementOfSeq
  <2> QED
    BY <2>1 DEF FileMessage
<1>2. \A i \in 1 .. Len(ms) : Len(ms[i].payload) \in Nat /\ 3 + Len(ms[i].payload) \in Nat
  BY <1>1, LenProperties
<1>3. Len(ms) \in Nat
  BY LenProperties
<1>4. Ends(ms, 0) = 0
  <2>1. 1 .. 0 = {}
    OBVIOUS
  <2> QED
    BY <2>1, SumOfNone DEF Ends
<1>5. ASSUME NEW k \in 0 .. Len(ms)
      PROVE  Ends(ms, k) \in Nat
  <2>1. \A i \in 1 .. k : f(k)[i] \in Nat
    BY <1>2, <1>3
  <2>2. IsFiniteSet(1 .. k)
    BY <1>3, FS_Interval
  <2> HIDE DEF f
  <2>3. SumFunctionOnSet(f(k), 1 .. k) \in Nat
    BY <2>1, <2>2, SumIsNat
  <2> QED
    BY <2>3 DEF Ends, f
<1>6. ASSUME NEW k \in 1 .. Len(ms)
      PROVE  Ends(ms, k) = Ends(ms, k - 1) + 3 + Len(ms[k].payload)
  <2>1. /\ k - 1 \in Nat /\ (k - 1) + 1 = k
        /\ \A i \in 1 .. (k - 1) + 1 : f(k)[i] \in Int
        /\ \A i \in 1 .. k - 1 : f(k - 1)[i] = f(k)[i]
        /\ f(k)[k] = 3 + Len(ms[k].payload)
    BY <1>2, <1>3
  <2>2. Ends(ms, k) = SumFunctionOnSet(f(k), 1 .. k)
        /\ Ends(ms, k - 1) = SumFunctionOnSet(f(k - 1), 1 .. k - 1)
    BY DEF Ends
  <2> HIDE DEF f
  <2>3. SumFunctionOnSet(f(k), 1 .. (k - 1) + 1)
           = SumFunctionOnSet(f(k - 1), 1 .. k - 1) + f(k)[(k - 1) + 1]
    BY <2>1, SumUpTo
  <2>4. Ends(ms, k - 1) \in Nat /\ Len(ms[k].payload) \in Nat
    BY <1>2, <1>3, <1>5
  <2>5. Ends(ms, k) = Ends(ms, k - 1) + (3 + Len(ms[k].payload))
    BY <2>1, <2>2, <2>3
  <2> QED
    BY <2>4, <2>5
<1> QED
  BY <1>2, <1>4, <1>5, <1>6

\* A message more changes nothing about where the others end.
LEMMA EndsKept ==
  ASSUME NEW ms \in Seq(FileMessage), NEW msg \in FileMessage
  PROVE  /\ Append(ms, msg) \in Seq(FileMessage)
         /\ Len(ms) \in Nat /\ Len(Append(ms, msg)) = Len(ms) + 1
         /\ \A k \in 1 .. Len(ms) : Append(ms, msg)[k] = ms[k]
         /\ Append(ms, msg)[Len(ms) + 1] = msg
         /\ \A k \in 0 .. Len(ms) : Ends(Append(ms, msg), k) = Ends(ms, k)
         /\ Ends(Append(ms, msg), Len(ms) + 1) = Ends(ms, Len(ms)) + 3 + Len(msg.payload)
<1> DEFINE more == Append(ms, msg)
<1>1. /\ more \in Seq(FileMessage) /\ Len(more) = Len(ms) + 1
      /\ \A k \in 1 .. Len(ms) : more[k] = ms[k]
      /\ more[Len(ms) + 1] = msg
      /\ Len(ms) \in Nat
  BY AppendProperties, LenProperties
<1> HIDE DEF more
<1>2. ASSUME NEW k \in 0 .. Len(ms)
      PROVE  Ends(more, k) = Ends(ms, k)
  <2> DEFINE f == [i \in 1 .. k |-> 3 + Len(ms[i].payload)]
             g == [i \in 1 .. k |-> 3 + Len(more[i].payload)]
  <2>1. f = g
    BY <1>1
  <2> QED
    BY <2>1 DEF Ends
<1>3. Ends(more, Len(ms) + 1) = Ends(ms, Len(ms)) + 3 + Len(msg.payload)
  <2>1. /\ Len(ms) + 1 \in 1 .. Len(more) /\ (Len(ms) + 1) - 1 = Len(ms)
        /\ Len(ms) \in 0 .. Len(ms)
    BY <1>1
  <2>2. Ends(more, Len(ms) + 1) = Ends(more, (Len(ms) + 1) - 1) + 3
                                     + Len(more[Len(ms) + 1].payload)
    BY <1>1, <2>1, EndsAdd
  <2> QED
    BY <1>1, <1>2, <2>1, <2>2
<1> QED
  BY <1>1, <1>2, <1>3 DEF more

\* A piece of the bytes of a file.
LEMMA PieceOfBytes ==
  ASSUME NEW s \in Seq(Byte), NEW first \in Nat \ {0}, NEW last \in Nat,
         first <= last + 1, last <= Len(s)
  PROVE  /\ SubSeq(s, first, last) \in Seq(Byte)
         /\ Len(SubSeq(s, first, last)) = (last - first) + 1
         /\ \A i \in 1 .. (last - first) + 1 : SubSeq(s, first, last)[i] = s[first + i - 1]
<1>1. Len(s) \in Nat /\ \A i \in 1 .. Len(s) : s[i] \in Byte
  BY LenProperties, ElementOfSeq
<1>2. \A i \in first .. last : s[i] \in Byte
  BY <1>1
<1>3. /\ SubSeq(s, first, last) \in Seq(Byte)
      /\ Len(SubSeq(s, first, last)) = IF first <= last THEN last - first + 1 ELSE 0
      /\ \A i \in 1 .. last - first + 1 : SubSeq(s, first, last)[i] = s[first + i - 1]
  BY <1>2, SubSeqProperties
<1>4. (IF first <= last THEN last - first + 1 ELSE 0) = (last - first) + 1
  OBVIOUS
<1> QED
  BY <1>3, <1>4

LEMMA ReadMessageInv ==
  ASSUME ReaderInv, reader!ReadMessage
  PROVE  ReaderInv'
<1> DEFINE n   == LengthAt(position)
           msg == [type |-> file[position + 3],
                   payload |-> SubSeq(file, position + 4, position + 2 + n)]
<1>1. /\ file \in Seq(Byte) /\ Len(file) \in Nat
      /\ \A i \in 1 .. Len(file) : file[i] \in Byte
      /\ position \in Nat
  BY FilesAreBytes DEF ReaderInv
<1>2. reader!length = n
  BY SameBytes DEF reader!length, LengthAt
<1>3. /\ position + 2 <= Len(file) /\ n \in 1 .. MAX_LENGTH
      /\ position + 2 + n <= Len(file)
  BY <1>2 DEF reader!ReadMessage, reader!WholeFrame, reader!HasLength
<1>4. /\ messages' = Append(messages, msg) /\ position' = position + 2 + n /\ file' = file
  <2>1. /\ messages' = Append(messages, [type |-> file[position + 3],
                         payload |-> SubSeq(file, position + 3 + 1, position + 3 + n - 1)])
        /\ position' = position + 2 + n /\ file' = file
    BY <1>2 DEF reader!ReadMessage
  <2>2. n \in Nat /\ position + 3 + 1 = position + 4 /\ position + 3 + n - 1 = position + 2 + n
    BY <1>1, <1>3
  <2> HIDE DEF n
  <2> QED
    BY <2>1, <2>2
<1>5. n \in Nat /\ n > 0 /\ n <= MAX_LENGTH
  BY <1>3, ReadersAssumption
<1> HIDE DEF n
<1> DEFINE pay == SubSeq(file, position + 4, position + 2 + n)
<1>6. pay \in Seq(Byte) /\ Len(pay) = n - 1 /\ file[position + 3] \in Byte
  <2> DEFINE first == position + 4
             last  == position + 2 + n
  <2>1. /\ first \in Nat \ {0} /\ last \in Nat
        /\ first <= last + 1 /\ last <= Len(file)
        /\ (last - first) + 1 = n - 1
        /\ file[position + 3] \in Byte
    BY <1>1, <1>3, <1>5
  <2>2. pay = SubSeq(file, first, last)
    OBVIOUS
  <2> HIDE DEF pay, first, last
  <2>3. SubSeq(file, first, last) \in Seq(Byte)
        /\ Len(SubSeq(file, first, last)) = (last - first) + 1
    BY <1>1, <2>1, PieceOfBytes
  <2> QED
    BY <2>1, <2>2, <2>3
<1>7. /\ msg \in FileMessage /\ CutAt(msg, position) /\ Len(msg.payload) = n - 1
  <2>1. /\ msg.payload = SubSeq(file, position + 4, position + 2 + n)
        /\ msg.type = file[position + 3]
    OBVIOUS
  <2>2. CutAt(msg, position)
    BY <1>3, <1>5, <2>1 DEF CutAt, WholeAt, n
  <2>3. msg = [type |-> file[position + 3], payload |-> pay]
    OBVIOUS
  <2> HIDE DEF pay, msg
  <2>4. [type |-> file[position + 3], payload |-> pay] \in FileMessage
    BY <1>6 DEF FileMessage
  <2>5. Len(msg.payload) = n - 1
    BY <1>6, <2>1 DEF pay
  <2> QED
    BY <2>2, <2>3, <2>4, <2>5
<1> HIDE DEF msg, pay
<1>8. /\ messages' \in Seq(FileMessage)
      /\ Len(messages) \in Nat /\ Len(messages') = Len(messages) + 1
      /\ \A k \in 1 .. Len(messages) : messages'[k] = messages[k]
      /\ messages'[Len(messages) + 1] = msg
      /\ \A k \in 0 .. Len(messages) : Ends(messages', k) = Ends(messages, k)
      /\ Ends(messages', Len(messages) + 1)
            = Ends(messages, Len(messages)) + 3 + Len(msg.payload)
  BY <1>4, <1>7, EndsKept DEF ReaderInv
<1>9. Ends(messages', Len(messages')) = position' /\ position' \in Nat /\ position' <= Len(file)
  BY <1>1, <1>3, <1>4, <1>5, <1>7, <1>8 DEF ReaderInv
<1>10. ASSUME NEW k \in 1 .. Len(messages')
       PROVE  CutAt(messages'[k], Ends(messages', k - 1))
  <2>1. CASE k \in 1 .. Len(messages)
    <3>1. k - 1 \in 0 .. Len(messages)
      BY <1>8, <2>1
    <3> QED
      BY <1>8, <2>1, <3>1 DEF ReaderInv
  <2>2. CASE k = Len(messages) + 1
    <3>1. k - 1 = Len(messages) /\ Len(messages) \in 0 .. Len(messages)
      BY <1>8, <2>2
    <3> QED
      BY <1>7, <1>8, <2>2, <3>1 DEF ReaderInv
  <2> QED
    BY <1>8, <2>1, <2>2
<1>11. ASSUME NEW k \in 1 .. Len(messages')
       PROVE  CutAt(messages[k], Ends(messages, k - 1))'
  BY <1>4, <1>10 DEF CutAt, WholeAt, LengthAt
<1> QED
  BY <1>4, <1>8, <1>9, <1>11 DEF ReaderInv

-----------------------------------------------------------------------------
\* The messages, as the engine gets them.

LEMMA PayloadOf ==
  ASSUME ReaderInv, NEW k \in 1 .. Len(messages)
  PROVE  /\ messages[k] \in FileMessage /\ messages[k].type \in Byte
         /\ messages[k].payload \in Seq(Byte) /\ Len(messages[k].payload) \in Nat
         /\ \A i \in 1 .. Len(messages[k].payload) : messages[k].payload[i] \in Byte
<1>1. messages[k] \in FileMessage
  BY ElementOfSeq DEF ReaderInv
<1>2. messages[k].type \in Byte /\ messages[k].payload \in Seq(Byte)
  BY <1>1 DEF FileMessage
<1> DEFINE p == messages[k].payload
<1> HIDE DEF p
<1>3. p \in Seq(Byte)
  BY <1>2 DEF p
<1>4. Len(p) \in Nat /\ \A i \in 1 .. Len(p) : p[i] \in Byte
  BY <1>3, LenProperties, ElementOfSeq
<1> QED
  BY <1>1, <1>2, <1>4 DEF p

\* A whole header of the stock traded begins with a reference that is looked up.
LEMMA ReferenceOf ==
  ASSUME ReaderInv, NEW k \in 1 .. Len(messages),
         8 <= Len(messages[k].payload),
         extract_uint16(messages[k].payload, 0) = TARGET_LOCATE
  PROVE  /\ SubSeq(messages[k].payload, 1, 8) \in OrderIds
         /\ extract_uint16(SubSeq(messages[k].payload, 1, 8), 0) = TARGET_LOCATE
<1> DEFINE at == Ends(messages, k - 1)
           n  == LengthAt(at)
           p  == messages[k].payload
           first == at + 4
           last  == at + 2 + n
<1>1. /\ file \in Seq(Byte) /\ Len(file) \in Nat
      /\ \A i \in 1 .. Len(file) : file[i] \in Byte
  BY FilesAreBytes DEF ReaderInv
<1>2. at \in Nat
  <2>1. k - 1 \in 0 .. Len(messages) /\ messages \in Seq(FileMessage)
    BY DEF ReaderInv
  <2> HIDE DEF at
  <2>2. Ends(messages, k - 1) \in Nat
    BY <2>1, EndsAdd
  <2> QED
    BY <2>2 DEF at
<1>3. CutAt(messages[k], at)
  BY DEF ReaderInv
<1> HIDE DEF at
<1>4. /\ at + 2 <= Len(file) /\ n > 0 /\ at + 2 + n <= Len(file)
      /\ p = SubSeq(file, at + 4, at + 2 + n)
  BY <1>3 DEF CutAt, WholeAt
<1>5. n \in Nat
  BY <1>1, <1>2, <1>4, FilesAreBytes DEF ReaderInv
<1>6. /\ first \in Nat \ {0} /\ last \in Nat /\ first <= last + 1 /\ last <= Len(file)
      /\ (last - first) + 1 = n - 1
  BY <1>1, <1>2, <1>4, <1>5
<1>7. p = SubSeq(file, first, last)
  BY <1>4
<1> HIDE DEF n, p, first, last
<1>8. Len(p) = (last - first) + 1
      /\ \A i \in 1 .. (last - first) + 1 : p[i] = file[first + i - 1]
  BY <1>1, <1>6, <1>7, PieceOfBytes
<1>9. 8 <= (last - first) + 1 /\ 1 \in 1 .. (last - first) + 1 /\ 2 \in 1 .. (last - first) + 1
      /\ last - first + 1 = (last - first) + 1 /\ 8 \in 1 .. last - first + 1
      /\ 1 \in 1 .. last - first + 1
      /\ first \in 1 .. Len(file) /\ last \in 1 .. Len(file)
      /\ first + 1 - 1 = first /\ first + 2 - 1 = first + 1 /\ first + 8 - 1 = first + 7
  BY <1>1, <1>6, <1>8 DEF p
<1>10. p[1] = file[first] /\ p[2] = file[first + 1]
  BY <1>8, <1>9
<1>11. SubSeq(p, 1, 8) = SubSeq(file, first, first + 7)
  <2>1. SubSeq(SubSeq(file, first, last), 1, 8) = SubSeq(file, first + 1 - 1, first + 8 - 1)
    BY <1>1, <1>9, SubSeqOfSubSeq
  <2> QED
    BY <1>7, <1>9, <2>1
<1>12. extract_uint16(file, first - 1) = TARGET_LOCATE
  <2>1. extract_uint16(file, first - 1) = 256 * file[(first - 1) + 1] + file[(first - 1) + 2]
    BY DEF extract_uint16
  <2>2. (first - 1) + 1 = first /\ (first - 1) + 2 = first + 1
    BY <1>6
  <2>3. extract_uint16(p, 0) = 256 * p[1] + p[2]
    BY DEF extract_uint16
  <2>4. extract_uint16(p, 0) = TARGET_LOCATE
    BY DEF p
  <2> QED
    BY <1>10, <2>1, <2>2, <2>3, <2>4
<1>13. SubSeq(p, 1, 8) \in OrderIds
  <2>1. first \in 1 .. Len(file) - 7
    BY <1>1, <1>6, <1>9
  <2>2. SubSeq(file, first, first + 7) \in OrderIds
    BY <1>12, <2>1, FilesAssumption DEF ReaderInv
  <2> QED
    BY <1>11, <2>2
<1>14. SubSeq(p, 1, 8)[1] = p[1] /\ SubSeq(p, 1, 8)[2] = p[2]
  <2>1. p \in Seq(Byte) /\ 8 <= Len(p)
    BY PayloadOf DEF p
  <2>2. 1 \in Nat \ {0} /\ 8 \in Nat /\ 1 <= 8 + 1 /\ (8 - 1) + 1 = 8
        /\ 1 + 1 - 1 = 1 /\ 1 + 2 - 1 = 2 /\ 1 \in 1 .. 8 /\ 2 \in 1 .. 8
    OBVIOUS
  <2>3. \A i \in 1 .. (8 - 1) + 1 : SubSeq(p, 1, 8)[i] = p[1 + i - 1]
    BY <2>1, <2>2, PieceOfBytes
  <2> QED
    BY <2>2, <2>3
<1>15. extract_uint16(SubSeq(p, 1, 8), 0) = TARGET_LOCATE
  <2>1. extract_uint16(SubSeq(p, 1, 8), 0) = 256 * SubSeq(p, 1, 8)[1] + SubSeq(p, 1, 8)[2]
    BY DEF extract_uint16
  <2>2. extract_uint16(p, 0) = 256 * p[1] + p[2]
    BY DEF extract_uint16
  <2> QED
    BY <1>14, <2>1, <2>2 DEF p
<1> QED
  BY <1>13, <1>15 DEF p

LEMMA LengthsByType ==
  /\ \A type \in {Char.A, Char.F} : real!MinLength(type) = 35
  /\ \A type \in {Char.E, Char.C, Char.X} : real!MinLength(type) = 20
  /\ real!MinLength(Char.D) = 8
<1>1. real!MinLength(65) = 35 /\ real!MinLength(70) = 35
  BY DEF real!MinLength, real!Char
<1>2. real!MinLength(69) = 20 /\ real!MinLength(67) = 20 /\ real!MinLength(88) = 20
  BY DEF real!MinLength, real!Char
<1>3. real!MinLength(68) = 8
  BY DEF real!MinLength, real!Char
<1> QED
  BY <1>1, <1>2, <1>3 DEF Char

\* What a message of one of the four types can say to the engine.
LEMMA SharesOfMessage ==
  ASSUME ReaderInv, NEW k \in 1 .. Len(messages)
  PROVE  /\ real!shares(messages[k]) \in Nat
         /\ real!SharesBy(messages[k]) \in Nat /\ real!SharesBy(messages[k]) <= FourBytes
<1> DEFINE m == messages[k]
           p == m.payload
<1>1. Len(p) \in Nat /\ \A i \in 1 .. Len(p) : p[i] \in Byte
  BY PayloadOf
<1>2. FourBytes \in Nat
  BY DEF FourBytes
<1>3. ASSUME NEW at \in {8, 14}, at + 4 <= Len(p)
      PROVE  /\ real!extract_uint32(p, at) \in Nat
             /\ real!extract_uint32(p, at) <= FourBytes
  <2>1. at \in Nat /\ \A j \in 1 .. 4 : p[at + j] \in Byte
    BY <1>1, <1>3
  <2> HIDE DEF p
  <2>2. extract_uint32(p, at) \in Nat /\ extract_uint32(p, at) < FourBytes
    BY <2>1, Uint32Range
  <2>3. extract_uint32(p, at) <= FourBytes
    BY <1>2, <2>2
  <2> QED
    BY <2>2, <2>3, SameBytes
<1>4. Char.A # Char.E /\ Char.A # Char.C /\ Char.A # Char.X
      /\ Char.F # Char.E /\ Char.F # Char.C /\ Char.F # Char.X
  BY DEF Char
<1> HIDE DEF m, p
<1>5. real!shares(m) \in Nat
  <2>1. CASE real!HasFields(m) /\ m.type \in {Char.A, Char.F}
    <3>1. real!MinLength(m.type) = 35
      BY <2>1, LengthsByType
    <3>2. Len(p) >= real!MinLength(m.type)
      BY <2>1 DEF real!HasFields, p
    <3>3. 14 + 4 <= Len(p)
      BY <1>1, <3>1, <3>2
    <3>4. real!shares(m) = real!extract_uint32(p, 14)
      BY <1>4, <2>1, SameBytes DEF real!shares, p
    <3> QED
      BY <1>3, <3>3, <3>4
  <2>2. CASE real!HasFields(m) /\ m.type \in {Char.E, Char.C, Char.X}
    <3>1. real!MinLength(m.type) = 20
      BY <2>2, LengthsByType
    <3>2. Len(p) >= real!MinLength(m.type)
      BY <2>2 DEF real!HasFields, p
    <3>3. 8 + 4 <= Len(p)
      BY <1>1, <3>1, <3>2
    <3>4. real!shares(m) = real!extract_uint32(p, 8)
      BY <1>4, <2>2, SameBytes DEF real!shares, p
    <3> QED
      BY <1>3, <3>3, <3>4
  <2>3. CASE ~(real!HasFields(m) /\ m.type \in {Char.A, Char.F})
             /\ ~(real!HasFields(m) /\ m.type \in {Char.E, Char.C, Char.X})
    BY <2>3, SameBytes DEF real!shares
  <2> QED
    BY <2>1, <2>2, <2>3
<1>6. real!SharesBy(m) \in Nat /\ real!SharesBy(m) <= FourBytes
  <2>1. CASE /\ m.type = real!Char.A /\ Len(p) >= 35
             /\ real!extract_uint16(p, 0) = TARGET_LOCATE
    <3>1. 14 + 4 <= Len(p)
      BY <1>1, <2>1
    <3>2. real!SharesBy(m) = real!extract_uint32(p, 14)
      BY <2>1 DEF real!SharesBy, p
    <3> QED
      BY <1>3, <3>1, <3>2
  <2>2. CASE ~(/\ m.type = real!Char.A /\ Len(p) >= 35
               /\ real!extract_uint16(p, 0) = TARGET_LOCATE)
    <3>1. real!SharesBy(m) = 0
      BY <2>2 DEF real!SharesBy, p
    <3>2. 0 <= FourBytes
      BY <1>2
    <3> QED
      BY <3>1, <3>2
  <2> QED
    BY <2>1, <2>2
<1> QED
  BY <1>5, <1>6 DEF m

\* What the header of a message of the four types the engine acts on says.
LEMMA HeaderOfMessage ==
  ASSUME ReaderInv, NEW k \in 1 .. Len(messages),
         real!EngineType(messages[k].type) \in {"A", "D", "X", "E"},
         real!locate_code(messages[k]) = TARGET_LOCATE
  PROVE  /\ real!order_id(messages[k]) \in OrderIds
         /\ \/ /\ real!order_id(messages[k]) = real!NoReference
               /\ ~real!HasFields(messages[k])
               /\ real!shares(messages[k]) = 0 /\ real!side(messages[k]) = 0
            \/ /\ real!HasFields(messages[k])
               /\ real!order_id(messages[k]) = SubSeq(messages[k].payload, 1, 8)
               /\ extract_uint16(real!order_id(messages[k]), 0) = TARGET_LOCATE
               /\ extract_uint16(messages[k].payload, 0) = TARGET_LOCATE
<1> DEFINE m == messages[k]
           p == m.payload
<1>1. Len(p) \in Nat
  BY PayloadOf
<1>2. m.type \in {Char.A, Char.D, Char.X, Char.E}
  BY SameBytes DEF real!EngineType
<1>3. CASE ~real!HasFields(m)
  <2>1. real!order_id(m) = real!NoReference /\ real!shares(m) = 0 /\ real!side(m) = 0
    BY <1>3 DEF real!order_id, real!shares, real!side
  <2> QED
    BY <1>3, <2>1, FilesAssumption
<1>4. CASE real!HasFields(m)
  <2>1. real!MinLength(m.type) >= 8
    BY <1>2, LengthsByType
  <2>2. real!MinLength(m.type) \in Nat
    BY <1>2, LengthsByType
  <2>3. Len(p) >= real!MinLength(m.type)
    BY <1>4 DEF real!HasFields
  <2>4. 8 <= Len(p) /\ Len(p) >= 4
    BY <1>1, <2>1, <2>2, <2>3
  <2>5. extract_uint16(p, 0) = TARGET_LOCATE
    BY <2>4, SameBytes DEF real!locate_code
  <2>6. real!order_id(m) = SubSeq(p, 1, 8)
    BY <1>4 DEF real!order_id, real!extract_uint64
  <2>7. SubSeq(p, 1, 8) \in OrderIds /\ extract_uint16(SubSeq(p, 1, 8), 0) = TARGET_LOCATE
    BY <2>4, <2>5, ReferenceOf
  <2> QED
    BY <1>4, <2>5, <2>6, <2>7
<1> QED
  BY <1>3, <1>4

-----------------------------------------------------------------------------
\* The book of the engine.

Entry == [side : Byte, shares : Nat]

\* What some message among the first n says of an order.
Backed(id, entry, ms, n) ==
    \/ id = real!NoReference /\ entry.shares = 0
    \/ /\ extract_uint16(id, 0) = TARGET_LOCATE
       /\ \E i \in 1 .. n :
             /\ ms[i].type = Char.A /\ Len(ms[i].payload) >= 35
             /\ SubSeq(ms[i].payload, 1, 8) = id
             /\ entry.side = ms[i].payload[14]
             /\ entry.shares <= extract_uint32(ms[i].payload, 14)

\* The inductive invariant for the book.
BookInv ==
    /\ order_book \in [OrderIds -> Entry \cup {Null}]
    /\ next \in Nat /\ next <= Len(messages)
    /\ next > 0 => next <= real_messages
    /\ turn # "real_itch" => next = 0
    /\ \A id \in OrderIds :
          order_book[id] # Null => Backed(id, order_book[id], messages, next)

LEMMA BookInvIsWholeAdds == BookInv => BookIsOfWholeAdds
  BY SameBytes DEF BookInv, BookIsOfWholeAdds, real!BookIsOfWholeAdds, Backed

LEMMA NullIsNoEntry == Null \notin Entry
  BY FilesAssumption DEF Entry

\* The message the engine is at.
Message == messages[next + 1]

\* A message is added to the book: the shares are those of a whole Add, or none.
Grows(entry) ==
    /\ entry \in Entry
    /\ entry.shares <= real!SharesBy(Message)
    /\ Backed(real!order_id(Message), entry, messages, next + 1)
    /\ order_book' = [order_book EXCEPT ![real!order_id(Message)] = entry]
    /\ real!AddDepth(entry.side, entry.shares)

\* Some or all shares of an order leave the book.
Shrinks(entry, gone) ==
    LET old == order_book[real!order_id(Message)] IN
    /\ old # Null /\ gone \in Nat
    /\ \/ entry = Null /\ gone = old.shares
       \/ /\ entry \in Entry /\ entry.side = old.side
          /\ old.shares = gone + entry.shares
    /\ order_book' = [order_book EXCEPT ![real!order_id(Message)] = entry]
    /\ real!SubtractDepth(old.side, gone)

Rests == UNCHANGED <<order_book, bid_depth, ask_depth>>

LEMMA MessageIsThere ==
  ASSUME ReaderInv, BookInv, RunEngine
  PROVE  /\ next + 1 \in 1 .. Len(messages) /\ next + 1 <= real_messages
         /\ next' = next + 1 /\ messages' = messages /\ file' = file
         /\ position' = position /\ turn = "real_itch" /\ turn' = turn
         /\ real!process_message(Message)
<1>1. /\ real_messages \in Int /\ Len(messages) \in Nat
      /\ next \in Nat
  BY ReadersAssumption, LenProperties DEF ReaderInv, BookInv
<1>2. next < real!process_count
  BY DEF RunEngine, real!ProcessNext
<1>3. next < real_messages /\ next < Len(messages)
  BY <1>1, <1>2 DEF real!process_count, real!AtMost
<1>4. next + 1 \in 1 .. Len(messages) /\ next + 1 <= real_messages
  BY <1>1, <1>3
<1> QED
  BY <1>4 DEF RunEngine, real!ProcessNext, Message

LEMMA AddGrows ==
  ASSUME ReaderInv, BookInv, next + 1 \in 1 .. Len(messages),
         real!EngineType(Message.type) = "A", real!locate_code(Message) = TARGET_LOCATE,
         real!process_add_order(real!side(Message), real!price(Message),
                                real!shares(Message), real!order_id(Message))
  PROVE  \E entry : Grows(entry)
<1> DEFINE entry == [side |-> real!side(Message), shares |-> real!shares(Message)]
           id == real!order_id(Message)
<1>1. /\ order_book' = [order_book EXCEPT ![id] = entry]
      /\ real!AddDepth(entry.side, entry.shares)
  BY DEF real!process_add_order
<1>2. Message.type = Char.A
  BY SameBytes DEF real!EngineType
<1>3. real!shares(Message) \in Nat /\ real!SharesBy(Message) \in Nat
  BY SharesOfMessage DEF Message
<1>4. /\ Len(Message.payload) \in Nat
      /\ \A i \in 1 .. Len(Message.payload) : Message.payload[i] \in Byte
  BY PayloadOf DEF Message
<1>5. CASE ~real!HasFields(Message)
  <2>1. id = real!NoReference /\ real!shares(Message) = 0 /\ real!side(Message) = 0
    BY <1>5, HeaderOfMessage DEF Message
  <2>2. entry \in Entry /\ entry.shares = 0
    BY <2>1 DEF Entry, Byte
  <2>3. Backed(id, entry, messages, next + 1)
    BY <2>1, <2>2 DEF Backed
  <2>4. entry.shares <= real!SharesBy(Message)
    BY <1>3, <2>2
  <2> HIDE DEF entry
  <2> QED
    BY <1>1, <2>2, <2>3, <2>4 DEF Grows
<1>6. CASE real!HasFields(Message)
  <2>1. /\ id = SubSeq(Message.payload, 1, 8)
        /\ extract_uint16(id, 0) = TARGET_LOCATE
        /\ extract_uint16(Message.payload, 0) = TARGET_LOCATE
    BY <1>6, HeaderOfMessage DEF Message
  <2>2. Len(Message.payload) >= 35
    BY <1>2, <1>6, LengthsByType DEF real!HasFields
  <2>3. real!side(Message) = Message.payload[14] /\ Message.payload[14] \in Byte
    <3>1. real!side(Message) = Message.payload[14]
      BY <1>2, <1>6, SameBytes DEF real!side
    <3>2. 14 \in 1 .. Len(Message.payload)
      BY <1>4, <2>2
    <3> QED
      BY <1>4, <3>1, <3>2
  <2>4. real!shares(Message) = extract_uint32(Message.payload, 14)
    <3>1. Char.A # Char.E /\ Char.A # Char.C /\ Char.A # Char.X
      BY DEF Char
    <3>2. real!shares(Message) = real!extract_uint32(Message.payload, 14)
      BY <1>2, <1>6, <3>1, SameBytes DEF real!shares
    <3> QED
      BY <3>2, SameBytes
  <2>5. real!SharesBy(Message) = extract_uint32(Message.payload, 14)
    BY <1>2, <2>1, <2>2, SameBytes DEF real!SharesBy
  <2>6. /\ entry \in Entry /\ entry.side = Message.payload[14]
        /\ entry.shares = extract_uint32(Message.payload, 14)
        /\ entry.shares \in Nat
    BY <1>3, <2>3, <2>4 DEF Entry
  <2> HIDE DEF entry, id
  <2>7. entry.shares <= extract_uint32(Message.payload, 14)
    BY <2>6
  <2>8. Backed(id, entry, messages, next + 1)
    <3>1. next + 1 \in 1 .. next + 1
      BY DEF BookInv
    <3> QED
      BY <1>2, <2>1, <2>2, <2>6, <2>7, <3>1 DEF Backed, Message
  <2>9. entry.shares <= real!SharesBy(Message)
    BY <2>5, <2>6
  <2> QED
    BY <1>1, <2>6, <2>8, <2>9 DEF Grows, id
<1> QED
  BY <1>5, <1>6

LEMMA CancelShrinks ==
  ASSUME BookInv, NEW cancelled \in Nat, real!order_id(Message) \in OrderIds,
         real!process_cancel_order(real!order_id(Message), cancelled)
  PROVE  Rests \/ \E entry, gone : Shrinks(entry, gone)
<1> DEFINE id  == real!order_id(Message)
           old == order_book[id]
<1>1. CASE real!Unknown(id)
  BY <1>1 DEF real!Unknown, Rests
<1>2. CASE old # Null
  <2>1. old \in Entry /\ old.shares \in Nat /\ old.side \in Byte
    <3>1. old \in Entry
      BY <1>2 DEF BookInv
    <3> QED
      BY <3>1 DEF Entry
  <2>2. CASE /\ real!SubtractDepth(old.side, old.shares)
             /\ order_book' = [order_book EXCEPT ![id] = Null]
    <3>1. Shrinks(Null, old.shares)
      BY <1>2, <2>1, <2>2 DEF Shrinks
    <3> QED
      BY <3>1
  <2>3. CASE /\ old.shares > cancelled
             /\ order_book' = [order_book EXCEPT ![id].shares = @ - cancelled]
             /\ real!SubtractDepth(old.side, cancelled)
    <3> DEFINE entry == [old EXCEPT !.shares = @ - cancelled]
    <3>1. /\ entry \in Entry /\ entry.side = old.side
          /\ entry.shares = old.shares - cancelled
      BY <2>1, <2>3 DEF Entry
    <3>2. order_book' = [order_book EXCEPT ![id] = entry]
      BY <2>3
    <3> HIDE DEF entry
    <3>3. old.shares = cancelled + entry.shares
      BY <2>1, <3>1
    <3>4. Shrinks(entry, cancelled)
      BY <1>2, <2>3, <3>1, <3>2, <3>3 DEF Shrinks
    <3> QED
      BY <3>4
  <2> QED
    BY <1>2, <2>2, <2>3 DEF real!process_cancel_order, real!Unknown
<1> QED
  BY <1>1, <1>2 DEF real!process_cancel_order

LEMMA DeleteShrinks ==
  ASSUME BookInv, real!order_id(Message) \in OrderIds,
         real!process_delete_order(real!order_id(Message))
  PROVE  Rests \/ \E entry, gone : Shrinks(entry, gone)
<1> DEFINE id  == real!order_id(Message)
           old == order_book[id]
<1>1. CASE real!Unknown(id)
  BY <1>1 DEF real!Unknown, Rests
<1>2. CASE /\ old # Null
           /\ real!SubtractDepth(old.side, old.shares)
           /\ order_book' = [order_book EXCEPT ![id] = Null]
  <2>1. old \in Entry
    BY <1>2 DEF BookInv
  <2>2. old.shares \in Nat
    BY <2>1 DEF Entry
  <2>3. Shrinks(Null, old.shares)
    BY <1>2, <2>2 DEF Shrinks
  <2> QED
    BY <2>3
<1> QED
  BY <1>1, <1>2 DEF real!process_delete_order

\* Whatever a message says, this is what it does.
LEMMA EngineSteps ==
  ASSUME ReaderInv, BookInv, RunEngine
  PROVE  \/ Rests
         \/ /\ real!order_id(Message) \in OrderIds
            /\ (\E entry : Grows(entry)) \/ (\E entry, gone : Shrinks(entry, gone))
<1>1. next + 1 \in 1 .. Len(messages) /\ real!process_message(Message)
  BY MessageIsThere
<1> DEFINE type == real!EngineType(Message.type)
           id   == real!order_id(Message)
<1>2. real!process_itch_message(type, real!locate_code(Message), real!side(Message),
                                real!price(Message), real!shares(Message), id)
  BY <1>1 DEF real!process_message
<1> HIDE DEF type
<1>3. CASE real!Ignore(type, real!locate_code(Message))
  BY <1>3 DEF real!Ignore, Rests
<1>4. CASE real!locate_code(Message) = TARGET_LOCATE /\ type \in {"A", "D", "X", "E"}
  <2>1. id \in OrderIds
    BY <1>1, <1>4, HeaderOfMessage DEF type, Message
  <2>2. real!shares(Message) \in Nat
    BY <1>1, SharesOfMessage DEF Message
  <2>3. CASE type = "A" /\ real!process_add_order(real!side(Message), real!price(Message),
                                                  real!shares(Message), id)
    BY <1>1, <1>4, <2>1, <2>3, AddGrows DEF type
  <2>4. CASE real!process_delete_order(id)
    BY <2>1, <2>4, DeleteShrinks
  <2>5. CASE real!process_cancel_order(id, real!shares(Message))
    BY <2>1, <2>2, <2>5, CancelShrinks
  <2>6. real!process_execute_order(id, real!shares(Message))
           <=> real!process_cancel_order(id, real!shares(Message))
    BY DEF real!process_execute_order
  <2> QED
    BY <1>2, <1>3, <2>3, <2>4, <2>5, <2>6 DEF real!process_itch_message
<1> QED
  BY <1>2, <1>3, <1>4 DEF real!process_itch_message

LEMMA BackedByMore ==
  \A id, ms : \A n \in Nat : \A entry, part \in Entry :
     /\ Backed(id, entry, ms, n) /\ part.side = entry.side /\ part.shares <= entry.shares
     /\ \A i \in 1 .. n : Len(ms[i].payload) >= 35 =>
           extract_uint32(ms[i].payload, 14) \in Nat
     => Backed(id, part, ms, n + 1)
<1> SUFFICES ASSUME NEW id, NEW ms, NEW n \in Nat, NEW entry \in Entry, NEW part \in Entry,
                    Backed(id, entry, ms, n), part.side = entry.side,
                    part.shares <= entry.shares,
                    \A i \in 1 .. n : Len(ms[i].payload) >= 35 =>
                       extract_uint32(ms[i].payload, 14) \in Nat
             PROVE  Backed(id, part, ms, n + 1)
  OBVIOUS
<1>1. entry.shares \in Nat /\ part.shares \in Nat
  BY DEF Entry
<1>2. CASE id = real!NoReference /\ entry.shares = 0
  BY <1>1, <1>2 DEF Backed
<1>3. CASE ~(id = real!NoReference /\ entry.shares = 0)
  <2>1. PICK i \in 1 .. n :
           /\ ms[i].type = Char.A /\ Len(ms[i].payload) >= 35
           /\ SubSeq(ms[i].payload, 1, 8) = id
           /\ entry.side = ms[i].payload[14]
           /\ entry.shares <= extract_uint32(ms[i].payload, 14)
    BY <1>3 DEF Backed
  <2>2. extract_uint16(id, 0) = TARGET_LOCATE
    BY <1>3 DEF Backed
  <2>3. i \in 1 .. n + 1
    OBVIOUS
  <2>4. extract_uint32(ms[i].payload, 14) \in Nat
    BY <2>1
  <2>5. part.shares <= extract_uint32(ms[i].payload, 14)
    BY <1>1, <2>1, <2>4
  <2> QED
    BY <2>1, <2>2, <2>3, <2>5 DEF Backed
<1> QED
  BY <1>2, <1>3

LEMMA LongSharesType ==
  ASSUME ReaderInv
  PROVE  \A i \in 1 .. Len(messages) : Len(messages[i].payload) >= 35 =>
            extract_uint32(messages[i].payload, 14) \in Nat
<1> SUFFICES ASSUME NEW i \in 1 .. Len(messages), Len(messages[i].payload) >= 35
             PROVE  extract_uint32(messages[i].payload, 14) \in Nat
  OBVIOUS
<1> DEFINE p == messages[i].payload
<1>1. Len(p) \in Nat /\ \A k \in 1 .. Len(p) : p[k] \in Byte
  BY PayloadOf
<1>2. 14 \in Nat /\ \A k \in 1 .. 4 : p[14 + k] \in Byte
  BY <1>1
<1> HIDE DEF p
<1>3. extract_uint32(p, 14) \in Nat
  BY <1>2, Uint32Range
<1> QED
  BY <1>3 DEF p

LEMMA EngineBookInv ==
  ASSUME ReaderInv, BookInv, RunEngine
  PROVE  BookInv'
<1> DEFINE id == real!order_id(Message)
<1>1. /\ next + 1 \in 1 .. Len(messages) /\ next + 1 <= real_messages
      /\ next' = next + 1 /\ messages' = messages
      /\ turn = "real_itch" /\ turn' = turn
      /\ next \in Nat /\ next <= Len(messages) /\ Len(messages) \in Nat
  BY MessageIsThere, LenProperties DEF BookInv, ReaderInv
<1>2. \A i \in 1 .. next : Len(messages[i].payload) >= 35 =>
            extract_uint32(messages[i].payload, 14) \in Nat
  BY <1>1, LongSharesType
<1>3. ASSUME NEW o \in OrderIds, order_book[o] # Null
      PROVE  /\ order_book[o] \in Entry /\ order_book[o].shares \in Nat
             /\ Backed(o, order_book[o], messages, next + 1)
  <2>1. order_book[o] \in Entry /\ Backed(o, order_book[o], messages, next)
    BY <1>3 DEF BookInv
  <2>2. order_book[o].shares \in Nat /\ order_book[o].shares <= order_book[o].shares
    BY <2>1 DEF Entry
  <2>3. Backed(o, order_book[o], messages, next + 1)
    BY <1>1, <1>2, <2>1, <2>2, BackedByMore
  <2> QED
    BY <2>1, <2>2, <2>3
<1>4. SUFFICES /\ order_book' \in [OrderIds -> Entry \cup {Null}]
               /\ \A o \in OrderIds :
                     order_book'[o] # Null => Backed(o, order_book'[o], messages, next + 1)
  <2>1. next + 1 \in Nat /\ next + 1 <= Len(messages)
    BY <1>1
  <2> QED
    BY <1>1, <1>4, <2>1 DEF BookInv, Backed
<1>5. order_book \in [OrderIds -> Entry \cup {Null}]
  BY DEF BookInv
<1>6. CASE Rests
  BY <1>3, <1>5, <1>6 DEF Rests
<1>7. CASE id \in OrderIds /\ \E entry : Grows(entry)
  <2> PICK entry : Grows(entry)
    BY <1>7
  <2>1. /\ entry \in Entry /\ Backed(id, entry, messages, next + 1)
        /\ order_book' = [order_book EXCEPT ![id] = entry]
    BY DEF Grows
  <2> HIDE DEF id
  <2> QED
    BY <1>3, <1>5, <1>7, <2>1
<1>8. CASE id \in OrderIds /\ \E entry, gone : Shrinks(entry, gone)
  <2> PICK entry, gone : Shrinks(entry, gone)
    BY <1>8
  <2> DEFINE old == order_book[id]
  <2>1. /\ old # Null /\ gone \in Nat
        /\ \/ entry = Null
           \/ /\ entry \in Entry /\ entry.side = old.side
              /\ old.shares = gone + entry.shares
        /\ order_book' = [order_book EXCEPT ![id] = entry]
    BY DEF Shrinks
  <2>2. old \in Entry /\ old.shares \in Nat /\ Backed(id, old, messages, next)
    BY <1>3, <1>8, <2>1 DEF BookInv
  <2>3. CASE entry = Null
    <3> HIDE DEF id
    <3> QED
      BY <1>3, <1>5, <1>8, <2>1, <2>3
  <2>4. CASE entry # Null
    <3>1. entry \in Entry /\ entry.side = old.side /\ old.shares = gone + entry.shares
      BY <2>1, <2>4
    <3>2. entry.shares \in Nat
      BY <3>1 DEF Entry
    <3> HIDE DEF id, old
    <3>3. entry.shares <= old.shares
      BY <2>1, <2>2, <3>1, <3>2
    <3>4. Backed(id, entry, messages, next + 1)
      BY <1>1, <1>2, <2>2, <3>1, <3>3, BackedByMore
    <3> QED
      BY <1>3, <1>5, <1>8, <2>1, <3>1, <3>4
  <2> QED
    BY <2>3, <2>4
<1> QED
  BY <1>6, <1>7, <1>8, EngineSteps

\* Nothing else touches the engine, and it starts when the file has been read.
EngineStays ==
    /\ next = 0 /\ UNCHANGED engineVars
    /\ messages' \in Seq(FileMessage)

LEMMA StayBookInv ==
  ASSUME BookInv, EngineStays
  PROVE  BookInv'
<1>1. next' = 0 /\ next = 0 /\ order_book' = order_book
  BY DEF EngineStays, engineVars
<1>2. Len(messages') \in Nat
  BY LenProperties DEF EngineStays
<1>3. 1 .. 0 = {}
  OBVIOUS
<1>4. ASSUME NEW id \in OrderIds, order_book[id] # Null
      PROVE  Backed(id, order_book[id], messages', 0)
  <2>1. Backed(id, order_book[id], messages, 0)
    BY <1>1, <1>4 DEF BookInv
  <2> QED
    BY <1>3, <2>1 DEF Backed
<1>5. \A id \in OrderIds : (order_book[id] # Null => Backed(id, order_book[id], messages, next))'
  BY <1>1, <1>4 DEF Backed
<1> QED
  BY <1>1, <1>2, <1>5 DEF BookInv

\* The steps of the four programs, as the reader and the engine see them.
LEMMA ProgramSteps ==
  ASSUME ReaderInv, BookInv, FilesNext
  PROVE  \/ EngineStays /\ UNCHANGED <<file, position, messages>>
         \/ EngineStays /\ reader!ReadMessage
         \/ RunEngine
         \/ UNCHANGED allVars
<1>1. CASE RunParserTestbench
  <2>1. next = 0 /\ messages \in Seq(FileMessage)
    BY <1>1 DEF RunParserTestbench, BookInv, ReaderInv
  <2>2. file' = file
    BY <1>1 DEF RunParserTestbench, BenchNext, ResetTick, SettleTick, FeedTick, Summary
  <2> QED
    BY <1>1, <2>1, <2>2 DEF RunParserTestbench, EngineStays, readerVars
<1>2. CASE RunLatencyTestbench
  <2>1. next = 0 /\ messages \in Seq(FileMessage)
    BY <1>2 DEF RunLatencyTestbench, BookInv, ReaderInv
  <2>2. file' = file
    BY <1>2 DEF RunLatencyTestbench, latency!Next, latency!MeasureMessage,
             latency!StopMeasuring
  <2> QED
    BY <1>2, <2>1, <2>2 DEF RunLatencyTestbench, EngineStays, readerVars
<1>3. CASE RunReader
  <2>1. next = 0 /\ messages \in Seq(FileMessage) /\ UNCHANGED engineVars
    BY <1>3 DEF RunReader, BookInv, ReaderInv
  <2>2. CASE reader!ReadMessage
    <3>1. ReaderInv'
      BY <2>2, ReadMessageInv
    <3> QED
      BY <2>1, <2>2, <3>1 DEF EngineStays, ReaderInv
  <2>3. CASE reader!StopReading
    BY <2>1, <2>3 DEF reader!StopReading, EngineStays, readerVars
  <2> QED
    BY <1>3, <2>2, <2>3 DEF RunReader, reader!Next
<1> QED
  BY <1>1, <1>2, <1>3 DEF FilesNext, Finished

LEMMA InitReaderInv == FilesInit => ReaderInv
<1> SUFFICES ASSUME FilesInit
             PROVE  ReaderInv
  OBVIOUS
<1>1. file \in Files /\ position = 0 /\ messages = << >>
  BY DEF FilesInit, reader!Init
<1>2. Len(file) \in Nat
  BY <1>1, FilesAreBytes
<1>3. messages \in Seq(FileMessage) /\ Len(messages) = 0
  BY <1>1, EmptySeq
<1>4. Ends(messages, 0) = 0
  BY <1>3, EndsAdd
<1> QED
  BY <1>1, <1>2, <1>3, <1>4 DEF ReaderInv

LEMMA InitBookInv == FilesInit => BookInv
<1> SUFFICES ASSUME FilesInit
             PROVE  BookInv
  OBVIOUS
<1>1. /\ order_book = [id \in OrderIds |-> Null] /\ next = 0
      /\ messages = << >>
  BY DEF FilesInit, reader!Init, real!BenchInit, real!Init
<1>2. Len(messages) = 0
  BY <1>1
<1> QED
  BY <1>1, <1>2 DEF BookInv

LEMMA NextReaderInv == ReaderInv /\ BookInv /\ [FilesNext]_allVars => ReaderInv'
<1> SUFFICES ASSUME ReaderInv, BookInv, [FilesNext]_allVars
             PROVE  ReaderInv'
  OBVIOUS
<1>1. CASE UNCHANGED <<file, position, messages>>
  BY <1>1 DEF ReaderInv, CutAt, WholeAt, LengthAt
<1>2. CASE reader!ReadMessage
  BY <1>2, ReadMessageInv
<1>3. CASE RunEngine
  BY <1>1, <1>3, MessageIsThere
<1>4. UNCHANGED allVars => UNCHANGED <<file, position, messages>>
  BY DEF allVars, readerVars
<1> QED
  BY <1>1, <1>2, <1>3, <1>4, ProgramSteps

LEMMA NextBookInv == ReaderInv /\ BookInv /\ [FilesNext]_allVars => BookInv'
<1> SUFFICES ASSUME ReaderInv, BookInv, [FilesNext]_allVars
             PROVE  BookInv'
  OBVIOUS
<1>1. CASE EngineStays
  BY <1>1, StayBookInv
<1>2. CASE RunEngine
  BY <1>2, EngineBookInv
<1>3. CASE UNCHANGED allVars
  <2>1. UNCHANGED <<order_book, next, messages, turn>>
    BY <1>3 DEF allVars, readerVars, engineVars
  <2> QED
    BY <2>1 DEF BookInv, Backed
<1> QED
  BY <1>1, <1>2, <1>3, ProgramSteps

(***************************************************************************)
(* Whatever bytes a file is made of, every order in the software engine's  *)
(* book is some whole Add of the stock traded, or what is left of it,      *)
(* under the header of that message; what slips through the filter because *)
(* it is too short for a locate code leaves an empty order at most         *)
(* (real_itch_benchmark.cpp, lines 164 to 191, and the handlers of         *)
(* cpu_trading_engine.h).                                                  *)
(***************************************************************************)
THEOREM BookHoldsWholeAdds == FilesSpec => []BookIsOfWholeAdds
<1>1. FilesInit => ReaderInv /\ BookInv
  BY InitReaderInv, InitBookInv
<1>2. ReaderInv /\ BookInv /\ [FilesNext]_allVars => (ReaderInv /\ BookInv)'
  BY NextReaderInv, NextBookInv
<1> QED
  BY <1>1, <1>2, BookInvIsWholeAdds, PTL DEF FilesSpec

-----------------------------------------------------------------------------
\* The depths.

Added(ms, n) == SumFunctionOnSet([i \in 1 .. n |-> real!SharesBy(ms[i])], 1 .. n)

Asks == Byte \ {1}

\* The inductive invariant for the depths, on top of that for the book.
DepthInv ==
    /\ bid_depth \in Nat /\ ask_depth \in Nat
    /\ real!BookShares({1}) <= bid_depth /\ real!BookShares(Asks) <= ask_depth
    /\ bid_depth + ask_depth <= Added(messages, next)

LEMMA DepthInvIsWholeAdds == DepthInv => DepthIsOfWholeAdds
<1>1. Added(messages, next) = real!SharesAdded
  BY SameSums DEF Added, real!SharesAdded
<1> QED
  BY <1>1, SameBytes DEF DepthInv, DepthIsOfWholeAdds, real!DepthIsOfWholeAdds, Asks

\* Shares an order has on some sides, if it is one.
Held(entry, sides) == IF entry # Null /\ entry.side \in sides THEN entry.shares ELSE 0

LEMMA HeldType ==
  ASSUME NEW entry \in Entry \cup {Null}, NEW sides
  PROVE  Held(entry, sides) \in Nat
  BY DEF Held, Entry

LEMMA BookSharesStep ==
  ASSUME BookInv, NEW id \in OrderIds, NEW entry \in Entry \cup {Null}, NEW sides,
         order_book' = [order_book EXCEPT ![id] = entry]
  PROVE  /\ real!BookShares(sides) \in Nat /\ real!BookShares(sides)' \in Nat
         /\ real!BookShares(sides)' + Held(order_book[id], sides)
               = real!BookShares(sides) + Held(entry, sides)
<1> DEFINE before == real!SharesOn(sides)
           after  == real!SharesOn(sides)'
<1>1. /\ order_book \in [OrderIds -> Entry \cup {Null}]
      /\ order_book' \in [OrderIds -> Entry \cup {Null}]
      /\ order_book'[id] = entry
      /\ \A o \in OrderIds : o # id => order_book'[o] = order_book[o]
  BY DEF BookInv
<1>2. /\ \A o \in OrderIds : before[o] = Held(order_book[o], sides)
      /\ \A o \in OrderIds : after[o] = Held(order_book'[o], sides)
  BY DEF real!SharesOn, Held
<1>3. real!BookShares(sides) = SumFunctionOnSet(before, OrderIds)
      /\ real!BookShares(sides)' = SumFunctionOnSet(after, OrderIds)
  BY SameSums DEF real!BookShares
<1> HIDE DEF before, after
<1>4. \A o \in OrderIds : /\ before[o] \in Nat /\ after[o] \in Nat
                          /\ o # id => before[o] = after[o]
  BY <1>1, <1>2, HeldType
<1>5. /\ SumFunctionOnSet(after, OrderIds) \in Nat
      /\ SumFunctionOnSet(before, OrderIds) \in Nat
  BY <1>4, FilesAssumption, SumIsNat
<1>6. SumFunctionOnSet(after, OrderIds) + before[id]
          = SumFunctionOnSet(before, OrderIds) + after[id]
  BY <1>4, FilesAssumption, SumWithChange
<1> QED
  BY <1>1, <1>2, <1>3, <1>5, <1>6

LEMMA BookSharesType ==
  ASSUME BookInv, NEW sides
  PROVE  real!BookShares(sides) \in Nat
<1> DEFINE before == real!SharesOn(sides)
<1>1. \A o \in OrderIds : order_book[o] \in Entry \cup {Null}
  BY DEF BookInv
<1>2. \A o \in OrderIds : before[o] = Held(order_book[o], sides)
  BY DEF real!SharesOn, Held
<1>3. real!BookShares(sides) = SumFunctionOnSet(before, OrderIds)
  BY SameSums DEF real!BookShares
<1> HIDE DEF before
<1> QED
  BY <1>1, <1>2, <1>3, HeldType, FilesAssumption, SumIsNat

\* What the whole Adds bring, message by message, and in all.
LEMMA AddedStep ==
  ASSUME ReaderInv, NEW n \in Nat, n + 1 <= Len(messages)
  PROVE  /\ Added(messages, n) \in Nat
         /\ Added(messages, n + 1) = Added(messages, n) + real!SharesBy(messages[n + 1])
         /\ Added(messages, n + 1) <= FourBytes * (n + 1)
<1> DEFINE f == [i \in 1 .. n + 1 |-> real!SharesBy(messages[i])]
           g == [i \in 1 .. n |-> real!SharesBy(messages[i])]
<1>1. Len(messages) \in Nat
  BY LenProperties DEF ReaderInv
<1>2. \A i \in 1 .. n + 1 : f[i] \in Nat /\ f[i] \in Int /\ f[i] <= FourBytes
  BY <1>1, SharesOfMessage
<1>3. (\A i \in 1 .. n : g[i] = f[i]) /\ f[n + 1] = real!SharesBy(messages[n + 1])
  OBVIOUS
<1>4. \A i \in 1 .. n : g[i] \in Nat
  BY <1>2, <1>3
<1>5. /\ IsFiniteSet(1 .. n) /\ IsFiniteSet(1 .. n + 1)
      /\ Cardinality(1 .. n + 1) = n + 1
  BY FS_Interval
<1>6. FourBytes \in Nat
  BY DEF FourBytes
<1>7. Added(messages, n) = SumFunctionOnSet(g, 1 .. n)
      /\ Added(messages, n + 1) = SumFunctionOnSet(f, 1 .. n + 1)
  BY DEF Added
<1> HIDE DEF f, g
<1>8. SumFunctionOnSet(g, 1 .. n) \in Nat
  BY <1>4, <1>5, SumIsNat
<1>9. SumFunctionOnSet(f, 1 .. n + 1) = SumFunctionOnSet(g, 1 .. n) + f[n + 1]
  BY <1>2, <1>3, SumUpTo
<1>10. SumFunctionOnSet(f, 1 .. n + 1) <= FourBytes * Cardinality(1 .. n + 1)
  BY <1>2, <1>5, <1>6, SumIsBounded
<1> QED
  BY <1>3, <1>5, <1>7, <1>8, <1>9, <1>10

\* The messages of one run, each of at most a word of shares, fit in a depth.
DepthsFit == FourBytes * real_messages < WORD64

LEMMA EngineDepthInv ==
  ASSUME ReaderInv, BookInv, DepthInv, RunEngine, DepthsFit
  PROVE  DepthInv'
<1> DEFINE id == real!order_id(Message)
           brought == real!SharesBy(Message)
           most == FourBytes * (next + 1)
           bids == real!BookShares({1})
           asks == real!BookShares(Asks)
           bidsAfter == real!BookShares({1})'
           asksAfter == real!BookShares(Asks)'
<1>1. /\ next + 1 \in 1 .. Len(messages) /\ next + 1 <= real_messages
      /\ next' = next + 1 /\ messages' = messages
      /\ next \in Nat /\ Len(messages) \in Nat
  BY MessageIsThere, LenProperties DEF BookInv, ReaderInv
<1>2. /\ Added(messages, next) \in Nat /\ brought \in Nat
      /\ Added(messages, next + 1) = Added(messages, next) + brought
      /\ Added(messages, next + 1) <= most
  <2>1. next + 1 <= Len(messages)
    BY <1>1
  <2> QED
    BY <1>1, <2>1, AddedStep, SharesOfMessage DEF Message
<1>3. most \in Nat /\ most < WORD64 /\ WORD64 \in Nat \ {0}
  <2>1. FourBytes \in Nat
    BY DEF FourBytes
  <2>2. real_messages \in Nat /\ next + 1 \in Nat
    BY <1>1, ReadersAssumption
  <2>3. most \in Nat /\ FourBytes * real_messages \in Nat
    BY <2>1, <2>2
  <2>4. most <= FourBytes * real_messages
    BY <1>1, <2>1, <2>2, TimesMonotone
  <2>5. FourBytes * real_messages < WORD64 /\ WORD64 \in Nat \ {0}
    BY WordType DEF DepthsFit
  <2> HIDE DEF most
  <2> QED
    BY <2>3, <2>4, <2>5
<1>4. Added(messages, next)' = Added(messages, next + 1)
  BY <1>1 DEF Added
<1>5. /\ bid_depth \in Nat /\ ask_depth \in Nat
      /\ bids <= bid_depth /\ asks <= ask_depth
      /\ bid_depth + ask_depth <= Added(messages, next)
  BY DEF DepthInv
<1>6. bids \in Nat /\ asks \in Nat
  BY BookSharesType
<1>7. SUFFICES /\ bid_depth' \in Nat /\ ask_depth' \in Nat
               /\ bidsAfter <= bid_depth' /\ asksAfter <= ask_depth'
               /\ bid_depth' + ask_depth' <= bid_depth + ask_depth + brought
  <2> HIDE DEF brought, most, bids, asks, bidsAfter, asksAfter
  <2> DEFINE sum == Added(messages, next)
             more == Added(messages, next + 1)
  <2>1. more = sum + brought /\ sum \in Nat /\ brought \in Nat /\ bid_depth + ask_depth <= sum
    BY <1>2, <1>5
  <2>2. bid_depth \in Nat /\ ask_depth \in Nat
    BY <1>5
  <2>3. bid_depth' \in Nat /\ ask_depth' \in Nat
        /\ bid_depth' + ask_depth' <= bid_depth + ask_depth + brought
    BY <1>7
  <2> HIDE DEF sum, more
  <2>4. bid_depth' + ask_depth' <= more
    <3>1. \A a, b, c, d, x, y, z \in Nat :
             a + b <= c + d + x /\ c + d <= y /\ z = y + x => a + b <= z
      OBVIOUS
    <3>2. more \in Nat
      BY <2>1
    <3> QED
      BY <2>1, <2>2, <2>3, <3>1, <3>2
  <2>5. bid_depth' + ask_depth' <= Added(messages, next)'
    BY <1>4, <2>4 DEF more
  <2> QED
    BY <1>7, <2>5 DEF DepthInv, bidsAfter, asksAfter
<1>8. CASE Rests
  <2>1. bid_depth' = bid_depth /\ ask_depth' = ask_depth
    BY <1>8 DEF Rests
  <2>2. bidsAfter = bids /\ asksAfter = asks
    BY <1>8 DEF Rests, real!BookShares, real!SharesOn
  <2> HIDE DEF brought, most, bids, asks, bidsAfter, asksAfter
  <2> QED
    BY <1>2, <1>5, <2>1, <2>2
<1>9. CASE id \in OrderIds /\ \E entry : Grows(entry)
  <2> PICK entry : Grows(entry)
    BY <1>9
  <2> DEFINE n == entry.shares
             held == Held(order_book[id], {1})
             ask  == Held(order_book[id], Asks)
  <2>1. /\ entry \in Entry /\ n <= brought
        /\ order_book' = [order_book EXCEPT ![id] = entry]
        /\ real!AddDepth(entry.side, n)
    BY DEF Grows
  <2>2. n \in Nat /\ entry.side \in Byte /\ entry # Null
    BY <2>1, NullIsNoEntry DEF Entry
  <2>3. held \in Nat /\ ask \in Nat
    <3>1. order_book[id] \in Entry \cup {Null}
      BY <1>9 DEF BookInv
    <3> QED
      BY <3>1, HeldType
  <2>4. /\ bidsAfter \in Nat /\ bidsAfter + held = bids + Held(entry, {1})
        /\ asksAfter \in Nat /\ asksAfter + ask = asks + Held(entry, Asks)
    BY <1>9, <2>1, BookSharesStep
  <2>5. bid_depth + n \in Nat /\ bid_depth + n < WORD64
        /\ ask_depth + n \in Nat /\ ask_depth + n < WORD64
    <3> HIDE DEF n, brought, most
    <3> QED
      BY <1>2, <1>3, <1>5, <2>1, <2>2
  <2>6. CASE entry.side = 1
    <3>1. bid_depth' = bid_depth + n /\ ask_depth' = ask_depth
      BY <1>3, <2>1, <2>5, <2>6, ModSmall DEF real!AddDepth, real!U64
    <3>2. Held(entry, {1}) = n /\ Held(entry, Asks) = 0
      BY <2>2, <2>6 DEF Held, Asks
    <3> HIDE DEF n, brought, most, bids, asks, bidsAfter, asksAfter, held, ask
    <3> QED
      BY <1>2, <1>5, <1>6, <2>1, <2>2, <2>3, <2>4, <3>1, <3>2
  <2>7. CASE entry.side # 1
    <3>1. ask_depth' = ask_depth + n /\ bid_depth' = bid_depth
      BY <1>3, <2>1, <2>5, <2>7, ModSmall DEF real!AddDepth, real!U64
    <3>2. Held(entry, {1}) = 0 /\ Held(entry, Asks) = n
      BY <2>2, <2>7 DEF Held, Asks
    <3> HIDE DEF n, brought, most, bids, asks, bidsAfter, asksAfter, held, ask
    <3> QED
      BY <1>2, <1>5, <1>6, <2>1, <2>2, <2>3, <2>4, <3>1, <3>2
  <2> QED
    BY <2>6, <2>7
<1>10. CASE id \in OrderIds /\ \E entry, gone : Shrinks(entry, gone)
  <2> PICK entry, gone : Shrinks(entry, gone)
    BY <1>10
  <2> DEFINE old == order_book[id]
             left == IF entry = Null THEN 0 ELSE entry.shares
  <2>1. /\ old # Null /\ gone \in Nat
        /\ \/ entry = Null /\ gone = old.shares
           \/ entry \in Entry /\ entry.side = old.side /\ old.shares = gone + entry.shares
        /\ order_book' = [order_book EXCEPT ![id] = entry]
        /\ real!SubtractDepth(old.side, gone)
    BY DEF Shrinks
  <2>2. old \in Entry /\ old.side \in Byte /\ old.shares \in Nat
    <3>1. old \in Entry
      BY <1>10, <2>1 DEF BookInv
    <3> QED
      BY <3>1 DEF Entry
  <2>3. entry \in Entry \cup {Null} /\ left \in Nat /\ old.shares = gone + left
    <3>1. CASE entry = Null
      BY <2>1, <2>2, <3>1, NullIsNoEntry
    <3>2. CASE entry # Null
      <4>1. entry \in Entry /\ old.shares = gone + entry.shares
        BY <2>1, <3>2
      <4>2. entry.shares \in Nat
        BY <4>1 DEF Entry
      <4> QED
        BY <3>2, <4>1, <4>2
    <3> QED
      BY <3>1, <3>2
  <2>4. \A sides : /\ Held(old, sides) = IF old.side \in sides THEN old.shares ELSE 0
                   /\ Held(entry, sides) = IF old.side \in sides THEN left ELSE 0
    BY <2>1 DEF Held
  <2>5. /\ bidsAfter \in Nat /\ bidsAfter + Held(old, {1}) = bids + Held(entry, {1})
        /\ asksAfter \in Nat /\ asksAfter + Held(old, Asks) = asks + Held(entry, Asks)
    BY <1>10, <2>1, <2>3, BookSharesStep
  <2>6. CASE old.side = 1
    <3>1. /\ Held(old, {1}) = gone + left /\ Held(entry, {1}) = left
          /\ Held(old, Asks) = 0 /\ Held(entry, Asks) = 0
      BY <2>3, <2>4, <2>6 DEF Asks
    <3>2. bid_depth' = real!Less(bid_depth, gone) /\ ask_depth' = ask_depth
      BY <2>1, <2>6 DEF real!SubtractDepth
    <3> HIDE DEF old, left, brought, most, bids, asks, bidsAfter, asksAfter
    <3>3. bidsAfter + gone = bids /\ asksAfter = asks
      BY <1>6, <2>1, <2>3, <2>5, <3>1
    <3>4. bid_depth' = bid_depth - gone /\ bid_depth' \in Nat
      BY <1>5, <1>6, <2>1, <2>5, <3>2, <3>3 DEF real!Less
    <3> QED
      BY <1>2, <1>5, <1>6, <2>1, <2>5, <3>2, <3>3, <3>4
  <2>7. CASE old.side # 1
    <3>1. /\ Held(old, {1}) = 0 /\ Held(entry, {1}) = 0
          /\ Held(old, Asks) = gone + left /\ Held(entry, Asks) = left
      BY <2>2, <2>3, <2>4, <2>7 DEF Asks
    <3>2. ask_depth' = real!Less(ask_depth, gone) /\ bid_depth' = bid_depth
      BY <2>1, <2>7 DEF real!SubtractDepth
    <3> HIDE DEF old, left, brought, most, bids, asks, bidsAfter, asksAfter
    <3>3. asksAfter + gone = asks /\ bidsAfter = bids
      BY <1>6, <2>1, <2>3, <2>5, <3>1
    <3>4. ask_depth' = ask_depth - gone /\ ask_depth' \in Nat
      BY <1>5, <1>6, <2>1, <2>5, <3>2, <3>3 DEF real!Less
    <3> QED
      BY <1>2, <1>5, <1>6, <2>1, <2>5, <3>2, <3>3, <3>4
  <2> QED
    BY <2>6, <2>7
<1> QED
  BY <1>8, <1>9, <1>10, EngineSteps

LEMMA StayDepthInv ==
  ASSUME BookInv, DepthInv, EngineStays
  PROVE  DepthInv'
<1>1. /\ next' = 0 /\ next = 0 /\ order_book' = order_book
      /\ bid_depth' = bid_depth /\ ask_depth' = ask_depth
  BY DEF EngineStays, engineVars
<1>2. Added(messages, next)' = Added(messages, next)
  <2>1. 1 .. 0 = {}
    OBVIOUS
  <2>2. \A ms : Added(ms, 0) = 0
    BY <2>1, SumOfNone DEF Added
  <2>3. Added(messages, next)' = Added(messages', next')
    BY DEF Added
  <2> QED
    BY <1>1, <2>2, <2>3
<1>3. \A sides : real!BookShares(sides)' = real!BookShares(sides)
  BY <1>1 DEF real!BookShares, real!SharesOn
<1> QED
  BY <1>1, <1>2, <1>3 DEF DepthInv

LEMMA InitDepthInv == FilesInit => DepthInv
<1> SUFFICES ASSUME FilesInit
             PROVE  DepthInv
  OBVIOUS
<1>1. /\ order_book = [id \in OrderIds |-> Null] /\ next = 0
      /\ bid_depth = 0 /\ ask_depth = 0
  BY DEF FilesInit, real!BenchInit, real!Init
<1>2. ASSUME NEW sides
      PROVE  real!BookShares(sides) = 0
  <2>1. \A id \in OrderIds : real!SharesOn(sides)[id] = 0
    BY <1>1 DEF real!SharesOn
  <2>2. SumFunctionOnSet(real!SharesOn(sides), OrderIds) = 0
    BY <2>1, FilesAssumption, SumOfZeros
  <2> QED
    BY <2>2, SameSums DEF real!BookShares
<1>3. Added(messages, 0) = 0
  <2>1. 1 .. 0 = {}
    OBVIOUS
  <2> QED
    BY <2>1, SumOfNone DEF Added
<1> QED
  BY <1>1, <1>2, <1>3 DEF DepthInv

LEMMA NextDepthInv ==
  DepthsFit => (ReaderInv /\ BookInv /\ DepthInv /\ [FilesNext]_allVars => DepthInv')
<1> SUFFICES ASSUME DepthsFit, ReaderInv, BookInv, DepthInv, [FilesNext]_allVars
             PROVE  DepthInv'
  OBVIOUS
<1>1. CASE EngineStays
  BY <1>1, StayDepthInv
<1>2. CASE RunEngine
  BY <1>2, EngineDepthInv
<1>3. CASE UNCHANGED allVars
  <2>1. UNCHANGED <<order_book, bid_depth, ask_depth, next, messages>>
    BY <1>3 DEF allVars, readerVars, engineVars
  <2>2. \A sides : real!BookShares(sides)' = real!BookShares(sides)
    BY <2>1 DEF real!BookShares, real!SharesOn
  <2>3. Added(messages, next)' = Added(messages, next)
    BY <2>1 DEF Added
  <2> QED
    BY <2>1, <2>2, <2>3 DEF DepthInv
<1> QED
  BY <1>1, <1>2, <1>3, ProgramSteps

(***************************************************************************)
(* Whatever bytes a file is made of, each depth of the software engine     *)
(* covers the orders of its side in the book, and both together are no     *)
(* more than the whole Adds of the stock traded have brought: nothing      *)
(* wraps around, since an int's worth of messages of four-byte shares fits *)
(* in a depth of 64 bits (real_itch_benchmark.cpp, lines 164 to 191, and   *)
(* the handlers of cpu_trading_engine.h).                                  *)
(***************************************************************************)
THEOREM DepthsCoverTheBook == ASSUME DepthsFit PROVE FilesSpec => []DepthIsOfWholeAdds
<1>1. FilesInit => ReaderInv /\ BookInv /\ DepthInv
  BY InitReaderInv, InitBookInv, InitDepthInv
<1>2. ReaderInv /\ BookInv /\ DepthInv /\ [FilesNext]_allVars
         => (ReaderInv /\ BookInv /\ DepthInv)'
  BY NextReaderInv, NextBookInv, NextDepthInv
<1> QED
  BY <1>1, <1>2, DepthInvIsWholeAdds, PTL DEF FilesSpec

-----------------------------------------------------------------------------
\* The statistics, which are about the samples in ascending order.

\* Sample j comes no later than sample i.
Precedes(samples, j, i) ==
    samples[j] < samples[i] \/ (samples[j] = samples[i] /\ j <= i)

UpTo(samples, i) == { j \in DOMAIN samples : Precedes(samples, j, i) }

LEMMA SameCardinality ==
  ASSUME NEW S
  PROVE  /\ latency!Cardinality(S) = Cardinality(S)
         /\ latency!cpu!Cardinality(S) = Cardinality(S)
         /\ latency!fpga!Cardinality(S) = Cardinality(S)
BY DEF latency!Cardinality, latency!cpu!Cardinality, latency!fpga!Cardinality, Cardinality

LEMMA RankIsSize ==
  ASSUME NEW samples, NEW i
  PROVE  /\ latency!cpu!Rank(samples, i) = Cardinality(UpTo(samples, i))
         /\ latency!fpga!Rank(samples, i) = Cardinality(UpTo(samples, i))
BY SameCardinality DEF latency!cpu!Rank, latency!fpga!Rank, UpTo, Precedes

\* Where the sample of a rank is.
Place(samples, k) == CHOOSE i \in DOMAIN samples : Cardinality(UpTo(samples, i)) = k

LEMMA SortedByPlace ==
  ASSUME NEW samples, NEW k \in DOMAIN samples
  PROVE  /\ latency!cpu!Sorted(samples)[k] = samples[Place(samples, k)]
         /\ latency!fpga!Sorted(samples)[k] = samples[Place(samples, k)]
BY RankIsSize DEF latency!cpu!Sorted, latency!fpga!Sorted, Place

LEMMA SamplesCounted ==
  ASSUME NEW samples \in Seq(Int)
  PROVE  IsFiniteSet(DOMAIN samples) /\ Cardinality(DOMAIN samples) = Len(samples)
<1>1. \A n \in Nat : IsFiniteSet(1 .. n) /\ Cardinality(1 .. n) = n
  <2> TAKE n \in Nat
  <2>1. 1 \in Int /\ n \in Int /\ (1 > n => n = 0) /\ n - 1 + 1 = n
    OBVIOUS
  <2> QED
    BY <2>1, FS_Interval
<1> QED
  BY <1>1, LenProperties

\* The order of the samples is total, and each rank is taken.
LEMMA RanksInOrder ==
  ASSUME NEW samples \in Seq(Int), NEW i \in DOMAIN samples
  PROVE  /\ IsFiniteSet(UpTo(samples, i)) /\ i \in UpTo(samples, i)
         /\ Cardinality(UpTo(samples, i)) \in 1 .. Len(samples)
         /\ \A j \in DOMAIN samples :
               /\ samples[j] < samples[i] =>
                     Cardinality(UpTo(samples, j)) < Cardinality(UpTo(samples, i))
               /\ Cardinality(UpTo(samples, j)) = Cardinality(UpTo(samples, i)) => j = i
<1>1. /\ DOMAIN samples = 1 .. Len(samples) /\ Len(samples) \in Nat
      /\ \A j \in DOMAIN samples : samples[j] \in Int
  BY LenProperties, ElementOfSeq
<1>2. IsFiniteSet(DOMAIN samples) /\ Cardinality(DOMAIN samples) = Len(samples)
  BY SamplesCounted
<1>3. ASSUME NEW j \in DOMAIN samples
      PROVE  /\ IsFiniteSet(UpTo(samples, j)) /\ j \in UpTo(samples, j)
             /\ Cardinality(UpTo(samples, j)) \in 1 .. Len(samples)
  <2>1. UpTo(samples, j) \subseteq DOMAIN samples /\ j \in UpTo(samples, j)
    BY <1>1 DEF UpTo, Precedes
  <2>2. IsFiniteSet(UpTo(samples, j)) /\ Cardinality(UpTo(samples, j)) <= Len(samples)
    BY <1>2, <2>1, FS_Subset
  <2>3. Cardinality(UpTo(samples, j)) \in Nat /\ Cardinality(UpTo(samples, j)) # 0
    BY <2>1, <2>2, FS_CardinalityType, FS_EmptySet
  <2> QED
    BY <1>1, <2>1, <2>2, <2>3
<1>4. ASSUME NEW j \in DOMAIN samples, NEW k \in DOMAIN samples, ~Precedes(samples, k, j)
      PROVE  Cardinality(UpTo(samples, j)) < Cardinality(UpTo(samples, k))
  <2>1. UpTo(samples, j) \subseteq UpTo(samples, k)
    BY <1>1, <1>4 DEF UpTo, Precedes
  <2>2. k \in UpTo(samples, k) /\ k \notin UpTo(samples, j)
    BY <1>3, <1>4 DEF UpTo
  <2>3. Cardinality(UpTo(samples, j)) <= Cardinality(UpTo(samples, k))
        /\ Cardinality(UpTo(samples, k)) # Cardinality(UpTo(samples, j))
    BY <1>3, <2>1, <2>2, FS_Subset
  <2>4. Cardinality(UpTo(samples, j)) \in Nat /\ Cardinality(UpTo(samples, k)) \in Nat
    BY <1>3
  <2> QED
    BY <2>3, <2>4
<1>5. ASSUME NEW j \in DOMAIN samples, samples[j] < samples[i]
      PROVE  Cardinality(UpTo(samples, j)) < Cardinality(UpTo(samples, i))
  <2>1. ~Precedes(samples, i, j)
    BY <1>1, <1>5 DEF Precedes
  <2> QED
    BY <1>4, <2>1
<1>6. ASSUME NEW j \in DOMAIN samples, j # i
      PROVE  Cardinality(UpTo(samples, j)) # Cardinality(UpTo(samples, i))
  <2>1. ~Precedes(samples, i, j) \/ ~Precedes(samples, j, i)
    BY <1>1, <1>6 DEF Precedes
  <2>2. Cardinality(UpTo(samples, j)) \in Nat /\ Cardinality(UpTo(samples, i)) \in Nat
    BY <1>3
  <2>3. CASE ~Precedes(samples, i, j)
    BY <1>4, <2>2, <2>3
  <2>4. CASE ~Precedes(samples, j, i)
    BY <1>4, <2>2, <2>4
  <2> QED
    BY <2>1, <2>3, <2>4
<1> QED
  BY <1>3, <1>5, <1>6

LEMMA EveryRankIsTaken ==
  ASSUME NEW samples \in Seq(Int), NEW k \in DOMAIN samples
  PROVE  /\ Place(samples, k) \in DOMAIN samples
         /\ Cardinality(UpTo(samples, Place(samples, k))) = k
<1> DEFINE D == 1 .. Len(samples)
           rank == [i \in D |-> Cardinality(UpTo(samples, i))]
<1>1. DOMAIN samples = D /\ Len(samples) \in Nat /\ IsFiniteSet(D)
  BY LenProperties, FS_Interval
<1>2. rank \in Injection(D, D)
  <2>1. \A i \in D : rank[i] = Cardinality(UpTo(samples, i)) /\ rank[i] \in D
    BY <1>1, RanksInOrder
  <2>2. \A i, j \in D : rank[i] = rank[j] => i = j
    BY <1>1, <2>1, RanksInOrder
  <2>3. rank \in [D -> D]
    BY <2>1
  <2> HIDE DEF rank, D
  <2> QED
    BY <2>2, <2>3 DEF Injection, IsInjective
<1> HIDE DEF rank
<1>3. rank \in Surjection(D, D)
  BY <1>1, <1>2, FS_Injection
<1>4. \E i \in D : rank[i] = k
  BY <1>1, <1>3 DEF Surjection
<1>5. \E i \in DOMAIN samples : Cardinality(UpTo(samples, i)) = k
  BY <1>1, <1>4 DEF rank
<1> QED
  BY <1>5 DEF Place

\* How many samples there are on either side of the one of a rank.
LEMMA SamplesAround ==
  ASSUME NEW samples \in Seq(Int), NEW k \in DOMAIN samples, NEW v,
         v = samples[Place(samples, k)]
  PROVE  LET atMost  == Cardinality({ j \in DOMAIN samples : samples[j] <= v })
             below   == Cardinality({ j \in DOMAIN samples : samples[j] < v })
             atLeast == Cardinality({ j \in DOMAIN samples : samples[j] >= v })
         IN  /\ v \in Int /\ k \in 1 .. Len(samples) /\ Len(samples) \in Nat
             /\ atMost \in Nat /\ below \in Nat /\ atLeast \in Nat
             /\ k <= atMost /\ below <= k - 1 /\ Len(samples) - k + 1 <= atLeast
<1> DEFINE D == DOMAIN samples
           at == Place(samples, k)
           upTo == UpTo(samples, at)
           AtMostV == { j \in D : samples[j] <= v }
           BelowV == { j \in D : samples[j] < v }
           AtLeastV == { j \in D : samples[j] >= v }
<1>1. /\ D = 1 .. Len(samples) /\ Len(samples) \in Nat
      /\ \A j \in D : samples[j] \in Int
  BY LenProperties, ElementOfSeq
<1>2. IsFiniteSet(D) /\ Cardinality(D) = Len(samples)
  BY SamplesCounted
<1>3. at \in D /\ Cardinality(upTo) = k /\ IsFiniteSet(upTo) /\ at \in upTo
      /\ v = samples[at] /\ v \in Int /\ k \in Nat /\ k \in 1 .. Len(samples)
  BY <1>1, EveryRankIsTaken, RanksInOrder
<1> HIDE DEF at
<1>4. upTo \subseteq AtMostV /\ BelowV \subseteq upTo \ {at} /\ D \ AtLeastV = BelowV
      /\ AtMostV \subseteq D /\ BelowV \subseteq D /\ AtLeastV \subseteq D
  BY <1>1, <1>3 DEF UpTo, Precedes
<1> HIDE DEF upTo, AtMostV, BelowV, AtLeastV
<1>5. /\ IsFiniteSet(AtMostV) /\ IsFiniteSet(BelowV) /\ IsFiniteSet(AtLeastV)
      /\ IsFiniteSet(upTo \ {at}) /\ Cardinality(upTo \ {at}) = k - 1
  BY <1>2, <1>3, <1>4, FS_Subset, FS_RemoveElement
<1>6. Cardinality(AtMostV) \in Nat /\ Cardinality(BelowV) \in Nat /\ Cardinality(AtLeastV) \in Nat
  BY <1>5, FS_CardinalityType
<1>7. k <= Cardinality(AtMostV)
  BY <1>3, <1>4, <1>5, FS_Subset
<1>8. Cardinality(BelowV) <= k - 1
  BY <1>4, <1>5, FS_Subset
<1>9. Cardinality(BelowV) = Cardinality(D) - Cardinality(AtLeastV)
  <2>1. D \cap AtLeastV = AtLeastV
    BY <1>4
  <2> QED
    BY <1>2, <1>4, <2>1, FS_Difference
<1>10. /\ v \in Int /\ k \in 1 .. Len(samples) /\ Len(samples) \in Nat
       /\ Cardinality(AtMostV) \in Nat /\ Cardinality(BelowV) \in Nat
       /\ Cardinality(AtLeastV) \in Nat
       /\ k <= Cardinality(AtMostV) /\ Cardinality(BelowV) <= k - 1
       /\ Len(samples) - k + 1 <= Cardinality(AtLeastV)
  BY <1>1, <1>2, <1>3, <1>6, <1>7, <1>8, <1>9
<1> QED
  BY <1>10 DEF AtMostV, BelowV, AtLeastV


\* The samples in order: each is one of them, and they ascend from the least
\* to the largest.
LEMMA SortedAscends ==
  ASSUME NEW samples \in Seq(Int), NEW sorted, sorted = latency!cpu!Sorted(samples)
  PROVE  /\ sorted \in Seq(Int) /\ Len(sorted) = Len(samples) /\ Len(samples) \in Nat
         /\ DOMAIN sorted = 1 .. Len(samples) /\ DOMAIN samples = 1 .. Len(samples)
         /\ \A k \in 1 .. Len(samples) :
               sorted[k] \in Int /\ sorted[k] = samples[Place(samples, k)]
         /\ \A k, l \in 1 .. Len(samples) : k <= l => sorted[k] <= sorted[l]
<1> DEFINE n == Len(samples)
<1>1. n \in Nat /\ DOMAIN samples = 1 .. n /\ \A i \in 1 .. n : samples[i] \in Int
  BY LenProperties, ElementOfSeq
<1>2. \A k \in 1 .. n : sorted[k] = samples[Place(samples, k)] /\ Place(samples, k) \in 1 .. n
  BY <1>1, SortedByPlace, EveryRankIsTaken
<1>3. \A k \in 1 .. n : sorted[k] \in Int
  BY <1>1, <1>2
<1>4. sorted = [k \in 1 .. n |-> sorted[k]]
  BY <1>1 DEF latency!cpu!Sorted
<1>5. sorted \in Seq(Int) /\ Len(sorted) = n /\ DOMAIN sorted = 1 .. n
  <2>1. sorted \in [1 .. n -> Int]
    BY <1>3, <1>4
  <2>2. sorted \in Seq(Int)
    BY <1>1, <2>1, SeqDef
  <2> QED
    BY <1>1, <1>4, <2>2, LenProperties
<1>6. ASSUME NEW k \in 1 .. n, NEW l \in 1 .. n, k <= l
      PROVE  sorted[k] <= sorted[l]
  <2> DEFINE i == Place(samples, k)
             j == Place(samples, l)
  <2>1. /\ i \in DOMAIN samples /\ j \in DOMAIN samples
        /\ Cardinality(UpTo(samples, i)) = k /\ Cardinality(UpTo(samples, j)) = l
    BY <1>1, EveryRankIsTaken
  <2> HIDE DEF i, j
  <2>2. samples[j] < samples[i] => l < k
    BY <2>1, RanksInOrder
  <2>3. ~(samples[j] < samples[i])
    BY <1>1, <1>6, <2>2
  <2>4. sorted[k] = samples[i] /\ sorted[l] = samples[j] /\ samples[i] \in Int /\ samples[j] \in Int
    BY <1>1, <1>2, <2>1 DEF i, j
  <2> QED
    BY <2>3, <2>4
<1> QED
  BY <1>1, <1>2, <1>3, <1>5, <1>6

\* The index of the percentile is one of the list, with no more than its share
\* before it, and more than its share up to it unless it is the last.
LEMMA P99IndexHasItsShare ==
  ASSUME NEW n \in Nat \ {0}, NEW index, index = latency!cpu!P99Index(n)
  PROVE  /\ index \in 1 .. n
         /\ (index - 1) * P99_DEN <= n * P99_NUM
         /\ index = n \/ n * P99_NUM < index * P99_DEN
<1>1. P99_DEN \in Nat \ {0} /\ P99_NUM \in Nat /\ P99_NUM <= P99_DEN
  BY ReadersAssumption DEF latency!cpu!ParametersOK
<1> DEFINE q == (n * P99_NUM) \div P99_DEN
<1>2. n * P99_NUM \in Nat
  BY <1>1
<1>3. q \in Nat /\ q * P99_DEN <= n * P99_NUM /\ n * P99_NUM < q * P99_DEN + P99_DEN
  <2>1. \A x \in Nat, d \in Nat \ {0} :
           x \div d \in Nat /\ d * (x \div d) <= x /\ x < d * (x \div d) + d
    OBVIOUS
  <2>2. q \in Nat /\ P99_DEN * q <= n * P99_NUM /\ n * P99_NUM < P99_DEN * q + P99_DEN
    BY <1>1, <1>2, <2>1
  <2>3. \A a, b \in Nat : a * b = b * a
    OBVIOUS
  <2> HIDE DEF q
  <2> QED
    BY <1>1, <2>2, <2>3
<1>4. n * P99_NUM <= n * P99_DEN
  BY <1>1, TimesMonotone
<1>5. index = IF q < n - 1 THEN q + 1 ELSE n
  BY DEF latency!cpu!P99Index
<1> HIDE DEF q
<1>6. CASE q < n - 1
  <2>1. (q + 1) * P99_DEN = q * P99_DEN + P99_DEN /\ q * P99_DEN \in Nat
    BY <1>1, <1>3
  <2>2. index = q + 1 /\ index - 1 = q
    BY <1>3, <1>5, <1>6
  <2> QED
    BY <1>1, <1>2, <1>3, <1>6, <2>1, <2>2
<1>7. CASE ~(q < n - 1)
  <2>1. index = n /\ n - 1 <= q /\ n - 1 \in Nat
    BY <1>3, <1>5, <1>7
  <2>2. P99_DEN * (n - 1) <= P99_DEN * q
    BY <1>1, <1>3, <2>1, TimesMonotone
  <2>3. (n - 1) * P99_DEN <= q * P99_DEN /\ (n - 1) * P99_DEN \in Nat /\ q * P99_DEN \in Nat
    BY <1>1, <1>3, <2>1, <2>2
  <2> QED
    BY <1>2, <1>3, <1>4, <2>1, <2>3
<1> QED
  BY <1>6, <1>7


\* In the order of the samples, the k-th is the one that Sorted puts there.
LEMMA SortedIsOrdinal ==
  ASSUME NEW samples \in Seq(Int), NEW k \in 1 .. Len(samples)
  PROVE  latency!Ordinal(samples, k, latency!cpu!Sorted(samples)[k])
<1> DEFINE v == samples[Place(samples, k)]
<1>1. k \in DOMAIN samples /\ k \in Nat
  BY LenProperties
<1>2. latency!cpu!Sorted(samples)[k] = v
  BY <1>1, SortedByPlace
<1>3. LET atMost == Cardinality({ j \in DOMAIN samples : samples[j] <= v })
          below  == Cardinality({ j \in DOMAIN samples : samples[j] < v })
      IN  k <= atMost /\ below <= k - 1 /\ below \in Nat
  BY <1>1, SamplesAround
<1>4. LET atMost == Cardinality({ j \in DOMAIN samples : samples[j] <= v })
          below  == Cardinality({ j \in DOMAIN samples : samples[j] < v })
      IN  k <= atMost /\ below < k
  BY <1>1, <1>3
<1> HIDE DEF v
<1>5. latency!Ordinal(samples, k, v)
  BY <1>4, SameCardinality DEF latency!Ordinal, latency!Count
<1> QED
  BY <1>2, <1>5

\* The two places in the middle, which are one place for an odd number.
LEMMA MedianIsMiddle ==
  ASSUME NEW sorted \in Seq(Int), NEW n, n = Len(sorted), n > 0
  PROVE  /\ (n + 1) \div 2 \in 1 .. n /\ n \div 2 + 1 \in 1 .. n
         /\ latency!cpu!DoubledMedian(sorted)
               = sorted[(n + 1) \div 2] + sorted[n \div 2 + 1]
<1>1. n \in Nat /\ DOMAIN sorted = 1 .. n
  BY LenProperties
<1>2. /\ (n + 1) \div 2 \in 1 .. n /\ n \div 2 + 1 \in 1 .. n
      /\ n % 2 = 0 => (n + 1) \div 2 = n \div 2
      /\ n % 2 # 0 => (n + 1) \div 2 = n \div 2 + 1
  BY <1>1
<1>3. sorted[n \div 2 + 1] \in Int
  BY <1>1, <1>2, ElementOfSeq
<1>4. 2 * sorted[n \div 2 + 1] = sorted[n \div 2 + 1] + sorted[n \div 2 + 1]
  BY <1>3
<1>5. latency!cpu!DoubledMedian(sorted)
         = IF n % 2 = 0 THEN sorted[n \div 2] + sorted[n \div 2 + 1]
           ELSE 2 * sorted[n \div 2 + 1]
  BY DEF latency!cpu!DoubledMedian
<1> QED
  BY <1>2, <1>4, <1>5

LEMMA SameStatisticsSums ==
  ASSUME NEW fun, NEW S
  PROVE  latency!cpu!SumFunctionOnSet(fun, S) = SumFunctionOnSet(fun, S)
<1>1. latency!cpu!SumFunctionOnSet(fun, S) = (CHOOSE g : IsSum(fun, S, g))[S]
  BY DEF latency!cpu!SumFunctionOnSet, latency!cpu!FoldFunctionOnSet,
     latency!cpu!MapThenFoldSet, IsSum, First
<1> QED
  BY <1>1, SumIsChosen

\* The sums over the sorted samples are those over the samples as recorded.
LEMMA SumsOfSorted ==
  ASSUME NEW samples \in Seq(Int), NEW n, n = Len(samples)
  PROVE  LET sorted == latency!cpu!Sorted(samples)
             sq == [k \in 1 .. n |-> samples[k] * samples[k]]
             sortedSq == [k \in 1 .. n |-> sorted[k] * sorted[k]]
         IN  /\ SumFunctionOnSet(sorted, 1 .. n) = SumFunctionOnSet(samples, 1 .. n)
             /\ SumFunctionOnSet(sortedSq, 1 .. n) = SumFunctionOnSet(sq, 1 .. n)
<1> DEFINE S == 1 .. n
           sorted == latency!cpu!Sorted(samples)
           sq == [k \in S |-> samples[k] * samples[k]]
           sortedSq == [k \in S |-> sorted[k] * sorted[k]]
           place == [k \in S |-> Place(samples, k)]
<1>1. /\ n \in Nat /\ DOMAIN samples = S /\ IsFiniteSet(S)
      /\ \A k \in S : samples[k] \in Int
  BY LenProperties, ElementOfSeq, FS_Interval
<1>2. \A k \in S : /\ place[k] \in S
                   /\ Cardinality(UpTo(samples, place[k])) = k
  BY <1>1, EveryRankIsTaken
<1>3. \A k \in S : sorted[k] = samples[place[k]]
  BY <1>1, SortedByPlace
<1>4. \A i \in S : Cardinality(UpTo(samples, i)) \in S
  BY <1>1, RanksInOrder
<1>5. \A i, j \in S : Cardinality(UpTo(samples, j)) = Cardinality(UpTo(samples, i)) => j = i
  BY <1>1, RanksInOrder
<1>6. \A k \in S : /\ sq[k] = samples[k] * samples[k] /\ sq[k] \in Int
                   /\ sortedSq[k] = sorted[k] * sorted[k]
  BY <1>1
<1> HIDE DEF S, sorted, sq, sortedSq, place
<1>7. \A k, l \in S : place[k] = place[l] => k = l
  BY <1>2
<1>8. \A i \in S : \E k \in S : place[k] = i
  <2> TAKE i \in S
  <2> DEFINE k == Cardinality(UpTo(samples, i))
  <2>1. k \in S /\ place[k] \in S /\ Cardinality(UpTo(samples, place[k])) = k
    BY <1>2, <1>4
  <2>2. place[k] = i
    BY <1>5, <2>1
  <2> QED
    BY <2>1, <2>2
<1>9. Reorders(place, S)
  BY <1>2, <1>7, <1>8 DEF Reorders
<1>10. SumFunctionOnSet(sorted, S) = SumFunctionOnSet(samples, S)
  BY <1>1, <1>3, <1>9, SumReordered
<1>11. SumFunctionOnSet(sortedSq, S) = SumFunctionOnSet(sq, S)
  <2>1. \A k \in S : sortedSq[k] = sq[place[k]]
    BY <1>2, <1>3, <1>6
  <2>2. \A k \in S : sq[k] \in Int
    BY <1>6
  <2> QED
    BY <1>1, <1>9, <2>1, <2>2, SumReordered
<1> QED
  BY <1>10, <1>11 DEF S, sorted, sq, sortedSq

\* Mean and variance, from the samples as recorded.
LEMMA MomentsOfSamples ==
  ASSUME NEW samples \in Seq(Int), NEW n, n = Len(samples)
  PROVE  LET sorted == latency!cpu!Sorted(samples)
             sum == SumFunctionOnSet(samples, 1 .. n)
             squares == SumFunctionOnSet([k \in 1 .. n |-> samples[k] * samples[k]], 1 .. n)
         IN  /\ latency!cpu!Sum(sorted) = sum
             /\ latency!cpu!Sum([k \in 1 .. n |-> (n * sorted[k] - sum) * (n * sorted[k] - sum)])
                   = n * (n * squares - sum * sum)
<1> DEFINE S == 1 .. n
           sorted == latency!cpu!Sorted(samples)
           sq == [k \in S |-> samples[k] * samples[k]]
           sortedSq == [k \in S |-> sorted[k] * sorted[k]]
           sum == SumFunctionOnSet(samples, S)
           squares == SumFunctionOnSet(sq, S)
           diff == [k \in S |-> (n * sorted[k] - sum) * (n * sorted[k] - sum)]
<1>1. /\ n \in Nat /\ DOMAIN samples = S /\ DOMAIN sorted = S
      /\ IsFiniteSet(S) /\ Cardinality(S) = n
  <2>1. DOMAIN samples = S /\ n \in Nat
    BY LenProperties
  <2> QED
    BY <2>1, SamplesCounted DEF latency!cpu!Sorted
<1>2. \A k \in S : samples[k] \in Int /\ sorted[k] \in Int
  <2>1. \A k \in S : samples[k] \in Int
    BY <1>1, ElementOfSeq
  <2>2. \A k \in S : Place(samples, k) \in S /\ sorted[k] = samples[Place(samples, k)]
    BY <1>1, EveryRankIsTaken, SortedByPlace
  <2> QED
    BY <2>1, <2>2
<1>3. SumFunctionOnSet(sorted, S) = sum /\ SumFunctionOnSet(sortedSq, S) = squares
  BY SumsOfSorted
<1>4. /\ latency!cpu!Sum(sorted) = SumFunctionOnSet(sorted, S)
      /\ latency!cpu!Sum(diff) = SumFunctionOnSet(diff, S)
  BY <1>1, SameStatisticsSums DEF latency!cpu!Sum
<1>5. sum \in Int /\ squares \in Int
  <2>1. \A k \in S : samples[k] \in Int /\ sq[k] \in Int
    BY <1>2
  <2> HIDE DEF sq, S
  <2> QED
    BY <1>1, <2>1, SumIsInt
<1>6. \A k \in S : /\ sortedSq[k] = sorted[k] * sorted[k]
                   /\ diff[k] = (n * sorted[k] - sum) * (n * sorted[k] - sum)
  OBVIOUS
<1> HIDE DEF S, sorted, sq, sortedSq, sum, squares, diff
<1>7. SumFunctionOnSet(diff, S)
         = (n * n) * squares - (2 * (n * sum)) * sum + (sum * sum) * n
  <2>1. n \in Int /\ sum \in Int
    BY <1>1, <1>5
  <2>2. AreSquares(sorted, sortedSq, diff, S, n, sum)
    BY <1>2, <1>6 DEF AreSquares
  <2>3. IsFiniteSet(S)
    BY <1>1
  <2>4. SumFunctionOnSet(diff, S)
           = (n * n) * SumFunctionOnSet(sortedSq, S)
             - (2 * (n * sum)) * SumFunctionOnSet(sorted, S) + (sum * sum) * Cardinality(S)
    BY <2>1, <2>2, <2>3, SumOfSquaredDifferences
  <2> QED
    BY <1>1, <1>3, <2>4
<1>8. (n * n) * squares - (2 * (n * sum)) * sum + (sum * sum) * n
         = n * (n * squares - sum * sum)
  BY <1>1, <1>5
<1> QED
  BY <1>3, <1>4, <1>7, <1>8 DEF S, sorted, sq, sum, squares, diff

LEMMA StatisticsOfSamples ==
  ASSUME cpu_latencies \in Seq(Int)
  PROVE  StatisticsMeanWhatTheySay
<1> DEFINE n == Len(cpu_latencies)
           D == DOMAIN cpu_latencies
           sorted == latency!cpu!Sorted(cpu_latencies)
           index == latency!cpu!P99Index(n)
           median2 == latency!cpu!DoubledMedian(sorted)
           sum == latency!SumOver(cpu_latencies, LAMBDA ns : ns)
           squares == latency!SumOver(cpu_latencies, LAMBDA ns : ns * ns)
           total == latency!cpu!Sum(sorted)
           variance == latency!cpu!Sum(
               [k \in 1 .. n |-> (n * sorted[k] - total) * (n * sorted[k] - total)])
           stats == [min |-> sorted[1], max |-> sorted[n], sum |-> total,
                     median2 |-> median2, p99 |-> sorted[index],
                     variance_nnn |-> variance, count |-> n]
<1>1. n \in Nat /\ D = 1 .. n
  BY LenProperties
<1>2. CASE n = 0
  BY <1>2 DEF StatisticsMeanWhatTheySay, latency!StatisticsMeanWhatTheySay,
     latency!Ordinal, latency!Count, latency!SumOver
<1>3. CASE n # 0
  <2>1. n \in Nat \ {0} /\ n > 0
    BY <1>1, <1>3
  <2>2. latency!cpu!compute_stats = stats
    BY <1>3 DEF latency!cpu!compute_stats
  <2>3. total = sum /\ variance = n * (n * squares - sum * sum)
    <3> DEFINE sums == SumFunctionOnSet(cpu_latencies, 1 .. n)
               sumsSq == SumFunctionOnSet(
                   [k \in 1 .. n |-> cpu_latencies[k] * cpu_latencies[k]], 1 .. n)
    <3>1. /\ total = sums
          /\ latency!cpu!Sum([k \in 1 .. n |-> (n * sorted[k] - sums) * (n * sorted[k] - sums)])
                = n * (n * sumsSq - sums * sums)
      BY MomentsOfSamples
    <3>2. squares = sumsSq
      BY <1>1, SameStatisticsSums DEF latency!SumOver, latency!cpu!Sum
    <3>3. sum = sums
      <4> DEFINE same == [i \in D |-> cpu_latencies[i]]
      <4>1. sum = SumFunctionOnSet(same, D)
        BY SameStatisticsSums DEF latency!SumOver, latency!cpu!Sum
      <4>2. same = cpu_latencies
        OBVIOUS
      <4> QED
        BY <1>1, <4>1, <4>2
    <3> QED
      BY <3>1, <3>2, <3>3
  <2>4. Len(sorted) = n /\ sorted \in Seq(Int)
    BY SortedAscends
  <2>5. \A k \in 1 .. n : /\ latency!Ordinal(cpu_latencies, k, sorted[k])
                          /\ Place(cpu_latencies, k) \in D
                          /\ sorted[k] = cpu_latencies[Place(cpu_latencies, k)]
    BY <1>1, SortedIsOrdinal, EveryRankIsTaken, SortedByPlace
  <2>6. /\ index \in 1 .. n
        /\ (index - 1) * P99_DEN <= n * P99_NUM
        /\ index = n \/ n * P99_NUM < index * P99_DEN
    BY <2>1, P99IndexHasItsShare
  <2>7. /\ (n + 1) \div 2 \in 1 .. n /\ n \div 2 + 1 \in 1 .. n
        /\ median2 = sorted[(n + 1) \div 2] + sorted[n \div 2 + 1]
    BY <2>1, <2>4, MedianIsMiddle
  <2>8. 1 \in 1 .. n /\ n \in 1 .. n
    BY <2>1
  <2> HIDE DEF n, sorted, index, median2, sum, squares, total, variance
  <2>9. \E i, j \in D : /\ median2 = cpu_latencies[i] + cpu_latencies[j]
                        /\ latency!Ordinal(cpu_latencies, (n + 1) \div 2, cpu_latencies[i])
                        /\ latency!Ordinal(cpu_latencies, n \div 2 + 1, cpu_latencies[j])
    BY <2>5, <2>7
  <2>10. \E k \in 1 .. n : /\ latency!Ordinal(cpu_latencies, k, sorted[index])
                           /\ (k - 1) * P99_DEN <= n * P99_NUM
                           /\ k = n \/ n * P99_NUM < k * P99_DEN
    BY <2>5, <2>6
  <2>11. /\ stats.count = n /\ stats.min = sorted[1] /\ stats.max = sorted[n]
         /\ stats.sum = total /\ stats.median2 = median2 /\ stats.p99 = sorted[index]
         /\ stats.variance_nnn = variance
    OBVIOUS
  <2>12. latency!Ordinal(cpu_latencies, 1, sorted[1]) /\ latency!Ordinal(cpu_latencies, n, sorted[n])
    BY <2>5, <2>8
  <2> HIDE DEF stats
  <2> QED
    BY <2>2, <2>3, <2>9, <2>10, <2>11, <2>12
       DEF StatisticsMeanWhatTheySay, latency!StatisticsMeanWhatTheySay, n, sum, squares
<1> QED
  BY <1>2, <1>3

-----------------------------------------------------------------------------
\* The two measurements of the latency testbench.

Measurement == [start_cycle : Nat, end_cycle : Nat, cycle_count : Nat]

Frame == [at : Nat, type : Byte]

\* Every interval has the length of the pipeline, and the next begins later.
LatencyInv ==
    /\ file \in Files /\ offset \in Nat
    /\ message_count \in Nat /\ lb_cycle \in Nat
    /\ walked \in Seq(Frame) /\ Len(walked) = message_count
    /\ fpga_latencies \in Seq({PIPELINE}) /\ Len(fpga_latencies) = message_count
    /\ measurements \in Seq(Measurement) /\ Len(measurements) = message_count
    /\ \A i \in 1 .. message_count :
          /\ measurements[i].end_cycle = measurements[i].start_cycle + PIPELINE
          /\ measurements[i].cycle_count = PIPELINE
          /\ measurements[i].end_cycle <= lb_cycle
          /\ i > 1 => measurements[i - 1].end_cycle <= measurements[i].start_cycle

LEMMA LatencyTypes ==
  /\ PIPELINE \in Nat \ {0} /\ MESSAGE_SPACING \in Nat /\ latency_messages \in Nat
  /\ Stray \subseteq Byte
  /\ latency_messages > 0 => PIPELINE < WORD64
<1>1. /\ PIPELINE \in Nat \ {0} /\ MESSAGE_SPACING \in Nat /\ latency_messages \in Nat
      /\ Stray \subseteq Byte
      /\ latency_messages * (PIPELINE + MESSAGE_SPACING) < WORD64
  BY ReadersAssumption, SameBytes DEF latency!ParametersOK, latency!Byte, Byte
<1>2. ASSUME latency_messages > 0
      PROVE  PIPELINE < WORD64
  <2> DEFINE period == PIPELINE + MESSAGE_SPACING
  <2>1. period \in Nat /\ PIPELINE <= period /\ 1 <= latency_messages /\ PIPELINE \in Nat
    BY <1>1, <1>2
  <2> HIDE DEF period
  <2>2. period * 1 <= period * latency_messages
    BY <1>1, <2>1, TimesMonotone
  <2>3. period * 1 = period /\ period * latency_messages = latency_messages * period
        /\ latency_messages * period \in Nat
    BY <1>1, <2>1
  <2>4. latency_messages * period < WORD64
    BY <1>1 DEF period
  <2> QED
    BY <2>1, <2>2, <2>3, <2>4, WordType
<1> QED
  BY <1>1, <1>2

\* A measurement that is started and ended at once.
Measured(start) ==
    [start_cycle |-> start, end_cycle |-> start + PIPELINE, cycle_count |-> PIPELINE]

LEMMA MeasuredOne ==
  ASSUME NEW ms \in Seq(Measurement), NEW start \in Nat, PIPELINE < WORD64
  PROVE  LET more == latency!fpga_measurer!end_measurement(
                        latency!fpga_measurer!start_measurement(ms, start),
                        start + PIPELINE) IN
         /\ more \in Seq(Measurement) /\ Len(ms) \in Nat /\ Len(more) = Len(ms) + 1
         /\ \A i \in 1 .. Len(ms) : more[i] = ms[i]
         /\ more[Len(ms) + 1] = Measured(start)
<1> DEFINE open == [start_cycle |-> start, end_cycle |-> 0, cycle_count |-> 0]
           list == Append(ms, open)
           last == Len(ms) + 1
           more == latency!fpga_measurer!end_measurement(list, start + PIPELINE)
<1>1. latency!fpga_measurer!start_measurement(ms, start) = list
  BY DEF latency!fpga_measurer!start_measurement
<1>2. open \in Measurement /\ open.end_cycle = 0 /\ open.start_cycle = start
  BY DEF Measurement
<1>3. /\ list \in Seq(Measurement) /\ list # << >>
      /\ Len(ms) \in Nat /\ Len(list) = last /\ last \in 1 .. Len(list)
      /\ \A i \in 1 .. Len(ms) : list[i] = ms[i]
      /\ list[last] = open
  <2> HIDE DEF open
  <2> QED
    BY <1>2, AppendProperties, LenProperties
<1> HIDE DEF list
<1>4. more = [list EXCEPT
                 ![last].end_cycle = start + PIPELINE,
                 ![last].cycle_count = ((start + PIPELINE) - list[last].start_cycle) % WORD64]
  BY <1>2, <1>3 DEF latency!fpga_measurer!end_measurement, latency!fpga_measurer!Open
<1>5. ((start + PIPELINE) - list[last].start_cycle) % WORD64 = PIPELINE
  <2>1. PIPELINE \in Nat /\ (start + PIPELINE) - start = PIPELINE
    BY LatencyTypes
  <2>2. PIPELINE % WORD64 = PIPELINE
    BY <2>1, WordType, ModSmall
  <2> QED
    BY <1>2, <1>3, <2>1, <2>2
<1>6. more = [list EXCEPT ![last] = Measured(start)]
  <2>1. [list EXCEPT ![last].end_cycle = start + PIPELINE, ![last].cycle_count = PIPELINE]
          = [list EXCEPT ![last] = [[@ EXCEPT !.end_cycle = start + PIPELINE]
                                        EXCEPT !.cycle_count = PIPELINE]]
    BY <1>3
  <2>2. [[list[last] EXCEPT !.end_cycle = start + PIPELINE] EXCEPT !.cycle_count = PIPELINE]
          = Measured(start)
    <3>1. [[open EXCEPT !.end_cycle = start + PIPELINE] EXCEPT !.cycle_count = PIPELINE]
            = Measured(start)
      <4>1. \A x : [open EXCEPT !.end_cycle = x]
                     = [start_cycle |-> start, end_cycle |-> x, cycle_count |-> 0]
        OBVIOUS
      <4>2. \A x, y : [[start_cycle |-> start, end_cycle |-> x, cycle_count |-> 0]
                           EXCEPT !.cycle_count = y]
                       = [start_cycle |-> start, end_cycle |-> x, cycle_count |-> y]
        OBVIOUS
      <4> QED
        BY <4>1, <4>2 DEF Measured
    <3>2. list[last] = open
      BY <1>3
    <3> HIDE DEF open
    <3> QED
      BY <3>1, <3>2
  <2> HIDE DEF more
  <2> QED
    BY <1>4, <1>5, <2>1, <2>2
<1>7. Measured(start) \in Measurement
  BY LatencyTypes DEF Measured, Measurement
<1> HIDE DEF more
<1>8. /\ more \in Seq(Measurement) /\ Len(more) = Len(list)
      /\ \A j \in 1 .. Len(list) : more[j] = IF j = last THEN Measured(start) ELSE list[j]
  BY <1>3, <1>6, <1>7, ExceptSeq
<1>9. /\ Len(more) = Len(ms) + 1 /\ more[Len(ms) + 1] = Measured(start)
      /\ \A i \in 1 .. Len(ms) : more[i] = ms[i]
  BY <1>3, <1>8
<1> QED
  BY <1>1, <1>3, <1>8, <1>9 DEF more

LEMMA MeasureInv ==
  ASSUME LatencyInv, latency!MeasureMessage
  PROVE  LatencyInv'
<1>1. /\ file \in Seq(Byte) /\ Len(file) \in Nat
      /\ \A i \in 1 .. Len(file) : file[i] \in Byte
      /\ offset \in Nat /\ message_count \in Nat /\ lb_cycle \in Nat
  BY FilesAreBytes DEF LatencyInv
<1>2. PIPELINE \in Nat \ {0} /\ MESSAGE_SPACING \in Nat /\ PIPELINE < WORD64
  <2>1. message_count < latency_messages
    BY DEF latency!MeasureMessage, latency!WholeFrame
  <2>2. latency_messages > 0
    BY <1>1, <2>1, LatencyTypes
  <2> QED
    BY <2>2, LatencyTypes
<1>3. /\ file' = file /\ message_count' = message_count + 1
      /\ lb_cycle' = lb_cycle + PIPELINE + MESSAGE_SPACING
      /\ fpga_latencies' = Append(fpga_latencies, PIPELINE)
  BY DEF latency!MeasureMessage, latency!fpga!record_latency_ns
<1>4. offset' \in Nat
  <2>1. offset' = offset + 2 + LengthAt(offset) /\ offset + 2 <= Len(file)
    BY SameBytes DEF latency!MeasureMessage, latency!NextOffset, latency!msg_len, LengthAt,
       latency!WholeFrame
  <2>2. LengthAt(offset) \in Nat
    BY <1>1, <2>1, FilesAreBytes DEF LatencyInv
  <2> QED
    BY <1>1, <2>1, <2>2
<1>5. walked' \in Seq(Frame) /\ Len(walked') = message_count + 1
  <2> PICK type \in latency!TypesAt(offset + 2) :
         walked' = Append(walked, [at |-> offset + 2, type |-> type])
    BY DEF latency!MeasureMessage
  <2>1. type \in Byte
    <3>1. CASE offset + 2 < Len(file)
      <4>1. offset + 3 \in 1 .. Len(file) /\ (offset + 2) + 1 = offset + 3
        BY <1>1, <3>1
      <4>2. type = file[offset + 3]
        BY <3>1, <4>1 DEF latency!TypesAt
      <4> QED
        BY <1>1, <4>1, <4>2
    <3>2. CASE ~(offset + 2 < Len(file))
      BY <3>2, LatencyTypes DEF latency!TypesAt
    <3> QED
      BY <3>1, <3>2
  <2>2. [at |-> offset + 2, type |-> type] \in Frame
    BY <1>1, <2>1 DEF Frame
  <2> QED
    BY <2>2, AppendProperties DEF LatencyInv
<1>6. /\ fpga_latencies' \in Seq({PIPELINE}) /\ Len(fpga_latencies') = message_count + 1
  <2>1. PIPELINE \in {PIPELINE} /\ fpga_latencies \in Seq({PIPELINE})
    BY DEF LatencyInv
  <2> QED
    BY <1>3, <2>1, AppendProperties DEF LatencyInv
<1>7. /\ measurements' \in Seq(Measurement)
      /\ Len(measurements') = message_count + 1
      /\ \A i \in 1 .. message_count : measurements'[i] = measurements[i]
      /\ measurements'[message_count + 1] = Measured(lb_cycle)
  <2>1. measurements' = latency!fpga_measurer!end_measurement(
              latency!fpga_measurer!start_measurement(measurements, lb_cycle),
              lb_cycle + PIPELINE)
    BY DEF latency!MeasureMessage
  <2>2. measurements \in Seq(Measurement) /\ Len(measurements) = message_count
    BY DEF LatencyInv
  <2> QED
    BY <1>1, <1>2, <2>1, <2>2, MeasuredOne
<1>8. ASSUME NEW i \in 1 .. message_count
      PROVE  /\ measurements[i].start_cycle \in Nat /\ measurements[i].end_cycle \in Nat
             /\ measurements[i].end_cycle = measurements[i].start_cycle + PIPELINE
             /\ measurements[i].cycle_count = PIPELINE
             /\ measurements[i].end_cycle <= lb_cycle
             /\ i > 1 => measurements[i - 1].end_cycle <= measurements[i].start_cycle
  <2>1. measurements[i] \in Measurement
    BY ElementOfSeq DEF LatencyInv
  <2>2. measurements[i].start_cycle \in Nat /\ measurements[i].end_cycle \in Nat
    BY <2>1 DEF Measurement
  <2> QED
    BY <2>2 DEF LatencyInv
<1>9. lb_cycle' \in Nat /\ lb_cycle + PIPELINE <= lb_cycle' /\ lb_cycle <= lb_cycle'
  BY <1>1, <1>2, <1>3
<1>10. ASSUME NEW i \in 1 .. message_count + 1
       PROVE  /\ measurements'[i].end_cycle = measurements'[i].start_cycle + PIPELINE
              /\ measurements'[i].cycle_count = PIPELINE
              /\ measurements'[i].end_cycle <= lb_cycle'
              /\ i > 1 => measurements'[i - 1].end_cycle <= measurements'[i].start_cycle
  <2>1. CASE i \in 1 .. message_count
    <3>1. i > 1 => i - 1 \in 1 .. message_count
      BY <1>1, <2>1
    <3>2. measurements[i].end_cycle <= lb_cycle'
      BY <1>1, <1>8, <1>9, <2>1
    <3> QED
      BY <1>7, <1>8, <2>1, <3>1, <3>2
  <2>2. CASE i = message_count + 1
    <3>1. /\ measurements'[i].start_cycle = lb_cycle
          /\ measurements'[i].end_cycle = lb_cycle + PIPELINE
          /\ measurements'[i].cycle_count = PIPELINE
      BY <1>7, <2>2 DEF Measured
    <3>2. ASSUME i > 1
          PROVE  measurements'[i - 1].end_cycle <= lb_cycle
      <4>1. i - 1 \in 1 .. message_count
        BY <1>1, <2>2, <3>2
      <4> QED
        BY <1>7, <1>8, <4>1
    <3> QED
      BY <1>9, <3>1, <3>2
  <2> QED
    BY <1>1, <2>1, <2>2
<1>11. message_count + 1 \in Nat
  BY <1>1
<1> QED
  BY <1>3, <1>4, <1>5, <1>6, <1>7, <1>9, <1>10, <1>11 DEF LatencyInv

LEMMA InitLatencyInv == FilesInit => LatencyInv
<1> SUFFICES ASSUME FilesInit
             PROVE  LatencyInv
  OBVIOUS
<1>1. /\ file \in Files /\ offset = 0 /\ lb_cycle = 0 /\ message_count = 0
      /\ measurements = << >> /\ fpga_latencies = << >> /\ walked = << >>
  BY DEF FilesInit, latency!Init, latency!fpga!Init
<1>2. /\ measurements \in Seq(Measurement) /\ Len(measurements) = 0
      /\ fpga_latencies \in Seq({PIPELINE}) /\ Len(fpga_latencies) = 0
      /\ walked \in Seq(Frame) /\ Len(walked) = 0
  BY <1>1, EmptySeq
<1> QED
  BY <1>1, <1>2 DEF LatencyInv

LEMMA NextLatencyInv == LatencyInv /\ [FilesNext]_allVars => LatencyInv'
<1> SUFFICES ASSUME LatencyInv, [FilesNext]_allVars
             PROVE  LatencyInv'
  OBVIOUS
<1>1. CASE UNCHANGED <<file, offset, lb_cycle, message_count, measurements,
                       fpga_latencies, walked>>
  BY <1>1 DEF LatencyInv
<1>2. CASE RunLatencyTestbench
  BY <1>1, <1>2, MeasureInv DEF RunLatencyTestbench, latency!Next, latency!StopMeasuring
<1>3. CASE RunParserTestbench
  BY <1>1, <1>3 DEF RunParserTestbench, latencyVars, BenchNext, ResetTick, SettleTick,
     FeedTick, Summary
<1>4. CASE RunReader
  BY <1>1, <1>4 DEF RunReader, latencyVars, reader!Next, reader!ReadMessage,
     reader!StopReading
<1>5. CASE RunEngine
  BY <1>1, <1>5 DEF RunEngine, latencyVars
<1>6. CASE UNCHANGED allVars
  BY <1>1, <1>6 DEF allVars, latencyVars
<1> QED
  BY <1>2, <1>3, <1>4, <1>5, <1>6 DEF FilesNext, Finished

\* Sums of the two lists are sums.
LEMMA SameTotals ==
  ASSUME NEW fun, NEW S
  PROVE  /\ latency!fpga!SumFunctionOnSet(fun, S) = SumFunctionOnSet(fun, S)
         /\ latency!fpga_measurer!SumFunctionOnSet(fun, S) = SumFunctionOnSet(fun, S)
<1>1. latency!fpga!SumFunctionOnSet(fun, S) = (CHOOSE g : IsSum(fun, S, g))[S]
  BY DEF latency!fpga!SumFunctionOnSet, latency!fpga!FoldFunctionOnSet,
     latency!fpga!MapThenFoldSet, IsSum, First
<1>2. latency!fpga_measurer!SumFunctionOnSet(fun, S) = (CHOOSE g : IsSum(fun, S, g))[S]
  BY DEF latency!fpga_measurer!SumFunctionOnSet, latency!fpga_measurer!FoldFunctionOnSet,
     latency!fpga_measurer!MapThenFoldSet, IsSum, First
<1> QED
  BY <1>1, <1>2, SumIsChosen

LEMMA TotalsAgree ==
  ASSUME LatencyInv
  PROVE  latency!fpga_measurer!TotalCycles(measurements) = latency!fpga!compute_stats.sum
<1> DEFINE f == [i \in DOMAIN measurements |-> measurements[i].cycle_count]
           S == 1 .. message_count
<1>1. /\ DOMAIN measurements = S /\ DOMAIN fpga_latencies = S /\ IsFiniteSet(S)
      /\ message_count \in Nat /\ Len(fpga_latencies) = message_count
      /\ \A i \in S : fpga_latencies[i] = PIPELINE
  <2>1. DOMAIN measurements = S /\ DOMAIN fpga_latencies = S
    BY LenProperties DEF LatencyInv
  <2>2. \A i \in S : fpga_latencies[i] \in {PIPELINE}
    BY ElementOfSeq DEF LatencyInv
  <2>3. message_count \in Nat /\ Len(fpga_latencies) = message_count
    BY DEF LatencyInv
  <2> QED
    BY <2>1, <2>2, <2>3, FS_Interval
<1>2. \A i \in S : f[i] = fpga_latencies[i]
  BY <1>1 DEF LatencyInv
<1>3. latency!fpga_measurer!TotalCycles(measurements) = SumFunctionOnSet(f, S)
  BY <1>1, SameTotals DEF latency!fpga_measurer!TotalCycles
<1> HIDE DEF f
<1>4. SumFunctionOnSet(f, S) = SumFunctionOnSet(fpga_latencies, S)
  BY <1>1, <1>2, SumAgrees
<1> DEFINE sorted == latency!fpga!Sorted(fpga_latencies)
<1>5. latency!fpga!Sum(sorted) = SumFunctionOnSet(fpga_latencies, S)
  <2>1. fpga_latencies \in Seq(Int)
    <3>1. {PIPELINE} \subseteq Int
      BY LatencyTypes
    <3> QED
      BY <3>1, SeqMonotonic DEF LatencyInv
  <2>2. \A i \in S : sorted[i] = fpga_latencies[i]
    BY <1>1, <2>1, SortedByPlace, EveryRankIsTaken
  <2>3. DOMAIN sorted = S
    BY <1>1 DEF latency!fpga!Sorted
  <2> HIDE DEF sorted
  <2>4. SumFunctionOnSet(sorted, S) = SumFunctionOnSet(fpga_latencies, S)
    BY <1>1, <2>2, SumAgrees
  <2> QED
    BY <2>3, <2>4, SameTotals DEF latency!fpga!Sum
<1>6. CASE message_count = 0
  <2>1. S = {}
    BY <1>6
  <2>2. SumFunctionOnSet(f, S) = 0
    BY <2>1, SumOfNone
  <2>3. latency!fpga!compute_stats.sum = 0
    BY <1>1, <1>6 DEF latency!fpga!compute_stats
  <2> QED
    BY <1>3, <2>2, <2>3
<1>7. CASE message_count # 0
  <2>1. latency!fpga!compute_stats.sum = latency!fpga!Sum(sorted)
    BY <1>1, <1>7 DEF latency!fpga!compute_stats
  <2> QED
    BY <1>3, <1>4, <1>5, <2>1
<1> QED
  BY <1>6, <1>7

LEMMA LatencyInvAgrees == LatencyInv => MeasurementsAgree
<1> SUFFICES ASSUME LatencyInv
             PROVE  MeasurementsAgree
  OBVIOUS
<1>1. Len(measurements) = message_count /\ Len(walked) = message_count
  BY DEF LatencyInv
<1>2. DOMAIN measurements = 1 .. message_count
  BY LenProperties DEF LatencyInv
<1>3. ASSUME NEW i \in 1 .. message_count
      PROVE  /\ measurements[i].end_cycle # 0
             /\ measurements[i].start_cycle + fpga_latencies[i] = measurements[i].end_cycle
             /\ i > 1 => measurements[i - 1].end_cycle <= measurements[i].start_cycle
  <2>1. measurements[i] \in Measurement /\ fpga_latencies[i] \in {PIPELINE}
    BY ElementOfSeq DEF LatencyInv
  <2>2. measurements[i].start_cycle \in Nat /\ fpga_latencies[i] = PIPELINE
    BY <2>1 DEF Measurement
  <2>3. measurements[i].end_cycle = measurements[i].start_cycle + PIPELINE
        /\ (i > 1 => measurements[i - 1].end_cycle <= measurements[i].start_cycle)
    BY DEF LatencyInv
  <2> QED
    BY <2>2, <2>3, LatencyTypes
<1> QED
  BY <1>1, <1>2, <1>3, TotalsAgree DEF MeasurementsAgree, latency!MeasurementsAgree,
     latency!fpga_measurer!Open

(***************************************************************************)
(* However many messages the latency testbench measures, its two records   *)
(* of the hardware agree: every interval is closed, although cycle zero    *)
(* means open, lies after the one before it, and is as long as the list of *)
(* latencies says (hft_latency_benchmark.cpp, lines 88 to 140).            *)
(***************************************************************************)
THEOREM MeasurementsAlwaysAgree == FilesSpec => []MeasurementsAgree
  BY InitLatencyInv, NextLatencyInv, LatencyInvAgrees, PTL DEF FilesSpec

\* What the clock says is a number.
SamplesInv == cpu_latencies \in Seq(Int)

LEMMA NextSamplesInv == SamplesInv /\ [FilesNext]_allVars => SamplesInv'
<1> SUFFICES ASSUME SamplesInv, [FilesNext]_allVars
             PROVE  SamplesInv'
  OBVIOUS
<1>1. cpu_latencies \in Seq(Int)
  BY DEF SamplesInv
<1>2. CASE RunLatencyTestbench
  <2>1. CASE latency!MeasureMessage
    <3>1. PICK ns \in CpuTimes : cpu_latencies' = Append(cpu_latencies, ns)
      BY <2>1 DEF latency!MeasureMessage, latency!cpu!record_latency_ns
    <3>2. ns \in Int
      BY ReadersAssumption DEF latency!ParametersOK
    <3> QED
      BY <1>1, <3>1, <3>2, AppendProperties DEF SamplesInv
  <2>2. CASE latency!StopMeasuring
    BY <1>1, <2>2 DEF latency!StopMeasuring, SamplesInv
  <2> QED
    BY <1>2, <2>1, <2>2 DEF RunLatencyTestbench, latency!Next
<1>3. CASE RunParserTestbench
  BY <1>1, <1>3 DEF RunParserTestbench, latencyVars, SamplesInv
<1>4. CASE RunReader
  BY <1>1, <1>4 DEF RunReader, latencyVars, SamplesInv
<1>5. CASE RunEngine
  BY <1>1, <1>5 DEF RunEngine, latencyVars, SamplesInv
<1>6. CASE UNCHANGED allVars
  BY <1>1, <1>6 DEF allVars, latencyVars, SamplesInv
<1> QED
  BY <1>2, <1>3, <1>4, <1>5, <1>6 DEF FilesNext, Finished

(***************************************************************************)
(* Whatever times the clock of the latency testbench has told, and however *)
(* many, the statistics are those of the list as recorded: the extremes,   *)
(* the percentile and the median are the samples of the ranks that their   *)
(* names ask for, the mean is the sum of all by their number, and the      *)
(* variance the mean square less the square of the mean                    *)
(* (latency_tracker.h, lines 38 to 71).                                    *)
(***************************************************************************)
THEOREM StatisticsAlwaysMean == FilesSpec => []StatisticsMeanWhatTheySay
<1>1. FilesInit => SamplesInv
  BY DEF FilesInit, latency!Init, latency!cpu!Init, SamplesInv
<1>2. SamplesInv => StatisticsMeanWhatTheySay
  BY StatisticsOfSamples DEF SamplesInv
<1> QED
  BY <1>1, <1>2, NextSamplesInv, PTL DEF FilesSpec

-----------------------------------------------------------------------------
\* The framing of the parser and that of the two programs.

\* Where a frame begins that is the next one after some that were reported.
Start(rs, k) == IF k = 1 THEN 0 ELSE rs[k - 1].end

\* The symbol of the frame at a place, of whose payload n bytes have passed.
SymbolAfter(at, n) ==
    LET type == file[at + 3] IN
    IF n > 0 /\ has_symbol_field(type)
    THEN [k \in 0 .. 7 |-> IF symbol_offset(type) + k < n
                           THEN file[at + 3 + symbol_offset(type) + k] ELSE 0]
    ELSE ZeroSymbol

\* The message of the frame at a place, as the parser reports it.
ReportOf(report, at) ==
    /\ WholeAt(at)
    /\ report.end = at + 2 + LengthAt(at)
    /\ report.type = file[at + 3]

Reports == Seq([end : Nat, type : Byte])

\* Every message reported is that of the frame after the one before it.
ReportsInv ==
    /\ file \in Files
    /\ reported \in Reports /\ accepted_messages = Len(reported)
    /\ \A k \in 1 .. Len(reported) : ReportOf(reported[k], Start(reported, k))

\* The parser inside the frame at a place.
InFrame(at) ==
    /\ payload_index \in Nat
    /\ state = "READ_LEN_HI" => fed = at
    /\ state = "READ_LEN_LO" => fed = at + 1 /\ message_length \div 256 = file[at + 1]
    /\ state = "READ_PAYLOAD" => at + 2 <= fed /\ message_length = LengthAt(at)
    /\ state = "READ_PAYLOAD" /\ LengthAt(at) > 0 =>
          /\ fed = at + 2 + payload_index /\ payload_index < LengthAt(at)
          /\ payload_index > 0 => current_msg_type = file[at + 3]
          /\ symbol_capture = SymbolAfter(at, payload_index)

ParserInv ==
    /\ state \in {"READ_LEN_HI", "READ_LEN_LO", "READ_PAYLOAD"}
    /\ message_length \in Nat /\ fed \in Nat /\ fed <= Len(file)
    /\ loop \in {"reset", "settle"} => state = "READ_LEN_HI" /\ fed = 0 /\ reported = << >>
    /\ loop \in {"reset", "settle", "feed", "done"} /\ (loop = "done" => fed = Len(file))
    /\ InFrame(Start(reported, Len(reported) + 1))

\* Who is to run has seen the others end.
TurnInv ==
    /\ turn = "hft_tb" => running
    /\ turn # "hft_tb" => loop = "done"
    /\ turn \in {"hft_tb", "hft_latency"} => reading /\ messages = << >>
    /\ turn = "hft_tb" => walked = << >>

\* The latency testbench is on the frames the parser has reported.
WalkInv ==
    /\ message_count <= latency_messages
    /\ ~running => ~latency!WholeFrame
    /\ walked = << >> => offset = 0
    /\ \A k \in 1 .. Len(walked) :
          LET at == Start(reported, k) IN
          /\ k <= Len(reported) + 1 =>
                /\ walked[k].at = at + 2
                /\ at + 2 <= Len(file) /\ at + 2 + LengthAt(at) <= Len(file)
          /\ k <= Len(reported) => walked[k].type = reported[k].type
    /\ Len(walked) <= Len(reported) => offset = Start(reported, Len(walked) + 1)

\* What the reader has cut the parser has reported.
CutInv ==
    /\ ~reading => ~reader!WholeFrame
    /\ \A k \in 1 .. Len(messages) :
          /\ k <= Len(reported)
          /\ reported[k].end = Ends(messages, k)
          /\ reported[k].type = messages[k].type

LEMMA PlacesAreNat ==
  ASSUME ReportsInv
  PROVE  /\ Len(reported) \in Nat
         /\ \A k \in 1 .. Len(reported) :
               /\ reported[k] \in [end : Nat, type : Byte]
               /\ reported[k].end \in Nat /\ reported[k].type \in Byte
         /\ \A k \in 1 .. Len(reported) + 1 : Start(reported, k) \in Nat
<1>1. /\ Len(reported) \in Nat
      /\ \A k \in 1 .. Len(reported) : reported[k] \in [end : Nat, type : Byte]
  BY LenProperties, ElementOfSeq DEF ReportsInv, Reports
<1>2. \A k \in 1 .. Len(reported) : reported[k].end \in Nat /\ reported[k].type \in Byte
  BY <1>1
<1>3. ASSUME NEW k \in 1 .. Len(reported) + 1
      PROVE  Start(reported, k) \in Nat
  <2>1. k = 1 \/ k - 1 \in 1 .. Len(reported)
    BY <1>1
  <2> QED
    BY <1>2, <2>1 DEF Start
<1> QED
  BY <1>1, <1>2, <1>3

LEMMA SilentKeepsReports ==
  ASSUME ReportsInv, UNCHANGED <<file, accepted_messages, reported>>
  PROVE  ReportsInv'
BY DEF ReportsInv, ReportOf, WholeAt, LengthAt

\* The two bytes of a length, one after the other.
LEMMA HighThenLow ==
  ASSUME NEW high \in Byte, NEW low \in Byte, NEW before \in Nat
  PROVE  /\ high * 256 + (before % 256) \in Nat
         /\ (high * 256 + (before % 256)) \div 256 = high
         /\ high * 256 + low = 256 * high + low
         /\ high * 256 + low \in Nat
<1>1. high \in Nat /\ low \in Nat
  BY DEF Byte
<1>2. before % 256 \in 0 .. 255
  OBVIOUS
<1>3. \A h \in Nat, r \in 0 .. 255 : h * 256 + r \in Nat /\ (h * 256 + r) \div 256 = h
  OBVIOUS
<1> QED
  BY <1>1, <1>2, <1>3

LEMMA OffsetRange ==
  ASSUME NEW type, has_symbol_field(type)
  PROVE  symbol_offset(type) \in 11 .. 28
  BY DEF has_symbol_field, symbol_offset, Reference, Char

\* With its next byte the parser knows the type, and one byte more of the symbol.
LEMMA NextByteOfFrame ==
  ASSUME NEW at \in Nat, NEW data, file \in Files, InFrame(at), state = "READ_PAYLOAD",
         LengthAt(at) > 0, fed < Len(file), data = file[fed + 1]
  PROVE  /\ TypeNext(data) = file[at + 3]
         /\ SymbolNext(data) = SymbolAfter(at, payload_index + 1)
<1> DEFINE k == payload_index
           type == file[at + 3]
<1>1. /\ k \in Nat /\ fed = at + 2 + k /\ (k > 0 => current_msg_type = type)
      /\ symbol_capture = SymbolAfter(at, k)
  BY DEF InFrame
<1>2. data = file[at + 3 + k]
  <2>1. fed + 1 = at + 3 + k
    BY <1>1
  <2> QED
    BY <2>1
<1>3. TypeNext(data) = type
  <2>1. k = 0 => at + 3 + k = at + 3
    OBVIOUS
  <2> QED
    BY <1>1, <1>2, <2>1 DEF TypeNext
<1> HIDE DEF type
<1>4. CASE has_symbol_field(type)
  <2> DEFINE off == symbol_offset(type)
             byte(j) == file[at + 3 + off + j]
             passed(j, n) == off + j < n
             symbol(n) == [j \in 0 .. 7 |-> IF passed(j, n) THEN byte(j) ELSE 0]
  <2>1. off \in 11 .. 28
    BY <1>4, OffsetRange
  <2>2. \A n \in Nat : n > 0 => SymbolAfter(at, n) = symbol(n)
    BY <1>4 DEF SymbolAfter, type
  <2>3. SymbolNext(data) = IF k \in off .. off + 7
                           THEN [symbol_capture EXCEPT ![k - off] = data]
                           ELSE symbol_capture
    BY <1>3, <1>4 DEF SymbolNext, write_symbol_byte
  <2> HIDE DEF off, byte
  <2>4. symbol_capture = symbol(k)
    <3>1. CASE k > 0
      BY <1>1, <2>2, <3>1
    <3>2. CASE k = 0
      <4>1. \A j \in 0 .. 7 : ~passed(j, 0)
        BY <2>1
      <4>2. symbol(0) = ZeroSymbol
        BY <4>1 DEF ZeroSymbol
      <4>3. SymbolAfter(at, 0) = ZeroSymbol
        BY DEF SymbolAfter
      <4> QED
        BY <1>1, <3>2, <4>2, <4>3
    <3> QED
      BY <1>1, <3>1, <3>2
  <2>5. SymbolAfter(at, k + 1) = symbol(k + 1)
    BY <1>1, <2>2
  <2>6. \A j \in 0 .. 7 : j # k - off => (passed(j, k) <=> passed(j, k + 1))
    BY <1>1, <2>1
  <2>7. CASE k \in off .. off + 7
    <3>1. /\ k - off \in 0 .. 7 /\ passed(k - off, k + 1)
          /\ at + 3 + off + (k - off) = at + 3 + k
      BY <1>1, <2>1, <2>7
    <3>2. byte(k - off) = data
      BY <1>2, <3>1 DEF byte
    <3> HIDE DEF passed
    <3>3. SymbolNext(data) = [j \in 0 .. 7 |-> IF j = k - off THEN data ELSE symbol(k)[j]]
      BY <2>3, <2>4, <2>7
    <3>4. ASSUME NEW j \in 0 .. 7
          PROVE  (IF j = k - off THEN data ELSE symbol(k)[j]) = symbol(k + 1)[j]
      BY <2>6, <3>1, <3>2
    <3>5. symbol(k + 1) = [j \in 0 .. 7 |-> symbol(k + 1)[j]]
      OBVIOUS
    <3> HIDE DEF symbol
    <3> QED
      BY <1>3, <2>5, <3>3, <3>4, <3>5 DEF type
  <2>8. CASE k \notin off .. off + 7
    <3>1. \A j \in 0 .. 7 : j # k - off
      BY <1>1, <2>1, <2>8
    <3> HIDE DEF passed
    <3>2. symbol(k) = symbol(k + 1)
      BY <2>6, <3>1
    <3> HIDE DEF symbol
    <3> QED
      BY <1>3, <2>3, <2>4, <2>5, <2>8, <3>2 DEF type
  <2> QED
    BY <2>7, <2>8
<1>5. CASE ~has_symbol_field(type)
  BY <1>1, <1>3, <1>5 DEF SymbolNext, SymbolAfter, type
<1> QED
  BY <1>3, <1>4, <1>5 DEF type

\* A byte that completes no message.
LEMMA SilentByte ==
  ASSUME WORD16 = 256 * 256, ReportsInv, ParserInv, loop = "feed", FeedTick,
         ~(state = "READ_PAYLOAD" /\ IsLast)
  PROVE  ReportsInv' /\ ParserInv' /\ UNCHANGED counts
<1> DEFINE data == file[fed + 1]
           at == Start(reported, Len(reported) + 1)
<1>1. /\ file \in Files /\ Len(file) \in Nat /\ fed \in Nat /\ fed < Len(file)
      /\ \A i \in 1 .. Len(file) : file[i] \in Byte
      /\ message_length \in Nat
  BY FilesAreBytes DEF ReportsInv, ParserInv, FeedTick
<1>2. data \in Byte
  BY <1>1
<1>3. at \in Nat
  <2>1. Len(reported) + 1 \in 1 .. Len(reported) + 1
    BY PlacesAreNat
  <2> QED
    BY <2>1, PlacesAreNat
<1>4. InFrame(at) /\ payload_index \in Nat
  BY DEF ParserInv, InFrame
<1>5. ReadLenHi(data) \/ ReadLenLo(data) \/ ReadPayload(data)
  BY DEF FeedTick, Clock, Idle, ReadLast
<1>6. /\ UNCHANGED counts /\ file' = file /\ fed' = fed + 1 /\ loop' = "feed"
  BY <1>5 DEF FeedTick, CountMessage, ReadLenHi, ReadLenLo, ReadPayload, Silent
<1>7. ReportsInv'
  BY <1>6, SilentKeepsReports DEF counts
<1>8. reported' = reported /\ fed' \in Nat /\ fed' <= Len(file)
  BY <1>1, <1>6 DEF counts
<1>9. ASSUME InFrame(at)', message_length' \in Nat,
             state' \in {"READ_LEN_HI", "READ_LEN_LO", "READ_PAYLOAD"}
      PROVE  ReportsInv' /\ ParserInv' /\ UNCHANGED counts
  BY <1>6, <1>7, <1>8, <1>9 DEF ParserInv
<1> HIDE DEF data, at
<1>10. CASE ReadLenHi(data)
  <2>1. /\ state = "READ_LEN_HI" /\ state' = "READ_LEN_LO" /\ payload_index' = payload_index
        /\ message_length' = data * 256 + (message_length % 256)
    BY <1>10 DEF ReadLenHi
  <2>2. fed = at
    BY <1>4, <2>1 DEF InFrame
  <2>3. message_length' \in Nat /\ message_length' \div 256 = data
    BY <1>1, <1>2, <2>1, HighThenLow
  <2> QED
    BY <1>4, <1>6, <1>8, <1>9, <2>1, <2>2, <2>3 DEF InFrame, at, data
<1>11. CASE ReadLenLo(data)
  <2>1. /\ state = "READ_LEN_LO" /\ state' = "READ_PAYLOAD" /\ payload_index' = 0
        /\ message_length' = (message_length \div 256) * 256 + data
        /\ symbol_capture' = ZeroSymbol
    BY <1>11 DEF ReadLenLo
  <2>2. fed = at + 1 /\ message_length \div 256 = file[at + 1]
    BY <1>4, <2>1 DEF InFrame
  <2>3. file[at + 1] \in Byte /\ data = file[at + 2]
    <3>1. at + 1 \in 1 .. Len(file) /\ fed + 1 = at + 2
      BY <1>1, <1>3, <2>2
    <3> QED
      BY <1>1, <3>1 DEF data
  <2>4. message_length' = LengthAt(at) /\ LengthAt(at) \in Nat
    <3>1. LengthAt(at) = 256 * file[at + 1] + file[at + 2]
      BY DEF LengthAt, extract_uint16
    <3>2. \A high, low \in Byte : /\ high * 256 + low = 256 * high + low
                                  /\ high * 256 + low \in Nat
      BY HighThenLow, 0 \in Nat
    <3>3. message_length' = file[at + 1] * 256 + data
      BY <2>1, <2>2
    <3> QED
      BY <1>2, <2>3, <3>1, <3>2, <3>3
  <2>5. SymbolAfter(at, 0) = ZeroSymbol
    BY DEF SymbolAfter
  <2>6. fed' = at + 2 /\ at + 2 + 0 = at + 2
    BY <1>3, <1>6, <2>2
  <2> QED
    BY <1>6, <1>8, <1>9, <2>1, <2>4, <2>5, <2>6 DEF InFrame, at, LengthAt, SymbolAfter
<1>12. CASE ReadPayload(data)
  <2>1. /\ state = "READ_PAYLOAD" /\ state' = state /\ message_length' = message_length
        /\ ~IsLast /\ current_msg_type' = TypeNext(data) /\ symbol_capture' = SymbolNext(data)
        /\ payload_index' = (payload_index + 1) % WORD16
    BY <1>12 DEF ReadPayload
  <2>2. at + 2 <= fed /\ message_length = LengthAt(at)
    BY <1>4, <2>1 DEF InFrame
  <2>3. payload_index' \in Nat /\ at + 2 <= fed'
    <3>1. WORD16 \in Nat \ {0}
      BY ParserAssumption
    <3>2. \A n \in Nat, m \in Nat \ {0} : n % m \in Nat
      OBVIOUS
    <3> QED
      BY <1>1, <1>3, <1>4, <1>6, <2>1, <2>2, <3>1, <3>2
  <2>4. ASSUME LengthAt(at) > 0
        PROVE  /\ fed' = at + 2 + payload_index' /\ payload_index' < LengthAt(at)
               /\ current_msg_type' = file[at + 3]
               /\ symbol_capture' = SymbolAfter(at, payload_index')
    <3>1. fed = at + 2 + payload_index /\ payload_index < LengthAt(at)
      BY <1>4, <2>1, <2>4 DEF InFrame
    <3>2. payload_index + 1 # LengthAt(at)
      BY <2>1, <2>2 DEF IsLast
    <3>3. LengthAt(at) \in Nat /\ LengthAt(at) < WORD16 /\ WORD16 \in Nat \ {0}
      <4>1. at + 2 <= Len(file)
        BY <1>1, <1>3, <2>2
      <4> QED
        BY <1>1, <1>3, <4>1, FilesAreBytes, ParserAssumption
    <3>4. payload_index' = payload_index + 1 /\ payload_index + 1 < LengthAt(at)
      <4>1. payload_index + 1 \in Nat /\ payload_index + 1 < WORD16 /\ payload_index + 1 < LengthAt(at)
        BY <1>4, <3>1, <3>2, <3>3
      <4> QED
        BY <2>1, <3>3, <4>1, ModSmall
    <3>5. TypeNext(data) = file[at + 3] /\ SymbolNext(data) = SymbolAfter(at, payload_index + 1)
      BY <1>1, <1>3, <1>4, <2>1, <2>4, NextByteOfFrame DEF data
    <3>6. fed' = at + 2 + (payload_index + 1)
      BY <1>3, <1>4, <1>6, <3>1
    <3> QED
      BY <2>1, <3>4, <3>5, <3>6
  <2>5. InFrame(at)'
    BY <1>6, <1>8, <2>1, <2>2, <2>3, <2>4 DEF InFrame, at, LengthAt, SymbolAfter
  <2> QED
    BY <1>1, <1>9, <2>1, <2>5
<1> QED
  BY <1>5, <1>10, <1>11, <1>12


\* The last byte of a payload: the message of its frame is reported.
LEMMA LastByte ==
  ASSUME ReportsInv, ParserInv, loop = "feed", FeedTick, state = "READ_PAYLOAD", IsLast
  PROVE  LET at == Start(reported, Len(reported) + 1)
             report == [end |-> fed + 1, type |-> file[at + 3]]
             symbol == SymbolAfter(at, LengthAt(at))
         IN  /\ at \in Nat /\ report \in [end : Nat, type : Byte] /\ ReportOf(report, at)
             /\ reported' = Append(reported, report)
             /\ stock_symbol' = symbol /\ msg_valid' = TRUE
             /\ ReportsInv' /\ ParserInv'
<1> DEFINE data == file[fed + 1]
           at == Start(reported, Len(reported) + 1)
           report == [end |-> fed + 1, type |-> file[at + 3]]
<1>1. /\ file \in Files /\ Len(file) \in Nat /\ fed \in Nat /\ fed < Len(file)
      /\ \A i \in 1 .. Len(file) : file[i] \in Byte
      /\ message_length \in Nat
  BY FilesAreBytes DEF ReportsInv, ParserInv, FeedTick
<1>2. at \in Nat /\ Len(reported) \in Nat
  <2>1. Len(reported) + 1 \in 1 .. Len(reported) + 1 /\ Len(reported) \in Nat
    BY PlacesAreNat
  <2> QED
    BY <2>1, PlacesAreNat
<1>3. /\ InFrame(at) /\ payload_index \in Nat /\ at + 2 <= fed
      /\ message_length = LengthAt(at) /\ payload_index + 1 = LengthAt(at)
  BY DEF ParserInv, InFrame, IsLast
<1>4. ReadLast(data)
  BY DEF FeedTick, Clock, Idle, ReadLenHi, ReadLenLo, ReadPayload
<1> HIDE DEF data, at
<1>5. LengthAt(at) \in Nat /\ LengthAt(at) > 0
  BY <1>1, <1>3
<1>6. fed = at + 2 + payload_index
  BY <1>3, <1>5 DEF InFrame
<1>7. fed + 1 = at + 2 + LengthAt(at) /\ fed + 1 <= Len(file) /\ at + 3 \in 1 .. Len(file)
  <2>1. fed + 1 = at + 2 + (payload_index + 1)
    BY <1>1, <1>2, <1>3, <1>6
  <2>2. fed + 1 = at + 2 + LengthAt(at)
    BY <1>3, <2>1
  <2>3. fed + 1 <= Len(file)
    BY <1>1
  <2>4. at + 3 \in 1 .. Len(file)
    BY <1>1, <1>2, <1>3
  <2> QED
    BY <2>2, <2>3, <2>4
<1>8. TypeNext(data) = file[at + 3] /\ SymbolNext(data) = SymbolAfter(at, LengthAt(at))
  BY <1>1, <1>2, <1>3, <1>5, NextByteOfFrame DEF data
<1>9. report \in [end : Nat, type : Byte] /\ ReportOf(report, at)
  <2>1. file[at + 3] \in Byte /\ fed + 1 \in Nat
    BY <1>1, <1>7
  <2>2. WholeAt(at)
    BY <1>1, <1>2, <1>3, <1>5, <1>7 DEF WholeAt
  <2> QED
    BY <1>7, <2>1, <2>2 DEF ReportOf
<1>10. /\ msg_valid' = TRUE /\ msg_type' = file[at + 3]
       /\ stock_symbol' = SymbolAfter(at, LengthAt(at))
       /\ state' = "READ_LEN_HI" /\ payload_index' = 0 /\ message_length' = message_length
  BY <1>4, <1>8 DEF ReadLast, is_symbol_filtered
<1>11. /\ reported' = Append(reported, report) /\ accepted_messages' = accepted_messages + 1
       /\ file' = file /\ fed' = fed + 1 /\ loop' = loop
  BY <1>10 DEF FeedTick, CountMessage
<1> HIDE DEF report
<1>12. reported \in Reports /\ accepted_messages = Len(reported)
  BY DEF ReportsInv
<1>13. /\ reported' \in Reports /\ Len(reported') = Len(reported) + 1
       /\ \A k \in 1 .. Len(reported) : reported'[k] = reported[k]
       /\ reported'[Len(reported) + 1] = report
  <2>1. reported \in Seq([end : Nat, type : Byte])
    BY <1>12 DEF Reports
  <2> QED
    BY <1>9, <1>11, <2>1, AppendProperties DEF Reports
<1>14. \A k \in 1 .. Len(reported) + 1 : Start(reported', k) = Start(reported, k)
  <2> TAKE k \in 1 .. Len(reported) + 1
  <2>1. k = 1 \/ k - 1 \in 1 .. Len(reported)
    BY <1>2
  <2> QED
    BY <1>13, <2>1 DEF Start
<1>15. Start(reported', Len(reported') + 1) = fed'
  <2>1. (Len(reported) + 1) + 1 # 1 /\ ((Len(reported) + 1) + 1) - 1 = Len(reported) + 1
    BY <1>2
  <2>2. Start(reported', (Len(reported) + 1) + 1) = reported'[Len(reported) + 1].end
    BY <2>1 DEF Start
  <2>3. report.end = fed + 1
    BY DEF report
  <2> QED
    BY <1>11, <1>13, <2>2, <2>3
<1>16. ASSUME NEW k \in 1 .. Len(reported) + 1
       PROVE  ReportOf(reported'[k], Start(reported', k))
  <2>1. CASE k \in 1 .. Len(reported)
    BY <1>13, <1>14, <2>1 DEF ReportsInv
  <2>2. CASE k = Len(reported) + 1
    BY <1>9, <1>13, <1>14, <2>2 DEF at
  <2> QED
    BY <1>2, <2>1, <2>2
<1>17. ReportsInv'
  BY <1>1, <1>11, <1>12, <1>13, <1>16 DEF ReportsInv, ReportOf, WholeAt, LengthAt
<1>18. ParserInv'
  <2>1. fed' \in Nat /\ fed' <= Len(file) /\ payload_index' \in Nat /\ message_length' \in Nat
    BY <1>1, <1>7, <1>10, <1>11
  <2> QED
    BY <1>10, <1>11, <1>15, <2>1 DEF ParserInv, InFrame
<1> QED
  BY <1>2, <1>9, <1>10, <1>11, <1>17, <1>18 DEF at, report


\* The steps of the parser's program.
LEMMA ParserStep ==
  ASSUME WORD16 = 256 * 256, ReportsInv, ParserInv, BenchNext
  PROVE  ReportsInv' /\ ParserInv' /\ file' = file
<1>1. CASE FeedTick
  <2>1. loop = "feed" /\ file' = file
    BY <1>1 DEF FeedTick
  <2> QED
    BY <1>1, <2>1, SilentByte, LastByte
<1>2. ASSUME ReportsInv, ParserInv, UNCHANGED <<file, fed, counts>>,
             loop' \in {"reset", "settle", "feed", "done"}, loop' = "done" => fed = Len(file),
             loop' \in {"reset", "settle"} =>
                state' = "READ_LEN_HI" /\ fed = 0 /\ reported = << >>,
             message_length' \in Nat,
             InFrame(Start(reported, Len(reported) + 1))', 
             state' \in {"READ_LEN_HI", "READ_LEN_LO", "READ_PAYLOAD"}
      PROVE  ReportsInv' /\ ParserInv' /\ file' = file
  BY <1>2, SilentKeepsReports DEF ParserInv, counts
<1>3. CASE ResetTick
  <2>1. fed = 0 /\ reported = << >> /\ Len(reported) = 0
    BY <1>3 DEF ResetTick, ParserInv
  <2>2. /\ UNCHANGED <<file, fed, counts>> /\ loop' \in {"reset", "settle"}
        /\ state' = "READ_LEN_HI" /\ payload_index' = 0 /\ message_length' = 0
    BY <1>3 DEF ResetTick, Reset
  <2>3. InFrame(Start(reported, Len(reported) + 1))'
    BY <2>1, <2>2 DEF InFrame, Start, counts
  <2> QED
    BY <1>2, <2>1, <2>2, <2>3
<1>4. CASE SettleTick
  <2>1. fed = 0 /\ reported = << >> /\ state = "READ_LEN_HI" /\ message_length \in Nat
    BY <1>4 DEF SettleTick, ParserInv
  <2>2. /\ UNCHANGED <<file, fed, counts>> /\ loop' \in {"settle", "feed"}
        /\ UNCHANGED frameRegs
    BY <1>4 DEF SettleTick, Clock, Idle
  <2>3. InFrame(Start(reported, Len(reported) + 1))'
    BY <2>1, <2>2 DEF InFrame, Start, counts, frameRegs, ParserInv, LengthAt, SymbolAfter
  <2> QED
    BY <1>2, <2>1, <2>2, <2>3 DEF frameRegs
<1>5. CASE Summary
  <2>1. /\ UNCHANGED <<file, fed, counts>> /\ loop' = "done" /\ fed = Len(file)
        /\ UNCHANGED frameRegs
    BY <1>5 DEF Summary, vars
  <2>2. InFrame(Start(reported, Len(reported) + 1))'
    BY <2>1 DEF InFrame, Start, counts, frameRegs, ParserInv, LengthAt, SymbolAfter
  <2> QED
    BY <1>2, <2>1, <2>2 DEF frameRegs, ParserInv
<1> QED
  BY <1>1, <1>3, <1>4, <1>5 DEF BenchNext

LEMMA ParserStays ==
  ASSUME ReportsInv, ParserInv, UNCHANGED parserVars, file' = file
  PROVE  ReportsInv' /\ ParserInv'
<1>1. UNCHANGED <<state, message_length, payload_index, current_msg_type, symbol_capture,
                  fed, loop, accepted_messages, reported>>
  BY DEF parserVars, vars, frameRegs, counts
<1> QED
  BY <1>1, SilentKeepsReports DEF ParserInv, InFrame, LengthAt, SymbolAfter

\* At the end of the file no whole frame is left but an empty one.
LEMMA NothingIsLeft ==
  ASSUME ReportsInv, ParserInv, loop = "done", NEW at, at = Start(reported, Len(reported) + 1),
         at + 2 <= Len(file), at + 2 + LengthAt(at) <= Len(file)
  PROVE  LengthAt(at) = 0
<1>1. at \in Nat
  <2>1. Len(reported) + 1 \in 1 .. Len(reported) + 1
    BY PlacesAreNat
  <2> QED
    BY <2>1, PlacesAreNat
<1>2. LengthAt(at) \in Nat /\ Len(file) \in Nat
  BY <1>1, FilesAreBytes DEF ReportsInv
<1>3. InFrame(at) /\ fed = Len(file) /\ state \in {"READ_LEN_HI", "READ_LEN_LO", "READ_PAYLOAD"}
  BY DEF ParserInv
<1>4. state = "READ_PAYLOAD"
  BY <1>1, <1>2, <1>3 DEF InFrame
<1>5. ASSUME LengthAt(at) > 0
      PROVE  FALSE
  <2>1. fed = at + 2 + payload_index /\ payload_index < LengthAt(at) /\ payload_index \in Nat
    BY <1>3, <1>4, <1>5 DEF InFrame
  <2>2. \A a, p, n \in Nat : p < n => ~(a + 2 + n <= a + 2 + p)
    OBVIOUS
  <2> QED
    BY <1>1, <1>2, <1>3, <2>1, <2>2
<1> QED
  BY <1>2, <1>5


\* Another frame is walked over: it is the next one the parser has reported.
LEMMA WalkStep ==
  ASSUME ReportsInv, LatencyInv, WalkInv, latency!MeasureMessage, UNCHANGED reported
  PROVE  WalkInv'
<1> DEFINE n == Len(walked)
<1>1. /\ offset \in Nat /\ n \in Nat /\ message_count = n /\ Len(file) \in Nat
      /\ walked \in Seq(Frame) /\ Len(reported) \in Nat
  BY FilesAreBytes, PlacesAreNat DEF LatencyInv
<1>2. /\ message_count < latency_messages /\ offset + 2 <= Len(file)
      /\ offset + 2 + LengthAt(offset) <= Len(file)
      /\ file' = file /\ offset' = offset + 2 + LengthAt(offset) /\ running /\ running'
      /\ message_count' = message_count + 1
  BY SameBytes DEF latency!MeasureMessage, latency!WholeFrame, latency!NextOffset,
     latency!msg_len, LengthAt
<1>3. PICK type \in latency!TypesAt(offset + 2) :
         walked' = Append(walked, [at |-> offset + 2, type |-> type])
  BY DEF latency!MeasureMessage
<1>4. walked' \in Seq(Frame)
  BY MeasureInv DEF LatencyInv
<1>5. /\ Len(walked') = n + 1 /\ \A k \in 1 .. n : walked'[k] = walked[k]
      /\ walked'[n + 1] = [at |-> offset + 2, type |-> type]
  BY <1>1, <1>3, AppendProperties
<1> HIDE DEF n
<1>6. n <= Len(reported) => offset = Start(reported, n + 1)
  BY DEF WalkInv, n
<1>7. ASSUME n + 1 <= Len(reported)
      PROVE  /\ type = reported[n + 1].type
             /\ offset' = reported[n + 1].end
  <2>1. n + 1 \in 1 .. Len(reported) /\ n <= Len(reported)
    BY <1>1, <1>7
  <2>2. ReportOf(reported[n + 1], offset)
    BY <1>6, <2>1 DEF ReportsInv
  <2>3. LengthAt(offset) \in Nat /\ LengthAt(offset) > 0
    BY <1>1, <1>2, <2>2, FilesAreBytes DEF ReportOf, WholeAt, ReportsInv
  <2>4. offset + 2 < Len(file) /\ (offset + 2) + 1 = offset + 3
    BY <1>1, <1>2, <2>3
  <2>5. type = file[offset + 3]
    BY <2>4 DEF latency!TypesAt
  <2> QED
    BY <1>2, <2>2, <2>5 DEF ReportOf
<1>8. ASSUME NEW k \in 1 .. n + 1
      PROVE  LET at == Start(reported, k) IN
             /\ k <= Len(reported) + 1 =>
                   /\ walked'[k].at = at + 2
                   /\ at + 2 <= Len(file) /\ at + 2 + LengthAt(at) <= Len(file)
             /\ k <= Len(reported) => walked'[k].type = reported[k].type
  <2>1. CASE k \in 1 .. n
    BY <1>5, <2>1 DEF WalkInv, n
  <2>2. CASE k = n + 1
    <3>1. k <= Len(reported) + 1 => n <= Len(reported)
      BY <1>1, <2>2
    <3>2. k <= Len(reported) + 1 => offset = Start(reported, k)
      BY <1>6, <2>2, <3>1
    <3> QED
      BY <1>2, <1>5, <1>7, <2>2, <3>2
  <2> QED
    BY <1>1, <2>1, <2>2
<1>9. n + 1 <= Len(reported) => offset' = Start(reported, (n + 1) + 1)
  <2>1. (n + 1) + 1 # 1 /\ ((n + 1) + 1) - 1 = n + 1
    BY <1>1
  <2> QED
    BY <1>7, <2>1 DEF Start
<1>10. message_count' <= latency_messages /\ walked' # << >>
  <2>1. Len(walked') # 0
    BY <1>1, <1>5
  <2> QED
    BY <1>1, <1>2, <2>1, LatencyTypes
<1> QED
  BY <1>2, <1>5, <1>8, <1>9, <1>10 DEF WalkInv, LengthAt

LEMMA WalkStays ==
  ASSUME WalkInv, UNCHANGED <<file, reported, offset, message_count, running, walked>>
  PROVE  WalkInv'
BY DEF WalkInv, LengthAt, latency!WholeFrame, latency!msg_len

\* Where the reader is, the frame after those of its messages begins.
LEMMA ReaderIsAtAStart ==
  ASSUME ReportsInv, ReaderInv, CutInv
  PROVE  /\ Len(messages) \in Nat /\ Len(messages) <= Len(reported)
         /\ position = Start(reported, Len(messages) + 1)
<1> DEFINE n == Len(messages)
<1>1. n \in Nat /\ position = Ends(messages, n) /\ messages \in Seq(FileMessage)
  BY LenProperties DEF ReaderInv
<1>2. Len(reported) \in Nat
  BY PlacesAreNat
<1>3. CASE n = 0
  <2>1. position = 0
    BY <1>1, <1>3, EndsAdd
  <2> QED
    BY <1>2, <1>3, <2>1 DEF Start
<1>4. CASE n # 0
  <2>1. n \in 1 .. Len(messages) /\ n + 1 # 1 /\ (n + 1) - 1 = n
    BY <1>1, <1>4
  <2>2. n <= Len(reported) /\ reported[n].end = Ends(messages, n)
    BY <2>1 DEF CutInv
  <2> QED
    BY <1>1, <2>1, <2>2 DEF Start
<1> QED
  BY <1>1, <1>3, <1>4

\* Another message is cut: it is the next one the parser has reported.
LEMMA CutStep ==
  ASSUME ReportsInv, ParserInv, loop = "done", ReaderInv, CutInv,
         reader!ReadMessage, UNCHANGED reported
  PROVE  CutInv'
<1> DEFINE n == Len(messages)
           len == LengthAt(position)
<1>1. /\ n \in Nat /\ n <= Len(reported) /\ position = Start(reported, n + 1)
      /\ Len(reported) \in Nat /\ position \in Nat
  BY ReaderIsAtAStart, PlacesAreNat DEF ReaderInv
<1>2. reader!length = len
  BY SameBytes DEF reader!length, LengthAt
<1>3. /\ position + 2 <= Len(file) /\ len \in 1 .. MAX_LENGTH
      /\ position + 2 + len <= Len(file)
      /\ position' = position + 2 + len /\ file' = file /\ reading /\ reading'
  BY <1>2 DEF reader!ReadMessage, reader!WholeFrame, reader!HasLength
<1>4. PICK msg : messages' = Append(messages, msg) /\ msg.type = file[position + 3]
  BY DEF reader!ReadMessage
<1> HIDE DEF len
<1>5. ReaderInv'
  BY ReadMessageInv
<1>6. messages \in Seq(FileMessage) /\ messages' \in Seq(FileMessage)
      /\ position' = Ends(messages', Len(messages'))
  BY <1>5 DEF ReaderInv
<1>7. msg \in FileMessage
  <2>1. n + 1 \in 1 .. Len(messages') /\ messages'[n + 1] = msg
    BY <1>1, <1>4, <1>6
  <2> QED
    BY <1>6, <2>1, ElementOfSeq
<1>8. /\ Len(messages') = n + 1 /\ \A k \in 1 .. n : messages'[k] = messages[k]
      /\ messages'[n + 1] = msg
      /\ \A k \in 0 .. n : Ends(messages', k) = Ends(messages, k)
  BY <1>4, <1>6, <1>7, EndsKept
<1>9. n + 1 <= Len(reported)
  <2> SUFFICES ASSUME ~(n + 1 <= Len(reported))
               PROVE  FALSE
    OBVIOUS
  <2>1. n = Len(reported)
    BY <1>1
  <2>2. LengthAt(position) = 0
    BY <1>1, <1>3, <2>1, NothingIsLeft DEF len
  <2> QED
    BY <1>3, <2>2, ReadersAssumption DEF len
<1>10. n + 1 \in 1 .. Len(reported)
  BY <1>1, <1>9
<1>11. ReportOf(reported[n + 1], position)
  BY <1>1, <1>10 DEF ReportsInv
<1>12. reported[n + 1].end = position' /\ reported[n + 1].type = msg.type
  BY <1>3, <1>4, <1>11 DEF ReportOf, len
<1> HIDE DEF n
<1>13. ASSUME NEW k \in 1 .. n + 1
       PROVE  /\ k <= Len(reported)
              /\ reported[k].end = Ends(messages', k)
              /\ reported[k].type = messages'[k].type
  <2>1. CASE k \in 1 .. n
    <3>1. k \in 0 .. n
      BY <1>1, <2>1
    <3> QED
      BY <1>8, <2>1, <3>1 DEF CutInv, n
  <2>2. CASE k = n + 1
    BY <1>6, <1>8, <1>9, <1>12, <2>2
  <2> QED
    BY <1>1, <2>1, <2>2
<1> QED
  BY <1>3, <1>8, <1>13 DEF CutInv

LEMMA CutStays ==
  ASSUME CutInv, UNCHANGED <<file, reported, position, messages, reading>>
  PROVE  CutInv'
BY DEF CutInv, reader!WholeFrame, reader!HasLength, reader!length

-----------------------------------------------------------------------------
FramesInv == ReportsInv /\ ParserInv /\ TurnInv /\ WalkInv /\ CutInv

LEMMA InitFramesInv == FilesInit => FramesInv
<1> SUFFICES ASSUME FilesInit
             PROVE  FramesInv
  OBVIOUS
<1>1. /\ file \in Files /\ turn = "hft_tb" /\ loop = "reset" /\ fed = 0
      /\ accepted_messages = 0 /\ reported = << >> /\ state = "READ_LEN_HI"
      /\ message_length = 0 /\ payload_index = 0
      /\ messages = << >> /\ reading = TRUE /\ offset = 0 /\ message_count = 0
      /\ running = TRUE /\ walked = << >>
  BY DEF FilesInit, BenchInit, Init, latency!Init, reader!Init
<1>2. reported \in Reports /\ Len(reported) = 0 /\ Len(walked) = 0 /\ Len(messages) = 0
      /\ 1 .. 0 = {} /\ Start(reported, 0 + 1) = 0
  BY <1>1 DEF Reports, Start
<1>3. Len(file) \in Nat
  BY <1>1, FilesAreBytes
<1>4. ReportsInv
  BY <1>1, <1>2 DEF ReportsInv
<1>5. ParserInv
  BY <1>1, <1>2, <1>3 DEF ParserInv, InFrame
<1>6. WalkInv
  BY <1>1, <1>2, LatencyTypes DEF WalkInv
<1>7. TurnInv /\ CutInv
  BY <1>1, <1>2 DEF TurnInv, CutInv
<1> QED
  BY <1>4, <1>5, <1>6, <1>7 DEF FramesInv

LEMMA NextFramesInv ==
  ASSUME WORD16 = 256 * 256, ReaderInv, LatencyInv, FramesInv, [FilesNext]_allVars
  PROVE  FramesInv'
<1>1. ReportsInv /\ ParserInv /\ TurnInv /\ WalkInv /\ CutInv
  BY DEF FramesInv
<1>2. CASE RunParserTestbench
  <2>1. /\ BenchNext /\ turn = "hft_tb" /\ UNCHANGED <<readerVars, latencyVars>>
        /\ turn' = IF loop' = "done" THEN "hft_latency" ELSE turn
    BY <1>2 DEF RunParserTestbench, Done
  <2>2. ReportsInv' /\ ParserInv' /\ file' = file
    BY <1>1, <2>1, ParserStep
  <2>3. /\ running /\ reading /\ messages = << >> /\ walked = << >> /\ offset = 0
        /\ message_count = 0
    <3>1. running /\ reading /\ messages = << >> /\ walked = << >>
      BY <1>1, <2>1 DEF TurnInv
    <3>2. Len(walked) = 0
      BY <3>1
    <3> QED
      BY <1>1, <3>1, <3>2 DEF WalkInv, LatencyInv
  <2>4. running' = running /\ walked' = << >> /\ offset' = 0 /\ message_count' = 0
        /\ reading' = reading /\ messages' = << >>
    BY <2>1, <2>3 DEF latencyVars, readerVars
  <2>5. WalkInv'
    <3>1. Len(walked') = 0 /\ 1 .. 0 = {} /\ Start(reported', 0 + 1) = 0
      BY <2>4 DEF Start
    <3>2. 0 <= latency_messages
      BY LatencyTypes
    <3> QED
      BY <2>3, <2>4, <3>1, <3>2 DEF WalkInv
  <2>6. TurnInv'
    BY <2>1, <2>3, <2>4 DEF TurnInv
  <2>7. CutInv'
    <3>1. Len(messages') = 0
      BY <2>4
    <3> QED
      BY <2>3, <2>4, <3>1 DEF CutInv
  <2> QED
    BY <2>2, <2>5, <2>6, <2>7 DEF FramesInv
<1>3. CASE RunLatencyTestbench
  <2>1. /\ turn = "hft_latency" /\ loop = "done" /\ reading /\ messages = << >>
        /\ UNCHANGED <<parserVars, readerVars>>
        /\ turn' \in {"hft_latency", "read_file"}
    BY <1>1, <1>3 DEF RunLatencyTestbench, TurnInv
  <2>2. file' = file
    BY <1>3 DEF RunLatencyTestbench, latency!Next, latency!MeasureMessage,
       latency!StopMeasuring
  <2>3. UNCHANGED <<loop, reported, reading, messages, position>>
    BY <2>1 DEF parserVars, readerVars, counts
  <2>4. ReportsInv' /\ ParserInv'
    BY <1>1, <2>1, <2>2, ParserStays
  <2>5. TurnInv' /\ CutInv'
    BY <1>1, <2>1, <2>2, <2>3, CutStays DEF TurnInv
  <2>6. CASE latency!MeasureMessage
    BY <1>1, <2>3, <2>4, <2>5, <2>6, WalkStep DEF FramesInv
  <2>7. CASE latency!StopMeasuring
    <3>1. WalkInv'
      BY <1>1, <2>3, <2>7 DEF latency!StopMeasuring, WalkInv, LengthAt,
         latency!WholeFrame, latency!msg_len
    <3> QED
      BY <2>4, <2>5, <3>1 DEF FramesInv
  <2> QED
    BY <1>3, <2>6, <2>7 DEF RunLatencyTestbench, latency!Next
<1>4. CASE RunReader
  <2>1. /\ turn = "read_file" /\ loop = "done" /\ UNCHANGED <<parserVars, latencyVars>>
        /\ turn' \in {"read_file", "real_itch"}
    BY <1>1, <1>4 DEF RunReader, TurnInv
  <2>2. file' = file
    BY <1>4 DEF RunReader, reader!Next, reader!ReadMessage, reader!StopReading
  <2>3. UNCHANGED <<loop, reported, offset, message_count, running, walked>>
    BY <2>1 DEF parserVars, latencyVars, counts
  <2>4. ReportsInv' /\ ParserInv' /\ WalkInv'
    BY <1>1, <2>1, <2>2, <2>3, ParserStays, WalkStays
  <2>5. TurnInv'
    BY <2>1, <2>3 DEF TurnInv
  <2>6. CASE reader!ReadMessage
    BY <1>1, <2>1, <2>3, <2>4, <2>5, <2>6, CutStep DEF FramesInv
  <2>7. CASE reader!StopReading
    <3>1. CutInv'
      BY <1>1, <2>3, <2>7 DEF reader!StopReading, CutInv,
         reader!WholeFrame, reader!HasLength, reader!length
    <3> QED
      BY <2>4, <2>5, <3>1 DEF FramesInv
  <2> QED
    BY <1>4, <2>6, <2>7 DEF RunReader, reader!Next
<1>5. CASE UNCHANGED <<file, turn, parserVars, readerVars, latencyVars>>
  <2>1. UNCHANGED <<file, turn, loop, reported, offset, message_count, running, walked,
                    position, messages, reading>>
    BY <1>5 DEF parserVars, readerVars, latencyVars, counts
  <2>2. ReportsInv' /\ ParserInv' /\ WalkInv' /\ CutInv'
    BY <1>1, <1>5, <2>1, ParserStays, WalkStays, CutStays
  <2> QED
    BY <1>1, <2>1, <2>2 DEF FramesInv, TurnInv
<1>6. CASE RunEngine
  BY <1>5, <1>6 DEF RunEngine, real!ProcessNext, readerVars
<1>7. CASE UNCHANGED allVars
  BY <1>5, <1>7 DEF allVars
<1> QED
  BY <1>2, <1>3, <1>4, <1>6, <1>7 DEF FilesNext, Finished


LEMMA FramesInvAgrees ==
  ASSUME ReaderInv, LatencyInv, FramesInv
  PROVE  ReadersAgree
<1>1. ReportsInv /\ ParserInv /\ TurnInv /\ WalkInv /\ CutInv
  BY DEF FramesInv
<1>2. /\ DOMAIN messages = 1 .. Len(messages) /\ DOMAIN walked = 1 .. Len(walked)
      /\ DOMAIN reported = 1 .. Len(reported) /\ accepted_messages = Len(reported)
      /\ Len(messages) \in Nat /\ Len(walked) \in Nat /\ Len(reported) \in Nat
      /\ message_count = Len(walked) /\ file \in Files /\ Len(file) \in Nat
  BY <1>1, PlacesAreNat, LenProperties, FilesAreBytes
     DEF ReaderInv, LatencyInv, ReportsInv, Reports
<1>3. ASSUME NEW k \in DOMAIN messages
      PROVE  /\ k <= accepted_messages
             /\ reported[k] = [end |-> EndOf(k), type |-> messages[k].type]
  <2>1. /\ k <= Len(reported) /\ reported[k].end = Ends(messages, k)
        /\ reported[k].type = messages[k].type /\ k \in 1 .. Len(reported)
    BY <1>1, <1>2 DEF CutInv
  <2>2. reported[k] \in [end : Nat, type : Byte]
    BY <1>1, <2>1, PlacesAreNat
  <2>3. EndOf(k) = Ends(messages, k)
    BY DEF EndOf, Ends
  <2>4. \A x, e, t : x \in [end : Nat, type : Byte] /\ x.end = e /\ x.type = t
                        => x = [end |-> e, type |-> t]
    OBVIOUS
  <2> QED
    BY <1>2, <2>1, <2>2, <2>3, <2>4
<1>4. ASSUME ~reading, accepted_messages > Len(messages)
      PROVE  reader!length > MAX_LENGTH
  <2> DEFINE n == Len(messages)
  <2>1. n + 1 \in 1 .. Len(reported) /\ position = Start(reported, n + 1)
    BY <1>1, <1>2, <1>4, ReaderIsAtAStart
  <2>2. WholeAt(position)
    BY <1>1, <2>1 DEF ReportsInv, ReportOf
  <2>3. reader!length = LengthAt(position) /\ position \in Nat /\ MAX_LENGTH \in Nat
    BY SameBytes, ReadersAssumption DEF reader!length, LengthAt, ReaderInv
  <2>4. LengthAt(position) \in Nat /\ LengthAt(position) > 0
    BY <1>2, <2>2, <2>3, FilesAreBytes DEF WholeAt
  <2>5. ~(LengthAt(position) \in 1 .. MAX_LENGTH)
    BY <1>1, <1>4, <2>2, <2>3 DEF CutInv, reader!WholeFrame, reader!HasLength, WholeAt
  <2> QED
    BY <2>3, <2>4, <2>5
<1>5. ASSUME NEW k \in DOMAIN walked \cap DOMAIN reported
      PROVE  walked[k] = [at |-> TypeAt(k), type |-> reported[k].type]
  <2>1. k \in 1 .. Len(walked) /\ k <= Len(reported) /\ k <= Len(reported) + 1
    BY <1>2
  <2>2. walked[k].at = Start(reported, k) + 2 /\ walked[k].type = reported[k].type
    BY <1>1, <2>1 DEF WalkInv
  <2>3. walked[k] \in [at : Nat, type : Byte]
    BY <2>1, ElementOfSeq DEF LatencyInv, Frame
  <2>4. TypeAt(k) = Start(reported, k) + 2
    BY DEF TypeAt, Start
  <2>5. \A x, a, t : x \in [at : Nat, type : Byte] /\ x.at = a /\ x.type = t
                        => x = [at |-> a, type |-> t]
    OBVIOUS
  <2> QED
    BY <2>2, <2>3, <2>4, <2>5
<1>6. ASSUME ~running, Len(walked) < accepted_messages
      PROVE  message_count = latency_messages
  <2> DEFINE n == Len(walked)
  <2>1. n + 1 \in 1 .. Len(reported) /\ n <= Len(reported)
    BY <1>2, <1>6
  <2>2. offset = Start(reported, n + 1)
    BY <1>1, <2>1 DEF WalkInv
  <2>3. WholeAt(offset)
    BY <1>1, <2>1, <2>2 DEF ReportsInv, ReportOf
  <2>4. offset \in Nat /\ latency!msg_len = LengthAt(offset) /\ ~latency!WholeFrame
    BY <1>1, <1>6, SameBytes DEF LatencyInv, latency!msg_len, LengthAt, WalkInv
  <2>5. ~(message_count < latency_messages)
    BY <1>2, <2>3, <2>4 DEF WholeAt, latency!WholeFrame
  <2>6. message_count \in Nat /\ latency_messages \in Nat
    BY <1>2, LatencyTypes
  <2>7. message_count <= latency_messages
    BY <1>1 DEF WalkInv
  <2> QED
    BY <2>5, <2>6, <2>7
<1>7. ASSUME ~running, ~reading, Len(walked) > accepted_messages
      PROVE  extract_uint16(file, walked[accepted_messages + 1].at - 2) = 0
  <2> DEFINE k == Len(reported) + 1
             at == Start(reported, k)
  <2>1. loop = "done"
    BY <1>1, <1>7 DEF TurnInv
  <2>2. k \in 1 .. Len(walked) /\ k <= Len(reported) + 1 /\ k = accepted_messages + 1
        /\ k \in 1 .. Len(reported) + 1
    BY <1>2, <1>7
  <2>3. /\ walked[k].at = at + 2 /\ at + 2 <= Len(file) /\ at + 2 + LengthAt(at) <= Len(file)
    BY <1>1, <2>2 DEF WalkInv
  <2>4. at \in Nat
    BY <1>1, <2>2, PlacesAreNat
  <2>5. LengthAt(at) = 0
    BY <1>1, <2>1, <2>3, NothingIsLeft
  <2> HIDE DEF at
  <2>6. walked[accepted_messages + 1].at - 2 = at
    BY <2>2, <2>3, <2>4
  <2> QED
    BY <2>5, <2>6 DEF LengthAt
<1> QED
  BY <1>3, <1>4, <1>5, <1>6, <1>7 DEF ReadersAgree

(***************************************************************************)
(* Whatever bytes a file is made of, the three framings of it agree: the   *)
(* file reader, the latency testbench and the parser in hardware find the  *)
(* same messages at the same places, up to where one of them stops, for    *)
(* one of the reasons there are: a frame too long for the reader, an empty *)
(* one, or the limit of the testbench.  The index of the parser has to be  *)
(* as wide as the length (itch_stream_parser.sv, line 32).                 *)
(***************************************************************************)
THEOREM FramingsAlwaysAgree == ASSUME WORD16 = 256 * 256 PROVE FilesSpec => []ReadersAgree
<1>1. FilesInit => ReaderInv /\ BookInv /\ LatencyInv /\ FramesInv
  BY InitReaderInv, InitBookInv, InitLatencyInv, InitFramesInv
<1>2. ReaderInv /\ BookInv /\ LatencyInv /\ FramesInv /\ [FilesNext]_allVars
         => (ReaderInv /\ BookInv /\ LatencyInv /\ FramesInv)'
  BY NextReaderInv, NextBookInv, NextLatencyInv, NextFramesInv
<1>3. ReaderInv /\ LatencyInv /\ FramesInv => ReadersAgree
  BY FramesInvAgrees
<1> QED
  BY <1>1, <1>2, <1>3, PTL DEF FilesSpec

-----------------------------------------------------------------------------
\* The counts by ticker, which are those of the frames.

\* The ticker of a report is that of the frame it was made from.
ShownBy(rs, k) ==
    LET at == Start(rs, k) IN symbol_to_string(SymbolAfter(at, LengthAt(at)))

Showing(rs, ticker) == { k \in 1 .. Len(rs) : ShownBy(rs, k) = ticker }

HitsOf(rs) ==
    [ticker \in { ShownBy(rs, k) : k \in 1 .. Len(rs) } \ {<< >>} |->
        Cardinality(Showing(rs, ticker))]

\* A file has fewer frames than the parser's counter can say: three bytes each.
FilesFit == \A f \in Files : Len(f) < 3 * WORD32

\* The counts of the program, and room for that of the parser.
HitsInv ==
    /\ total_messages = accepted_messages
    /\ 3 * Len(reported) <= Start(reported, Len(reported) + 1)
    /\ IF target_ticker = Null
       THEN ticker_hits = HitsOf(reported)
       ELSE matched_ticker_messages = Cardinality(Showing(reported, target_ticker))

\* One report more, whose ticker is known.
LEMMA OneReportMore ==
  ASSUME ReportsInv, NEW report \in [end : Nat, type : Byte]
  PROVE  LET more == Append(reported, report)
             at == Start(reported, Len(reported) + 1)
             symbol == symbol_to_string(SymbolAfter(at, LengthAt(at)))
         IN
         /\ Len(more) = Len(reported) + 1
         /\ \A k \in 1 .. Len(reported) : ShownBy(more, k) = ShownBy(reported, k)
         /\ ShownBy(more, Len(reported) + 1) = symbol
         /\ Showing(more, symbol) = Showing(reported, symbol) \cup {Len(reported) + 1}
         /\ \A ticker : ticker # symbol => Showing(more, ticker) = Showing(reported, ticker)
<1> DEFINE more == Append(reported, report)
           at == Start(reported, Len(reported) + 1)
           symbol == symbol_to_string(SymbolAfter(at, LengthAt(at)))
           n == Len(reported)
<1>1. n \in Nat /\ reported \in Seq([end : Nat, type : Byte])
  BY PlacesAreNat DEF ReportsInv, Reports
<1>2. /\ Len(more) = n + 1
      /\ \A i \in 1 .. n : more[i] = reported[i]
  BY <1>1, AppendProperties
<1>3. ASSUME NEW k \in 1 .. n + 1
      PROVE  Start(more, k) = Start(reported, k)
  <2>1. k = 1 \/ k - 1 \in 1 .. n
    BY <1>1
  <2> QED
    BY <1>2, <2>1 DEF Start
<1>4. \A k \in 1 .. n : ShownBy(more, k) = ShownBy(reported, k)
  <2>1. \A k \in 1 .. n : k \in 1 .. n + 1
    BY <1>1
  <2> QED
    BY <1>3, <2>1 DEF ShownBy
<1>5. ShownBy(more, n + 1) = symbol
  <2>1. n + 1 \in 1 .. n + 1
    BY <1>1
  <2>2. Start(more, n + 1) = at
    BY <1>3, <2>1
  <2> QED
    BY <2>2 DEF ShownBy
<1>6. 1 .. n + 1 = 1 .. n \cup {n + 1} /\ n + 1 \notin 1 .. n
  BY <1>1
<1> HIDE DEF n, symbol, at, more
<1>7. ASSUME NEW ticker
      PROVE  /\ ticker = symbol => Showing(more, ticker) = Showing(reported, ticker) \cup {n + 1}
             /\ ticker # symbol => Showing(more, ticker) = Showing(reported, ticker)
  <2>1. Showing(more, ticker) = { k \in 1 .. n + 1 : ShownBy(more, k) = ticker }
    BY <1>2 DEF Showing
  <2>2. Showing(reported, ticker) = { k \in 1 .. n : ShownBy(reported, k) = ticker }
    BY DEF Showing, n
  <2> QED
    BY <1>4, <1>5, <1>6, <2>1, <2>2
<1> QED
  BY <1>2, <1>4, <1>5, <1>7 DEF n, symbol, at, more

LEMMA ShowingIsFinite ==
  ASSUME ReportsInv, NEW ticker
  PROVE  /\ IsFiniteSet(Showing(reported, ticker))
         /\ Cardinality(Showing(reported, ticker)) \in Nat
         /\ Len(reported) + 1 \notin Showing(reported, ticker)
<1>1. Len(reported) \in Nat
  BY PlacesAreNat
<1>2. IsFiniteSet(1 .. Len(reported))
  BY <1>1, FS_Interval
<1>3. Showing(reported, ticker) \subseteq 1 .. Len(reported)
  BY DEF Showing
<1>4. IsFiniteSet(Showing(reported, ticker))
  BY <1>2, <1>3, FS_Subset
<1> QED
  BY <1>1, <1>3, <1>4, FS_CardinalityType

\* What a report more does to the counts of the program.
LEMMA OneHitMore ==
  ASSUME ReportsInv, NEW report \in [end : Nat, type : Byte]
  PROVE  LET more == Append(reported, report)
             at == Start(reported, Len(reported) + 1)
             symbol == symbol_to_string(SymbolAfter(at, LengthAt(at)))
         IN
         /\ \A ticker : Cardinality(Showing(more, ticker)) =
               Cardinality(Showing(reported, ticker)) + IF ticker = symbol THEN 1 ELSE 0
         /\ HitsOf(more) = IF symbol = << >> THEN HitsOf(reported)
                           ELSE HitsOf(reported) (+) SetToBag({symbol})
<1> DEFINE more == Append(reported, report)
           at == Start(reported, Len(reported) + 1)
           symbol == symbol_to_string(SymbolAfter(at, LengthAt(at)))
           n == Len(reported)
           shown == { ShownBy(reported, k) : k \in 1 .. n }
<1>1. /\ Len(more) = n + 1
      /\ \A k \in 1 .. n : ShownBy(more, k) = ShownBy(reported, k)
      /\ ShownBy(more, n + 1) = symbol
      /\ Showing(more, symbol) = Showing(reported, symbol) \cup {n + 1}
      /\ \A ticker : ticker # symbol => Showing(more, ticker) = Showing(reported, ticker)
  BY OneReportMore
<1> n \in Nat
  BY PlacesAreNat
<1> HIDE DEF symbol, at, more
<1>2. ASSUME NEW ticker
      PROVE  Cardinality(Showing(more, ticker)) =
                Cardinality(Showing(reported, ticker)) + IF ticker = symbol THEN 1 ELSE 0
  <2>1. CASE ticker = symbol
    <3>1. Showing(more, ticker) = Showing(reported, ticker) \cup {n + 1}
      BY <1>1, <2>1
    <3>2. Cardinality(Showing(reported, ticker) \cup {n + 1})
             = Cardinality(Showing(reported, ticker)) + 1
      BY ShowingIsFinite, FS_AddElement
    <3> QED
      BY <2>1, <3>1, <3>2
  <2>2. CASE ticker # symbol
    <3>1. Showing(more, ticker) = Showing(reported, ticker)
      BY <1>1, <2>2
    <3> QED
      BY <2>2, <3>1, ShowingIsFinite
  <2> QED
    BY <2>1, <2>2
<1>3. { ShownBy(more, k) : k \in 1 .. Len(more) } = shown \cup {symbol}
  <2>1. 1 .. Len(more) = 1 .. n \cup {n + 1}
    BY <1>1
  <2> QED
    BY <1>1, <2>1
<1>4. /\ HitsOf(more) = [ticker \in (shown \cup {symbol}) \ {<< >>} |->
                            Cardinality(Showing(more, ticker))]
      /\ HitsOf(reported) = [ticker \in shown \ {<< >>} |->
                                Cardinality(Showing(reported, ticker))]
  BY <1>3 DEF HitsOf
<1>5. \A ticker : ticker \notin shown => Cardinality(Showing(reported, ticker)) = 0
  <2>1. \A ticker : ticker \notin shown => Showing(reported, ticker) = {}
    BY DEF Showing
  <2> QED
    BY <2>1, FS_EmptySet
<1>6. \A ticker : Cardinality(Showing(reported, ticker)) \in Nat
  BY ShowingIsFinite
<1> HIDE DEF shown, n
<1>7. ASSUME symbol = << >>
      PROVE  HitsOf(more) = HitsOf(reported)
  <2>1. (shown \cup {symbol}) \ {<< >>} = shown \ {<< >>}
    BY <1>7
  <2>2. \A ticker \in shown \ {<< >>} :
           Cardinality(Showing(more, ticker)) = Cardinality(Showing(reported, ticker))
    BY <1>2, <1>6, <1>7
  <2> QED
    BY <1>4, <2>1, <2>2
<1>8. ASSUME symbol # << >>
      PROVE  HitsOf(more) = HitsOf(reported) (+) SetToBag({symbol})
  <2> DEFINE before == HitsOf(reported)
             one == SetToBag({symbol})
             all == (shown \cup {symbol}) \ {<< >>}
             Copies(ticker) == (IF ticker \in DOMAIN before THEN before[ticker] ELSE 0)
                                  + (IF ticker \in DOMAIN one THEN one[ticker] ELSE 0)
  <2>1. one = [e \in {symbol} |-> 1]
    BY DEF SetToBag
  <2>2. DOMAIN one = {symbol} /\ one[symbol] = 1
    BY <2>1
  <2>3. DOMAIN before = shown \ {<< >>}
        /\ \A ticker \in DOMAIN before :
              before[ticker] = Cardinality(Showing(reported, ticker))
    BY <1>4
  <2>4. DOMAIN before \cup DOMAIN one = all
    BY <1>8, <2>2, <2>3
  <2>5. before (+) one = [e \in DOMAIN before \cup DOMAIN one |-> Copies(e)]
    BY DEF (+)
  <2> HIDE DEF before, one
  <2>6. ASSUME NEW ticker \in all
        PROVE  Copies(ticker) = Cardinality(Showing(more, ticker))
    <3>1. (IF ticker \in DOMAIN before THEN before[ticker] ELSE 0)
             = Cardinality(Showing(reported, ticker))
      BY <1>5, <2>3, <2>6
    <3>2. (IF ticker \in DOMAIN one THEN one[ticker] ELSE 0) = IF ticker = symbol THEN 1 ELSE 0
      BY <2>2
    <3> QED
      BY <1>2, <3>1, <3>2
  <2> HIDE DEF Copies
  <2>7. before (+) one = [ticker \in all |-> Cardinality(Showing(more, ticker))]
    BY <2>4, <2>5, <2>6
  <2>8. HitsOf(more) = before (+) one
    BY <1>4, <2>7
  <2> QED
    BY <2>8 DEF before, one
<1> QED
  BY <1>2, <1>7, <1>8 DEF symbol, at, more

\* The counts are of the file and of what was reported, and of nothing else.
LEMMA SameReportsSameHits ==
  ASSUME UNCHANGED <<file, reported>>
  PROVE  /\ HitsOf(reported)' = HitsOf(reported)
         /\ \A ticker : Showing(reported, ticker)' = Showing(reported, ticker)
  BY DEF HitsOf, Showing, ShownBy, SymbolAfter, LengthAt

\* What leaves the reports and the counts alone leaves them in agreement.
LEMMA HitsStay ==
  ASSUME HitsInv, UNCHANGED <<file, target_ticker, reported, total_messages,
                              accepted_messages, ticker_hits, matched_ticker_messages>>
  PROVE  HitsInv'
<1>1. /\ HitsOf(reported)' = HitsOf(reported)
      /\ \A ticker : Showing(reported, ticker)' = Showing(reported, ticker)
  BY SameReportsSameHits
<1>2. Showing(reported, target_ticker)' = Showing(reported, target_ticker)
  BY <1>1
<1>3. Start(reported, Len(reported) + 1)' = Start(reported, Len(reported) + 1)
  BY DEF Start
<1> QED
  BY <1>1, <1>2, <1>3 DEF HitsInv

\* A frame is three bytes at least.
LEMMA FieldsOfReport ==
  ASSUME ReportsInv, NEW report \in [end : Nat, type : Byte],
         NEW at \in Nat, ReportOf(report, at)
  PROVE  at + 3 <= report.end /\ report.end <= Len(file) /\ report.end \in Nat
<1>1. report.end = at + 2 + LengthAt(at) /\ WholeAt(at)
  BY DEF ReportOf
<1>2. LengthAt(at) \in Nat /\ LengthAt(at) > 0 /\ Len(file) \in Nat
      /\ at + 2 + LengthAt(at) <= Len(file)
  BY <1>1, FilesAreBytes DEF WholeAt, ReportsInv
<1> QED
  BY <1>1, <1>2

\* The last byte of a frame is counted, and nothing else is.
LEMMA CountedByte ==
  ASSUME FilesFit, ReportsInv, ParserInv, HitsInv, FeedTick
  PROVE  HitsInv'
<1>1. file' = file /\ target_ticker' = target_ticker /\ loop = "feed"
  BY DEF FeedTick
<1>2. CASE state = "READ_PAYLOAD" /\ IsLast
  <2> DEFINE at == Start(reported, Len(reported) + 1)
             report == [end |-> fed + 1, type |-> file[at + 3]]
             symbol == SymbolAfter(at, LengthAt(at))
             ticker == symbol_to_string(symbol)
             more == Append(reported, report)
  <2>1. /\ at \in Nat /\ report \in [end : Nat, type : Byte] /\ ReportOf(report, at)
        /\ reported' = more /\ stock_symbol' = symbol /\ msg_valid' = TRUE /\ ReportsInv'
    BY <1>1, <1>2, LastByte
  <2>2. /\ total_messages' = (total_messages + 1) % WORD32
        /\ CountMessage
    BY <1>2 DEF FeedTick, Clock, Idle, ReadLenHi, ReadLenLo, ReadPayload, ReadLast
  <2>3. /\ accepted_messages' = accepted_messages + 1
        /\ IF target_ticker = Null
           THEN ticker_hits' = IF ticker = << >> THEN ticker_hits
                               ELSE ticker_hits (+) SetToBag({ticker})
           ELSE matched_ticker_messages' =
                   matched_ticker_messages + IF ticker = target_ticker THEN 1 ELSE 0
    BY <2>1, <2>2 DEF CountMessage
  <2>4. /\ \A t : Cardinality(Showing(more, t)) =
              Cardinality(Showing(reported, t)) + IF t = ticker THEN 1 ELSE 0
        /\ HitsOf(more) = IF ticker = << >> THEN HitsOf(reported)
                          ELSE HitsOf(reported) (+) SetToBag({ticker})
    BY <2>1, OneHitMore
  <2>5. Len(reported) \in Nat /\ accepted_messages = Len(reported)
        /\ Len(more) = Len(reported) + 1 /\ more[Len(reported) + 1] = report
    BY <2>1, PlacesAreNat, AppendProperties DEF ReportsInv, Reports
  <2>6. at + 3 <= report.end /\ report.end <= Len(file) /\ Len(file) \in Nat
        /\ report.end \in Nat
    BY <2>1, FieldsOfReport, FilesAreBytes DEF ReportsInv
  <2>7. Start(reported', Len(reported') + 1) = report.end
    <3>1. Len(reported') + 1 # 1 /\ Len(reported') + 1 - 1 = Len(reported) + 1
      BY <2>1, <2>5
    <3> QED
      BY <2>1, <2>5, <3>1 DEF Start
  <2> HIDE DEF at, report, symbol, ticker, more
  <2>8. 3 * Len(reported) <= at /\ total_messages = accepted_messages
    BY DEF HitsInv, at
  <2>9. 3 * Len(reported') <= Start(reported', Len(reported') + 1)
    <3>1. 3 * Len(reported') = 3 * Len(reported) + 3
      BY <2>1, <2>5
    <3> QED
      BY <2>1, <2>5, <2>6, <2>7, <2>8, <3>1
  <2>10. total_messages' = accepted_messages'
    <3>1. Len(file) < 3 * WORD32 /\ WORD32 \in Nat
      BY ParserAssumption DEF FilesFit, ReportsInv
    <3>2. 3 * (Len(reported) + 1) < 3 * WORD32
      BY <2>1, <2>5, <2>6, <2>8, <3>1
    <3>3. Len(reported) + 1 < WORD32 /\ WORD32 \in Nat \ {0}
      BY <2>5, <3>1, <3>2
    <3>4. (Len(reported) + 1) % WORD32 = Len(reported) + 1
      BY <2>5, <3>3, ModSmall
    <3> QED
      BY <2>2, <2>3, <2>5, <2>8, <3>4
  <2>11. /\ HitsOf(reported)' = HitsOf(more)
         /\ \A t : Showing(reported, t)' = Showing(more, t)
    BY <1>1, <2>1 DEF HitsOf, Showing, ShownBy, SymbolAfter, LengthAt
  <2>12. CASE target_ticker = Null
    BY <1>1, <2>3, <2>4, <2>9, <2>10, <2>11, <2>12 DEF HitsInv
  <2>13. CASE target_ticker # Null
    <3>1. matched_ticker_messages' = Cardinality(Showing(more, target_ticker))
      BY <2>3, <2>4, <2>13 DEF HitsInv
    <3>2. (Showing(reported, target_ticker))' = Showing(more, target_ticker)
      BY <1>1, <2>11
    <3> QED
      BY <1>1, <2>9, <2>10, <2>13, <3>1, <3>2 DEF HitsInv
  <2> QED
    BY <2>12, <2>13
<1>3. CASE ~(state = "READ_PAYLOAD" /\ IsLast)
  <2>1. msg_valid' = FALSE /\ total_messages' = total_messages
    BY <1>3 DEF FeedTick, Clock, Idle, ReadLenHi, ReadLenLo, ReadPayload, ReadLast,
       Silent, counters
  <2>2. UNCHANGED counts
    BY <2>1 DEF FeedTick, CountMessage
  <2> QED
    BY <1>1, <2>1, <2>2, HitsStay DEF counts
<1> QED
  BY <1>2, <1>3

\* The steps of the parser's program.
LEMMA BenchCounts ==
  ASSUME FilesFit, ReportsInv, ParserInv, HitsInv, BenchNext
  PROVE  HitsInv'
<1>1. CASE ResetTick
  <2>1. /\ UNCHANGED <<file, target_ticker, counts>> /\ total_messages' = 0
        /\ loop = "reset"
    BY <1>1 DEF ResetTick, Reset
  <2>2. reported = << >> /\ accepted_messages = 0
    BY <2>1 DEF ParserInv, ReportsInv
  <2> QED
    BY <2>1, <2>2, HitsStay DEF counts, HitsInv
<1>2. CASE SettleTick
  <2>1. /\ UNCHANGED <<file, target_ticker, counts>> /\ UNCHANGED total_messages
    BY <1>2 DEF SettleTick, Clock, Idle, Silent, counters
  <2> QED
    BY <2>1, HitsStay DEF counts
<1>3. CASE Summary
  <2>1. /\ UNCHANGED <<file, target_ticker, counts>> /\ UNCHANGED total_messages
    BY <1>3 DEF Summary, vars, counters
  <2> QED
    BY <2>1, HitsStay DEF counts
<1> QED
  BY <1>1, <1>2, <1>3, CountedByte DEF BenchNext

LEMMA InitHitsInv == FilesInit => HitsInv
<1> SUFFICES ASSUME FilesInit
             PROVE  HitsInv
  OBVIOUS
<1>1. /\ total_messages = 0 /\ accepted_messages = 0 /\ matched_ticker_messages = 0
      /\ ticker_hits = EmptyBag /\ reported = << >>
  BY DEF FilesInit, BenchInit, Init
<1>2. Len(reported) = 0 /\ 1 .. 0 = {} /\ Start(reported, 0 + 1) = 0
  BY <1>1 DEF Start
<1>3. \A ticker : Showing(reported, ticker) = {}
  BY <1>2 DEF Showing
<1>4. HitsOf(reported) = [ticker \in {} |-> 1]
  BY <1>2 DEF HitsOf
<1>5. EmptyBag = [ticker \in {} |-> 1]
  BY DEF EmptyBag, SetToBag
<1> QED
  BY <1>1, <1>2, <1>3, <1>4, <1>5, FS_EmptySet DEF HitsInv

LEMMA NextHitsInv ==
  ASSUME FilesFit, FramesInv, HitsInv, [FilesNext]_allVars
  PROVE  HitsInv'
<1>1. ReportsInv /\ ParserInv
  BY DEF FramesInv
<1>2. CASE RunParserTestbench
  BY <1>1, <1>2, BenchCounts DEF RunParserTestbench
<1>3. ASSUME UNCHANGED parserVars, file' = file
      PROVE  HitsInv'
  BY <1>3, HitsStay DEF parserVars, vars, counters, counts
<1>4. CASE RunLatencyTestbench
  <2>1. file' = file
    BY <1>4 DEF RunLatencyTestbench, latency!Next, latency!MeasureMessage, latency!StopMeasuring
  <2> QED
    BY <1>3, <1>4, <2>1 DEF RunLatencyTestbench
<1>5. CASE RunReader
  <2>1. file' = file
    BY <1>5 DEF RunReader, reader!Next, reader!ReadMessage, reader!StopReading
  <2> QED
    BY <1>3, <1>5, <2>1 DEF RunReader
<1>6. CASE RunEngine
  BY <1>3, <1>6 DEF RunEngine
<1>7. CASE UNCHANGED allVars
  BY <1>3, <1>7 DEF allVars
<1> QED
  BY <1>2, <1>4, <1>5, <1>6, <1>7 DEF FilesNext, Finished

\* The symbol of a message is the one of the frame it is cut from.
LEMMA SymbolOfFrame ==
  ASSUME file \in Files, NEW msg \in FileMessage, NEW at \in Nat, CutAt(msg, at)
  PROVE  SymbolOf(msg) = SymbolAfter(at, LengthAt(at))
<1> DEFINE n == LengthAt(at)
           type == file[at + 3]
           start == symbol_offset(type)
           whole == <<msg.type>> \o msg.payload
<1>1. /\ n \in Nat /\ n > 0 /\ at + 2 + n <= Len(file) /\ Len(file) \in Nat
      /\ msg.type = type /\ msg.payload = SubSeq(file, at + 4, at + 2 + n)
      /\ \A i \in 1 .. Len(file) : file[i] \in Byte
  BY FilesAreBytes DEF CutAt, WholeAt
<1> HIDE DEF n
<1>2. /\ Len(msg.payload) = n - 1
      /\ \A i \in 1 .. n - 1 : msg.payload[i] = file[at + 3 + i]
  <2>1. \A i \in at + 4 .. at + 2 + n : file[i] \in Byte
    BY <1>1
  <2>2. /\ Len(SubSeq(file, at + 4, at + 2 + n)) =
               IF at + 4 <= at + 2 + n THEN (at + 2 + n) - (at + 4) + 1 ELSE 0
        /\ \A i \in 1 .. (at + 2 + n) - (at + 4) + 1 :
              SubSeq(file, at + 4, at + 2 + n)[i] = file[at + 4 + i - 1]
    BY <1>1, <2>1, SubSeqProperties
  <2>3. /\ (IF at + 4 <= at + 2 + n THEN (at + 2 + n) - (at + 4) + 1 ELSE 0) = n - 1
        /\ (at + 2 + n) - (at + 4) + 1 = n - 1
        /\ \A i \in Int : at + 4 + i - 1 = at + 3 + i
    BY <1>1
  <2> QED
    BY <1>1, <2>2, <2>3
<1>3. /\ Len(whole) = n
      /\ \A j \in 1 .. n - 1 : whole[j + 1] = file[at + 3 + j]
  <2>1. <<msg.type>> \in Seq(Byte) /\ msg.payload \in Seq(Byte) /\ Len(<<msg.type>>) = 1
    BY DEF FileMessage
  <2>2. /\ Len(whole) = 1 + Len(msg.payload)
        /\ \A i \in 1 .. 1 + Len(msg.payload) :
              whole[i] = IF i <= 1 THEN <<msg.type>>[i] ELSE msg.payload[i - 1]
    BY <2>1, ConcatProperties
  <2>3. Len(whole) = n
    BY <1>1, <1>2, <2>2
  <2>4. ASSUME NEW j \in 1 .. n - 1
        PROVE  whole[j + 1] = file[at + 3 + j]
    <3>1. j + 1 \in 1 .. 1 + Len(msg.payload) /\ ~(j + 1 <= 1) /\ (j + 1) - 1 = j
      BY <1>1, <1>2
    <3> QED
      BY <1>2, <2>2, <3>1
  <2> QED
    BY <2>3, <2>4
<1> HIDE DEF whole
<1>4. CASE has_symbol_field(type)
  <2>1. start \in Nat /\ start >= 11
    BY <1>4, OffsetRange
  <2>2. SymbolOf(msg) = [k \in 0 .. 7 |-> IF start + k < n THEN whole[start + k + 1] ELSE 0]
    BY <1>1, <1>3, <1>4 DEF SymbolOf, whole
  <2>3. SymbolAfter(at, n) =
           [k \in 0 .. 7 |-> IF start + k < n THEN file[at + 3 + start + k] ELSE 0]
    BY <1>1, <1>4 DEF SymbolAfter
  <2> HIDE DEF start, type
  <2>4. ASSUME NEW k \in 0 .. 7, start + k < n
        PROVE  whole[start + k + 1] = file[at + 3 + start + k]
    <3> DEFINE j == start + k
    <3>1. j \in 1 .. n - 1 /\ at + 3 + j = at + 3 + start + k
      BY <1>1, <2>1, <2>4
    <3> QED
      BY <1>3, <3>1
  <2> QED
    BY <2>2, <2>3, <2>4 DEF n
<1>5. CASE ~has_symbol_field(type)
  BY <1>1, <1>5 DEF SymbolOf, SymbolAfter, ZeroSymbol, n
<1> QED
  BY <1>4, <1>5

\* The tickers of the reports are those of the messages.
LEMMA HitsInvIsTickers ==
  ASSUME ReaderInv, FramesInv, HitsInv
  PROVE  TickersAreTheFiles
<1>1. ReportsInv /\ CutInv /\ accepted_messages = Len(reported)
  BY DEF FramesInv, ReportsInv
<1>2. ASSUME accepted_messages = Len(messages)
      PROVE  IF target_ticker = Null
             THEN ticker_hits = [ticker \in NamedTickers \ {<< >>} |-> Cardinality(Named(ticker))]
             ELSE matched_ticker_messages = Cardinality(Named(target_ticker))
  <2> DEFINE n == Len(messages)
  <2>1. n \in Nat /\ n = Len(reported) /\ messages \in Seq(FileMessage)
        /\ DOMAIN messages = 1 .. n
    BY <1>1, <1>2, LenProperties DEF ReaderInv
  <2>2. ASSUME NEW k \in 1 .. n
        PROVE  TickerOf(messages[k]) = ShownBy(reported, k)
    <3>1. Ends(messages, k - 1) = Start(reported, k)
      <4>1. CASE k = 1
        <5>1. k - 1 = 0 /\ Ends(messages, 0) = 0
          BY <2>1, <4>1, EndsAdd
        <5> QED
          BY <4>1, <5>1 DEF Start
      <4>2. CASE k # 1
        <5>1. k - 1 \in 1 .. n
          BY <2>1, <4>2
        <5> QED
          BY <1>1, <4>2, <5>1 DEF CutInv, Start
      <4> QED
        BY <4>1, <4>2
    <3>2. Start(reported, k) \in Nat
      <4>1. k \in 1 .. Len(reported) + 1
        BY <2>1
      <4> QED
        BY <1>1, <4>1, PlacesAreNat
    <3>3. messages[k] \in FileMessage /\ CutAt(messages[k], Start(reported, k))
      BY <2>1, <3>1, ElementOfSeq DEF ReaderInv
    <3> QED
      BY <3>2, <3>3, SymbolOfFrame DEF TickerOf, ShownBy, ReaderInv
  <2> HIDE DEF n
  <2>3. \A ticker : Named(ticker) = Showing(reported, ticker)
    BY <2>1, <2>2 DEF Named, Showing
  <2>4. NamedTickers = { ShownBy(reported, k) : k \in 1 .. n }
    BY <2>1, <2>2 DEF NamedTickers
  <2>5. HitsOf(reported) = [ticker \in NamedTickers \ {<< >>} |-> Cardinality(Named(ticker))]
    BY <2>1, <2>3, <2>4 DEF HitsOf
  <2> QED
    BY <2>3, <2>5 DEF HitsInv
<1> QED
  BY <1>1, <1>2 DEF TickersAreTheFiles, HitsInv

(***************************************************************************)
(* Whatever bytes a file is made of, the counts of hft_tb.cpp are those of *)
(* its messages: each ticker is counted once for each message that names   *)
(* it, although the parser puts a symbol together byte by byte, and the    *)
(* program reads it an edge after the last of them.  The file has fewer    *)
(* messages than the parser's counter can say, which is so below 12 GiB    *)
(* (hft_tb.cpp, lines 105 to 139).                                         *)
(***************************************************************************)
THEOREM TickersAreAlwaysTheFiles ==
  ASSUME WORD16 = 256 * 256, FilesFit PROVE FilesSpec => []TickersAreTheFiles
<1> DEFINE Inv == ReaderInv /\ BookInv /\ LatencyInv /\ FramesInv /\ HitsInv
<1>1. FilesInit => Inv
  BY InitReaderInv, InitBookInv, InitLatencyInv, InitFramesInv, InitHitsInv
<1>2. Inv /\ [FilesNext]_allVars => Inv'
  BY NextReaderInv, NextBookInv, NextLatencyInv, NextFramesInv, NextHitsInv
<1>3. Inv => TickersAreTheFiles
  BY HitsInvIsTickers
<1> QED
  BY <1>1, <1>2, <1>3, PTL DEF FilesSpec
=============================================================================
