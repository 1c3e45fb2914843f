---------------------------- MODULE ItchFileReader ----------------------------
(***************************************************************************)
(* ITCHFileReader of real_itch_benchmark.cpp: cuts a file into messages.   *)
(* It stops, without a word, at the first frame that is empty, longer than *)
(* MAX_LENGTH or not all there.  (A file that cannot be opened is left     *)
(* out: there is nothing to read.)                                         *)
(***************************************************************************)
EXTENDS ItchBytes

CONSTANT MAX_LENGTH   \* 10000 in the source

VARIABLES
    file,       \* the bytes of the file
    position,   \* how many have been read
    messages,   \* what has been read: [type, payload], the payload
                \* without the type
    reading     \* the loop goes on

vars == <<file, position, messages, reading>>

Init == position = 0 /\ messages = << >> /\ reading = TRUE

HasLength == position + 2 <= Len(file)

\* A fault: the bytes of the length are taken in the order of the host.
LengthSwapped == file[position + 1] + 256 * file[position + 2]

\* The two bytes of length, swapped from network order.
length == extract_uint16(file, position)

WholeFrame ==
    /\ HasLength
    /\ length \in 1 .. MAX_LENGTH
    /\ position + 2 + length <= Len(file)

ReadMessage ==
    /\ reading /\ WholeFrame
    /\ LET first == position + 3 IN
       messages' = Append(messages,
          [type |-> file[first], payload |-> SubSeq(file, first + 1, first + length - 1)])
    /\ position' = position + 2 + length
    /\ UNCHANGED <<file, reading>>

StopReading ==
    /\ reading /\ ~WholeFrame
    /\ reading' = FALSE
    /\ UNCHANGED <<file, position, messages>>

Next == ReadMessage \/ StopReading

-----------------------------------------------------------------------------
\* The bytes of a message in the file.
Framed(msg) ==
    LET n == Len(msg.payload) + 1 IN
    <<n \div 256, n % 256, msg.type>> \o msg.payload
=============================================================================
