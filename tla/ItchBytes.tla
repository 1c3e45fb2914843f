------------------------------ MODULE ItchBytes ------------------------------
(***************************************************************************)
(* Bytes and fields of the ITCH byte stream.  Offsets count from zero, as  *)
(* in the source, and sequences from one.                                  *)
(***************************************************************************)
EXTENDS Integers, Sequences

Byte == 0 .. 255
TwoBytes == 0 .. 256 * 256 - 1

\* The message types, by their ASCII codes.
Char == [ A |-> 65, C |-> 67, D |-> 68, E |-> 69, F |-> 70, H |-> 72, I |-> 73,
          J |-> 74, K |-> 75, L |-> 76, N |-> 78, O |-> 79, P |-> 80, Q |-> 81,
          R |-> 82, S |-> 83, U |-> 85, X |-> 88, h |-> 104 ]

\* Two and four bytes in network order.
extract_uint16(bytes, offset) == 256 * bytes[offset + 1] + bytes[offset + 2]

extract_uint32(bytes, offset) ==
    256 * 256 * extract_uint16(bytes, offset) + extract_uint16(bytes, offset + 2)
=============================================================================
