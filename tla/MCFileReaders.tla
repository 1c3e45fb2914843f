---------------------------- MODULE MCFileReaders ----------------------------
(***************************************************************************)
(* TLC instance of the file readers: every short file over four bytes, and *)
(* every file of three frames out of eight, whole, cut short, empty or too *)
(* long for the reader.  Messages have their own lengths and are of two    *)
(* stocks; the byte 57 is the low byte of locate code 1337.                *)
(***************************************************************************)
EXTENDS FileReaders

\* A payload of zeros but for the bytes given, by their offset; the type
\* comes before it.
Bytes(length, given) == [k \in 1 .. length |-> IF k - 1 \in DOMAIN given THEN given[k - 1] ELSE 0]

FrameOf(type, payload) == <<0, Len(payload) + 1, type>> \o payload

Header(locate) == (0 :> 5) @@ (1 :> locate)

\* Offset 13 is what the benchmark takes for the side, 17 the low byte of
\* what it takes for the shares, 23 the first byte of the symbol.
Add(length, locate, side, shares) ==
    FrameOf(Char.A, Bytes(length,
        Header(locate) @@ (13 :> side) @@ (17 :> shares) @@ (23 :> 66) @@ (24 :> 65) @@ (25 :> 32)))

MCFrames ==
    { Add(35, 57, 1, 7), Add(35, 57, 0, 4), Add(35, 58, 0, 4), Add(25, 57, 1, 7),
      FrameOf(Char.X, Bytes(22, Header(57) @@ (11 :> 3))),
      FrameOf(Char.D, Bytes(18, Header(57))),
      FrameOf(Char.D, << >>),
      FrameOf(Char.R, Bytes(38, (10 :> 66) @@ (11 :> 65))),
      <<0, 0>> }

MCFiles ==
    UNION { [1 .. n -> {0, 1, 2, 65}] : n \in 0 .. 5 }
    \cup { f \o g \o h : f, g, h \in MCFrames }
    \cup { FlattenSeq([k \in 1 .. 6 |-> FrameOf(Char.S, << >>)]) }

MCOrderIds ==
    { <<0, 0, 0, 0, 0, 0, 0, 0>>, <<5, 57, 0, 0, 0, 0, 0, 0>>, <<5, 58, 0, 0, 0, 0, 0, 0>> }

MCTickers == { <<66, 65>> }
=============================================================================
