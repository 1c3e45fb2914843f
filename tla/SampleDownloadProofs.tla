------------------------- MODULE SampleDownloadProofs -------------------------
(***************************************************************************)
(* Proofs about the download, for any number of chunks and of versions.    *)
(* They rest on one invariant: the file is always a beginning of one       *)
(* version, and during a run it is the same beginning of the version       *)
(* served as has been hashed.                                              *)
(***************************************************************************)
EXTENDS SampleDownload, SequenceTheorems, TLAPS

\* The first n chunks of a version.
Chunks(v, n) == [k \in 1 .. n |-> <<v, k>>]

TypeOK ==
    /\ remote \in Nat \ {0}
    /\ serving \in 1 .. remote
    /\ pc \in {"idle", "connect", "read"}
    /\ buffered \in BOOLEAN /\ broken \in BOOLEAN
    /\ exit_code \in {-1, 0, 1}

\* What holds while a connection is open.
Reading ==
    /\ \E n \in 0 .. CHUNKS :
          /\ digest = Chunks(serving, n) /\ output = digest
          /\ buffered => n > 0
    /\ broken = FALSE

DownloadInv ==
    /\ TypeOK
    /\ output # Null => \E v \in 1 .. remote, n \in 0 .. CHUNKS : output = Chunks(v, n)
    /\ pc = "read" => Reading
    /\ pc # "read" => ~buffered
    /\ pc # "read" /\ output # Null /\ ~broken => output = Whole(serving)
    /\ pc # "idle" => sha256 = Null /\ exit_code = -1
    /\ HashIsOfFile

-----------------------------------------------------------------------------
LEMMA ChunksIsSeq ==
  ASSUME NEW v \in Nat, NEW n \in Nat
  PROVE  /\ Chunks(v, n) \in Seq(Nat \X Nat)
         /\ Len(Chunks(v, n)) = n
         /\ \A i \in 1 .. n : Chunks(v, n)[i] = <<v, i>>
<1>1. Chunks(v, n) \in [1 .. n -> Nat \X Nat]
  BY DEF Chunks
<1>2. Chunks(v, n) \in Seq(Nat \X Nat)
  BY <1>1, SeqDef
<1>3. DOMAIN Chunks(v, n) = 1 .. n
  BY DEF Chunks
<1>4. Len(Chunks(v, n)) = n
  BY <1>2, <1>3, LenProperties
<1> QED
  BY <1>2, <1>4 DEF Chunks

LEMMA ChunksUnique ==
  ASSUME NEW v \in Nat, NEW n \in Nat, NEW s \in Seq(Nat \X Nat),
         Len(s) = n, \A i \in 1 .. n : s[i] = <<v, i>>
  PROVE  s = Chunks(v, n)
<1>1. /\ Chunks(v, n) \in Seq(Nat \X Nat) /\ Len(Chunks(v, n)) = n
      /\ \A i \in 1 .. n : Chunks(v, n)[i] = <<v, i>>
  BY ChunksIsSeq
<1>2. \A i \in 1 .. n : s[i] = Chunks(v, n)[i]
  BY <1>1, Zenon
<1> QED
  BY <1>1, <1>2, SeqEqual

LEMMA ChunksEmpty == \A v \in Nat : Chunks(v, 0) = << >>
<1> TAKE v \in Nat
<1>1. Chunks(v, 0) \in Seq(Nat \X Nat) /\ Len(Chunks(v, 0)) = 0
  BY ChunksIsSeq
<1> QED
  BY <1>1, EmptySeq

LEMMA ChunksAppend ==
  ASSUME NEW v \in Nat, NEW n \in Nat
  PROVE  Append(Chunks(v, n), <<v, n + 1>>) = Chunks(v, n + 1)
<1> DEFINE c == Chunks(v, n)
           s == Append(c, <<v, n + 1>>)
<1>1. /\ c \in Seq(Nat \X Nat) /\ Len(c) = n
      /\ \A i \in 1 .. n : c[i] = <<v, i>>
  BY ChunksIsSeq
<1>2. <<v, n + 1>> \in Nat \X Nat
  OBVIOUS
<1> HIDE DEF c
<1>3. /\ s \in Seq(Nat \X Nat) /\ Len(s) = n + 1
      /\ \A i \in 1 .. n : s[i] = c[i]
      /\ s[n + 1] = <<v, n + 1>>
  BY <1>1, <1>2, AppendProperties
<1> HIDE DEF s
<1>4. ASSUME NEW i \in 1 .. n + 1
      PROVE  s[i] = <<v, i>>
  <2>1. CASE i = n + 1
    BY <1>3, <2>1
  <2>2. CASE i # n + 1
    <3>1. i \in 1 .. n
      BY <2>2
    <3> QED
      BY <1>1, <1>3, <3>1, Zenon
  <2> QED
    BY <2>1, <2>2
<1>5. s = Chunks(v, n + 1)
  BY <1>3, <1>4, n + 1 \in Nat, ChunksUnique
<1> QED
  BY <1>5 DEF s, c

\* The first m chunks of the first n are the first m.
LEMMA ChunksSubSeq ==
  ASSUME NEW v \in Nat, NEW n \in Nat, NEW m \in 0 .. n
  PROVE  SubSeq(Chunks(v, n), 1, m) = Chunks(v, m)
<1> DEFINE c == Chunks(v, n)
           s == SubSeq(c, 1, m)
<1>1. /\ c \in Seq(Nat \X Nat) /\ Len(c) = n
      /\ \A i \in 1 .. n : c[i] = <<v, i>>
  BY ChunksIsSeq
<1> HIDE DEF c
<1>2. \A i \in 1 .. m : c[i] = <<v, i>>
  BY <1>1
<1>3. \A i \in 1 .. m : c[i] \in Nat \X Nat
  BY <1>2
<1>4. /\ s \in Seq(Nat \X Nat)
      /\ Len(s) = IF 1 <= m THEN m - 1 + 1 ELSE 0
      /\ \A i \in 1 .. m - 1 + 1 : s[i] = c[1 + i - 1]
  BY <1>3, m \in Int, 1 \in Int, SubSeqProperties
<1> HIDE DEF s
<1>5. Len(s) = m
  BY <1>4
<1>6. ASSUME NEW i \in 1 .. m
      PROVE  s[i] = <<v, i>>
  <2>1. i \in 1 .. m - 1 + 1 /\ 1 + i - 1 = i
    OBVIOUS
  <2>2. s[i] = c[i]
    BY <1>4, <2>1
  <2> QED
    BY <1>2, <2>2, Zenon
<1>7. s = Chunks(v, m)
  BY <1>4, <1>5, <1>6, m \in Nat, ChunksUnique
<1> QED
  BY <1>7 DEF s, c

LEMMA ChunksFront ==
  ASSUME NEW v \in Nat, NEW n \in Nat \ {0}
  PROVE  Front(Chunks(v, n)) = Chunks(v, n - 1)
<1>1. Len(Chunks(v, n)) = n
  BY ChunksIsSeq
<1>2. SubSeq(Chunks(v, n), 1, n - 1) = Chunks(v, n - 1)
  BY n - 1 \in 0 .. n, ChunksSubSeq
<1> QED
  BY <1>1, <1>2 DEF Front

LEMMA WholeIsChunks == \A v : Whole(v) = Chunks(v, CHUNKS)
  BY DEF Whole, Chunks

LEMMA ChunksArePrefix ==
  ASSUME NEW v \in Nat, NEW n \in 0 .. CHUNKS
  PROVE  IsPrefix(Chunks(v, n), Whole(v))
<1>1. CHUNKS \in Nat /\ n \in Nat
  BY DownloadAssumption
<1>2. Len(Chunks(v, n)) = n /\ Len(Chunks(v, CHUNKS)) = CHUNKS
  BY <1>1, ChunksIsSeq
<1>3. SubSeq(Chunks(v, n), 1, n) = SubSeq(Chunks(v, CHUNKS), 1, n)
  BY <1>1, n \in 0 .. n, ChunksSubSeq
<1> QED
  BY <1>2, <1>3, WholeIsChunks DEF IsPrefix

-----------------------------------------------------------------------------
LEMMA InitDownloadInv == Init => DownloadInv
<1> SUFFICES ASSUME Init
             PROVE  DownloadInv
  OBVIOUS
<1>1. 1 \in Nat \ {0} /\ 1 \in 1 .. 1
  OBVIOUS
<1>2. TypeOK
  BY <1>1 DEF Init, TypeOK
<1> QED
  BY <1>2 DEF Init, DownloadInv, HashIsOfFile

LEMMA PublishInv == DownloadInv /\ Publish => DownloadInv'
  BY DEF Publish, DownloadInv, TypeOK, Reading, Chunks, Whole, HashIsOfFile

LEMMA BetweenRunsInv == DownloadInv /\ (Skip \/ Request) => DownloadInv'
  BY DEF Skip, Request, DownloadInv, TypeOK, Reading, Chunks, Whole, HashIsOfFile

\* The file is emptied: nothing is left of what it was.
LEMMA ConnectInv == DownloadInv /\ Connect => DownloadInv'
<1> SUFFICES ASSUME DownloadInv, Connect
             PROVE  DownloadInv'
  OBVIOUS
<1>1. 0 \in 0 .. CHUNKS /\ remote \in Nat /\ remote \in 1 .. remote
  BY DownloadAssumption DEF DownloadInv, TypeOK
<1>2. TypeOK'
  <2>1. remote' \in Nat \ {0} /\ serving' \in 1 .. remote'
    BY <1>1 DEF DownloadInv, TypeOK, Connect
  <2> QED
    BY <2>1 DEF DownloadInv, TypeOK, Connect
<1>3. << >> = Chunks(remote, 0)
  BY <1>1, ChunksEmpty
<1>4. /\ output' = Chunks(remote, 0) /\ digest' = output'
      /\ serving' = remote /\ remote' = remote
      /\ buffered' = FALSE /\ broken' = FALSE /\ pc' = "read"
      /\ sha256' = Null /\ exit_code' = -1
  BY <1>3 DEF Connect, DownloadInv
<1>5. Reading'
  BY <1>1, <1>4 DEF Reading, Chunks
<1>6. \E v \in 1 .. remote', n \in 0 .. CHUNKS : output' = Chunks(v, n)
  BY <1>1, <1>4
<1>7. (\E v \in 1 .. remote, n \in 0 .. CHUNKS : output = Chunks(v, n))'
  BY <1>6 DEF Chunks
<1> QED
  BY <1>2, <1>4, <1>5, <1>7 DEF DownloadInv, HashIsOfFile

\* File and hash grow by the same chunk.
LEMMA ReadChunkInv == DownloadInv /\ ReadChunk => DownloadInv'
<1> SUFFICES ASSUME DownloadInv, ReadChunk
             PROVE  DownloadInv'
  OBVIOUS
<1>1. TypeOK'
  BY DEF DownloadInv, TypeOK, ReadChunk
<1> PICK n \in 0 .. CHUNKS : digest = Chunks(serving, n) /\ output = digest
  BY DEF DownloadInv, ReadChunk, Reading
<1>2. serving \in Nat /\ serving \in 1 .. remote /\ n \in Nat
  BY DownloadAssumption DEF DownloadInv, TypeOK
<1>3. Len(digest) = n
  BY <1>2, ChunksIsSeq
<1>4. n + 1 \in 0 .. CHUNKS /\ n + 1 > 0
  BY <1>2, <1>3, DownloadAssumption DEF ReadChunk
<1>5. output' = Chunks(serving, n + 1) /\ digest' = output'
  BY <1>2, <1>3, ChunksAppend DEF ReadChunk
<1>6. /\ serving' = serving /\ remote' = remote /\ pc' = "read"
      /\ broken' = FALSE /\ sha256' = Null /\ exit_code' = -1
  BY DEF ReadChunk, DownloadInv, Reading
<1>7. (\E k \in 0 .. CHUNKS : /\ digest = Chunks(serving, k) /\ output = digest
                              /\ buffered => k > 0)'
  BY <1>4, <1>5, <1>6 DEF Chunks
<1>8. (\E v \in 1 .. remote, k \in 0 .. CHUNKS : output = Chunks(v, k))'
  BY <1>2, <1>4, <1>5, <1>6 DEF Chunks
<1> QED
  BY <1>1, <1>6, <1>7, <1>8 DEF DownloadInv, Reading, HashIsOfFile

\* A run that was not cut off has read, and written, every chunk.
LEMMA FinishInv == DownloadInv /\ Finish => DownloadInv'
<1> SUFFICES ASSUME DownloadInv, Finish
             PROVE  DownloadInv'
  OBVIOUS
<1>1. TypeOK'
  <2>1. (Len(digest) < CHUNKS) \in BOOLEAN
    OBVIOUS
  <2>2. broken' \in BOOLEAN
    BY <2>1, Zenon DEF Finish
  <2> QED
    BY <2>2 DEF DownloadInv, TypeOK, Finish
<1> PICK n \in 0 .. CHUNKS : digest = Chunks(serving, n) /\ output = digest
  BY DEF DownloadInv, Finish, Reading
<1>2. serving \in Nat /\ n \in Nat
  BY DownloadAssumption DEF DownloadInv, TypeOK
<1>3. Len(digest) = n
  BY <1>2, ChunksIsSeq
<1>4. ~broken' => n = CHUNKS
  <2>1. ~broken' => ~(Len(digest) < CHUNKS)
    BY Zenon DEF Finish
  <2> QED
    BY <2>1, <1>2, <1>3, DownloadAssumption
<1>5. ~broken' => output = Whole(serving)
  BY <1>4, WholeIsChunks
<1>6. output' = output /\ remote' = remote /\ serving' = serving /\ pc' = "idle"
      /\ sha256' = output' /\ buffered' = FALSE
  BY DEF Finish
<1>7. (\E v \in 1 .. remote, k \in 0 .. CHUNKS : output = Chunks(v, k))'
  BY <1>2, <1>6 DEF Chunks, DownloadInv, TypeOK
<1>8. (~broken => output = Whole(serving))'
  BY <1>5, <1>6 DEF Whole
<1> QED
  BY <1>1, <1>6, <1>7, <1>8 DEF DownloadInv, HashIsOfFile

LEMMA FailInv == DownloadInv /\ Fail => DownloadInv'
  BY DEF Fail, DownloadInv, TypeOK, Chunks, Whole, HashIsOfFile

\* Without its last chunk the file is still a beginning of its version.
LEMMA KillInv == DownloadInv /\ Kill => DownloadInv'
<1> SUFFICES ASSUME DownloadInv, Kill
             PROVE  DownloadInv'
  OBVIOUS
<1>1. TypeOK'
  BY DEF DownloadInv, TypeOK, Kill
<1>2. CASE output' = output
  BY <1>1, <1>2 DEF DownloadInv, TypeOK, Kill, Chunks, Whole, HashIsOfFile
<1>3. CASE buffered /\ output' = Front(output)
  <2>1. pc = "read"
    BY <1>3 DEF DownloadInv
  <2> PICK n \in 0 .. CHUNKS : output = Chunks(serving, n) /\ n > 0
    BY <1>3, <2>1 DEF DownloadInv, Reading
  <2>2. serving \in Nat /\ serving \in 1 .. remote /\ n \in Nat \ {0} /\ n - 1 \in 0 .. CHUNKS
    BY DownloadAssumption DEF DownloadInv, TypeOK
  <2>3. output' = Chunks(serving, n - 1)
    BY <1>3, <2>2, ChunksFront
  <2>4. /\ remote' = remote /\ pc' = "idle" /\ broken' = TRUE /\ buffered' = FALSE
        /\ sha256' = Null
    BY <2>1 DEF Kill, DownloadInv
  <2>5. (\E v \in 1 .. remote, k \in 0 .. CHUNKS : output = Chunks(v, k))'
    BY <2>2, <2>3, <2>4 DEF Chunks
  <2> QED
    BY <1>1, <2>4, <2>5 DEF DownloadInv, HashIsOfFile
<1> QED
  BY <1>2, <1>3 DEF Kill

LEMMA NextDownloadInv == DownloadInv /\ [Next]_vars => DownloadInv'
<1> SUFFICES ASSUME DownloadInv, [Next]_vars
             PROVE  DownloadInv'
  OBVIOUS
<1>1. CASE Publish
  BY <1>1, PublishInv
<1>2. CASE Skip \/ Request
  BY <1>2, BetweenRunsInv
<1>3. CASE Run
  BY <1>3, ConnectInv, ReadChunkInv, FinishInv, FailInv DEF Run
<1>4. CASE Kill
  BY <1>4, KillInv
<1>5. CASE UNCHANGED vars
  BY <1>5 DEF vars, DownloadInv, TypeOK, Reading, Chunks, Whole, HashIsOfFile
<1> QED
  BY <1>1, <1>2, <1>3, <1>4, <1>5 DEF Next

LEMMA DownloadInvariant == Spec => []DownloadInv
  BY InitDownloadInv, NextDownloadInv, PTL DEF Spec

-----------------------------------------------------------------------------
(***************************************************************************)
(* However many runs fail, are killed or are repeated, and whatever the    *)
(* server publishes in between, the file never mixes two versions          *)
(* (download_and_hash, lines 41 to 50).                                    *)
(***************************************************************************)
THEOREM FileIsOfOneVersion == Spec => []OneVersion
<1>1. DownloadInv => OneVersion
  <2> SUFFICES ASSUME DownloadInv, output # Null
               PROVE  \E v \in 1 .. remote : IsPrefix(output, Whole(v))
    BY DEF OneVersion
  <2> PICK v \in 1 .. remote, n \in 0 .. CHUNKS : output = Chunks(v, n)
    BY DEF DownloadInv
  <2>1. v \in Nat
    BY DEF DownloadInv, TypeOK
  <2> QED
    BY <2>1, ChunksArePrefix
<1> QED
  BY <1>1, DownloadInvariant, PTL

\* The hash that was printed is the hash of the file (line 51, beside 50).
THEOREM HashIsTheFiles == Spec => []HashIsOfFile
<1>1. DownloadInv => HashIsOfFile
  BY DEF DownloadInv
<1> QED
  BY <1>1, DownloadInvariant, PTL

\* Exit code 0 and a connection that held mean a whole file (lines 46 to
\* 51 and 75).
THEOREM CleanRunLeavesAll == Spec => []CleanRunWritesAll
<1>1. DownloadInv => CleanRunWritesAll
  BY DEF DownloadInv, CleanRunWritesAll, TypeOK
<1> QED
  BY <1>1, DownloadInvariant, PTL

(***************************************************************************)
(* A complete file is lost to nothing but a connection that is already     *)
(* open: a run that fails before that, or a crash at any time, does not    *)
(* touch it (line 41 connects before it opens).                            *)
(***************************************************************************)
THEOREM CompleteFilesAreKept == Spec => OnlyConnectedRunsTruncate
<1>1. DownloadInv /\ [Next]_vars =>
          [Complete /\ ~Complete' => pc = "connect" /\ pc' = "read"]_vars
  <2> SUFFICES ASSUME DownloadInv, Complete, ~Complete', [Next]_vars
               PROVE  pc = "connect" /\ pc' = "read"
    OBVIOUS
  <2>1. ~Publish
    BY DEF Publish, Complete, Whole, DownloadInv, TypeOK
  <2>2. ~(Skip \/ Request \/ Finish \/ Fail \/ Kill)
    BY DEF Skip, Request, Finish, Fail, Kill, Complete, Whole
  <2>3. ~ReadChunk
    <3> SUFFICES ASSUME ReadChunk
                 PROVE  FALSE
      OBVIOUS
    <3> PICK n \in 0 .. CHUNKS : digest = Chunks(serving, n) /\ output = digest
      BY DEF DownloadInv, Reading, ReadChunk
    <3> PICK v \in 1 .. remote : output = Chunks(v, CHUNKS)
      BY WholeIsChunks DEF Complete
    <3>1. v \in Nat /\ CHUNKS \in Nat
      BY DownloadAssumption DEF DownloadInv, TypeOK
    <3>2. Len(digest) = CHUNKS
      BY <3>1, ChunksIsSeq
    <3> QED
      BY <3>1, <3>2 DEF ReadChunk
  <2>4. ~UNCHANGED vars
    BY DEF vars, Complete, Whole
  <2>5. Connect
    BY <2>1, <2>2, <2>3, <2>4 DEF Next, Run
  <2> QED
    BY <2>5 DEF Connect
<1> QED
  BY <1>1, DownloadInvariant, PTL DEF Spec, OnlyConnectedRunsTruncate
=============================================================================
