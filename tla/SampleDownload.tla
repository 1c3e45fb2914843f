---------------------------- MODULE SampleDownload ----------------------------
(***************************************************************************)
(* tools/fetch_itch_sample.py, run any number of times for one file name.  *)
(* A run writes the chunks it receives straight to the file, under its     *)
(* final name.  The server may publish another version of the file between *)
(* two runs, refuse or break a connection, stall it until the 15 seconds   *)
(* are up, or close it early, which read() reports as the end of the file. *)
(* The program may be killed at any time; then the last chunk it wrote may *)
(* not have left its buffer.                                               *)
(*                                                                         *)
(* A chunk is a version and a position; a hash is the chunks it is of.     *)
(***************************************************************************)
EXTENDS Integers, SequencesExt

CONSTANTS
    CHUNKS,     \* the chunks of the file on the server
    VERSIONS,   \* bounds how often the server publishes
    Null        \* no file, no hash

ASSUME DownloadAssumption ==
    CHUNKS \in Nat \ {0} /\ VERSIONS \in Nat \ {0}

VARIABLES
    remote,       \* the version on the server
    pc,           \* "idle", or where download_and_hash is
    serving,      \* the version the open connection serves
    output,       \* the chunks in the file, or Null
    buffered,     \* the last of them may not be on disk yet
    digest,       \* the chunks hashed so far
    exit_code,    \* of the last run; -1 if it was killed or is going on
    sha256,       \* the hash the last run printed, or Null
    broken        \* history: the run that opened output last broke off, or
                  \* was cut off by the server

vars == <<remote, pc, serving, output, buffered, digest, exit_code, sha256, broken>>

Whole(version) == [k \in 1 .. CHUNKS |-> <<version, k>>]

Init ==
    /\ remote = 1 /\ pc = "idle" /\ serving = 1
    /\ output = Null /\ buffered = FALSE /\ digest = << >>
    /\ exit_code = 0 /\ sha256 = Null /\ broken = FALSE

Publish ==
    /\ remote < VERSIONS
    /\ remote' = remote + 1
    /\ UNCHANGED <<pc, serving, output, buffered, digest, exit_code, sha256, broken>>

\* A run with --skip-existing that finds a file: it hashes what is there.
Skip ==
    /\ pc = "idle" /\ output # Null
    /\ exit_code' = 0 /\ sha256' = output
    /\ UNCHANGED <<remote, pc, serving, output, buffered, digest, broken>>

\* A fault: the file is opened before the connection.
RequestOpening ==
    /\ pc = "idle"
    /\ pc' = "connect"
    /\ output' = << >>
    /\ exit_code' = -1 /\ sha256' = Null
    /\ UNCHANGED <<remote, serving, buffered, digest, broken>>

\* A run without it, or that finds none, asks the server.
Request ==
    /\ pc = "idle"
    /\ pc' = "connect"
    /\ exit_code' = -1 /\ sha256' = Null
    /\ UNCHANGED <<remote, serving, output, buffered, digest, broken>>

\* A fault: the file is opened to append to it.
ConnectToAppend ==
    /\ pc = "connect"
    /\ pc' = "read" /\ serving' = remote
    /\ output' = IF output = Null THEN << >> ELSE output
    /\ buffered' = FALSE /\ digest' = << >> /\ broken' = FALSE
    /\ UNCHANGED <<remote, exit_code, sha256>>

\* A fault: what is there of the file is kept, and only the rest is read.
ConnectToResume ==
    /\ pc = "connect"
    /\ pc' = "read" /\ serving' = remote
    /\ output' = IF output = Null THEN << >> ELSE output
    /\ digest' = output'
    /\ buffered' = FALSE /\ broken' = FALSE
    /\ UNCHANGED <<remote, exit_code, sha256>>

\* The connection is there: only now is the file opened, and emptied.
Connect ==
    /\ pc = "connect"
    /\ pc' = "read" /\ serving' = remote
    /\ output' = << >> /\ buffered' = FALSE /\ digest' = << >> /\ broken' = FALSE
    /\ UNCHANGED <<remote, exit_code, sha256>>

ReadChunk ==
    /\ pc = "read" /\ Len(digest) < CHUNKS
    /\ LET chunk == <<serving, Len(digest) + 1>> IN
       output' = Append(output, chunk) /\ digest' = Append(digest, chunk)
    /\ buffered' = TRUE
    /\ UNCHANGED <<remote, pc, serving, exit_code, sha256, broken>>

\* An empty read: the end of the file, or of the connection.  The number of
\* bytes received is not compared with the length the server announced.
Finish ==
    /\ pc = "read"
    /\ pc' = "idle" /\ exit_code' = 0 /\ sha256' = digest /\ buffered' = FALSE
    /\ broken' = (Len(digest) < CHUNKS)
    /\ UNCHANGED <<remote, serving, output, digest>>

\* A fault: a failure is answered with another try.
FailAndRetry ==
    /\ pc \in {"connect", "read"}
    /\ pc' = "connect" /\ buffered' = FALSE
    /\ broken' = (broken \/ pc = "read")
    /\ UNCHANGED <<remote, serving, output, digest, exit_code, sha256>>

\* No connection, a broken one, or a timeout: what was received stays.
Fail ==
    /\ pc \in {"connect", "read"}
    /\ pc' = "idle" /\ exit_code' = 1 /\ buffered' = FALSE
    /\ broken' = (broken \/ pc = "read")
    /\ UNCHANGED <<remote, serving, output, digest, sha256>>

Kill ==
    /\ pc \in {"connect", "read"}
    /\ pc' = "idle" /\ exit_code' = -1 /\ buffered' = FALSE
    /\ output' \in {output} \cup (IF buffered THEN {Front(output)} ELSE {})
    /\ broken' = (broken \/ pc = "read")
    /\ UNCHANGED <<remote, serving, digest, sha256>>

Run == Connect \/ ReadChunk \/ Finish \/ Fail

Next == Publish \/ Skip \/ Request \/ Run \/ Kill

\* The timeout of 15 seconds: a run does not wait for ever.
Spec == Init /\ [][Next]_vars /\ WF_vars(Run)

-----------------------------------------------------------------------------
(***************************************************************************)
(* The file is empty, or begins as some version on the server does:        *)
(* however runs fail and are repeated, it never mixes what two of them     *)
(* received (line 41 opens it anew).                                       *)
(***************************************************************************)
OneVersion ==
    output # Null => \E v \in 1 .. remote : IsPrefix(output, Whole(v))

\* A hash that was printed is that of the file, as long as no other run has
\* begun: what was hashed on the way is what was written.
HashIsOfFile == sha256 # Null => sha256 = output

(***************************************************************************)
(* What is wrong with a file after a run with exit code 0 is due to a      *)
(* connection that broke off, in that run or, if it was skipped (line 75), *)
(* in an earlier one: a run that was not cut off leaves the whole of the   *)
(* version it was served, whatever was there before it.                    *)
(***************************************************************************)
CleanRunWritesAll == exit_code = 0 /\ output # Null /\ ~broken => output = Whole(serving)

Complete == output # Null /\ ~buffered /\ \E v \in 1 .. remote : output = Whole(v)

\* A complete file is given up only for a connection that is already there:
\* neither a server that cannot be reached nor a late crash costs it.
OnlyConnectedRunsTruncate ==
    [][Complete /\ ~Complete' => pc = "connect" /\ pc' = "read"]_vars

\* Every run ends, whatever the server does.
RunsEnd == pc # "idle" ~> pc = "idle"
=============================================================================
