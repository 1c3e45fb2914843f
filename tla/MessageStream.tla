---------------------------- MODULE MessageStream ----------------------------
(***************************************************************************)
(* What a stream parser promises: every frame that comes in is reported    *)
(* once, as one message, at the edge of its last byte and before anything  *)
(* of the next frame, and nothing else is reported.                        *)
(***************************************************************************)
EXTENDS Naturals

CONSTANTS
    Frames,       \* the frames that can come in
    Message(_),   \* what is to be reported of a frame
    WORD32,       \* the range of the counter
    Null          \* no frame, no report

VARIABLES
    frame,    \* the frame coming in, or Null
    report,   \* the message reported at the last edge, or Null
    total     \* how many have been

vars == <<frame, report, total>>

Init == frame = Null /\ report = Null /\ total = 0

Begin(f) == frame = Null /\ frame' = f /\ report' = Null /\ UNCHANGED total

Continue == report' = Null /\ UNCHANGED <<frame, total>>

Finish ==
    /\ frame # Null
    /\ report' = Message(frame)
    /\ frame' = Null
    /\ total' = (total + 1) % WORD32

Reset == frame' = Null /\ report' = Null /\ total' = 0

Next == (\E f \in Frames : Begin(f)) \/ Continue \/ Finish \/ Reset

\* A frame is not left unfinished forever, unless it is reset away.
Spec == Init /\ [][Next]_vars /\ WF_vars(Finish)
=============================================================================
