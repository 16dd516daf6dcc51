----------------------------- MODULE MCEcuLines -----------------------------
(***************************************************************************)
(* MCEcuHistory on two kinds of line, so that one run can afford both: a   *)
(* line without CRC errors that brings every kind of frame, for a loop     *)
(* that may stop at any point; and a line with CRC errors in any cycle     *)
(* that brings few kinds of frames, for a loop that goes on.  Each of      *)
(* their steps is a step of HNext.                                         *)
(***************************************************************************)
EXTENDS MCEcuHistory

VARIABLE line       \* bound: the kind of line, chosen once

lineVars == <<hvars, line>>

LineInit == HInit /\ line \in {"clean", "noisy"}

CleanCycle ==
    /\ line = "clean"
    /\ \E wrote \in BOOLEAN :
          \/ \E f \in Frames : CycleFresh(f, 0, wrote)
          \/ CycleMissed(0, wrote)
    /\ Observe

NoisyCycle ==
    /\ line = "noisy"
    /\ \E crc \in 0 .. MAX_CRC :
          \/ \E f \in Frames \cap ReplayFrames : CycleFresh(f, crc, TRUE)
          \/ CycleMissed(crc, TRUE)
    /\ Observe

CleanStop == line = "clean" /\ HStop

LineNext == (CleanCycle \/ NoisyCycle \/ CleanStop) /\ UNCHANGED line

LineSpec == LineInit /\ [][LineNext]_lineVars
=============================================================================
