------------------------------ MODULE MCRolling ------------------------------
(***************************************************************************)
(* The CRC error rate as the comments of diagnostic.c and diagnostic.h     *)
(* describe it, over a rolling window, against the windows of the code,    *)
(* which follow one another.                                               *)
(***************************************************************************)
EXTENDS MCDiagnostic

VARIABLE overdue    \* history: cycles since a whole window's errors were above
                    \* the threshold, with no COMM_CRC so far

Above == since[CRC_RATE_DENOMINATOR] > DIAG_CRC_ERROR_RATE_THRESHOLD

Observe ==
    overdue' = IF "COMM_CRC" \in dtc' THEN 0
               ELSE IF overdue > 0 \/ Above' THEN overdue + 1
               ELSE 0

RollingInit == DiagInit /\ overdue = 0

(* Bound: the run ends with the first window that is late. *)
RollingNext ==
    /\ overdue <= CRC_RATE_DENOMINATOR
    /\ DiagNext
    /\ Observe

RollingSpec == RollingInit /\ [][RollingNext]_<<diagVars, overdue>>

(* diagnostic.c:129: "Maintain a rolling 100-cycle window of how many CRC  *)
(* errors have appeared. Above the threshold -> DTC."  Taken leniently:    *)
(* when the last CRC_RATE_DENOMINATOR cycles have read more errors than    *)
(* the threshold, the DTC has come before as many cycles again have passed.*)
RollingWindow == ~wrapped => overdue <= CRC_RATE_DENOMINATOR
=============================================================================
