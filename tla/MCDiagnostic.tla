---------------------------- MODULE MCDiagnostic ----------------------------
(***************************************************************************)
(* The diagnostic module driven by itself, one diagnostic_check per cycle, *)
(* with a history of the CRC errors of each cycle: what the error-rate     *)
(* window (F04) really measures.                                           *)
(***************************************************************************)
EXTENDS Diagnostic

CONSTANT MAX_CRC        \* bound: CRC errors the driver counts per cycle

ASSUME CrcBound == MAX_CRC \in Nat /\ MAX_CRC < U32

(* A uint32_t counts the cycles of a window (100 of them). *)
ASSUME WindowAssumption == CRC_RATE_DENOMINATOR < U32

VARIABLES
    dg,         \* diagnostic_ctx_t
    total,      \* the driver's CRC error counter
    dtc,        \* the DTC set of the last cycle
    since,      \* history: since[n] is the number of errors read in the last n
                \* cycles, up to a window and one cycle
    position,   \* history: cycles run so far, modulo the window
    wrapped     \* history: the counter has passed 2^32

diagVars == <<dg, total, dtc, since, position, wrapped>>

(* A sample of each path through diagnostic_check: invalid, in range, not. *)
Samples == {ZeroSample, Frame(5, 1, 100), Frame(200, 600, 100)}

Cycles == 0 .. CRC_RATE_DENOMINATOR + 1

DiagInit ==
    /\ dg = DiagnosticInit
    /\ total = 0
    /\ dtc = {}
    /\ since = [n \in Cycles |-> 0]
    /\ position = 0
    /\ wrapped = FALSE

Check(s, csv, crc) ==
    /\ LET result == DiagnosticCheck(dg, s, csv, Add32(total, crc))
       IN  /\ dg' = result.dg
           /\ dtc' = result.dtc
    /\ total' = Add32(total, crc)
    /\ since' = [n \in Cycles |-> IF n = 0 THEN 0 ELSE since[n - 1] + crc]
    /\ position' = (position + 1) % CRC_RATE_DENOMINATOR
    /\ wrapped' = (wrapped \/ total' < total)

DiagNext == \E s \in Samples, crc \in 0 .. MAX_CRC,
           csv \in {0, WATCHDOG_TIMEOUT_CYCLES + 1} : Check(s, csv, crc)

DiagSpec == DiagInit /\ [][DiagNext]_diagVars

(* The threshold was reached in the window that this cycle closes, whose   *)
(* errors are those since the previous last cycle (that one's own          *)
(* included, this one's excluded).                                         *)
Earned ==
    /\ position = 0
    /\ since[CRC_RATE_DENOMINATOR + 1] - since[1]
          >= DIAG_CRC_ERROR_RATE_THRESHOLD

(* Every CRC error counts in exactly one window, the one that closes after *)
(* the cycle that read it: the DTC is raised at a window's last cycle, and *)
(* exactly when it is earned, whatever the samples were.  Once the driver's*)
(* uint32_t total has wrapped below the last one seen, errors go uncounted *)
(* until it has caught up, but the jump back never counts as errors: no    *)
(* wrap, first or later, raises a DTC that was not earned.                 *)
CrcWindowExact ==
    /\ "COMM_CRC" \in dtc => Earned
    /\ Earned /\ ~wrapped => "COMM_CRC" \in dtc
=============================================================================
