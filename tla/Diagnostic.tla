----------------------------- MODULE Diagnostic -----------------------------
(***************************************************************************)
(* app/diagnostic.c: the detectors behind the DTC bitfield.  The context   *)
(* is the record                                                           *)
(*   [last_omega, stuck_count, plausibility_count,                         *)
(*    crc_errors_in_window, cycles_in_window, last_crc_errors_seen].       *)
(* last_v is written and never read.  The noise detector is compiled out   *)
(* of the orchestrator (#if 0) and has no part in it.                      *)
(***************************************************************************)
EXTENDS EcuTypes

DiagnosticCtx == [last_omega : Float, stuck_count : Uint32,
                  plausibility_count : Uint32,
                  crc_errors_in_window : Uint32, cycles_in_window : Uint32,
                  last_crc_errors_seen : Uint32]

DiagnosticInit == [last_omega |-> 0, stuck_count |-> 0,
                   plausibility_count |-> 0,
                   crc_errors_in_window |-> 0, cycles_in_window |-> 0,
                   last_crc_errors_seen |-> 0]

DIAG_STUCK_V_MIN == 10
DIAG_PLAUSIBILITY_EPSILON == 5
PLAUSIBILITY_V_MIN == 10

(* Mutant: ordered comparisons only. *)
OutOfRangeNoNaN(v, w) ==
    \/ FLt(w, -1) \/ FGt(w, 500)
    \/ FLt(v, -10) \/ FGt(v, 1200)

(* F05, with the isfinite test: the NaN that ordered comparisons miss. *)
OutOfRange(v, w) ==
    \/ FLt(w, -1) \/ FGt(w, 500)
    \/ FLt(v, -10) \/ FGt(v, 1200)
    \/ v = NaN \/ w = NaN

(* Mutant: a different omega does not clear the counter. *)
StuckCountNoReset(dg, w, v) ==
    IF w # NaN /\ w = dg.last_omega /\ FGt(v, DIAG_STUCK_V_MIN)
    THEN Inc32(dg.stuck_count) ELSE dg.stuck_count

(* F01: omega equal to the last checked omega while the vehicle moves. *)
StuckCount(dg, w, v) ==
    IF w # NaN /\ w = dg.last_omega /\ FGt(v, DIAG_STUCK_V_MIN)
    THEN Inc32(dg.stuck_count) ELSE 0

(* F07: the rim faster than the body; the comparison is false for NaN. *)
PlausibilityCount(dg, v, w) ==
    IF v # NaN /\ ~FLt(v, PLAUSIBILITY_V_MIN)
       /\ FGt(RimSpeed(w), v + DIAG_PLAUSIBILITY_EPSILON)
    THEN Inc32(dg.plausibility_count) ELSE 0

(* F04: the error window.  At its last cycle the window is judged and      *)
(* cleared BEFORE the errors of this cycle are added, so those belong to   *)
(* the next window.                                                        *)
WindowCloses(dg) == Inc32(dg.cycles_in_window) >= CRC_RATE_DENOMINATOR

(* Mutants: the closing cycle's own errors are lost; the sum survives the  *)
(* closing.                                                                *)
CrcWindowLosesErrors(dg, crc_errors_total) ==
    [dg EXCEPT
      !.cycles_in_window = IF WindowCloses(dg) THEN 0 ELSE Inc32(@),
      !.crc_errors_in_window =
          IF WindowCloses(dg) THEN 0
          ELSE Add32(@, crc_errors_total - dg.last_crc_errors_seen),
      !.last_crc_errors_seen = crc_errors_total]

CrcWindowNoClear(dg, crc_errors_total) ==
    [dg EXCEPT
      !.cycles_in_window = IF WindowCloses(dg) THEN 0 ELSE Inc32(@),
      !.crc_errors_in_window =
          IF crc_errors_total > dg.last_crc_errors_seen
          THEN Add32(@, crc_errors_total - dg.last_crc_errors_seen) ELSE @,
      !.last_crc_errors_seen = crc_errors_total]

CrcWindow(dg, crc_errors_total) ==
    LET fresh == crc_errors_total > dg.last_crc_errors_seen
        kept  == IF WindowCloses(dg) THEN 0 ELSE dg.crc_errors_in_window
    IN  [dg EXCEPT
          !.cycles_in_window =
              IF WindowCloses(dg) THEN 0 ELSE Inc32(@),
          !.crc_errors_in_window =
              IF fresh
              THEN Add32(kept, crc_errors_total - dg.last_crc_errors_seen)
              ELSE kept,
          !.last_crc_errors_seen =
              IF fresh THEN crc_errors_total ELSE @]

(* Mutant: the watchdog code one cycle early. *)
CommDtcEarly(dg, cycles_since_valid) ==
    IF cycles_since_valid >= WATCHDOG_TIMEOUT_CYCLES
    THEN {"COMM_TIMEOUT"} ELSE {}

(* F03 and the judgement of F04. *)
CommDtc(dg, cycles_since_valid) ==
    (IF cycles_since_valid > WATCHDOG_TIMEOUT_CYCLES
     THEN {"COMM_TIMEOUT"} ELSE {})
    \cup
    (IF WindowCloses(dg)
        /\ dg.crc_errors_in_window >= DIAG_CRC_ERROR_RATE_THRESHOLD
     THEN {"COMM_CRC"} ELSE {})

(* The content checks of a valid sample that is in range. *)
ContentChecked(dg, s) ==
    [dg EXCEPT !.last_omega = s.omega_wheel,
               !.stuck_count = StuckCount(dg, s.omega_wheel, s.v_vehicle),
               !.plausibility_count =
                   PlausibilityCount(dg, s.v_vehicle, s.omega_wheel)]

(* Mutant: the stuck code one cycle late. *)
ContentDtcLate(dg, s) ==
    IF StuckCount(dg, s.omega_wheel, s.v_vehicle)
            > DIAG_STUCK_THRESHOLD_CYCLES THEN {"STUCK"} ELSE {}

ContentDtc(dg, s) ==
    (IF StuckCount(dg, s.omega_wheel, s.v_vehicle)
            >= DIAG_STUCK_THRESHOLD_CYCLES THEN {"STUCK"} ELSE {})
    \cup
    (IF PlausibilityCount(dg, s.v_vehicle, s.omega_wheel)
            >= DIAG_PLAUSIBILITY_CYCLES THEN {"PLAUSIBILITY"} ELSE {})

(* diagnostic_check: the next context and the DTC set of this cycle. *)
DiagnosticCheck(dg, s, cycles_since_valid, crc_errors_total) ==
    LET comm == CommDtc(dg, cycles_since_valid)
        dgw  == CrcWindow(dg, crc_errors_total)
    IN  IF ~s.valid
        THEN [dg |-> dgw, dtc |-> comm]
        ELSE IF OutOfRange(s.v_vehicle, s.omega_wheel)
        THEN [dg |-> dgw, dtc |-> comm \cup {"RANGE"}]
        ELSE [dg |-> ContentChecked(dgw, s),
              dtc |-> comm \cup ContentDtc(dgw, s)]
=============================================================================
