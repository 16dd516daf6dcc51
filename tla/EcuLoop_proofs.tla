--------------------------- MODULE EcuLoop_proofs ---------------------------
(***************************************************************************)
(* Proofs about the super-loop, for every value of the thresholds, the     *)
(* counter width, the pedal and the set of frames: the loop itself first,  *)
(* then what MCEcuHistory's history variables record of a whole run.       *)
(***************************************************************************)
EXTENDS MCEcuHistory, TLAPS

-----------------------------------------------------------------------------
(* What the operations of the components return. *)

(* uint32_t arithmetic stays in range. *)
LEMMA Add32Type ==
    ASSUME NEW a \in Nat, NEW b \in Nat
    PROVE  Add32(a, b) \in Uint32
  BY WidthAssumption DEF Add32, Uint32

(* Below the width it is plain addition. *)
LEMMA Inc32Exact ==
    ASSUME NEW a \in Nat, a + 1 < U32
    PROVE  Inc32(a) = a + 1
  BY WidthAssumption DEF Inc32, Add32

LEMMA Inc32Type ==
    ASSUME NEW a \in Uint32
    PROVE  Inc32(a) \in Uint32
  BY Add32Type, WidthAssumption DEF Inc32, Uint32

(* diagnostic_check returns a well-formed context and known DTC bits. *)
LEMMA DiagnosticType ==
    ASSUME NEW d \in DiagnosticCtx, NEW s \in SensorsData,
           NEW csv \in Uint32, NEW total \in Uint32
    PROVE  /\ DiagnosticCheck(d, s, csv, total).dg \in DiagnosticCtx
           /\ DiagnosticCheck(d, s, csv, total).dtc \in SUBSET DtcBits
<1> DEFINE w == CrcWindow(d, total)
<1>1. w \in DiagnosticCtx
  <2>1. /\ 0 \in Uint32
        /\ Inc32(d.cycles_in_window) \in Uint32
        /\ d.crc_errors_in_window \in Uint32
        /\ d.last_crc_errors_seen \in Uint32
    BY Inc32Type, WidthAssumption DEF DiagnosticCtx, Uint32
  <2>2. ASSUME NEW kept \in Uint32, total > d.last_crc_errors_seen
        PROVE  Add32(kept, total - d.last_crc_errors_seen) \in Uint32
    <3>1. total - d.last_crc_errors_seen \in Nat
      BY <2>1, <2>2, WidthAssumption DEF Uint32
    <3>2. kept \in Nat
      BY WidthAssumption DEF Uint32
    <3> QED BY <3>1, <3>2, Add32Type
  <2> QED BY <2>1, <2>2 DEF CrcWindow, DiagnosticCtx
<1>2. ContentChecked(w, s) \in DiagnosticCtx
  <2>1. StuckCount(w, s.omega_wheel, s.v_vehicle) \in Uint32
    BY <1>1, Inc32Type, WidthAssumption DEF StuckCount, DiagnosticCtx, Uint32
  <2>2. PlausibilityCount(w, s.v_vehicle, s.omega_wheel) \in Uint32
    BY <1>1, Inc32Type, WidthAssumption
    DEF PlausibilityCount, DiagnosticCtx, Uint32
  <2>3. s.omega_wheel \in Float
    BY DEF SensorsData
  <2> QED BY <1>1, <2>1, <2>2, <2>3 DEF ContentChecked, DiagnosticCtx
<1>3. CommDtc(d, csv) \in SUBSET DtcBits /\ ContentDtc(w, s) \in SUBSET DtcBits
  BY DEF CommDtc, ContentDtc, DtcBits
<1>4. "RANGE" \in DtcBits
  BY DEF DtcBits
<1> HIDE DEF w
<1> QED BY <1>1, <1>2, <1>3, <1>4 DEF DiagnosticCheck, w

(* abs_state_update returns a well-formed context. *)
LEMMA AbsStateType ==
    ASSUME NEW ctx \in AbsStateCtx, NEW s, NEW slip, NEW dtc
    PROVE  AbsStateUpdate(ctx, s, slip, dtc) \in AbsStateCtx
<1>1. /\ 0 \in Uint32
      /\ Inc32(ctx.fault_count) \in Uint32
      /\ Inc32(ctx.cycles_in_state) \in Uint32
  BY Inc32Type, WidthAssumption DEF AbsStateCtx, Uint32
<1>2. ASSUME NEW t \in EcuStatus, NEW n \in Uint32
      PROVE  Enter(ctx, t, n) \in AbsStateCtx
  BY <1>1, <1>2 DEF Enter, AbsStateCtx
<1>3. FaultTarget(ctx.current, Inc32(ctx.fault_count)) \in EcuStatus
  BY DEF FaultTarget, EcuStatus
<1>4. HealthyTarget(ctx.current, s, slip) \in EcuStatus
  BY DEF HealthyTarget, EcuStatus, AbsStateCtx
<1>5. "FAULT_LATCHED" \in EcuStatus /\ ctx.fault_count \in Uint32
  BY DEF EcuStatus, AbsStateCtx
<1> QED BY <1>1, <1>2, <1>3, <1>4, <1>5 DEF AbsStateUpdate

(* The command is a full release or the pedal. *)
LEMMA ComputeType ==
    ASSUME NEW c \in [previous_command : {0, DRIVER}],
           NEW state, NEW s, NEW slip
    PROVE  AbsControllerCompute(c, state, s, slip, DRIVER) \in {0, DRIVER}
  BY DEF AbsControllerCompute, BangBang

(* The sample used is one of the two the loop keeps. *)
LEMMA ForStateChoice ==
    ASSUME NEW c, NEW lg, NEW csv
    PROVE  /\ c.valid => ForState(c, lg, csv) = c
           /\ ForState(c, lg, csv) \in {c, lg}
  BY DEF ForState

-----------------------------------------------------------------------------
(* Type correctness. *)

(* The part of a cycle after the read keeps the types. *)
LEMMA ProcessType ==
    ASSUME TypeOK, NEW wrote \in BOOLEAN, Process(wrote),
           cur' \in SensorsData, last_good' \in SensorsData,
           cycles_since_valid' \in Uint32, errors_crc' \in Uint32
    PROVE  /\ running' \in BOOLEAN
           /\ dg' \in DiagnosticCtx
           /\ st' \in AbsStateCtx
           /\ cc' \in [previous_command : {0, DRIVER}]
           /\ out' \in Actuator
           /\ faultRun' \in 0 .. ABS_FAULT_LATCH_THRESHOLD
<1> DEFINE s    == ForState(cur', last_good', cycles_since_valid')
           diag == DiagnosticCheck(dg, s, cycles_since_valid', errors_crc')
           slip == SlipProtected(s.v_vehicle, s.omega_wheel)
<1>1. s \in SensorsData
  BY ForStateChoice
<1>2. diag.dg \in DiagnosticCtx /\ diag.dtc \in SUBSET DtcBits
  BY <1>1, DiagnosticType DEF TypeOK
<1>3. st' \in AbsStateCtx
  BY AbsStateType DEF TypeOK, Process
<1>4. cc' \in [previous_command : {0, DRIVER}]
  BY ComputeType DEF TypeOK, Process
<1>5. out' \in Actuator
  <2>1. st'.current \in EcuStatus
    BY <1>3 DEF AbsStateCtx
  <2>2. cc'.previous_command \in {0, DRIVER}
    BY <1>4
  <2>3. out' = [brake_command |-> cc'.previous_command,
                ecu_status |-> st'.current, dtc_code |-> diag.dtc]
        \/ out' = out
    BY DEF Process
  <2> QED BY <1>2, <2>1, <2>2, <2>3 DEF TypeOK, Actuator
<1>6. faultRun' \in 0 .. ABS_FAULT_LATCH_THRESHOLD
  <2>1. faultRun' = Capped(faultRun + 1, ABS_FAULT_LATCH_THRESHOLD)
        \/ faultRun' = 0
    BY DEF Process
  <2> QED BY <2>1, ThresholdAssumption DEF TypeOK, Capped
<1>7. running' \in BOOLEAN /\ dg' \in DiagnosticCtx
  BY <1>2 DEF Process
<1> QED BY <1>3, <1>4, <1>5, <1>6, <1>7

(* The read keeps the types of the samples and counters. *)
LEMMA FreshType ==
    ASSUME TypeOK, NEW f \in Frames, NEW crc \in 0 .. MAX_CRC,
           NEW wrote, CycleFresh(f, crc, wrote)
    PROVE  /\ cur' \in SensorsData
           /\ last_good' \in SensorsData
           /\ cycles_since_valid' \in Uint32
           /\ errors_crc' \in Uint32
           /\ age' \in 0 .. WATCHDOG_TIMEOUT_CYCLES + 1
<1>1. errors_crc \in Nat /\ crc \in Nat
  BY CrcAssumption, WidthAssumption DEF TypeOK, Uint32
<1>2. errors_crc' \in Uint32
  BY <1>1, Add32Type DEF CycleFresh
<1> QED BY <1>2, FramesAssumption, WidthAssumption, ThresholdAssumption
        DEF CycleFresh, Uint32

LEMMA MissedType ==
    ASSUME TypeOK, NEW crc \in 0 .. MAX_CRC, NEW wrote,
           CycleMissed(crc, wrote)
    PROVE  /\ cur' \in SensorsData
           /\ last_good' \in SensorsData
           /\ cycles_since_valid' \in Uint32
           /\ errors_crc' \in Uint32
           /\ age' \in 0 .. WATCHDOG_TIMEOUT_CYCLES + 1
<1>1. errors_crc \in Nat /\ crc \in Nat
  BY CrcAssumption, WidthAssumption DEF TypeOK, Uint32
<1>2. errors_crc' \in Uint32
  BY <1>1, Add32Type DEF CycleMissed
<1>3. cycles_since_valid' \in Uint32
  BY Inc32Type DEF TypeOK, CycleMissed
<1>4. cur' \in SensorsData /\ last_good' \in SensorsData
  BY DEF TypeOK, CycleMissed, SensorsData
<1>5. age' \in 0 .. WATCHDOG_TIMEOUT_CYCLES + 1
  BY ThresholdAssumption DEF TypeOK, CycleMissed, Capped
<1> QED BY <1>2, <1>3, <1>4, <1>5

LEMMA InitType == Init => TypeOK
  BY WidthAssumption, ThresholdAssumption
  DEF Init, TypeOK, ZeroSample, SensorsData, Float, AbsStateInit, AbsStateCtx,
      AbsControllerInit, DiagnosticInit, DiagnosticCtx, Actuator, EcuStatus,
      Uint32

LEMMA NextType == TypeOK /\ [Next]_vars => TypeOK'
<1> SUFFICES ASSUME TypeOK, [Next]_vars PROVE TypeOK'
  OBVIOUS
<1>1. ASSUME NEW f \in Frames, NEW crc \in 0 .. MAX_CRC,
             NEW wrote \in BOOLEAN, CycleFresh(f, crc, wrote)
      PROVE  TypeOK'
  <2>1. Process(wrote)
    BY <1>1 DEF CycleFresh
  <2> QED BY <1>1, <2>1, FreshType, ProcessType DEF TypeOK
<1>2. ASSUME NEW crc \in 0 .. MAX_CRC, NEW wrote \in BOOLEAN,
             CycleMissed(crc, wrote)
      PROVE  TypeOK'
  <2>1. Process(wrote)
    BY <1>2 DEF CycleMissed
  <2> QED BY <1>2, <2>1, MissedType, ProcessType DEF TypeOK
<1>3. CASE LeaveLoop
  BY <1>3 DEF LeaveLoop, TypeOK
<1>4. CASE Terminated \/ UNCHANGED vars
  BY <1>4 DEF Terminated, vars, TypeOK
<1> QED BY <1>1, <1>2, <1>3, <1>4 DEF Next, Cycle

(* Every reachable state of the loop is well typed: no counter leaves its  *)
(* uint32_t and the brake is only ever fully released or at the pedal.     *)
THEOREM TypeCorrect == Spec => []TypeOK
  BY InitType, NextType, PTL DEF Spec

-----------------------------------------------------------------------------
(* A cycle as the abstract promise sees it. *)

(* A value abs_state.c cannot use has a DTC from diagnostic.c, if valid. *)
LEMMA UnusableHasDtc ==
    ASSUME NEW d, NEW s, NEW csv, NEW total, s.valid, ~SensorsUsable(s)
    PROVE  DiagnosticCheck(d, s, csv, total).dtc # {}
  BY DEF SensorsUsable, DiagnosticCheck, OutOfRange

(* A silence longer than the watchdog has a DTC. *)
LEMMA SilenceHasDtc ==
    ASSUME NEW d, NEW s, NEW csv, NEW total, csv > WATCHDOG_TIMEOUT_CYCLES
    PROVE  DiagnosticCheck(d, s, csv, total).dtc # {}
  BY DEF DiagnosticCheck, CommDtc

(* Up to the watchdog the last good sample is replayed. *)
LEMMA ReplayWithinWatchdog ==
    ASSUME NEW c, NEW lg, NEW csv \in Uint32, ~c.valid,
           csv <= WATCHDOG_TIMEOUT_CYCLES
    PROVE  ForState(c, lg, csv) = lg
<1>1. /\ csv \in Nat /\ LOOP_PERIOD_MS \in Nat
      /\ WATCHDOG_TIMEOUT_CYCLES \in Nat /\ WATCHDOG_TIMEOUT_MS \in Nat
  BY ThresholdAssumption, WidthAssumption DEF Uint32
<1>2. csv * LOOP_PERIOD_MS <= WATCHDOG_TIMEOUT_CYCLES * LOOP_PERIOD_MS
  BY <1>1
<1>3. csv * LOOP_PERIOD_MS \in Nat
      /\ WATCHDOG_TIMEOUT_CYCLES * LOOP_PERIOD_MS \in Nat
  BY <1>1
<1>4. ASSUME NEW x \in Nat PROVE x % U32 <= x
  BY <1>4, WidthAssumption
<1>5. (csv * LOOP_PERIOD_MS) % U32 <= csv * LOOP_PERIOD_MS
  BY <1>3, <1>4
<1>6. ASSUME NEW a \in Int, NEW b \in Nat, NEW c2 \in Nat,
             a <= b, b <= c2, c2 <= WATCHDOG_TIMEOUT_MS
      PROVE  a <= WATCHDOG_TIMEOUT_MS
  BY <1>6, <1>1
<1>7. (csv * LOOP_PERIOD_MS) % U32 \in Int
  BY <1>3, WidthAssumption
<1>8. (csv * LOOP_PERIOD_MS) % U32 <= WATCHDOG_TIMEOUT_MS
  BY <1>2, <1>3, <1>5, <1>6, <1>7, WatchdogAssumption
<1> QED BY <1>8 DEF ForState

(* abs_state_update, seen from the fault counter: the four outcomes. *)
LEMMA UpdateOutcome ==
    ASSUME NEW ctx \in AbsStateCtx, NEW s, NEW slip, NEW dtc,
           NEW u, u = AbsStateUpdate(ctx, s, slip, dtc)
    PROVE  /\ ctx.current = "FAULT_LATCHED" => u.current = "FAULT_LATCHED"
           /\ Faulty(s, dtc) => u.current \in FaultStatus
           /\ Faulty(s, dtc) => u.fault_count = Inc32(ctx.fault_count)
           /\ Faulty(s, dtc) /\ ctx.current # "FAULT_LATCHED" =>
                 (u.current = "FAULT_LATCHED" <=>
                    Inc32(ctx.fault_count) >= ABS_FAULT_LATCH_THRESHOLD)
           /\ ~Faulty(s, dtc) /\ ctx.current # "FAULT_LATCHED" =>
                 /\ u.current \notin FaultStatus
                 /\ u.fault_count = 0
<1>1. HealthyTarget(ctx.current, s, slip) \notin FaultStatus
      \/ ctx.current = "FAULT_LATCHED"
  BY DEF HealthyTarget, FaultStatus, AbsStateCtx, EcuStatus
<1> QED BY <1>1 DEF AbsStateUpdate, Enter, FaultTarget, FaultStatus

(* The types the control flow depends on.  Unlike TypeOK they do not       *)
(* mention the values that a sample carries, so that a loop fed from a     *)
(* wire (SilLoop) has them too.                                            *)
ControlOK ==
    /\ running \in BOOLEAN
    /\ "valid" \in DOMAIN cur
    /\ cycles_since_valid \in Uint32
    /\ st \in AbsStateCtx
    /\ cc \in [previous_command : {0, DRIVER}]
    /\ age \in 0 .. WATCHDOG_TIMEOUT_CYCLES + 1
    /\ faultRun \in 0 .. ABS_FAULT_LATCH_THRESHOLD

LEMMA TypeGivesControl == TypeOK => ControlOK
  BY DEF TypeOK, ControlOK, SensorsData

(* The part of a cycle after the read keeps them. *)
LEMMA ProcessControl ==
    ASSUME ControlOK, NEW wrote \in BOOLEAN, Process(wrote),
           "valid" \in DOMAIN cur', cycles_since_valid' \in Uint32,
           age' \in 0 .. WATCHDOG_TIMEOUT_CYCLES + 1
    PROVE  ControlOK'
<1>1. st' \in AbsStateCtx
  BY AbsStateType DEF ControlOK, Process
<1>2. cc' \in [previous_command : {0, DRIVER}]
  BY ComputeType DEF ControlOK, Process
<1>3. faultRun' \in 0 .. ABS_FAULT_LATCH_THRESHOLD
  <2>1. faultRun' = Capped(faultRun + 1, ABS_FAULT_LATCH_THRESHOLD)
        \/ faultRun' = 0
    BY DEF Process
  <2> QED BY <2>1, ThresholdAssumption DEF ControlOK, Capped
<1>4. running' \in BOOLEAN
  BY DEF Process
<1> QED BY <1>1, <1>2, <1>3, <1>4 DEF ControlOK

(* What a cycle does to the counters, the state and the command, as a      *)
(* function of two facts: was the frame missed, was the cycle faulty.      *)
View(missed, faulty) ==
    /\ age' = IF missed THEN Capped(age + 1, WATCHDOG_TIMEOUT_CYCLES + 1)
                        ELSE 0
    /\ cycles_since_valid' = IF missed THEN Inc32(cycles_since_valid) ELSE 0
    /\ faultRun' = IF faulty
                   THEN Capped(faultRun + 1, ABS_FAULT_LATCH_THRESHOLD) ELSE 0
    /\ cycles_since_valid' > WATCHDOG_TIMEOUT_CYCLES => faulty
    /\ st.current = "FAULT_LATCHED" => st'.current = "FAULT_LATCHED"
    /\ faulty => /\ st'.current \in FaultStatus
                 /\ st'.fault_count = Inc32(st.fault_count)
    /\ faulty /\ st.current # "FAULT_LATCHED" =>
          (st'.current = "FAULT_LATCHED" <=>
             Inc32(st.fault_count) >= ABS_FAULT_LATCH_THRESHOLD)
    /\ ~faulty /\ st.current # "FAULT_LATCHED" =>
          /\ st'.current \notin FaultStatus
          /\ st'.fault_count = 0
    /\ st'.current \in FaultStatus => cc'.previous_command = DRIVER
    /\ cc'.previous_command \in {0, DRIVER}
    /\ running' => /\ out'.ecu_status = st'.current
                   /\ out'.brake_command = cc'.previous_command

(* The part after the read, once the sample is known to be faulty for      *)
(* abs_state exactly when the cycle is faulty for an observer.             *)
LEMMA ProcessView ==
    ASSUME ControlOK, NEW wrote \in BOOLEAN, Process(wrote),
           NEW missed \in BOOLEAN,
           cycles_since_valid' =
               IF missed THEN Inc32(cycles_since_valid) ELSE 0,
           age' = IF missed THEN Capped(age + 1, WATCHDOG_TIMEOUT_CYCLES + 1)
                  ELSE 0,
           cycles_since_valid' \in Uint32,
           cur'.valid => last_good' = cur',
           ~last_good'.valid => ~cur'.valid
    PROVE  \E faulty \in BOOLEAN : View(missed, faulty)
<1> DEFINE s    == ForState(cur', last_good', cycles_since_valid')
           diag == DiagnosticCheck(dg, s, cycles_since_valid', errors_crc')
           slip == SlipProtected(s.v_vehicle, s.omega_wheel)
           faulty == Faulty(s, diag.dtc)
<1>1. cycles_since_valid' > WATCHDOG_TIMEOUT_CYCLES => diag.dtc # {}
  BY SilenceHasDtc
<1>2. s.valid /\ ~SensorsUsable(s) => diag.dtc # {}
  BY UnusableHasDtc
<1>3. ~s.valid /\ last_good'.valid => diag.dtc # {}
  <2>1. SUFFICES ASSUME ~s.valid, last_good'.valid
                 PROVE  cycles_since_valid' > WATCHDOG_TIMEOUT_CYCLES
    BY <1>1
  <2>2. ~cur'.valid /\ s # last_good'
    BY <2>1, ForStateChoice
  <2>3. ~(cycles_since_valid' <= WATCHDOG_TIMEOUT_CYCLES)
    BY <2>2, ReplayWithinWatchdog
  <2> QED BY <2>3, ThresholdAssumption, WidthAssumption DEF Uint32
<1>4. s.valid => last_good'.valid
  BY ForStateChoice
<1>5. faulty <=> SeenFaulty(diag.dtc, last_good')
  <2>1. SensorsUsable(s) => s.valid
    BY DEF SensorsUsable
  <2> HIDE DEF s, diag
  <2> QED BY <1>2, <1>3, <1>4, <2>1 DEF Faulty, SeenFaulty
<1>6. st' = AbsStateUpdate(st, s, slip, diag.dtc) /\ st \in AbsStateCtx
  BY DEF Process, ControlOK
<1>7. cc' = [previous_command |->
               AbsControllerCompute(cc, st'.current, s, slip, DRIVER)]
  BY DEF Process
<1>8. faultRun' = IF faulty
                  THEN Capped(faultRun + 1, ABS_FAULT_LATCH_THRESHOLD) ELSE 0
  BY <1>5 DEF Process
<1>9. running' => /\ out'.ecu_status = st'.current
                  /\ out'.brake_command = cc'.previous_command
  BY DEF Process
<1>10. faulty \in BOOLEAN
  BY DEF Faulty
<1>11. cycles_since_valid' > WATCHDOG_TIMEOUT_CYCLES => faulty
  BY <1>1 DEF Faulty
<1>12. /\ st.current = "FAULT_LATCHED" => st'.current = "FAULT_LATCHED"
       /\ faulty => /\ st'.current \in FaultStatus
                    /\ st'.fault_count = Inc32(st.fault_count)
       /\ faulty /\ st.current # "FAULT_LATCHED" =>
             (st'.current = "FAULT_LATCHED" <=>
                Inc32(st.fault_count) >= ABS_FAULT_LATCH_THRESHOLD)
       /\ ~faulty /\ st.current # "FAULT_LATCHED" =>
             /\ st'.current \notin FaultStatus
             /\ st'.fault_count = 0
  <2> HIDE DEF s, diag, slip
  <2> QED BY <1>6, UpdateOutcome
<1>13. st'.current \in FaultStatus => cc'.previous_command = DRIVER
  <2> HIDE DEF s, slip
  <2> QED BY <1>7 DEF AbsControllerCompute, PassThrough
<1>14. cc'.previous_command \in {0, DRIVER}
  <2> HIDE DEF s, slip
  <2> QED BY <1>7, ComputeType DEF ControlOK
<1> HIDE DEF faulty
<1>15. View(missed, faulty)
  BY <1>8, <1>9, <1>11, <1>12, <1>13, <1>14 DEF View
<1> QED BY <1>10, <1>15

(* The two kinds of cycle, for any frame that the HAL marks valid. *)
LEMMA FreshView ==
    ASSUME ControlOK, NEW f, f.valid, "valid" \in DOMAIN f, NEW crc,
           NEW wrote \in BOOLEAN, CycleFresh(f, crc, wrote)
    PROVE  ControlOK' /\ \E faulty \in BOOLEAN : View(FALSE, faulty)
<1>1. Process(wrote) /\ last_good' = cur' /\ cur'.valid
      /\ "valid" \in DOMAIN cur'
      /\ age' = 0 /\ cycles_since_valid' = 0
  BY DEF CycleFresh
<1>2. /\ cycles_since_valid' \in Uint32
      /\ age' \in 0 .. WATCHDOG_TIMEOUT_CYCLES + 1
  BY <1>1, WidthAssumption, ThresholdAssumption DEF Uint32
<1>3. ControlOK'
  BY <1>1, <1>2, ProcessControl
<1> QED BY <1>1, <1>2, <1>3, ProcessView

LEMMA MissedView ==
    ASSUME ControlOK, NEW crc, NEW wrote \in BOOLEAN, CycleMissed(crc, wrote)
    PROVE  ControlOK' /\ \E faulty \in BOOLEAN : View(TRUE, faulty)
<1>1. /\ Process(wrote)
      /\ cycles_since_valid' = Inc32(cycles_since_valid)
      /\ age' = Capped(age + 1, WATCHDOG_TIMEOUT_CYCLES + 1)
      /\ cur' = [cur EXCEPT !.valid = FALSE]
  BY DEF CycleMissed
<1>2. "valid" \in DOMAIN cur' /\ ~cur'.valid
  BY <1>1 DEF ControlOK
<1>3. cycles_since_valid' \in Uint32
  BY <1>1, Inc32Type DEF ControlOK
<1>4. age' \in 0 .. WATCHDOG_TIMEOUT_CYCLES + 1
  BY <1>1, ThresholdAssumption DEF ControlOK, Capped
<1>5. ControlOK'
  BY <1>1, <1>2, <1>3, <1>4, ProcessControl
<1> QED BY <1>1, <1>2, <1>3, <1>5, ProcessView

LEMMA CycleView ==
    ASSUME TypeOK, Cycle
    PROVE  \E missed, faulty \in BOOLEAN : View(missed, faulty)
<1>1. ASSUME NEW f \in Frames, NEW crc \in 0 .. MAX_CRC,
             NEW wrote \in BOOLEAN, CycleFresh(f, crc, wrote)
      PROVE  \E faulty \in BOOLEAN : View(FALSE, faulty)
  <2>1. f.valid /\ "valid" \in DOMAIN f
    BY FramesAssumption DEF SensorsData
  <2> QED BY <1>1, <2>1, FreshView, TypeGivesControl
<1>2. ASSUME NEW crc \in 0 .. MAX_CRC, NEW wrote \in BOOLEAN,
             CycleMissed(crc, wrote)
      PROVE  \E faulty \in BOOLEAN : View(TRUE, faulty)
  BY <1>2, MissedView, TypeGivesControl
<1> QED BY <1>1, <1>2 DEF Cycle

-----------------------------------------------------------------------------
(* The counters. *)

LEMMA CountersInit == Init => CountersAgree
  BY ThresholdAssumption DEF Init, CountersAgree, AbsStateInit

LEMMA CountersStep ==
    ASSUME ControlOK, CountersAgree,
           NEW missed \in BOOLEAN, NEW faulty \in BOOLEAN,
           View(missed, faulty)
    PROVE  CountersAgree'
<1> USE ThresholdAssumption, WidthAssumption, NoEarlyWrap
<1>1. /\ age \in Nat /\ age <= WATCHDOG_TIMEOUT_CYCLES + 1
      /\ faultRun \in Nat /\ faultRun <= ABS_FAULT_LATCH_THRESHOLD
      /\ cycles_since_valid \in Nat /\ st.fault_count \in Nat
  BY DEF ControlOK, Uint32, AbsStateCtx
<1>2. st'.current # "FAULT_LATCHED" =>
          /\ st'.fault_count = faultRun'
          /\ faultRun' < ABS_FAULT_LATCH_THRESHOLD
          /\ faultRun' > 0 <=> st'.current = "FAULT_DEGRADED"
  <2> SUFFICES ASSUME st'.current # "FAULT_LATCHED"
               PROVE  /\ st'.fault_count = faultRun'
                      /\ faultRun' < ABS_FAULT_LATCH_THRESHOLD
                      /\ faultRun' > 0 <=> st'.current = "FAULT_DEGRADED"
    OBVIOUS
  <2>1. st.current # "FAULT_LATCHED"
    BY DEF View
  <2>2. st.fault_count = faultRun /\ faultRun < ABS_FAULT_LATCH_THRESHOLD
    BY <2>1 DEF CountersAgree
  <2>3. Inc32(st.fault_count) = faultRun + 1
    BY <1>1, <2>2, Inc32Exact
  <2>4. CASE faulty
    <3>1. faultRun + 1 < ABS_FAULT_LATCH_THRESHOLD
      BY <1>1, <2>1, <2>3, <2>4 DEF View
    <3>2. faultRun' = faultRun + 1
      BY <2>4, <3>1 DEF View, Capped
    <3>3. st'.current = "FAULT_DEGRADED" /\ st'.fault_count = faultRun + 1
      BY <2>3, <2>4 DEF View, FaultStatus
    <3> QED BY <1>1, <3>1, <3>2, <3>3
  <2>5. CASE ~faulty
    BY <2>1, <2>5 DEF View, FaultStatus
  <2> QED BY <2>4, <2>5
<1>3. age' <= WATCHDOG_TIMEOUT_CYCLES => cycles_since_valid' = age'
  <2>1. CASE missed
    <3>1. age' <= WATCHDOG_TIMEOUT_CYCLES =>
             age + 1 <= WATCHDOG_TIMEOUT_CYCLES /\ age' = age + 1
      BY <1>1, <2>1 DEF View, Capped
    <3>2. age + 1 <= WATCHDOG_TIMEOUT_CYCLES => cycles_since_valid = age
      BY <1>1 DEF CountersAgree
    <3>3. age + 1 <= WATCHDOG_TIMEOUT_CYCLES => Inc32(age) = age + 1
      BY <1>1, Inc32Exact
    <3> QED BY <2>1, <3>1, <3>2, <3>3 DEF View
  <2>2. CASE ~missed
    BY <2>2 DEF View
  <2> QED BY <2>1, <2>2
<1>4. age' > WATCHDOG_TIMEOUT_CYCLES /\ st'.current # "FAULT_LATCHED" =>
          /\ cycles_since_valid' > WATCHDOG_TIMEOUT_CYCLES
          /\ cycles_since_valid' - WATCHDOG_TIMEOUT_CYCLES <= faultRun'
  <2> SUFFICES ASSUME age' > WATCHDOG_TIMEOUT_CYCLES,
                      st'.current # "FAULT_LATCHED"
               PROVE  /\ cycles_since_valid' > WATCHDOG_TIMEOUT_CYCLES
                      /\ cycles_since_valid' - WATCHDOG_TIMEOUT_CYCLES
                            <= faultRun'
    OBVIOUS
  <2>1. missed /\ age >= WATCHDOG_TIMEOUT_CYCLES
    BY <1>1 DEF View, Capped
  <2>2. st.current # "FAULT_LATCHED"
    BY DEF View
  <2>3. /\ faultRun < ABS_FAULT_LATCH_THRESHOLD
        /\ cycles_since_valid >= WATCHDOG_TIMEOUT_CYCLES
        /\ cycles_since_valid - WATCHDOG_TIMEOUT_CYCLES <= faultRun
    BY <1>1, <2>1, <2>2 DEF CountersAgree
  <2>4. Inc32(cycles_since_valid) = cycles_since_valid + 1
    BY <1>1, <2>3, Inc32Exact
  <2>5. cycles_since_valid' = cycles_since_valid + 1
    BY <2>1, <2>4 DEF View
  <2>6. faulty
    BY <1>1, <2>3, <2>5 DEF View
  <2>7. faultRun' = faultRun + 1
    BY <1>1, <2>3, <2>6 DEF View, Capped
  <2> QED BY <1>1, <2>3, <2>5, <2>7
<1> QED BY <1>2, <1>3, <1>4 DEF CountersAgree

-----------------------------------------------------------------------------
(* The release, and what is sent. *)

(* ACTIVE is entered only with a slip that releases, and kept only with a  *)
(* slip that releases or holds a release.                                  *)
LEMMA ActiveStep ==
    ASSUME ActiveMeansReleased, NEW wrote, Process(wrote), TypeOK
    PROVE  ActiveMeansReleased'
<1> DEFINE s    == ForState(cur', last_good', cycles_since_valid')
           diag == DiagnosticCheck(dg, s, cycles_since_valid', errors_crc')
           slip == SlipProtected(s.v_vehicle, s.omega_wheel)
<1>1. /\ st' = AbsStateUpdate(st, s, slip, diag.dtc)
      /\ cc' = [previous_command |->
                   AbsControllerCompute(cc, st'.current, s, slip, DRIVER)]
  BY DEF Process
<1> HIDE DEF s, diag, slip
<1> SUFFICES ASSUME st'.current = "ACTIVE"
             PROVE  cc'.previous_command = 0
  BY DEF ActiveMeansReleased
<1>2. HealthyTarget(st.current, s, slip) = "ACTIVE"
  BY <1>1 DEF AbsStateUpdate, Enter, FaultTarget
<1>3. /\ ~VehicleStopped(s)
      /\ \/ SlipAbove(slip, ABS_SLIP_UPPER)
         \/ st.current = "ACTIVE" /\ ~SlipBelow(slip, ABS_SLIP_LOWER)
  BY <1>2 DEF HealthyTarget
<1>4. ~PassThrough("ACTIVE", s)
  BY <1>3 DEF PassThrough, VehicleStopped, FaultStatus
<1>5. BangBang(cc, slip, DRIVER) = 0
  BY <1>3 DEF BangBang, ActiveMeansReleased
<1> QED BY <1>1, <1>4, <1>5 DEF AbsControllerCompute

(* The last frame sent reports the state and the command, and a fault      *)
(* state comes with the pedal.                                             *)
SentAgrees ==
    /\ running => /\ out.ecu_status = st.current
                  /\ out.brake_command = cc.previous_command
    /\ st.current \in FaultStatus => cc.previous_command = DRIVER

(* The inductive invariant of the loop. *)
IInv == TypeOK /\ CountersAgree /\ ActiveMeansReleased /\ SentAgrees

LEMMA IInvInit == Init => IInv
<1> SUFFICES ASSUME Init PROVE IInv
  OBVIOUS
<1>1. ActiveMeansReleased /\ SentAgrees
  BY DEF Init, ActiveMeansReleased, SentAgrees, AbsStateInit,
         AbsControllerInit, FaultStatus
<1> QED BY <1>1, InitType, CountersInit DEF IInv

LEMMA IInvStep == IInv /\ [Next]_vars => IInv'
<1> SUFFICES ASSUME IInv, [Next]_vars PROVE IInv'
  OBVIOUS
<1>1. TypeOK'
  BY NextType DEF IInv
<1>2. CASE Cycle
  <2>1. PICK missed \in BOOLEAN, faulty \in BOOLEAN : View(missed, faulty)
    BY <1>2, CycleView DEF IInv
  <2>2. CountersAgree'
    BY <2>1, CountersStep, TypeGivesControl DEF IInv
  <2>3. SentAgrees'
    BY <2>1 DEF View, SentAgrees
  <2>4. \E wrote \in BOOLEAN : Process(wrote)
    BY <1>2 DEF Cycle, CycleFresh, CycleMissed
  <2>5. ActiveMeansReleased'
    BY <2>4, ActiveStep DEF IInv
  <2> QED BY <1>1, <2>2, <2>3, <2>5 DEF IInv
<1>3. CASE LeaveLoop
  BY <1>1, <1>3 DEF LeaveLoop, IInv, CountersAgree, ActiveMeansReleased,
                    SentAgrees
<1>4. CASE Terminated \/ UNCHANGED vars
  BY <1>1, <1>4 DEF Terminated, vars, IInv, CountersAgree,
                    ActiveMeansReleased, SentAgrees
<1> QED BY <1>2, <1>3, <1>4 DEF Next

THEOREM Invariance == Spec => []IInv
  BY IInvInit, IInvStep, PTL DEF Spec

(* abs_state and abs_controller never disagree about a release: in ACTIVE  *)
(* the brake is released, for every sequence of samples, losses and        *)
(* faults.                                                                 *)
THEOREM ActiveReleases == Spec => []ActiveMeansReleased
  BY Invariance, PTL DEF IInv

(* The counters of the code count what they stand for until the latch.     *)
THEOREM CountersCorrect == Spec => []CountersAgree
  BY Invariance, PTL DEF IInv

LEMMA BlindFromInv == IInv => BlindMeansPedal
<1> SUFFICES ASSUME IInv, running, age > WATCHDOG_TIMEOUT_CYCLES
             PROVE  /\ out.ecu_status \in FaultStatus
                    /\ out.brake_command = DRIVER
  BY DEF BlindMeansPedal
<1>1. st.current \in FaultStatus
  <2>1. SUFFICES ASSUME st.current # "FAULT_LATCHED"
                 PROVE  st.current = "FAULT_DEGRADED"
    BY DEF FaultStatus
  <2>2. /\ cycles_since_valid > WATCHDOG_TIMEOUT_CYCLES
        /\ cycles_since_valid - WATCHDOG_TIMEOUT_CYCLES <= faultRun
    BY <2>1 DEF IInv, CountersAgree
  <2>3. faultRun > 0
    BY <2>2, ThresholdAssumption, WidthAssumption DEF IInv, TypeOK, Uint32
  <2> QED BY <2>1, <2>3 DEF IInv, CountersAgree
<1> QED BY <1>1 DEF IInv, SentAgrees

(* However long the silence - also past the point where a 32-bit counter   *)
(* or its product with the period wraps - a blind ECU reports a fault and  *)
(* passes the pedal through.                                               *)
THEOREM BlindIsSafe == Spec => []BlindMeansPedal
  BY Invariance, BlindFromInv, PTL

-----------------------------------------------------------------------------
(* What a step may never do. *)

(* The latch, seen from the history: it closes exactly when the run of     *)
(* faulty cycles is complete.                                              *)
LEMMA LatchExact ==
    ASSUME IInv, NEW missed \in BOOLEAN, NEW faulty \in BOOLEAN,
           View(missed, faulty), st.current # "FAULT_LATCHED"
    PROVE  st'.current = "FAULT_LATCHED"
              <=> faultRun' = ABS_FAULT_LATCH_THRESHOLD
<1> USE ThresholdAssumption, WidthAssumption, NoEarlyWrap
<1>1. /\ st.fault_count = faultRun /\ faultRun \in Nat
      /\ faultRun < ABS_FAULT_LATCH_THRESHOLD
  BY DEF IInv, CountersAgree, TypeOK
<1>2. Inc32(st.fault_count) = faultRun + 1
  BY <1>1, Inc32Exact
<1>3. CASE faulty
  <2>1. faultRun' = Capped(faultRun + 1, ABS_FAULT_LATCH_THRESHOLD)
    BY <1>3 DEF View
  <2>2. st'.current = "FAULT_LATCHED"
           <=> faultRun + 1 >= ABS_FAULT_LATCH_THRESHOLD
    BY <1>2, <1>3 DEF View
  <2> QED BY <1>1, <2>1, <2>2 DEF Capped
<1>4. CASE ~faulty
  BY <1>4 DEF View, FaultStatus
<1> QED BY <1>3, <1>4

LEMMA LatchStep ==
    IInv /\ [Next]_vars =>
       /\ [st.current = "FAULT_LATCHED" => st'.current = "FAULT_LATCHED"]_vars
       /\ [st.current # "FAULT_LATCHED" /\ st'.current = "FAULT_LATCHED"
             => faultRun' = ABS_FAULT_LATCH_THRESHOLD]_vars
<1> SUFFICES ASSUME IInv, [Next]_vars
    PROVE  /\ [st.current = "FAULT_LATCHED" => st'.current = "FAULT_LATCHED"]_vars
           /\ [st.current # "FAULT_LATCHED" /\ st'.current = "FAULT_LATCHED"
                 => faultRun' = ABS_FAULT_LATCH_THRESHOLD]_vars
  OBVIOUS
<1>1. CASE Cycle
  <2>1. PICK missed \in BOOLEAN, faulty \in BOOLEAN : View(missed, faulty)
    BY <1>1, CycleView DEF IInv
  <2>2. st.current = "FAULT_LATCHED" => st'.current = "FAULT_LATCHED"
    BY <2>1 DEF View
  <2> QED BY <2>1, <2>2, LatchExact
<1>2. CASE LeaveLoop
  BY <1>2 DEF LeaveLoop
<1>3. CASE Terminated \/ UNCHANGED vars
  BY <1>3 DEF Terminated, vars
<1> QED BY <1>1, <1>2, <1>3 DEF Next

(* FAULT_LATCHED is never left, also when fault_count wraps. *)
THEOREM LatchIsFinal == Spec => LatchedForever
<1>1. IInv /\ [Next]_vars =>
        [st.current = "FAULT_LATCHED" => st'.current = "FAULT_LATCHED"]_vars
  BY LatchStep
<1> QED BY <1>1, Invariance, PTL DEF Spec, LatchedForever

(* FAULT_LATCHED is entered only at the end of a full run of faulty        *)
(* cycles: no intermittent fault latches early.                            *)
THEOREM LatchIsEarned == Spec => LatchNeedsRun
<1>1. IInv /\ [Next]_vars =>
        [st.current # "FAULT_LATCHED" /\ st'.current = "FAULT_LATCHED"
          => faultRun' = ABS_FAULT_LATCH_THRESHOLD]_vars
  BY LatchStep
<1> QED BY <1>1, Invariance, PTL DEF Spec, LatchNeedsRun

-----------------------------------------------------------------------------
(* The control flow alone, for a loop that is fed from a wire. *)

(* An inductive invariant of the cycles for frames of any content. *)
CInv == ControlOK /\ CountersAgree /\ SentAgrees

LEMMA CInvInit == Init => CInv
  BY IInvInit, TypeGivesControl DEF IInv, CInv

LEMMA CInvView ==
    ASSUME CInv, ControlOK', NEW missed \in BOOLEAN, NEW faulty \in BOOLEAN,
           View(missed, faulty)
    PROVE  CInv'
<1>1. CountersAgree'
  BY CountersStep DEF CInv
<1>2. SentAgrees'
  BY DEF View, SentAgrees
<1> QED BY <1>1, <1>2 DEF CInv

LEMMA FreshControl ==
    ASSUME CInv, NEW f, f.valid, "valid" \in DOMAIN f, NEW crc,
           NEW wrote \in BOOLEAN, CycleFresh(f, crc, wrote)
    PROVE  CInv'
<1>1. ControlOK' /\ \E faulty \in BOOLEAN : View(FALSE, faulty)
  BY FreshView DEF CInv
<1> QED BY <1>1, CInvView

LEMMA MissedControl ==
    ASSUME CInv, NEW crc, NEW wrote \in BOOLEAN, CycleMissed(crc, wrote)
    PROVE  CInv'
<1>1. ControlOK' /\ \E faulty \in BOOLEAN : View(TRUE, faulty)
  BY MissedView DEF CInv
<1> QED BY <1>1, CInvView

LEMMA LeaveControl == CInv /\ (LeaveLoop \/ UNCHANGED vars) => CInv'
<1>1. CASE LeaveLoop
  BY <1>1 DEF CInv, LeaveLoop, ControlOK, CountersAgree, SentAgrees
<1>2. CASE UNCHANGED vars
  BY <1>2 DEF CInv, vars, ControlOK, CountersAgree, SentAgrees
<1> QED BY <1>1, <1>2

-----------------------------------------------------------------------------
(* The replay of a sample. *)

(* What diagnostic_check makes of a sample: the content counters and the   *)
(* DTC bits, with the CRC window out of the way.                           *)
LEMMA DiagnosticOutcome ==
    ASSUME NEW d \in DiagnosticCtx, NEW s, NEW csv, NEW total,
           NEW r, r = DiagnosticCheck(d, s, csv, total)
    PROVE  /\ s.valid /\ ~OutOfRange(s.v_vehicle, s.omega_wheel) =>
                 /\ r.dg.last_omega = s.omega_wheel
                 /\ r.dg.stuck_count = StuckCount(d, s.omega_wheel, s.v_vehicle)
                 /\ r.dg.plausibility_count =
                       PlausibilityCount(d, s.v_vehicle, s.omega_wheel)
                 /\ r.dtc = CommDtc(d, csv) \cup ContentDtc(d, s)
           /\ ~s.valid \/ OutOfRange(s.v_vehicle, s.omega_wheel) =>
                 /\ r.dg.last_omega = d.last_omega
                 /\ r.dg.stuck_count = d.stuck_count
                 /\ r.dg.plausibility_count = d.plausibility_count
                 /\ "STUCK" \notin r.dtc
           /\ s.valid /\ OutOfRange(s.v_vehicle, s.omega_wheel) =>
                 "RANGE" \in r.dtc
<1> DEFINE w == CrcWindow(d, total)
<1>1. /\ w.last_omega = d.last_omega
      /\ w.stuck_count = d.stuck_count
      /\ w.plausibility_count = d.plausibility_count
      /\ DOMAIN w = DOMAIN d
  BY DEF CrcWindow, DiagnosticCtx
<1>2. {"last_omega", "stuck_count", "plausibility_count"} \subseteq DOMAIN w
  BY <1>1 DEF DiagnosticCtx
<1> HIDE DEF w
<1>3. r = IF ~s.valid THEN [dg |-> w, dtc |-> CommDtc(d, csv)]
          ELSE IF OutOfRange(s.v_vehicle, s.omega_wheel)
          THEN [dg |-> w, dtc |-> CommDtc(d, csv) \cup {"RANGE"}]
          ELSE [dg |-> ContentChecked(w, s),
                dtc |-> CommDtc(d, csv) \cup ContentDtc(w, s)]
  BY DEF DiagnosticCheck, w
<1>4. /\ StuckCount(w, s.omega_wheel, s.v_vehicle)
            = StuckCount(d, s.omega_wheel, s.v_vehicle)
      /\ PlausibilityCount(w, s.v_vehicle, s.omega_wheel)
            = PlausibilityCount(d, s.v_vehicle, s.omega_wheel)
  BY <1>1 DEF StuckCount, PlausibilityCount
<1>5. ContentDtc(w, s) = ContentDtc(d, s)
  BY <1>4 DEF ContentDtc
<1>6. /\ ContentChecked(w, s).last_omega = s.omega_wheel
      /\ ContentChecked(w, s).stuck_count
            = StuckCount(w, s.omega_wheel, s.v_vehicle)
      /\ ContentChecked(w, s).plausibility_count
            = PlausibilityCount(w, s.v_vehicle, s.omega_wheel)
  BY <1>2 DEF ContentChecked
<1>7. "STUCK" \notin CommDtc(d, csv)
  BY DEF CommDtc
<1> QED BY <1>1, <1>3, <1>4, <1>5, <1>6, <1>7

(* The counters of the content checks, up to the latch. *)
CountsBounded ==
    st.current # "FAULT_LATCHED" =>
        /\ dg.stuck_count < DIAG_STUCK_THRESHOLD_CYCLES + faultRun
        /\ dg.plausibility_count < DIAG_PLAUSIBILITY_CYCLES + faultRun

PlausibleSample(s) ==
    ~(/\ s.v_vehicle # NaN /\ ~FLt(s.v_vehicle, PLAUSIBILITY_V_MIN)
      /\ FGt(RimSpeed(s.omega_wheel), s.v_vehicle + DIAG_PLAUSIBILITY_EPSILON))

(* The content of the last good sample keeps a replay in a fault: it is    *)
(* out of range, or a detector that it has tripped stays tripped.          *)
ContentFault ==
    \/ OutOfRange(last_good.v_vehicle, last_good.omega_wheel)
    \/ /\ dg.stuck_count >= DIAG_STUCK_THRESHOLD_CYCLES
       /\ last_good.omega_wheel # NaN
       /\ last_good.omega_wheel = dg.last_omega
       /\ FGt(last_good.v_vehicle, DIAG_STUCK_V_MIN)
    \/ /\ dg.plausibility_count >= DIAG_PLAUSIBILITY_CYCLES
       /\ ~PlausibleSample(last_good)

(* Its speed and slip call for a release. *)
CallsForRelease ==
    /\ ~VehicleStopped(last_good)
    /\ SlipAbove(SlipProtected(last_good.v_vehicle, last_good.omega_wheel),
                 ABS_SLIP_UPPER)

(* The last good sample will be judged again by a missed cycle. *)
Replayable ==
    /\ running /\ last_good.valid
    /\ cycles_since_valid <= WATCHDOG_TIMEOUT_CYCLES
    /\ st.current # "FAULT_LATCHED"

(* Why a replay of the last good sample is judged as the sample was: the   *)
(* state it left, the command it gave and the detectors it tripped.        *)
ReplayReady ==
    Replayable =>
        /\ st.current # "INIT"
        /\ st.current = "STANDBY" =>
              VehicleStopped(last_good) \/ ~DriverBraking(last_good)
        /\ st.current \in {"MONITOR", "ACTIVE"} /\ CallsForRelease
              => cc.previous_command = 0
        /\ st.current = "FAULT_DEGRADED" =>
              "COMM_CRC" \in out.dtc_code \/ ContentFault

LEMMA CountsInit == Init => CountsBounded
  BY ThresholdAssumption DEF Init, CountsBounded, DiagnosticInit

(* A count that grows past its threshold makes the cycle faulty. *)
LEMMA CountsStep ==
    ASSUME IInv, IInv', CountsBounded, Cycle
    PROVE  CountsBounded'
<1> DEFINE s    == ForState(cur', last_good', cycles_since_valid')
           diag == DiagnosticCheck(dg, s, cycles_since_valid', errors_crc')
<1> SUFFICES ASSUME st'.current # "FAULT_LATCHED"
             PROVE  /\ dg'.stuck_count
                          < DIAG_STUCK_THRESHOLD_CYCLES + faultRun'
                    /\ dg'.plausibility_count
                          < DIAG_PLAUSIBILITY_CYCLES + faultRun'
  BY DEF CountsBounded
<1>1. PICK wrote \in BOOLEAN : Process(wrote)
  BY DEF Cycle, CycleFresh, CycleMissed
<1>2. PICK missed \in BOOLEAN, faulty \in BOOLEAN : View(missed, faulty)
  BY CycleView DEF IInv
<1>3. st.current # "FAULT_LATCHED"
  BY <1>2 DEF View
<1>4. dg' = diag.dg
  BY <1>1 DEF Process
<1>5. faultRun' = IF SeenFaulty(diag.dtc, last_good') THEN faultRun + 1 ELSE 0
  <2>1. faultRun' = IF SeenFaulty(diag.dtc, last_good')
                    THEN Capped(faultRun + 1, ABS_FAULT_LATCH_THRESHOLD)
                    ELSE 0
    BY <1>1 DEF Process
  <2>2. faultRun' < ABS_FAULT_LATCH_THRESHOLD
    BY DEF IInv, CountersAgree
  <2> HIDE DEF diag
  <2> QED BY <2>1, <2>2, ThresholdAssumption DEF Capped, IInv, TypeOK
<1>6. /\ dg.stuck_count \in Nat /\ dg.plausibility_count \in Nat
      /\ faultRun \in Nat /\ faultRun < ABS_FAULT_LATCH_THRESHOLD
      /\ dg.stuck_count < DIAG_STUCK_THRESHOLD_CYCLES + faultRun
      /\ dg.plausibility_count < DIAG_PLAUSIBILITY_CYCLES + faultRun
      /\ dg \in DiagnosticCtx
  BY <1>3, WidthAssumption
  DEF IInv, TypeOK, CountersAgree, CountsBounded, DiagnosticCtx, Uint32
<1>7. /\ Inc32(dg.stuck_count) = dg.stuck_count + 1
      /\ Inc32(dg.plausibility_count) = dg.plausibility_count + 1
  BY <1>6, Inc32Exact, NoContentWrap, ThresholdAssumption, WidthAssumption
<1>8. CASE s.valid /\ ~OutOfRange(s.v_vehicle, s.omega_wheel)
  <2> DEFINE a == StuckCount(dg, s.omega_wheel, s.v_vehicle)
             b == PlausibilityCount(dg, s.v_vehicle, s.omega_wheel)
  <2>1. /\ dg'.stuck_count = a /\ dg'.plausibility_count = b
        /\ diag.dtc = CommDtc(dg, cycles_since_valid') \cup ContentDtc(dg, s)
    <3> HIDE DEF s
    <3> QED BY <1>4, <1>6, <1>8, DiagnosticOutcome
  <2>2. a \in {0, dg.stuck_count + 1} /\ b \in {0, dg.plausibility_count + 1}
    <3> HIDE DEF s
    <3> QED BY <1>7 DEF StuckCount, PlausibilityCount
  <2>3. a >= DIAG_STUCK_THRESHOLD_CYCLES
          \/ b >= DIAG_PLAUSIBILITY_CYCLES => diag.dtc # {}
    <3> HIDE DEF diag, s
    <3> QED BY <2>1 DEF ContentDtc
  <2> HIDE DEF a, b, s, diag
  <2> QED BY <1>5, <1>6, <2>1, <2>2, <2>3, ThresholdAssumption DEF SeenFaulty
<1>9. CASE ~(s.valid /\ ~OutOfRange(s.v_vehicle, s.omega_wheel))
  <2>1. /\ dg'.stuck_count = dg.stuck_count
        /\ dg'.plausibility_count = dg.plausibility_count
        /\ s.valid => diag.dtc # {}
    <3> HIDE DEF s
    <3> QED BY <1>4, <1>6, <1>9, DiagnosticOutcome
  <2>2. ~s.valid => SeenFaulty(diag.dtc, last_good')
    <3>1. ASSUME last_good'.valid, ~s.valid PROVE diag.dtc # {}
      <4>1. ~(cycles_since_valid' <= WATCHDOG_TIMEOUT_CYCLES)
        <5>1. ~cur'.valid /\ s # last_good'
          BY <3>1, ForStateChoice
        <5>2. cycles_since_valid' \in Uint32
          BY DEF IInv, TypeOK
        <5> QED BY <5>1, <5>2, ReplayWithinWatchdog
      <4>2. cycles_since_valid' > WATCHDOG_TIMEOUT_CYCLES
        BY <4>1, ThresholdAssumption, WidthAssumption DEF IInv, TypeOK, Uint32
      <4> QED BY <4>2, SilenceHasDtc
    <3> QED BY <3>1 DEF SeenFaulty
  <2> HIDE DEF s, diag
  <2>3. SeenFaulty(diag.dtc, last_good')
    BY <2>1, <2>2 DEF SeenFaulty
  <2> QED BY <1>5, <1>6, <2>1, <2>3, ThresholdAssumption
<1> QED BY <1>8, <1>9

LEMMA ReadyStep ==
    ASSUME IInv, IInv', Cycle
    PROVE  ReplayReady'
<1> SUFFICES ASSUME running', last_good'.valid,
                    cycles_since_valid' <= WATCHDOG_TIMEOUT_CYCLES,
                    st'.current # "FAULT_LATCHED"
             PROVE  ReplayReady'
  BY DEF ReplayReady, Replayable
<1> DEFINE s    == last_good'
           diag == DiagnosticCheck(dg, s, cycles_since_valid', errors_crc')
           slip == SlipProtected(s.v_vehicle, s.omega_wheel)
<1>1. PICK wrote \in BOOLEAN : Process(wrote)
  BY DEF Cycle, CycleFresh, CycleMissed
<1>2. ForState(cur', last_good', cycles_since_valid') = s
  <2>1. cur'.valid => last_good' = cur'
    BY FramesAssumption DEF Cycle, CycleFresh, CycleMissed, IInv, TypeOK, SensorsData
  <2>2. cycles_since_valid' \in Uint32
    BY DEF IInv, TypeOK
  <2> QED BY <2>1, <2>2, ForStateChoice, ReplayWithinWatchdog
<1>3. /\ dg' = diag.dg
      /\ st' = AbsStateUpdate(st, s, slip, diag.dtc)
      /\ cc' = [previous_command |->
                   AbsControllerCompute(cc, st'.current, s, slip, DRIVER)]
      /\ out'.dtc_code = diag.dtc
  BY <1>1, <1>2 DEF Process
<1>4. st \in AbsStateCtx /\ dg \in DiagnosticCtx /\ s \in SensorsData
  BY DEF IInv, TypeOK
<1> HIDE DEF s, slip, diag
<1>5. ~Faulty(s, diag.dtc) =>
         /\ st'.current = HealthyTarget(st.current, s, slip)
         /\ st'.current \notin FaultStatus
  BY <1>3, <1>4, UpdateOutcome DEF AbsStateUpdate, Enter
<1>6. Faulty(s, diag.dtc) => st'.current \in FaultStatus
  BY <1>3, <1>4, UpdateOutcome
<1>7. st'.current # "INIT"
  BY <1>4, <1>5, <1>6 DEF HealthyTarget, FaultStatus, AbsStateCtx, EcuStatus
<1>8. st'.current = "STANDBY" => VehicleStopped(s) \/ ~DriverBraking(s)
  BY <1>4, <1>5, <1>6 DEF HealthyTarget, FaultStatus, AbsStateCtx, EcuStatus
<1>9. /\ st'.current \in {"MONITOR", "ACTIVE"}
      /\ ~VehicleStopped(s)
      /\ SlipAbove(slip, ABS_SLIP_UPPER)
      => cc'.previous_command = 0
  BY <1>3 DEF AbsControllerCompute, PassThrough, BangBang, VehicleStopped,
              FaultStatus
<1>10. ASSUME st'.current = "FAULT_DEGRADED"
       PROVE  \/ "COMM_CRC" \in out'.dtc_code
              \/ OutOfRange(s.v_vehicle, s.omega_wheel)
              \/ /\ dg'.stuck_count >= DIAG_STUCK_THRESHOLD_CYCLES
                 /\ s.omega_wheel # NaN
                 /\ s.omega_wheel = dg'.last_omega
                 /\ FGt(s.v_vehicle, DIAG_STUCK_V_MIN)
              \/ /\ dg'.plausibility_count >= DIAG_PLAUSIBILITY_CYCLES
                 /\ ~PlausibleSample(s)
  <2> SUFFICES ASSUME "COMM_CRC" \notin out'.dtc_code,
                      ~OutOfRange(s.v_vehicle, s.omega_wheel)
               PROVE  \/ /\ dg'.stuck_count >= DIAG_STUCK_THRESHOLD_CYCLES
                         /\ s.omega_wheel # NaN
                         /\ s.omega_wheel = dg'.last_omega
                         /\ FGt(s.v_vehicle, DIAG_STUCK_V_MIN)
                      \/ /\ dg'.plausibility_count >= DIAG_PLAUSIBILITY_CYCLES
                         /\ ~PlausibleSample(s)
    OBVIOUS
  <2>1. Faulty(s, diag.dtc)
    BY <1>5, <1>10 DEF FaultStatus
  <2>2. s.valid
    BY DEF s
  <2>3. SensorsUsable(s)
    BY <2>2 DEF SensorsUsable, OutOfRange
  <2>4. diag.dtc # {}
    BY <2>1, <2>3 DEF Faulty
  <2>5. /\ dg'.last_omega = s.omega_wheel
        /\ dg'.stuck_count = StuckCount(dg, s.omega_wheel, s.v_vehicle)
        /\ dg'.plausibility_count =
              PlausibilityCount(dg, s.v_vehicle, s.omega_wheel)
        /\ diag.dtc = CommDtc(dg, cycles_since_valid') \cup ContentDtc(dg, s)
    BY <1>3, <1>4, <2>2, DiagnosticOutcome DEF diag
  <2>6. ~(cycles_since_valid' > WATCHDOG_TIMEOUT_CYCLES)
    BY ThresholdAssumption, WidthAssumption DEF IInv, TypeOK, Uint32
  <2>7. CommDtc(dg, cycles_since_valid') = {}
    BY <1>3, <2>5, <2>6 DEF CommDtc
  <2>8. \/ StuckCount(dg, s.omega_wheel, s.v_vehicle)
              >= DIAG_STUCK_THRESHOLD_CYCLES
        \/ PlausibilityCount(dg, s.v_vehicle, s.omega_wheel)
              >= DIAG_PLAUSIBILITY_CYCLES
    BY <2>4, <2>5, <2>7 DEF ContentDtc
  <2>9. StuckCount(dg, s.omega_wheel, s.v_vehicle)
              >= DIAG_STUCK_THRESHOLD_CYCLES
        => s.omega_wheel # NaN /\ FGt(s.v_vehicle, DIAG_STUCK_V_MIN)
    BY ThresholdAssumption DEF StuckCount
  <2>10. PlausibilityCount(dg, s.v_vehicle, s.omega_wheel)
              >= DIAG_PLAUSIBILITY_CYCLES => ~PlausibleSample(s)
    BY ThresholdAssumption DEF PlausibilityCount, PlausibleSample
  <2> QED BY <2>5, <2>8, <2>9, <2>10
<1> USE DEF s, slip
<1> QED BY <1>7, <1>8, <1>9, <1>10 DEF ReplayReady, ContentFault, CallsForRelease

(* A missed cycle replays the verdict with the sample. *)
LEMMA ReplayStep ==
    ASSUME IInv, CountsBounded, ReplayReady,
           NEW crc \in 0 .. MAX_CRC, NEW wrote \in BOOLEAN,
           CycleMissed(crc, wrote),
           cc.previous_command # 0, cc'.previous_command = 0
    PROVE  /\ "COMM_CRC" \in out.dtc_code
           /\ Replayable /\ CallsForRelease /\ ~ContentFault
<1> DEFINE s    == ForState(cur', last_good', cycles_since_valid')
           diag == DiagnosticCheck(dg, s, cycles_since_valid', errors_crc')
           slip == SlipProtected(s.v_vehicle, s.omega_wheel)
<1>1. /\ dg' = diag.dg
      /\ st' = AbsStateUpdate(st, s, slip, diag.dtc)
      /\ cc' = [previous_command |->
                   AbsControllerCompute(cc, st'.current, s, slip, DRIVER)]
      /\ cycles_since_valid' = Inc32(cycles_since_valid)
      /\ last_good' = last_good
      /\ running
  BY DEF CycleMissed, Process
<1>2. ~cur'.valid
  BY DEF CycleMissed, IInv, TypeOK, SensorsData
<1>3. st \in AbsStateCtx /\ dg \in DiagnosticCtx /\ cc \in [previous_command : {0, DRIVER}]
  BY DEF IInv, TypeOK
<1>4. s \in {cur', last_good}
  BY <1>1, ForStateChoice
<1> HIDE DEF s, slip, diag
<1>5. /\ ~PassThrough(st'.current, s)
      /\ SlipAbove(slip, ABS_SLIP_UPPER)
  BY <1>1, <1>3 DEF AbsControllerCompute, BangBang
<1>6. ~Faulty(s, diag.dtc)
  BY <1>1, <1>3, <1>5, UpdateOutcome DEF PassThrough
<1>7. st.current # "FAULT_LATCHED"
  BY <1>1, <1>3, <1>5, UpdateOutcome DEF PassThrough, FaultStatus
<1>8. st'.current = HealthyTarget(st.current, s, slip)
  BY <1>1, <1>6, <1>7 DEF AbsStateUpdate, Enter
<1>9. s = last_good /\ s.valid /\ diag.dtc = {}
  BY <1>2, <1>4, <1>6 DEF Faulty, SensorsUsable
<1>10. cycles_since_valid < WATCHDOG_TIMEOUT_CYCLES
  <2>1. /\ cycles_since_valid \in Nat /\ age \in Nat
        /\ faultRun \in Nat
        /\ faultRun < ABS_FAULT_LATCH_THRESHOLD
    BY <1>7, WidthAssumption DEF IInv, TypeOK, CountersAgree, Uint32
  <2>2. cycles_since_valid + 1 < U32
    BY <1>7, <2>1, NoEarlyWrap, ThresholdAssumption, WidthAssumption
    DEF IInv, CountersAgree
  <2>3. cycles_since_valid' = cycles_since_valid + 1
    BY <1>1, <2>1, <2>2, Inc32Exact
  <2>4. ~(cycles_since_valid' > WATCHDOG_TIMEOUT_CYCLES)
    BY <1>9, SilenceHasDtc DEF diag
  <2> QED BY <2>1, <2>3, <2>4, ThresholdAssumption
<1>11. cycles_since_valid <= WATCHDOG_TIMEOUT_CYCLES
  BY <1>10, ThresholdAssumption, WidthAssumption DEF IInv, TypeOK, Uint32
<1>12. ~VehicleStopped(s) /\ st'.current \notin {"INIT", "STANDBY"}
  BY <1>5 DEF PassThrough, VehicleStopped
<1>13. slip = SlipProtected(last_good.v_vehicle, last_good.omega_wheel)
  BY <1>9 DEF slip
<1>14. Replayable /\ CallsForRelease
  BY <1>1, <1>5, <1>7, <1>9, <1>11, <1>12, <1>13 DEF Replayable, CallsForRelease
<1>15. st.current = "FAULT_DEGRADED"
  <2>1. st.current # "STANDBY"
    BY <1>8, <1>9, <1>12, <1>14 DEF ReplayReady, HealthyTarget
  <2>2. st.current \notin {"INIT", "MONITOR", "ACTIVE"}
    BY <1>14 DEF ReplayReady
  <2> QED BY <1>3, <1>7, <2>1, <2>2 DEF AbsStateCtx, EcuStatus
<1>16. ~OutOfRange(s.v_vehicle, s.omega_wheel)
  BY <1>3, <1>9, DiagnosticOutcome DEF diag
<1>17. ContentDtc(dg, s) = {}
  BY <1>3, <1>9, <1>16, DiagnosticOutcome DEF diag
<1>18. /\ Inc32(dg.stuck_count) = dg.stuck_count + 1
       /\ Inc32(dg.plausibility_count) = dg.plausibility_count + 1
       /\ dg.stuck_count \in Nat /\ dg.plausibility_count \in Nat
  <2>1. /\ dg.stuck_count \in Nat /\ dg.plausibility_count \in Nat
        /\ faultRun \in Nat /\ faultRun < ABS_FAULT_LATCH_THRESHOLD
        /\ dg.stuck_count < DIAG_STUCK_THRESHOLD_CYCLES + faultRun
        /\ dg.plausibility_count < DIAG_PLAUSIBILITY_CYCLES + faultRun
    BY <1>7, WidthAssumption
    DEF IInv, TypeOK, CountersAgree, CountsBounded, DiagnosticCtx, Uint32
  <2> QED BY <2>1, Inc32Exact, NoContentWrap, ThresholdAssumption, WidthAssumption
<1>19. ~(/\ dg.stuck_count >= DIAG_STUCK_THRESHOLD_CYCLES
         /\ s.omega_wheel # NaN
         /\ s.omega_wheel = dg.last_omega
         /\ FGt(s.v_vehicle, DIAG_STUCK_V_MIN))
  BY <1>17, <1>18, ThresholdAssumption DEF ContentDtc, StuckCount
<1>20. ~(/\ dg.plausibility_count >= DIAG_PLAUSIBILITY_CYCLES
         /\ ~PlausibleSample(s))
  BY <1>17, <1>18, ThresholdAssumption
  DEF ContentDtc, PlausibilityCount, PlausibleSample
<1>21. ~ContentFault
  BY <1>9, <1>16, <1>19, <1>20 DEF ContentFault
<1> QED BY <1>15, <1>14, <1>21 DEF ReplayReady

(* The inductive invariant behind the replay property. *)
RInv == IInv /\ CountsBounded /\ ReplayReady

LEMMA RInvStep == RInv /\ [Next]_vars => RInv'
<1> SUFFICES ASSUME RInv, [Next]_vars PROVE RInv'
  OBVIOUS
<1>1. IInv'
  BY IInvStep DEF RInv
<1>2. CASE Cycle
  BY <1>1, <1>2, CountsStep, ReadyStep DEF RInv
<1>3. CASE LeaveLoop
  BY <1>1, <1>3 DEF LeaveLoop, RInv, CountsBounded, ReplayReady, Replayable
<1>4. CASE Terminated \/ UNCHANGED vars
  BY <1>1, <1>4 DEF Terminated, vars, RInv, CountsBounded, ReplayReady,
                   Replayable, CallsForRelease, ContentFault
<1> QED BY <1>2, <1>3, <1>4 DEF Next

LEMMA ReplayInit == Init => RInv
<1>1. Init => ReplayReady
  BY DEF Init, ReplayReady, Replayable, ZeroSample
<1> QED BY <1>1, IInvInit, CountsInit DEF RInv

-----------------------------------------------------------------------------
(* The loop implements the fail-operational promise. *)

LEMMA PromiseInit == Init => FO!Init
  BY DEF Init, FO!Init, Mode, AbsStateInit, AbsControllerInit

(* Past the watchdog a cycle is faulty until the latch. *)
LEMMA SilenceIsFaulty ==
    ASSUME IInv, NEW missed \in BOOLEAN, NEW faulty \in BOOLEAN,
           View(missed, faulty), st.current # "FAULT_LATCHED",
           age' > WATCHDOG_TIMEOUT_CYCLES
    PROVE  faulty
<1> USE ThresholdAssumption, WidthAssumption, NoEarlyWrap
<1>1. /\ age \in Nat /\ age <= WATCHDOG_TIMEOUT_CYCLES + 1
      /\ faultRun \in Nat /\ cycles_since_valid \in Nat
  BY DEF IInv, TypeOK, Uint32
<1>2. missed /\ age >= WATCHDOG_TIMEOUT_CYCLES
  BY <1>1 DEF View, Capped
<1>3. /\ faultRun < ABS_FAULT_LATCH_THRESHOLD
      /\ cycles_since_valid >= WATCHDOG_TIMEOUT_CYCLES
      /\ cycles_since_valid - WATCHDOG_TIMEOUT_CYCLES <= faultRun
  BY <1>1, <1>2 DEF IInv, CountersAgree
<1>4. Inc32(cycles_since_valid) = cycles_since_valid + 1
  BY <1>1, <1>3, Inc32Exact
<1> QED BY <1>1, <1>2, <1>3, <1>4 DEF View

LEMMA PromiseCycle ==
    ASSUME IInv, NEW missed \in BOOLEAN, NEW faulty \in BOOLEAN,
           View(missed, faulty)
    PROVE  FO!Cycle(missed, faulty)
<1> USE ThresholdAssumption
<1>1. age' = IF missed THEN FO!UpTo(age + 1, WATCHDOG_TIMEOUT_CYCLES + 1)
             ELSE 0
  BY DEF View, Capped, FO!UpTo
<1>2. faultRun' = IF faulty THEN FO!UpTo(faultRun + 1, ABS_FAULT_LATCH_THRESHOLD)
                  ELSE 0
  BY DEF View, Capped, FO!UpTo
<1>3. age' > WATCHDOG_TIMEOUT_CYCLES => faulty \/ Mode = "latched"
  BY SilenceIsFaulty DEF Mode
<1>4. Mode' = IF Mode = "latched" \/ faultRun' = ABS_FAULT_LATCH_THRESHOLD
              THEN "latched"
              ELSE IF faulty THEN "degraded" ELSE "normal"
  <2>1. CASE st.current = "FAULT_LATCHED"
    BY <2>1 DEF View, Mode
  <2>2. CASE st.current # "FAULT_LATCHED"
    <3>1. Mode # "latched"
      BY <2>2 DEF Mode
    <3>2. st'.current = "FAULT_LATCHED"
             <=> faultRun' = ABS_FAULT_LATCH_THRESHOLD
      BY <2>2, LatchExact
    <3>3. faulty => st'.current \in FaultStatus
      BY DEF View
    <3>4. ~faulty => st'.current \notin FaultStatus
      BY <2>2 DEF View
    <3> QED BY <3>1, <3>2, <3>3, <3>4 DEF Mode, FaultStatus
  <2> QED BY <2>1, <2>2
<1>5. cc'.previous_command \in IF Mode' = "normal" THEN {0, DRIVER}
                               ELSE {DRIVER}
  <2>1. Mode' # "normal" => st'.current \in FaultStatus
    BY DEF Mode, FaultStatus
  <2> QED BY <2>1 DEF View
<1> QED BY <1>1, <1>2, <1>3, <1>4, <1>5 DEF FO!Cycle

LEMMA PromiseStep == IInv /\ [Next]_vars => [FO!Next]_(FO!promise)
<1> SUFFICES ASSUME IInv, [Next]_vars PROVE [FO!Next]_(FO!promise)
  OBVIOUS
<1>1. CASE Cycle
  <2>1. PICK missed \in BOOLEAN, faulty \in BOOLEAN : View(missed, faulty)
    BY <1>1, CycleView DEF IInv
  <2>2. FO!Cycle(missed, faulty)
    BY <2>1, PromiseCycle
  <2> QED BY <2>2 DEF FO!Next
<1>2. CASE LeaveLoop
  BY <1>2 DEF LeaveLoop, FO!promise, Mode
<1>3. CASE Terminated \/ UNCHANGED vars
  BY <1>3 DEF Terminated, vars, FO!promise, Mode
<1> QED BY <1>1, <1>2, <1>3 DEF Next

(* The super-loop, with its detectors, replays and wrapping counters,      *)
(* implements the abstract fail-operational brake.                         *)
THEOREM LoopKeepsPromise == Spec => FailOperationalSpec
  BY Invariance, PromiseInit, PromiseStep, PTL
  DEF Spec, FailOperationalSpec, FO!Spec

-----------------------------------------------------------------------------
(* Whole runs.  The history only observes, so the invariants above carry   *)
(* over; the sample of a cycle is the central fact.                        *)

(* The history variables observe the loop and never steer it. *)
LEMMA HistoryObserves == [HNext]_hvars => [Next]_vars
<1>1. HNext => Next
  BY DEF HNext, HCycle, HStop, Next
<1>2. UNCHANGED hvars => UNCHANGED vars
  BY DEF hvars
<1> QED BY <1>1, <1>2

LEMMA HInvariance == HSpec => []IInv
<1>1. HInit => IInv
  BY IInvInit DEF HInit
<1>2. IInv /\ [HNext]_hvars => IInv'
  BY HistoryObserves, IInvStep
<1> QED BY <1>1, <1>2, PTL DEF HSpec

(* A cycle, in terms of the sample it used. *)
LEMMA CycleSample ==
    ASSUME IInv, Cycle
    PROVE  /\ st' = AbsStateUpdate(st, Sample, SampleSlip,
                   DiagnosticCheck(dg, Sample, cycles_since_valid',
                                   errors_crc').dtc)
           /\ dg' = DiagnosticCheck(dg, Sample, cycles_since_valid',
                                    errors_crc').dg
           /\ cc' = [previous_command |->
                        AbsControllerCompute(cc, st'.current, Sample,
                                             SampleSlip, DRIVER)]
           /\ running' => /\ out'.ecu_status = st'.current
                          /\ out'.brake_command = cc'.previous_command
                          /\ out'.dtc_code =
                                DiagnosticCheck(dg, Sample, cycles_since_valid',
                                                errors_crc').dtc
           /\ Sample \in {cur', last_good'}
           /\ cur'.valid => cur' = last_good' /\ age' = 0
           /\ ~cur'.valid =>
                 /\ last_good' = last_good
                 /\ age' = Capped(age + 1, WATCHDOG_TIMEOUT_CYCLES + 1)
           /\ cycles_since_valid' <= WATCHDOG_TIMEOUT_CYCLES
                 => Sample = last_good'
<1>1. PICK wrote \in BOOLEAN : Process(wrote)
  BY DEF Cycle, CycleFresh, CycleMissed
<1>2. /\ cur'.valid => cur' = last_good' /\ age' = 0
      /\ ~cur'.valid =>
            /\ last_good' = last_good
            /\ age' = Capped(age + 1, WATCHDOG_TIMEOUT_CYCLES + 1)
  BY FramesAssumption
  DEF Cycle, CycleFresh, CycleMissed, IInv, TypeOK, SensorsData
<1>3. Sample \in {cur', last_good'}
  BY ForStateChoice DEF Sample
<1>4. cycles_since_valid' <= WATCHDOG_TIMEOUT_CYCLES => Sample = last_good'
  <2>1. cycles_since_valid' \in Uint32
    BY IInvStep DEF Next, IInv, TypeOK
  <2> QED BY <1>2, <2>1, ForStateChoice, ReplayWithinWatchdog DEF Sample
<1> QED BY <1>1, <1>2, <1>3, <1>4 DEF Process, Sample, SampleSlip

-----------------------------------------------------------------------------
(* How a sample is judged again. *)

(* A sample that was refused is one that a replay cannot release for: it   *)
(* does not call for a release, or its content is a fault.                 *)
RefusedForGood == refused /\ Replayable => ~CallsForRelease \/ ContentFault

(* A sample that a missed cycle leaves replayable was so before. *)
LEMMA ReplayableBefore ==
    ASSUME IInv, Cycle, ~cur'.valid, Replayable'
    PROVE  Replayable /\ last_good' = last_good
<1>1. PICK missed \in BOOLEAN, faulty \in BOOLEAN : View(missed, faulty)
  BY CycleView DEF IInv
<1>2. /\ last_good' = last_good /\ running /\ last_good.valid
      /\ cycles_since_valid' = Inc32(cycles_since_valid)
  BY FramesAssumption DEF Cycle, CycleFresh, CycleMissed, Replayable
<1>3. st.current # "FAULT_LATCHED"
  BY <1>1 DEF View, Replayable
<1>4. /\ faultRun \in Nat /\ faultRun < ABS_FAULT_LATCH_THRESHOLD
      /\ cycles_since_valid \in Nat /\ age \in Nat
  BY <1>3, WidthAssumption DEF IInv, TypeOK, CountersAgree, Uint32
<1>5. cycles_since_valid + 1 < U32
  BY <1>3, <1>4, NoEarlyWrap, ThresholdAssumption, WidthAssumption
  DEF IInv, CountersAgree
<1>6. cycles_since_valid' = cycles_since_valid + 1
  BY <1>2, <1>4, <1>5, Inc32Exact
<1>7. cycles_since_valid <= WATCHDOG_TIMEOUT_CYCLES
  BY <1>4, <1>6, ThresholdAssumption DEF Replayable
<1> QED BY <1>2, <1>3, <1>7 DEF Replayable

(* What a missed cycle finds wrong with a sample stays wrong. *)
LEMMA ContentFaultStays ==
    ASSUME IInv, CountsBounded, Cycle, ~cur'.valid, Replayable', ContentFault
    PROVE  ContentFault'
<1>1. Replayable /\ last_good' = last_good
  BY ReplayableBefore
<1>2. /\ dg.stuck_count \in Nat /\ dg.plausibility_count \in Nat
      /\ faultRun \in Nat /\ faultRun < ABS_FAULT_LATCH_THRESHOLD
      /\ dg.stuck_count < DIAG_STUCK_THRESHOLD_CYCLES + faultRun
      /\ dg.plausibility_count < DIAG_PLAUSIBILITY_CYCLES + faultRun
      /\ dg \in DiagnosticCtx
  BY <1>1, WidthAssumption
  DEF Replayable, IInv, TypeOK, CountersAgree, CountsBounded, DiagnosticCtx, Uint32
<1>3. /\ Inc32(dg.stuck_count) = dg.stuck_count + 1
      /\ Inc32(dg.plausibility_count) = dg.plausibility_count + 1
  BY <1>2, Inc32Exact, NoContentWrap, ThresholdAssumption, WidthAssumption
<1> DEFINE s == last_good
           diag == DiagnosticCheck(dg, s, cycles_since_valid', errors_crc')
<1>4. dg' = diag.dg /\ s.valid
  BY <1>1, CycleSample DEF Replayable
<1>5. CASE ~OutOfRange(s.v_vehicle, s.omega_wheel)
  <2>1. /\ dg'.last_omega = s.omega_wheel
        /\ dg'.stuck_count = StuckCount(dg, s.omega_wheel, s.v_vehicle)
        /\ dg'.plausibility_count = PlausibilityCount(dg, s.v_vehicle, s.omega_wheel)
    <3> HIDE DEF s
    <3> QED BY <1>2, <1>4, <1>5, DiagnosticOutcome
  <2>2. CASE /\ dg.stuck_count >= DIAG_STUCK_THRESHOLD_CYCLES
             /\ s.omega_wheel # NaN
             /\ s.omega_wheel = dg.last_omega
             /\ FGt(s.v_vehicle, DIAG_STUCK_V_MIN)
    <3>1. dg'.stuck_count = dg.stuck_count + 1
      BY <1>3, <2>1, <2>2 DEF StuckCount
    <3>2. dg'.stuck_count >= DIAG_STUCK_THRESHOLD_CYCLES
      BY <1>2, <2>2, <3>1, ThresholdAssumption
    <3> QED BY <1>1, <2>1, <2>2, <3>2 DEF ContentFault
  <2>3. CASE /\ dg.plausibility_count >= DIAG_PLAUSIBILITY_CYCLES
             /\ ~PlausibleSample(s)
    <3>1. dg'.plausibility_count = dg.plausibility_count + 1
      BY <1>3, <2>1, <2>3 DEF PlausibilityCount, PlausibleSample
    <3>2. dg'.plausibility_count >= DIAG_PLAUSIBILITY_CYCLES
      BY <1>2, <2>3, <3>1, ThresholdAssumption
    <3> QED BY <1>1, <2>3, <3>2 DEF ContentFault
  <2> QED BY <1>5, <2>2, <2>3 DEF ContentFault
<1>6. CASE OutOfRange(s.v_vehicle, s.omega_wheel)
  BY <1>1, <1>6 DEF ContentFault
<1> QED BY <1>5, <1>6

(* A cycle that refuses its sample has found it so, and a replay finds it  *)
(* as it was.                                                              *)
LEMMA RefusedStep ==
    ASSUME RInv, RInv', RefusedForGood, HCycle
    PROVE  RefusedForGood'
<1> SUFFICES ASSUME refused', Replayable'
             PROVE  (~CallsForRelease \/ ContentFault)'
  BY DEF RefusedForGood
<1>1. Cycle /\ (Refuses \/ (refused /\ ~cur'.valid))
  BY DEF HCycle, Observe
<1>2. CASE Refuses
  <2>1. /\ st'.current \notin {"INIT", "FAULT_LATCHED", "STANDBY"}
        /\ cc'.previous_command # 0 /\ "COMM_CRC" \notin out'.dtc_code
    BY <1>2 DEF Refuses, RInv, ReplayReady, Replayable
  <2>2. st'.current \in {"MONITOR", "ACTIVE", "FAULT_DEGRADED"}
    BY <2>1 DEF RInv, IInv, TypeOK, AbsStateCtx, EcuStatus
  <2> QED BY <2>1, <2>2 DEF RInv, ReplayReady
<1>3. CASE refused /\ ~cur'.valid
  <2>1. last_good' = last_good
    BY <1>1, <1>3, CycleSample DEF RInv
  <2>2. ASSUME ContentFault PROVE ContentFault'
    BY <1>1, <1>3, <2>2, ContentFaultStays DEF RInv
  <2>3. Replayable
    BY <1>1, <1>3, ReplayableBefore DEF RInv
  <2> QED BY <1>3, <2>1, <2>2, <2>3 DEF RefusedForGood, CallsForRelease
<1> QED BY <1>1, <1>2, <1>3

(* A missed cycle takes the brake from the pedal to a release only right   *)
(* after a cycle under the CRC-rate fault, and only for a sample that no   *)
(* cycle since its reception, the fresh one included, has refused: each    *)
(* released, was under the CRC-rate fault too, or passed the pedal in      *)
(* STANDBY.  Proved for every watchdog, of 5 cycles as in the code or not. *)
THEOREM ReplayIsQuiet == HSpec => ReplayNeverReleases
<1> DEFINE HInv == RInv /\ RefusedForGood
           Quiet == [/\ age' > 0
                     /\ cc.previous_command # 0
                     /\ cc'.previous_command = 0
                     => "COMM_CRC" \in out.dtc_code /\ ~refused]_hvars
<1>1. HInit => HInv
  BY ReplayInit DEF HInit, RefusedForGood
<1>2. HInv /\ [HNext]_hvars => HInv'
  <2> SUFFICES ASSUME HInv, [HNext]_hvars PROVE HInv'
    OBVIOUS
  <2>1. RInv'
    BY RInvStep, HistoryObserves
  <2>2. CASE HCycle
    BY <2>1, <2>2, RefusedStep
  <2>3. CASE HStop
    BY <2>1, <2>3 DEF HStop, LeaveLoop, Terminated, vars, RefusedForGood,
                      Replayable, CallsForRelease, ContentFault
  <2>4. CASE UNCHANGED hvars
    BY <2>1, <2>4 DEF hvars, vars, RefusedForGood, Replayable,
                      CallsForRelease, ContentFault
  <2> QED BY <2>2, <2>3, <2>4 DEF HNext
<1>3. HInv /\ [HNext]_hvars => Quiet
  <2> SUFFICES ASSUME HInv, [HNext]_hvars, age' > 0,
                      cc.previous_command # 0, cc'.previous_command = 0
               PROVE  "COMM_CRC" \in out.dtc_code /\ ~refused
    OBVIOUS
  <2>1. CASE Cycle
    <3>1. PICK crc \in 0 .. MAX_CRC, wrote \in BOOLEAN :
             \/ \E f \in Frames : CycleFresh(f, crc, wrote)
             \/ CycleMissed(crc, wrote)
      BY <2>1 DEF Cycle
    <3>2. CycleMissed(crc, wrote)
      BY <3>1 DEF CycleFresh
    <3> QED BY <3>2, ReplayStep DEF RInv, RefusedForGood
  <2>2. CASE LeaveLoop
    BY <2>2 DEF LeaveLoop
  <2>3. CASE Terminated \/ UNCHANGED vars
    BY <2>3 DEF Terminated, vars
  <2> QED BY <2>1, <2>2, <2>3, HistoryObserves DEF Next
<1> QED BY <1>1, <1>2, <1>3, PTL DEF HSpec, ReplayNeverReleases

-----------------------------------------------------------------------------
(* Unphysical samples. *)

LEMMA UnphysicalStep ==
    ASSUME IInv, IInv', Cycle, running', last_good'.valid,
           ~Physical(last_good')
    PROVE  out'.ecu_status \in FaultStatus /\ out'.brake_command = DRIVER
<1> DEFINE dtc == DiagnosticCheck(dg, Sample, cycles_since_valid',
                                  errors_crc').dtc
<1>1. OutOfRange(last_good'.v_vehicle, last_good'.omega_wheel)
  BY NaNAssumption
  DEF OutOfRange, Physical, FLt, FGt, IInv, TypeOK, SensorsData, Float
<1>2. Faulty(Sample, dtc)
  <2>1. CASE Sample = last_good'
    <3>1. "RANGE" \in dtc
      BY <1>1, <2>1, DiagnosticOutcome DEF IInv, TypeOK
    <3> QED BY <3>1 DEF Faulty
  <2>2. CASE Sample # last_good'
    <3>1. ~Sample.valid
      BY <2>2, CycleSample
    <3> QED BY <3>1 DEF Faulty, SensorsUsable
  <2> QED BY <2>1, <2>2
<1> HIDE DEF dtc
<1>3. st' = AbsStateUpdate(st, Sample, SampleSlip, dtc)
  BY CycleSample DEF dtc
<1>4. st'.current \in FaultStatus
  BY <1>2, <1>3, UpdateOutcome DEF IInv, TypeOK
<1>5. cc'.previous_command = DRIVER
  BY <1>4 DEF IInv, SentAgrees
<1> QED BY <1>4, <1>5, CycleSample

(* No unphysical sample, NaN included, moves the brake: while it is the    *)
(* last good one the pedal goes through in a fault state, for every        *)
(* sequence of frames, replays and counter wraps.                          *)
THEOREM UnphysicalIsHarmless == HSpec => []UnphysicalMeansPedal
<1>1. HInit => UnphysicalMeansPedal
  BY DEF HInit, Init, UnphysicalMeansPedal, ZeroSample
<1>2. IInv /\ IInv' /\ UnphysicalMeansPedal /\ [HNext]_hvars
         => UnphysicalMeansPedal'
  <2> SUFFICES ASSUME IInv, IInv', UnphysicalMeansPedal, [HNext]_hvars
               PROVE  UnphysicalMeansPedal'
    OBVIOUS
  <2>1. CASE HCycle
    BY <2>1, UnphysicalStep DEF HCycle, UnphysicalMeansPedal
  <2>2. CASE HStop
    BY <2>2 DEF HStop, LeaveLoop, Terminated, vars, UnphysicalMeansPedal,
                Physical
  <2>3. CASE UNCHANGED hvars
    BY <2>3 DEF hvars, vars, UnphysicalMeansPedal, Physical
  <2> QED BY <2>1, <2>2, <2>3 DEF HNext
<1> QED BY <1>1, <1>2, HInvariance, PTL DEF HSpec

-----------------------------------------------------------------------------
(* The oracle. *)

LEMMA TwinStep ==
    ASSUME IInv, TwinOfOracle, HCycle, aligned'
    PROVE  cc'.previous_command = oracle'
<1> DEFINE dtc == DiagnosticCheck(dg, Sample, cycles_since_valid',
                                  errors_crc').dtc
<1>1. /\ st' = AbsStateUpdate(st, Sample, SampleSlip, dtc)
      /\ cc'.previous_command = AbsControllerCompute(cc, st'.current, Sample,
                                                     SampleSlip, DRIVER)
  BY CycleSample DEF HCycle
<1>2. st \in AbsStateCtx
  BY DEF IInv, TypeOK
<1>3. /\ oracle' = OracleStep(oracle, SampleSlip, Sample.v_vehicle, DRIVER)
      /\ ~Diverges
      /\ aligned \/ Decisive
  BY DEF HCycle, Observe
<1> HIDE DEF dtc
<1>4. st'.current \notin FaultStatus
  BY <1>3 DEF Diverges
<1>5. st'.current # "INIT"
  <2>1. st.current # "FAULT_LATCHED" /\ ~Faulty(Sample, dtc)
    BY <1>1, <1>2, <1>4, UpdateOutcome DEF FaultStatus
  <2>2. st'.current = HealthyTarget(st.current, Sample, SampleSlip)
    BY <1>1, <2>1 DEF AbsStateUpdate, Enter
  <2> QED BY <1>2, <2>2 DEF HealthyTarget, AbsStateCtx, EcuStatus
<1>6. CASE VehicleStopped(Sample)
  BY <1>1, <1>3, <1>6
  DEF AbsControllerCompute, PassThrough, OracleStep, VehicleStopped
<1>7. CASE ~VehicleStopped(Sample)
  <2>1. ~PassThrough(st'.current, Sample)
    BY <1>3, <1>4, <1>5, <1>7 DEF PassThrough, Diverges, VehicleStopped
  <2>2. cc'.previous_command = BangBang(cc, SampleSlip, DRIVER)
    BY <1>1, <2>1 DEF AbsControllerCompute
  <2>3. oracle' = IF SlipAbove(SampleSlip, ABS_SLIP_UPPER) THEN 0
                  ELSE IF SlipBelow(SampleSlip, ABS_SLIP_LOWER) THEN DRIVER
                  ELSE oracle
    BY <1>3, <1>7 DEF OracleStep, VehicleStopped
  <2>4. \/ cc.previous_command = oracle
        \/ SlipAbove(SampleSlip, ABS_SLIP_UPPER)
        \/ SlipBelow(SampleSlip, ABS_SLIP_LOWER)
    BY <1>3, <1>7 DEF Decisive, TwinOfOracle
  <2> QED BY <2>2, <2>3, <2>4 DEF BangBang
<1> QED BY <1>6, <1>7

(* The C controller is the twin of the Python oracle: on the same samples  *)
(* both give the same command until the ECU passes the pedal through for a *)
(* reason of its own, and again from the next decisive sample on.          *)
THEOREM TwinIsExact == HSpec => []TwinOfOracle
<1>1. HInit => TwinOfOracle
  BY DEF HInit, Init, TwinOfOracle, AbsControllerInit, OracleReset
<1>2. IInv /\ TwinOfOracle /\ [HNext]_hvars => TwinOfOracle'
  <2> SUFFICES ASSUME IInv, TwinOfOracle, [HNext]_hvars
               PROVE  TwinOfOracle'
    OBVIOUS
  <2>1. CASE HCycle
    BY <2>1, TwinStep DEF TwinOfOracle
  <2>2. CASE HStop
    BY <2>2 DEF HStop, LeaveLoop, Terminated, vars, TwinOfOracle
  <2>3. CASE UNCHANGED hvars
    BY <2>3 DEF hvars, vars, TwinOfOracle
  <2> QED BY <2>1, <2>2, <2>3 DEF HNext
<1> QED BY <1>1, <1>2, HInvariance, PTL DEF HSpec

-----------------------------------------------------------------------------
(* Stuck codes. *)

InRange(s) == s.valid /\ ~OutOfRange(s.v_vehicle, s.omega_wheel)

(* What the stuck detector remembers is what was received: the omega it    *)
(* compares with is that of the last received frame in range, which a      *)
(* replay repeats, and it has counted the replays since that frame at most.*)
StuckTracks ==
    /\ dg.last_omega = lastOmega
    /\ InRange(last_good) => last_good.omega_wheel = lastOmega
    /\ /\ InRange(last_good) /\ ~repeated
       /\ age <= WATCHDOG_TIMEOUT_CYCLES
       => dg.stuck_count <= age
    /\ StuckNeedsRepetition

LEMMA StuckStep ==
    ASSUME IInv, IInv', StuckTracks, HCycle
    PROVE  StuckTracks'
<1> DEFINE r == DiagnosticCheck(dg, Sample, cycles_since_valid', errors_crc')
<1>1. /\ dg' = r.dg
      /\ running' => out'.dtc_code = r.dtc
      /\ Sample \in {cur', last_good'}
      /\ cur'.valid => cur' = last_good' /\ age' = 0
      /\ ~cur'.valid =>
            /\ last_good' = last_good
            /\ age' = Capped(age + 1, WATCHDOG_TIMEOUT_CYCLES + 1)
      /\ cycles_since_valid' <= WATCHDOG_TIMEOUT_CYCLES
            => Sample = last_good'
  BY CycleSample DEF HCycle
<1>2. /\ InRange(cur') => /\ lastOmega' = cur'.omega_wheel
                          /\ repeated' = (cur'.omega_wheel = lastOmega)
      /\ ~InRange(cur') => lastOmega' = lastOmega /\ repeated' = repeated
  BY DEF HCycle, Observe, InRange
<1>3. /\ InRange(Sample) =>
            /\ dg'.last_omega = Sample.omega_wheel
            /\ dg'.stuck_count = StuckCount(dg, Sample.omega_wheel,
                                            Sample.v_vehicle)
      /\ ~InRange(Sample) =>
            /\ dg'.last_omega = dg.last_omega
            /\ dg'.stuck_count = dg.stuck_count
            /\ "STUCK" \notin r.dtc
      /\ InRange(Sample) =>
            r.dtc = CommDtc(dg, cycles_since_valid') \cup ContentDtc(dg, Sample)
  <2> DEFINE s == Sample
  <2> HIDE DEF s
  <2>1. dg \in DiagnosticCtx
    BY DEF IInv, TypeOK
  <2>2. r = DiagnosticCheck(dg, s, cycles_since_valid', errors_crc')
    BY DEF s
  <2>3. /\ InRange(s) =>
            /\ dg'.last_omega = s.omega_wheel
            /\ dg'.stuck_count = StuckCount(dg, s.omega_wheel, s.v_vehicle)
        /\ ~InRange(s) =>
            /\ dg'.last_omega = dg.last_omega
            /\ dg'.stuck_count = dg.stuck_count
            /\ "STUCK" \notin r.dtc
        /\ InRange(s) =>
            r.dtc = CommDtc(dg, cycles_since_valid') \cup ContentDtc(dg, s)
    <3> HIDE DEF r
    <3> QED BY <1>1, <2>1, <2>2, DiagnosticOutcome DEF InRange
  <2> QED BY <2>3 DEF s
<1> HIDE DEF r
<1>4. InRange(last_good') => last_good'.omega_wheel = lastOmega'
  <2>1. CASE cur'.valid
    BY <1>1, <1>2, <2>1
  <2>2. CASE ~cur'.valid
    BY <1>1, <1>2, <2>2 DEF StuckTracks, InRange
  <2> QED BY <2>1, <2>2
<1>5. dg'.last_omega = lastOmega'
  <2>1. CASE InRange(Sample)
    <3>1. Sample = last_good'
      BY <1>1, <2>1 DEF InRange
    <3> QED BY <1>3, <1>4, <2>1, <3>1
  <2>2. CASE ~InRange(Sample)
    <3>1. ~InRange(cur')
      BY <1>1, <2>2 DEF InRange
    <3> QED BY <1>2, <1>3, <2>2, <3>1 DEF StuckTracks
  <2> QED BY <2>1, <2>2
<1>6. /\ dg.stuck_count \in Nat /\ age \in Nat
      /\ cycles_since_valid' \in Nat /\ age' \in Nat
      /\ StuckCount(dg, Sample.omega_wheel, Sample.v_vehicle) <= dg.stuck_count + 1
      /\ StuckCount(dg, Sample.omega_wheel, Sample.v_vehicle) \in Nat
  <2>1. dg.stuck_count \in Nat /\ age \in Nat /\ cycles_since_valid' \in Nat
        /\ age' \in Nat
    BY WidthAssumption, ThresholdAssumption
    DEF IInv, TypeOK, DiagnosticCtx, Uint32
  <2>2. Inc32(dg.stuck_count) \in Nat /\ Inc32(dg.stuck_count) <= dg.stuck_count + 1
    BY <2>1, WidthAssumption DEF Inc32, Add32
  <2> QED BY <2>1, <2>2 DEF StuckCount
<1>7. age' <= WATCHDOG_TIMEOUT_CYCLES => Sample = last_good'
  BY <1>1 DEF IInv, CountersAgree
<1>8. ASSUME InRange(last_good'), ~repeated', age' <= WATCHDOG_TIMEOUT_CYCLES
      PROVE  dg'.stuck_count <= age'
  <2>1. InRange(Sample)
    BY <1>7, <1>8
  <2>2. CASE cur'.valid
    <3>1. Sample = cur' /\ InRange(cur')
      BY <1>1, <1>7, <1>8, <2>2
    <3>2. Sample.omega_wheel # dg.last_omega
      BY <1>2, <1>8, <3>1 DEF StuckTracks
    <3>3. dg'.stuck_count = 0
      BY <1>3, <2>1, <3>2 DEF StuckCount
    <3> QED BY <1>6, <3>3
  <2>3. CASE ~cur'.valid
    <3>1. ~InRange(cur') /\ last_good' = last_good
      BY <1>1, <2>3 DEF InRange
    <3>2. InRange(last_good) /\ ~repeated
      BY <1>2, <1>8, <3>1 DEF InRange
    <3>3. age + 1 <= WATCHDOG_TIMEOUT_CYCLES /\ age' = age + 1
      BY <1>1, <1>6, <1>8, <2>3, ThresholdAssumption DEF Capped
    <3>4. dg.stuck_count <= age
      BY <1>6, <3>2, <3>3, ThresholdAssumption DEF StuckTracks
    <3> QED BY <1>3, <1>6, <2>1, <3>3, <3>4
  <2> QED BY <2>2, <2>3
<1>9. StuckNeedsRepetition'
  <2> SUFFICES ASSUME running', age' <= WATCHDOG_TIMEOUT_CYCLES,
                      "STUCK" \in out'.dtc_code, ~repeated'
               PROVE  FALSE
    BY DEF StuckNeedsRepetition
  <2>1. InRange(Sample) /\ Sample = last_good'
    BY <1>1, <1>3, <1>7
  <2>2. "STUCK" \in ContentDtc(dg, Sample)
    BY <1>1, <1>3, <2>1 DEF CommDtc
  <2>3. dg'.stuck_count >= DIAG_STUCK_THRESHOLD_CYCLES
    BY <1>3, <2>1, <2>2 DEF ContentDtc
  <2>4. dg'.stuck_count <= age'
    BY <1>8, <2>1
  <2>5. dg'.stuck_count \in Nat
    BY <1>3, <1>6, <2>1
  <2> QED BY <1>6, <2>3, <2>4, <2>5, StuckAssumption, ThresholdAssumption
<1> QED BY <1>4, <1>5, <1>8, <1>9 DEF StuckTracks

LEMMA StuckInvariance == HSpec => []StuckTracks
<1>1. HInit => StuckTracks
  BY ThresholdAssumption
  DEF HInit, Init, StuckTracks, StuckNeedsRepetition, InRange, ZeroSample,
      DiagnosticInit
<1>2. IInv /\ IInv' /\ StuckTracks /\ [HNext]_hvars => StuckTracks'
  <2> SUFFICES ASSUME IInv, IInv', StuckTracks, [HNext]_hvars
               PROVE  StuckTracks'
    OBVIOUS
  <2>1. CASE HCycle
    BY <2>1, StuckStep
  <2>2. CASE HStop
    BY <2>2 DEF HStop, LeaveLoop, Terminated, vars, StuckTracks,
                StuckNeedsRepetition, InRange
  <2>3. CASE UNCHANGED hvars
    BY <2>3 DEF hvars, vars, StuckTracks, StuckNeedsRepetition, InRange
  <2> QED BY <2>1, <2>2, <2>3 DEF HNext
<1> QED BY <1>1, <1>2, HInvariance, PTL DEF HSpec

(* Within the watchdog time a STUCK code needs two received frames in a    *)
(* row with the same omega: replays alone never add up to one.             *)
THEOREM ReplaysAreNotStuck == HSpec => []StuckNeedsRepetition
  BY StuckInvariance, PTL DEF StuckTracks
=============================================================================
