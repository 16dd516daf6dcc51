------------------------------- MODULE EcuLoop -------------------------------
(***************************************************************************)
(* controller/src/main.c: the 100 Hz super-loop of the ECU, composing the  *)
(* sensor HAL's result with diagnostic, abs_state and abs_controller.      *)
(*                                                                         *)
(* The process is single threaded: one iteration of the loop body is one   *)
(* step.  What the environment decides in a cycle is the outcome of        *)
(* hal_sensors_read (a frame, a timeout, a hard I/O error), how many CRC   *)
(* errors the driver counted meanwhile, and whether the actuator write     *)
(* succeeds.  After a hard error main neither reconnects nor stops, so     *)
(* every outcome stays possible in every cycle (poll may fail once).       *)
(*                                                                         *)
(* age and faultRun are history variables: no step reads them.             *)
(***************************************************************************)
EXTENDS AbsState, Diagnostic

CONSTANTS
    Frames,         \* the valid samples the plant may send
    DRIVER,         \* driver_request, from the command line
    MAX_CRC         \* bound: CRC errors the driver counts in one read

ASSUME FramesAssumption ==
    /\ Frames \subseteq SensorsData
    /\ \A f \in Frames : f.valid

ASSUME DriverAssumption == DRIVER \in Nat

ASSUME CrcAssumption == MAX_CRC \in Nat

(* main.c and diagnostic.c agree on the watchdog: as long as the cycle     *)
(* count allows, the millisecond test allows the replay.                   *)
ASSUME WatchdogAssumption ==
    WATCHDOG_TIMEOUT_CYCLES * LOOP_PERIOD_MS <= WATCHDOG_TIMEOUT_MS

(* A uint32_t must hold one silence up to the latch. *)
ASSUME NoEarlyWrap ==
    U32 > WATCHDOG_TIMEOUT_CYCLES + ABS_FAULT_LATCH_THRESHOLD

(* Nor may a content counter wrap in a run of faults short of the latch. *)
ASSUME NoContentWrap ==
    /\ U32 >= DIAG_STUCK_THRESHOLD_CYCLES + ABS_FAULT_LATCH_THRESHOLD
    /\ U32 >= DIAG_PLAUSIBILITY_CYCLES + ABS_FAULT_LATCH_THRESHOLD

VARIABLES
    running,        \* main is inside the loop
    cur,            \* the sample hal_sensors_read fills
    last_good,      \* the last sample read with success
    cycles_since_valid,
    errors_crc,     \* the driver's CRC error counter
    st,             \* abs_state_ctx_t
    cc,             \* abs_controller_ctx_t
    dg,             \* diagnostic_ctx_t
    out,            \* the last actuator frame sent
    age,            \* history: cycles since a fresh frame, up to the watchdog
    faultRun        \* history: consecutive faulty cycles, up to the latch

vars == <<running, cur, last_good, cycles_since_valid, errors_crc, st, cc, dg,
          out, age, faultRun>>

Actuator == [brake_command : {0, DRIVER}, ecu_status : EcuStatus,
             dtc_code : SUBSET DtcBits]

-----------------------------------------------------------------------------

Init ==
    /\ running = TRUE
    /\ cur = ZeroSample
    /\ last_good = ZeroSample
    /\ cycles_since_valid = 0
    /\ errors_crc = 0
    /\ st = AbsStateInit
    /\ cc = AbsControllerInit
    /\ dg = DiagnosticInit
    /\ out = [brake_command |-> 0, ecu_status |-> "INIT", dtc_code |-> {}]
    /\ age = 0
    /\ faultRun = 0

(* The sample the rest of the cycle uses: the fresh one, or the last good  *)
(* one while the watchdog still allows it, or the invalid one.  The        *)
(* product is computed in uint32_t.                                        *)
ForState(c, lg, csv) ==
    IF c.valid THEN c
    ELSE IF (csv * LOOP_PERIOD_MS) % U32 <= WATCHDOG_TIMEOUT_MS THEN lg
    ELSE c

(* A cycle is faulty for an observer when it raises a DTC or no frame has  *)
(* ever been received.                                                     *)
SeenFaulty(dtc, lg) == dtc # {} \/ ~lg.valid

Capped(n, cap) == IF n < cap THEN n ELSE cap

(* Diagnostics, slip, state machine, control law and the actuator frame,   *)
(* for the sample variables as the read has left them.  A failed write     *)
(* breaks out of the loop.                                                 *)
Process(wrote) ==
    LET s    == ForState(cur', last_good', cycles_since_valid')
        diag == DiagnosticCheck(dg, s, cycles_since_valid', errors_crc')
        slip == SlipProtected(s.v_vehicle, s.omega_wheel)
    IN  /\ dg' = diag.dg
        /\ st' = AbsStateUpdate(st, s, slip, diag.dtc)
        /\ cc' = [previous_command |->
                    AbsControllerCompute(cc, st'.current, s, slip, DRIVER)]
        /\ running' = wrote
        /\ out' = IF wrote
                  THEN [brake_command |-> cc'.previous_command,
                        ecu_status |-> st'.current,
                        dtc_code |-> diag.dtc]
                  ELSE out
        /\ faultRun' = IF SeenFaulty(diag.dtc, last_good')
                       THEN Capped(faultRun + 1, ABS_FAULT_LATCH_THRESHOLD)
                       ELSE 0

(* Mutants: a fresh frame does not clear the count of missed cycles; a     *)
(* missed cycle is not counted.                                            *)
CycleFreshNoReset(f, crc, wrote) ==
    /\ running
    /\ cur' = f
    /\ last_good' = f
    /\ cycles_since_valid' = cycles_since_valid
    /\ errors_crc' = Add32(errors_crc, crc)
    /\ age' = 0
    /\ Process(wrote)

CycleMissedNoCount(crc, wrote) ==
    /\ running
    /\ cur' = [cur EXCEPT !.valid = FALSE]
    /\ last_good' = last_good
    /\ cycles_since_valid' = cycles_since_valid
    /\ errors_crc' = Add32(errors_crc, crc)
    /\ age' = Capped(age + 1, WATCHDOG_TIMEOUT_CYCLES + 1)
    /\ Process(wrote)

(* hal_sensors_read decoded a frame. *)
CycleFresh(f, crc, wrote) ==
    /\ running
    /\ cur' = f
    /\ last_good' = f
    /\ cycles_since_valid' = 0
    /\ errors_crc' = Add32(errors_crc, crc)
    /\ age' = 0
    /\ Process(wrote)

(* It timed out or failed: the fields of cur stay, only valid is cleared.  *)
(* main treats both results alike.                                         *)
CycleMissed(crc, wrote) ==
    /\ running
    /\ cur' = [cur EXCEPT !.valid = FALSE]
    /\ last_good' = last_good
    /\ cycles_since_valid' = Inc32(cycles_since_valid)
    /\ errors_crc' = Add32(errors_crc, crc)
    /\ age' = Capped(age + 1, WATCHDOG_TIMEOUT_CYCLES + 1)
    /\ Process(wrote)

(* The loop is left at its head: g_stop is set, clock_nanosleep failed, or *)
(* max_cycles were run.                                                    *)
LeaveLoop ==
    /\ running
    /\ running' = FALSE
    /\ UNCHANGED <<cur, last_good, cycles_since_valid, errors_crc, st, cc, dg,
                   out, age, faultRun>>

Terminated == ~running /\ UNCHANGED vars

Cycle == \E crc \in 0 .. MAX_CRC, wrote \in BOOLEAN :
            \/ \E f \in Frames : CycleFresh(f, crc, wrote)
            \/ CycleMissed(crc, wrote)

Next == Cycle \/ LeaveLoop \/ Terminated

Spec == Init /\ [][Next]_vars

(* clock_nanosleep wakes the loop at every period until it is left. *)
FairSpec == Spec /\ WF_vars(Cycle)

-----------------------------------------------------------------------------
(* Type correctness of the loop's state. *)
TypeOK ==
    /\ running \in BOOLEAN
    /\ cur \in SensorsData
    /\ last_good \in SensorsData
    /\ cycles_since_valid \in Uint32
    /\ errors_crc \in Uint32
    /\ st \in AbsStateCtx
    /\ cc \in [previous_command : {0, DRIVER}]
    /\ dg \in DiagnosticCtx
    /\ out \in Actuator
    /\ age \in 0 .. WATCHDOG_TIMEOUT_CYCLES + 1
    /\ faultRun \in 0 .. ABS_FAULT_LATCH_THRESHOLD

(* While the state machine reports ACTIVE the brake is released: the two   *)
(* modules apply the same thresholds to the same sample, so the hysteresis *)
(* hold of abs_controller can only hold a release there, never a pedal     *)
(* left over from another state.                                           *)
ActiveMeansReleased ==
    st.current = "ACTIVE" => cc.previous_command = 0

(* With no fresh frame for more than the watchdog time, the ECU is in a    *)
(* fault state and the driver's pedal goes through - also when the missed- *)
(* cycle counter, or its product with the period, has wrapped and the      *)
(* stale sample is replayed again.                                         *)
BlindMeansPedal ==
    running /\ age > WATCHDOG_TIMEOUT_CYCLES
        => /\ out.ecu_status \in FaultStatus
           /\ out.brake_command = DRIVER

(* Once reported, FAULT_LATCHED is never left (abs_state.h: only a reset   *)
(* clears it), also when the fault counter wraps below the threshold.      *)
LatchedForever ==
    [][st.current = "FAULT_LATCHED" => st'.current = "FAULT_LATCHED"]_vars

(* FAULT_LATCHED is entered only by the last of the required number of     *)
(* consecutive faulty cycles.                                              *)
LatchNeedsRun ==
    [][st.current # "FAULT_LATCHED" /\ st'.current = "FAULT_LATCHED"
        => faultRun' = ABS_FAULT_LATCH_THRESHOLD]_vars

(* If frames stop for good, the ECU ends latched: the faults of a silence  *)
(* are consecutive, however the windows and counters stand when it starts. *)
SilenceLatches ==
    []running /\ <>[](~cur.valid) => <>[](st.current = "FAULT_LATCHED")

(* A cycle whose frame is fresh, in range, plausible and not a repetition, *)
(* on a link that counts no CRC error.                                     *)
CleanStep ==
    /\ cur'.valid
    /\ ~OutOfRange(cur'.v_vehicle, cur'.omega_wheel)
    /\ RimSpeed(cur'.omega_wheel) <= cur'.v_vehicle
    /\ cur'.omega_wheel # cur.omega_wheel
    /\ errors_crc' = errors_crc

(* If from some point on every cycle is clean, a degraded ECU recovers (or *)
(* was latched before): no detector keeps a fault of the past alive.       *)
CleanLinkRecovers ==
    []running /\ <>[][CleanStep]_vars
        => <>[](st.current # "FAULT_DEGRADED")

(* The counters of the code and what really happened agree wherever a      *)
(* decision depends on them: until the latch, fault_count is the length of *)
(* the current run of faulty cycles, and the state is FAULT_DEGRADED       *)
(* exactly during such a run; cycles_since_valid is exact up to the        *)
(* watchdog, and past it the run of faults is at least as long as the      *)
(* silence in excess, so that the latch comes before any wrap.             *)
CountersAgree ==
    /\ st.current # "FAULT_LATCHED" =>
          /\ st.fault_count = faultRun
          /\ faultRun < ABS_FAULT_LATCH_THRESHOLD
          /\ faultRun > 0 <=> st.current = "FAULT_DEGRADED"
    /\ age <= WATCHDOG_TIMEOUT_CYCLES => cycles_since_valid = age
    /\ age > WATCHDOG_TIMEOUT_CYCLES /\ st.current # "FAULT_LATCHED" =>
          /\ cycles_since_valid > WATCHDOG_TIMEOUT_CYCLES
          /\ cycles_since_valid - WATCHDOG_TIMEOUT_CYCLES <= faultRun

-----------------------------------------------------------------------------
(* The promise that the loop implements. *)
Mode == CASE st.current = "FAULT_LATCHED"  -> "latched"
          [] st.current = "FAULT_DEGRADED" -> "degraded"
          [] OTHER -> "normal"

FO == INSTANCE FailOperational WITH
        Watchdog <- WATCHDOG_TIMEOUT_CYCLES,
        Latch    <- ABS_FAULT_LATCH_THRESHOLD,
        Pedal    <- DRIVER,
        mode     <- Mode,
        brake    <- cc.previous_command,
        silence  <- age,
        faults   <- faultRun

(* Every run of the loop keeps the fail-operational promise of             *)
(* ARCHITECTURE.md section 6: whatever the detectors, counters and replays *)
(* do, the loop is a FailOperational brake.                                *)
FailOperationalSpec == FO!Spec
=============================================================================
