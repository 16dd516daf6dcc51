------------------------------ MODULE AbsState ------------------------------
(***************************************************************************)
(* app/abs_state.c: the operating mode of the ECU.  The context is the     *)
(* record [current, previous, fault_count, cycles_in_state].               *)
(***************************************************************************)
EXTENDS AbsController

ABS_BRAKE_ACTIVE_BAR == 5

AbsStateCtx == [current : EcuStatus, previous : EcuStatus,
                fault_count : Uint32, cycles_in_state : Uint32]

AbsStateInit == [current |-> "INIT", previous |-> "INIT",
                 fault_count |-> 0, cycles_in_state |-> 0]

(* The range test is written with ordered comparisons only: NaN passes it. *)
SensorsUsable(s) ==
    /\ s.valid
    /\ ~(FLt(s.v_vehicle, -10) \/ FGt(s.v_vehicle, 1200))
    /\ ~(FLt(s.omega_wheel, -1) \/ FGt(s.omega_wheel, 500))

VehicleStopped(s) == FLt(s.v_vehicle, ABS_LOW_SPEED_BYPASS)

DriverBraking(s) == FGt(s.brake_pressure, ABS_BRAKE_ACTIVE_BAR)

Faulty(sensors, dtc) == dtc # {} \/ ~SensorsUsable(sensors)

(* Mutants: the counter alone decides of the latch; a recovery goes        *)
(* through STANDBY.                                                        *)
FaultTargetCountOnly(current, fault_count) ==
    IF fault_count >= ABS_FAULT_LATCH_THRESHOLD
    THEN "FAULT_LATCHED" ELSE "FAULT_DEGRADED"

HealthyTargetViaStandby(current, s, slip) ==
    CASE current \in {"INIT", "FAULT_DEGRADED"} -> "STANDBY"
      [] current = "STANDBY" -> IF DriverBraking(s) THEN "MONITOR" ELSE "STANDBY"
      [] OTHER -> current

(* Where a faulty cycle leaves the state machine: LATCHED once the counter *)
(* has reached the threshold, and never out of it, whatever the counter.   *)
FaultTarget(current, fault_count) ==
    IF fault_count >= ABS_FAULT_LATCH_THRESHOLD \/ current = "FAULT_LATCHED"
    THEN "FAULT_LATCHED" ELSE "FAULT_DEGRADED"

(* Where a healthy cycle takes each state that is not latched. *)
HealthyTarget(current, s, slip) ==
    CASE current \in {"INIT", "FAULT_DEGRADED"} ->
            IF VehicleStopped(s) THEN "STANDBY" ELSE "MONITOR"
      [] current = "STANDBY" ->
            IF ~VehicleStopped(s) /\ DriverBraking(s) THEN "MONITOR"
            ELSE "STANDBY"
      [] current = "MONITOR" ->
            IF VehicleStopped(s) THEN "STANDBY"
            ELSE IF SlipAbove(slip, ABS_SLIP_UPPER) THEN "ACTIVE"
            ELSE "MONITOR"
      [] current = "ACTIVE" ->
            IF VehicleStopped(s) THEN "STANDBY"
            ELSE IF SlipBelow(slip, ABS_SLIP_LOWER) THEN "MONITOR"
            ELSE "ACTIVE"
      [] OTHER -> current

(* The new context once the target state and the fault counter are known. *)
Enter(ctx, target, faults) ==
    [current |-> target,
     previous |-> ctx.current,
     fault_count |-> faults,
     cycles_in_state |->
        IF target = ctx.current THEN Inc32(ctx.cycles_in_state) ELSE 0]

(* abs_state_update: faults first, then the latch, then the normal modes.  *)
(* A healthy cycle resets the fault counter, except in FAULT_LATCHED.      *)
AbsStateUpdate(ctx, sensors, slip, dtc) ==
    LET bumped == Inc32(ctx.fault_count)
    IN  IF Faulty(sensors, dtc)
        THEN Enter(ctx, FaultTarget(ctx.current, bumped), bumped)
        ELSE IF ctx.current = "FAULT_LATCHED"
        THEN Enter(ctx, "FAULT_LATCHED", ctx.fault_count)
        ELSE Enter(ctx, HealthyTarget(ctx.current, sensors, slip), 0)
=============================================================================
