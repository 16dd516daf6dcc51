------------------------------ MODULE EcuTypes ------------------------------
(***************************************************************************)
(* The vocabulary the ECU modules share: the status and DTC values of the  *)
(* wire protocol (drivers/protocol.h), the sample that the sensor HAL      *)
(* hands to the application (hal/hal_sensors.h) and the arithmetic it is   *)
(* used with.                                                              *)
(*                                                                         *)
(* Units.  Speeds are integers in dm/s and wheel speeds integers in rad/s, *)
(* so that the rim speed omega * R (R = 0.30 m) is the integer 3 * omega   *)
(* and every threshold of the headers keeps its value (5 km/h is 13.88...  *)
(* dm/s: an integer speed is below it exactly when it is below 14).        *)
(* Binary32 rounding is abstracted; NaN is not: every ordered comparison   *)
(* with it is false.                                                       *)
(***************************************************************************)
EXTENDS Integers

CONSTANTS
    NaN,                        \* the not-a-number float
    U32,                        \* 2^32: where a uint32_t wraps
    ABS_FAULT_LATCH_THRESHOLD,  \* 10 consecutive faults
    WATCHDOG_TIMEOUT_CYCLES,    \* 5 cycles (diagnostic.c)
    WATCHDOG_TIMEOUT_MS,        \* 50 ms (main.c)
    LOOP_PERIOD_MS,             \* 10 ms
    DIAG_STUCK_THRESHOLD_CYCLES,    \* 10
    DIAG_PLAUSIBILITY_CYCLES,       \* 5
    CRC_RATE_DENOMINATOR,           \* 100 cycles
    DIAG_CRC_ERROR_RATE_THRESHOLD   \* 5 errors

ASSUME NaNAssumption == NaN \notin Int

ASSUME WidthAssumption == U32 \in Nat /\ U32 > 0

ASSUME ThresholdAssumption ==
    /\ ABS_FAULT_LATCH_THRESHOLD \in Nat \ {0}
    /\ WATCHDOG_TIMEOUT_CYCLES \in Nat
    /\ WATCHDOG_TIMEOUT_MS \in Nat
    /\ LOOP_PERIOD_MS \in Nat \ {0}
    /\ DIAG_STUCK_THRESHOLD_CYCLES \in Nat \ {0}
    /\ DIAG_PLAUSIBILITY_CYCLES \in Nat \ {0}
    /\ CRC_RATE_DENOMINATOR \in Nat \ {0}
    /\ DIAG_CRC_ERROR_RATE_THRESHOLD \in Nat \ {0}

-----------------------------------------------------------------------------
(* uint32_t arithmetic. *)

Uint32 == 0 .. U32 - 1

Add32(a, b) == (a + b) % U32

Inc32(a) == Add32(a, 1)

(* float comparisons: false as soon as one side is NaN. *)

FLt(a, b) == a # NaN /\ b # NaN /\ a < b

FGt(a, b) == FLt(b, a)

-----------------------------------------------------------------------------
(* Wire values (protocol.h). *)

EcuStatus == {"INIT", "STANDBY", "MONITOR", "ACTIVE",
              "FAULT_DEGRADED", "FAULT_LATCHED"}

FaultStatus == {"FAULT_DEGRADED", "FAULT_LATCHED"}

(* The DTC bitfield is the set of the bits that are raised; DTC_NONE = {}. *)
DtcBits == {"STUCK", "NOISE", "COMM_TIMEOUT", "COMM_CRC", "RANGE",
            "PLAUSIBILITY"}

Float == Int \cup {NaN}

(* sensors_data_t: the fields the application reads.  The two timestamps   *)
(* and the informative fault_flags influence nothing.                      *)
SensorsData == [v_vehicle : Float, omega_wheel : Float,
                brake_pressure : Float, valid : BOOLEAN]

ZeroSample == [v_vehicle |-> 0, omega_wheel |-> 0, brake_pressure |-> 0,
               valid |-> FALSE]

Frame(v, w, p) == [v_vehicle |-> v, omega_wheel |-> w, brake_pressure |-> p,
                   valid |-> TRUE]

(* WHEEL_RADIUS_M and the rim speed omega * R, in dm/s. *)
WHEEL_RADIUS == 3

RimSpeed(w) == IF w = NaN THEN NaN ELSE WHEEL_RADIUS * w
=============================================================================
