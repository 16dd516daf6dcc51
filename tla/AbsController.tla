---------------------------- MODULE AbsController ----------------------------
(***************************************************************************)
(* app/abs_controller.c: the slip ratio and the bang-bang law with         *)
(* hysteresis.  The controller context is the record                       *)
(*     [previous_command : bar].                                           *)
(* A slip ratio is a fraction [num, den] with den > 0, or NaN.             *)
(***************************************************************************)
EXTENDS EcuTypes

ABS_LOW_SPEED_BYPASS == 14      \* 5 km/h
SLIP_V_MIN == 10                \* 1.0 m/s
ABS_SLIP_UPPER == 20            \* percent
ABS_SLIP_LOWER == 10            \* percent

AbsControllerInit == [previous_command |-> 0]

(* slip_protected: 0 below SLIP_V_MIN, otherwise (v - omega R) / v clamped *)
(* to [0, 1].  A NaN operand fails every test and flows through.           *)
Fraction(n, d) == [num |-> n, den |-> d]

SlipProtected(v, w) ==
    IF FGt(v, -SLIP_V_MIN) /\ FLt(v, SLIP_V_MIN) THEN Fraction(0, 1)
    ELSE IF v = NaN \/ w = NaN THEN NaN
    ELSE LET n == IF v > 0 THEN v - RimSpeed(w) ELSE RimSpeed(w) - v
             d == IF v > 0 THEN v ELSE -v
         IN  Fraction(IF n < 0 THEN 0 ELSE IF n > d THEN d ELSE n, d)

SlipAbove(slip, pct) == slip # NaN /\ slip.num * 100 > pct * slip.den

SlipBelow(slip, pct) == slip # NaN /\ slip.num * 100 < pct * slip.den

(* Mutants: the fault states keep modulating; the band re-applies instead  *)
(* of holding.                                                             *)
PassThroughNoFault(state, sensors) ==
    \/ FLt(sensors.v_vehicle, ABS_LOW_SPEED_BYPASS)
    \/ state \in {"INIT", "STANDBY"}

BangBangNoHold(cc, slip, driver_request) ==
    IF SlipAbove(slip, ABS_SLIP_UPPER) THEN 0 ELSE driver_request

(* The pedal goes through untouched: a fault, the low-speed bypass, or a   *)
(* state in which the ABS does not modulate.                               *)
PassThrough(state, sensors) ==
    \/ state \in FaultStatus
    \/ FLt(sensors.v_vehicle, ABS_LOW_SPEED_BYPASS)
    \/ state \in {"INIT", "STANDBY"}

(* The two-threshold law. *)
BangBang(cc, slip, driver_request) ==
    IF SlipAbove(slip, ABS_SLIP_UPPER) THEN 0
    ELSE IF SlipBelow(slip, ABS_SLIP_LOWER) THEN driver_request
    ELSE cc.previous_command

(* The command of this cycle; abs_controller_compute stores it on every    *)
(* path, so the next context is [previous_command |-> command].            *)
AbsControllerCompute(cc, state, sensors, slip, driver_request) ==
    IF PassThrough(state, sensors) THEN driver_request
    ELSE BangBang(cc, slip, driver_request)
=============================================================================
