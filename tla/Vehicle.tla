------------------------------- MODULE Vehicle -------------------------------
(***************************************************************************)
(* plant/vehicle.py and plant/tire.py: the quarter car, one Euler step at  *)
(* a time.  A car is the record [v, rim] of the body speed and the rim     *)
(* speed omega * R, both in integer units of which SCALE make a dm/s.      *)
(*                                                                         *)
(* The tire is abstracted to its grip: the body speed mu(slip) * G * dt    *)
(* that one step takes away, any value the shape of the curve allows.  The *)
(* sine of C * atan(B * slip) with C < 2 is 0 at slip 0, has the sign of   *)
(* the slip and never exceeds D; a slip from the lower ABS threshold on    *)
(* grips for sure, a smaller one may grip by less than one unit.           *)
(***************************************************************************)
EXTENDS AbsController

CONSTANTS
    SCALE,              \* speed units in a dm/s
    V_MIN,              \* compute_slip's v_min: 1.0 m/s
    V_STATIC_FREEZE,    \* 1.0 m/s
    RIM_GAIN,           \* mass_quarter * R^2 / wheel_inertia: 30
    DROP_100,           \* rim speed that 100 bar take off in one step
    MAX_BRAKE_PRESSURE, \* 150 bar
    PEAK                \* per surface, D * G * dt: the most a step can grip

Surfaces == DOMAIN PEAK

(* vehicle.py: V_STATIC_FREEZE "must be >= compute_slip()'s v_min". *)
ASSUME VehicleAssumption ==
    /\ SCALE \in Nat \ {0}
    /\ V_MIN \in Nat \ {0}
    /\ V_STATIC_FREEZE \in Nat /\ V_STATIC_FREEZE >= V_MIN
    /\ RIM_GAIN \in Nat /\ DROP_100 \in Nat /\ MAX_BRAKE_PRESSURE \in Nat
    /\ \A s \in Surfaces : PEAK[s] \in Nat \ {0} /\ PEAK[s] < V_MIN

(* __init__, reset: the wheel rolls freely. *)
NewVehicle(initial_speed) == [v |-> initial_speed, rim |-> initial_speed]

(* Mutant: the magnitude of the slip. *)
ComputeSlipMagnitude(car) ==
    IF car.v < V_MIN THEN Fraction(0, 1)
    ELSE Fraction(IF car.rim > car.v THEN car.rim - car.v ELSE car.v - car.rim,
                  car.v)

(* compute_slip: 0 below v_min, clamped to [0, 1].  Neither speed is ever  *)
(* negative, so the slip never exceeds 1.                                  *)
ComputeSlip(car) ==
    IF car.v < V_MIN \/ car.rim > car.v THEN Fraction(0, 1)
    ELSE Fraction(car.v - car.rim, car.v)

(* mu: the grips a slip may give on a surface. *)
Grips(slip, surface) ==
    LET peak == PEAK[surface]
    IN  CASE slip.num = 0 -> {0}
          [] slip.num < 0 -> -peak .. 0
          [] slip.num > 0 /\ SlipBelow(slip, ABS_SLIP_LOWER) -> 0 .. peak
          [] OTHER -> 1 .. peak

Saturated(p) ==
    IF p < 0 THEN 0 ELSE IF p > MAX_BRAKE_PRESSURE THEN MAX_BRAKE_PRESSURE ELSE p

BrakeDrop(p) == (p * DROP_100) \div 100

NotNegative(x) == IF x < 0 THEN 0 ELSE x

(* Mutants: a threshold below compute_slip's; the rim's speed is tested.   *)
FreezeLow(car, p) ==
    IF 2 * car.v < V_STATIC_FREEZE /\ p > 1 THEN [v |-> 0, rim |-> 0] ELSE car

FreezeOnRim(car, p) ==
    IF car.rim < V_STATIC_FREEZE /\ p > 1 THEN [v |-> 0, rim |-> 0] ELSE car

(* The transition to static friction. *)
Freeze(car, p) ==
    IF car.v < V_STATIC_FREEZE /\ p > 1 THEN [v |-> 0, rim |-> 0] ELSE car

(* step: body and wheel, the clamps, the freeze. *)
Step(car, brake, grip) ==
    LET p == Saturated(brake)
    IN  Freeze([v   |-> NotNegative(car.v - grip),
                rim |-> NotNegative(car.rim + RIM_GAIN * grip - BrakeDrop(p))],
               p)

(* Twice the distance a step adds: "s.v * dt + 0.5 * dv * dt", in which    *)
(* s.v is already the new speed and not yet clamped.                       *)
Travelled(car, grip) == 2 * (car.v - grip) - grip

Stopped(car) == car.v = 0
=============================================================================
