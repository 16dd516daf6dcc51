------------------------------ MODULE Simulate -------------------------------
(***************************************************************************)
(* The loops that drive the car: _run_loop of plant/simulate.py without    *)
(* ABS and with the oracle, its copy in scripts/plot_results.py, and the   *)
(* plant side of run_scenario (harness.py steps 1, 6 and 7), where the     *)
(* brake is whatever the ECU sends and the injector may change the road at *)
(* every tick.                                                             *)
(*                                                                         *)
(* The step counter k is kept modulo the control period, and its end may   *)
(* come at any step: every SIM_DURATION is covered.                        *)
(***************************************************************************)
EXTENDS Vehicle, OracleABS, Diagnostic

CONSTANTS
    STEPS_PER_CONTROL,  \* plant steps in a control period: 10
    DRIVER_PEDAL_BAR,   \* 100
    InitialSpeeds,      \* 27.78 m/s
    Commands            \* brake commands the ECU may send

ASSUME SimulateAssumption ==
    /\ STEPS_PER_CONTROL \in Nat \ {0}
    /\ DRIVER_PEDAL_BAR \in Nat /\ DRIVER_PEDAL_BAR > 1
    /\ InitialSpeeds \subseteq Nat /\ Commands \subseteq Int
    /\ "dry_asphalt" \in Surfaces

(* 31 * 0.0098 m/s of rim speed per step stay within the 0.5 m/s of the    *)
(* ECU's plausibility check, and the pedal's 0.625 m/s exceed the 0.294    *)
(* that the best road gives back to the wheel.                             *)
ASSUME MarginAssumption ==
    \A s \in Surfaces :
        /\ (RIM_GAIN + 1) * PEAK[s] <= DIAG_PLAUSIBILITY_EPSILON * SCALE
        /\ BrakeDrop(DRIVER_PEDAL_BAR) > RIM_GAIN * PEAK[s]

VARIABLES
    mode,       \* no_abs, oracle, plot or harness
    car, surface,
    brake_cmd,
    previous,   \* the oracle's previous command
    at,         \* k modulo STEPS_PER_CONTROL
    slip,       \* the last logged slip
    added,      \* twice the distance of the last step
    over,       \* no, stopped, or cut by the end of the loop
    hot         \* history: steps in a row with the brake on and the slip of
                \* the step above the upper threshold (oracle, above bypass)

vars == <<mode, car, surface, brake_cmd, previous, at, slip, added, over, hot>>

Modes == {"no_abs", "oracle", "plot", "harness"}

Init ==
    /\ mode \in Modes
    /\ \E v0 \in InitialSpeeds : car = NewVehicle(v0)
    /\ surface \in IF mode = "plot" THEN {"dry_asphalt"} ELSE Surfaces
    /\ brake_cmd = 0
    /\ previous = OracleReset
    /\ at = 0
    /\ slip = Fraction(0, 1)
    /\ added = 0
    /\ over = "no"
    /\ hot = 0

(* Mutant: the first logged slip instead of the last. *)
SlipForCtrlFirst == Fraction(0, 1)

(* The previous step's slip, 0.0 before the first. *)
SlipForCtrl == slip

(* The oracle sees the speed in dm/s. *)
OracleCommand ==
    OracleStep(previous, SlipForCtrl, car.v \div SCALE, DRIVER_PEDAL_BAR)

(* veh.step and the row it logs. *)
Advance(brake, road, grip) ==
    LET s == ComputeSlip(car)
    IN  /\ grip \in Grips(s, road)
        /\ car' = Step(car, brake, grip)
        /\ slip' = s
        /\ added' = Travelled(car, grip)
        /\ at' = (at + 1) % STEPS_PER_CONTROL
        /\ hot' = IF /\ mode \in {"oracle", "plot"} /\ brake > 0
                     /\ SlipAbove(s, ABS_SLIP_UPPER)
                     /\ car.v >= ABS_LOW_SPEED_BYPASS * SCALE
                  THEN hot + 1 ELSE 0

(* The control of this step, at the first one of a period, and the step.   *)
ControlAndStep(controlled, grip) ==
    /\ brake_cmd' = IF at # 0 THEN brake_cmd
                    ELSE IF controlled THEN OracleCommand
                    ELSE DRIVER_PEDAL_BAR
    /\ previous' = IF at = 0 /\ controlled THEN brake_cmd' ELSE previous
    /\ Advance(brake_cmd', surface, grip)
    /\ UNCHANGED <<mode, surface, over>>

(* An iteration of _run_loop. *)
Iterate(grip) ==
    /\ mode \in {"no_abs", "oracle"} /\ over = "no" /\ ~Stopped(car)
    /\ ControlAndStep(mode = "oracle", grip)

(* run_python_oracle of plot_results.py: the oracle again, always on dry   *)
(* asphalt, and without the last sample.                                   *)
PlotOracle(grip) ==
    /\ mode = "plot" /\ over = "no"
    /\ IF Stopped(car)
       THEN /\ over' = "stopped"
            /\ UNCHANGED <<mode, car, surface, brake_cmd, previous, at, slip,
                           added, hot>>
       ELSE ControlAndStep(TRUE, grip)

(* The car has stopped: a last sample with slip 0, and the loop breaks. *)
PadAndBreak ==
    /\ mode \in {"no_abs", "oracle"} /\ over = "no" /\ Stopped(car)
    /\ over' = "stopped"
    /\ slip' = Fraction(0, 1)
    /\ UNCHANGED <<mode, car, surface, brake_cmd, previous, at, added, hot>>

(* One of the 1 ms steps of a tick of run_scenario: command and road are   *)
(* those of the tick's first step, and the car is looked at after the last.*)
HarnessStep(command, road, grip) ==
    /\ mode = "harness" /\ over = "no"
    /\ at # 0 => command = brake_cmd /\ road = surface
    /\ brake_cmd' = command
    /\ surface' = road
    /\ Advance(command, road, grip)
    /\ over' = IF at' = 0 /\ Stopped(car') THEN "stopped" ELSE "no"
    /\ UNCHANGED <<mode, previous>>

(* n_total iterations or n_ticks ticks are done. *)
Cut ==
    /\ over = "no"
    /\ mode = "harness" => at = 0
    /\ over' = "cut"
    /\ UNCHANGED <<mode, car, surface, brake_cmd, previous, at, slip, added, hot>>

Over == over # "no" /\ UNCHANGED vars

AnyGrip == UNION {-PEAK[s] .. PEAK[s] : s \in Surfaces}

Loop == PadAndBreak \/ \E grip \in AnyGrip : Iterate(grip) \/ PlotOracle(grip)

Next ==
    \/ Loop
    \/ \E command \in Commands \cup {brake_cmd}, road \in Surfaces,
          grip \in AnyGrip : HarnessStep(command, road, grip)
    \/ Cut
    \/ Over

Spec == Init /\ [][Next]_vars /\ WF_vars(Loop)

-----------------------------------------------------------------------------

TypeOK ==
    /\ mode \in Modes
    /\ car.v \in Nat /\ car.rim \in Nat
    /\ surface \in Surfaces
    /\ brake_cmd \in Int /\ previous \in Int
    /\ at \in 0 .. STEPS_PER_CONTROL - 1
    /\ slip.num \in 0 .. slip.den /\ slip.den \in Nat \ {0}
    /\ added \in Int
    /\ over \in {"no", "stopped", "cut"}
    /\ hot \in Nat

(* The plant and the ECU's plausibility check (diagnostic.c F07) agree: no *)
(* sequence of brake commands, releases at full slip and changes of road   *)
(* included, lets the rim run ahead of the body by more than the margin    *)
(* while the check looks, so a healthy wheel is never called implausible.  *)
NeverImplausible ==
    car.v >= PLAUSIBILITY_V_MIN * SCALE
        => car.rim <= car.v + DIAG_PLAUSIBILITY_EPSILON * SCALE

(* The body only ever slows down, by no more than the road can give, until *)
(* it is brought to rest from below V_STATIC_FREEZE, and the wheel with    *)
(* it: a loop that ends because the body stands leaves no wheel turning.   *)
RoadDecidesDecel ==
    [][/\ car'.v <= car.v
       /\ \/ car'.v >= car.v - PEAK[surface']
          \/ car.v < V_STATIC_FREEZE + PEAK[surface'] 
             /\ car' = [v |-> 0, rim |-> 0]]_vars

(* The oracle acts on a slip one step old, once per control period; still  *)
(* the brake is never kept on for more than one period of excess slip.     *)
ReleasedWithinPeriod == hot <= STEPS_PER_CONTROL

(* With the pedal held, without ABS or with the oracle, the car stops: it  *)
(* is never left rolling at a speed where slip counts as 0 and nothing     *)
(* brakes (vehicle.py: "to avoid coasting forever on a zero-mu plateau").  *)
AlwaysStops == mode # "harness" ~> over # "no"
=============================================================================
