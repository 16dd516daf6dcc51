-------------------------- MODULE Simulate_proofs ---------------------------
(***************************************************************************)
(* Proofs about the car and the loops that drive it, for every unit of     *)
(* speed, road, set of commands and control period.                        *)
(***************************************************************************)
EXTENDS Simulate, TLAPS

-----------------------------------------------------------------------------
(* The step of the vehicle. *)

(* A slip is a fraction of [0, 1], and 0 unless the body is at least at    *)
(* v_min and ahead of the rim.                                             *)
LEMMA SlipFacts ==
    ASSUME NEW c, c.v \in Nat, c.rim \in Nat
    PROVE  /\ ComputeSlip(c).den \in Nat \ {0}
           /\ ComputeSlip(c).num \in 0 .. ComputeSlip(c).den
           /\ ComputeSlip(c).num # 0 => c.v >= V_MIN /\ c.rim <= c.v
  BY VehicleAssumption DEF ComputeSlip, Fraction

(* A grip never pushes, and there is none without slip. *)
LEMMA GripFacts ==
    ASSUME NEW s, s.num \in Nat, NEW road \in Surfaces,
           NEW grip \in Grips(s, road)
    PROVE  grip \in 0 .. PEAK[road] /\ (s.num = 0 => grip = 0)
  BY VehicleAssumption DEF Grips

(* Neither product needs more than that it grows with its factors. *)
LEMMA Products ==
    /\ \A p \in Nat : BrakeDrop(p) \in Nat
    /\ \A g \in Nat, m \in Nat : g <= m => RIM_GAIN * g <= RIM_GAIN * m
    /\ \A g \in Nat : RIM_GAIN * g \in Nat
<1>1. RIM_GAIN \in Nat /\ DROP_100 \in Nat
  BY VehicleAssumption
<1>2. ASSUME NEW p \in Nat PROVE BrakeDrop(p) \in Nat
  <2>1. p * DROP_100 \in Nat
    BY <1>1
  <2>2. ASSUME NEW x \in Nat PROVE x \div 100 \in Nat
    OBVIOUS
  <2> QED BY <2>1, <2>2 DEF BrakeDrop
<1>3. ASSUME NEW g \in Nat, NEW m \in Nat, g <= m
      PROVE  RIM_GAIN * g <= RIM_GAIN * m
  BY <1>1, <1>3
<1> QED BY <1>1, <1>2, <1>3

LEMMA SaturatedType ==
    ASSUME NEW p \in Int
    PROVE  Saturated(p) \in Nat
  BY VehicleAssumption DEF Saturated

LEMMA FreezeFacts ==
    ASSUME NEW e, NEW p
    PROVE  \/ Freeze(e, p) = e
           \/ e.v < V_STATIC_FREEZE /\ Freeze(e, p) = [v |-> 0, rim |-> 0]
<1>1. CASE e.v < V_STATIC_FREEZE /\ p > 1
  BY <1>1 DEF Freeze
<1>2. CASE ~(e.v < V_STATIC_FREEZE /\ p > 1)
  BY <1>2 DEF Freeze
<1> QED BY <1>1, <1>2

(* What a step does to body and rim: an overshoot of the rim comes from    *)
(* one grip at most, and the freeze acts only just above its threshold.    *)
LEMMA StepFacts ==
    ASSUME NEW c, c.v \in Nat, c.rim \in Nat, NEW brake \in Int,
           NEW road \in Surfaces, NEW grip \in Grips(ComputeSlip(c), road),
           NEW d, d = Step(c, brake, grip)
    PROVE  /\ d.v \in Nat /\ d.rim \in Nat
           /\ grip \in 0 .. PEAK[road]
           /\ d.v <= c.v
           /\ \/ d.v = c.v - grip
              \/ c.v < V_STATIC_FREEZE + PEAK[road] /\ d = [v |-> 0, rim |-> 0]
           /\ \/ d.rim <= d.v + RIM_GAIN * PEAK[road] + PEAK[road]
              \/ d.v = c.v /\ d.rim <= c.rim
<1> DEFINE p == Saturated(brake)
           e == [v   |-> NotNegative(c.v - grip),
                 rim |-> NotNegative(c.rim + RIM_GAIN * grip - BrakeDrop(p))]
<1>1. /\ grip \in 0 .. PEAK[road] /\ PEAK[road] \in Nat /\ PEAK[road] < V_MIN
      /\ grip # 0 => c.v >= V_MIN /\ c.rim <= c.v
      /\ V_MIN \in Nat /\ V_STATIC_FREEZE \in Nat
  BY SlipFacts, GripFacts, VehicleAssumption
<1>2. /\ p \in Nat /\ BrakeDrop(p) \in Nat
      /\ RIM_GAIN * grip \in Nat /\ RIM_GAIN * PEAK[road] \in Nat
      /\ RIM_GAIN * grip <= RIM_GAIN * PEAK[road]
      /\ grip = 0 => RIM_GAIN * grip = 0
  BY <1>1, SaturatedType, Products, VehicleAssumption
<1>3. d = Freeze(e, p)
  BY DEF Step
<1> HIDE DEF p
<1>4. e.v = c.v - grip /\ e.v \in Nat /\ e.rim \in Nat
  BY <1>1, <1>2 DEF NotNegative
<1>5. \/ e.rim <= e.v + RIM_GAIN * PEAK[road] + PEAK[road]
      \/ e.v = c.v /\ e.rim <= c.rim
  <2>1. CASE grip = 0
    BY <1>2, <1>4, <2>1 DEF NotNegative
  <2>2. CASE grip # 0
    <3>1. ASSUME NEW rg \in Nat, NEW drop \in Nat, NEW most \in Nat,
                 NEW pk \in Nat, rg <= most, grip \in 0 .. pk
          PROVE  NotNegative(c.rim + rg - drop) <= (c.v - grip) + most + pk
      BY <1>1, <2>2, <3>1 DEF NotNegative
    <3>2. NotNegative(c.rim + RIM_GAIN * grip - BrakeDrop(p))
            <= (c.v - grip) + RIM_GAIN * PEAK[road] + PEAK[road]
      BY <1>1, <1>2, <3>1
    <3>3. e.rim = NotNegative(c.rim + RIM_GAIN * grip - BrakeDrop(p))
      OBVIOUS
    <3> HIDE DEF e
    <3> QED BY <1>1, <1>2, <1>4, <3>2, <3>3
  <2> QED BY <2>1, <2>2
<1> HIDE DEF e
<1>6. d = e \/ (e.v < V_STATIC_FREEZE /\ d = [v |-> 0, rim |-> 0])
  BY <1>3, FreezeFacts
<1>7. CASE d = e
  BY <1>1, <1>4, <1>5, <1>7
<1>8. CASE e.v < V_STATIC_FREEZE /\ d = [v |-> 0, rim |-> 0]
  <2>1. d.v = 0 /\ d.rim = 0 /\ c.v < V_STATIC_FREEZE + PEAK[road]
    BY <1>1, <1>4, <1>8
  <2> QED BY <1>1, <1>2, <1>8, <2>1
<1> QED BY <1>6, <1>7, <1>8

-----------------------------------------------------------------------------
(* Type correctness, the wheel and the road. *)

LEMMA SimInitType == Init => TypeOK /\ NeverImplausible
<1> SUFFICES ASSUME Init PROVE TypeOK /\ NeverImplausible
  OBVIOUS
<1>1. PICK v0 \in InitialSpeeds : car = NewVehicle(v0)
  BY DEF Init
<1>2. car.v = v0 /\ car.rim = v0 /\ v0 \in Nat
  BY <1>1, SimulateAssumption DEF NewVehicle
<1>3. slip.num = 0 /\ slip.den = 1
  BY DEF Init, Fraction
<1>4. surface \in Surfaces
  BY SimulateAssumption DEF Init
<1>5. TypeOK
  BY <1>2, <1>3, <1>4, SimulateAssumption DEF Init, TypeOK, OracleReset
<1>6. NeverImplausible
  BY <1>2, VehicleAssumption DEF NeverImplausible, DIAG_PLAUSIBILITY_EPSILON
<1> QED BY <1>5, <1>6

LEMMA OracleType ==
    ASSUME previous \in Int
    PROVE  OracleCommand \in Int
  BY SimulateAssumption DEF OracleCommand, OracleStep

(* The next speed of the body, on a given road. *)
Decelerates(road) ==
    /\ car'.v <= car.v
    /\ \/ car'.v >= car.v - PEAK[road]
       \/ car.v < V_STATIC_FREEZE + PEAK[road] /\ car' = [v |-> 0, rim |-> 0]

LEMMA AdvanceFacts ==
    ASSUME TypeOK, NeverImplausible, NEW brake \in Int, NEW road \in Surfaces,
           NEW grip, Advance(brake, road, grip)
    PROVE  /\ car'.v \in Nat /\ car'.rim \in Nat
           /\ at' \in 0 .. STEPS_PER_CONTROL - 1
           /\ slip'.num \in 0 .. slip'.den /\ slip'.den \in Nat \ {0}
           /\ added' \in Int /\ hot' \in Nat
           /\ NeverImplausible'
           /\ Decelerates(road)
<1>1. /\ car.v \in Nat /\ car.rim \in Nat
      /\ grip \in Grips(ComputeSlip(car), road)
      /\ car' = Step(car, brake, grip)
  BY DEF TypeOK, Advance
<1>2. /\ car'.v \in Nat /\ car'.rim \in Nat
      /\ grip \in 0 .. PEAK[road]
      /\ car'.v <= car.v
      /\ \/ car'.v = car.v - grip
         \/ car.v < V_STATIC_FREEZE + PEAK[road] /\ car' = [v |-> 0, rim |-> 0]
      /\ \/ car'.rim <= car'.v + RIM_GAIN * PEAK[road] + PEAK[road]
         \/ car'.v = car.v /\ car'.rim <= car.rim
  BY <1>1, StepFacts
<1>3. /\ PEAK[road] \in Nat /\ RIM_GAIN \in Nat /\ SCALE \in Nat
      /\ (RIM_GAIN + 1) * PEAK[road] <= DIAG_PLAUSIBILITY_EPSILON * SCALE
      /\ (RIM_GAIN + 1) * PEAK[road] = RIM_GAIN * PEAK[road] + PEAK[road]
  BY VehicleAssumption, MarginAssumption
<1>4. NeverImplausible'
  <2>1. RIM_GAIN * PEAK[road] \in Nat
    BY <1>3, Products
  <2>2. RIM_GAIN * PEAK[road] + PEAK[road] <= DIAG_PLAUSIBILITY_EPSILON * SCALE
    BY <1>3
  <2> QED BY <1>1, <1>2, <1>3, <2>1, <2>2
          DEF NeverImplausible, DIAG_PLAUSIBILITY_EPSILON, PLAUSIBILITY_V_MIN
<1>5. Decelerates(road)
  BY <1>1, <1>2, <1>3 DEF Decelerates
<1>6. slip' = ComputeSlip(car)
  BY DEF Advance
<1>7. slip'.num \in 0 .. slip'.den /\ slip'.den \in Nat \ {0}
  BY <1>1, <1>6, SlipFacts
<1>8. added' \in Int
  BY <1>1, <1>2, <1>3 DEF Advance, Travelled
<1>9. at' \in 0 .. STEPS_PER_CONTROL - 1
  BY SimulateAssumption DEF Advance, TypeOK
<1>10. hot' \in Nat
  BY DEF Advance, TypeOK
<1> QED BY <1>2, <1>4, <1>5, <1>7, <1>8, <1>9, <1>10

(* A step of a loop, whichever controls the brake. *)
LEMMA ControlFacts ==
    ASSUME TypeOK, NeverImplausible, NEW controlled \in BOOLEAN, NEW grip,
           ControlAndStep(controlled, grip)
    PROVE  TypeOK' /\ NeverImplausible' /\ Decelerates(surface')
<1>1. brake_cmd' \in Int /\ previous' \in Int
  BY OracleType, SimulateAssumption DEF ControlAndStep, TypeOK
<1>2. Advance(brake_cmd', surface, grip) /\ surface' = surface
      /\ surface \in Surfaces /\ UNCHANGED <<mode, over>>
  BY DEF ControlAndStep, TypeOK
<1> QED BY <1>1, <1>2, AdvanceFacts DEF TypeOK

LEMMA HarnessFacts ==
    ASSUME TypeOK, NeverImplausible, NEW command \in Commands \cup {brake_cmd},
           NEW road \in Surfaces, NEW grip, HarnessStep(command, road, grip)
    PROVE  TypeOK' /\ NeverImplausible' /\ Decelerates(surface')
<1>1. command \in Int /\ brake_cmd' = command
  BY SimulateAssumption DEF HarnessStep, TypeOK
<1>2. Advance(command, road, grip) /\ surface' = road
      /\ UNCHANGED <<mode, previous>>
      /\ over' \in {"no", "stopped", "cut"}
  BY DEF HarnessStep
<1> QED BY <1>1, <1>2, AdvanceFacts DEF TypeOK

(* A step that does not move the car. *)
LEMMA StillFacts ==
    ASSUME TypeOK, NeverImplausible, UNCHANGED <<car, surface>>
    PROVE  NeverImplausible' /\ Decelerates(surface')
<1>1. PEAK[surface] \in Nat /\ car.v \in Nat
  BY VehicleAssumption DEF TypeOK
<1> QED BY <1>1 DEF NeverImplausible, Decelerates

LEMMA SimStep ==
    ASSUME TypeOK, NeverImplausible, [Next]_vars
    PROVE  TypeOK' /\ NeverImplausible' /\ Decelerates(surface')
<1>1. CASE PadAndBreak
  BY <1>1, StillFacts DEF PadAndBreak, TypeOK, Fraction
<1>2. ASSUME NEW grip, Iterate(grip)
      PROVE  TypeOK' /\ NeverImplausible' /\ Decelerates(surface')
  BY <1>2, ControlFacts DEF Iterate
<1>3. ASSUME NEW grip, PlotOracle(grip)
      PROVE  TypeOK' /\ NeverImplausible' /\ Decelerates(surface')
  <2>1. CASE Stopped(car)
    BY <1>3, <2>1, StillFacts DEF PlotOracle, TypeOK
  <2>2. CASE ~Stopped(car)
    BY <1>3, <2>2, ControlFacts DEF PlotOracle
  <2> QED BY <2>1, <2>2
<1>4. CASE Cut
  BY <1>4, StillFacts DEF Cut, TypeOK
<1>5. CASE Over \/ UNCHANGED vars
  BY <1>5, StillFacts DEF Over, vars, TypeOK
<1> QED BY <1>1, <1>2, <1>3, <1>4, <1>5, HarnessFacts DEF Next, Loop

(* Speeds stay natural numbers, slips in [0, 1], the period counter in its *)
(* range.                                                                  *)
THEOREM SimTypeCorrect == Spec => [](TypeOK /\ NeverImplausible)
<1>1. TypeOK /\ NeverImplausible /\ [Next]_vars
        => (TypeOK /\ NeverImplausible)'
  BY SimStep
<1> QED BY <1>1, SimInitType, PTL DEF Spec

(* No brake command, change of road or loop makes a healthy wheel look     *)
(* implausible to diagnostic.c: the rim overshoots the body by one step's  *)
(* grip at most.                                                           *)
THEOREM WheelIsPlausible == Spec => []NeverImplausible
  BY SimTypeCorrect, PTL

(* The body never speeds up nor slows down faster than the road allows,    *)
(* until the freeze brings body and wheel to rest together.                *)
THEOREM DecelIsTheRoads == Spec => RoadDecidesDecel
<1>1. TypeOK /\ NeverImplausible /\ [Next]_vars =>
        [/\ car'.v <= car.v
         /\ \/ car'.v >= car.v - PEAK[surface']
            \/ car.v < V_STATIC_FREEZE + PEAK[surface'] 
               /\ car' = [v |-> 0, rim |-> 0]]_vars
  BY SimStep DEF Decelerates
<1> QED BY <1>1, SimTypeCorrect, PTL DEF Spec, RoadDecidesDecel

-----------------------------------------------------------------------------
(* The oracle's reaction to excess slip. *)

(* hot is not bounded by the period by itself: the steps of excess slip    *)
(* are those since the last control at most, and as long as there are some *)
(* the slip that the next control will see is excessive.                   *)
PeriodInv ==
    /\ hot <= IF at = 0 THEN STEPS_PER_CONTROL ELSE at
    /\ over = "no" /\ hot > 0 =>
          mode \in {"oracle", "plot"} /\ SlipAbove(slip, ABS_SLIP_UPPER)

(* Speeds from the bypass on are not below it in dm/s. *)
LEMMA BypassScale ==
    ASSUME NEW v \in Nat, v >= ABS_LOW_SPEED_BYPASS * SCALE
    PROVE  ~FLt(v \div SCALE, ABS_LOW_SPEED_BYPASS)
<1>1. SCALE \in Nat \ {0}
  BY VehicleAssumption
<1>2. SUFFICES ASSUME v \div SCALE < 14 PROVE FALSE
  BY DEF FLt, ABS_LOW_SPEED_BYPASS
<1> DEFINE q == v \div SCALE
<1>3. q \in Nat /\ v < SCALE * q + SCALE
  BY <1>1
<1>4. q <= 13
  BY <1>2, <1>3
<1> HIDE DEF q
<1>5. SCALE * q <= SCALE * 13
  BY <1>1, <1>3, <1>4
<1> QED BY <1>1, <1>3, <1>5 DEF ABS_LOW_SPEED_BYPASS

(* At a control that sees excess slip above the bypass the oracle lets go. *)
LEMMA OracleReleases ==
    ASSUME TypeOK, SlipAbove(slip, ABS_SLIP_UPPER),
           car.v >= ABS_LOW_SPEED_BYPASS * SCALE
    PROVE  OracleCommand = 0
  BY BypassScale DEF OracleCommand, OracleStep, SlipForCtrl, TypeOK

(* hot after a step. *)
LEMMA HotFacts ==
    ASSUME TypeOK, NEW brake, NEW road, NEW grip, Advance(brake, road, grip)
    PROVE  /\ hot' \in {0, hot + 1}
           /\ hot' # 0 =>
                 /\ mode \in {"oracle", "plot"} /\ brake > 0
                 /\ SlipAbove(slip', ABS_SLIP_UPPER)
                 /\ car.v >= ABS_LOW_SPEED_BYPASS * SCALE
  BY DEF Advance

(* The counter of the period. *)
LEMMA AtFacts ==
    ASSUME TypeOK, NEW brake, NEW road, NEW grip, Advance(brake, road, grip)
    PROVE  IF at + 1 = STEPS_PER_CONTROL THEN at' = 0 ELSE at' = at + 1
  BY SimulateAssumption DEF Advance, TypeOK

LEMMA PeriodControl ==
    ASSUME TypeOK, TypeOK', PeriodInv, over = "no", NEW controlled \in BOOLEAN,
           controlled <=> mode \in {"oracle", "plot"}, NEW grip,
           ControlAndStep(controlled, grip)
    PROVE  PeriodInv'
<1>1. /\ Advance(brake_cmd', surface, grip) /\ UNCHANGED <<mode, over>>
      /\ at = 0 /\ controlled => brake_cmd' = OracleCommand
  BY DEF ControlAndStep
<1>2. /\ at \in Nat /\ at < STEPS_PER_CONTROL /\ STEPS_PER_CONTROL \in Nat
      /\ hot \in Nat
  BY SimulateAssumption DEF TypeOK
<1>3. /\ hot' \in {0, hot + 1}
      /\ hot' # 0 =>
            /\ controlled /\ brake_cmd' > 0
            /\ SlipAbove(slip', ABS_SLIP_UPPER)
            /\ car.v >= ABS_LOW_SPEED_BYPASS * SCALE
  BY <1>1, HotFacts
<1>4. at = 0 /\ hot > 0 => hot' = 0
  <2> SUFFICES ASSUME at = 0, hot > 0, hot' # 0 PROVE FALSE
    OBVIOUS
  <2>1. SlipAbove(slip, ABS_SLIP_UPPER)
    BY DEF PeriodInv
  <2>2. brake_cmd' = 0
    BY <1>1, <1>3, <2>1, OracleReleases
  <2> QED BY <1>3, <2>2
<1>5. IF at + 1 = STEPS_PER_CONTROL THEN at' = 0 ELSE at' = at + 1
  BY <1>1, AtFacts
<1>6. hot' <= IF at' = 0 THEN STEPS_PER_CONTROL ELSE at'
  BY <1>2, <1>3, <1>4, <1>5 DEF PeriodInv
<1>7. hot' > 0 => mode' \in {"oracle", "plot"} /\ SlipAbove(slip', ABS_SLIP_UPPER)
  BY <1>1, <1>2, <1>3
<1> QED BY <1>6, <1>7 DEF PeriodInv

LEMMA PeriodStep ==
    ASSUME TypeOK, TypeOK', PeriodInv, [Next]_vars
    PROVE  PeriodInv'
<1>1. CASE PadAndBreak
  BY <1>1 DEF PadAndBreak, PeriodInv
<1>2. ASSUME NEW grip, Iterate(grip) PROVE PeriodInv'
  <2>1. /\ over = "no" /\ mode \in {"no_abs", "oracle"}
        /\ ControlAndStep(mode = "oracle", grip)
    BY <1>2 DEF Iterate
  <2> QED BY <2>1, PeriodControl
<1>3. ASSUME NEW grip, PlotOracle(grip) PROVE PeriodInv'
  <2>1. CASE Stopped(car)
    BY <1>3, <2>1 DEF PlotOracle, PeriodInv
  <2>2. CASE ~Stopped(car)
    <3>1. over = "no" /\ mode = "plot" /\ ControlAndStep(TRUE, grip)
      BY <1>3, <2>2 DEF PlotOracle
    <3> QED BY <3>1, PeriodControl
  <2> QED BY <2>1, <2>2
<1>4. ASSUME NEW command, NEW road, NEW grip, HarnessStep(command, road, grip)
      PROVE  PeriodInv'
  <2>1. mode = "harness" /\ Advance(command, road, grip)
    BY <1>4 DEF HarnessStep
  <2>2. hot' = 0
    BY <2>1, HotFacts
  <2> QED BY <2>2, SimulateAssumption DEF PeriodInv, TypeOK
<1>5. CASE Cut
  BY <1>5 DEF Cut, PeriodInv
<1>6. CASE Over \/ UNCHANGED vars
  BY <1>6 DEF Over, vars, PeriodInv
<1> QED BY <1>1, <1>2, <1>3, <1>4, <1>5, <1>6 DEF Next, Loop

(* The oracle, acting once per period on a slip one step old, never keeps  *)
(* the brake on for more than one period of excess slip.                   *)
THEOREM OracleReactsInTime == Spec => []ReleasedWithinPeriod
<1>1. Init => PeriodInv
  BY SimulateAssumption DEF Init, PeriodInv
<1>2. TypeOK /\ TypeOK' /\ PeriodInv /\ [Next]_vars => PeriodInv'
  BY PeriodStep
<1>3. TypeOK /\ PeriodInv => ReleasedWithinPeriod
  BY SimulateAssumption DEF TypeOK, PeriodInv, ReleasedWithinPeriod
<1> QED BY <1>1, <1>2, <1>3, SimTypeCorrect, PTL DEF Spec
=============================================================================
