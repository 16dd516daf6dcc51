---------------------------- MODULE MCEcuHistory ----------------------------
(***************************************************************************)
(* EcuLoop with history variables for properties about a whole run: the    *)
(* oracle controller stepped on the same samples, what was received before *)
(* a STUCK code, and how a sample was judged before it was replayed.       *)
(***************************************************************************)
EXTENDS MCEcuLoop, OracleABS

(* The stuck threshold lies beyond the watchdog (10 against 5 cycles). *)
ASSUME StuckAssumption == WATCHDOG_TIMEOUT_CYCLES < DIAG_STUCK_THRESHOLD_CYCLES

VARIABLES
    oracle,     \* previous_command of an OracleABS fed with the same samples
    aligned,    \* no pass-through the oracle does not have since both agreed
    lastOmega,  \* omega of the last received frame that was in range
    repeated,   \* that frame repeated the omega of the one before
    refused     \* a cycle on the last received frame passed the pedal for a
                \* reason other than the CRC rate or STANDBY

hvars == <<vars, oracle, aligned, lastOmega, repeated, refused>>

HInit ==
    /\ Init
    /\ oracle = OracleReset
    /\ aligned = TRUE
    /\ lastOmega = ZeroSample.omega_wheel
    /\ repeated = FALSE
    /\ refused = FALSE

Sample == ForState(cur', last_good', cycles_since_valid')

SampleSlip == SlipProtected(Sample.v_vehicle, Sample.omega_wheel)

(* A cycle in which the ECU's pass-through has no counterpart in the       *)
(* oracle, and one after which both commands are decided by the sample.    *)
Diverges ==
    \/ st'.current \in FaultStatus
    \/ st'.current = "STANDBY" /\ ~VehicleStopped(Sample)

Decisive ==
    \/ VehicleStopped(Sample)
    \/ SlipAbove(SampleSlip, ABS_SLIP_UPPER)
    \/ SlipBelow(SampleSlip, ABS_SLIP_LOWER)

(* A cycle that judged its sample, and did not release. *)
Refuses ==
    /\ cc'.previous_command # 0
    /\ "COMM_CRC" \notin out'.dtc_code
    /\ st'.current # "STANDBY"

Observe ==
    /\ oracle' = OracleStep(oracle, SampleSlip, Sample.v_vehicle, DRIVER)
    /\ aligned' = (~Diverges /\ (aligned \/ Decisive))
    /\ IF cur'.valid /\ ~OutOfRange(cur'.v_vehicle, cur'.omega_wheel)
       THEN /\ lastOmega' = cur'.omega_wheel
            /\ repeated' = (cur'.omega_wheel = lastOmega)
       ELSE UNCHANGED <<lastOmega, repeated>>
    /\ refused' = (Refuses \/ (refused /\ ~cur'.valid))

HCycle == Cycle /\ Observe

HStop ==
    /\ LeaveLoop \/ Terminated
    /\ UNCHANGED <<oracle, aligned, lastOmega, repeated, refused>>

HNext == HCycle \/ HStop

HSpec == HInit /\ [][HNext]_hvars

(* abs_controller.h: the ECU is "the C twin" of the oracle.  On the same   *)
(* samples both give the same command, from boot or from any cycle whose   *)
(* sample decides the command, until the ECU passes the pedal through for  *)
(* a reason of its own (a fault, STANDBY above the cut-in speed).          *)
TwinOfOracle == aligned => cc.previous_command = oracle

(* What a sensor can physically deliver: a number, within the limits of    *)
(* SensorsUsable.                                                          *)
Physical(s) ==
    /\ s.v_vehicle \in -10 .. 1200
    /\ s.omega_wheel \in -1 .. 500

(* No unphysical sample moves the brake: from the cycle that receives one  *)
(* until the next frame, its replays included, the pedal goes through in a *)
(* fault state.  NaN is the hard case: no ordered comparison rejects it.   *)
UnphysicalMeansPedal ==
    running /\ last_good.valid /\ ~Physical(last_good)
        => out.ecu_status \in FaultStatus /\ out.brake_command = DRIVER

(* The replay of the last good sample alone never looks like a stuck       *)
(* sensor: within the watchdog time, STUCK is raised only when two frames  *)
(* really received, one after the other, carried the same omega.           *)
StuckNeedsRepetition ==
    /\ running
    /\ age <= WATCHDOG_TIMEOUT_CYCLES
    /\ "STUCK" \in out.dtc_code
    => repeated

(* A missed cycle replays the last sample, and the sample is judged as it  *)
(* was.  A replay takes the brake from the pedal to a release only when    *)
(* the cycle before was under the one-cycle CRC-rate fault, and when no    *)
(* cycle since the sample was received, its fresh one included, has        *)
(* refused it: each of them released, was under the CRC-rate fault too, or *)
(* passed the pedal in STANDBY, which a fault is enough to leave.          *)
ReplayNeverReleases ==
    [][/\ age' > 0
       /\ cc.previous_command # 0
       /\ cc'.previous_command = 0
       => "COMM_CRC" \in out.dtc_code /\ ~refused]_hvars
=============================================================================
