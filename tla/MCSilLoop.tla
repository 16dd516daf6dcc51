------------------------------ MODULE MCSilLoop ------------------------------
(***************************************************************************)
(* Small versions of the scenarios: s1 without a fault, s2 with ice, s3    *)
(* with a sensor stuck from the first tick, s4 with a short and with a     *)
(* lasting gap, s5 with bit flips, s6 with a noisy sensor.  History        *)
(* variables say what the frames that the ECU received were like, and what *)
(* it has answered itself, so that the verdicts of the scripts can be      *)
(* compared with what happened.                                            *)
(***************************************************************************)
EXTENDS Verdicts

Rolling == Frame(30, 10, 0)     \* slip 0: apply
Locked  == Frame(30, 0, 0)      \* slip 100 %: release

BothTruths == {Rolling, Locked}

(* One sigma of s6's noise: it makes a rolling wheel implausibly fast, or  *)
(* release, and takes a locked one out of range, or not.                   *)
Spikes == {-5, 5}

Fault(kind, from, to, target, n) ==
    [kind |-> kind, t_start |-> from, t_end |-> to, target |-> target,
     every_n |-> n]

Run(name, list, ticks, cycles) ==
    [name |-> name, faults |-> list, n_ticks |-> ticks, max_cycles |-> cycles]

SmallScenarios ==
    {Run("s1", << >>, 4, 5),
     Run("s2", <<Fault("ice", 2, 3, "ice", 1)>>, 4, 4),
     Run("s3", <<Fault("stuck", 1, 9, 0, 1)>>, 5, 6),
     Run("s4", <<Fault("loss", 2, 3, 0, 1)>>, 4, 5),
     Run("s4", <<Fault("loss", 2, 9, 0, 1)>>, 6, 7),
     Run("s5", <<Fault("crc", 1, 9, 7, 2)>>, 4, 5),
     Run("s6", <<Fault("noise", 2, 3, 0, 1)>>, 4, 4)}

-----------------------------------------------------------------------------

VARIABLES
    flat,       \* received frames in a row, of those in range, with the omega
                \* of the one before: now, and at most
    odd,        \* and in a row implausible or out of range
    told        \* what the ECU has answered that a placeholder says as well

history == <<flat, odd, told>>

RunOf(holds, run) ==
    LET now == IF holds THEN run.now + 1 ELSE 0
    IN  [now |-> now, most |-> IF now > run.most THEN now ELSE run.most]

NoRun == [now |-> 0, most |-> 0]

Odd(s) ==
    \/ OutOfRange(s.v_vehicle, s.omega_wheel)
    \/ RimSpeed(s.omega_wheel) > s.v_vehicle + DIAG_PLAUSIBILITY_EPSILON

Observe ==
    /\ IF basis' # basis
       THEN /\ odd' = RunOf(Odd(cur'), odd)
            /\ flat' = IF OutOfRange(cur'.v_vehicle, cur'.omega_wheel) THEN flat
                       ELSE RunOf(cur'.omega_wheel = dg.last_omega, flat)
       ELSE UNCHANGED <<flat, odd>>
    /\ told' = told \cup ({out'.ecu_status} \cap {"FAULT_DEGRADED"})
                    \cup (out'.dtc_code \cap {"COMM_TIMEOUT"})

HInit == SilInit /\ flat = NoRun /\ odd = NoRun /\ told = {}

HSpec == HInit /\ [][SilNext /\ Observe]_<<silVars, history>> /\ FairPlant

-----------------------------------------------------------------------------

(* Nothing happened that a detector is there for: no plant timeout, no     *)
(* more empty ECU reads than the watchdog allows, and no frames in a row   *)
(* that, with the replays, are as many with one omega as the stuck         *)
(* detector wants.                                                         *)
Quiet ==
    /\ timeouts = 0
    /\ misses <= WATCHDOG_TIMEOUT_CYCLES
    /\ flat.most + misses < DIAG_STUCK_THRESHOLD_CYCLES

(* No false alarm: in a quiet run s1 and s2 fail for no DTC, and s1 and s5 *)
(* fail only when ACTIVE was not reached.  Isolated damaged frames, drift  *)
(* of the two loops and discarded commands never latch the ECU; nor does   *)
(* noise (s6) whose spikes in a row, with the replays, are too few for the *)
(* latch.                                                                  *)
QuietRunsPass ==
    Quiet =>
        /\ scenario.name = "s1" /\ "ACTIVE" \in StatesVisited => S1Main = 0
        /\ scenario.name = "s2" => S2Main = 0
        /\ scenario.name = "s5" /\ "ACTIVE" \in StatesVisited => S5Main = 0
        /\ /\ scenario.name = "s6" /\ "ACTIVE" \in StatesVisited
           /\ odd.most + misses < ABS_FAULT_LATCH_THRESHOLD
           => S6Main = 0

(* s3 passes: once a command has come back that answers the frame in which *)
(* the sensor has been stuck for the threshold, the log has the code and a *)
(* fault state, no later than the threshold and one tick per empty read,   *)
(* as long as recv_actuator has thrown no command away.                    *)
StuckIsSeen ==
    LET start == scenario.faults[1].t_start
        ticks == DIAG_STUCK_THRESHOLD_CYCLES
    IN  scenario.name = "s3" /\ row.basis >= start + ticks /\ discards = 0
            => S3Main(start, ticks + 2 + misses + timeouts) = 0

(* s4 does not pass on the placeholder rows of plant timeouts, which say   *)
(* COMM_TIMEOUT and FAULT_DEGRADED too: when it passes the ECU has itself  *)
(* answered both, unless it latched for a sensor that looked stuck.        *)
PassIsEarned ==
    /\ scenario.name = "s4" /\ S4Main = 0
    /\ flat.most < DIAG_STUCK_THRESHOLD_CYCLES - WATCHDOG_TIMEOUT_CYCLES
    => told = {"COMM_TIMEOUT", "FAULT_DEGRADED"}

(* The verdicts of the scripts are right, whatever the interleaving of     *)
(* plant and ECU: no false alarm, the stuck sensor of s3 is seen in time,  *)
(* and s4 passes only on what the ECU itself has answered.                 *)
VerdictsRight == QuietRunsPass /\ StuckIsSeen /\ PassIsEarned
=============================================================================
