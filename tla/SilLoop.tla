------------------------------- MODULE SilLoop -------------------------------
(***************************************************************************)
(* The software-in-the-loop system: run_scenario (scripts/scenarios/       *)
(* harness.py) with its fault injector and PlantLink.recv_actuator         *)
(* (plant/socket_server.py), over a TCP connection, against the ECU of     *)
(* EcuLoop.  The two processes only meet in the two byte streams, held     *)
(* here as the queues up (sensor frames) and down (actuator frames).  A    *)
(* poll that finds no frame in time is a cycle taken before the peer's     *)
(* send, so the timing of both loops is the interleaving.                  *)
(*                                                                         *)
(* The vehicle is abstracted: its speeds at a tick are any of Truths, and  *)
(* it may have stopped after any tick.                                     *)
(*                                                                         *)
(* basis, misses, timeouts, lost, discards, gap and slack are history      *)
(* variables.                                                              *)
(***************************************************************************)
EXTENDS EcuLoop, FaultInjector, FiniteSets

CONSTANTS
    Scenarios,      \* [name, faults, n_ticks, max_cycles]: the injector's list, the
                    \* ticks of duration_s, the cycles of the ECU's duration
    Truths,         \* samples of the plant's truth
    Noises          \* what rng.gauss may add to omega at a tick

ASSUME SilAssumption ==
    /\ \A scn \in Scenarios :
          scn.n_ticks \in Nat \ {0} /\ scn.max_cycles \in Nat \ {0}
    /\ \A s \in Truths : s \in SensorsData /\ s.valid
    /\ Noises \subseteq Int

VARIABLES
    phase,      \* of run_scenario: send, recv; then returned or raised
    k,          \* the tick, from 1
    scenario,   \* its parameters
    mem, surface,   \* the injector and the road
    last_brake, \* the command the plant applies and reports
    up,         \* sensor frames on the wire: [sample, intact, tick]
    down,       \* actuator frames on the wire: [sent, basis, cycle]
    row,        \* the row the last tick logged, and the frame and cycle of the
                \* last answer, which is the row itself if it is answered
    log,        \* of all rows: the states, and the first tick of each DTC
    cycle,      \* the ECU's cycle counter
    basis,      \* the tick of the ECU's last_good sample, 0 before the first
    misses, timeouts,   \* ECU reads and plant receives that gave nothing
    lost,       \* the ticks without an intact frame
    discards,   \* actuator frames that recv_actuator threw away
    gap,        \* consecutive ticks without an intact frame
    slack       \* frames in flight when the gap began, and timeouts since

plantVars == <<phase, k, scenario, mem, surface, last_brake, row, log, timeouts,
               lost, discards>>
silVars == <<vars, plantVars, up, down, cycle, basis, misses, gap, slack>>

SilInit ==
    /\ Init
    /\ phase = "send"
    /\ k = 1
    /\ scenario \in Scenarios
    /\ mem = FreshMemory(scenario.faults)
    /\ surface = "dry_asphalt"
    /\ last_brake = 0
    /\ up = << >>
    /\ down = << >>
    /\ row = [tick |-> 0, brake |-> 0, status |-> "INIT", dtc |-> {},
              basis |-> 0, cycle |-> 0, answered |-> FALSE]
    /\ log = [states |-> {}, first |-> [d \in DtcBits |-> 0]]
    /\ cycle = 0
    /\ basis = 0
    /\ misses = 0 /\ timeouts = 0 /\ lost = {} /\ discards = 0
    /\ gap = 0 /\ slack = 0

After(q, n) == SubSeq(q, n + 1, Len(q))

PlantOpen == phase \in {"send", "recv"}

-----------------------------------------------------------------------------
(* run_scenario, steps 1 to 4 of a tick: environment, signal and wire      *)
(* faults, and the send.  sendall into a connection the ECU has closed     *)
(* raises (the loop breaks and returns) or is lost in the socket.          *)
PlantSend(truth, noise) ==
    LET env  == ApplyEnvironment(scenario.faults, mem, surface, k)
        raw  == [truth EXCEPT !.brake_pressure = last_brake]
        sig  == FilterSensor(scenario.faults, env.mem, raw, k, noise)
        wire == FilterWire(scenario.faults, sig.mem, k)
        item == [sample |-> sig.frame, intact |-> wire.flipped = {}, tick |-> k]
        good == sig.frame # None /\ wire.flipped = {}
    IN  /\ phase = "send"
        /\ surface' = env.surface
        /\ mem' = IF sig.frame = None THEN sig.mem ELSE wire.mem
        /\ \/ /\ phase' = "recv"
              /\ up' = IF sig.frame = None THEN up ELSE Append(up, item)
              /\ lost' = IF good THEN lost ELSE lost \cup {k}
              /\ gap' = IF good THEN 0 ELSE gap + 1
              /\ slack' = IF gap = 0 THEN Len(up) + Len(down) ELSE slack
           \/ /\ sig.frame # None /\ ~running
              /\ phase' = "returned"
              /\ UNCHANGED <<up, lost, gap, slack>>
        /\ UNCHANGED <<vars, k, scenario, last_brake, down, row, log, cycle,
                       basis, misses, timeouts, discards>>

(* Mutant: the state is assigned, not appended. *)
LoggedLast(r) ==
    [states |-> {r.status},
     first  |-> [d \in DtcBits |->
                    IF log.first[d] = 0 /\ d \in r.dtc THEN r.tick
                    ELSE log.first[d]]]

Logged(r) ==
    [states |-> log.states \cup {r.status},
     first  |-> [d \in DtcBits |->
                    IF log.first[d] = 0 /\ d \in r.dtc THEN r.tick
                    ELSE log.first[d]]]

(* Steps 6 and 7: the vehicle moves, the row is logged, the loop goes on   *)
(* or ends.                                                                *)
EndTick(stopped) ==
    /\ log' = Logged(row')
    /\ phase' = IF stopped \/ k = scenario.n_ticks THEN "returned" ELSE "send"
    /\ k' = IF stopped \/ k = scenario.n_ticks THEN k ELSE k + 1
    /\ UNCHANGED <<vars, scenario, mem, surface, up, cycle, basis, misses, lost,
                   gap>>

(* Mutants: the frame that is returned stays in the buffer; the newest     *)
(* frame is returned and the older ones are kept; no timeout.              *)
PlantRecvPeeks(n, stopped) ==
    /\ phase = "recv"
    /\ n <= Len(down)
    /\ LET a == down[1].sent
       IN  /\ last_brake' = a.brake_command
           /\ row' = [tick |-> k, brake |-> a.brake_command,
                      status |-> a.ecu_status, dtc |-> a.dtc_code,
                      basis |-> down[1].basis, cycle |-> down[1].cycle,
                      answered |-> TRUE]
    /\ EndTick(stopped)
    /\ UNCHANGED <<down, timeouts, discards, slack>>

PlantRecvNewest(n, stopped) ==
    /\ phase = "recv"
    /\ n <= Len(down)
    /\ LET a == down[n].sent
       IN  /\ last_brake' = a.brake_command
           /\ row' = [tick |-> k, brake |-> a.brake_command,
                      status |-> a.ecu_status, dtc |-> a.dtc_code,
                      basis |-> down[n].basis, cycle |-> down[n].cycle,
                      answered |-> TRUE]
    /\ down' = SubSeq(down, 1, n - 1) \o After(down, n)
    /\ EndTick(stopped)
    /\ UNCHANGED <<timeouts, discards, slack>>

PlantTimeoutNever(stopped) == stopped /\ FALSE

(* Step 5, recv_actuator: a chunk with n frames arrives; the first one is  *)
(* the answer, the others of the drained batch are discarded.              *)
PlantRecv(n, stopped) ==
    /\ phase = "recv"
    /\ n <= Len(down)
    /\ LET a == down[1].sent
       IN  /\ last_brake' = a.brake_command
           /\ row' = [tick |-> k, brake |-> a.brake_command,
                      status |-> a.ecu_status, dtc |-> a.dtc_code,
                      basis |-> down[1].basis, cycle |-> down[1].cycle,
                      answered |-> TRUE]
    /\ down' = After(down, n)
    /\ discards' = discards + n - 1
    /\ EndTick(stopped)
    /\ UNCHANGED <<timeouts, slack>>

(* Nothing for 50 ms: a placeholder is logged, the brake stays as it was.  *)
PlantTimeout(stopped) ==
    /\ phase = "recv"
    /\ down = << >>
    /\ running
    /\ row' = [tick |-> k, brake |-> last_brake, status |-> "FAULT_DEGRADED",
               dtc |-> {"COMM_TIMEOUT"}, basis |-> row.basis, cycle |-> row.cycle,
               answered |-> FALSE]
    /\ timeouts' = timeouts + 1
    /\ slack' = slack + 1
    /\ UNCHANGED <<last_brake, down, discards>>
    /\ EndTick(stopped)

(* Mutant: a closed connection wins over the answers still to be read. *)
PlantHangupEarly ==
    /\ phase = "recv"
    /\ ~running
    /\ phase' = "raised"
    /\ UNCHANGED <<vars, k, scenario, mem, surface, last_brake, up, down, row,
                   log, cycle, basis, misses, timeouts, lost, discards, gap, slack>>

(* The ECU has closed: recv returns nothing, or a reset when the ECU left  *)
(* frames unread.  run_scenario does not catch the ConnectionError.        *)
PlantHangup ==
    /\ phase = "recv"
    /\ ~running
    /\ down = << >> \/ up # << >>
    /\ phase' = "raised"
    /\ UNCHANGED <<vars, k, scenario, mem, surface, last_brake, up, down, row,
                   log, cycle, basis, misses, timeouts, lost, discards, gap, slack>>

-----------------------------------------------------------------------------
(* The ECU: EcuLoop's cycles, fed from up.  The write fails only once the  *)
(* plant has closed.                                                       *)
Emit(wrote) ==
    /\ wrote \/ ~PlantOpen
    /\ cycle < scenario.max_cycles
    /\ cycle' = cycle + 1
    /\ down' = IF wrote
               THEN Append(down, [sent |-> out', basis |-> basis',
                                  cycle |-> cycle'])
               ELSE down
    /\ UNCHANGED <<plantVars, gap, slack>>

(* The sample that hal_sensors_read fills from the payload of a frame. *)
SensorsRead(raw) == Frame(raw.v_vehicle, raw.omega_wheel, raw.brake_pressure)

(* Mutant: the decoded frame is not removed from the buffer. *)
EcuFreshKeeps(i, wrote) ==
    /\ i <= Len(up)
    /\ up[i].intact /\ \A j \in 1 .. i - 1 : ~up[j].intact
    /\ CycleFresh(SensorsRead(up[i].sample), i - 1, wrote)
    /\ basis' = up[i].tick
    /\ UNCHANGED <<up, misses>>
    /\ Emit(wrote)

(* The read skips (and counts) the damaged frames before an intact one.    *)
EcuFresh(i, wrote) ==
    /\ i <= Len(up)
    /\ up[i].intact /\ \A j \in 1 .. i - 1 : ~up[j].intact
    /\ CycleFresh(SensorsRead(up[i].sample), i - 1, wrote)
    /\ up' = After(up, i)
    /\ basis' = up[i].tick
    /\ misses' = misses
    /\ Emit(wrote)

EcuMissed(wrote) ==
    /\ \A j \in 1 .. Len(up) : ~up[j].intact
    /\ CycleMissed(Len(up), wrote)
    /\ up' = << >>
    /\ basis' = basis
    /\ misses' = misses + 1
    /\ Emit(wrote)

(* A signal, or max_cycles. *)
EcuLeaves ==
    /\ LeaveLoop
    /\ UNCHANGED <<plantVars, up, down, cycle, basis, misses, gap, slack>>

Over == ~running /\ ~PlantOpen /\ UNCHANGED silVars

-----------------------------------------------------------------------------

Plant ==
    \/ \E truth \in Truths, noise \in Noises : PlantSend(truth, noise)
    \/ \E n \in 1 .. scenario.max_cycles, stopped \in BOOLEAN : PlantRecv(n, stopped)
    \/ \E stopped \in BOOLEAN : PlantTimeout(stopped)
    \/ PlantHangup

Ecu == \E wrote \in BOOLEAN :
          \/ \E i \in 1 .. scenario.n_ticks : EcuFresh(i, wrote)
          \/ EcuMissed(wrote)

SilNext == Plant \/ Ecu \/ EcuLeaves \/ Over

SilSpec == SilInit /\ [][SilNext]_silVars

(* The plant's loop never waits without a timeout, whatever the ECU does.  *)
FairPlant == WF_silVars(Plant)

-----------------------------------------------------------------------------
(* Every frame beyond the first that is under way, in either direction, is *)
(* there because of a read that gave nothing: an ECU cycle without a frame *)
(* answers one that the plant has not sent, a plant timeout sends one that *)
(* the ECU has not answered.                                               *)
InFlightEarned ==
    Len(up) + Len(down) + (IF phase = "send" THEN 1 ELSE 0)
        <= 1 + misses + timeouts

(* The plant and the ECU drift apart no further than that: the command     *)
(* applied at a tick answers a frame at most as many ticks old as there    *)
(* were empty reads and lost frames.                                       *)
LagEarned ==
    row.answered => row.tick - row.basis <= misses + timeouts + Cardinality(lost)

(* The plant never applies a command again, nor an older one after a newer *)
(* one, and never one computed from an older sample, timeouts in between   *)
(* or not.                                                                 *)
CommandsInOrder ==
    [][row' # row /\ row'.answered =>
        row'.cycle > row.cycle /\ row'.basis >= row.basis]_silVars

(* A gap in the sensor frames reaches the brake: once more ticks than the  *)
(* watchdog's cycles have gone by without an intact frame, beyond those    *)
(* that the frames in flight and the timeouts account for, the command the *)
(* plant applies is the driver's pedal, in a fault state; and after as     *)
(* many more as the latch needs, FAULT_LATCHED (scenario s4).              *)
GapReachesBrake ==
    phase \in {"send", "returned"} /\ row.answered =>
        /\ gap - slack > WATCHDOG_TIMEOUT_CYCLES =>
              row.status \in FaultStatus /\ row.brake = DRIVER
        /\ gap - slack >= WATCHDOG_TIMEOUT_CYCLES + ABS_FAULT_LATCH_THRESHOLD
              => row.status = "FAULT_LATCHED"

(* run_scenario always comes to an end, also when the ECU stalls, leaves   *)
(* or floods it.                                                           *)
ScenarioEnds == <>(~PlantOpen)
=============================================================================
