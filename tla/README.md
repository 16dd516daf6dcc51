# Formal model of the ABS software-in-the-loop project

This directory holds TLA+ modules that model the ABS controller (`src/controller`), the
Python plant it is tested against (`src/plant`) and the scripts that drive both
(`src/scripts`). TLC checks the modules on small instances and TLAPS
proves the main results for every value of the constants. `PROJECT.json` is the
machine-readable index: which definition models which lines, what each run checks, which
hazards the properties are for.

Commands, from this directory:

    tlc -config ecu_control.cfg MCEcuLines      # a run: cfg and module of PROJECT.json
    tlapm EcuLoop_proofs.tla                   # a proof module

## 1. Inventory

Two processes talk over one TCP connection.

    plant process (Python)                               ECU process (C)
    run_scenario -> FaultInjector -> encode_frame  ==>   socket_drv_recv_sensor -> HAL
    Vehicle / Tire                                         | replay rule (main.c)
        ^                                                  | diagnostic_check
    recv_actuator <- FrameDecoder                  <==     | abs_state_update
                                                           | abs_controller_compute
                                                         socket_drv_send_actuator

| Component | Source | State it keeps | Operations | What makes it correct |
|---|---|---|---|---|
| Super-loop | `controller/src/main.c` | last good sample, missed-cycle counter, contexts of the three application modules | one loop body per 10 ms; leaves on signal, failed write, `max_cycles` | stale data is used only within the watchdog, then the driver gets the pedal back; what is sent is what was decided |
| State machine | `app/abs_state.c` | current, previous state, `fault_count`, `cycles_in_state` | `abs_state_update` | latch after exactly N consecutive faults, for good; a healthy cycle recovers from DEGRADED |
| Controller | `app/abs_controller.c` | `previous_command` | `abs_controller_compute` | agrees with the state machine and with the Python oracle, although it holds its last command |
| Diagnostics | `app/diagnostic.c` | last omega, stuck and plausibility counters, CRC window | `diagnostic_check` | each code is raised by, and only by, what it stands for |
| HAL | `hal/*.c` | pointer to the driver, counters | init, read, write, shutdown | `valid` is false unless a frame was read |
| Socket driver | `drivers/socket_drv.c` | receive buffer, statistics, fd | connect, recv, send, close | resynchronises without losing an intact frame, never overflows, never spins |
| Protocol, CRC | `drivers/protocol.h`, `drivers/crc.c`, `plant/protocol.py` | decoder buffer and counters | pack, encode, feed, drain | both ends decode the same stream alike and lay out the same fields; a damaged frame is never delivered |
| Plant link | `plant/socket_server.py` | listener, connection, decoder, mirrored counters | listen, accept, send, `recv_actuator`, close | commands in order, at most once; nothing of a dead connection reaches the next; never waits for ever |
| Fault injector | `plant/fault_injector.py` | frozen omega, saved surface, frame counter | environment, signal and wire hooks | a fault acts in its window and leaves nothing behind |
| Harness | `scripts/scenarios/harness.py` | tick, `last_brake`, rows | `run_scenario` | ends whatever the ECU does; the rows, and what the scripts s1 to s6 conclude from them, say what happened |
| Oracle | `plant/oracle_abs.py` | `previous_command` | `step` | reference of the controller |
| Vehicle, tire | `plant/vehicle.py`, `plant/tire.py` | body speed, wheel speed, distance | `step`, `reset`, `set_surface` | stops under a held pedal; the road limits the deceleration; the wheel stays plausible to the ECU |
| Simulation | `plant/simulate.py`, `scripts/plot_results.py` | brake command, last logged slip | `_run_loop`, `run_python_oracle` | the delayed slip is acted upon within a control period |
| Milestone | `scripts/milestone_w1.py`, `controller/tests/ping_client.c` | frame count, mismatches | `run`, the echo loop | every frame echoed, in lock step, or a verdict of failure |
| Brake test, plots, CSV | `scripts/sil_brake_test.py`, the rest of `plot_results.py` | none beyond a run | | not modelled |

Nothing is persisted and each process has one thread, so the hard behaviour is not
locking or crash recovery. It is

* the **pairing of frames by arrival**: neither frame carries a sequence number, so every
  read that times out on either side shifts one process against the other;
* **replay**: a missed cycle runs the whole chain again on an old sample;
* **counters** (`uint32_t`) that go on counting in states that may last for ever;
* **windows and runs**: CRC rate per window, consecutive faults, stuck repetitions, and
  how they combine when faults of several kinds overlap;
* **resynchronisation** on a damaged stream, for every way TCP may cut it;
* **order dependence** of the fault injector's chain;
* **batches and reconnects** on the plant's link, whose decoder outlives a call and whose
  batch does not;
* **two descriptions of one format** (format strings and C structs, two CRC loops);
* **thresholds of separate files that must fit** (the vehicle's freeze against the slip
  guard, the wheel's overshoot against the ECU's plausibility margin);
* **NaN**, for which every ordered comparison is false.

The hazards in `PROJECT.json` are these, each at its line and with the properties
that would catch it going wrong.

## 2. Modules

| Module | Models | EXTENDS |
|---|---|---|
| `EcuTypes` | protocol constants, samples, `uint32_t` and NaN arithmetic | |
| `AbsController` | `abs_controller.c`: slip and hysteresis law | `EcuTypes` |
| `AbsState` | `abs_state.c` | `AbsController` |
| `Diagnostic` | `diagnostic.c` | `EcuTypes` |
| `EcuLoop` | `main.c` with the HAL's read and write, composing the three | `AbsState`, `Diagnostic` |
| `EcuLifecycle` | `main` around its loop, HAL and driver sessions: start-up, counters, signals, exit | |
| `FailOperational` | abstract specification: what the ECU promises | |
| `OracleABS` | `oracle_abs.py` | `AbsController` |
| `Wire` | frame envelope: encode, scan, header fields, CRC test | |
| `SocketDrv` | `socket_drv_recv_sensor`, `try_extract_frame` and a peer | `Wire` |
| `FrameDecoder` | the plant's decoder in `protocol.py` | `Wire` |
| `Codec` | CRC-16, format strings, C structs; the polynomial remainder as reference | `FrameDecoder` |
| `Milestone` | `milestone_w1.py` against `ping_client.c`, on real bytes | `Codec` |
| `PlantLink` | `socket_server.py` and a client that dies and comes back | `FrameDecoder` |
| `CommandQueue` | abstract specification: what the link promises its caller, in terms of commands under way and of connections that are open, left by their client or gone | |
| `FaultInjector` | the six faults and the chain, as operators | `EcuTypes` |
| `SilLoop` | `run_scenario` and `recv_actuator` against `EcuLoop`, over two queues | `EcuLoop`, `FaultInjector` |
| `Verdicts` | queries of `ScenarioResult`, the assertions of s1 to s6 | `SilLoop` |
| `Vehicle` | `vehicle.py`, `tire.py` | `AbsController` |
| `Simulate` | `_run_loop`, `run_python_oracle`, the plant steps of `run_scenario` | `Vehicle`, `OracleABS`, `Diagnostic` |
| `MC*` | instances, history variables, claims | |
| `EcuLoop_proofs`, `EcuLifecycle_proofs`, `Windows_proofs`, `FrameDecoder_proofs`, `SocketDrv_proofs`, `PlantLink_proofs`, `Simulate_proofs`, `SilLoop_proofs` | theorems | the module they are about (`Windows_proofs`: `MCDiagnostic` and `MCFaultInjector`) |

### State and actions

* **EcuLoop.** Variables have the names of `main.c` (`cur`, `last_good`,
  `cycles_since_valid`, contexts `st`, `cc`, `dg`); `errors_crc` is the driver's counter,
  `out` the last frame sent. One loop body is one step: the process is single threaded and
  shows nothing in between. `CycleFresh` is a body whose `hal_sensors_read` succeeded,
  `CycleMissed` one where it timed out or failed (main treats both alike); `Process` is
  the rest of the body. The slip is computed once, as main does, and used by state machine
  and controller. `LeaveLoop` is the head of the loop. Parameters: every threshold, the
  width of `uint32_t`, the samples the plant may send. `age` and `faultRun` are history:
  missed cycles and consecutive faulty cycles as an observer counts them, without wrap.
* **EcuLifecycle.** One action per step of start-up that can fail, per loop pass (outcome of
  the read and of the write), for the head of the loop and for the exit; `Signal` may happen
  anywhere. `seen` is the history the counters are compared with.
* **Numbers.** Speeds are dm/s and rad/s integers, so all thresholds and the rim speed are
  exact; slip is a fraction. Rounding of binary32 is abstracted. NaN is a value of its own.
* **Diagnostic** keeps the order of the CRC window: judge and clear first, then add this
  cycle's errors. `CommDtc` and `CrcWindow` are the two halves of that block.
* **SocketDrv.** One action per pass of the extraction loop, named for its outcome, and
  one per outcome of poll and recv. `Receive(n)` takes any number of bytes that are there
  and fit. The peer sends segments and may close. The bytes are real bytes; the
  checksum is the parameter `Crc`. `taken` is history: all bytes received so far.
* **FaultInjector** operators work on `[fields, memory of the faults]`; time is in ticks.
  A damaged frame is the set of offsets with an odd number of flips.
* **SilLoop.** TCP is lossless and ordered, so a direction of the connection is a queue of
  frames, one item per frame; that the driver may treat it so is what the `SocketDrv` runs
  establish (no intact frame is lost, a damaged one costs one CRC error). A poll that finds
  nothing in time is a cycle taken while the queue is empty, so timing is interleaving.
  `PlantSend` is steps 1 to 4 of a tick, `PlantRecv(n, stopped)` step 5 with a chunk of `n`
  frames of which all but the first are discarded, `PlantTimeout` the 50 ms timeout,
  `PlantHangup` the uncaught `ConnectionError`. The vehicle is abstracted: any sample of
  `Truths` at any tick, stopped after any tick. `log` is what the result's lists are asked
  for: the states seen and the first tick of each code. `Verdicts` evaluates the scripts'
  assertions on it; those on the stopping distance are left out. The Gaussian noise of s6 is
  any element of `Noises` at each tick. A timeout writes a placeholder row, which keeps the
  basis and the cycle of the last command and is marked as not `answered`. `MCSilLoop` adds
  what the frames the ECU received were like (`flat`, `odd`) and what the ECU answered itself
  (`told`), as history.
* **PlantLink.** A connection is the bytes sent, how many of them are read, and whether the
  client still holds it. `RecvCall` is the head of `recv_actuator` (drain what is held),
  `RecvChunk(n)` one round of its loop, `RecvNothing` its timeout or `ConnectionError`.
  `MCPlantLink` adds the commands under way on the connection and on the one that waits to
  be accepted, computed by the decoder itself, as the history that refines `CommandQueue`;
  the status of the two connections is mapped from `conn` and `backlog`.
* **FrameDecoder.** A pass of `_try_one` is the scan (`Resync`), what it finds (`Outcome`) and
  what it leaves (`After`, `FrameOf`); `DrainAll` is the loop of `drain`, with the tail calls
  of `_try_one`, as a recursive function over all decoders.
* **Codec.** A `uint32_t` is a pair of halves, a float its four bytes: packing moves bytes and
  is checked as such. `Remainder` is polynomial division over sets of exponents and shares
  nothing with the shift register it is compared with.
* **Milestone.** One action per step of `run` that can see the client. The script's own
  timeout (2 s) is `NoAnswer`; latency is the choice `slow`.
* **Vehicle.** Body and rim speed in integer units. The tire is a set: any friction that the
  shape of the curve allows at this slip (none at slip 0, some at a slip from the lower
  threshold on, never more than the peak). What holds for the set holds for the formula.
* **Simulate.** `mode` says which loop runs. The step counter is kept modulo the control
  period and `Cut` may end the loop anywhere, which covers every duration. `hot` is history.

## 3. Runs

Thresholds are reduced in proportion; each bound is named in its cfg.

| Run | Checks | Bounds, and why they are enough |
|---|---|---|
| `ecu_control` | `ActiveMeansReleased`, `BlindMeansPedal`, `CountersAgree`, `UnphysicalMeansPedal`, `TwinOfOracle`, `StuckNeedsRepetition`, `FailOperationalSpec`, `ReplayNeverReleases` | eight samples, one per region of the control law and of the range checks (apply, hold, release with and without the driver braking, bypass, out of range, NaN, speed at the slip guard); `U32 = 5` so that `fault_count`, `cycles_since_valid` and its product with the period all wrap; latch 2, watchdog 2, so every run length around both occurs, and a sample is replayed twice; stuck threshold 3. The specification is `LineSpec`: the loop with its history on one of two lines. The *clean* one brings every sample, no CRC error, and the loop may stop anywhere. The *noisy* one has CRC windows of 1 cycle and an error in any read, so that the CRC-rate fault falls on the fresh cycle, on either replay, on several or on none; its samples roll, lock with and without the driver braking, and crawl (which leads to STANDBY), and the loop goes on. Without its exception for STANDBY, or the one for the CRC-rate fault, `ReplayNeverReleases` is violated |
| `ecu_live` | `SilenceLatches`, `CleanLinkRecovers` | watchdog 1, latch 2, CRC windows of 2 cycles, up to 1 error per read: every position of errors in a window, with and without frames; implausible, stuck, crawling and clean samples (a crawling one, because in a silence the replay of a moving one ends in STUCK by itself) |
| `ecu_lifecycle` | `NothingLeftOpen`, `SummaryHonest`, `StopEnds` | no limit, limits of 1 and 3 cycles; unlimited runs are cut at 4 cycles. Each cycle only adds to counters, so longer runs repeat the same steps |
| `windows` | `CrcWindowExact`, `PatchesRestore`, `HeldWhileStuck`, `NoTraceOutside` | two parts that share no state, each run driving one of them. The diagnostics: windows of 3 cycles, totals modulo 8, no end, so the total wraps at every position of a window, any number of times. The injector: all windows in 5 ticks, pairs of ice patches in both list orders, and chains of three signal and wire faults in several orders, two stuck sensors |
| `sock_stream` | `TypeOK`, `RoomToReceive`, `NothingIntactLost`, `DecodersAgree`, `ExtractEnds` | every sequence of up to 3 segments (intact, flipped, wrong type, wrong size, oversized, false headers) cut into any chunks; payload of 1 byte, at most 3; the buffer of 11 bytes is smaller than the stream, so it fills |
| `sil_order` | `InFlightEarned`, `LagEarned`, `GapReachesBrake`, `VerdictsRight`, `GapIsSeen`, `ResultKept`, `CommandsInOrder`, `ScenarioEnds` | scenarios of 4 ticks, fault-free, with a short gap and with bit flips, with one cycle more: room for an empty read on each side; ice and noise (in ticks 2 and 3) with 4 cycles; a sensor stuck from tick 1 through 5 ticks; a gap from tick 2 through 6 ticks with 7 cycles: watchdog 1 plus latch 2, plus frames in flight. The stuck threshold is 3, so the fault-free runs go beyond it, and raise STUCK when the truth stands still. Noise of 5 rad/s makes a rolling wheel implausible or locking, and takes a locked one out of range. With either threshold of `GapReachesBrake` one lower it is violated |
| `plant_link` | `DecoderBelongs`, `BytesAccounted`, `QueueSpec` | two connections, three segments in all (commands, a flipped and a foreign one, one of the wrong size, half of one, garbage with two false headers) in chunks of up to 9 bytes: batches of two commands, a half left by the first client and completed by nobody, closes and resets at every byte |
| `braking` | `NeverImplausible`, `RoadDecidesDecel`, `ReleasedWithinPeriod`, `AlwaysStops` | units of 5 mm/s and 1 ms steps with the code's own ratios (rim gain 30, 0.6 m/s of rim per step at 100 bar); from 2 m/s, so that the bypass, the slip guard, the freeze and the plausibility check's lower speed are all crossed; commands on both sides of the freeze's 1 bar and of the saturation; two roads |
| `milestone` | `EchoFaithful`, `CrcIsRemainder`, `FlipNeverDelivered` | 0, 1 and 3 frames (the quantiles need 2) with the float images the script sends and timestamps that hold the magic's bytes; clients that leave after 2 frames or at any point; real sizes and the real checksum |

Deadlock is checked in every run but `crc_rolling_claim`, which ends with the first late
window. Where a process has really ended (`Terminated`, `Over`,
`Exited`, `Done`) the specification stutters.

### What the properties mean

* `BlindMeansPedal`, `FailOperationalSpec`: without fresh frames for longer than the
  watchdog, the driver's pedal goes through, whatever counters wrap. `FailOperational` is
  the promise of ARCHITECTURE.md section 6 with no samples, detectors or code counters.
* `CountersAgree`: the code's counters equal what happened, up to the point where no
  decision depends on them. It is also the heart of the proofs.
* `ActiveMeansReleased`: two modules read the same thresholds separately and the controller
  holds its last command; still, ACTIVE and an applied brake never coincide.
* `UnphysicalMeansPedal`: a sample that no sensor can deliver never moves the brake, nor do
  its replays; for NaN this rests on a single `isfinite` test.
* `ReplayNeverReleases`: a replay takes the brake from the pedal to a release only right after
  a cycle under the one-cycle CRC-rate fault, and never when any cycle since the sample was
  received (`refused` is their history) passed the pedal for a reason of the sample's own. The
  exceptions are real. The fault may fall on the fresh cycle, but with the code's watchdog of 5
  also on a replay: the fresh cycle releases, the first replay closes the CRC window and passes
  the pedal, the second releases again. And in STANDBY, with a sliding wheel and the pedal not
  pressed, the fault on a replay takes the ECU to FAULT_DEGRADED and the next replay to MONITOR,
  which releases although the fresh cycle did not.
* `TwinOfOracle`: as far as abs_controller.h's "C twin" is true.
* `CrcWindowExact`: every error counts in exactly one window; after a wrap of the driver's
  total errors go uncounted until it has
  caught up, but no wrap raises a code that was not earned.
* `VerdictsRight`, `GapIsSeen`: the scripts' verdicts against what happened. `QuietRunsPass`:
  no false alarm, whatever the interleaving, in a run without a plant timeout, with no more
  empty reads than the watchdog allows, and in which the frames in a row with one omega
  together with the replays stay below the stuck threshold; for s6, also the odd frames in a
  row with the replays below the latch. Both bounds are tight: one more and the property fails,
  since a healthy wheel whose omega stands still for the threshold does raise STUCK.
  `StuckIsSeen`, `GapIsSeen`: a stuck sensor and a gap are seen, in time, unless
  `recv_actuator` has thrown a command away: the discarded one may be the only one that carried
  STUCK, and COMM_TIMEOUT then hides it. `PassIsEarned`: the placeholder rows of plant timeouts
  say COMM_TIMEOUT and FAULT_DEGRADED, which s4 asserts, but s4 passes only when the ECU has
  answered both itself, unless it latched for a sensor that looked stuck.
* `CommandsInOrder`: also across placeholder rows, which keep the cycle of the command before.
* `ResultKept`: an ECU that ends by its cycle limit costs the scenario its result only if
  the limit is smaller than the ticks plus the ECU's empty reads.
* `DecodersAgree`: the C driver in chunks and the Python decoder at once make the same of a
  stream. Two differences are in the code and in the statement: only the plant takes actuator
  frames, and a good frame of another size is a frame to the plant, an error to the driver.
* `QueueSpec`: `recv_actuator` on bytes implements the queue that `SilLoop` assumes. A command
  is lost only behind the one that is returned, or when its connection ends (its client leaves
  it, the plant closes, the next connection replaces it); a timeout means that no whole command
  was there, an error that, besides, the client had left.
  `DecoderBelongs` also says that the chunking never matters. A batch is
  discarded, not kept, so the drain at the head of `recv_actuator` never finds a frame.
* `NeverImplausible`: vehicle and diagnostics fit. The wheel overshoots by one Euler step of
  friction and no more, because slip is clamped at 0 once the rim is ahead.
* `AlwaysStops`: needs the freeze at or above the slip guard (`VehicleAssumption`).
* `EchoFaithful`: every echo is the image of the frame it answers. A script that aborts at
  its timeout cannot be off by a frame, unlike `run_scenario`.
* `PatchesRestore`: its hypothesis `WellPlaced` (patches a tick apart, or one right behind the
  other in list order as well as in time; none lays the road's own surface) is what the code
  needs; without it the claim is false, as `fault_window_claim` shows.
* `HeldWhileStuck`: of a stuck fault behind which nothing writes omega. A loss may swallow the
  first frames of its window, before the freeze or after it.
* `InFlightEarned`, `LagEarned`: the drift of the two loops is bounded by the empty reads
  that occurred and never grows by itself.

### Disagreements with documents (`violation` runs)

| Run | Statement | What the code does |
|---|---|---|
| `fault_window_claim` | a fault is "active only between" its bounds | two overlapping ice patches leave the road icy for good |
| `crc_rolling_claim` | "a rolling 100-cycle window", "above the threshold → DTC" | the counter is judged and cleared every 100 cycles: a burst across a boundary is split in two, and is not reported, then or within a further window, although more errors than the threshold lie within 100 cycles. In the run: windows of 4, threshold 3, two errors on either side |
| `distance_claim` | "trapezoidal distance update" | the speed is advanced before it is used, so each braking step is short by `dv*dt` |

Met on the way and not stated as runs:

* ECU: PROTOCOL.md:145 says of INIT "awaiting first valid frame", but the first cycle
  without a frame already reports FAULT_DEGRADED and ten of them latch; MONITOR is documented as "Brake applied", but a
  recovery enters it whatever the slip and the controller releases in that same cycle; the
  range check of the state machine, documented as redundant to the diagnostic's, lets NaN
  pass.
* Driver: socket_drv.h:35 says `timeout_ms` bounds the call, but every chunk that completes
  no frame restarts poll with the full timeout. PROTOCOL.md's latency table counts an
  envelope of 9 bytes, the code's has 7.
* Loop: PROTOCOL.md:197 calls plant and ECU "lock-stepped"; after one ECU cycle without a
  frame each tick applies the answer to an earlier one. On its own timeout the harness logs
  FAULT_DEGRADED ("passing driver pedal through") with the last command, release included,
  so two of s4's three assertions can be met by the plant's own placeholder (the third cannot,
  and with it s4 passes only on the ECU's answers, `PassIsEarned`). Replays count
  towards STUCK. `run_scenario` loses its result when the ECU leaves first, because only the
  error of `sendall` is caught.
* Link: no code waits for a reconnect on the next call, as the module's docstring says; the
  error counters start again at a reconnect while the frame counters go on.
* `stopping_distance` of a run that was cut is the distance so far. `decode_one` returns as
  consumed what the buffer lost less the bytes dropped, which is not where the next frame
  starts.
* Milestone: fewer than two frames raise in `statistics.quantiles`; "0 dropped frames" is
  judged by CRC errors alone; frame 1's echo is within the tolerance of frame 0's speed, so
  a slip of one frame at the start would not count.

## 4. Fairness

* `EcuLoop!FairSpec`: WF of `Cycle`. `clock_nanosleep` with an absolute deadline wakes the
  loop every period, and the receive inside ends once the line is quiet for poll's timeout
  or a frame is complete (bytes that trickle in for ever without a frame would keep it
  there; the plant sends whole frames, one per tick). Liveness is stated for
  runs in which the loop is not left (`[]running`).
* `EcuLifecycle!Spec`: WF of `Main`: each of its system calls returns (poll has a timeout, the
  sleep a deadline, connect gives up), under the same proviso.
* `SocketDrv!FairSpec`: WF of `Extract` alone. The extraction loop contains no call that
  waits. Nothing is assumed of the peer.
* `SilLoop!FairPlant`, in `MCSilLoop!HSpec`: WF of `Plant` alone, since every wait of the plant has a timeout and
  the ECU sends whole frames.
  Nothing is assumed of the ECU: it may stall, flood or leave.
* `Simulate!Spec`: WF of `Loop`, sequential programs that wait for nothing. The harness is
  not in it, since it waits for the ECU.

## 5. Proofs

Eight modules hold theorems; each extends the module of the specification it is about. The
assumptions are the named `ASSUME`s of the modules, and hold of the code's constants:

* positive thresholds; `WatchdogAssumption` (5 cycles of 10 ms are within 50 ms);
* `NoEarlyWrap`, `NoContentWrap`: a `uint32_t` holds one silence up to the latch, and one run
  of stuck or implausible samples up to the latch. Wraps after the latch are covered;
* `StuckAssumption`: the watchdog is shorter than the stuck threshold (5 below 10 cycles), only for
  `ReplaysAreNotStuck`;
* `WindowAssumption`, `CrcBound`: a `uint32_t` counts the cycles of one CRC window, and the
  errors of one cycle;
* `MarginAssumption`: one step of friction and wheel fits in the plausibility margin;
  `VehicleAssumption` for the vehicle's constants;
* `SilAssumption`: a scenario has at least one tick, noise is a number; `LatchAssumption`: the latch takes more than
  one faulty cycle (10 in the code), only for `GapsAreSeen`: with 1 the ECU latches without ever
  being FAULT_DEGRADED, and s4's assertion would be wrong;
* `InjectorAssumption`: the elements of `FaultLists` are fault lists (a patch's target is a
  surface, another fault's a number, `every_n` is positive), None is not a surface;
* for the driver, a buffer that holds one worst-case frame (256 >= 71); for the link,
  `LinkAssumption` (an actuator payload within the limit, recv asks for at least one byte, what a
  client sends are bytes, None is not a connection);
* for the round trip, a hypothesis of the theorem: length and checksum of the frame fit their
  16-bit fields, as they do in the code (payloads of at most 64 bytes, a CRC-16).

| Module | Theorem | Statement |
|---|---|---|
| `EcuLoop_proofs` | `TypeCorrect` | `Spec => []TypeOK` |
| | `CountersCorrect` | `Spec => []CountersAgree` |
| | `ActiveReleases` | `Spec => []ActiveMeansReleased` |
| | `BlindIsSafe` | `Spec => []BlindMeansPedal` |
| | `LatchIsFinal`, `LatchIsEarned` | `Spec => LatchedForever`, `Spec => LatchNeedsRun` |
| | `LoopKeepsPromise` | `Spec => FailOperationalSpec` (refinement) |
| | `ReplayIsQuiet` | `HSpec => ReplayNeverReleases` (action property) |
| | `UnphysicalIsHarmless` | `HSpec => []UnphysicalMeansPedal` |
| | `TwinIsExact` | `HSpec => []TwinOfOracle` |
| | `ReplaysAreNotStuck` | `HSpec => []StuckNeedsRepetition` |
| `EcuLifecycle_proofs` | `NothingStaysOpen`, `SummaryIsHonest` | `Spec => []NothingLeftOpen`, `Spec => []SummaryHonest` |
| `Windows_proofs` | `WindowIsExact` | `DiagSpec => []CrcWindowExact` |
| | `InjectorInvariance` | `InjectorSpec => []InjectorInv` |
| | `PatchesLeaveNoTrace`, `StuckMeansHeld`, `WindowsEnd` | `InjectorSpec => []PatchesRestore`, `... []HeldWhileStuck`, `... []NoTraceOutside` |
| `FrameDecoder_proofs` | `ChunksDoNotMatter` | draining after each of two chunks gives the frames, leftover and counters of draining once |
| | `DecodingUndoesEncoding` | `Encode(type, payload)` in front of any bytes, fed to an empty decoder, gives that frame first |
| `SocketDrv_proofs` | `DriverTypeCorrect`, `OverflowIsDead` | `Spec => []TypeOK`, `Spec => []RoomToReceive` |
| | `TwoDecodersOneStream` | `Spec => []DecodersAgree` |
| `PlantLink_proofs` | `LinkInvariance` | `Spec => []LinkInv` |
| | `DecoderIsOfItsConnection`, `NoByteUnaccounted` | `Spec => []DecoderBelongs`, `Spec => []BytesAccounted` |
| | `LinkImplementsQueue` | `HSpec => QueueSpec` (refinement) |
| `Simulate_proofs` | `SimTypeCorrect`, `WheelIsPlausible` | `Spec => [](TypeOK /\ NeverImplausible)` |
| | `DecelIsTheRoads` | `Spec => RoadDecidesDecel` (action property) |
| | `OracleReactsInTime` | `Spec => []ReleasedWithinPeriod` |
| `SilLoop_proofs` | `FramesAreEarned`, `CommandsAreRecent` | `SilSpec => []InFlightEarned`, `SilSpec => []LagEarned` |
| | `CommandsStayInOrder` | `SilSpec => CommandsInOrder` (action property) |
| | `GapsReachTheBrake` | `SilSpec => []GapReachesBrake` |
| | `GapsAreSeen` | `SilSpec => []GapIsSeen` |
| | `ResultsAreKept` | `SilSpec => []ResultKept` |

The latch and type theorems have no run of their own: in `ecu_control` the refinement
`FailOperationalSpec` implies the two about the latch.

**EcuLoop_proofs.** `TypeCorrect` is inductive by itself. For the safety results the
inductive invariant is

    IInv == TypeOK /\ CountersAgree /\ ActiveMeansReleased /\ SentAgrees

`BlindMeansPedal` is not inductive: a wrapped `cycles_since_valid` looks like a short
silence. `CountersAgree` excludes that: past the watchdog and before the latch, the counter
exceeds it by at most the length of the run of faults, which is below the latch threshold,
so the counter cannot have wrapped; after the latch it no longer matters. `SentAgrees` ties
the frame sent to the contexts. The proof goes through a *view* of a cycle: lemma
`CycleView` reduces each step to what an observer sees (missed or not, faulty or not, new
mode, new brake), and the invariant and the refinement are proved from the view.
`CInv`, the part of `IInv` that does not depend on what the frames carry, is inductive as
well, and is what the composed system uses.

`ReplayNeverReleases` compares a cycle with all earlier ones on the same sample. `RInv` adds
`ReplayReady`, what the cycle before left behind (a state, a command and detector counts from
which the same sample is judged the same), and `CountsBounded`: the stuck and plausibility
counts exceed their thresholds by less than the run of faults, so neither wraps before the
latch. `RefusedForGood` carries the verdict over any number of replays: a sample that some
cycle has refused does not call for a release, or has a content fault, which every further
replay keeps (`ContentFaultStays`).

The last four theorems are about the loop with its history (`MCEcuHistory`). The history
observes (`HistoryObserves`), so `IInv` holds there too.
`UnphysicalIsHarmless` and `TwinIsExact` follow from `IInv` and one cycle.
`ReplaysAreNotStuck` needs `StuckTracks`: the
detector compares with the omega of the last frame received in range, and has counted no more
than the replays since.

**EcuLifecycle_proofs.** `LifeInv` says for each place in `main` what is open (`Acquired`),
that the counters of driver and HAL are those of the history (`Accounted`), and how the
cycles stand to the limit (`WithinLimit`).

**Windows_proofs.** `WindowInv`: the window's clock is the history's; the driver's total
is never ahead of the last one seen; the errors in the window are those since it was opened,
all of them before the first wrap, at most those after it. The last clause is why a wrap can
hide errors and cannot invent them.

The injector's three hooks are chains through the list of faults, for which the module has its
own induction (`UpTo`, again from `NatLeast`). `EnvironmentIsChain`, `SensorIsChain` and
`WireIsChain` replace the recursive function of each hook by the states behind each fault;
`EnvStepFacts`, `SigStepFacts` and `WireStepFacts` say what one fault does to them, and the
rest is induction along the list. `PatchesRestore` alone is not inductive: `Laid` adds which
patches remember, and what. In the middle of a tick the first faults have seen it and the
others have not, so the induction is on `InForce(k)`, the patches in force behind the k-th
fault; `OneInForce` is where the hypothesis `WellPlaced` is needed. `HeldWhileStuck` needs
`Holding`: what was sent first in the window is what the fault remembers, which a later loss
in the same tick cannot undo (`StuckChain`).

**SocketDrv_proofs.** `DriverTypeCorrect`: `rx_len` never exceeds the buffer, for every
stream, chunking, checksum and payload limit. `OverflowIsDead`: a pass that goes back to
poll leaves less than one worst-case frame, so the branch commented "Should never happen"
is dead. The argument is on the scan: `AlignedFacts` says what is left starts with the
magic or is at most one byte, `HeaderFacts` bounds the claimed total.
`TwoDecodersOneStream` rests on `AgreeInv`: while the driver is between two passes, there is a
decoder that the plant's drain of the same bytes passes through and that has the driver's
buffer, payloads and counts (`Stands`). A pass of the driver moves it by one pass of the
plant's (`PassStands`); a pass that waits is the end of a drain (`MoreStands`); bytes received
go behind both buffers, and that the plant's drain over all bytes passes through the same
decoder is `ChunksDoNotMatter`. The driver's buffer is always the end of the stream (`EndOf`),
so a stream without an actuator header never shows the driver one.

**FrameDecoder_proofs.** What a drain computes on a whole stream is an induction over data.
The library's induction theorems cannot be used (they take an operator as a parameter, which no installed prover instantiates), so the module makes its own
from the existence of a least number (`NatLeast`, which the provers can instantiate because its
parameter is a set): `RecursionExists` builds the solution of a recursion whose argument
shrinks, `DrainIsDefined` and `SequenceRecursion` are instances, `PassInduction` and
`SequenceInduction` the induction rules. `ScanResumes` is the heart of `ChunksDoNotMatter`: the
scan keeps one byte back, so a magic that is cut between two chunks is found, and the bytes
dropped are counted once. With `OutcomeStays` (a pass that has its answer has it also with
more bytes behind) follows `DrainChunks`, by induction along the passes over the first chunk.
`DecodingUndoesEncoding` puts the bytes of `Encode` to their places (`EnvelopeBytes`) and
reads them back in one pass (`EnvelopePass`).

**PlantLink_proofs.** `LinkInv` says that the decoder is the one that the bytes received on the
present connection make (`Belongs`); a chunk keeps that by `ChunksDoNotMatter`, and `accept`
by starting anew. `BytesAccounted` is then a fact about one drain (`DrainKeepsBytes`): a pass
moves bytes from the buffer to its frame or to one counter. The refinement maps the link to
the commands that its unread bytes will decode to. `QueueInv` adds that the decoder has
nothing left to give (`Settled`), which is why the drain at the head of `recv_actuator` finds
nothing, and a chunk takes the commands of its batch off the front (`UnderWaySplit`).

**Simulate_proofs.** `TypeOK /\ NeverImplausible` is inductive: a rim behind the body gains at
most one step of friction, a rim ahead of it has slip 0 and none (`StepFacts`).
`ReleasedWithinPeriod` is not; `PeriodInv` adds that the steps of excess slip are those since
the last control, and that while there are some the next control sees an excess.

**SilLoop_proofs.** Every step of the two processes is one of seven *shapes* (`StepShape`:
what it does to the queues and counters), proved once in `ShapeOfStep` from `CInv`. Nothing
about the fault injector or the content of a frame is used, so the results hold for any list
of faults. The inductive invariant `SilInv` has these parts:

* `UpInOrder`, `DownInOrder`: frames are under way in the order of ticks, cycles and samples,
  all newer than what the reader has had. `CommandsInOrder` needs them;
* `Accounted`: every tick up to the last one sent was lost, has its frame on the way up, or an
  answer on the way down, unless the plant has had one at least as recent. With the bound on
  frames under way (`InFlightEarned`, inductive by itself) a counting argument (`CountCover`,
  on cardinalities) gives `LagEarned`. That is why `lost` is the set of ticks;
* `GapTracked`: in a gap the intact frames that remain are fewer than the slack, and from then
  on the ECU has missed at least as many cycles as ticks have gone by and answers are under
  way, so the answer at each position carries what its count demands. `CountersAgree` rules
  out that the ECU's counter wrapped. `GapReachesBrake` alone says nothing of the answers
  still in the queue and is not inductive;
* `Shown`: a count of missed cycles passes through every value, so while no command has been
  thrown away the log is never behind: an answer past the watchdog is preceded, in the log or
  in the queue before it, by COMM_TIMEOUT, and a latched one by a FAULT_DEGRADED one.
  `GapIsSeen` needs it with `GapReachesBrake`, since it speaks of the rows logged before;
* `Kept`: the ECU runs one cycle per sample taken and one per empty read, and while it has
  answered the plant's current tick an answer is under way. `ResultKept` needs both.

**Only model-checked**, and why:

* liveness (`SilenceLatches`, `CleanLinkRecovers`, `StopEnds`, `ExtractEnds`, `ScenarioEnds`,
  `AlwaysStops`): out of the prover's reach;
* `NothingIntactLost`: it is about the segments of its run. In general it is false: garbage
  that claims a frame with a matching checksum swallows what it covers, so a theorem would have
  to assume of the checksum what the run computes. What holds of every stream is
  `DecodersAgree` and, for frames that meet an empty buffer, `DecodingUndoesEncoding`;
* `VerdictsRight`: it needs what each frame of a scenario carries, all the way from the
  injector's list to the plant's log, and holds for the scenarios of the run: with other lists
  of faults a quiet run may well raise a code;
* `EchoFaithful`, `CrcIsRemainder`, `FlipNeverDelivered`: `Codec` and `Milestone` use bitwise
  operators, with which the SMT backend is lost.

## 6. Not modelled

The friction formula (real-valued; its shape is in `Vehicle`), stopping distances and the
numeric envelopes of `simulate.py` and the scripts; plots, CSV, printing, logging, argument
parsing and jitter statistics (nothing depends on them); the noise detector F02 (compiled
out of `diagnostic_check`); partial writes of `socket_drv_send_actuator` (the stream is the
same); `sil_brake_test.py` (`run_scenario` without faults that stops at its first timeout);
`peak_slip`, `decode_one`, `first_state_time` and the two conversions of `protocol.py` that
only tests call.

## 7. What is left

The model is complete as far as the code goes, and every invariant that holds for all values of
the constants is proved, save those that rest on bitwise operators. What stays with TLC is
listed at the end of section 5. A proof of `VerdictsRight` would need assumptions on the lists
of faults and on the truths of each scenario that say about as much as the property.
