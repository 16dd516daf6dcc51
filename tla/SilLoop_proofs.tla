---------------------------- MODULE SilLoop_proofs ----------------------------
(***************************************************************************)
(* Proofs about the software-in-the-loop system, for every list of faults, *)
(* every scenario length, every threshold and every interleaving of the    *)
(* plant and the ECU.  What the fault injector does to a sample is never   *)
(* used: the results hold whatever the frames carry.                       *)
(***************************************************************************)
EXTENDS Verdicts, EcuLoop_proofs, FiniteSetTheorems, SequenceTheorems

-----------------------------------------------------------------------------
(* The two byte streams as queues of frames. *)

Queue(q) == \E S : q \in Seq(S)

LEMMA QueueLen ==
    ASSUME NEW q, Queue(q)
    PROVE  /\ Len(q) \in Nat
           /\ q = << >> <=> Len(q) = 0
<1>1. PICK S : q \in Seq(S)
  BY DEF Queue
<1> QED BY <1>1

LEMMA QueueEmpty == Queue(<< >>) /\ Len(<< >>) = 0
<1>1. << >> \in Seq({})
  OBVIOUS
<1> QED BY <1>1 DEF Queue

LEMMA QueueAppend ==
    ASSUME NEW q, Queue(q), NEW e
    PROVE  /\ Queue(Append(q, e))
           /\ Len(Append(q, e)) = Len(q) + 1
           /\ \A i \in 1 .. Len(q) : Append(q, e)[i] = q[i]
           /\ Append(q, e)[Len(q) + 1] = e
<1>1. PICK S : q \in Seq(S)
  BY DEF Queue
<1> DEFINE T == S \cup {e}
<1>2. q \in Seq(T) /\ e \in T
  BY <1>1
<1>3. Append(q, e) \in Seq(T)
  BY <1>2, AppendProperties
<1> QED BY <1>2, <1>3, AppendProperties DEF Queue

LEMMA QueueAfter ==
    ASSUME NEW q, Queue(q), NEW n \in Nat, n <= Len(q)
    PROVE  /\ Queue(After(q, n))
           /\ Len(After(q, n)) = Len(q) - n
           /\ \A i \in 1 .. Len(q) - n : After(q, n)[i] = q[n + i]
<1>1. PICK S : q \in Seq(S)
  BY DEF Queue
<1>2. Len(q) \in Nat /\ \A i \in n + 1 .. Len(q) : q[i] \in S
  BY <1>1
<1>3. /\ After(q, n) \in Seq(S)
      /\ Len(After(q, n)) = IF n + 1 <= Len(q) THEN Len(q) - (n + 1) + 1 ELSE 0
      /\ \A i \in 1 .. Len(q) - (n + 1) + 1 : After(q, n)[i] = q[n + 1 + i - 1]
  BY <1>2, SubSeqProperties DEF After
<1> QED BY <1>2, <1>3 DEF Queue

-----------------------------------------------------------------------------
(* What a step does to the queues and to the counters. *)

(* A tick is sent: the frame e, damaged or not, or no frame at all. *)
Sent(good, e) ==
    /\ phase = "send" /\ phase' = "recv"
    /\ good \in BOOLEAN /\ e.tick = k /\ e.intact = good
    /\ up' = Append(up, e) \/ (~good /\ up' = up)
    /\ lost' = IF good THEN lost ELSE lost \cup {k}
    /\ gap' = IF good THEN 0 ELSE gap + 1
    /\ slack' = IF gap = 0 THEN Len(up) + Len(down) ELSE slack
    /\ UNCHANGED <<vars, k, scenario, down, row, cycle, basis, misses,
                   timeouts, log, discards>>

(* The plant gives up: the send fails, or the receive finds a hang-up. *)
Closed ==
    /\ \/ phase = "send" /\ phase' = "returned"
       \/ /\ phase = "recv" /\ phase' = "raised"
          /\ ~running /\ (down = << >> \/ up # << >>)
    /\ UNCHANGED <<vars, k, scenario, up, down, row, cycle, basis, misses,
                   timeouts, lost, gap, slack, log, discards>>

NextTick ==
    /\ phase = "recv" /\ phase' \in {"send", "returned"}
    /\ k' = IF phase' = "send" THEN k + 1 ELSE k
    /\ phase' = "send" => k # scenario.n_ticks
    /\ log' = Logged(row')
    /\ UNCHANGED <<vars, scenario, up, cycle, basis, misses, lost, gap>>

(* The answer is the first of n frames. *)
Received(n) ==
    /\ NextTick
    /\ n \in Nat /\ 1 <= n /\ n <= Len(down)
    /\ row' = [tick |-> k, brake |-> down[1].sent.brake_command,
               status |-> down[1].sent.ecu_status,
               dtc |-> down[1].sent.dtc_code,
               basis |-> down[1].basis, cycle |-> down[1].cycle,
               answered |-> TRUE]
    /\ down' = After(down, n)
    /\ discards' = discards + n - 1
    /\ UNCHANGED <<timeouts, slack>>

TimedOut ==
    /\ NextTick
    /\ down = << >> /\ down' = << >>
    /\ row'.tick = k /\ row'.basis = row.basis /\ row'.cycle = row.cycle
    /\ ~row'.answered
    /\ row'.status = "FAULT_DEGRADED" /\ row'.dtc = {"COMM_TIMEOUT"}
    /\ discards' = discards
    /\ timeouts' = timeouts + 1
    /\ slack' = slack + 1

(* A latch that needs more than one faulty cycle is entered from a fault   *)
(* state.                                                                  *)
LatchFollows ==
    ABS_FAULT_LATCH_THRESHOLD > 1 /\ st'.current = "FAULT_LATCHED" =>
        st.current \in FaultStatus

(* A cycle of the ECU answers, unless the plant is gone. *)
Answered(wrote) ==
    /\ running
    /\ wrote \in BOOLEAN /\ (wrote \/ phase \notin {"send", "recv"})
    /\ running' = wrote
    /\ cycle' = cycle + 1
    /\ down' = IF wrote
               THEN Append(down, [sent |-> out', basis |-> basis',
                                  cycle |-> cycle'])
               ELSE down
    /\ st.current = "FAULT_LATCHED" => st'.current = "FAULT_LATCHED"
    /\ LatchFollows
    /\ UNCHANGED <<phase, k, scenario, row, timeouts, lost, gap, slack, log,
                   discards>>

TookFrame(i, wrote) ==
    /\ i \in 1 .. Len(up) /\ up[i].intact
    /\ \A j \in 1 .. i - 1 : ~up[j].intact
    /\ up' = After(up, i)
    /\ basis' = up[i].tick
    /\ misses' = misses
    /\ cycles_since_valid' = 0 /\ age' = 0
    /\ Answered(wrote)

TookNothing(wrote) ==
    /\ \A j \in 1 .. Len(up) : ~up[j].intact
    /\ up' = << >>
    /\ basis' = basis
    /\ misses' = misses + 1
    /\ cycles_since_valid' = Inc32(cycles_since_valid)
    /\ age' = Capped(age + 1, WATCHDOG_TIMEOUT_CYCLES + 1)
    /\ wrote /\ cycles_since_valid' > WATCHDOG_TIMEOUT_CYCLES =>
          "COMM_TIMEOUT" \in out'.dtc_code
    /\ Answered(wrote)

(* The ECU leaves its loop, or nothing happens. *)
Idle ==
    /\ running' => running
    /\ UNCHANGED <<st, cycles_since_valid, age, phase, k, scenario, up, down,
                   row, cycle, basis, misses, timeouts, lost, gap, slack, log,
                   discards>>

StepShape ==
    \/ \E good, e : Sent(good, e)
    \/ Closed
    \/ \E n : Received(n)
    \/ TimedOut
    \/ \E i, wrote : TookFrame(i, wrote)
    \/ \E wrote : TookNothing(wrote)
    \/ Idle

(* The types of what the queues and counters hold. *)
Base ==
    /\ Queue(up) /\ Queue(down)
    /\ scenario \in Scenarios
    /\ phase \in {"send", "recv", "returned", "raised"}
    /\ k \in Nat /\ 1 <= k /\ k <= scenario.n_ticks
    /\ cycle \in Nat /\ basis \in Nat /\ misses \in Nat /\ timeouts \in Nat
    /\ gap \in Nat /\ slack \in Nat
    /\ row.tick \in Nat /\ row.basis \in Nat /\ row.cycle \in Nat
    /\ \A i \in 1 .. Len(up) : up[i].tick \in Nat
    /\ \A j \in 1 .. Len(down) : down[j].basis \in Nat /\ down[j].cycle \in Nat

LEMMA SendShape ==
    ASSUME NEW truth, NEW noise, PlantSend(truth, noise)
    PROVE  (\E good, e : Sent(good, e)) \/ Closed
<1> DEFINE env  == ApplyEnvironment(scenario.faults, mem, surface, k)
           raw  == [truth EXCEPT !.brake_pressure = last_brake]
           sig  == FilterSensor(scenario.faults, env.mem, raw, k, noise)
           wire == FilterWire(scenario.faults, sig.mem, k)
           item == [sample |-> sig.frame, intact |-> wire.flipped = {},
                    tick |-> k]
           good == sig.frame # None /\ wire.flipped = {}
           lone == [sample |-> sig.frame, intact |-> FALSE, tick |-> k]
<1>1. /\ phase = "send"
      /\ \/ /\ phase' = "recv"
            /\ up' = IF sig.frame = None THEN up ELSE Append(up, item)
            /\ lost' = IF good THEN lost ELSE lost \cup {k}
            /\ gap' = IF good THEN 0 ELSE gap + 1
            /\ slack' = IF gap = 0 THEN Len(up) + Len(down) ELSE slack
         \/ /\ phase' = "returned"
            /\ UNCHANGED <<up, lost, gap, slack>>
      /\ UNCHANGED <<vars, k, scenario, down, row, cycle, basis, misses,
                     timeouts, log, discards>>
  BY DEF PlantSend
<1>2. good \in BOOLEAN
  OBVIOUS
<1> HIDE DEF sig, wire
<1>3. item.tick = k /\ item.intact = (wire.flipped = {})
      /\ lone.tick = k /\ lone.intact = FALSE
  OBVIOUS
<1>4. CASE phase' = "returned"
  BY <1>1, <1>4 DEF Closed
<1>5. CASE phase' = "recv" /\ sig.frame = None
  <2>1. good = FALSE /\ up' = up
    BY <1>1, <1>5
  <2>2. Sent(FALSE, lone)
    BY <1>1, <1>3, <1>5, <2>1 DEF Sent
  <2> QED BY <2>2
<1>6. CASE phase' = "recv" /\ sig.frame # None
  <2>1. good = (wire.flipped = {}) /\ up' = Append(up, item)
    BY <1>1, <1>6
  <2>2. Sent(good, item)
    <3> HIDE DEF item, good
    <3> QED BY <1>1, <1>2, <1>3, <1>6, <2>1 DEF Sent
  <2> QED BY <1>2, <2>2
<1> QED BY <1>1, <1>4, <1>5, <1>6

LEMMA EndTickShape ==
    ASSUME NEW stopped, phase = "recv", EndTick(stopped)
    PROVE  NextTick
  BY DEF EndTick, NextTick

LEMMA PlantShape == Plant => StepShape
<1>1. ASSUME NEW truth \in Truths, NEW noise \in Noises,
             PlantSend(truth, noise)
      PROVE  StepShape
  BY <1>1, SendShape DEF StepShape
<1>2. ASSUME NEW n \in 1 .. scenario.max_cycles, NEW stopped \in BOOLEAN,
             PlantRecv(n, stopped)
      PROVE  StepShape
  <2>1. n \in Nat /\ 1 <= n
    OBVIOUS
  <2>2. NextTick
    BY <1>2, EndTickShape DEF PlantRecv
  <2>3. Received(n)
    BY <1>2, <2>1, <2>2 DEF PlantRecv, Received
  <2> QED BY <2>3 DEF StepShape
<1>3. ASSUME NEW stopped \in BOOLEAN, PlantTimeout(stopped) PROVE StepShape
  <2>1. NextTick
    BY <1>3, EndTickShape DEF PlantTimeout
  <2>2. TimedOut
    BY <1>3, <2>1 DEF PlantTimeout, TimedOut
  <2> QED BY <2>2 DEF StepShape
<1>4. CASE PlantHangup
  <2>1. Closed
    BY <1>4 DEF PlantHangup, Closed
  <2> QED BY <2>1 DEF StepShape
<1> QED BY <1>1, <1>2, <1>3, <1>4 DEF Plant

(* What hal_sensors_read hands over is marked valid. *)
LEMMA ReadIsValid ==
    ASSUME NEW raw
    PROVE  SensorsRead(raw).valid /\ "valid" \in DOMAIN SensorsRead(raw)
  BY DEF SensorsRead, Frame

LEMMA LatchIsFollowed ==
    ASSUME CInv, NEW missed, NEW faulty \in BOOLEAN, View(missed, faulty)
    PROVE  LatchFollows
<1> SUFFICES ASSUME ABS_FAULT_LATCH_THRESHOLD > 1, st.current \notin FaultStatus
             PROVE  st'.current # "FAULT_LATCHED"
  BY DEF LatchFollows
<1>1. st.current # "FAULT_LATCHED" /\ st.current # "FAULT_DEGRADED"
  BY DEF FaultStatus
<1>2. st.fault_count = 0
  BY <1>1 DEF CInv, CountersAgree, ControlOK
<1>3. Inc32(st.fault_count) = 1
  BY <1>2, Inc32Exact, WidthAssumption, NoEarlyWrap, ThresholdAssumption
<1>4. ~(Inc32(st.fault_count) >= ABS_FAULT_LATCH_THRESHOLD)
  BY <1>3, ThresholdAssumption
<1> QED BY <1>1, <1>4 DEF View, FaultStatus

LEMMA SilenceIsReported ==
    ASSUME NEW crc, NEW wrote, CycleMissed(crc, wrote), wrote,
           cycles_since_valid' > WATCHDOG_TIMEOUT_CYCLES
    PROVE  "COMM_TIMEOUT" \in out'.dtc_code
<1> DEFINE s == ForState(cur', last_good', cycles_since_valid')
           diag == DiagnosticCheck(dg, s, cycles_since_valid', errors_crc')
<1>1. out'.dtc_code = diag.dtc
  BY DEF CycleMissed, Process
<1>2. "COMM_TIMEOUT" \in diag.dtc
  <2> HIDE DEF s
  <2> QED BY DEF DiagnosticCheck, CommDtc
<1> QED BY <1>1, <1>2

LEMMA EcuShape ==
    ASSUME CInv, Ecu
    PROVE  CInv' /\ StepShape
<1>1. ASSUME NEW wrote \in BOOLEAN, NEW i \in 1 .. scenario.n_ticks,
             EcuFresh(i, wrote)
      PROVE  CInv' /\ StepShape
  <2>1. /\ i <= Len(up) /\ up[i].intact
        /\ \A j \in 1 .. i - 1 : ~up[j].intact
        /\ CycleFresh(SensorsRead(up[i].sample), i - 1, wrote)
        /\ up' = After(up, i) /\ basis' = up[i].tick /\ misses' = misses
        /\ Emit(wrote)
    BY <1>1 DEF EcuFresh
  <2>2. CInv'
    BY <2>1, ReadIsValid, FreshControl
  <2>3. PICK faulty \in BOOLEAN : View(FALSE, faulty)
    BY <2>1, ReadIsValid, FreshView DEF CInv
  <2>4. running /\ running' = wrote /\ cycles_since_valid' = 0 /\ age' = 0
        /\ (st.current = "FAULT_LATCHED" => st'.current = "FAULT_LATCHED")
    BY <2>1, <2>3 DEF CycleFresh, Process, View
  <2>5. Answered(wrote)
    BY <2>1, <2>3, <2>4, LatchIsFollowed DEF Emit, Answered, PlantOpen, plantVars
  <2>6. i \in 1 .. Len(up)
    BY <2>1
  <2>7. TookFrame(i, wrote)
    BY <2>1, <2>4, <2>5, <2>6 DEF TookFrame
  <2> QED BY <2>2, <2>7 DEF StepShape
<1>2. ASSUME NEW wrote \in BOOLEAN, EcuMissed(wrote)
      PROVE  CInv' /\ StepShape
  <2>1. /\ \A j \in 1 .. Len(up) : ~up[j].intact
        /\ CycleMissed(Len(up), wrote)
        /\ up' = << >> /\ basis' = basis /\ misses' = misses + 1
        /\ Emit(wrote)
    BY <1>2 DEF EcuMissed
  <2>2. CInv'
    BY <2>1, MissedControl
  <2>3. PICK faulty \in BOOLEAN : View(TRUE, faulty)
    BY <2>1, MissedView DEF CInv
  <2>4. running /\ running' = wrote
        /\ cycles_since_valid' = Inc32(cycles_since_valid)
        /\ age' = Capped(age + 1, WATCHDOG_TIMEOUT_CYCLES + 1)
        /\ (st.current = "FAULT_LATCHED" => st'.current = "FAULT_LATCHED")
    BY <2>1, <2>3 DEF CycleMissed, Process, View
  <2>5. Answered(wrote)
    BY <2>1, <2>3, <2>4, LatchIsFollowed DEF Emit, Answered, PlantOpen, plantVars
  <2>6. wrote /\ cycles_since_valid' > WATCHDOG_TIMEOUT_CYCLES =>
           "COMM_TIMEOUT" \in out'.dtc_code
    BY <2>1, SilenceIsReported
  <2>7. TookNothing(wrote)
    BY <2>1, <2>4, <2>5, <2>6 DEF TookNothing
  <2> QED BY <2>2, <2>7 DEF StepShape
<1> QED BY <1>1, <1>2 DEF Ecu

LEMMA ShapeOfStep ==
    ASSUME CInv, [SilNext]_silVars
    PROVE  CInv' /\ StepShape
<1>1. CASE Plant
  <2>1. UNCHANGED vars
    BY <1>1 DEF Plant, PlantSend, PlantRecv, PlantTimeout, PlantHangup, EndTick
  <2> QED BY <1>1, <2>1, PlantShape, LeaveControl
<1>2. CASE Ecu
  BY <1>2, EcuShape
<1>3. CASE EcuLeaves
  <2>1. Idle
    BY <1>3 DEF EcuLeaves, LeaveLoop, Idle, plantVars
  <2> QED BY <1>3, <2>1, LeaveControl DEF EcuLeaves, StepShape
<1>4. CASE UNCHANGED silVars
  <2>1. UNCHANGED vars
    BY <1>4 DEF silVars
  <2>2. Idle
    BY <1>4, <2>1 DEF silVars, plantVars, vars, Idle
  <2> QED BY <2>1, <2>2, LeaveControl DEF StepShape
<1> QED BY <1>1, <1>2, <1>3, <1>4 DEF SilNext, Over

-----------------------------------------------------------------------------
(* The queues after a step. *)

LEMMA Lengths == Base => Len(up) \in Nat /\ Len(down) \in Nat
  BY QueueLen DEF Base

LEMMA SentQueue ==
    ASSUME Base, NEW good, NEW e, Sent(good, e)
    PROVE  /\ Queue(up')
           /\ \/ ~good /\ up' = up
              \/ /\ Len(up') = Len(up) + 1
                 /\ \A i \in 1 .. Len(up) : up'[i] = up[i]
                 /\ up'[Len(up) + 1] = e
<1>1. Queue(up)
  BY DEF Base
<1>2. up' = Append(up, e) \/ (~good /\ up' = up)
  BY DEF Sent
<1>3. CASE up' = Append(up, e)
  BY <1>1, <1>3, QueueAppend
<1> QED BY <1>1, <1>2, <1>3

LEMMA ReceivedQueue ==
    ASSUME Base, NEW n, Received(n)
    PROVE  /\ Queue(down')
           /\ Len(down') = Len(down) - n
           /\ \A j \in 1 .. Len(down') : down'[j] = down[n + j]
<1>1. /\ Queue(down) /\ Len(down) \in Nat
      /\ n \in Nat /\ n <= Len(down) /\ down' = After(down, n)
  BY Lengths DEF Base, Received
<1> QED BY <1>1, QueueAfter

LEMMA AnsweredQueue ==
    ASSUME Base, NEW wrote, Answered(wrote)
    PROVE  /\ Queue(down')
           /\ ~wrote => down' = down
           /\ wrote =>
                 /\ Len(down') = Len(down) + 1
                 /\ \A j \in 1 .. Len(down) : down'[j] = down[j]
                 /\ down'[Len(down) + 1].sent = out'
                 /\ down'[Len(down) + 1].basis = basis'
                 /\ down'[Len(down) + 1].cycle = cycle'
<1> DEFINE e == [sent |-> out', basis |-> basis', cycle |-> cycle']
<1>1. e.sent = out' /\ e.basis = basis' /\ e.cycle = cycle'
  OBVIOUS
<1>2. down' = IF wrote THEN Append(down, e) ELSE down
  BY DEF Answered
<1> HIDE DEF e
<1> QED BY <1>1, <1>2, QueueAppend DEF Base

LEMMA TookQueue ==
    ASSUME Base, NEW i, NEW wrote, TookFrame(i, wrote)
    PROVE  /\ Queue(up')
           /\ Len(up') = Len(up) - i
           /\ \A j \in 1 .. Len(up') : up'[j] = up[i + j]
<1>1. /\ Queue(up) /\ Len(up) \in Nat
      /\ i \in Nat /\ i <= Len(up) /\ up' = After(up, i)
  BY Lengths DEF TookFrame, Base
<1> QED BY <1>1, QueueAfter

LEMMA BaseInit == SilInit => Base
<1> SUFFICES ASSUME SilInit PROVE Base
  OBVIOUS
<1>1. scenario \in Scenarios /\ scenario.n_ticks \in Nat /\ 1 <= scenario.n_ticks
  BY SilAssumption DEF SilInit
<1>2. Queue(up) /\ Queue(down) /\ Len(up) = 0 /\ Len(down) = 0
  BY QueueEmpty DEF SilInit
<1> QED BY <1>1, <1>2 DEF SilInit, Base

LEMMA BaseStep == Base /\ StepShape => Base'
<1> SUFFICES ASSUME Base, StepShape PROVE Base'
  OBVIOUS
<1>0. /\ Len(up) \in Nat /\ Len(down) \in Nat
      /\ scenario.n_ticks \in Nat
  BY Lengths, SilAssumption DEF Base
<1>1. ASSUME NEW good, NEW e, Sent(good, e) PROVE Base'
  <2>1. \A i \in 1 .. Len(up') : up'[i].tick \in Nat
    <3>1. e.tick \in Nat
      BY <1>1 DEF Sent, Base
    <3>2. \/ up' = up
          \/ /\ Len(up') = Len(up) + 1
             /\ \A i \in 1 .. Len(up) : up'[i] = up[i]
             /\ up'[Len(up) + 1] = e
      BY <1>1, SentQueue
    <3>3. \A i \in 1 .. Len(up) : up[i].tick \in Nat
      BY DEF Base
    <3> QED BY <1>0, <3>1, <3>2, <3>3
  <2>2. Queue(up')
    BY <1>1, SentQueue
  <2> QED BY <1>0, <1>1, <2>1, <2>2 DEF Sent, Base
<1>2. CASE Closed
  BY <1>2 DEF Closed, Base
<1>3. ASSUME NextTick PROVE k' \in Nat /\ 1 <= k' /\ k' <= scenario'.n_ticks
  BY <1>0, <1>3 DEF NextTick, Base
<1>4. ASSUME NEW n, Received(n) PROVE Base'
  <2>1. /\ Queue(down') /\ Len(down') = Len(down) - n
        /\ \A j \in 1 .. Len(down') : down'[j] = down[n + j]
        /\ n \in Nat /\ 1 <= n /\ n <= Len(down)
    BY <1>4, ReceivedQueue DEF Received
  <2>2. \A j \in 1 .. Len(down') :
           down'[j].basis \in Nat /\ down'[j].cycle \in Nat
    <3> TAKE j \in 1 .. Len(down')
    <3>1. n + j \in 1 .. Len(down)
      BY <1>0, <2>1
    <3> QED BY <2>1, <3>1 DEF Base
  <2>3. row'.tick = k /\ row'.basis = down[1].basis /\ row'.cycle = down[1].cycle
    BY <1>4 DEF Received
  <2>4. down[1].basis \in Nat /\ down[1].cycle \in Nat
    BY <1>0, <2>1 DEF Base
  <2>5. NextTick /\ UNCHANGED <<timeouts, slack>>
    BY <1>4 DEF Received
  <2> QED BY <1>3, <2>1, <2>2, <2>3, <2>4, <2>5 DEF NextTick, Base
<1>5. CASE TimedOut
  <2>1. NextTick /\ down' = down
    BY <1>5 DEF TimedOut
  <2> QED BY <1>3, <1>5, <2>1 DEF TimedOut, NextTick, Base
<1>6. ASSUME NEW wrote, Answered(wrote), basis' \in Nat
      PROVE  /\ Queue(down')
             /\ \A j \in 1 .. Len(down') :
                   down'[j].basis \in Nat /\ down'[j].cycle \in Nat
             /\ cycle' \in Nat
  <2>1. cycle' \in Nat
    BY <1>6 DEF Answered, Base
  <2>2. \A j \in 1 .. Len(down) : down[j].basis \in Nat /\ down[j].cycle \in Nat
    BY DEF Base
  <2>3. wrote \in BOOLEAN
    BY <1>6 DEF Answered
  <2>4. CASE wrote
    <3>1. /\ Queue(down') /\ Len(down') = Len(down) + 1
          /\ \A j \in 1 .. Len(down) : down'[j] = down[j]
          /\ down'[Len(down) + 1].basis = basis'
          /\ down'[Len(down) + 1].cycle = cycle'
      BY <1>6, <2>4, AnsweredQueue
    <3> QED BY <1>0, <1>6, <2>1, <2>2, <3>1
  <2>5. CASE ~wrote
    BY <1>6, <2>1, <2>2, <2>5, AnsweredQueue
  <2> QED BY <2>3, <2>4, <2>5
<1>7. ASSUME NEW i, NEW wrote, TookFrame(i, wrote) PROVE Base'
  <2>1. /\ Queue(up') /\ Len(up') = Len(up) - i
        /\ \A j \in 1 .. Len(up') : up'[j] = up[i + j]
        /\ i \in 1 .. Len(up)
    BY <1>7, TookQueue DEF TookFrame
  <2>2. \A j \in 1 .. Len(up') : up'[j].tick \in Nat
    <3> TAKE j \in 1 .. Len(up')
    <3>1. i + j \in 1 .. Len(up)
      BY <1>0, <2>1
    <3> QED BY <2>1, <3>1 DEF Base
  <2>3. basis' \in Nat /\ misses' \in Nat /\ Answered(wrote)
    BY <1>7, <2>1 DEF TookFrame, Base
  <2> QED BY <1>6, <2>1, <2>2, <2>3 DEF Answered, Base
<1>8. ASSUME NEW wrote, TookNothing(wrote) PROVE Base'
  <2>1. basis' \in Nat /\ misses' \in Nat /\ Answered(wrote) /\ up' = << >>
    BY <1>8 DEF TookNothing, Base
  <2>2. Queue(up') /\ Len(up') = 0
    BY <2>1, QueueEmpty
  <2> QED BY <1>6, <2>1, <2>2 DEF Answered, Base
<1>9. CASE Idle
  BY <1>9 DEF Idle, Base
<1> QED BY <1>1, <1>2, <1>4, <1>5, <1>7, <1>8, <1>9 DEF StepShape

-----------------------------------------------------------------------------
(* Frames in flight. *)

LEMMA InFlightStep == Base /\ InFlightEarned /\ StepShape => InFlightEarned'
<1> SUFFICES ASSUME Base, InFlightEarned, StepShape PROVE InFlightEarned'
  OBVIOUS
<1>0. /\ Len(up) \in Nat /\ Len(down) \in Nat
      /\ misses \in Nat /\ timeouts \in Nat
  BY Lengths DEF Base
<1> DEFINE turn == IF phase = "send" THEN 1 ELSE 0
<1>00. Len(up) + Len(down) + turn <= 1 + misses + timeouts
  BY DEF InFlightEarned
<1>1. ASSUME NEW good, NEW e, Sent(good, e) PROVE InFlightEarned'
  <2>1. Len(up') \in {Len(up), Len(up) + 1}
    BY <1>1, SentQueue
  <2>2. /\ phase = "send" /\ phase' = "recv" /\ down' = down
        /\ misses' = misses /\ timeouts' = timeouts
    BY <1>1 DEF Sent
  <2> QED BY <1>0, <1>00, <2>1, <2>2 DEF InFlightEarned
<1>2. CASE Closed
  BY <1>0, <1>00, <1>2 DEF Closed, InFlightEarned
<1>3. ASSUME NEW n, Received(n) PROVE InFlightEarned'
  <2>1. n \in Nat /\ 1 <= n /\ Len(down') = Len(down) - n
    BY <1>3, ReceivedQueue DEF Received
  <2>2. /\ phase = "recv" /\ up' = up
        /\ misses' = misses /\ timeouts' = timeouts
    BY <1>3 DEF Received, NextTick
  <2> QED BY <1>0, <1>00, <2>1, <2>2 DEF InFlightEarned
<1>4. CASE TimedOut
  BY <1>0, <1>00, <1>4 DEF TimedOut, NextTick, InFlightEarned
<1>5. ASSUME NEW wrote, Answered(wrote)
      PROVE  /\ Len(down') \in {Len(down), Len(down) + 1}
             /\ phase' = phase /\ timeouts' = timeouts
  BY <1>5, AnsweredQueue DEF Answered
<1>6. ASSUME NEW i, NEW wrote, TookFrame(i, wrote) PROVE InFlightEarned'
  <2>1. /\ i \in 1 .. Len(up) /\ Len(up') = Len(up) - i
        /\ misses' = misses /\ Answered(wrote)
    BY <1>6, TookQueue DEF TookFrame
  <2> QED BY <1>0, <1>00, <1>5, <2>1 DEF InFlightEarned
<1>7. ASSUME NEW wrote, TookNothing(wrote) PROVE InFlightEarned'
  <2>1. Len(up') = 0 /\ misses' = misses + 1 /\ Answered(wrote)
    BY <1>7, QueueEmpty DEF TookNothing
  <2> QED BY <1>0, <1>00, <1>5, <2>1 DEF InFlightEarned
<1>8. CASE Idle
  BY <1>8 DEF Idle, InFlightEarned
<1> QED BY <1>1, <1>2, <1>3, <1>4, <1>6, <1>7, <1>8 DEF StepShape

-----------------------------------------------------------------------------
(* Order. *)

(* Sensor frames are under way in the order of their ticks, all newer than *)
(* the sample the ECU holds.                                               *)
UpInOrder ==
    /\ basis <= k /\ (phase = "send" => basis < k)
    /\ \A i \in 1 .. Len(up) :
          /\ basis < up[i].tick /\ up[i].tick <= k
          /\ phase = "send" => up[i].tick < k
    /\ \A i, j \in 1 .. Len(up) : i < j => up[i].tick < up[j].tick

(* Actuator frames are under way in the order of their cycles, and of the  *)
(* samples they answer, all newer than the row the plant has logged.       *)
DownInOrder ==
    /\ row.cycle <= cycle /\ row.basis <= basis
    /\ \A j \in 1 .. Len(down) :
          /\ row.cycle < down[j].cycle /\ down[j].cycle <= cycle
          /\ row.basis <= down[j].basis /\ down[j].basis <= basis
    /\ \A i, j \in 1 .. Len(down) : i < j =>
          down[i].cycle < down[j].cycle /\ down[i].basis <= down[j].basis

LEMMA UpOrderStep == Base /\ UpInOrder /\ StepShape => UpInOrder'
<1> SUFFICES ASSUME Base, UpInOrder, StepShape PROVE UpInOrder'
  OBVIOUS
<1>0. /\ Len(up) \in Nat /\ k \in Nat /\ basis \in Nat
      /\ \A i \in 1 .. Len(up) : up[i].tick \in Nat
  BY Lengths DEF Base
<1>1. ASSUME NEW good, NEW e, Sent(good, e) PROVE UpInOrder'
  <2>1. /\ phase = "send" /\ phase' = "recv" /\ k' = k /\ basis' = basis
        /\ e.tick = k
    BY <1>1 DEF Sent
  <2>2. CASE up' = up
    BY <1>0, <2>1, <2>2 DEF UpInOrder
  <2>3. CASE /\ Len(up') = Len(up) + 1
             /\ \A i \in 1 .. Len(up) : up'[i] = up[i]
             /\ up'[Len(up) + 1] = e
    <3>1. \A i \in 1 .. Len(up') : basis < up'[i].tick /\ up'[i].tick <= k
      BY <1>0, <2>1, <2>3 DEF UpInOrder
    <3>2. \A i, j \in 1 .. Len(up') : i < j => up'[i].tick < up'[j].tick
      BY <1>0, <2>1, <2>3 DEF UpInOrder
    <3> QED BY <1>0, <2>1, <3>1, <3>2 DEF UpInOrder
  <2> QED BY <1>1, <2>2, <2>3, SentQueue
<1>2. CASE Closed
  BY <1>0, <1>2 DEF Closed, UpInOrder
<1>3. CASE NextTick
  <2>1. /\ phase = "recv" /\ up' = up /\ basis' = basis
        /\ k' = IF phase' = "send" THEN k + 1 ELSE k
    BY <1>3 DEF NextTick
  <2> QED BY <1>0, <2>1 DEF UpInOrder
<1>4. ASSUME NEW i, NEW wrote, TookFrame(i, wrote) PROVE UpInOrder'
  <2>1. /\ i \in 1 .. Len(up) /\ Len(up') = Len(up) - i
        /\ \A j \in 1 .. Len(up') : up'[j] = up[i + j]
        /\ basis' = up[i].tick /\ k' = k /\ phase' = phase
    BY <1>4, TookQueue DEF TookFrame, Answered
  <2>2. \A j \in 1 .. Len(up') : i + j \in 1 .. Len(up)
    BY <1>0, <2>1
  <2>3. basis' <= k /\ (phase = "send" => basis' < k)
    BY <2>1 DEF UpInOrder
  <2>4. \A j \in 1 .. Len(up') :
          /\ basis' < up'[j].tick /\ up'[j].tick <= k
          /\ phase = "send" => up'[j].tick < k
    <3> TAKE j \in 1 .. Len(up')
    <3>1. i + j \in 1 .. Len(up) /\ i < i + j /\ up'[j] = up[i + j]
      BY <1>0, <2>1, <2>2
    <3> QED BY <2>1, <3>1 DEF UpInOrder
  <2>5. \A a, b \in 1 .. Len(up') : a < b => up'[a].tick < up'[b].tick
    <3> TAKE a, b \in 1 .. Len(up')
    <3>1. /\ i + a \in 1 .. Len(up) /\ i + b \in 1 .. Len(up)
          /\ a < b => i + a < i + b
          /\ up'[a] = up[i + a] /\ up'[b] = up[i + b]
      BY <1>0, <2>1, <2>2
    <3> QED BY <3>1 DEF UpInOrder
  <2> QED BY <2>1, <2>3, <2>4, <2>5 DEF UpInOrder
<1>5. ASSUME NEW wrote, TookNothing(wrote) PROVE UpInOrder'
  <2>1. Len(up') = 0 /\ basis' = basis /\ k' = k /\ phase' = phase
    BY <1>5, QueueEmpty DEF TookNothing, Answered
  <2> QED BY <2>1 DEF UpInOrder
<1>6. CASE Idle
  BY <1>6 DEF Idle, UpInOrder
<1> QED BY <1>1, <1>2, <1>3, <1>4, <1>5, <1>6 DEF StepShape, Received, TimedOut

LEMMA DownOrderStep == Base /\ UpInOrder /\ DownInOrder /\ StepShape => DownInOrder'
<1> SUFFICES ASSUME Base, UpInOrder, DownInOrder, StepShape PROVE DownInOrder'
  OBVIOUS
<1>0. /\ Len(down) \in Nat /\ cycle \in Nat /\ basis \in Nat
      /\ row.cycle \in Nat /\ row.basis \in Nat
      /\ \A j \in 1 .. Len(down) : down[j].basis \in Nat /\ down[j].cycle \in Nat
  BY Lengths DEF Base
<1>1. ASSUME UNCHANGED <<down, row, cycle, basis>> PROVE DownInOrder'
  BY <1>1 DEF DownInOrder
<1>2. ASSUME NEW n, Received(n) PROVE DownInOrder'
  <2>1. /\ Len(down') = Len(down) - n
        /\ \A j \in 1 .. Len(down') : down'[j] = down[n + j]
        /\ n \in Nat /\ 1 <= n /\ n <= Len(down)
        /\ row'.basis = down[1].basis /\ row'.cycle = down[1].cycle
        /\ cycle' = cycle /\ basis' = basis
    BY <1>2, ReceivedQueue DEF Received, NextTick
  <2>2. 1 \in 1 .. Len(down)
    BY <1>0, <2>1
  <2>3. \A j \in 1 .. Len(down') :
          n + j \in 1 .. Len(down) /\ 1 < n + j /\ down'[j] = down[n + j]
    BY <1>0, <2>1
  <2>4. row'.cycle <= cycle /\ row'.basis <= basis
    BY <2>1, <2>2 DEF DownInOrder
  <2>5. \A j \in 1 .. Len(down') :
          /\ row'.cycle < down'[j].cycle /\ down'[j].cycle <= cycle
          /\ row'.basis <= down'[j].basis /\ down'[j].basis <= basis
    BY <2>1, <2>2, <2>3 DEF DownInOrder
  <2>6. \A i, j \in 1 .. Len(down') : i < j =>
          down'[i].cycle < down'[j].cycle /\ down'[i].basis <= down'[j].basis
    <3> TAKE i, j \in 1 .. Len(down')
    <3>1. i < j => n + i < n + j
      BY <2>1
    <3> QED BY <2>3, <3>1 DEF DownInOrder
  <2> QED BY <2>1, <2>4, <2>5, <2>6 DEF DownInOrder
<1>3. CASE TimedOut
  <2>1. /\ Len(down') = 0 /\ row'.cycle = row.cycle /\ row'.basis = row.basis
        /\ cycle' = cycle /\ basis' = basis
    BY <1>3, QueueEmpty DEF TimedOut, NextTick
  <2> QED BY <1>0, <2>1 DEF DownInOrder
<1>4. ASSUME NEW wrote, Answered(wrote), basis' \in Nat, basis <= basis'
      PROVE  DownInOrder'
  <2>1. cycle' = cycle + 1 /\ row' = row /\ wrote \in BOOLEAN
    BY <1>4 DEF Answered
  <2>2. row'.cycle <= cycle' /\ row'.basis <= basis'
    BY <1>0, <1>4, <2>1 DEF DownInOrder
  <2>3. \A j \in 1 .. Len(down) :
          /\ row.cycle < down[j].cycle /\ down[j].cycle < cycle'
          /\ row.basis <= down[j].basis /\ down[j].basis <= basis'
    BY <1>0, <1>4, <2>1 DEF DownInOrder
  <2>4. CASE ~wrote
    <3>1. down' = down
      BY <1>4, <2>4, AnsweredQueue
    <3> QED BY <1>0, <1>4, <2>1, <2>2, <2>3, <3>1 DEF DownInOrder
  <2>5. CASE wrote
    <3>1. /\ Len(down') = Len(down) + 1
          /\ \A j \in 1 .. Len(down) : down'[j] = down[j]
          /\ down'[Len(down) + 1].basis = basis'
          /\ down'[Len(down) + 1].cycle = cycle'
      BY <1>4, <2>5, AnsweredQueue
    <3>2. \A j \in 1 .. Len(down') :
            \/ j \in 1 .. Len(down) /\ down'[j] = down[j]
            \/ j = Len(down) + 1
      BY <1>0, <3>1
    <3>3. row.cycle < cycle' /\ row.basis <= basis'
      BY <1>0, <1>4, <2>1 DEF DownInOrder
    <3>4. \A j \in 1 .. Len(down') :
            /\ row'.cycle < down'[j].cycle /\ down'[j].cycle <= cycle'
            /\ row'.basis <= down'[j].basis /\ down'[j].basis <= basis'
      BY <1>0, <1>4, <2>1, <2>3, <3>1, <3>2, <3>3, SMTT(20)
    <3>5. \A i, j \in 1 .. Len(down') : i < j =>
            down'[i].cycle < down'[j].cycle /\ down'[i].basis <= down'[j].basis
      <4> SUFFICES ASSUME NEW i \in 1 .. Len(down'), NEW j \in 1 .. Len(down'),
                          i < j
                   PROVE  /\ down'[i].cycle < down'[j].cycle
                          /\ down'[i].basis <= down'[j].basis
        OBVIOUS
      <4>1. i \in 1 .. Len(down) /\ down'[i] = down[i]
        BY <1>0, <3>1, <3>2
      <4>2. CASE j = Len(down) + 1
        BY <2>3, <3>1, <4>1, <4>2
      <4>3. CASE j \in 1 .. Len(down) /\ down'[j] = down[j]
        BY <4>1, <4>3 DEF DownInOrder
      <4> QED BY <3>2, <4>2, <4>3
    <3> QED BY <2>2, <3>4, <3>5 DEF DownInOrder
  <2> QED BY <2>1, <2>4, <2>5
<1>5. ASSUME NEW i, NEW wrote, TookFrame(i, wrote) PROVE DownInOrder'
  <2>1. i \in 1 .. Len(up) /\ basis' = up[i].tick /\ Answered(wrote)
    BY <1>5 DEF TookFrame
  <2>2. basis' \in Nat /\ basis < basis'
    BY <2>1 DEF UpInOrder, Base
  <2> QED BY <1>0, <1>4, <2>1, <2>2
<1>6. ASSUME NEW wrote, TookNothing(wrote) PROVE DownInOrder'
  BY <1>0, <1>4, <1>6 DEF TookNothing
<1> QED BY <1>1, <1>2, <1>3, <1>5, <1>6
        DEF StepShape, Sent, Closed, Idle

-----------------------------------------------------------------------------
(* Lag. *)

(* The values of a finite family are no more than its indices. *)
Values(f, n) == {f[i] : i \in 1 .. n}

LEMMA CountValues ==
    ASSUME NEW n \in Nat, NEW f
    PROVE  /\ IsFiniteSet(Values(f, n))
           /\ Cardinality(Values(f, n)) \in Nat
           /\ Cardinality(Values(f, n)) <= n
<1> DEFINE A == Values(f, n)
           F == [i \in 1 .. n |-> f[i]]
<1>1. IsFiniteSet(1 .. n) /\ Cardinality(1 .. n) = n
  BY FS_Interval
<1>2. F \in Surjection(1 .. n, A)
  BY DEF Surjection, Values
<1>3. IsFiniteSet(A) /\ Cardinality(A) <= Cardinality(1 .. n)
  BY <1>1, <1>2, FS_Surjection
<1> QED BY <1>1, <1>3, FS_CardinalityType

(* A span of ticks, each lost or accounted for by one of two families. *)
LEMMA CountCover ==
    ASSUME NEW L, IsFiniteSet(L), NEW p \in Nat, NEW f, NEW q \in Nat, NEW g,
           NEW b \in Nat, NEW t \in Nat, b <= t,
           \A T \in b + 1 .. t : \/ T \in L
                                 \/ \E i \in 1 .. p : f[i] = T
                                 \/ \E j \in 1 .. q : g[j] = T
    PROVE  t - b <= Cardinality(L) + p + q
<1> DEFINE A == Values(f, p)
           B == Values(g, q)
<1>1. /\ IsFiniteSet(A) /\ Cardinality(A) \in Nat /\ Cardinality(A) <= p
      /\ IsFiniteSet(B) /\ Cardinality(B) \in Nat /\ Cardinality(B) <= q
  BY CountValues
<1>2. b + 1 .. t \subseteq (L \cup A) \cup B
  BY DEF Values
<1> HIDE DEF A, B
<1>3. /\ IsFiniteSet(L \cup A)
      /\ Cardinality(L \cup A) = Cardinality(L) + Cardinality(A)
                                    - Cardinality(L \cap A)
  BY <1>1, FS_Union
<1>4. /\ IsFiniteSet((L \cup A) \cup B)
      /\ Cardinality((L \cup A) \cup B)
            = Cardinality(L \cup A) + Cardinality(B)
                 - Cardinality((L \cup A) \cap B)
  BY <1>1, <1>3, FS_Union
<1>5. Cardinality(L \cap A) \in Nat /\ Cardinality((L \cup A) \cap B) \in Nat
  <2>1. /\ L \cap A \in SUBSET L
        /\ (L \cup A) \cap B \in SUBSET B
    OBVIOUS
  <2> QED BY <1>1, <2>1, FS_Subset, FS_CardinalityType
<1>6. Cardinality(b + 1 .. t) = t - b
  <2>1. Cardinality(b + 1 .. t) = IF b + 1 > t THEN 0 ELSE t - (b + 1) + 1
    BY FS_Interval
  <2> QED BY <2>1
<1>7. Cardinality(b + 1 .. t) <= Cardinality((L \cup A) \cup B)
  BY <1>2, <1>4, FS_Subset
<1>8. Cardinality(L) \in Nat
  BY FS_CardinalityType
<1> HIDE DEF A, B
<1> QED BY <1>1, <1>3, <1>4, <1>5, <1>6, <1>7, <1>8

(* The ticks whose frame has been sent (or lost) so far. *)
LastSent == IF phase = "send" THEN k - 1 ELSE k

(* Every tick is accounted for: it was lost, its frame is on its way up,   *)
(* or an answer to it is on its way down - or the plant has had a command  *)
(* at least as recent.                                                     *)
Accounted ==
    /\ IsFiniteSet(lost)
    /\ \A i \in 1 .. Len(up) : up[i].intact \/ up[i].tick \in lost
    /\ PlantOpen => \A T \in Nat :
          basis < T /\ T <= LastSent =>
             \/ T \in lost
             \/ \E i \in 1 .. Len(up) : up[i].intact /\ up[i].tick = T
    /\ PlantOpen => \A j \in 1 .. Len(down), T \in Nat :
          down[j].basis < T /\ T <= basis =>
             \/ T \in lost
             \/ \E m \in j + 1 .. Len(down) : down[m].basis = T

LEMMA AccountedInit == SilInit => Accounted
<1> SUFFICES ASSUME SilInit PROVE Accounted
  OBVIOUS
<1>1. Len(up) = 0 /\ Len(down) = 0 /\ IsFiniteSet(lost)
  BY QueueEmpty, FS_EmptySet DEF SilInit
<1>2. basis = 0 /\ LastSent = 0
  BY DEF SilInit, LastSent
<1> QED BY <1>1, <1>2 DEF Accounted

LEMMA AccountedStep ==
    Base /\ UpInOrder /\ DownInOrder /\ Accounted /\ StepShape => Accounted'
<1> SUFFICES ASSUME Base, UpInOrder, DownInOrder, Accounted, StepShape
             PROVE  Accounted'
  OBVIOUS
<1>0. /\ Len(up) \in Nat /\ Len(down) \in Nat /\ k \in Nat /\ basis \in Nat
      /\ \A i \in 1 .. Len(up) : up[i].tick \in Nat
  BY Lengths DEF Base
<1>1. ASSUME NEW good, NEW e, Sent(good, e) PROVE Accounted'
  <2>1. /\ phase = "send" /\ phase' = "recv" /\ k' = k /\ basis' = basis
        /\ down' = down /\ good \in BOOLEAN
        /\ e.tick = k /\ e.intact = good
        /\ lost' = IF good THEN lost ELSE lost \cup {k}
    BY <1>1 DEF Sent
  <2>2. PlantOpen /\ LastSent = k - 1 /\ LastSent' = k
    BY <2>1 DEF PlantOpen, LastSent
  <2>3. /\ \A i \in 1 .. Len(up) : i \in 1 .. Len(up') /\ up'[i] = up[i]
        /\ \A i \in 1 .. Len(up') :
              i \in 1 .. Len(up) \/ (i = Len(up) + 1 /\ up'[i] = e)
        /\ good => Len(up) + 1 \in 1 .. Len(up') /\ up'[Len(up) + 1] = e
    <3>1. CASE up' = up /\ ~good
      BY <3>1
    <3>2. CASE /\ Len(up') = Len(up) + 1
               /\ \A i \in 1 .. Len(up) : up'[i] = up[i]
               /\ up'[Len(up) + 1] = e
      BY <1>0, <3>2
    <3> QED BY <1>1, <3>1, <3>2, SentQueue
  <2>4. IsFiniteSet(lost') /\ lost \subseteq lost'
    <3>1. IsFiniteSet(lost)
      BY DEF Accounted
    <3> QED BY <2>1, <3>1, FS_AddElement
  <2>5. \A i \in 1 .. Len(up') : up'[i].intact \/ up'[i].tick \in lost'
    BY <2>1, <2>3, <2>4 DEF Accounted
  <2>6. \A T \in Nat : basis' < T /\ T <= LastSent' =>
           \/ T \in lost'
           \/ \E i \in 1 .. Len(up') : up'[i].intact /\ up'[i].tick = T
    <3> SUFFICES ASSUME NEW T \in Nat, basis < T, T <= k, T \notin lost'
                 PROVE  \E i \in 1 .. Len(up') :
                           up'[i].intact /\ up'[i].tick = T
      BY <2>1, <2>2
    <3>1. CASE T = k
      <4>1. good
        BY <2>1, <3>1
      <4>2. e.intact /\ e.tick = T
        BY <2>1, <3>1, <4>1
      <4> QED BY <2>3, <4>1, <4>2
    <3>2. CASE T # k
      <4>1. T <= LastSent /\ T \notin lost
        BY <1>0, <2>2, <2>4, <3>2
      <4>2. PICK i \in 1 .. Len(up) : up[i].intact /\ up[i].tick = T
        BY <2>2, <4>1 DEF Accounted
      <4> QED BY <2>3, <4>2
    <3> QED BY <3>1, <3>2
  <2>7. \A j \in 1 .. Len(down'), T \in Nat :
          down'[j].basis < T /\ T <= basis' =>
             \/ T \in lost'
             \/ \E m \in j + 1 .. Len(down') : down'[m].basis = T
    BY <2>1, <2>2, <2>4 DEF Accounted
  <2> QED BY <2>4, <2>5, <2>6, <2>7 DEF Accounted
<1>2. CASE Closed
  <2>1. UNCHANGED <<up, lost>> /\ ~PlantOpen'
    BY <1>2 DEF Closed, PlantOpen
  <2> QED BY <2>1 DEF Accounted
<1>3. CASE NextTick
  <2>1. /\ UNCHANGED <<up, lost, basis>>
        /\ PlantOpen
        /\ PlantOpen' => LastSent' = LastSent
    BY <1>0, <1>3 DEF NextTick, PlantOpen, LastSent
  <2>2. /\ IsFiniteSet(lost')
        /\ \A i \in 1 .. Len(up') : up'[i].intact \/ up'[i].tick \in lost'
        /\ PlantOpen' => \A T \in Nat :
              basis' < T /\ T <= LastSent' =>
                 \/ T \in lost'
                 \/ \E i \in 1 .. Len(up') : up'[i].intact /\ up'[i].tick = T
    BY <2>1 DEF Accounted
  <2>3. \A j \in 1 .. Len(down'), T \in Nat :
          down'[j].basis < T /\ T <= basis' =>
             \/ T \in lost'
             \/ \E m \in j + 1 .. Len(down') : down'[m].basis = T
    <3>1. ASSUME NEW n, Received(n), NEW j \in 1 .. Len(down'), NEW T \in Nat,
                 down'[j].basis < T, T <= basis', T \notin lost'
          PROVE  \E m \in j + 1 .. Len(down') : down'[m].basis = T
      <4>1. /\ Len(down') = Len(down) - n /\ n \in Nat /\ n <= Len(down)
            /\ \A m \in 1 .. Len(down') : down'[m] = down[n + m]
        BY <3>1, ReceivedQueue DEF Received
      <4>2. n + j \in 1 .. Len(down) /\ down'[j] = down[n + j]
        BY <1>0, <4>1
      <4>3. PICK m \in n + j + 1 .. Len(down) : down[m].basis = T
        BY <2>1, <3>1, <4>2 DEF Accounted
      <4>4. m - n \in j + 1 .. Len(down') /\ m - n \in 1 .. Len(down')
            /\ n + (m - n) = m
        BY <1>0, <4>1, <4>2
      <4>5. down'[m - n] = down[m]
        BY <4>1, <4>4
      <4> QED BY <4>3, <4>4, <4>5
    <3>2. CASE TimedOut
      <4>1. Len(down') = 0
        BY <3>2, QueueEmpty DEF TimedOut
      <4> QED BY <4>1
    <3>3. (\E n : Received(n)) \/ TimedOut
      BY <1>3 DEF StepShape, NextTick, Sent, Closed, TookFrame, TookNothing,
                  Answered, Idle
    <3> QED BY <3>1, <3>2, <3>3
  <2> QED BY <2>2, <2>3 DEF Accounted
<1>4. ASSUME NEW i, NEW wrote, TookFrame(i, wrote) PROVE Accounted'
  <2>1. /\ i \in 1 .. Len(up) /\ up[i].intact
        /\ \A j \in 1 .. i - 1 : ~up[j].intact
        /\ Len(up') = Len(up) - i
        /\ \A j \in 1 .. Len(up') : up'[j] = up[i + j]
        /\ basis' = up[i].tick
        /\ UNCHANGED <<phase, k, lost>>
        /\ Answered(wrote)
    BY <1>4, TookQueue DEF TookFrame, Answered
  <2>2. PlantOpen' = PlantOpen /\ LastSent' = LastSent
    BY <2>1 DEF PlantOpen, LastSent
  <2>3. \A j \in 1 .. Len(up') : i + j \in 1 .. Len(up)
    BY <1>0, <2>1
  <2>4. \A j \in 1 .. Len(up') : up'[j].intact \/ up'[j].tick \in lost'
    BY <2>1, <2>3 DEF Accounted
  <2>5. ASSUME PlantOpen, NEW T \in Nat, basis' < T, T <= LastSent, T \notin lost
        PROVE  \E j \in 1 .. Len(up') : up'[j].intact /\ up'[j].tick = T
    <3>1. basis < T
      BY <1>0, <2>1, <2>5 DEF UpInOrder
    <3>2. PICK h \in 1 .. Len(up) : up[h].intact /\ up[h].tick = T
      BY <2>5, <3>1 DEF Accounted
    <3>3. i < h
      <4>1. ~(h < i) /\ h # i
        BY <1>0, <2>1, <2>5, <3>2 DEF UpInOrder
      <4> QED BY <2>1, <3>2, <4>1
    <3>4. h - i \in 1 .. Len(up') /\ i + (h - i) = h
      BY <1>0, <2>1, <3>3
    <3>5. up'[h - i] = up[h]
      BY <2>1, <3>4
    <3> QED BY <3>2, <3>4, <3>5
  <2>6. ASSUME PlantOpen, NEW j \in 1 .. Len(down'), NEW T \in Nat,
               down'[j].basis < T, T <= basis', T \notin lost
        PROVE  \E m \in j + 1 .. Len(down') : down'[m].basis = T
    <3>1. wrote
      BY <2>1, <2>6 DEF Answered, PlantOpen
    <3>2. /\ Len(down') = Len(down) + 1
          /\ \A m \in 1 .. Len(down) : down'[m] = down[m]
          /\ down'[Len(down) + 1].basis = basis'
      BY <2>1, <3>1, AnsweredQueue
    <3>3. basis' \in Nat
      BY <1>0, <2>1
    <3>4. j \in 1 .. Len(down) /\ down'[j] = down[j]
      <4>1. j # Len(down) + 1
        BY <2>6, <3>2, <3>3
      <4> QED BY <1>0, <3>2, <4>1
    <3>5. CASE T = basis'
      <4>1. Len(down) + 1 \in j + 1 .. Len(down')
        BY <1>0, <3>2, <3>4
      <4> QED BY <3>2, <3>5, <4>1
    <3>6. CASE T # basis' /\ basis < T
      <4>1. T <= LastSent
        BY <1>0, <2>1, <2>6, <3>3, <3>6 DEF UpInOrder, LastSent
      <4>2. PICK h \in 1 .. Len(up) : up[h].intact /\ up[h].tick = T
        BY <2>6, <3>6, <4>1 DEF Accounted
      <4>3. ~(h < i)
        BY <1>0, <2>1, <4>2
      <4>4. h # i
        BY <2>1, <3>6, <4>2
      <4>5. ~(i < h)
        <5>1. i < h => basis' < T
          BY <2>1, <4>2 DEF UpInOrder
        <5> QED BY <2>6, <3>3, <5>1
      <4> QED BY <2>1, <4>2, <4>3, <4>4, <4>5
    <3>7. CASE ~(basis < T)
      <4>1. PICK m \in j + 1 .. Len(down) : down[m].basis = T
        BY <1>0, <2>6, <3>4, <3>7 DEF Accounted
      <4>2. m \in j + 1 .. Len(down') /\ down'[m] = down[m]
        BY <1>0, <3>2, <3>4, <4>1
      <4> QED BY <4>1, <4>2
    <3> QED BY <3>5, <3>6, <3>7
  <2> QED BY <2>1, <2>2, <2>4, <2>5, <2>6, ZenonT(30) DEF Accounted
<1>5. ASSUME NEW wrote, TookNothing(wrote) PROVE Accounted'
  <2>1. /\ \A j \in 1 .. Len(up) : ~up[j].intact
        /\ Len(up') = 0 /\ basis' = basis
        /\ UNCHANGED <<phase, k, lost>>
        /\ Answered(wrote)
    BY <1>5, QueueEmpty DEF TookNothing, Answered
  <2>2. PlantOpen' = PlantOpen /\ LastSent' = LastSent
    BY <2>1 DEF PlantOpen, LastSent
  <2>3. ASSUME PlantOpen, NEW T \in Nat, basis' < T, T <= LastSent'
        PROVE  T \in lost'
    BY <2>1, <2>2, <2>3 DEF Accounted
  <2>4. ASSUME PlantOpen, NEW j \in 1 .. Len(down'), NEW T \in Nat,
               down'[j].basis < T, T <= basis', T \notin lost
        PROVE  \E m \in j + 1 .. Len(down') : down'[m].basis = T
    <3>1. wrote
      BY <2>1, <2>4 DEF Answered, PlantOpen
    <3>2. /\ Len(down') = Len(down) + 1
          /\ \A m \in 1 .. Len(down) : down'[m] = down[m]
          /\ down'[Len(down) + 1].basis = basis'
      BY <2>1, <3>1, AnsweredQueue
    <3>3. j \in 1 .. Len(down) /\ down'[j] = down[j]
      <4>1. j # Len(down) + 1
        BY <1>0, <2>1, <2>4, <3>2
      <4> QED BY <1>0, <3>2, <4>1
    <3>4. PICK m \in j + 1 .. Len(down) : down[m].basis = T
      BY <2>1, <2>4, <3>3 DEF Accounted
    <3>5. m \in j + 1 .. Len(down') /\ down'[m] = down[m]
      BY <1>0, <3>2, <3>3, <3>4
    <3> QED BY <3>4, <3>5
  <2> QED BY <2>1, <2>2, <2>3, <2>4 DEF Accounted
<1>6. CASE Idle
  BY <1>6 DEF Idle, Accounted, LastSent, PlantOpen
<1> QED BY <1>1, <1>2, <1>3, <1>4, <1>5, <1>6 DEF StepShape, Received, TimedOut

LEMMA LagStep ==
    ASSUME Base, UpInOrder, DownInOrder, InFlightEarned, Accounted, LagEarned,
           StepShape
    PROVE  LagEarned'
<1>0. /\ Len(up) \in Nat /\ Len(down) \in Nat /\ k \in Nat /\ basis \in Nat
      /\ misses \in Nat /\ timeouts \in Nat
      /\ row.tick \in Nat /\ row.basis \in Nat
  BY Lengths DEF Base
<1>1. IsFiniteSet(lost) /\ Cardinality(lost) \in Nat
  BY FS_CardinalityType DEF Accounted
<1>2. ASSUME row' = row, misses' \in {misses, misses + 1}, timeouts' = timeouts,
             lost' = lost
      PROVE  LagEarned'
  BY <1>0, <1>1, <1>2 DEF LagEarned
<1>3. ASSUME NEW good, NEW e, Sent(good, e) PROVE LagEarned'
  <2>1. /\ row' = row /\ misses' = misses /\ timeouts' = timeouts
        /\ lost' = lost \/ lost' = lost \cup {k}
    BY <1>3 DEF Sent
  <2>2. Cardinality(lost') \in {Cardinality(lost), Cardinality(lost) + 1}
    BY <1>1, <2>1, FS_AddElement
  <2> QED BY <1>0, <1>1, <2>1, <2>2 DEF LagEarned
<1>4. ASSUME NEW n, Received(n) PROVE LagEarned'
  <2> DEFINE b == down[1].basis
             f == [i \in 1 .. Len(up) |-> up[i].tick]
             g == [j \in 1 .. Len(down) - 1 |-> down[j + 1].basis]
  <2>1. /\ phase = "recv" /\ 1 <= Len(down)
        /\ row'.tick = k /\ row'.basis = b
        /\ UNCHANGED <<misses, timeouts, lost>>
    BY <1>0, <1>4 DEF Received, NextTick
  <2>2. 1 \in 1 .. Len(down) /\ b \in Nat /\ b <= basis /\ b <= k
    BY <1>0, <2>1 DEF Base, DownInOrder, UpInOrder
  <2>3. PlantOpen /\ LastSent = k
    BY <2>1 DEF PlantOpen, LastSent
  <2>4. \A T \in b + 1 .. k :
           \/ T \in lost
           \/ \E i \in 1 .. Len(up) : f[i] = T
           \/ \E j \in 1 .. Len(down) - 1 : g[j] = T
    <3> SUFFICES ASSUME NEW T \in b + 1 .. k, T \notin lost
                 PROVE  \/ \E i \in 1 .. Len(up) : f[i] = T
                        \/ \E j \in 1 .. Len(down) - 1 : g[j] = T
      OBVIOUS
    <3>1. T \in Nat /\ b < T /\ T <= k
      BY <1>0, <2>2
    <3>2. CASE basis < T
      <4>1. PICK i \in 1 .. Len(up) : up[i].intact /\ up[i].tick = T
        BY <2>3, <3>1, <3>2 DEF Accounted
      <4>2. f[i] = T
        BY <4>1
      <4> QED BY <4>2
    <3>3. CASE ~(basis < T)
      <4>1. PICK m \in 2 .. Len(down) : down[m].basis = T
        BY <1>0, <2>2, <2>3, <3>1, <3>3 DEF Accounted
      <4>2. m - 1 \in 1 .. Len(down) - 1 /\ m - 1 + 1 = m
        BY <1>0, <4>1
      <4>3. g[m - 1] = T
        BY <4>1, <4>2
      <4> QED BY <4>2, <4>3
    <3> QED BY <3>2, <3>3
  <2>5. k - b <= Cardinality(lost) + Len(up) + (Len(down) - 1)
    <3>1. Len(down) - 1 \in Nat
      BY <1>0, <2>1
    <3> HIDE DEF b, f, g
    <3> QED BY <1>0, <1>1, <2>2, <2>4, <3>1, CountCover
  <2>6. Len(up) + Len(down) <= 1 + misses + timeouts
    BY <1>0, <2>1 DEF InFlightEarned
  <2> HIDE DEF b
  <2> QED BY <1>0, <1>1, <2>1, <2>2, <2>5, <2>6 DEF LagEarned
<1>5. CASE TimedOut
  BY <1>5 DEF TimedOut, LagEarned
<1>6. CASE Closed \/ Idle \/ (\E i, wrote : TookFrame(i, wrote))
           \/ (\E wrote : TookNothing(wrote))
  BY <1>2, <1>6 DEF Closed, Idle, TookFrame, TookNothing, Answered
<1> QED BY <1>3, <1>4, <1>5, <1>6 DEF StepShape

-----------------------------------------------------------------------------
(* A gap in the sensor frames. *)

W == WATCHDOG_TIMEOUT_CYCLES

(* The ticks of the gap whose receive is over, beyond the slack: each has  *)
(* taken an answer from down, so the ECU has run at least that many cycles *)
(* in the gap, and one more for each answer still under way.               *)
Overdue == (IF phase \in {"send", "returned"} THEN gap ELSE gap - 1) - slack

(* Intact frames from before the gap are read first; then every cycle      *)
(* counts as missed, and the answers carry what the count demands.         *)
GapTracked ==
    gap > 0 =>
        /\ \A i \in 1 .. Len(up) : up[i].intact => Overdue + Len(down) + i <= 0
        /\ \/ st.current = "FAULT_LATCHED"
           \/ cycles_since_valid >= Overdue + Len(down)
        /\ \A j \in 1 .. Len(down) :
              /\ Overdue + j > W =>
                    /\ down[j].sent.ecu_status \in FaultStatus
                    /\ down[j].sent.brake_command = DRIVER
              /\ Overdue + j >= W + ABS_FAULT_LATCH_THRESHOLD =>
                    down[j].sent.ecu_status = "FAULT_LATCHED"

(* Before the latch a missed cycle is counted without a wrap. *)
LEMMA MissIsCounted ==
    ASSUME CInv, st.current # "FAULT_LATCHED"
    PROVE  Inc32(cycles_since_valid) = cycles_since_valid + 1
<1>1. /\ cycles_since_valid \in Nat /\ age \in Nat /\ faultRun \in Nat
      /\ faultRun < ABS_FAULT_LATCH_THRESHOLD
  BY WidthAssumption DEF CInv, ControlOK, CountersAgree, Uint32
<1>2. cycles_since_valid + 1 < U32
  BY <1>1, NoEarlyWrap, ThresholdAssumption, WidthAssumption
  DEF CInv, CountersAgree
<1> QED BY <1>1, <1>2, Inc32Exact

(* What the ECU reports after so many missed cycles. *)
LEMMA MissesDecide ==
    ASSUME CInv'
    PROVE  /\ cycles_since_valid' > W => st'.current \in FaultStatus
           /\ cycles_since_valid' >= W + ABS_FAULT_LATCH_THRESHOLD
                 => st'.current = "FAULT_LATCHED"
<1> SUFFICES ASSUME st'.current # "FAULT_LATCHED"
             PROVE  /\ cycles_since_valid' > W => st'.current = "FAULT_DEGRADED"
                    /\ ~(cycles_since_valid' >= W + ABS_FAULT_LATCH_THRESHOLD)
  BY DEF FaultStatus
<1>1. /\ cycles_since_valid' \in Nat /\ age' \in Nat /\ faultRun' \in Nat
      /\ faultRun' < ABS_FAULT_LATCH_THRESHOLD
      /\ faultRun' > 0 <=> st'.current = "FAULT_DEGRADED"
      /\ age' <= W => cycles_since_valid' = age'
      /\ age' > W => cycles_since_valid' - W <= faultRun'
  BY WidthAssumption DEF CInv, ControlOK, CountersAgree, Uint32, W
<1>2. W \in Nat /\ ABS_FAULT_LATCH_THRESHOLD \in Nat
      /\ ABS_FAULT_LATCH_THRESHOLD > 0
  BY ThresholdAssumption DEF W
<1>3. CASE age' <= W
  BY <1>1, <1>2, <1>3
<1>4. CASE age' > W
  <2> DEFINE c == cycles_since_valid'
             r == faultRun'
  <2>0. c \in Nat /\ r \in Nat /\ c - W <= r /\ r < ABS_FAULT_LATCH_THRESHOLD
    BY <1>1, <1>4
  <2> HIDE DEF c, r
  <2>1. c < W + ABS_FAULT_LATCH_THRESHOLD
    BY <1>2, <2>0
  <2>2. c > W => r > 0
    BY <1>2, <2>0
  <2> USE DEF c, r
  <2> QED BY <1>1, <1>2, <2>1, <2>2
<1> QED BY <1>1, <1>2, <1>3, <1>4

LEMMA GapStep ==
    ASSUME Base, CInv, CInv', GapTracked, StepShape
    PROVE  GapTracked'
<1>0. /\ Len(up) \in Nat /\ Len(down) \in Nat /\ gap \in Nat /\ slack \in Nat
      /\ W \in Nat /\ ABS_FAULT_LATCH_THRESHOLD \in Nat
      /\ ABS_FAULT_LATCH_THRESHOLD > 0
      /\ cycles_since_valid \in Nat /\ Overdue \in Int
  BY Lengths, ThresholdAssumption, WidthAssumption
  DEF Base, CInv, ControlOK, Uint32, W, Overdue
<1> SUFFICES ASSUME gap' > 0 PROVE GapTracked'
  BY DEF GapTracked
<1>1. ASSUME NEW good, NEW e, Sent(good, e) PROVE GapTracked'
  <2>1. /\ phase = "send" /\ phase' = "recv" /\ good = FALSE /\ gap' = gap + 1
        /\ e.intact = FALSE /\ down' = down
        /\ slack' = IF gap = 0 THEN Len(up) + Len(down) ELSE slack
        /\ st' = st /\ cycles_since_valid' = cycles_since_valid
    BY <1>1 DEF Sent, vars
  <2>2. Overdue' = gap - slack' /\ Overdue = gap - slack
    BY <1>0, <2>1 DEF Overdue
  <2>3. \A i \in 1 .. Len(up') : up'[i].intact =>
           i \in 1 .. Len(up) /\ up'[i] = up[i]
    BY <1>0, <1>1, <2>1, SentQueue
  <2>4. CASE gap = 0
    <3>1. Overdue' + Len(down) <= 0 /\ Overdue' + Len(down) + Len(up) = 0
      BY <1>0, <2>1, <2>2, <2>4
    <3>2. \A i \in 1 .. Len(up') : up'[i].intact => Overdue' + Len(down') + i <= 0
      BY <1>0, <2>1, <2>2, <2>3, <2>4, <3>1
    <3>3. \A j \in 1 .. Len(down') : Overdue' + j <= 0 /\ Overdue' + j \in Int
      BY <1>0, <2>1, <2>2, <2>4
    <3>4. cycles_since_valid' >= Overdue' + Len(down')
      BY <1>0, <2>1, <2>2, <2>4
    <3>5. ASSUME NEW j \in 1 .. Len(down')
          PROVE  ~(Overdue' + j > W)
                 /\ ~(Overdue' + j >= W + ABS_FAULT_LATCH_THRESHOLD)
      BY <1>0, <3>3
    <3> QED BY <3>2, <3>4, <3>5 DEF GapTracked
  <2>5. CASE gap # 0
    <3>1. gap > 0 /\ Overdue' = Overdue
      BY <1>0, <2>1, <2>2, <2>5
    <3> QED BY <2>1, <2>3, <3>1 DEF GapTracked
  <2> QED BY <2>4, <2>5
<1>2. CASE Closed
  <2>1. Overdue' = Overdue
    BY <1>2 DEF Closed, Overdue
  <2> QED BY <1>2, <2>1 DEF Closed, GapTracked, vars
<1>3. ASSUME NEW n, Received(n) PROVE GapTracked'
  <2>1. /\ phase = "recv" /\ phase' \in {"send", "returned"}
        /\ gap' = gap /\ slack' = slack /\ up' = up
        /\ st' = st /\ cycles_since_valid' = cycles_since_valid
        /\ n \in Nat /\ 1 <= n /\ n <= Len(down)
        /\ Len(down') = Len(down) - n
        /\ \A j \in 1 .. Len(down') : down'[j] = down[n + j]
    BY <1>3, ReceivedQueue DEF Received, NextTick, vars
  <2>2. Overdue' = Overdue + 1 /\ gap > 0
    BY <1>0, <2>1 DEF Overdue
  <2>3. Overdue' + Len(down') <= Overdue + Len(down)
    BY <1>0, <2>1, <2>2
  <2>4. ASSUME NEW i \in 1 .. Len(up'), up'[i].intact
        PROVE  Overdue' + Len(down') + i <= 0
    <3>1. i \in 1 .. Len(up) /\ up[i].intact /\ i \in Nat
      BY <1>0, <2>1, <2>4
    <3>2. Overdue + Len(down) + i <= 0
      BY <2>2, <3>1 DEF GapTracked
    <3>3. Overdue' + Len(down') \in Int /\ Overdue + Len(down) \in Int
      BY <1>0, <2>1, <2>2
    <3> QED BY ONLY <2>3, <3>1, <3>2, <3>3
  <2>5. \/ st'.current = "FAULT_LATCHED"
        \/ cycles_since_valid' >= Overdue' + Len(down')
    <3>1. Overdue' + Len(down') \in Int /\ Overdue + Len(down) \in Int
      BY <1>0, <2>1, <2>2
    <3> QED BY <1>0, <2>1, <2>2, <2>3, <3>1 DEF GapTracked
  <2>6. ASSUME NEW j \in 1 .. Len(down')
        PROVE  /\ n + j \in 1 .. Len(down) /\ down'[j] = down[n + j]
               /\ Overdue' + j > W => Overdue + (n + j) > W
               /\ Overdue' + j >= W + ABS_FAULT_LATCH_THRESHOLD =>
                     Overdue + (n + j) >= W + ABS_FAULT_LATCH_THRESHOLD
    <3>1. j \in Nat /\ n + j \in 1 .. Len(down) /\ down'[j] = down[n + j]
      BY <1>0, <2>1
    <3>2. Overdue' + j \in Int /\ Overdue + (n + j) \in Int
          /\ Overdue' + j <= Overdue + (n + j)
      BY <1>0, <2>1, <2>2, <3>1
    <3> QED BY <1>0, <3>1, <3>2
  <2> QED BY <2>2, <2>4, <2>5, <2>6 DEF GapTracked
<1>4. CASE TimedOut
  <2>1. /\ phase = "recv" /\ phase' \in {"send", "returned"}
        /\ gap' = gap /\ slack' = slack + 1 /\ up' = up /\ down' = down
        /\ st' = st /\ cycles_since_valid' = cycles_since_valid
    BY <1>4 DEF TimedOut, NextTick, vars
  <2>2. Overdue' = Overdue /\ gap > 0
    BY <1>0, <2>1 DEF Overdue
  <2> QED BY <2>1, <2>2 DEF GapTracked
<1>5. ASSUME NEW wrote, Answered(wrote)
      PROVE  /\ Overdue' = Overdue /\ gap > 0 /\ wrote \in BOOLEAN
             /\ Len(down') \in {Len(down), Len(down) + 1}
             /\ \A j \in 1 .. Len(down') :
                   \/ j \in 1 .. Len(down) /\ down'[j] = down[j]
                   \/ /\ j = Len(down) + 1 /\ j = Len(down')
                      /\ down'[j].sent.ecu_status = st'.current
                      /\ st'.current \in FaultStatus =>
                            down'[j].sent.brake_command = DRIVER
  <2>1. Overdue' = Overdue /\ gap > 0 /\ wrote \in BOOLEAN /\ running' = wrote
    BY <1>5 DEF Answered, Overdue
  <2>2. CASE ~wrote
    <3>1. down' = down
      BY <1>5, <2>2, AnsweredQueue
    <3> QED BY <2>1, <3>1
  <2>3. CASE wrote
    <3>1. /\ Len(down') = Len(down) + 1
          /\ \A j \in 1 .. Len(down) : down'[j] = down[j]
          /\ down'[Len(down) + 1].sent = out'
      BY <1>5, <2>3, AnsweredQueue
    <3>2. /\ out'.ecu_status = st'.current
          /\ st'.current \in FaultStatus => out'.brake_command = DRIVER
      BY <2>1, <2>3 DEF CInv, SentAgrees
    <3> QED BY <1>0, <2>1, <3>1, <3>2
  <2> QED BY <2>1, <2>2, <2>3
<1>6. ASSUME NEW i, NEW wrote, TookFrame(i, wrote) PROVE GapTracked'
  <2>1. /\ i \in 1 .. Len(up) /\ up[i].intact
        /\ Len(up') = Len(up) - i
        /\ \A j \in 1 .. Len(up') : up'[j] = up[i + j]
        /\ cycles_since_valid' = 0
        /\ Answered(wrote)
    BY <1>6, TookQueue DEF TookFrame
  <2>2. /\ Overdue' = Overdue /\ gap > 0
        /\ Len(down') \in {Len(down), Len(down) + 1}
    BY <1>5, <2>1
  <2>3. Overdue + Len(down) + i <= 0
    BY <2>1, <2>2 DEF GapTracked
  <2>4. \A j \in 1 .. Len(up') : up'[j].intact => Overdue' + Len(down') + j <= 0
    <3> SUFFICES ASSUME NEW j \in 1 .. Len(up'), up'[j].intact
                 PROVE  Overdue' + Len(down') + j <= 0
      OBVIOUS
    <3>1. i + j \in 1 .. Len(up) /\ up'[j] = up[i + j]
      BY <1>0, <2>1
    <3>2. Overdue + Len(down) + (i + j) <= 0
      BY <2>2, <3>1 DEF GapTracked
    <3> QED BY <1>0, <2>1, <2>2, <3>2
  <2>5. 0 >= Overdue' + Len(down')
    BY <1>0, <2>1, <2>2, <2>3
  <2>6. ASSUME NEW j \in 1 .. Len(down')
        PROVE  ~(Overdue' + j > W)
               /\ ~(Overdue' + j >= W + ABS_FAULT_LATCH_THRESHOLD)
    BY <1>0, <2>2, <2>5
  <2> QED BY <2>1, <2>4, <2>5, <2>6 DEF GapTracked
<1>7. ASSUME NEW wrote, TookNothing(wrote) PROVE GapTracked'
  <2>1. /\ Len(up') = 0
        /\ cycles_since_valid' = Inc32(cycles_since_valid)
        /\ Answered(wrote)
        /\ st.current = "FAULT_LATCHED" => st'.current = "FAULT_LATCHED"
    BY <1>7, QueueEmpty DEF TookNothing, Answered
  <2>2. /\ Overdue' = Overdue /\ gap > 0
        /\ Len(down') \in {Len(down), Len(down) + 1}
        /\ \A j \in 1 .. Len(down') :
              \/ j \in 1 .. Len(down) /\ down'[j] = down[j]
              \/ /\ j = Len(down) + 1 /\ j = Len(down')
                 /\ down'[j].sent.ecu_status = st'.current
                 /\ st'.current \in FaultStatus =>
                       down'[j].sent.brake_command = DRIVER
    BY <1>5, <2>1
  <2>3. st'.current # "FAULT_LATCHED" =>
           /\ cycles_since_valid' = cycles_since_valid + 1
           /\ cycles_since_valid' >= Overdue' + Len(down')
    BY <1>0, <2>1, <2>2, MissIsCounted DEF GapTracked
  <2>4. ASSUME NEW j \in 1 .. Len(down')
        PROVE  /\ Overdue' + j > W =>
                    /\ down'[j].sent.ecu_status \in FaultStatus
                    /\ down'[j].sent.brake_command = DRIVER
               /\ Overdue' + j >= W + ABS_FAULT_LATCH_THRESHOLD =>
                    down'[j].sent.ecu_status = "FAULT_LATCHED"
    <3>1. CASE j \in 1 .. Len(down) /\ down'[j] = down[j]
      BY <2>2, <3>1 DEF GapTracked
    <3>2. CASE j = Len(down) + 1 /\ j = Len(down')
      <4>1. /\ down'[j].sent.ecu_status = st'.current
            /\ st'.current \in FaultStatus =>
                  down'[j].sent.brake_command = DRIVER
        BY <1>0, <2>2, <3>2
      <4>2. CASE st'.current = "FAULT_LATCHED"
        BY <4>1, <4>2 DEF FaultStatus
      <4>3. CASE st'.current # "FAULT_LATCHED"
        <5>1. /\ Overdue' + j > W => cycles_since_valid' > W
              /\ Overdue' + j >= W + ABS_FAULT_LATCH_THRESHOLD =>
                    cycles_since_valid' >= W + ABS_FAULT_LATCH_THRESHOLD
          BY <1>0, <2>2, <2>3, <3>2, <4>3
        <5> QED BY <4>1, <5>1, MissesDecide
      <4> QED BY <4>2, <4>3
    <3> QED BY <2>2, <3>1, <3>2
  <2> QED BY <2>1, <2>3, <2>4 DEF GapTracked
<1>8. CASE Idle
  <2>1. Overdue' = Overdue
    BY <1>8 DEF Idle, Overdue
  <2> QED BY <1>8, <2>1 DEF Idle, GapTracked
<1> QED BY <1>1, <1>2, <1>3, <1>4, <1>6, <1>7, <1>8 DEF StepShape

LEMMA GapRowStep ==
    ASSUME Base, GapTracked, GapReachesBrake, StepShape, Base'
    PROVE  GapReachesBrake'
<1>0. /\ gap \in Nat /\ slack \in Nat /\ gap' \in Nat /\ slack' \in Nat
      /\ W \in Nat /\ ABS_FAULT_LATCH_THRESHOLD \in Nat
      /\ ABS_FAULT_LATCH_THRESHOLD > 0 /\ Len(down) \in Nat
  BY Lengths, ThresholdAssumption DEF Base, W
<1>1. CASE phase' \notin {"send", "returned"}
  BY <1>1 DEF GapReachesBrake
<1>2. CASE phase' \in {"send", "returned"} /\ UNCHANGED <<row, gap, slack>>
           /\ phase \in {"send", "returned"}
  BY <1>2 DEF GapReachesBrake
<1>3. ASSUME NEW n, Received(n) PROVE GapReachesBrake'
  <2>1. /\ phase = "recv" /\ 1 <= Len(down)
        /\ row'.status = down[1].sent.ecu_status
        /\ row'.brake = down[1].sent.brake_command
        /\ gap' = gap /\ slack' = slack
    BY <1>0, <1>3 DEF Received, NextTick
  <2>2. CASE gap = 0
    <3>1. ~(gap' - slack' > W)
          /\ ~(gap' - slack' >= W + ABS_FAULT_LATCH_THRESHOLD)
      BY <1>0, <2>1, <2>2
    <3> QED BY <3>1 DEF GapReachesBrake, W
  <2>3. CASE gap # 0
    <3>1. gap > 0 /\ Overdue + 1 = gap' - slack' /\ 1 \in 1 .. Len(down)
      BY <1>0, <2>1, <2>3 DEF Overdue
    <3> QED BY <2>1, <3>1 DEF GapTracked, GapReachesBrake, W
  <2> QED BY <2>2, <2>3
<1>4. CASE TimedOut
  BY <1>4 DEF TimedOut, GapReachesBrake
<1>5. CASE \E good, e : Sent(good, e)
  BY <1>1, <1>5 DEF Sent
<1>6. CASE Closed \/ Idle \/ (\E i, wrote : TookFrame(i, wrote))
           \/ (\E wrote : TookNothing(wrote))
  <2>1. UNCHANGED <<row, gap, slack>> /\ phase \in {"send", "recv", "returned", "raised"}
        /\ (phase' = phase \/ (phase = "send" /\ phase' = "returned")
              \/ phase' = "raised")
    BY <1>6 DEF Closed, Idle, TookFrame, TookNothing, Answered, Base
  <2> QED BY <1>1, <1>2, <2>1
<1> QED BY <1>3, <1>4, <1>5, <1>6 DEF StepShape
-----------------------------------------------------------------------------
(* The end of a run. *)

(* The ECU runs one cycle per sample it takes and one per empty read; the  *)
(* tick it has answered last has its answer under way until the plant      *)
(* reads it, so the plant is left without one only when the ECU has not    *)
(* reached the tick.                                                       *)
Kept ==
    /\ cycle <= basis + misses
    /\ phase = "recv" /\ basis = k => down # << >>
    /\ phase = "raised" => ~running /\ cycle < scenario.n_ticks + misses

LEMMA KeptStep ==
    ASSUME Base, UpInOrder, Kept, StepShape
    PROVE  Kept'
<1>0. /\ Len(up) \in Nat /\ Len(down) \in Nat /\ k \in Nat /\ basis \in Nat
      /\ cycle \in Nat /\ misses \in Nat /\ scenario.n_ticks \in Nat
      /\ k <= scenario.n_ticks
  BY Lengths, SilAssumption DEF Base
<1>1. ASSUME NEW good, NEW e, Sent(good, e) PROVE Kept'
  <2>1. /\ phase = "send" /\ phase' = "recv" /\ basis < k
        /\ UNCHANGED <<cycle, basis, misses, k>>
    BY <1>1 DEF Sent, UpInOrder
  <2> QED BY <1>0, <2>1 DEF Kept
<1>2. CASE Closed
  <2>1. UNCHANGED <<k, scenario, up, down, cycle, basis, misses, running>>
    BY <1>2 DEF Closed, vars
  <2>2. CASE phase' = "returned"
    BY <2>1, <2>2 DEF Kept
  <2>3. CASE phase = "recv" /\ phase' = "raised" /\ ~running
             /\ (down = << >> \/ up # << >>)
    <3>1. CASE down = << >>
      <4>1. basis < k
        BY <1>0, <2>3, <3>1 DEF Kept, UpInOrder
      <4> QED BY <1>0, <2>1, <2>3, <4>1 DEF Kept
    <3>2. CASE up # << >>
      <4>1. 1 \in 1 .. Len(up)
        BY <1>0, <3>2, QueueLen DEF Base
      <4>2. basis < up[1].tick /\ up[1].tick <= k /\ up[1].tick \in Nat
        BY <4>1 DEF UpInOrder, Base
      <4>3. basis < k
        BY <1>0, <4>2
      <4> QED BY <1>0, <2>1, <2>3, <4>3 DEF Kept
    <3> QED BY <2>3, <3>1, <3>2
  <2> QED BY <1>2, <2>2, <2>3 DEF Closed
<1>3. CASE NextTick
  BY <1>3 DEF NextTick, Kept
<1>4. ASSUME NEW i, NEW wrote, TookFrame(i, wrote) PROVE Kept'
  <2>1. /\ basis' = up[i].tick /\ i \in 1 .. Len(up) /\ running
        /\ cycle' = cycle + 1 /\ UNCHANGED <<misses, phase>>
        /\ Answered(wrote)
    BY <1>4 DEF TookFrame, Answered
  <2>2. basis < basis' /\ basis' \in Nat
    BY <2>1 DEF UpInOrder, Base
  <2>3. cycle' <= basis' + misses'
    BY <1>0, <2>1, <2>2 DEF Kept
  <2>4. ASSUME phase = "recv" PROVE down' # << >>
    <3>1. wrote
      BY <2>1, <2>4 DEF Answered
    <3>2. Queue(down') /\ Len(down') = Len(down) + 1
      BY <2>1, <3>1, AnsweredQueue
    <3> QED BY <1>0, <3>2, QueueLen
  <2>5. phase # "raised"
    BY <2>1 DEF Kept
  <2> QED BY <2>1, <2>3, <2>4, <2>5 DEF Kept
<1>5. ASSUME NEW wrote, TookNothing(wrote) PROVE Kept'
  <2>1. /\ basis' = basis /\ running /\ misses' = misses + 1
        /\ cycle' = cycle + 1 /\ UNCHANGED <<phase, k>>
        /\ Answered(wrote)
    BY <1>5 DEF TookNothing, Answered
  <2>2. cycle' <= basis' + misses'
    BY <1>0, <2>1 DEF Kept
  <2>3. ASSUME phase = "recv" PROVE down' # << >>
    <3>1. wrote
      BY <2>1, <2>3 DEF Answered
    <3>2. Queue(down') /\ Len(down') = Len(down) + 1
      BY <2>1, <3>1, AnsweredQueue
    <3> QED BY <1>0, <3>2, QueueLen
  <2>4. phase # "raised"
    BY <2>1 DEF Kept
  <2> QED BY <2>1, <2>2, <2>3, <2>4 DEF Kept
<1>6. CASE Idle
  BY <1>6 DEF Idle, Kept
<1> QED BY <1>1, <1>2, <1>3, <1>4, <1>5, <1>6 DEF StepShape, Received, TimedOut

-----------------------------------------------------------------------------
(* What a gap leaves in the log. *)

Reported == log.first["COMM_TIMEOUT"] # 0

(* The code is in the log, or under way among the first j answers. *)
CodeUpTo(j) ==
    \/ Reported
    \/ \E m \in 1 .. j : "COMM_TIMEOUT" \in down[m].sent.dtc_code

(* So is FAULT_DEGRADED. *)
DegradedUpTo(j) ==
    \/ "FAULT_DEGRADED" \in log.states
    \/ \E m \in 1 .. j : down[m].sent.ecu_status = "FAULT_DEGRADED"

(* Without discards every answer passes through the log, so what the ECU   *)
(* has answered in a silence is logged or under way, ahead of the answers  *)
(* that depend on it: the code ahead of a longer silence, FAULT_DEGRADED   *)
(* ahead of the latch.                                                     *)
Shown ==
    /\ discards \in Nat
    /\ gap > 0 => age > W \/ age >= Overdue + Len(down)
    /\ phase \in {"send", "recv"} /\ discards = 0 =>
          /\ age > W => CodeUpTo(Len(down))
          /\ gap > 0 => \A j \in 0 .. Len(down) : Overdue + j > W => CodeUpTo(j)
          /\ st.current \in FaultStatus => DegradedUpTo(Len(down))
          /\ \A j \in 1 .. Len(down) :
                down[j].sent.ecu_status = "FAULT_LATCHED" => DegradedUpTo(j)

(* A row that is logged stays in the log. *)
LEMMA LogKeeps ==
    ASSUME log' = Logged(row')
    PROVE  /\ Reported => Reported'
           /\ "COMM_TIMEOUT" \in row'.dtc /\ row'.tick # 0 => Reported'
           /\ log'.states = log.states \cup {row'.status}
<1>1. "COMM_TIMEOUT" \in DtcBits
  BY DEF DtcBits
<1>2. log'.first["COMM_TIMEOUT"] =
         IF log.first["COMM_TIMEOUT"] = 0 /\ "COMM_TIMEOUT" \in row'.dtc
         THEN row'.tick ELSE log.first["COMM_TIMEOUT"]
  BY <1>1 DEF Logged
<1>3. log'.states = log.states \cup {row'.status}
  BY DEF Logged
<1> QED BY <1>2, <1>3 DEF Reported

(* What the assertions of s4_comm_loss ask for. *)
LEMMA S4Passes ==
    Reported /\ {"FAULT_DEGRADED", "FAULT_LATCHED"} \subseteq log.states
        => S4Main = 0
<1> SUFFICES ASSUME Reported, "FAULT_DEGRADED" \in log.states,
                    "FAULT_LATCHED" \in log.states
             PROVE  S4Main = 0
  OBVIOUS
<1> DEFINE asserts == <<FirstDtcTime("COMM_TIMEOUT") # 0,
                        "FAULT_DEGRADED" \in StatesVisited,
                        "FAULT_LATCHED" \in StatesVisited>>
<1>1. asserts = <<TRUE, TRUE, TRUE>>
  BY DEF Reported, FirstDtcTime, StatesVisited
<1> HIDE DEF asserts
<1>2. \A i \in DOMAIN asserts : asserts[i]
  <2>1. /\ DOMAIN asserts = 1 .. 3
        /\ asserts[1] = TRUE /\ asserts[2] = TRUE /\ asserts[3] = TRUE
    BY <1>1
  <2>2. \A i \in 1 .. 3 : i = 1 \/ i = 2 \/ i = 3
    OBVIOUS
  <2> QED BY <2>1, <2>2
<1> QED BY <1>2 DEF S4Main, AssertAll, asserts

LEMMA ShownInit == SilInit => Shown /\ GapIsSeen
<1> SUFFICES ASSUME SilInit PROVE Shown /\ GapIsSeen
  OBVIOUS
<1>1. /\ Len(down) = 0 /\ discards = 0 /\ gap = 0 /\ ~row.answered
      /\ age = 0 /\ st.current = "INIT"
  BY QueueEmpty DEF SilInit, Init, AbsStateInit
<1>2. W \in Nat
  BY ThresholdAssumption DEF W
<1> QED BY <1>1, <1>2 DEF Shown, GapIsSeen, FaultStatus

LEMMA ShownStep ==
    ASSUME Base, CInv, CInv', GapTracked, Shown, StepShape
    PROVE  Shown'
<1>0. /\ Len(up) \in Nat /\ Len(down) \in Nat /\ gap \in Nat /\ slack \in Nat
      /\ W \in Nat /\ Overdue \in Int /\ age \in Nat /\ age' \in Nat
      /\ discards \in Nat /\ k \in Nat /\ k # 0
  <2>1. /\ Len(up) \in Nat /\ Len(down) \in Nat /\ gap \in Nat /\ slack \in Nat
        /\ k \in Nat /\ k # 0 /\ discards \in Nat
    BY Lengths DEF Base, Shown
  <2>2. W \in Nat
    BY ThresholdAssumption DEF W
  <2>3. age \in Nat /\ age' \in Nat
    BY ThresholdAssumption DEF CInv, ControlOK
  <2>4. Overdue \in Int
    BY <2>1 DEF Overdue
  <2> QED BY <2>1, <2>2, <2>3, <2>4
<1>1. ASSUME NEW good, NEW e, Sent(good, e) PROVE Shown'
  <2>1. /\ phase = "send" /\ down' = down /\ UNCHANGED <<st, age, log, discards>>
        /\ gap' = 0 \/ gap' = gap + 1
        /\ slack' = IF gap = 0 THEN Len(up) + Len(down) ELSE slack
        /\ phase' = "recv"
    BY <1>1 DEF Sent, vars
  <2>2. /\ \A j : CodeUpTo(j)' <=> CodeUpTo(j)
        /\ \A j : DegradedUpTo(j)' <=> DegradedUpTo(j)
    BY <2>1 DEF CodeUpTo, DegradedUpTo, Reported
  <2>3. gap' > 0 => \/ gap > 0 /\ Overdue' = Overdue
                    \/ Overdue' + Len(down) <= 0
    BY <1>0, <2>1 DEF Overdue
  <2>4. gap' > 0 => age' > W \/ age' >= Overdue' + Len(down')
    BY <1>0, <2>1, <2>3 DEF Shown, Overdue
  <2>5. ASSUME discards = 0, gap' > 0, NEW j \in 0 .. Len(down), Overdue' + j > W
        PROVE  CodeUpTo(j)
    <3>1. CASE gap > 0 /\ Overdue' = Overdue
      BY <2>1, <2>5, <3>1 DEF Shown
    <3>2. CASE Overdue' + Len(down) <= 0
      <4>1. Overdue' \in Int
        BY <1>0, <2>1 DEF Overdue
      <4>2. PICK o \in Int : o = Overdue'
        BY <4>1
      <4>3. o + Len(down) <= 0 /\ o + j > W /\ j \in Nat /\ j <= Len(down)
        <5>1. o + Len(down) <= 0
          BY <3>2, <4>2
        <5>2. o + j > W
          BY <2>5, <4>2
        <5>3. j \in Nat /\ j <= Len(down)
          BY <1>0
        <5> QED BY <5>1, <5>2, <5>3
      <4> QED BY <1>0, <4>3
    <3> QED BY <2>3, <2>5, <3>1, <3>2
  <2> QED BY <2>1, <2>2, <2>4, <2>5 DEF Shown
<1>2. CASE Closed
  <2>1. /\ phase' \notin {"send", "recv"} /\ Overdue' = Overdue
        /\ UNCHANGED <<down, gap, age, discards>>
    BY <1>2 DEF Closed, Overdue, vars
  <2> QED BY <2>1 DEF Shown
<1>3. ASSUME NEW n, Received(n) PROVE Shown'
  <2>1. /\ phase = "recv" /\ gap' = gap /\ slack' = slack
        /\ phase' \in {"send", "returned"}
        /\ UNCHANGED <<st, age>> /\ log' = Logged(row')
        /\ discards' = discards + n - 1
        /\ n \in Nat /\ 1 <= n /\ n <= Len(down)
        /\ Len(down') = Len(down) - n
        /\ \A j \in 1 .. Len(down') : down'[j] = down[n + j]
        /\ row'.tick = k /\ row'.dtc = down[1].sent.dtc_code
        /\ row'.status = down[1].sent.ecu_status
    BY <1>3, ReceivedQueue DEF Received, NextTick, vars
  <2>2. Overdue' = Overdue + 1
    BY <1>0, <2>1 DEF Overdue
  <2>3. discards' \in Nat
    BY <1>0, <2>1
  <2>4. gap' > 0 => age' > W \/ age' >= Overdue' + Len(down')
    BY <1>0, <2>1, <2>2 DEF Shown
  <2>5. SUFFICES ASSUME phase' \in {"send", "recv"}, discards' = 0
        PROVE  /\ age' > W => CodeUpTo(Len(down))'
               /\ gap' > 0 => \A j \in 0 .. Len(down') :
                                 Overdue' + j > W => CodeUpTo(j)'
               /\ st'.current \in FaultStatus => DegradedUpTo(Len(down))'
               /\ \A j \in 1 .. Len(down') :
                     down'[j].sent.ecu_status = "FAULT_LATCHED" => DegradedUpTo(j)'
    BY <2>3, <2>4 DEF Shown
  <2>6. n = 1 /\ discards = 0
    BY <1>0, <2>1, <2>5
  <2>7. ASSUME NEW j \in 0 .. Len(down')
        PROVE  /\ j + 1 \in 1 .. Len(down)
               /\ CodeUpTo(j + 1) => CodeUpTo(j)'
               /\ DegradedUpTo(j + 1) => DegradedUpTo(j)'
    <3>1. j + 1 \in 1 .. Len(down) /\ j \in Nat
      BY <1>0, <2>1, <2>6
    <3>2. \A m \in 1 .. j + 1 :
             m = 1 \/ (m - 1 \in 1 .. j /\ down'[m - 1] = down[m])
      <4> SUFFICES ASSUME NEW m \in 1 .. j + 1, m # 1
                   PROVE  m - 1 \in 1 .. j /\ down'[m - 1] = down[m]
        OBVIOUS
      <4>1. m - 1 \in 1 .. j /\ m - 1 \in 1 .. Len(down') /\ 1 + (m - 1) = m
        BY <1>0, <2>1, <2>6, <3>1
      <4> QED BY <2>1, <2>6, <4>1
    <3>3. CodeUpTo(j + 1) => CodeUpTo(j)'
      <4>1. CASE Reported
        BY <2>1, <4>1, LogKeeps DEF CodeUpTo
      <4>2. ASSUME NEW m \in 1 .. j + 1, "COMM_TIMEOUT" \in down[m].sent.dtc_code
            PROVE  CodeUpTo(j)'
        <5>1. CASE m = 1
          BY <1>0, <2>1, <4>2, <5>1, LogKeeps DEF CodeUpTo
        <5>2. CASE m # 1
          BY <3>2, <4>2, <5>2 DEF CodeUpTo
        <5> QED BY <5>1, <5>2
      <4> QED BY <4>1, <4>2 DEF CodeUpTo
    <3>4. DegradedUpTo(j + 1) => DegradedUpTo(j)'
      <4>1. CASE "FAULT_DEGRADED" \in log.states
        BY <2>1, <4>1, LogKeeps DEF DegradedUpTo
      <4>2. ASSUME NEW m \in 1 .. j + 1, down[m].sent.ecu_status = "FAULT_DEGRADED"
            PROVE  DegradedUpTo(j)'
        <5>1. CASE m = 1
          BY <2>1, <4>2, <5>1, LogKeeps DEF DegradedUpTo
        <5>2. CASE m # 1
          BY <3>2, <4>2, <5>2 DEF DegradedUpTo
        <5> QED BY <5>1, <5>2
      <4> QED BY <4>1, <4>2 DEF DegradedUpTo
    <3> QED BY <3>1, <3>3, <3>4
  <2>8. Len(down') \in 0 .. Len(down') /\ Len(down') + 1 = Len(down)
    BY <1>0, <2>1, <2>6
  <2>9. age' > W => CodeUpTo(Len(down))'
    BY <2>1, <2>6, <2>7, <2>8 DEF Shown
  <2>10. ASSUME gap' > 0, NEW j \in 0 .. Len(down'), Overdue' + j > W
         PROVE  CodeUpTo(j)'
    <3>1. j + 1 \in 0 .. Len(down) /\ Overdue + (j + 1) > W /\ gap > 0
      BY <1>0, <2>1, <2>2, <2>7, <2>8, <2>10
    <3>2. CodeUpTo(j + 1)
      BY <2>1, <2>6, <3>1 DEF Shown
    <3> QED BY <2>7, <3>2
  <2>11. st'.current \in FaultStatus => DegradedUpTo(Len(down))'
    BY <2>1, <2>6, <2>7, <2>8 DEF Shown
  <2>12. ASSUME NEW j \in 1 .. Len(down'), down'[j].sent.ecu_status = "FAULT_LATCHED"
         PROVE  DegradedUpTo(j)'
    <3>1. j \in 0 .. Len(down') /\ 1 + j = j + 1 /\ down'[j] = down[1 + j]
      BY <2>1, <2>6
    <3>2. DegradedUpTo(j + 1)
      BY <2>1, <2>6, <2>7, <2>12, <3>1 DEF Shown
    <3> QED BY <2>7, <3>1, <3>2
  <2> QED BY <2>9, <2>10, <2>11, <2>12
<1>4. CASE TimedOut
  <2>1. /\ gap' = gap /\ slack' = slack + 1 /\ Len(down') = 0 /\ Len(down) = 0
        /\ phase = "recv" /\ phase' \in {"send", "returned"}
        /\ UNCHANGED <<st, age, discards>> /\ log' = Logged(row')
        /\ row'.tick = k /\ row'.status = "FAULT_DEGRADED"
        /\ row'.dtc = {"COMM_TIMEOUT"}
    BY <1>4, QueueEmpty DEF TimedOut, NextTick, vars
  <2>2. gap' > 0 => age' > W \/ age' >= Overdue' + Len(down')
    BY <1>0, <2>1 DEF Shown, Overdue
  <2>3. Reported' /\ "FAULT_DEGRADED" \in log'.states
    BY <1>0, <2>1, LogKeeps
  <2>4. \A j : CodeUpTo(j)' /\ DegradedUpTo(j)'
    BY <2>3 DEF CodeUpTo, DegradedUpTo
  <2> QED BY <1>0, <2>1, <2>2, <2>4 DEF Shown
<1>5. ASSUME NEW wrote, Answered(wrote),
             age' > W /\ ~(age > W) /\ wrote =>
                "COMM_TIMEOUT" \in out'.dtc_code,
             gap > 0 => age' > W \/ age' >= Overdue + Len(down'),
             gap > 0 /\ ~(age' > W) => Overdue + Len(down') <= W
      PROVE  Shown'
  <2>1. /\ UNCHANGED <<phase, log, discards, gap, slack>> /\ Overdue' = Overdue
        /\ wrote \in BOOLEAN /\ (wrote \/ phase \notin {"send", "recv"})
        /\ running' = wrote /\ LatchFollows
    BY <1>5 DEF Answered, Overdue
  <2>2. CASE phase \notin {"send", "recv"}
    BY <1>0, <1>5, <2>1, <2>2 DEF Shown
  <2>3. CASE phase \in {"send", "recv"}
    <3>0. PICK last \in Nat : last = Len(down) + 1
      BY <1>0
    <3>1. /\ wrote /\ Len(down') = last
          /\ \A j \in 1 .. Len(down) : down'[j] = down[j]
          /\ down'[last].sent = out'
      BY <1>5, <2>1, <2>3, <3>0, AnsweredQueue
    <3>2. out'.ecu_status = st'.current
      BY <2>1, <3>1 DEF CInv, SentAgrees
    <3>3. last \in 1 .. last /\ \A j \in 1 .. Len(down) : j \in 1 .. last
      BY <1>0, <3>0
    <3> SUFFICES ASSUME discards = 0
                 PROVE  /\ age' > W => CodeUpTo(last)'
                        /\ gap > 0 => \A j \in 0 .. last :
                                        Overdue + j > W => CodeUpTo(j)'
                        /\ st'.current \in FaultStatus => DegradedUpTo(last)'
                        /\ \A j \in 1 .. last :
                              down'[j].sent.ecu_status = "FAULT_LATCHED" =>
                                 DegradedUpTo(j)'
      <4>1. /\ CodeUpTo(Len(down))' <=> CodeUpTo(last)'
            /\ DegradedUpTo(Len(down))' <=> DegradedUpTo(last)'
        BY <3>1 DEF CodeUpTo, DegradedUpTo
      <4>2. discards' = discards /\ gap' = gap /\ Overdue' = Overdue
        BY <2>1
      <4> QED BY <1>0, <1>5, <3>1, <4>1, <4>2 DEF Shown
    <3>4. ASSUME NEW j \in 0 .. Len(down)
          PROVE  /\ CodeUpTo(j) => CodeUpTo(j)' /\ CodeUpTo(last)'
                 /\ DegradedUpTo(j) => DegradedUpTo(j)' /\ DegradedUpTo(last)'
      <4>1. \A m \in 1 .. j : m \in 1 .. Len(down) /\ down'[m] = down[m]
        BY <1>0, <3>1
      <4>2. \A m \in 1 .. j : m \in 1 .. last
        BY <3>3, <4>1
      <4>3. Reported' = Reported /\ log' = log
        BY <2>1 DEF Reported
      <4> QED BY <4>1, <4>2, <4>3 DEF CodeUpTo, DegradedUpTo
    <3>5. Len(down) \in 0 .. Len(down)
      BY <1>0
    <3>6. age' > W => CodeUpTo(last)'
      <4>1. CASE age > W
        BY <2>3, <3>4, <3>5, <4>1 DEF Shown
      <4>2. CASE ~(age > W) /\ age' > W
        BY <1>5, <3>1, <3>3, <4>2 DEF CodeUpTo
      <4> QED BY <4>1, <4>2
    <3>7. ASSUME gap > 0, NEW j \in 0 .. last, Overdue + j > W
          PROVE  CodeUpTo(j)'
      <4>1. CASE j \in 0 .. Len(down)
        BY <2>3, <3>4, <3>7, <4>1 DEF Shown
      <4>2. CASE j = last
        <5>1. age' > W
          BY <1>0, <1>5, <3>1, <3>7, <4>2
        <5> QED BY <3>6, <4>2, <5>1
      <4> QED BY <1>0, <3>0, <4>1, <4>2
    <3>8. st'.current \in FaultStatus => DegradedUpTo(last)'
      <4>1. CASE st'.current = "FAULT_DEGRADED"
        BY <3>1, <3>2, <3>3, <4>1 DEF DegradedUpTo
      <4>2. CASE st'.current = "FAULT_LATCHED"
        <5>1. st.current \in FaultStatus
          BY <2>1, <4>2, LatchAssumption DEF LatchFollows
        <5> QED BY <2>3, <3>4, <3>5, <5>1 DEF Shown
      <4> QED BY <4>1, <4>2 DEF FaultStatus
    <3>9. ASSUME NEW j \in 1 .. last, down'[j].sent.ecu_status = "FAULT_LATCHED"
          PROVE  DegradedUpTo(j)'
      <4>1. CASE j \in 1 .. Len(down)
        <5>1. j \in 0 .. Len(down) /\ down[j].sent.ecu_status = "FAULT_LATCHED"
          BY <3>1, <3>9, <4>1
        <5> QED BY <2>3, <3>4, <4>1, <5>1 DEF Shown
      <4>2. CASE j = last
        BY <3>1, <3>2, <3>8, <3>9, <4>2 DEF FaultStatus
      <4> QED BY <1>0, <3>0, <4>1, <4>2
    <3> QED BY <3>6, <3>7, <3>8, <3>9
  <2> QED BY <2>2, <2>3
<1>6. ASSUME NEW i, NEW wrote, TookFrame(i, wrote) PROVE Shown'
  <2>1. /\ i \in 1 .. Len(up) /\ up[i].intact /\ age' = 0
        /\ Answered(wrote)
    BY <1>6 DEF TookFrame
  <2>2. Len(down') \in {Len(down), Len(down) + 1}
    BY <2>1, AnsweredQueue DEF Answered
  <2>3. gap > 0 => Overdue + Len(down) + i <= 0
    BY <2>1 DEF GapTracked
  <2>4. gap > 0 => Overdue + Len(down') <= 0
    BY <1>0, <2>1, <2>2, <2>3
  <2>5. /\ ~(age' > W)
        /\ gap > 0 => age' >= Overdue + Len(down') /\ Overdue + Len(down') <= W
    BY <1>0, <2>1, <2>2, <2>4
  <2> QED BY <1>5, <2>1, <2>5
<1>7. ASSUME NEW wrote, TookNothing(wrote) PROVE Shown'
  <2>1. /\ age' = Capped(age + 1, WATCHDOG_TIMEOUT_CYCLES + 1)
        /\ cycles_since_valid' = Inc32(cycles_since_valid)
        /\ wrote /\ cycles_since_valid' > WATCHDOG_TIMEOUT_CYCLES =>
              "COMM_TIMEOUT" \in out'.dtc_code
        /\ Answered(wrote)
    BY <1>7 DEF TookNothing
  <2>2. Len(down') \in {Len(down), Len(down) + 1}
    BY <2>1, AnsweredQueue DEF Answered
  <2>3. age' = IF age < W THEN age + 1 ELSE W + 1
    BY <1>0, <2>1 DEF Capped, W
  <2>4. ~(age > W) => cycles_since_valid' = age + 1
    <3> SUFFICES ASSUME ~(age > W) PROVE cycles_since_valid' = age + 1
      OBVIOUS
    <3>1. cycles_since_valid = age /\ age + 1 < U32
      BY <1>0, NoEarlyWrap, ThresholdAssumption, WidthAssumption
      DEF CInv, CountersAgree, W
    <3> QED BY <1>0, <2>1, <3>1, Inc32Exact
  <2>5. age' > W /\ ~(age > W) /\ wrote => "COMM_TIMEOUT" \in out'.dtc_code
    <3> SUFFICES ASSUME age' > W, ~(age > W), wrote
                 PROVE  "COMM_TIMEOUT" \in out'.dtc_code
      OBVIOUS
    <3>1. cycles_since_valid' > WATCHDOG_TIMEOUT_CYCLES
      BY <1>0, <2>3, <2>4 DEF W
    <3> QED BY <2>1, <3>1
  <2>6. /\ gap > 0 => age' > W \/ age' >= Overdue + Len(down')
        /\ gap > 0 /\ ~(age' > W) => Overdue + Len(down') <= W
    <3>1. gap > 0 => age > W \/ age >= Overdue + Len(down)
      BY DEF Shown
    <3> QED BY <1>0, <2>2, <2>3, <3>1
  <2> QED BY <1>5, <2>1, <2>5, <2>6
<1>8. CASE Idle
  <2>1. /\ Overdue' = Overdue
        /\ UNCHANGED <<st, age, phase, down, gap, log, discards>>
    BY <1>8 DEF Idle, Overdue
  <2> QED BY <2>1 DEF Shown, CodeUpTo, DegradedUpTo, Reported
<1> QED BY <1>1, <1>2, <1>3, <1>4, <1>6, <1>7, <1>8 DEF StepShape

LEMMA SeenStep ==
    ASSUME Base, GapReachesBrake', Shown, GapIsSeen, StepShape
    PROVE  GapIsSeen'
<1>0. /\ Len(down) \in Nat /\ gap \in Nat /\ slack \in Nat
      /\ W \in Nat /\ ABS_FAULT_LATCH_THRESHOLD \in Nat
      /\ ABS_FAULT_LATCH_THRESHOLD > 0 /\ discards \in Nat
      /\ k \in Nat /\ k # 0
  <2>1. W \in Nat /\ ABS_FAULT_LATCH_THRESHOLD \in Nat
        /\ ABS_FAULT_LATCH_THRESHOLD > 0
    BY ThresholdAssumption DEF W
  <2>2. /\ Len(down) \in Nat /\ gap \in Nat /\ slack \in Nat /\ discards \in Nat
        /\ k \in Nat /\ k # 0
    BY Lengths DEF Base, Shown
  <2> QED BY <2>1, <2>2
<1>1. ASSUME NEW n, Received(n) PROVE GapIsSeen'
  <2>1. SUFFICES ASSUME discards' = 0, phase' \in {"send", "returned"}, row'.answered,
                        gap' - slack' >= WATCHDOG_TIMEOUT_CYCLES + ABS_FAULT_LATCH_THRESHOLD
                 PROVE  S4Main' = 0
    BY DEF GapIsSeen
  <2>2. /\ phase = "recv" /\ gap' = gap /\ slack' = slack
        /\ log' = Logged(row') /\ discards' = discards + n - 1
        /\ n \in Nat /\ 1 <= n /\ n <= Len(down)
        /\ row'.tick = k /\ row'.dtc = down[1].sent.dtc_code
        /\ row'.status = down[1].sent.ecu_status
    BY <1>1 DEF Received, NextTick
  <2>3. row'.status = "FAULT_LATCHED"
    BY <2>1 DEF GapReachesBrake
  <2>4. /\ discards = 0 /\ gap > 0 /\ Overdue + 1 > W
        /\ 1 \in 0 .. Len(down) /\ 1 \in 1 .. Len(down)
    <3>1. gap - slack > W
      BY <1>0, <2>1, <2>2 DEF W
    <3>2. Overdue + 1 = gap - slack
      BY <1>0, <2>2 DEF Overdue
    <3>3. discards = 0 /\ 1 \in 0 .. Len(down) /\ 1 \in 1 .. Len(down)
      BY <1>0, <2>1, <2>2
    <3> QED BY <1>0, <3>1, <3>2, <3>3
  <2>5. CodeUpTo(1) /\ DegradedUpTo(1)
    BY <2>2, <2>3, <2>4 DEF Shown
  <2>6. \A m \in 1 .. 1 : m = 1
    OBVIOUS
  <2>7. Reported'
    BY <1>0, <2>2, <2>5, <2>6, LogKeeps DEF CodeUpTo
  <2>8. "FAULT_DEGRADED" \in log.states
    BY <2>2, <2>3, <2>5, <2>6 DEF DegradedUpTo
  <2>9. "FAULT_DEGRADED" \in log'.states /\ "FAULT_LATCHED" \in log'.states
    BY <2>2, <2>3, <2>8, LogKeeps
  <2>10. (Reported /\ {"FAULT_DEGRADED", "FAULT_LATCHED"} \subseteq log.states
            => S4Main = 0)'
    BY S4Passes, PTL
  <2> QED BY <2>7, <2>9, <2>10
<1>2. CASE TimedOut \/ \E good, e : Sent(good, e)
  BY <1>2 DEF TimedOut, Sent, GapIsSeen
<1>3. CASE Closed \/ Idle \/ (\E i, wrote : TookFrame(i, wrote))
           \/ (\E wrote : TookNothing(wrote))
  <2>1. /\ UNCHANGED <<row, gap, slack, log, discards>>
        /\ (phase' = phase \/ (phase = "send" /\ phase' = "returned")
              \/ phase' = "raised")
    BY <1>3 DEF Closed, Idle, TookFrame, TookNothing, Answered
  <2>2. S4Main' = S4Main
    BY <2>1 DEF S4Main, AssertAll, FirstDtcTime, StatesVisited
  <2> QED BY <2>1, <2>2 DEF GapIsSeen
<1> QED BY <1>1, <1>2, <1>3 DEF StepShape

-----------------------------------------------------------------------------
(* The inductive invariant of the closed loop. *)
SilInv ==
    /\ CInv /\ Base
    /\ InFlightEarned
    /\ UpInOrder /\ DownInOrder
    /\ Accounted /\ LagEarned
    /\ GapTracked /\ GapReachesBrake
    /\ Shown /\ GapIsSeen
    /\ Kept

LEMMA SilInvInit == SilInit => SilInv
<1> SUFFICES ASSUME SilInit PROVE SilInv
  OBVIOUS
<1>1. CInv
  BY CInvInit DEF SilInit
<1>2. /\ Len(up) = 0 /\ Len(down) = 0 /\ phase = "send" /\ k = 1
      /\ row.cycle = 0 /\ row.basis = 0 /\ ~row.answered /\ cycle = 0 /\ basis = 0
      /\ misses = 0 /\ timeouts = 0 /\ gap = 0
  BY QueueEmpty DEF SilInit
<1>3. Base /\ Accounted
  BY BaseInit, AccountedInit
<1>4. InFlightEarned /\ LagEarned
  BY <1>2 DEF InFlightEarned, LagEarned
<1>5. UpInOrder /\ DownInOrder
  BY <1>2 DEF UpInOrder, DownInOrder
<1>6. GapTracked /\ GapReachesBrake
  BY <1>2 DEF GapTracked, GapReachesBrake
<1>7. Kept
  BY <1>2 DEF Kept
<1>8. Shown /\ GapIsSeen
  BY ShownInit
<1> QED BY <1>1, <1>3, <1>4, <1>5, <1>6, <1>7, <1>8 DEF SilInv

LEMMA SilInvStep == SilInv /\ [SilNext]_silVars => SilInv'
<1> SUFFICES ASSUME SilInv, [SilNext]_silVars PROVE SilInv'
  OBVIOUS
<1>1. /\ CInv /\ Base /\ InFlightEarned /\ UpInOrder /\ DownInOrder
      /\ Accounted /\ LagEarned /\ GapTracked /\ GapReachesBrake /\ Kept
      /\ Shown /\ GapIsSeen
  BY DEF SilInv
<1>2. CInv' /\ StepShape
  BY <1>1, ShapeOfStep
<1>3. Base'
  BY <1>1, <1>2, BaseStep
<1>4. InFlightEarned' /\ UpInOrder' /\ DownInOrder'
  BY <1>1, <1>2, InFlightStep, UpOrderStep, DownOrderStep
<1>5. Accounted'
  BY <1>1, <1>2, AccountedStep
<1>6. LagEarned'
  BY <1>1, <1>2, LagStep
<1>7. GapTracked'
  BY <1>1, <1>2, GapStep
<1>8. GapReachesBrake'
  BY <1>1, <1>2, <1>3, GapRowStep
<1>9. Kept'
  BY <1>1, <1>2, KeptStep
<1>10. Shown' /\ GapIsSeen'
  BY <1>1, <1>2, <1>8, ShownStep, SeenStep
<1> QED BY <1>2, <1>3, <1>4, <1>5, <1>6, <1>7, <1>8, <1>9, <1>10 DEF SilInv

(* The closed loop keeps its invariant, whatever the frames carry, however *)
(* the two processes interleave and whenever one of them leaves.           *)
THEOREM SilInvariance == SilSpec => []SilInv
<1>1. SilInit => SilInv
  BY SilInvInit
<1>2. SilInv /\ [SilNext]_silVars => SilInv'
  BY SilInvStep
<1> QED BY <1>1, <1>2, PTL DEF SilSpec

(* run_scenario and the ECU never have more frames under way, in both      *)
(* directions together, than one and one per empty read.                   *)
THEOREM FramesAreEarned == SilSpec => []InFlightEarned
<1>1. SilInv => InFlightEarned
  BY DEF SilInv
<1> QED BY <1>1, SilInvariance, PTL

(* The command run_scenario applies at a tick answers a sample no older,   *)
(* in ticks, than the empty reads and the lost frames so far.              *)
THEOREM CommandsAreRecent == SilSpec => []LagEarned
<1>1. SilInv => LagEarned
  BY DEF SilInv
<1> QED BY <1>1, SilInvariance, PTL

(* A gap in the sensor frames reaches the brake through both queues: past  *)
(* the watchdog the plant applies the pedal of a faulted ECU, past the     *)
(* latch that of a latched one.                                            *)
THEOREM GapsReachTheBrake == SilSpec => []GapReachesBrake
<1>1. SilInv => GapReachesBrake
  BY DEF SilInv
<1> QED BY <1>1, SilInvariance, PTL

(* s4_comm_loss passes: once a gap has lasted for watchdog and latch,      *)
(* beyond the frames in flight and the timeouts, and recv_actuator has     *)
(* thrown no command away, the log has what the script asserts - however   *)
(* plant and ECU interleave and whichever other faults the list holds.     *)
THEOREM GapsAreSeen == SilSpec => []GapIsSeen
<1>1. SilInv => GapIsSeen
  BY DEF SilInv
<1> QED BY <1>1, SilInvariance, PTL

(* run_scenario loses its result to the cycle limit of the ECU only when   *)
(* the limit is below the ticks and the empty reads together.              *)
THEOREM ResultsAreKept == SilSpec => []ResultKept
<1>1. SilInv => ResultKept
  BY DEF SilInv, Kept, ResultKept
<1> QED BY <1>1, SilInvariance, PTL

(* No step of either process makes the plant apply a command again, an     *)
(* older one after a newer one, or one computed from an older sample.      *)
THEOREM CommandsStayInOrder == SilSpec => CommandsInOrder
<1> DEFINE InOrder ==
      row' # row /\ row'.answered =>
        row'.cycle > row.cycle /\ row'.basis >= row.basis
<1>1. SilInv /\ [SilNext]_silVars => [InOrder]_silVars
  <2> SUFFICES ASSUME SilInv, [SilNext]_silVars PROVE InOrder
    OBVIOUS
  <2>1. CInv /\ Base /\ DownInOrder
    BY DEF SilInv
  <2>2. StepShape
    BY <2>1, ShapeOfStep
  <2>3. ASSUME NEW n, Received(n) PROVE InOrder
    <3>1. 1 \in 1 .. Len(down) /\ row'.cycle = down[1].cycle
          /\ row'.basis = down[1].basis
      BY <2>1, <2>3, Lengths DEF Received
    <3>2. /\ row.cycle < down[1].cycle /\ row.basis <= down[1].basis
          /\ row.cycle \in Nat /\ row.basis \in Nat
          /\ down[1].cycle \in Nat /\ down[1].basis \in Nat
      BY <2>1, <3>1 DEF DownInOrder, Base
    <3> QED BY <3>1, <3>2
  <2>4. CASE TimedOut
    BY <2>4 DEF TimedOut
  <2>5. CASE row' = row
    BY <2>5
  <2> QED BY <2>2, <2>3, <2>4, <2>5
      DEF StepShape, Sent, Closed, TookFrame, TookNothing, Answered, Idle
<1> QED BY <1>1, SilInvariance, PTL DEF SilSpec, CommandsInOrder
=============================================================================
