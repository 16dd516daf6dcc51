------------------------- MODULE EcuLifecycle_proofs -------------------------
(***************************************************************************)
(* Proofs about the life of the ECU process, for every set of cycle limits *)
(* and every bound on the runs without one.                                *)
(***************************************************************************)
EXTENDS EcuLifecycle, TLAPS

-----------------------------------------------------------------------------
(* The inductive invariant. *)

Places == {"socket", "connect", "alloc", "actuators", "loop", "summary",
           "exited"}

TypeOK ==
    /\ pc \in Places
    /\ exit_code \in {"none", "SUCCESS", "FAILURE"}
    /\ g_stop \in BOOLEAN
    /\ max_cycles \in Nat /\ cycle \in Nat
    /\ fd \in BOOLEAN /\ drv \in BOOLEAN /\ link \in BOOLEAN
    /\ alive \in BOOLEAN /\ initialised \in BOOLEAN
    /\ frames_received_ok \in Nat /\ timeouts \in Nat
    /\ frames_sent \in Nat /\ send_errors \in Nat
    /\ seen \in [frame : Nat, timeout : Nat, error : Nat, sent : Nat,
                 failed : Nat]

(* What is open at each place of main: acquired in one order, released all *)
(* together.                                                               *)
Acquired ==
    /\ fd <=> pc \in {"connect", "alloc", "actuators", "loop", "summary"}
    /\ drv <=> pc \in {"actuators", "loop", "summary"}
    /\ link <=> pc \in {"actuators", "loop", "summary"}
    /\ initialised <=> pc \in {"loop", "summary"}

(* The counters are those of the run so far, while they can be read.       *)
Accounted ==
    /\ pc \in {"socket", "connect", "alloc", "actuators"}
          => seen = Zero /\ cycle = 0
    /\ pc = "actuators" => frames_received_ok = 0 /\ timeouts = 0
    /\ pc \in {"loop", "summary"} =>
          /\ frames_received_ok = seen.frame /\ timeouts = seen.timeout
          /\ frames_sent = seen.sent /\ send_errors = seen.failed
          /\ cycle = seen.sent

(* The loop goes on only while every write has succeeded and the limit is  *)
(* not reached; the pass that ends it may have failed.                     *)
WithinLimit ==
    /\ pc = "loop" => seen.failed = 0 /\ (max_cycles > 0 => cycle < max_cycles)
    /\ pc = "summary" =>
          /\ seen.failed <= 1
          /\ max_cycles > 0 => seen.sent + seen.failed <= max_cycles

NotYetExited == pc # "exited" => exit_code = "none"

LifeInv ==
    /\ TypeOK /\ Acquired /\ Accounted /\ WithinLimit /\ NotYetExited
    /\ SummaryHonest

LEMMA LifeInit == Init => LifeInv
<1> SUFFICES ASSUME Init PROVE LifeInv
  OBVIOUS
<1>1. exit_code # "SUCCESS"
  BY DEF Init
<1>2. SummaryHonest
  BY <1>1, Zenon DEF SummaryHonest
<1>3. TypeOK /\ Acquired /\ Accounted /\ WithinLimit /\ NotYetExited
  BY LifecycleAssumption
  DEF Init, TypeOK, Places, Acquired, Accounted, WithinLimit, NotYetExited,
      Zero
<1> QED BY <1>2, <1>3, Zenon DEF LifeInv

(* Before the loop: each step acquires one thing, or gives all back. *)
LEMMA StartStep ==
    ASSUME LifeInv, NEW ok \in BOOLEAN,
           OpenSocket(ok) \/ Connect(ok) \/ Allocate(ok) \/ ActuatorsInit
    PROVE  LifeInv'
<1> USE DEF LifeInv, TypeOK, Places, Acquired, Accounted, WithinLimit,
            NotYetExited, SummaryHonest, Zero, run, sensors, actuators, Exit
<1>1. CASE OpenSocket(ok)
  BY <1>1 DEF OpenSocket
<1>2. CASE Connect(ok)
  BY <1>2 DEF Connect
<1>3. CASE Allocate(ok)
  BY <1>3 DEF Allocate
<1>4. CASE ActuatorsInit
  BY <1>4 DEF ActuatorsInit, SensorsShutdown
<1> QED BY <1>1, <1>2, <1>3, <1>4

(* What a pass adds to the history. *)
LEMMA SeenAfterPass ==
    ASSUME TypeOK, NEW outcome \in {"frame", "timeout", "error"},
           NEW wrote \in BOOLEAN,
           seen' = [seen EXCEPT ![outcome] = @ + 1,
                                ![IF wrote THEN "sent" ELSE "failed"] = @ + 1]
    PROVE  /\ seen' \in [frame : Nat, timeout : Nat, error : Nat, sent : Nat,
                         failed : Nat]
           /\ seen'.frame = seen.frame + IF outcome = "frame" THEN 1 ELSE 0
           /\ seen'.timeout = seen.timeout + IF outcome = "timeout" THEN 1 ELSE 0
           /\ seen'.sent = seen.sent + IF wrote THEN 1 ELSE 0
           /\ seen'.failed = seen.failed + IF wrote THEN 0 ELSE 1
<1>1. CASE outcome = "frame"
  BY <1>1 DEF TypeOK
<1>2. CASE outcome = "timeout"
  BY <1>2 DEF TypeOK
<1>3. CASE outcome = "error"
  BY <1>3 DEF TypeOK
<1> QED BY <1>1, <1>2, <1>3

LEMMA PassStep ==
    ASSUME LifeInv, NEW outcome \in {"frame", "timeout", "error"},
           NEW sends \in BOOLEAN, Pass(outcome, sends)
    PROVE  LifeInv'
<1> DEFINE wrote == CanWrite /\ sends
<1>1. CanWrite /\ wrote \in BOOLEAN /\ (wrote <=> sends)
  BY DEF LifeInv, Acquired, Pass, CanWrite
<1>2. seen' = [seen EXCEPT ![outcome] = @ + 1,
                           ![IF wrote THEN "sent" ELSE "failed"] = @ + 1]
  BY DEF Pass
<1> HIDE DEF wrote
<1>3. /\ seen' \in [frame : Nat, timeout : Nat, error : Nat, sent : Nat,
                    failed : Nat]
      /\ seen'.frame = seen.frame + IF outcome = "frame" THEN 1 ELSE 0
      /\ seen'.timeout = seen.timeout + IF outcome = "timeout" THEN 1 ELSE 0
      /\ seen'.sent = seen.sent + IF wrote THEN 1 ELSE 0
      /\ seen'.failed = seen.failed + IF wrote THEN 0 ELSE 1
  BY <1>1, <1>2, SeenAfterPass DEF LifeInv
<1>4. /\ frames_received_ok' =
            frames_received_ok + IF outcome = "frame" THEN 1 ELSE 0
      /\ timeouts' = timeouts + IF outcome = "timeout" THEN 1 ELSE 0
      /\ frames_sent' = frames_sent + IF wrote THEN 1 ELSE 0
      /\ send_errors' = send_errors + IF wrote THEN 0 ELSE 1
      /\ cycle' = cycle + IF wrote THEN 1 ELSE 0
      /\ pc = "loop"
      /\ pc' = IF wrote /\ ~LimitReached(cycle + 1) THEN "loop" ELSE "summary"
      /\ alive' \in BOOLEAN
      /\ UNCHANGED <<exit_code, g_stop, max_cycles, fd, drv, link, initialised,
                     summary>>
  BY <1>1 DEF Pass, Read, Write, LifeInv, TypeOK, wrote
<1>5. TypeOK'
  BY <1>1, <1>3, <1>4 DEF LifeInv, TypeOK, Places
<1>6. Acquired'
  BY <1>4 DEF LifeInv, Acquired
<1>7. Accounted'
  BY <1>1, <1>3, <1>4 DEF LifeInv, TypeOK, Accounted
<1>8. WithinLimit'
  BY <1>1, <1>3, <1>4 DEF LifeInv, TypeOK, Accounted, WithinLimit, LimitReached
<1>9. NotYetExited' /\ SummaryHonest'
  BY <1>4 DEF LifeInv, NotYetExited, SummaryHonest
<1> QED BY <1>5, <1>6, <1>7, <1>8, <1>9 DEF LifeInv

(* The summary is taken before anything is shut down. *)
LEMMA FinishStep == LifeInv /\ Finish => LifeInv'
<1> SUFFICES ASSUME LifeInv, Finish PROVE LifeInv'
  OBVIOUS
<1>1. summary' = [seen EXCEPT !.error = 0]
  <2>1. summary' = Stats(TRUE)
    BY DEF LifeInv, Acquired, Finish
  <2>2. Stats(TRUE) = [frame |-> frames_received_ok, timeout |-> timeouts,
                       error |-> 0, sent |-> frames_sent,
                       failed |-> send_errors]
    BY DEF Stats
  <2>3. [seen EXCEPT !.error = 0]
          = [frame |-> seen.frame, timeout |-> seen.timeout, error |-> 0,
             sent |-> seen.sent, failed |-> seen.failed]
    BY DEF LifeInv, TypeOK
  <2> QED BY <2>1, <2>2, <2>3 DEF LifeInv, Accounted, Finish
<1>2. SummaryHonest'
  BY <1>1 DEF Finish, LifeInv, TypeOK, Accounted, WithinLimit, SummaryHonest
<1>3. TypeOK' /\ Acquired' /\ Accounted' /\ WithinLimit' /\ NotYetExited'
  BY DEF Finish, SensorsShutdown, Exit, LifeInv, TypeOK, Places, Acquired,
         Accounted, WithinLimit, NotYetExited
<1> QED BY <1>2, <1>3 DEF LifeInv

LEMMA LifeStep == LifeInv /\ [Next]_vars => LifeInv'
<1> SUFFICES ASSUME LifeInv, [Next]_vars PROVE LifeInv'
  OBVIOUS
<1>1. ASSUME NEW ok \in BOOLEAN, OpenSocket(ok) \/ Connect(ok) \/ Allocate(ok)
      PROVE  LifeInv'
  BY <1>1, StartStep
<1>2. CASE ActuatorsInit
  BY <1>2, StartStep
<1>3. CASE LeaveHead
  BY <1>3 DEF LeaveHead, hal, run, sensors, actuators, LifeInv, TypeOK, Places,
              Acquired, Accounted, WithinLimit, NotYetExited, SummaryHonest
<1>4. CASE Finish
  BY <1>4, FinishStep
<1>5. CASE Signal
  BY <1>5 DEF Signal, hal, sensors, actuators, LifeInv, TypeOK, Acquired,
              Accounted, WithinLimit, NotYetExited, SummaryHonest
<1>6. CASE Exited \/ UNCHANGED vars
  BY <1>6 DEF Exited, vars, hal, sensors, actuators, LifeInv, TypeOK, Acquired,
              Accounted, WithinLimit, NotYetExited, SummaryHonest
<1> QED BY <1>1, <1>2, <1>3, <1>4, <1>5, <1>6, PassStep DEF Next, Main

THEOREM LifeInvariance == Spec => []LifeInv
  BY LifeInit, LifeStep, PTL DEF Spec

(* However main ends, the socket is closed, the driver freed, hal_link     *)
(* cleared and the actuator HAL shut down.                                 *)
THEOREM NothingStaysOpen == Spec => []NothingLeftOpen
<1>1. LifeInv => NothingLeftOpen
  BY DEF LifeInv, Acquired, NothingLeftOpen
<1> QED BY <1>1, LifeInvariance, PTL

(* The printed summary is true of the whole run and within its limit. *)
THEOREM SummaryIsHonest == Spec => []SummaryHonest
<1>1. LifeInv => SummaryHonest
  BY DEF LifeInv
<1> QED BY <1>1, LifeInvariance, PTL
=============================================================================
