---------------------------- MODULE EcuLifecycle ----------------------------
(***************************************************************************)
(* main.c around its loop body, with the single-instance state of the HAL  *)
(* (hal_sensors.c, hal_actuators.c, hal_link.c) and of the driver's        *)
(* session (socket_drv_connect, socket_drv_close): how the ECU process     *)
(* starts, counts, stops and cleans up.  SIGINT and SIGTERM may arrive at  *)
(* any point.  What a cycle computes is EcuLoop; here it is what it does   *)
(* to the HAL: the outcome of one read and of one write.                   *)
(*                                                                         *)
(* seen is a history variable: what happened on the connection.            *)
(***************************************************************************)
EXTENDS Naturals

CONSTANTS
    MaxCycles,      \* max_cycles from the duration argument; 0: no limit
    MAX_RUN         \* bound: cycles of a run without a limit

ASSUME LifecycleAssumption == MaxCycles \subseteq Nat /\ MAX_RUN \in Nat

VARIABLES
    pc,             \* where main is
    exit_code,
    g_stop,         \* set by on_sigint
    max_cycles,
    cycle,
    fd,             \* the socket is open
    drv,            \* g_hal.drv of hal_sensors is not NULL
    frames_received_ok,         \* the driver's counter
    link,           \* g_link of hal_link is not NULL
    alive, timeouts,            \* g_hal of hal_sensors
    initialised, frames_sent, send_errors,  \* g_hal of hal_actuators
    summary,        \* what main printed
    seen            \* history: outcomes of all reads and writes

sensors == <<drv, frames_received_ok, link, alive, timeouts>>
actuators == <<initialised, frames_sent, send_errors>>
hal == <<fd, sensors, actuators>>
run == <<g_stop, max_cycles, cycle, summary, seen>>
vars == <<pc, exit_code, g_stop, max_cycles, cycle, hal, summary, seen>>

Zero == [frame |-> 0, timeout |-> 0, error |-> 0, sent |-> 0, failed |-> 0]

Init ==
    /\ pc = "socket"
    /\ exit_code = "none"
    /\ g_stop = FALSE
    /\ max_cycles \in MaxCycles
    /\ cycle = 0
    /\ fd = FALSE
    /\ drv = FALSE /\ frames_received_ok = 0
    /\ link = FALSE
    /\ alive = FALSE /\ timeouts = 0
    /\ initialised = FALSE /\ frames_sent = 0 /\ send_errors = 0
    /\ summary = Zero
    /\ seen = Zero

Exit(code) ==
    /\ pc' = "exited"
    /\ exit_code' = code

-----------------------------------------------------------------------------
(* socket_drv_connect, within hal_sensors_init. *)

OpenSocket(ok) ==
    /\ pc = "socket"
    /\ fd' = ok
    /\ IF ok THEN pc' = "connect" /\ UNCHANGED exit_code ELSE Exit("FAILURE")
    /\ UNCHANGED <<sensors, actuators, run>>

(* TCP_NODELAY, the address and connect: each failure closes the socket. *)
Connect(ok) ==
    /\ pc = "connect"
    /\ fd' = ok
    /\ IF ok THEN pc' = "alloc" /\ UNCHANGED exit_code ELSE Exit("FAILURE")
    /\ UNCHANGED <<sensors, actuators, run>>

(* Mutant: the socket stays open when the driver cannot be allocated. *)
AllocateLeaks(ok) ==
    /\ pc = "alloc"
    /\ IF ok
       THEN /\ drv' = TRUE /\ frames_received_ok' = 0
            /\ link' = TRUE /\ alive' = TRUE /\ timeouts' = 0
            /\ pc' = "actuators"
            /\ UNCHANGED <<fd, exit_code>>
       ELSE /\ Exit("FAILURE")
            /\ UNCHANGED <<fd, sensors>>
    /\ UNCHANGED <<actuators, run>>

(* calloc, and the rest of hal_sensors_init. *)
Allocate(ok) ==
    /\ pc = "alloc"
    /\ IF ok
       THEN /\ drv' = TRUE /\ frames_received_ok' = 0
            /\ link' = TRUE /\ alive' = TRUE /\ timeouts' = 0
            /\ pc' = "actuators"
            /\ UNCHANGED <<fd, exit_code>>
       ELSE /\ Exit("FAILURE")
            /\ fd' = FALSE
            /\ UNCHANGED sensors
    /\ UNCHANGED <<actuators, run>>

(* hal_sensors_shutdown; safe to call more than once. *)
SensorsShutdown ==
    /\ fd' = (fd /\ ~drv)
    /\ drv' = FALSE
    /\ link' = (link /\ ~drv)
    /\ alive' = FALSE
    /\ UNCHANGED <<frames_received_ok, timeouts>>

(* hal_actuators_init, which needs the link; main cleans up if it fails.   *)
ActuatorsInit ==
    /\ pc = "actuators"
    /\ IF link
       THEN /\ initialised' = TRUE /\ frames_sent' = 0 /\ send_errors' = 0
            /\ pc' = "loop"
            /\ UNCHANGED <<exit_code, fd, sensors>>
       ELSE /\ Exit("FAILURE")
            /\ SensorsShutdown
            /\ UNCHANGED actuators
    /\ UNCHANGED run

-----------------------------------------------------------------------------
(* Mutant: the head of the loop does not look at g_stop. *)
LeaveHeadNoStop ==
    /\ pc = "loop"
    /\ ~g_stop
    /\ pc' = "summary"
    /\ UNCHANGED <<exit_code, hal, run>>

(* hal_sensors_read.  A hard error clears alive and is not counted. *)
Read(outcome) ==
    /\ frames_received_ok' =
          frames_received_ok + IF outcome = "frame" THEN 1 ELSE 0
    /\ timeouts' = timeouts + IF outcome = "timeout" THEN 1 ELSE 0
    /\ alive' = (alive /\ outcome # "error")

(* hal_actuators_write: refused without an initialised HAL or a link;      *)
(* otherwise the send succeeds or is counted as an error.                  *)
CanWrite == initialised /\ link

Write(sends) ==
    /\ frames_sent' = frames_sent + IF CanWrite /\ sends THEN 1 ELSE 0
    /\ send_errors' = send_errors + IF CanWrite /\ ~sends THEN 1 ELSE 0
    /\ UNCHANGED initialised

LimitReached(n) == max_cycles > 0 /\ n >= max_cycles

(* The loop is left at its head: g_stop, or clock_nanosleep failed. *)
LeaveHead ==
    /\ pc = "loop"
    /\ pc' = "summary"
    /\ UNCHANGED <<exit_code, hal, run>>

(* One pass of the loop, entered with g_stop clear: the read, the write,   *)
(* the break on a failed write, and the cycle limit.                       *)
Pass(outcome, sends) ==
    LET wrote == CanWrite /\ sends
    IN  /\ pc = "loop"
        /\ ~g_stop
        /\ cycle < MAX_RUN
        /\ Read(outcome)
        /\ Write(sends)
        /\ cycle' = cycle + IF wrote THEN 1 ELSE 0
        /\ pc' = IF wrote /\ ~LimitReached(cycle + 1) THEN "loop" ELSE "summary"
        /\ seen' = [seen EXCEPT ![outcome] = @ + 1,
                                ![IF wrote THEN "sent" ELSE "failed"] = @ + 1]
        /\ UNCHANGED <<exit_code, g_stop, max_cycles, fd, drv, link, summary>>

-----------------------------------------------------------------------------
(* hal_sensors_stats and hal_actuators_stats; without a driver its         *)
(* counters read as zero, and hard errors are in no counter.               *)
Stats(has_drv) ==
    [frame   |-> IF has_drv THEN frames_received_ok ELSE 0,
     timeout |-> timeouts,
     error   |-> 0,
     sent    |-> frames_sent,
     failed  |-> send_errors]

(* Mutant: the statistics are taken after the shutdown. *)
FinishShutsFirst ==
    /\ pc = "summary"
    /\ initialised' = FALSE
    /\ SensorsShutdown
    /\ summary' = Stats(drv')
    /\ Exit("SUCCESS")
    /\ UNCHANGED <<g_stop, max_cycles, cycle, frames_sent, send_errors, seen>>

(* The summary, hal_actuators_shutdown, hal_sensors_shutdown. *)
Finish ==
    /\ pc = "summary"
    /\ summary' = Stats(drv)
    /\ initialised' = FALSE
    /\ SensorsShutdown
    /\ Exit("SUCCESS")
    /\ UNCHANGED <<g_stop, max_cycles, cycle, frames_sent, send_errors, seen>>

(* on_sigint. *)
Signal ==
    /\ pc # "exited"
    /\ g_stop' = TRUE
    /\ UNCHANGED <<pc, exit_code, max_cycles, cycle, hal, summary, seen>>

Exited == pc = "exited" /\ UNCHANGED vars

Main ==
    \/ \E ok \in BOOLEAN : OpenSocket(ok) \/ Connect(ok) \/ Allocate(ok)
    \/ ActuatorsInit
    \/ LeaveHead
    \/ \E outcome \in {"frame", "timeout", "error"}, sends \in BOOLEAN :
          Pass(outcome, sends)
    \/ Finish

Next == Main \/ Signal \/ Exited

(* Every system call of main returns: the read has a timeout, the sleep a  *)
(* deadline, and connect gives up.                                         *)
Spec == Init /\ [][Next]_vars /\ WF_vars(Main)

-----------------------------------------------------------------------------
(* However main ends - any step of the initialisation failing, a signal at *)
(* any point, a failed write, the cycle limit - it has closed the socket,  *)
(* freed the driver and left no pointer to it in hal_link.                 *)
NothingLeftOpen ==
    pc = "exited" => ~fd /\ ~drv /\ ~link /\ ~initialised

(* The printed summary is true of the whole run, and every cycle it counts *)
(* sent one frame; only the write that ended the run may have failed, and  *)
(* a limit on the cycles is never exceeded.                                *)
SummaryHonest ==
    exit_code = "SUCCESS" =>
        /\ summary = [seen EXCEPT !.error = 0]
        /\ cycle = summary.sent
        /\ summary.failed <= 1
        /\ max_cycles > 0 => summary.sent + summary.failed <= max_cycles

(* A signal ends the process, whenever it arrives. *)
StopEnds == g_stop ~> pc = "exited"
=============================================================================
