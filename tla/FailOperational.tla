--------------------------- MODULE FailOperational ---------------------------
(***************************************************************************)
(* What the ECU promises (ARCHITECTURE.md section 6, FMEA.md rows F03 and  *)
(* F08), without samples, detectors or counters: in every cycle a frame is *)
(* missed or not and the cycle is faulty or not; a fault hands the pedal   *)
(* back to the driver, a silence longer than the watchdog is a fault, and  *)
(* enough faulty cycles in a row latch for good.  Nothing else is said of  *)
(* the brake: without a fault it may be released or follow the pedal.      *)
(***************************************************************************)
EXTENDS Naturals

CONSTANTS
    Watchdog,   \* missed cycles that are tolerated
    Latch,      \* consecutive faulty cycles that latch
    Pedal       \* the driver's request

VARIABLES
    mode,       \* "normal", "degraded" or "latched"
    brake,      \* the brake command
    silence,    \* cycles since a fresh frame, up to Watchdog + 1
    faults      \* consecutive faulty cycles, up to Latch

promise == <<mode, brake, silence, faults>>

Init ==
    /\ mode = "normal"
    /\ brake = 0
    /\ silence = 0
    /\ faults = 0

UpTo(n, cap) == IF n < cap THEN n ELSE cap

Cycle(missed, faulty) ==
    /\ silence' = IF missed THEN UpTo(silence + 1, Watchdog + 1) ELSE 0
    /\ faults' = IF faulty THEN UpTo(faults + 1, Latch) ELSE 0
    /\ silence' > Watchdog => faulty \/ mode = "latched"
    /\ mode' = IF mode = "latched" \/ faults' = Latch THEN "latched"
               ELSE IF faulty THEN "degraded" ELSE "normal"
    /\ brake' \in IF mode' = "normal" THEN {0, Pedal} ELSE {Pedal}

Next == \E missed, faulty \in BOOLEAN : Cycle(missed, faulty)

Spec == Init /\ [][Next]_promise
=============================================================================
