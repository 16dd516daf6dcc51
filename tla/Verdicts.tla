------------------------------ MODULE Verdicts -------------------------------
(***************************************************************************)
(* What the scenario scripts s1 to s6 conclude from a run: the queries of  *)
(* ScenarioResult and the assertions each script makes, over the log that  *)
(* SilLoop keeps.  Assertions on the stopping distance are left out, the   *)
(* vehicle being abstract.  A tick is logged with the time at its end, so  *)
(* a fault of tick s starts at time s - 1.                                 *)
(***************************************************************************)
EXTENDS SilLoop

(* The latch takes more than one faulty cycle (10 in abs_state.h). *)
ASSUME LatchAssumption == ABS_FAULT_LATCH_THRESHOLD > 1

StatesVisited == log.states

DtcUnion == {d \in DtcBits : log.first[d] # 0}

(* 0 for None. *)
FirstDtcTime(d) == log.first[d]

(* The exit code: 1 when an assertion fails. *)
AssertAll(asserts) == IF \A i \in DOMAIN asserts : asserts[i] THEN 0 ELSE 1

NotLatched == "FAULT_LATCHED" \notin StatesVisited

S1Main == AssertAll(<<"ACTIVE" \in StatesVisited, DtcUnion = {}>>)

S2Main == AssertAll(<<NotLatched, DtcUnion = {}>>)

(* "detected within" some ticks of the injection. *)
S3Main(start, within) ==
    LET t_first_stuck == FirstDtcTime("STUCK")
    IN  AssertAll(<<t_first_stuck # 0,
                    t_first_stuck - (start - 1) < within,
                    \/ "FAULT_DEGRADED" \in StatesVisited
                    \/ "FAULT_LATCHED" \in StatesVisited>>)

S4Main == AssertAll(<<FirstDtcTime("COMM_TIMEOUT") # 0,
                      "FAULT_DEGRADED" \in StatesVisited,
                      "FAULT_LATCHED" \in StatesVisited>>)

S5Main == AssertAll(<<"ACTIVE" \in StatesVisited, NotLatched>>)

S6Main == AssertAll(<<NotLatched, "ACTIVE" \in StatesVisited>>)

-----------------------------------------------------------------------------

(* s4 passes: a gap longer than watchdog and latch need, beyond what the   *)
(* frames in flight and the timeouts hide, shows in the log as the code,   *)
(* FAULT_DEGRADED and FAULT_LATCHED, unless recv_actuator has thrown a     *)
(* command away.                                                           *)
GapIsSeen ==
    /\ phase \in {"send", "returned"} /\ row.answered /\ discards = 0
    /\ gap - slack >= WATCHDOG_TIMEOUT_CYCLES + ABS_FAULT_LATCH_THRESHOLD
    => S4Main = 0

(* The result of a scenario is lost to an ECU that ends by its own cycle   *)
(* limit only if the limit falls short of the ticks and the empty reads.   *)
ResultKept ==
    phase = "raised" /\ cycle = scenario.max_cycles
        => scenario.max_cycles < scenario.n_ticks + misses
=============================================================================
