------------------------------ MODULE MCWindows ------------------------------
(***************************************************************************)
(* The two parts that act in windows of time, each by itself: diagnostic.c *)
(* counting CRC errors, and the fault injector on its fault lists.  They   *)
(* share no state; a run drives one of them, and the other rests.          *)
(***************************************************************************)
EXTENDS MCDiagnostic, MCFaultInjector

(* The run drives the diagnostics when it has no faults to inject. *)
RunLists == AllLists \cup {<<>>}

WindowsInit == DiagInit /\ InjectorInit

WindowsNext ==
    \/ faults = <<>> /\ DiagNext /\ UNCHANGED injectorVars
    \/ faults # <<>> /\ InjectorNext /\ UNCHANGED diagVars

WindowsSpec == WindowsInit /\ [][WindowsNext]_<<diagVars, injectorVars>>
=============================================================================
