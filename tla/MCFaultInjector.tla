--------------------------- MODULE MCFaultInjector ---------------------------
(***************************************************************************)
(* The fault injector by itself, one control tick after another, for every *)
(* fault list of a set: the hooks in the order in which run_scenario calls *)
(* them.  held is a history variable.                                       *)
(***************************************************************************)
EXTENDS FaultInjector, FiniteSets

CONSTANTS
    FaultLists,     \* the scenarios' fault lists
    T_MAX,          \* bound: ticks per scenario
    Omegas,         \* true wheel speeds
    Noise           \* what the random generator may add

(* An ice patch has a surface for its target, the others a number. *)
IsFaultList(list) ==
    /\ Len(list) \in Nat /\ DOMAIN list = 1 .. Len(list)
    /\ \A i \in DOMAIN list :
          /\ list[i].t_start \in Int /\ list[i].t_end \in Int
          /\ list[i].every_n \in Nat \ {0}
          /\ IF list[i].kind = "ice" THEN list[i].target \in SURFACES
             ELSE list[i].target \in Int

ASSUME InjectorAssumption ==
    /\ \A list \in FaultLists : IsFaultList(list)
    /\ Omegas \subseteq Int /\ Noise \subseteq Int
    /\ None \notin SURFACES

VARIABLES
    faults,     \* injector.faults
    mem,        \* the faults' own fields
    surface,    \* tire.surface
    t,          \* the tick
    raw,        \* the plant's frame of the last tick
    sent,       \* what went out: a frame or None
    flipped,    \* its damaged bytes
    held        \* history: omega sent in the current stuck window, or None

injectorVars == <<faults, mem, surface, t, raw, sent, flipped, held>>

BASE == "dry_asphalt"

InjectorInit ==
    /\ faults \in FaultLists
    /\ mem = FreshMemory(faults)
    /\ surface = BASE
    /\ t = 0
    /\ raw = Frame(200, 0, 0)
    /\ sent = None
    /\ flipped = {}
    /\ held = None

ActiveOf(kind, now) ==
    {i \in DOMAIN faults : faults[i].kind = kind /\ IsActive(faults[i], now)}

Tick(w, noise) ==
    LET env  == ApplyEnvironment(faults, mem, surface, t)
        sig  == FilterSensor(faults, env.mem, Frame(200, w, 0), t, noise)
        wire == FilterWire(faults, sig.mem, t)
        out  == sig.frame # None
    IN  /\ t < T_MAX
        /\ t' = t + 1
        /\ surface' = env.surface
        /\ raw' = Frame(200, w, 0)
        /\ sent' = sig.frame
        /\ mem' = IF out THEN wire.mem ELSE sig.mem
        /\ flipped' = IF out THEN wire.flipped ELSE {}
        /\ held' = IF ActiveOf("stuck", t) = {} THEN None
                   ELSE IF out /\ held = None THEN sig.frame.omega_wheel
                   ELSE held
        /\ UNCHANGED faults

Done == t = T_MAX /\ UNCHANGED injectorVars

InjectorNext == (\E w \in Omegas, noise \in Noise : Tick(w, noise)) \/ Done

InjectorSpec == InjectorInit /\ [][InjectorNext]_injectorVars

-----------------------------------------------------------------------------
(* Fault lists. *)

Fault(kind, from, to, target, n) ==
    [kind |-> kind, t_start |-> from, t_end |-> to, target |-> target,
     every_n |-> n]

Windows == {win \in (0 .. T_MAX - 1) \X (0 .. T_MAX - 1) : win[1] <= win[2]}

(* Two ice patches, in both list orders and with every pair of windows. *)
IceLists ==
    {<<Fault("ice", a[1], a[2], p, 1), Fault("ice", b[1], b[2], q, 1)>> :
        a \in Windows, b \in Windows, p \in {"ice"}, q \in {"ice", "packed_snow"}}

(* A stuck sensor and a CRC fault, with a loss before, between or behind,  *)
(* or a second stuck sensor.                                               *)
SignalLists ==
    LET stuck(a) == Fault("stuck", a[1], a[2], 0, 1)
        loss(b)  == Fault("loss", b[1], b[2], 0, 1)
        crc      == Fault("crc", 0, T_MAX - 2, 7, 2)
    IN  UNION {{<<stuck(a), loss(b), crc>>, <<loss(b), stuck(a), crc>>,
                <<crc, stuck(a), loss(b)>>, <<stuck(a), stuck(b)>>} :
                  a \in Windows, b \in Windows}

(* The faults that replace or disturb omega, chained. *)
MixedLists ==
    {<<Fault("noise", 1, 2, 0, 1), Fault("range", b[1], b[2], 600, 1),
       Fault("crc", 0, 2, 23, 1)>> : b \in Windows}

AllLists == IceLists \cup SignalLists \cup MixedLists

-----------------------------------------------------------------------------
(* What holds at the end of tick t - 1. *)

Now == t - 1

(* Two patches do not interfere when their windows are a tick apart, or    *)
(* when they follow each other in list order.                              *)
Apart(f, g, listed) ==
    \/ f.t_end + 1 < g.t_start
    \/ f.t_end < g.t_start /\ listed

Patches == {i \in DOMAIN faults : faults[i].kind = "ice"}

WellPlaced ==
    /\ \A i, j \in Patches : i < j =>
          Apart(faults[i], faults[j], TRUE) \/ Apart(faults[j], faults[i], FALSE)
    /\ \A i \in Patches : faults[i].target # BASE

(* Patches that are well placed leave no trace: at every tick the road has *)
(* the surface of the patch that is active, or the scenario's own.  (A     *)
(* patch of the road's own surface finds nothing to restore, and restores  *)
(* inside the next one.)                                                   *)
PatchesRestore ==
    t > 0 /\ WellPlaced =>
        /\ ActiveOf("ice", Now) = {} => surface = BASE
        /\ \A i \in ActiveOf("ice", Now) : surface = faults[i].target

(* fault_injector.py: a fault is "active only between t_start_s and        *)
(* t_end_s (inclusive)": when no patch is active the road is the           *)
(* scenario's own, whatever the windows and the order of the list.         *)
ActiveOnlyInWindow ==
    t > 0 /\ ActiveOf("ice", Now) = {} => surface = BASE

(* Nothing behind fault i writes omega, and the windows of other stuck     *)
(* sensors are a tick away.                                                *)
HasLastWord(i) ==
    \A j \in DOMAIN faults :
        /\ j > i => faults[j].kind \notin {"noise", "range"}
        /\ j # i /\ faults[j].kind = "stuck" =>
              \/ faults[j].t_end + 1 < faults[i].t_start
              \/ faults[i].t_end + 1 < faults[j].t_start

(* While a sensor is stuck and nothing else writes its omega, every frame  *)
(* that is sent carries one and the same, also when a loss swallows the    *)
(* first frames of the window before or after the freeze.                  *)
HeldWhileStuck ==
    t > 0 /\ sent # None =>
        \A i \in ActiveOf("stuck", Now) :
            HasLastWord(i) => sent.omega_wheel = held

(* A tick in no fault's window sends the plant's frame, undamaged: no      *)
(* fault keeps acting on the signal after its window.                      *)
NoTraceOutside ==
    t > 0 /\ (\A i \in DOMAIN faults :
                Now < faults[i].t_start \/ faults[i].t_end < Now)
        => sent = raw /\ flipped = {}
=============================================================================
