---------------------------- MODULE FaultInjector ----------------------------
(***************************************************************************)
(* plant/fault_injector.py: the faults a scenario injects between the      *)
(* plant and the wire, and the chain that applies them in list order.      *)
(*                                                                         *)
(* A fault is [kind, t_start, t_end, target, every_n]; times are control   *)
(* ticks, target is what a "range" fault writes (an omega) or an "ice"     *)
(* fault lays (a surface).  The mutable fields of fault i are mem[i]:      *)
(*     [frozen_omega, counter, restore].                                   *)
(***************************************************************************)
EXTENDS EcuTypes, Sequences

CONSTANT None       \* Python's None

SURFACES == {"dry_asphalt", "wet_asphalt", "packed_snow", "ice"}

FaultMemory == [frozen_omega : Int \cup {None}, counter : Nat,
                restore : SURFACES \cup {None}]

FreshMemory(faults) ==
    [i \in DOMAIN faults |-> [frozen_omega |-> None, counter |-> 0,
                              restore |-> None]]

(* Mutant: a fault that never ends. *)
IsActiveForEver(f, t) == f.t_start <= t

IsActive(f, t) == f.t_start <= t /\ t <= f.t_end

-----------------------------------------------------------------------------
(* Mutant: the surface is remembered again at every active tick. *)
ApplyInPlantForgets(f, env, i, t) ==
    IF IsActive(f, t)
    THEN [surface |-> f.target,
          mem |-> [env.mem EXCEPT ![i].restore = env.surface]]
    ELSE IF env.mem[i].restore # None
    THEN [surface |-> env.mem[i].restore,
          mem |-> [env.mem EXCEPT ![i].restore = None]]
    ELSE env

(* apply_in_plant of one ice patch: the surface it finds is remembered and *)
(* put back at the first inactive tick at which the surface differs.       *)
ApplyInPlant(f, env, i, t) ==
    LET restore == env.mem[i].restore
    IN  IF IsActive(f, t)
        THEN [surface |-> f.target,
              mem |-> [env.mem EXCEPT ![i].restore =
                          IF @ = None THEN env.surface ELSE @]]
        ELSE IF restore # None /\ env.surface # restore
        THEN [surface |-> restore,
              mem |-> [env.mem EXCEPT ![i].restore = None]]
        ELSE env

(* FaultInjector.apply_environment: behind[i] is what the first i faults   *)
(* of the list leave, here and in the two chains below.                    *)
ApplyEnvironment(faults, mem, surface, t) ==
    LET behind[i \in 0 .. Len(faults)] ==
            IF i = 0 THEN [surface |-> surface, mem |-> mem]
            ELSE IF faults[i].kind = "ice"
            THEN ApplyInPlant(faults[i], behind[i - 1], i, t)
            ELSE behind[i - 1]
    IN  behind[Len(faults)]

-----------------------------------------------------------------------------
(* Mutant: a stuck sensor follows the plant. *)
ApplyToSensorFollows(f, sig, i, t, noise) ==
    IF f.kind = "loss" /\ IsActive(f, t) THEN [sig EXCEPT !.frame = None]
    ELSE sig

(* apply_to_sensor of one fault, on [frame, mem]; noise is what the random *)
(* generator adds.                                                         *)
ApplyToSensor(f, sig, i, t, noise) ==
    LET frozen == IF sig.mem[i].frozen_omega = None
                  THEN sig.frame.omega_wheel ELSE sig.mem[i].frozen_omega
    IN  CASE f.kind = "stuck" /\ IsActive(f, t) ->
               [frame |-> [sig.frame EXCEPT !.omega_wheel = frozen],
                mem   |-> [sig.mem EXCEPT ![i].frozen_omega = frozen]]
          [] f.kind = "stuck" /\ ~IsActive(f, t) ->
               [sig EXCEPT !.mem[i].frozen_omega = None]
          [] f.kind = "noise" /\ IsActive(f, t) ->
               [sig EXCEPT !.frame.omega_wheel = @ + noise]
          [] f.kind = "range" /\ IsActive(f, t) ->
               [sig EXCEPT !.frame.omega_wheel = f.target]
          [] f.kind = "loss" /\ IsActive(f, t) ->
               [sig EXCEPT !.frame = None]
          [] OTHER -> sig

(* FaultInjector.filter_sensor: the chain stops at the first None, so the  *)
(* faults behind a loss do not see the tick at all.                        *)
FilterSensor(faults, mem, frame, t, noise) ==
    LET behind[i \in 0 .. Len(faults)] ==
            IF i = 0 THEN [frame |-> frame, mem |-> mem]
            ELSE IF behind[i - 1].frame = None THEN behind[i - 1]
            ELSE ApplyToSensor(faults[i], behind[i - 1], i, t, noise)
    IN  behind[Len(faults)]

-----------------------------------------------------------------------------
(* mutate_wire of one CRC fault, on [flipped, mem].  target is the byte    *)
(* offset, past the header; the two CRC bytes are left alone.  Flipping an *)
(* offset again puts it back, so flipped is a symmetric difference and the *)
(* frame is damaged when it is not empty.                                  *)
WIRE_SIZE == 25     \* an encoded sensor frame

MutateWire(f, w, i, t) ==
    LET count == w.mem[i].counter + 1
    IN  IF ~IsActive(f, t) THEN w
        ELSE [flipped |-> IF count % f.every_n # 0 \/ f.target >= WIRE_SIZE - 2
                          THEN w.flipped
                          ELSE (w.flipped \ {f.target})
                                  \cup ({f.target} \ w.flipped),
              mem |-> [w.mem EXCEPT ![i].counter = count]]

(* FaultInjector.filter_wire: the bytes of an encoded frame it damages. *)
FilterWire(faults, mem, t) ==
    LET behind[i \in 0 .. Len(faults)] ==
            IF i = 0 THEN [flipped |-> {}, mem |-> mem]
            ELSE IF faults[i].kind = "crc"
            THEN MutateWire(faults[i], behind[i - 1], i, t)
            ELSE behind[i - 1]
    IN  behind[Len(faults)]
=============================================================================
