----------------------------- MODULE MCSimulate -----------------------------
(***************************************************************************)
(* The car of the code in units of 5 mm/s, with G rounded to 10 m/s^2: a   *)
(* step of 1 ms takes at most 2 units off the body on dry asphalt and at   *)
(* most 1 on ice, 100 bar take 125 off the rim.                            *)
(***************************************************************************)
EXTENDS Simulate

McPeak == [dry_asphalt |-> 2, ice |-> 1]

(* Release, pedals at and just above the freeze's 1 bar, out of range.     *)
McCommands == {0, 1, 10, 100, 200}

-----------------------------------------------------------------------------
(* vehicle.py:111 calls it a "trapezoidal distance update": a step would   *)
(* add the mean of the speeds before and after it.                         *)
TrapezoidalDistance ==
    [][at' # at /\ car'.v # 0 => added' = car.v + car'.v]_vars
=============================================================================
