----------------------------- MODULE MCMilestone -----------------------------
(***************************************************************************)
(* Up to three frames with the float images the script really sends.  One  *)
(* of the timestamps holds the bytes of the magic.                         *)
(***************************************************************************)
EXTENDS Milestone, TLC

McClock == {<<0, 0>>, <<1, 65535>>, <<65535, 43605>>}

McSpeed == (0 :> <<0, 0, 160, 65>>) @@ (1 :> <<12, 2, 160, 65>>)
               @@ (2 :> <<25, 4, 160, 65>>)

McOmega == (0 :> <<85, 85, 133, 66>>) @@ (1 :> <<10, 87, 133, 66>>)
               @@ (2 :> <<191, 88, 133, 66>>)

(* The image of 20.001 is closer than 1e-3 to 20.000, and no other pair.   *)
McClose == [k \in 0 .. 2 |-> {McSpeed[k]} \cup IF k = 0 THEN {McSpeed[1]} ELSE {}]
=============================================================================
