------------------------------ MODULE MCEcuLoop ------------------------------
(***************************************************************************)
(* Instances of EcuLoop for TLC: the frames the plant may send.            *)
(***************************************************************************)
EXTENDS EcuLoop

Rolling     == Frame(200, 66, 100)    \* slip 1 %: re-apply
InBand      == Frame(200, 56, 100)    \* slip 16 %: hold
Locking     == Frame(200, 40, 100)    \* slip 40 %: release
LockedFree  == Frame(200, 40, 0)      \* the same, the driver not braking
Crawling    == Frame(5, 1, 100)       \* below the low-speed bypass
Overspeed   == Frame(200, 80, 100)    \* rim faster than the body
Aberrant    == Frame(200, 600, 100)   \* omega out of range
NotANumber  == Frame(NaN, 66, 100)
Reversing   == Frame(-10, 0, 0)       \* |v| exactly at the slip guard

ControlFrames == {Rolling, InBand, Locking, LockedFree, Crawling, Aberrant,
                  NotANumber, Reversing}

ReplayFrames == {Rolling, Locking, LockedFree, Crawling}

LiveFrames == {Rolling, Locking, Overspeed, Crawling}
=============================================================================
