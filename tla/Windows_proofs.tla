--------------------------- MODULE Windows_proofs ---------------------------
(***************************************************************************)
(* Proofs about the two windows of time the tests of this system live by:  *)
(* the diagnostics' CRC error window (F04), for every window length,       *)
(* threshold, counter width and number of errors; and the windows of the   *)
(* fault injector, for every fault list.                                   *)
(***************************************************************************)
EXTENDS MCDiagnostic, MCFaultInjector, TLAPS, WellFoundedInduction

-----------------------------------------------------------------------------
(* The CRC error window. *)

D == CRC_RATE_DENOMINATOR

(* The two ways a sum in a uint32_t comes out. *)
LEMMA Add32Split ==
    ASSUME NEW a \in Nat, NEW b \in Nat, a < U32, b < U32
    PROVE  /\ a + b < U32 => Add32(a, b) = a + b
           /\ a + b >= U32 => Add32(a, b) = a + b - U32
  BY WidthAssumption DEF Add32

LEMMA Add32AtMost ==
    ASSUME NEW a \in Nat, NEW b \in Nat
    PROVE  Add32(a, b) \in Nat /\ Add32(a, b) < U32 /\ Add32(a, b) <= a + b
  BY WidthAssumption DEF Add32

(* The window closes after its D-th cycle. *)
LEMMA NextPosition ==
    ASSUME NEW p \in 0 .. D - 1
    PROVE  /\ (p + 1) % D = IF p + 1 = D THEN 0 ELSE p + 1
           /\ Inc32(p) = p + 1
  BY ThresholdAssumption, WidthAssumption, WindowAssumption DEF Inc32, Add32, D

(* diagnostic_check on the fields of the window, whatever the sample. *)
LEMMA WindowStep ==
    ASSUME NEW d, NEW s, NEW csv, NEW tot, NEW r,
           r = DiagnosticCheck(d, s, csv, tot),
           DOMAIN d = DOMAIN DiagnosticInit
    PROVE  /\ DOMAIN r.dg = DOMAIN DiagnosticInit
           /\ r.dg.cycles_in_window =
                 IF WindowCloses(d) THEN 0 ELSE Inc32(d.cycles_in_window)
           /\ r.dg.crc_errors_in_window =
                 LET kept == IF WindowCloses(d) THEN 0
                             ELSE d.crc_errors_in_window
                 IN  IF tot > d.last_crc_errors_seen
                     THEN Add32(kept, tot - d.last_crc_errors_seen) ELSE kept
           /\ r.dg.last_crc_errors_seen =
                 IF tot > d.last_crc_errors_seen THEN tot
                 ELSE d.last_crc_errors_seen
           /\ "COMM_CRC" \in r.dtc <=>
                 /\ WindowCloses(d)
                 /\ d.crc_errors_in_window >= DIAG_CRC_ERROR_RATE_THRESHOLD
<1> DEFINE w == CrcWindow(d, tot)
<1>1. {"cycles_in_window", "crc_errors_in_window", "last_crc_errors_seen",
       "last_omega", "stuck_count", "plausibility_count"} = DOMAIN d
  BY DEF DiagnosticInit
<1>2. /\ DOMAIN w = DOMAIN d
      /\ w.cycles_in_window =
            IF WindowCloses(d) THEN 0 ELSE Inc32(d.cycles_in_window)
      /\ w.crc_errors_in_window =
            LET kept == IF WindowCloses(d) THEN 0
                        ELSE d.crc_errors_in_window
            IN  IF tot > d.last_crc_errors_seen
                THEN Add32(kept, tot - d.last_crc_errors_seen) ELSE kept
      /\ w.last_crc_errors_seen =
            IF tot > d.last_crc_errors_seen THEN tot ELSE d.last_crc_errors_seen
  BY <1>1 DEF CrcWindow
<1> HIDE DEF w
<1>3. /\ DOMAIN ContentChecked(w, s) = DOMAIN w
      /\ ContentChecked(w, s).cycles_in_window = w.cycles_in_window
      /\ ContentChecked(w, s).crc_errors_in_window = w.crc_errors_in_window
      /\ ContentChecked(w, s).last_crc_errors_seen = w.last_crc_errors_seen
  BY <1>1, <1>2 DEF ContentChecked
<1>4. r = IF ~s.valid THEN [dg |-> w, dtc |-> CommDtc(d, csv)]
          ELSE IF OutOfRange(s.v_vehicle, s.omega_wheel)
          THEN [dg |-> w, dtc |-> CommDtc(d, csv) \cup {"RANGE"}]
          ELSE [dg |-> ContentChecked(w, s),
                dtc |-> CommDtc(d, csv) \cup ContentDtc(w, s)]
  BY DEF DiagnosticCheck, w
<1>5. /\ r.dg \in {w, ContentChecked(w, s)}
      /\ "COMM_CRC" \in r.dtc <=> "COMM_CRC" \in CommDtc(d, csv)
  BY <1>4 DEF ContentDtc
<1>6. "COMM_CRC" \in CommDtc(d, csv) <=>
         /\ WindowCloses(d)
         /\ d.crc_errors_in_window >= DIAG_CRC_ERROR_RATE_THRESHOLD
  BY DEF CommDtc
<1> QED BY <1>2, <1>3, <1>5, <1>6

-----------------------------------------------------------------------------
(* The inductive invariant: the window's own clock is the history's, the   *)
(* driver's total is never ahead of the last one seen, and the errors the  *)
(* window holds are those since it was opened - all of them before the     *)
(* first wrap, never more after it.                                        *)
WindowInv ==
    /\ DOMAIN dg = DOMAIN DiagnosticInit
    /\ since \in [Cycles -> Nat] /\ since[0] = 0
    /\ position \in 0 .. D - 1
    /\ wrapped \in BOOLEAN
    /\ total \in Nat /\ total < U32
    /\ dg.cycles_in_window = position
    /\ dg.last_crc_errors_seen \in Nat /\ total <= dg.last_crc_errors_seen
    /\ dg.last_crc_errors_seen < U32
    /\ dg.crc_errors_in_window \in Nat
    /\ dg.crc_errors_in_window <= since[position + 1]
    /\ ~wrapped => /\ dg.last_crc_errors_seen = total
                   /\ dg.crc_errors_in_window = since[position + 1]
                   /\ dg.crc_errors_in_window <= total
    /\ CrcWindowExact

LEMMA WindowInit == DiagInit => WindowInv
<1> SUFFICES ASSUME DiagInit PROVE WindowInv
  OBVIOUS
<1>1. /\ 0 \in Cycles /\ 1 \in Cycles /\ D + 1 \in Cycles
      /\ 0 \in 0 .. D - 1
  BY ThresholdAssumption DEF Cycles, D
<1>2. since[0] = 0 /\ since[1] = 0 /\ since[D + 1] = 0
  BY <1>1 DEF DiagInit
<1>3. ~Earned /\ "COMM_CRC" \notin dtc
  BY <1>2, ThresholdAssumption DEF DiagInit, Earned, D
<1>4. /\ since \in [Cycles -> Nat]
      /\ position = 0 /\ wrapped = FALSE /\ total = 0
  BY DEF DiagInit
<1>5. /\ DOMAIN dg = DOMAIN DiagnosticInit
      /\ dg.cycles_in_window = 0 /\ dg.crc_errors_in_window = 0
      /\ dg.last_crc_errors_seen = 0
  BY DEF DiagInit, DiagnosticInit
<1>6. since[position + 1] = 0
  <2>1. position + 1 = 1
    BY <1>4
  <2> QED BY <1>2, <2>1
<1>7. /\ total \in Nat /\ total < U32
      /\ dg.last_crc_errors_seen \in Nat /\ total <= dg.last_crc_errors_seen
      /\ dg.last_crc_errors_seen < U32
      /\ dg.crc_errors_in_window \in Nat
      /\ dg.crc_errors_in_window <= since[position + 1]
      /\ dg.crc_errors_in_window <= total
  BY <1>4, <1>5, <1>6, WidthAssumption
<1>8. position \in 0 .. D - 1 /\ wrapped \in BOOLEAN
  BY <1>1, <1>4
<1>9. CrcWindowExact
  BY <1>3 DEF CrcWindowExact
<1> QED BY <1>2, <1>4, <1>5, <1>6, <1>7, <1>8, <1>9, Zenon DEF WindowInv

LEMMA CheckKeeps ==
    ASSUME WindowInv, NEW s, NEW csv, NEW crc \in 0 .. MAX_CRC,
           Check(s, csv, crc)
    PROVE  WindowInv'
<1> DEFINE tot == Add32(total, crc)
           seen == dg.last_crc_errors_seen
           counted == dg.crc_errors_in_window
           closes == position + 1 = D
           kept == IF closes THEN 0 ELSE counted
<1>1. /\ D \in Nat /\ D > 0 /\ U32 \in Nat
      /\ crc \in Nat /\ crc < U32
      /\ total \in Nat /\ total < U32 /\ seen \in Nat /\ counted \in Nat
      /\ total <= seen /\ seen < U32 /\ position \in Nat /\ position + 1 <= D
  BY ThresholdAssumption, WidthAssumption, CrcBound DEF WindowInv, D
<1>2. WindowCloses(dg) <=> closes
  BY <1>1, NextPosition DEF WindowInv, WindowCloses, D
<1>3. /\ DOMAIN dg' = DOMAIN DiagnosticInit
      /\ dg'.cycles_in_window = IF closes THEN 0 ELSE position + 1
      /\ dg'.crc_errors_in_window =
            IF tot > seen THEN Add32(kept, tot - seen) ELSE kept
      /\ dg'.last_crc_errors_seen = IF tot > seen THEN tot ELSE seen
      /\ "COMM_CRC" \in dtc' <=>
            closes /\ counted >= DIAG_CRC_ERROR_RATE_THRESHOLD
  <2>1. PICK r : /\ r = DiagnosticCheck(dg, s, csv, tot)
                 /\ dg' = r.dg /\ dtc' = r.dtc
    BY DEF Check
  <2>2. Inc32(position) = position + 1
    BY NextPosition DEF WindowInv
  <2> HIDE DEF tot
  <2> QED BY <1>2, <2>1, <2>2, WindowStep DEF WindowInv
<1>4. /\ total' = tot
      /\ position' = (IF closes THEN 0 ELSE position + 1)
      /\ since' = [n \in Cycles |-> IF n = 0 THEN 0 ELSE since[n - 1] + crc]
      /\ wrapped' = (wrapped \/ tot < total)
  <2>1. (position + 1) % D = IF closes THEN 0 ELSE position + 1
    BY NextPosition DEF WindowInv
  <2> QED BY <2>1 DEF Check, D
<1>5. /\ tot \in Nat /\ tot < U32
      /\ total + crc < U32 => tot = total + crc
      /\ total + crc >= U32 => tot = total + crc - U32
  BY <1>1, Add32Split, Add32AtMost
<1> HIDE DEF tot
<1>6. /\ tot > seen => tot - seen <= crc /\ tot - seen \in Nat
      /\ ~(tot < total) => tot = total + crc
  BY <1>1, <1>5
<1>7. /\ since' \in [Cycles -> Nat] /\ since'[0] = 0
      /\ since'[1] = crc
      /\ since'[D + 1] = since[D] + crc
      /\ since'[position' + 1] =
            (IF closes THEN 0 ELSE since[position + 1]) + crc
      /\ since[position + 1] \in Nat /\ since[D] \in Nat
  <2>1. ASSUME NEW n \in Cycles, n # 0
        PROVE  n - 1 \in Cycles /\ since[n - 1] \in Nat
    BY <1>1, <2>1 DEF WindowInv, Cycles, D
  <2>2. /\ 0 \in Cycles /\ 1 \in Cycles /\ D + 1 \in Cycles /\ D \in Cycles
        /\ position + 1 \in Cycles
        /\ ~closes => position + 2 \in Cycles
    BY <1>1 DEF Cycles, D
  <2>3. since' \in [Cycles -> Nat]
    BY <1>1, <1>4, <2>1
  <2>4. since[0] = 0
    BY DEF WindowInv
  <2>5. since'[0] = 0 /\ since'[1] = since[0] + crc /\ since'[D + 1] = since[D] + crc
    BY <1>1, <1>4, <2>2
  <2>6. CASE closes
    BY <1>1, <1>4, <2>1, <2>2, <2>3, <2>4, <2>5, <2>6
  <2>7. CASE ~closes
    <3>1. position' + 1 = position + 2 /\ position + 2 # 0
          /\ position + 2 - 1 = position + 1
      BY <1>1, <1>4, <2>7
    <3>2. since'[position + 2] = since[position + 1] + crc
      BY <1>4, <2>2, <2>7, <3>1
    <3> QED BY <1>1, <2>1, <2>2, <2>3, <2>4, <2>5, <2>7, <3>1, <3>2 DEF WindowInv
  <2> QED BY <2>6, <2>7
<1>8. /\ counted <= since[position + 1]
      /\ ~wrapped => seen = total /\ counted = since[position + 1] /\ counted <= total
  BY DEF WindowInv
<1>9. /\ kept \in Nat
      /\ kept <= IF closes THEN 0 ELSE since[position + 1]
      /\ ~wrapped => /\ kept = (IF closes THEN 0 ELSE since[position + 1])
                     /\ kept <= total
  BY <1>1, <1>8
<1>10. /\ dg'.crc_errors_in_window \in Nat
       /\ dg'.crc_errors_in_window <= since'[position' + 1]
  <2> HIDE DEF kept, seen, counted, closes
  <2>1. CASE tot > seen
    <3>1. /\ Add32(kept, tot - seen) \in Nat
          /\ Add32(kept, tot - seen) <= kept + (tot - seen)
      BY <1>6, <1>9, <2>1, Add32AtMost
    <3> QED BY <1>1, <1>3, <1>5, <1>6, <1>7, <1>9, <2>1, <3>1
  <2>2. CASE ~(tot > seen)
    BY <1>1, <1>3, <1>7, <1>9, <2>2
  <2> QED BY <2>1, <2>2
<1>11. ASSUME ~wrapped'
       PROVE  /\ dg'.last_crc_errors_seen = total'
              /\ dg'.crc_errors_in_window = since'[position' + 1]
              /\ dg'.crc_errors_in_window <= total'
  <2> HIDE DEF kept, counted, closes
  <2>1. ~wrapped /\ tot = total + crc /\ seen = total
    BY <1>4, <1>6, <1>8, <1>11
  <2>2. CASE tot > seen
    <3>1. tot - seen = crc /\ kept + crc < U32
      BY <1>1, <1>5, <1>9, <2>1
    <3>2. Add32(kept, tot - seen) = kept + crc
      BY <1>1, <1>9, <3>1, Add32Split
    <3> QED BY <1>1, <1>3, <1>4, <1>7, <1>9, <2>1, <2>2, <3>2
  <2>3. CASE ~(tot > seen)
    BY <1>1, <1>3, <1>4, <1>7, <1>9, <2>1, <2>3
  <2> QED BY <2>2, <2>3
<1>12. since'[D + 1] - since'[1] = since[D]
  BY <1>1, <1>7
<1>13. CrcWindowExact'
  <2>1. Earned' <=> closes /\ since[D] >= DIAG_CRC_ERROR_RATE_THRESHOLD
    BY <1>1, <1>4, <1>12 DEF Earned, D
  <2>2. closes => since[D] = since[position + 1]
    OBVIOUS
  <2>3. ~wrapped' => ~wrapped
    BY <1>4
  <2> QED BY <1>1, <1>3, <1>7, <1>8, <2>1, <2>2, <2>3, ThresholdAssumption
          DEF CrcWindowExact
<1>14. /\ position' \in 0 .. D - 1 /\ dg'.cycles_in_window = position'
       /\ wrapped' \in BOOLEAN
  BY <1>1, <1>3, <1>4 DEF WindowInv
<1>15. /\ total' \in Nat /\ total' < U32
       /\ dg'.last_crc_errors_seen \in Nat
       /\ total' <= dg'.last_crc_errors_seen
       /\ dg'.last_crc_errors_seen < U32
  BY <1>1, <1>3, <1>4, <1>5
<1> QED BY <1>3, <1>7, <1>10, <1>11, <1>13, <1>14, <1>15 DEF WindowInv

(* Every CRC error is judged in exactly one window until the driver's      *)
(* counter first wraps, and no wrap ever raises a code that was not        *)
(* earned - for every window length and threshold.                         *)
THEOREM WindowIsExact == DiagSpec => []CrcWindowExact
<1>1. WindowInv /\ [DiagNext]_diagVars => WindowInv'
  <2> SUFFICES ASSUME WindowInv, [DiagNext]_diagVars PROVE WindowInv'
    OBVIOUS
  <2>1. CASE DiagNext
    BY <2>1, CheckKeeps DEF DiagNext
  <2>2. CASE UNCHANGED diagVars
    BY <2>2 DEF diagVars, WindowInv, CrcWindowExact, Earned
  <2> QED BY <2>1, <2>2
<1>2. WindowInv => CrcWindowExact
  BY DEF WindowInv
<1> QED BY <1>1, <1>2, WindowInit, PTL DEF DiagSpec

-----------------------------------------------------------------------------
(* The fault injector.  Each of its three hooks is a chain through the     *)
(* fault list, written as a recursive function; what it computes follows   *)
(* from induction over the list, stated with sets.                         *)

(* Every set of numbers that is not empty has a least element. *)
LEMMA NatLeast ==
    ASSUME NEW T \in SUBSET Nat, T # {}
    PROVE  \E x \in T : \A y \in T : x <= y
<1> DEFINE R == OpToRel(<, Nat)
<1>1. IsWellFoundedOn(R, Nat)
  BY NatLessThanWellFounded, Zenon
<1>2. \A x, y \in Nat : x < y => <<x, y>> \in R
  BY DEF OpToRel
<1> HIDE DEF R
<1>3. PICK x \in T : \A y \in T : ~(<<y, x>> \in R)
  BY <1>1, WFMin
<1>4. ASSUME NEW y \in T PROVE x <= y
  <2>1. x \in Nat /\ y \in Nat
    OBVIOUS
  <2>2. ~(y < x)
    BY <1>2, <1>3, <2>1
  <2> QED BY <2>1, <2>2
<1> QED BY <1>4

(* Induction from 0 up to n. *)
LEMMA UpTo ==
    ASSUME NEW n \in Nat, NEW S, 0 \in S,
           \A k \in 1 .. n : k - 1 \in S => k \in S
    PROVE  \A k \in 0 .. n : k \in S
<1> DEFINE T == {k \in 0 .. n : k \notin S}
<1>1. SUFFICES ASSUME T # {} PROVE FALSE
  OBVIOUS
<1>2. T \in SUBSET Nat
  OBVIOUS
<1>3. PICK x \in T : \A y \in T : x <= y
  BY <1>1, <1>2, NatLeast
<1>4. x \in 1 .. n /\ x \notin S
  BY <1>3
<1>5. x - 1 \in 0 .. n /\ x - 1 \notin T
  BY <1>3, <1>4
<1>6. x - 1 \in S
  BY <1>5
<1> QED BY <1>4, <1>6

(* The states behind each of the n members of a chain. *)
Chained(b, V, n, start, step) ==
    /\ b \in [0 .. n -> V] /\ b[0] = start
    /\ \A k \in 1 .. n : b[k] = step[<<b[k - 1], k>>]

(* A chain has them. *)
LEMMA ChainExists ==
    ASSUME NEW V, NEW n \in Nat, NEW start \in V, NEW step \in [V \X (1 .. n) -> V]
    PROVE  \E b : Chained(b, V, n, start, step)
<1> DEFINE Fit(m, b) == Chained(b, V, m, start, step)
           S == {m \in 0 .. n : \E b : Fit(m, b)}
<1>1. 0 \in S
  <2>1. Fit(0, [k \in 0 .. 0 |-> start])
    BY DEF Chained
  <2> QED BY <2>1
<1>2. ASSUME NEW m \in 1 .. n, m - 1 \in S PROVE m \in S
  <2>1. PICK b : Fit(m - 1, b)
    BY <1>2
  <2> DEFINE c == [k \in 0 .. m |-> IF k = m THEN step[<<b[m - 1], m>>] ELSE b[k]]
  <2>2. b \in [0 .. m - 1 -> V] /\ b[0] = start
    BY <2>1 DEF Chained
  <2>3. b[m - 1] \in V /\ step[<<b[m - 1], m>>] \in V
    BY <2>2
  <2>4. c \in [0 .. m -> V] /\ c[0] = start
    BY <2>2, <2>3
  <2>5. ASSUME NEW k \in 1 .. m PROVE c[k] = step[<<c[k - 1], k>>]
    <3>1. CASE k = m
      <4>1. c[m] = step[<<b[m - 1], m>>] /\ c[m - 1] = b[m - 1]
        OBVIOUS
      <4> HIDE DEF c
      <4> QED BY <3>1, <4>1
    <3>2. CASE k # m
      <4>1. k \in 1 .. m - 1 /\ c[k] = b[k] /\ c[k - 1] = b[k - 1]
        BY <3>2
      <4> QED BY <4>1, <2>1 DEF Chained
    <3> QED BY <3>1, <3>2
  <2>6. Fit(m, c)
    BY <2>4, <2>5 DEF Chained
  <2> QED BY <2>6
<1> HIDE DEF S
<1>3. n \in S
  BY <1>1, <1>2, UpTo
<1> QED BY <1>3 DEF S

(* So is every function that goes through the same steps. *)
LEMMA ChainFits ==
    ASSUME NEW V, NEW n \in Nat, NEW start \in V, NEW step \in [V \X (1 .. n) -> V],
           NEW f, f = [k \in 0 .. n |-> f[k]], f[0] = start,
           \A k \in 1 .. n : f[k - 1] \in V => f[k] = step[<<f[k - 1], k>>]
    PROVE  Chained(f, V, n, start, step)
<1> DEFINE S == {k \in 0 .. n : f[k] \in V}
<1>1. 0 \in S
  OBVIOUS
<1>2. ASSUME NEW k \in 1 .. n, k - 1 \in S PROVE k \in S
  <2>1. f[k - 1] \in V /\ f[k] = step[<<f[k - 1], k>>]
    BY <1>2
  <2>2. step[<<f[k - 1], k>>] \in V
    BY <2>1
  <2> QED BY <2>1, <2>2
<1> HIDE DEF S
<1>3. \A k \in 0 .. n : k \in S
  BY <1>1, <1>2, UpTo
<1>4. \A k \in 0 .. n : f[k] \in V
  BY <1>3 DEF S
<1>5. f \in [0 .. n -> V]
  BY <1>4
<1>6. ASSUME NEW k \in 1 .. n PROVE f[k] = step[<<f[k - 1], k>>]
  <2>1. k - 1 \in 0 .. n
    OBVIOUS
  <2>2. f[k - 1] \in V
    BY <1>4, <2>1
  <2> QED BY <2>2
<1> QED BY <1>5, <1>6 DEF Chained

-----------------------------------------------------------------------------
(* One fault of each chain. *)

(* The frames between plant and wire. *)
Sample == [v_vehicle : Int, omega_wheel : Int, brake_pressure : Int, valid : BOOLEAN]

Memories(n) == [1 .. n -> FaultMemory]

EnvState(n)  == [surface : SURFACES, mem : Memories(n)]
SigState(n)  == [frame : Sample \cup {None}, mem : Memories(n)]
WireState(n) == [flipped : SUBSET Int, mem : Memories(n)]

EnvStep(list, e, i, now) ==
    IF list[i].kind = "ice" THEN ApplyInPlant(list[i], e, i, now) ELSE e

SigStep(list, s, i, now, noise) ==
    IF s.frame = None THEN s ELSE ApplyToSensor(list[i], s, i, now, noise)

WireStep(list, w, i, now) ==
    IF list[i].kind = "crc" THEN MutateWire(list[i], w, i, now) ELSE w

Roads  == SURFACES \cup {None}
Speeds == Int \cup {None}

PutBack(m1, m, i, x) == m1 = [m EXCEPT ![i].restore = x]
FrozenAt(m1, m, i, x) == m1 = [m EXCEPT ![i].frozen_omega = x]

(* Memories with one field of fault i overwritten. *)
LEMMA Restoring ==
    ASSUME NEW n \in Nat, NEW m \in Memories(n), NEW i \in 1 .. n,
           NEW x \in Roads, NEW m1, PutBack(m1, m, i, x)
    PROVE  /\ m1 \in Memories(n) /\ m1[i].restore = x
           /\ \A j \in 1 .. n : m1[j].frozen_omega = m[j].frozen_omega
           /\ \A j \in 1 .. n : j # i => m1[j].restore = m[j].restore
  BY DEF Memories, FaultMemory, Roads, Speeds, PutBack, FrozenAt

LEMMA Freezing ==
    ASSUME NEW n \in Nat, NEW m \in Memories(n), NEW i \in 1 .. n,
           NEW x \in Speeds, NEW m1, FrozenAt(m1, m, i, x)
    PROVE  /\ m1 \in Memories(n) /\ m1[i].frozen_omega = x
           /\ \A j \in 1 .. n : m1[j].restore = m[j].restore
           /\ \A j \in 1 .. n : j # i => m1[j].frozen_omega = m[j].frozen_omega
  BY DEF Memories, FaultMemory, Roads, Speeds, PutBack, FrozenAt

LEMMA Counting ==
    ASSUME NEW n \in Nat, NEW m \in Memories(n), NEW i \in 1 .. n,
           NEW x \in Nat, NEW m1, m1 = [m EXCEPT ![i].counter = x]
    PROVE  /\ m1 \in Memories(n)
           /\ \A j \in 1 .. n : m1[j].restore = m[j].restore
           /\ \A j \in 1 .. n : m1[j].frozen_omega = m[j].frozen_omega
  BY DEF Memories, FaultMemory

(* An ice patch remembers the surface it finds, lays its own, and puts the *)
(* other back; nothing else.                                               *)
LEMMA EnvStepFacts ==
    ASSUME NEW list, IsFaultList(list), NEW i \in 1 .. Len(list), NEW now,
           NEW e \in EnvState(Len(list))
    PROVE  LET e1 == EnvStep(list, e, i, now)
               n  == Len(list)
           IN  /\ e1 \in EnvState(n)
               /\ \A j \in 1 .. n : e1.mem[j].frozen_omega = e.mem[j].frozen_omega
               /\ \A j \in 1 .. n : j # i => e1.mem[j].restore = e.mem[j].restore
               /\ list[i].kind # "ice" => e1 = e
               /\ list[i].kind = "ice" /\ IsActive(list[i], now) =>
                    /\ e1.surface = list[i].target
                    /\ e1.mem[i].restore = IF e.mem[i].restore = None THEN e.surface
                                           ELSE e.mem[i].restore
               /\ list[i].kind = "ice" /\ ~IsActive(list[i], now) =>
                    /\ e.mem[i].restore = None => e1 = e
                    /\ e.mem[i].restore # None /\ e.surface # e.mem[i].restore =>
                          e1.surface = e.mem[i].restore /\ e1.mem[i].restore = None
<1> DEFINE n == Len(list)
           r == e.mem[i].restore
           kept == IF r = None THEN e.surface ELSE r
           m1 == [e.mem EXCEPT ![i].restore = kept]
           m2 == [e.mem EXCEPT ![i].restore = None]
           e1 == EnvStep(list, e, i, now)
<1>1. n \in Nat /\ i \in DOMAIN list
  BY DEF IsFaultList
<1>2. e.surface \in SURFACES /\ e.mem \in Memories(n) /\ r \in SURFACES \cup {None}
  BY DEF EnvState, Memories, FaultMemory
<1>3. kept \in SURFACES
  BY <1>2
<1>4. /\ m1 \in Memories(n) /\ m1[i].restore = kept
      /\ \A j \in 1 .. n : m1[j].frozen_omega = e.mem[j].frozen_omega
      /\ \A j \in 1 .. n : j # i => m1[j].restore = e.mem[j].restore
  <2>1. PutBack(m1, e.mem, i, kept) /\ kept \in Roads
    BY <1>3 DEF Roads, PutBack
  <2> HIDE DEF kept, m1
  <2> QED BY <1>1, <1>2, <2>1, Restoring
<1>5. /\ m2 \in Memories(n) /\ m2[i].restore = None
      /\ \A j \in 1 .. n : m2[j].frozen_omega = e.mem[j].frozen_omega
      /\ \A j \in 1 .. n : j # i => m2[j].restore = e.mem[j].restore
  <2>1. PutBack(m2, e.mem, i, None) /\ None \in Roads
    BY DEF Roads, PutBack
  <2> HIDE DEF m2
  <2> QED BY <1>1, <1>2, <2>1, Restoring
<1>6. CASE list[i].kind # "ice"
  BY <1>6 DEF EnvStep
<1>7. CASE list[i].kind = "ice" /\ IsActive(list[i], now)
  <2>1. e1 = [surface |-> list[i].target, mem |-> m1]
    BY <1>7 DEF EnvStep, ApplyInPlant
  <2>2. list[i].target \in SURFACES
    BY <1>1, <1>7 DEF IsFaultList
  <2> HIDE DEF m1, e1
  <2>3. e1 \in EnvState(n) /\ e1.surface = list[i].target /\ e1.mem = m1
    BY <1>4, <2>1, <2>2 DEF EnvState
  <2> QED BY <1>4, <1>7, <2>3 DEF e1
<1>8. CASE list[i].kind = "ice" /\ ~IsActive(list[i], now)
  <2>1. CASE r # None /\ e.surface # r
    <3>1. e1 = [surface |-> r, mem |-> m2]
      BY <1>8, <2>1 DEF EnvStep, ApplyInPlant
    <3> HIDE DEF m2, e1
    <3>2. e1 \in EnvState(n) /\ e1.surface = r /\ e1.mem = m2
      BY <1>2, <1>5, <2>1, <3>1 DEF EnvState
    <3> QED BY <1>5, <1>8, <2>1, <3>2 DEF e1
  <2>2. CASE ~(r # None /\ e.surface # r)
    <3>1. e1 = e
      BY <1>8, <2>2 DEF EnvStep, ApplyInPlant
    <3> QED BY <1>8, <2>2, <3>1
  <2> QED BY <2>1, <2>2
<1> QED BY <1>6, <1>7, <1>8

(* A frozen sensor is one that remembers; the chain of a lost frame stops; *)
(* an inactive fault leaves the frame alone.                               *)
LEMMA SigStepFacts ==
    ASSUME NEW list, IsFaultList(list), NEW i \in 1 .. Len(list), NEW now,
           NEW noise \in Int, NEW s \in SigState(Len(list))
    PROVE  LET s1 == SigStep(list, s, i, now, noise)
               n  == Len(list)
           IN  /\ s1 \in SigState(n)
               /\ \A j \in 1 .. n : s1.mem[j].restore = s.mem[j].restore
               /\ \A j \in 1 .. n : j # i => s1.mem[j].frozen_omega = s.mem[j].frozen_omega
               /\ s.frame = None => s1 = s
               /\ ~IsActive(list[i], now) => s1.frame = s.frame
               /\ list[i].kind \notin {"stuck", "noise", "range"} /\ s1.frame # None =>
                     s1.frame = s.frame
               /\ list[i].kind = "stuck" /\ IsActive(list[i], now) =>
                    /\ s.mem[i].frozen_omega # None =>
                          s1.mem[i].frozen_omega = s.mem[i].frozen_omega
                    /\ s1.frame # None => s1.frame.omega_wheel = s1.mem[i].frozen_omega
<1> DEFINE n == Len(list)
           s1 == SigStep(list, s, i, now, noise)
           frozen == IF s.mem[i].frozen_omega = None THEN s.frame.omega_wheel
                     ELSE s.mem[i].frozen_omega
           m1 == [s.mem EXCEPT ![i].frozen_omega = frozen]
           m2 == [s.mem EXCEPT ![i].frozen_omega = None]
<1>1. n \in Nat /\ i \in DOMAIN list
  BY DEF IsFaultList
<1>2. s.frame \in Sample \cup {None} /\ s.mem \in Memories(n)
  BY DEF SigState
<1>3. CASE s.frame = None
  <2>1. s1 = s
    BY <1>3 DEF SigStep
  <2> QED BY <1>3, <2>1
<1>4. CASE s.frame # None
  <2>1. s.frame \in Sample /\ s1 = ApplyToSensor(list[i], s, i, now, noise)
    BY <1>2, <1>4 DEF SigStep
  <2>2. frozen \in Int /\ (s.mem[i].frozen_omega # None => frozen = s.mem[i].frozen_omega)
    BY <1>2, <2>1 DEF Memories, FaultMemory, Sample
  <2>3. /\ m1 \in Memories(n) /\ m1[i].frozen_omega = frozen
        /\ \A j \in 1 .. n : m1[j].restore = s.mem[j].restore
        /\ \A j \in 1 .. n : j # i => m1[j].frozen_omega = s.mem[j].frozen_omega
    <3>1. FrozenAt(m1, s.mem, i, frozen) /\ frozen \in Speeds
      BY <2>2 DEF Speeds, FrozenAt
    <3> HIDE DEF frozen, m1
    <3> QED BY <1>1, <1>2, <3>1, Freezing
  <2>4. /\ m2 \in Memories(n)
        /\ \A j \in 1 .. n : m2[j].restore = s.mem[j].restore
        /\ \A j \in 1 .. n : j # i => m2[j].frozen_omega = s.mem[j].frozen_omega
    <3>1. FrozenAt(m2, s.mem, i, None) /\ None \in Speeds
      BY DEF Speeds, FrozenAt
    <3> HIDE DEF m2
    <3> QED BY <1>1, <1>2, <3>1, Freezing
  <2>5. CASE list[i].kind = "stuck" /\ IsActive(list[i], now)
    <3>1. s1 = [frame |-> [s.frame EXCEPT !.omega_wheel = frozen], mem |-> m1]
      BY <2>1, <2>5 DEF ApplyToSensor
    <3> HIDE DEF m1, frozen, s1
    <3>2. /\ s1 \in SigState(n) /\ s1.mem = m1 /\ s1.frame.omega_wheel = frozen
      BY <2>1, <2>2, <2>3, <3>1 DEF SigState, Sample
    <3> QED BY <1>4, <2>2, <2>3, <2>5, <3>2 DEF s1
  <2>6. CASE list[i].kind = "stuck" /\ ~IsActive(list[i], now)
    <3>1. s1 = [s EXCEPT !.mem[i].frozen_omega = None]
      BY <2>1, <2>6 DEF ApplyToSensor
    <3>2. s1 \in SigState(n) /\ s1.mem = m2 /\ s1.frame = s.frame
      BY <1>2, <2>4, <3>1 DEF SigState
    <3> HIDE DEF s1, m2
    <3> QED BY <1>4, <2>4, <2>6, <3>2 DEF s1
  <2>7. CASE list[i].kind # "stuck"
    <3>1. s1.mem = s.mem /\ s1 \in SigState(n)
          /\ (~IsActive(list[i], now) => s1.frame = s.frame)
          /\ (list[i].kind \notin {"noise", "range"} /\ s1.frame # None => s1.frame = s.frame)
      <4>1. CASE list[i].kind = "noise" /\ IsActive(list[i], now)
        <5>1. s1 = [s EXCEPT !.frame.omega_wheel = @ + noise]
          BY <2>1, <4>1 DEF ApplyToSensor
        <5> QED BY <1>2, <2>1, <4>1, <5>1 DEF SigState, Sample
      <4>2. CASE list[i].kind = "range" /\ IsActive(list[i], now)
        <5>1. s1 = [s EXCEPT !.frame.omega_wheel = list[i].target]
          BY <2>1, <4>2 DEF ApplyToSensor
        <5>2. list[i].target \in Int
          BY <1>1, <4>2 DEF IsFaultList
        <5> QED BY <1>2, <2>1, <4>2, <5>1, <5>2 DEF SigState, Sample
      <4>3. CASE list[i].kind = "loss" /\ IsActive(list[i], now)
        <5>1. s1 = [s EXCEPT !.frame = None]
          BY <2>1, <4>3 DEF ApplyToSensor
        <5> QED BY <1>2, <2>1, <4>3, <5>1 DEF SigState
      <4>4. CASE ~(list[i].kind \in {"noise", "range", "loss"} /\ IsActive(list[i], now))
        <5>1. s1 = s
          BY <2>1, <2>7, <4>4 DEF ApplyToSensor
        <5> QED BY <5>1
      <4> QED BY <4>1, <4>2, <4>3, <4>4
    <3> HIDE DEF s1
    <3> QED BY <1>4, <2>7, <3>1 DEF s1
  <2> QED BY <2>5, <2>6, <2>7
<1> QED BY <1>3, <1>4

(* A CRC fault counts and flips, inside its window. *)
LEMMA WireStepFacts ==
    ASSUME NEW list, IsFaultList(list), NEW i \in 1 .. Len(list), NEW now,
           NEW w \in WireState(Len(list))
    PROVE  LET w1 == WireStep(list, w, i, now)
               n  == Len(list)
           IN  /\ w1 \in WireState(n)
               /\ \A j \in 1 .. n : w1.mem[j].restore = w.mem[j].restore
               /\ \A j \in 1 .. n : w1.mem[j].frozen_omega = w.mem[j].frozen_omega
               /\ ~IsActive(list[i], now) => w1.flipped = w.flipped
<1> DEFINE n == Len(list)
           w1 == WireStep(list, w, i, now)
           count == w.mem[i].counter + 1
           m1 == [w.mem EXCEPT ![i].counter = count]
           flip == IF count % list[i].every_n # 0 \/ list[i].target >= WIRE_SIZE - 2
                   THEN w.flipped
                   ELSE (w.flipped \ {list[i].target}) \cup ({list[i].target} \ w.flipped)
<1>1. n \in Nat /\ i \in DOMAIN list
  BY DEF IsFaultList
<1>2. w.flipped \in SUBSET Int /\ w.mem \in Memories(n)
  BY DEF WireState
<1>3. CASE list[i].kind = "crc" /\ IsActive(list[i], now)
  <2>1. w1 = [flipped |-> flip, mem |-> m1]
    BY <1>3 DEF WireStep, MutateWire
  <2>2. list[i].target \in Int
    BY <1>1, <1>3 DEF IsFaultList
  <2>3. flip \in SUBSET Int
    <3> HIDE DEF count
    <3> QED BY <1>2, <2>2
  <2>4. count \in Nat
    BY <1>2 DEF Memories, FaultMemory
  <2>5. /\ m1 \in Memories(n)
        /\ \A j \in 1 .. n : m1[j].restore = w.mem[j].restore
        /\ \A j \in 1 .. n : m1[j].frozen_omega = w.mem[j].frozen_omega
    <3>1. m1 = [w.mem EXCEPT ![i].counter = count]
      OBVIOUS
    <3> HIDE DEF count, m1
    <3> QED BY <1>1, <1>2, <2>4, <3>1, Counting
  <2> HIDE DEF m1, flip, w1
  <2>6. w1 \in WireState(n) /\ w1.mem = m1
    BY <2>1, <2>3, <2>5 DEF WireState
  <2> QED BY <1>3, <2>5, <2>6 DEF w1
<1>4. CASE ~(list[i].kind = "crc" /\ IsActive(list[i], now))
  <2>1. w1 = w
    BY <1>4 DEF WireStep, MutateWire
  <2> QED BY <2>1
<1> QED BY <1>3, <1>4

-----------------------------------------------------------------------------
(* The chains. *)

EnvChain(b, list, m, surf, now) ==
    /\ b \in [0 .. Len(list) -> EnvState(Len(list))]
    /\ b[0] = [surface |-> surf, mem |-> m]
    /\ \A i \in 1 .. Len(list) : b[i] = EnvStep(list, b[i - 1], i, now)

(* apply_environment goes through the patches one by one. *)
LEMMA EnvironmentIsChain ==
    ASSUME NEW list, IsFaultList(list), NEW m \in Memories(Len(list)),
           NEW surf \in SURFACES, NEW now
    PROVE  \E b : /\ EnvChain(b, list, m, surf, now)
                  /\ ApplyEnvironment(list, m, surf, now) = b[Len(list)]
<1> DEFINE n == Len(list)
           V == EnvState(n)
           start == [surface |-> surf, mem |-> m]
           step == [p \in V \X (1 .. n) |-> EnvStep(list, p[1], p[2], now)]
           Body(g) == [i \in 0 .. n |->
                         IF i = 0 THEN start ELSE EnvStep(list, g[i - 1], i, now)]
           f == CHOOSE g : g = Body(g)
<1>1. n \in Nat
  BY DEF IsFaultList
<1>2. start \in V
  BY DEF EnvState
<1>3. \A e \in V, i \in 1 .. n : EnvStep(list, e, i, now) \in V
  BY EnvStepFacts
<1>4. step \in [V \X (1 .. n) -> V]
  BY <1>3
<1>5. \A e \in V, i \in 1 .. n : step[<<e, i>>] = EnvStep(list, e, i, now)
  OBVIOUS
<1> HIDE DEF V, start, step
<1>6. PICK b : Chained(b, V, n, start, step)
  BY <1>1, <1>2, <1>4, ChainExists
<1>7. b = Body(b)
  <2>1. /\ b \in [0 .. n -> V] /\ b[0] = start
        /\ \A i \in 1 .. n : b[i] = step[<<b[i - 1], i>>]
    BY <1>6 DEF Chained
  <2>2. ASSUME NEW i \in 1 .. n PROVE b[i] = EnvStep(list, b[i - 1], i, now)
    <3>1. b[i - 1] \in V /\ b[i] = step[<<b[i - 1], i>>]
      BY <1>1, <2>1
    <3> QED BY <1>5, <3>1
  <2> QED BY <1>1, <2>1, <2>2
<1>8. f = Body(f)
  <2> HIDE DEF Body
  <2> QED BY <1>7
<1>9. ApplyEnvironment(list, m, surf, now) = f[n]
  BY Zenon DEF ApplyEnvironment, EnvStep, start
<1> HIDE DEF f
<1>10. /\ f = [i \in 0 .. n |-> f[i]] /\ f[0] = start
       /\ \A i \in 1 .. n : f[i] = EnvStep(list, f[i - 1], i, now)
  BY <1>1, <1>8
<1>11. \A i \in 1 .. n : f[i - 1] \in V => f[i] = step[<<f[i - 1], i>>]
  BY <1>5, <1>10
<1>12. Chained(f, V, n, start, step)
  BY <1>1, <1>2, <1>4, <1>10, <1>11, ChainFits
<1>13. EnvChain(f, list, m, surf, now)
  BY <1>10, <1>12 DEF EnvChain, Chained, V, start
<1> QED BY <1>9, <1>13

SigChain(b, list, m, frame, now, noise) ==
    /\ b \in [0 .. Len(list) -> SigState(Len(list))]
    /\ b[0] = [frame |-> frame, mem |-> m]
    /\ \A i \in 1 .. Len(list) : b[i] = SigStep(list, b[i - 1], i, now, noise)

(* So does filter_sensor with the signal faults. *)
LEMMA SensorIsChain ==
    ASSUME NEW list, IsFaultList(list), NEW m \in Memories(Len(list)),
           NEW frame \in Sample, NEW now, NEW noise \in Int
    PROVE  \E b : /\ SigChain(b, list, m, frame, now, noise)
                  /\ FilterSensor(list, m, frame, now, noise) = b[Len(list)]
<1> DEFINE n == Len(list)
           V == SigState(n)
           start == [frame |-> frame, mem |-> m]
           step == [p \in V \X (1 .. n) |-> SigStep(list, p[1], p[2], now, noise)]
           Body(g) == [i \in 0 .. n |->
                         IF i = 0 THEN start ELSE SigStep(list, g[i - 1], i, now, noise)]
           f == CHOOSE g : g = Body(g)
<1>1. n \in Nat
  BY DEF IsFaultList
<1>2. start \in V
  BY DEF SigState
<1>3. \A e \in V, i \in 1 .. n : SigStep(list, e, i, now, noise) \in V
  BY SigStepFacts
<1>4. step \in [V \X (1 .. n) -> V]
  BY <1>3
<1>5. \A e \in V, i \in 1 .. n : step[<<e, i>>] = SigStep(list, e, i, now, noise)
  OBVIOUS
<1> HIDE DEF V, start, step
<1>6. PICK b : Chained(b, V, n, start, step)
  BY <1>1, <1>2, <1>4, ChainExists
<1>7. b = Body(b)
  <2>1. /\ b \in [0 .. n -> V] /\ b[0] = start
        /\ \A i \in 1 .. n : b[i] = step[<<b[i - 1], i>>]
    BY <1>6 DEF Chained
  <2>2. ASSUME NEW i \in 1 .. n PROVE b[i] = SigStep(list, b[i - 1], i, now, noise)
    <3>1. b[i - 1] \in V /\ b[i] = step[<<b[i - 1], i>>]
      BY <1>1, <2>1
    <3> QED BY <1>5, <3>1
  <2> QED BY <1>1, <2>1, <2>2
<1>8. f = Body(f)
  <2> HIDE DEF Body
  <2> QED BY <1>7
<1>9. FilterSensor(list, m, frame, now, noise) = f[n]
  BY Zenon DEF FilterSensor, SigStep, start
<1> HIDE DEF f
<1>10. /\ f = [i \in 0 .. n |-> f[i]] /\ f[0] = start
       /\ \A i \in 1 .. n : f[i] = SigStep(list, f[i - 1], i, now, noise)
  BY <1>1, <1>8
<1>11. \A i \in 1 .. n : f[i - 1] \in V => f[i] = step[<<f[i - 1], i>>]
  BY <1>5, <1>10
<1>12. Chained(f, V, n, start, step)
  BY <1>1, <1>2, <1>4, <1>10, <1>11, ChainFits
<1>13. SigChain(f, list, m, frame, now, noise)
  BY <1>10, <1>12 DEF SigChain, Chained, V, start
<1> QED BY <1>9, <1>13

WireChain(b, list, m, now) ==
    /\ b \in [0 .. Len(list) -> WireState(Len(list))]
    /\ b[0] = [flipped |-> {}, mem |-> m]
    /\ \A i \in 1 .. Len(list) : b[i] = WireStep(list, b[i - 1], i, now)

(* And filter_wire with the CRC faults. *)
LEMMA WireIsChain ==
    ASSUME NEW list, IsFaultList(list), NEW m \in Memories(Len(list)), NEW now
    PROVE  \E b : /\ WireChain(b, list, m, now)
                  /\ FilterWire(list, m, now) = b[Len(list)]
<1> DEFINE n == Len(list)
           V == WireState(n)
           start == [flipped |-> {}, mem |-> m]
           step == [p \in V \X (1 .. n) |-> WireStep(list, p[1], p[2], now)]
           Body(g) == [i \in 0 .. n |->
                         IF i = 0 THEN start ELSE WireStep(list, g[i - 1], i, now)]
           f == CHOOSE g : g = Body(g)
<1>1. n \in Nat
  BY DEF IsFaultList
<1>2. start \in V
  BY DEF WireState
<1>3. \A e \in V, i \in 1 .. n : WireStep(list, e, i, now) \in V
  BY WireStepFacts
<1>4. step \in [V \X (1 .. n) -> V]
  BY <1>3
<1>5. \A e \in V, i \in 1 .. n : step[<<e, i>>] = WireStep(list, e, i, now)
  OBVIOUS
<1> HIDE DEF V, start, step
<1>6. PICK b : Chained(b, V, n, start, step)
  BY <1>1, <1>2, <1>4, ChainExists
<1>7. b = Body(b)
  <2>1. /\ b \in [0 .. n -> V] /\ b[0] = start
        /\ \A i \in 1 .. n : b[i] = step[<<b[i - 1], i>>]
    BY <1>6 DEF Chained
  <2>2. ASSUME NEW i \in 1 .. n PROVE b[i] = WireStep(list, b[i - 1], i, now)
    <3>1. b[i - 1] \in V /\ b[i] = step[<<b[i - 1], i>>]
      BY <1>1, <2>1
    <3> QED BY <1>5, <3>1
  <2> QED BY <1>1, <2>1, <2>2
<1>8. f = Body(f)
  <2> HIDE DEF Body
  <2> QED BY <1>7
<1>9. FilterWire(list, m, now) = f[n]
  BY Zenon DEF FilterWire, WireStep, start
<1> HIDE DEF f
<1>10. /\ f = [i \in 0 .. n |-> f[i]] /\ f[0] = start
       /\ \A i \in 1 .. n : f[i] = WireStep(list, f[i - 1], i, now)
  BY <1>1, <1>8
<1>11. \A i \in 1 .. n : f[i - 1] \in V => f[i] = step[<<f[i - 1], i>>]
  BY <1>5, <1>10
<1>12. Chained(f, V, n, start, step)
  BY <1>1, <1>2, <1>4, <1>10, <1>11, ChainFits
<1>13. WireChain(f, list, m, now)
  BY <1>10, <1>12 DEF WireChain, Chained, V, start
<1> QED BY <1>9, <1>13

-----------------------------------------------------------------------------
(* What the chains keep. *)

(* Memory m1 has the frozen omegas of m. *)
SameFrozen(m1, m) == \A j \in 1 .. Len(faults) : m1[j].frozen_omega = m[j].frozen_omega

(* Memory m1 has the remembered surfaces of m. *)
SameRestore(m1, m) == \A j \in 1 .. Len(faults) : m1[j].restore = m[j].restore

(* The patches freeze no sensor. *)
LEMMA EnvKeeps ==
    ASSUME IsFaultList(faults), NEW b, NEW m, NEW surf, EnvChain(b, faults, m, surf, t)
    PROVE  LET last == b[Len(faults)]
           IN  last \in EnvState(Len(faults)) /\ SameFrozen(last.mem, m)
<1> DEFINE n == Len(faults)
           S == {i \in 0 .. n : SameFrozen(b[i].mem, m)}
<1>1. n \in Nat /\ b \in [0 .. n -> EnvState(n)] /\ b[0].mem = m
  BY DEF IsFaultList, EnvChain
<1>2. 0 \in S
  BY <1>1 DEF SameFrozen
<1>3. ASSUME NEW i \in 1 .. n, i - 1 \in S PROVE i \in S
  <2>1. b[i] = EnvStep(faults, b[i - 1], i, t) /\ b[i - 1] \in EnvState(n)
    BY <1>1 DEF EnvChain
  <2>2. \A j \in 1 .. n : b[i].mem[j].frozen_omega = b[i - 1].mem[j].frozen_omega
    BY <2>1, EnvStepFacts
  <2> QED BY <1>3, <2>2 DEF SameFrozen
<1> HIDE DEF S
<1>4. \A i \in 0 .. n : i \in S
  BY <1>1, <1>2, <1>3, UpTo
<1>5. n \in 0 .. n
  BY <1>1
<1> QED BY <1>1, <1>4, <1>5 DEF S

(* The signal faults remember no surface, and outside all windows the      *)
(* frame passes.                                                           *)
LEMMA SigKeeps ==
    ASSUME IsFaultList(faults), NEW b, NEW m, NEW frame, NEW noise \in Int,
           SigChain(b, faults, m, frame, t, noise)
    PROVE  LET last == b[Len(faults)]
           IN  /\ last \in SigState(Len(faults)) /\ SameRestore(last.mem, m)
               /\ (\A i \in DOMAIN faults : ~IsActive(faults[i], t)) => last.frame = frame
<1> DEFINE n == Len(faults)
           Quiet == \A i \in DOMAIN faults : ~IsActive(faults[i], t)
           S == {i \in 0 .. n : SameRestore(b[i].mem, m) /\ (Quiet => b[i].frame = frame)}
<1>1. /\ n \in Nat /\ b \in [0 .. n -> SigState(n)] /\ b[0].mem = m /\ b[0].frame = frame
      /\ DOMAIN faults = 1 .. n
  BY DEF IsFaultList, SigChain
<1>2. 0 \in S
  BY <1>1 DEF SameRestore
<1>3. ASSUME NEW i \in 1 .. n, i - 1 \in S PROVE i \in S
  <2>1. b[i] = SigStep(faults, b[i - 1], i, t, noise) /\ b[i - 1] \in SigState(n)
    BY <1>1 DEF SigChain
  <2>2. /\ \A j \in 1 .. n : b[i].mem[j].restore = b[i - 1].mem[j].restore
        /\ ~IsActive(faults[i], t) => b[i].frame = b[i - 1].frame
    BY <2>1, SigStepFacts
  <2> QED BY <1>1, <1>3, <2>2 DEF SameRestore
<1> HIDE DEF S
<1>4. \A i \in 0 .. n : i \in S
  BY <1>1, <1>2, <1>3, UpTo
<1>5. n \in 0 .. n
  BY <1>1
<1> QED BY <1>1, <1>4, <1>5 DEF S

(* The CRC faults do neither, and outside all windows they flip nothing. *)
LEMMA WireKeeps ==
    ASSUME IsFaultList(faults), NEW b, NEW m, WireChain(b, faults, m, t)
    PROVE  LET last == b[Len(faults)]
           IN  /\ last \in WireState(Len(faults))
               /\ SameRestore(last.mem, m) /\ SameFrozen(last.mem, m)
               /\ (\A i \in DOMAIN faults : ~IsActive(faults[i], t)) => last.flipped = {}
<1> DEFINE n == Len(faults)
           Quiet == \A i \in DOMAIN faults : ~IsActive(faults[i], t)
           S == {i \in 0 .. n : /\ SameRestore(b[i].mem, m) /\ SameFrozen(b[i].mem, m)
                                /\ Quiet => b[i].flipped = {}}
<1>1. /\ n \in Nat /\ b \in [0 .. n -> WireState(n)] /\ b[0].mem = m /\ b[0].flipped = {}
      /\ DOMAIN faults = 1 .. n
  BY DEF IsFaultList, WireChain
<1>2. 0 \in S
  BY <1>1 DEF SameRestore, SameFrozen
<1>3. ASSUME NEW i \in 1 .. n, i - 1 \in S PROVE i \in S
  <2>1. b[i] = WireStep(faults, b[i - 1], i, t) /\ b[i - 1] \in WireState(n)
    BY <1>1 DEF WireChain
  <2>2. /\ \A j \in 1 .. n : b[i].mem[j].restore = b[i - 1].mem[j].restore
        /\ \A j \in 1 .. n : b[i].mem[j].frozen_omega = b[i - 1].mem[j].frozen_omega
        /\ ~IsActive(faults[i], t) => b[i].flipped = b[i - 1].flipped
    BY <2>1, WireStepFacts
  <2> QED BY <1>1, <1>3, <2>2 DEF SameRestore, SameFrozen
<1> HIDE DEF S
<1>4. \A i \in 0 .. n : i \in S
  BY <1>1, <1>2, <1>3, UpTo
<1>5. n \in 0 .. n
  BY <1>1
<1> QED BY <1>1, <1>4, <1>5 DEF S

-----------------------------------------------------------------------------
(* A stuck sensor. *)

(* Behind an active stuck fault that has the last word, every frame        *)
(* carries what the fault remembers, and what it remembered it keeps.      *)
LEMMA StuckChain ==
    ASSUME IsFaultList(faults), t \in Int, NEW b, NEW m, NEW frame, NEW noise \in Int,
           SigChain(b, faults, m, frame, t, noise),
           NEW i \in ActiveOf("stuck", t), HasLastWord(i)
    PROVE  LET last == b[Len(faults)]
           IN  /\ m[i].frozen_omega # None =>
                     last.mem[i].frozen_omega = m[i].frozen_omega
               /\ last.frame # None => last.frame.omega_wheel = last.mem[i].frozen_omega
<1> DEFINE n == Len(faults)
           Kept(k) == m[i].frozen_omega # None => b[k].mem[i].frozen_omega = m[i].frozen_omega
           Before(k) == b[k].mem[i].frozen_omega = m[i].frozen_omega
           Carries(k) == b[k].frame # None =>
                            b[k].frame.omega_wheel = b[k].mem[i].frozen_omega
           S == {k \in 0 .. n : IF k < i THEN Before(k) ELSE Kept(k) /\ Carries(k)}
<1>1. /\ n \in Nat /\ b \in [0 .. n -> SigState(n)] /\ b[0].mem = m
      /\ DOMAIN faults = 1 .. n
  BY DEF IsFaultList, SigChain
<1>2. i \in 1 .. n /\ faults[i].kind = "stuck" /\ IsActive(faults[i], t)
  BY <1>1 DEF ActiveOf
<1>3. 0 \in S
  BY <1>1, <1>2
<1>4. ASSUME NEW k \in 1 .. n, k - 1 \in S PROVE k \in S
  <2>1. b[k] = SigStep(faults, b[k - 1], k, t, noise) /\ b[k - 1] \in SigState(n)
    BY <1>1 DEF SigChain
  <2> DEFINE s == b[k - 1]
             s1 == b[k]
  <2>2. /\ k # i => s1.mem[i].frozen_omega = s.mem[i].frozen_omega
        /\ s.frame = None => s1 = s
        /\ ~IsActive(faults[k], t) => s1.frame = s.frame
        /\ faults[k].kind \notin {"stuck", "noise", "range"} /\ s1.frame # None =>
              s1.frame = s.frame
        /\ k = i => /\ s.mem[i].frozen_omega # None =>
                          s1.mem[i].frozen_omega = s.mem[i].frozen_omega
                    /\ s1.frame # None => s1.frame.omega_wheel = s1.mem[i].frozen_omega
    BY <1>2, <2>1, SigStepFacts
  <2>3. CASE k < i
    <3>1. k - 1 < i /\ k # i /\ Before(k - 1)
      BY <1>2, <1>4, <2>3
    <3> QED BY <2>2, <2>3, <3>1
  <2>4. CASE k = i
    <3>1. k - 1 < i /\ ~(k < i) /\ Before(k - 1)
      BY <1>2, <1>4, <2>4
    <3> QED BY <2>2, <2>4, <3>1
  <2>5. CASE k > i
    <3>1. ~(k - 1 < i) /\ ~(k < i) /\ k # i /\ Kept(k - 1) /\ Carries(k - 1)
      BY <1>2, <1>4, <2>5
    <3>2. faults[k].kind \notin {"noise", "range"}
      BY <1>1, <2>5 DEF HasLastWord
    <3>3. faults[k].kind = "stuck" => ~IsActive(faults[k], t)
      <4>1. faults[k].kind = "stuck" => \/ faults[k].t_end + 1 < faults[i].t_start
                                       \/ faults[i].t_end + 1 < faults[k].t_start
        BY <1>1, <3>1 DEF HasLastWord
      <4>2. /\ faults[k].t_start \in Int /\ faults[k].t_end \in Int
            /\ faults[i].t_start \in Int /\ faults[i].t_end \in Int
        BY <1>1, <1>2 DEF IsFaultList
      <4> QED BY <1>2, <4>1, <4>2 DEF IsActive
    <3>4. s1.frame # None => s1.frame = s.frame
      BY <2>2, <3>2, <3>3
    <3>5. s1.mem[i].frozen_omega = s.mem[i].frozen_omega
      BY <2>2, <3>1
    <3>6. Kept(k) /\ Carries(k)
      BY <3>1, <3>4, <3>5
    <3> QED BY <3>1, <3>6
  <2> QED BY <1>2, <2>3, <2>4, <2>5
<1> HIDE DEF S
<1>5. \A k \in 0 .. n : k \in S
  BY <1>1, <1>3, <1>4, UpTo
<1>6. n \in S /\ ~(n < i)
  BY <1>1, <1>2, <1>5
<1> QED BY <1>6 DEF S

-----------------------------------------------------------------------------
(* Ice patches. *)

(* The patches that were active at the tick before. *)
Was == IF t = 0 THEN {} ELSE ActiveOf("ice", t - 1)

(* The patches in force behind the k-th fault of the list: the first k     *)
(* have seen this tick, the others have not.                               *)
InForce(k) == {i \in ActiveOf("ice", t) : i <= k} \cup {i \in Was : i > k}

(* P are the patches that remember, and the road is theirs. *)
Laid(P, m, surf) ==
    /\ \A i \in Patches : m[i].restore = IF i \in P THEN BASE ELSE None
    /\ \A i \in P : surf = faults[i].target
    /\ P = {} => surf = BASE

(* Patches that are well placed are in force one at a time. *)
LEMMA OneInForce ==
    ASSUME IsFaultList(faults), t \in Int, WellPlaced,
           NEW i \in Patches, NEW j \in InForce(i) \cup InForce(i - 1),
           i \in InForce(i) \cup InForce(i - 1)
    PROVE  i = j
<1>1. DOMAIN faults = 1 .. Len(faults) /\ Len(faults) \in Nat
  BY DEF IsFaultList
<1>2. i \in DOMAIN faults /\ i \in Int
  BY <1>1 DEF Patches
<1>3. j \in Patches /\ j \in DOMAIN faults /\ j \in Int
  BY <1>1 DEF InForce, Was, ActiveOf, Patches
<1>4. /\ faults[i].t_start \in Int /\ faults[i].t_end \in Int
      /\ faults[j].t_start \in Int /\ faults[j].t_end \in Int
  BY <1>2, <1>3 DEF IsFaultList
<1>5. IsActive(faults[i], t) \/ IsActive(faults[i], t - 1)
  BY DEF InForce, Was, ActiveOf
<1>6. j < i => IsActive(faults[j], t)
  BY <1>2, <1>3 DEF InForce, Was, ActiveOf
<1>7. j > i => IsActive(faults[j], t - 1)
  BY <1>2, <1>3 DEF InForce, Was, ActiveOf
<1>8. CASE j < i
  <2>1. Apart(faults[j], faults[i], TRUE) \/ Apart(faults[i], faults[j], FALSE)
    BY <1>3, <1>8 DEF WellPlaced
  <2> QED BY <1>4, <1>5, <1>6, <1>8, <2>1 DEF Apart, IsActive
<1>9. CASE j > i
  <2>1. Apart(faults[i], faults[j], TRUE) \/ Apart(faults[j], faults[i], FALSE)
    BY <1>3, <1>9 DEF WellPlaced
  <2> QED BY <1>4, <1>5, <1>7, <1>9, <2>1 DEF Apart, IsActive
<1> QED BY <1>2, <1>3, <1>8, <1>9

(* One fault of the list: the patches in force change with it, and the     *)
(* road with them.                                                         *)
LEMMA LaidStep ==
    ASSUME IsFaultList(faults), t \in Int, WellPlaced,
           NEW i \in 1 .. Len(faults), NEW e \in EnvState(Len(faults)),
           Laid(InForce(i - 1), e.mem, e.surface)
    PROVE  LET e1 == EnvStep(faults, e, i, t) IN Laid(InForce(i), e1.mem, e1.surface)
<1> DEFINE n == Len(faults)
           e1 == EnvStep(faults, e, i, t)
           P == InForce(i - 1)
           Q == InForce(i)
           Is == ActiveOf("ice", t)
<1>1. DOMAIN faults = 1 .. n /\ n \in Nat
  BY DEF IsFaultList
<1>2. /\ Patches \subseteq 1 .. n /\ Is \subseteq Patches /\ Was \subseteq Patches
  BY <1>1 DEF Patches, Was, ActiveOf
<1>3. /\ P \subseteq Patches /\ Q \subseteq Patches
      /\ \A j \in 1 .. n : j # i => (j \in P <=> j \in Q)
      /\ i \in P <=> i \in Was
      /\ i \in Q <=> i \in Is
  <2>1. P \subseteq Patches /\ Q \subseteq Patches
    BY <1>2 DEF InForce
  <2>2. \A j : j \in P <=> (j \in Is /\ j <= i - 1) \/ (j \in Was /\ j > i - 1)
    BY DEF InForce
  <2>3. \A j : j \in Q <=> (j \in Is /\ j <= i) \/ (j \in Was /\ j > i)
    BY DEF InForce
  <2> HIDE DEF P, Q, Is
  <2>4. ASSUME NEW j \in 1 .. n, j # i PROVE j \in P <=> j \in Q
    <3>1. (j <= i - 1 <=> j <= i) /\ (j > i - 1 <=> j > i)
      BY <2>4
    <3> QED BY <2>2, <2>3, <3>1
  <2>5. ~(i <= i - 1) /\ i > i - 1 /\ i <= i /\ ~(i > i)
    BY <1>1
  <2> QED BY <2>1, <2>2, <2>3, <2>4, <2>5
<1>4. /\ \A j \in 1 .. n : j # i => e1.mem[j].restore = e.mem[j].restore
      /\ faults[i].kind # "ice" => e1 = e
      /\ faults[i].kind = "ice" /\ IsActive(faults[i], t) =>
            /\ e1.surface = faults[i].target
            /\ e1.mem[i].restore = IF e.mem[i].restore = None THEN e.surface
                                   ELSE e.mem[i].restore
      /\ faults[i].kind = "ice" /\ ~IsActive(faults[i], t) =>
            /\ e.mem[i].restore = None => e1 = e
            /\ e.mem[i].restore # None /\ e.surface # e.mem[i].restore =>
                  e1.surface = e.mem[i].restore /\ e1.mem[i].restore = None
  BY EnvStepFacts
<1>5. /\ \A j \in Patches : e.mem[j].restore = IF j \in P THEN BASE ELSE None
      /\ \A j \in P : e.surface = faults[j].target
      /\ P = {} => e.surface = BASE
  BY DEF Laid
<1>6. BASE # None
  BY InjectorAssumption DEF BASE, SURFACES
<1>7. i \in Patches <=> faults[i].kind = "ice"
  BY <1>1 DEF Patches
<1>8. i \in Is <=> faults[i].kind = "ice" /\ IsActive(faults[i], t)
  BY <1>1 DEF ActiveOf
<1>9. i \in P \cup Q => P \subseteq {i} /\ Q \subseteq {i}
  BY <1>3, OneInForce
<1> HIDE DEF e1, P, Q, Is
<1>10. CASE i \notin P /\ i \notin Q
  <2>1. e1 = e
    BY <1>3, <1>4, <1>5, <1>7, <1>8, <1>10
  <2>2. P = Q
    <3>1. \A j : j \in P <=> j \in Q
      BY <1>2, <1>3, <1>10
    <3> QED BY <3>1
  <2> QED BY <1>5, <2>1, <2>2 DEF Laid, P, Q, e1
<1>11. CASE i \in Q
  <2>1. Q = {i} /\ e1.surface = faults[i].target
    BY <1>3, <1>4, <1>8, <1>9, <1>11
  <2>2. e1.mem[i].restore = BASE
    <3>1. CASE i \in P
      BY <1>3, <1>4, <1>5, <1>6, <1>8, <1>11, <3>1
    <3>2. CASE i \notin P
      <4>1. P = {}
        BY <1>9, <1>11, <3>2
      <4> QED BY <1>3, <1>4, <1>5, <1>6, <1>8, <1>11, <3>2, <4>1
    <3> QED BY <3>1, <3>2
  <2>3. ASSUME NEW j \in Patches, j # i PROVE e1.mem[j].restore = None
    <3>1. j \in 1 .. n /\ j \notin P
      BY <1>2, <1>9, <1>11, <2>3
    <3> QED BY <1>4, <1>5, <2>3, <3>1
  <2> QED BY <2>1, <2>2, <2>3 DEF Laid, Q, e1
<1>12. CASE i \in P /\ i \notin Q
  <2>1. P = {i} /\ Q = {}
    BY <1>9, <1>12
  <2>2. i \in Patches /\ faults[i].target # BASE
    BY <1>3, <1>12 DEF WellPlaced
  <2>3. e.mem[i].restore = BASE /\ e.surface = faults[i].target
    BY <1>5, <2>1, <2>2
  <2>4. e1.surface = BASE /\ e1.mem[i].restore = None
    BY <1>3, <1>4, <1>6, <1>7, <1>8, <1>12, <2>2, <2>3
  <2>5. ASSUME NEW j \in Patches, j # i PROVE e1.mem[j].restore = None
    <3>1. j \in 1 .. n /\ j \notin P
      BY <1>2, <2>1, <2>5
    <3> QED BY <1>4, <1>5, <2>5, <3>1
  <2> QED BY <2>1, <2>4, <2>5 DEF Laid, Q, e1
<1> QED BY <1>10, <1>11, <1>12

(* A whole tick of apply_environment. *)
LEMMA LaidChain ==
    ASSUME IsFaultList(faults), t \in Int, WellPlaced, NEW b, NEW m, NEW surf,
           EnvChain(b, faults, m, surf, t), Laid(Was, m, surf)
    PROVE  LET last == b[Len(faults)]
           IN  Laid(ActiveOf("ice", t), last.mem, last.surface)
<1> DEFINE n == Len(faults)
           S == {k \in 0 .. n : Laid(InForce(k), b[k].mem, b[k].surface)}
<1>1. /\ n \in Nat /\ b \in [0 .. n -> EnvState(n)] /\ b[0].mem = m /\ b[0].surface = surf
      /\ DOMAIN faults = 1 .. n
  BY DEF IsFaultList, EnvChain
<1>2. InForce(0) = Was /\ InForce(n) = ActiveOf("ice", t)
  BY <1>1 DEF InForce, Was, ActiveOf
<1>3. 0 \in S
  BY <1>1, <1>2
<1>4. ASSUME NEW k \in 1 .. n, k - 1 \in S PROVE k \in S
  <2>1. b[k] = EnvStep(faults, b[k - 1], k, t) /\ b[k - 1] \in EnvState(n)
    BY <1>1 DEF EnvChain
  <2>2. Laid(InForce(k - 1), b[k - 1].mem, b[k - 1].surface)
    BY <1>4
  <2>3. Laid(InForce(k), b[k].mem, b[k].surface)
    BY <2>1, <2>2, LaidStep
  <2> QED BY <2>3
<1> HIDE DEF S
<1>5. \A k \in 0 .. n : k \in S
  BY <1>1, <1>3, <1>4, UpTo
<1>6. n \in S
  BY <1>1, <1>5
<1> QED BY <1>2, <1>6 DEF S

-----------------------------------------------------------------------------
(* One tick. *)

InjectorType ==
    /\ IsFaultList(faults)
    /\ mem \in Memories(Len(faults))
    /\ surface \in SURFACES
    /\ t \in Nat

(* The stuck sensors of the tick before. *)
WasStuck == IF t = 0 THEN {} ELSE ActiveOf("stuck", t - 1)

(* What is held is what a stuck sensor remembers that has the last word,   *)
(* and nothing is held when none was stuck.                                *)
Holding ==
    /\ held # None => WasStuck # {}
    /\ held # None =>
          \A i \in WasStuck : HasLastWord(i) => mem[i].frozen_omega = held

(* The invariant: between ticks the road and the memories of the patches   *)
(* are those of the patches that were active, and held is a memory.        *)
InjectorInv ==
    /\ InjectorType
    /\ WellPlaced => Laid(Was, mem, surface)
    /\ Holding
    /\ HeldWhileStuck
    /\ NoTraceOutside

Quiet == \A i \in DOMAIN faults : ~IsActive(faults[i], t)

(* A tick goes through the three chains, the third only with a frame. *)
LEMMA TickChains ==
    ASSUME InjectorType, NEW w \in Omegas, NEW noise \in Noise, Tick(w, noise)
    PROVE  \E e, s, x :
              LET n == Len(faults)
              IN  /\ EnvChain(e, faults, mem, surface, t)
                  /\ SigChain(s, faults, e[n].mem, Frame(200, w, 0), t, noise)
                  /\ WireChain(x, faults, s[n].mem, t)
                  /\ surface' = e[n].surface
                  /\ sent' = s[n].frame
                  /\ mem' = IF s[n].frame # None THEN x[n].mem ELSE s[n].mem
                  /\ flipped' = IF s[n].frame # None THEN x[n].flipped ELSE {}
                  /\ held' = IF ActiveOf("stuck", t) = {} THEN None
                             ELSE IF s[n].frame # None /\ held = None
                             THEN s[n].frame.omega_wheel
                             ELSE held
<1> DEFINE n == Len(faults)
           frame == Frame(200, w, 0)
           env  == ApplyEnvironment(faults, mem, surface, t)
           sig  == FilterSensor(faults, env.mem, frame, t, noise)
           wire == FilterWire(faults, sig.mem, t)
<1>1. /\ w \in Int /\ noise \in Int /\ frame \in Sample
      /\ IsFaultList(faults) /\ mem \in Memories(n) /\ surface \in SURFACES /\ n \in Nat
  BY InjectorAssumption DEF InjectorType, Frame, Sample, IsFaultList
<1>2. PICK e : EnvChain(e, faults, mem, surface, t) /\ env = e[n]
  BY <1>1, EnvironmentIsChain
<1>3. e[n].mem \in Memories(n)
  BY <1>1, <1>2 DEF EnvChain, EnvState
<1> HIDE DEF frame, env
<1>4. PICK s : SigChain(s, faults, e[n].mem, frame, t, noise) /\ sig = s[n]
  BY <1>1, <1>2, <1>3, SensorIsChain
<1>5. s[n].mem \in Memories(n)
  BY <1>1, <1>4 DEF SigChain, SigState
<1> HIDE DEF sig
<1>6. PICK x : WireChain(x, faults, s[n].mem, t) /\ wire = x[n]
  BY <1>1, <1>4, <1>5, WireIsChain
<1> HIDE DEF wire
<1>7. /\ surface' = env.surface
      /\ sent' = sig.frame
      /\ mem' = IF sig.frame # None THEN wire.mem ELSE sig.mem
      /\ flipped' = IF sig.frame # None THEN wire.flipped ELSE {}
      /\ held' = IF ActiveOf("stuck", t) = {} THEN None
                 ELSE IF sig.frame # None /\ held = None THEN sig.frame.omega_wheel
                 ELSE held
  BY DEF Tick, frame, env, sig, wire
<1> QED BY <1>2, <1>4, <1>6, <1>7 DEF frame

(* A tick keeps the invariant. *)
LEMMA TickKeeps ==
    ASSUME InjectorInv, NEW w \in Omegas, NEW noise \in Noise, Tick(w, noise)
    PROVE  InjectorInv'
<1> DEFINE n == Len(faults)
           frame == Frame(200, w, 0)
<1>1. /\ InjectorType /\ IsFaultList(faults) /\ n \in Nat /\ DOMAIN faults = 1 .. n
      /\ t \in Nat /\ t \in Int /\ noise \in Int
  BY InjectorAssumption DEF InjectorInv, InjectorType, IsFaultList
<1>2. /\ faults' = faults /\ t' = t + 1 /\ raw' = frame
      /\ t' \in Nat /\ t' # 0 /\ t' > 0 /\ t' - 1 = t
  BY <1>1 DEF Tick
<1>3. PICK e, s, x :
         /\ EnvChain(e, faults, mem, surface, t)
         /\ SigChain(s, faults, e[n].mem, frame, t, noise)
         /\ WireChain(x, faults, s[n].mem, t)
         /\ surface' = e[n].surface
         /\ sent' = s[n].frame
         /\ mem' = IF s[n].frame # None THEN x[n].mem ELSE s[n].mem
         /\ flipped' = IF s[n].frame # None THEN x[n].flipped ELSE {}
         /\ held' = IF ActiveOf("stuck", t) = {} THEN None
                    ELSE IF s[n].frame # None /\ held = None
                    THEN s[n].frame.omega_wheel
                    ELSE held
  BY <1>1, TickChains
<1> HIDE DEF frame
<1>4. e[n] \in EnvState(n) /\ SameFrozen(e[n].mem, mem)
  BY <1>1, <1>3, EnvKeeps
<1>5. /\ s[n] \in SigState(n) /\ SameRestore(s[n].mem, e[n].mem)
      /\ Quiet => s[n].frame = frame
  BY <1>1, <1>3, SigKeeps DEF Quiet
<1>6. /\ x[n] \in WireState(n)
      /\ SameRestore(x[n].mem, s[n].mem) /\ SameFrozen(x[n].mem, s[n].mem)
      /\ Quiet => x[n].flipped = {}
  BY <1>1, <1>3, WireKeeps DEF Quiet
<1>7. /\ \A j \in 1 .. n : mem'[j].restore = e[n].mem[j].restore
      /\ \A j \in 1 .. n : mem'[j].frozen_omega = s[n].mem[j].frozen_omega
      /\ mem' \in Memories(n)
  BY <1>3, <1>5, <1>6 DEF SameRestore, SameFrozen, SigState, WireState
<1>8. /\ Was' = ActiveOf("ice", t) /\ WasStuck' = ActiveOf("stuck", t)
      /\ ActiveOf("stuck", Now)' = ActiveOf("stuck", t)
  BY <1>2 DEF Was, WasStuck, ActiveOf, Now
<1>9. InjectorType'
  BY <1>1, <1>2, <1>3, <1>4, <1>7 DEF InjectorType, EnvState
<1>10. WellPlaced' => Laid(Was, mem, surface)'
  <2>1. SUFFICES ASSUME WellPlaced' PROVE Laid(Was, mem, surface)'
    OBVIOUS
  <2>2. WellPlaced /\ Patches' = Patches
    BY <1>2, <2>1 DEF WellPlaced, Patches
  <2>3. Laid(ActiveOf("ice", t), e[n].mem, e[n].surface)
    BY <1>1, <1>3, <2>2, LaidChain DEF InjectorInv
  <2>4. Patches \subseteq 1 .. n
    BY <1>1 DEF Patches
  <2> QED BY <1>2, <1>3, <1>7, <1>8, <2>2, <2>3, <2>4 DEF Laid
<1>11. ASSUME NEW i \in ActiveOf("stuck", t), HasLastWord(i)
       PROVE  /\ held' # None => mem'[i].frozen_omega = held'
              /\ sent' # None => sent'.omega_wheel = held'
  <2>1. i \in 1 .. n /\ faults[i].kind = "stuck" /\ IsActive(faults[i], t)
    BY <1>1 DEF ActiveOf
  <2>2. /\ e[n].mem[i].frozen_omega # None =>
              s[n].mem[i].frozen_omega = e[n].mem[i].frozen_omega
        /\ s[n].frame # None => s[n].frame.omega_wheel = s[n].mem[i].frozen_omega
    BY <1>1, <1>3, <1>11, StuckChain
  <2>3. /\ mem'[i].frozen_omega = s[n].mem[i].frozen_omega
        /\ e[n].mem[i].frozen_omega = mem[i].frozen_omega
    BY <1>4, <1>7, <2>1 DEF SameFrozen
  <2>4. CASE held = None
    BY <1>3, <1>11, <2>2, <2>3, <2>4
  <2>5. CASE held # None
    <3>1. held' = held
      BY <1>3, <1>11, <2>5
    <3>2. PICK j \in WasStuck : TRUE
      BY <2>5 DEF InjectorInv, Holding
    <3>3. /\ j \in DOMAIN faults /\ faults[j].kind = "stuck"
          /\ IsActive(faults[j], t - 1)
      BY <3>2 DEF WasStuck, ActiveOf
    <3>4. j = i
      <4>1. /\ faults[j].t_start \in Int /\ faults[j].t_end \in Int
            /\ faults[i].t_start \in Int /\ faults[i].t_end \in Int
        BY <1>1, <2>1, <3>3 DEF IsFaultList
      <4>2. j # i => \/ faults[j].t_end + 1 < faults[i].t_start
                     \/ faults[i].t_end + 1 < faults[j].t_start
        BY <1>11, <3>3 DEF HasLastWord
      <4>3. faults[i].t_start <= t /\ t <= faults[i].t_end
        BY <2>1 DEF IsActive
      <4>4. faults[j].t_start <= t - 1 /\ t - 1 <= faults[j].t_end
        BY <3>3 DEF IsActive
      <4>5. /\ ~(faults[j].t_end + 1 < faults[i].t_start)
            /\ ~(faults[i].t_end + 1 < faults[j].t_start)
        <5>1. t \in Int
          BY <1>1
        <5> QED BY <4>1, <4>3, <4>4, <5>1
      <4> QED BY <4>2, <4>5
    <3>5. mem[i].frozen_omega = held
      BY <1>11, <2>5, <3>2, <3>4 DEF InjectorInv, Holding
    <3> QED BY <1>3, <2>2, <2>3, <2>5, <3>1, <3>5
  <2> QED BY <2>4, <2>5
<1>12. \A i : HasLastWord(i)' <=> HasLastWord(i)
  BY <1>2 DEF HasLastWord
<1>13. Holding'
  <2>1. held' # None => WasStuck' # {}
    BY <1>3, <1>8
  <2> QED BY <1>8, <1>11, <1>12, <2>1 DEF Holding
<1>14. HeldWhileStuck'
  BY <1>8, <1>11, <1>12 DEF HeldWhileStuck
<1>15. NoTraceOutside'
  <2>1. SUFFICES ASSUME \A i \in DOMAIN faults :
                           t < faults[i].t_start \/ faults[i].t_end < t
                 PROVE  sent' = raw' /\ flipped' = {}
    BY <1>2 DEF NoTraceOutside, Now
  <2>2. Quiet
    <3>1. \A i \in DOMAIN faults : faults[i].t_start \in Int /\ faults[i].t_end \in Int
      BY <1>1 DEF IsFaultList
    <3> QED BY <1>1, <2>1, <3>1 DEF Quiet, IsActive
  <2> QED BY <1>2, <1>3, <1>5, <1>6, <2>2
<1> QED BY <1>9, <1>10, <1>13, <1>14, <1>15 DEF InjectorInv

LEMMA InjectorStarts == InjectorInit => InjectorInv
<1> SUFFICES ASSUME InjectorInit PROVE InjectorInv
  OBVIOUS
<1>1. /\ IsFaultList(faults) /\ surface = BASE /\ t = 0 /\ held = None
      /\ mem = FreshMemory(faults)
  BY InjectorAssumption DEF InjectorInit
<1>2. /\ mem \in Memories(Len(faults))
      /\ \A i \in DOMAIN faults : mem[i].restore = None
  BY <1>1 DEF FreshMemory, Memories, FaultMemory, IsFaultList
<1>3. InjectorType
  BY <1>1, <1>2 DEF InjectorType, BASE, SURFACES
<1>4. Was = {} /\ Laid(Was, mem, surface)
  BY <1>1, <1>2 DEF Was, Laid, Patches
<1> QED BY <1>1, <1>3, <1>4 DEF InjectorInv, Holding, HeldWhileStuck, NoTraceOutside

(* The invariant holds of every scenario, for every set of fault lists,    *)
(* speeds and disturbances.                                                *)
THEOREM InjectorInvariance == InjectorSpec => []InjectorInv
<1>1. InjectorInv /\ [InjectorNext]_injectorVars => InjectorInv'
  <2> SUFFICES ASSUME InjectorInv, [InjectorNext]_injectorVars PROVE InjectorInv'
    OBVIOUS
  <2>1. ASSUME NEW w \in Omegas, NEW noise \in Noise, Tick(w, noise) PROVE InjectorInv'
    BY <2>1, TickKeeps
  <2>2. CASE UNCHANGED injectorVars
    BY <2>2 DEF injectorVars, InjectorInv, InjectorType, Laid, Was, WasStuck, Holding,
                HeldWhileStuck, NoTraceOutside, WellPlaced, Patches, HasLastWord,
                ActiveOf, Now
  <2> QED BY <2>1, <2>2 DEF InjectorNext, Done
<1> QED BY <1>1, InjectorStarts, PTL DEF InjectorSpec

(* IcePatchFault: patches that are well placed leave the tire on the       *)
(* scenario's surface whenever none is active and on their own while one   *)
(* is, for every number of patches, anywhere in the list and whatever the  *)
(* other faults are.                                                       *)
THEOREM PatchesLeaveNoTrace == InjectorSpec => []PatchesRestore
<1>1. InjectorInv => PatchesRestore
  <2> SUFFICES ASSUME InjectorInv, t > 0, WellPlaced
               PROVE  /\ ActiveOf("ice", Now) = {} => surface = BASE
                      /\ \A i \in ActiveOf("ice", Now) : surface = faults[i].target
    BY DEF PatchesRestore
  <2>1. Was = ActiveOf("ice", Now)
    BY DEF Was, Now, InjectorInv, InjectorType
  <2> QED BY <2>1 DEF InjectorInv, Laid
<1> QED BY <1>1, InjectorInvariance, PTL

(* StuckSensorFault: a stuck sensor that has the last word repeats one     *)
(* omega for its whole window, whatever losses, CRC faults and faults      *)
(* before it the list holds.                                               *)
THEOREM StuckMeansHeld == InjectorSpec => []HeldWhileStuck
<1>1. InjectorInv => HeldWhileStuck
  BY DEF InjectorInv
<1> QED BY <1>1, InjectorInvariance, PTL

(* A tick in no window sends the plant's frame as it was, for every list:  *)
(* what a fault remembers never reaches a later frame.                     *)
THEOREM WindowsEnd == InjectorSpec => []NoTraceOutside
<1>1. InjectorInv => NoTraceOutside
  BY DEF InjectorInv
<1> QED BY <1>1, InjectorInvariance, PTL
=============================================================================
