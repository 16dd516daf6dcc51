------------------------- MODULE FrameDecoder_proofs -------------------------
(***************************************************************************)
(* Proofs about the plant's frame decoder, for every payload limit,        *)
(* checksum and byte stream: what feed and drain make of a stream does not *)
(* depend on how it is cut into chunks, and decoding undoes encode_frame.  *)
(* drain loops over the buffer, so both are inductions over data. They are *)
(* made by hand, from the least number in a set: first a function defined  *)
(* by recursion exists, then DrainAll satisfies its defining equation, then*)
(* a set that is closed under the passes of a drain holds every decoder.   *)
(* The parameters of the lemmas are sets and functions, never operators, so *)
(* that the provers can instantiate them.                                  *)
(***************************************************************************)
EXTENDS FrameDecoder, TLAPS, WellFoundedInduction

(* Every set of numbers that is not empty has a least element. *)
LEMMA NatLeast ==
    ASSUME NEW T \in SUBSET Nat, T # {}
    PROVE  \E x \in T : \A y \in T : x <= y
<1> DEFINE R == OpToRel(<, Nat)
<1>1. IsWellFoundedOn(R, Nat)
  BY NatLessThanWellFounded, Zenon
<1>2. \A x, y \in Nat : x < y => <<x, y>> \in R
  BY DEF OpToRel
<1> HIDE DEF R
<1>3. PICK x \in T : \A y \in T : ~(<<y, x>> \in R)
  BY <1>1, WFMin
<1>4. ASSUME NEW y \in T PROVE x <= y
  <2>1. x \in Nat /\ y \in Nat
    OBVIOUS
  <2>2. ~(y < x)
    BY <1>2, <1>3, <2>1
  <2> QED BY <2>1, <2>2
<1> QED BY <1>4

(* A recursion over D: it ends in stop with base, or goes on with next,    *)
(* which is smaller, and combines.                                         *)
Recursive(D, V, stop, size, next, base, comb) ==
    /\ stop \in SUBSET D
    /\ size \in [D -> Nat] /\ next \in [D -> D]
    /\ base \in [D -> V] /\ comb \in [D \X V -> V]
    /\ \A d \in D \ stop : size[next[d]] < size[d]

(* f satisfies the equation of such a recursion. *)
Solves(f, D, stop, next, base, comb) ==
    \A d \in D : f[d] = IF d \in stop THEN base[d] ELSE comb[<<d, f[next[d]]>>]

(* Such a recursion has a solution: the functions that satisfy the equation*)
(* up to a size are extended one size at a time.                           *)
LEMMA RecursionExists ==
    ASSUME NEW D, NEW V, NEW stop, NEW size, NEW next, NEW base, NEW comb,
           Recursive(D, V, stop, size, next, base, comb)
    PROVE  \E f \in [D -> V] : Solves(f, D, stop, next, base, comb)
<1> DEFINE Body(d, f) == IF d \in stop THEN base[d] ELSE comb[<<d, f[next[d]]>>]
           Fit(n, f) == f \in [D -> V] /\ \A d \in D : size[d] < n => f[d] = Body(d, f)
<1> USE DEF Recursive
<1>1. ASSUME NEW d \in D, NEW f \in [D -> V] PROVE Body(d, f) \in V
  OBVIOUS
<1>2. ASSUME NEW d \in D, NEW f, NEW g, d \in stop \/ f[next[d]] = g[next[d]]
      PROVE  Body(d, f) = Body(d, g)
  BY <1>2
<1> HIDE DEF Body
<1>3. \A n \in Nat : \E f : Fit(n, f)
  <2> DEFINE T == {n \in Nat : ~\E f : Fit(n, f)}
  <2> SUFFICES ASSUME T # {} PROVE FALSE
    OBVIOUS
  <2>1. PICK n \in T : \A m \in T : n <= m
    BY NatLeast
  <2>2. Fit(0, base)
    OBVIOUS
  <2>3. n \in Nat /\ n # 0
    BY <2>1, <2>2
  <2>4. PICK f : Fit(n - 1, f)
    BY <2>1, <2>3
  <2> DEFINE g == [d \in D |-> Body(d, f)]
  <2>5. g \in [D -> V]
    BY <1>1, <2>4
  <2>6. ASSUME NEW d \in D, size[d] < n PROVE g[d] = Body(d, g)
    <3>1. CASE d \in stop
      BY <3>1, <1>2
    <3>2. CASE d \notin stop
      <4>1. next[d] \in D /\ size[next[d]] < n - 1
        BY <3>2, <2>6, <2>3
      <4>2. g[next[d]] = f[next[d]]
        BY <4>1, <2>4
      <4> QED BY <4>2, <1>2
    <3> QED BY <3>1, <3>2
  <2>7. Fit(n, g)
    BY <2>5, <2>6
  <2> QED BY <2>7, <2>1
<1>4. ASSUME NEW n \in Nat, NEW m \in Nat, NEW f, NEW g, Fit(n, f), Fit(m, g),
             NEW d \in D, size[d] < n, size[d] < m
      PROVE  f[d] = g[d]
  <2> DEFINE B == {x \in D : size[x] < n /\ size[x] < m /\ f[x] # g[x]}
             T == {size[x] : x \in B}
  <2> SUFFICES ASSUME B # {} PROVE FALSE
    BY <1>4
  <2>1. T \in SUBSET Nat /\ T # {}
    OBVIOUS
  <2> HIDE DEF T
  <2>2. PICK k \in T : \A y \in T : k <= y
    BY <2>1, NatLeast
  <2>3. PICK x \in B : size[x] = k
    BY <2>2 DEF T
  <2>4. \A y \in B : size[x] <= size[y]
    BY <2>2, <2>3 DEF T
  <2>5. f[x] = Body(x, f) /\ g[x] = Body(x, g)
    BY <1>4, <2>3
  <2>6. CASE x \in stop
    BY <2>6, <1>2, <2>5, <2>3
  <2>7. CASE x \notin stop
    <3>1. next[x] \in D /\ size[next[x]] < size[x] /\ size[x] \in Nat /\ size[next[x]] \in Nat
      BY <2>7, <2>3
    <3>2. next[x] \notin B
      BY <3>1, <2>4
    <3>3. f[next[x]] = g[next[x]]
      BY <3>1, <3>2, <2>3
    <3> QED BY <3>3, <1>2, <2>5, <2>3
  <2> QED BY <2>6, <2>7
<1> DEFINE Upto(n) == CHOOSE f : Fit(n, f)
           h == [d \in D |-> Upto(size[d] + 1)[d]]
<1>5. \A n \in Nat : Fit(n, Upto(n))
  BY <1>3
<1> HIDE DEF Upto
<1>6. h \in [D -> V]
  <2> SUFFICES ASSUME NEW d \in D PROVE Upto(size[d] + 1)[d] \in V
    OBVIOUS
  <2>1. size[d] + 1 \in Nat
    OBVIOUS
  <2>2. Upto(size[d] + 1) \in [D -> V]
    BY <2>1, <1>5
  <2> QED BY <2>2
<1>7. ASSUME NEW d \in D PROVE h[d] = Body(d, h)
  <2> DEFINE u == Upto(size[d] + 1)
  <2>1. size[d] \in Nat /\ size[d] + 1 \in Nat /\ size[d] < size[d] + 1
    OBVIOUS
  <2>2. Fit(size[d] + 1, u)
    BY <2>1, <1>5
  <2>3. h[d] = Body(d, u)
    BY <2>1, <2>2
  <2>4. CASE d \in stop
    BY <2>4, <2>3, <1>2
  <2>5. CASE d \notin stop
    <3>1. next[d] \in D /\ size[next[d]] \in Nat /\ size[next[d]] + 1 \in Nat
          /\ size[next[d]] < size[next[d]] + 1 /\ size[next[d]] < size[d] + 1
      BY <2>5, <2>1
    <3>2. Fit(size[next[d]] + 1, Upto(size[next[d]] + 1))
      BY <3>1, <1>5
    <3> HIDE DEF Fit
    <3>3. Upto(size[next[d]] + 1)[next[d]] = u[next[d]]
      BY <3>1, <3>2, <2>1, <2>2, <1>4
    <3>4. h[next[d]] = u[next[d]]
      BY <3>3, <3>1
    <3> QED BY <3>4, <2>3, <1>2
  <2> QED BY <2>4, <2>5
<1> QED BY <1>6, <1>7 DEF Body, Solves

-----------------------------------------------------------------------------
(* The scan for the magic. *)

(* Two byte sequences with the same length and bytes are the same. *)
LEMMA SameBytes ==
    ASSUME NEW b \in Seq(Byte), NEW c \in Seq(Byte), Len(b) = Len(c),
           \A i \in 1 .. Len(b) : b[i] = c[i]
    PROVE  b = c
  OBVIOUS

(* Dropping a prefix leaves a sequence of bytes, shorter by the prefix. *)
LEMMA DropFacts ==
    ASSUME NEW b \in Seq(Byte), NEW n \in 0 .. Len(b)
    PROVE  /\ Drop(b, n) \in Seq(Byte)
           /\ Len(Drop(b, n)) = Len(b) - n
           /\ \A i \in 1 .. Len(b) - n : Drop(b, n)[i] = b[i + n]
  BY DEF Drop

(* What is left of a stream that grew is what was left, and what it grew by. *)
LEMMA RestGrows ==
    ASSUME NEW s \in Seq(Byte), NEW seg \in Seq(Byte), NEW r \in Nat, r <= Len(s)
    PROVE  SubSeq(s \o seg, r + 1, Len(s \o seg)) = SubSeq(s, r + 1, Len(s)) \o seg
<1> DEFINE whole == s \o seg
           rest == SubSeq(s, r + 1, Len(s))
           lhs == SubSeq(whole, r + 1, Len(whole))
           rhs == rest \o seg
<1>1. /\ whole \in Seq(Byte) /\ Len(whole) = Len(s) + Len(seg)
      /\ \A i \in 1 .. Len(s) + Len(seg) :
            whole[i] = IF i <= Len(s) THEN s[i] ELSE seg[i - Len(s)]
      /\ Len(s) \in Nat /\ Len(seg) \in Nat
  OBVIOUS
<1>2. /\ rest \in Seq(Byte) /\ Len(rest) = Len(s) - r
      /\ \A i \in 1 .. Len(s) - r : rest[i] = s[i + r]
  OBVIOUS
<1> HIDE DEF whole, rest
<1>3. /\ lhs \in Seq(Byte) /\ Len(lhs) = Len(s) + Len(seg) - r
      /\ \A i \in 1 .. Len(s) + Len(seg) - r : lhs[i] = whole[i + r]
  BY <1>1
<1>4. /\ rhs \in Seq(Byte) /\ Len(rhs) = Len(rest) + Len(seg)
      /\ \A i \in 1 .. Len(rest) + Len(seg) :
            rhs[i] = IF i <= Len(rest) THEN rest[i] ELSE seg[i - Len(rest)]
  <2>1. rest \in Seq(Byte)
    BY <1>2
  <2> QED BY ONLY <2>1, seg \in Seq(Byte)
<1> HIDE DEF lhs, rhs
<1>5. ASSUME NEW i \in 1 .. Len(s) + Len(seg) - r PROVE lhs[i] = rhs[i]
  <2>1. i \in Nat /\ i >= 1 /\ lhs[i] = whole[i + r] /\ i + r \in 1 .. Len(s) + Len(seg)
    BY <1>1, <1>3
  <2>2. rhs[i] = IF i <= Len(s) - r THEN rest[i] ELSE seg[i - (Len(s) - r)]
    BY <1>1, <1>2, <1>4
  <2>3. CASE i <= Len(s) - r
    BY <1>1, <1>2, <2>1, <2>2, <2>3
  <2>4. CASE ~(i <= Len(s) - r)
    <3>1. i + r - Len(s) = i - (Len(s) - r) /\ ~(i + r <= Len(s))
      BY <1>1, <2>1, <2>4
    <3>2. whole[i + r] = seg[i + r - Len(s)]
      BY <1>1, <2>1, <3>1
    <3> QED BY <2>1, <2>2, <2>4, <3>1, <3>2
  <2> QED BY <2>3, <2>4
<1>6. Len(lhs) = Len(rhs)
  BY <1>1, <1>2, <1>3, <1>4
<1>7. lhs = rhs
  BY <1>3, <1>4, <1>5, <1>6, SameBytes
<1> QED BY <1>7 DEF lhs, rhs, whole, rest

(* Where the scan of b ends. *)
IsEnd(b, k) ==
    /\ k \in Nat /\ k >= 1
    /\ k <= Len(b) \/ (k = 1 /\ Len(b) = 0)
    /\ \A j \in 1 .. k - 1 : ~MagicAt(b, j)
    /\ k >= Len(b) \/ MagicAt(b, k)

(* That is where ScanEnd says, and it is at a magic or at the last byte. *)
LEMMA ScanEndIsEnd ==
    ASSUME NEW b \in Seq(Byte)
    PROVE  IsEnd(b, ScanEnd(b)) /\ (HasMagic(b) <=> ScanEnd(b) < Len(b))
<1>1. Len(b) \in Nat
  OBVIOUS
<1>2. CASE ~HasMagic(b)
  <2>1. ScanEnd(b) = IF Len(b) > 0 THEN Len(b) ELSE 1
    BY <1>2 DEF ScanEnd
  <2>2. \A j \in 1 .. Len(b) - 1 : ~MagicAt(b, j)
    BY <1>2 DEF HasMagic
  <2> QED BY <1>1, <1>2, <2>1, <2>2 DEF IsEnd
<1>3. CASE HasMagic(b)
  <2> DEFINE P(i) == MagicAt(b, i) /\ \A j \in 1 .. i - 1 : ~MagicAt(b, j)
             S == {i \in 1 .. Len(b) - 1 : MagicAt(b, i)}
  <2>1. S # {} /\ S \in SUBSET Nat
    BY <1>1, <1>3 DEF HasMagic
  <2>2. PICK i \in S : \A j \in S : i <= j
    BY <2>1, NatLeast
  <2>3. P(i) /\ i \in 1 .. Len(b) - 1
    BY <1>1, <2>2
  <2>4. ScanEnd(b) = CHOOSE k \in 1 .. Len(b) - 1 : P(k)
    BY <1>3 DEF ScanEnd
  <2>5. ScanEnd(b) \in 1 .. Len(b) - 1 /\ P(ScanEnd(b))
    BY <2>3, <2>4
  <2> QED BY <1>1, <1>3, <2>5 DEF IsEnd
<1> QED BY <1>2, <1>3

(* The scan can end in one place only. *)
LEMMA EndIsUnique ==
    ASSUME NEW b \in Seq(Byte), NEW k, NEW m, IsEnd(b, k), IsEnd(b, m)
    PROVE  k = m
<1>1. Len(b) \in Nat /\ k \in Nat /\ m \in Nat
  BY DEF IsEnd
<1>2. ASSUME NEW x \in Nat, NEW y \in Nat, x < y, IsEnd(b, x), IsEnd(b, y)
      PROVE  FALSE
  <2>1. x < Len(b) /\ x \in 1 .. y - 1
    BY <1>1, <1>2 DEF IsEnd
  <2> QED BY <1>1, <1>2, <2>1 DEF IsEnd
<1> QED BY <1>1, <1>2

(* What the scan drops and what it leaves. *)
LEMMA AlignedFacts ==
    ASSUME NEW b \in Seq(Byte)
    PROVE  /\ Skipped(b) \in 0 .. Len(b)
           /\ Aligned(b) \in Seq(Byte)
           /\ Len(Aligned(b)) = Len(b) - Skipped(b)
           /\ \A i \in 1 .. Len(Aligned(b)) : Aligned(b)[i] = b[i + Skipped(b)]
           /\ Len(b) > 0 => Len(Aligned(b)) > 0
           /\ ~HasMagic(b) => Len(Aligned(b)) <= 1
           /\ HasMagic(b) => Len(Aligned(b)) >= 2 /\ MagicAt(Aligned(b), 1)
<1> DEFINE k == ScanEnd(b)
<1>1. Len(b) \in Nat
  OBVIOUS
<1>2. IsEnd(b, k) /\ (HasMagic(b) <=> k < Len(b))
  BY ScanEndIsEnd
<1>3. Skipped(b) = k - 1
  BY DEF Skipped
<1> HIDE DEF k
<1>4. Skipped(b) \in 0 .. Len(b) /\ (Len(b) > 0 => Skipped(b) < Len(b))
  BY <1>1, <1>2, <1>3 DEF IsEnd
<1>5. /\ Aligned(b) \in Seq(Byte)
      /\ Len(Aligned(b)) = Len(b) - Skipped(b)
      /\ \A i \in 1 .. Len(b) - Skipped(b) : Aligned(b)[i] = b[i + Skipped(b)]
  BY <1>4, DropFacts DEF Aligned
<1>6. ~HasMagic(b) => Len(Aligned(b)) <= 1
  BY <1>1, <1>2, <1>3, <1>5 DEF IsEnd
<1>7. ASSUME HasMagic(b) PROVE Len(Aligned(b)) >= 2 /\ MagicAt(Aligned(b), 1)
  <2>1. k < Len(b) /\ k \in Nat /\ MagicAt(b, k)
    BY <1>1, <1>2, <1>7 DEF IsEnd
  <2>2. Len(Aligned(b)) >= 2
    BY <1>1, <1>3, <1>5, <2>1
  <2>3. Aligned(b)[1] = b[k] /\ Aligned(b)[1 + 1] = b[k + 1]
    BY <1>1, <1>3, <1>4, <1>5, <2>1, <2>2
  <2> QED BY <2>1, <2>2, <2>3 DEF MagicAt
<1> QED BY <1>1, <1>4, <1>5, <1>6, <1>7

(* Scanning what a first scan has left, with more bytes behind it, ends at *)
(* the same place as scanning everything at once.                          *)
LEMMA ScanResumes ==
    ASSUME NEW b \in Seq(Byte), NEW y \in Seq(Byte)
    PROVE  /\ Aligned(Aligned(b) \o y) = Aligned(b \o y)
           /\ Skipped(b \o y) = Skipped(b) + Skipped(Aligned(b) \o y)
           /\ HasMagic(Aligned(b) \o y) <=> HasMagic(b \o y)
<1> DEFINE a == Aligned(b) \o y
           c == b \o y
           s == Skipped(b)
           k == ScanEnd(a)
<1>1. /\ s \in 0 .. Len(b)
      /\ Aligned(b) \in Seq(Byte)
      /\ Len(Aligned(b)) = Len(b) - s
      /\ \A i \in 1 .. Len(Aligned(b)) : Aligned(b)[i] = b[i + s]
      /\ Len(b) > 0 => Len(Aligned(b)) > 0
  BY AlignedFacts
<1>2. IsEnd(b, s + 1)
  <2>1. s + 1 = ScanEnd(b)
    <3>1. ScanEnd(b) \in Nat
      BY ScanEndIsEnd DEF IsEnd
    <3> QED BY <3>1 DEF Skipped
  <2> QED BY <2>1, ScanEndIsEnd
<1> HIDE DEF s
<1>3. a \in Seq(Byte) /\ c \in Seq(Byte)
  BY <1>1
<1>4. Len(a) = Len(c) - s /\ Len(c) = Len(b) + Len(y)
  <2>1. \A u, v \in Seq(Byte) : Len(u \o v) = Len(u) + Len(v)
    OBVIOUS
  <2>3. Len(a) = Len(Aligned(b)) + Len(y) /\ Len(c) = Len(b) + Len(y)
    BY <1>1, <2>1
  <2>2. Len(b) \in Nat /\ Len(y) \in Nat
    OBVIOUS
  <2> HIDE DEF a, c
  <2> QED BY <2>3, <2>2, <1>1
<1>5. Len(a) \in Nat /\ Len(b) \in Nat /\ Len(c) \in Nat /\ s \in Nat /\ Len(y) \in Nat
  BY <1>1, <1>3
<1>6. \A i \in 1 .. Len(a) : a[i] = c[i + s]
  <2> SUFFICES ASSUME NEW i \in 1 .. Len(a) PROVE a[i] = c[i + s]
    OBVIOUS
  <2>1. CASE i <= Len(Aligned(b))
    BY <2>1, <1>1, <1>4, <1>5
  <2>2. CASE i > Len(Aligned(b))
    <3>1. a[i] = y[i - Len(Aligned(b))]
      BY <2>2, <1>1, <1>4, <1>5
    <3>2. c[i + s] = y[i + s - Len(b)]
      BY <2>2, <1>1, <1>4, <1>5
    <3>3. i - Len(Aligned(b)) = i + s - Len(b)
      BY <1>1, <1>5
    <3> QED BY <3>1, <3>2, <3>3
  <2> QED BY <2>1, <2>2, <1>1, <1>5
<1>7. \A i \in 1 .. Len(b) : c[i] = b[i]
  OBVIOUS
<1>8. IsEnd(a, k) /\ (HasMagic(a) <=> k < Len(a))
  BY <1>3, ScanEndIsEnd
<1>9. Len(b) > 0 => s + 1 <= Len(b)
  BY <1>1, <1>5
<1> HIDE DEF a, c, k
<1>10. IsEnd(c, s + k)
  <2>1. k \in Nat /\ k >= 1
    BY <1>8 DEF IsEnd
  <2>2. s + k <= Len(c) \/ (s + k = 1 /\ Len(c) = 0)
    BY <2>1, <1>1, <1>4, <1>5, <1>8, <1>9 DEF IsEnd
  <2>3. ASSUME NEW j \in 1 .. (s + k) - 1 PROVE ~MagicAt(c, j)
    <3>1. CASE j <= s
      <4>1. j \in 1 .. (s + 1) - 1 /\ j \in 1 .. Len(b) /\ j + 1 \in 1 .. Len(b)
        BY <3>1, <1>1, <1>5, <1>9, <2>1
      <4> QED BY <4>1, <1>2, <1>7 DEF IsEnd, MagicAt
    <3>2. CASE j > s
      <4>1. j - s \in 1 .. k - 1 /\ j - s \in 1 .. Len(a) /\ (j - s) + 1 \in 1 .. Len(a)
        BY <3>2, <1>5, <2>1, <1>8 DEF IsEnd
      <4>2. a[j - s] = c[j] /\ a[(j - s) + 1] = c[j + 1]
        <5>1. (j - s) + s = j /\ ((j - s) + 1) + s = j + 1
          BY <1>5
        <5> QED BY <4>1, <1>6, <5>1
      <4>3. ~MagicAt(a, j - s)
        BY <4>1, <1>8 DEF IsEnd
      <4> QED BY <4>2, <4>3 DEF MagicAt
    <3> QED BY <3>1, <3>2, <1>5, <2>1
  <2>4. s + k >= Len(c) \/ MagicAt(c, s + k)
    <3>1. CASE k >= Len(a)
      BY <3>1, <1>4, <1>5, <2>1
    <3>2. CASE k < Len(a)
      <4>1. MagicAt(a, k)
        BY <3>2, <2>1, <1>5, <1>8 DEF IsEnd
      <4>2. k \in 1 .. Len(a) /\ k + 1 \in 1 .. Len(a)
        BY <3>2, <2>1, <1>5
      <4>3. a[k] = c[s + k] /\ a[k + 1] = c[(s + k) + 1]
        <5>1. k + s = s + k /\ (k + 1) + s = (s + k) + 1
          BY <1>5, <2>1
        <5> QED BY <4>2, <1>6, <5>1
      <4> QED BY <4>1, <4>3 DEF MagicAt
    <3> QED BY <3>1, <3>2, <2>1, <1>5
  <2>5. s + k \in Nat /\ s + k >= 1
    BY <2>1, <1>5
  <2> QED BY <2>2, <2>3, <2>4, <2>5 DEF IsEnd
<1>11. ScanEnd(c) = s + k /\ (HasMagic(c) <=> s + k < Len(c))
  BY <1>3, <1>10, ScanEndIsEnd, EndIsUnique
<1>12. k \in Nat
  BY <1>8 DEF IsEnd
<1>13. Skipped(c) = s + Skipped(a)
  BY <1>11, <1>12, <1>5 DEF Skipped, k
<1>14. HasMagic(a) <=> HasMagic(c)
  BY <1>8, <1>11, <1>12, <1>4, <1>5
<1>15. Aligned(a) = Aligned(c)
  <2>1. /\ Aligned(a) \in Seq(Byte) /\ Aligned(c) \in Seq(Byte)
        /\ Len(Aligned(a)) = Len(a) - Skipped(a)
        /\ Len(Aligned(c)) = Len(c) - Skipped(c)
        /\ Skipped(a) \in 0 .. Len(a)
        /\ \A i \in 1 .. Len(Aligned(a)) : Aligned(a)[i] = a[i + Skipped(a)]
        /\ \A i \in 1 .. Len(Aligned(c)) : Aligned(c)[i] = c[i + Skipped(c)]
    BY <1>3, AlignedFacts
  <2>2. Len(Aligned(a)) = Len(Aligned(c))
    BY <2>1, <1>13, <1>4, <1>5
  <2>3. ASSUME NEW i \in 1 .. Len(Aligned(a)) PROVE Aligned(a)[i] = Aligned(c)[i]
    <3>1. i + Skipped(a) \in 1 .. Len(a)
      BY <2>1, <1>5
    <3>2. (i + Skipped(a)) + s = i + Skipped(c)
      BY <1>13, <2>1, <1>5
    <3> QED BY <2>1, <2>2, <3>1, <3>2, <1>6
  <2> QED BY <2>1, <2>2, <2>3, SameBytes
<1> QED BY <1>13, <1>14, <1>15 DEF s, a, c

(* Bytes that come behind a magic do not move it. *)
LEMMA MagicStays ==
    ASSUME NEW b \in Seq(Byte), NEW y \in Seq(Byte), HasMagic(b)
    PROVE  /\ HasMagic(b \o y)
           /\ Skipped(b \o y) = Skipped(b)
           /\ Aligned(b \o y) = Aligned(b) \o y
<1> DEFINE a == Aligned(b)
<1>1. a \in Seq(Byte) /\ Len(a) >= 2 /\ MagicAt(a, 1) /\ Skipped(b) \in Nat
  BY AlignedFacts
<1> HIDE DEF a
<1>2. a \o y \in Seq(Byte) /\ Len(a \o y) >= 2 /\ MagicAt(a \o y, 1)
  <2>1. Len(a \o y) >= 2 /\ (a \o y)[1] = a[1] /\ (a \o y)[1 + 1] = a[1 + 1]
    BY <1>1
  <2> QED BY <1>1, <2>1 DEF MagicAt
<1>3. IsEnd(a \o y, 1)
  BY <1>2 DEF IsEnd
<1>4. ScanEnd(a \o y) = 1 /\ HasMagic(a \o y)
  <2>1. IsEnd(a \o y, ScanEnd(a \o y)) /\ (HasMagic(a \o y) <=> ScanEnd(a \o y) < Len(a \o y))
    BY <1>2, ScanEndIsEnd
  <2>2. ScanEnd(a \o y) = 1
    BY <1>2, <1>3, <2>1, EndIsUnique
  <2> QED BY <1>2, <2>1, <2>2
<1>5. Skipped(a \o y) = 0
  BY <1>4 DEF Skipped
<1>6. Aligned(a \o y) = a \o y
  BY <1>5, <1>2 DEF Aligned, Drop
<1> QED BY <1>1, <1>4, <1>5, <1>6, ScanResumes DEF a

-----------------------------------------------------------------------------
(* One pass of _try_one, over the buffer b before the scan. *)

(* What it finds. *)
PassOutcome(b) == Outcome(Aligned(b))

(* How many bytes it takes off the buffer behind the scan. *)
PassUsed(b) == Used(Aligned(b), PassOutcome(b))

(* The frame it gives, or none. *)
PassFrame(b) == FrameOf(Aligned(b), PassOutcome(b))

(* The decoder it leaves. *)
Passed(d) == After(Resync(d), PassOutcome(d.buf))

(* The length field of a full header is a number, and a frame is at least  *)
(* as long as its overhead.                                                *)
LEMMA HeaderFacts ==
    ASSUME NEW b \in Seq(Byte), Len(b) >= OVERHEAD
    PROVE  LengthOf(b) \in Nat /\ TotalOf(b) \in Nat /\ TotalOf(b) >= OVERHEAD
<1>1. b[4] \in Byte /\ b[5] \in Byte
  BY DEF OVERHEAD, HEADER_SIZE, CRC_SIZE
<1>2. LengthOf(b) \in Nat
  <2>1. \A x, y \in Byte : x + 256 * y \in Nat
    BY DEF Byte
  <2> QED BY <1>1, <2>1 DEF LengthOf
<1> QED BY <1>2 DEF TotalOf, OVERHEAD, HEADER_SIZE, CRC_SIZE

(* A pass takes bytes that are there, and only one that waits takes none. *)
LEMMA OutcomeFacts ==
    ASSUME NEW b \in Seq(Byte)
    PROVE  /\ PassOutcome(b) \in {"more", "size", "type", "crc", "frame"}
           /\ PassUsed(b) \in 0 .. Len(Aligned(b))
           /\ PassOutcome(b) # "more" => HasMagic(b) /\ PassUsed(b) >= 2
           /\ PassOutcome(b) = "frame" =>
                /\ Len(Aligned(b)) >= OVERHEAD
                /\ TotalOf(Aligned(b)) <= Len(Aligned(b))
                /\ PassUsed(b) = TotalOf(Aligned(b))
<1> DEFINE a == Aligned(b)
<1>1. a \in Seq(Byte) /\ Len(a) \in Nat
  BY AlignedFacts
<1>2. Len(a) >= OVERHEAD => TotalOf(a) \in Nat /\ TotalOf(a) >= OVERHEAD
  BY <1>1, HeaderFacts
<1>3. OVERHEAD = 7
  BY DEF OVERHEAD, HEADER_SIZE, CRC_SIZE
<1>4. /\ PassOutcome(b) \in {"more", "size", "type", "crc", "frame"}
      /\ PassOutcome(b) # "more" => HasMagic(b) /\ ~(Len(a) < OVERHEAD)
      /\ PassOutcome(b) = "frame" => ~(Len(a) < TotalOf(a))
  <2>1. /\ PassOutcome(b) \in {"more", "size", "type", "crc", "frame"}
        /\ PassOutcome(b) # "more" => ~(Len(a) < OVERHEAD)
        /\ PassOutcome(b) = "frame" => ~(Len(a) < TotalOf(a))
    BY Zenon DEF PassOutcome, Outcome
  <2>2. ~HasMagic(b) => Len(a) <= 1
    BY AlignedFacts
  <2> HIDE DEF a
  <2> QED BY <1>1, <1>3, <2>1, <2>2
<1>5. CASE PassOutcome(b) = "more"
  BY <1>5, <1>1 DEF PassUsed, Used
<1>6. CASE PassOutcome(b) = "frame"
  <2>1. PassUsed(b) = TotalOf(a)
    BY <1>6 DEF PassUsed, Used
  <2> HIDE DEF a
  <2> QED BY <1>6, <1>1, <1>2, <1>3, <1>4, <2>1 DEF a
<1>7. CASE PassOutcome(b) \notin {"more", "frame"}
  <2>1. PassUsed(b) = 2
    BY <1>7 DEF PassUsed, Used
  <2> QED BY <1>7, <1>1, <1>3, <1>4, <2>1
<1> QED BY <1>5, <1>6, <1>7

(* The frame of a pass is what stands behind the magic. *)
LEMMA FrameFacts ==
    ASSUME NEW b \in Seq(Byte), PassOutcome(b) = "frame"
    PROVE  \E f \in DecodedFrame :
              /\ PassFrame(b) = <<f>>
              /\ f = [frame_type |-> TypeOf(Aligned(b)), payload |-> PayloadOf(Aligned(b))]
              /\ PassUsed(b) = OVERHEAD + Len(f.payload)
<1> DEFINE a == Aligned(b)
           f == [frame_type |-> TypeOf(a), payload |-> PayloadOf(a)]
<1>1. a \in Seq(Byte) /\ Len(a) >= OVERHEAD /\ TotalOf(a) <= Len(a) /\ PassUsed(b) = TotalOf(a)
  BY OutcomeFacts, AlignedFacts
<1>2. LengthOf(a) \in Nat
  BY <1>1, HeaderFacts
<1>3. PassFrame(b) = <<f>>
  BY DEF PassFrame, FrameOf
<1> HIDE DEF a
<1>4. TypeOf(a) \in Byte
  BY <1>1 DEF TypeOf, OVERHEAD, HEADER_SIZE, CRC_SIZE
<1>5. HEADER_SIZE + LengthOf(a) <= Len(a) /\ TotalOf(a) = OVERHEAD + LengthOf(a)
  BY <1>1, <1>2 DEF TotalOf, OVERHEAD, HEADER_SIZE, CRC_SIZE
<1>6. PayloadOf(a) \in Seq(Byte) /\ Len(PayloadOf(a)) = LengthOf(a)
  BY <1>1, <1>2, <1>5 DEF PayloadOf, HEADER_SIZE
<1>7. f \in DecodedFrame /\ PassUsed(b) = OVERHEAD + Len(f.payload)
  BY <1>1, <1>4, <1>5, <1>6 DEF DecodedFrame
<1> QED BY <1>3, <1>7 DEF a

(* The fields of the decoder after a pass. *)
LEMMA PassedIs ==
    ASSUME NEW d \in Decoder
    PROVE  Passed(d) =
             [buf |-> Drop(Aligned(d.buf), PassUsed(d.buf)),
              errors_crc |-> d.errors_crc + One(PassOutcome(d.buf) = "crc"),
              errors_size |-> d.errors_size + One(PassOutcome(d.buf) = "size"),
              errors_type |-> d.errors_type + One(PassOutcome(d.buf) = "type"),
              bytes_dropped |-> d.bytes_dropped + Skipped(d.buf)]
<1> DEFINE b == d.buf
<1>1. b \in Seq(Byte) /\ Aligned(b) \in Seq(Byte) /\ d.bytes_dropped + Skipped(b) \in Nat
  <2>1. b \in Seq(Byte) /\ d.bytes_dropped \in Nat
    BY DEF Decoder
  <2>2. Aligned(b) \in Seq(Byte) /\ Skipped(b) \in Nat
    BY <2>1, AlignedFacts
  <2> QED BY <2>1, <2>2
<1>2. Resync(d) = [d EXCEPT !.buf = Aligned(b),
                            !.bytes_dropped = d.bytes_dropped + Skipped(b)]
  BY Zenon DEF Resync, Aligned
<1>3. /\ Resync(d).buf = Aligned(b)
      /\ Resync(d).errors_crc = d.errors_crc
      /\ Resync(d).errors_size = d.errors_size
      /\ Resync(d).errors_type = d.errors_type
      /\ Resync(d).bytes_dropped = d.bytes_dropped + Skipped(b)
  BY <1>1, <1>2 DEF Decoder
<1>4. PassUsed(b) = Used(Resync(d).buf, PassOutcome(b))
  BY <1>3 DEF PassUsed
<1> QED BY <1>3, <1>4, Zenon DEF Passed, After

(* A pass that waits has only scanned. *)
LEMMA ResyncIs ==
    ASSUME NEW d \in Decoder
    PROVE  /\ Resync(d).buf = Aligned(d.buf)
           /\ PassOutcome(d.buf) = "more" => Passed(d) = Resync(d)
<1> DEFINE b == d.buf
           r == Resync(d)
<1>1. b \in Seq(Byte) /\ Aligned(b) \in Seq(Byte) /\ d.bytes_dropped + Skipped(b) \in Nat
  <2>1. b \in Seq(Byte) /\ d.bytes_dropped \in Nat
    BY DEF Decoder
  <2>2. Aligned(b) \in Seq(Byte) /\ Skipped(b) \in Nat
    BY <2>1, AlignedFacts
  <2> QED BY <2>1, <2>2
<1>2. r = [d EXCEPT !.buf = Aligned(b), !.bytes_dropped = d.bytes_dropped + Skipped(b)]
  BY Zenon DEF Resync, Aligned
<1>3. r \in Decoder /\ r.buf = Aligned(b)
  BY <1>1, <1>2 DEF Decoder
<1> HIDE DEF r
<1>4. ASSUME PassOutcome(b) = "more" PROVE Passed(d) = r
  <2>1. PassOutcome(b) \notin {"crc", "size", "type"} /\ Used(r.buf, "more") = 0
    BY <1>4 DEF Used
  <2>2. Drop(r.buf, 0) = r.buf
    BY <1>1, <1>3 DEF Drop
  <2>3. r.errors_crc \in Nat /\ r.errors_size \in Nat /\ r.errors_type \in Nat
    BY <1>3 DEF Decoder
  <2>4. After(r, "more") = [buf |-> r.buf, errors_crc |-> r.errors_crc,
                            errors_size |-> r.errors_size, errors_type |-> r.errors_type,
                            bytes_dropped |-> r.bytes_dropped]
    BY <2>1, <2>2, <2>3 DEF After, One
  <2>5. After(r, "more") = r
    BY <2>4, <1>3 DEF Decoder
  <2> QED BY <2>5, <1>4 DEF Passed, r
<1> QED BY <1>3, <1>4 DEF r

(* A pass leaves a decoder, and one that does not wait a shorter buffer. *)
LEMMA PassedFacts ==
    ASSUME NEW d \in Decoder
    PROVE  /\ Passed(d) \in Decoder
           /\ PassFrame(d.buf) \in Seq(DecodedFrame)
           /\ PassOutcome(d.buf) # "more" => Len(Passed(d).buf) < Len(d.buf)
           /\ Len(d.buf) = Len(Passed(d).buf) + Skipped(d.buf) + PassUsed(d.buf)
<1> DEFINE b == d.buf
           a == Aligned(b)
           u == PassUsed(b)
<1>1. /\ b \in Seq(Byte) /\ d.errors_crc \in Nat /\ d.errors_size \in Nat
      /\ d.errors_type \in Nat /\ d.bytes_dropped \in Nat
  BY DEF Decoder
<1>2. /\ a \in Seq(Byte) /\ Len(a) = Len(b) - Skipped(b) /\ Skipped(b) \in 0 .. Len(b)
      /\ u \in 0 .. Len(a) /\ (PassOutcome(b) # "more" => u >= 2)
  BY <1>1, AlignedFacts, OutcomeFacts
<1>3. PassFrame(b) \in Seq(DecodedFrame)
  <2>1. CASE PassOutcome(b) = "frame"
    <3>1. PICK f \in DecodedFrame : PassFrame(b) = <<f>>
      BY <2>1, <1>1, FrameFacts
    <3>2. <<f>> \in Seq(DecodedFrame)
      OBVIOUS
    <3> QED BY <3>1, <3>2
  <2>2. CASE PassOutcome(b) # "frame"
    BY <2>2 DEF PassFrame, FrameOf
  <2> QED BY <2>1, <2>2
<1> HIDE DEF a, u
<1>4. Drop(a, u) \in Seq(Byte) /\ Len(Drop(a, u)) = Len(a) - u
  BY <1>2, DropFacts
<1>5. Len(b) \in Nat /\ Skipped(b) \in Nat
  BY <1>1, <1>2
<1>6. \A c : One(c) \in Nat
  BY DEF One
<1>7. Passed(d).buf = Drop(a, u)
  BY PassedIs DEF a, u
<1>8. Passed(d) \in Decoder
  <2>1. \A m, n \in Nat : m + n \in Nat
    OBVIOUS
  <2> QED BY <1>1, <1>4, <1>5, <1>6, <2>1, PassedIs DEF Decoder, a, u
<1> QED BY <1>1, <1>2, <1>3, <1>4, <1>5, <1>7, <1>8 DEF a, u

-----------------------------------------------------------------------------
(* The recursion of drain. *)

(* What a drain can give. *)
Drained == [dec : Decoder, frames : Seq(DecodedFrame)]

(* DrainAll satisfies the equation that defines it. *)
LEMMA DrainIsDefined ==
    DrainAll = [d \in Decoder |->
        IF PassOutcome(d.buf) = "more" THEN [dec |-> Passed(d), frames |-> << >>]
        ELSE [dec |-> DrainAll[Passed(d)].dec,
              frames |-> PassFrame(d.buf) \o DrainAll[Passed(d)].frames]]
<1> DEFINE D == Decoder
           V == Drained
           stop == {d \in D : PassOutcome(d.buf) = "more"}
           size == [d \in D |-> Len(d.buf)]
           next == [d \in D |-> Passed(d)]
           base == [d \in D |-> [dec |-> Passed(d), frames |-> << >>]]
           comb == [p \in D \X V |->
                      [dec |-> p[2].dec, frames |-> PassFrame(p[1].buf) \o p[2].frames]]
           Body(d, f) == IF PassOutcome(d.buf) = "more" THEN [dec |-> Passed(d), frames |-> << >>]
                         ELSE [dec |-> f[Passed(d)].dec,
                               frames |-> PassFrame(d.buf) \o f[Passed(d)].frames]
<1>1. stop \in SUBSET D /\ size \in [D -> Nat] /\ next \in [D -> D] /\ base \in [D -> V]
  <2>1. \A d \in D : Len(d.buf) \in Nat
    BY DEF Decoder
  <2>2. \A d \in D : Passed(d) \in D /\ [dec |-> Passed(d), frames |-> << >>] \in V
    BY PassedFacts DEF Drained
  <2> QED BY <2>1, <2>2
<1>2. comb \in [D \X V -> V]
  <2> SUFFICES ASSUME NEW d \in D, NEW v \in V
               PROVE  [dec |-> v.dec, frames |-> PassFrame(d.buf) \o v.frames] \in V
    OBVIOUS
  <2>1. PassFrame(d.buf) \in Seq(DecodedFrame)
    BY PassedFacts
  <2> QED BY <2>1 DEF Drained
<1>3. \A d \in D \ stop : size[next[d]] < size[d]
  BY PassedFacts
<1> HIDE DEF D, V, stop, size, next, base, comb
<1>4. PICK f \in [D -> V] : Solves(f, D, stop, next, base, comb)
  <2>1. Recursive(D, V, stop, size, next, base, comb)
    BY <1>1, <1>2, <1>3 DEF Recursive
  <2> QED BY <2>1, RecursionExists
<1>5. ASSUME NEW d \in D PROVE f[d] = Body(d, f)
  <2>1. CASE d \in stop
    BY <2>1, <1>4 DEF stop, base, Solves
  <2>2. CASE d \notin stop
    <3>1. next[d] = Passed(d) /\ next[d] \in D /\ f[next[d]] \in V
      BY <1>1, <1>4 DEF next
    <3>2. f[d] = comb[<<d, f[Passed(d)]>>]
      BY <2>2, <1>4, <3>1 DEF Solves
    <3>3. comb[<<d, f[Passed(d)]>>] = [dec |-> f[Passed(d)].dec,
                                       frames |-> PassFrame(d.buf) \o f[Passed(d)].frames]
      BY <3>1 DEF comb
    <3> QED BY <2>2, <3>2, <3>3 DEF stop
  <2> QED BY <2>1, <2>2
<1>6. f = [d \in Decoder |-> Body(d, f)]
  BY <1>4, <1>5 DEF D
<1>7. \E g : g = [d \in Decoder |-> Body(d, g)]
  BY <1>6
<1> DEFINE Whole(d, g) ==
             LET r   == Resync(d)
                 how == Outcome(r.buf)
             IN  IF how = "more" THEN [dec |-> r, frames |-> << >>]
                 ELSE LET rest == g[After(r, how)]
                      IN  [dec |-> rest.dec, frames |-> FrameOf(r.buf, how) \o rest.frames]
<1>8. DrainAll = CHOOSE g : g = [d \in Decoder |-> Whole(d, g)]
  BY Zenon DEF DrainAll
<1>9. ASSUME NEW d \in Decoder, NEW g PROVE Whole(d, g) = Body(d, g)
  <2>1. Resync(d).buf = Aligned(d.buf) /\ (PassOutcome(d.buf) = "more" => Passed(d) = Resync(d))
    BY ResyncIs
  <2> QED BY <2>1, Zenon DEF PassOutcome, PassFrame, Passed
<1> HIDE DEF Whole, Body
<1>10. \A g : [d \in Decoder |-> Whole(d, g)] = [d \in Decoder |-> Body(d, g)]
  BY <1>9
<1>11. DrainAll = [d \in Decoder |-> Body(d, DrainAll)]
  BY <1>7, <1>8, <1>10
<1> QED BY <1>11 DEF Body

(* A drain is a pass, and the drain of what it leaves. *)
LEMMA DrainStep ==
    ASSUME NEW d \in Decoder
    PROVE  /\ PassOutcome(d.buf) = "more" =>
                Drain(d) = [dec |-> Passed(d), frames |-> << >>]
           /\ PassOutcome(d.buf) # "more" =>
                Drain(d) = [dec |-> Drain(Passed(d)).dec,
                            frames |-> PassFrame(d.buf) \o Drain(Passed(d)).frames]
<1> DEFINE Body(x) ==
        IF PassOutcome(x.buf) = "more" THEN [dec |-> Passed(x), frames |-> << >>]
        ELSE [dec |-> DrainAll[Passed(x)].dec,
              frames |-> PassFrame(x.buf) \o DrainAll[Passed(x)].frames]
<1>1. DrainAll = [x \in Decoder |-> Body(x)]
  BY DrainIsDefined, Zenon
<1> HIDE DEF Body
<1>2. DrainAll[d] = Body(d)
  BY <1>1
<1> QED BY <1>2 DEF Body, Drain

(* Induction along the passes of a drain. *)
LEMMA PassInduction ==
    ASSUME NEW S \in SUBSET Decoder,
           \A d \in Decoder : (PassOutcome(d.buf) # "more" => Passed(d) \in S) => d \in S
    PROVE  S = Decoder
<1> DEFINE B == {d \in Decoder : d \notin S}
           T == {Len(d.buf) : d \in B}
<1> SUFFICES ASSUME B # {} PROVE FALSE
  OBVIOUS
<1>1. T \in SUBSET Nat /\ T # {}
  BY DEF Decoder
<1> HIDE DEF T
<1>2. PICK k \in T : \A y \in T : k <= y
  BY <1>1, NatLeast
<1>3. PICK d \in B : Len(d.buf) = k
  BY <1>2 DEF T
<1>4. \A e \in B : Len(d.buf) <= Len(e.buf)
  BY <1>2, <1>3 DEF T
<1>5. PassOutcome(d.buf) # "more" /\ Passed(d) \notin S
  BY <1>3
<1>6. Passed(d) \in Decoder /\ Len(Passed(d).buf) < Len(d.buf)
  BY <1>3, <1>5, PassedFacts
<1>7. Len(Passed(d).buf) \in Nat /\ Len(d.buf) \in Nat
  BY <1>3, <1>6 DEF Decoder
<1> QED BY <1>4, <1>5, <1>6, <1>7

(* A drain leaves a decoder and gives frames. *)
LEMMA DrainType ==
    ASSUME NEW d \in Decoder
    PROVE  Drain(d) \in Drained
<1> DEFINE S == {x \in Decoder : Drain(x) \in Drained}
<1>1. ASSUME NEW x \in Decoder, PassOutcome(x.buf) # "more" => Passed(x) \in S
      PROVE  x \in S
  <2>1. Passed(x) \in Decoder /\ PassFrame(x.buf) \in Seq(DecodedFrame)
    BY PassedFacts
  <2>2. CASE PassOutcome(x.buf) = "more"
    <3>1. Drain(x) = [dec |-> Passed(x), frames |-> << >>]
      BY <2>2, DrainStep
    <3>2. [dec |-> Passed(x), frames |-> << >>] \in Drained
      BY <2>1 DEF Drained
    <3> QED BY <3>1, <3>2
  <2>3. CASE PassOutcome(x.buf) # "more"
    <3>1. Drain(Passed(x)) \in Drained
      BY <2>3, <1>1
    <3>2. /\ Drain(Passed(x)).dec \in Decoder
          /\ PassFrame(x.buf) \o Drain(Passed(x)).frames \in Seq(DecodedFrame)
      BY <2>1, <3>1 DEF Drained
    <3>3. Drain(x) = [dec |-> Drain(Passed(x)).dec,
                      frames |-> PassFrame(x.buf) \o Drain(Passed(x)).frames]
      BY <2>3, DrainStep
    <3>4. [dec |-> Drain(Passed(x)).dec,
           frames |-> PassFrame(x.buf) \o Drain(Passed(x)).frames] \in Drained
      BY <3>2 DEF Drained
    <3> QED BY <3>3, <3>4
  <2> QED BY <2>2, <2>3
<1>2. S = Decoder
  <2>1. S \in SUBSET Decoder
    OBVIOUS
  <2> HIDE DEF S
  <2> QED BY <1>1, <2>1, PassInduction
<1> QED BY <1>2

-----------------------------------------------------------------------------
(* Feeding in chunks. *)

(* What is fed comes behind what is held. *)
LEMMA FeedIs ==
    ASSUME NEW d \in Decoder, NEW y \in Seq(Byte)
    PROVE  /\ Feed(d, y) \in Decoder
           /\ Feed(d, y).buf = d.buf \o y
           /\ Feed(d, y).errors_crc = d.errors_crc
           /\ Feed(d, y).errors_size = d.errors_size
           /\ Feed(d, y).errors_type = d.errors_type
           /\ Feed(d, y).bytes_dropped = d.bytes_dropped
<1>1. d.buf \o y \in Seq(Byte)
  BY DEF Decoder
<1> QED BY <1>1 DEF Feed, Decoder

(* Two decoders with the same fields are the same. *)
LEMMA SameDecoder ==
    ASSUME NEW d \in Decoder, NEW e \in Decoder, d.buf = e.buf,
           d.errors_crc = e.errors_crc, d.errors_size = e.errors_size,
           d.errors_type = e.errors_type, d.bytes_dropped = e.bytes_dropped
    PROVE  d = e
  BY DEF Decoder

(* A pass over what an earlier one has left, with more bytes behind it, is *)
(* the pass over everything.                                               *)
LEMMA PassResumes ==
    ASSUME NEW d \in Decoder, NEW y \in Seq(Byte), PassOutcome(d.buf) = "more"
    PROVE  LET later == Feed(Passed(d), y)
               whole == Feed(d, y)
           IN  /\ PassOutcome(later.buf) = PassOutcome(whole.buf)
               /\ PassFrame(later.buf) = PassFrame(whole.buf)
               /\ Passed(later) = Passed(whole)
<1> DEFINE b == d.buf
           a == Aligned(b)
           later == Feed(Passed(d), y)
           whole == Feed(d, y)
<1>1. b \in Seq(Byte) /\ a \in Seq(Byte) /\ Skipped(b) \in Nat
  BY AlignedFacts DEF Decoder
<1>2. PassUsed(b) = 0
  BY DEF PassUsed, Used
<1>3. Drop(a, 0) = a
  BY <1>1 DEF Drop
<1>4. Passed(d).buf = a
  BY <1>2, <1>3, PassedIs
<1>5. /\ Passed(d).errors_crc = d.errors_crc
      /\ Passed(d).errors_size = d.errors_size
      /\ Passed(d).errors_type = d.errors_type
      /\ Passed(d).bytes_dropped = d.bytes_dropped + Skipped(b)
  <2>1. d.errors_crc \in Nat /\ d.errors_size \in Nat /\ d.errors_type \in Nat
    BY DEF Decoder
  <2> QED BY <2>1, PassedIs DEF One
<1>6. Passed(d) \in Decoder
  BY PassedFacts
<1>7. /\ later \in Decoder /\ whole \in Decoder
      /\ later.buf = a \o y /\ whole.buf = b \o y
      /\ later.errors_crc = d.errors_crc /\ whole.errors_crc = d.errors_crc
      /\ later.errors_size = d.errors_size /\ whole.errors_size = d.errors_size
      /\ later.errors_type = d.errors_type /\ whole.errors_type = d.errors_type
      /\ later.bytes_dropped = d.bytes_dropped + Skipped(b)
      /\ whole.bytes_dropped = d.bytes_dropped
  BY <1>4, <1>5, <1>6, FeedIs
<1> HIDE DEF later, whole
<1>8. /\ Aligned(a \o y) = Aligned(b \o y)
      /\ Skipped(b \o y) = Skipped(b) + Skipped(a \o y)
      /\ HasMagic(a \o y) <=> HasMagic(b \o y)
  BY <1>1, ScanResumes
<1>9. PassOutcome(a \o y) = PassOutcome(b \o y)
  BY <1>8 DEF PassOutcome, Outcome
<1>10. PassUsed(a \o y) = PassUsed(b \o y) /\ PassFrame(a \o y) = PassFrame(b \o y)
  BY <1>8, <1>9 DEF PassUsed, PassFrame
<1>11. Passed(later) = Passed(whole)
  <2>1. later.bytes_dropped + Skipped(a \o y) = whole.bytes_dropped + Skipped(b \o y)
    <3>1. a \o y \in Seq(Byte) /\ d.bytes_dropped \in Nat
      BY <1>1 DEF Decoder
    <3>2. Skipped(a \o y) \in Nat
      <4> DEFINE z == a \o y
      <4>1. z \in Seq(Byte)
        BY <3>1
      <4> HIDE DEF z
      <4>2. Skipped(z) \in 0 .. Len(z)
        BY <4>1, AlignedFacts
      <4> QED BY <4>2 DEF z
    <3> QED BY <3>1, <3>2, <1>1, <1>7, <1>8
  <2> DEFINE P(x, c) ==
               [buf |-> Drop(Aligned(c), PassUsed(c)),
                errors_crc |-> x.errors_crc + One(PassOutcome(c) = "crc"),
                errors_size |-> x.errors_size + One(PassOutcome(c) = "size"),
                errors_type |-> x.errors_type + One(PassOutcome(c) = "type"),
                bytes_dropped |-> x.bytes_dropped + Skipped(c)]
  <2>2. Passed(later) = P(later, a \o y) /\ Passed(whole) = P(whole, b \o y)
    <3>1. Passed(later) = P(later, later.buf) /\ Passed(whole) = P(whole, whole.buf)
      BY <1>7, PassedIs
    <3> QED BY <3>1, <1>7
  <2>3. P(later, a \o y) = P(whole, b \o y)
    <3> HIDE DEF a, b
    <3> QED BY <1>7, <1>8, <1>9, <1>10, <2>1
  <2> QED BY <2>2, <2>3
<1> QED BY <1>7, <1>9, <1>10, <1>11 DEF later, whole

(* A pass that has its answer has it also with more bytes behind. *)
LEMMA OutcomeStays ==
    ASSUME NEW b \in Seq(Byte), NEW y \in Seq(Byte), PassOutcome(b) # "more"
    PROVE  /\ PassOutcome(b \o y) = PassOutcome(b)
           /\ PassUsed(b \o y) = PassUsed(b)
           /\ PassFrame(b \o y) = PassFrame(b)
           /\ Skipped(b \o y) = Skipped(b)
           /\ Aligned(b \o y) = Aligned(b) \o y
<1> DEFINE a == Aligned(b)
           c == Aligned(b) \o y
<1>1. HasMagic(b) /\ a \in Seq(Byte) /\ Len(a) \in Nat
  BY OutcomeFacts, AlignedFacts
<1>2. HasMagic(b \o y) /\ Skipped(b \o y) = Skipped(b) /\ Aligned(b \o y) = c
  BY <1>1, MagicStays
<1>3. ~(Len(a) < OVERHEAD)
  BY Zenon DEF PassOutcome, Outcome
<1> HIDE DEF a, c
<1>4. OVERHEAD = 7 /\ HEADER_SIZE = 5
  BY DEF OVERHEAD, HEADER_SIZE, CRC_SIZE
<1>5. c \in Seq(Byte) /\ Len(c) = Len(a) + Len(y) /\ Len(y) \in Nat
  BY <1>1 DEF a, c
<1>6. \A i \in 1 .. Len(a) : c[i] = a[i]
  BY <1>1 DEF a, c
<1>7. ~(Len(c) < OVERHEAD)
  BY <1>1, <1>3, <1>4, <1>5
<1>8. TypeOf(c) = TypeOf(a) /\ LengthOf(c) = LengthOf(a) /\ TotalOf(c) = TotalOf(a)
  <2>1. 3 \in 1 .. Len(a) /\ 4 \in 1 .. Len(a) /\ 5 \in 1 .. Len(a)
    BY <1>1, <1>3, <1>4
  <2> QED BY <1>6, <2>1 DEF TypeOf, LengthOf, TotalOf
<1>9. LengthOf(a) \in Nat /\ TotalOf(a) \in Nat /\ TotalOf(a) = 7 + LengthOf(a)
  BY <1>1, <1>3, <1>4, HeaderFacts DEF TotalOf
<1>10. ASSUME ~(Len(a) < TotalOf(a))
       PROVE  (CrcOk(c) <=> CrcOk(a)) /\ PayloadOf(c) = PayloadOf(a) /\ ~(Len(c) < TotalOf(c))
  <2>1. \A m, n \in Nat : 1 <= m /\ n <= Len(a) => SubSeq(c, m, n) = SubSeq(a, m, n)
    BY <1>1, <1>5, <1>6
  <2>2. HEADER_SIZE + LengthOf(a) <= Len(a) /\ HEADER_SIZE + LengthOf(a) \in Nat
    BY <1>1, <1>4, <1>9, <1>10
  <2>3. SubSeq(c, 3, HEADER_SIZE + LengthOf(a)) = SubSeq(a, 3, HEADER_SIZE + LengthOf(a))
    BY <2>1, <2>2
  <2>4. PayloadOf(c) = PayloadOf(a)
    <3>1. HEADER_SIZE + 1 \in Nat /\ 1 <= HEADER_SIZE + 1
      BY <1>4
    <3> QED BY <2>1, <2>2, <3>1, <1>8 DEF PayloadOf
  <2>5. c[TotalOf(a)] = a[TotalOf(a)] /\ c[TotalOf(a) - 1] = a[TotalOf(a) - 1]
    <3>1. TotalOf(a) \in 1 .. Len(a) /\ TotalOf(a) - 1 \in 1 .. Len(a)
      BY <1>1, <1>9, <1>10
    <3> QED BY <3>1, <1>6
  <2>6. CrcOk(c) <=> CrcOk(a)
    BY <2>3, <2>5, <1>8 DEF CrcOk
  <2>7. ~(Len(c) < TotalOf(c))
    BY <1>1, <1>5, <1>8, <1>9, <1>10
  <2> QED BY <2>4, <2>6, <2>7
<1>11. PassOutcome(b) \in {"size", "type"} \/ ~(Len(a) < TotalOf(a))
  BY Zenon DEF PassOutcome, Outcome, a
<1>12. PassOutcome(b \o y) = PassOutcome(b)
  <2>1. CASE Len(a) < TotalOf(a)
    <3>1. PassOutcome(b) \in {"size", "type"}
      BY <2>1, <1>11
    <3> QED BY <3>1, <1>1, <1>2, <1>3, <1>7, <1>8 DEF PassOutcome, Outcome, a
  <2>2. CASE ~(Len(a) < TotalOf(a))
    BY <2>2, <1>1, <1>2, <1>3, <1>7, <1>8, <1>10 DEF PassOutcome, Outcome, a
  <2> QED BY <2>1, <2>2
<1>13. PassUsed(b \o y) = PassUsed(b)
  BY <1>2, <1>8, <1>12 DEF PassUsed, Used, a
<1>14. PassFrame(b \o y) = PassFrame(b)
  <2>1. CASE PassOutcome(b) = "frame"
    BY <2>1, <1>2, <1>8, <1>10, <1>11, <1>12 DEF PassFrame, FrameOf, a
  <2>2. CASE PassOutcome(b) # "frame"
    BY <2>2, <1>12 DEF PassFrame, FrameOf
  <2> QED BY <2>1, <2>2
<1> QED BY <1>2, <1>12, <1>13, <1>14 DEF c

(* A pass that does not wait leaves later bytes behind what it leaves. *)
LEMMA PassStays ==
    ASSUME NEW d \in Decoder, NEW y \in Seq(Byte), PassOutcome(d.buf) # "more"
    PROVE  Passed(Feed(d, y)) = Feed(Passed(d), y)
<1> DEFINE b == d.buf
           a == Aligned(b)
           u == PassUsed(b)
           whole == Feed(d, y)
           later == Feed(Passed(d), y)
<1>1. b \in Seq(Byte)
  BY DEF Decoder
<1>2. /\ PassOutcome(b \o y) = PassOutcome(b) /\ PassUsed(b \o y) = u
      /\ Skipped(b \o y) = Skipped(b) /\ Aligned(b \o y) = a \o y
  BY <1>1, OutcomeStays
<1>3. a \in Seq(Byte) /\ u \in 0 .. Len(a)
  BY <1>1, AlignedFacts, OutcomeFacts
<1>4. Drop(a \o y, u) = Drop(a, u) \o y
  <2> HIDE DEF a, u
  <2>1. a \o y \in Seq(Byte) /\ Len(a \o y) = Len(a) + Len(y) /\ u \in 0 .. Len(a \o y)
    BY <1>3
  <2>2. /\ Drop(a \o y, u) \in Seq(Byte)
        /\ Len(Drop(a \o y, u)) = Len(a) + Len(y) - u
        /\ \A i \in 1 .. Len(a) + Len(y) - u : Drop(a \o y, u)[i] = (a \o y)[i + u]
    <3> DEFINE z == a \o y
    <3>1. z \in Seq(Byte) /\ u \in 0 .. Len(z) /\ Len(z) = Len(a) + Len(y)
      BY <2>1
    <3> HIDE DEF z
    <3>2. /\ Drop(z, u) \in Seq(Byte)
          /\ Len(Drop(z, u)) = Len(z) - u
          /\ \A i \in 1 .. Len(z) - u : Drop(z, u)[i] = z[i + u]
      BY <3>1, DropFacts
    <3> QED BY <3>1, <3>2 DEF z
  <2> DEFINE w == Drop(a, u)
  <2>3. w \in Seq(Byte) /\ Len(w) = Len(a) - u /\ \A i \in 1 .. Len(a) - u : w[i] = a[i + u]
    BY <1>3, DropFacts
  <2> HIDE DEF w
  <2>4. w \o y \in Seq(Byte) /\ Len(w \o y) = Len(a) - u + Len(y)
    BY <2>3, <1>3
  <2>5. ASSUME NEW i \in 1 .. Len(a) + Len(y) - u PROVE (a \o y)[i + u] = (w \o y)[i]
    <3>1. CASE i <= Len(a) - u
      BY <3>1, <1>3, <2>3
    <3>2. CASE i > Len(a) - u
      <4>1. (a \o y)[i + u] = y[i + u - Len(a)]
        BY <3>2, <1>3
      <4>2. (w \o y)[i] = y[i - (Len(a) - u)]
        BY <3>2, <1>3, <2>3
      <4>3. i + u - Len(a) = i - (Len(a) - u)
        BY <1>3
      <4> QED BY <4>1, <4>2, <4>3
    <3>3. i \in Nat /\ Len(a) \in Nat /\ u \in Nat
      BY <1>3
    <3>4. i <= Len(a) - u \/ i > Len(a) - u
      BY <3>3
    <3> QED BY <3>1, <3>2, <3>4, Zenon
  <2> DEFINE v == Drop(a \o y, u)
             x == w \o y
  <2>6. v \in Seq(Byte) /\ x \in Seq(Byte) /\ Len(v) = Len(x)
    BY <1>3, <2>2, <2>4
  <2>7. \A i \in 1 .. Len(v) : v[i] = x[i]
    BY <2>2, <2>5
  <2> HIDE DEF v, x
  <2>8. v = x
    BY <2>6, <2>7, SameBytes
  <2> QED BY <2>8 DEF v, x, w
<1>5. /\ whole \in Decoder /\ whole.buf = b \o y /\ whole.errors_crc = d.errors_crc
      /\ whole.errors_size = d.errors_size /\ whole.errors_type = d.errors_type
      /\ whole.bytes_dropped = d.bytes_dropped
  BY FeedIs
<1>6. Passed(d) \in Decoder /\ Passed(whole) \in Decoder
  BY <1>5, PassedFacts
<1>7. /\ later \in Decoder /\ later.buf = Passed(d).buf \o y
      /\ later.errors_crc = Passed(d).errors_crc /\ later.errors_size = Passed(d).errors_size
      /\ later.errors_type = Passed(d).errors_type
      /\ later.bytes_dropped = Passed(d).bytes_dropped
  BY <1>6, FeedIs
<1>8. /\ Passed(d).buf = Drop(a, u)
      /\ Passed(d).errors_crc = d.errors_crc + One(PassOutcome(b) = "crc")
      /\ Passed(d).errors_size = d.errors_size + One(PassOutcome(b) = "size")
      /\ Passed(d).errors_type = d.errors_type + One(PassOutcome(b) = "type")
      /\ Passed(d).bytes_dropped = d.bytes_dropped + Skipped(b)
  BY PassedIs
<1> HIDE DEF whole, later
<1>9. /\ Passed(whole).buf = Drop(Aligned(whole.buf), PassUsed(whole.buf))
      /\ Passed(whole).errors_crc = whole.errors_crc + One(PassOutcome(whole.buf) = "crc")
      /\ Passed(whole).errors_size = whole.errors_size + One(PassOutcome(whole.buf) = "size")
      /\ Passed(whole).errors_type = whole.errors_type + One(PassOutcome(whole.buf) = "type")
      /\ Passed(whole).bytes_dropped = whole.bytes_dropped + Skipped(whole.buf)
  <2>1. whole \in Decoder
    BY <1>5
  <2> QED BY <2>1, PassedIs
<1> HIDE DEF a, b, u
<1>10. Passed(whole) = later
  <2>1. Passed(whole).buf = later.buf
    BY <1>2, <1>4, <1>5, <1>7, <1>8, <1>9
  <2>2. /\ Passed(whole).errors_crc = later.errors_crc
        /\ Passed(whole).errors_size = later.errors_size
        /\ Passed(whole).errors_type = later.errors_type
        /\ Passed(whole).bytes_dropped = later.bytes_dropped
    BY <1>2, <1>5, <1>7, <1>8, <1>9
  <2> QED BY <2>1, <2>2, <1>6, <1>7, SameDecoder
<1> QED BY <1>10 DEF whole, later

(* Draining, feeding the rest and draining again leaves the same decoder   *)
(* and gives the same frames as feeding everything before one drain.       *)
LEMMA DrainChunks ==
    ASSUME NEW d \in Decoder, NEW y \in Seq(Byte)
    PROVE  LET first == Drain(d)
               then  == Drain(Feed(first.dec, y))
           IN  Drain(Feed(d, y)) = [dec |-> then.dec, frames |-> first.frames \o then.frames]
<1> DEFINE Then(x) == Drain(Feed(Drain(x).dec, y))
           Both(x) == [dec |-> Then(x).dec, frames |-> Drain(x).frames \o Then(x).frames]
           S == {x \in Decoder : Drain(Feed(x, y)) = Both(x)}
<1>1. ASSUME NEW x \in Decoder, PassOutcome(x.buf) # "more" => Passed(x) \in S
      PROVE  x \in S
  <2>1. /\ Passed(x) \in Decoder /\ PassFrame(x.buf) \in Seq(DecodedFrame)
        /\ Feed(x, y) \in Decoder /\ Feed(x, y).buf = x.buf \o y /\ x.buf \in Seq(Byte)
    BY PassedFacts, FeedIs DEF Decoder
  <2>2. CASE PassOutcome(x.buf) = "more"
    <3>1. Drain(x) = [dec |-> Passed(x), frames |-> << >>]
      BY <2>2, DrainStep
    <3> DEFINE later == Feed(Passed(x), y)
               whole == Feed(x, y)
    <3>2. /\ PassOutcome(later.buf) = PassOutcome(whole.buf)
          /\ PassFrame(later.buf) = PassFrame(whole.buf)
          /\ Passed(later) = Passed(whole)
      BY <2>2, PassResumes
    <3>3. later \in Decoder /\ whole \in Decoder
      BY <2>1, FeedIs
    <3> HIDE DEF later, whole
    <3>4. Drain(later) = Drain(whole)
      BY <3>2, <3>3, DrainStep
    <3>5. Drain(whole) \in Drained
      BY <3>3, DrainType
    <3>6. Then(x) = Drain(whole)
      BY <3>1, <3>4 DEF later
    <3>7. Drain(x).frames = << >>
      BY <3>1
    <3> HIDE DEF Then
    <3>8. Both(x) = Drain(whole)
      BY <3>5, <3>6, <3>7 DEF Drained
    <3> QED BY <3>8 DEF whole
  <2>3. CASE PassOutcome(x.buf) # "more"
    <3> DEFINE p == Passed(x)
               whole == Feed(x, y)
               f == PassFrame(x.buf)
    <3>1. Drain(x) = [dec |-> Drain(p).dec, frames |-> f \o Drain(p).frames]
      BY <2>3, DrainStep
    <3>2. PassOutcome(whole.buf) # "more" /\ PassFrame(whole.buf) = f
      BY <2>1, <2>3, OutcomeStays
    <3>3. Passed(whole) = Feed(p, y)
      BY <2>3, PassStays
    <3>4. Drain(whole) = [dec |-> Drain(Feed(p, y)).dec, frames |-> f \o Drain(Feed(p, y)).frames]
      BY <2>1, <3>2, <3>3, DrainStep
    <3>5. Drain(Feed(p, y)) = Both(p)
      BY <1>1, <2>3
    <3>6. Drain(p) \in Drained /\ f \in Seq(DecodedFrame)
      BY <2>1, DrainType
    <3>7. Then(x) = Then(p)
      BY <3>1
    <3>8. Then(p) \in Drained
      <4>1. Feed(Drain(p).dec, y) \in Decoder
        BY <3>6, FeedIs DEF Drained
      <4> QED BY <4>1, DrainType
    <3> HIDE DEF Then, p, whole, f
    <3>9. f \o (Drain(p).frames \o Then(p).frames) = (f \o Drain(p).frames) \o Then(p).frames
      BY <3>6, <3>8 DEF Drained
    <3>10. Drain(whole) = Both(x)
      <4>1. /\ Drain(Feed(p, y)).dec = Then(p).dec
            /\ Drain(Feed(p, y)).frames = Drain(p).frames \o Then(p).frames
        <5>1. Drain(Feed(p, y)) = [dec |-> Then(p).dec, frames |-> Drain(p).frames \o Then(p).frames]
          BY <3>5
        <5> DEFINE q == Drain(p).frames \o Then(p).frames
        <5>2. Drain(Feed(p, y)) = [dec |-> Then(p).dec, frames |-> q]
          BY <5>1
        <5> HIDE DEF q
        <5>3. Drain(Feed(p, y)).dec = Then(p).dec /\ Drain(Feed(p, y)).frames = q
          BY <5>2
        <5> QED BY <5>3 DEF q
      <4>2. Drain(x).frames = f \o Drain(p).frames
        BY <3>1
      <4> QED BY <4>1, <4>2, <3>4, <3>7, <3>9
    <3> QED BY <3>10 DEF whole
  <2> QED BY <2>2, <2>3
<1>2. S = Decoder
  <2>1. S \in SUBSET Decoder
    OBVIOUS
  <2> HIDE DEF S
  <2> QED BY <1>1, <2>1, PassInduction
<1> QED BY <1>2

(* A second drain without new bytes finds nothing. *)
LEMMA DrainEnds ==
    ASSUME NEW d \in Decoder
    PROVE  Drain(Drain(d).dec) = [dec |-> Drain(d).dec, frames |-> << >>]
<1> DEFINE S == {x \in Decoder : Drain(Drain(x).dec) = [dec |-> Drain(x).dec, frames |-> << >>]}
<1>1. ASSUME NEW x \in Decoder, PassOutcome(x.buf) # "more" => Passed(x) \in S
      PROVE  x \in S
  <2>1. CASE PassOutcome(x.buf) # "more"
    <3>1. Drain(x).dec = Drain(Passed(x)).dec
      <4>1. Drain(x) = [dec |-> Drain(Passed(x)).dec,
                        frames |-> PassFrame(x.buf) \o Drain(Passed(x)).frames]
        BY <2>1, DrainStep
      <4> QED BY <4>1
    <3> QED BY <2>1, <3>1, <1>1
  <2>2. CASE PassOutcome(x.buf) = "more"
    <3> DEFINE p == Passed(x)
    <3>1. Drain(x) = [dec |-> p, frames |-> << >>]
      BY <2>2, DrainStep
    <3>2. p \in Decoder
      BY PassedFacts
    <3>3. Feed(p, << >>) = p /\ Feed(x, << >>) = x
      <4>1. \A z \in Decoder : Feed(z, << >>) = z
        <5> SUFFICES ASSUME NEW z \in Decoder PROVE Feed(z, << >>) = z
          OBVIOUS
        <5>1. z.buf \o << >> = z.buf
          BY DEF Decoder
        <5>2. << >> \in Seq(Byte)
          OBVIOUS
        <5> DEFINE e == Feed(z, << >>)
        <5>3. /\ e \in Decoder /\ e.buf = z.buf /\ e.errors_crc = z.errors_crc
              /\ e.errors_size = z.errors_size /\ e.errors_type = z.errors_type
              /\ e.bytes_dropped = z.bytes_dropped
          BY <5>1, <5>2, FeedIs
        <5> HIDE DEF e
        <5>4. e = z
          BY <5>3, SameDecoder
        <5> QED BY <5>4 DEF e
      <4> QED BY <4>1, <3>2
    <3>4. PassOutcome(p.buf) = PassOutcome(x.buf) /\ Passed(p) = p
      <4>1. << >> \in Seq(Byte)
        OBVIOUS
      <4> QED BY <2>2, <4>1, <3>3, PassResumes
    <3>5. Drain(p) = [dec |-> p, frames |-> << >>]
      BY <3>2, <3>4, <2>2, DrainStep
    <3> HIDE DEF p
    <3> QED BY <3>1, <3>5
  <2> QED BY <2>1, <2>2
<1>2. S = Decoder
  <2>1. S \in SUBSET Decoder
    OBVIOUS
  <2> HIDE DEF S
  <2> QED BY <1>1, <2>1, PassInduction
<1> QED BY <1>2

(* The batches of frames. *)
Frames == Seq(DecodedFrame)

(* A decoder that has no frame to give without more bytes. *)
Settled(d) == Drain(d) = [dec |-> d, frames |-> << >>]

(* A decoder with nothing left over has nothing to give. *)
LEMMA EmptyPass ==
    ASSUME NEW d \in Decoder, d.buf = << >>
    PROVE  PassOutcome(<< >>) = "more" /\ Passed(d) = d
<1>1. << >> \in Seq(Byte) /\ Len(<< >>) = 0
  OBVIOUS
<1>2. Len(Aligned(<< >>)) = 0 /\ Aligned(<< >>) \in Seq(Byte) /\ Skipped(<< >>) = 0
  <2>1. Skipped(<< >>) \in 0 .. 0
    BY <1>1, AlignedFacts
  <2>2. Aligned(<< >>) \in Seq(Byte) /\ Len(Aligned(<< >>)) = Len(<< >>) - Skipped(<< >>)
    BY <1>1, AlignedFacts
  <2> QED BY <1>1, <2>1, <2>2
<1>3. PassOutcome(<< >>) = "more"
  BY <1>2 DEF PassOutcome, Outcome, OVERHEAD, HEADER_SIZE, CRC_SIZE
<1>4. PassUsed(<< >>) = 0
  BY <1>3 DEF PassUsed, Used
<1> DEFINE p == Passed(d)
           x == Drop(Aligned(<< >>), PassUsed(<< >>))
<1>5. x = << >>
  BY <1>2, <1>4 DEF Drop
<1>6. p \in Decoder
  BY PassedFacts
<1>7. One("more" = "crc") = 0 /\ One("more" = "size") = 0 /\ One("more" = "type") = 0
  BY DEF One
<1>8. p = [buf |-> x, errors_crc |-> d.errors_crc + One("more" = "crc"),
           errors_size |-> d.errors_size + One("more" = "size"),
           errors_type |-> d.errors_type + One("more" = "type"),
           bytes_dropped |-> d.bytes_dropped + 0]
  BY <1>2, <1>3, PassedIs
<1> HIDE DEF p, x
<1>9. /\ p.buf = x /\ p.errors_crc = d.errors_crc + One("more" = "crc")
      /\ p.errors_size = d.errors_size + One("more" = "size")
      /\ p.errors_type = d.errors_type + One("more" = "type")
      /\ p.bytes_dropped = d.bytes_dropped + 0
  BY <1>8
<1>10. /\ d.errors_crc \in Nat /\ d.errors_size \in Nat /\ d.errors_type \in Nat
       /\ d.bytes_dropped \in Nat
  BY DEF Decoder
<1>11. /\ p.buf = d.buf /\ p.errors_crc = d.errors_crc /\ p.errors_size = d.errors_size
       /\ p.errors_type = d.errors_type /\ p.bytes_dropped = d.bytes_dropped
  BY <1>5, <1>7, <1>9, <1>10
<1>12. p = d
  BY <1>6, <1>11, SameDecoder
<1> QED BY <1>3, <1>12 DEF p

(* So has a new one. *)
LEMMA NewFacts ==
    /\ NewDecoder \in Decoder
    /\ NewDecoder.buf = << >> /\ NewDecoder.errors_crc = 0 /\ NewDecoder.errors_size = 0
    /\ NewDecoder.errors_type = 0 /\ NewDecoder.bytes_dropped = 0
    /\ Drain(NewDecoder) = [dec |-> NewDecoder, frames |-> << >>]
<1>1. /\ NewDecoder \in Decoder /\ NewDecoder.buf = << >>
      /\ NewDecoder.errors_crc = 0 /\ NewDecoder.errors_size = 0
      /\ NewDecoder.errors_type = 0 /\ NewDecoder.bytes_dropped = 0
  BY DEF NewDecoder, Decoder
<1>2. Drain(NewDecoder) = [dec |-> Passed(NewDecoder), frames |-> << >>]
  BY <1>1, EmptyPass, DrainStep
<1>3. Passed(NewDecoder) = NewDecoder
  BY <1>1, EmptyPass
<1> QED BY <1>1, <1>2, <1>3

(* Feeding nothing changes nothing. *)
LEMMA FeedNothing ==
    ASSUME NEW d \in Decoder
    PROVE  Feed(d, << >>) = d
<1> DEFINE e == Feed(d, << >>)
<1>1. << >> \in Seq(Byte) /\ d.buf \o << >> = d.buf
  BY DEF Decoder
<1>2. /\ e \in Decoder /\ e.buf = d.buf /\ e.errors_crc = d.errors_crc
      /\ e.errors_size = d.errors_size /\ e.errors_type = d.errors_type
      /\ e.bytes_dropped = d.bytes_dropped
  BY <1>1, FeedIs
<1> HIDE DEF e
<1>3. e = d
  BY <1>2, SameDecoder
<1> QED BY <1>3 DEF e

(* Feeding twice is feeding both at once. *)
LEMMA FeedTwice ==
    ASSUME NEW d \in Decoder, NEW x \in Seq(Byte), NEW y \in Seq(Byte)
    PROVE  Feed(Feed(d, x), y) = Feed(d, x \o y)
<1> DEFINE e == Feed(d, x)
           f == Feed(e, y)
           g == Feed(d, x \o y)
<1>1. x \o y \in Seq(Byte) /\ (d.buf \o x) \o y = d.buf \o (x \o y)
  BY DEF Decoder
<1>2. /\ e \in Decoder /\ e.buf = d.buf \o x /\ e.errors_crc = d.errors_crc
      /\ e.errors_size = d.errors_size /\ e.errors_type = d.errors_type
      /\ e.bytes_dropped = d.bytes_dropped
  BY FeedIs
<1> HIDE DEF e
<1>3. /\ f \in Decoder /\ f.buf = e.buf \o y /\ f.errors_crc = e.errors_crc
      /\ f.errors_size = e.errors_size /\ f.errors_type = e.errors_type
      /\ f.bytes_dropped = e.bytes_dropped
  BY <1>2, FeedIs
<1>4. /\ g \in Decoder /\ g.buf = d.buf \o (x \o y) /\ g.errors_crc = d.errors_crc
      /\ g.errors_size = d.errors_size /\ g.errors_type = d.errors_type
      /\ g.bytes_dropped = d.bytes_dropped
  BY <1>1, FeedIs
<1> HIDE DEF f, g
<1>5. /\ f.buf = g.buf /\ f.errors_crc = g.errors_crc /\ f.errors_size = g.errors_size
      /\ f.errors_type = g.errors_type /\ f.bytes_dropped = g.bytes_dropped
  BY <1>1, <1>2, <1>3, <1>4
<1>6. f = g
  BY <1>3, <1>4, <1>5, SameDecoder
<1> QED BY <1>6 DEF e, f, g

(* How the stream is cut does not matter: what a decoder makes of bytes    *)
(* that come in two chunks is what it makes of them at once, frames,       *)
(* leftover and statistics.  (feed and drain are called per recv, and      *)
(* frames span the chunks of TCP.)                                         *)
THEOREM ChunksDoNotMatter ==
    ASSUME NEW d \in Decoder, NEW x \in Seq(Byte), NEW y \in Seq(Byte)
    PROVE  LET first == Drain(Feed(d, x))
               then  == Drain(Feed(first.dec, y))
           IN  /\ Drain(Feed(d, x \o y)).dec = then.dec
               /\ Drain(Feed(d, x \o y)).frames = first.frames \o then.frames
               /\ first.dec \in Decoder /\ first.frames \in Frames
               /\ then.dec \in Decoder /\ then.frames \in Frames
<1> DEFINE e == Feed(d, x)
           first == Drain(e)
           f == Feed(first.dec, y)
           then == Drain(f)
<1>1. e \in Decoder
  BY FeedIs
<1>2. first.dec \in Decoder /\ first.frames \in Frames
  BY <1>1, DrainType DEF Drained, Frames
<1>3. f \in Decoder
  BY <1>2, FeedIs
<1>4. then.dec \in Decoder /\ then.frames \in Frames
  BY <1>3, DrainType DEF Drained, Frames
<1>5. Drain(Feed(e, y)) = [dec |-> then.dec, frames |-> first.frames \o then.frames]
  BY <1>1, DrainChunks
<1> DEFINE q == first.frames \o then.frames
<1>6. Drain(Feed(e, y)) = [dec |-> then.dec, frames |-> q]
  BY <1>5
<1> HIDE DEF q
<1>7. Drain(Feed(e, y)).dec = then.dec /\ Drain(Feed(e, y)).frames = q
  BY <1>6
<1>8. Feed(e, y) = Feed(d, x \o y)
  BY FeedTwice
<1> QED BY <1>2, <1>4, <1>7, <1>8 DEF q

-----------------------------------------------------------------------------
(* An encoded frame. *)

(* b is p behind h, and the places of their bytes in it. *)
Joined(b, h, p) ==
    /\ b \in Seq(Byte) /\ Len(b) = Len(h) + Len(p)
    /\ \A i \in 1 .. Len(h) : b[i] = h[i]
    /\ \A i \in 1 .. Len(p) : b[Len(h) + i] = p[i]

(* So it is when p is appended to h. *)
LEMMA JoinedFacts ==
    ASSUME NEW h \in Seq(Byte), NEW p \in Seq(Byte)
    PROVE  Joined(h \o p, h, p)
  BY DEF Joined

(* A 16 bit number. *)
Word(n) == n \in Nat /\ n < 65536

(* The two bytes give the number back. *)
LEMMA TwoBytesOfWord ==
    ASSUME NEW n, Word(n)
    PROVE  /\ n \in Nat /\ n % 256 \in Byte /\ n \div 256 \in Byte
           /\ (n % 256) + 256 * (n \div 256) = n
  BY DEF Byte, Word

(* The bytes of an encoded frame: the header, the payload, the checksum,   *)
(* low bytes first.                                                        *)
FrameBody(type, payload) ==
    <<type, Len(payload) % 256, Len(payload) \div 256>> \o payload

(* b is the frame of n payload bytes with checksum c, low bytes first. *)
Envelope(b, type, payload, c) ==
    LET n == Len(payload)
    IN  /\ b \in Seq(Byte) /\ n \in Nat /\ Len(b) = n + 7
        /\ b[1] = MAGIC_LO /\ b[2] = MAGIC_HI /\ b[3] = type
        /\ b[4] = n % 256 /\ b[5] = n \div 256
        /\ \A i \in 1 .. n : b[5 + i] = payload[i]
        /\ b[n + 6] = c % 256 /\ b[n + 7] = c \div 256

(* body is what the checksum of that frame covers. *)
Covered(body, type, payload) ==
    /\ body \in Seq(Byte) /\ Len(body) = Len(payload) + 3
    /\ body[1] = type /\ body[2] = Len(payload) % 256 /\ body[3] = Len(payload) \div 256
    /\ \A i \in 1 .. Len(payload) : body[3 + i] = payload[i]

(* Sequences of two and of three bytes, and their elements. *)
LEMMA FiveBytes ==
    ASSUME NEW v \in Byte, NEW w \in Byte, NEW x \in Byte, NEW y \in Byte, NEW z \in Byte
    PROVE  /\ <<v, w>> \in Seq(Byte) /\ Len(<<v, w>>) = 2
           /\ <<v, w>>[1] = v /\ <<v, w>>[2] = w
           /\ <<x, y, z>> \in Seq(Byte) /\ Len(<<x, y, z>>) = 3
           /\ <<x, y, z>>[1] = x /\ <<x, y, z>>[2] = y /\ <<x, y, z>>[3] = z
  OBVIOUS

(* The body the checksum covers, and the whole frame. *)
LEMMA EnvelopeBytes ==
    ASSUME NEW type \in Byte, NEW payload \in Seq(Byte), Word(Len(payload)),
           NEW c, Word(c)
    PROVE  /\ Covered(FrameBody(type, payload), type, payload)
           /\ Envelope((<<MAGIC_LO, MAGIC_HI>> \o FrameBody(type, payload))
                          \o <<c % 256, c \div 256>>, type, payload, c)
<1> DEFINE n == Len(payload)
           lo == n % 256
           hi == n \div 256
           clo == c % 256
           chi == c \div 256
           mg == <<MAGIC_LO, MAGIC_HI>>
           t == <<type, lo, hi>>
           z == <<clo, chi>>
           body == t \o payload
           q == mg \o body
           b == q \o z
<1>1. n \in Nat /\ Word(n)
  BY TwoBytesOfWord
<1>2. body = FrameBody(type, payload)
  BY DEF FrameBody
<1> HIDE DEF n
<1>3. lo \in Byte /\ hi \in Byte /\ clo \in Byte /\ chi \in Byte
  BY <1>1, TwoBytesOfWord
<1>4. MAGIC_LO \in Byte /\ MAGIC_HI \in Byte
  BY DEF MAGIC_LO, MAGIC_HI, Byte
<1> HIDE DEF lo, hi, clo, chi
<1>5. /\ mg \in Seq(Byte) /\ Len(mg) = 2 /\ mg[1] = MAGIC_LO /\ mg[2] = MAGIC_HI
      /\ t \in Seq(Byte) /\ Len(t) = 3 /\ t[1] = type /\ t[2] = lo /\ t[3] = hi
      /\ z \in Seq(Byte) /\ Len(z) = 2 /\ z[1] = clo /\ z[2] = chi
  BY <1>3, <1>4, FiveBytes
<1> HIDE DEF mg, t, z
<1>6. Joined(body, t, payload)
  BY <1>5, JoinedFacts
<1>7. /\ body \in Seq(Byte) /\ Len(body) = n + 3 /\ body[1] = type
      /\ body[2] = lo /\ body[3] = hi
      /\ \A i \in 1 .. n : body[3 + i] = payload[i]
  <2> HIDE DEF body
  <2> QED BY <1>1, <1>5, <1>6 DEF Joined, n
<1>8. Joined(q, mg, body)
  <2> HIDE DEF body
  <2> QED BY <1>5, <1>7, JoinedFacts
<1> HIDE DEF body
<1>9. /\ q \in Seq(Byte) /\ Len(q) = n + 5 /\ q[1] = MAGIC_LO /\ q[2] = MAGIC_HI
      /\ q[3] = type /\ q[4] = lo /\ q[5] = hi
      /\ \A i \in 1 .. n : q[5 + i] = payload[i]
  <2> HIDE DEF q
  <2>1. /\ q \in Seq(Byte) /\ Len(q) = 2 + (n + 3)
        /\ \A i \in 1 .. 2 : q[i] = mg[i]
        /\ \A i \in 1 .. n + 3 : q[2 + i] = body[i]
    BY <1>5, <1>7, <1>8 DEF Joined
  <2>2. q[1] = MAGIC_LO /\ q[2] = MAGIC_HI
    BY <1>5, <2>1
  <2>3. q[2 + 1] = body[1] /\ q[2 + 2] = body[2] /\ q[2 + 3] = body[3]
    BY <1>1, <2>1
  <2>4. ASSUME NEW i \in 1 .. n PROVE q[5 + i] = payload[i]
    <3>1. 3 + i \in 1 .. n + 3 /\ 2 + (3 + i) = 5 + i
      BY <1>1
    <3>2. q[2 + (3 + i)] = body[3 + i] /\ body[3 + i] = payload[i]
      BY <1>7, <2>1, <3>1
    <3> QED BY <3>1, <3>2
  <2> QED BY <1>1, <1>7, <2>1, <2>2, <2>3, <2>4
<1>10. Joined(b, q, z)
  <2> HIDE DEF q
  <2> QED BY <1>5, <1>9, JoinedFacts
<1> HIDE DEF q, b
<1>11. /\ b \in Seq(Byte) /\ Len(b) = (n + 5) + 2
       /\ \A i \in 1 .. n + 5 : b[i] = q[i]
       /\ b[(n + 5) + 1] = clo /\ b[(n + 5) + 2] = chi
  BY <1>1, <1>5, <1>9, <1>10 DEF Joined
<1>12. (n + 5) + 2 = n + 7 /\ (n + 5) + 1 = n + 6
  BY <1>1
<1>13. /\ b[1] = MAGIC_LO /\ b[2] = MAGIC_HI /\ b[3] = type /\ b[4] = lo /\ b[5] = hi
       /\ \A i \in 1 .. n : b[5 + i] = payload[i]
  <2>1. \A i \in 1 .. 5 : b[i] = q[i]
    BY <1>1, <1>11
  <2>2. ASSUME NEW i \in 1 .. n PROVE b[5 + i] = payload[i]
    <3>1. 5 + i \in 1 .. n + 5
      BY <1>1
    <3> QED BY <1>9, <1>11, <3>1
  <2> QED BY <1>9, <2>1, <2>2
<1>14. Envelope(b, type, payload, c)
  BY <1>1, <1>11, <1>12, <1>13 DEF Envelope, n, lo, hi, clo, chi
<1>15. b = (<<MAGIC_LO, MAGIC_HI>> \o body) \o <<c % 256, c \div 256>>
  BY DEF b, q, z, mg, clo, chi
<1>16. Covered(body, type, payload)
  BY <1>7 DEF Covered, n, lo, hi
<1> QED BY <1>2, <1>14, <1>15, <1>16

(* The checksum of a frame fits its two bytes, as a uint16_t does. *)
ChecksumFits(type, payload) ==
    Word(Crc(FrameBody(type, payload)))

(* What encode_frame gives is such an envelope. *)
LEMMA EncodedBytes ==
    ASSUME NEW type \in Byte, NEW payload \in Seq(Byte), Word(Len(payload)),
           ChecksumFits(type, payload)
    PROVE  Envelope(Encode(type, payload), type, payload, Crc(FrameBody(type, payload)))
<1> DEFINE body == FrameBody(type, payload)
           c == Crc(body)
<1>1. Word(c)
  BY DEF ChecksumFits
<1>2. Encode(type, payload) = (<<MAGIC_LO, MAGIC_HI>> \o body) \o <<c % 256, c \div 256>>
  BY DEF Encode, FrameBody
<1>3. Envelope((<<MAGIC_LO, MAGIC_HI>> \o body) \o <<c % 256, c \div 256>>, type, payload, c)
  <2> HIDE DEF c
  <2> QED BY <1>1, EnvelopeBytes
<1> QED BY <1>2, <1>3

(* A pass over b takes all of it, and it is the frame fr. *)
WholeFrame(b, fr) ==
    /\ b \in Seq(Byte) /\ Skipped(b) = 0 /\ PassOutcome(b) = "frame"
    /\ Drop(Aligned(b), PassUsed(b)) = << >>
    /\ PassFrame(b) = <<fr>>

(* Such is every envelope whose checksum is right. *)
LEMMA EnvelopePass ==
    ASSUME NEW type \in {TYPE_SENSOR, TYPE_ACTUATOR}, NEW payload \in Seq(Byte),
           Len(payload) <= PROTO_MAX_PAYLOAD, Word(Len(payload)),
           NEW c, Word(c), c = Crc(FrameBody(type, payload)),
           NEW b, Envelope(b, type, payload, c)
    PROVE  WholeFrame(b, [frame_type |-> type, payload |-> payload])
<1> DEFINE n == Len(payload)
           body == FrameBody(type, payload)
<1>1. type \in Byte
  BY DEF TYPE_SENSOR, TYPE_ACTUATOR, Byte
<1>2. /\ b \in Seq(Byte) /\ n \in Nat /\ Len(b) = n + 7
      /\ b[1] = MAGIC_LO /\ b[2] = MAGIC_HI /\ b[3] = type
      /\ b[4] = n % 256 /\ b[5] = n \div 256
      /\ \A i \in 1 .. n : b[5 + i] = payload[i]
      /\ b[n + 6] = c % 256 /\ b[n + 7] = c \div 256
  BY DEF Envelope
<1>3. Word(n) /\ n <= PROTO_MAX_PAYLOAD /\ PROTO_MAX_PAYLOAD \in Nat
  BY SizeAssumption
<1>4. /\ body \in Seq(Byte) /\ Len(body) = n + 3 /\ body[1] = type
      /\ body[2] = n % 256 /\ body[3] = n \div 256
      /\ \A i \in 1 .. n : body[3 + i] = payload[i]
  <2>1. Covered(body, type, payload)
    BY <1>1, EnvelopeBytes
  <2> HIDE DEF body
  <2> QED BY <2>1 DEF Covered
<1> HIDE DEF n, body
<1>5. Skipped(b) = 0 /\ Aligned(b) = b
  <2>1. IsEnd(b, 1)
    BY <1>2 DEF IsEnd, MagicAt
  <2>2. ScanEnd(b) = 1
    BY <1>2, <2>1, ScanEndIsEnd, EndIsUnique
  <2>3. Skipped(b) = 0
    BY <2>2 DEF Skipped
  <2>4. Drop(b, 0) = b
    BY <1>2 DEF Drop
  <2> QED BY <2>3, <2>4 DEF Aligned
<1>6. LengthOf(b) = n /\ TotalOf(b) = n + 7
  <2>1. (n % 256) + 256 * (n \div 256) = n
    BY <1>2, <1>3, TwoBytesOfWord
  <2>2. LengthOf(b) = n
    BY <1>2, <2>1 DEF LengthOf
  <2> QED BY <1>2, <2>2 DEF TotalOf, OVERHEAD, HEADER_SIZE, CRC_SIZE
<1>7. SubSeq(b, 3, 5 + n) = body
  <2> DEFINE s == SubSeq(b, 3, 5 + n)
  <2>1. s \in Seq(Byte) /\ Len(s) = n + 3 /\ \A i \in 1 .. n + 3 : s[i] = b[i + 2]
    BY <1>2
  <2>2. b[1 + 2] = body[1] /\ b[2 + 2] = body[2] /\ b[3 + 2] = body[3]
    BY <1>2, <1>4
  <2>3. ASSUME NEW i \in 1 .. n + 3, i > 3 PROVE b[i + 2] = body[i]
    <3> DEFINE j == i - 3
    <3>1. j \in 1 .. n /\ i = 3 + j /\ i + 2 = 5 + j
      BY <1>2, <2>3
    <3> HIDE DEF j
    <3>2. b[5 + j] = payload[j] /\ body[3 + j] = payload[j]
      BY <1>2, <1>4, <3>1
    <3> QED BY <3>1, <3>2
  <2>4. ASSUME NEW i \in 1 .. n + 3 PROVE b[i + 2] = body[i]
    <3>1. i = 1 \/ i = 2 \/ i = 3 \/ i > 3
      BY <1>2
    <3> QED BY <2>2, <2>3, <3>1
  <2> HIDE DEF s
  <2>5. s = body
    <3>1. Len(s) = Len(body) /\ \A i \in 1 .. Len(s) : s[i] = body[i]
      BY <1>4, <2>1, <2>4
    <3> QED BY <1>4, <2>1, <3>1, SameBytes
  <2> QED BY <2>5 DEF s
<1>8. CrcOk(b)
  <2>1. b[TotalOf(b) - 1] = c % 256 /\ b[TotalOf(b)] = c \div 256
    <3>1. (n + 7) - 1 = n + 6
      BY <1>2
    <3> QED BY <1>2, <1>6, <3>1
  <2>2. (c % 256) + 256 * (c \div 256) = c
    BY TwoBytesOfWord
  <2>3. SubSeq(b, 3, HEADER_SIZE + LengthOf(b)) = body
    BY <1>6, <1>7 DEF HEADER_SIZE
  <2>4. c = Crc(body)
    BY DEF body
  <2>5. Crc(SubSeq(b, 3, HEADER_SIZE + LengthOf(b))) = c
    BY <2>3, <2>4
  <2> QED BY <2>1, <2>2, <2>5 DEF CrcOk
<1>9. PassOutcome(b) = "frame"
  <2>1. ~(Len(b) < 7) /\ ~(n > PROTO_MAX_PAYLOAD) /\ ~(Len(b) < n + 7)
    BY <1>2, <1>3
  <2>2. TypeOf(b) \in {TYPE_SENSOR, TYPE_ACTUATOR}
    BY <1>2 DEF TypeOf
  <2> QED BY <1>5, <1>6, <1>8, <2>1, <2>2
          DEF PassOutcome, Outcome, OVERHEAD, HEADER_SIZE, CRC_SIZE
<1>10. Drop(Aligned(b), PassUsed(b)) = << >>
  <2>1. PassUsed(b) = n + 7
    BY <1>5, <1>6, <1>9 DEF PassUsed, Used
  <2>2. Drop(b, n + 7) = << >>
    BY <1>2 DEF Drop
  <2> QED BY <1>5, <2>1, <2>2
<1>11. PassFrame(b) = <<[frame_type |-> type, payload |-> payload]>>
  <2>1. SubSeq(b, 6, 5 + n) = payload
    <3> DEFINE s == SubSeq(b, 6, 5 + n)
    <3>1. s \in Seq(Byte) /\ Len(s) = n /\ \A i \in 1 .. n : s[i] = b[5 + i]
      BY <1>2
    <3> HIDE DEF s
    <3>2. s = payload
      BY <1>2, <3>1, SameBytes DEF n
    <3> QED BY <3>2 DEF s
  <2>2. PayloadOf(b) = payload
    BY <1>6, <2>1 DEF PayloadOf, HEADER_SIZE
  <2>3. TypeOf(b) = type
    BY <1>2 DEF TypeOf
  <2> QED BY <1>5, <1>9, <2>2, <2>3 DEF PassFrame, FrameOf
<1> QED BY <1>2, <1>5, <1>9, <1>10, <1>11 DEF WholeFrame

(* A whole frame at the head of what an empty decoder is fed. *)
LEMMA WholeFrameFirst ==
    ASSUME NEW d \in Decoder, d.buf = << >>, NEW b, NEW fr, WholeFrame(b, fr),
           NEW rest \in Seq(Byte)
    PROVE  LET all == Drain(Feed(d, b \o rest))
               then == Drain(Feed(d, rest))
           IN  all.dec = then.dec /\ all.frames = <<fr>> \o then.frames
<1> DEFINE e == Feed(d, b)
           one == <<fr>>
<1>1. /\ b \in Seq(Byte) /\ Skipped(b) = 0 /\ PassOutcome(b) = "frame"
      /\ Drop(Aligned(b), PassUsed(b)) = << >> /\ PassFrame(b) = one
  BY DEF WholeFrame
<1> HIDE DEF one
<1>2. /\ e \in Decoder /\ e.buf = b /\ e.errors_crc = d.errors_crc
      /\ e.errors_size = d.errors_size /\ e.errors_type = d.errors_type
      /\ e.bytes_dropped = d.bytes_dropped
  <2>1. << >> \o b = b
    BY <1>1
  <2> QED BY <1>1, <2>1, FeedIs
<1> HIDE DEF e
<1>3. Passed(e) = d
  <2> DEFINE p == Passed(e)
             x == Drop(Aligned(b), PassUsed(b))
  <2>1. p = [buf |-> x,
             errors_crc |-> e.errors_crc + One(PassOutcome(b) = "crc"),
             errors_size |-> e.errors_size + One(PassOutcome(b) = "size"),
             errors_type |-> e.errors_type + One(PassOutcome(b) = "type"),
             bytes_dropped |-> e.bytes_dropped + Skipped(b)]
    BY <1>2, PassedIs
  <2>2. /\ One(PassOutcome(b) = "crc") = 0 /\ One(PassOutcome(b) = "size") = 0
        /\ One(PassOutcome(b) = "type") = 0
    BY <1>1 DEF One
  <2>3. /\ d.errors_crc \in Nat /\ d.errors_size \in Nat /\ d.errors_type \in Nat
        /\ d.bytes_dropped \in Nat
    BY DEF Decoder
  <2>4. p \in Decoder
    BY <1>2, PassedFacts
  <2> HIDE DEF p, x
  <2>5. /\ p.buf = x /\ p.errors_crc = e.errors_crc + One(PassOutcome(b) = "crc")
        /\ p.errors_size = e.errors_size + One(PassOutcome(b) = "size")
        /\ p.errors_type = e.errors_type + One(PassOutcome(b) = "type")
        /\ p.bytes_dropped = e.bytes_dropped + Skipped(b)
    BY <2>1
  <2>6. /\ p.buf = d.buf /\ p.errors_crc = d.errors_crc /\ p.errors_size = d.errors_size
        /\ p.errors_type = d.errors_type /\ p.bytes_dropped = d.bytes_dropped
    BY <1>1, <1>2, <2>2, <2>3, <2>5 DEF x
  <2>7. p = d
    BY <2>4, <2>6, SameDecoder
  <2> QED BY <2>7 DEF p
<1>4. Drain(d).dec = d /\ Drain(d).frames = << >>
  <2>1. Drain(d) = [dec |-> Passed(d), frames |-> << >>] /\ Passed(d) = d
    BY EmptyPass, DrainStep
  <2> QED BY <2>1
<1>5. Drain(e).dec = d /\ Drain(e).frames = one
  <2> DEFINE q == one \o Drain(d).frames
  <2>1. Drain(e) = [dec |-> Drain(d).dec, frames |-> q]
    <3>1. PassOutcome(e.buf) # "more" /\ PassFrame(e.buf) = one
      BY <1>1, <1>2
    <3> QED BY <1>2, <1>3, <3>1, DrainStep
  <2>2. q = one
    <3>1. one \in Seq(DecodedFrame)
      <4>1. PassFrame(e.buf) \in Seq(DecodedFrame)
        BY <1>2, PassedFacts
      <4> QED BY <1>1, <1>2, <4>1
    <3> QED BY <1>4, <3>1
  <2> HIDE DEF q
  <2> QED BY <1>4, <2>1, <2>2
<1> DEFINE first == Drain(Feed(d, b))
           all == Drain(Feed(d, b \o rest))
           then == Drain(Feed(first.dec, rest))
<1>6. all.dec = then.dec /\ all.frames = first.frames \o then.frames
  BY <1>1, ChunksDoNotMatter
<1>7. first = Drain(e)
  BY DEF e
<1> HIDE DEF first, all, then
<1>8. then = Drain(Feed(d, rest))
  BY <1>5, <1>7 DEF then
<1>9. all.dec = Drain(Feed(d, rest)).dec /\ all.frames = one \o Drain(Feed(d, rest)).frames
  <2>1. all.dec = then.dec /\ all.frames = one \o then.frames
    BY <1>5, <1>6, <1>7
  <2> QED BY <1>8, <2>1, Zenon
<1> QED BY <1>9, Zenon DEF all, one

(* An encoded frame that meets a decoder with nothing left over comes out  *)
(* as the frame it was, first and whole, whatever follows it, and costs no *)
(* byte and no error: decoding undoes encode_frame.                        *)
THEOREM DecodingUndoesEncoding ==
    ASSUME NEW d \in Decoder, d.buf = << >>,
           NEW type \in {TYPE_SENSOR, TYPE_ACTUATOR}, NEW payload \in Seq(Byte),
           Len(payload) <= PROTO_MAX_PAYLOAD, Word(Len(payload)),
           ChecksumFits(type, payload), NEW rest \in Seq(Byte)
    PROVE  LET all == Drain(Feed(d, Encode(type, payload) \o rest))
               then == Drain(Feed(d, rest))
           IN  /\ all.dec = then.dec
               /\ all.frames = <<[frame_type |-> type, payload |-> payload]>> \o then.frames
<1> DEFINE b == Encode(type, payload)
           c == Crc(FrameBody(type, payload))
           fr == [frame_type |-> type, payload |-> payload]
<1>1. type \in Byte
  BY DEF TYPE_SENSOR, TYPE_ACTUATOR, Byte
<1>2. Envelope(b, type, payload, c)
  BY <1>1, EncodedBytes
<1>3. Word(c) /\ c = Crc(FrameBody(type, payload))
  BY DEF ChecksumFits
<1> HIDE DEF b, c
<1>4. WholeFrame(b, fr)
  BY <1>2, <1>3, EnvelopePass
<1> HIDE DEF fr
<1>5. LET all == Drain(Feed(d, b \o rest))
          then == Drain(Feed(d, rest))
      IN  all.dec = then.dec /\ all.frames = <<fr>> \o then.frames
  BY <1>4, WholeFrameFirst
<1> QED BY <1>5 DEF b, fr

-----------------------------------------------------------------------------
(* Functions of a sequence of frames. *)

(* f is defined along the sequences of E, by a value and a step. *)
Along(f, E, zero, comb) ==
    \A s \in Seq(E) : f[s] = IF s = << >> THEN zero ELSE comb[<<Head(s), f[Tail(s)]>>]

(* Recursion along a sequence has a solution. *)
LEMMA SequenceRecursion ==
    ASSUME NEW E, NEW V, NEW zero \in V, NEW comb \in [E \X V -> V]
    PROVE  \E f \in [Seq(E) -> V] : Along(f, E, zero, comb)
<1> DEFINE D == Seq(E)
           stop == {<< >>}
           size == [s \in D |-> Len(s)]
           next == [s \in D |-> IF s = << >> THEN s ELSE Tail(s)]
           base == [s \in D |-> zero]
           both == [p \in D \X V |-> IF p[1] = << >> THEN zero ELSE comb[<<Head(p[1]), p[2]>>]]
<1>1. stop \in SUBSET D /\ size \in [D -> Nat] /\ base \in [D -> V]
  OBVIOUS
<1>2. next \in [D -> D]
  OBVIOUS
<1>3. both \in [D \X V -> V]
  <2> SUFFICES ASSUME NEW s \in D, NEW v \in V, s # << >>
               PROVE  comb[<<Head(s), v>>] \in V
    OBVIOUS
  <2>1. Head(s) \in E
    OBVIOUS
  <2> QED BY <2>1
<1>4. \A s \in D \ stop : size[next[s]] < size[s]
  OBVIOUS
<1> HIDE DEF D, stop, size, next, base, both
<1>5. PICK f \in [D -> V] : Solves(f, D, stop, next, base, both)
  <2>1. Recursive(D, V, stop, size, next, base, both)
    BY <1>1, <1>2, <1>3, <1>4 DEF Recursive
  <2> QED BY <2>1, RecursionExists
<1>6. ASSUME NEW s \in D
      PROVE  f[s] = IF s = << >> THEN zero ELSE comb[<<Head(s), f[Tail(s)]>>]
  <2>1. CASE s = << >>
    BY <2>1, <1>5 DEF Solves, stop, base
  <2>2. CASE s # << >>
    <3>1. next[s] = Tail(s) /\ next[s] \in D /\ f[next[s]] \in V
      BY <2>2, <1>2, <1>5 DEF next
    <3>2. f[s] = both[<<s, f[Tail(s)]>>]
      BY <2>2, <1>5, <3>1 DEF Solves, stop
    <3>3. both[<<s, f[Tail(s)]>>] = comb[<<Head(s), f[Tail(s)]>>]
      BY <2>2, <3>1 DEF both
    <3> QED BY <2>2, <3>2, <3>3
  <2> QED BY <2>1, <2>2
<1> QED BY <1>5, <1>6 DEF D, Along

(* Induction along a sequence. *)
LEMMA SequenceInduction ==
    ASSUME NEW E, NEW S \in SUBSET Seq(E), << >> \in S,
           \A s \in Seq(E) : s # << >> /\ Tail(s) \in S => s \in S
    PROVE  S = Seq(E)
<1> DEFINE B == {s \in Seq(E) : s \notin S}
           T == {Len(s) : s \in B}
<1> SUFFICES ASSUME B # {} PROVE FALSE
  OBVIOUS
<1>1. \A s \in Seq(E) : Len(s) \in Nat
  OBVIOUS
<1>2. B \in SUBSET Seq(E)
  OBVIOUS
<1>3. \A s \in B : s # << >> /\ Tail(s) \notin S
  OBVIOUS
<1>4. \A s \in Seq(E) : s \notin S => s \in B
  OBVIOUS
<1> HIDE DEF B
<1>5. T \in SUBSET Nat /\ T # {}
  BY <1>1, <1>2
<1> HIDE DEF T
<1>6. PICK k \in T : \A y \in T : k <= y
  BY <1>5, NatLeast
<1>7. PICK s \in B : Len(s) = k
  BY <1>6 DEF T
<1>8. \A e \in B : Len(e) \in T
  BY DEF T
<1>9. s \in Seq(E) /\ s # << >> /\ Tail(s) \notin S
  BY <1>2, <1>3, <1>7
<1>10. Tail(s) \in Seq(E) /\ Len(Tail(s)) = Len(s) - 1 /\ Len(s) \in Nat
  BY <1>9
<1>11. Tail(s) \in B
  BY <1>4, <1>9, <1>10
<1>12. Len(s) <= Len(s) - 1
  BY <1>6, <1>7, <1>8, <1>10, <1>11
<1> QED BY <1>10, <1>12

(* The head and the tail of a sequence that continues with another. *)
LEMMA HeadTail ==
    ASSUME NEW E, NEW s \in Seq(E), NEW t \in Seq(E), s # << >>
    PROVE  /\ s \o t \in Seq(E) /\ s \o t # << >>
           /\ Head(s \o t) = Head(s) /\ Tail(s \o t) = Tail(s) \o t
  OBVIOUS

(* F gathers what each element of a sequence contributes, in order. *)
Gathers(F, E, of) ==
    \A s \in Seq(E) : F[s] = IF s = << >> THEN << >> ELSE of[Head(s)] \o F[Tail(s)]

(* Nothing is gathered from nothing. *)
LEMMA GatherNothing ==
    ASSUME NEW E, NEW of, NEW F, Gathers(F, E, of)
    PROVE  F[<< >>] = << >>
<1>1. << >> \in Seq(E)
  OBVIOUS
<1> QED BY <1>1, Zenon DEF Gathers

(* There is such a function. *)
LEMMA GatherExists ==
    ASSUME NEW E, NEW C, NEW of \in [E -> Seq(C)]
    PROVE  \E F \in [Seq(E) -> Seq(C)] : Gathers(F, E, of)
<1> DEFINE V == Seq(C)
           comb == [p \in E \X V |-> of[p[1]] \o p[2]]
<1>1. comb \in [E \X V -> V] /\ << >> \in V
  <2>1. \A e \in E, v \in V : of[e] \o v \in V
    OBVIOUS
  <2> QED BY <2>1
<1>2. PICK F \in [Seq(E) -> V] : Along(F, E, << >>, comb)
  <2> HIDE DEF V, comb
  <2> QED BY <1>1, SequenceRecursion
<1>3. ASSUME NEW s \in Seq(E)
      PROVE  F[s] = IF s = << >> THEN << >> ELSE of[Head(s)] \o F[Tail(s)]
  <2>1. CASE s = << >>
    BY <2>1, <1>2 DEF Along
  <2>2. CASE s # << >>
    <3>1. Head(s) \in E /\ Tail(s) \in Seq(E)
      BY <2>2
    <3>2. F[Tail(s)] \in V
      BY <3>1, <1>2
    <3>3. comb[<<Head(s), F[Tail(s)]>>] = of[Head(s)] \o F[Tail(s)]
      BY <3>1, <3>2
    <3> QED BY <2>2, <3>3, <1>2 DEF Along
  <2> QED BY <2>1, <2>2
<1> QED BY <1>2, <1>3 DEF Gathers

(* What is gathered from a sequence is a sequence. *)
LEMMA GatherType ==
    ASSUME NEW E, NEW C, NEW of \in [E -> Seq(C)], NEW F, Gathers(F, E, of)
    PROVE  \A s \in Seq(E) : F[s] \in Seq(C)
<1> DEFINE S == {x \in Seq(E) : F[x] \in Seq(C)}
<1>1. << >> \in S
  <2>1. F[<< >>] = << >>
    BY GatherNothing
  <2>2. << >> \in Seq(E) /\ << >> \in Seq(C)
    OBVIOUS
  <2> QED BY <2>1, <2>2
<1>2. ASSUME NEW x \in Seq(E), x # << >>, Tail(x) \in S PROVE x \in S
  <2>1. of[Head(x)] \in Seq(C)
    <3>1. Head(x) \in E
      BY <1>2
    <3> QED BY <3>1
  <2>2. F[x] = of[Head(x)] \o F[Tail(x)]
    BY <1>2 DEF Gathers
  <2>3. of[Head(x)] \o F[Tail(x)] \in Seq(C)
    BY <2>1, <1>2
  <2> QED BY <2>2, <2>3
<1>3. S \in SUBSET Seq(E)
  OBVIOUS
<1> HIDE DEF S
<1>4. S = Seq(E)
  BY <1>1, <1>2, <1>3, SequenceInduction
<1> QED BY <1>4 DEF S

(* What is gathered from two sequences, one behind the other. *)
Splits(F, E) == \A s \in Seq(E), t \in Seq(E) : F[s \o t] = F[s] \o F[t]

(* So F gathers, first from the one and then from the other. *)
LEMMA GatherConcat ==
    ASSUME NEW E, NEW C, NEW of \in [E -> Seq(C)], NEW F, Gathers(F, E, of)
    PROVE  Splits(F, E)
<1> SUFFICES ASSUME NEW s \in Seq(E), NEW t \in Seq(E)
             PROVE  F[s \o t] = F[s] \o F[t]
  BY DEF Splits
<1> DEFINE S == {x \in Seq(E) : F[x \o t] = F[x] \o F[t]}
<1>0. \A x \in Seq(E) : F[x] \in Seq(C)
  BY GatherType
<1>1. << >> \in S
  <2>1. << >> \o t = t /\ F[t] \in Seq(C)
    BY <1>0
  <2>2. << >> \o F[t] = F[t]
    BY <2>1
  <2>3. F[<< >>] = << >> /\ << >> \in Seq(E)
    BY GatherNothing
  <2> QED BY <2>1, <2>2, <2>3
<1>2. ASSUME NEW x \in Seq(E), x # << >>, Tail(x) \in S PROVE x \in S
  <2> DEFINE o == of[Head(x)]
             u == F[Tail(x)]
             v == F[t]
  <2>1. x \o t \in Seq(E) /\ x \o t # << >> /\ Head(x \o t) = Head(x) /\ Tail(x \o t) = Tail(x) \o t
    BY <1>2, HeadTail
  <2>2. o \in Seq(C) /\ u \in Seq(C) /\ v \in Seq(C)
    <3>1. Head(x) \in E /\ Tail(x) \in Seq(E)
      BY <1>2
    <3> QED BY <3>1, <1>0
  <2>3. F[x \o t] = o \o F[Tail(x) \o t]
    BY <2>1 DEF Gathers
  <2>4. F[Tail(x) \o t] = u \o v
    BY <1>2
  <2>5. F[x] = o \o u
    BY <1>2 DEF Gathers
  <2> HIDE DEF o, u, v
  <2>6. o \o (u \o v) = (o \o u) \o v
    BY <2>2
  <2>7. F[x \o t] = F[x] \o v
    BY <2>3, <2>4, <2>5, <2>6
  <2> QED BY <2>7 DEF v
<1>3. S \in SUBSET Seq(E)
  OBVIOUS
<1> HIDE DEF S
<1>4. S = Seq(E)
  BY <1>1, <1>2, <1>3, SequenceInduction
<1> QED BY <1>4 DEF S
=============================================================================
