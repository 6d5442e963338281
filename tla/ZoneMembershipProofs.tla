------------------------ MODULE ZoneMembershipProofs ------------------------
(***************************************************************************)
(* Proofs about ZoneMembership and ZoneCells: for every box, cutoff and    *)
(* motion of the atoms, a pass that is not halted misses no pair and       *)
(* counts none twice, neither by the zones nor by their cells.             *)
(***************************************************************************)
EXTENDS ZoneCells, FiniteSetTheorems, TLAPS

\* What the guard has established for the atoms of a running pass.
Guarded ==
  status = "running" =>
    /\ ~Unbuildable
    /\ n >= 3 => \A a \in Atoms : MembershipOk(zone[a], Wrapped(z[a]))

Inv == TypeOK /\ Guarded

-----------------------------------------------------------------------------
(* Arithmetic.                                                               *)

LEMMA Monotone ==
  ASSUME NEW w \in Nat \ {0}, NEW x \in Int, NEW y \in Int, x * w < y * w
  PROVE  x < y
<1> SUFFICES ASSUME y <= x PROVE x * w >= y * w
  OBVIOUS
<1>1. (x - y) * w >= 0
  BY SMT
<1> QED BY <1>1, SMT

\* A number is its remainder up to a multiple of the divisor.
LEMMA Division ==
  ASSUME NEW p \in Int, NEW l \in Nat \ {0}
  PROVE  p % l \in 0 .. l - 1 /\ \E k \in Int : p = k * l + (p % l)
<1>1. p = (p \div l) * l + (p % l) /\ p \div l \in Int
  BY SMT
<1>2. p % l \in 0 .. l - 1
  BY SMT
<1> QED BY <1>1, <1>2

LEMMA LengthType == TypeOK => Length \in Nat \ {0} /\ n \in Nat \ {0} /\ width \in Nat \ {0}
<1> SUFFICES ASSUME TypeOK PROVE Length \in Nat \ {0} /\ n \in Nat \ {0} /\ width \in Nat \ {0}
  OBVIOUS
<1>1. n \in Nat \ {0} /\ width \in Nat \ {0}
  BY MembershipAssumption DEF MembershipAssumption, TypeOK
<1>2. n * width \in Nat \ {0}
  BY <1>1, SMT
<1> QED BY <1>1, <1>2 DEF Length

\* Periodic axis: some image of a guarded atom lies in its slab, widened by half
\* the slack on either side.
LEMMA ImageInWindow ==
  ASSUME TypeOK, pbc, NEW i \in Zones, NEW p \in Int,
         MembershipOk(i, Wrapped(p))
  PROVE  \E k \in Int :
           LET u == p + k * Length
           IN  /\ 2 * (i * width - u) <= width - Cutoff
               /\ 2 * (u - i * width - width) <= width - Cutoff
<1>1. Length \in Nat \ {0} /\ n \in Nat \ {0} /\ width \in Nat \ {0}
  BY LengthType
<1>2. PICK q \in Int : p = q * Length + (p % Length)
  BY <1>1, Division
<1> DEFINE r == p % Length
           lo == i * width
<1>3. r \in 0 .. Length - 1
  BY <1>1, Division
<1>4. i \in 0 .. n - 1 /\ lo \in Int
  BY <1>1 DEF Zones
<1>5. 0 <= lo /\ lo + width <= Length
  <2>1. 0 <= i * width
    BY <1>1, <1>4
  <2>2. 0 <= (n - 1 - i) * width
    BY <1>1, <1>4
  <2>3. QED
    BY <2>1, <2>2, <1>1, <1>4 DEF Length
<1>6. 2 * Excess(i, r) <= width - Cutoff
  BY DEF MembershipOk, Wrapped
<1>7. Cutoff \in Nat \ {0}
  BY MembershipAssumption DEF MembershipAssumption
<1>8. \E m \in {-1, 0, 1} :
        LET u == r + m * Length
        IN 2 * (lo - u) <= width - Cutoff /\ 2 * (u - lo - width) <= width - Cutoff
  <2> HIDE DEF r, lo
  <2>1. CASE r < lo
    <3>1. Excess(i, r) = IF lo - r <= r + Length - (lo + width)
                         THEN lo - r ELSE r + Length - (lo + width)
      BY <2>1 DEF Excess, Shorter, lo
    <3>2. CASE lo - r <= r + Length - (lo + width)
      BY <3>1, <3>2, <2>1, <1>1, <1>3, <1>4, <1>5, <1>6, <1>7
    <3>3. CASE ~(lo - r <= r + Length - (lo + width))
      <4>1. 2 * (r + Length - (lo + width)) <= width - Cutoff
        BY <3>1, <3>3, <1>6
      <4>2. 2 * (lo - (r + 1 * Length)) <= width - Cutoff
            /\ 2 * ((r + 1 * Length) - lo - width) <= width - Cutoff
        BY <4>1, <3>3, <2>1, <1>1, <1>3, <1>4, <1>5, <1>7
      <4>3. QED
        BY <4>2
    <3>4. QED
      BY <3>2, <3>3
  <2>2. CASE r > lo + width
    <3>1. Excess(i, r) = IF r - (lo + width) <= lo + Length - r
                         THEN r - (lo + width) ELSE lo + Length - r
      BY <2>2, <1>1, <1>3, <1>4 DEF Excess, Shorter, lo
    <3>2. CASE r - (lo + width) <= lo + Length - r
      BY <3>1, <3>2, <2>2, <1>1, <1>3, <1>4, <1>5, <1>6, <1>7
    <3>3. CASE ~(r - (lo + width) <= lo + Length - r)
      <4>1. 2 * (lo + Length - r) <= width - Cutoff
        BY <3>1, <3>3, <1>6
      <4>2. 2 * (lo - (r + (-1) * Length)) <= width - Cutoff
            /\ 2 * ((r + (-1) * Length) - lo - width) <= width - Cutoff
        BY <4>1, <3>3, <2>2, <1>1, <1>3, <1>4, <1>5, <1>7
      <4>3. QED
        BY <4>2
    <3>4. QED
      BY <3>2, <3>3
  <2>3. CASE lo <= r /\ r <= lo + width
    <3>1. Excess(i, r) = 0
      BY <2>3, <1>1, <1>3, <1>4 DEF Excess, lo
    <3>2. QED
      BY <3>1, <2>3, <1>1, <1>3, <1>4, <1>6, <1>7
  <2>4. QED
    BY <2>1, <2>2, <2>3, <1>1, <1>3, <1>4
<1>9. PICK m \in {-1, 0, 1} :
        /\ 2 * (lo - (r + m * Length)) <= width - Cutoff
        /\ 2 * ((r + m * Length) - lo - width) <= width - Cutoff
  BY <1>8
<1>10. p + (m - q) * Length = r + m * Length
  BY <1>1, <1>2, <1>3, SMT
<1>11. m - q \in Int
  BY <1>2
<1> QED BY <1>9, <1>10, <1>11

\* Two near atoms of a periodic box have images less than the cutoff apart.
LEMMA NearImages ==
  ASSUME TypeOK, pbc, NEW p \in Int, NEW q \in Int, Near(p, q)
  PROVE  \E k \in Int : LET e == p - q - k * Length IN -Cutoff < e /\ e < Cutoff
<1>1. Length \in Nat \ {0}
  BY LengthType
<1>2. PICK k \in Int : p - q = k * Length + ((p - q) % Length)
  <2>1. p - q \in Int
    OBVIOUS
  <2>2. QED
    BY <2>1, <1>1, Division
<1> DEFINE d == (p - q) % Length
<1>3. d \in 0 .. Length - 1
  <2>1. p - q \in Int
    OBVIOUS
  <2>2. QED
    BY <2>1, <1>1, Division
<1>4. d < Cutoff \/ Length - d < Cutoff
  BY DEF Near
<1>5. Cutoff \in Nat \ {0}
  BY MembershipAssumption DEF MembershipAssumption
<1>6. CASE d < Cutoff
  <2>1. p - q - k * Length = d
    BY <1>1, <1>2, <1>3
  <2>2. QED
    BY <2>1, <1>3, <1>5, <1>6
<1>7. CASE Length - d < Cutoff
  <2>1. p - q - (k + 1) * Length = d - Length
    BY <1>1, <1>2, <1>3
  <2>2. -Cutoff < d - Length /\ d - Length < Cutoff
    BY <1>1, <1>3, <1>5, <1>7
  <2>3. QED
    BY <2>1, <2>2
<1> QED BY <1>4, <1>6, <1>7

\* Zones of near guarded atoms are equal or adjacent, up to the wrap.
LEMMA NearZonesPeriodic ==
  ASSUME TypeOK, pbc, NEW i \in Zones, NEW j \in Zones, NEW p \in Int, NEW q \in Int,
         MembershipOk(i, Wrapped(p)), MembershipOk(j, Wrapped(q)), Near(p, q)
  PROVE  \E t \in Int : i - j - t * n \in {-1, 0, 1}
<1>1. Length \in Nat \ {0} /\ n \in Nat \ {0} /\ width \in Nat \ {0}
  BY LengthType
<1>2. PICK k \in Int :
        /\ 2 * (i * width - (p + k * Length)) <= width - Cutoff
        /\ 2 * ((p + k * Length) - i * width - width) <= width - Cutoff
  BY ImageInWindow
<1>3. PICK l \in Int :
        /\ 2 * (j * width - (q + l * Length)) <= width - Cutoff
        /\ 2 * ((q + l * Length) - j * width - width) <= width - Cutoff
  BY ImageInWindow
<1>4. PICK m \in Int : -Cutoff < p - q - m * Length /\ p - q - m * Length < Cutoff
  BY NearImages
<1>5. i \in Int /\ j \in Int /\ Cutoff \in Nat
  BY <1>1, MembershipAssumption DEF Zones, MembershipAssumption
<1> DEFINE t == m + k - l
           D == i - j - t * n
<1>6. t \in Int /\ D \in Int
  BY <1>1, <1>2, <1>3, <1>4, <1>5
<1>7. D * width = i * width - j * width - (m * Length + k * Length - l * Length)
  <2>1. \A x, y, w \in Int : (x * y) * w = x * (y * w)
    BY SMT
  <2>2. D * width = i * width - j * width - (t * n) * width
    BY <1>1, <1>5, <1>6
  <2>3. (t * n) * width = t * Length
    BY <2>1, <1>1, <1>6 DEF Length
  <2>4. t * Length = m * Length + k * Length - l * Length
    BY <1>1, <1>2, <1>3, <1>4
  <2>5. QED
    BY <2>2, <2>3, <2>4, <1>1, <1>2, <1>3, <1>4, <1>5
<1>8. D * width < 2 * width /\ (-2) * width < D * width
  <2> DEFINE iw == i * width
             jw == j * width
             kL == k * Length
             lL == l * Length
             mL == m * Length
             Dw == D * width
  <2>1. iw \in Int /\ jw \in Int /\ kL \in Int /\ lL \in Int /\ mL \in Int
    BY <1>1, <1>2, <1>3, <1>4, <1>5
  <2>2. Dw = iw - jw - (mL + kL - lL)
    BY <1>7
  <2>3. /\ 2 * (iw - (p + kL)) <= width - Cutoff
        /\ 2 * ((p + kL) - iw - width) <= width - Cutoff
        /\ 2 * (jw - (q + lL)) <= width - Cutoff
        /\ 2 * ((q + lL) - jw - width) <= width - Cutoff
        /\ -Cutoff < p - q - mL /\ p - q - mL < Cutoff
    BY <1>2, <1>3, <1>4
  <2> HIDE DEF iw, jw, kL, lL, mL, Dw
  <2>4. Dw < 2 * width /\ (-2) * width < Dw
    BY <2>1, <2>2, <2>3, <1>1, <1>5
  <2>5. QED
    BY <2>4 DEF Dw
<1>9. D < 2 /\ -2 < D
  BY <1>1, <1>6, <1>8, Monotone
<1>10. i - j - t * n \in {-1, 0, 1}
  BY <1>6, <1>9
<1> QED BY <1>6, <1>10

\* The same on a free axis with three zones or more.
LEMMA NearZonesFree ==
  ASSUME TypeOK, ~pbc, NEW i \in Zones, NEW j \in Zones, NEW p \in Int, NEW q \in Int,
         ~TooThin, n > 1,
         MembershipOk(i, Wrapped(p)), MembershipOk(j, Wrapped(q)), Near(p, q)
  PROVE  i - j < 2
<1>1. n \in Nat \ {0} /\ width \in Nat \ {0} /\ Cutoff \in Nat \ {0} /\ i \in 0 .. n - 1 /\ j \in 0 .. n - 1
  BY LengthType, MembershipAssumption DEF MembershipAssumption, Zones
<1> SUFFICES ASSUME i - j >= 2 PROVE FALSE
  BY <1>1
<1> DEFINE iw == i * width
           jw == j * width
<1>2. iw \in Int /\ jw \in Int /\ iw - jw >= 2 * width
  <2>1. (i - j - 2) * width >= 0
    BY <1>1
  <2>2. QED
    BY <2>1, <1>1
<1>3. Wrapped(p) = p /\ Wrapped(q) = q /\ p - q < Cutoff /\ q - p < Cutoff
  BY DEF Wrapped, Near
<1>4. i # 0 /\ j # n - 1
  BY <1>1
<1>5. 2 * (iw - p) <= width - Cutoff
  <2>1. CASE p < iw
    BY <2>1, <1>1, <1>3, <1>4 DEF MembershipOk, Excess
  <2>2. CASE p >= iw
    BY <2>2, <1>1, <1>2 DEF TooThin
  <2>3. QED
    BY <2>1, <2>2, <1>1, <1>2
<1>6. 2 * (q - jw - width) <= width - Cutoff
  <2>1. CASE q > jw + width
    <3>1. ~(q < jw)
      BY <2>1, <1>1, <1>2
    <3>2. Excess(j, q) = q - (jw + width)
      BY <2>1, <3>1, <1>1, <1>4 DEF Excess
    <3>3. QED
      BY <3>2, <1>1, <1>2, <1>3 DEF MembershipOk
  <2>2. CASE q <= jw + width
    BY <2>2, <1>1, <1>2 DEF TooThin
  <2>3. QED
    BY <2>1, <2>2, <1>1, <1>2
<1> HIDE DEF iw, jw
<1> QED BY <1>1, <1>2, <1>3, <1>5, <1>6

-----------------------------------------------------------------------------
(* Which zone evaluates a pair.                                              *)

LEMMA NextZone ==
  ASSUME TypeOK, NEW i \in Zones
  PROVE  (i + 1) % n = IF i + 1 < n THEN i + 1 ELSE 0
<1>1. n \in Nat \ {0} /\ i \in 0 .. n - 1
  BY LengthType DEF Zones
<1>2. CASE i + 1 < n
  BY <1>1, <1>2
<1>3. CASE i + 1 = n
  BY <1>1, <1>3
<1> QED BY <1>1, <1>2, <1>3

\* Zones that are neighbours one way are not also neighbours the other way,
\* except for two zones on a periodic axis.
LEMMA UniqueEvaluator ==
  ASSUME TypeOK, NEW i \in Zones, NEW j \in Zones, ~(pbc /\ n = 2),
         i = j \/ j \in Partners(i) \/ i \in Partners(j)
  PROVE  \E c \in Zones : Evaluators(i, j) = {c}
<1>1. n \in Nat \ {0} /\ i \in 0 .. n - 1 /\ j \in 0 .. n - 1
  BY LengthType DEF Zones
<1>2. CASE i = j
  <2>1. Evaluators(i, j) = {i}
    BY <1>2 DEF Evaluators
  <2>2. QED
    BY <2>1
<1>3. ASSUME NEW x \in Zones, NEW y \in Zones, x # y, y \in Partners(x)
      PROVE  x \notin Partners(y)
  <2>1. x \in 0 .. n - 1 /\ y \in 0 .. n - 1
    BY DEF Zones
  <2>2. n > 1 /\ (x + 1 < n \/ pbc) /\ y = IF x + 1 < n THEN x + 1 ELSE 0
    BY <1>3, NextZone DEF Partners
  <2>3. SUFFICES ASSUME x \in Partners(y) PROVE FALSE
    OBVIOUS
  <2>4. (y + 1 < n \/ pbc) /\ x = IF y + 1 < n THEN y + 1 ELSE 0
    BY <2>3, NextZone DEF Partners
  <2>5. QED
    BY <2>1, <2>2, <2>4, <1>1
<1>4. CASE i # j /\ j \in Partners(i)
  <2>1. Evaluators(i, j) = {i}
    BY <1>3, <1>4 DEF Evaluators
  <2>2. QED
    BY <2>1
<1>5. CASE i # j /\ i \in Partners(j)
  <2>1. Evaluators(i, j) = {j}
    BY <1>3, <1>5 DEF Evaluators
  <2>2. QED
    BY <2>1
<1> QED BY <1>2, <1>4, <1>5

\* Zones equal or adjacent up to the wrap meet.
LEMMA AdjacentMeet ==
  ASSUME TypeOK, pbc, NEW i \in Zones, NEW j \in Zones, NEW t \in Int,
         i - j - t * n \in {-1, 0, 1}
  PROVE  i = j \/ j \in Partners(i) \/ i \in Partners(j)
<1>1. n \in Nat \ {0} /\ i \in 0 .. n - 1 /\ j \in 0 .. n - 1
  BY LengthType DEF Zones
<1>2. t * n < 2 * n /\ (-2) * n < t * n
  <2> DEFINE tn == t * n
  <2>1. tn \in Int /\ (tn = i - j - 1 \/ tn = i - j \/ tn = i - j + 1)
    BY <1>1
  <2> HIDE DEF tn
  <2>2. n > 1 => tn < 2 * n /\ (-2) * n < tn
    BY <2>1, <1>1
  <2>3. n = 1 => tn < 2 * n /\ (-2) * n < tn
    BY <2>1, <1>1
  <2>4. QED
    BY <2>2, <2>3, <1>1 DEF tn
<1>3. t < 2 /\ -2 < t
  BY <1>1, <1>2, Monotone
<1>4. t \in {-1, 0, 1}
  BY <1>3
<1>5. i - j \in {-1, 0, 1, n - 1, n, n + 1, -n - 1, -n, -n + 1}
  BY <1>1, <1>4
<1>6. CASE n = 1
  BY <1>1, <1>6
<1>7. CASE n > 1
  <2>1. i = j \/ j = (IF i + 1 < n THEN i + 1 ELSE 0) \/ i = (IF j + 1 < n THEN j + 1 ELSE 0)
    BY <1>1, <1>5, <1>7
  <2>2. QED
    BY <2>1, <1>7, NextZone DEF Partners
<1> QED BY <1>1, <1>6, <1>7

\* What the guard buys: in a guarded configuration near atoms have zones that meet.
LEMMA GuardedMeet ==
  ASSUME Inv, status = "running", NEW a \in Atoms, NEW b \in Atoms, Near(z[a], z[b])
  PROVE  \/ zone[a] = zone[b]
         \/ zone[b] \in Partners(zone[a])
         \/ zone[a] \in Partners(zone[b])
<1> USE DEF Inv
<1>1. /\ n \in Nat \ {0} /\ zone[a] \in Zones /\ zone[b] \in Zones
      /\ z[a] \in Int /\ z[b] \in Int /\ pbc \in BOOLEAN
  BY LengthType, MembershipAssumption DEF TypeOK, MembershipAssumption
<1>2. zone[a] \in 0 .. n - 1 /\ zone[b] \in 0 .. n - 1
  BY <1>1 DEF Zones
<1>3. ~(pbc /\ n = 2) /\ ~TooThin
  BY DEF Guarded, Unbuildable
<1>4. CASE n = 1
  BY <1>2, <1>4
<1>5. CASE n = 2
  <2>1. Partners(0) = {1}
    BY <1>5, <1>1, NextZone DEF Partners, Zones
  <2>2. QED
    BY <2>1, <1>2, <1>5
<1>6. CASE n >= 3 /\ pbc
  <2>1. \E t \in Int : zone[a] - zone[b] - t * n \in {-1, 0, 1}
    BY <1>1, <1>6, NearZonesPeriodic DEF Guarded
  <2>2. QED
    BY <2>1, <1>1, <1>6, AdjacentMeet
<1>7. CASE n >= 3 /\ ~pbc
  <2>1. zone[a] - zone[b] < 2
    BY <1>1, <1>3, <1>7, NearZonesFree DEF Guarded
  <2>2. Near(z[b], z[a])
    BY <1>7 DEF Near
  <2>3. zone[b] - zone[a] < 2
    BY <2>2, <1>1, <1>3, <1>7, NearZonesFree DEF Guarded
  <2>4. zone[a] = zone[b] \/ zone[a] = zone[b] + 1 \/ zone[b] = zone[a] + 1
    BY <1>2, <2>1, <2>3
  <2>5. QED
    BY <2>4, <1>1, <1>2, <1>7, NextZone DEF Partners
<1> QED BY <1>1, <1>4, <1>5, <1>6, <1>7

-----------------------------------------------------------------------------
(* The invariant.                                                            *)

LEMMA WrappedType ==
  ASSUME TypeOK, NEW p \in Int
  PROVE  Wrapped(p) \in Int /\ (pbc => Wrapped(p) \in 0 .. Length - 1)
<1>1. Length \in Nat \ {0}
  BY LengthType
<1>2. p % Length \in 0 .. Length - 1
  BY <1>1, Division
<1> QED BY <1>1, <1>2 DEF Wrapped

\* A freshly binned atom is not outside of its slab.
LEMMA BinnedInside ==
  ASSUME TypeOK, NEW p \in Int, pbc => p \in 0 .. Length - 1
  PROVE  SlabOf(p) \in Zones /\ Excess(SlabOf(p), p) = 0
<1>1. Length \in Nat \ {0} /\ n \in Nat \ {0} /\ width \in Nat \ {0} /\ pbc \in BOOLEAN
  BY LengthType DEF TypeOK
<1> DEFINE s == p \div width
           sw == s * width
<1>2. s \in Int /\ sw \in Int /\ sw <= p /\ p < sw + width
  BY <1>1
<1>3. CASE p < 0
  <2>1. SlabOf(p) = 0 /\ ~pbc
    BY <1>1, <1>3 DEF SlabOf
  <2>2. 0 * width = 0
    BY <1>1
  <2>3. QED
    BY <2>1, <2>2, <1>1, <1>3 DEF Excess, Zones
<1>4. CASE p >= 0 /\ s >= n
  <2>1. SlabOf(p) = n - 1
    BY <1>1, <1>4 DEF SlabOf
  <2>2. (s - n) * width >= 0
    BY <1>1, <1>2, <1>4
  <2>3. sw >= Length
    BY <2>2, <1>1, <1>2 DEF Length
  <2>4. ~pbc
    BY <2>3, <1>1, <1>2
  <2>5. (n - 1) * width + width = Length
    BY <1>1 DEF Length
  <2>6. p >= Length
    BY <2>3, <1>1, <1>2
  <2>7. QED
    <3> DEFINE lo == (n - 1) * width
    <3>1. lo \in Int /\ lo + width = Length
      BY <2>5, <1>1
    <3>2. Excess(n - 1, p) = 0
      <4>1. p >= lo + width /\ ~(p < lo)
        BY <3>1, <2>6, <1>1
      <4>2. QED
        BY <4>1, <2>4 DEF Excess
    <3>3. n - 1 \in Zones
      BY <1>1 DEF Zones
    <3>4. QED
      BY <3>2, <3>3, <2>1
<1>5. CASE p >= 0 /\ s < n
  <2>1. SlabOf(p) = s
    BY <1>1, <1>2, <1>5 DEF SlabOf
  <2>2. s >= 0
    BY <1>1, <1>5
  <2>3. Excess(s, p) = 0
    BY <1>1, <1>2 DEF Excess
  <2>4. s \in Zones
    BY <2>2, <1>1, <1>2, <1>5 DEF Zones
  <2>5. QED
    BY <2>1, <2>3, <2>4
<1> QED BY <1>2, <1>3, <1>4, <1>5, <1>1

LEMMA InvInit == Init => Inv
<1> SUFFICES ASSUME Init PROVE Inv
  OBVIOUS
<1>1. 0 \in Zones
  BY MembershipAssumption DEF Init, Zones, MembershipAssumption
<1> QED BY <1>1 DEF Init, Inv, TypeOK, Guarded

LEMMA InvNext == Inv /\ [Next]_vars => Inv'
<1> SUFFICES ASSUME Inv, [Next]_vars PROVE Inv'
  OBVIOUS
<1> USE DEF Inv
<1>1. CASE Build
  <2>1. UNCHANGED <<n, width, pbc, z>> /\ status = "new"
    BY <1>1 DEF Build, geometry
  <2>2. CASE Unbuildable
    BY <2>1, <2>2, <1>1 DEF Build, TypeOK, Guarded, Zones
  <2>3. CASE ~Unbuildable
    <3>1. status' = "running" /\ zone' = [a \in Atoms |-> SlabOf(Wrapped(z[a]))]
      BY <2>3, <1>1 DEF Build
    <3>2. \A a \in Atoms : /\ SlabOf(Wrapped(z[a])) \in Zones
                           /\ Excess(SlabOf(Wrapped(z[a])), Wrapped(z[a])) = 0
      <4> TAKE a \in Atoms
      <4>1. z[a] \in Int
        BY MembershipAssumption DEF TypeOK, MembershipAssumption
      <4>2. QED
        BY <4>1, WrappedType, BinnedInside
    <3>3. TypeOK'
      BY <2>1, <3>1, <3>2 DEF TypeOK, Zones
    <3>4. n >= 3 => \A a \in Atoms : MembershipOk(zone'[a], Wrapped(z[a]))
      <4>1. SUFFICES ASSUME n >= 3, NEW a \in Atoms
                     PROVE  2 * Excess(zone'[a], Wrapped(z[a])) <= width - Cutoff
        BY DEF MembershipOk
      <4>2. width - Cutoff >= 0
        BY <2>3, <4>1, LengthType, MembershipAssumption
           DEF Unbuildable, TooThin, MembershipAssumption
      <4>3. Excess(zone'[a], Wrapped(z[a])) = 0
        BY <3>1, <3>2
      <4>4. QED
        BY <4>2, <4>3
    <3>5. Guarded'
      BY <2>1, <2>3, <3>4
         DEF Guarded, Unbuildable, TooThin, MembershipOk, Excess, Shorter, Wrapped, Length
    <3>6. QED
      BY <3>3, <3>5
  <2>4. QED
    BY <2>2, <2>3
<1>2. CASE Pass
  <2>1. /\ UNCHANGED <<n, width, pbc, zone>> /\ status = "running"
        /\ z' \in [Atoms -> Positions]
        /\ status' = IF n >= 3 /\ \E a \in Atoms : ~MembershipOk(zone[a], Wrapped(z'[a]))
                     THEN "stale" ELSE "running"
    BY <1>2 DEF Pass, geometry
  <2>2. TypeOK'
    BY <2>1 DEF TypeOK, Zones
  <2>3. status' = "running" /\ n >= 3 => \A a \in Atoms : MembershipOk(zone[a], Wrapped(z'[a]))
    BY <2>1
  <2>4. Guarded'
    BY <2>1, <2>3
       DEF Guarded, Unbuildable, TooThin, MembershipOk, Excess, Shorter, Wrapped, Length
  <2>5. QED
    BY <2>2, <2>4
<1>3. CASE Stopped \/ UNCHANGED vars
  BY <1>3 DEF Stopped, vars, TypeOK, Zones, Guarded, Unbuildable, TooThin,
              MembershipOk, Excess, Shorter, Wrapped, Length
<1> QED BY <1>1, <1>2, <1>3 DEF Next

\* Every variable keeps its type; in particular every atom is binned into one of
\* the zones.
THEOREM MembershipTyped == Spec => []TypeOK
<1>1. Inv => TypeOK
  BY DEF Inv
<1> QED BY <1>1, InvInit, InvNext, PTL DEF Spec

\* INV-8 with static membership: for every number and width of zones build()
\* accepts, every cutoff and every motion, a pass that the guard lets through
\* evaluates each pair within the cutoff in exactly one zone.
THEOREM StaticMembershipSound == Spec => []PairsComplete
<1>1. Inv => PairsComplete
  <2> SUFFICES ASSUME Inv, status = "running",
                      NEW a \in Atoms, NEW b \in Atoms, Near(z[a], z[b])
               PROVE  \E c \in Zones : Evaluators(zone[a], zone[b]) = {c}
    BY DEF PairsComplete
  <2>1. zone[a] \in Zones /\ zone[b] \in Zones
    BY DEF Inv, TypeOK
  <2>2. TypeOK /\ ~(pbc /\ n = 2)
    BY DEF Inv, Guarded, Unbuildable
  <2>3. QED
    BY <2>1, <2>2, GuardedMeet, UniqueEvaluator
<1> QED BY <1>1, InvInit, InvNext, PTL DEF Spec

-----------------------------------------------------------------------------
(* The cells of a zone (ZoneCells).                                          *)

\* The quotient and the remainder, by what defines them.
LEMMA Quotient ==
  ASSUME NEW p \in Int, NEW l \in Nat \ {0}
  PROVE  /\ p \div l \in Int /\ p % l \in 0 .. l - 1
         /\ p = (p \div l) * l + (p % l)
<1>1. p = (p \div l) * l + (p % l) /\ p \div l \in Int
  BY SMT
<1>2. p % l \in 0 .. l - 1
  BY SMT
<1> QED BY <1>1, <1>2

\* The integer next to p / q: it is off by at most one half.
LEMMA NearestIntBound ==
  ASSUME NEW p \in Int, NEW q \in Nat \ {0}
  PROVE  /\ NearestInt(p, q) \in Int
         /\ 2 * (p - NearestInt(p, q) * q) <= q
         /\ -q <= 2 * (p - NearestInt(p, q) * q)
<1> DEFINE d == p \div q
           r == p % q
<1>1. d \in Int /\ r \in 0 .. q - 1 /\ p = d * q + r
  BY Quotient
<1>2. NearestInt(p, q) = d \/ NearestInt(p, q) = d + 1
  BY DEF NearestInt
<1>3. NearestInt(p, q) = d => 2 * r <= q
  BY <1>1, SMT DEF NearestInt
<1>4. NearestInt(p, q) # d => q <= 2 * r
  BY <1>1, SMT DEF NearestInt
<1>5. (d + 1) * q = d * q + q
  BY <1>1
<1> DEFINE dq == d * q
<1>6. dq \in Int
  BY <1>1
<1> HIDE DEF d, r, dq
<1>7. CASE NearestInt(p, q) = d
  <2>1. p - NearestInt(p, q) * q = r
    BY <1>1, <1>6, <1>7 DEF dq
  <2>2. QED
    BY <2>1, <1>1, <1>3, <1>7
<1>8. CASE NearestInt(p, q) = d + 1 /\ NearestInt(p, q) # d
  <2>1. p - NearestInt(p, q) * q = r - q
    BY <1>1, <1>5, <1>6, <1>8 DEF dq
  <2>2. QED
    BY <2>1, <1>1, <1>4, <1>8
<1> QED BY <1>2, <1>7, <1>8

\* A number that is off by less than one half is that integer.
LEMMA NearestIntUnique ==
  ASSUME NEW p \in Int, NEW q \in Nat \ {0}, NEW k \in Int,
         2 * (p - k * q) < q, -q < 2 * (p - k * q)
  PROVE  NearestInt(p, q) = k
<1> DEFINE m == NearestInt(p, q)
           mq == m * q
           kq == k * q
<1>1. m \in Int /\ 2 * (p - mq) <= q /\ -q <= 2 * (p - mq)
  BY NearestIntBound
<1>2. mq \in Int /\ kq \in Int
  BY <1>1
<1>3. (m - k) * q = mq - kq
  BY <1>1
<1>4. mq - kq < 1 * q /\ (-1) * q < mq - kq
  <2> HIDE DEF m, mq
  <2>1. 2 * (p - kq) < q /\ -q < 2 * (p - kq)
    OBVIOUS
  <2> HIDE DEF kq
  <2>2. QED
    BY <2>1, <1>1, <1>2
<1>5. m - k < 1 /\ -1 < m - k
  <2>1. m - k \in Int
    BY <1>1
  <2>2. (m - k) * q < 1 * q /\ (-1) * q < (m - k) * q
    BY <1>3, <1>4
  <2> HIDE DEF m, mq, kq
  <2>3. QED
    BY <2>1, <2>2, Monotone
<1> QED BY <1>1, <1>5

\* The whole number of cells below a length of whole steps.
LEMMA FloorStep ==
  ASSUME NEW x \in Int, NEW y \in Int, NEW r \in Nat \ {0}
  PROVE  /\ x \div r \in Int /\ y \div r \in Int
         /\ x - y < r => (x \div r) - (y \div r) <= 1
         /\ y <= x => y \div r <= x \div r
<1> DEFINE a == x \div r
           b == y \div r
           ar == a * r
           br == b * r
<1>1. /\ a \in Int /\ x % r \in 0 .. r - 1 /\ x = ar + (x % r)
      /\ b \in Int /\ y % r \in 0 .. r - 1 /\ y = br + (y % r)
  BY Quotient
<1>2. (a - b) * r = ar - br /\ ar \in Int /\ br \in Int /\ (b - a) * r = br - ar
  BY <1>1
<1>3. ASSUME x - y < r PROVE a - b <= 1
  <2>1. ar - br < 2 * r
    <3> HIDE DEF ar, br
    <3>1. QED
      BY <1>1, <1>2, <1>3
  <2>2. (a - b) * r < 2 * r
    BY <2>1, <1>2
  <2> HIDE DEF a, b, ar, br
  <2>3. a - b < 2
    BY <1>1, <2>2, Monotone
  <2>4. QED
    BY <2>3, <1>1
<1>4. ASSUME y <= x PROVE b <= a
  <2>1. br - ar < 1 * r
    <3> HIDE DEF ar, br
    <3>1. QED
      BY <1>1, <1>2, <1>4
  <2>2. (b - a) * r < 1 * r
    BY <2>1, <1>2
  <2> HIDE DEF a, b, ar, br
  <2>3. b - a < 1
    BY <1>1, <2>2, Monotone
  <2>4. QED
    BY <2>3, <1>1
<1> QED BY <1>1, <1>3, <1>4

LEMMA FittingType ==
  ASSUME NEW L \in Nat \ {0}
  PROVE  /\ Fitting(L) \in Nat \ {0}
         /\ Fitting(L) > 1 => Fitting(L) * Cutoff < L
<1>1. Cutoff \in Nat \ {0}
  BY MembershipAssumption DEF MembershipAssumption
<1>2. CASE L > Cutoff
  <2> DEFINE f == (L - 1) \div Cutoff
  <2>1. f \in Int /\ (L - 1) % Cutoff \in 0 .. Cutoff - 1 /\ L - 1 = f * Cutoff + ((L - 1) % Cutoff)
    <3>1. L - 1 \in Int
      OBVIOUS
    <3>2. QED
      BY <3>1, <1>1, Quotient
  <2>2. f * Cutoff < L /\ 0 * Cutoff < f * Cutoff
    <3> DEFINE fc == f * Cutoff
               rest == (L - 1) % Cutoff
    <3>1. fc \in Int /\ rest \in 0 .. Cutoff - 1 /\ L - 1 = fc + rest
      BY <2>1, <1>1
    <3> HIDE DEF fc, rest
    <3>2. fc < L /\ 0 < fc
      BY <3>1, <1>1, <1>2
    <3>3. QED
      BY <3>2, <1>1 DEF fc
  <2> HIDE DEF f
  <2>3. 0 < f
    BY <2>1, <2>2, <1>1, Monotone
  <2>4. QED
    BY <2>1, <2>2, <2>3, <1>2 DEF Fitting, f
<1>3. CASE ~(L > Cutoff)
  BY <1>3 DEF Fitting
<1> QED BY <1>2, <1>3

\* What make_zone_grid guarantees: cells are wider than the cutoff, unless the
\* grid is a single cell, and a grid that wraps has three of them at least.
GridShape(g) ==
  /\ g.lo \in Int /\ g.range \in Nat \ {0} /\ g.cells \in Nat \ {0}
  /\ g.wraps \in BOOLEAN
  /\ g.cells > 1 => g.cells * Cutoff < g.range
  /\ g.wraps => g.cells >= 3 /\ pbc /\ g.lo = 0 /\ g.range = Length

LEMMA GridFacts ==
  ASSUME TypeOK, NEW i \in Zones
  PROVE  /\ GridShape(GridOf(i))
         /\ Alone /\ ~GridOf(i).wraps => GridOf(i).cells = 1
         /\ ~Alone => /\ GridOf(i).lo = i * width - Cutoff
                      /\ GridOf(i).range = width + 2 * Cutoff
                      /\ ~GridOf(i).wraps
<1>1. Length \in Nat \ {0} /\ n \in Nat \ {0} /\ width \in Nat \ {0}
  BY LengthType
<1>2. Cutoff \in Nat \ {0} /\ i \in Int
  BY <1>1, MembershipAssumption DEF MembershipAssumption, Zones
<1>3. CASE Alone
  <2> DEFINE fit == Fitting(Length)
  <2>1. fit \in Nat \ {0} /\ (fit > 1 => fit * Cutoff < Length)
    BY <1>1, FittingType
  <2>2. GridOf(i) = [lo |-> 0, range |-> Length, cells |-> IF fit < 3 THEN 1 ELSE fit,
                     wraps |-> fit >= 3]
    BY <1>3 DEF GridOf
  <2> HIDE DEF fit
  <2>3. /\ GridOf(i).lo = 0 /\ GridOf(i).range = Length
        /\ GridOf(i).cells = IF fit < 3 THEN 1 ELSE fit
    BY <2>2
  <2>4. GridOf(i).wraps \in BOOLEAN /\ (GridOf(i).wraps <=> fit >= 3)
    <3> DEFINE big == fit >= 3
    <3>1. big \in BOOLEAN
      OBVIOUS
    <3>2. GridOf(i).wraps = big
      <4> HIDE DEF big
      <4>1. GridOf(i) = [lo |-> 0, range |-> Length, cells |-> IF fit < 3 THEN 1 ELSE fit,
                         wraps |-> big]
        BY <2>2 DEF big
      <4>2. QED
        BY <4>1
    <3> HIDE DEF big
    <3>3. GridOf(i).wraps \in BOOLEAN /\ (GridOf(i).wraps <=> big)
      BY <3>1, <3>2
    <3>4. QED
      BY <3>3 DEF big
  <2>5. pbc
    BY <1>3 DEF Alone
  <2>6. GridOf(i).cells \in Nat \ {0} /\ (~(fit >= 3) => GridOf(i).cells = 1)
    BY <2>1, <2>3
  <2>7. GridOf(i).cells > 1 => GridOf(i).cells = fit /\ fit > 1
    BY <2>1, <2>3
  <2>8. GridOf(i).wraps => GridOf(i).cells >= 3
    BY <2>1, <2>3, <2>4
  <2>9. GridShape(GridOf(i))
    BY <2>1, <2>3, <2>4, <2>5, <2>6, <2>7, <2>8, <1>1 DEF GridShape
  <2>10. QED
    BY <2>4, <2>6, <2>9, <1>3
<1>4. CASE ~Alone
  <2> DEFINE R == width + 2 * Cutoff
             fit == Fitting(R)
  <2>1. R \in Nat \ {0}
    BY <1>1, <1>2
  <2>2. fit \in Nat \ {0} /\ (fit > 1 => fit * Cutoff < R)
    BY <2>1, FittingType
  <2>3. GridOf(i) = [lo |-> i * width - Cutoff, range |-> R, cells |-> fit, wraps |-> FALSE]
    BY <1>4 DEF GridOf
  <2>4. i * width - Cutoff \in Int
    BY <1>1, <1>2
  <2> HIDE DEF fit, R
  <2>5. QED
    BY <2>1, <2>2, <2>3, <2>4, <1>4 DEF GridShape, R
<1> QED BY <1>3, <1>4

Scaled(g, p) == ((Folded(g, p) - g.lo) * g.cells) \div g.range

LEMMA FoldedType ==
  ASSUME TypeOK, NEW g, GridShape(g), NEW p \in Int
  PROVE  /\ Folded(g, p) \in Int /\ Scaled(g, p) \in Int
         /\ g.wraps => Folded(g, p) = p % Length
<1>1. Length \in Nat \ {0} /\ g.lo \in Int /\ g.range \in Nat \ {0} /\ g.cells \in Nat \ {0}
  BY LengthType DEF GridShape
<1>2. (p - g.lo) % Length \in Int
  <2>1. p - g.lo \in Int
    BY <1>1
  <2>2. QED
    BY <2>1, <1>1, Quotient, SMTT(30)
<1>3. NearestInt(2 * (p - g.lo) - g.range, 2 * Length) \in Int
  <2>1. 2 * (p - g.lo) - g.range \in Int /\ 2 * Length \in Nat \ {0}
    BY <1>1
  <2>2. QED
    BY <2>1, NearestIntBound
<1>4. Folded(g, p) \in Int
  <2> DEFINE m == NearestInt(2 * (p - g.lo) - g.range, 2 * Length)
             r == (p - g.lo) % Length
  <2>1. m \in Int /\ r \in Int
    BY <1>2, <1>3
  <2>2. Folded(g, p) = g.lo + r \/ Folded(g, p) = p - Length * m \/ Folded(g, p) = p
    BY DEF Folded
  <2> HIDE DEF m, r
  <2>3. QED
    BY <2>1, <2>2, <1>1
<1>5. Scaled(g, p) \in Int
  <2>1. (Folded(g, p) - g.lo) * g.cells \in Int
    BY <1>1, <1>4
  <2>2. QED
    BY <2>1, <1>1, Quotient DEF Scaled
<1>6. ASSUME g.wraps PROVE Folded(g, p) = p % Length
  <2>1. g.lo = 0 /\ p - 0 = p
    BY <1>6 DEF GridShape
  <2>2. Folded(g, p) = 0 + (p % Length)
    BY <1>6, <2>1 DEF Folded
  <2>3. p % Length \in Int
    BY <1>1, Quotient
  <2>4. QED
    BY <2>2, <2>3
<1> QED BY <1>4, <1>5, <1>6

LEMMA CellType ==
  ASSUME TypeOK, NEW g, GridShape(g), NEW p \in Int
  PROVE  CellOf(g, p) \in 0 .. g.cells - 1
<1>1. Scaled(g, p) \in Int /\ g.cells \in Nat \ {0}
  BY FoldedType DEF GridShape
<1>2. CellOf(g, p) = IF Scaled(g, p) < 0 THEN 0
                     ELSE IF Scaled(g, p) >= g.cells THEN g.cells - 1 ELSE Scaled(g, p)
  BY DEF CellOf, Scaled
<1> QED BY <1>1, <1>2

LEMMA WrappedCell ==
  ASSUME NEW k \in Nat \ {0}, NEW c \in 0 .. k - 1, NEW d \in {-1, 0, 1}
  PROVE  (c + d + k) % k = IF c + d < 0 THEN k - 1 ELSE IF c + d >= k THEN 0 ELSE c + d
<1>1. CASE c + d < 0
  <2>1. c + d + k = k - 1
    BY <1>1
  <2>2. QED
    BY <2>1, <1>1
<1>2. CASE c + d >= k
  <2>1. c + d + k = 2 * k
    BY <1>2
  <2>2. QED
    BY <2>1, <1>2
<1>3. CASE c + d \in 0 .. k - 1
  <2>1. c + d + k = 1 * k + (c + d)
    BY <1>3
  <2>2. QED
    BY <2>1, <1>3
<1> QED BY <1>1, <1>2, <1>3

\* No offset leads to a cell another one leads to.
LEMMA OffsetsDistinct ==
  ASSUME TypeOK, NEW g, GridShape(g), NEW p \in Int,
         NEW d \in Offsets(g), NEW e \in Offsets(g), CellAt(g, p, d) = CellAt(g, p, e)
  PROVE  d = e
<1>1. CellOf(g, p) \in 0 .. g.cells - 1 /\ g.cells \in Nat \ {0} /\ g.wraps \in BOOLEAN
  BY CellType DEF GridShape
<1>2. d \in {-1, 0, 1} /\ e \in {-1, 0, 1}
  BY DEF Offsets
<1>3. CASE ~g.wraps
  BY <1>1, <1>2, <1>3 DEF CellAt
<1>4. CASE g.wraps
  <2> DEFINE c == CellOf(g, p)
             k == g.cells
  <2>1. k \in Nat \ {0} /\ k >= 3 /\ c \in 0 .. k - 1
    BY <1>1, <1>4 DEF GridShape
  <2>2. (c + d + k) % k = (c + e + k) % k
    BY <1>4 DEF CellAt
  <2> HIDE DEF c, k
  <2>3. /\ (c + d + k) % k = IF c + d < 0 THEN k - 1 ELSE IF c + d >= k THEN 0 ELSE c + d
        /\ (c + e + k) % k = IF c + e < 0 THEN k - 1 ELSE IF c + e >= k THEN 0 ELSE c + e
    BY <2>1, <1>2, WrappedCell
  <2>4. QED
    BY <2>1, <2>2, <2>3, <1>2
<1> QED BY <1>1, <1>3, <1>4

\* An atom is examined once if an offset leads to its cell, else not at all.
LEMMA VisitCount ==
  ASSUME TypeOK, NEW i \in Zones, NEW p \in Int, NEW q \in Int
  PROVE  /\ Visits(i, p, q) <= 1
         /\ (\E d \in Offsets(GridOf(i)) : CellAt(GridOf(i), p, d) = CellOf(GridOf(i), q))
              => Visits(i, p, q) = 1
<1> DEFINE g == GridOf(i)
           Hits == {d \in Offsets(g) : CellAt(g, p, d) = CellOf(g, q)}
<1>1. GridShape(g)
  BY GridFacts
<1>2. Visits(i, p, q) = Cardinality(Hits)
  BY DEF Visits
<1>3. \A d, e \in Hits : d = e
  <2> HIDE DEF g
  <2>1. QED
    BY <1>1, OffsetsDistinct
<1>4. CASE Hits = {}
  <2>1. Visits(i, p, q) = 0
    BY <1>2, <1>4, FS_EmptySet
  <2>2. QED
    BY <2>1, <1>4
<1>5. CASE Hits # {}
  <2>1. PICK d \in Hits : TRUE
    BY <1>5
  <2>2. Hits = {d}
    BY <1>3, <2>1
  <2>3. Visits(i, p, q) = 1
    BY <1>2, <2>2, FS_Singleton
  <2>4. QED
    BY <2>3
<1> QED BY <1>4, <1>5

-----------------------------------------------------------------------------
(* Near atoms are in adjacent cells.                                         *)

\* The cells of two coordinates closer than the cutoff, in a grid whose cells
\* are wider, are the same or adjacent, clamped or not.
LEMMA AdjacentCells ==
  ASSUME TypeOK, NEW g, GridShape(g), g.cells > 1, NEW p \in Int, NEW q \in Int,
         Folded(g, p) - Folded(g, q) < Cutoff
  PROVE  CellOf(g, p) - CellOf(g, q) <= 1
<1>1. /\ g.lo \in Int /\ g.range \in Nat \ {0} /\ g.cells \in Nat \ {0}
      /\ g.cells * Cutoff < g.range /\ Cutoff \in Nat \ {0}
  BY MembershipAssumption DEF MembershipAssumption, GridShape
<1> DEFINE u == Folded(g, p) - g.lo
           v == Folded(g, q) - g.lo
           k == g.cells
<1>2. u \in Int /\ v \in Int /\ u - v < Cutoff
  BY <1>1, FoldedType
<1>3. u * k - v * k < g.range
  <2> HIDE DEF u, v
  <2>1. (Cutoff - (u - v)) * k >= 0
    BY <1>1, <1>2
  <2>2. (Cutoff - (u - v)) * k = k * Cutoff - (u * k - v * k)
    BY <1>1, <1>2
  <2> DEFINE kc == k * Cutoff
             uk == u * k
             vk == v * k
  <2>3. kc \in Int /\ uk \in Int /\ vk \in Int /\ kc - (uk - vk) >= 0 /\ kc < g.range
    BY <2>1, <2>2, <1>1, <1>2
  <2> HIDE DEF kc, uk, vk
  <2>4. uk - vk < g.range
    BY <2>3, <1>1
  <2>5. QED
    BY <2>4 DEF uk, vk
<1>4. u * k \in Int /\ v * k \in Int
  BY <1>1, <1>2
<1>5. Scaled(g, p) = (u * k) \div g.range /\ Scaled(g, q) = (v * k) \div g.range
  BY DEF Scaled
<1>6. Scaled(g, p) - Scaled(g, q) <= 1 /\ Scaled(g, p) \in Int /\ Scaled(g, q) \in Int
  <2> HIDE DEF u, v, k
  <2>1. QED
    BY <1>1, <1>3, <1>4, <1>5, FloorStep
<1>7. /\ CellOf(g, p) = IF Scaled(g, p) < 0 THEN 0
                        ELSE IF Scaled(g, p) >= g.cells THEN g.cells - 1 ELSE Scaled(g, p)
      /\ CellOf(g, q) = IF Scaled(g, q) < 0 THEN 0
                        ELSE IF Scaled(g, q) >= g.cells THEN g.cells - 1 ELSE Scaled(g, q)
  BY DEF CellOf, Scaled
<1> QED BY <1>1, <1>6, <1>7

\* Across the seam of a grid that wraps, the cells are the first and the last.
LEMMA SeamCells ==
  ASSUME TypeOK, NEW g, GridShape(g), g.wraps, NEW p \in Int, NEW q \in Int,
         Folded(g, p) - Folded(g, q) > Length - Cutoff
  PROVE  CellOf(g, p) = g.cells - 1 /\ CellOf(g, q) = 0
<1>1. /\ g.lo = 0 /\ g.range = Length /\ Length \in Nat \ {0} /\ g.cells \in Nat \ {0}
      /\ g.cells >= 3
      /\ g.cells * Cutoff < Length /\ Cutoff \in Nat \ {0}
  BY LengthType, MembershipAssumption DEF MembershipAssumption, GridShape
<1> DEFINE u == Folded(g, p)
           v == Folded(g, q)
           k == g.cells
<1>2. u \in 0 .. Length - 1 /\ v \in 0 .. Length - 1 /\ u - v > Length - Cutoff
  <2>1. u = p % Length /\ v = q % Length
    BY FoldedType
  <2>2. p % Length \in 0 .. Length - 1 /\ q % Length \in 0 .. Length - 1
    BY <1>1, Quotient
  <2> HIDE DEF u, v
  <2>3. u \in 0 .. Length - 1 /\ v \in 0 .. Length - 1
    BY <2>1, <2>2
  <2>4. QED
    BY <2>3 DEF u, v
<1>3. Scaled(g, p) = (u * k) \div Length /\ Scaled(g, q) = (v * k) \div Length
  BY <1>1, <1>2 DEF Scaled
<1> HIDE DEF u, v, k
<1>4. k \in Nat \ {0} /\ k * Cutoff < Length
  BY <1>1 DEF k
<1>5. v * k < Length /\ 0 <= v * k
  <2>1. v < Cutoff
    BY <1>1, <1>2
  <2>2. (Cutoff - v) * k >= 0
    BY <2>1, <1>1, <1>2, <1>4
  <2>3. (Cutoff - v) * k = k * Cutoff - v * k
    BY <1>1, <1>2, <1>4
  <2>4. 0 <= v * k
    BY <1>2, <1>4
  <2> DEFINE kc == k * Cutoff
             vk == v * k
  <2>5. kc \in Int /\ vk \in Int /\ kc - vk >= 0 /\ kc < Length
    BY <2>2, <2>3, <1>1, <1>2, <1>4
  <2> HIDE DEF kc, vk
  <2>6. vk < Length
    BY <2>5, <1>1
  <2>7. QED
    BY <2>4, <2>6 DEF vk
<1>6. (k - 1) * Length <= u * k /\ u * k < k * Length
  <2>1. Length - u < Cutoff
    BY <1>1, <1>2
  <2>2. (Cutoff - (Length - u)) * k >= 0 /\ (Length - 1 - u) * k >= 0
    BY <2>1, <1>1, <1>2, <1>4
  <2>3. /\ (Cutoff - (Length - u)) * k = k * Cutoff - (k * Length - u * k)
        /\ (Length - 1 - u) * k = k * Length - k - u * k
        /\ (k - 1) * Length = k * Length - Length
    BY <1>1, <1>2, <1>4
  <2> DEFINE kc == k * Cutoff
             uk == u * k
             kl == k * Length
  <2>4. kc \in Int /\ uk \in Int /\ kl \in Int /\ kc < Length
        /\ kc - (kl - uk) >= 0 /\ kl - k - uk >= 0
    BY <2>2, <2>3, <1>1, <1>2, <1>4
  <2> HIDE DEF kc, uk, kl
  <2>5. kl - Length <= uk /\ uk < kl
    BY <2>4, <1>1, <1>4
  <2>6. QED
    BY <2>5, <2>3 DEF uk, kl
<1>7. (v * k) \div Length = 0 /\ (u * k) \div Length = k - 1
  <2> DEFINE a == (v * k) \div Length
             b == (u * k) \div Length
  <2>1. v * k \in Int /\ u * k \in Int
    BY <1>2, <1>4
  <2>2. /\ a \in Int /\ (v * k) % Length \in 0 .. Length - 1 /\ v * k = a * Length + ((v * k) % Length)
        /\ b \in Int /\ (u * k) % Length \in 0 .. Length - 1 /\ u * k = b * Length + ((u * k) % Length)
    <3> DEFINE vk == v * k
               uk == u * k
    <3>1. vk \in Int /\ uk \in Int
      BY <2>1
    <3> HIDE DEF vk, uk
    <3>2. /\ vk \div Length \in Int /\ vk % Length \in 0 .. Length - 1
          /\ vk = (vk \div Length) * Length + (vk % Length)
          /\ uk \div Length \in Int /\ uk % Length \in 0 .. Length - 1
          /\ uk = (uk \div Length) * Length + (uk % Length)
      BY <3>1, <1>1, Quotient
    <3>3. QED
      BY <3>2 DEF vk, uk
  <2> HIDE DEF a, b
  <2>3. /\ a * Length < 1 * Length /\ (-1) * Length < a * Length
        /\ b * Length < k * Length /\ (k - 2) * Length < b * Length
    <3>1. (k - 2) * Length = (k - 1) * Length - Length
      BY <1>1, <1>4
    <3> DEFINE aL == a * Length
               bL == b * Length
               kL == k * Length
               k1 == (k - 1) * Length
               vk == v * k
               uk == u * k
               ra == vk % Length
               rb == uk % Length
    <3>2. /\ aL \in Int /\ bL \in Int /\ kL \in Int /\ k1 \in Int
          /\ ra \in 0 .. Length - 1 /\ rb \in 0 .. Length - 1
          /\ vk = aL + ra /\ uk = bL + rb
          /\ vk < Length /\ 0 <= vk /\ k1 <= uk /\ uk < kL
      BY <2>1, <2>2, <1>1, <1>4, <1>5, <1>6
    <3> HIDE DEF aL, bL, kL, k1, vk, uk, ra, rb
    <3>3. aL < Length /\ -Length < aL /\ bL < kL /\ k1 - Length < bL
      BY <3>2, <1>1
    <3>4. QED
      BY <3>1, <3>3, <1>1 DEF aL, bL, kL, k1
  <2>4. a < 1 /\ -1 < a
    BY <2>2, <2>3, <1>1, Monotone
  <2>5. b < k /\ k - 2 < b
    <3>1. k - 2 \in Int /\ k \in Int
      BY <1>4
    <3>2. QED
      BY <3>1, <2>2, <2>3, <1>1, Monotone
  <2>6. a = 0 /\ b = k - 1
    BY <2>2, <2>4, <2>5, <1>4
  <2>7. QED
    BY <2>6 DEF a, b
<1>8. Scaled(g, p) = g.cells - 1 /\ Scaled(g, q) = 0
  BY <1>3, <1>7 DEF k
<1>9. /\ CellOf(g, p) = IF Scaled(g, p) < 0 THEN 0
                        ELSE IF Scaled(g, p) >= g.cells THEN g.cells - 1 ELSE Scaled(g, p)
      /\ CellOf(g, q) = IF Scaled(g, q) < 0 THEN 0
                        ELSE IF Scaled(g, q) >= g.cells THEN g.cells - 1 ELSE Scaled(g, q)
  BY DEF CellOf, Scaled
<1> QED BY <1>1, <1>8, <1>9

\* The images a grid that does not wrap looks up are as close as the atoms,
\* for an atom of the grid's own zone that the guard let through: it lies so far
\* from the seam of the folding that a near atom is on the same side.
LEMMA FoldedNear ==
  ASSUME TypeOK, NEW i \in Zones, ~Unbuildable, ~Alone, NEW p \in Int, NEW q \in Int,
         n >= 3 => MembershipOk(i, Wrapped(q)), Near(p, q)
  PROVE  LET e == Folded(GridOf(i), p) - Folded(GridOf(i), q)
         IN  -Cutoff < e /\ e < Cutoff
<1> DEFINE g == GridOf(i)
<1>1. Length \in Nat \ {0} /\ n \in Nat \ {0} /\ width \in Nat \ {0} /\ pbc \in BOOLEAN
  BY LengthType DEF TypeOK
<1>2. Cutoff \in Nat \ {0} /\ i \in Int
  BY <1>1, MembershipAssumption DEF MembershipAssumption, Zones
<1>3. g.lo = i * width - Cutoff /\ g.range = width + 2 * Cutoff /\ ~g.wraps
  BY GridFacts
<1>4. CASE ~pbc
  <2>1. Folded(g, p) = p /\ Folded(g, q) = q
    BY <1>3, <1>4 DEF Folded
  <2> HIDE DEF g
  <2>2. p - q < Cutoff /\ q - p < Cutoff
    BY <1>4 DEF Near
  <2>3. QED
    BY <2>1, <2>2, <1>2 DEF g
<1>5. CASE pbc
  <2> DEFINE lo == i * width
             P(x) == 2 * (x - g.lo) - g.range
  <2>1. n >= 3 /\ width >= Cutoff
    BY <1>1, <1>2, <1>5 DEF Unbuildable, TooThin, Alone
  <2>2. lo \in Int /\ Length >= 3 * width
    <3>1. (n - 3) * width >= 0
      BY <2>1, <1>1
    <3>2. (n - 3) * width = Length - 3 * width
      BY <1>1 DEF Length
    <3>3. QED
      BY <3>1, <3>2, <1>1, <1>2
  <2>3. PICK k \in Int : /\ 2 * (lo - (q + k * Length)) <= width - Cutoff
                         /\ 2 * ((q + k * Length) - lo - width) <= width - Cutoff
    BY <2>1, <1>5, ImageInWindow
  <2>4. PICK m \in Int : -Cutoff < p - q - m * Length /\ p - q - m * Length < Cutoff
    BY <1>5, NearImages
  <2>5. \A x \in Int, t \in Int :
          (/\ 2 * P(x) + t * (4 * Length) < 2 * Length
           /\ -(2 * Length) < 2 * P(x) + t * (4 * Length))
            => Folded(g, x) = x + t * Length
    <3> SUFFICES ASSUME NEW x \in Int, NEW t \in Int,
                        2 * P(x) + t * (4 * Length) < 2 * Length,
                        -(2 * Length) < 2 * P(x) + t * (4 * Length)
                 PROVE  Folded(g, x) = x + t * Length
      OBVIOUS
    <3>1. P(x) \in Int
      BY <1>2, <1>3, <2>2, <1>1
    <3>2. NearestInt(P(x), 2 * Length) = -t
      <4> DEFINE y == P(x)
                 tL == t * Length
      <4>1. y \in Int /\ tL \in Int /\ 2 * Length \in Nat \ {0} /\ -t \in Int
        BY <3>1, <1>1
      <4>2. (-t) * (2 * Length) = -(2 * tL) /\ t * (4 * Length) = 4 * tL
        BY <1>1
      <4>3. 2 * y + 4 * tL < 2 * Length /\ -(2 * Length) < 2 * y + 4 * tL
        BY <4>2
      <4> HIDE DEF y, tL
      <4>4. 2 * (y - (-t) * (2 * Length)) < 2 * Length
            /\ -(2 * Length) < 2 * (y - (-t) * (2 * Length))
        BY <4>1, <4>2, <4>3, <1>1
      <4>5. NearestInt(y, 2 * Length) = -t
        BY <4>1, <4>4, NearestIntUnique
      <4>6. QED
        BY <4>5 DEF y
    <3>3. Folded(g, x) = x - Length * NearestInt(P(x), 2 * Length)
      BY <1>3, <1>5 DEF Folded
    <3>4. x - Length * (-t) = x + t * Length
      BY <1>1
    <3>5. QED
      BY <3>2, <3>3, <3>4
  <2> DEFINE kL == k * Length
             mL == m * Length
  <2>6. kL \in Int /\ mL \in Int
    BY <1>1
  <2>7. /\ P(q) = 2 * (q - lo) - width
        /\ P(p) = 2 * (p - lo) - width
    BY <1>1, <1>2, <1>3, <2>2
  <2>8. Folded(g, q) = q + kL
    <3>1. k * (4 * Length) = 4 * kL
      BY <1>1
    <3>2. 2 * P(q) + 4 * kL < 2 * Length /\ -(2 * Length) < 2 * P(q) + 4 * kL
      <4> DEFINE y == P(q)
      <4>1. y = 2 * (q - lo) - width
        BY <2>7
      <4>2. 2 * (lo - (q + kL)) <= width - Cutoff /\ 2 * ((q + kL) - lo - width) <= width - Cutoff
        BY <2>3
      <4> HIDE DEF y, lo, kL
      <4>3. 2 * y + 4 * kL < 2 * Length /\ -(2 * Length) < 2 * y + 4 * kL
        BY <4>1, <4>2, <2>1, <2>2, <2>6, <1>1, <1>2
      <4>4. QED
        BY <4>3 DEF y
    <3> HIDE DEF P
    <3>3. QED
      BY <3>1, <3>2, <2>5
  <2>9. Folded(g, p) = p + (kL - mL)
    <3>1. (k - m) * (4 * Length) = 4 * (kL - mL) /\ (k - m) * Length = kL - mL /\ k - m \in Int
      BY <1>1
    <3>2. 2 * P(p) + 4 * (kL - mL) < 2 * Length /\ -(2 * Length) < 2 * P(p) + 4 * (kL - mL)
      <4> DEFINE y == P(p)
      <4>1. y = 2 * (p - lo) - width
        BY <2>7
      <4>2. /\ 2 * (lo - (q + kL)) <= width - Cutoff /\ 2 * ((q + kL) - lo - width) <= width - Cutoff
            /\ -Cutoff < p - q - mL /\ p - q - mL < Cutoff
        BY <2>3, <2>4
      <4> HIDE DEF y, lo, kL, mL
      <4>3. 2 * y + 4 * (kL - mL) < 2 * Length /\ -(2 * Length) < 2 * y + 4 * (kL - mL)
        BY <4>1, <4>2, <2>1, <2>2, <2>6, <1>1, <1>2
      <4>4. QED
        BY <4>3 DEF y
    <3> HIDE DEF P
    <3>3. QED
      BY <3>1, <3>2, <2>5
  <2>10. -Cutoff < p - q - mL /\ p - q - mL < Cutoff
    BY <2>4
  <2> HIDE DEF kL, mL, g
  <2>11. Folded(g, p) - Folded(g, q) = p - q - mL
    BY <2>6, <2>8, <2>9
  <2>12. QED
    BY <2>10, <2>11 DEF g
<1> QED BY <1>1, <1>4, <1>5

\* Near atoms of a periodic box are close inside it or across its seam.
LEMMA NearRemainders ==
  ASSUME TypeOK, pbc, NEW p \in Int, NEW q \in Int, Near(p, q)
  PROVE  LET e == (p % Length) - (q % Length)
         IN  (-Cutoff < e /\ e < Cutoff) \/ e > Length - Cutoff \/ -e > Length - Cutoff
<1>1. Length \in Nat \ {0} /\ Cutoff \in Nat \ {0}
  BY LengthType, MembershipAssumption DEF MembershipAssumption
<1> DEFINE r == p % Length
           s == q % Length
           a == p \div Length
           b == q \div Length
<1>2. /\ r \in 0 .. Length - 1 /\ a \in Int /\ p = a * Length + r
      /\ s \in 0 .. Length - 1 /\ b \in Int /\ q = b * Length + s
  BY <1>1, Quotient
<1>3. PICK k \in Int : -Cutoff < p - q - k * Length /\ p - q - k * Length < Cutoff
  BY NearImages
<1> HIDE DEF r, s, a, b
<1> DEFINE t == a - b - k
           f == r - s + t * Length
<1>4. p - q - k * Length = f
  <2>1. t * Length = a * Length - b * Length - k * Length
    BY <1>1, <1>2, <1>3
  <2>2. QED
    BY <2>1, <1>1, <1>2, <1>3
<1>5. -Cutoff < f /\ f < Cutoff /\ t \in Int
  BY <1>2, <1>3, <1>4
<1>6. SUFFICES \/ -Cutoff < r - s /\ r - s < Cutoff
               \/ r - s > Length - Cutoff
               \/ s - r > Length - Cutoff
  BY <1>2 DEF r, s
<1> HIDE DEF t
<1>7. CASE t = 0
  <2>1. t * Length = 0
    BY <1>7, <1>1
  <2>2. QED
    BY <2>1, <1>5, <1>2
<1>8. CASE t >= 1
  <2>1. (t - 1) * Length >= 0 /\ (t - 1) * Length = t * Length - Length
    BY <1>1, <1>5, <1>8
  <2>2. QED
    BY <2>1, <1>1, <1>2, <1>5
<1>9. CASE t <= -1
  <2>1. (-1 - t) * Length >= 0 /\ (-1 - t) * Length = -Length - t * Length
    BY <1>1, <1>5, <1>9
  <2>2. QED
    BY <2>1, <1>1, <1>2, <1>5
<1> QED BY <1>5, <1>7, <1>8, <1>9

\* An atom examines every near one of the zone whose grid it looks into.
LEMMA NearVisited ==
  ASSUME TypeOK, NEW i \in Zones, ~Unbuildable, NEW p \in Int, NEW q \in Int,
         n >= 3 => MembershipOk(i, Wrapped(q)), Near(p, q)
  PROVE  \E d \in Offsets(GridOf(i)) : CellAt(GridOf(i), p, d) = CellOf(GridOf(i), q)
<1> DEFINE g == GridOf(i)
           c == CellOf(g, p)
           e == CellOf(g, q)
<1>1. GridShape(g)
  BY GridFacts
<1>2. g.cells \in Nat \ {0} /\ c \in 0 .. g.cells - 1 /\ e \in 0 .. g.cells - 1
  <2> HIDE DEF g
  <2>1. QED
    BY <1>1, CellType DEF GridShape
<1>3. Cutoff \in Nat \ {0} /\ Length \in Nat \ {0}
  BY MembershipAssumption, LengthType DEF MembershipAssumption
<1>4. CASE g.cells = 1 /\ ~g.wraps
  <2>1. 0 \in Offsets(g) /\ CellAt(g, p, 0) = c + 0 /\ c = 0 /\ e = 0
    BY <1>2, <1>4 DEF Offsets, CellAt
  <2>2. QED
    BY <2>1
<1>5. CASE g.cells # 1 /\ ~g.wraps
  <2>1. ~Alone
    BY <1>5, GridFacts
  <2>2. -Cutoff < Folded(g, p) - Folded(g, q) /\ Folded(g, p) - Folded(g, q) < Cutoff
    BY <2>1, FoldedNear
  <2> HIDE DEF g
  <2>3. Folded(g, p) \in Int /\ Folded(g, q) \in Int /\ g.cells > 1
    BY <1>1, <1>2, <1>5, FoldedType
  <2>4. c - e <= 1 /\ e - c <= 1
    <3>1. Folded(g, q) - Folded(g, p) < Cutoff
      BY <2>2, <2>3, <1>3
    <3>2. QED
      BY <2>2, <2>3, <3>1, <1>1, AdjacentCells
  <2>5. e - c \in Offsets(g) /\ CellAt(g, p, e - c) = c + (e - c)
    BY <2>3, <2>4, <1>2, <1>5 DEF Offsets, CellAt
  <2>6. CellAt(g, p, e - c) = CellOf(g, q)
    BY <2>5, <1>2
  <2>7. QED
    BY <2>5, <2>6 DEF g
<1>6. CASE g.wraps
  <2> DEFINE u == Folded(g, p)
             v == Folded(g, q)
             k == g.cells
  <2> HIDE DEF g
  <2>1. k >= 3 /\ pbc /\ k \in Nat \ {0}
    BY <1>1, <1>2, <1>6 DEF GridShape
  <2>2. u = p % Length /\ v = q % Length
    BY <1>1, <1>6, FoldedType
  <2>3. u \in 0 .. Length - 1 /\ v \in 0 .. Length - 1
    <3>1. p % Length \in 0 .. Length - 1 /\ q % Length \in 0 .. Length - 1
      BY <1>3, Quotient
    <3> HIDE DEF u, v
    <3>2. QED
      BY <2>2, <3>1
  <2>4. \/ -Cutoff < u - v /\ u - v < Cutoff
        \/ u - v > Length - Cutoff
        \/ v - u > Length - Cutoff
    BY <2>1, <2>2, <2>3, NearRemainders
  <2>5. CASE -Cutoff < u - v /\ u - v < Cutoff
    <3>1. u - v < Cutoff /\ v - u < Cutoff
      BY <2>3, <2>5, <1>3
    <3>2. c - e <= 1 /\ e - c <= 1
      BY <3>1, <2>1, <1>1, AdjacentCells
    <3> HIDE DEF c, e, k
    <3>3. e - c \in {-1, 0, 1} /\ c + (e - c) = e
      BY <3>2, <1>2
    <3>4. (c + (e - c) + k) % k = e
      <4>1. c \in 0 .. k - 1 /\ e \in 0 .. k - 1
        BY <1>2 DEF k
      <4> DEFINE d == e - c
      <4>2. d \in {-1, 0, 1} /\ c + d = e
        BY <3>3
      <4> HIDE DEF d
      <4>3. (c + d + k) % k = IF c + d < 0 THEN k - 1 ELSE IF c + d >= k THEN 0 ELSE c + d
        BY <4>1, <4>2, <2>1, WrappedCell
      <4>4. (c + d + k) % k = e
        BY <4>1, <4>2, <4>3, <2>1
      <4>5. QED
        BY <4>4 DEF d
    <3>5. e - c \in Offsets(g) /\ CellAt(g, p, e - c) = e
      BY <3>3, <3>4, <2>1, <1>6 DEF Offsets, CellAt, c, k
    <3>6. QED
      BY <3>5 DEF e, g
  <2>6. CASE u - v > Length - Cutoff
    <3>1. c = k - 1 /\ e = 0
      BY <2>6, <1>1, <1>6, SeamCells
    <3>2. (c + 1 + k) % k = 0
      <4> HIDE DEF c, k
      <4>1. c \in 0 .. k - 1 /\ c + 1 >= k /\ ~(c + 1 < 0)
        BY <3>1, <2>1
      <4>2. QED
        BY <4>1, <2>1, WrappedCell
    <3>3. 1 \in Offsets(g) /\ CellAt(g, p, 1) = e
      <4>1. CellAt(g, p, 1) = (c + 1 + k) % k
        BY <1>6 DEF CellAt
      <4>2. QED
        BY <4>1, <3>1, <3>2, <2>1 DEF Offsets
    <3>4. QED
      BY <3>3 DEF g
  <2>7. CASE v - u > Length - Cutoff
    <3>1. e = k - 1 /\ c = 0
      BY <2>7, <1>1, <1>6, SeamCells
    <3>2. (c + (-1) + k) % k = k - 1
      <4> HIDE DEF c, k
      <4>1. c \in 0 .. k - 1 /\ c + (-1) < 0
        BY <3>1, <2>1
      <4>2. QED
        BY <4>1, <2>1, WrappedCell
    <3>3. -1 \in Offsets(g) /\ CellAt(g, p, -1) = e
      <4>1. CellAt(g, p, -1) = (c + (-1) + k) % k
        BY <1>6 DEF CellAt
      <4>2. QED
        BY <4>1, <3>1, <3>2, <2>1 DEF Offsets
    <3>4. QED
      BY <3>3 DEF g
  <2>8. QED
    BY <2>4, <2>5, <2>6, <2>7
<1> QED BY <1>1, <1>4, <1>5, <1>6 DEF GridShape

\* For every box, cutoff and motion, in a pass that the guard lets through: the
\* cells of a zone show every atom within the cutoff to every atom that looks
\* into them, and none twice.
THEOREM CullingIsExact == Spec => []CullingExact
<1>1. Inv => CullingExact
  <2> SUFFICES ASSUME Inv, status = "running", NEW a \in Atoms, NEW b \in Atoms
               PROVE  /\ Visits(zone[b], z[a], z[b]) <= 1
                      /\ Near(z[a], z[b]) => Visits(zone[b], z[a], z[b]) = 1
    BY DEF CullingExact
  <2>1. TypeOK /\ zone[b] \in Zones /\ z[a] \in Int /\ z[b] \in Int
    BY MembershipAssumption DEF Inv, TypeOK, MembershipAssumption
  <2>2. ~Unbuildable /\ (n >= 3 => MembershipOk(zone[b], Wrapped(z[b])))
    BY DEF Inv, Guarded
  <2>3. QED
    BY <2>1, <2>2, VisitCount, NearVisited
<1> QED BY <1>1, InvInit, InvNext, PTL DEF Spec

=============================================================================
