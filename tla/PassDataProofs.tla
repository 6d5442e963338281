--------------------------- MODULE PassDataProofs ---------------------------
(***************************************************************************)
(* Lemmas about a pass that hold whatever carries its zones: which zone    *)
(* stands at which position, in which order positions end, which pairs are *)
(* counted when, and which time step is due.  Used by the proofs about the *)
(* conveyor on the CPU and about its port to the GPU.                      *)
(*                                                                         *)
(* The positions end in the order 0, 1, ... or, if the head is held back,  *)
(* 1, 2, ..., N-1, 0; the zone that ends as number q of a pass is the zone *)
(* at position q of the next one.                                          *)
(***************************************************************************)
EXTENDS PassData, TLAPS

LEMMA SlabFacts == N \in Nat \ {0} /\ 0 \in Zones /\ N - 1 \in Zones /\ Pbc \in BOOLEAN
BY RingAssumption DEF RingAssumption, Zones

Rank(i) == IF DeferHead THEN IF i = 0 THEN N - 1 ELSE i - 1 ELSE i
Order(q) == IF DeferHead THEN IF q + 1 < N THEN q + 1 ELSE 0 ELSE q

\* The positions whose pairs with position i are counted on i once c positions
\* are computed.
CountedOn(i, c) ==
  {b \in Zones : \/ b = i /\ i < c
                 \/ b = i + 1 /\ i < c
                 \/ b = i - 1 /\ b < c
                 \/ DeferHead /\ c = N /\ {i, b} = {0, N - 1}}

\* The force ledger that counts the zones at the positions in A once.
ZonesAt(h, A) == {ZoneAt(h, a) : a \in A}
LedgerOf(h, A) == [z \in Zones |-> IF z \in ZonesAt(h, A) THEN 1 ELSE 0]

MaskAt(i, c) ==
  IF i > 0 THEN {"prev"} ELSE IF DeferHead /\ c = N THEN {"closure"} ELSE {}

-----------------------------------------------------------------------------
(* Positions and zones.                                                      *)

LEMMA SmallMod ==
  /\ \A x \in 0 .. N - 1 : x % N = x
  /\ \A x \in N .. 2 * N - 1 : x % N = x - N
BY SlabFacts

LEMMA SuccMod ==
  ASSUME NEW x \in Nat
  PROVE  /\ x % N \in 0 .. N - 1
         /\ (x + 1) % N = IF (x % N) + 1 < N THEN (x % N) + 1 ELSE 0
<1>1. N \in Nat \ {0}
  BY SlabFacts
<1>2. \A y \in Nat : /\ y % N \in 0 .. N - 1 /\ y \div N \in Int
                     /\ y = N * (y \div N) + (y % N)
  <2> TAKE y \in Nat
  <2>1. y % N \in 0 .. N - 1
    BY <1>1
  <2>2. y = N * (y \div N) + (y % N) /\ y \div N \in Int
    BY <1>1
  <2>3. QED
    BY <2>1, <2>2
<1> DEFINE q == x \div N
           r == x % N
           u == (x + 1) \div N
           t == (x + 1) % N
<1>a. /\ q \in Int /\ u \in Int /\ r \in 0 .. N - 1 /\ t \in 0 .. N - 1
      /\ x = N * q + r /\ x + 1 = N * u + t
  BY <1>2
<1> HIDE DEF q, r, u, t
<1>3. N * (u - q) = r + 1 - t
  BY <1>1, <1>a
<1>4. u - q \in {0, 1}
  <2>1. u - q >= 2 => N * (u - q) >= 2 * N
    BY <1>1, <1>a
  <2>2. u - q <= -1 => N * (u - q) <= -N
    BY <1>1, <1>a
  <2>3. QED
    BY <1>1, <1>a, <1>3, <2>1, <2>2
<1>5. t = IF r + 1 < N THEN r + 1 ELSE 0
  BY <1>1, <1>a, <1>3, <1>4
<1>6. QED
  BY <1>a, <1>5 DEF r, t

LEMMA RotationFacts ==
  ASSUME NEW h \in Nat \ {0}
  PROVE  /\ Rotation(h) \in 0 .. N - 1
         /\ ~Pbc => Rotation(h) = 0
         /\ Pbc => Rotation(h + 1) = IF Rotation(h) + 1 < N THEN Rotation(h) + 1 ELSE 0
         /\ Rotation(1) = 0
<1>1. h - 1 \in Nat
  OBVIOUS
<1>2. (h - 1) + 1 = h /\ (h + 1) - 1 = h
  OBVIOUS
<1>3. (h - 1) % N \in 0 .. N - 1
      /\ h % N = IF ((h - 1) % N) + 1 < N THEN ((h - 1) % N) + 1 ELSE 0
  BY <1>1, <1>2, SuccMod
<1>4. N \in Nat \ {0} /\ 0 % N = 0
  BY SmallMod, SlabFacts
<1>5. QED
  BY <1>2, <1>3, <1>4 DEF Rotation

LEMMA ZoneAtForm ==
  ASSUME NEW h \in Nat \ {0}, NEW i \in Zones
  PROVE  /\ ZoneAt(h, i) = IF Rotation(h) + i < N THEN Rotation(h) + i
                           ELSE Rotation(h) + i - N
         /\ ZoneAt(h, i) \in Zones
<1>1. Rotation(h) \in 0 .. N - 1 /\ i \in 0 .. N - 1 /\ N \in Nat \ {0}
  BY RotationFacts, SlabFacts DEF Zones
<1>2. CASE Rotation(h) + i < N
  BY <1>1, <1>2, SmallMod DEF ZoneAt, Zones
<1>3. CASE Rotation(h) + i >= N
  BY <1>1, <1>3, SmallMod DEF ZoneAt, Zones
<1>4. QED
  BY <1>1, <1>2, <1>3

\* The positions of a pass and the zones correspond one to one.
LEMMA ZoneAtInjective ==
  ASSUME NEW h \in Nat \ {0}, NEW i \in Zones, NEW j \in Zones,
         ZoneAt(h, i) = ZoneAt(h, j)
  PROVE  i = j
<1>1. Rotation(h) \in 0 .. N - 1 /\ i \in 0 .. N - 1 /\ j \in 0 .. N - 1 /\ N \in Nat \ {0}
  BY RotationFacts, SlabFacts DEF Zones
<1>2. /\ ZoneAt(h, i) = IF Rotation(h) + i < N THEN Rotation(h) + i ELSE Rotation(h) + i - N
      /\ ZoneAt(h, j) = IF Rotation(h) + j < N THEN Rotation(h) + j ELSE Rotation(h) + j - N
  BY ZoneAtForm
<1>3. (IF Rotation(h) + i < N THEN Rotation(h) + i ELSE Rotation(h) + i - N)
        = IF Rotation(h) + j < N THEN Rotation(h) + j ELSE Rotation(h) + j - N
  BY <1>2
<1>4. QED
  BY <1>1, <1>3

LEMMA ZoneAtOnto ==
  ASSUME NEW h \in Nat \ {0}, NEW z \in Zones
  PROVE  \E i \in Zones : ZoneAt(h, i) = z
<1> DEFINE i == IF z >= Rotation(h) THEN z - Rotation(h) ELSE z + N - Rotation(h)
<1>0. Rotation(h) \in 0 .. N - 1 /\ z \in 0 .. N - 1 /\ N \in Nat \ {0}
  BY RotationFacts, SlabFacts DEF Zones
<1>1. i \in Zones
  BY <1>0 DEF Zones
<1>2. ZoneAt(h, i) = z
  <2>1. ZoneAt(h, i) = IF Rotation(h) + i < N THEN Rotation(h) + i ELSE Rotation(h) + i - N
    BY <1>1, ZoneAtForm
  <2>2. QED
    BY <1>0, <2>1
<1>3. QED
  BY <1>1, <1>2

LEMMA DeferFacts ==
  /\ DeferHead => Pbc /\ N >= 3
  /\ Pbc /\ ~DeferHead => N = 1
BY SlabFacts, RingAssumption DEF DeferHead, RingAssumption

\* Rank and Order are inverse: the position that ends q-th.
LEMMA OrderFacts ==
  /\ \A q \in Zones : Order(q) \in Zones /\ Rank(Order(q)) = q
  /\ \A i \in Zones : Rank(i) \in Zones /\ Order(Rank(i)) = i
BY SlabFacts DEF Order, Rank, Zones

\* The zone a pass sends q-th is the one the next pass expects q-th.
LEMMA HandOver ==
  ASSUME NEW h \in Nat \ {0}, NEW q \in Zones
  PROVE  ZoneAt(h, Order(q)) = ZoneAt(h + 1, q)
<1>1. h + 1 \in Nat \ {0} /\ Order(q) \in Zones
  BY OrderFacts
<1>2. CASE DeferHead
  <2>1. /\ ZoneAt(h, Order(q)) = IF Rotation(h) + Order(q) < N THEN Rotation(h) + Order(q)
                                ELSE Rotation(h) + Order(q) - N
        /\ ZoneAt(h + 1, q) = IF Rotation(h + 1) + q < N THEN Rotation(h + 1) + q
                              ELSE Rotation(h + 1) + q - N
    BY <1>1, ZoneAtForm
  <2>2. /\ Rotation(h) \in 0 .. N - 1 /\ q \in 0 .. N - 1 /\ N \in Nat \ {0}
        /\ Rotation(h + 1) = IF Rotation(h) + 1 < N THEN Rotation(h) + 1 ELSE 0
        /\ Order(q) = IF q + 1 < N THEN q + 1 ELSE 0
    BY <1>2, RotationFacts, DeferFacts, SlabFacts DEF Order, Zones
  <2>3. QED
    BY <2>1, <2>2
<1>3. CASE ~DeferHead
  <2>1. Rotation(h) = 0 /\ Rotation(h + 1) = 0
    BY <1>1, <1>3, RotationFacts, DeferFacts, SlabFacts
  <2>2. QED
    BY <1>1, <1>3, <2>1, ZoneAtForm DEF Order
<1>4. QED
  BY <1>2, <1>3

\* Which positions hold interacting zones.
Beside(i, b) == b = i + 1 \/ i = b + 1 \/ (DeferHead /\ {i, b} = {0, N - 1})

LEMMA AdjacentPositions ==
  ASSUME NEW h \in Nat \ {0}, NEW i \in Zones, NEW b \in Zones
  PROVE  ZoneAt(h, b) \in Adjacent(ZoneAt(h, i)) <=> Beside(i, b)
<1> DEFINE Wrap(z) == IF z + 1 < N THEN z + 1 ELSE 0
<1>1. \A z \in Zones : (z + 1) % N = Wrap(z)
  BY SmallMod, SlabFacts DEF Zones
<1>2. \A y, z \in Zones : z \in Adjacent(y) <=>
        \/ N > 1 /\ (Wrap(y) > y \/ Pbc) /\ z = Wrap(y)
        \/ N > 1 /\ (Wrap(z) > z \/ Pbc) /\ y = Wrap(z)
  BY <1>1 DEF Adjacent, CrossPartner
<1>3. /\ ZoneAt(h, i) \in Zones /\ ZoneAt(h, b) \in Zones
      /\ i \in 0 .. N - 1 /\ b \in 0 .. N - 1 /\ N \in Nat \ {0}
      /\ Rotation(h) \in 0 .. N - 1
  BY ZoneAtForm, RotationFacts, SlabFacts DEF Zones
<1>4. CASE DeferHead
  <2>1. Pbc /\ N >= 3
    BY <1>4, DeferFacts
  <2>2. {i, b} = {0, N - 1} <=> (i = 0 /\ b = N - 1) \/ (b = 0 /\ i = N - 1)
    BY <1>3, <2>1
  <2>3. ZoneAt(h, b) \in Adjacent(ZoneAt(h, i)) <=>
          ZoneAt(h, b) = Wrap(ZoneAt(h, i)) \/ ZoneAt(h, i) = Wrap(ZoneAt(h, b))
    <3>1. N > 1
      BY <1>3, <2>1
    <3>2. \A y, z \in Zones : z \in Adjacent(y) <=> z = Wrap(y) \/ y = Wrap(z)
      BY <1>2, <2>1, <3>1
    <3>3. QED
      BY <1>3, <3>2
  <2>4. /\ ZoneAt(h, i) = IF Rotation(h) + i < N THEN Rotation(h) + i ELSE Rotation(h) + i - N
        /\ ZoneAt(h, b) = IF Rotation(h) + b < N THEN Rotation(h) + b ELSE Rotation(h) + b - N
    BY ZoneAtForm
  <2>5. Beside(i, b) <=> \/ b = i + 1 \/ i = b + 1
                         \/ (i = 0 /\ b = N - 1) \/ (b = 0 /\ i = N - 1)
    BY <1>4, <2>2 DEF Beside
  <2>6. QED
    BY <1>3, <2>1, <2>3, <2>4, <2>5
<1>5. CASE ~DeferHead
  <2>1. N = 1 \/ ~Pbc
    BY <1>5, DeferFacts, SlabFacts
  <2>2. ZoneAt(h, i) = i /\ ZoneAt(h, b) = b
    <3>1. Rotation(h) = 0
      BY <1>3, <2>1, RotationFacts
    <3>2. QED
      BY <1>3, <3>1, ZoneAtForm
  <2>3. Beside(i, b) <=> b = i + 1 \/ i = b + 1
    BY <1>5 DEF Beside
  <2>4. b \in Adjacent(i) <=>
          \/ N > 1 /\ (Wrap(i) > i \/ Pbc) /\ b = Wrap(i)
          \/ N > 1 /\ (Wrap(b) > b \/ Pbc) /\ i = Wrap(b)
    BY <1>2
  <2>5. QED
    BY <1>3, <2>1, <2>2, <2>3, <2>4
<1>6. QED
  BY <1>4, <1>5

-----------------------------------------------------------------------------
(* The force ledgers.                                                        *)

LEMMA LedgerEmpty == \A h : LedgerOf(h, {}) = NoForces
<1>1. \A h : ZonesAt(h, {}) = {}
  BY DEF ZonesAt
<1>2. QED
  BY <1>1 DEF LedgerOf, NoForces

LEMMA LedgerAdd ==
  ASSUME NEW h \in Nat \ {0}, NEW A \in SUBSET Zones, NEW b \in Zones, b \notin A
  PROVE  /\ LedgerOf(h, A) \in [Zones -> Nat]
         /\ [LedgerOf(h, A) EXCEPT ![ZoneAt(h, b)] = @ + 1] = LedgerOf(h, A \cup {b})
<1>1. ZoneAt(h, b) \in Zones /\ ZoneAt(h, b) \notin ZonesAt(h, A)
  BY ZoneAtForm, ZoneAtInjective DEF ZonesAt
<1>2. ZonesAt(h, A \cup {b}) = ZonesAt(h, A) \cup {ZoneAt(h, b)}
  BY DEF ZonesAt
<1>3. LedgerOf(h, A) \in [Zones -> Nat]
  BY DEF LedgerOf
<1>4. ASSUME NEW z \in Zones
      PROVE  LedgerOf(h, A \cup {b})[z] =
               IF z = ZoneAt(h, b) THEN LedgerOf(h, A)[z] + 1 ELSE LedgerOf(h, A)[z]
  BY <1>1, <1>2 DEF LedgerOf
<1>5. LedgerOf(h, A \cup {b}) = [z \in Zones |-> LedgerOf(h, A \cup {b})[z]]
  BY DEF LedgerOf
<1>6. QED
  BY <1>1, <1>3, <1>4, <1>5

\* A zone whose pairs are all counted has its complete force.
LEMMA LedgerFull ==
  ASSUME NEW h \in Nat \ {0}, NEW i \in Zones, NEW c \in 0 .. N, i < c,
         DeferHead /\ i = 0 => c = N
  PROVE  LedgerOf(h, CountedOn(i, c)) = FullForces(ZoneAt(h, i))
<1>1. \A b \in Zones : b \in CountedOn(i, c) <=> b = i \/ Beside(i, b)
  <2>1. i \in 0 .. N - 1 /\ N \in Nat \ {0} /\ (i = N - 1 => c = N)
    BY SlabFacts DEF Zones
  <2> TAKE b \in Zones
  <2>2. b \in 0 .. N - 1
    BY DEF Zones
  <2>3. {i, b} = {0, N - 1} => i = 0 \/ i = N - 1
    OBVIOUS
  <2>4. QED
    BY <2>1, <2>2, <2>3 DEF CountedOn, Beside
<1>2. \A b \in Zones : ZoneAt(h, b) \in Zones /\ ZoneAt(h, i) \in Zones
        /\ (ZoneAt(h, b) = ZoneAt(h, i) <=> b = i)
        /\ (ZoneAt(h, b) \in Adjacent(ZoneAt(h, i)) <=> Beside(i, b))
  BY ZoneAtForm, ZoneAtInjective, AdjacentPositions
<1>3. ASSUME NEW z \in Zones
      PROVE  z \in ZonesAt(h, CountedOn(i, c))
               <=> z = ZoneAt(h, i) \/ z \in Adjacent(ZoneAt(h, i))
  <2>1. PICK b \in Zones : z = ZoneAt(h, b)
    BY ZoneAtOnto
  <2>2. z \in ZonesAt(h, CountedOn(i, c)) <=> b \in CountedOn(i, c)
    BY <2>1, ZoneAtInjective DEF CountedOn, ZonesAt
  <2>3. QED
    BY <1>1, <1>2, <2>1, <2>2
<1>4. QED
  BY <1>3 DEF LedgerOf, FullForces

\* What a computed position adds to the ledgers: its own pairs and those with
\* the next position to its own, its own to the next one's, and to the held
\* head's when it is the tail.
LEMMA CountedSteps ==
  ASSUME NEW c \in Zones
  PROVE  /\ c = 0 => CountedOn(c, c) = {}
         /\ c \notin CountedOn(c, c)
         /\ c + 1 < N => /\ CountedOn(c, c + 1) = (CountedOn(c, c) \cup {c}) \cup {c + 1}
                         /\ c + 1 \notin CountedOn(c, c) \cup {c}
                         /\ CountedOn(c + 1, c + 1) = {} \cup {c}
         /\ c + 1 = N /\ ~DeferHead => CountedOn(c, c + 1) = CountedOn(c, c) \cup {c}
         /\ c + 1 = N /\ DeferHead =>
              /\ CountedOn(c, c + 1) = (CountedOn(c, c) \cup {c}) \cup {0}
              /\ 0 \notin CountedOn(c, c) \cup {c}
              /\ CountedOn(0, c + 1) = CountedOn(0, c) \cup {c}
              /\ c \notin CountedOn(0, c)
         /\ \A i \in Zones \ {c, c + 1} :
              ~(DeferHead /\ c + 1 = N /\ i = 0) => CountedOn(i, c + 1) = CountedOn(i, c)
<1>1. c \in 0 .. N - 1 /\ N \in Nat \ {0} /\ 0 \in 0 .. N - 1
  BY SlabFacts DEF Zones
<1>2. DeferHead => N >= 3
  BY DeferFacts
<1>3. \A i, d, b : b \in CountedOn(i, d) <=>
        /\ b \in 0 .. N - 1
        /\ \/ b = i /\ i < d
           \/ b = i + 1 /\ i < d
           \/ b = i - 1 /\ b < d
           \/ DeferHead /\ d = N /\ ((i = 0 /\ b = N - 1) \/ (i = N - 1 /\ b = 0))
  <2>1. N - 1 # 0 \/ ~DeferHead
    BY <1>1, <1>2
  <2>2. QED
    BY <2>1 DEF CountedOn, Zones
<1>4. c = 0 => CountedOn(c, c) = {}
  BY <1>1, <1>2, <1>3
<1>5. c \notin CountedOn(c, c)
  BY <1>1, <1>2, <1>3
<1>6. c + 1 < N => /\ CountedOn(c, c + 1) = (CountedOn(c, c) \cup {c}) \cup {c + 1}
                   /\ c + 1 \notin CountedOn(c, c) \cup {c}
                   /\ CountedOn(c + 1, c + 1) = {} \cup {c}
  BY <1>1, <1>2, <1>3
<1>7. c + 1 = N /\ ~DeferHead => CountedOn(c, c + 1) = CountedOn(c, c) \cup {c}
  BY <1>1, <1>2, <1>3
<1>8. c + 1 = N /\ DeferHead =>
        /\ CountedOn(c, c + 1) = (CountedOn(c, c) \cup {c}) \cup {0}
        /\ 0 \notin CountedOn(c, c) \cup {c}
        /\ CountedOn(0, c + 1) = CountedOn(0, c) \cup {c}
        /\ c \notin CountedOn(0, c)
  BY <1>1, <1>2, <1>3
<1>9. \A i \in Zones \ {c, c + 1} :
        ~(DeferHead /\ c + 1 = N /\ i = 0) => CountedOn(i, c + 1) = CountedOn(i, c)
  <2> TAKE i \in Zones \ {c, c + 1}
  <2>1. i \in 0 .. N - 1
    BY DEF Zones
  <2>2. SUFFICES ASSUME ~(DeferHead /\ c + 1 = N /\ i = 0)
                 PROVE  CountedOn(i, c + 1) = CountedOn(i, c)
    OBVIOUS
  <2>3. \A b : b \in CountedOn(i, c + 1) <=> b \in CountedOn(i, c)
    BY <1>1, <1>2, <1>3, <2>1, <2>2
  <2>4. QED
    BY <2>3 DEF CountedOn
<1>10. QED
  BY <1>4, <1>5, <1>6, <1>7, <1>8, <1>9

-----------------------------------------------------------------------------
(* What comes next.                                                          *)

LEMMA ScheduledNext ==
  ASSUME NEW h \in Nat \ {0}
  PROVE  ScheduledDt(h + 1) = AutoDt(FullLambda(Lag(h + 1)), ScheduledDt(h))
<1>1. ScheduledDt(h).pass = h
  BY DEF ScheduledDt, DtInitial
<1>2. h + 1 # 1
  OBVIOUS
<1>3. QED
  BY <1>1, <1>2 DEF ScheduledDt, AutoDt

LEMMA AdjacentFacts ==
  ASSUME NEW i \in Zones
  PROVE  /\ Adjacent(i) \subseteq Zones
         /\ \A b \in Adjacent(i) : i \in Adjacent(b)
<1>1. \A b \in Zones : CrossPartner(b) \subseteq Zones
  BY SlabFacts DEF CrossPartner, Zones
<1>2. Adjacent(i) \subseteq Zones
  BY <1>1 DEF Adjacent
<1>3. QED
  BY <1>1, <1>2 DEF Adjacent

=============================================================================
