------------------------- MODULE PairForcesProofs -------------------------
(***************************************************************************)
(* Proofs about PairForces for any finite set of atoms, any contributions,  *)
(* any width and any order of evaluation.                                   *)
(***************************************************************************)
EXTENDS PairForces, FiniteSetTheorems, TLAPS

-----------------------------------------------------------------------------
\* Sums over finite sets.

\* The sum of the function w over the set S, and what defines it: a function
\* on the subsets of a set that adds one summand per element.
Total(w, S) == MapThenSumSet(LAMBDA p : w[p], S)

Additive(F, S, w) ==
  /\ F \in [SUBSET S -> Int]
  /\ F[{}] = 0
  /\ \A A \in SUBSET S : \A p \in A : F[A] = w[p] + F[A \ {p}]

LEMMA LeastNat ==
  ASSUME NEW S \in SUBSET Nat, S # {}
  PROVE  \E g \in S : \A h \in S : g =< h
<1>1. PICK g \in S : \A h \in S : ~(<<h, g>> \in OpToRel(<, Nat))
  <2>1. \A R : IsWellFoundedOn(R, Nat) =>
          \E g \in S : \A h \in S : ~(<<h, g>> \in R)
    BY WFMin, Zenon
  <2>2. QED
    BY <2>1, NatLessThanWellFounded, Zenon
<1>2. \A h \in S : ~(h < g)
  <2>1. \A a, b \in Nat : a < b => <<a, b>> \in OpToRel(<, Nat)
    BY DEF OpToRel
  <2>2. QED
    BY <1>1, <2>1, Zenon
<1>3. ASSUME NEW h \in S PROVE g =< h
  <2>1. ~(h < g) /\ h \in Int /\ g \in Int
    BY <1>2
  <2>2. QED
    BY <2>1
<1>4. QED
  BY <1>3

\* A nonempty collection of subsets of a finite set has a minimal member: no
\* element can be removed from it.
LEMMA MinimalSubset ==
  ASSUME NEW S, IsFiniteSet(S), NEW Bad \in SUBSET (SUBSET S), Bad # {}
  PROVE  \E A \in Bad : \A p \in A : A \ {p} \notin Bad
<1> DEFINE C == {Cardinality(A) : A \in Bad}
<1>1. \A A \in SUBSET S : IsFiniteSet(A) /\ Cardinality(A) \in Nat
  BY FS_Subset, FS_CardinalityType
<1>2. C \in SUBSET Nat /\ C # {}
  BY <1>1
<1>3. PICK c \in C : \A d \in C : c =< d
  <2> HIDE DEF C
  <2>1. QED
    BY <1>2, LeastNat, Zenon
<1>4. PICK A \in Bad : c = Cardinality(A)
  OBVIOUS
<1>5. ASSUME NEW p \in A PROVE A \ {p} \notin Bad
  <2>1. IsFiniteSet(A) /\ Cardinality(A) \in Nat
    BY <1>1
  <2>2. Cardinality(A \ {p}) = Cardinality(A) - 1
    BY <2>1, FS_RemoveElement
  <2>3. SUFFICES ASSUME A \ {p} \in Bad PROVE FALSE
    OBVIOUS
  <2>4. Cardinality(A \ {p}) \in C
    BY <2>3
  <2>5. Cardinality(A) =< Cardinality(A \ {p})
    BY <1>3, <1>4, <2>4
  <2>6. \A k \in Nat : ~(k =< k - 1)
    OBVIOUS
  <2>7. QED
    BY <2>1, <2>2, <2>5, <2>6
<1>6. QED
  BY <1>5

LEMMA AdditiveExists ==
  ASSUME NEW S, IsFiniteSet(S), NEW w, \A p \in S : w[p] \in Int
  PROVE  \E F : Additive(F, S, w)
<1> DEFINE Bad == {A \in SUBSET S : ~\E F : Additive(F, A, w)}
<1>1. SUFFICES ASSUME Bad # {} PROVE FALSE
  <2>1. S \in SUBSET S
    OBVIOUS
  <2>2. QED
    BY <2>1
<1>2. PICK A \in Bad : \A p \in A : A \ {p} \notin Bad
  <2>1. Bad \in SUBSET (SUBSET S)
    OBVIOUS
  <2> HIDE DEF Bad
  <2>2. QED
    BY <1>1, <2>1, MinimalSubset, Zenon
<1>3. A \in SUBSET S /\ ~\E F : Additive(F, A, w)
  OBVIOUS
<1>4. A # {}
  <2>1. SUFFICES ASSUME A = {} PROVE FALSE
    OBVIOUS
  <2>2. Additive([B \in SUBSET A |-> 0], A, w)
    BY <2>1 DEF Additive
  <2>3. QED
    BY <1>3, <2>2
<1>5. PICK p \in A : TRUE
  BY <1>4
<1>6. PICK F : Additive(F, A \ {p}, w)
  BY <1>2, <1>3, <1>5
<1> DEFINE G == [B \in SUBSET A |-> IF p \in B THEN w[p] + F[B \ {p}] ELSE F[B]]
<1>7. Additive(G, A, w)
  <2>1. F \in [SUBSET (A \ {p}) -> Int] /\ F[{}] = 0
    BY <1>6 DEF Additive
  <2>2. \A B \in SUBSET (A \ {p}) : \A q \in B : F[B] = w[q] + F[B \ {q}]
    BY <1>6 DEF Additive
  <2>3. \A q \in A : w[q] \in Int
    BY <1>3
  <2>4. \A B \in SUBSET A : B \ {p} \in SUBSET (A \ {p})
    OBVIOUS
  <2>5. \A B \in SUBSET A : p \notin B => B \in SUBSET (A \ {p})
    OBVIOUS
  <2>6. G \in [SUBSET A -> Int]
    <3>1. ASSUME NEW B \in SUBSET A
          PROVE (IF p \in B THEN w[p] + F[B \ {p}] ELSE F[B]) \in Int
      <4>1. CASE p \in B
        <5>1. F[B \ {p}] \in Int /\ w[p] \in Int
          BY <2>1, <2>3, <2>4
        <5>2. QED
          BY <4>1, <5>1
      <4>2. CASE p \notin B
        BY <2>1, <2>5, <4>2
      <4>3. QED
        BY <4>1, <4>2
    <3>2. QED
      BY <3>1
  <2>7. G[{}] = 0
    BY <2>1
  <2>8. ASSUME NEW B \in SUBSET A, NEW q \in B
        PROVE  G[B] = w[q] + G[B \ {q}]
    <3>1. B \ {q} \in SUBSET A /\ q \in A
      OBVIOUS
    <3>2. CASE q = p
      BY <3>2
    <3>3. CASE q # p /\ p \notin B
      <4>1. G[B] = F[B] /\ G[B \ {q}] = F[B \ {q}]
        BY <3>3
      <4>2. F[B] = w[q] + F[B \ {q}]
        BY <2>2, <2>5, <3>3
      <4>3. QED
        BY <4>1, <4>2
    <3>4. CASE q # p /\ p \in B
      <4>1. G[B] = w[p] + F[B \ {p}]
        BY <3>4
      <4>2. G[B \ {q}] = w[p] + F[(B \ {q}) \ {p}]
        BY <3>1, <3>4
      <4>3. B \ {p} \in SUBSET (A \ {p}) /\ q \in B \ {p}
        BY <3>4
      <4>4. F[B \ {p}] = w[q] + F[(B \ {p}) \ {q}]
        BY <2>2, <4>3
      <4>5. (B \ {p}) \ {q} = (B \ {q}) \ {p}
        OBVIOUS
      <4>6. F[(B \ {q}) \ {p}] \in Int
        <5>1. (B \ {q}) \ {p} \in SUBSET (A \ {p})
          OBVIOUS
        <5>2. QED
          BY <2>1, <5>1
      <4>7. w[p] \in Int /\ w[q] \in Int
        BY <2>3, <3>1
      <4> DEFINE c == F[(B \ {q}) \ {p}]
      <4>8. G[B] = w[p] + (w[q] + c)
        BY <4>1, <4>4, <4>5, Zenon
      <4>9. G[B \ {q}] = w[p] + c /\ c \in Int
        BY <4>2, <4>6, Zenon
      <4> HIDE DEF G, c
      <4>10. QED
        BY <4>7, <4>8, <4>9
    <3>5. QED
      BY <3>2, <3>3, <3>4
  <2> HIDE DEF G
  <2>9. QED
    BY <2>6, <2>7, <2>8 DEF Additive
<1>8. QED
  BY <1>3, <1>7

\* The fold picks the elements in some order; an additive function is what it
\* computes.
LEMMA TotalIsAdditive ==
  ASSUME NEW S, IsFiniteSet(S), NEW w, \A p \in S : w[p] \in Int,
         NEW F, Additive(F, S, w)
  PROVE  Total(w, S) = F[S]
<1> DEFINE Step(f) == [A \in SUBSET S |->
                        IF A = {} THEN 0
                        ELSE w[CHOOSE x0 \in A : TRUE]
                               + f[A \ {CHOOSE x0 \in A : TRUE}]]
<1> DEFINE it == CHOOSE f : f = Step(f)
<1>1. Total(w, S) = it[S]
  BY DEF Total, MapThenSumSet, MapThenFoldSet
<1>2. F = Step(F)
  <2>1. F \in [SUBSET S -> Int] /\ F[{}] = 0
    BY DEF Additive
  <2>2. ASSUME NEW A \in SUBSET S, A # {}
        PROVE  F[A] = w[CHOOSE x0 \in A : TRUE]
                        + F[A \ {CHOOSE x0 \in A : TRUE}]
    BY <2>2 DEF Additive
  <2>3. QED
    BY <2>1, <2>2
<1>3. it = Step(it)
  <2> HIDE DEF Step
  <2>1. QED
    BY <1>2
<1>4. \A A \in SUBSET S : it[A] = F[A]
  <2> DEFINE Bad == {A \in SUBSET S : it[A] # F[A]}
  <2>1. SUFFICES ASSUME Bad # {} PROVE FALSE
    OBVIOUS
  <2>2. PICK A \in Bad : \A p \in A : A \ {p} \notin Bad
    <3>1. Bad \in SUBSET (SUBSET S)
      OBVIOUS
    <3> HIDE DEF Bad
    <3>2. QED
      BY <2>1, <3>1, MinimalSubset, Zenon
  <2>3. A \in SUBSET S /\ it[A] # F[A]
    OBVIOUS
  <2>4. CASE A = {}
    <3>1. F[A] = Step(F)[A] /\ it[A] = Step(it)[A]
      BY <1>2, <1>3
    <3> HIDE DEF it
    <3>2. QED
      BY <2>3, <2>4, <3>1
  <2>5. CASE A # {}
    <3> DEFINE y == CHOOSE x0 \in A : TRUE
    <3>1. y \in A
      BY <2>5
    <3>2. F[A] = Step(F)[A] /\ it[A] = Step(it)[A]
      BY <1>2, <1>3
    <3>3. Step(F)[A] = w[y] + F[A \ {y}]
      BY <2>3, <2>5
    <3> HIDE DEF it
    <3>4. Step(it)[A] = w[y] + it[A \ {y}]
      BY <2>3, <2>5
    <3>5. it[A \ {y}] = F[A \ {y}]
      <4> HIDE DEF y
      <4>1. A \ {y} \in SUBSET S
        BY <2>3
      <4>2. A \ {y} \notin Bad
        BY <2>2, <3>1
      <4>3. QED
        BY <4>1, <4>2
    <3> HIDE DEF y, Step
    <3>6. QED
      BY <2>3, <3>2, <3>3, <3>4, <3>5
  <2>6. QED
    BY <2>4, <2>5
<1>5. QED
  BY <1>1, <1>4

LEMMA TotalOf ==
  ASSUME NEW S, IsFiniteSet(S), NEW w, \A p \in S : w[p] \in Int
  PROVE  Additive([A \in SUBSET S |-> Total(w, A)], S, w)
<1>1. PICK F : Additive(F, S, w)
  BY AdditiveExists
<1>2. ASSUME NEW A \in SUBSET S PROVE Total(w, A) = F[A]
  <2> DEFINE G == [B \in SUBSET A |-> F[B]]
  <2>1. IsFiniteSet(A) /\ \A p \in A : w[p] \in Int
    BY FS_Subset
  <2>2. Additive(G, A, w)
    <3>1. F \in [SUBSET S -> Int] /\ F[{}] = 0
      BY <1>1 DEF Additive
    <3>2. \A B \in SUBSET S : \A p \in B : F[B] = w[p] + F[B \ {p}]
      BY <1>1 DEF Additive
    <3>3. \A B \in SUBSET A : B \in SUBSET S /\ \A p : B \ {p} \in SUBSET A
      OBVIOUS
    <3>4. G \in [SUBSET A -> Int] /\ G[{}] = 0
      BY <3>1, <3>3
    <3>5. \A B \in SUBSET A : \A p \in B : G[B] = w[p] + G[B \ {p}]
      BY <3>2, <3>3
    <3> HIDE DEF G
    <3>6. QED
      BY <3>4, <3>5 DEF Additive
  <2>3. Total(w, A) = G[A]
    <3> HIDE DEF G
    <3>1. QED
      BY <2>1, <2>2, TotalIsAdditive
  <2>4. QED
    BY <2>3
<1>3. [A \in SUBSET S |-> Total(w, A)] = F
  <2>1. F = [A \in SUBSET S |-> F[A]]
    BY <1>1 DEF Additive
  <2>2. QED
    BY <1>2, <2>1
<1>4. QED
  BY <1>1, <1>3

LEMMA TotalRemove ==
  ASSUME NEW S, IsFiniteSet(S), NEW w, \A p \in S : w[p] \in Int
  PROVE  /\ Total(w, {}) = 0
         /\ \A A \in SUBSET S :
              /\ Total(w, A) \in Int
              /\ \A p \in A : Total(w, A) = w[p] + Total(w, A \ {p})
<1> DEFINE F == [A \in SUBSET S |-> Total(w, A)]
<1>1. Additive(F, S, w)
  BY TotalOf
<1>2. F \in [SUBSET S -> Int] /\ F[{}] = 0
  <2> HIDE DEF F
  <2>1. QED
    BY <1>1 DEF Additive
<1>3. \A A \in SUBSET S : \A p \in A : F[A] = w[p] + F[A \ {p}]
  <2> HIDE DEF F
  <2>1. QED
    BY <1>1 DEF Additive
<1>4. \A A \in SUBSET S : F[A] = Total(w, A) /\ \A p : F[A \ {p}] = Total(w, A \ {p})
  OBVIOUS
<1>5. F[{}] = Total(w, {})
  OBVIOUS
<1>6. \A A \in SUBSET S : F[A] \in Int
  BY <1>2
<1> HIDE DEF F
<1>7. QED
  BY <1>2, <1>3, <1>4, <1>5, <1>6

\* Sums of functions that agree, or that differ at one element.
LEMMA TotalSame ==
  ASSUME NEW S, IsFiniteSet(S), NEW w, \A p \in S : w[p] \in Int,
         NEW v, \A p \in S : v[p] = w[p]
  PROVE  Total(v, S) = Total(w, S)
<1>1. PICK F : Additive(F, S, w)
  BY AdditiveExists
<1>2. Additive(F, S, v)
  BY <1>1 DEF Additive
<1>3. \A p \in S : v[p] \in Int
  OBVIOUS
<1>4. Total(w, S) = F[S]
  BY <1>1, TotalIsAdditive
<1>5. Total(v, S) = F[S]
  BY <1>2, <1>3, TotalIsAdditive
<1>6. QED
  BY <1>4, <1>5

LEMMA TotalChange ==
  ASSUME NEW S, IsFiniteSet(S), NEW p \in S,
         NEW w \in [S -> Int], NEW v \in [S -> Int],
         \A q \in S \ {p} : v[q] = w[q]
  PROVE  Total(v, S) = Total(w, S) - w[p] + v[p]
<1> DEFINE R == S \ {p}
<1>1. IsFiniteSet(R) /\ R \in SUBSET S
  BY FS_RemoveElement
<1>2. S \in SUBSET S /\ \A q \in S : w[q] \in Int /\ v[q] \in Int
  OBVIOUS
<1>3. Total(v, R) = Total(w, R)
  BY <1>1, <1>2, TotalSame
<1>4. Total(v, S) = v[p] + Total(v, R)
  BY <1>2, TotalRemove
<1>5. Total(w, S) = w[p] + Total(w, R) /\ Total(w, R) \in Int
  BY <1>1, <1>2, TotalRemove
<1>6. w[p] \in Int /\ v[p] \in Int
  OBVIOUS
<1> HIDE DEF R
<1>7. QED
  BY <1>3, <1>4, <1>5, <1>6

-----------------------------------------------------------------------------
\* Two's complement arithmetic: what is wrapped in between does not matter.

LEMMA Multiple ==
  ASSUME NEW m \in Nat \ {0}, NEW t \in Int, -m < m * t, m * t < m
  PROVE  t = 0
<1>1. CASE t >= 1
  BY <1>1
<1>2. CASE t =< -1
  BY <1>2
<1>3. QED
  BY <1>1, <1>2

LEMMA ModShift ==
  ASSUME NEW m \in Nat \ {0}, NEW z \in Int, NEW k \in Int
  PROVE  (z + m * k) % m = z % m
<1> DEFINE y == z + m * k
<1>1. y \in Int /\ m * k \in Int
  OBVIOUS
<1>2. z = m * (z \div m) + (z % m) /\ z % m \in 0 .. m - 1 /\ z \div m \in Int
  OBVIOUS
<1>3. y = m * (y \div m) + (y % m) /\ y % m \in 0 .. m - 1 /\ y \div m \in Int
  <2> HIDE DEF y
  <2>1. QED
    BY <1>1
<1> DEFINE a == z \div m
           b == y \div m
           r == z % m
           s == y % m
<1>4. m * (a + k - b) = s - r
  <2>1. z = m * a + r /\ y = m * b + s /\ y = z + m * k
    BY <1>2, <1>3
  <2>2. a \in Int /\ b \in Int /\ r \in Int /\ s \in Int
    BY <1>2, <1>3
  <2> HIDE DEF a, b, r, s, y
  <2>3. QED
    BY <2>1, <2>2
<1>5. a + k - b = 0
  <2>1. a + k - b \in Int /\ -m < s - r /\ s - r < m
    BY <1>2, <1>3
  <2> HIDE DEF a, b, r, s, y
  <2>2. QED
    BY <1>4, <2>1, Multiple
<1>6. s - r = 0
  <2> HIDE DEF a, b, r, s, y
  <2>1. m * 0 = 0
    OBVIOUS
  <2>2. QED
    BY <1>4, <1>5, <2>1
<1>7. QED
  BY <1>2, <1>3, <1>6

LEMMA WrapAdds ==
  ASSUME NEW u \in Int, NEW v \in Int
  PROVE  /\ Wrap(v) \in Int
         /\ Wrap(u + Wrap(v)) = Wrap(u + v)
<1> DEFINE m == 2 * Half
           a == v + Half
<1>1. m \in Nat \ {0} /\ a \in Int /\ Half \in Int
  BY PairForcesAssumption
<1> HIDE DEF m
<1>2. a = m * (a \div m) + (a % m) /\ a % m \in Int /\ a \div m \in Int
  <2> HIDE DEF a
  <2>1. QED
    BY <1>1
<1> DEFINE k == a \div m
           z == u + (a % m)
<1>3. u + v + Half = z + m * k
  BY <1>1, <1>2
<1>4. (z + m * k) % m = z % m
  <2>1. z \in Int /\ k \in Int
    BY <1>2
  <2> HIDE DEF z, k
  <2>2. QED
    BY <1>1, <2>1, ModShift
<1>5. Wrap(v) = (a % m) - Half
  BY DEF Wrap, m
<1>6. u + Wrap(v) + Half = z
  BY <1>1, <1>2, <1>5
<1>7. Wrap(u + Wrap(v)) = (z % m) - Half
  <2>1. Wrap(u + Wrap(v)) = ((u + Wrap(v) + Half) % m) - Half
    BY DEF Wrap, m
  <2> HIDE DEF z
  <2>2. QED
    BY <1>6, <2>1
<1>8. Wrap(u + v) = ((u + v + Half) % m) - Half
  BY DEF Wrap, m
<1>9. Wrap(u + v) = (z % m) - Half
  <2> HIDE DEF z, k
  <2>1. QED
    BY <1>3, <1>4, <1>8
<1>10. Wrap(v) \in Int
  BY <1>1, <1>2, <1>5
<1>11. QED
  BY <1>7, <1>9, <1>10

LEMMA WrapZero == Wrap(0) = 0
<1>1. Half \in Nat \ {0}
  BY PairForcesAssumption
<1>2. \A h \in Nat \ {0} : (0 + h) % (2 * h) = h
  OBVIOUS
<1>3. QED
  BY <1>1, <1>2 DEF Wrap

LEMMA TotalZero ==
  ASSUME NEW S, IsFiniteSet(S), NEW w, \A p \in S : w[p] = 0
  PROVE  Total(w, S) = 0
<1>1. Additive([A \in SUBSET S |-> 0], S, w)
  BY DEF Additive
<1>2. \A p \in S : w[p] \in Int
  OBVIOUS
<1>3. Total(w, S) = [A \in SUBSET S |-> 0][S]
  BY <1>1, <1>2, TotalIsAdditive
<1>4. QED
  BY <1>3

\* One more contribution in an accumulator that holds the wrapped sum of others.
LEMMA SumGrows ==
  ASSUME NEW S, IsFiniteSet(S), NEW w, \A p \in S : w[p] \in Int,
         NEW A \in SUBSET S, NEW p \in S \ A
  PROVE  Wrap(Wrap(Total(w, A)) + w[p]) = Wrap(Total(w, A \cup {p}))
<1> DEFINE B == A \cup {p}
<1>1. A \in SUBSET S /\ B \in SUBSET S /\ p \in B /\ B \ {p} = A /\ p \in S
  OBVIOUS
<1>2. Total(w, A) \in Int /\ w[p] \in Int
  BY <1>1, TotalRemove
<1>3. Total(w, B) = w[p] + Total(w, A)
  <2>1. Total(w, B) = w[p] + Total(w, B \ {p})
    BY <1>1, TotalRemove
  <2>2. QED
    BY <1>1, <2>1
<1> HIDE DEF B
<1>4. Wrap(Total(w, A)) \in Int
      /\ Wrap(w[p] + Wrap(Total(w, A))) = Wrap(w[p] + Total(w, A))
  BY <1>2, WrapAdds
<1>5. Wrap(Total(w, A)) + w[p] = w[p] + Wrap(Total(w, A))
  BY <1>2, <1>4
<1>6. QED
  BY <1>3, <1>4, <1>5 DEF B

-----------------------------------------------------------------------------
\* Rounding.

LEMMA RoundEvenFacts ==
  ASSUME NEW c \in Int
  PROVE  RoundEven(c) \in Int /\ -c \in Int /\ RoundEven(-c) = -RoundEven(c)
<1> DEFINE l == c \div 4
           r == c % 4
           k == (-c) \div 4
           s == (-c) % 4
<1>1. c = 4 * l + r /\ l \in Int /\ r \in 0 .. 3
  OBVIOUS
<1>2. -c \in Int /\ -c = 4 * k + s /\ k \in Int /\ s \in 0 .. 3
  OBVIOUS
<1>3. l % 2 \in {0, 1} /\ k % 2 \in {0, 1}
  BY <1>1, <1>2
<1>4. (r = 0 => s = 0 /\ k = -l) /\ (r # 0 => s = 4 - r /\ k = -l - 1)
  <2> HIDE DEF l, r, k, s
  <2>1. QED
    BY <1>1, <1>2
<1>5. (-l - 1) % 2 = 1 - (l % 2)
  <2>1. \A n \in Int : (-n - 1) % 2 = 1 - (n % 2)
    OBVIOUS
  <2>2. QED
    BY <1>1, <2>1
<1>6. RoundEven(c) = IF r < 2 \/ (r = 2 /\ l % 2 = 0) THEN l ELSE l + 1
  BY DEF RoundEven
<1>7. RoundEven(-c) = IF s < 2 \/ (s = 2 /\ k % 2 = 0) THEN k ELSE k + 1
  BY DEF RoundEven
<1> HIDE DEF l, r, k, s
<1>8. CASE r = 0
  BY <1>1, <1>2, <1>4, <1>6, <1>7, <1>8
<1>9. CASE r = 1
  BY <1>1, <1>2, <1>4, <1>6, <1>7, <1>9
<1>10. CASE r = 2
  BY <1>1, <1>2, <1>3, <1>4, <1>5, <1>6, <1>7, <1>10
<1>11. CASE r = 3
  BY <1>1, <1>2, <1>4, <1>6, <1>7, <1>11
<1>12. QED
  BY <1>1, <1>8, <1>9, <1>10, <1>11

-----------------------------------------------------------------------------
\* The invariant: what is in an accumulator is the wrapped sum of the
\* contributions evaluated so far, whatever their order.

Evaluations == {e \in Atoms \X Atoms : e[1] # e[2]}

TypeOK ==
  /\ x \in [Pairs -> Values]
  /\ hostLeft \in SUBSET Pairs /\ thrown \in BOOLEAN
  /\ hostForce \in [Atoms -> Int] /\ hostEnergy \in Int
  /\ devLeft \in SUBSET Evaluations /\ overflow \in BOOLEAN
  /\ devForce \in [Atoms -> Int] /\ devEnergy \in Int

\* What each pair adds to the force on an atom, and to the energy.
Share(a) == [p \in Pairs |-> IF a = p[1] THEN RoundEven(x[p])
                             ELSE IF a = p[2] THEN RoundEven(-x[p]) ELSE 0]
EnergyShare == [p \in Pairs |-> RoundEven(x[p])]

\* The pairs the device owes nothing any more to the force on an atom.
Settled(o) == {p \in Pairs : /\ o = p[1] => p \notin devLeft
                             /\ o = p[2] => <<p[2], p[1]>> \notin devLeft}

HostSums ==
  /\ \A a \in Atoms : hostForce[a] = Wrap(Total(Share(a), Pairs \ hostLeft))
  /\ hostEnergy = Wrap(Total(EnergyShare, Pairs \ hostLeft))

DeviceSums ==
  /\ \A o \in Atoms : devForce[o] = Wrap(Total(Share(o), Settled(o)))
  /\ devEnergy = Wrap(Total(EnergyShare, Pairs \ devLeft))

\* Who has met a contribution out of range.
Admissible(p) == InRange(RoundEven(x[p])) /\ InRange(RoundEven(-x[p]))
HostChecks ==
  /\ \A p \in Pairs \ hostLeft : Admissible(p)
  /\ thrown => \E p \in Pairs : ~Admissible(p)
DeviceChecks ==
  overflow <=> \E e \in Evaluations \ devLeft :
                 ~InRange(RoundEven(OwnerForce(e[1], e[2])))

SumInv ==
  TypeOK /\ HostSums /\ HostChecks /\ DeviceChecks /\ (~overflow => DeviceSums)

LEMMA FinitePairs == IsFiniteSet(Pairs)
<1>1. IsFiniteSet(Atoms \X Atoms)
  BY PairForcesAssumption, FS_Product
<1>2. Pairs \in SUBSET (Atoms \X Atoms)
  BY DEF Pairs
<1>3. QED
  BY <1>1, <1>2, FS_Subset

LEMMA PairFacts ==
  ASSUME TypeOK, NEW p \in Pairs
  PROVE  /\ p[1] \in Atoms /\ p[2] \in Atoms /\ p[1] < p[2] /\ p[1] # p[2]
         /\ p = <<p[1], p[2]>> /\ p \in Evaluations
         /\ <<p[2], p[1]>> \in Evaluations
         /\ p[1] \in Nat /\ p[2] \in Nat
         /\ x[p] \in Int /\ -x[p] \in Int
         /\ RoundEven(x[p]) \in Int /\ RoundEven(-x[p]) \in Int
         /\ RoundEven(-x[p]) = -RoundEven(x[p])
<1>1. p[1] \in Atoms /\ p[2] \in Atoms /\ p[1] < p[2] /\ p = <<p[1], p[2]>>
  BY DEF Pairs
<1>2. p[1] \in Nat /\ p[2] \in Nat
  BY <1>1, PairForcesAssumption
<1>3. p[1] # p[2]
  BY <1>1, <1>2
<1>4. p \in Evaluations /\ <<p[2], p[1]>> \in Evaluations
  BY <1>1, <1>3 DEF Evaluations
<1>5. x[p] \in Int
  BY PairForcesAssumption DEF TypeOK
<1>6. -x[p] \in Int
  BY <1>5
<1>7. RoundEven(x[p]) \in Int /\ RoundEven(-x[p]) \in Int
      /\ RoundEven(-x[p]) = -RoundEven(x[p])
  BY <1>5, <1>6, RoundEvenFacts
<1>8. QED
  BY <1>1, <1>2, <1>3, <1>4, <1>5, <1>6, <1>7

LEMMA ShareFacts ==
  ASSUME TypeOK
  PROVE  /\ \A a \in Atoms, p \in Pairs : Share(a)[p] \in Int
         /\ \A p \in Pairs : EnergyShare[p] \in Int
<1>1. ASSUME NEW p \in Pairs
      PROVE  RoundEven(x[p]) \in Int /\ RoundEven(-x[p]) \in Int
  BY PairFacts
<1>2. QED
  BY <1>1 DEF Share, EnergyShare

LEMMA SumInit == Init => SumInv
<1> SUFFICES ASSUME Init PROVE SumInv
  OBVIOUS
<1>1. TypeOK
  <2>1. x \in [Pairs -> Values] /\ hostLeft \in SUBSET Pairs /\ thrown \in BOOLEAN
    BY DEF Init
  <2>2. hostForce \in [Atoms -> Int] /\ hostEnergy \in Int
    BY DEF Init
  <2>3. devLeft \in SUBSET Evaluations /\ overflow \in BOOLEAN
    BY DEF Init, Evaluations
  <2>4. devForce \in [Atoms -> Int] /\ devEnergy \in Int
    BY DEF Init
  <2>5. QED
    BY <2>1, <2>2, <2>3, <2>4 DEF TypeOK
<1>2. Pairs \ hostLeft = {} /\ Pairs \ devLeft = {}
  <2>1. \A p \in Pairs : p \in Evaluations
    BY <1>1, PairFacts
  <2>2. QED
    BY <2>1 DEF Init, Evaluations
<1>3. ASSUME NEW w, \A p \in Pairs : w[p] \in Int
      PROVE  Wrap(Total(w, {})) = 0
  BY <1>3, FinitePairs, TotalRemove, WrapZero
<1>4. \A a \in Atoms : Wrap(Total(Share(a), {})) = 0
  BY <1>1, <1>3, ShareFacts
<1>5. Wrap(Total(EnergyShare, {})) = 0
  BY <1>1, <1>3, ShareFacts
<1>6. HostSums
  BY <1>2, <1>4, <1>5 DEF Init, HostSums
<1>7. ASSUME NEW o \in Atoms PROVE Wrap(Total(Share(o), Settled(o))) = 0
  <2>1. \A p \in Settled(o) : o # p[1] /\ o # p[2] /\ p \in Pairs
    <3>1. \A p \in Pairs : p \in Evaluations /\ <<p[2], p[1]>> \in Evaluations
      BY <1>1, PairFacts
    <3>2. QED
      BY <3>1 DEF Settled, Init, Evaluations
  <2>2. \A p \in Settled(o) : Share(o)[p] = 0
    BY <2>1 DEF Share
  <2>3. IsFiniteSet(Settled(o))
    BY FinitePairs, FS_Subset DEF Settled
  <2>4. QED
    BY <2>2, <2>3, TotalZero, WrapZero
<1>8. DeviceSums
  BY <1>2, <1>5, <1>7 DEF Init, DeviceSums
<1>9. HostChecks /\ DeviceChecks
  BY <1>2 DEF Init, HostChecks, DeviceChecks, Evaluations
<1>10. QED
  BY <1>1, <1>6, <1>8, <1>9 DEF SumInv

LEMMA HostStep ==
  ASSUME TypeOK, NEW p \in Pairs, HostPair(p)
  PROVE  TypeOK'
<1>1. RoundEven(x[p]) \in Int /\ RoundEven(-x[p]) \in Int
  BY PairFacts
<1>2. \A u, q \in Int : Add(u, q) \in Int
  BY WrapAdds DEF Add
<1>3. p[1] \in Atoms /\ p[2] \in Atoms /\ p[1] # p[2]
  BY PairFacts
<1>4. CASE InRange(RoundEven(x[p])) /\ InRange(RoundEven(-x[p]))
  <2>1. /\ hostLeft' = hostLeft \ {p}
        /\ hostForce' = [hostForce EXCEPT ![p[1]] = Add(@, RoundEven(x[p])),
                                          ![p[2]] = Add(@, RoundEven(-x[p]))]
        /\ hostEnergy' = Add(hostEnergy, RoundEven(x[p]))
        /\ UNCHANGED <<thrown, x, devLeft, devForce, devEnergy, overflow>>
    BY <1>4 DEF HostPair, devVars
  <2>2. hostForce' \in [Atoms -> Int]
    BY <1>1, <1>2, <1>3, <2>1 DEF TypeOK
  <2>3. hostEnergy' \in Int /\ hostLeft' \in SUBSET Pairs
    BY <1>1, <1>2, <2>1 DEF TypeOK
  <2>4. QED
    BY <2>1, <2>2, <2>3 DEF TypeOK
<1>5. CASE ~(InRange(RoundEven(x[p])) /\ InRange(RoundEven(-x[p])))
  BY <1>5 DEF HostPair, devVars, TypeOK
<1>6. QED
  BY <1>4, <1>5

LEMMA HostStepSums ==
  ASSUME SumInv, NEW p \in Pairs, HostPair(p)
  PROVE  HostSums' /\ HostChecks'
<1> DEFINE q == RoundEven(x[p])
           r == RoundEven(-x[p])
           D == Pairs \ hostLeft
<1>0. TypeOK /\ HostSums /\ HostChecks
  BY DEF SumInv
<1>1. x' = x /\ p \in hostLeft /\ ~thrown
  BY DEF HostPair
<1>2. /\ p[1] \in Atoms /\ p[2] \in Atoms /\ p[1] # p[2]
      /\ q \in Int /\ r \in Int
  BY <1>0, PairFacts
<1>3. \A a \in Atoms : Share(a)' = Share(a)
  BY <1>1 DEF Share
<1>4. EnergyShare' = EnergyShare
  BY <1>1 DEF EnergyShare
<1>5. \A s \in Pairs : Admissible(s)' <=> Admissible(s)
  BY <1>1 DEF Admissible
<1>6. CASE ~(InRange(q) /\ InRange(r))
  <2>1. thrown' = TRUE /\ UNCHANGED <<hostLeft, hostForce, hostEnergy>>
    BY <1>6 DEF HostPair
  <2>2. HostSums'
    BY <1>0, <1>3, <1>4, <2>1 DEF HostSums
  <2>3. ~Admissible(p)
    BY <1>6 DEF Admissible
  <2>4. HostChecks'
    BY <1>0, <1>5, <2>1, <2>3 DEF HostChecks
  <2>5. QED
    BY <2>2, <2>4
<1>7. CASE InRange(q) /\ InRange(r)
  <2>1. /\ hostLeft' = hostLeft \ {p}
        /\ hostForce' = [hostForce EXCEPT ![p[1]] = Add(@, q), ![p[2]] = Add(@, r)]
        /\ hostEnergy' = Add(hostEnergy, q)
        /\ thrown' = thrown
    BY <1>7 DEF HostPair
  <2>2. D \in SUBSET Pairs /\ p \in Pairs \ D /\ Pairs \ hostLeft' = D \cup {p}
    BY <1>1, <2>1
  <2> HIDE DEF D
  <2>3. ASSUME NEW a \in Atoms
        PROVE  Wrap(hostForce[a] + Share(a)[p]) = Wrap(Total(Share(a), D \cup {p}))
    <3> DEFINE w == Share(a)
    <3>1. \A s \in Pairs : w[s] \in Int
      BY <1>0, ShareFacts
    <3>2. hostForce[a] = Wrap(Total(w, D))
      BY <1>0 DEF HostSums, D
    <3> HIDE DEF w
    <3>3. Wrap(Wrap(Total(w, D)) + w[p]) = Wrap(Total(w, D \cup {p}))
      BY <2>2, <3>1, FinitePairs, SumGrows
    <3>4. QED
      BY <3>2, <3>3 DEF w
  <2>4. ASSUME NEW a \in Atoms
        PROVE  hostForce'[a] = Wrap(hostForce[a] + Share(a)[p])
    <3>1. hostForce \in [Atoms -> Int]
      BY <1>0 DEF TypeOK
    <3>2. CASE a = p[1]
      <4>1. Share(a)[p] = q
        BY <3>2 DEF Share
      <4>2. hostForce'[a] = Add(hostForce[a], q)
        BY <1>2, <2>1, <3>1, <3>2
      <4>3. QED
        BY <4>1, <4>2 DEF Add
    <3>3. CASE a = p[2]
      <4>1. Share(a)[p] = r
        BY <1>2, <3>3 DEF Share
      <4>2. hostForce'[a] = Add(hostForce[a], r)
        BY <1>2, <2>1, <3>1, <3>3
      <4>3. QED
        BY <4>1, <4>2 DEF Add
    <3>4. CASE a # p[1] /\ a # p[2]
      <4>1. Share(a)[p] = 0
        BY <3>4 DEF Share
      <4>2. hostForce'[a] = hostForce[a]
        BY <1>2, <2>1, <3>1, <3>4
      <4>3. hostForce[a] = Wrap(hostForce[a] + 0)
        <5> DEFINE t == Total(Share(a), D)
        <5>1. hostForce[a] = Wrap(t) /\ t \in Int
          BY <1>0, <2>2, ShareFacts, FinitePairs, TotalRemove DEF HostSums, D
        <5> HIDE DEF t
        <5>2. Wrap(0 + Wrap(t)) = Wrap(0 + t)
          BY <5>1, WrapAdds
        <5>3. 0 + Wrap(t) = Wrap(t) + 0 /\ 0 + t = t
          BY <5>1, WrapAdds
        <5>4. QED
          BY <5>1, <5>2, <5>3
      <4>4. QED
        BY <4>1, <4>2, <4>3
    <3>5. QED
      BY <3>2, <3>3, <3>4
  <2>5. hostEnergy' = Wrap(Total(EnergyShare, D \cup {p}))
    <3> DEFINE w == EnergyShare
    <3>1. \A s \in Pairs : w[s] \in Int
      BY <1>0, ShareFacts
    <3>2. hostEnergy = Wrap(Total(w, D)) /\ w[p] = q
      BY <1>0 DEF HostSums, D, EnergyShare
    <3> HIDE DEF w
    <3>3. Wrap(Wrap(Total(w, D)) + w[p]) = Wrap(Total(w, D \cup {p}))
      BY <2>2, <3>1, FinitePairs, SumGrows
    <3>4. hostEnergy' = Wrap(hostEnergy + q)
      BY <2>1 DEF Add
    <3>5. QED
      BY <3>2, <3>3, <3>4 DEF w
  <2>6. \A a \in Atoms : hostForce'[a] = Wrap(Total(Share(a), D \cup {p}))
    BY <2>3, <2>4
  <2>7. HostSums'
    BY <1>3, <1>4, <2>2, <2>5, <2>6 DEF HostSums
  <2>8. Admissible(p)
    BY <1>7 DEF Admissible
  <2>9. \A s \in D \cup {p} : Admissible(s)
    BY <1>0, <2>8 DEF HostChecks, D
  <2>10. HostChecks'
    BY <1>0, <1>5, <2>1, <2>2, <2>9 DEF HostChecks
  <2>11. QED
    BY <2>7, <2>10
<1>8. QED
  BY <1>6, <1>7

\* The pair that an evaluation of the device is about, and its share.
PairOf(o, j) == IF o < j THEN <<o, j>> ELSE <<j, o>>

LEMMA EvaluationFacts ==
  ASSUME TypeOK, NEW o \in Atoms, NEW j \in Atoms, <<o, j>> \in devLeft
  PROVE  /\ o # j /\ PairOf(o, j) \in Pairs /\ PairOf(o, j) \notin Settled(o)
         /\ OwnerForce(o, j) \in Int /\ RoundEven(OwnerForce(o, j)) \in Int
         /\ Share(o)[PairOf(o, j)] = RoundEven(OwnerForce(o, j))
         /\ o < j => EnergyShare[PairOf(o, j)] = RoundEven(OwnerForce(o, j))
<1>1. o # j /\ o \in Nat /\ j \in Nat
  BY PairForcesAssumption DEF TypeOK, Evaluations
<1>2. CASE o < j
  <2>1. PairOf(o, j) = <<o, j>> /\ <<o, j>> \in Pairs
    BY <1>2 DEF PairOf, Pairs
  <2>2. OwnerForce(o, j) = x[<<o, j>>] /\ x[<<o, j>>] \in Int
        /\ RoundEven(x[<<o, j>>]) \in Int
    BY <1>2, <2>1, PairFacts DEF OwnerForce
  <2>3. Share(o)[<<o, j>>] = RoundEven(x[<<o, j>>])
    BY <2>1 DEF Share
  <2>4. EnergyShare[<<o, j>>] = RoundEven(x[<<o, j>>])
    BY <2>1 DEF EnergyShare
  <2>5. <<o, j>> \notin Settled(o)
    BY DEF Settled
  <2>6. QED
    BY <1>1, <2>1, <2>2, <2>3, <2>4, <2>5
<1>3. CASE ~(o < j)
  <2>0. j < o
    BY <1>1, <1>3
  <2>1. PairOf(o, j) = <<j, o>> /\ <<j, o>> \in Pairs
    BY <1>3, <2>0 DEF PairOf, Pairs
  <2>2. OwnerForce(o, j) = -x[<<j, o>>] /\ -x[<<j, o>>] \in Int
        /\ RoundEven(-x[<<j, o>>]) \in Int
    BY <1>3, <2>1, PairFacts DEF OwnerForce
  <2>3. Share(o)[<<j, o>>] = RoundEven(-x[<<j, o>>])
    BY <1>1, <2>1 DEF Share
  <2>5. <<j, o>> \notin Settled(o)
    BY DEF Settled
  <2>6. QED
    BY <1>1, <1>3, <2>1, <2>2, <2>3, <2>5
<1>4. QED
  BY <1>2, <1>3

LEMMA DeviceStepType ==
  ASSUME TypeOK, NEW o \in Atoms, NEW j \in Atoms, DevEvaluation(o, j)
  PROVE  TypeOK'
<1> DEFINE c == RoundEven(OwnerForce(o, j))
           z == Quantize(OwnerForce(o, j))
<1>1. /\ devLeft' = devLeft \ {<<o, j>>} /\ <<o, j>> \in devLeft
      /\ devForce' = [devForce EXCEPT ![o] = Wrap(@ + z)]
      /\ devEnergy' = (IF o < j THEN Wrap(devEnergy + z) ELSE devEnergy)
      /\ overflow' = (overflow \/ ~InRange(c))
      /\ UNCHANGED <<x, hostLeft, hostForce, hostEnergy, thrown>>
  BY DEF DevEvaluation, hostVars
<1>2. c \in Int
  BY <1>1, EvaluationFacts
<1>3. z \in Int
  BY <1>2 DEF Quantize
<1> HIDE DEF c, z
<1>4. \A u \in Int : u + z \in Int /\ Wrap(u + z) \in Int
  BY <1>3, WrapAdds
<1>5. devForce' \in [Atoms -> Int]
  BY <1>1, <1>4 DEF TypeOK
<1>6. devEnergy' \in Int
  BY <1>1, <1>4 DEF TypeOK
<1>7. devLeft' \in SUBSET Evaluations /\ overflow' \in BOOLEAN
  BY <1>1 DEF TypeOK
<1>8. QED
  BY <1>1, <1>5, <1>6, <1>7 DEF TypeOK

LEMMA DeviceStepChecks ==
  ASSUME SumInv, NEW o \in Atoms, NEW j \in Atoms, DevEvaluation(o, j)
  PROVE  DeviceChecks'
<1>1. /\ devLeft' = devLeft \ {<<o, j>>} /\ <<o, j>> \in devLeft
      /\ overflow' = (overflow \/ ~InRange(RoundEven(OwnerForce(o, j))))
      /\ x' = x
  BY DEF DevEvaluation
<1>2. \A e : OwnerForce(e[1], e[2])' = OwnerForce(e[1], e[2])
  BY <1>1 DEF OwnerForce
<1>3. devLeft \in SUBSET Evaluations /\ overflow \in BOOLEAN /\ DeviceChecks
  BY DEF SumInv, TypeOK
<1>4. Evaluations \ devLeft' = (Evaluations \ devLeft) \cup {<<o, j>>}
  BY <1>1, <1>3
<1> DEFINE Out(e) == ~InRange(RoundEven(OwnerForce(e[1], e[2])))
<1>5. overflow <=> \E e \in Evaluations \ devLeft : Out(e)
  BY <1>3 DEF DeviceChecks
<1>6. overflow' <=> (overflow \/ Out(<<o, j>>))
  BY <1>1
<1>7. overflow' <=> \E e \in Evaluations \ devLeft' : Out(e)
  <2> HIDE DEF Out
  <2>1. QED
    BY <1>4, <1>5, <1>6
<1>8. QED
  BY <1>2, <1>7 DEF DeviceChecks

LEMMA DeviceStepSums ==
  ASSUME SumInv, NEW o \in Atoms, NEW j \in Atoms, DevEvaluation(o, j),
         ~overflow'
  PROVE  DeviceSums'
<1> DEFINE c == RoundEven(OwnerForce(o, j))
           p == PairOf(o, j)
           A == Settled(o)
<1>1. /\ devLeft' = devLeft \ {<<o, j>>} /\ <<o, j>> \in devLeft
      /\ devForce' = [devForce EXCEPT ![o] = Wrap(@ + Quantize(OwnerForce(o, j)))]
      /\ devEnergy' = (IF o < j THEN Wrap(devEnergy + Quantize(OwnerForce(o, j)))
                                ELSE devEnergy)
      /\ overflow' = (overflow \/ ~InRange(c))
      /\ x' = x
  BY DEF DevEvaluation
<1>2. ~overflow /\ InRange(c)
  BY <1>1
<1>3. Quantize(OwnerForce(o, j)) = c
  BY <1>2 DEF Quantize
<1>4. TypeOK /\ DeviceSums
  BY <1>2 DEF SumInv
<1>5. /\ o # j /\ p \in Pairs /\ p \notin A /\ c \in Int
      /\ Share(o)[p] = c /\ (o < j => EnergyShare[p] = c)
  BY <1>1, <1>4, EvaluationFacts
<1>6. \A a \in Atoms : Share(a)' = Share(a)
  BY <1>1 DEF Share
<1>7. EnergyShare' = EnergyShare
  BY <1>1 DEF EnergyShare
<1>8. o \in Nat /\ j \in Nat
  BY PairForcesAssumption
<1>9. Settled(o)' = A \cup {p}
  <2>1. ASSUME NEW s \in Pairs
        PROVE  s \in Settled(o)' <=> s \in A \/ s = p
    <3>1. s = <<s[1], s[2]>> /\ s[1] < s[2] /\ s[1] \in Nat /\ s[2] \in Nat
      BY <1>4, PairFacts
    <3>2. s \in Settled(o)' <=> /\ o = s[1] => s \notin devLeft'
                                /\ o = s[2] => <<s[2], s[1]>> \notin devLeft'
      BY DEF Settled
    <3>3. s \in A <=> /\ o = s[1] => s \notin devLeft
                      /\ o = s[2] => <<s[2], s[1]>> \notin devLeft
      BY DEF Settled
    <3>4. CASE o < j
      <4>1. p = <<o, j>>
        BY <3>4 DEF PairOf
      <4>2. o = s[2] => <<s[2], s[1]>> # <<o, j>>
        BY <1>8, <3>1, <3>4
      <4> HIDE DEF A, p
      <4>3. s = p => o = s[1] /\ o # s[2]
        BY <1>8, <3>1, <4>1
      <4>4. QED
        BY <1>1, <3>1, <3>2, <3>3, <4>1, <4>2, <4>3
    <3>5. CASE ~(o < j)
      <4>1. p = <<j, o>> /\ j < o
        BY <1>5, <1>8, <3>5 DEF PairOf
      <4>2. o = s[1] => s # <<o, j>>
        BY <1>8, <3>1, <4>1
      <4> HIDE DEF A, p
      <4>3. s = p => o = s[2] /\ o # s[1]
        BY <1>8, <3>1, <4>1
      <4>4. <<s[2], s[1]>> = <<o, j>> <=> s = p
        BY <3>1, <4>1
      <4>5. QED
        BY <1>1, <3>1, <3>2, <3>3, <4>2, <4>3, <4>4
    <3>6. QED
      BY <3>4, <3>5
  <2>2. Settled(o)' \subseteq Pairs /\ A \subseteq Pairs
    BY DEF Settled
  <2> HIDE DEF A, p
  <2>3. QED
    BY <1>5, <2>1, <2>2
<1>10. ASSUME NEW a \in Atoms, a # o PROVE Settled(a)' = Settled(a)
  <2>1. ASSUME NEW s \in Pairs
        PROVE  /\ (a = s[1] => s \notin devLeft') <=> (a = s[1] => s \notin devLeft)
               /\ (a = s[2] => <<s[2], s[1]>> \notin devLeft')
                    <=> (a = s[2] => <<s[2], s[1]>> \notin devLeft)
    <3>1. s = <<s[1], s[2]>>
      BY <1>4, PairFacts
    <3>2. a = s[1] => s # <<o, j>>
      BY <1>10, <3>1
    <3>3. a = s[2] => <<s[2], s[1]>> # <<o, j>>
      BY <1>10
    <3>4. QED
      BY <1>1, <3>2, <3>3
  <2>2. QED
    BY <2>1 DEF Settled
<1>11. devForce \in [Atoms -> Int]
  BY <1>4 DEF TypeOK
<1>12. ASSUME NEW a \in Atoms PROVE devForce'[a] = Wrap(Total(Share(a), Settled(a)'))
  <2>1. CASE a = o
    <3> DEFINE w == Share(o)
    <3>1. \A s \in Pairs : w[s] \in Int
      BY <1>4, ShareFacts
    <3>2. devForce[o] = Wrap(Total(w, A)) /\ w[p] = c
      BY <1>4, <1>5 DEF DeviceSums
    <3>3. A \in SUBSET Pairs
      BY DEF Settled
    <3> HIDE DEF w, A, p
    <3>4. Wrap(Wrap(Total(w, A)) + w[p]) = Wrap(Total(w, A \cup {p}))
      BY <1>5, <3>1, <3>3, FinitePairs, SumGrows
    <3>5. devForce'[o] = Wrap(devForce[o] + c)
      BY <1>1, <1>3, <1>11
    <3>6. devForce'[o] = Wrap(Total(w, A \cup {p}))
      BY <3>2, <3>4, <3>5
    <3>7. QED
      BY <1>9, <2>1, <3>6 DEF w
  <2>2. CASE a # o
    <3>1. devForce'[a] = devForce[a]
      BY <1>1, <1>11, <2>2
    <3>2. devForce[a] = Wrap(Total(Share(a), Settled(a)))
      BY <1>4 DEF DeviceSums
    <3>3. Settled(a)' = Settled(a)
      BY <1>10, <2>2
    <3>4. QED
      BY <3>1, <3>2, <3>3
  <2>3. QED
    BY <2>1, <2>2
<1>13. devEnergy' = Wrap(Total(EnergyShare, Pairs \ devLeft'))
  <2> DEFINE w == EnergyShare
             E == Pairs \ devLeft
  <2>1. devEnergy = Wrap(Total(w, E))
    BY <1>4 DEF DeviceSums
  <2>2. CASE o < j
    <3>1. p = <<o, j>>
      BY <2>2 DEF PairOf
    <3>2. Pairs \ devLeft' = E \cup {p} /\ p \notin E /\ E \in SUBSET Pairs
      BY <1>1, <1>5, <3>1
    <3>3. \A s \in Pairs : w[s] \in Int
      BY <1>4, ShareFacts
    <3>4. w[p] = c /\ p \in Pairs
      BY <1>5, <2>2
    <3> HIDE DEF w, E, p
    <3>5. Wrap(Wrap(Total(w, E)) + w[p]) = Wrap(Total(w, E \cup {p}))
      BY <3>2, <3>3, <3>4, FinitePairs, SumGrows
    <3>6. devEnergy' = Wrap(devEnergy + c)
      BY <1>1, <1>3, <2>2
    <3>7. QED
      BY <2>1, <3>2, <3>4, <3>5, <3>6 DEF w
  <2>3. CASE ~(o < j)
    <3>1. \A s \in Pairs : s # <<o, j>>
      BY <2>3 DEF Pairs
    <3>2. Pairs \ devLeft' = E
      BY <1>1, <3>1
    <3> HIDE DEF w, E
    <3>3. devEnergy' = devEnergy
      BY <1>1, <2>3
    <3>4. QED
      BY <2>1, <3>2, <3>3 DEF w
  <2>4. QED
    BY <2>2, <2>3
<1>14. QED
  BY <1>6, <1>7, <1>12, <1>13 DEF DeviceSums

LEMMA SumStep == SumInv /\ [Next]_vars => SumInv'
<1> SUFFICES ASSUME SumInv, [Next]_vars PROVE SumInv'
  OBVIOUS
<1>1. ASSUME NEW p \in Pairs, HostPair(p) PROVE SumInv'
  <2>1. TypeOK' /\ HostSums' /\ HostChecks'
    BY <1>1, HostStep, HostStepSums DEF SumInv
  <2>2. UNCHANGED <<x, devLeft, devForce, devEnergy, overflow>>
    BY <1>1 DEF HostPair, devVars
  <2>3. DeviceChecks' /\ (~overflow' => DeviceSums')
    <3>1. DeviceChecks /\ (~overflow => DeviceSums)
      BY DEF SumInv
    <3>2. \A e : OwnerForce(e[1], e[2])' = OwnerForce(e[1], e[2])
      BY <2>2 DEF OwnerForce
    <3>3. \A o : Share(o)' = Share(o) /\ Settled(o)' = Settled(o)
      BY <2>2 DEF Share, Settled
    <3>4. EnergyShare' = EnergyShare
      BY <2>2 DEF EnergyShare
    <3>5. DeviceChecks'
      BY <2>2, <3>1, <3>2 DEF DeviceChecks
    <3>6. ~overflow' => DeviceSums'
      BY <2>2, <3>1, <3>3, <3>4 DEF DeviceSums
    <3>7. QED
      BY <3>5, <3>6
  <2>4. QED
    BY <2>1, <2>3 DEF SumInv
<1>2. ASSUME NEW o \in Atoms, NEW j \in Atoms, DevEvaluation(o, j) PROVE SumInv'
  <2>1. TypeOK' /\ DeviceChecks' /\ (~overflow' => DeviceSums')
    BY <1>2, DeviceStepType, DeviceStepChecks, DeviceStepSums DEF SumInv
  <2>2. UNCHANGED <<x, hostLeft, hostForce, hostEnergy, thrown>>
    BY <1>2 DEF DevEvaluation, hostVars
  <2>3. HostSums' /\ HostChecks'
    <3>1. HostSums /\ HostChecks
      BY DEF SumInv
    <3>2. \A o1 : Share(o1)' = Share(o1)
      BY <2>2 DEF Share
    <3>3. EnergyShare' = EnergyShare
      BY <2>2 DEF EnergyShare
    <3>4. \A p \in Pairs : Admissible(p)' <=> Admissible(p)
      BY <2>2 DEF Admissible
    <3>5. HostSums'
      BY <2>2, <3>1, <3>2, <3>3 DEF HostSums
    <3>6. HostChecks'
      BY <2>2, <3>1, <3>4 DEF HostChecks
    <3>7. QED
      BY <3>5, <3>6
  <2>4. QED
    BY <2>1, <2>3 DEF SumInv
<1>3. CASE UNCHANGED vars
  BY <1>3 DEF vars, hostVars, devVars, SumInv, TypeOK, HostSums, HostChecks,
              DeviceChecks, DeviceSums, Share, EnergyShare, Settled, Admissible,
              OwnerForce
<1>4. QED
  BY <1>1, <1>2, <1>3 DEF Next, Done

LEMMA AlwaysSumInv == Spec => []SumInv
<1>1. QED
  BY SumInit, SumStep, PTL DEF Spec

\* What the accumulators hold when both are done decides BackendsAgree.
LEMMA SumInvAgrees == SumInv => BackendsAgree
<1> SUFFICES ASSUME SumInv, HostDone, DevDone
             PROVE  /\ thrown <=> overflow
                    /\ ~thrown => hostForce = devForce /\ hostEnergy = devEnergy
  BY DEF BackendsAgree
<1>1. TypeOK /\ HostSums /\ HostChecks /\ DeviceChecks /\ (~overflow => DeviceSums)
  BY DEF SumInv
<1>2. devLeft = {} /\ (thrown \/ hostLeft = {})
  BY DEF HostDone, DevDone
<1>3. ASSUME NEW p \in Pairs
      PROVE  Admissible(p) <=> /\ InRange(RoundEven(OwnerForce(p[1], p[2])))
                               /\ InRange(RoundEven(OwnerForce(p[2], p[1])))
  <2>1. p = <<p[1], p[2]>> /\ p[1] < p[2] /\ p[1] \in Nat /\ p[2] \in Nat
    BY <1>1, PairFacts
  <2>2. ~(p[2] < p[1])
    BY <2>1
  <2>3. OwnerForce(p[1], p[2]) = x[p] /\ OwnerForce(p[2], p[1]) = -x[p]
    BY <2>1, <2>2 DEF OwnerForce
  <2>4. QED
    BY <2>3 DEF Admissible
<1>4. (\E p \in Pairs : ~Admissible(p)) => overflow
  <2>1. SUFFICES ASSUME NEW p \in Pairs, ~Admissible(p) PROVE overflow
    OBVIOUS
  <2>2. p \in Evaluations /\ <<p[2], p[1]>> \in Evaluations
    BY <1>1, PairFacts
  <2>3. \/ ~InRange(RoundEven(OwnerForce(p[1], p[2])))
        \/ ~InRange(RoundEven(OwnerForce(p[2], p[1])))
    BY <1>3, <2>1
  <2>4. <<p[2], p[1]>>[1] = p[2] /\ <<p[2], p[1]>>[2] = p[1]
    OBVIOUS
  <2>5. QED
    BY <1>1, <1>2, <2>2, <2>3, <2>4 DEF DeviceChecks
<1>5. overflow => \E p \in Pairs : ~Admissible(p)
  <2>1. SUFFICES ASSUME overflow PROVE \E p \in Pairs : ~Admissible(p)
    OBVIOUS
  <2>2. PICK e \in Evaluations : ~InRange(RoundEven(OwnerForce(e[1], e[2])))
    BY <1>1, <2>1 DEF DeviceChecks
  <2>3. e[1] \in Atoms /\ e[2] \in Atoms /\ e[1] # e[2]
    BY DEF Evaluations
  <2>8. e[1] \in Nat /\ e[2] \in Nat
    BY <2>3, PairForcesAssumption
  <2>4. CASE e[1] < e[2]
    <3>1. e \in Pairs
      BY <2>4 DEF Evaluations, Pairs
    <3>2. QED
      BY <1>3, <2>2, <3>1
  <2>5. CASE e[2] < e[1]
    <3> DEFINE p == <<e[2], e[1]>>
    <3>1. p \in Pairs /\ p[1] = e[2] /\ p[2] = e[1]
      BY <2>3, <2>5 DEF Pairs
    <3> HIDE DEF p
    <3>2. QED
      BY <1>3, <2>2, <3>1
  <2>6. QED
    BY <2>3, <2>4, <2>5, <2>8
<1>6. thrown <=> overflow
  <2>1. thrown => overflow
    BY <1>1, <1>4 DEF HostChecks
  <2>2. overflow => thrown
    <3>1. SUFFICES ASSUME overflow, ~thrown PROVE FALSE
      BY <1>1 DEF TypeOK
    <3>2. \A p \in Pairs : Admissible(p)
      BY <1>1, <1>2, <3>1 DEF HostChecks
    <3>3. QED
      BY <1>5, <3>1, <3>2
  <2>3. QED
    BY <1>1, <2>1, <2>2 DEF TypeOK
<1>7. ~thrown => hostForce = devForce /\ hostEnergy = devEnergy
  <2>1. SUFFICES ASSUME ~thrown PROVE hostForce = devForce /\ hostEnergy = devEnergy
    OBVIOUS
  <2>2. hostLeft = {} /\ devLeft = {} /\ DeviceSums
    BY <1>1, <1>2, <1>6, <2>1
  <2>3. \A o : Settled(o) = Pairs
    BY <2>2 DEF Settled
  <2>4. Pairs \ hostLeft = Pairs /\ Pairs \ devLeft = Pairs
    BY <2>2
  <2>5. \A a \in Atoms : hostForce[a] = devForce[a]
    BY <1>1, <2>2, <2>3, <2>4 DEF HostSums, DeviceSums
  <2>6. hostForce \in [Atoms -> Int] /\ devForce \in [Atoms -> Int]
    BY <1>1 DEF TypeOK
  <2>7. hostForce = devForce
    BY <2>5, <2>6
  <2>8. hostEnergy = devEnergy
    BY <1>1, <2>2, <2>4 DEF HostSums, DeviceSums
  <2>9. QED
    BY <2>7, <2>8
<1>8. QED
  BY <1>6, <1>7

\* INV-9, for any atoms, contributions, orders of evaluation and width: when
\* host and device have both finished a pass, they hold the same accumulators
\* bit for bit, or both have met a contribution out of range (FixedAccum::add
\* and quantize of zone_force.cuh).
THEOREM ForcesAgreeBitForBit == Spec => []BackendsAgree
<1>1. QED
  BY AlwaysSumInv, SumInvAgrees, PTL

-----------------------------------------------------------------------------
\* Momentum: the two contributions of a pair are opposite whole quanta.

ForcesVanish == Wrap(Total(hostForce, Atoms)) = 0

LEMMA CancelStep ==
  ASSUME TypeOK, NEW p \in Pairs, HostPair(p), ForcesVanish
  PROVE  ForcesVanish'
<1> DEFINE q == RoundEven(x[p])
           r == RoundEven(-x[p])
           f == hostForce
           a == p[1]
           b == p[2]
<1>1. /\ a \in Atoms /\ b \in Atoms /\ a # b
      /\ q \in Int /\ r \in Int /\ r = -q
  BY PairFacts
<1>2. f \in [Atoms -> Int]
  BY DEF TypeOK
<1>3. Wrap(Total(f, Atoms)) = 0
  BY DEF ForcesVanish
<1>4. CASE hostForce' = hostForce
  BY <1>4 DEF ForcesVanish
<1>5. CASE hostForce' = [hostForce EXCEPT ![p[1]] = Add(@, q), ![p[2]] = Add(@, r)]
  <2> DEFINE c == Wrap(f[a] + q)
             d == Wrap(f[b] + r)
             g == [f EXCEPT ![a] = c]
             h == [g EXCEPT ![b] = d]
             T == Total(f, Atoms)
  <2> HIDE DEF a, b, q, r, f
  <2>1. IsFiniteSet(Atoms)
    BY PairForcesAssumption
  <2>2. f[a] \in Int /\ f[b] \in Int /\ f[a] + q \in Int /\ f[b] + r \in Int
    BY <1>1, <1>2
  <2>3. c \in Int /\ d \in Int
    BY <2>2, WrapAdds
  <2>4. hostForce' = h
    BY <1>1, <1>2, <1>5 DEF Add, f, a, b
  <2>5. T \in Int
    BY <1>2, <2>1, TotalRemove
  <2> HIDE DEF c, d
  <2>6. g \in [Atoms -> Int] /\ g[a] = c /\ g[b] = f[b]
        /\ \A s \in Atoms \ {a} : g[s] = f[s]
    BY <1>1, <1>2, <2>3
  <2> HIDE DEF g, T
  <2>7. Total(g, Atoms) = T - f[a] + c
    <3>1. Total(g, Atoms) = Total(f, Atoms) - f[a] + g[a]
      BY <1>1, <1>2, <2>1, <2>6, TotalChange
    <3>2. QED
      BY <2>6, <3>1 DEF T
  <2>8. Total(h, Atoms) = Total(g, Atoms) - g[b] + d
    <3>1. h \in [Atoms -> Int] /\ h[b] = d /\ \A s \in Atoms \ {b} : h[s] = g[s]
      BY <1>1, <2>3, <2>6
    <3> HIDE DEF h
    <3>2. QED
      BY <1>1, <2>1, <2>6, <3>1, TotalChange
  <2>9. Total(h, Atoms) = (T - f[a] - f[b] + c) + d
    BY <2>2, <2>3, <2>5, <2>6, <2>7, <2>8
  <2> HIDE DEF h
  <2>10. Wrap((T - f[a] - f[b] + c) + d) = Wrap((T - f[a] - f[b] + c) + (f[b] + r))
    <3>1. T - f[a] - f[b] + c \in Int
      BY <2>2, <2>3, <2>5
    <3>2. QED
      BY <2>2, <3>1, WrapAdds DEF d
  <2>11. (T - f[a] - f[b] + c) + (f[b] + r) = (T - f[a] + r) + c
    BY <1>1, <2>2, <2>3, <2>5
  <2>12. Wrap((T - f[a] + r) + c) = Wrap((T - f[a] + r) + (f[a] + q))
    <3>1. T - f[a] + r \in Int
      BY <1>1, <2>2, <2>5
    <3>2. QED
      BY <2>2, <3>1, WrapAdds DEF c
  <2>13. (T - f[a] + r) + (f[a] + q) = T
    BY <1>1, <2>2, <2>5
  <2>14. Wrap(Total(h, Atoms)) = 0
    BY <1>3, <2>9, <2>10, <2>11, <2>12, <2>13 DEF T
  <2>15. QED
    BY <2>4, <2>14 DEF ForcesVanish
<1>6. QED
  BY <1>4, <1>5 DEF HostPair

LEMMA CancelInit == Init => ForcesVanish
<1> SUFFICES ASSUME Init PROVE ForcesVanish
  OBVIOUS
<1>1. \A a \in Atoms : hostForce[a] = 0
  BY DEF Init
<1>2. Total(hostForce, Atoms) = 0
  BY <1>1, PairForcesAssumption, TotalZero
<1>3. QED
  BY <1>2, WrapZero DEF ForcesVanish

\* Newton's third law in whole quanta: at every moment of a host pass, for any
\* atoms and contributions, the accumulated forces cancel exactly (do_pair of
\* conveyor.hpp and zones.hpp, FixedAccum).
THEOREM MomentumIsExact == Spec => []ForcesCancel
<1>1. Init => ForcesVanish
  BY CancelInit
<1>2. SumInv /\ ForcesVanish /\ [Next]_vars => ForcesVanish'
  <2> SUFFICES ASSUME SumInv, ForcesVanish, [Next]_vars PROVE ForcesVanish'
    OBVIOUS
  <2>1. ASSUME NEW p \in Pairs, HostPair(p) PROVE ForcesVanish'
    BY <2>1, CancelStep DEF SumInv
  <2>2. ASSUME NEW o \in Atoms, NEW j \in Atoms, DevEvaluation(o, j)
        PROVE ForcesVanish'
    BY <2>2 DEF DevEvaluation, hostVars, ForcesVanish
  <2>3. CASE UNCHANGED vars
    BY <2>3 DEF vars, hostVars, ForcesVanish
  <2>4. QED
    BY <2>1, <2>2, <2>3 DEF Next, Done
<1>3. ForcesVanish => ForcesCancel
  BY DEF ForcesVanish, ForcesCancel, Total
<1>4. QED
  BY <1>1, <1>2, <1>3, AlwaysSumInv, PTL DEF Spec

=============================================================================
