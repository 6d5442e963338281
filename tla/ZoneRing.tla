------------------------------ MODULE ZoneRing ------------------------------
(***************************************************************************)
(* The slabs of ZoneDecomposition (include/tdmd/core/zones.hpp) along z and *)
(* which of them interact.  A zone is at least r_cut wide, so it interacts *)
(* with its immediate neighbours only; build() refuses the decompositions  *)
(* in which one pair of zones would be met twice.                          *)
(***************************************************************************)
EXTENDS Integers

CONSTANTS N,    \* number of zones (slabs)
          Pbc   \* is the box periodic along z?

ASSUME RingAssumption ==
  /\ N \in Nat \ {0}
  /\ Pbc \in BOOLEAN
  /\ Pbc => N # 2

Zones == 0 .. N - 1

\* The zone whose cross pairs are counted by the computation of zone i.
CrossPartner(i) ==
  LET znext == (i + 1) % N
  IN  IF N > 1 /\ (znext > i \/ Pbc) THEN {znext} ELSE {}

Adjacent(i) == CrossPartner(i) \cup {b \in Zones : i \in CrossPartner(b)}

\* Force accumulated on a zone, as a ledger: how often the pairs it has with
\* each zone were counted.  A complete force counts every interacting zone,
\* the zone itself included, exactly once.
NoForces == [b \in Zones |-> 0]
FullForces(i) == [b \in Zones |-> IF b = i \/ b \in Adjacent(i) THEN 1 ELSE 0]

=============================================================================
