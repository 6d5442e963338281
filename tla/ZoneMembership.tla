--------------------------- MODULE ZoneMembership ---------------------------
(***************************************************************************)
(* Which zone an atom belongs to (include/tdmd/core/zones.hpp, and the     *)
(* membership guard of core/conveyor.hpp).  Atoms are binned once, at t0,  *)
(* into slabs along z and keep their zone while they move; a zone meets    *)
(* only itself and its two neighbours.  A pass whose atoms have strayed so *)
(* far that a pair within the cutoff could be missed must halt.            *)
(*                                                                         *)
(* Lengths are whole ticks; the box starts at 0.  Only the z component of  *)
(* a distance counts here: x and y can only make a pair less close.        *)
(***************************************************************************)
EXTENDS Integers

CONSTANTS Atoms,      \* the atoms
          Positions,  \* the z coordinates an atom may take, not wrapped
          ZoneCounts, \* the values of n_zones to try
          Widths,     \* the slab widths to try
          Cutoff      \* rcut

ASSUME MembershipAssumption ==
  /\ Positions \subseteq Int
  /\ ZoneCounts \subseteq Nat \ {0}
  /\ Widths \subseteq Nat \ {0}
  /\ Cutoff \in Nat \ {0}

VARIABLES n,      \* n_zones
          width,  \* slab width
          pbc,    \* is z periodic
          z,      \* position of each atom in the pass, not wrapped
          zone,   \* static zone of each atom
          status  \* "new", "rejected", "running" or "stale"

geometry == <<n, width, pbc>>
vars == <<n, width, pbc, z, zone, status>>

Zones == 0 .. n - 1
Length == n * width
Wrapped(p) == IF pbc THEN p % Length ELSE p

Init ==
  /\ n \in ZoneCounts /\ width \in Widths /\ pbc \in BOOLEAN
  /\ z \in [Atoms -> Positions]
  /\ zone = [a \in Atoms |-> 0]
  /\ status = "new"

-----------------------------------------------------------------------------
\* What build() refuses to decompose.
TooThin == n > 1 /\ width < Cutoff
Unbuildable == TooThin \/ (pbc /\ n = 2)

\* Mutant: the slab number is not clamped.
SlabUnclamped(p) == p \div width

\* The slab of a coordinate; outside the box, on a free axis, the outer one.
SlabOf(p) ==
  IF p < 0 THEN 0 ELSE IF p \div width >= n THEN n - 1 ELSE p \div width

Build ==
  /\ status = "new"
  /\ IF Unbuildable
       THEN status' = "rejected" /\ UNCHANGED zone
       ELSE /\ status' = "running"
            /\ zone' = [a \in Atoms |-> SlabOf(Wrapped(z[a]))]
  /\ UNCHANGED <<geometry, z>>

\* How far an atom of slab i at the wrapped coordinate p is outside of it: the
\* shorter way round on a periodic axis; the outer slabs of a free axis are
\* unbounded outwards.
Shorter(s, t) == IF s <= t THEN s ELSE t
Excess(i, p) ==
  LET lo == i * width
      hi == lo + width
  IN  IF p < lo THEN
           IF pbc THEN Shorter(lo - p, p + Length - hi)
           ELSE IF i = 0 THEN 0 ELSE lo - p
      ELSE IF p > hi THEN
           IF pbc THEN Shorter(p - hi, lo + Length - p)
           ELSE IF i = n - 1 THEN 0 ELSE p - hi
      ELSE 0

\* Mutant: an atom may stray by the whole slack.
WithinSlack(i, p) == Excess(i, p) <= width - Cutoff
MembershipOk(i, p) == 2 * Excess(i, p) <= width - Cutoff

\* A pass: the atoms drift anywhere, and every zone is guarded at its END.
Pass ==
  /\ status = "running"
  /\ z' \in [Atoms -> Positions]
  /\ status' = IF n >= 3 /\ \E a \in Atoms : ~MembershipOk(zone[a], Wrapped(z'[a]))
               THEN "stale" ELSE "running"
  /\ UNCHANGED <<geometry, zone>>

Stopped == status \in {"rejected", "stale"} /\ UNCHANGED vars

Next == Build \/ Pass \/ Stopped
Spec == Init /\ [][Next]_vars

-----------------------------------------------------------------------------
\* The zone whose cross pairs are counted when zone i computes, if any.
Partners(i) ==
  IF n > 1 /\ (i + 1 < n \/ pbc) THEN {(i + 1) % n} ELSE {}

\* The zones that evaluate the pair of two atoms of zones i and j.
Evaluators(i, j) ==
  {c \in Zones : \/ i = c /\ j = c
                 \/ i = c /\ j \in Partners(c)
                 \/ j = c /\ i \in Partners(c)}

\* The minimum image distance along z is below the cutoff.
Near(p, q) ==
  IF pbc THEN LET d == (p - q) % Length IN d < Cutoff \/ Length - d < Cutoff
         ELSE p - q < Cutoff /\ q - p < Cutoff

TypeOK ==
  /\ n \in ZoneCounts /\ width \in Widths /\ pbc \in BOOLEAN
  /\ z \in [Atoms -> Positions]
  /\ zone \in [Atoms -> Zones]
  /\ status \in {"new", "rejected", "running", "stale"}

\* INV-8 for the zones of t0, in every pass that is not halted: two atoms
\* within the cutoff are evaluated, and by one zone only, however far they have
\* moved from where they were binned.
PairsComplete ==
  status = "running" =>
    \A a, b \in Atoms :
      Near(z[a], z[b]) => \E c \in Zones : Evaluators(zone[a], zone[b]) = {c}
=============================================================================
