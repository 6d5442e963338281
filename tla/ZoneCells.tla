------------------------------ MODULE ZoneCells ------------------------------
(***************************************************************************)
(* The cell lists that cull the candidates of a zone on the device         *)
(* (include/tdmd/cuda/zone_cells.cuh), along z: each zone has a grid of    *)
(* cells, rebuilt in every pass from the positions of its atoms, and an    *)
(* atom of the zone or of a neighbour looks only at the three cells around *)
(* its own.  Along x and y a grid is like that of a single zone here.      *)
(*                                                                         *)
(* A cell is wider than the cutoff by a hair: a length that holds exactly  *)
(* k cutoffs gets k - 1 cells.                                             *)
(***************************************************************************)
EXTENDS ZoneMembership, FiniteSets

\* The whole number of widths a little above the cutoff that fit into L.
Fitting(L) == IF L > Cutoff THEN (L - 1) \div Cutoff ELSE 1

\* A single zone on a periodic axis has a grid that wraps around.
Alone == pbc /\ n = 1

\* make_zone_grid.  Mutant: a wrapping grid of two cells.
GridOfTwo(i) ==
  IF Alone THEN [lo |-> 0, range |-> Length, cells |-> Fitting(Length),
                 wraps |-> Fitting(Length) > 1]
  ELSE [lo |-> i * width - Cutoff, range |-> width + 2 * Cutoff,
        cells |-> Fitting(width + 2 * Cutoff), wraps |-> FALSE]

GridOf(i) ==
  IF Alone
    THEN LET fit == Fitting(Length)
         IN  [lo |-> 0, range |-> Length, cells |-> IF fit < 3 THEN 1 ELSE fit,
              wraps |-> fit >= 3]
    ELSE [lo |-> i * width - Cutoff, range |-> width + 2 * Cutoff,
          cells |-> Fitting(width + 2 * Cutoff), wraps |-> FALSE]

\* rint of p / q: ties go to the even number.
NearestInt(p, q) ==
  LET below == p \div q
      twice == 2 * (p % q)
  IN  IF twice < q \/ (twice = q /\ below % 2 = 0) THEN below ELSE below + 1

\* Mutant: a coordinate is looked up where it is.
Unfolded(g, p) == p
\* The image of a coordinate the grid g looks up: inside the box of a grid that
\* wraps, else the one nearest to the centre of the grid.
Folded(g, p) ==
  IF g.wraps THEN g.lo + ((p - g.lo) % Length)
  ELSE IF pbc
    THEN p - Length * NearestInt(2 * (p - g.lo) - g.range, 2 * Length)
  ELSE p

\* CellGrid::coords; what lies outside of the grid belongs to its edge cells.
CellOf(g, p) ==
  LET c == ((Folded(g, p) - g.lo) * g.cells) \div g.range
  IN  IF c < 0 THEN 0 ELSE IF c >= g.cells THEN g.cells - 1 ELSE c

Offsets(g) == IF g.cells = 1 THEN {0} ELSE {-1, 0, 1}

\* The cells around p, by the offset that leads there.
CellAt(g, p, d) ==
  LET c == CellOf(g, p) + d IN IF g.wraps THEN (c + g.cells) % g.cells ELSE c

\* How often an atom at p examines an atom of zone i at q.
Visits(i, p, q) ==
  LET g == GridOf(i) IN Cardinality({d \in Offsets(g) : CellAt(g, p, d) = CellOf(g, q)})

-----------------------------------------------------------------------------
\* Culling loses nothing and counts nothing twice: in every pass that is not
\* halted, an atom examines each atom of its zone and of the neighbours at most
\* once, and once for certain if it is within the cutoff, however far the atoms
\* strayed from their zones and on whichever side of the periodic seam they are.
CullingExact ==
  status = "running" =>
    \A a, b \in Atoms :
      (a # b /\ Evaluators(zone[a], zone[b]) # {}) =>
        /\ Visits(zone[b], z[a], z[b]) <= 1
        /\ Near(z[a], z[b]) => Visits(zone[b], z[a], z[b]) = 1
=============================================================================
