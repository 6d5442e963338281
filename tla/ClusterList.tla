----------------------------- MODULE ClusterList -----------------------------
(***************************************************************************)
(* The cluster pair list (include/tdmd/core/cluster.hpp) and the engine    *)
(* that keeps it over many steps (ClusteredPairEngine in                   *)
(* include/tdmd/potentials/pair_driver.hpp).  A build sorts the atoms in   *)
(* place along a Z-order curve, cuts the sorted array into clusters of     *)
(* equal size, boxes each and lists the pairs of clusters whose boxes come *)
(* within the cutoff plus a skin, found through a grid.  The list is used  *)
(* until an atom has moved by more than half the skin.                     *)
(*                                                                         *)
(* Lengths are whole ticks; the box starts at 0.  An atom is its id: the   *)
(* arrays of the SoA are permuted together, so the array of ids is the     *)
(* order of all of them.                                                   *)
(***************************************************************************)
EXTENDS Integers, SequencesExt, FiniteSetsExt

CONSTANTS Ids,         \* numbers of the atoms
          Dims,        \* the dimensions
          Periodic,    \* the periodic ones
          BoxLen,      \* length of the box along each
          Starts,      \* positions of the atoms at first
          Moves,       \* how far an atom may drift along one dimension
          MaxDrifts,   \* bound on the drifts of a behaviour
          Cell,        \* binning cell size
          MortonBits,  \* bits per dimension of the curve (21 in the code)
          Rcut, Skin,
          ClusterSize, \* kClusterSize
          MaxCells     \* most grid cells along a dimension

VARIABLES x,       \* position of each atom, not wrapped
          atoms,   \* ids in the order of the arrays
          x0,      \* positions at the last build, in array order (empty: none)
          nbr,     \* the clusters listed with each cluster
          fresh,   \* has run_pairs been called since the last drift?
          drifts   \* counter of the bound

vars == <<x, atoms, x0, nbr, fresh, drifts>>

Count == Len(atoms)
Cutoff == Rcut + Skin

Init ==
  /\ x \in Starts
  /\ atoms = SetToSortSeq(Ids, <)
  /\ x0 = <<>> /\ nbr = <<>>
  /\ fresh = FALSE /\ drifts = 0

-----------------------------------------------------------------------------
(* Binning space and the sort.                                               *)

Lesser(s, t) == IF s <= t THEN s ELSE t
Larger(s, t) == IF s <= t THEN t ELSE s
Clamped(c, top) == Larger(0, Lesser(c, top))

BinCoord(i, d) == IF d \in Periodic THEN x[i][d] % BoxLen[d] ELSE x[i][d]

\* Origin and extent of the binning space; a flat free dimension gets the
\* smallest extent there is.
Origin(d) == IF d \in Periodic THEN 0 ELSE Min({x[i][d] : i \in Ids})
Span(d) ==
  IF d \in Periodic THEN BoxLen[d]
  ELSE Larger(Max({x[i][d] : i \in Ids}) - Origin(d), 1)

\* Which of `count` equal cells a coordinate falls into.
CellIndex(d, coord, count) == ((coord - Origin(d)) * count) \div Span(d)

BinCount(d) == Larger(1, Lesser(Span(d) \div Cell, 2 ^ MortonBits - 1))
Bin(i, d) == Clamped(CellIndex(d, BinCoord(i, d), BinCount(d)), BinCount(d) - 1)

\* The bits of the bin numbers interleaved, the lowest dimension lowest.
Bit(c, b) == (c \div 2 ^ b) % 2
Morton(i) ==
  MapThenSumSet(LAMBDA p : Bit(Bin(i, p[2]), p[1]) * 2 ^ (3 * p[1] + p[2]),
                (0 .. MortonBits - 1) \X Dims)

Sorted ==
  LET code == [i \in Ids |-> Morton(i)]
  IN  SetToSortSeq(Ids, LAMBDA p, q :
        code[p] < code[q] \/ (code[p] = code[q] /\ p < q))

-----------------------------------------------------------------------------
(* Clusters and their boxes, for an order of the atoms.                      *)

ClusterNumbers(order) == 1 .. (Len(order) + ClusterSize - 1) \div ClusterSize

\* Positions of a cluster in the arrays.
Members(c) == (c - 1) * ClusterSize + 1 .. Lesser(c * ClusterSize, Count)

Boxes(order) ==
  [c \in ClusterNumbers(order) |->
    [d \in Dims |->
      LET coords == {BinCoord(order[k], d) : k \in Members(c)}
      IN  [lo |-> Min(coords), hi |-> Max(coords)]]]

-----------------------------------------------------------------------------
(* Pair list: a grid proposes, the distance of the boxes decides.            *)

\* aabb_close, in half ticks.  Two boxes that are together half as long as a
\* periodic box touch along it.
Width(box) == box.hi - box.lo
Apart(d, a, b) ==
  LET centres == a.lo + a.hi - b.lo - b.hi
      image == centres % (2 * BoxLen[d])
      between == IF d \in Periodic THEN Lesser(image, 2 * BoxLen[d] - image)
                 ELSE Larger(centres, -centres)
  IN  IF d \in Periodic /\ Width(a) + Width(b) >= BoxLen[d] THEN 0
      ELSE Larger(0, between - Width(a) - Width(b))

Close(a, b) ==
  MapThenSumSet(LAMBDA d : Apart(d, a[d], b[d]) ^ 2, Dims) <= 4 * Cutoff ^ 2

GridCount(d) == Larger(1, Lesser(Span(d) \div Cutoff, MaxCells))

\* Mutant: the cells of a periodic dimension end at the seam.
CellsUnwrapped(d, lo, hi) ==
  LET top == GridCount(d) - 1
  IN  Clamped(CellIndex(d, lo, GridCount(d)), top)
        .. Clamped(CellIndex(d, hi, GridCount(d)), top)

\* The grid cells an interval overlaps.
CellsOf(d, lo, hi) ==
  LET g == GridCount(d)
      first == CellIndex(d, lo, g)
      last == CellIndex(d, hi, g)
  IN  IF d \in Periodic
        THEN {(first + k) % g : k \in 0 .. Lesser(last - first + 1, g) - 1}
        ELSE Clamped(first, g - 1) .. Clamped(last, g - 1)

\* A cluster is registered in every cell its box overlaps and found from every
\* cell of the box padded by the cutoff: they share a cell if they share one
\* along each dimension.
Proposed(a, b) ==
  \A d \in Dims :
    CellsOf(d, a[d].lo - Cutoff, a[d].hi + Cutoff) \cap CellsOf(d, b[d].lo, b[d].hi)
      # {}

PairList(boxes) ==
  [p \in DOMAIN boxes |->
    {q \in DOMAIN boxes : Proposed(boxes[p], boxes[q]) /\ Close(boxes[p], boxes[q])}]

-----------------------------------------------------------------------------
(* The engine.                                                               *)

Distance2(u, v) == MapThenSumSet(LAMBDA d : (u[d] - v[d]) ^ 2, Dims)

\* Mutant: an atom may move by the whole skin.
NeedRebuildAtSkin ==
  \/ x0 = <<>>
  \/ \E k \in 1 .. Count : Distance2(x[atoms[k]], x0[k]) > Skin ^ 2

\* need_rebuild: no list yet, or an atom moved by more than half the skin.
NeedRebuild ==
  \/ x0 = <<>>
  \/ \E k \in 1 .. Count : 4 * Distance2(x[atoms[k]], x0[k]) > Skin ^ 2

Rebuild ==
  /\ atoms' = Sorted
  /\ nbr' = PairList(Boxes(Sorted))
  /\ x0' = [k \in 1 .. Count |-> x[atoms'[k]]]

\* run_pairs, up to the loop over the list.
RunPairs ==
  /\ ~fresh
  /\ IF NeedRebuild THEN Rebuild ELSE UNCHANGED <<atoms, x0, nbr>>
  /\ fresh' = TRUE
  /\ UNCHANGED <<x, drifts>>

\* The atoms move between two calls; one of them, here, as often as it likes.
Drift ==
  /\ drifts < MaxDrifts
  /\ \E i \in Ids, d \in Dims, m \in Moves : x' = [x EXCEPT ![i][d] = @ + m]
  /\ drifts' = drifts + 1
  /\ fresh' = FALSE
  /\ UNCHANGED <<atoms, x0, nbr>>

Finished == drifts = MaxDrifts /\ fresh /\ UNCHANGED vars

Next == RunPairs \/ Drift \/ Finished
Spec == Init /\ [][Next]_vars

-----------------------------------------------------------------------------
\* The pairs of array positions the loop of run_pairs visits.
Visited ==
  {<<k, l>> \in (1 .. Count) \X (1 .. Count) :
     \E c \in DOMAIN nbr : k \in Members(c) /\ \E b \in nbr[c] : l \in Members(b)}

\* Square of the distance of the nearest images.
ImageDistance2(u, v) ==
  MapThenSumSet(LAMBDA d :
    IF d \in Periodic
      THEN LET r == (u[d] - v[d]) % BoxLen[d] IN Lesser(r, BoxLen[d] - r) ^ 2
      ELSE (u[d] - v[d]) ^ 2, Dims)

\* The list misses no pair: two atoms within the cutoff are visited from either
\* side, at every call, however long ago the list was built and however the
\* atoms were sorted since (the NOTE and the rebuild policy in pair_driver.hpp).
NoPairMissed ==
  fresh =>
    \A k, l \in 1 .. Count :
      ImageDistance2(x[atoms[k]], x[atoms[l]]) < Rcut ^ 2 => <<k, l>> \in Visited

\* The grid loses nothing: the list is the one the exhaustive comparison of all
\* boxes would give (build_pairs_bruteforce, the comment in cluster.hpp).
GridIsExact ==
  LET boxes == Boxes(atoms)
  IN  fresh /\ x0 = [k \in 1 .. Count |-> x[atoms[k]]] =>
        nbr = [p \in DOMAIN boxes |-> {q \in DOMAIN boxes : Close(boxes[p], boxes[q])}]
=============================================================================
