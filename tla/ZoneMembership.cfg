CONSTANTS
  Atoms = {a1, a2}
  a1 = a1
  a2 = a2
  Positions <- MCPositions
  ZoneCounts = {1, 2, 3, 4, 5}
  Widths = {2, 3, 5, 7}
  Cutoff = 2
SPECIFICATION Spec
INVARIANTS
  TypeOK
  PairsComplete
  CullingExact
