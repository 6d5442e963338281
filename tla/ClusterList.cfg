CONSTANTS
  Ids = {1, 2, 3}
  Dims = {1, 2}
  Periodic = {1}
  BoxLen <- MCBoxLen
  Starts <- MCStarts
  Moves <- MCMoves
  MaxDrifts = 2
  Cell = 4
  MortonBits = 3
  Rcut = 2
  Skin = 2
  ClusterSize = 2
  MaxCells = 128
SPECIFICATION Spec
INVARIANTS
  NoPairMissed
  GridIsExact
