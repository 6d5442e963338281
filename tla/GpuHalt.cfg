\* Two ranks of one node: does a halt reach every rank?
SPECIFICATION FairSpec
CONSTANTS
  N = 1
  Pbc = TRUE
  Z = 2
  Heads = {0, 1}
  PoolSlots = 3
  Steps = 2
  Faults <- OneOfEach
INVARIANTS
  HaltReachesAllRanks
