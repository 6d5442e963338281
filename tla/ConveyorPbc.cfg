\* A periodic ring: held-back heads and rotated pass order, every fault.
SPECIFICATION FairSpec
CONSTANTS
  N = 4
  Pbc = TRUE
  Z = 3
  Steps = 5
  Faults <- AllFaults
INVARIANTS
  TypeOK
  NoLogicError
  WholeZones
  LambdaChain
  RecordedPassesExact
  ForecastCoversAge
  ZoneConserved
  HaltedPassUnrecorded
  SendNeverBlocks
  ResultConsistent
PROPERTIES
  FirstHaltWins
  ImplementsStencil
