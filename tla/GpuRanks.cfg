\* Three nodes on two ranks, one of them with an edge of its own.  Each boundary
\* edge carries the zones of two passes, ten over seven buffers.
SPECIFICATION FairSpec
CONSTANTS
  N = 5
  Pbc = TRUE
  Z = 3
  Heads = {0, 2}
  PoolSlots = 7
  Steps = 7
  Faults = {"Overlap", "Device"}
INVARIANTS
  NoLogicError
  NoRace
  WholeZones
  RecordedPassesExact
  FailedPassWithholdsZone
  SendNeverWaits
  ResultConsistent
PROPERTIES
  Termination
  ImplementsStencil
