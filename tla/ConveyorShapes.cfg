\* Free axis, self-feeding node and single zone: termination.
SPECIFICATION FairSpec
CONSTANTS
  Kinds = {"Overlap", "Causality", "StaleZone", "NonFiniteEnergy", "Overflow", "Spawn"}
PROPERTIES
  Termination
