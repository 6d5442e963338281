SPECIFICATION FairSpec
CONSTANTS
  Kinds = {"NonFiniteEnergy", "Spawn"}
INVARIANTS
  TypeOK
  NoLogicError
  NoRace
  HaltedPassUnrecorded
PROPERTIES
  Termination
