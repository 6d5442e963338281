CONSTANTS
  Steps = 4
  AutoStep = TRUE
  FrameEvery = 2
  Displacement = 24
  C3Num = 1
  C3Den = 3
  DtMin = 3
  DtMax = 20
  DtInitials = {1, 8, 20}
  Speeds = {0, 1, 2, 4, 12}
  Caps = {1, 5, 100}
SPECIFICATION Spec
INVARIANTS
  TypeOK
  StepBounded
  FramesWhole
