CONSTANTS
  Atoms = {1, 2, 3}
  Values <- MCValues
  Half = 16
  Limit = 15
SPECIFICATION Spec
INVARIANTS
  BackendsAgree
  ForcesCancel
