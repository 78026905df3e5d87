\* Programs of two operations on symbolic values.
SPECIFICATION Spec
CONSTANTS
  P = 1009
  PiValue = 355
  EValue = 87
  IValue = 469
  Small = 12
  MaxPowBits = 20
  Atoms <- MCAtoms
  Operators <- MCOperators
  Functions <- MCFunctions
  Variables <- MCVariables
  Points <- MCPoints
  Targets <- MCTargets
  LHopitalMaxIter = 8
  MaxSteps = 2
INVARIANTS
  ValueKept
  DerivativesAgree
CHECK_DEADLOCK FALSE
