\* Limits of expressions of up to two operations.
SPECIFICATION Spec
CONSTANTS
  P = 1009
  PiValue = 355
  EValue = 87
  IValue = 469
  Small = 12
  MaxPowBits = 20
  Atoms <- PlainAtoms
  Operators <- MCOperators
  Functions <- MCFunctions
  Variables <- MCVariables
  Points <- MCPoints
  Targets <- MCTargets
  LHopitalMaxIter = 8
  MaxSteps = 2
INVARIANT
  LimitIsValue
CHECK_DEADLOCK FALSE
