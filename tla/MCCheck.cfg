SPECIFICATION Spec
CONSTANTS
  Names <- McNames
  Literals <- McLiterals
  Strings <- McStrings
  MaxExprDepth = 20
  MaxRecursion = 12
  Modules <- McModules
  Embedded <- McEmbedded
  Floats = {}
  RootNames <- McRootNames
  KnownKeys <- McKnownKeys
  Registered <- McRegistered
  MaxCalls = 5
  NumberOf <- McNumberOf
  MenuAt <- McMenuAt
INVARIANT AcceptedNeverFails
INVARIANT UnreachableNeverRuns
INVARIANT UnusedIsNeverRead
CHECK_DEADLOCK FALSE
