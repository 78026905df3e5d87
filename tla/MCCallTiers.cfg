SPECIFICATION FairSpec
CONSTANTS
  Cores = {"plain", "calc", "higher"}
  BodiesF <- MCBodiesF
  BodiesG <- MCBodiesG
  Values = {1, 2}
  Threshold = 2
  MaxEpoch = 2
INVARIANTS CacheIsLookup SameAsInterpreter NothingLost
PROPERTY CallEnds
