\* Two threads, up to three chunks, integers up to 7, ten elements at most.
SPECIFICATION FairSpec
CONSTANTS
  Initial <- InitialMC
  Bodies <- BodiesMC
  Ranges <- RangesMC
  NumThreads = 2
  MaxIndex = 7
  MaxElems = 10
INVARIANTS
  CountIsExact
  ResultIsMeaning
  IndependentIsSequential
PROPERTIES
  LoopEnds
