SPECIFICATION McSpec
CONSTANTS
  LoopFormula = TRUE
  Functions <- McFunctions
  Arguments <- McArguments
  Globals <- McGlobals
  Compiled <- CompileFn
  Interpreted <- Run
INVARIANTS
  ChunksDisciplined
  FindsItsOperands
  RerunSeesElementStores
  StackEmptyBetweenStatements
  SameAnswer
PROPERTIES
  CallEnds
