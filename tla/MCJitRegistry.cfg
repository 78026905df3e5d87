\* Handles are called, evicted and registered from the evaluating thread
\* and from the tasks of a `parfor`.
SPECIFICATION Spec
CONSTANTS
  Main = main
  Workers = {w1, w2}
  Capacity = 2
  Forms <- AllForms
  TaskForms <- TaskOnly
  MaxIds = 4
  MaxChunks = 2
  MaxDepth = 2
SYMMETRY Symmetry
INVARIANTS
  FallbackOnlyOnEvaluator
  MissMeansExpired
  LastReferenceUnlessTasksRegister
