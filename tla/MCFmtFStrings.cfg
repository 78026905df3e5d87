SPECIFICATION Spec
CONSTANTS
  Names <- McNames
  Literals <- McLiterals
  Strings <- McStrings
  MaxExprDepth = 20
  MaxRecursion = 12
  Texts <- FStrings
PROPERTY FStringsIdempotent
CHECK_DEADLOCK FALSE
