SPECIFICATION Spec
CONSTANTS
  Names <- McNames
  Literals <- McLiterals
  Strings <- McStrings
  MaxExprDepth = 20
  MaxRecursion = 12
  Texts <- McTexts
INVARIANT ParserBalanced
PROPERTY WriteKeepsProgram
CHECK_DEADLOCK FALSE
