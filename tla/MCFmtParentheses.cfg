SPECIFICATION Spec
CONSTANTS
  Names <- McNames
  Literals <- McLiterals
  Strings <- McStrings
  MaxExprDepth = 20
  MaxRecursion = 12
  Texts <- McTexts
PROPERTY ParenthesesReinserted
CHECK_DEADLOCK FALSE
