SPECIFICATION Spec
CONSTANTS
  Word <- MCWord
  Line <- PlainLine
  MaxLines = 3
INVARIANTS
  NegateMeansBang
