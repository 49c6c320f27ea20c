SPECIFICATION Spec
CONSTANTS
  Word <- MCWord
  Line <- MCLine
  MaxLines = 4
INVARIANTS
  RepeatedKeysAddUp
  NegatedTestsDecide
