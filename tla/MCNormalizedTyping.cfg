CONSTANTS
  Alphabet <- MCAlphabet
  KWindow = 3
  MaxRaw = 6
SPECIFICATION Spec
INVARIANTS
  OrderIsStableSort
  IncrementalIsBatch
  ShownIsEquivalent
  FullyComposed
CHECK_DEADLOCK FALSE
