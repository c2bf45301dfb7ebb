CONSTANTS
  Runner = {r1}
  NoRunner = nobody
  Witness = {w1}
  MaxInt64 = 4
  MaxVersion = 3
  MaxPosition = 1
SPECIFICATION Spec
INVARIANTS
  CleanIsValid
  CutoverFoldAgrees
  RetiredNeverServes
  HistoryInv
CHECK_DEADLOCK FALSE
