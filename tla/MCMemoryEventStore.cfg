CONSTANTS
  Stream = {s1, s2}
  Reader = {a}
  MaxPosition = 3
  MaxBatch = 2
  MaxCount = 1
SPECIFICATION Spec
SYMMETRY Symmetry
INVARIANTS
  GlobalMatchesStreams
PROPERTIES
  YieldedIsSettled
  KeepsEventLog
CHECK_DEADLOCK FALSE
