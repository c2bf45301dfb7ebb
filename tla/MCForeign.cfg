CONSTANTS
  r0 = r0
  w1 = w1
  Runner = {r1, r2}
  NoRunner = nobody
  Witness = {}
  MaxInt64 = 9
  Position = {1}
  Start <- Empty
  MaxLog = 7
  MaxVersion = 2
  AutoPromote = TRUE
  Commands = {"begin", "resume", "run", "abandon"}
  Faults = {}
  HonestTakeover = TRUE
  ForeignRefold = TRUE
SPECIFICATION Spec
SYMMETRY Symmetry
INVARIANTS
  StreamSound
CHECK_DEADLOCK FALSE
