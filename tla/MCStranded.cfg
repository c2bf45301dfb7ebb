CONSTANTS
  r0 = r0
  w1 = w1
  Runner = {r1, r2}
  NoRunner = nobody
  Witness = {}
  MaxInt64 = 9
  Position = {1}
  Start <- Empty
  MaxLog = 7
  MaxVersion = 1
  AutoPromote = FALSE
  Commands = {"begin", "resume", "run", "policy", "cancel"}
  Faults = {}
  HonestTakeover = TRUE
  ForeignRefold = FALSE
SPECIFICATION Spec
SYMMETRY Symmetry
INVARIANTS
  NoStrandedClaim
CHECK_DEADLOCK FALSE
