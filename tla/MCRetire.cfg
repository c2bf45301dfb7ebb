CONSTANTS
  r0 = r0
  w1 = w1
  Runner = {r0, r1, r2}
  NoRunner = nobody
  Witness = {w1}
  MaxInt64 = 9
  Position = {1}
  Start <- SecondPromoted
  MaxLog = 17
  MaxVersion = 3
  AutoPromote = TRUE
  Commands = {"begin", "resume", "retire", "override", "rollback", "policy"}
  Faults = {"crash", "failed", "unknown"}
  HonestTakeover = TRUE
  ForeignRefold = FALSE
SPECIFICATION Spec
SYMMETRY Symmetry
INVARIANTS
  StreamSound
  TornNeverServes
  RetiredIsGone
  WitnessesMoved
PROPERTIES
  KeepsContract
CHECK_DEADLOCK FALSE
