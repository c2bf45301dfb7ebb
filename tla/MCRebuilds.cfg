CONSTANTS
  r0 = r0
  w1 = w1
  Runner = {r1, r2}
  NoRunner = nobody
  Witness = {}
  MaxInt64 = 9
  Position = {1}
  Start <- Begun
  MaxLog = 6
  MaxVersion = 1
  AutoPromote = TRUE
  Commands = {"resume", "run", "takeover", "abandon", "promote"}
  Faults = {"crash", "appended", "unknown", "processor", "reconcile", "handler"}
  HonestTakeover = TRUE
  ForeignRefold = FALSE
SPECIFICATION Spec
SYMMETRY Symmetry
INVARIANTS
  TypeOK
  StreamSound
  OneBuilder
  PromotionIsCertified
  RunVerdict
CHECK_DEADLOCK FALSE
