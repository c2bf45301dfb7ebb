CONSTANTS
  r0 = r0
  w1 = w1
  Runner = {r0, r1, r2}
  NoRunner = nobody
  Witness = {w1}
  MaxInt64 = 9
  Position = {1}
  Start <- SecondPromoted
  MaxLog = 17
  MaxVersion = 2
  AutoPromote = TRUE
  Commands = {"resume", "retire", "rollback"}
  Faults = {"crash"}
  HonestTakeover = TRUE
  ForeignRefold = FALSE
SPECIFICATION RepairSpec
PROPERTIES
  ReservationCompletes
CHECK_DEADLOCK FALSE
