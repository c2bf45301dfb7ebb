CONSTANTS
  r0 = r0
  w1 = w1
  Runner = {r1, r2}
  NoRunner = nobody
  Witness = {}
  MaxInt64 = 9
  Position = {1}
  Start <- Begun
  MaxLog = 4
  MaxVersion = 1
  AutoPromote = TRUE
  Commands = {"resume", "run", "abandon", "takeover", "cancel"}
  Faults = {"processor"}
  HonestTakeover = FALSE
  ForeignRefold = FALSE
SPECIFICATION FairSpec
PROPERTIES
  SupersededStops
  
CHECK_DEADLOCK FALSE
