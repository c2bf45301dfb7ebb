CONSTANTS
  Command = {c1, c2}
  Free = free
SPECIFICATION FairSpec
INVARIANTS
  VerdictIsOurs
  NobodyStranded
PROPERTIES
  CommandsFinish
  
  RetriesResume
CHECK_DEADLOCK FALSE
