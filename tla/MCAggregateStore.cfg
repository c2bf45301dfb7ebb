CONSTANTS
  Client = {c1, c2}
  MaxEvents = 2
  MaxQueue = 2
  MaxSnapshots = 1
SPECIFICATION Spec
SYMMETRY Symmetry
INVARIANTS
  
  EventsOnce
  QueuedIsUnsaved
PROPERTIES
  LoadsExact
CHECK_DEADLOCK FALSE
