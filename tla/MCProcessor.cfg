CONSTANTS
  p = p
  q = q
  Slot <- Slots
  BatchSize <- Batches
  CheckpointEvery = 2
  MaxPosition = 3
SPECIFICATION FairSpec
INVARIANTS
  CheckpointCovers
  HeadIsDurable
  RedeliveryBounded
PROPERTIES
  CertifiesHead
  Progresses
CHECK_DEADLOCK FALSE
