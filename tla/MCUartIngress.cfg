SPECIFICATION FairSpec
CONSTANTS
  FifoLen = 3
  RingLen = 6
  QueueLen = 2
  ChunkLen = 2
  MaxBytes = 12
  MaxInWindow = 1
CHECK_DEADLOCK FALSE
INVARIANTS
  NothingLeftBehind
  SplicedUntilHandled
PROPERTIES
  RingDrains
