SPECIFICATION FairSpec
CONSTANTS
  w1 = w1
  w2 = w2
  Writer <- MCWriter
  MaxRevision = 3
  MaxLosses = 1
INVARIANTS TypeOK PageFaithful LogGapFree
PROPERTIES PageMovesForward PageCatchesUp
CHECK_DEADLOCK FALSE
