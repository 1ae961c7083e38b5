SPECIFICATION Spec
CONSTANTS
  MaxSeq = 7
  MaxDelivered = 7
  Buffers <- TwoSampleBuffer
  GapMins <- Anywhere
INVARIANT NothingSkipped
CHECK_DEADLOCK FALSE
