SPECIFICATION FairSpec
CONSTANTS
  r1 = r1
  Reader <- OneReader
  MAX_SEQ_NUMBER = 4
  MaxMsgs = 1
  Rediscovery = TRUE
INVARIANT TypeOK
INVARIANT NothingLost
INVARIANT AckedIsDelivered
INVARIANT OnlyGoneIsDeclared
INVARIANT PositionsBacked
INVARIANT CacheEndsAtSeq
INVARIANT ReliableDelivery
PROPERTY EventuallyDelivered
CHECK_DEADLOCK FALSE
