SPECIFICATION Spec
CONSTANTS
  Populations <- FourReaders
  MAX_SEQ_NUMBER = 3
INVARIANTS TypeOK SummaryExact HeartbeatAsserts HeartbeatReachesUnacked
 
