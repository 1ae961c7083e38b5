SPECIFICATION Spec
CONSTANTS
  k1 = k1
  k2 = k2
  None = None
  r1 = r1
  r2 = r2
  Key <- MCKey
  Size <- MCSize
  Reader <- TwoReaders
  Configs <- AllConfigs
  MAX_SEQ_NUMBER = 5
INVARIANT TypeOK
INVARIANT AssertsHold
INVARIANT SeqAdminExact
INVARIANT IndexExact
INVARIANT UnackedBytesExact
PROPERTY ImplementsHistoryCache
SYMMETRY Symmetry
CHECK_DEADLOCK FALSE
