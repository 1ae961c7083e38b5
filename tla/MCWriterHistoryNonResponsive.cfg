SPECIFICATION Spec
CONSTANTS
  k1 = k1
  k2 = k2
  None = None
  r1 = r1
  r2 = r2
  Key <- MCKey
  Size <- MCSize
  Reader <- TwoReaders
  Configs <- ThrottledTransientLocalConfig
  MAX_SEQ_NUMBER = 7
INVARIANT AssertsHold
CHECK_DEADLOCK FALSE
