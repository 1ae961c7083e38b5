CONSTANTS
  r0 = r0
  r1 = r1
  Reader <- MCReader
  TLReader <- MCTLReader
  ReliableReader <- MCTLReader
  MAX_SEQ_NUMBER = 4
  MaxStale = 1
  Setups <- AllSetups
SPECIFICATION Spec
CHECK_DEADLOCK FALSE
INVARIANT NotifiedWhenComplete
