CONSTANTS
  r0 = r0
  r1 = r1
  Reader <- MCReader
  TLReader <- MCTLReader
  ReliableReader <- MCTLReader
  MAX_SEQ_NUMBER = 4
  MaxStale = 1
  Setups <- AllSetups
SPECIFICATION FairSpec
CHECK_DEADLOCK FALSE
INVARIANT TypeOK
INVARIANT DefragExact
INVARIANT FragmentsAddUp
INVARIANT EarlierSamplesKept
INVARIANT NackFragExact
INVARIANT AcknowledgedIsQueued
PROPERTY EventuallyQueued
