CONSTANTS
  t1 = t1
  t2 = t2
  r1 = r1
  Receiver <- MCReceiver
  Reader <- MCReader
  max_samples = 2
  MaxElems = 5
SPECIFICATION FairSpec
CHECK_DEADLOCK FALSE
INVARIANT TypeOK
INVARIANT NofSamplesExact
INVARIANT HandledAsEnqueued
PROPERTY EventuallyHandled
