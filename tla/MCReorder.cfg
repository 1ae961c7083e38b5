SPECIFICATION Spec
CONSTANTS
  MaxSeq = 5
  MaxDelivered = 5
  Buffers <- AnyBuffers
  GapMins <- FromOneIfSmall
INVARIANTS TypeOK TreeExact IntervalsBacked NackmapExact
PROPERTIES PreferLowest ImplementsInOrderDelivery
CHECK_DEADLOCK FALSE
