CONSTANTS
  W = W
  D = D
  T = T
  r1 = r1
  r2 = r2
  Receiver <- MCReceiver
  VtimeRange = 8
  FirstVtime = 5
  whc_low = 0
  whc_high = 0
  MaxOps <- MCMaxOps
SPECIFICATION Spec
CHECK_DEADLOCK FALSE
INVARIANT WriterOutlivesUse
