SPECIFICATION Spec
CONSTANTS
  a1 = a1
  a2 = a2
  b1 = b1
  NoCall = NoCall
  Starts <- TwoStarts
  Shutdowns <- OneShutdown
  N = 2
  MaxDeliver = 2
CHECK_DEADLOCK FALSE
INVARIANTS HandledBeforeExhausted
