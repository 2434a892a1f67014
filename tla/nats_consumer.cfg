SPECIFICATION Spec
CONSTANTS
  m1 = m1
  m2 = m2
  m3 = m3
  s1 = s1
  s2 = s2
  NoMsg = NoMsg
  Msgs <- ThreeMsgs
  NoMetadata <- NoneBroken
  Slots <- TwoSlots
  AckWait = 4
  HandlerTimeout = 3
  MaxDeliver = 2
  Grace = 1
  BeatsLost = FALSE
SYMMETRY Symmetry
CHECK_DEADLOCK FALSE
INVARIANTS NoConcurrentRedelivery NoBeatAfterSettle
PROPERTIES ImplementsDelivery
