SPECIFICATION FairSpec
CONSTANTS
  m1 = m1
  m2 = m2
  m3 = m3
  s1 = s1
  s2 = s2
  NoMsg = NoMsg
  Msgs <- TwoMsgs
  NoMetadata <- LastBroken
  Slots <- OneSlot
  AckWait = 4
  HandlerTimeout = 3
  MaxDeliver = 2
  Grace = 1
  BeatsLost = TRUE
CHECK_DEADLOCK FALSE
PROPERTIES EveryMessageSettles
