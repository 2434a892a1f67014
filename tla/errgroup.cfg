SPECIFICATION GroupsFairSpec
CONSTANTS
  p = p
  c = c
  d = d
  t1 = t1
  t2 = t2
  u1 = u1
  v1 = v1
  NoGroup = NoGroup
  NoTask = NoTask
  Main = Main
  NotGiven = NotGiven
  Groups <- ThreeGroups
  Tasks <- FourTasks
  Parent <- Parents
  Owner <- Owners
  GroupOf <- GivenTo
  Limits <- ZeroAndOne
  DefaultMaxConcurrency = 20
CHECK_DEADLOCK FALSE
INVARIANTS WaitTells
PROPERTIES GroupsEnd
