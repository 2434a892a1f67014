SPECIFICATION FairSpec
CONSTANTS
  w1 = w1
  w2 = w2
  w3 = w3
  Nobody = Nobody
  Workers <- ThreeWorkers
  Timeout = 2
  Buffer = 2
  Grace = 1
  MaxFence = 3
INVARIANTS ReplicaExclusion
PROPERTIES ImplementsExclusiveJob LockHeals
