SPECIFICATION FairSpec
CONSTANTS
  e1 = e1
  g1 = g1
  s1 = s1
  s2 = s2
  Nobody = Nobody
  Poller = Poller
  Entries <- OneEntry
  InDefault <- NoEntries
  Getters <- OneGetter
  Stoppers <- TwoStoppers
  MaxRetries = 1
  MaxVersion = 2
  BadVersions <- Bad
  InitialFetch = TRUE
INVARIANTS FailureFlagged StopMeansClosed
PROPERTIES CacheGoesForward CallsReturn PollingHeals
