SPECIFICATION ClientsFairSpec
CONSTANTS
  opener = opener
  poller = poller
  c1 = c1
  s1 = s1
  x1 = x1
  Watched <- OnlyPoller
  NoEntry = NoEntry
  Nobody = Nobody
  Opener = opener
  Poller = poller
  Recorders <- AllRecorders
  Callers <- OneCaller
  Stoppers <- OneStopper
  MaxStops = 2
  Closers <- OneCloser
  MaxCloses = 2
  MetricNames <- ValidNames
  Kinds <- AllKinds
  Summed <- PoolSeries
  Uint32 = 2
  PoolSize = 1
  MaxTimeouts = 2
  Errors <- SomeErrors
  Inputs <- SomeInputs
  MaxCommands = 3
  Chains <- FactSets
CHECK_DEADLOCK FALSE
INVARIANTS BindExact PoolSettles CallsReported
PROPERTIES NothingAfterStop EverythingReturns
