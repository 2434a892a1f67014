SPECIFICATION FairSpec
CONSTANTS
  t1 = t1
  t2 = t2
  p1 = p1
  p2 = p2
  s1 = s1
  s2 = s2
  NoTopic = NoTopic
  Topics <- TwoTopics
  Publishers <- TwoPubs
  Stoppers <- TwoStoppers
  MaxCycles = 2
  Topic = "t"
  Tokens <- ThreeTokens
  MaxTokens = 4
  Streams <- SmallStreams
INVARIANTS PendingExact ShutdownNilIsFlushed NoLeakedConn StreamsPatched
PROPERTIES ShutdownReturns
